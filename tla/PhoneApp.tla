------------------------------ MODULE PhoneApp ------------------------------
(***************************************************************************)
(* The phone: its views and WatchServer on top of NewsApi.                 *)
(*                                                                         *)
(* Views open on the main thread and ask NewsApi.  Messages of the watch   *)
(* arrive on a thread of WatchConnectivity, which dispatches their handling*)
(* onto the main queue (Network/WatchServer.swift).  The main thread is    *)
(* cut into smaller steps than in AsyncRequest: a block runs, then the     *)
(* message it brought is handled, then the bodies of the callbacks it      *)
(* called run in order.  Nothing else happens on the main thread until     *)
(* these are done ("MainIsFree"), while other threads go on.               *)
(*                                                                         *)
(* A forced cast that fails ends the process: nothing happens after it.    *)
(***************************************************************************)
EXTENDS Naturals, Sequences

CONSTANTS
  Countries, SourceIds, NoId, Nil,   \* see NewsApi
  HomeCountry,   \* "us", the country of the phone's own headlines
  MaxMessages,   \* bound: messages the watch sends
  MaxOpens       \* bound: views opened

ASSUME HomeCountryAssumption == HomeCountry \in Countries

\* No source is named like a country.  This is an assumption about the service
\* that the code relies on and does not check: without it NewsApi may hand one of
\* the two the list of the other (see NewsApi!AnswersItsQuery), and the phone is
\* not the service it is shown to be here.
ASSUME KeysAssumption == NoId \in SourceIds /\ Countries \cap SourceIds = {}

ASSUME NilAssumption == Nil \notin Seq(Nat \ {0}) /\ Nil \notin Nat

ASSUME BoundsAssumption == MaxMessages \in Nat /\ MaxOpens \in Nat

VARIABLES
  mainQueue, pending, outcome, registered, called,          \* see AsyncRequest
  sourcesResult, articlesResult, made, downloading, asked,  \* see NewsApi
  received,   \* the messages of the watch, in the order of their arrival
  turn,       \* the message whose block runs now, or Nil
  consumer,   \* consumer[n]: what the n-th callback does with the result
  ran,        \* how many of the calls have run their body
  replies,    \* replies[m]: the payloads sent back for message m
  sourceList, \* the list the sources view shows, or Nil
  loading,    \* the messages whose image is being retrieved
  crashed     \* the process has ended in a trap

asyncVars == <<mainQueue, pending, outcome, registered, called>>
apiVars == <<asyncVars, sourcesResult, articlesResult, made, downloading, asked>>
viewVars == <<sourceList>>
watchVars == <<received, replies, loading>>
vars == <<apiVars, viewVars, watchVars, turn, consumer, ran, crashed>>

Messages == 1 .. MaxMessages

\* No bound of NewsApi is ever reached: every view and every message makes at
\* most one request and one callback, and dispatches at most three blocks.
MaxCalls == MaxMessages + MaxOpens

Api == INSTANCE NewsApi WITH
  Work <- Messages, MaxRequests <- MaxCalls, MaxCallbacks <- MaxCalls,
  MaxQueue <- 3 * MaxCalls

\* The messages WatchServer tells apart.  Nil is a field that is missing or
\* cannot be decoded; the limit of the headlines is part of their country.  The
\* URL of an image names one that can be encoded as JPEG, or one that cannot.
Contents ==
  [request : {"sources", "unknown"}]
    \cup [request : {"articles"}, source : SourceIds \cup {Nil}]
    \cup [request : {"headlines"}, country : Countries \cup {Nil}]
    \cup [request : {"image"}, url : {"url", "noJpeg", Nil}]

\* What a callback does: fill a view or reply to a message.
SourcesView == [to |-> "sourcesView"]
ArticlesView == [to |-> "articlesView"]
Reply(m) == [to |-> "watch", message |-> m]

Init ==
  /\ Api!Init
  /\ received = <<>>
  /\ turn = Nil
  /\ consumer = <<>>
  /\ ran = 0
  /\ replies = [m \in Messages |-> <<>>]
  /\ sourceList = Nil
  /\ loading = {}
  /\ crashed = FALSE

MainIsFree == ~crashed /\ turn = Nil /\ ran = Len(called)

-----------------------------------------------------------------------------
(* The views.                                                              *)

Opened(view) ==
  /\ MainIsFree
  /\ Len(SelectSeq(consumer, LAMBDA c : c.to # "watch")) < MaxOpens
  /\ consumer' = Append(consumer, view)
  /\ UNCHANGED <<viewVars, watchVars, turn, ran, crashed>>

\* HeadlineViewController.viewDidLoad
OpenHeadlines == Opened(ArticlesView) /\ Api!DownloadHeadlines(HomeCountry)

\* SourcesViewController.viewDidLoad
OpenSources == Opened(SourcesView) /\ Api!GetSources

\* A tap on a row of the sources view and ArticleViewController.viewDidLoad
OpenArticles(id) ==
  /\ sourceList # Nil /\ sourceList.list = "full"
  /\ Opened(ArticlesView)
  /\ Api!DownloadArticles(id)

-----------------------------------------------------------------------------
(* The watch server.                                                       *)

\* session(_:didReceiveMessage:replyHandler:), before the dispatch
ReceiveMessage(c) ==
  /\ ~crashed
  /\ Len(received) < MaxMessages
  /\ received' = Append(received, c)
  /\ Api!DispatchOther(Len(received) + 1)
  /\ UNCHANGED <<viewVars, replies, loading, turn, consumer, ran, crashed>>

\* replyHandler is called with a payload.
Replied(m, payload) == [replies EXCEPT ![m] = Append(@, payload)]

\* The dispatched block, one disjunct for each case of its switch.
Asked == consumer' = Append(consumer, Reply(turn)) /\ UNCHANGED <<replies, loading>>

HandleSources(c) == c.request = "sources" /\ Api!GetSources /\ Asked

HandleArticles(c) ==
  /\ c.request = "articles"
  /\ c.source # Nil
  /\ Api!GetArticles(c.source)
  /\ Asked

HandleHeadlines(c) ==
  /\ c.request = "headlines"
  /\ c.country # Nil
  /\ Api!GetHeadlines(c.country)
  /\ Asked

HandleImage(c) ==
  /\ c.request = "image"
  /\ c.url # Nil
  /\ loading' = loading \cup {turn}
  /\ UNCHANGED <<apiVars, consumer, replies>>

HandleUnknown(c) ==
  /\ c.request = "unknown"
  /\ replies' = Replied(turn, [of |-> [what |-> "unknown"], list |-> "error"])
  /\ UNCHANGED <<apiVars, consumer, loading>>

\* The guards that return without a reply.
HandleMalformed(c) ==
  /\ \/ c.request = "articles" /\ c.source = Nil
     \/ c.request = "headlines" /\ c.country = Nil
     \/ c.request = "image" /\ c.url = Nil
  /\ UNCHANGED <<apiVars, consumer, replies, loading>>

HandleMessage ==
  /\ ~crashed /\ turn # Nil
  /\ turn' = Nil
  /\ LET c == received[turn] IN
       \/ HandleSources(c) \/ HandleArticles(c) \/ HandleHeadlines(c)
       \/ HandleImage(c) \/ HandleUnknown(c) \/ HandleMalformed(c)
  /\ UNCHANGED <<viewVars, received, ran, crashed>>

\* What goes back for an image.  The result of jpegData is put into the reply as
\* it is, though it is nil for an image that cannot be encoded.
ImageReply(c) ==
  [of |-> [what |-> "image", url |-> c.url],
   list |-> IF c.url = "noJpeg" THEN "nil" ELSE "full"]

\* Kingfisher has the image, or it fails or is not resized; the reply is sent in
\* its callback.
ImageRetrieved(m) ==
  /\ ~crashed
  /\ m \in loading
  /\ loading' = loading \ {m}
  /\ \/ replies' = Replied(m, ImageReply(received[m]))
     \/ UNCHANGED replies
  /\ UNCHANGED <<apiVars, viewVars, received, turn, consumer, ran, crashed>>

-----------------------------------------------------------------------------
(* The main thread and the network.                                        *)

\* The next block of the main queue.
RunBlock ==
  /\ MainIsFree
  /\ Api!RunMain
  /\ turn' = IF Api!Async!NextBlockIs("other") THEN Head(mainQueue).work ELSE Nil
  /\ UNCHANGED <<viewVars, watchVars, consumer, ran, crashed>>

NextCall == called[ran + 1]
NextConsumer == consumer[NextCall.cb]
BodyRuns == ~crashed /\ turn = Nil /\ ran < Len(called) /\ ran' = ran + 1

\* The body of processArticles: "anyArticles as! [Article]"
FillArticles ==
  /\ BodyRuns
  /\ NextConsumer.to = "articlesView"
  /\ crashed' = (NextCall.outcome.result = Nil)
  /\ UNCHANGED <<apiVars, viewVars, watchVars, turn, consumer>>

\* The body in SourcesViewController: nothing happens without sources.
FillSources ==
  /\ BodyRuns
  /\ NextConsumer.to = "sourcesView"
  /\ sourceList' = IF NextCall.outcome.result = Nil THEN sourceList
                   ELSE NextCall.outcome.result
  /\ UNCHANGED <<apiVars, watchVars, turn, consumer, crashed>>

\* Mutant: the reply goes to the handler of the latest message.
SendReply_LatestHandler ==
  /\ BodyRuns
  /\ NextConsumer.to = "watch"
  /\ replies' = IF NextCall.outcome.result = Nil THEN replies
                ELSE Replied(Len(received), NextCall.outcome.result)
  /\ UNCHANGED <<apiVars, viewVars, received, loading, turn, consumer, crashed>>

\* Mutant: an empty list is taken for a failure.
SendReply_NotEmpty ==
  /\ BodyRuns
  /\ NextConsumer.to = "watch"
  /\ replies' = IF NextCall.outcome.result = Nil THEN replies
                ELSE IF NextCall.outcome.result.list = "empty" THEN replies
                ELSE Replied(NextConsumer.message, NextCall.outcome.result)
  /\ UNCHANGED <<apiVars, viewVars, received, loading, turn, consumer, crashed>>

\* Mutant: the test of the result is left out, and nil is replied.
SendReply_NilToo ==
  /\ BodyRuns
  /\ NextConsumer.to = "watch"
  /\ replies' = Replied(NextConsumer.message, NextCall.outcome.result)
  /\ UNCHANGED <<apiVars, viewVars, received, loading, turn, consumer, crashed>>

\* The bodies in WatchServer: no reply without a result.
SendReply ==
  /\ BodyRuns
  /\ NextConsumer.to = "watch"
  /\ replies' = IF NextCall.outcome.result = Nil THEN replies
                ELSE Replied(NextConsumer.message, NextCall.outcome.result)
  /\ UNCHANGED <<apiVars, viewVars, received, loading, turn, consumer, crashed>>

FinishDownload(r, a) ==
  /\ ~crashed
  /\ Api!FinishDownload(r, a)
  /\ UNCHANGED <<viewVars, watchVars, turn, consumer, ran, crashed>>

MainThread == RunBlock \/ HandleMessage \/ FillArticles \/ FillSources \/ SendReply

Next ==
  \/ OpenHeadlines
  \/ OpenSources
  \/ \E id \in SourceIds : OpenArticles(id)
  \/ \E c \in Contents : ReceiveMessage(c)
  \/ \E m \in Messages : ImageRetrieved(m)
  \/ \E r \in Api!Requests, a \in Api!Answers : FinishDownload(r, a)
  \/ MainThread

\* The main thread keeps running, downloads and image retrievals end.  The
\* user and the watch may do nothing.
Spec ==
  /\ Init /\ [][Next]_vars
  /\ WF_vars(MainThread)
  /\ \A r \in Api!Requests : WF_vars(\E a \in Api!Answers : FinishDownload(r, a))
  /\ \A m \in Messages : WF_vars(ImageRetrieved(m))

-----------------------------------------------------------------------------
(* Properties.                                                             *)

\* The query a well-formed message stands for.
QueryOf(c) ==
  CASE c.request = "sources" -> Api!SourcesQuery
    [] c.request = "articles" -> Api!ArticlesQuery(c.source)
    [] c.request = "headlines" -> Api!HeadlinesQuery(c.country)
    [] c.request = "image" -> [what |-> "image", url |-> c.url]
    [] c.request = "unknown" -> [what |-> "unknown"]

Questions == {QueryOf(c) : c \in Contents}

Payloads == [of : Questions, list : {"empty", "full", "error", "nil"}]

TypeOK ==
  /\ Api!TypeOK
  /\ received \in Seq(Contents)
  /\ turn \in Messages \cup {Nil}
  /\ consumer \in Seq({SourcesView, ArticlesView} \cup {Reply(m) : m \in Messages})
  /\ Len(consumer) = Len(registered)
  /\ ran \in 0 .. Len(called)
  /\ replies \in [Messages -> Seq(Payloads)]
  /\ sourceList \in Payloads \cup {Nil}
  /\ loading \subseteq Messages
  /\ crashed \in BOOLEAN

(* To the watch the phone is a service: a message is replied to at most   *)
(* once, as WatchConnectivity demands, with an answer to its question, and *)
(* equal questions alike for as long as the process lives, though the watch*)
(* and the views share requests, callbacks of both run from the same blocks*)
(* and the cache keeps what it has once told.                              *)
Service == INSTANCE WatchService WITH
  questions <- [m \in 1 .. Len(received) |-> QueryOf(received[m])],
  ended <- crashed

ImplementsService == Service!Spec

(* A message the phone understands is replied to as soon as its download   *)
(* has succeeded, whoever started it.  A download that failed, an image    *)
(* that cannot be had and a crash leave the watch without a word.          *)
Fails(m) ==
  \E n \in 1 .. Len(consumer) :
    /\ consumer[n] = Reply(m)
    /\ pending[registered[n]] = Nil
    /\ outcome[registered[n]].result = Nil

Downloadable(c) ==
  /\ c.request \in {"sources", "articles", "headlines"}
  /\ c.request = "articles" => c.source \notin {Nil, NoId}
  /\ c.request = "headlines" => c.country # Nil

MessageIsAnswered ==
  \A m \in Messages :
    (m <= Len(received) /\ Downloadable(received[m]))
      ~> (replies[m] # <<>> \/ Fails(m) \/ crashed)

(* ArticleViewBase.swift:32, "anyArticles as! [Article]", asserts that an  *)
(* article list gets its articles.                                         *)
ArticleViewsGetArticles == ~crashed

=============================================================================
