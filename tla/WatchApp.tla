------------------------------ MODULE WatchApp ------------------------------
(***************************************************************************)
(* The watch extension: WatchClient and the interface controllers that use *)
(* it, on the AsyncRequest of the watch's own process.                     *)
(*                                                                         *)
(* Request 1 is WatchClient.asyncSession, the promise of a session.  The   *)
(* n-th call of a WatchClient getter makes request n + 1, waits for the    *)
(* session by a withResult on request 1, and sends its message from that   *)
(* callback.  Controllers wait for request n + 1.  The phone is any peer   *)
(* that answers a message, or does not and lets it fail.                   *)
(*                                                                         *)
(* As in PhoneApp the main thread takes small steps: a block, what it left *)
(* to do ("due"), the bodies of the callbacks it called.                   *)
(***************************************************************************)
EXTENDS Naturals, Sequences

CONSTANTS
  Nil,       \* Swift's nil
  Pages,     \* the number of headline pages, 3 in the storyboard
  MaxCalls,  \* bound: calls of WatchClient's getters
  MaxWaits,  \* bound: calls of withResult
  MaxPresentations  \* bound: presentations of the headline pages

ASSUME PagesAssumption == Pages \in Nat \ {0}

\* nil is no array of callbacks.
ASSUME NilAssumption == Nil \notin Seq(Nat \ {0})

ASSUME BoundsAssumption == MaxCalls \in Nat

VARIABLES
  mainQueue, pending, outcome, registered, called,  \* see AsyncRequest
  calls,     \* calls[n]: which getter the n-th call is
  consumer,  \* consumer[k]: what the k-th callback is for
  due,       \* what the main thread has to do before its next block
  ran,       \* how many of the calls have run their body
  session,   \* "activating", "activated", then "reachable" or "unreachable"
  sent,      \* history: the calls whose message was sent, in order
  flight,    \* the messages whose reply or error has not come
  dropped,   \* the calls whose reply was of no use and was dropped
  pages,     \* headline pages <<call, page>> that are not awake yet
  shown,     \* the lists on show, of sources or of articles
  crashed    \* the process has ended in a trap: "no", "image", "page" or "archive"

asyncVars == <<mainQueue, pending, outcome, registered, called>>
wireVars == <<sent, flight, dropped>>
vars == <<asyncVars, wireVars, calls, consumer, due, ran, session, pages, shown, crashed>>

Session == 1
RequestOf(n) == n + 1

Getters == {"sources", "articles", "headlines", "image"}

\* The results: a session, or what a getter returns, with the length that
\* matters for the headlines only.
Result(of, length) == [of |-> of, length |-> length]
Results == {Result(g, 1) : g \in Getters \cup {"session"}}
             \cup {Result("headlines", k) : k \in 0 .. Pages}

Async == INSTANCE AsyncRequest WITH
  Requests <- 1 .. MaxCalls + 1, Outcomes <- Results \cup {Nil}, NoOutcome <- Nil,
  Work <- {"activation"}, MaxCallbacks <- MaxWaits, MaxQueue <- MaxWaits + MaxCalls + 2

\* What a callback is for, and what else the main thread may have to do.
Send(n)    == [to |-> "send", call |-> n]
Fill(n)    == [to |-> "fill", call |-> n]
Page(n, i) == [to |-> "page", call |-> n, page |-> i]
Activation == [to |-> "activation"]

Init ==
  /\ Async!Init
  /\ calls = <<>> /\ consumer = <<>> /\ due = <<>> /\ ran = 0
  /\ session = "activating"
  /\ sent = <<>> /\ flight = {} /\ dropped = {}
  /\ pages = {} /\ shown = {}
  /\ crashed = "no"

Alive == crashed = "no"
MainIsFree == Alive /\ due = <<>> /\ ran = Len(called)

-----------------------------------------------------------------------------
(* WatchClient on the main thread.                                         *)

\* A getter: a new request, and a callback on the session that will send the
\* message.  "next" is the caller's own withResult, which follows at once.
Get(getter, next) ==
  /\ Len(calls) < MaxCalls
  /\ Len(registered) + Len(next) < MaxWaits
  /\ calls' = Append(calls, getter)
  /\ Async!WithResult(Session)
  /\ consumer' = Append(consumer, Send(Len(calls) + 1))
  /\ due' = next

\* A withResult on the request of call c.call.
Wait(c) ==
  /\ Async!WithResult(RequestOf(c.call))
  /\ consumer' = Append(consumer, c)

\* The thread of WatchConnectivity reports the end of the activation, which
\* began when the first getter touched the one WatchClient.
ActivationCompletes ==
  /\ Alive
  /\ session = "activating" /\ calls # <<>>
  /\ session' = "activated"
  /\ Async!DispatchOther("activation")
  /\ UNCHANGED <<wireVars, calls, consumer, due, ran, pages, shown, crashed>>

\* Mutant: the session is never handed to those who wait for it.
RunActivation_NotSet ==
  /\ Alive
  /\ due = <<Activation>>
  /\ due' = <<>>
  /\ session' \in {"reachable", "unreachable"}
  /\ UNCHANGED <<asyncVars, wireVars, calls, consumer, ran, pages, shown, crashed>>

\* What activationDidCompleteWith does on the main queue.
RunActivation ==
  /\ Alive
  /\ due = <<Activation>>
  /\ due' = <<>>
  /\ \/ session' = "reachable" /\ Async!SetResult(Session, Result("session", 1))
     \/ session' = "unreachable" /\ UNCHANGED asyncVars
  /\ UNCHANGED <<wireVars, calls, consumer, ran, pages, shown, crashed>>

\* The second half of getter().withResult.
RunDue ==
  /\ Alive
  /\ due # <<>> /\ due # <<Activation>>
  /\ Wait(Head(due))
  /\ due' = Tail(due)
  /\ UNCHANGED <<wireVars, calls, ran, session, pages, shown, crashed>>

-----------------------------------------------------------------------------
(* The controllers.                                                        *)

Opens(getter) ==
  /\ MainIsFree
  /\ Get(getter, <<Fill(Len(calls) + 1)>>)
  /\ UNCHANGED <<wireVars, ran, session, pages, shown, crashed>>

\* SourceInterfaceController.awake
OpenSources == Opens("sources")

\* A tap on a source and ArticleInterfaceController.awake
OpenArticles == "sources" \in shown /\ Opens("articles")

\* A tap on an article with an image: ArticleDetailInterfaceController.awake
OpenDetail == "articles" \in shown /\ Opens("image")

\* The headline pages may be presented once more.
MayPresent ==
  Len(SelectSeq(calls, LAMBDA getter : getter = "headlines")) < MaxPresentations

\* Mutant: the pages count from zero.
OpenHeadlines_ZeroBased ==
  /\ MainIsFree /\ MayPresent
  /\ Get("headlines", <<>>)
  /\ pages' = pages \cup {<<Len(calls) + 1, i>> : i \in 0 .. Pages - 1}
  /\ UNCHANGED <<wireVars, ran, session, shown, crashed>>

\* PrimaryInterfaceController.contextsForSegue: one request for all pages
OpenHeadlines ==
  /\ MainIsFree /\ MayPresent
  /\ Get("headlines", <<>>)
  /\ pages' = pages \cup {<<Len(calls) + 1, i>> : i \in 1 .. Pages}
  /\ UNCHANGED <<wireVars, ran, session, shown, crashed>>

\* HeadlineBaseController.awake, for each page when the system makes it
AwakePage(n, i) ==
  /\ MainIsFree
  /\ <<n, i>> \in pages
  /\ pages' = pages \ {<<n, i>>}
  /\ Wait(Page(n, i))
  /\ UNCHANGED <<wireVars, calls, due, ran, session, shown, crashed>>

\* What the user and the system do to the controllers.
Controllers ==
  \/ OpenSources \/ OpenArticles \/ OpenDetail \/ OpenHeadlines
  \/ \E n \in 1 .. MaxCalls, i \in 1 .. Pages : AwakePage(n, i)

-----------------------------------------------------------------------------
(* Callback bodies, in the order of the calls.                             *)

NextResult == called[ran + 1].outcome
NextConsumer == consumer[called[ran + 1].cb]

BodyRuns(to) ==
  /\ Alive /\ due = <<>> /\ ran < Len(called)
  /\ NextConsumer.to = to
  /\ ran' = ran + 1

\* The session is there: sendMessage.
SendMessage ==
  /\ BodyRuns("send")
  /\ sent' = Append(sent, NextConsumer.call)
  /\ flight' = flight \cup {NextConsumer.call}
  /\ UNCHANGED <<asyncVars, dropped, calls, consumer, due, session, pages, shown, crashed>>

\* A table or an image: tables ignore nil, imageFromPhone does not.
FillView ==
  /\ BodyRuns("fill")
  /\ LET getter == calls[NextConsumer.call] IN
       /\ shown' = IF NextResult = Nil THEN shown
                  ELSE shown \cup ({getter} \cap {"sources", "articles"})
       /\ crashed' = IF getter = "image" /\ NextResult = Nil THEN "image" ELSE "no"
  /\ UNCHANGED <<asyncVars, wireVars, calls, consumer, due, session, pages>>

\* A headline page without a result, with a list that is too short for it,
\* with an article, and with an article that has an image.
FillPage ==
  /\ BodyRuns("page")
  /\ \/ /\ NextResult = Nil
        /\ UNCHANGED <<asyncVars, calls, consumer, due, crashed>>
     \/ /\ NextResult # Nil /\ NextResult.length < NextConsumer.page
        /\ crashed' = "page"
        /\ UNCHANGED <<asyncVars, calls, consumer, due>>
     \/ /\ NextResult # Nil /\ NextResult.length >= NextConsumer.page
        /\ UNCHANGED <<asyncVars, calls, consumer, due, crashed>>
     \/ /\ NextResult # Nil /\ NextResult.length >= NextConsumer.page
        /\ Get("image", <<Fill(Len(calls) + 1)>>)
        /\ UNCHANGED crashed
  /\ UNCHANGED <<wireVars, session, pages, shown>>

RunBlock ==
  /\ MainIsFree
  /\ Async!RunMain
  /\ due' = IF Async!NextBlockIs("other") THEN <<Activation>> ELSE <<>>
  /\ UNCHANGED <<wireVars, calls, consumer, ran, session, pages, shown, crashed>>

-----------------------------------------------------------------------------
(* What comes back, on a thread of WatchConnectivity.                      *)

\* One of the two handlers of the message is called, once.
Answered(n) ==
  /\ Alive
  /\ n \in flight
  /\ flight' = flight \ {n}
  /\ UNCHANGED <<sent, calls, consumer, due, ran, session, pages, shown, crashed>>

\* Mutant: the error is only printed.
MessageFails_Printed(n) ==
  /\ Answered(n)
  /\ UNCHANGED <<asyncVars, dropped>>

\* errorHandler: WatchConnectivity gave up, or the phone never replied.
MessageFails(n) ==
  /\ Answered(n)
  /\ Async!SetResult(RequestOf(n), Nil)
  /\ UNCHANGED dropped

\* Mutant: the handler resolves the request of the latest call.
ReplyArrives_Latest(n, k) ==
  /\ Answered(n)
  /\ Async!SetResult(RequestOf(Len(calls)), Result(calls[n], k))
  /\ UNCHANGED dropped

\* replyHandler with the getter's payload, of length k.
ReplyArrives(n, k) ==
  /\ Answered(n)
  /\ Async!SetResult(RequestOf(n), Result(calls[n], k))
  /\ UNCHANGED dropped

\* replyHandler with a payload that cannot be decoded: nil is passed on, but
\* for headlines the handler returns.
GarbageArrives(n) ==
  /\ Answered(n)
  /\ IF calls[n] = "headlines"
     THEN dropped' = dropped \cup {n} /\ UNCHANGED asyncVars
     ELSE Async!SetResult(RequestOf(n), Nil) /\ UNCHANGED dropped

\* replyHandler with an archive of something else: the forced casts of the
\* decoding initializers, or the forced unwrap of keyedUnarchive, end the process.
ArchiveTraps(n) ==
  /\ Alive
  /\ n \in flight /\ calls[n] # "image"
  /\ crashed' = "archive"
  /\ UNCHANGED <<asyncVars, wireVars, calls, consumer, due, ran, session, pages, shown>>

\* replyHandler with a reply to something else: it returns.
StrangeReplyArrives(n) ==
  /\ Answered(n)
  /\ dropped' = dropped \cup {n}
  /\ UNCHANGED asyncVars

Lengths(getter) == IF getter = "headlines" THEN 0 .. Pages ELSE {1}

Comes(n) ==
  \/ MessageFails(n)
  \/ GarbageArrives(n) \/ ArchiveTraps(n) \/ StrangeReplyArrives(n)
  \/ n \in flight /\ \E k \in Lengths(calls[n]) : ReplyArrives(n, k)

MainThread == RunActivation \/ RunDue \/ SendMessage \/ FillView \/ FillPage \/ RunBlock

Next ==
  \/ ActivationCompletes
  \/ Controllers
  \/ \E n \in 1 .. MaxCalls : Comes(n)
  \/ MainThread

\* The main thread keeps running, and WatchConnectivity ends the activation
\* and every message, by a reply or by an error.  The user may do nothing.
Spec ==
  /\ Init /\ [][Next]_vars
  /\ WF_vars(MainThread)
  /\ WF_vars(ActivationCompletes)
  /\ \A n \in 1 .. MaxCalls : WF_vars(Comes(n))

-----------------------------------------------------------------------------
(* Properties.                                                             *)

TypeOK ==
  /\ Async!TypeOK
  /\ calls \in Seq(Getters) /\ Len(calls) <= MaxCalls
  /\ \A k \in 1 .. Len(consumer) :
       consumer[k].to \in {"send", "fill", "page"} /\ consumer[k].call \in 1 .. Len(calls)
  /\ Len(consumer) = Len(registered)
  /\ Len(due) <= 1
  /\ ran \in 0 .. Len(called)
  /\ session \in {"activating", "activated", "reachable", "unreachable"}
  /\ sent \in Seq(1 .. Len(calls))
  /\ flight \subseteq 1 .. Len(calls) /\ dropped \subseteq 1 .. Len(calls)
  /\ pages \subseteq (1 .. Len(calls)) \X (1 .. Pages)
  /\ shown \subseteq {"sources", "articles"}
  /\ crashed \in {"no", "image", "page", "archive"}

(* Messages are sent in the order of the getter calls and once each, those *)
(* made before the session was there as well as those made after.          *)
SentInOrder ==
  \A i, j \in 1 .. Len(sent) : i < j => sent[i] < sent[j]

\* The message of call n, or its answer, is still on its way.
UnderWay(n) ==
  \/ \E k \in 1 .. Len(consumer) :
       /\ consumer[k] = Send(n)
       /\ \A i \in 1 .. ran : called[i].cb # k
  \/ n \in flight
  \/ \E i \in 1 .. Len(mainQueue) :
       mainQueue[i].op = "setResult" /\ mainQueue[i].req = RequestOf(n)

(* A controller waits for nothing only if its reply was dropped: otherwise *)
(* the message still waits for the session, or the answer is on its way.   *)
UnresolvedIsUnderWay ==
  \A n \in 1 .. Len(calls) :
    pending[RequestOf(n)] # Nil => UnderWay(n) \/ n \in dropped

(* All pages of one presentation are given the same headlines.             *)
PagesAgree ==
  \A i, j \in 1 .. Len(called) :
    LET ci == consumer[called[i].cb]
        cj == consumer[called[j].cb]
    IN  ci.to = "page" /\ cj.to = "page" /\ ci.call = cj.call
          => called[i].outcome = called[j].outcome

\* The k-th callback waits for a request whose reply was dropped.
ReplyDropped(k) ==
  k <= Len(consumer) /\ consumer[k].to # "send" /\ consumer[k].call \in dropped

(* A controller that waits is answered, if the phone could be reached when *)
(* the session was activated and the reply can be used.                    *)
WaitIsAnswered ==
  \A k \in 1 .. MaxWaits :
    (k <= Len(consumer) /\ session = "reachable")
      ~> (Async!Called(k) \/ ~Alive \/ ReplyDropped(k))

(* ImageFromPhone.swift:14, "response as! UIImage", asserts that the phone *)
(* has sent the image.                                                     *)
ImagesArrive == crashed # "image"

=============================================================================
