------------------------------ MODULE NewsApi -------------------------------
(***************************************************************************)
(* The phone's download and cache layer, NewsDay/NewsDay/Network/          *)
(* NewsApi.swift, on top of AsyncRequest.                                  *)
(*                                                                         *)
(* getSources, getHeadlines and getArticles keep the AsyncRequest of each  *)
(* download, so that everyone who asks later shares it.  The two article   *)
(* lists of the phone pass a fresh AsyncRequest of their own to            *)
(* downloadHeadlines and downloadArticles and share nothing.  Every caller *)
(* is on the main thread and hands its callback to withResult in the same  *)
(* turn, so a call and its withResult are one action.  A download ends on  *)
(* a thread of the URL session, once, with whatever the network returned.  *)
(***************************************************************************)
EXTENDS Naturals, Sequences, FiniteSets

CONSTANTS
  Countries,     \* the countries headlines are asked for
  SourceIds,     \* the values of Source.id
  NoId,          \* the empty string, the id of a source without one
  Nil,           \* Swift's nil
  Work,          \* closures of other parts on the main queue
  MaxRequests,   \* bound: AsyncRequest objects made
  MaxCallbacks,  \* bound: calls of withResult
  MaxQueue       \* bound: length of the main queue

ASSUME NoIdAssumption == NoId \in SourceIds \ Countries

ASSUME NilAssumption == Nil \notin Seq(Nat \ {0}) /\ Nil \notin Nat

ASSUME BoundsAssumption == MaxRequests \in Nat

VARIABLES
  mainQueue, pending, outcome, registered, called,  \* see AsyncRequest
  sourcesResult,   \* the AsyncRequest of the sources, or Nil
  articlesResult,  \* the AsyncRequest of each country or source id, or Nil
  made,            \* made[r]: what the r-th AsyncRequest was made for
  downloading,     \* the requests whose data task has not ended
  asked            \* history: what the n-th caller of withResult asked for

asyncVars == <<mainQueue, pending, outcome, registered, called>>
cacheVars == <<sourcesResult, articlesResult>>
vars == <<asyncVars, cacheVars, made, downloading, asked>>

-----------------------------------------------------------------------------
(* Queries, answers of the network, outcomes.                              *)

Requests == 1 .. MaxRequests

\* The keys of articlesResult.  Source ids come from the network and nothing
\* keeps them from being the name of a country.
Keys == Countries \cup SourceIds

SourcesQuery    == [what |-> "sources"]
HeadlinesQuery(c) == [what |-> "headlines", country |-> c]
ArticlesQuery(id) == [what |-> "articles", id |-> id]

Queries ==
  {SourcesQuery} \cup {HeadlinesQuery(c) : c \in Countries}
                 \cup {ArticlesQuery(id) : id \in SourceIds}

\* How a data task can end: with an error, without an HTTP response or data,
\* or with a status and a body.  The bodies: not JSON, JSON but no dictionary,
\* a dictionary without the list asked for, and one with it.
Bodies == {"garbage", "noDictionary", "noList", "list"}

Answers ==
  [end : {"error", "noResponse"}]
    \cup [end : {"response"}, status : {"200", "2xx", "other"}, body : Bodies]

\* The arguments of setResult.  A list remembers the query it answers.
Failure(error) == [result |-> Nil, error |-> error]
Success(q, list) == [result |-> [of |-> q, list |-> list], error |-> "none"]

Outcomes ==
  {Failure(e) : e \in {"none", "network", "downloadFailed", "invalidJSON", "json"}}
    \cup {Success(q, list) : q \in Queries, list \in {"empty", "full"}}

Async == INSTANCE AsyncRequest WITH NoOutcome <- Failure("none")

\* downloadSources.  Its clause for invalidJSON passes on the "error" of the
\* data task, which is nil there.
SourcesOutcome(a) ==
  CASE a.end = "error" -> Failure("network")
    [] a.end = "noResponse" -> Failure("downloadFailed")
    [] a.end = "response" /\ a.status # "200" -> Failure("downloadFailed")
    [] a.end = "response" /\ a.status = "200" ->
         CASE a.body = "garbage" -> Failure("json")
           [] a.body = "noDictionary" -> Failure("none")
           [] a.body = "noList" -> Success(SourcesQuery, "empty")
           [] a.body = "list" -> Success(SourcesQuery, "full")

\* downloadArticle, for headlines and for the articles of a source.
ArticlesOutcome(q, a) ==
  CASE a.end = "error" -> Failure("network")
    [] a.end = "noResponse" -> Failure("invalidJSON")
    [] a.end = "response" /\ a.status = "other" -> Failure("downloadFailed")
    [] a.end = "response" /\ a.status # "other" ->
         CASE a.body = "garbage" -> Failure("json")
           [] a.body \in {"noDictionary", "noList"} -> Success(q, "empty")
           [] a.body = "list" -> Success(q, "full")

OutcomeOf(q, a) ==
  IF q = SourcesQuery THEN SourcesOutcome(a) ELSE ArticlesOutcome(q, a)

Init ==
  /\ Async!Init
  /\ sourcesResult = Nil
  /\ articlesResult = [k \in Keys |-> Nil]
  /\ made = <<>>
  /\ downloading = {}
  /\ asked = <<>>

-----------------------------------------------------------------------------
(* The calls, all on the main thread.                                      *)

NewRequest == Len(made) + 1

\* A caller of withResult on request r that wants an answer to q.
Ask(q, r) ==
  /\ Async!WithResult(r)
  /\ asked' = Append(asked, q)

\* Mutant: the data task of the headlines is never resumed.
StartDownload_NoResume(q, cached) ==
  /\ Len(made) < MaxRequests
  /\ made' = Append(made, [query |-> q, cached |-> cached])
  /\ downloading' = IF q = SourcesQuery THEN downloading \cup {NewRequest}
                    ELSE downloading

\* AsyncRequest() and the download that is given to it.  A source without an
\* id is not downloaded: downloadArticles only prints a message.
StartDownload(q, cached) ==
  /\ Len(made) < MaxRequests
  /\ made' = Append(made, [query |-> q, cached |-> cached])
  /\ downloading' = IF q = ArticlesQuery(NoId) THEN downloading
                    ELSE downloading \cup {NewRequest}

\* Mutant: the cache keeps the request made before this one.
GetSources_OffByOne ==
  \/ /\ sourcesResult # Nil
     /\ Ask(SourcesQuery, sourcesResult)
     /\ UNCHANGED <<cacheVars, made, downloading>>
  \/ /\ sourcesResult = Nil
     /\ StartDownload(SourcesQuery, TRUE)
     /\ sourcesResult' = Len(made)
     /\ Ask(SourcesQuery, NewRequest)
     /\ UNCHANGED articlesResult

\* getSources
GetSources ==
  \/ /\ sourcesResult # Nil
     /\ Ask(SourcesQuery, sourcesResult)
     /\ UNCHANGED <<cacheVars, made, downloading>>
  \/ /\ sourcesResult = Nil
     /\ StartDownload(SourcesQuery, TRUE)
     /\ sourcesResult' = NewRequest
     /\ Ask(SourcesQuery, NewRequest)
     /\ UNCHANGED articlesResult

\* Mutant: the new request is not entered into the dictionary.
GetCached_NotStored(q, key) ==
  /\ StartDownload(q, TRUE)
  /\ Ask(q, NewRequest)
  /\ UNCHANGED cacheVars

\* The common body of getHeadlines and getArticles, which use one dictionary.
GetCached(q, key) ==
  \/ /\ articlesResult[key] # Nil
     /\ Ask(q, articlesResult[key])
     /\ UNCHANGED <<cacheVars, made, downloading>>
  \/ /\ articlesResult[key] = Nil
     /\ StartDownload(q, TRUE)
     /\ articlesResult' = [articlesResult EXCEPT ![key] = NewRequest]
     /\ Ask(q, NewRequest)
     /\ UNCHANGED sourcesResult

\* getHeadlines(country:limit:).  Every caller passes the same limit.
GetHeadlines(c) == GetCached(HeadlinesQuery(c), c)

\* Mutant: the articles are kept under the source's country.
GetArticles_ByCountry(id) ==
  GetCached(ArticlesQuery(id), CHOOSE c \in Countries : TRUE)

\* getArticles(source:)
GetArticles(id) == GetCached(ArticlesQuery(id), id)

\* A view's own AsyncRequest, given to downloadHeadlines or downloadArticles.
DownloadForView(q) ==
  /\ StartDownload(q, FALSE)
  /\ Ask(q, NewRequest)
  /\ UNCHANGED cacheVars

\* viewDidLoad of HeadlineViewController and of ArticleViewController
DownloadHeadlines(c) == DownloadForView(HeadlinesQuery(c))
DownloadArticles(id) == DownloadForView(ArticlesQuery(id))

\* Mutant: one of the guards returns without setResult.
FinishDownload_Returns(r, a) ==
  /\ r \in downloading
  /\ downloading' = downloading \ {r}
  /\ IF a.end = "noResponse" THEN UNCHANGED asyncVars
     ELSE Async!SetResult(r, OutcomeOf(made[r].query, a))
  /\ UNCHANGED <<cacheVars, made, asked>>

\* Mutant: a guard does not return, so that setResult is called once more.
FinishDownload_Twice(r, a) ==
  /\ r \in downloading
  /\ downloading' = IF a.end = "noResponse" THEN downloading ELSE downloading \ {r}
  /\ Async!SetResult(r, OutcomeOf(made[r].query, a))
  /\ UNCHANGED <<cacheVars, made, asked>>

\* The completion handler of the data task, on a thread of the URL session.
FinishDownload(r, a) ==
  /\ r \in downloading
  /\ downloading' = downloading \ {r}
  /\ Async!SetResult(r, OutcomeOf(made[r].query, a))
  /\ UNCHANGED <<cacheVars, made, asked>>

\* Other parts of the process dispatch a block.  The bound on the queue leaves
\* room for the results of the downloads: no download waits for it for ever.
DispatchOther(w) ==
  /\ Len(mainQueue) + Cardinality(downloading) < MaxQueue
  /\ Async!DispatchOther(w)
  /\ UNCHANGED <<cacheVars, made, downloading, asked>>

RunMain == Async!RunMain /\ UNCHANGED <<cacheVars, made, downloading, asked>>

Next ==
  \/ GetSources
  \/ \E c \in Countries : GetHeadlines(c) \/ DownloadHeadlines(c)
  \/ \E id \in SourceIds : GetArticles(id) \/ DownloadArticles(id)
  \/ \E r \in Requests, a \in Answers : FinishDownload(r, a)
  \/ \E w \in Work : DispatchOther(w)
  \/ RunMain

\* The run loop serves the main queue, and a data task always calls its
\* completion handler: if nothing arrives it times out with an error.
Spec ==
  /\ Init /\ [][Next]_vars
  /\ WF_vars(RunMain)
  /\ \A r \in Requests : WF_vars(\E a \in Answers : FinishDownload(r, a))

-----------------------------------------------------------------------------
(* Properties.                                                             *)

TypeOK ==
  /\ Async!TypeOK
  /\ sourcesResult \in Requests \cup {Nil}
  /\ articlesResult \in [Keys -> Requests \cup {Nil}]
  /\ made \in Seq([query : Queries, cached : BOOLEAN])
  /\ Len(made) <= MaxRequests
  /\ downloading \subseteq 1 .. Len(made)
  /\ asked \in Seq(Queries)
  /\ Len(asked) = Len(registered)

\* A setResult block for r waits in the main queue.
ResultQueued(r) ==
  \E i \in 1 .. Len(mainQueue) :
    mainQueue[i].op = "setResult" /\ mainQueue[i].req = r

(* A request that was handed out and has no result yet will get one: its   *)
(* download is under way or its setResult waits in the main queue.  Only   *)
(* the request of a source without an id is stuck for ever.                *)
UnresolvedIsUnderWay ==
  \A r \in 1 .. Len(made) :
    pending[r] # Nil /\ made[r].query # ArticlesQuery(NoId)
      => r \in downloading \/ ResultQueued(r)

(* "Only get the sources once", and the same for headlines and articles:   *)
(* no query is downloaded twice for the cache, not even after it failed.   *)
OneDownloadPerQuery ==
  \A r, s \in 1 .. Len(made) :
    made[r].cached /\ made[s].cached /\ made[r].query = made[s].query => r = s

\* The query q is kept under the key k of articlesResult.
KeptUnder(q, k) ==
  \/ k \in Countries /\ q = HeadlinesQuery(k)
  \/ k \in SourceIds /\ q = ArticlesQuery(k)

(* Whoever asks gets an answer to what was asked.  There is one way to get *)
(* another's, and it needs all of this: both went through the cache, one   *)
(* asked for the headlines of a country, the other for the articles of a   *)
(* source, and the id of the source is the name of the country.  A view's  *)
(* own request, and any other two of the cache, are never confused.        *)
AnswersItsQuery ==
  \A i \in 1 .. Len(called) :
    LET n == called[i].cb
        answer == called[i].outcome.result
    IN answer # Nil =>
         \/ answer.of = asked[n]
         \/ /\ made[registered[n]].cached
            /\ \E k \in Countries \cap SourceIds :
                 KeptUnder(answer.of, k) /\ KeptUnder(asked[n], k)

(* A download answers once, so everyone who shares a request is told the   *)
(* same, whether the callback was early or late.                           *)
EveryoneToldTheSame ==
  \A i, j \in 1 .. Len(called) :
    registered[called[i].cb] = registered[called[j].cb]
      => called[i].outcome = called[j].outcome

(* Every caller is answered, unless it asked for a source without an id.   *)
AskedIsAnswered ==
  \A n \in 1 .. MaxCallbacks :
    (n \in 1 .. Len(asked) /\ asked[n] # ArticlesQuery(NoId)) ~> Async!Called(n)

=============================================================================
