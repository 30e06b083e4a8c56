--------------------------- MODULE NewsApi_proofs ---------------------------
(***************************************************************************)
(* Proofs about NewsApi for any countries, sources and bounds.  What is    *)
(* proved of AsyncRequest is instantiated for its requests.                *)
(***************************************************************************)
EXTENDS NewsApi, TLAPS, SequenceTheorems

AsyncP == INSTANCE AsyncRequest_proofs WITH NoOutcome <- Failure("none")

-----------------------------------------------------------------------------
(* The invariant.                                                          *)

\* Two queries that share an entry of the dictionary.
ShareAnEntry(p, q) ==
  \E k \in Countries \cap SourceIds : KeptUnder(p, k) /\ KeptUnder(q, k)

\* The request r may be handed to a caller that asks for q.
Serves(r, q) ==
  made[r].query = q \/ (made[r].cached /\ ShareAnEntry(made[r].query, q))

\* Callers wait on a request of their query or of their entry.
AskedMatches ==
  \A n \in 1 .. Len(registered) :
    registered[n] \in 1 .. Len(made) /\ Serves(registered[n], asked[n])

\* The caches hold requests of their queries, made for the cache.
CacheMatches ==
  /\ sourcesResult # Nil =>
       /\ sourcesResult \in 1 .. Len(made)
       /\ made[sourcesResult].query = SourcesQuery
       /\ made[sourcesResult].cached
  /\ \A k \in Keys : articlesResult[k] # Nil =>
       /\ articlesResult[k] \in 1 .. Len(made)
       /\ KeptUnder(made[articlesResult[k]].query, k)
       /\ made[articlesResult[k]].cached

\* A request that was made for the cache is in it, at its place.
CachedIsKept ==
  \A r \in 1 .. Len(made) : made[r].cached =>
    \/ made[r].query = SourcesQuery /\ sourcesResult = r
    \/ \E k \in Keys : KeptUnder(made[r].query, k) /\ articlesResult[k] = r

\* The outcome v is a failure or a list that r was made for.
Fits(v, r) == v.result # Nil => v.result.of = made[r].query

\* A result on its way is the first and only one of its request, and fits it.
ResultsOnTheirWay ==
  \A i \in 1 .. Len(mainQueue) : mainQueue[i].op = "setResult" =>
    /\ mainQueue[i].req \in 1 .. Len(made)
    /\ mainQueue[i].req \notin downloading
    /\ pending[mainQueue[i].req] # Nil
    /\ Fits(mainQueue[i].outcome, mainQueue[i].req)
    /\ \A j \in 1 .. Len(mainQueue) :
         mainQueue[j].op = "setResult" /\ mainQueue[j].req = mainQueue[i].req => i = j

\* What the requests hold: nothing before they are made or have a result.
OutcomesFit ==
  \A r \in Requests :
    /\ r \notin 1 .. Len(made) => pending[r] # Nil /\ outcome[r].result = Nil
    /\ r \in downloading => pending[r] # Nil
    /\ r \in 1 .. Len(made) => Fits(outcome[r], r)

\* Whoever was called was told what the request holds to this day.
ToldTheOutcome ==
  \A i \in 1 .. Len(called) : called[i].outcome = outcome[registered[called[i].cb]]

\* All but the caches.
Flow ==
  /\ Async!IInv
  /\ AskedMatches
  /\ ResultsOnTheirWay
  /\ OutcomesFit
  /\ ToldTheOutcome
  /\ UnresolvedIsUnderWay
  /\ AnswersItsQuery

IInv == TypeOK /\ CacheMatches /\ CachedIsKept /\ Flow

-----------------------------------------------------------------------------
(* The proofs about AsyncRequest, for the requests of NewsApi.             *)

LEMMA AsyncAssumptions == Nil \notin Seq(Nat \ {0}) /\ Failure("none") \in Outcomes
  BY NilAssumption DEF Outcomes

\* The two instances say the same.
LEMMA SameInvariant == AsyncP!IInv = Async!IInv /\ AsyncP!IInv' = Async!IInv'
  BY DEF AsyncP!IInv, Async!IInv, AsyncP!TypeOK, Async!TypeOK,
         AsyncP!NamesOK, Async!NamesOK,
         AsyncP!NoCallbackLost, Async!NoCallbackLost,
         AsyncP!QueueInOrder, Async!QueueInOrder,
         AsyncP!PendingInOrder, Async!PendingInOrder,
         AsyncP!CalledInOrder, Async!CalledInOrder,
         AsyncP!CalledBeforeQueued, Async!CalledBeforeQueued,
         AsyncP!CarriedFor, Async!CarriedFor,
         AsyncP!Callbacks, Async!Callbacks,
         AsyncP!Called, Async!Called, AsyncP!IsQueued, Async!IsQueued,
         AsyncP!IsPending, Async!IsPending,
         AsyncP!Blocks, Async!Blocks, AsyncP!Calls, Async!Calls

LEMMA SameSetResult ==
  ASSUME NEW r \in Requests, NEW v \in Outcomes
  PROVE  AsyncP!SetResult(r, v) = Async!SetResult(r, v)
  BY DEF AsyncP!SetResult, Async!SetResult, AsyncP!SetResultBlock, Async!SetResultBlock

LEMMA SameWithResult ==
  ASSUME NEW r \in Requests
  PROVE  AsyncP!WithResult(r) = Async!WithResult(r)
  BY DEF AsyncP!WithResult, Async!WithResult, AsyncP!WithResultBlock, Async!WithResultBlock

LEMMA SameDispatchOther ==
  ASSUME NEW w \in Work
  PROVE  AsyncP!DispatchOther(w) = Async!DispatchOther(w)
  BY DEF AsyncP!DispatchOther, Async!DispatchOther, AsyncP!OtherBlock, Async!OtherBlock

LEMMA SameRunMain == AsyncP!RunMain = Async!RunMain
  <1>1. AsyncP!RunSetResult = Async!RunSetResult
    BY DEF AsyncP!RunSetResult, Async!RunSetResult, AsyncP!CallEach, Async!CallEach,
           AsyncP!NextBlockIs, Async!NextBlockIs, AsyncP!Call, Async!Call
  <1>2. AsyncP!RunWithResult = Async!RunWithResult
    BY DEF AsyncP!RunWithResult, Async!RunWithResult, AsyncP!CallBlock, Async!CallBlock,
           AsyncP!NextBlockIs, Async!NextBlockIs
  <1>3. AsyncP!RunCall = Async!RunCall
    BY DEF AsyncP!RunCall, Async!RunCall, AsyncP!NextBlockIs, Async!NextBlockIs,
           AsyncP!Call, Async!Call
  <1>4. AsyncP!RunOther = Async!RunOther
    BY DEF AsyncP!RunOther, Async!RunOther, AsyncP!NextBlockIs, Async!NextBlockIs
  <1>5. QED
    BY <1>1, <1>2, <1>3, <1>4 DEF AsyncP!RunMain, Async!RunMain

\* Every step of AsyncRequest keeps its invariant.
LEMMA AsyncNext ==
  ASSUME Async!IInv, AsyncP!Next
  PROVE  Async!IInv'
  BY AsyncAssumptions, SameInvariant, AsyncP!NextIInv

LEMMA AsyncSetResult ==
  ASSUME Async!IInv, NEW r \in Requests, NEW v \in Outcomes, Async!SetResult(r, v)
  PROVE  Async!IInv'
  <1>1. AsyncP!Next
    BY SameSetResult DEF AsyncP!Next
  <1>2. QED
    BY <1>1, AsyncNext

LEMMA AsyncWithResult ==
  ASSUME Async!IInv, NEW r \in Requests, Async!WithResult(r)
  PROVE  Async!IInv'
  <1>1. AsyncP!Next
    BY SameWithResult DEF AsyncP!Next
  <1>2. QED
    BY <1>1, AsyncNext

LEMMA AsyncDispatchOther ==
  ASSUME Async!IInv, NEW w \in Work, Async!DispatchOther(w)
  PROVE  Async!IInv'
  <1>1. AsyncP!Next
    BY SameDispatchOther DEF AsyncP!Next
  <1>2. QED
    BY <1>1, AsyncNext

LEMMA AsyncRunMain ==
  ASSUME Async!IInv, Async!RunMain
  PROVE  Async!IInv'
  <1>1. AsyncP!Next
    BY SameRunMain DEF AsyncP!Next
  <1>2. QED
    BY <1>1, AsyncNext

LEMMA AsyncUnchanged ==
  ASSUME Async!IInv, UNCHANGED asyncVars
  PROVE  Async!IInv'
  BY AsyncAssumptions, SameInvariant, AsyncP!NextIInv DEF AsyncP!vars, asyncVars

-----------------------------------------------------------------------------
(* What the steps do to the main queue.                                    *)

LEMMA Enqueued ==
  ASSUME Async!TypeOK, NEW b \in Async!Blocks, mainQueue' = Append(mainQueue, b)
  PROVE  /\ Len(mainQueue) \in Nat
         /\ mainQueue'[Len(mainQueue) + 1] = b
         /\ Len(mainQueue) + 1 \in 1 .. Len(mainQueue')
         /\ \A i \in 1 .. Len(mainQueue) :
              i \in 1 .. Len(mainQueue') /\ mainQueue'[i] = mainQueue[i]
         /\ \A i \in 1 .. Len(mainQueue') :
              i \in 1 .. Len(mainQueue) \/ i = Len(mainQueue) + 1
  <1>1. mainQueue \in Seq(Async!Blocks)
    BY DEF Async!TypeOK
  <1>2. /\ Len(mainQueue) \in Nat
        /\ Len(mainQueue') = Len(mainQueue) + 1
        /\ mainQueue'[Len(mainQueue) + 1] = b
        /\ \A i \in 1 .. Len(mainQueue) : mainQueue'[i] = mainQueue[i]
    BY <1>1, AppendProperties
  <1>3. QED
    BY ONLY <1>2

\* The oldest block has run and may have left a block that is no result.
LEMMA Dequeued ==
  ASSUME Async!TypeOK, mainQueue # <<>>,
         \/ mainQueue' = Tail(mainQueue)
         \/ \E b \in Async!Blocks : b.op # "setResult" /\ mainQueue' = Append(Tail(mainQueue), b)
  PROVE  /\ 1 \in 1 .. Len(mainQueue) /\ Head(mainQueue) = mainQueue[1]
         /\ \A i \in 1 .. Len(mainQueue') : mainQueue'[i].op = "setResult" =>
              /\ i + 1 \in 1 .. Len(mainQueue) /\ i + 1 # 1
              /\ mainQueue'[i] = mainQueue[i + 1]
         /\ \A i \in 1 .. Len(mainQueue) : i # 1 =>
              /\ i - 1 \in 1 .. Len(mainQueue')
              /\ mainQueue'[i - 1] = mainQueue[i]
  <1> DEFINE rest == Tail(mainQueue)
  <1>1. mainQueue \in Seq(Async!Blocks)
    BY DEF Async!TypeOK
  <1>2. /\ Len(mainQueue) \in Nat /\ Len(mainQueue) # 0
        /\ rest \in Seq(Async!Blocks)
        /\ Len(rest) = Len(mainQueue) - 1
        /\ \A i \in 1 .. Len(rest) : rest[i] = mainQueue[i + 1]
        /\ Head(mainQueue) = mainQueue[1]
    BY <1>1, EmptySeq, HeadTailProperties
  <1> HIDE DEF rest
  <1>3. /\ 1 \in 1 .. Len(mainQueue)
        /\ Len(rest) \in Nat
        /\ \A i \in 1 .. Len(rest) : i + 1 \in 1 .. Len(mainQueue) /\ i + 1 # 1
        /\ \A i \in 1 .. Len(mainQueue) : i # 1 =>
             /\ i - 1 \in 1 .. Len(rest)
             /\ rest[i - 1] = mainQueue[i]
    BY ONLY <1>2
  <1>4. CASE mainQueue' = rest
    BY <1>2, <1>3, <1>4
  <1>5. ASSUME NEW b \in Async!Blocks, b.op # "setResult", mainQueue' = Append(rest, b)
        PROVE  /\ \A i \in 1 .. Len(mainQueue') : mainQueue'[i].op = "setResult" =>
                    i \in 1 .. Len(rest) /\ mainQueue'[i] = rest[i]
               /\ \A i \in 1 .. Len(rest) :
                    i \in 1 .. Len(mainQueue') /\ mainQueue'[i] = rest[i]
    <2>1. /\ Len(mainQueue') = Len(rest) + 1
          /\ mainQueue'[Len(rest) + 1] = b
          /\ \A i \in 1 .. Len(rest) : mainQueue'[i] = rest[i]
      BY <1>2, <1>5, AppendProperties
    <2>2. /\ \A i \in 1 .. Len(mainQueue') : i \in 1 .. Len(rest) \/ i = Len(rest) + 1
          /\ \A i \in 1 .. Len(rest) : i \in 1 .. Len(mainQueue')
      BY ONLY <1>3, <2>1
    <2>3. QED
      BY <1>5, <2>1, <2>2
  <1>6. QED
    BY <1>2, <1>3, <1>4, <1>5 DEF rest

\* What a completion handler sends answers the question that was asked.
LEMMA OutcomeFits ==
  ASSUME NEW q \in Queries, NEW a \in Answers
  PROVE  /\ OutcomeOf(q, a) \in Outcomes
         /\ OutcomeOf(q, a).result # Nil => OutcomeOf(q, a).result.of = q
  <1>1. /\ \A e \in {"none", "network", "downloadFailed", "invalidJSON", "json"} :
             Failure(e) \in Outcomes /\ Failure(e).result = Nil
        /\ \A list \in {"empty", "full"} : Success(q, list) \in Outcomes
        /\ \A list : Success(q, list).result.of = q
    BY DEF Outcomes, Failure, Success
  <1>2. /\ a.end \in {"error", "noResponse", "response"}
        /\ a.end = "response" => a.status \in {"200", "2xx", "other"} /\ a.body \in Bodies
    BY DEF Answers
  <1>3. CASE q = SourcesQuery
    BY <1>1, <1>2, <1>3 DEF OutcomeOf, SourcesOutcome, Bodies
  <1>4. CASE q # SourcesQuery
    BY <1>1, <1>2, <1>4 DEF OutcomeOf, ArticlesOutcome, Bodies
  <1>5. QED
    BY <1>3, <1>4

-----------------------------------------------------------------------------
(* Asking: withResult, on a request that was made before or is made now.   *)

LEMMA AskFlow ==
  ASSUME TypeOK, Flow, NEW q \in Queries, NEW r \in Requests, Ask(q, r),
         r \in 1 .. Len(made'), Serves(r, q)',
         \A s \in 1 .. Len(made) : s \in 1 .. Len(made') /\ made'[s] = made[s],
         \A s \in 1 .. Len(made') : s \notin 1 .. Len(made) =>
           s = r /\ (made'[s].query # ArticlesQuery(NoId) => s \in downloading'),
         downloading \subseteq downloading',
         \A s \in downloading' : s \notin downloading => s = r /\ s \notin 1 .. Len(made)
  PROVE  Flow'
  <1>1. /\ Async!IInv /\ AskedMatches /\ ResultsOnTheirWay /\ OutcomesFit
        /\ ToldTheOutcome /\ UnresolvedIsUnderWay /\ AnswersItsQuery
    BY DEF Flow
  <1>2. /\ Async!WithResult(r)
        /\ asked' = Append(asked, q)
    BY DEF Ask
  <1>3. /\ registered' = Append(registered, r)
        /\ mainQueue' = Append(mainQueue, Async!WithResultBlock(r, Len(registered) + 1))
        /\ UNCHANGED <<pending, outcome, called>>
    BY <1>2 DEF Async!WithResult
  <1>4. /\ Async!TypeOK /\ asked \in Seq(Queries) /\ Len(asked) = Len(registered)
        /\ registered \in Seq(Requests)
        /\ downloading \subseteq 1 .. Len(made)
    BY DEF TypeOK, Async!TypeOK
  <1>5. /\ Len(registered) \in Nat
        /\ Len(registered') = Len(registered) + 1
        /\ registered'[Len(registered) + 1] = r
        /\ asked'[Len(registered) + 1] = q
        /\ \A n \in 1 .. Len(registered) :
             registered'[n] = registered[n] /\ asked'[n] = asked[n]
    BY <1>2, <1>3, <1>4, AppendProperties
  <1>6. \A n \in 1 .. Len(registered') :
          n \in 1 .. Len(registered) \/ n = Len(registered) + 1
    BY ONLY <1>5
  <1> DEFINE b == Async!WithResultBlock(r, Len(registered) + 1)
  <1>7. b \in Async!Blocks /\ b.op # "setResult"
    BY <1>5 DEF Async!WithResultBlock, Async!Blocks
  <1>8. /\ \A i \in 1 .. Len(mainQueue) :
             i \in 1 .. Len(mainQueue') /\ mainQueue'[i] = mainQueue[i]
        /\ \A i \in 1 .. Len(mainQueue') : mainQueue'[i].op = "setResult" =>
             i \in 1 .. Len(mainQueue) /\ mainQueue'[i] = mainQueue[i]
    BY <1>3, <1>4, <1>7, Enqueued
  <1>9. \A i \in 1 .. Len(called) : called[i].cb \in 1 .. Len(registered)
    BY <1>1 DEF Async!IInv, Async!NamesOK, Async!Callbacks
  <1>10. Async!IInv'
    BY <1>1, <1>2, AsyncWithResult
  <1>11. AskedMatches'
    BY <1>1, <1>5, <1>6 DEF AskedMatches, Serves
  <1>12. ResultsOnTheirWay'
    <2>1. ASSUME NEW i \in 1 .. Len(mainQueue'), mainQueue'[i].op = "setResult"
          PROVE  /\ mainQueue'[i].req \in 1 .. Len(made')
                 /\ mainQueue'[i].req \notin downloading'
                 /\ pending'[mainQueue'[i].req] # Nil
                 /\ mainQueue'[i].outcome.result # Nil =>
                      mainQueue'[i].outcome.result.of = made'[mainQueue'[i].req].query
                 /\ \A j \in 1 .. Len(mainQueue') :
                      mainQueue'[j].op = "setResult" /\ mainQueue'[j].req = mainQueue'[i].req
                        => i = j
      <3>1. i \in 1 .. Len(mainQueue) /\ mainQueue'[i] = mainQueue[i]
        BY <1>8, <2>1
      <3>2. /\ mainQueue[i].req \in 1 .. Len(made)
            /\ mainQueue[i].req \notin downloading
            /\ pending[mainQueue[i].req] # Nil
            /\ mainQueue[i].outcome.result # Nil =>
                 mainQueue[i].outcome.result.of = made[mainQueue[i].req].query
        BY <1>1, <2>1, <3>1 DEF ResultsOnTheirWay, Fits
      <3>3. \A j \in 1 .. Len(mainQueue') :
              mainQueue'[j].op = "setResult" /\ mainQueue'[j].req = mainQueue'[i].req
                => i = j
        BY <1>1, <1>8, <2>1, <3>1 DEF ResultsOnTheirWay
      <3>4. mainQueue[i].req \notin downloading'
        BY <3>2
      <3>5. QED
        BY <1>3, <3>1, <3>2, <3>3, <3>4
    <2>2. QED
      BY <2>1 DEF ResultsOnTheirWay, Fits
  <1>13. OutcomesFit'
    BY <1>1, <1>3, <1>4 DEF OutcomesFit, Fits
  <1>14. ToldTheOutcome'
    BY <1>1, <1>3, <1>5, <1>9 DEF ToldTheOutcome
  <1>15. UnresolvedIsUnderWay'
    <2>1. ASSUME NEW s \in 1 .. Len(made'), pending[s] # Nil,
                 made'[s].query # ArticlesQuery(NoId)
          PROVE  s \in downloading' \/ ResultQueued(s)'
      <3>1. CASE s \in 1 .. Len(made)
        <4>1. s \in downloading \/ ResultQueued(s)
          BY <1>1, <2>1, <3>1 DEF UnresolvedIsUnderWay
        <4>2. ResultQueued(s) => ResultQueued(s)'
          BY <1>8 DEF ResultQueued
        <4>3. QED
          BY <4>1, <4>2
      <3>2. CASE s \notin 1 .. Len(made)
        BY <2>1, <3>2
      <3>3. QED
        BY <3>1, <3>2
    <2>2. QED
      BY <1>3, <2>1 DEF UnresolvedIsUnderWay
  <1>16. AnswersItsQuery'
    <2>1. \A n \in 1 .. Len(registered) :
            made'[registered[n]] = made[registered[n]] /\ registered'[n] = registered[n]
      BY <1>1, <1>5 DEF AskedMatches
    <2>2. ASSUME NEW i \in 1 .. Len(called), called[i].outcome.result # Nil
          PROVE  LET n == called[i].cb IN
                 \/ called[i].outcome.result.of = asked'[n]
                 \/ /\ made'[registered'[n]].cached
                    /\ ShareAnEntry(called[i].outcome.result.of, asked'[n])
      <3> DEFINE n == called[i].cb
      <3>1. /\ n \in 1 .. Len(registered)
            /\ asked'[n] = asked[n]
            /\ made'[registered'[n]] = made[registered[n]]
        BY <1>5, <1>9, <2>1
      <3>2. \/ called[i].outcome.result.of = asked[n]
            \/ made[registered[n]].cached /\ ShareAnEntry(called[i].outcome.result.of, asked[n])
        BY <1>1, <2>2 DEF AnswersItsQuery, ShareAnEntry
      <3>3. QED
        BY <3>1, <3>2
    <2>3. QED
      BY <1>3, <2>2 DEF AnswersItsQuery, ShareAnEntry
  <1>17. QED
    BY <1>10, <1>11, <1>12, <1>13, <1>14, <1>15, <1>16 DEF Flow

-----------------------------------------------------------------------------
(* A download ends, and other parts dispatch.                              *)

LEMMA FinishDownloadFlow ==
  ASSUME TypeOK, Flow, NEW r \in Requests, NEW a \in Answers, FinishDownload(r, a)
  PROVE  Flow'
  <1> DEFINE v == OutcomeOf(made[r].query, a)
             b == Async!SetResultBlock(r, v)
             last == Len(mainQueue) + 1
  <1>1. /\ Async!IInv /\ AskedMatches /\ ResultsOnTheirWay /\ OutcomesFit
        /\ ToldTheOutcome /\ UnresolvedIsUnderWay /\ AnswersItsQuery
    BY DEF Flow
  <1>2. /\ r \in downloading /\ downloading' = downloading \ {r}
        /\ Async!SetResult(r, v)
        /\ UNCHANGED <<made, asked>>
    BY DEF FinishDownload
  <1>3. /\ mainQueue' = Append(mainQueue, b)
        /\ UNCHANGED <<pending, outcome, registered, called>>
    BY <1>2 DEF Async!SetResult
  <1>4. Async!TypeOK /\ r \in 1 .. Len(made) /\ made[r].query \in Queries
    <2>1. r \in 1 .. Len(made) /\ made \in Seq([query : Queries, cached : BOOLEAN])
      BY <1>2 DEF TypeOK
    <2>2. made[r] \in [query : Queries, cached : BOOLEAN]
      BY <2>1, ElementOfSeq
    <2>3. QED
      BY <2>1, <2>2 DEF TypeOK
  <1>5. v \in Outcomes /\ Fits(v, r)
    BY <1>4, OutcomeFits DEF Fits
  <1> HIDE DEF v
  <1>6. /\ b \in Async!Blocks /\ b.op = "setResult" /\ b.req = r /\ b.outcome = v
    BY <1>5 DEF Async!SetResultBlock, Async!Blocks
  <1> HIDE DEF b
  <1>7. /\ mainQueue'[last] = b /\ last \in 1 .. Len(mainQueue')
        /\ \A i \in 1 .. Len(mainQueue) :
             i \in 1 .. Len(mainQueue') /\ mainQueue'[i] = mainQueue[i]
        /\ \A i \in 1 .. Len(mainQueue') : i \in 1 .. Len(mainQueue) \/ i = last
    BY <1>3, <1>4, <1>6, Enqueued
  <1> HIDE DEF last
  <1>8. Async!IInv'
    BY <1>1, <1>2, <1>5, AsyncSetResult
  <1>9. AskedMatches'
    BY <1>1, <1>2, <1>3 DEF AskedMatches, Serves
  <1>10. \A i \in 1 .. Len(mainQueue) :
           mainQueue[i].op = "setResult" => mainQueue[i].req # r
    BY <1>1, <1>2 DEF ResultsOnTheirWay
  <1>11. ResultsOnTheirWay'
    <2>1. ASSUME NEW i \in 1 .. Len(mainQueue'), mainQueue'[i].op = "setResult"
          PROVE  /\ mainQueue'[i].req \in 1 .. Len(made)
                 /\ mainQueue'[i].req \notin downloading'
                 /\ pending[mainQueue'[i].req] # Nil
                 /\ Fits(mainQueue'[i].outcome, mainQueue'[i].req)
                 /\ \A j \in 1 .. Len(mainQueue') :
                      mainQueue'[j].op = "setResult" /\ mainQueue'[j].req = mainQueue'[i].req
                        => i = j
      <3>1. CASE i = last
        <4>1. mainQueue'[i] = b /\ pending[r] # Nil
          BY <1>1, <1>2, <1>4, <1>7, <3>1 DEF OutcomesFit
        <4>2. \A j \in 1 .. Len(mainQueue') :
                mainQueue'[j].op = "setResult" /\ mainQueue'[j].req = r => j = last
          BY <1>7, <1>10
        <4>3. QED
          BY <1>2, <1>4, <1>5, <1>6, <3>1, <4>1, <4>2
      <3>2. CASE i \in 1 .. Len(mainQueue)
        <4>1. mainQueue'[i] = mainQueue[i] /\ mainQueue[i].req # r
          BY <1>7, <1>10, <2>1, <3>2
        <4>2. \A j \in 1 .. Len(mainQueue') :
                mainQueue'[j].op = "setResult" /\ mainQueue'[j].req = mainQueue'[i].req
                  => i = j
          BY <1>1, <1>6, <1>7, <2>1, <3>2, <4>1 DEF ResultsOnTheirWay
        <4>3. QED
          BY <1>1, <1>2, <2>1, <3>2, <4>1, <4>2 DEF ResultsOnTheirWay
      <3>3. QED
        BY <1>7, <3>1, <3>2
    <2>2. QED
      BY <1>2, <1>3, <2>1 DEF ResultsOnTheirWay, Fits
  <1>12. OutcomesFit'
    BY <1>1, <1>2, <1>3 DEF OutcomesFit, Fits
  <1>13. ToldTheOutcome'
    BY <1>1, <1>3 DEF ToldTheOutcome
  <1>14. UnresolvedIsUnderWay'
    <2>1. \A s \in 1 .. Len(made) : ResultQueued(s) => ResultQueued(s)'
      BY <1>7 DEF ResultQueued
    <2>2. ResultQueued(r)'
      BY <1>6, <1>7 DEF ResultQueued
    <2>3. QED
      BY <1>1, <1>2, <1>3, <2>1, <2>2 DEF UnresolvedIsUnderWay
  <1>15. AnswersItsQuery'
    BY <1>1, <1>2, <1>3 DEF AnswersItsQuery
  <1>16. QED
    BY <1>8, <1>9, <1>11, <1>12, <1>13, <1>14, <1>15 DEF Flow

LEMMA DispatchOtherFlow ==
  ASSUME TypeOK, Flow, NEW w \in Work, DispatchOther(w)
  PROVE  Flow'
  <1> DEFINE b == Async!OtherBlock(w)
  <1>1. /\ Async!IInv /\ AskedMatches /\ ResultsOnTheirWay /\ OutcomesFit
        /\ ToldTheOutcome /\ UnresolvedIsUnderWay /\ AnswersItsQuery
    BY DEF Flow
  <1>2. Async!DispatchOther(w) /\ UNCHANGED <<made, downloading, asked>>
    BY DEF DispatchOther
  <1>3. /\ mainQueue' = Append(mainQueue, b)
        /\ UNCHANGED <<pending, outcome, registered, called>>
    BY <1>2 DEF Async!DispatchOther
  <1>4. b \in Async!Blocks /\ b.op # "setResult"
    BY DEF Async!OtherBlock, Async!Blocks
  <1>5. /\ \A i \in 1 .. Len(mainQueue) :
             i \in 1 .. Len(mainQueue') /\ mainQueue'[i] = mainQueue[i]
        /\ \A i \in 1 .. Len(mainQueue') : mainQueue'[i].op = "setResult" =>
             i \in 1 .. Len(mainQueue) /\ mainQueue'[i] = mainQueue[i]
    BY <1>3, <1>4, Enqueued DEF TypeOK
  <1> HIDE DEF b
  <1>6. Async!IInv'
    BY <1>1, <1>2, AsyncDispatchOther
  <1>7. ResultsOnTheirWay'
    BY <1>1, <1>2, <1>3, <1>5 DEF ResultsOnTheirWay, Fits
  <1>8. UnresolvedIsUnderWay'
    <2>1. \A s \in 1 .. Len(made) : ResultQueued(s) => ResultQueued(s)'
      BY <1>5 DEF ResultQueued
    <2>2. QED
      BY <1>1, <1>2, <1>3, <2>1 DEF UnresolvedIsUnderWay
  <1>9. /\ AskedMatches' /\ OutcomesFit' /\ ToldTheOutcome' /\ AnswersItsQuery'
    BY <1>1, <1>2, <1>3
    DEF AskedMatches, Serves, OutcomesFit, Fits, ToldTheOutcome, AnswersItsQuery
  <1>10. QED
    BY <1>6, <1>7, <1>8, <1>9 DEF Flow

-----------------------------------------------------------------------------
(* The main thread runs a block.                                           *)

\* The part of Flow about the queue, for a block that is no result.
LEMMA RunNoResult ==
  ASSUME TypeOK, Flow, mainQueue # <<>>, Head(mainQueue).op # "setResult",
         \/ mainQueue' = Tail(mainQueue)
         \/ \E b \in Async!Blocks : b.op # "setResult" /\ mainQueue' = Append(Tail(mainQueue), b),
         UNCHANGED <<made, downloading, asked, registered, outcome>>,
         \A r \in Requests : (pending'[r] = Nil) = (pending[r] = Nil)
  PROVE  /\ AskedMatches' /\ ResultsOnTheirWay' /\ OutcomesFit' /\ UnresolvedIsUnderWay'
  <1>1. AskedMatches /\ ResultsOnTheirWay /\ OutcomesFit /\ UnresolvedIsUnderWay
    BY DEF Flow
  <1>2. /\ Head(mainQueue) = mainQueue[1]
        /\ \A i \in 1 .. Len(mainQueue') : mainQueue'[i].op = "setResult" =>
             /\ i + 1 \in 1 .. Len(mainQueue)
             /\ mainQueue'[i] = mainQueue[i + 1]
        /\ \A i \in 1 .. Len(mainQueue) : i # 1 =>
             /\ i - 1 \in 1 .. Len(mainQueue')
             /\ mainQueue'[i - 1] = mainQueue[i]
    BY Dequeued DEF TypeOK
  <1>3. 1 .. Len(made) \subseteq Requests
    BY BoundsAssumption DEF TypeOK, Requests
  <1>4. AskedMatches'
    BY <1>1 DEF AskedMatches, Serves
  <1>5. ResultsOnTheirWay'
    <2>1. ASSUME NEW i \in 1 .. Len(mainQueue'), NEW j \in 1 .. Len(mainQueue'),
                 i + 1 = j + 1
          PROVE  i = j
      BY ONLY <2>1
    <2>2. ASSUME NEW i \in 1 .. Len(mainQueue'), mainQueue'[i].op = "setResult"
          PROVE  /\ mainQueue'[i].req \in 1 .. Len(made)
                 /\ mainQueue'[i].req \notin downloading
                 /\ pending'[mainQueue'[i].req] # Nil
                 /\ Fits(mainQueue'[i].outcome, mainQueue'[i].req)
                 /\ \A j \in 1 .. Len(mainQueue') :
                      mainQueue'[j].op = "setResult" /\ mainQueue'[j].req = mainQueue'[i].req
                        => i = j
      <3>1. i + 1 \in 1 .. Len(mainQueue) /\ mainQueue'[i] = mainQueue[i + 1]
        BY <1>2, <2>2
      <3>2. /\ mainQueue'[i].req \in 1 .. Len(made)
            /\ mainQueue'[i].req \notin downloading
            /\ pending[mainQueue'[i].req] # Nil
            /\ Fits(mainQueue'[i].outcome, mainQueue'[i].req)
        BY <1>1, <2>2, <3>1 DEF ResultsOnTheirWay
      <3>3. pending'[mainQueue'[i].req] # Nil
        BY <1>3, <3>2
      <3>4. ASSUME NEW j \in 1 .. Len(mainQueue'),
                   mainQueue'[j].op = "setResult", mainQueue'[j].req = mainQueue'[i].req
            PROVE  i = j
        <4>1. j + 1 \in 1 .. Len(mainQueue) /\ mainQueue'[j] = mainQueue[j + 1]
          BY <1>2, <3>4
        <4>2. i + 1 = j + 1
          BY <1>1, <2>2, <3>1, <3>4, <4>1 DEF ResultsOnTheirWay
        <4>3. QED
          BY <2>1, <4>2
      <3>5. QED
        BY <3>2, <3>3, <3>4
    <2>3. QED
      BY <2>2 DEF ResultsOnTheirWay, Fits
  <1>6. OutcomesFit'
    BY <1>1 DEF OutcomesFit, Fits
  <1>7. UnresolvedIsUnderWay'
    <2>1. ASSUME NEW s \in 1 .. Len(made), ResultQueued(s)
          PROVE  ResultQueued(s)'
      <3>1. PICK i \in 1 .. Len(mainQueue) :
              mainQueue[i].op = "setResult" /\ mainQueue[i].req = s
        BY <2>1 DEF ResultQueued
      <3>2. i # 1
        BY <1>2, <3>1
      <3>3. i - 1 \in 1 .. Len(mainQueue') /\ mainQueue'[i - 1] = mainQueue[i]
        BY <1>2, <3>2
      <3>4. QED
        BY <3>1, <3>3 DEF ResultQueued
    <2>2. QED
      BY <1>1, <1>3, <2>1 DEF UnresolvedIsUnderWay
  <1>8. QED
    BY <1>4, <1>5, <1>6, <1>7

LEMMA RunWithResultFlow ==
  ASSUME TypeOK, Flow, Async!RunWithResult, UNCHANGED <<made, downloading, asked>>
  PROVE  ResultsOnTheirWay' /\ OutcomesFit' /\ ToldTheOutcome' /\ AskedMatches'
         /\ UnresolvedIsUnderWay' /\ AnswersItsQuery'
  <1> DEFINE b == Head(mainQueue)
  <1>1. /\ mainQueue # <<>> /\ b.op = "withResult"
        /\ UNCHANGED <<outcome, registered, called>>
        /\ \/ /\ pending[b.req] # Nil
              /\ pending' = [pending EXCEPT ![b.req] = Append(@, b.cb)]
              /\ mainQueue' = Tail(mainQueue)
           \/ /\ mainQueue' = Append(Tail(mainQueue), Async!CallBlock(b.req, b.cb))
              /\ UNCHANGED pending
    BY DEF Async!RunWithResult, Async!NextBlockIs
  <1>2. /\ mainQueue \in Seq(Async!Blocks)
        /\ pending \in [Requests -> Seq(Nat \ {0}) \cup {Nil}]
    BY DEF TypeOK, Async!TypeOK
  <1>3. b \in Async!Blocks
    BY <1>1, <1>2
  <1>4. b.req \in Requests /\ b.cb \in Nat \ {0}
    BY <1>1, <1>3 DEF Async!Blocks
  <1> HIDE DEF b
  <1>5. \A r \in Requests : (pending'[r] = Nil) = (pending[r] = Nil)
    <2>1. CASE UNCHANGED pending
      BY <2>1
    <2>2. CASE /\ pending[b.req] # Nil
               /\ pending' = [pending EXCEPT ![b.req] = Append(@, b.cb)]
      <3>1. pending[b.req] \in Seq(Nat \ {0})
        BY <1>2, <1>4, <2>2
      <3>2. Append(pending[b.req], b.cb) \in Seq(Nat \ {0})
        BY <1>4, <3>1, AppendProperties
      <3>3. pending'[b.req] # Nil
        BY <1>2, <1>4, <2>2, <3>2, NilAssumption
      <3>4. QED
        BY <1>2, <2>2, <3>3
    <2>3. QED
      BY <1>1, <2>1, <2>2
  <1>6. /\ Async!CallBlock(b.req, b.cb) \in Async!Blocks
        /\ Async!CallBlock(b.req, b.cb).op # "setResult"
    BY <1>4 DEF Async!CallBlock, Async!Blocks
  <1>7. AskedMatches' /\ ResultsOnTheirWay' /\ OutcomesFit' /\ UnresolvedIsUnderWay'
    BY <1>1, <1>5, <1>6, RunNoResult DEF b
  <1>8. ToldTheOutcome' /\ AnswersItsQuery'
    BY <1>1 DEF Flow, ToldTheOutcome, AnswersItsQuery
  <1>9. QED
    BY <1>7, <1>8

LEMMA RunCallFlow ==
  ASSUME TypeOK, Flow, Async!RunCall, UNCHANGED <<made, downloading, asked>>
  PROVE  ResultsOnTheirWay' /\ OutcomesFit' /\ ToldTheOutcome' /\ AskedMatches'
         /\ UnresolvedIsUnderWay' /\ AnswersItsQuery'
  <1> DEFINE b == Head(mainQueue)
             c == Async!Call(b.cb, outcome[b.req])
  <1>1. /\ mainQueue # <<>> /\ b.op = "call" /\ mainQueue' = Tail(mainQueue)
        /\ called' = Append(called, c)
        /\ UNCHANGED <<pending, outcome, registered>>
    BY DEF Async!RunCall, Async!NextBlockIs
  <1>2. AskedMatches' /\ ResultsOnTheirWay' /\ OutcomesFit' /\ UnresolvedIsUnderWay'
    BY <1>1, RunNoResult
  <1>3. /\ Async!NamesOK /\ AskedMatches /\ OutcomesFit /\ ToldTheOutcome /\ AnswersItsQuery
    BY DEF Flow, Async!IInv
  <1>4. /\ mainQueue \in Seq(Async!Blocks) /\ called \in Seq(Async!Calls)
        /\ outcome \in [Requests -> Outcomes]
    BY DEF TypeOK, Async!TypeOK
  <1>5. b \in Async!Blocks /\ b = mainQueue[1] /\ 1 \in 1 .. Len(mainQueue)
    <2>1. Len(mainQueue) \in Nat /\ Len(mainQueue) # 0
      BY <1>1, <1>4, EmptySeq
    <2>2. 1 \in 1 .. Len(mainQueue)
      BY ONLY <2>1
    <2>3. QED
      BY <1>1, <1>4, <2>2, HeadTailProperties, ElementOfSeq
  <1>6. b.req \in Requests /\ b.cb \in Nat \ {0}
    BY <1>1, <1>5 DEF Async!Blocks
  <1>7. b.cb \in 1 .. Len(registered) /\ registered[b.cb] = b.req
    BY <1>1, <1>3, <1>5, <1>6 DEF Async!NamesOK, Async!CarriedFor, Async!Callbacks
  <1>8. /\ c.cb = b.cb /\ c.outcome = outcome[b.req] /\ c \in Async!Calls
    BY <1>4, <1>6 DEF Async!Call, Async!Calls
  <1>9. c.outcome.result # Nil =>
           \/ c.outcome.result.of = asked[c.cb]
           \/ /\ made[registered[c.cb]].cached
              /\ ShareAnEntry(c.outcome.result.of, asked[c.cb])
    BY <1>3, <1>6, <1>7, <1>8 DEF AskedMatches, Serves, OutcomesFit, Fits
  <1> HIDE DEF b, c
  <1>10. /\ Len(called) \in Nat
         /\ Len(called') = Len(called) + 1
         /\ called'[Len(called) + 1] = c
         /\ \A i \in 1 .. Len(called) : called'[i] = called[i]
    BY <1>1, <1>4, <1>8, AppendProperties
  <1>11. \A i \in 1 .. Len(called') : i \in 1 .. Len(called) \/ i = Len(called) + 1
    BY ONLY <1>10
  <1>12. ToldTheOutcome'
    BY <1>1, <1>3, <1>7, <1>8, <1>10, <1>11 DEF ToldTheOutcome
  <1>13. AnswersItsQuery'
    BY <1>1, <1>3, <1>9, <1>10, <1>11 DEF AnswersItsQuery, ShareAnEntry
  <1>14. QED
    BY <1>2, <1>12, <1>13

LEMMA RunOtherFlow ==
  ASSUME TypeOK, Flow, Async!RunOther, UNCHANGED <<made, downloading, asked>>
  PROVE  ResultsOnTheirWay' /\ OutcomesFit' /\ ToldTheOutcome' /\ AskedMatches'
         /\ UnresolvedIsUnderWay' /\ AnswersItsQuery'
  <1>1. /\ mainQueue # <<>> /\ Head(mainQueue).op = "other"
        /\ mainQueue' = Tail(mainQueue)
        /\ UNCHANGED <<pending, outcome, registered, called>>
    BY DEF Async!RunOther, Async!NextBlockIs
  <1>2. AskedMatches' /\ ResultsOnTheirWay' /\ OutcomesFit' /\ UnresolvedIsUnderWay'
    BY <1>1, RunNoResult
  <1>3. ToldTheOutcome' /\ AnswersItsQuery'
    BY <1>1 DEF Flow, ToldTheOutcome, AnswersItsQuery
  <1>4. QED
    BY <1>2, <1>3

\* A result arrives: it is the first of its request, so the callbacks that wait
\* are called with it and no one was told another.
LEMMA RunSetResultFlow ==
  ASSUME TypeOK, Flow, Async!RunSetResult, UNCHANGED <<made, downloading, asked>>
  PROVE  ResultsOnTheirWay' /\ OutcomesFit' /\ ToldTheOutcome' /\ AskedMatches'
         /\ UnresolvedIsUnderWay' /\ AnswersItsQuery'
  <1> DEFINE b == Head(mainQueue)
             r == b.req
             v == b.outcome
             list == pending[r]
             more == Async!CallEach(list, v)
  <1>1. /\ AskedMatches /\ ResultsOnTheirWay /\ OutcomesFit /\ ToldTheOutcome
        /\ UnresolvedIsUnderWay /\ AnswersItsQuery
        /\ Async!NamesOK /\ Async!PendingInOrder
    BY DEF Flow, Async!IInv
  <1>2. /\ mainQueue # <<>> /\ b.op = "setResult" /\ mainQueue' = Tail(mainQueue)
        /\ outcome' = [outcome EXCEPT ![r] = v]
        /\ registered' = registered
        /\ \/ pending[r] = Nil
           \/ /\ called' = called \o more
              /\ pending' = [pending EXCEPT ![r] = Nil]
    BY DEF Async!RunSetResult, Async!NextBlockIs
  <1>3. /\ mainQueue \in Seq(Async!Blocks) /\ called \in Seq(Async!Calls)
        /\ outcome \in [Requests -> Outcomes]
        /\ pending \in [Requests -> Seq(Nat \ {0}) \cup {Nil}]
        /\ downloading \subseteq 1 .. Len(made)
    BY DEF TypeOK, Async!TypeOK
  <1>4. /\ 1 \in 1 .. Len(mainQueue) /\ b = mainQueue[1]
        /\ \A i \in 1 .. Len(mainQueue') : mainQueue'[i].op = "setResult" =>
             /\ i + 1 \in 1 .. Len(mainQueue) /\ i + 1 # 1
             /\ mainQueue'[i] = mainQueue[i + 1]
        /\ \A i \in 1 .. Len(mainQueue) : i # 1 =>
             /\ i - 1 \in 1 .. Len(mainQueue')
             /\ mainQueue'[i - 1] = mainQueue[i]
    BY <1>2, Dequeued DEF TypeOK
  <1>5. b \in Async!Blocks
    BY <1>3, <1>4, ElementOfSeq
  <1>6. r \in Requests /\ v \in Outcomes
    BY <1>2, <1>5 DEF Async!Blocks
  <1>7. /\ r \in 1 .. Len(made) /\ r \notin downloading
        /\ list # Nil /\ Fits(v, r)
        /\ \A i \in 1 .. Len(mainQueue) :
             mainQueue[i].op = "setResult" /\ mainQueue[i].req = r => i = 1
    BY <1>1, <1>2, <1>4 DEF ResultsOnTheirWay
  <1>8. called' = called \o more /\ pending' = [pending EXCEPT ![r] = Nil]
    BY <1>2, <1>7
  <1>9. list \in Seq(Nat \ {0})
    BY <1>3, <1>6, <1>7
  <1>10. \A i \in 1 .. Len(list) :
           list[i] \in 1 .. Len(registered) /\ registered[list[i]] = r
    BY <1>1, <1>6, <1>7 DEF Async!NamesOK, Async!Callbacks
  <1>11. \A i \in 1 .. Len(called) : registered[called[i].cb] # r
    BY <1>1, <1>6, <1>7 DEF Async!PendingInOrder
  <1>12. /\ outcome'[r] = v /\ pending'[r] = Nil
         /\ \A s \in Requests : s # r => outcome'[s] = outcome[s] /\ pending'[s] = pending[s]
    BY <1>2, <1>3, <1>6, <1>8
  <1>13. \A i \in 1 .. Len(called) :
           /\ registered[called[i].cb] \in Requests
           /\ called[i].cb \in 1 .. Len(registered)
    <2>1. \A i \in 1 .. Len(called) : called[i].cb \in 1 .. Len(registered)
      BY <1>1 DEF Async!NamesOK, Async!Callbacks
    <2>2. registered \in Seq(Requests)
      BY DEF TypeOK, Async!TypeOK
    <2>3. QED
      BY <2>1, <2>2, ElementOfSeq
  <1>14. 1 .. Len(made) \subseteq Requests
    BY BoundsAssumption DEF TypeOK, Requests
  <1> HIDE DEF b, r, v, list
  <1>15. /\ more \in Seq(Async!Calls)
         /\ Len(more) = Len(list)
         /\ \A i \in 1 .. Len(list) : more[i].cb = list[i] /\ more[i].outcome = v
    <2>1. /\ more = [i \in 1 .. Len(list) |-> Async!Call(list[i], v)]
          /\ Len(list) \in Nat
      BY <1>9 DEF Async!CallEach
    <2>2. \A i \in 1 .. Len(list) :
            /\ Async!Call(list[i], v) \in Async!Calls
            /\ Async!Call(list[i], v).cb = list[i]
            /\ Async!Call(list[i], v).outcome = v
      BY <1>6, <1>9, ElementOfSeq DEF Async!Call, Async!Calls
    <2> HIDE DEF more
    <2>3. more \in [1 .. Len(list) -> Async!Calls]
      BY <2>1, <2>2
    <2>4. more \in Seq(Async!Calls)
      BY <2>1, <2>3, SeqDef
    <2>5. Len(more) = Len(list)
      BY <2>1, <2>3, <2>4, LenProperties
    <2>6. QED
      BY <2>1, <2>2, <2>4, <2>5
  <1> HIDE DEF more
  <1>16. /\ Len(called) \in Nat
         /\ Len(called') = Len(called) + Len(more)
         /\ \A i \in 1 .. Len(called') :
              \/ i \in 1 .. Len(called) /\ called'[i] = called[i]
              \/ i - Len(called) \in 1 .. Len(more) /\ called'[i] = more[i - Len(called)]
    <2>1. /\ Len(called) \in Nat /\ Len(more) \in Nat
          /\ Len(called') = Len(called) + Len(more)
          /\ \A i \in 1 .. Len(called) + Len(more) :
               called'[i] = IF i <= Len(called) THEN called[i] ELSE more[i - Len(called)]
      <3>1. /\ Len(called \o more) = Len(called) + Len(more)
            /\ \A i \in 1 .. Len(called) + Len(more) :
                 (called \o more)[i] =
                    IF i <= Len(called) THEN called[i] ELSE more[i - Len(called)]
        <4>1. called \in Seq(Async!Calls) /\ more \in Seq(Async!Calls)
          BY <1>3, <1>15
        <4>2. QED
          BY ONLY <4>1, ConcatProperties
      <3>2. Len(called) \in Nat /\ Len(more) \in Nat
        BY <1>3, <1>15
      <3>3. called' = called \o more
        BY <1>8
      <3>4. QED
        BY <3>1, <3>2, <3>3
    <2>2. QED
      BY ONLY <2>1
  <1>17. \A i \in 1 .. Len(called') :
           \/ i \in 1 .. Len(called) /\ called'[i] = called[i]
           \/ \E k \in 1 .. Len(list) : called'[i].cb = list[k] /\ called'[i].outcome = v
    BY <1>15, <1>16
  <1>18. ToldTheOutcome'
    BY <1>1, <1>2, <1>10, <1>11, <1>12, <1>13, <1>17 DEF ToldTheOutcome
  <1>19. AnswersItsQuery'
    <2>1. \A k \in 1 .. Len(list) : v.result # Nil =>
            \/ v.result.of = asked[list[k]]
            \/ /\ made[registered[list[k]]].cached
               /\ ShareAnEntry(v.result.of, asked[list[k]])
      BY <1>1, <1>7, <1>10 DEF AskedMatches, Serves, Fits
    <2>2. QED
      BY <1>1, <1>2, <1>17, <2>1 DEF AnswersItsQuery, ShareAnEntry
  <1>20. ResultsOnTheirWay'
    <2>1. ASSUME NEW i \in 1 .. Len(mainQueue'), NEW j \in 1 .. Len(mainQueue'),
                 i + 1 = j + 1
          PROVE  i = j
      BY ONLY <2>1
    <2>2. ASSUME NEW i \in 1 .. Len(mainQueue'), mainQueue'[i].op = "setResult"
          PROVE  /\ mainQueue'[i].req \in 1 .. Len(made)
                 /\ mainQueue'[i].req \notin downloading
                 /\ pending'[mainQueue'[i].req] # Nil
                 /\ Fits(mainQueue'[i].outcome, mainQueue'[i].req)
                 /\ \A j \in 1 .. Len(mainQueue') :
                      mainQueue'[j].op = "setResult" /\ mainQueue'[j].req = mainQueue'[i].req
                        => i = j
      <3>1. /\ i + 1 \in 1 .. Len(mainQueue) /\ i + 1 # 1
            /\ mainQueue'[i] = mainQueue[i + 1]
        BY <1>4, <2>2
      <3>2. /\ mainQueue'[i].req \in 1 .. Len(made)
            /\ mainQueue'[i].req \notin downloading
            /\ pending[mainQueue'[i].req] # Nil
            /\ Fits(mainQueue'[i].outcome, mainQueue'[i].req)
        BY <1>1, <2>2, <3>1 DEF ResultsOnTheirWay
      <3>3. mainQueue'[i].req # r
        BY <1>7, <2>2, <3>1
      <3>4. pending'[mainQueue'[i].req] # Nil
        BY <1>12, <1>14, <3>2, <3>3
      <3>5. ASSUME NEW j \in 1 .. Len(mainQueue'),
                   mainQueue'[j].op = "setResult", mainQueue'[j].req = mainQueue'[i].req
            PROVE  i = j
        <4>1. j + 1 \in 1 .. Len(mainQueue) /\ mainQueue'[j] = mainQueue[j + 1]
          BY <1>4, <3>5
        <4>2. i + 1 = j + 1
          BY <1>1, <2>2, <3>1, <3>5, <4>1 DEF ResultsOnTheirWay
        <4>3. QED
          BY <2>1, <4>2
      <3>6. QED
        BY <3>2, <3>4, <3>5
    <2>3. QED
      BY <2>2 DEF ResultsOnTheirWay, Fits
  <1>21. OutcomesFit'
    BY <1>1, <1>7, <1>12 DEF OutcomesFit, Fits
  <1>22. UnresolvedIsUnderWay'
    <2>1. ASSUME NEW s \in 1 .. Len(made), s # r, ResultQueued(s)
          PROVE  ResultQueued(s)'
      <3>1. PICK i \in 1 .. Len(mainQueue) :
              mainQueue[i].op = "setResult" /\ mainQueue[i].req = s
        BY <2>1 DEF ResultQueued
      <3>2. i # 1
        BY <1>4, <2>1, <3>1 DEF r
      <3>3. i - 1 \in 1 .. Len(mainQueue') /\ mainQueue'[i - 1] = mainQueue[i]
        BY <1>4, <3>2
      <3>4. QED
        BY <3>1, <3>3 DEF ResultQueued
    <2>2. QED
      BY <1>1, <1>12, <1>14, <2>1 DEF UnresolvedIsUnderWay
  <1>23. AskedMatches'
    BY <1>1, <1>2 DEF AskedMatches, Serves
  <1>24. QED
    BY <1>18, <1>19, <1>20, <1>21, <1>22, <1>23

LEMMA RunMainFlow ==
  ASSUME TypeOK, Flow, RunMain
  PROVE  Flow'
  <1>1. Async!RunMain /\ UNCHANGED <<made, downloading, asked>>
    BY DEF RunMain
  <1>2. Async!IInv'
    BY <1>1, AsyncRunMain DEF Flow
  <1>3. ResultsOnTheirWay' /\ OutcomesFit' /\ ToldTheOutcome' /\ AskedMatches'
        /\ UnresolvedIsUnderWay' /\ AnswersItsQuery'
    BY <1>1, RunSetResultFlow, RunWithResultFlow, RunCallFlow, RunOtherFlow
    DEF Async!RunMain
  <1>4. QED
    BY <1>2, <1>3 DEF Flow

-----------------------------------------------------------------------------
(* The caches.                                                             *)

\* StartDownload in the terms of AskFlow.
LEMMA StartFacts ==
  ASSUME TypeOK, NEW q \in Queries, NEW c \in BOOLEAN, StartDownload(q, c)
  PROVE  LET r == NewRequest IN
         /\ r \in Requests /\ r \notin 1 .. Len(made)
         /\ r \in 1 .. Len(made') /\ made'[r].query = q /\ made'[r].cached = c
         /\ made' \in Seq([query : Queries, cached : BOOLEAN])
         /\ Len(made') <= MaxRequests
         /\ \A s \in 1 .. Len(made) : s \in 1 .. Len(made') /\ made'[s] = made[s]
         /\ \A s \in 1 .. Len(made') : s \in 1 .. Len(made) \/ s = r
         /\ q # ArticlesQuery(NoId) => r \in downloading'
         /\ downloading \subseteq downloading'
         /\ \A s \in downloading' : s \in downloading \/ s = r
         /\ downloading' \subseteq 1 .. Len(made')
  <1> DEFINE e == [query |-> q, cached |-> c]
  <1>1. /\ made \in Seq([query : Queries, cached : BOOLEAN])
        /\ Len(made) < MaxRequests
        /\ made' = Append(made, e)
        /\ downloading \subseteq 1 .. Len(made)
        /\ downloading' = IF q = ArticlesQuery(NoId) THEN downloading
                          ELSE downloading \cup {NewRequest}
    BY DEF TypeOK, StartDownload
  <1>2. e \in [query : Queries, cached : BOOLEAN] /\ e.query = q /\ e.cached = c
    OBVIOUS
  <1> HIDE DEF e
  <1>3. /\ Len(made) \in Nat
        /\ made' \in Seq([query : Queries, cached : BOOLEAN])
        /\ Len(made') = Len(made) + 1
        /\ made'[Len(made) + 1] = e
        /\ \A s \in 1 .. Len(made) : made'[s] = made[s]
    BY <1>1, <1>2, AppendProperties
  <1>4. /\ \A s \in 1 .. Len(made) : s \in 1 .. Len(made')
        /\ \A s \in 1 .. Len(made') : s \in 1 .. Len(made) \/ s = Len(made) + 1
        /\ Len(made) + 1 \in 1 .. Len(made')
        /\ Len(made) + 1 \notin 1 .. Len(made)
    BY ONLY <1>3
  <1>5. Len(made) + 1 \in Requests /\ Len(made') <= MaxRequests
    BY <1>1, <1>3, BoundsAssumption DEF Requests
  <1>6. QED
    BY <1>1, <1>2, <1>3, <1>4, <1>5 DEF NewRequest

LEMMA StartFlow ==
  ASSUME TypeOK, Flow, NEW q \in Queries, NEW c \in BOOLEAN,
         StartDownload(q, c), Ask(q, NewRequest)
  PROVE  Flow'
  <1>1. PICK r \in Requests : r = NewRequest
    BY StartFacts
  <1>2. /\ r \notin 1 .. Len(made)
        /\ r \in 1 .. Len(made') /\ made'[r].query = q
        /\ \A s \in 1 .. Len(made) : s \in 1 .. Len(made') /\ made'[s] = made[s]
        /\ downloading \subseteq downloading'
    BY <1>1, StartFacts
  <1>3. \A s \in 1 .. Len(made') : s \notin 1 .. Len(made) =>
          s = r /\ (made'[s].query # ArticlesQuery(NoId) => s \in downloading')
    BY <1>1, StartFacts
  <1>4. \A s \in downloading' : s \notin downloading => s = r /\ s \notin 1 .. Len(made)
    BY <1>1, StartFacts
  <1>5. Ask(q, r)
    BY <1>1
  <1>6. Serves(r, q)'
    BY <1>2 DEF Serves
  <1>7. QED
    BY <1>2, <1>3, <1>4, <1>5, <1>6, AskFlow

\* A request that exists is asked once more.
LEMMA AskAgainFlow ==
  ASSUME TypeOK, Flow, NEW q \in Queries, NEW r \in Requests, Ask(q, r),
         r \in 1 .. Len(made), Serves(r, q), UNCHANGED <<made, downloading>>
  PROVE  Flow'
  <1>1. /\ r \in 1 .. Len(made') /\ Serves(r, q)'
        /\ \A s \in 1 .. Len(made) : s \in 1 .. Len(made') /\ made'[s] = made[s]
        /\ \A s \in 1 .. Len(made') : s \in 1 .. Len(made)
        /\ downloading \subseteq downloading'
        /\ \A s \in downloading' : s \in downloading
    BY DEF Serves
  <1>2. QED
    BY <1>1, AskFlow

\* What TypeOK says of the caller's histories.
LEMMA AskTypes ==
  ASSUME TypeOK, NEW q \in Queries, NEW r \in Requests, Ask(q, r)
  PROVE  asked' \in Seq(Queries) /\ Len(asked') = Len(registered')
  <1>1. /\ asked \in Seq(Queries) /\ registered \in Seq(Requests)
        /\ Len(asked) = Len(registered)
    BY DEF TypeOK, Async!TypeOK
  <1>2. asked' = Append(asked, q) /\ registered' = Append(registered, r)
    BY DEF Ask, Async!WithResult
  <1>3. /\ asked' \in Seq(Queries)
        /\ Len(asked') = Len(asked) + 1 /\ Len(registered') = Len(registered) + 1
    BY <1>1, <1>2, AppendProperties
  <1>4. QED
    BY <1>1, <1>3

LEMMA CachesKept ==
  ASSUME CacheMatches, CachedIsKept, UNCHANGED <<cacheVars, made>>
  PROVE  CacheMatches' /\ CachedIsKept'
  BY DEF CacheMatches, CachedIsKept, cacheVars

\* The keys of the queries: one for each, and two queries under one key are the
\* headlines and the articles of a source that is named like a country.
LEMMA KeyQueries ==
  /\ \A q, k, l : KeptUnder(q, k) /\ KeptUnder(q, l) => k = l
  /\ \A q, k : KeptUnder(q, k) => q # SourcesQuery /\ k \in Keys
  /\ \A p, q, k : KeptUnder(p, k) /\ KeptUnder(q, k) => p = q \/ ShareAnEntry(p, q)
  /\ \A c \in Countries : KeptUnder(HeadlinesQuery(c), c) /\ HeadlinesQuery(c) \in Queries
  /\ \A id \in SourceIds : KeptUnder(ArticlesQuery(id), id) /\ ArticlesQuery(id) \in Queries
  /\ SourcesQuery \in Queries
  <1>1. /\ \A c : HeadlinesQuery(c).what = "headlines" /\ HeadlinesQuery(c).country = c
        /\ \A id : ArticlesQuery(id).what = "articles" /\ ArticlesQuery(id).id = id
        /\ SourcesQuery.what = "sources"
    BY DEF HeadlinesQuery, ArticlesQuery, SourcesQuery
  <1>2. /\ \A c \in Countries : KeptUnder(HeadlinesQuery(c), c) /\ HeadlinesQuery(c) \in Queries
        /\ \A id \in SourceIds : KeptUnder(ArticlesQuery(id), id) /\ ArticlesQuery(id) \in Queries
        /\ SourcesQuery \in Queries
    BY DEF Queries, KeptUnder
  <1>3. \A q, k, l : KeptUnder(q, k) /\ KeptUnder(q, l) => k = l
    BY <1>1 DEF KeptUnder
  <1>4. \A q, k : KeptUnder(q, k) => q # SourcesQuery /\ k \in Keys
    BY <1>1 DEF KeptUnder, Keys
  <1>5. \A p, q, k : KeptUnder(p, k) /\ KeptUnder(q, k) => p = q \/ ShareAnEntry(p, q)
    BY DEF KeptUnder, ShareAnEntry
  <1>6. QED
    BY <1>2, <1>3, <1>4, <1>5

\* A hit or a miss of the request of the sources.
LEMMA GetSourcesInv ==
  ASSUME IInv, GetSources
  PROVE  IInv'
  <1>1. TypeOK /\ CacheMatches /\ CachedIsKept /\ Flow /\ SourcesQuery \in Queries
    BY KeyQueries DEF IInv
  <1>2. CASE /\ sourcesResult # Nil
             /\ Ask(SourcesQuery, sourcesResult)
             /\ UNCHANGED <<cacheVars, made, downloading>>
    <2>1. /\ sourcesResult \in 1 .. Len(made) /\ sourcesResult \in Requests
          /\ Serves(sourcesResult, SourcesQuery)
      BY <1>1, <1>2 DEF CacheMatches, TypeOK, Serves
    <2>2. Flow'
      BY <1>1, <1>2, <2>1, AskAgainFlow
    <2>3. CacheMatches' /\ CachedIsKept'
      BY <1>1, <1>2, CachesKept
    <2>4. asked' \in Seq(Queries) /\ Len(asked') = Len(registered')
      BY <1>1, <1>2, <2>1, AskTypes
    <2>5. TypeOK'
      BY <1>1, <1>2, <2>2, <2>4 DEF TypeOK, Flow, Async!IInv, cacheVars
    <2>6. QED
      BY <2>2, <2>3, <2>5 DEF IInv
  <1>3. CASE /\ sourcesResult = Nil
             /\ StartDownload(SourcesQuery, TRUE)
             /\ sourcesResult' = NewRequest
             /\ Ask(SourcesQuery, NewRequest)
             /\ UNCHANGED articlesResult
    <2> DEFINE r == NewRequest
    <2>1. /\ r \in Requests /\ r \notin 1 .. Len(made)
          /\ r \in 1 .. Len(made') /\ made'[r].query = SourcesQuery /\ made'[r].cached
          /\ made' \in Seq([query : Queries, cached : BOOLEAN])
          /\ Len(made') <= MaxRequests
          /\ \A s \in 1 .. Len(made) : s \in 1 .. Len(made') /\ made'[s] = made[s]
          /\ \A s \in 1 .. Len(made') : s \in 1 .. Len(made) \/ s = r
          /\ downloading' \subseteq 1 .. Len(made')
      BY <1>1, <1>3, StartFacts
    <2>2. Flow'
      BY <1>1, <1>3, StartFlow
    <2>3. asked' \in Seq(Queries) /\ Len(asked') = Len(registered')
      BY <1>1, <1>3, <2>1, AskTypes
    <2> HIDE DEF r
    <2>4. CacheMatches'
      BY <1>1, <1>3, <2>1 DEF CacheMatches, r
    <2>5. CachedIsKept'
      <3>1. ASSUME NEW s \in 1 .. Len(made'), made'[s].cached
            PROVE  \/ made'[s].query = SourcesQuery /\ sourcesResult' = s
                   \/ \E k \in Keys : KeptUnder(made'[s].query, k) /\ articlesResult[k] = s
        <4>1. CASE s = r
          BY <1>3, <2>1, <4>1 DEF r
        <4>2. CASE s # r
          <5>1. s \in 1 .. Len(made) /\ made'[s] = made[s] /\ s # Nil
            BY <2>1, <4>2, NilAssumption
          <5>2. \/ made[s].query = SourcesQuery /\ sourcesResult = s
                \/ \E k \in Keys : KeptUnder(made[s].query, k) /\ articlesResult[k] = s
            BY <1>1, <3>1, <5>1 DEF CachedIsKept
          <5>3. QED
            BY <1>3, <5>1, <5>2
        <4>3. QED
          BY <4>1, <4>2
      <3>2. QED
        BY <1>3, <3>1 DEF CachedIsKept
    <2>6. TypeOK'
      BY <1>1, <1>3, <2>1, <2>2, <2>3 DEF TypeOK, Flow, Async!IInv, r
    <2>7. QED
      BY <2>2, <2>4, <2>5, <2>6 DEF IInv
  <1>4. QED
    BY <1>2, <1>3 DEF GetSources

\* The same for the dictionary.
LEMMA GetCachedInv ==
  ASSUME IInv, NEW key \in Keys, NEW q \in Queries, KeptUnder(q, key), GetCached(q, key)
  PROVE  IInv'
  <1>1. TypeOK /\ CacheMatches /\ CachedIsKept /\ Flow
        /\ articlesResult \in [Keys -> Requests \cup {Nil}]
    BY DEF IInv, TypeOK
  <1>2. CASE /\ articlesResult[key] # Nil
             /\ Ask(q, articlesResult[key])
             /\ UNCHANGED <<cacheVars, made, downloading>>
    <2> DEFINE r == articlesResult[key]
    <2>1. r \in 1 .. Len(made) /\ r \in Requests /\ Serves(r, q)
      BY <1>1, <1>2, KeyQueries DEF CacheMatches, Serves
    <2>2. Flow'
      BY <1>1, <1>2, <2>1, AskAgainFlow
    <2>3. CacheMatches' /\ CachedIsKept'
      BY <1>1, <1>2, CachesKept
    <2>4. asked' \in Seq(Queries) /\ Len(asked') = Len(registered')
      BY <1>1, <1>2, <2>1, AskTypes
    <2>5. TypeOK'
      BY <1>1, <1>2, <2>2, <2>4 DEF TypeOK, Flow, Async!IInv, cacheVars
    <2>6. QED
      BY <2>2, <2>3, <2>5 DEF IInv
  <1>3. CASE /\ articlesResult[key] = Nil
             /\ StartDownload(q, TRUE)
             /\ articlesResult' = [articlesResult EXCEPT ![key] = NewRequest]
             /\ Ask(q, NewRequest)
             /\ UNCHANGED sourcesResult
    <2> DEFINE r == NewRequest
    <2>1. /\ r \in Requests /\ r \notin 1 .. Len(made)
          /\ r \in 1 .. Len(made') /\ made'[r].query = q /\ made'[r].cached
          /\ made' \in Seq([query : Queries, cached : BOOLEAN])
          /\ Len(made') <= MaxRequests
          /\ \A s \in 1 .. Len(made) : s \in 1 .. Len(made') /\ made'[s] = made[s]
          /\ \A s \in 1 .. Len(made') : s \in 1 .. Len(made) \/ s = r
          /\ downloading' \subseteq 1 .. Len(made')
      BY <1>1, <1>3, StartFacts
    <2>2. Flow'
      BY <1>1, <1>3, StartFlow
    <2>3. asked' \in Seq(Queries) /\ Len(asked') = Len(registered')
      BY <1>1, <1>3, <2>1, AskTypes
    <2> HIDE DEF r
    <2>4. /\ articlesResult'[key] = r
          /\ \A k \in Keys : k # key => articlesResult'[k] = articlesResult[k]
          /\ articlesResult' \in [Keys -> Requests \cup {Nil}]
      BY <1>1, <1>3, <2>1 DEF r
    <2>5. CacheMatches'
      BY <1>1, <1>3, <2>1, <2>4 DEF CacheMatches
    <2>6. CachedIsKept'
      <3>1. ASSUME NEW s \in 1 .. Len(made'), made'[s].cached
            PROVE  \/ made'[s].query = SourcesQuery /\ sourcesResult = s
                   \/ \E k \in Keys : KeptUnder(made'[s].query, k) /\ articlesResult'[k] = s
        <4>1. CASE s = r
          BY <2>1, <2>4, <4>1
        <4>2. CASE s # r
          <5>1. s \in 1 .. Len(made) /\ made'[s] = made[s] /\ s # Nil
            BY <2>1, <4>2, NilAssumption
          <5>2. CASE made[s].query = SourcesQuery /\ sourcesResult = s
            BY <5>1, <5>2
          <5>3. ASSUME NEW k \in Keys, KeptUnder(made[s].query, k), articlesResult[k] = s
                PROVE  articlesResult'[k] = s
            BY <1>3, <2>4, <5>1, <5>3
          <5>4. QED
            BY <1>1, <3>1, <5>1, <5>2, <5>3 DEF CachedIsKept
        <4>3. QED
          BY <4>1, <4>2
      <3>2. QED
        BY <1>3, <3>1 DEF CachedIsKept
    <2>7. TypeOK'
      BY <1>1, <1>3, <2>1, <2>2, <2>3, <2>4 DEF TypeOK, Flow, Async!IInv
    <2>8. QED
      BY <2>2, <2>5, <2>6, <2>7 DEF IInv
  <1>4. QED
    BY <1>2, <1>3 DEF GetCached

\* A view's own request is in no cache.
LEMMA DownloadForViewInv ==
  ASSUME IInv, NEW q \in Queries, DownloadForView(q)
  PROVE  IInv'
  <1> DEFINE r == NewRequest
  <1>1. TypeOK /\ CacheMatches /\ CachedIsKept /\ Flow
    BY DEF IInv
  <1>2. StartDownload(q, FALSE) /\ Ask(q, r) /\ UNCHANGED cacheVars
    BY DEF DownloadForView
  <1>3. /\ r \in Requests /\ ~made'[r].cached
        /\ made' \in Seq([query : Queries, cached : BOOLEAN])
        /\ Len(made') <= MaxRequests
        /\ \A s \in 1 .. Len(made) : s \in 1 .. Len(made') /\ made'[s] = made[s]
        /\ \A s \in 1 .. Len(made') : s \in 1 .. Len(made) \/ s = r
        /\ downloading' \subseteq 1 .. Len(made')
    BY <1>1, <1>2, StartFacts
  <1>4. Flow'
    BY <1>1, <1>2, StartFlow
  <1>5. asked' \in Seq(Queries) /\ Len(asked') = Len(registered')
    BY <1>1, <1>2, <1>3, AskTypes
  <1> HIDE DEF r
  <1>6. CacheMatches' /\ CachedIsKept'
    BY <1>1, <1>2, <1>3 DEF CacheMatches, CachedIsKept, cacheVars
  <1>7. TypeOK'
    BY <1>1, <1>2, <1>3, <1>4, <1>5 DEF TypeOK, Flow, Async!IInv, cacheVars
  <1>8. QED
    BY <1>4, <1>6, <1>7 DEF IInv

-----------------------------------------------------------------------------
(* The theorems.                                                           *)

LEMMA InitInv == Init => IInv
  <1> SUFFICES ASSUME Init PROVE IInv
    OBVIOUS
  <1>1. Async!IInv
    BY AsyncAssumptions, SameInvariant, AsyncP!InitIInv
    DEF Init, AsyncP!Init, Async!Init
  <1>2. /\ mainQueue = <<>> /\ registered = <<>> /\ called = <<>>
        /\ made = <<>> /\ downloading = {} /\ asked = <<>>
        /\ pending = [r \in Requests |-> <<>>]
        /\ outcome = [r \in Requests |-> Failure("none")]
        /\ sourcesResult = Nil /\ articlesResult = [k \in Keys |-> Nil]
    BY DEF Init, Async!Init
  <1>3. TypeOK
    BY <1>1, <1>2, BoundsAssumption DEF TypeOK, Async!IInv
  <1>4. CacheMatches /\ CachedIsKept
    BY <1>2 DEF CacheMatches, CachedIsKept
  <1>5. AskedMatches /\ ResultsOnTheirWay /\ ToldTheOutcome /\ UnresolvedIsUnderWay
        /\ AnswersItsQuery
    BY <1>2 DEF AskedMatches, ResultsOnTheirWay, ToldTheOutcome, UnresolvedIsUnderWay,
                AnswersItsQuery
  <1>6. OutcomesFit
    <2>1. <<>> # Nil /\ Failure("none").result = Nil
      <3>1. <<>> \in Seq(Nat \ {0})
        OBVIOUS
      <3>2. QED
        BY <3>1, NilAssumption DEF Failure
    <2>2. QED
      BY <1>2, <2>1 DEF OutcomesFit, Fits
  <1>7. QED
    BY <1>1, <1>3, <1>4, <1>5, <1>6 DEF IInv, Flow

LEMMA NextInv == IInv /\ [Next]_vars => IInv'
  <1> SUFFICES ASSUME IInv, [Next]_vars PROVE IInv'
    OBVIOUS
  <1>1. TypeOK /\ CacheMatches /\ CachedIsKept /\ Flow
    BY DEF IInv
  <1>2. CASE GetSources
    BY <1>2, GetSourcesInv
  <1>3. ASSUME NEW c \in Countries, GetHeadlines(c) \/ DownloadHeadlines(c)
        PROVE  IInv'
    BY <1>3, GetCachedInv, DownloadForViewInv, KeyQueries DEF GetHeadlines, DownloadHeadlines
  <1>4. ASSUME NEW id \in SourceIds, GetArticles(id) \/ DownloadArticles(id)
        PROVE  IInv'
    BY <1>4, GetCachedInv, DownloadForViewInv, KeyQueries DEF GetArticles, DownloadArticles
  <1>5. ASSUME Flow', UNCHANGED <<cacheVars, made, asked, registered>>,
               downloading' \subseteq downloading
        PROVE  IInv'
    <2>1. CacheMatches' /\ CachedIsKept'
      BY <1>1, <1>5, CachesKept
    <2>2. TypeOK'
      BY <1>1, <1>5 DEF TypeOK, Flow, Async!IInv, cacheVars
    <2>3. QED
      BY <1>5, <2>1, <2>2 DEF IInv
  <1>6. ASSUME NEW r \in Requests, NEW a \in Answers, FinishDownload(r, a)
        PROVE  IInv'
    <2>1. UNCHANGED <<cacheVars, made, asked, registered>> /\ downloading' \subseteq downloading
      BY <1>6 DEF FinishDownload, Async!SetResult
    <2>2. QED
      BY <1>1, <1>5, <1>6, <2>1, FinishDownloadFlow
  <1>7. ASSUME NEW w \in Work, DispatchOther(w) PROVE IInv'
    <2>1. UNCHANGED <<cacheVars, made, asked, registered>> /\ downloading' \subseteq downloading
      BY <1>7 DEF DispatchOther, Async!DispatchOther
    <2>2. QED
      BY <1>1, <1>5, <1>7, <2>1, DispatchOtherFlow
  <1>8. CASE RunMain
    <2>1. UNCHANGED <<cacheVars, made, asked, registered>> /\ downloading' \subseteq downloading
      BY <1>8 DEF RunMain, Async!RunMain, Async!RunSetResult, Async!RunWithResult,
                  Async!RunCall, Async!RunOther
    <2>2. QED
      BY <1>1, <1>5, <1>8, <2>1, RunMainFlow
  <1>9. CASE UNCHANGED vars
    <2>1. /\ UNCHANGED <<cacheVars, made, asked, registered>> /\ UNCHANGED downloading
          /\ UNCHANGED asyncVars /\ UNCHANGED <<mainQueue, pending, outcome, called>>
      BY <1>9 DEF vars, asyncVars
    <2>2. Async!IInv'
      BY <1>1, <2>1, AsyncUnchanged DEF Flow
    <2>3. AskedMatches' /\ ResultsOnTheirWay' /\ OutcomesFit' /\ ToldTheOutcome'
          /\ UnresolvedIsUnderWay' /\ AnswersItsQuery'
      BY <1>1, <2>1 DEF Flow, AskedMatches, Serves, ResultsOnTheirWay, OutcomesFit, Fits,
                        ToldTheOutcome, UnresolvedIsUnderWay, ResultQueued, AnswersItsQuery
    <2>4. Flow'
      BY <2>2, <2>3 DEF Flow
    <2>5. QED
      BY <1>5, <2>1, <2>4
  <1>10. QED
    BY <1>2, <1>3, <1>4, <1>6, <1>7, <1>8, <1>9 DEF Next

\* The invariant behind the others.
THEOREM Invariance == Spec => []IInv
  BY InitInv, NextInv, PTL DEF Spec

\* The caches hold requests or nil, and every caller is in the histories once
\* (the fields of NewsApi.swift).
THEOREM TypeCorrect == Spec => []TypeOK
  <1>1. IInv => TypeOK
    BY DEF IInv
  <1>2. QED
    BY <1>1, Invariance, PTL

\* No request is left without a result, whatever guard of a completion handler
\* is taken: a download or a dispatched setResult will bring one.
THEOREM NoneIsForgotten == Spec => []UnresolvedIsUnderWay
  <1>1. IInv => UnresolvedIsUnderWay
    BY DEF IInv, Flow
  <1>2. QED
    BY <1>1, Invariance, PTL

\* "Only get the sources once", and headlines and articles alike, though both
\* are kept in one dictionary.
THEOREM DownloadedOnce == Spec => []OneDownloadPerQuery
  <1>1. IInv => OneDownloadPerQuery
    <2> SUFFICES ASSUME IInv,
                        NEW r \in 1 .. Len(made), NEW s \in 1 .. Len(made),
                        made[r].cached, made[s].cached, made[r].query = made[s].query
                 PROVE  r = s
      BY DEF OneDownloadPerQuery
    <2>1. /\ \/ made[r].query = SourcesQuery /\ sourcesResult = r
             \/ \E k \in Keys : KeptUnder(made[r].query, k) /\ articlesResult[k] = r
          /\ \/ made[s].query = SourcesQuery /\ sourcesResult = s
             \/ \E k \in Keys : KeptUnder(made[s].query, k) /\ articlesResult[k] = s
      BY DEF IInv, CachedIsKept
    <2>2. QED
      BY <2>1, KeyQueries
  <1>2. QED
    BY <1>1, Invariance, PTL

\* Whoever asked for headlines, articles or sources is called with these or
\* with a failure.  Nothing is assumed of the source ids: the one exception is a
\* source whose id is the name of a country, as articlesResult has one entry for
\* both, and even then only callers of getHeadlines and getArticles are touched.
THEOREM AnswersFit == Spec => []AnswersItsQuery
  <1>1. IInv => AnswersItsQuery
    BY DEF IInv, Flow
  <1>2. QED
    BY <1>1, Invariance, PTL

\* All who share a request are told the same, early and late.
THEOREM SharedAlike == Spec => []EveryoneToldTheSame
  <1>1. IInv => EveryoneToldTheSame
    BY DEF IInv, Flow, ToldTheOutcome, EveryoneToldTheSame
  <1>2. QED
    BY <1>1, Invariance, PTL

=============================================================================
