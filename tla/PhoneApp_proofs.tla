--------------------------- MODULE PhoneApp_proofs ---------------------------
(***************************************************************************)
(* Proofs about the phone for any countries, sources and bounds: to the    *)
(* watch it is the service of WatchService.  What is proved of NewsApi is  *)
(* instantiated for the phone's requests.                                  *)
(***************************************************************************)
EXTENDS PhoneApp, TLAPS, SequenceTheorems

ApiP == INSTANCE NewsApi_proofs WITH
  Work <- Messages, MaxRequests <- MaxCalls, MaxCallbacks <- MaxCalls,
  MaxQueue <- 3 * MaxCalls

-----------------------------------------------------------------------------
(* The invariant.                                                          *)

Consumers == {SourcesView, ArticlesView} \cup {Reply(m) : m \in Messages}

\* What TypeOK says of the variables of this module.
OwnTypes ==
  /\ received \in Seq(Contents) /\ Len(received) <= MaxMessages
  /\ turn \in Messages \cup {Nil}
  /\ consumer \in Seq(Consumers)
  /\ Len(consumer) = Len(registered)
  /\ ran \in 0 .. Len(called)
  /\ replies \in [Messages -> Seq(Payloads)]
  /\ sourceList \in Payloads \cup {Nil}
  /\ loading \subseteq Messages
  /\ crashed \in BOOLEAN

\* The i-th block of the main queue is the one of message m.
BlockOf(i, m) == mainQueue[i].op = "other" /\ mainQueue[i].work = m

\* Message m has not come yet, waits in the main queue, or is being handled.
Unhandled(m) ==
  \/ m \notin 1 .. Len(received)
  \/ turn = m
  \/ \E i \in 1 .. Len(mainQueue) : BlockOf(i, m)

\* A message is dispatched once, and nothing is done for it before its block.
HandledOnce ==
  /\ turn # Nil => turn \in 1 .. Len(received)
  /\ \A m \in Messages : \A i, j \in 1 .. Len(mainQueue) :
       BlockOf(i, m) => /\ m \in 1 .. Len(received) /\ m # turn
                        /\ BlockOf(j, m) => i = j
  /\ \A m \in Messages : Unhandled(m) =>
       /\ m \notin loading /\ replies[m] = <<>>
       /\ \A k \in 1 .. Len(consumer) : consumer[k] # Reply(m)
  /\ \A m \in loading : replies[m] = <<>> /\ received[m].request = "image"

\* A message has one callback at most, which waits for the answer of the cache.
CallbacksFit ==
  \A m \in Messages : \A k \in 1 .. Len(consumer) : consumer[k] = Reply(m) =>
    /\ received[m].request \in {"sources", "articles", "headlines"}
    /\ asked[k] = QueryOf(received[m])
    /\ made[registered[k]].cached
    /\ \A j \in 1 .. Len(consumer) : consumer[j] = Reply(m) => j = k

\* What is replied without a callback.
FixedReply(c) ==
  IF c.request = "unknown" THEN [of |-> [what |-> "unknown"], list |-> "error"]
  ELSE ImageReply(c)

\* The i-th call of a callback has told m its answer.
TellsMessage(i, m) ==
  /\ consumer[called[i].cb] = Reply(m)
  /\ called[i].outcome.result # Nil
  /\ replies[m] = <<called[i].outcome.result>>

\* A reply is what the callback was told, or fixed.
RepliesFit ==
  \A m \in Messages : replies[m] # <<>> =>
    \/ \E i \in 1 .. ran : TellsMessage(i, m)
    \/ /\ received[m].request \in {"unknown", "image"}
       /\ replies[m] = <<FixedReply(received[m])>>

PhoneInv == OwnTypes /\ HandledOnce /\ CallbacksFit /\ RepliesFit

IInv == ApiP!IInv /\ PhoneInv

-----------------------------------------------------------------------------
(* The two instances of NewsApi say the same, action by action.            *)

LEMMA SameGetSources ==
  Api!GetSources = ApiP!GetSources
  BY DEF Api!GetSources, ApiP!GetSources, Api!SourcesQuery, ApiP!SourcesQuery,
         Api!ArticlesQuery, ApiP!ArticlesQuery, Api!cacheVars, ApiP!cacheVars,
         Api!Ask, ApiP!Ask, Api!Async!WithResult, ApiP!Async!WithResult,
         Api!Async!WithResultBlock, ApiP!Async!WithResultBlock,
         Api!StartDownload, ApiP!StartDownload, Api!NewRequest, ApiP!NewRequest

LEMMA SameGetCached ==
  \A q, key : Api!GetCached(q, key) = ApiP!GetCached(q, key)
  BY DEF Api!GetCached, ApiP!GetCached, Api!SourcesQuery, ApiP!SourcesQuery,
         Api!ArticlesQuery, ApiP!ArticlesQuery, Api!cacheVars, ApiP!cacheVars,
         Api!Ask, ApiP!Ask, Api!Async!WithResult, ApiP!Async!WithResult,
         Api!Async!WithResultBlock, ApiP!Async!WithResultBlock,
         Api!StartDownload, ApiP!StartDownload, Api!NewRequest, ApiP!NewRequest

LEMMA SameForView ==
  \A q : Api!DownloadForView(q) = ApiP!DownloadForView(q)
  BY DEF Api!DownloadForView, ApiP!DownloadForView, Api!SourcesQuery,
         ApiP!SourcesQuery, Api!ArticlesQuery, ApiP!ArticlesQuery,
         Api!cacheVars, ApiP!cacheVars, Api!Ask, ApiP!Ask, Api!Async!WithResult,
         ApiP!Async!WithResult, Api!Async!WithResultBlock,
         ApiP!Async!WithResultBlock, Api!StartDownload, ApiP!StartDownload,
         Api!NewRequest, ApiP!NewRequest

LEMMA SameQueries ==
  /\ Api!SourcesQuery = ApiP!SourcesQuery
  /\ \A id : Api!ArticlesQuery(id) = ApiP!ArticlesQuery(id)
  /\ \A c : Api!HeadlinesQuery(c) = ApiP!HeadlinesQuery(c)
  /\ Api!Queries = ApiP!Queries
  BY DEF Api!SourcesQuery, ApiP!SourcesQuery, Api!ArticlesQuery,
         ApiP!ArticlesQuery, Api!HeadlinesQuery, ApiP!HeadlinesQuery,
         Api!Queries, ApiP!Queries

LEMMA SameOutcomes ==
  \A q, a : Api!OutcomeOf(q, a) = ApiP!OutcomeOf(q, a)
  BY DEF Api!OutcomeOf, ApiP!OutcomeOf, Api!SourcesOutcome, ApiP!SourcesOutcome,
         Api!ArticlesOutcome, ApiP!ArticlesOutcome, Api!Failure, ApiP!Failure,
         Api!Success, ApiP!Success, Api!SourcesQuery, ApiP!SourcesQuery

LEMMA SameRequests ==
  /\ Api!Requests = ApiP!Requests /\ Api!Requests = 1 .. MaxCalls
  /\ Api!Answers = ApiP!Answers
  BY DEF Api!Requests, ApiP!Requests, Api!Answers, ApiP!Answers, Api!Bodies,
         ApiP!Bodies

LEMMA SameFinish ==
  \A r, a : Api!FinishDownload(r, a) = ApiP!FinishDownload(r, a)
  BY DEF Api!FinishDownload, ApiP!FinishDownload, Api!cacheVars, ApiP!cacheVars,
         Api!Async!SetResult, ApiP!Async!SetResult, Api!Async!SetResultBlock,
         ApiP!Async!SetResultBlock, Api!OutcomeOf, ApiP!OutcomeOf,
         Api!SourcesOutcome, ApiP!SourcesOutcome, Api!ArticlesOutcome,
         ApiP!ArticlesOutcome, Api!Failure, ApiP!Failure, Api!Success,
         ApiP!Success, Api!SourcesQuery, ApiP!SourcesQuery

LEMMA SameDispatch ==
  \A w : Api!DispatchOther(w) = ApiP!DispatchOther(w)
  BY DEF Api!DispatchOther, ApiP!DispatchOther, Api!cacheVars, ApiP!cacheVars,
         Api!Async!DispatchOther, ApiP!Async!DispatchOther,
         Api!Async!OtherBlock, ApiP!Async!OtherBlock, Api!Cardinality,
         ApiP!Cardinality

LEMMA SameRunMain ==
  Api!RunMain = ApiP!RunMain
  BY DEF Api!RunMain, ApiP!RunMain, Api!cacheVars, ApiP!cacheVars,
         Api!Async!RunMain, ApiP!Async!RunMain, Api!Async!RunSetResult,
         ApiP!Async!RunSetResult, Api!Async!RunWithResult,
         ApiP!Async!RunWithResult, Api!Async!RunCall, ApiP!Async!RunCall,
         Api!Async!RunOther, ApiP!Async!RunOther, Api!Async!CallEach,
         ApiP!Async!CallEach, Api!Async!NextBlockIs, ApiP!Async!NextBlockIs,
         Api!Async!CallBlock, ApiP!Async!CallBlock, Api!Async!Call,
         ApiP!Async!Call

LEMMA SameInit ==
  Api!Init = ApiP!Init
  BY DEF Api!Init, ApiP!Init, Api!Async!Init, ApiP!Async!Init, Api!Keys,
         ApiP!Keys, Api!Requests, ApiP!Requests, Api!Failure, ApiP!Failure

LEMMA SameTypeOK ==
  Api!TypeOK = ApiP!TypeOK
  BY DEF Api!TypeOK, ApiP!TypeOK, Api!Async!TypeOK, ApiP!Async!TypeOK,
         Api!Async!Blocks, ApiP!Async!Blocks, Api!Async!Calls, ApiP!Async!Calls,
         Api!Requests, ApiP!Requests, Api!Outcomes, ApiP!Outcomes, Api!Failure,
         ApiP!Failure, Api!Success, ApiP!Success, Api!Queries, ApiP!Queries,
         Api!SourcesQuery, ApiP!SourcesQuery, Api!ArticlesQuery,
         ApiP!ArticlesQuery, Api!HeadlinesQuery, ApiP!HeadlinesQuery, Api!Keys,
         ApiP!Keys

LEMMA SameVars == UNCHANGED apiVars => UNCHANGED ApiP!vars
  BY DEF apiVars, asyncVars, ApiP!vars, ApiP!asyncVars, ApiP!cacheVars

-----------------------------------------------------------------------------
(* What NewsApi keeps and does for the phone.                              *)

LEMMA ApiAssumptions ==
  /\ NoId \in SourceIds \ Countries
  /\ Nil \notin Seq(Nat \ {0}) /\ Nil \notin Nat
  /\ MaxCalls \in Nat
  BY KeysAssumption, NilAssumption, BoundsAssumption DEF MaxCalls

LEMMA ApiKeeps ==
  ASSUME ApiP!IInv, ApiP!Next \/ UNCHANGED apiVars
  PROVE  ApiP!IInv'
  BY SameVars, ApiAssumptions, ApiP!NextInv

\* What the invariant of NewsApi says of callbacks, calls and blocks.
LEMMA ApiFacts ==
  ASSUME ApiP!IInv
  PROVE  /\ mainQueue \in Seq(ApiP!Async!Blocks)
         /\ registered \in Seq(ApiP!Requests) /\ asked \in Seq(ApiP!Queries)
         /\ Len(registered) \in Nat /\ Len(asked) = Len(registered)
         /\ called \in Seq(ApiP!Async!Calls) /\ Len(called) \in Nat
         /\ \A i \in 1 .. Len(called) :
              called[i].cb \in 1 .. Len(registered) /\ called[i].outcome \in ApiP!Outcomes
         /\ \A n \in 1 .. Len(registered) :
              registered[n] \in 1 .. Len(made) /\ asked[n] = made[registered[n]].query
  <1>1. ApiP!TypeOK /\ ApiP!Flow
    BY DEF ApiP!IInv
  <1>2. /\ mainQueue \in Seq(ApiP!Async!Blocks)
        /\ registered \in Seq(ApiP!Requests) /\ asked \in Seq(ApiP!Queries)
        /\ called \in Seq(ApiP!Async!Calls)
        /\ Len(asked) = Len(registered)
    BY <1>1 DEF ApiP!TypeOK, ApiP!Async!TypeOK
  <1>3. Len(registered) \in Nat /\ Len(called) \in Nat
    BY <1>2, LenProperties
  <1>4. \A i \in 1 .. Len(called) : called[i] \in ApiP!Async!Calls
    BY <1>2, ElementOfSeq
  <1>5. \A i \in 1 .. Len(called) : called[i].outcome \in ApiP!Outcomes
    BY <1>4 DEF ApiP!Async!Calls
  <1>6. \A i \in 1 .. Len(called) : called[i].cb \in 1 .. Len(registered)
    BY <1>1 DEF ApiP!Flow, ApiP!Async!IInv, ApiP!Async!NamesOK, ApiP!Async!Callbacks
  <1>7. \A n \in 1 .. Len(registered) :
          registered[n] \in 1 .. Len(made) /\ asked[n] = made[registered[n]].query
    BY <1>1, KeysAssumption
    DEF ApiP!Flow, ApiP!AskedMatches, ApiP!Serves, ApiP!ShareAnEntry
  <1>8. QED
    BY <1>2, <1>3, <1>5, <1>6, <1>7

\* No callback is called twice.
LEMMA CalledOnce ==
  ASSUME ApiP!IInv, NEW i \in 1 .. Len(called), NEW j \in 1 .. Len(called),
         called[i].cb = called[j].cb
  PROVE  i = j
  <1>1. ApiP!Async!CalledInOrder
    BY DEF ApiP!IInv, ApiP!Flow, ApiP!Async!IInv
  <1>2. called[i].cb \in Nat
    BY ApiFacts
  <1>3. ~(i < j) /\ ~(j < i)
    BY <1>1, <1>2 DEF ApiP!Async!CalledInOrder
  <1>4. QED
    BY <1>3

\* Callbacks of the cache that asked the same are told the same.
LEMMA CacheTellsAlike ==
  ASSUME ApiP!IInv, NEW i \in 1 .. Len(called), NEW j \in 1 .. Len(called),
         asked[called[i].cb] = asked[called[j].cb],
         made[registered[called[i].cb]].cached, made[registered[called[j].cb]].cached
  PROVE  called[i].outcome = called[j].outcome
  <1> DEFINE r == registered[called[i].cb]
             s == registered[called[j].cb]
  <1>1. /\ r \in 1 .. Len(made) /\ s \in 1 .. Len(made)
        /\ made[r].query = asked[called[i].cb] /\ made[s].query = asked[called[j].cb]
    BY ApiFacts
  <1>2. /\ \/ made[r].query = ApiP!SourcesQuery /\ sourcesResult = r
           \/ \E k \in ApiP!Keys : ApiP!KeptUnder(made[r].query, k) /\ articlesResult[k] = r
        /\ \/ made[s].query = ApiP!SourcesQuery /\ sourcesResult = s
           \/ \E k \in ApiP!Keys : ApiP!KeptUnder(made[s].query, k) /\ articlesResult[k] = s
    BY <1>1 DEF ApiP!IInv, ApiP!CachedIsKept
  <1>3. r = s
    BY <1>1, <1>2, ApiAssumptions, ApiP!KeyQueries
  <1>4. called[i].outcome = outcome[r] /\ called[j].outcome = outcome[s]
    BY DEF ApiP!IInv, ApiP!Flow, ApiP!ToldTheOutcome
  <1>5. QED
    BY <1>3, <1>4

\* Someone asks: a callback for q is handed to an old or a new request, which
\* is one of the cache if "cached".
Asks(q, cached) ==
  /\ \A s \in 1 .. Len(made) : s \in 1 .. Len(made') /\ made'[s] = made[s]
  /\ asked' = Append(asked, q)
  /\ called' = called
  /\ \E r \in ApiP!Requests :
       /\ registered' = Append(registered, r)
       /\ mainQueue' = Append(mainQueue, ApiP!Async!WithResultBlock(r, Len(registered) + 1))
       /\ cached => made'[r].cached

LEMMA AskedNew ==
  ASSUME ApiP!IInv, NEW q \in ApiP!Queries, NEW c \in BOOLEAN,
         ApiP!StartDownload(q, c), ApiP!Ask(q, ApiP!NewRequest)
  PROVE  Asks(q, c)
  <1>1. /\ ApiP!NewRequest \in ApiP!Requests
        /\ made'[ApiP!NewRequest].cached = c
        /\ \A s \in 1 .. Len(made) : s \in 1 .. Len(made') /\ made'[s] = made[s]
    BY ApiAssumptions, ApiP!StartFacts DEF ApiP!IInv
  <1>2. QED
    BY <1>1 DEF Asks, ApiP!Ask, ApiP!Async!WithResult

LEMMA AskedAgain ==
  ASSUME ApiP!IInv, NEW q \in ApiP!Queries, NEW r \in 1 .. Len(made), made[r].cached,
         ApiP!Ask(q, r), UNCHANGED made
  PROVE  Asks(q, TRUE)
  <1>1. r \in ApiP!Requests
    <2>1. Len(made) <= MaxCalls /\ made \in Seq([query : ApiP!Queries, cached : BOOLEAN])
      BY DEF ApiP!IInv, ApiP!TypeOK
    <2>2. QED
      BY <2>1, ApiAssumptions DEF ApiP!Requests
  <1>2. QED
    BY <1>1 DEF Asks, ApiP!Ask, ApiP!Async!WithResult

LEMMA GetSourcesAsks ==
  ASSUME ApiP!IInv, ApiP!GetSources
  PROVE  Asks(ApiP!SourcesQuery, TRUE)
  <1>1. ApiP!SourcesQuery \in ApiP!Queries
    BY DEF ApiP!Queries
  <1>2. CASE sourcesResult # Nil /\ ApiP!Ask(ApiP!SourcesQuery, sourcesResult)
             /\ UNCHANGED made
    BY <1>1, <1>2, AskedAgain DEF ApiP!IInv, ApiP!CacheMatches
  <1>3. CASE ApiP!StartDownload(ApiP!SourcesQuery, TRUE)
             /\ ApiP!Ask(ApiP!SourcesQuery, ApiP!NewRequest)
    BY <1>1, <1>3, AskedNew
  <1>4. QED
    BY <1>2, <1>3 DEF ApiP!GetSources

LEMMA GetCachedAsks ==
  ASSUME ApiP!IInv, NEW q \in ApiP!Queries, NEW key \in ApiP!Keys, ApiP!GetCached(q, key)
  PROVE  Asks(q, TRUE)
  <1>1. CASE articlesResult[key] # Nil /\ ApiP!Ask(q, articlesResult[key]) /\ UNCHANGED made
    BY <1>1, AskedAgain DEF ApiP!IInv, ApiP!CacheMatches
  <1>2. CASE ApiP!StartDownload(q, TRUE) /\ ApiP!Ask(q, ApiP!NewRequest)
    BY <1>2, AskedNew
  <1>3. QED
    BY <1>1, <1>2 DEF ApiP!GetCached

\* The phone's own calls.
LEMMA GetSourcesKeeps ==
  ASSUME ApiP!IInv, Api!GetSources
  PROVE  ApiP!IInv' /\ Asks(ApiP!SourcesQuery, TRUE)
  BY SameGetSources, ApiKeeps, GetSourcesAsks DEF ApiP!Next

LEMMA GetArticlesKeeps ==
  ASSUME ApiP!IInv, NEW id \in SourceIds, Api!GetArticles(id)
  PROVE  ApiP!IInv' /\ Asks(ApiP!ArticlesQuery(id), TRUE)
  <1>1. ApiP!GetArticles(id) /\ ApiP!GetCached(ApiP!ArticlesQuery(id), id)
    BY SameGetCached, SameQueries DEF Api!GetArticles, ApiP!GetArticles
  <1>2. ApiP!ArticlesQuery(id) \in ApiP!Queries /\ id \in ApiP!Keys
    BY DEF ApiP!Queries, ApiP!Keys
  <1>3. QED
    BY <1>1, <1>2, ApiKeeps, GetCachedAsks DEF ApiP!Next

LEMMA GetHeadlinesKeeps ==
  ASSUME ApiP!IInv, NEW c \in Countries, Api!GetHeadlines(c)
  PROVE  ApiP!IInv' /\ Asks(ApiP!HeadlinesQuery(c), TRUE)
  <1>1. ApiP!GetHeadlines(c) /\ ApiP!GetCached(ApiP!HeadlinesQuery(c), c)
    BY SameGetCached, SameQueries DEF Api!GetHeadlines, ApiP!GetHeadlines
  <1>2. ApiP!HeadlinesQuery(c) \in ApiP!Queries /\ c \in ApiP!Keys
    BY DEF ApiP!Queries, ApiP!Keys
  <1>3. QED
    BY <1>1, <1>2, ApiKeeps, GetCachedAsks DEF ApiP!Next

LEMMA DownloadArticlesKeeps ==
  ASSUME ApiP!IInv, NEW id \in SourceIds, Api!DownloadArticles(id)
  PROVE  ApiP!IInv' /\ Asks(ApiP!ArticlesQuery(id), FALSE)
  <1>1. ApiP!DownloadArticles(id) /\ ApiP!DownloadForView(ApiP!ArticlesQuery(id))
    BY SameForView, SameQueries DEF Api!DownloadArticles, ApiP!DownloadArticles
  <1>2. ApiP!ArticlesQuery(id) \in ApiP!Queries
    BY DEF ApiP!Queries
  <1>3. ApiP!IInv'
    BY <1>1, ApiKeeps DEF ApiP!Next
  <1>4. QED
    BY <1>1, <1>2, <1>3, AskedNew DEF ApiP!DownloadForView

LEMMA DownloadHeadlinesKeeps ==
  ASSUME ApiP!IInv, NEW c \in Countries, Api!DownloadHeadlines(c)
  PROVE  ApiP!IInv' /\ Asks(ApiP!HeadlinesQuery(c), FALSE)
  <1>1. ApiP!DownloadHeadlines(c) /\ ApiP!DownloadForView(ApiP!HeadlinesQuery(c))
    BY SameForView, SameQueries DEF Api!DownloadHeadlines, ApiP!DownloadHeadlines
  <1>2. ApiP!HeadlinesQuery(c) \in ApiP!Queries
    BY DEF ApiP!Queries
  <1>3. ApiP!IInv'
    BY <1>1, ApiKeeps DEF ApiP!Next
  <1>4. QED
    BY <1>1, <1>2, <1>3, AskedNew DEF ApiP!DownloadForView

-----------------------------------------------------------------------------
(* Sequences, and what the steps do to the blocks of messages.             *)

\* A sequence and what one more element makes of it.
LEMMA OneMore ==
  ASSUME NEW S, NEW s \in Seq(S), NEW e \in S, NEW t, t = Append(s, e)
  PROVE  /\ t \in Seq(S)
         /\ Len(s) \in Nat
         /\ Len(t) = Len(s) + 1
         /\ Len(s) + 1 \in 1 .. Len(t)
         /\ t[Len(s) + 1] = e
         /\ \A i \in 1 .. Len(s) : i \in 1 .. Len(t) /\ t[i] = s[i]
         /\ \A i \in 1 .. Len(t) : i \in 1 .. Len(s) \/ i = Len(s) + 1
  <1>1. /\ t \in Seq(S)
        /\ Len(s) \in Nat
        /\ Len(t) = Len(s) + 1
        /\ t[Len(s) + 1] = e
        /\ \A i \in 1 .. Len(s) : t[i] = s[i]
    BY AppendProperties
  <1>2. QED
    BY ONLY <1>1

\* The blocks of messages stay where they are.
SameBlocks ==
  \A m \in Messages :
    /\ \A i \in 1 .. Len(mainQueue) : i \in 1 .. Len(mainQueue')
    /\ \A i \in 1 .. Len(mainQueue) : BlockOf(i, m) => BlockOf(i, m)'
    /\ \A i \in 1 .. Len(mainQueue') : BlockOf(i, m)' => i \in 1 .. Len(mainQueue) /\ BlockOf(i, m)

LEMMA EnqueuedForeign ==
  ASSUME ApiP!IInv, NEW b \in ApiP!Async!Blocks, b.op # "other",
         mainQueue' = Append(mainQueue, b)
  PROVE  SameBlocks
  <1>1. /\ mainQueue'[Len(mainQueue) + 1] = b
        /\ \A i \in 1 .. Len(mainQueue) :
             i \in 1 .. Len(mainQueue') /\ mainQueue'[i] = mainQueue[i]
        /\ \A i \in 1 .. Len(mainQueue') : i \in 1 .. Len(mainQueue) \/ i = Len(mainQueue) + 1
    BY ApiFacts, OneMore
  <1>2. QED
    BY <1>1 DEF SameBlocks, BlockOf

LEMMA AsksKeepsBlocks ==
  ASSUME ApiP!IInv, NEW q, NEW c, Asks(q, c)
  PROVE  SameBlocks
  <1>1. PICK r \in ApiP!Requests :
          mainQueue' = Append(mainQueue, ApiP!Async!WithResultBlock(r, Len(registered) + 1))
    BY DEF Asks
  <1>2. Len(registered) + 1 \in Nat \ {0}
    BY ApiFacts
  <1>3. /\ ApiP!Async!WithResultBlock(r, Len(registered) + 1) \in ApiP!Async!Blocks
        /\ ApiP!Async!WithResultBlock(r, Len(registered) + 1).op # "other"
    BY <1>2 DEF ApiP!Async!WithResultBlock, ApiP!Async!Blocks
  <1>4. QED
    BY <1>1, <1>3, EnqueuedForeign

LEMMA FinishKeeps ==
  ASSUME ApiP!IInv, NEW r \in Api!Requests, NEW a \in Api!Answers, Api!FinishDownload(r, a)
  PROVE  /\ ApiP!IInv' /\ SameBlocks
         /\ UNCHANGED <<registered, called, made, asked>>
  <1>1. ApiP!FinishDownload(r, a) /\ r \in ApiP!Requests /\ a \in ApiP!Answers
    BY SameFinish, SameRequests
  <1>2. ApiP!IInv'
    BY <1>1, ApiKeeps DEF ApiP!Next
  <1> DEFINE v == ApiP!OutcomeOf(made[r].query, a)
             b == ApiP!Async!SetResultBlock(r, v)
  <1>3. /\ r \in downloading /\ mainQueue' = Append(mainQueue, b)
        /\ UNCHANGED <<registered, called, made, asked>>
    BY <1>1 DEF ApiP!FinishDownload, ApiP!Async!SetResult
  <1>4. made[r].query \in ApiP!Queries
    <2>1. r \in 1 .. Len(made) /\ made \in Seq([query : ApiP!Queries, cached : BOOLEAN])
      BY <1>3 DEF ApiP!IInv, ApiP!TypeOK
    <2>2. made[r] \in [query : ApiP!Queries, cached : BOOLEAN]
      BY <2>1, ElementOfSeq
    <2>3. QED
      BY <2>2
  <1>5. v \in ApiP!Outcomes
    BY <1>1, <1>4, ApiAssumptions, ApiP!OutcomeFits
  <1>6. b \in ApiP!Async!Blocks /\ b.op # "other"
    BY <1>1, <1>5 DEF ApiP!Async!SetResultBlock, ApiP!Async!Blocks
  <1>7. SameBlocks
    BY <1>3, <1>6, EnqueuedForeign
  <1>8. QED
    BY <1>2, <1>3, <1>7

\* The callbacks of a pending list make calls.
LEMMA CallsOfList ==
  ASSUME NEW list \in Seq(Nat \ {0}), NEW v \in ApiP!Outcomes
  PROVE  ApiP!Async!CallEach(list, v) \in Seq(ApiP!Async!Calls)
  <1>1. \A i \in 1 .. Len(list) : ApiP!Async!Call(list[i], v) \in ApiP!Async!Calls
    BY ElementOfSeq DEF ApiP!Async!Call, ApiP!Async!Calls
  <1>2. ApiP!Async!CallEach(list, v) \in [1 .. Len(list) -> ApiP!Async!Calls]
    BY <1>1 DEF ApiP!Async!CallEach
  <1>3. Len(list) \in Nat
    OBVIOUS
  <1>4. QED
    BY <1>2, <1>3, SeqDef

\* A new message brings the last block of the queue.
LEMMA DispatchKeeps ==
  ASSUME ApiP!IInv, NEW w \in Messages, Api!DispatchOther(w)
  PROVE  /\ ApiP!IInv'
         /\ UNCHANGED <<registered, called, made, asked>>
         /\ \A m \in Messages :
              /\ \A i \in 1 .. Len(mainQueue) :
                   i \in 1 .. Len(mainQueue') /\ (BlockOf(i, m) => BlockOf(i, m)')
              /\ \A i \in 1 .. Len(mainQueue') : BlockOf(i, m)' =>
                   \/ i \in 1 .. Len(mainQueue) /\ BlockOf(i, m)
                   \/ i = Len(mainQueue) + 1 /\ m = w
  <1>1. ApiP!DispatchOther(w)
    BY SameDispatch
  <1>2. ApiP!IInv'
    BY <1>1, ApiKeeps DEF ApiP!Next
  <1> DEFINE b == ApiP!Async!OtherBlock(w)
  <1>3. /\ mainQueue' = Append(mainQueue, b)
        /\ UNCHANGED <<registered, called, made, asked>>
    BY <1>1 DEF ApiP!DispatchOther, ApiP!Async!DispatchOther
  <1>4. b \in ApiP!Async!Blocks /\ b.work = w
    BY DEF ApiP!Async!OtherBlock, ApiP!Async!Blocks
  <1> HIDE DEF b
  <1>5. /\ mainQueue'[Len(mainQueue) + 1] = b
        /\ \A i \in 1 .. Len(mainQueue) :
             i \in 1 .. Len(mainQueue') /\ mainQueue'[i] = mainQueue[i]
        /\ \A i \in 1 .. Len(mainQueue') : i \in 1 .. Len(mainQueue) \/ i = Len(mainQueue) + 1
    BY <1>3, <1>4, ApiFacts, OneMore
  <1>6. QED
    BY <1>2, <1>3, <1>4, <1>5 DEF BlockOf

\* The oldest block has run and may have left a block of no message.
LEMMA Dequeued ==
  ASSUME ApiP!IInv, mainQueue # <<>>,
         \/ mainQueue' = Tail(mainQueue)
         \/ \E b \in ApiP!Async!Blocks : b.op # "other" /\ mainQueue' = Append(Tail(mainQueue), b)
  PROVE  /\ 1 \in 1 .. Len(mainQueue) /\ Head(mainQueue) = mainQueue[1]
         /\ \A i \in 1 .. Len(mainQueue') : mainQueue'[i].op = "other" =>
              /\ i + 1 \in 1 .. Len(mainQueue) /\ i + 1 # 1
              /\ mainQueue'[i] = mainQueue[i + 1]
         /\ \A i \in 1 .. Len(mainQueue) : i # 1 =>
              /\ i - 1 \in 1 .. Len(mainQueue')
              /\ mainQueue'[i - 1] = mainQueue[i]
  <1> DEFINE rest == Tail(mainQueue)
  <1>1. mainQueue \in Seq(ApiP!Async!Blocks)
    BY ApiFacts
  <1>2. /\ Len(mainQueue) \in Nat /\ Len(mainQueue) # 0
        /\ rest \in Seq(ApiP!Async!Blocks)
        /\ Len(rest) = Len(mainQueue) - 1
        /\ \A i \in 1 .. Len(rest) : rest[i] = mainQueue[i + 1]
        /\ Head(mainQueue) = mainQueue[1]
    BY <1>1, EmptySeq, HeadTailProperties
  <1> HIDE DEF rest
  <1>3. /\ 1 \in 1 .. Len(mainQueue)
        /\ \A i \in 1 .. Len(rest) : i + 1 \in 1 .. Len(mainQueue) /\ i + 1 # 1
        /\ \A i \in 1 .. Len(mainQueue) : i # 1 =>
             /\ i - 1 \in 1 .. Len(rest)
             /\ rest[i - 1] = mainQueue[i]
    BY ONLY <1>2
  <1>4. CASE mainQueue' = rest
    BY <1>2, <1>3, <1>4
  <1>5. ASSUME NEW b \in ApiP!Async!Blocks, b.op # "other", mainQueue' = Append(rest, b)
        PROVE  /\ \A i \in 1 .. Len(mainQueue') : mainQueue'[i].op = "other" =>
                    i \in 1 .. Len(rest) /\ mainQueue'[i] = rest[i]
               /\ \A i \in 1 .. Len(rest) :
                    i \in 1 .. Len(mainQueue') /\ mainQueue'[i] = rest[i]
    BY <1>2, <1>5, OneMore
  <1>6. QED
    BY <1>2, <1>3, <1>4, <1>5 DEF rest

\* What running a block does to the histories and to the queue.
RanBlock ==
  /\ mainQueue # <<>>
  /\ \/ mainQueue' = Tail(mainQueue)
     \/ \E b \in ApiP!Async!Blocks : b.op # "other" /\ mainQueue' = Append(Tail(mainQueue), b)
  /\ \/ called' = called
     \/ \E more \in Seq(ApiP!Async!Calls) : called' = called \o more
  /\ UNCHANGED <<registered, made, asked>>

LEMMA RunMainKeeps ==
  ASSUME ApiP!IInv, Api!RunMain
  PROVE  ApiP!IInv' /\ RanBlock
  <1>1. ApiP!RunMain /\ UNCHANGED <<made, asked>> /\ ApiP!Async!RunMain
    BY SameRunMain DEF ApiP!RunMain
  <1>2. ApiP!IInv'
    BY <1>1, ApiKeeps DEF ApiP!Next
  <1> DEFINE b == Head(mainQueue)
  <1>3. ApiP!Async!TypeOK /\ mainQueue \in Seq(ApiP!Async!Blocks)
    BY DEF ApiP!IInv, ApiP!TypeOK, ApiP!Async!TypeOK
  <1>4. mainQueue # <<>> => b \in ApiP!Async!Blocks
    BY <1>3
  <1>5. CASE ApiP!Async!RunSetResult
    <2>1. /\ mainQueue # <<>> /\ b.op = "setResult" /\ mainQueue' = Tail(mainQueue)
          /\ registered' = registered
          /\ \/ called' = called
             \/ /\ pending[b.req] # Nil
                /\ called' = called \o ApiP!Async!CallEach(pending[b.req], b.outcome)
      BY <1>5 DEF ApiP!Async!RunSetResult, ApiP!Async!NextBlockIs
    <2>2. b.req \in ApiP!Requests /\ b.outcome \in ApiP!Outcomes
      BY <1>4, <2>1 DEF ApiP!Async!Blocks
    <2>3. pending[b.req] # Nil => pending[b.req] \in Seq(Nat \ {0})
      BY <1>3, <2>2 DEF ApiP!Async!TypeOK
    <2>4. pending[b.req] # Nil =>
            ApiP!Async!CallEach(pending[b.req], b.outcome) \in Seq(ApiP!Async!Calls)
      BY <2>2, <2>3, CallsOfList
    <2>5. QED
      BY <1>1, <1>2, <2>1, <2>4 DEF RanBlock
  <1>6. CASE ApiP!Async!RunWithResult
    <2>1. /\ mainQueue # <<>> /\ b.op = "withResult"
          /\ registered' = registered /\ called' = called
          /\ \/ mainQueue' = Tail(mainQueue)
             \/ mainQueue' = Append(Tail(mainQueue), ApiP!Async!CallBlock(b.req, b.cb))
      BY <1>6 DEF ApiP!Async!RunWithResult, ApiP!Async!NextBlockIs
    <2>2. b.req \in ApiP!Requests /\ b.cb \in Nat \ {0}
      BY <1>4, <2>1 DEF ApiP!Async!Blocks
    <2>3. /\ ApiP!Async!CallBlock(b.req, b.cb) \in ApiP!Async!Blocks
          /\ ApiP!Async!CallBlock(b.req, b.cb).op # "other"
      BY <2>2 DEF ApiP!Async!CallBlock, ApiP!Async!Blocks
    <2>4. QED
      BY <1>1, <1>2, <2>1, <2>3 DEF RanBlock
  <1>7. CASE ApiP!Async!RunCall
    <2>1. /\ mainQueue # <<>> /\ b.op = "call" /\ mainQueue' = Tail(mainQueue)
          /\ registered' = registered
          /\ called' = Append(called, ApiP!Async!Call(b.cb, outcome[b.req]))
      BY <1>7 DEF ApiP!Async!RunCall, ApiP!Async!NextBlockIs
    <2>2. b.req \in ApiP!Requests /\ b.cb \in Nat \ {0}
      BY <1>4, <2>1 DEF ApiP!Async!Blocks
    <2>3. ApiP!Async!Call(b.cb, outcome[b.req]) \in ApiP!Async!Calls
      BY <1>3, <2>2 DEF ApiP!Async!TypeOK, ApiP!Async!Call, ApiP!Async!Calls
    <2>4. \A c \in ApiP!Async!Calls : Append(called, c) = called \o <<c>>
      BY ApiFacts, AppendIsConcat
    <2>5. \A c \in ApiP!Async!Calls : <<c>> \in Seq(ApiP!Async!Calls)
      OBVIOUS
    <2>6. \E more \in Seq(ApiP!Async!Calls) : called' = called \o more
      BY <2>1, <2>3, <2>4, <2>5
    <2>7. QED
      BY <1>1, <1>2, <2>1, <2>6 DEF RanBlock
  <1>8. CASE ApiP!Async!RunOther
    BY <1>1, <1>2, <1>8 DEF RanBlock, ApiP!Async!RunOther, ApiP!Async!NextBlockIs
  <1>9. QED
    BY <1>1, <1>5, <1>6, <1>7, <1>8 DEF ApiP!Async!RunMain

-----------------------------------------------------------------------------
(* The invariant, action by action: asking.                                *)

LEMMA Names ==
  /\ Nil \notin Messages /\ Messages \subseteq Nat
  /\ \A m, n : Reply(m) = Reply(n) => m = n
  /\ \A m : Reply(m).to = "watch" /\ Reply(m).message = m
  /\ SourcesView.to # "watch" /\ ArticlesView.to # "watch"
  /\ \A m : Reply(m) # SourcesView /\ Reply(m) # ArticlesView
  <1>1. \A m : Reply(m).to = "watch" /\ Reply(m).message = m
    BY DEF Reply
  <1>2. SourcesView.to # "watch" /\ ArticlesView.to # "watch"
    BY DEF SourcesView, ArticlesView
  <1>3. Nil \notin Messages /\ Messages \subseteq Nat
    BY NilAssumption DEF Messages
  <1>4. QED
    BY <1>1, <1>2, <1>3

\* A callback is noted for the view that opens or for the message that is
\* handled: it asks for that message, and of the cache.
Notes(w, q) ==
  \/ w \in {SourcesView, ArticlesView} /\ turn' = turn
  \/ /\ turn \in Messages /\ turn' = Nil /\ w = Reply(turn)
     /\ received[turn].request \in {"sources", "articles", "headlines"}
     /\ q = QueryOf(received[turn])

LEMMA AskedInv ==
  ASSUME ApiP!IInv, PhoneInv, ApiP!IInv',
         NEW w \in Consumers, NEW q \in ApiP!Queries, NEW c \in BOOLEAN,
         Asks(q, c), Notes(w, q), w.to = "watch" => c,
         consumer' = Append(consumer, w),
         UNCHANGED <<viewVars, watchVars, ran, crashed>>
  PROVE  PhoneInv'
  <1> USE DEF viewVars, watchVars
  <1>1. OwnTypes /\ HandledOnce /\ CallbacksFit /\ RepliesFit /\ SameBlocks
    BY AsksKeepsBlocks DEF PhoneInv
  <1>2. PICK r \in ApiP!Requests : registered' = Append(registered, r) /\ (c => made'[r].cached)
    BY DEF Asks
  <1>3. /\ called' = called /\ asked' = Append(asked, q)
        /\ \A s \in 1 .. Len(made) : made'[s] = made[s]
    BY DEF Asks
  <1> DEFINE new == Len(registered) + 1
  <1>4. /\ Len(registered') = new /\ registered'[new] = r
        /\ \A k \in 1 .. Len(registered) : registered'[k] = registered[k]
        /\ \A k \in 1 .. Len(registered') : k \in 1 .. Len(registered) \/ k = new
    BY <1>2, ApiFacts, OneMore
  <1>5. /\ asked'[new] = q
        /\ \A k \in 1 .. Len(registered) : asked'[k] = asked[k]
    BY <1>3, ApiFacts, OneMore
  <1>6. /\ consumer' \in Seq(Consumers) /\ Len(consumer') = new /\ consumer'[new] = w
        /\ \A k \in 1 .. Len(registered) : consumer'[k] = consumer[k]
    BY <1>1, ApiFacts, OneMore DEF OwnTypes
  <1>7. Len(consumer) = Len(registered)
    BY <1>1 DEF OwnTypes
  <1>8. \A k \in 1 .. Len(registered) : registered[k] \in 1 .. Len(made)
    BY ApiFacts
  <1> HIDE DEF new
  <1>9. OwnTypes'
    BY <1>1, <1>3, <1>4, <1>6 DEF OwnTypes, Notes
  <1>10. turn' \in {turn, Nil} /\ (w.to = "watch" => turn \in Messages /\ turn' = Nil /\ w = Reply(turn))
    BY Names DEF Notes
  <1>11. ASSUME NEW m \in Messages, Unhandled(m)'
         PROVE  Unhandled(m) /\ w # Reply(m)
    <2>1. CASE m \notin 1 .. Len(received)
      <3>1. turn = m => m \in 1 .. Len(received)
        BY <1>1, Names DEF HandledOnce
      <3>2. QED
        BY <1>10, <2>1, <3>1, Names DEF Unhandled
    <2>2. CASE turn' = m
      BY <1>10, <2>2, Names DEF Unhandled
    <2>3. ASSUME NEW i \in 1 .. Len(mainQueue'), BlockOf(i, m)' PROVE Unhandled(m) /\ w # Reply(m)
      <3>1. i \in 1 .. Len(mainQueue) /\ BlockOf(i, m)
        BY <1>1, <2>3 DEF SameBlocks
      <3>2. m # turn
        BY <1>1, <3>1 DEF HandledOnce
      <3>3. QED
        BY <1>10, <3>1, <3>2, Names DEF Unhandled
    <2>4. QED
      BY <1>11, <2>1, <2>2, <2>3 DEF Unhandled
  <1>12. HandledOnce'
    <2>1. turn' # Nil => turn' \in 1 .. Len(received)
      BY <1>1, <1>10 DEF HandledOnce
    <2>2. \A m \in Messages : \A i, j \in 1 .. Len(mainQueue') :
            BlockOf(i, m)' => /\ m \in 1 .. Len(received) /\ m # turn'
                              /\ BlockOf(j, m)' => i = j
      BY <1>1, <1>10, Names DEF HandledOnce, SameBlocks
    <2>3. \A m \in Messages : Unhandled(m)' =>
            /\ m \notin loading /\ replies[m] = <<>>
            /\ \A k \in 1 .. Len(consumer') : consumer'[k] # Reply(m)
      BY <1>1, <1>4, <1>6, <1>7, <1>11 DEF HandledOnce
    <2>4. QED
      BY <1>1, <2>1, <2>2, <2>3 DEF HandledOnce
  <1>13. ASSUME NEW k \in 1 .. Len(registered), consumer[k] = w
         PROVE  w.to # "watch"
    <2>1. SUFFICES ASSUME w.to = "watch" PROVE FALSE
      OBVIOUS
    <2>2. turn \in Messages /\ w = Reply(turn) /\ Unhandled(turn)
      BY <1>10, <2>1 DEF Unhandled
    <2>3. QED
      BY <1>1, <1>7, <1>13, <2>2 DEF HandledOnce
  <1>14. CallbacksFit'
    <2>1. ASSUME NEW m \in Messages, NEW k \in 1 .. Len(consumer'), consumer'[k] = Reply(m)
          PROVE  /\ received[m].request \in {"sources", "articles", "headlines"}
                 /\ asked'[k] = QueryOf(received[m])
                 /\ made'[registered'[k]].cached
                 /\ \A j \in 1 .. Len(consumer') : consumer'[j] = Reply(m) => j = k
      <3>1. CASE k \in 1 .. Len(registered)
        <4>1. /\ received[m].request \in {"sources", "articles", "headlines"}
              /\ asked[k] = QueryOf(received[m])
              /\ made[registered[k]].cached
              /\ \A j \in 1 .. Len(registered) : consumer[j] = Reply(m) => j = k
          BY <1>1, <1>6, <1>7, <2>1, <3>1 DEF CallbacksFit
        <4>2. w # Reply(m)
          BY <1>6, <1>13, <2>1, <3>1, Names
        <4>3. \A j \in 1 .. Len(consumer') : consumer'[j] = Reply(m) => j = k
          BY <1>4, <1>6, <4>1, <4>2
        <4>4. registered'[k] = registered[k] /\ asked'[k] = asked[k]
          BY <1>4, <1>5, <3>1
        <4>5. made'[registered'[k]] = made[registered[k]]
          BY <1>3, <1>8, <3>1, <4>4
        <4>6. QED
          BY <4>1, <4>3, <4>4, <4>5
      <3>2. CASE k = new
        <4>1. w = Reply(m) /\ w.to = "watch"
          BY <1>6, <2>1, <3>2, Names
        <4>2. m = turn
          BY <1>10, <4>1, Names
        <4>3. /\ received[m].request \in {"sources", "articles", "headlines"}
              /\ q = QueryOf(received[m])
          BY <4>1, <4>2, Names DEF Notes
        <4>4. \A j \in 1 .. Len(consumer') : consumer'[j] = Reply(m) => j = k
          BY <1>4, <1>6, <1>13, <3>2, <4>1
        <4>5. QED
          BY <1>2, <1>4, <1>5, <3>2, <4>1, <4>3, <4>4
      <3>3. QED
        BY <1>4, <1>6, <3>1, <3>2
    <2>2. QED
      BY <2>1 DEF CallbacksFit
  <1>15. RepliesFit'
    <2>1. ASSUME NEW m \in Messages, NEW i \in 1 .. ran, TellsMessage(i, m)
          PROVE  TellsMessage(i, m)'
      <3>1. i \in 1 .. Len(called)
        BY <1>1 DEF OwnTypes
      <3>2. called[i].cb \in 1 .. Len(registered)
        BY <3>1, ApiFacts
      <3>3. QED
        BY <1>3, <1>6, <2>1, <3>2 DEF TellsMessage
    <2>2. QED
      BY <1>1, <2>1 DEF RepliesFit, FixedReply
  <1>16. QED
    BY <1>9, <1>12, <1>14, <1>15 DEF PhoneInv

-----------------------------------------------------------------------------
(* The invariant, action by action: messages, blocks and bodies.           *)

\* A step that leaves callbacks, calls and replies alone.
LEMMA SameReplies ==
  ASSUME ApiP!IInv, PhoneInv,
         UNCHANGED <<registered, called, made, asked, consumer, received, replies, ran>>
  PROVE  CallbacksFit' /\ RepliesFit'
  BY DEF PhoneInv, CallbacksFit, RepliesFit, TellsMessage

\* A message that has a callback, a reply or an image on its way has come.
LEMMA OnlyReceived ==
  ASSUME PhoneInv, NEW m \in Messages
  PROVE  /\ m \in loading => m \in 1 .. Len(received)
         /\ replies[m] # <<>> => m \in 1 .. Len(received)
         /\ \A k \in 1 .. Len(consumer) : consumer[k] = Reply(m) => m \in 1 .. Len(received)
  BY DEF PhoneInv, HandledOnce, Unhandled

LEMMA ReceiveInv ==
  ASSUME ApiP!IInv, PhoneInv, NEW c \in Contents, ReceiveMessage(c)
  PROVE  ApiP!IInv' /\ PhoneInv'
  <1> DEFINE w == Len(received) + 1
  <1>1. OwnTypes /\ HandledOnce /\ CallbacksFit /\ RepliesFit
    BY DEF PhoneInv
  <1>2. /\ Len(received) < MaxMessages /\ received' = Append(received, c)
        /\ Api!DispatchOther(w)
        /\ UNCHANGED <<sourceList, replies, loading, turn, consumer, ran, crashed>>
    BY DEF ReceiveMessage, viewVars
  <1>3. /\ received' \in Seq(Contents) /\ Len(received) \in Nat /\ Len(received') = w
        /\ w \in 1 .. w /\ w \notin 1 .. Len(received)
        /\ \A m \in 1 .. Len(received) : m \in 1 .. w /\ received'[m] = received[m]
        /\ \A m \in 1 .. w : m \in 1 .. Len(received) \/ m = w
    BY <1>1, <1>2, OneMore DEF OwnTypes
  <1>4. w \in Messages /\ w <= MaxMessages
    BY <1>2, <1>3, BoundsAssumption DEF Messages
  <1> HIDE DEF w
  <1>5. /\ ApiP!IInv'
        /\ UNCHANGED <<registered, called, made, asked>>
        /\ \A m \in Messages :
             /\ \A i \in 1 .. Len(mainQueue) :
                  i \in 1 .. Len(mainQueue') /\ (BlockOf(i, m) => BlockOf(i, m)')
             /\ \A i \in 1 .. Len(mainQueue') : BlockOf(i, m)' =>
                  \/ i \in 1 .. Len(mainQueue) /\ BlockOf(i, m)
                  \/ i = Len(mainQueue) + 1 /\ m = w
    BY <1>2, <1>4, DispatchKeeps
  <1>6. OwnTypes'
    BY <1>1, <1>2, <1>3, <1>4, <1>5 DEF OwnTypes
  <1>7. \A m \in Messages : Unhandled(m)' => Unhandled(m)
    BY <1>2, <1>3, <1>5 DEF Unhandled
  <1>8. HandledOnce'
    <2>1. turn' # Nil => turn' \in 1 .. Len(received')
      BY <1>1, <1>2, <1>3 DEF HandledOnce
    <2>2. ASSUME NEW m \in Messages, NEW i \in 1 .. Len(mainQueue'), BlockOf(i, m)'
          PROVE  m \in 1 .. w /\ m # turn
      <3>1. turn \in 1 .. Len(received) \/ turn = Nil
        BY <1>1 DEF HandledOnce
      <3>2. CASE m = w
        BY <1>3, <1>4, <3>1, <3>2, Names
      <3>3. CASE i \in 1 .. Len(mainQueue) /\ BlockOf(i, m)
        BY <1>1, <1>3, <3>3 DEF HandledOnce
      <3>4. QED
        BY <1>5, <2>2, <3>2, <3>3
    <2>3. ASSUME NEW m \in Messages,
                 NEW i \in 1 .. Len(mainQueue'), BlockOf(i, m)',
                 NEW j \in 1 .. Len(mainQueue'), BlockOf(j, m)'
          PROVE  i = j
      <3>1. \A k \in 1 .. Len(mainQueue) : BlockOf(k, m) => m # w
        BY <1>1, <1>3 DEF HandledOnce
      <3>2. QED
        BY <1>1, <1>5, <2>3, <3>1 DEF HandledOnce
    <2>4. \A m \in Messages : Unhandled(m)' =>
            /\ m \notin loading /\ replies[m] = <<>>
            /\ \A k \in 1 .. Len(consumer) : consumer[k] # Reply(m)
      BY <1>1, <1>7 DEF HandledOnce
    <2>5. \A m \in loading : replies[m] = <<>> /\ received'[m].request = "image"
      <3>1. \A m \in loading : m \in Messages
        BY <1>1 DEF OwnTypes
      <3>2. QED
        BY <1>1, <1>3, <3>1, OnlyReceived DEF HandledOnce
    <2>6. QED
      BY <1>2, <1>3, <2>1, <2>2, <2>3, <2>4, <2>5 DEF HandledOnce
  <1>9. CallbacksFit'
    <2>1. ASSUME NEW m \in Messages, NEW k \in 1 .. Len(consumer), consumer[k] = Reply(m)
          PROVE  /\ received'[m].request \in {"sources", "articles", "headlines"}
                 /\ asked[k] = QueryOf(received'[m])
                 /\ made[registered[k]].cached
                 /\ \A j \in 1 .. Len(consumer) : consumer[j] = Reply(m) => j = k
      <3>1. received'[m] = received[m]
        BY <1>3, <2>1, OnlyReceived
      <3>2. QED
        BY <1>1, <2>1, <3>1 DEF CallbacksFit
    <2>2. QED
      BY <1>2, <1>5, <2>1 DEF CallbacksFit
  <1>10. RepliesFit'
    <2>1. \A m \in Messages : replies[m] # <<>> => received'[m] = received[m]
      BY <1>3, OnlyReceived
    <2>2. QED
      BY <1>1, <1>2, <1>5, <2>1 DEF RepliesFit, TellsMessage, FixedReply
  <1>11. QED
    BY <1>5, <1>6, <1>8, <1>9, <1>10 DEF PhoneInv

\* The blocks stay, and the message that was handled is through.
LEMMA HandledKeeps ==
  ASSUME PhoneInv, turn \in Messages, turn' = Nil,
         UNCHANGED <<mainQueue, consumer, received>>,
         \A m \in Messages : m # turn => (m \in loading' => m \in loading) /\ replies'[m] = replies[m],
         \A m \in loading' : replies'[m] = <<>> /\ received[m].request = "image"
  PROVE  HandledOnce'
  <1>1. HandledOnce
    BY DEF PhoneInv
  <1>2. ASSUME NEW m \in Messages, Unhandled(m)' PROVE Unhandled(m) /\ m # turn
    <2>1. Unhandled(m) /\ (m \in 1 .. Len(received) => \E i \in 1 .. Len(mainQueue) : BlockOf(i, m))
      BY <1>2, Names DEF Unhandled, BlockOf
    <2>2. turn \in 1 .. Len(received)
      BY <1>1, Names DEF HandledOnce
    <2>3. QED
      BY <1>1, <2>1, <2>2 DEF HandledOnce
  <1>3. \A m \in Messages : Unhandled(m)' =>
          /\ m \notin loading' /\ replies'[m] = <<>>
          /\ \A k \in 1 .. Len(consumer) : consumer[k] # Reply(m)
    BY <1>1, <1>2 DEF HandledOnce
  <1>4. \A m \in Messages : \A i, j \in 1 .. Len(mainQueue) :
          BlockOf(i, m)' => /\ m \in 1 .. Len(received) /\ m # turn'
                            /\ BlockOf(j, m)' => i = j
    <2>1. \A i, m : BlockOf(i, m)' = BlockOf(i, m)
      BY DEF BlockOf
    <2>2. \A m \in Messages : m # turn'
      BY Names
    <2>3. QED
      BY <1>1, <2>1, <2>2 DEF HandledOnce
  <1>5. QED
    BY <1>3, <1>4 DEF HandledOnce

LEMMA QueryOfFacts ==
  /\ \A c \in Contents : QueryOf(c).what = c.request
  /\ \A c \in Contents : c.request \in {"sources", "articles", "headlines", "image", "unknown"}
  /\ \A c : c.request = "sources" => QueryOf(c) = ApiP!SourcesQuery
  /\ \A c : c.request = "articles" => QueryOf(c) = ApiP!ArticlesQuery(c.source)
  /\ \A c : c.request = "headlines" => QueryOf(c) = ApiP!HeadlinesQuery(c.country)
  /\ \A c : c.request \in {"unknown", "image"} => QueryOf(c) = FixedReply(c).of
  /\ \A c \in Contents : c.request \in {"unknown", "image"} => FixedReply(c) \in Payloads
  <1>1. \A c \in Contents : c.request \in {"sources", "articles", "headlines", "image", "unknown"}
    BY DEF Contents
  <1>2. /\ \A c : c.request = "sources" => QueryOf(c) = ApiP!SourcesQuery
        /\ \A c : c.request = "articles" => QueryOf(c) = ApiP!ArticlesQuery(c.source)
        /\ \A c : c.request = "headlines" => QueryOf(c) = ApiP!HeadlinesQuery(c.country)
    BY SameQueries DEF QueryOf
  <1>3. /\ \A c : c.request = "unknown" => QueryOf(c) = [what |-> "unknown"]
        /\ \A c : c.request = "image" => QueryOf(c) = [what |-> "image", url |-> c.url]
    BY DEF QueryOf
  <1>4. \A c : c.request \in {"unknown", "image"} => QueryOf(c) = FixedReply(c).of
    BY <1>3 DEF FixedReply, ImageReply
  <1>5. ASSUME NEW c \in Contents, c.request \in {"unknown", "image"}
        PROVE  FixedReply(c) \in Payloads
    <2>1. FixedReply(c).of \in Questions
      BY <1>4, <1>5 DEF Questions
    <2>2. /\ FixedReply(c) = [of |-> FixedReply(c).of, list |-> FixedReply(c).list]
          /\ FixedReply(c).list \in {"error", "nil", "full"}
      BY DEF FixedReply, ImageReply
    <2>3. QED
      BY <2>1, <2>2 DEF Payloads
  <1>6. /\ ApiP!SourcesQuery.what = "sources"
        /\ \A id : ApiP!ArticlesQuery(id).what = "articles"
        /\ \A c : ApiP!HeadlinesQuery(c).what = "headlines"
        /\ [what |-> "unknown"].what = "unknown"
        /\ \A url : [what |-> "image", url |-> url].what = "image"
    BY DEF ApiP!SourcesQuery, ApiP!ArticlesQuery, ApiP!HeadlinesQuery
  <1>7. \A c \in Contents : QueryOf(c).what = c.request
    BY <1>1, <1>2, <1>3, <1>6
  <1>8. QED
    BY <1>1, <1>2, <1>3, <1>4, <1>5, <1>7

\* The message whose block has run: it has come and nothing was done for it.
LEMMA TurnFacts ==
  ASSUME PhoneInv, turn # Nil
  PROVE  /\ turn \in Messages /\ turn \in 1 .. Len(received) /\ received[turn] \in Contents
         /\ turn \notin loading /\ replies[turn] = <<>>
  <1>1. turn \in Messages /\ received \in Seq(Contents)
    BY DEF PhoneInv, OwnTypes
  <1>2. turn \in 1 .. Len(received) /\ Unhandled(turn)
    BY DEF PhoneInv, HandledOnce, Unhandled
  <1>3. received[turn] \in Contents
    BY <1>1, <1>2, ElementOfSeq
  <1>4. QED
    BY <1>1, <1>2, <1>3 DEF PhoneInv, HandledOnce

\* A message that is asked for, one disjunct of the switch after the other.
LEMMA HandleAskInv ==
  ASSUME ApiP!IInv, PhoneInv, HandleMessage,
         \/ HandleSources(received[turn])
         \/ HandleArticles(received[turn])
         \/ HandleHeadlines(received[turn])
  PROVE  ApiP!IInv' /\ PhoneInv'
  <1> DEFINE c == received[turn]
             q == QueryOf(c)
  <1>1. /\ turn # Nil /\ turn' = Nil /\ c \in Contents
        /\ turn \in Messages
        /\ UNCHANGED <<viewVars, received, ran, crashed>>
    BY TurnFacts DEF HandleMessage
  <1> HIDE DEF c
  <1>2. /\ consumer' = Append(consumer, Reply(turn)) /\ UNCHANGED <<replies, loading>>
        /\ c.request \in {"sources", "articles", "headlines"}
    BY DEF HandleSources, HandleArticles, HandleHeadlines, Asked, c
  <1>3. q \in ApiP!Queries /\ ApiP!IInv' /\ Asks(q, TRUE)
    <2>1. CASE HandleSources(c)
      <3>1. Api!GetSources /\ q = ApiP!SourcesQuery
        BY <2>1, QueryOfFacts DEF HandleSources
      <3>2. ApiP!SourcesQuery \in ApiP!Queries
        BY DEF ApiP!Queries
      <3>3. QED
        BY <3>1, <3>2, GetSourcesKeeps
    <2>2. CASE HandleArticles(c)
      <3>1. Api!GetArticles(c.source) /\ q = ApiP!ArticlesQuery(c.source) /\ c.source \in SourceIds
        BY <1>1, <2>2, QueryOfFacts DEF HandleArticles, Contents
      <3>2. ApiP!ArticlesQuery(c.source) \in ApiP!Queries
        BY <3>1 DEF ApiP!Queries
      <3>3. QED
        BY <3>1, <3>2, GetArticlesKeeps
    <2>3. CASE HandleHeadlines(c)
      <3>1. /\ Api!GetHeadlines(c.country) /\ q = ApiP!HeadlinesQuery(c.country)
            /\ c.country \in Countries
        BY <1>1, <2>3, QueryOfFacts DEF HandleHeadlines, Contents
      <3>2. ApiP!HeadlinesQuery(c.country) \in ApiP!Queries
        BY <3>1 DEF ApiP!Queries
      <3>3. QED
        BY <3>1, <3>2, GetHeadlinesKeeps
    <2>4. QED
      BY <2>1, <2>2, <2>3 DEF c
  <1>4. Reply(turn) \in Consumers
    BY <1>1 DEF Consumers
  <1>5. Notes(Reply(turn), q)
    BY <1>1, <1>2 DEF Notes, c
  <1>6. PhoneInv'
    BY <1>1, <1>2, <1>3, <1>4, <1>5, AskedInv DEF watchVars
  <1>7. QED
    BY <1>3, <1>6

\* The cases of the switch that need no download.
LEMMA HandleOtherInv ==
  ASSUME ApiP!IInv, PhoneInv, HandleMessage,
         \/ HandleImage(received[turn])
         \/ HandleUnknown(received[turn])
         \/ HandleMalformed(received[turn])
  PROVE  ApiP!IInv' /\ PhoneInv'
  <1> DEFINE c == received[turn]
  <1>1. /\ turn # Nil /\ turn' = Nil /\ c \in Contents
        /\ turn \in Messages /\ turn \notin loading /\ replies[turn] = <<>>
        /\ UNCHANGED <<sourceList, received, ran, crashed>>
    BY TurnFacts DEF HandleMessage, viewVars
  <1> HIDE DEF c
  <1>2. /\ UNCHANGED <<apiVars, consumer>>
        /\ \/ c.request = "image" /\ loading' = loading \cup {turn} /\ replies' = replies
           \/ c.request = "unknown" /\ loading' = loading /\ replies' = Replied(turn, FixedReply(c))
           \/ loading' = loading /\ replies' = replies
    BY DEF HandleImage, HandleUnknown, HandleMalformed, FixedReply, c
  <1>3. ApiP!IInv'
    BY <1>2, ApiKeeps
  <1>4. UNCHANGED <<mainQueue, registered, called, made, asked>>
    BY <1>2 DEF apiVars, asyncVars
  <1>5. OwnTypes /\ HandledOnce /\ CallbacksFit /\ RepliesFit
    BY DEF PhoneInv
  <1>6. replies \in [Messages -> Seq(Payloads)]
    BY <1>5 DEF OwnTypes
  <1>7. /\ \A m \in Messages : m # turn => replies'[m] = replies[m]
        /\ \/ replies' = replies
           \/ /\ c.request = "unknown" /\ replies'[turn] = <<FixedReply(c)>>
              /\ loading' = loading
        /\ replies' \in [Messages -> Seq(Payloads)]
    <2>1. CASE replies' = replies
      BY <1>6, <2>1
    <2>2. CASE c.request = "unknown" /\ loading' = loading /\ replies' = Replied(turn, FixedReply(c))
      <3>1. FixedReply(c) \in Payloads
        BY <1>1, <2>2, QueryOfFacts
      <3>2. \A p \in Payloads : Append(<<>>, p) = <<p>> /\ <<p>> \in Seq(Payloads)
        OBVIOUS
      <3>3. replies' = [replies EXCEPT ![turn] = <<FixedReply(c)>>]
        BY <1>1, <1>6, <2>2, <3>1, <3>2 DEF Replied
      <3>4. QED
        BY <1>1, <1>6, <2>2, <3>1, <3>2, <3>3
    <2>3. QED
      BY <1>2, <2>1, <2>2
  <1>8. /\ loading' \subseteq loading \cup {turn} /\ loading' \subseteq Messages
        /\ turn \in loading' => c.request = "image" /\ replies' = replies
    <2>1. loading \subseteq Messages
      BY <1>5 DEF OwnTypes
    <2>2. QED
      BY <1>1, <1>2, <2>1
  <1>9. OwnTypes'
    BY <1>1, <1>2, <1>4, <1>5, <1>7, <1>8 DEF OwnTypes
  <1>10. HandledOnce'
    <2>1. ASSUME NEW m \in loading' PROVE replies'[m] = <<>> /\ received[m].request = "image"
      <3>1. CASE m = turn
        BY <1>1, <1>8, <2>1, <3>1 DEF c
      <3>2. CASE m # turn
        <4>1. m \in loading /\ m \in Messages
          BY <1>8, <2>1, <3>2
        <4>2. QED
          BY <1>5, <1>7, <3>2, <4>1 DEF HandledOnce
      <3>3. QED
        BY <3>1, <3>2
    <2>2. QED
      BY <1>1, <1>2, <1>4, <1>7, <1>8, <2>1, HandledKeeps
  <1>11. CallbacksFit'
    BY <1>1, <1>2, <1>4, <1>5 DEF CallbacksFit
  <1>12. RepliesFit'
    <2>1. ASSUME NEW m \in Messages, replies'[m] # <<>>
          PROVE  \/ \E i \in 1 .. ran : TellsMessage(i, m)'
                 \/ /\ received[m].request \in {"unknown", "image"}
                    /\ replies'[m] = <<FixedReply(received[m])>>
      <3>1. CASE m = turn
        BY <1>1, <1>7, <2>1, <3>1 DEF c
      <3>2. CASE m # turn
        <4>1. replies'[m] = replies[m]
          BY <1>7, <3>2
        <4>2. \A i : TellsMessage(i, m) => TellsMessage(i, m)'
          BY <1>2, <1>4, <4>1 DEF TellsMessage
        <4>3. QED
          BY <1>5, <2>1, <4>1, <4>2 DEF RepliesFit
      <3>3. QED
        BY <3>1, <3>2
    <2>2. QED
      BY <1>1, <2>1 DEF RepliesFit, FixedReply
  <1>13. QED
    BY <1>3, <1>9, <1>10, <1>11, <1>12 DEF PhoneInv

LEMMA ImageInv ==
  ASSUME ApiP!IInv, PhoneInv, NEW m \in Messages, ImageRetrieved(m)
  PROVE  ApiP!IInv' /\ PhoneInv'
  <1>1. OwnTypes /\ HandledOnce /\ CallbacksFit /\ RepliesFit
    BY DEF PhoneInv
  <1>2. /\ m \in loading /\ loading' = loading \ {m}
        /\ UNCHANGED <<apiVars, sourceList, received, turn, consumer, ran, crashed>>
        /\ replies' = Replied(m, ImageReply(received[m])) \/ replies' = replies
    BY DEF ImageRetrieved, viewVars
  <1>3. ApiP!IInv'
    BY <1>2, ApiKeeps
  <1>4. UNCHANGED <<mainQueue, registered, called, made, asked>>
    BY <1>2 DEF apiVars, asyncVars
  <1> DEFINE p == FixedReply(received[m])
  <1>5. replies[m] = <<>> /\ received[m].request = "image" /\ m \in 1 .. Len(received)
    BY <1>1, <1>2, OnlyReceived DEF HandledOnce
  <1>6. received[m] \in Contents
    BY <1>1, <1>5, ElementOfSeq DEF OwnTypes
  <1>7. p \in Payloads /\ p = ImageReply(received[m])
    BY <1>5, <1>6, QueryOfFacts DEF FixedReply
  <1> HIDE DEF p
  <1>8. replies \in [Messages -> Seq(Payloads)]
    BY <1>1 DEF OwnTypes
  <1>9. /\ \A n \in Messages : n # m => replies'[n] = replies[n]
        /\ replies' = replies \/ replies'[m] = <<p>>
        /\ replies' \in [Messages -> Seq(Payloads)]
    <2>1. CASE replies' = replies
      BY <1>8, <2>1
    <2>2. CASE replies' = Replied(m, p)
      <3>1. \A e \in Payloads : Append(<<>>, e) = <<e>> /\ <<e>> \in Seq(Payloads)
        OBVIOUS
      <3>2. replies' = [replies EXCEPT ![m] = <<p>>]
        BY <1>5, <1>7, <1>8, <2>2, <3>1 DEF Replied
      <3>3. QED
        BY <1>7, <1>8, <3>1, <3>2
    <2>3. QED
      BY <1>2, <1>7, <2>1, <2>2
  <1>10. OwnTypes'
    BY <1>1, <1>2, <1>4, <1>9 DEF OwnTypes
  <1>11. \A n \in Messages : Unhandled(n)' => Unhandled(n) /\ n # m
    <2>1. \A n \in Messages : Unhandled(n)' => Unhandled(n)
      BY <1>2, <1>4 DEF Unhandled, BlockOf
    <2>2. QED
      BY <1>1, <1>2, <2>1 DEF HandledOnce
  <1>12. HandledOnce'
    <2>1. \A n \in Messages : \A i, j \in 1 .. Len(mainQueue) :
            BlockOf(i, n)' => /\ n \in 1 .. Len(received) /\ n # turn
                              /\ BlockOf(j, n)' => i = j
      <3>1. \A i, n : BlockOf(i, n)' = BlockOf(i, n)
        BY <1>4 DEF BlockOf
      <3>2. QED
        BY <1>1, <3>1 DEF HandledOnce
    <2>2. \A n \in Messages : Unhandled(n)' =>
            /\ n \notin loading' /\ replies'[n] = <<>>
            /\ \A k \in 1 .. Len(consumer) : consumer[k] # Reply(n)
      BY <1>1, <1>2, <1>9, <1>11 DEF HandledOnce
    <2>3. \A n \in loading' : replies'[n] = <<>> /\ received[n].request = "image"
      BY <1>1, <1>2, <1>9 DEF HandledOnce, OwnTypes
    <2>4. turn # Nil => turn \in 1 .. Len(received)
      BY <1>1 DEF HandledOnce
    <2>5. QED
      BY <1>2, <1>4, <2>1, <2>2, <2>3, <2>4 DEF HandledOnce
  <1>13. CallbacksFit'
    BY <1>1, <1>2, <1>4 DEF CallbacksFit
  <1>14. RepliesFit'
    <2>1. ASSUME NEW n \in Messages, replies'[n] # <<>>
          PROVE  \/ \E i \in 1 .. ran : TellsMessage(i, n)'
                 \/ /\ received[n].request \in {"unknown", "image"}
                    /\ replies'[n] = <<FixedReply(received[n])>>
      <3>1. CASE n = m
        BY <1>5, <1>9, <2>1, <3>1 DEF p
      <3>2. CASE n # m
        <4>1. replies'[n] = replies[n]
          BY <1>9, <3>2
        <4>2. \A i : TellsMessage(i, n) => TellsMessage(i, n)'
          BY <1>2, <1>4, <4>1 DEF TellsMessage
        <4>3. QED
          BY <1>1, <2>1, <4>1, <4>2 DEF RepliesFit
      <3>3. QED
        BY <3>1, <3>2
    <2>2. QED
      BY <1>2, <2>1 DEF RepliesFit, FixedReply
  <1>15. QED
    BY <1>3, <1>10, <1>12, <1>13, <1>14 DEF PhoneInv

LEMMA FinishInv ==
  ASSUME ApiP!IInv, PhoneInv, NEW r \in Api!Requests, NEW a \in Api!Answers,
         FinishDownload(r, a)
  PROVE  ApiP!IInv' /\ PhoneInv'
  <1>1. OwnTypes /\ HandledOnce
    BY DEF PhoneInv
  <1>2. /\ UNCHANGED <<sourceList, received, replies, loading, turn, consumer, ran, crashed>>
        /\ Api!FinishDownload(r, a)
    BY DEF FinishDownload, viewVars, watchVars
  <1>3. ApiP!IInv' /\ SameBlocks /\ UNCHANGED <<registered, called, made, asked>>
    BY <1>2, FinishKeeps
  <1>4. OwnTypes'
    BY <1>1, <1>2, <1>3 DEF OwnTypes
  <1>5. \A m \in Messages : Unhandled(m)' => Unhandled(m)
    BY <1>2, <1>3 DEF Unhandled, SameBlocks
  <1>6. HandledOnce'
    <2>1. \A m \in Messages : \A i, j \in 1 .. Len(mainQueue') :
            BlockOf(i, m)' => /\ m \in 1 .. Len(received) /\ m # turn
                              /\ BlockOf(j, m)' => i = j
      BY <1>1, <1>3 DEF HandledOnce, SameBlocks
    <2>2. QED
      BY <1>1, <1>2, <1>5, <2>1 DEF HandledOnce
  <1>7. CallbacksFit' /\ RepliesFit'
    BY <1>2, <1>3, SameReplies
  <1>8. QED
    BY <1>3, <1>4, <1>6, <1>7 DEF PhoneInv

\* A block runs: it may be the one of a message, or bring calls.
LEMMA RunBlockInv ==
  ASSUME ApiP!IInv, PhoneInv, RunBlock
  PROVE  ApiP!IInv' /\ PhoneInv'
  <1>1. OwnTypes /\ HandledOnce /\ CallbacksFit /\ RepliesFit
    BY DEF PhoneInv
  <1>2. /\ turn = Nil /\ Api!RunMain
        /\ turn' = IF Head(mainQueue).op = "other" THEN Head(mainQueue).work ELSE Nil
        /\ UNCHANGED <<sourceList, received, replies, loading, consumer, ran, crashed>>
    <2>1. turn = Nil /\ Api!RunMain
          /\ UNCHANGED <<sourceList, received, replies, loading, consumer, ran, crashed>>
      BY DEF RunBlock, MainIsFree, viewVars, watchVars
    <2>2. mainQueue # <<>>
      BY <2>1, RunMainKeeps DEF RanBlock
    <2>3. QED
      BY <2>1, <2>2 DEF RunBlock, Api!Async!NextBlockIs
  <1>3. ApiP!IInv' /\ RanBlock
    BY <1>2, RunMainKeeps
  <1>4. /\ 1 \in 1 .. Len(mainQueue) /\ Head(mainQueue) = mainQueue[1]
        /\ \A i \in 1 .. Len(mainQueue') : mainQueue'[i].op = "other" =>
             /\ i + 1 \in 1 .. Len(mainQueue) /\ i + 1 # 1
             /\ mainQueue'[i] = mainQueue[i + 1]
        /\ \A i \in 1 .. Len(mainQueue) : i # 1 =>
             /\ i - 1 \in 1 .. Len(mainQueue')
             /\ mainQueue'[i - 1] = mainQueue[i]
    BY <1>3, Dequeued DEF RanBlock
  <1>5. /\ Len(called) \in Nat /\ Len(called') \in Nat /\ Len(called) <= Len(called')
        /\ \A i \in 1 .. Len(called) : called'[i] = called[i]
    <2>1. called \in Seq(ApiP!Async!Calls)
      BY ApiFacts
    <2>2. CASE called' = called
      BY <2>1, <2>2, LenProperties
    <2>3. ASSUME NEW more \in Seq(ApiP!Async!Calls), called' = called \o more
          PROVE  /\ Len(called) \in Nat /\ Len(called') \in Nat /\ Len(called) <= Len(called')
                 /\ \A i \in 1 .. Len(called) : called'[i] = called[i]
      <3>1. /\ Len(called) \in Nat /\ Len(more) \in Nat
            /\ Len(called') = Len(called) + Len(more)
        BY <2>1, <2>3, ConcatProperties, LenProperties
      <3>2. \A i \in 1 .. Len(called) + Len(more) :
              i <= Len(called) => called'[i] = called[i]
        BY <2>1, <2>3, ConcatProperties
      <3>3. QED
        BY <3>1, <3>2
    <2>4. QED
      BY <1>3, <2>2, <2>3 DEF RanBlock
  <1>6. turn' # Nil => turn' \in Messages /\ BlockOf(1, turn')
    <2>1. mainQueue[1] \in ApiP!Async!Blocks
      BY <1>4, ApiFacts, ElementOfSeq
    <2>2. mainQueue[1].op = "other" => mainQueue[1].work \in Messages
      BY <2>1 DEF ApiP!Async!Blocks
    <2>3. QED
      BY <1>2, <1>4, <2>2 DEF BlockOf
  <1>7. \A m : \A i \in 1 .. Len(mainQueue') : BlockOf(i, m)' =>
          i + 1 \in 1 .. Len(mainQueue) /\ i + 1 # 1 /\ BlockOf(i + 1, m)
    BY <1>4 DEF BlockOf
  <1>8. OwnTypes'
    <2>1. ran \in 0 .. Len(called')
      BY <1>1, <1>5 DEF OwnTypes
    <2>2. QED
      BY <1>1, <1>2, <1>3, <1>6, <2>1 DEF OwnTypes, RanBlock
  <1>9. \A m \in Messages : Unhandled(m)' => Unhandled(m)
    BY <1>2, <1>4, <1>6, <1>7, Names DEF Unhandled
  <1>10. HandledOnce'
    <2>1. turn' # Nil => turn' \in 1 .. Len(received)
      BY <1>1, <1>4, <1>6 DEF HandledOnce
    <2>2. ASSUME NEW m \in Messages, NEW i \in 1 .. Len(mainQueue'), BlockOf(i, m)'
          PROVE  m \in 1 .. Len(received) /\ m # turn'
      <3>1. i + 1 \in 1 .. Len(mainQueue) /\ i + 1 # 1 /\ BlockOf(i + 1, m)
        BY <1>7, <2>2
      <3>2. ~ BlockOf(1, m)
        BY <1>1, <1>4, <3>1 DEF HandledOnce
      <3>3. QED
        BY <1>1, <1>6, <3>1, <3>2, Names DEF HandledOnce
    <2>3. ASSUME NEW m \in Messages,
                 NEW i \in 1 .. Len(mainQueue'), BlockOf(i, m)',
                 NEW j \in 1 .. Len(mainQueue'), BlockOf(j, m)'
          PROVE  i = j
      <3>1. i + 1 = j + 1
        BY <1>1, <1>7, <2>3 DEF HandledOnce
      <3>2. QED
        BY <3>1
    <2>4. QED
      BY <1>1, <1>2, <1>9, <2>1, <2>2, <2>3 DEF HandledOnce
  <1>11. CallbacksFit'
    BY <1>1, <1>2, <1>3 DEF CallbacksFit, RanBlock
  <1>12. RepliesFit'
    <2>1. \A m : \A i \in 1 .. ran : TellsMessage(i, m) => TellsMessage(i, m)'
      <3>1. \A i \in 1 .. ran : called'[i] = called[i]
        BY <1>1, <1>5 DEF OwnTypes
      <3>2. QED
        BY <1>2, <3>1 DEF TellsMessage
    <2>2. QED
      BY <1>1, <1>2, <2>1 DEF RepliesFit, FixedReply
  <1>13. QED
    BY <1>3, <1>8, <1>10, <1>11, <1>12 DEF PhoneInv

-----------------------------------------------------------------------------
(* The invariant, action by action: the bodies of the callbacks.           *)

\* Every query of NewsApi is one that a message may ask.
LEMMA QueriesAreAsked == ApiP!Queries \subseteq Questions
  <1>1. ASSUME NEW q \in ApiP!Queries PROVE \E c \in Contents : QueryOf(c) = q
    <2>1. CASE q = ApiP!SourcesQuery
      <3>1. [request |-> "sources"] \in Contents
        BY DEF Contents
      <3>2. QED
        BY <2>1, <3>1, QueryOfFacts
    <2>2. ASSUME NEW c \in Countries, q = ApiP!HeadlinesQuery(c)
          PROVE  \E d \in Contents : QueryOf(d) = q
      <3>1. [request |-> "headlines", country |-> c] \in Contents
        BY DEF Contents
      <3>2. QED
        BY <2>2, <3>1, QueryOfFacts
    <2>3. ASSUME NEW id \in SourceIds, q = ApiP!ArticlesQuery(id)
          PROVE  \E d \in Contents : QueryOf(d) = q
      <3>1. [request |-> "articles", source |-> id] \in Contents
        BY DEF Contents
      <3>2. QED
        BY <2>3, <3>1, QueryOfFacts
    <2>4. QED
      BY <2>1, <2>2, <2>3 DEF ApiP!Queries
  <1>2. QED
    BY <1>1 DEF Questions

\* The call whose body runs next.
LEMMA BodyFacts ==
  ASSUME ApiP!IInv, PhoneInv, BodyRuns
  PROVE  /\ ran + 1 \in 1 .. Len(called) /\ ran' = ran + 1 /\ ran \in Nat
         /\ 1 .. ran' = 1 .. ran \cup {ran + 1} /\ ran + 1 \notin 1 .. ran
         /\ NextCall.cb \in 1 .. Len(consumer) /\ Len(consumer) = Len(registered)
         /\ NextConsumer \in Consumers
         /\ NextCall.outcome.result # Nil =>
              /\ NextCall.outcome.result \in Payloads
              /\ NextCall.outcome.result.of = asked[NextCall.cb]
  <1>1. /\ ran \in 0 .. Len(called) /\ consumer \in Seq(Consumers)
        /\ Len(consumer) = Len(registered)
    BY DEF PhoneInv, OwnTypes
  <1>2. ran < Len(called) /\ ran' = ran + 1 /\ Len(called) \in Nat
    BY ApiFacts DEF BodyRuns
  <1>3. /\ ran + 1 \in 1 .. Len(called) /\ ran \in Nat
        /\ 1 .. ran' = 1 .. ran \cup {ran + 1} /\ ran + 1 \notin 1 .. ran
    BY <1>1, <1>2
  <1>4. NextCall.cb \in 1 .. Len(consumer) /\ NextCall.outcome \in ApiP!Outcomes
    BY <1>1, <1>3, ApiFacts DEF NextCall
  <1>5. NextConsumer \in Consumers
    BY <1>1, <1>4, ElementOfSeq DEF NextConsumer
  <1>6. NextCall.outcome.result # Nil => NextCall.outcome.result \in Payloads
    <2>1. \A v \in ApiP!Outcomes : v.result # Nil =>
            v.result \in [of : ApiP!Queries, list : {"empty", "full"}]
      BY DEF ApiP!Outcomes, ApiP!Failure, ApiP!Success
    <2>2. [of : ApiP!Queries, list : {"empty", "full"}] \subseteq Payloads
      BY QueriesAreAsked DEF Payloads
    <2>3. QED
      BY <1>4, <2>1, <2>2
  <1>7. NextCall.outcome.result # Nil => NextCall.outcome.result.of = asked[NextCall.cb]
    BY <1>3, KeysAssumption DEF NextCall, ApiP!IInv, ApiP!Flow, ApiP!AnswersItsQuery
  <1>8. QED
    BY <1>1, <1>2, <1>3, <1>4, <1>5, <1>6, <1>7

\* The body of a view, which replies to no message.
LEMMA FillInv ==
  ASSUME ApiP!IInv, PhoneInv, FillArticles \/ FillSources
  PROVE  ApiP!IInv' /\ PhoneInv'
  <1>1. OwnTypes /\ HandledOnce /\ CallbacksFit /\ RepliesFit
    BY DEF PhoneInv
  <1>2. /\ BodyRuns
        /\ UNCHANGED <<apiVars, received, replies, loading, turn, consumer>>
        /\ crashed' \in BOOLEAN
        /\ sourceList' \in Payloads \cup {Nil}
    <2>1. sourceList \in Payloads \cup {Nil} /\ crashed \in BOOLEAN
      BY <1>1 DEF OwnTypes
    <2>2. CASE FillArticles
      BY <2>1, <2>2 DEF FillArticles, viewVars, watchVars
    <2>3. CASE FillSources
      BY <2>1, <2>3, BodyFacts DEF FillSources, viewVars, watchVars
    <2>4. QED
      BY <2>2, <2>3
  <1>3. ApiP!IInv'
    BY <1>2, ApiKeeps
  <1>4. UNCHANGED <<mainQueue, registered, called, made, asked>>
    BY <1>2 DEF apiVars, asyncVars
  <1>5. ran' \in 0 .. Len(called) /\ 1 .. ran \subseteq 1 .. ran'
    BY <1>2, BodyFacts, ApiFacts
  <1>6. OwnTypes'
    BY <1>1, <1>2, <1>4, <1>5 DEF OwnTypes
  <1>7. HandledOnce'
    BY <1>1, <1>2, <1>4 DEF HandledOnce, Unhandled, BlockOf
  <1>8. CallbacksFit'
    BY <1>1, <1>2, <1>4 DEF CallbacksFit
  <1>9. RepliesFit'
    <2>1. \A i, m : TellsMessage(i, m)' = TellsMessage(i, m)
      BY <1>2, <1>4 DEF TellsMessage
    <2>2. QED
      BY <1>1, <1>2, <1>5, <2>1 DEF RepliesFit, FixedReply
  <1>10. QED
    BY <1>3, <1>6, <1>7, <1>8, <1>9 DEF PhoneInv

\* The message whose callback is called has not been replied to.
LEMMA ReplyFacts ==
  ASSUME ApiP!IInv, PhoneInv, BodyRuns, NextConsumer.to = "watch"
  PROVE  LET m == NextConsumer.message IN
         /\ m \in Messages /\ NextConsumer = Reply(m) /\ consumer[NextCall.cb] = Reply(m)
         /\ m \in 1 .. Len(received)
         /\ replies[m] = <<>> /\ m \notin loading /\ ~ Unhandled(m)
         /\ received[m].request \in {"sources", "articles", "headlines"}
         /\ asked[NextCall.cb] = QueryOf(received[m])
         /\ made[registered[NextCall.cb]].cached
  <1> DEFINE m == NextConsumer.message
             k == NextCall.cb
  <1>1. OwnTypes /\ HandledOnce /\ CallbacksFit /\ RepliesFit
    BY DEF PhoneInv
  <1>2. m \in Messages /\ NextConsumer = Reply(m) /\ consumer[k] = Reply(m)
    BY BodyFacts, Names DEF Consumers, NextConsumer
  <1>3. k \in 1 .. Len(consumer)
    BY BodyFacts
  <1> HIDE DEF m
  <1>4. /\ received[m].request \in {"sources", "articles", "headlines"}
        /\ asked[k] = QueryOf(received[m])
        /\ made[registered[k]].cached
        /\ \A j \in 1 .. Len(consumer) : consumer[j] = Reply(m) => j = k
    BY <1>1, <1>2, <1>3 DEF CallbacksFit
  <1>5. ~ Unhandled(m) /\ m \in 1 .. Len(received)
    BY <1>1, <1>2, <1>3 DEF HandledOnce, Unhandled
  <1>6. m \notin loading
    BY <1>1, <1>4 DEF HandledOnce
  <1>7. ASSUME NEW i \in 1 .. ran, TellsMessage(i, m) PROVE FALSE
    <2>1. i \in 1 .. Len(called) /\ ran + 1 \in 1 .. Len(called) /\ i # ran + 1
      BY <1>1, BodyFacts, ApiFacts
    <2>2. called[i].cb \in 1 .. Len(consumer)
      BY <2>1, ApiFacts, BodyFacts
    <2>3. called[i].cb = called[ran + 1].cb
      BY <1>4, <1>7, <2>2 DEF TellsMessage, NextCall
    <2>4. QED
      BY <2>1, <2>3, CalledOnce
  <1>8. replies[m] = <<>>
    BY <1>1, <1>2, <1>4, <1>7 DEF RepliesFit
  <1>9. QED
    BY <1>2, <1>4, <1>5, <1>6, <1>8 DEF m

LEMMA SendReplyInv ==
  ASSUME ApiP!IInv, PhoneInv, SendReply
  PROVE  ApiP!IInv' /\ PhoneInv'
  <1> DEFINE m == NextConsumer.message
             p == NextCall.outcome.result
  <1>1. OwnTypes /\ HandledOnce /\ CallbacksFit /\ RepliesFit
    BY DEF PhoneInv
  <1>2. /\ BodyRuns /\ NextConsumer.to = "watch"
        /\ replies' = IF p = Nil THEN replies ELSE Replied(m, p)
        /\ UNCHANGED <<apiVars, sourceList, received, loading, turn, consumer, crashed>>
    BY DEF SendReply, viewVars
  <1>3. ApiP!IInv'
    BY <1>2, ApiKeeps
  <1>4. UNCHANGED <<mainQueue, registered, called, made, asked>>
    BY <1>2 DEF apiVars, asyncVars
  <1>5. /\ m \in Messages /\ consumer[NextCall.cb] = Reply(m)
        /\ replies[m] = <<>> /\ m \notin loading /\ ~ Unhandled(m)
    BY <1>2, ReplyFacts
  <1>6. /\ ran' \in 0 .. Len(called) /\ 1 .. ran \subseteq 1 .. ran' /\ ran + 1 \in 1 .. ran'
        /\ p # Nil => p \in Payloads
    BY <1>2, BodyFacts, ApiFacts
  <1>7. p = called[ran + 1].outcome.result /\ NextCall = called[ran + 1]
    BY DEF NextCall
  <1> HIDE DEF m, p
  <1>8. replies \in [Messages -> Seq(Payloads)]
    BY <1>1 DEF OwnTypes
  <1>9. /\ \A n \in Messages : n # m => replies'[n] = replies[n]
        /\ replies' = replies \/ (p # Nil /\ replies'[m] = <<p>>)
        /\ replies' \in [Messages -> Seq(Payloads)]
    <2>1. CASE p = Nil
      BY <1>2, <1>8, <2>1
    <2>2. CASE p # Nil
      <3>1. \A e \in Payloads : Append(<<>>, e) = <<e>> /\ <<e>> \in Seq(Payloads)
        OBVIOUS
      <3>2. replies' = [replies EXCEPT ![m] = <<p>>]
        BY <1>2, <1>5, <1>6, <1>8, <2>2, <3>1 DEF Replied
      <3>3. QED
        BY <1>5, <1>6, <1>8, <2>2, <3>1, <3>2
    <2>3. QED
      BY <2>1, <2>2
  <1>10. OwnTypes'
    BY <1>1, <1>2, <1>4, <1>6, <1>9 DEF OwnTypes
  <1>11. \A n \in Messages : Unhandled(n)' = Unhandled(n)
    BY <1>2, <1>4 DEF Unhandled, BlockOf
  <1>12. HandledOnce'
    <2>1. \A n \in Messages : Unhandled(n)' =>
            /\ n \notin loading /\ replies'[n] = <<>>
            /\ \A k \in 1 .. Len(consumer) : consumer[k] # Reply(n)
      BY <1>1, <1>5, <1>9, <1>11 DEF HandledOnce
    <2>2. \A n \in loading : replies'[n] = <<>> /\ received[n].request = "image"
      BY <1>1, <1>5, <1>9 DEF HandledOnce, OwnTypes
    <2>3. \A n \in Messages : \A i, j \in 1 .. Len(mainQueue) :
            BlockOf(i, n)' => /\ n \in 1 .. Len(received) /\ n # turn
                              /\ BlockOf(j, n)' => i = j
      <3>1. \A i, n : BlockOf(i, n)' = BlockOf(i, n)
        BY <1>4 DEF BlockOf
      <3>2. QED
        BY <1>1, <3>1 DEF HandledOnce
    <2>4. turn # Nil => turn \in 1 .. Len(received)
      BY <1>1 DEF HandledOnce
    <2>5. QED
      BY <1>2, <1>4, <2>1, <2>2, <2>3, <2>4 DEF HandledOnce
  <1>13. CallbacksFit'
    BY <1>1, <1>2, <1>4 DEF CallbacksFit
  <1>14. RepliesFit'
    <2>1. ASSUME NEW n \in Messages, replies'[n] # <<>>
          PROVE  \/ \E i \in 1 .. ran' : TellsMessage(i, n)'
                 \/ /\ received[n].request \in {"unknown", "image"}
                    /\ replies'[n] = <<FixedReply(received[n])>>
      <3>1. CASE n = m
        <4>1. p # Nil /\ replies'[m] = <<p>>
          BY <1>5, <1>9, <2>1, <3>1
        <4>2. PICK i \in 1 .. ran' : i = ran + 1
          BY <1>6
        <4>3. TellsMessage(i, n)'
          BY <1>2, <1>4, <1>5, <1>7, <3>1, <4>1, <4>2 DEF TellsMessage
        <4>4. QED
          BY <4>3
      <3>2. CASE n # m
        <4>1. replies'[n] = replies[n]
          BY <1>9, <3>2
        <4>2. \A i : TellsMessage(i, n) => TellsMessage(i, n)'
          BY <1>2, <1>4, <4>1 DEF TellsMessage
        <4>3. QED
          BY <1>1, <1>6, <2>1, <4>1, <4>2 DEF RepliesFit
      <3>3. QED
        BY <3>1, <3>2
    <2>2. QED
      BY <1>2, <2>1 DEF RepliesFit, FixedReply
  <1>15. QED
    BY <1>3, <1>10, <1>12, <1>13, <1>14 DEF PhoneInv

\* A view that opens asks, of the cache or for itself.
LEMMA ViewInv ==
  ASSUME ApiP!IInv, PhoneInv,
         NEW w \in {SourcesView, ArticlesView}, NEW q \in ApiP!Queries, NEW c \in BOOLEAN,
         Opened(w), ApiP!IInv', Asks(q, c)
  PROVE  PhoneInv'
  <1>1. w \in Consumers /\ w.to # "watch"
    BY Names DEF Consumers
  <1>2. /\ consumer' = Append(consumer, w) /\ turn' = turn
        /\ UNCHANGED <<viewVars, watchVars, ran, crashed>>
    BY DEF Opened
  <1>3. Notes(w, q)
    BY <1>2 DEF Notes
  <1>4. QED
    BY <1>1, <1>2, <1>3, AskedInv

LEMMA InitInv == Init => IInv
  <1> SUFFICES ASSUME Init PROVE IInv
    OBVIOUS
  <1>1. ApiP!Init
    BY SameInit DEF Init
  <1>2. ApiP!IInv
    BY <1>1, ApiAssumptions, ApiP!InitInv
  <1>3. /\ mainQueue = <<>> /\ registered = <<>> /\ called = <<>>
    BY <1>1 DEF ApiP!Init, ApiP!Async!Init
  <1>4. /\ received = <<>> /\ turn = Nil /\ consumer = <<>> /\ ran = 0
        /\ replies = [m \in Messages |-> <<>>]
        /\ sourceList = Nil /\ loading = {} /\ crashed = FALSE
    BY DEF Init
  <1>5. OwnTypes
    <2>1. /\ <<>> \in Seq(Contents) /\ <<>> \in Seq(Consumers) /\ <<>> \in Seq(Payloads)
          /\ Len(<<>>) = 0
      OBVIOUS
    <2>2. Len(received) <= MaxMessages
      BY <1>4, <2>1, BoundsAssumption
    <2>3. ran \in 0 .. Len(called)
      BY <1>3, <1>4, <2>1
    <2>4. replies \in [Messages -> Seq(Payloads)]
      BY <1>4, <2>1
    <2>5. QED
      BY <1>3, <1>4, <2>1, <2>2, <2>3, <2>4 DEF OwnTypes
  <1>6. HandledOnce
    BY <1>3, <1>4 DEF HandledOnce
  <1>7. CallbacksFit /\ RepliesFit
    BY <1>4 DEF CallbacksFit, RepliesFit
  <1>8. QED
    BY <1>2, <1>5, <1>6, <1>7 DEF IInv, PhoneInv

LEMMA NextInv == IInv /\ [Next]_vars => IInv'
  <1> SUFFICES ASSUME ApiP!IInv, PhoneInv, [Next]_vars
               PROVE  ApiP!IInv' /\ PhoneInv'
    BY DEF IInv
  <1>1. CASE OpenHeadlines
    <2>1. Opened(ArticlesView) /\ Api!DownloadHeadlines(HomeCountry)
      BY <1>1 DEF OpenHeadlines
    <2>2. ApiP!HeadlinesQuery(HomeCountry) \in ApiP!Queries
      BY HomeCountryAssumption DEF ApiP!Queries
    <2>3. QED
      BY <2>1, <2>2, HomeCountryAssumption, DownloadHeadlinesKeeps, ViewInv
  <1>2. CASE OpenSources
    <2>1. Opened(SourcesView) /\ Api!GetSources
      BY <1>2 DEF OpenSources
    <2>2. ApiP!SourcesQuery \in ApiP!Queries
      BY DEF ApiP!Queries
    <2>3. QED
      BY <2>1, <2>2, GetSourcesKeeps, ViewInv
  <1>3. ASSUME NEW id \in SourceIds, OpenArticles(id)
        PROVE  ApiP!IInv' /\ PhoneInv'
    <2>1. Opened(ArticlesView) /\ Api!DownloadArticles(id)
      BY <1>3 DEF OpenArticles
    <2>2. ApiP!ArticlesQuery(id) \in ApiP!Queries
      BY DEF ApiP!Queries
    <2>3. QED
      BY <2>1, <2>2, DownloadArticlesKeeps, ViewInv
  <1>4. ASSUME NEW c \in Contents, ReceiveMessage(c)
        PROVE  ApiP!IInv' /\ PhoneInv'
    BY <1>4, ReceiveInv
  <1>5. ASSUME NEW m \in Messages, ImageRetrieved(m)
        PROVE  ApiP!IInv' /\ PhoneInv'
    BY <1>5, ImageInv
  <1>6. ASSUME NEW r \in Api!Requests, NEW a \in Api!Answers, FinishDownload(r, a)
        PROVE  ApiP!IInv' /\ PhoneInv'
    BY <1>6, FinishInv
  <1>7. CASE RunBlock
    BY <1>7, RunBlockInv
  <1>8. CASE HandleMessage
    BY <1>8, HandleAskInv, HandleOtherInv DEF HandleMessage
  <1>9. CASE FillArticles \/ FillSources
    BY <1>9, FillInv
  <1>10. CASE SendReply
    BY <1>10, SendReplyInv
  <1>11. CASE UNCHANGED vars
    <2>1. UNCHANGED <<apiVars, received, replies, loading, turn, consumer, ran, crashed, sourceList>>
      BY <1>11 DEF vars, viewVars, watchVars
    <2>2. ApiP!IInv'
      BY <2>1, ApiKeeps
    <2>3. UNCHANGED <<mainQueue, registered, called, made, asked>>
      BY <2>1 DEF apiVars, asyncVars
    <2>4. OwnTypes' /\ HandledOnce'
      BY <2>1, <2>3 DEF PhoneInv, OwnTypes, HandledOnce, Unhandled, BlockOf
    <2>5. CallbacksFit' /\ RepliesFit'
      BY <2>1, <2>3, SameReplies
    <2>6. QED
      BY <2>2, <2>4, <2>5 DEF PhoneInv
  <1>12. QED
    BY <1>1, <1>2, <1>3, <1>4, <1>5, <1>6, <1>7, <1>8, <1>9, <1>10, <1>11
    DEF Next, MainThread

-----------------------------------------------------------------------------
(* The theorems.                                                           *)

\* The invariant behind the others: every message has one callback at most,
\* which asks for it (WatchServer.swift), on top of what NewsApi keeps.
THEOREM Invariance == Spec => []IInv
  BY InitInv, NextInv, PTL DEF Spec

\* Every call has its callback and every reply is a payload: the closures that
\* the views and WatchServer.swift hand to withResult are called with what
\* they can handle.
THEOREM TypeCorrect == Spec => []TypeOK
  <1>1. IInv => TypeOK
    BY SameTypeOK DEF IInv, ApiP!IInv, PhoneInv, OwnTypes, Consumers, TypeOK
  <1>2. QED
    BY <1>1, Invariance, PTL

-----------------------------------------------------------------------------
(* The phone as a service of the watch.                                    *)

\* The questions of the messages that have come.
QuestionsNow == [m \in 1 .. Len(received) |-> QueryOf(received[m])]

LEMMA FunctionIsSeq ==
  ASSUME NEW S, NEW n \in Nat, NEW f \in [1 .. n -> S]
  PROVE  f \in Seq(S) /\ Len(f) = n
  <1>1. f \in Seq(S)
    BY SeqDef
  <1>2. QED
    BY <1>1, LenProperties

LEMMA QuestionsFacts ==
  ASSUME OwnTypes
  PROVE  /\ QuestionsNow \in Seq({QueryOf(c) : c \in Contents})
         /\ Len(QuestionsNow) = Len(received) /\ Len(received) \in Nat
         /\ \A m \in 1 .. Len(received) : QuestionsNow[m] = QueryOf(received[m])
  <1>1. received \in Seq(Contents) /\ Len(received) \in Nat
    BY LenProperties DEF OwnTypes
  <1>2. \A m \in 1 .. Len(received) : received[m] \in Contents
    BY <1>1, ElementOfSeq
  <1>3. QuestionsNow \in [1 .. Len(received) -> {QueryOf(c) : c \in Contents}]
    BY <1>2 DEF QuestionsNow
  <1>4. QED
    BY <1>1, <1>3, FunctionIsSeq DEF QuestionsNow

\* Nothing the watch can see.
LEMMA Unseen ==
  ASSUME UNCHANGED <<received, replies, crashed>>
  PROVE  UNCHANGED Service!vars
  BY DEF Service!vars

LEMMA ReceiveRefines ==
  ASSUME OwnTypes, NEW c \in Contents, ReceiveMessage(c)
  PROVE  Service!Receive(QueryOf(c))
  <1> DEFINE Q == {QueryOf(d) : d \in Contents}
             s == QuestionsNow
             t == Append(QuestionsNow, QueryOf(c))
  <1>1. /\ ~crashed /\ Len(received) < MaxMessages
        /\ received' = Append(received, c)
        /\ UNCHANGED <<replies, crashed>>
    BY DEF ReceiveMessage
  <1>2. /\ QuestionsNow \in Seq(Q) /\ Len(QuestionsNow) = Len(received) /\ Len(received) \in Nat
        /\ \A m \in 1 .. Len(received) : QuestionsNow[m] = QueryOf(received[m])
    BY QuestionsFacts
  <1>3. QueryOf(c) \in Q
    OBVIOUS
  <1> HIDE DEF Q
  <1>4. /\ received' \in Seq(Contents) /\ Len(received') = Len(received) + 1
        /\ received'[Len(received) + 1] = c
        /\ \A m \in 1 .. Len(received) : received'[m] = received[m]
        /\ \A m \in 1 .. Len(received') : m \in 1 .. Len(received) \/ m = Len(received) + 1
    BY <1>1, OneMore DEF OwnTypes
  <1>5. /\ t \in Seq(Q) /\ Len(t) = Len(received) + 1
        /\ t[Len(received) + 1] = QueryOf(c)
        /\ \A m \in 1 .. Len(received) : t[m] = QuestionsNow[m]
    BY <1>2, <1>3, OneMore
  <1>6. /\ QuestionsNow' \in Seq(Q) /\ Len(QuestionsNow') = Len(received')
        /\ \A m \in 1 .. Len(received') : QuestionsNow'[m] = QueryOf(received'[m])
    <2>1. \A m \in 1 .. Len(received') : received'[m] \in Contents
      BY <1>4, ElementOfSeq
    <2>2. QuestionsNow' = [m \in 1 .. Len(received') |-> QueryOf(received'[m])]
      BY DEF QuestionsNow
    <2>3. QuestionsNow' \in [1 .. Len(received') -> Q]
      BY <2>1, <2>2 DEF Q
    <2>4. Len(received') \in Nat
      BY <1>2, <1>4
    <2>5. QED
      BY <2>2, <2>3, <2>4, FunctionIsSeq
  <1>7. \A m \in 1 .. Len(received') : QuestionsNow'[m] = t[m]
    BY <1>2, <1>4, <1>5, <1>6
  <1> HIDE DEF t
  <1>8. QuestionsNow' = t
    BY <1>2, <1>4, <1>5, <1>6, <1>7, SeqEqual
  <1>9. QED
    BY <1>1, <1>2, <1>8 DEF Service!Receive, QuestionsNow, t

\* A first reply that fits its question and all earlier ones.
LEMMA ReplyRefines ==
  ASSUME PhoneInv, ~crashed, NEW m \in Messages, NEW p \in Payloads,
         m \in 1 .. Len(received), replies[m] = <<>>, p.of = QueryOf(received[m]),
         \A n \in 1 .. Len(received) :
           QueryOf(received[n]) = QueryOf(received[m]) /\ replies[n] # <<>> => replies[n] = <<p>>,
         replies' = Replied(m, p), UNCHANGED <<received, crashed>>
  PROVE  Service!Next
  <1>1. /\ Len(QuestionsNow) = Len(received)
        /\ \A n \in 1 .. Len(received) : QuestionsNow[n] = QueryOf(received[n])
    BY QuestionsFacts DEF PhoneInv
  <1>2. replies' = [replies EXCEPT ![m] = <<p>>]
    <2>1. \A e : Append(<<>>, e) = <<e>>
      OBVIOUS
    <2>2. replies \in [Messages -> Seq(Payloads)]
      BY DEF PhoneInv, OwnTypes
    <2>3. QED
      BY <2>1, <2>2 DEF Replied
  <1>3. QuestionsNow' = QuestionsNow
    BY DEF QuestionsNow
  <1>4. Service!Reply(m, p)
    BY <1>1, <1>2, <1>3 DEF Service!Reply, QuestionsNow
  <1>5. QED
    BY <1>4 DEF Service!Next, Messages

\* What is replied to a message without a callback depends on its question.
LEMMA FixedAlike ==
  ASSUME PhoneInv, ApiP!IInv, NEW m \in 1 .. Len(received), NEW n \in 1 .. Len(received),
         received[m].request \in {"unknown", "image"},
         QueryOf(received[n]) = QueryOf(received[m]), replies[n] # <<>>
  PROVE  replies[n] = <<FixedReply(received[m])>>
  <1>1. OwnTypes /\ CallbacksFit /\ RepliesFit
    BY DEF PhoneInv
  <1>2. n \in Messages /\ received[m] \in Contents /\ received[n] \in Contents
    <2>1. Len(received) \in Nat /\ Len(received) <= MaxMessages
      BY <1>1, LenProperties DEF OwnTypes
    <2>2. n \in Messages
      BY <2>1, BoundsAssumption DEF Messages
    <2>3. QED
      BY <1>1, <2>2, ElementOfSeq DEF OwnTypes
  <1>3. received[n].request = received[m].request
    BY <1>2, QueryOfFacts
  <1>4. ASSUME NEW i \in 1 .. ran, TellsMessage(i, n) PROVE FALSE
    <2>1. i \in 1 .. Len(called)
      BY <1>1, ApiFacts DEF OwnTypes
    <2>2. called[i].cb \in 1 .. Len(consumer)
      BY <1>1, <2>1, ApiFacts DEF OwnTypes
    <2>3. received[n].request \in {"sources", "articles", "headlines"}
      BY <1>1, <1>2, <1>4, <2>2 DEF CallbacksFit, TellsMessage
    <2>4. QED
      BY <1>3, <2>3
  <1>5. replies[n] = <<FixedReply(received[n])>>
    BY <1>1, <1>2, <1>4 DEF RepliesFit
  <1>6. FixedReply(received[n]) = FixedReply(received[m])
    <2>1. CASE received[m].request = "unknown"
      BY <1>3, <2>1 DEF FixedReply
    <2>2. CASE received[m].request = "image"
      <3>1. received[n].url = received[m].url
        BY <1>3, <2>2 DEF QueryOf
      <3>2. QED
        BY <1>3, <2>2, <3>1 DEF FixedReply, ImageReply
    <2>3. QED
      BY <2>1, <2>2
  <1>7. QED
    BY <1>5, <1>6

\* What the cache tells a message is what it told all who asked the same.
LEMMA ToldAlike ==
  ASSUME PhoneInv, ApiP!IInv, BodyRuns, NextConsumer.to = "watch",
         NEW n \in 1 .. Len(received),
         QueryOf(received[n]) = QueryOf(received[NextConsumer.message]), replies[n] # <<>>
  PROVE  replies[n] = <<NextCall.outcome.result>>
  <1> DEFINE m == NextConsumer.message
             k == NextCall.cb
  <1>1. OwnTypes /\ CallbacksFit /\ RepliesFit
    BY DEF PhoneInv
  <1>2. /\ m \in Messages /\ m \in 1 .. Len(received)
        /\ received[m].request \in {"sources", "articles", "headlines"}
        /\ asked[k] = QueryOf(received[m])
        /\ made[registered[k]].cached
    BY ReplyFacts
  <1> HIDE DEF m
  <1>3. n \in Messages /\ received[m] \in Contents /\ received[n] \in Contents
    <2>1. Len(received) \in Nat /\ Len(received) <= MaxMessages
      BY <1>1, LenProperties DEF OwnTypes
    <2>2. n \in Messages
      BY <2>1, BoundsAssumption DEF Messages
    <2>3. QED
      BY <1>1, <1>2, <2>2, ElementOfSeq DEF OwnTypes
  <1>4. QueryOf(received[n]) = QueryOf(received[m])
    BY DEF m
  <1>5. received[n].request = received[m].request
    BY <1>3, <1>4, QueryOfFacts
  <1>6. PICK i \in 1 .. ran : TellsMessage(i, n)
    BY <1>1, <1>2, <1>3, <1>5 DEF RepliesFit
  <1>7. i \in 1 .. Len(called) /\ ran + 1 \in 1 .. Len(called)
    BY <1>1, BodyFacts, ApiFacts DEF OwnTypes
  <1>8. called[i].cb \in 1 .. Len(consumer)
    BY <1>1, <1>7, ApiFacts DEF OwnTypes
  <1>9. asked[called[i].cb] = QueryOf(received[n]) /\ made[registered[called[i].cb]].cached
    BY <1>1, <1>3, <1>6, <1>8 DEF CallbacksFit, TellsMessage
  <1>10. called[i].outcome = called[ran + 1].outcome
    BY <1>2, <1>4, <1>7, <1>9, CacheTellsAlike DEF NextCall
  <1>11. QED
    BY <1>6, <1>10 DEF TellsMessage, NextCall

LEMMA SendReplyRefines ==
  ASSUME PhoneInv, ApiP!IInv, SendReply
  PROVE  Service!Next \/ UNCHANGED Service!vars
  <1> DEFINE m == NextConsumer.message
             p == NextCall.outcome.result
  <1>1. /\ BodyRuns /\ NextConsumer.to = "watch" /\ ~crashed
        /\ replies' = IF p = Nil THEN replies ELSE Replied(m, p)
        /\ UNCHANGED <<received, crashed>>
    BY DEF SendReply, BodyRuns
  <1>2. CASE p = Nil
    BY <1>1, <1>2, Unseen
  <1>3. CASE p # Nil
    <2>1. /\ m \in Messages /\ m \in 1 .. Len(received) /\ replies[m] = <<>>
          /\ asked[NextCall.cb] = QueryOf(received[m])
      BY <1>1, ReplyFacts
    <2>2. p \in Payloads /\ p.of = asked[NextCall.cb]
      BY <1>1, <1>3, BodyFacts
    <2>3. \A n \in 1 .. Len(received) :
            QueryOf(received[n]) = QueryOf(received[m]) /\ replies[n] # <<>> => replies[n] = <<p>>
      BY <1>1, ToldAlike
    <2>4. QED
      BY <1>1, <1>3, <2>1, <2>2, <2>3, ReplyRefines
  <1>4. QED
    BY <1>2, <1>3

LEMMA ImageRefines ==
  ASSUME PhoneInv, ApiP!IInv, NEW m \in Messages, ImageRetrieved(m)
  PROVE  Service!Next \/ UNCHANGED Service!vars
  <1> DEFINE p == FixedReply(received[m])
  <1>1. m \in loading /\ ~crashed /\ UNCHANGED <<received, crashed>>
    BY DEF ImageRetrieved
  <1>2. /\ replies[m] = <<>> /\ received[m].request = "image"
        /\ m \in 1 .. Len(received)
    BY <1>1, OnlyReceived DEF PhoneInv, HandledOnce
  <1>3. received[m] \in Contents
    BY <1>2, ElementOfSeq DEF PhoneInv, OwnTypes
  <1>4. p \in Payloads /\ p.of = QueryOf(received[m])
    BY <1>2, <1>3, QueryOfFacts
  <1>5. replies' = Replied(m, p) \/ replies' = replies
    BY <1>2 DEF ImageRetrieved, FixedReply
  <1>6. CASE replies' = replies
    BY <1>1, <1>6, Unseen
  <1>7. CASE replies' = Replied(m, p)
    <2>1. \A n \in 1 .. Len(received) :
            QueryOf(received[n]) = QueryOf(received[m]) /\ replies[n] # <<>> => replies[n] = <<p>>
      BY <1>2, FixedAlike
    <2>2. QED
      BY <1>1, <1>2, <1>4, <1>7, <2>1, ReplyRefines
  <1>8. QED
    BY <1>5, <1>6, <1>7

\* Only an unknown message is replied to where it is handled.
LEMMA HandleRefines ==
  ASSUME PhoneInv, ApiP!IInv, HandleMessage
  PROVE  Service!Next \/ UNCHANGED Service!vars
  <1> DEFINE c == received[turn]
  <1>1. ~crashed /\ turn # Nil /\ UNCHANGED <<received, crashed>>
    BY DEF HandleMessage
  <1>2. turn \in Messages /\ turn \in 1 .. Len(received) /\ c \in Contents /\ replies[turn] = <<>>
    BY <1>1, TurnFacts
  <1>3. \/ replies' = replies
        \/ c.request = "unknown" /\ replies' = Replied(turn, FixedReply(c))
    BY DEF HandleMessage, HandleSources, HandleArticles, HandleHeadlines, HandleImage,
           HandleUnknown, HandleMalformed, Asked, FixedReply
  <1>4. CASE replies' = replies
    BY <1>1, <1>4, Unseen
  <1>5. CASE c.request = "unknown" /\ replies' = Replied(turn, FixedReply(c))
    <2>1. FixedReply(c) \in Payloads /\ FixedReply(c).of = QueryOf(c)
      BY <1>2, <1>5, QueryOfFacts
    <2>2. \A n \in 1 .. Len(received) :
            QueryOf(received[n]) = QueryOf(c) /\ replies[n] # <<>> => replies[n] = <<FixedReply(c)>>
      BY <1>2, <1>5, FixedAlike
    <2>3. QED
      BY <1>1, <1>2, <1>5, <2>1, <2>2, ReplyRefines
  <1>6. QED
    BY <1>3, <1>4, <1>5

\* The cast of processArticles may end the process.
LEMMA FillArticlesRefines ==
  ASSUME PhoneInv, FillArticles
  PROVE  Service!Next \/ UNCHANGED Service!vars
  <1>1. UNCHANGED <<received, replies>> /\ ~crashed
        /\ crashed' = (NextCall.outcome.result = Nil) /\ crashed \in BOOLEAN
    BY DEF FillArticles, BodyRuns, watchVars, PhoneInv, OwnTypes
  <1>2. CASE NextCall.outcome.result = Nil
    BY <1>1, <1>2 DEF Service!Next, Service!End
  <1>3. CASE NextCall.outcome.result # Nil
    <2>1. crashed' = crashed
      BY <1>1, <1>3
    <2>2. QED
      BY <1>1, <2>1, Unseen
  <1>4. QED
    BY <1>2, <1>3

LEMMA StepRefines == IInv /\ [Next]_vars => [Service!Next]_(Service!vars)
  <1> SUFFICES ASSUME ApiP!IInv, PhoneInv, [Next]_vars
               PROVE  Service!Next \/ UNCHANGED Service!vars
    BY DEF IInv
  <1>1. CASE OpenHeadlines \/ OpenSources \/ \E id \in SourceIds : OpenArticles(id)
    <2>1. UNCHANGED <<received, replies, crashed>>
      BY <1>1 DEF OpenHeadlines, OpenSources, OpenArticles, Opened, watchVars
    <2>2. QED
      BY <2>1, Unseen
  <1>2. ASSUME NEW c \in Contents, ReceiveMessage(c)
        PROVE  Service!Next
    <2>1. Service!Receive(QueryOf(c)) /\ QueryOf(c) \in Questions
      BY <1>2, ReceiveRefines DEF PhoneInv, Questions
    <2>2. QED
      BY <2>1 DEF Service!Next
  <1>3. ASSUME NEW r \in Api!Requests, NEW a \in Api!Answers, FinishDownload(r, a)
        PROVE  UNCHANGED Service!vars
    BY <1>3, Unseen DEF FinishDownload, watchVars
  <1>4. CASE RunBlock
    BY <1>4, Unseen DEF RunBlock, watchVars
  <1>5. CASE FillSources
    BY <1>5, Unseen DEF FillSources, watchVars
  <1>6. CASE UNCHANGED vars
    BY <1>6, Unseen DEF vars, watchVars
  <1>7. QED
    BY <1>1, <1>2, <1>3, <1>4, <1>5, <1>6, ImageRefines, HandleRefines,
       FillArticlesRefines, SendReplyRefines
    DEF Next, MainThread

LEMMA InitRefines == Init => Service!Init
  <1> SUFFICES ASSUME Init PROVE Service!Init
    OBVIOUS
  <1>1. received = <<>> /\ replies = [m \in Messages |-> <<>>] /\ crashed = FALSE
    BY DEF Init
  <1>2. QuestionsNow = <<>>
    BY <1>1 DEF QuestionsNow
  <1>3. QED
    BY <1>1, <1>2 DEF Service!Init, QuestionsNow, Messages

\* Whatever the views and the watch share, a message is replied to once at
\* most, with an answer to its question, and to equal questions the phone says
\* the same for as long as it lives (WatchServer.swift and NewsApi.swift).
THEOREM Implements == Spec => ImplementsService
  BY StepRefines, InitRefines, Invariance, PTL DEF Spec, ImplementsService, Service!Spec
=============================================================================
