--------------------------- MODULE WatchApp_proofs ---------------------------
(***************************************************************************)
(* Proofs about WatchApp for any number of pages, calls and callbacks.     *)
(* What is proved of AsyncRequest is instantiated for the watch's requests.*)
(***************************************************************************)
EXTENDS WatchApp, TLAPS, SequenceTheorems

AsyncP == INSTANCE AsyncRequest_proofs WITH
  Requests <- 1 .. MaxCalls + 1, Outcomes <- Results \cup {Nil}, NoOutcome <- Nil,
  Work <- {"activation"}, MaxCallbacks <- MaxWaits, MaxQueue <- MaxWaits + MaxCalls + 2

-----------------------------------------------------------------------------
(* The invariant.                                                          *)

Consumers == [to : {"send", "fill"}, call : Nat] \cup [to : {"page"}, call : Nat, page : Nat]

\* A callback that sends waits for the session, the others for their call, and
\* the calls of those that send are in order.
ConsumersMatch ==
  /\ consumer \in Seq(Consumers)
  /\ Len(consumer) = Len(registered)
  /\ \A k \in 1 .. Len(consumer) :
       /\ consumer[k].call \in 1 .. Len(calls)
       /\ registered[k] = IF consumer[k].to = "send" THEN Session
                          ELSE RequestOf(consumer[k].call)
  /\ \A j, k \in 1 .. Len(consumer) :
       j < k /\ consumer[j].to = "send" /\ consumer[k].to = "send"
         => consumer[j].call < consumer[k].call

\* What the main thread has to do before its next block.
DueOK ==
  \/ due = <<>> \/ due = <<Activation>>
  \/ \E n \in 1 .. Len(calls) : due = <<Fill(n)>>

IsSent(n) == \E i \in 1 .. Len(sent) : sent[i] = n

\* The end of the activation is in one block, or due, or handled.
ActivatedOnce ==
  /\ due = <<Activation>> => session = "activated"
  /\ \A i \in 1 .. Len(mainQueue) : mainQueue[i].op = "other" =>
       /\ session = "activated" /\ due # <<Activation>>
       /\ \A j \in 1 .. Len(mainQueue) : mainQueue[j].op = "other" => i = j

\* A request has its first and only result, or it is on its way, or nothing
\* was sent for it.
MayResolve(r) ==
  IF r = Session THEN session \in {"activating", "activated"}
  ELSE r - 1 \in flight \/ ~IsSent(r - 1)

ResultsOnTheirWay ==
  /\ \A r \in 1 .. MaxCalls + 1 : MayResolve(r) =>
       /\ pending[r] # Nil
       /\ \A i \in 1 .. Len(mainQueue) :
            mainQueue[i].op = "setResult" => mainQueue[i].req # r
  /\ \A i \in 1 .. Len(mainQueue) : mainQueue[i].op = "setResult" =>
       /\ pending[mainQueue[i].req] # Nil
       /\ \A j \in 1 .. Len(mainQueue) :
            mainQueue[j].op = "setResult" /\ mainQueue[j].req = mainQueue[i].req => i = j

\* Whoever was called was told what the request holds to this day.
ToldTheOutcome ==
  \A i \in 1 .. Len(called) : called[i].outcome = outcome[registered[called[i].cb]]

\* Every message was sent by a callback that has run.
SentHaveRun ==
  \A i \in 1 .. Len(sent) : \E j \in 1 .. ran : consumer[called[j].cb] = Send(sent[i])

\* The result of call n is in the main queue.
ResultQueued(n) ==
  \E i \in 1 .. Len(mainQueue) :
    mainQueue[i].op = "setResult" /\ mainQueue[i].req = RequestOf(n)

FlightIsSent == \A n \in flight : IsSent(n)

\* What concerns the queue, and what concerns the bodies of the callbacks.
Flow == Async!IInv /\ ConsumersMatch /\ ActivatedOnce /\ ResultsOnTheirWay /\ ToldTheOutcome

Bodies == SentHaveRun /\ SentInOrder /\ FlightIsSent /\ UnresolvedIsUnderWay

IInv == TypeOK /\ DueOK /\ Flow /\ Bodies

-----------------------------------------------------------------------------
(* The proofs about AsyncRequest, for the requests of the watch.           *)

LEMMA AsyncAssumptions == Nil \notin Seq(Nat \ {0}) /\ Nil \in Results \cup {Nil}
  BY NilAssumption

\* The two instances say the same.
LEMMA SameInvariant == AsyncP!IInv = Async!IInv /\ AsyncP!IInv' = Async!IInv'
  BY DEF AsyncP!IInv, Async!IInv, AsyncP!TypeOK, Async!TypeOK,
         AsyncP!NamesOK, Async!NamesOK,
         AsyncP!NoCallbackLost, Async!NoCallbackLost,
         AsyncP!QueueInOrder, Async!QueueInOrder,
         AsyncP!PendingInOrder, Async!PendingInOrder,
         AsyncP!CalledInOrder, Async!CalledInOrder,
         AsyncP!CalledBeforeQueued, Async!CalledBeforeQueued,
         AsyncP!CarriedFor, Async!CarriedFor,
         AsyncP!Callbacks, Async!Callbacks,
         AsyncP!Called, Async!Called, AsyncP!IsQueued, Async!IsQueued,
         AsyncP!IsPending, Async!IsPending,
         AsyncP!Blocks, Async!Blocks, AsyncP!Calls, Async!Calls

LEMMA SameSetResult ==
  ASSUME NEW r \in 1 .. MaxCalls + 1, NEW v \in Results \cup {Nil}
  PROVE  AsyncP!SetResult(r, v) = Async!SetResult(r, v)
  BY DEF AsyncP!SetResult, Async!SetResult, AsyncP!SetResultBlock, Async!SetResultBlock

LEMMA SameWithResult ==
  ASSUME NEW r \in 1 .. MaxCalls + 1
  PROVE  AsyncP!WithResult(r) = Async!WithResult(r)
  BY DEF AsyncP!WithResult, Async!WithResult, AsyncP!WithResultBlock, Async!WithResultBlock

LEMMA SameDispatchOther ==
  ASSUME NEW w \in {"activation"}
  PROVE  AsyncP!DispatchOther(w) = Async!DispatchOther(w)
  BY DEF AsyncP!DispatchOther, Async!DispatchOther, AsyncP!OtherBlock, Async!OtherBlock

LEMMA SameRunMain == AsyncP!RunMain = Async!RunMain
  <1>1. AsyncP!RunSetResult = Async!RunSetResult
    BY DEF AsyncP!RunSetResult, Async!RunSetResult, AsyncP!CallEach, Async!CallEach,
           AsyncP!NextBlockIs, Async!NextBlockIs, AsyncP!Call, Async!Call
  <1>2. AsyncP!RunWithResult = Async!RunWithResult
    BY DEF AsyncP!RunWithResult, Async!RunWithResult, AsyncP!CallBlock, Async!CallBlock,
           AsyncP!NextBlockIs, Async!NextBlockIs
  <1>3. AsyncP!RunCall = Async!RunCall
    BY DEF AsyncP!RunCall, Async!RunCall, AsyncP!NextBlockIs, Async!NextBlockIs,
           AsyncP!Call, Async!Call
  <1>4. AsyncP!RunOther = Async!RunOther
    BY DEF AsyncP!RunOther, Async!RunOther, AsyncP!NextBlockIs, Async!NextBlockIs
  <1>5. QED
    BY <1>1, <1>2, <1>3, <1>4 DEF AsyncP!RunMain, Async!RunMain

\* Every step of AsyncRequest keeps its invariant.
LEMMA AsyncNext ==
  ASSUME Async!IInv, AsyncP!Next
  PROVE  Async!IInv'
  BY AsyncAssumptions, SameInvariant, AsyncP!NextIInv

LEMMA AsyncSetResult ==
  ASSUME Async!IInv, NEW r \in 1 .. MaxCalls + 1, NEW v \in Results \cup {Nil},
         Async!SetResult(r, v)
  PROVE  Async!IInv'
  <1>1. AsyncP!Next
    BY SameSetResult DEF AsyncP!Next
  <1>2. QED
    BY <1>1, AsyncNext

LEMMA AsyncWithResult ==
  ASSUME Async!IInv, NEW r \in 1 .. MaxCalls + 1, Async!WithResult(r)
  PROVE  Async!IInv'
  <1>1. AsyncP!Next
    BY SameWithResult DEF AsyncP!Next
  <1>2. QED
    BY <1>1, AsyncNext

LEMMA AsyncDispatchOther ==
  ASSUME Async!IInv, NEW w \in {"activation"}, Async!DispatchOther(w)
  PROVE  Async!IInv'
  <1>1. AsyncP!Next
    BY SameDispatchOther DEF AsyncP!Next
  <1>2. QED
    BY <1>1, AsyncNext

LEMMA AsyncRunMain ==
  ASSUME Async!IInv, Async!RunMain
  PROVE  Async!IInv'
  <1>1. AsyncP!Next
    BY SameRunMain DEF AsyncP!Next
  <1>2. QED
    BY <1>1, AsyncNext

LEMMA AsyncUnchanged ==
  ASSUME Async!IInv, UNCHANGED asyncVars
  PROVE  Async!IInv'
  BY AsyncAssumptions, SameInvariant, AsyncP!NextIInv DEF AsyncP!vars, asyncVars

-----------------------------------------------------------------------------
(* What the steps do to the main queue.                                    *)

LEMMA Enqueued ==
  ASSUME Async!TypeOK, NEW b \in Async!Blocks, mainQueue' = Append(mainQueue, b)
  PROVE  /\ Len(mainQueue) \in Nat
         /\ mainQueue'[Len(mainQueue) + 1] = b
         /\ Len(mainQueue) + 1 \in 1 .. Len(mainQueue')
         /\ \A i \in 1 .. Len(mainQueue) :
              i \in 1 .. Len(mainQueue') /\ mainQueue'[i] = mainQueue[i]
         /\ \A i \in 1 .. Len(mainQueue') :
              i \in 1 .. Len(mainQueue) \/ i = Len(mainQueue) + 1
  <1>1. mainQueue \in Seq(Async!Blocks)
    BY DEF Async!TypeOK
  <1>2. /\ Len(mainQueue) \in Nat
        /\ Len(mainQueue') = Len(mainQueue) + 1
        /\ mainQueue'[Len(mainQueue) + 1] = b
        /\ \A i \in 1 .. Len(mainQueue) : mainQueue'[i] = mainQueue[i]
    BY <1>1, AppendProperties
  <1>3. QED
    BY ONLY <1>2

\* The oldest block has run and may have left a block of a callback.
LEMMA Dequeued ==
  ASSUME Async!TypeOK, mainQueue # <<>>,
         \/ mainQueue' = Tail(mainQueue)
         \/ \E b \in Async!Blocks : b.op = "call" /\ mainQueue' = Append(Tail(mainQueue), b)
  PROVE  /\ 1 \in 1 .. Len(mainQueue) /\ Head(mainQueue) = mainQueue[1]
         /\ \A i \in 1 .. Len(mainQueue') : mainQueue'[i].op # "call" =>
              /\ i + 1 \in 1 .. Len(mainQueue) /\ i + 1 # 1
              /\ mainQueue'[i] = mainQueue[i + 1]
         /\ \A i \in 1 .. Len(mainQueue) : i # 1 =>
              /\ i - 1 \in 1 .. Len(mainQueue')
              /\ mainQueue'[i - 1] = mainQueue[i]
  <1> DEFINE rest == Tail(mainQueue)
  <1>1. mainQueue \in Seq(Async!Blocks)
    BY DEF Async!TypeOK
  <1>2. /\ Len(mainQueue) \in Nat /\ Len(mainQueue) # 0
        /\ rest \in Seq(Async!Blocks)
        /\ Len(rest) = Len(mainQueue) - 1
        /\ \A i \in 1 .. Len(rest) : rest[i] = mainQueue[i + 1]
        /\ Head(mainQueue) = mainQueue[1]
    BY <1>1, EmptySeq, HeadTailProperties
  <1> HIDE DEF rest
  <1>3. /\ 1 \in 1 .. Len(mainQueue)
        /\ Len(rest) \in Nat
        /\ \A i \in 1 .. Len(rest) : i + 1 \in 1 .. Len(mainQueue) /\ i + 1 # 1
        /\ \A i \in 1 .. Len(mainQueue) : i # 1 =>
             /\ i - 1 \in 1 .. Len(rest)
             /\ rest[i - 1] = mainQueue[i]
    BY ONLY <1>2
  <1>4. CASE mainQueue' = rest
    BY <1>2, <1>3, <1>4
  <1>5. ASSUME NEW b \in Async!Blocks, b.op = "call", mainQueue' = Append(rest, b)
        PROVE  /\ \A i \in 1 .. Len(mainQueue') : mainQueue'[i].op # "call" =>
                    i \in 1 .. Len(rest) /\ mainQueue'[i] = rest[i]
               /\ \A i \in 1 .. Len(rest) :
                    i \in 1 .. Len(mainQueue') /\ mainQueue'[i] = rest[i]
    <2>1. /\ Len(mainQueue') = Len(rest) + 1
          /\ mainQueue'[Len(rest) + 1] = b
          /\ \A i \in 1 .. Len(rest) : mainQueue'[i] = rest[i]
      BY <1>2, <1>5, AppendProperties
    <2>2. /\ \A i \in 1 .. Len(mainQueue') : i \in 1 .. Len(rest) \/ i = Len(rest) + 1
          /\ \A i \in 1 .. Len(rest) : i \in 1 .. Len(mainQueue')
      BY ONLY <1>3, <2>1
    <2>3. QED
      BY <1>5, <2>1, <2>2
  <1>6. QED
    BY <1>2, <1>3, <1>4, <1>5 DEF rest

\* What Append does to a sequence.
LEMMA OneMore ==
  ASSUME NEW S, NEW s \in Seq(S), NEW e \in S, NEW t, t = Append(s, e)
  PROVE  /\ Len(s) \in Nat
         /\ t \in Seq(S)
         /\ Len(t) = Len(s) + 1
         /\ Len(s) + 1 \in 1 .. Len(t) /\ Len(s) + 1 \notin 1 .. Len(s)
         /\ t[Len(s) + 1] = e
         /\ \A i \in 1 .. Len(s) : i \in 1 .. Len(t) /\ i < Len(s) + 1 /\ t[i] = s[i]
         /\ \A i \in 1 .. Len(t) : i \in 1 .. Len(s) \/ i = Len(s) + 1
  <1>1. /\ Len(s) \in Nat
        /\ t \in Seq(S)
        /\ Len(t) = Len(s) + 1
        /\ t[Len(s) + 1] = e
        /\ \A i \in 1 .. Len(s) : t[i] = s[i]
    BY AppendProperties
  <1>2. QED
    BY ONLY <1>1

-----------------------------------------------------------------------------
(* The bodies of the callbacks.                                            *)

\* No body of a callback has run, or one that sends nothing.
RanOn ==
  \/ ran' = ran
  \/ ran < Len(called) /\ ran' = ran + 1 /\ NextConsumer.to # "send"

\* The names of the callbacks that were called.
LEMMA CalledNames ==
  ASSUME IInv
  PROVE  /\ \A i \in 1 .. Len(called) : called[i].cb \in 1 .. Len(consumer)
         /\ Len(called) \in Nat /\ ran \in Nat /\ ran <= Len(called)
         /\ Len(consumer) \in Nat /\ Len(calls) \in Nat
         /\ \A k \in 1 .. Len(consumer) : consumer[k] \in Consumers
  <1>1. \A i \in 1 .. Len(called) : called[i].cb \in 1 .. Len(registered)
    BY DEF IInv, Flow, Async!IInv, Async!NamesOK, Async!Callbacks
  <1>2. /\ consumer \in Seq(Consumers) /\ Len(consumer) = Len(registered)
        /\ called \in Seq(Async!Calls) /\ ran \in 0 .. Len(called)
        /\ calls \in Seq(Getters)
    BY DEF IInv, TypeOK, Async!TypeOK, Flow, ConsumersMatch
  <1>3. Len(called) \in Nat /\ Len(consumer) \in Nat /\ Len(calls) \in Nat
    BY <1>2
  <1>4. ran \in Nat /\ ran <= Len(called)
    BY ONLY <1>2, <1>3
  <1>5. QED
    BY <1>1, <1>2, <1>3, <1>4, ElementOfSeq

\* Every step but sendMessage.
LEMMA BodiesKept ==
  ASSUME IInv, RanOn, UNCHANGED sent,
         \A k \in 1 .. Len(consumer) : k \in 1 .. Len(consumer') /\ consumer'[k] = consumer[k],
         \A i \in 1 .. Len(called) : called'[i] = called[i],
         flight' \subseteq flight, dropped \subseteq dropped',
         \A n \in flight : n \in flight' \/ n \in dropped' \/ ResultQueued(n)',
         \A n \in 1 .. Len(calls) :
           /\ ResultQueued(n) => ResultQueued(n)' \/ pending'[RequestOf(n)] = Nil
           /\ pending[RequestOf(n)] = Nil => pending'[RequestOf(n)] = Nil,
         \A n \in 1 .. Len(calls') : n \notin 1 .. Len(calls) => UnderWay(n)'
  PROVE  Bodies'
  <1>1. SentHaveRun /\ SentInOrder /\ FlightIsSent /\ UnresolvedIsUnderWay
    BY DEF IInv, Bodies
  <1>2. /\ \A i \in 1 .. Len(called) : called[i].cb \in 1 .. Len(consumer)
        /\ Len(called) \in Nat /\ ran \in Nat /\ ran <= Len(called)
    BY CalledNames
  <1>3. /\ \A i \in 1 .. ran : i \in 1 .. ran' /\ i \in 1 .. Len(called)
        /\ \A i \in 1 .. ran' : i \in 1 .. Len(called)
        /\ \A i \in 1 .. ran' : i \in 1 .. ran \/ (i = ran + 1 /\ NextConsumer.to # "send")
    <2>1. CASE ran' = ran
      <3>1. \A i \in 1 .. ran : i \in 1 .. Len(called)
        BY ONLY <1>2
      <3>2. QED
        BY <2>1, <3>1
    <2>2. CASE ran < Len(called) /\ ran' = ran + 1 /\ NextConsumer.to # "send"
      <3>1. /\ \A i \in 1 .. ran : i \in 1 .. ran' /\ i \in 1 .. Len(called)
            /\ \A i \in 1 .. ran' : i \in 1 .. Len(called)
            /\ \A i \in 1 .. ran' : i \in 1 .. ran \/ i = ran + 1
        BY ONLY <1>2, <2>2
      <3>2. QED
        BY <2>2, <3>1
    <2>3. QED
      BY <2>1, <2>2 DEF RanOn
  <1>4. SentHaveRun'
    <2>1. ASSUME NEW i \in 1 .. Len(sent)
          PROVE  \E j \in 1 .. ran' : consumer'[called'[j].cb] = Send(sent[i])
      <3>1. PICK j \in 1 .. ran : consumer[called[j].cb] = Send(sent[i])
        BY <1>1 DEF SentHaveRun
      <3>2. j \in 1 .. Len(called) /\ j \in 1 .. ran'
        BY <1>3
      <3>3. called'[j] = called[j] /\ called[j].cb \in 1 .. Len(consumer)
        BY <1>2, <3>2
      <3>4. QED
        BY <3>1, <3>2, <3>3
    <2>2. sent' = sent
      OBVIOUS
    <2>3. QED
      BY <2>1, <2>2 DEF SentHaveRun, Send
  <1>5. SentInOrder' /\ FlightIsSent'
    <2>1. sent' = sent
      OBVIOUS
    <2>2. SentInOrder'
      BY <1>1, <2>1 DEF SentInOrder
    <2>3. FlightIsSent'
      BY <1>1, <2>1 DEF FlightIsSent, IsSent
    <2>4. QED
      BY <2>2, <2>3
  <1>6. ASSUME NEW n \in 1 .. Len(calls), UnderWay(n), pending'[RequestOf(n)] # Nil
        PROVE  UnderWay(n)' \/ n \in dropped'
    <2>1. CASE n \in flight
      BY <2>1 DEF UnderWay, ResultQueued
    <2>2. CASE ResultQueued(n)
      BY <1>6, <2>2 DEF UnderWay, ResultQueued
    <2>3. ASSUME NEW k \in 1 .. Len(consumer), consumer[k] = Send(n),
                 \A i \in 1 .. ran : called[i].cb # k
          PROVE  UnderWay(n)'
      <3>1. k \in 1 .. Len(consumer') /\ consumer'[k] = Send(n)
        BY <2>3 DEF Send
      <3>2. ASSUME NEW i \in 1 .. ran'
            PROVE  called'[i].cb # k
        <4>1. i \in 1 .. Len(called) /\ called'[i] = called[i]
          BY <1>3
        <4>2. CASE i \in 1 .. ran
          BY <2>3, <4>1, <4>2
        <4>3. CASE i = ran + 1 /\ NextConsumer.to # "send"
          BY <2>3, <4>1, <4>3 DEF NextConsumer, Send
        <4>4. QED
          BY <1>3, <4>2, <4>3
      <3>3. Send(n)' = Send(n)
        BY DEF Send
      <3>4. QED
        BY <3>1, <3>2, <3>3 DEF UnderWay
    <2>4. QED
      BY <1>6, <2>1, <2>2, <2>3 DEF UnderWay, ResultQueued
  <1>7. UnresolvedIsUnderWay'
    <2>1. ASSUME NEW n \in 1 .. Len(calls'), pending'[RequestOf(n)] # Nil
          PROVE  UnderWay(n)' \/ n \in dropped'
      <3>1. CASE n \in 1 .. Len(calls)
        <4>1. UnderWay(n) \/ n \in dropped
          BY <1>1, <2>1, <3>1 DEF UnresolvedIsUnderWay
        <4>2. QED
          BY <1>6, <2>1, <3>1, <4>1
      <3>2. CASE n \notin 1 .. Len(calls)
        BY <3>2
      <3>3. QED
        BY <3>1, <3>2
    <2>2. QED
      BY <2>1 DEF UnresolvedIsUnderWay, RequestOf
  <1>8. QED
    BY <1>4, <1>5, <1>7 DEF Bodies

-----------------------------------------------------------------------------
(* A withResult: by a getter on the session, or on the request of a call.  *)

\* The consumers after one more withResult.
LEMMA OneMoreConsumer ==
  ASSUME IInv, NEW r \in 1 .. MaxCalls + 1, NEW c \in Consumers,
         registered' = Append(registered, r), consumer' = Append(consumer, c),
         \/ r = Session /\ c = Send(Len(calls) + 1) /\ Len(calls') = Len(calls) + 1
         \/ /\ r = RequestOf(c.call) /\ c.to # "send" /\ c.call \in 1 .. Len(calls)
            /\ Len(calls') = Len(calls)
  PROVE  /\ ConsumersMatch'
         /\ Len(registered) + 1 \in 1 .. Len(consumer')
         /\ consumer'[Len(registered) + 1] = c
         /\ \A k \in 1 .. Len(consumer) :
              /\ k \in 1 .. Len(consumer') /\ k # Len(registered) + 1
              /\ consumer'[k] = consumer[k] /\ registered'[k] = registered[k]
  <1> DEFINE new == Len(registered) + 1
  <1>1. /\ consumer \in Seq(Consumers) /\ Len(consumer) = Len(registered)
        /\ registered \in Seq(1 .. MaxCalls + 1)
        /\ \A k \in 1 .. Len(consumer) :
             /\ consumer[k].call \in 1 .. Len(calls)
             /\ registered[k] = IF consumer[k].to = "send" THEN Session
                                ELSE RequestOf(consumer[k].call)
        /\ \A j, k \in 1 .. Len(consumer) :
             j < k /\ consumer[j].to = "send" /\ consumer[k].to = "send"
               => consumer[j].call < consumer[k].call
    BY DEF IInv, Flow, ConsumersMatch, Async!IInv, Async!TypeOK
  <1>2. Len(calls) \in Nat
    BY CalledNames
  <1>3. /\ Len(registered) \in Nat
        /\ Len(registered') = new
        /\ registered'[new] = r
        /\ \A k \in 1 .. Len(registered) : registered'[k] = registered[k]
    BY <1>1, OneMore
  <1>4. /\ consumer' \in Seq(Consumers)
        /\ Len(consumer') = new /\ new \in 1 .. Len(consumer')
        /\ consumer'[new] = c
        /\ \A k \in 1 .. Len(consumer) :
             k \in 1 .. Len(consumer') /\ k < new /\ consumer'[k] = consumer[k]
        /\ \A k \in 1 .. Len(consumer') : k \in 1 .. Len(consumer) \/ k = new
    BY <1>1, OneMore
  <1>5. c.call \in 1 .. Len(calls')
    BY <1>2 DEF Send
  <1>6. \A n \in 1 .. Len(calls) : n \in 1 .. Len(calls')
    BY <1>2
  <1>7. r = IF c.to = "send" THEN Session ELSE RequestOf(c.call)
    BY DEF Send
  <1>8. \A k \in 1 .. Len(consumer) :
          c.to = "send" /\ consumer[k].to = "send" => consumer[k].call < c.call
    <2>1. ASSUME NEW k \in 1 .. Len(consumer), c = Send(Len(calls) + 1)
          PROVE  consumer[k].call < c.call
      <3>1. consumer[k].call \in 1 .. Len(calls) /\ c.call = Len(calls) + 1
        BY <1>1, <2>1 DEF Send
      <3>2. QED
        BY ONLY <1>2, <3>1
    <2>2. QED
      BY <2>1
  <1> HIDE DEF new
  <1>9. \A j, k \in 1 .. Len(consumer') :
          j < k /\ consumer'[j].to = "send" /\ consumer'[k].to = "send"
            => consumer'[j].call < consumer'[k].call
    <2>1. \A j \in 1 .. Len(consumer') : ~(new < j)
      BY ONLY <1>3, <1>4 DEF new
    <2>2. QED
      BY <1>1, <1>4, <1>8, <2>1
  <1>10. \A k \in 1 .. Len(consumer') :
           /\ consumer'[k].call \in 1 .. Len(calls')
           /\ registered'[k] = IF consumer'[k].to = "send" THEN Session
                               ELSE RequestOf(consumer'[k].call)
    BY <1>1, <1>3, <1>4, <1>5, <1>6, <1>7
  <1>11. ConsumersMatch'
    BY <1>3, <1>4, <1>9, <1>10 DEF ConsumersMatch, RequestOf
  <1>12. \A k \in 1 .. Len(consumer) : k # new
    BY ONLY <1>1, <1>3 DEF new
  <1>13. QED
    BY <1>1, <1>3, <1>4, <1>11, <1>12 DEF new

LEMMA AskStep ==
  ASSUME IInv, NEW r \in 1 .. MaxCalls + 1, NEW c \in Consumers,
         Async!WithResult(r), consumer' = Append(consumer, c), RanOn,
         \/ r = Session /\ c = Send(Len(calls) + 1) /\ Len(calls') = Len(calls) + 1
         \/ /\ r = RequestOf(c.call) /\ c.to # "send" /\ c.call \in 1 .. Len(calls)
            /\ Len(calls') = Len(calls),
         UNCHANGED <<wireVars, session>>, due # <<Activation>>, due' # <<Activation>>
  PROVE  Flow' /\ Bodies'
  <1> DEFINE b == Async!WithResultBlock(r, Len(registered) + 1)
             new == Len(registered) + 1
  <1>1. /\ Async!IInv /\ Async!TypeOK /\ ConsumersMatch /\ ActivatedOnce
        /\ ResultsOnTheirWay /\ ToldTheOutcome
    BY DEF IInv, Flow, Async!IInv
  <1>2. /\ registered' = Append(registered, r)
        /\ mainQueue' = Append(mainQueue, b)
        /\ UNCHANGED <<pending, outcome, called>>
    BY DEF Async!WithResult
  <1>3. /\ ConsumersMatch'
        /\ new \in 1 .. Len(consumer') /\ consumer'[new] = c
        /\ \A k \in 1 .. Len(consumer) :
             /\ k \in 1 .. Len(consumer') /\ k # new
             /\ consumer'[k] = consumer[k] /\ registered'[k] = registered[k]
    BY <1>2, OneMoreConsumer
  <1>4. b \in Async!Blocks /\ b.op \notin {"setResult", "other"}
    <2>1. Len(registered) + 1 \in Nat \ {0}
      BY <1>1 DEF Async!TypeOK
    <2>2. QED
      BY <2>1 DEF Async!WithResultBlock, Async!Blocks
  <1> HIDE DEF b, new
  <1>5. /\ \A i \in 1 .. Len(mainQueue) :
             i \in 1 .. Len(mainQueue') /\ mainQueue'[i] = mainQueue[i]
        /\ \A i \in 1 .. Len(mainQueue') : mainQueue'[i].op \in {"setResult", "other"} =>
             i \in 1 .. Len(mainQueue) /\ mainQueue'[i] = mainQueue[i]
    BY <1>1, <1>2, <1>4, Enqueued
  <1>6. /\ \A i \in 1 .. Len(called) : called[i].cb \in 1 .. Len(consumer)
        /\ Len(called) \in Nat /\ ran \in Nat /\ ran <= Len(called)
        /\ Len(calls) \in Nat
    BY CalledNames
  <1>7. Async!IInv'
    BY <1>1, AsyncWithResult
  <1>8. ActivatedOnce'
    BY <1>1, <1>5 DEF ActivatedOnce, Activation
  <1>9. UNCHANGED <<sent, flight, dropped, session>>
    BY DEF wireVars
  <1>10. ResultsOnTheirWay'
    BY <1>1, <1>2, <1>5, <1>9 DEF ResultsOnTheirWay, MayResolve, IsSent, Session
  <1>11. ToldTheOutcome'
    BY <1>1, <1>2, <1>3, <1>6 DEF ToldTheOutcome
  <1>12. \A n \in 1 .. Len(calls) : ResultQueued(n) => ResultQueued(n)'
    BY <1>5 DEF ResultQueued, RequestOf
  <1>13. \A n \in 1 .. Len(calls') : n \notin 1 .. Len(calls) => UnderWay(n)'
    <2>1. ASSUME NEW n \in 1 .. Len(calls'), n \notin 1 .. Len(calls)
          PROVE  consumer'[new] = Send(n)
      <3>1. c = Send(Len(calls) + 1) /\ n = Len(calls) + 1
        <4>1. Len(calls') = Len(calls) + 1 /\ c = Send(Len(calls) + 1)
          BY <2>1
        <4>2. n = Len(calls) + 1
          BY <1>6, <2>1, <4>1
        <4>3. QED
          BY <4>1, <4>2
      <3>2. QED
        BY <1>3, <3>1
    <2>2. \A i \in 1 .. ran' : called'[i].cb # new
      <3>1. \A i \in 1 .. ran' : i \in 1 .. Len(called)
        <4>1. ran' \in Nat /\ ran' <= Len(called)
          BY <1>6 DEF RanOn
        <4>2. QED
          BY ONLY <1>6, <4>1
      <3>2. QED
        BY <1>2, <1>3, <1>6, <3>1
    <2>3. QED
      BY <1>3, <2>1, <2>2 DEF UnderWay, Send
  <1>14. Bodies'
    BY <1>2, <1>3, <1>9, <1>12, <1>13, BodiesKept
  <1>15. QED
    BY <1>3, <1>7, <1>8, <1>10, <1>11, <1>14 DEF Flow

-----------------------------------------------------------------------------
(* What other threads dispatch, and steps without any block.               *)

\* The only result of a request is dispatched: an answer of the phone, or the
\* session.
LEMMA ResultStep ==
  ASSUME IInv, NEW r \in 1 .. MaxCalls + 1, NEW v \in Results \cup {Nil},
         Async!SetResult(r, v), MayResolve(r), ~MayResolve(r)',
         \A s \in 1 .. MaxCalls + 1 : MayResolve(s)' => MayResolve(s),
         UNCHANGED <<calls, consumer, ran, sent, dropped>>,
         flight' \subseteq flight,
         \A n \in flight : n \in flight' \/ r = RequestOf(n),
         \/ UNCHANGED <<due, session>>
         \/ due = <<Activation>> /\ due' = <<>>
  PROVE  Flow' /\ Bodies'
  <1> DEFINE b == Async!SetResultBlock(r, v)
             last == Len(mainQueue) + 1
  <1>1. /\ Async!IInv /\ Async!TypeOK /\ ConsumersMatch /\ ActivatedOnce
        /\ ResultsOnTheirWay /\ ToldTheOutcome
    BY DEF IInv, Flow, Async!IInv
  <1>2. /\ mainQueue' = Append(mainQueue, b)
        /\ UNCHANGED <<pending, outcome, registered, called>>
    BY DEF Async!SetResult
  <1>3. /\ b \in Async!Blocks /\ b.op = "setResult" /\ b.req = r
    BY DEF Async!SetResultBlock, Async!Blocks
  <1> HIDE DEF b
  <1>4. /\ mainQueue'[last] = b /\ last \in 1 .. Len(mainQueue')
        /\ \A i \in 1 .. Len(mainQueue) :
             i \in 1 .. Len(mainQueue') /\ mainQueue'[i] = mainQueue[i]
        /\ \A i \in 1 .. Len(mainQueue') : i \in 1 .. Len(mainQueue) \/ i = last
    BY <1>1, <1>2, <1>3, Enqueued
  <1> HIDE DEF last
  <1>5. \A i \in 1 .. Len(mainQueue') : mainQueue'[i].op = "other" =>
          i \in 1 .. Len(mainQueue) /\ mainQueue'[i] = mainQueue[i]
    BY <1>3, <1>4
  <1>6. Async!IInv'
    BY <1>1, AsyncSetResult
  <1>7. ConsumersMatch' /\ ToldTheOutcome'
    BY <1>1, <1>2 DEF ConsumersMatch, ToldTheOutcome
  <1>8. ActivatedOnce'
    <2>1. CASE UNCHANGED <<due, session>>
      BY <1>1, <1>4, <1>5, <2>1 DEF ActivatedOnce, Activation
    <2>2. CASE due = <<Activation>> /\ due' = <<>>
      <3>1. due' # <<Activation>>
        BY <2>2
      <3>2. QED
        BY <1>1, <1>4, <1>5, <2>2, <3>1 DEF ActivatedOnce, Activation
    <2>3. QED
      BY <2>1, <2>2
  <1>9. ResultsOnTheirWay'
    <2>1. /\ pending[r] # Nil
          /\ \A i \in 1 .. Len(mainQueue) :
               mainQueue[i].op = "setResult" => mainQueue[i].req # r
      BY <1>1 DEF ResultsOnTheirWay
    <2>2. ASSUME NEW i \in 1 .. Len(mainQueue'), mainQueue'[i].op = "setResult"
          PROVE  /\ pending[mainQueue'[i].req] # Nil
                 /\ \A j \in 1 .. Len(mainQueue') :
                      mainQueue'[j].op = "setResult" /\ mainQueue'[j].req = mainQueue'[i].req
                        => i = j
      <3>1. CASE i = last
        BY <1>3, <1>4, <2>1, <3>1
      <3>2. CASE i \in 1 .. Len(mainQueue)
        <4>1. mainQueue'[i] = mainQueue[i]
          BY <1>4, <3>2
        <4>2. pending[mainQueue[i].req] # Nil /\ mainQueue[i].req # r
          BY <1>1, <2>1, <2>2, <3>2, <4>1 DEF ResultsOnTheirWay
        <4>3. \A j \in 1 .. Len(mainQueue') :
                mainQueue'[j].op = "setResult" /\ mainQueue'[j].req = mainQueue'[i].req
                  => i = j
          BY <1>1, <1>3, <1>4, <2>2, <3>2, <4>1, <4>2 DEF ResultsOnTheirWay
        <4>4. QED
          BY <4>1, <4>2, <4>3
      <3>3. QED
        BY <1>4, <3>1, <3>2
    <2>3. ASSUME NEW s \in 1 .. MaxCalls + 1, MayResolve(s)'
          PROVE  /\ pending[s] # Nil
                 /\ \A i \in 1 .. Len(mainQueue') :
                      mainQueue'[i].op = "setResult" => mainQueue'[i].req # s
      <3>1. MayResolve(s)
        BY <2>3
      <3>2. s # r
        BY <2>3 DEF MayResolve, IsSent
      <3>3. QED
        BY <1>1, <1>3, <1>4, <3>1, <3>2 DEF ResultsOnTheirWay
    <2>4. QED
      BY <1>2, <2>2, <2>3 DEF ResultsOnTheirWay
  <1>10. \A n \in 1 .. Len(calls) : ResultQueued(n) => ResultQueued(n)'
    BY <1>4 DEF ResultQueued, RequestOf
  <1>11. \A n \in flight : n \in flight' \/ ResultQueued(n)'
    BY <1>3, <1>4 DEF ResultQueued, RequestOf
  <1>12. RanOn
    BY DEF RanOn
  <1>13. Bodies'
    BY <1>2, <1>10, <1>11, <1>12, BodiesKept
  <1>14. QED
    BY <1>6, <1>7, <1>8, <1>9, <1>13 DEF Flow

\* The end of the activation is dispatched.
LEMMA ActivationCompletesStep ==
  ASSUME IInv, ActivationCompletes
  PROVE  Flow' /\ Bodies'
  <1> DEFINE b == Async!OtherBlock("activation")
             last == Len(mainQueue) + 1
  <1>1. /\ Async!IInv /\ Async!TypeOK /\ ConsumersMatch /\ ActivatedOnce
        /\ ResultsOnTheirWay /\ ToldTheOutcome
    BY DEF IInv, Flow, Async!IInv
  <1>2. /\ session = "activating" /\ session' = "activated"
        /\ Async!DispatchOther("activation")
        /\ UNCHANGED <<sent, flight, dropped, calls, consumer, due, ran>>
    BY DEF ActivationCompletes, wireVars
  <1>3. /\ mainQueue' = Append(mainQueue, b)
        /\ UNCHANGED <<pending, outcome, registered, called>>
    BY <1>2 DEF Async!DispatchOther
  <1>4. b \in Async!Blocks /\ b.op = "other"
    BY DEF Async!OtherBlock, Async!Blocks
  <1> HIDE DEF b
  <1>5. /\ mainQueue'[last] = b /\ last \in 1 .. Len(mainQueue')
        /\ \A i \in 1 .. Len(mainQueue) :
             i \in 1 .. Len(mainQueue') /\ mainQueue'[i] = mainQueue[i]
        /\ \A i \in 1 .. Len(mainQueue') : i \in 1 .. Len(mainQueue) \/ i = last
    BY <1>1, <1>3, <1>4, Enqueued
  <1> HIDE DEF last
  <1>6. Async!IInv'
    BY <1>1, <1>2, AsyncDispatchOther
  <1>7. ConsumersMatch' /\ ToldTheOutcome'
    BY <1>1, <1>2, <1>3 DEF ConsumersMatch, ToldTheOutcome
  <1>8. due # <<Activation>> /\ \A i \in 1 .. Len(mainQueue) : mainQueue[i].op # "other"
    BY <1>1, <1>2 DEF ActivatedOnce
  <1>9. ActivatedOnce'
    <2>1. due' # <<Activation>>'
      BY <1>2, <1>8 DEF Activation
    <2>2. \A i \in 1 .. Len(mainQueue') : mainQueue'[i].op = "other" => i = last
      BY <1>5, <1>8
    <2>3. QED
      BY <1>2, <2>1, <2>2 DEF ActivatedOnce
  <1>10. ResultsOnTheirWay'
    <2>1. \A i \in 1 .. Len(mainQueue') : mainQueue'[i].op = "setResult" =>
            i \in 1 .. Len(mainQueue) /\ mainQueue'[i] = mainQueue[i]
      BY <1>4, <1>5
    <2>2. QED
      BY <1>1, <1>2, <1>3, <2>1 DEF ResultsOnTheirWay, MayResolve, IsSent, Session
  <1>11. \A n \in 1 .. Len(calls) : ResultQueued(n) => ResultQueued(n)'
    BY <1>5 DEF ResultQueued, RequestOf
  <1>12. RanOn
    BY <1>2 DEF RanOn
  <1>13. Bodies'
    BY <1>2, <1>3, <1>11, <1>12, BodiesKept
  <1>14. QED
    BY <1>6, <1>7, <1>9, <1>10, <1>13 DEF Flow

\* No block comes or goes: a body that sends and asks nothing, a reply of no use,
\* the end of an activation that reached nobody.
LEMMA QuietStep ==
  ASSUME IInv, UNCHANGED <<asyncVars, calls, consumer, sent>>, RanOn,
         flight' \subseteq flight, dropped \subseteq dropped',
         \A n \in flight : n \in flight' \/ n \in dropped',
         \/ UNCHANGED <<due, session>>
         \/ due = <<Activation>> /\ due' = <<>> /\ session' \notin {"activating", "activated"}
  PROVE  Flow' /\ Bodies'
  <1>1. /\ Async!IInv /\ ConsumersMatch /\ ActivatedOnce /\ ResultsOnTheirWay /\ ToldTheOutcome
    BY DEF IInv, Flow
  <1>2. UNCHANGED <<mainQueue, pending, outcome, registered, called, calls, consumer, sent>>
    BY DEF asyncVars
  <1>3. Async!IInv'
    BY <1>1, AsyncUnchanged
  <1>4. ConsumersMatch' /\ ToldTheOutcome'
    BY <1>1, <1>2 DEF ConsumersMatch, ToldTheOutcome
  <1>5. ActivatedOnce'
    <2>1. CASE UNCHANGED <<due, session>>
      BY <1>1, <1>2, <2>1 DEF ActivatedOnce, Activation
    <2>2. CASE due = <<Activation>> /\ due' = <<>>
      <3>1. due' # <<Activation>>
        BY <2>2
      <3>2. QED
        BY <1>1, <1>2, <2>2, <3>1 DEF ActivatedOnce, Activation
    <2>3. QED
      BY <2>1, <2>2
  <1>6. ASSUME NEW s \in 1 .. MaxCalls + 1, MayResolve(s)'
        PROVE  MayResolve(s)
    <2>1. CASE s = Session
      <3>1. session' \in {"activating", "activated"}
        BY <1>6, <2>1 DEF MayResolve, Session
      <3>2. QED
        BY <2>1, <3>1 DEF MayResolve
    <2>2. CASE s # Session
      BY <1>2, <1>6, <2>2 DEF MayResolve, IsSent, Session
    <2>3. QED
      BY <2>1, <2>2
  <1>7. ResultsOnTheirWay'
    <2>1. ASSUME NEW s \in 1 .. MaxCalls + 1, MayResolve(s)'
          PROVE  /\ pending[s] # Nil
                 /\ \A i \in 1 .. Len(mainQueue) :
                      mainQueue[i].op = "setResult" => mainQueue[i].req # s
      BY <1>1, <1>6, <2>1 DEF ResultsOnTheirWay
    <2>2. QED
      BY <1>1, <1>2, <2>1 DEF ResultsOnTheirWay
  <1>8. \A n \in 1 .. Len(calls) : ResultQueued(n) => ResultQueued(n)'
    BY <1>2 DEF ResultQueued, RequestOf
  <1>9. Bodies'
    BY <1>2, <1>8, BodiesKept
  <1>10. QED
    BY <1>3, <1>4, <1>5, <1>7, <1>9 DEF Flow

-----------------------------------------------------------------------------
(* sendMessage.                                                            *)

\* The next message is of a later call than all that were sent.
LEMMA SendsTheNext ==
  ASSUME IInv, SendMessage
  PROVE  LET n == NextConsumer.call IN
         /\ n \in 1 .. Len(calls) /\ NextConsumer = Send(n)
         /\ ran < Len(called) /\ ran' = ran + 1
         /\ \A i \in 1 .. Len(sent) : sent[i] < n
  <1> DEFINE k == called[ran + 1].cb
             n == consumer[k].call
  <1>1. /\ \A i \in 1 .. Len(called) : called[i].cb \in 1 .. Len(consumer)
        /\ Len(called) \in Nat /\ ran \in Nat /\ ran <= Len(called)
        /\ \A c \in 1 .. Len(consumer) : consumer[c] \in Consumers
    BY CalledNames
  <1>2. ran < Len(called) /\ ran' = ran + 1 /\ consumer[k].to = "send"
    BY DEF SendMessage, BodyRuns, NextConsumer
  <1>3. /\ ran + 1 \in 1 .. Len(called)
        /\ \A j \in 1 .. ran : j \in 1 .. Len(called) /\ j < ran + 1
    BY ONLY <1>1, <1>2
  <1>4. k \in 1 .. Len(consumer) /\ consumer[k] \in Consumers
    BY <1>1, <1>3
  <1>5. consumer[k] = Send(n)
    BY <1>2, <1>4 DEF Consumers, Send
  <1>6. ConsumersMatch /\ Async!CalledInOrder /\ SentHaveRun
    BY DEF IInv, Flow, Bodies, Async!IInv
  <1>7. n \in 1 .. Len(calls)
    BY <1>4, <1>6 DEF ConsumersMatch
  <1>8. ASSUME NEW i \in 1 .. Len(sent)
        PROVE  sent[i] < n
    <2>1. PICK j \in 1 .. ran : consumer[called[j].cb] = Send(sent[i])
      BY <1>6 DEF SentHaveRun
    <2>2. j \in 1 .. Len(called) /\ j < ran + 1 /\ called[j].cb \in 1 .. Len(consumer)
      BY <1>1, <1>3
    <2>3. consumer[called[j].cb].to = "send" /\ consumer[called[j].cb].call = sent[i]
      BY <2>1 DEF Send
    <2>4. registered[called[j].cb] = Session /\ registered[k] = Session
      <3>1. \A c \in 1 .. Len(consumer) : consumer[c].to = "send" => registered[c] = Session
        BY <1>6 DEF ConsumersMatch
      <3>2. QED
        BY <1>2, <1>4, <2>2, <2>3, <3>1
    <2>5. called[j].cb < k
      BY <1>3, <1>6, <2>2, <2>4 DEF Async!CalledInOrder
    <2>6. QED
      BY <1>2, <1>4, <1>6, <2>2, <2>3, <2>5 DEF ConsumersMatch
  <1>9. QED
    BY <1>2, <1>5, <1>7, <1>8 DEF NextConsumer

LEMMA SendMessageStep ==
  ASSUME IInv, SendMessage
  PROVE  /\ Flow' /\ Bodies'
         /\ sent' \in Seq(1 .. Len(calls)) /\ flight' \subseteq 1 .. Len(calls)
  <1> DEFINE n == NextConsumer.call
             last == Len(sent) + 1
  <1>1. /\ n \in 1 .. Len(calls) /\ NextConsumer = Send(n)
        /\ ran < Len(called) /\ ran' = ran + 1
        /\ \A i \in 1 .. Len(sent) : sent[i] < n
    BY SendsTheNext
  <1>2. /\ sent' = Append(sent, n) /\ flight' = flight \cup {n}
        /\ UNCHANGED <<asyncVars, dropped, calls, consumer, due, session>>
    BY DEF SendMessage
  <1>3. UNCHANGED <<mainQueue, pending, outcome, registered, called>>
    BY <1>2 DEF asyncVars
  <1>4. /\ Async!IInv /\ ConsumersMatch /\ ActivatedOnce /\ ResultsOnTheirWay /\ ToldTheOutcome
        /\ SentHaveRun /\ SentInOrder /\ FlightIsSent /\ UnresolvedIsUnderWay
    BY DEF IInv, Flow, Bodies
  <1>5. sent \in Seq(1 .. Len(calls)) /\ flight \subseteq 1 .. Len(calls)
    BY DEF IInv, TypeOK
  <1>6. /\ Len(calls) \in Nat /\ Len(called) \in Nat /\ ran \in Nat
        /\ \A i \in 1 .. Len(called) : called[i].cb \in 1 .. Len(consumer)
    BY CalledNames
  <1> DEFINE e == called[ran + 1]
  <1>7. consumer[e.cb] = Send(n) /\ Send(n).call = n
    BY <1>1 DEF NextConsumer, Send
  <1> HIDE DEF n, e
  <1>8. /\ sent' \in Seq(1 .. Len(calls))
        /\ last \in 1 .. Len(sent') /\ sent'[last] = n /\ Len(sent) \in Nat
        /\ \A i \in 1 .. Len(sent) :
             i \in 1 .. Len(sent') /\ i < last /\ sent'[i] = sent[i]
        /\ \A i \in 1 .. Len(sent') : i \in 1 .. Len(sent) \/ i = last
    BY <1>1, <1>2, <1>5, OneMore
  <1>9. \A i, j \in 1 .. Len(sent') : i < j => i \in 1 .. Len(sent)
    <2>1. Len(sent') = Len(sent) + 1 /\ Len(sent) \in Nat
      BY <1>1, <1>2, <1>5, OneMore
    <2>2. QED
      BY ONLY <2>1
  <1> HIDE DEF last
  <1>10. ~IsSent(n)
    <2>1. ASSUME NEW i \in 1 .. Len(sent), sent[i] = n
          PROVE  FALSE
      <3>1. n < n /\ n \in Nat
        BY <1>1, <1>6, <2>1
      <3>2. QED
        BY ONLY <3>1
    <2>2. QED
      BY <2>1 DEF IsSent
  <1>11. \A m : IsSent(m)' <=> (IsSent(m) \/ m = n)
    BY <1>8 DEF IsSent
  <1>12. Async!IInv'
    BY <1>2, <1>4, AsyncUnchanged
  <1>13. ConsumersMatch' /\ ToldTheOutcome'
    BY <1>2, <1>3, <1>4 DEF ConsumersMatch, ToldTheOutcome
  <1>14. ActivatedOnce'
    BY <1>2, <1>3, <1>4 DEF ActivatedOnce, Activation
  <1>15. ResultsOnTheirWay'
    <2>1. ASSUME NEW s \in 1 .. MaxCalls + 1, MayResolve(s)'
          PROVE  MayResolve(s)
      <3>1. CASE s = Session
        BY <1>2, <2>1, <3>1 DEF MayResolve, Session
      <3>2. CASE s # Session
        <4>1. s - 1 \in flight' \/ ~IsSent(s - 1)'
          BY <2>1, <3>2 DEF MayResolve, Session
        <4>2. s - 1 \in flight \/ s - 1 = n \/ ~IsSent(s - 1)
          BY <1>2, <1>11, <4>1
        <4>3. QED
          BY <1>10, <3>2, <4>2 DEF MayResolve
      <3>3. QED
        BY <3>1, <3>2
    <2>2. QED
      BY <1>3, <1>4, <2>1 DEF ResultsOnTheirWay
  <1>16. SentInOrder'
    <2>1. ASSUME NEW i \in 1 .. Len(sent'), NEW j \in 1 .. Len(sent'), i < j
          PROVE  sent'[i] < sent'[j]
      <3>1. i \in 1 .. Len(sent) /\ sent'[i] = sent[i]
        BY <1>8, <1>9, <2>1
      <3>2. CASE j = last
        BY <1>1, <1>8, <3>1, <3>2
      <3>3. CASE j \in 1 .. Len(sent)
        BY <1>4, <1>8, <2>1, <3>1, <3>3 DEF SentInOrder
      <3>4. QED
        BY <1>8, <3>2, <3>3
    <2>2. QED
      BY <2>1 DEF SentInOrder
  <1>17. /\ ran + 1 \in 1 .. ran' /\ ran + 1 \in 1 .. Len(called)
         /\ \A j \in 1 .. ran : j \in 1 .. ran'
         /\ \A j \in 1 .. ran' : j \in 1 .. ran \/ j = ran + 1
    BY ONLY <1>1, <1>6
  <1>18. SentHaveRun'
    <2>1. ASSUME NEW i \in 1 .. Len(sent')
          PROVE  \E j \in 1 .. ran' : consumer[called[j].cb] = Send(sent'[i])
      <3>1. CASE i = last
        BY <1>7, <1>8, <1>17, <3>1 DEF e
      <3>2. CASE i \in 1 .. Len(sent)
        <4>1. PICK j \in 1 .. ran : consumer[called[j].cb] = Send(sent[i])
          BY <1>4, <3>2 DEF SentHaveRun
        <4>2. sent'[i] = sent[i] /\ j \in 1 .. ran'
          BY <1>8, <1>17, <3>2
        <4>3. QED
          BY <4>1, <4>2
      <3>3. QED
        BY <1>8, <3>1, <3>2
    <2>2. QED
      BY <1>2, <1>3, <2>1 DEF SentHaveRun, Send
  <1>19. FlightIsSent'
    BY <1>2, <1>4, <1>11 DEF FlightIsSent
  <1>20. UnresolvedIsUnderWay'
    <2>1. ASSUME NEW m \in 1 .. Len(calls), UnderWay(m)
          PROVE  UnderWay(m)'
      <3>1. CASE m = n
        BY <1>2, <3>1 DEF UnderWay
      <3>2. CASE m \in flight
        BY <1>2, <3>2 DEF UnderWay
      <3>3. CASE ResultQueued(m)
        BY <1>3, <3>3 DEF UnderWay, ResultQueued, RequestOf
      <3>4. ASSUME m # n, NEW k \in 1 .. Len(consumer), consumer[k] = Send(m),
                   \A i \in 1 .. ran : called[i].cb # k
            PROVE  UnderWay(m)'
        <4>1. e.cb # k
          BY <1>7, <3>4 DEF Send
        <4>2. \A i \in 1 .. ran' : called[i].cb # k
          BY <1>17, <3>4, <4>1 DEF e
        <4>3. QED
          BY <1>2, <1>3, <3>4, <4>2 DEF UnderWay, Send
      <3>5. QED
        BY <2>1, <3>1, <3>2, <3>3, <3>4 DEF UnderWay, ResultQueued
    <2>2. QED
      BY <1>2, <1>3, <1>4, <2>1 DEF UnresolvedIsUnderWay, RequestOf
  <1>21. flight' \subseteq 1 .. Len(calls)
    BY <1>1, <1>2, <1>5
  <1>22. QED
    BY <1>8, <1>12, <1>13, <1>14, <1>15, <1>16, <1>18, <1>19, <1>20, <1>21
    DEF Flow, Bodies

-----------------------------------------------------------------------------
(* The main thread runs a block.                                           *)

\* What BodiesKept asks of a block that runs.
ResultsKept ==
  /\ Len(called) <= Len(called')
  /\ \A i \in 1 .. Len(called) : called'[i] = called[i]
  /\ \A n \in 1 .. Len(calls) :
       /\ ResultQueued(n) => ResultQueued(n)' \/ pending'[RequestOf(n)] = Nil
       /\ pending[RequestOf(n)] = Nil => pending'[RequestOf(n)] = Nil

\* The queue after any block.
LEMMA AnyBlockRuns ==
  ASSUME IInv, Async!RunMain
  PROVE  /\ 1 \in 1 .. Len(mainQueue) /\ Head(mainQueue) = mainQueue[1]
         /\ Head(mainQueue) \in Async!Blocks
         /\ \A i \in 1 .. Len(mainQueue') : mainQueue'[i].op # "call" =>
              /\ i + 1 \in 1 .. Len(mainQueue) /\ i + 1 # 1
              /\ mainQueue'[i] = mainQueue[i + 1]
         /\ \A i \in 1 .. Len(mainQueue) : i # 1 =>
              /\ i - 1 \in 1 .. Len(mainQueue')
              /\ mainQueue'[i - 1] = mainQueue[i]
         /\ \A i, j \in 1 .. Len(mainQueue') : i + 1 = j + 1 => i = j
  <1> DEFINE b == Head(mainQueue)
             c == Async!CallBlock(b.req, b.cb)
  <1>1. /\ mainQueue # <<>>
        /\ \/ mainQueue' = Tail(mainQueue)
           \/ b.op = "withResult" /\ mainQueue' = Append(Tail(mainQueue), c)
    BY DEF Async!RunMain, Async!RunSetResult, Async!RunWithResult, Async!RunCall,
           Async!RunOther, Async!NextBlockIs
  <1>2. Async!TypeOK /\ mainQueue \in Seq(Async!Blocks)
    BY DEF IInv, Flow, Async!IInv, Async!TypeOK
  <1>3. b \in Async!Blocks
    BY <1>1, <1>2
  <1>4. b.op = "withResult" => c \in Async!Blocks /\ c.op = "call"
    BY <1>3 DEF Async!Blocks, Async!CallBlock
  <1> HIDE DEF c
  <1>5. \A i, j \in 1 .. Len(mainQueue') : i + 1 = j + 1 => i = j
    OBVIOUS
  <1>6. QED
    BY <1>1, <1>2, <1>3, <1>4, <1>5, Dequeued

\* A block that brings no result.
LEMMA NoResultRuns ==
  ASSUME IInv, Async!RunMain, Head(mainQueue).op # "setResult",
         UNCHANGED <<wireVars, session>>,
         \A r \in 1 .. MaxCalls + 1 : (pending'[r] = Nil) = (pending[r] = Nil)
  PROVE  /\ ResultsOnTheirWay'
         /\ \A n \in 1 .. Len(calls) :
              /\ ResultQueued(n) => ResultQueued(n)'
              /\ pending[RequestOf(n)] = Nil => pending'[RequestOf(n)] = Nil
  <1>1. /\ 1 \in 1 .. Len(mainQueue) /\ Head(mainQueue) = mainQueue[1]
        /\ \A i \in 1 .. Len(mainQueue') : mainQueue'[i].op = "setResult" =>
             /\ i + 1 \in 1 .. Len(mainQueue)
             /\ mainQueue'[i] = mainQueue[i + 1]
        /\ \A i \in 1 .. Len(mainQueue) : i # 1 =>
             /\ i - 1 \in 1 .. Len(mainQueue')
             /\ mainQueue'[i - 1] = mainQueue[i]
        /\ \A i, j \in 1 .. Len(mainQueue') : i + 1 = j + 1 => i = j
    BY AnyBlockRuns
  <1>2. ResultsOnTheirWay /\ mainQueue \in Seq(Async!Blocks)
    BY DEF IInv, Flow, Async!IInv, Async!TypeOK
  <1>3. UNCHANGED <<sent, flight, session>>
    BY DEF wireVars
  <1>4. \A r \in 1 .. MaxCalls + 1 : MayResolve(r)' => MayResolve(r)
    BY <1>3 DEF MayResolve, IsSent, Session
  <1>5. ASSUME NEW i \in 1 .. Len(mainQueue'), mainQueue'[i].op = "setResult"
        PROVE  /\ pending'[mainQueue'[i].req] # Nil
               /\ ~MayResolve(mainQueue'[i].req)
               /\ \A j \in 1 .. Len(mainQueue') :
                    mainQueue'[j].op = "setResult" /\ mainQueue'[j].req = mainQueue'[i].req
                      => i = j
    <2>1. i + 1 \in 1 .. Len(mainQueue) /\ mainQueue'[i] = mainQueue[i + 1]
      BY <1>1, <1>5
    <2>2. mainQueue'[i] \in Async!Blocks
      BY <1>2, <2>1, ElementOfSeq
    <2>3. mainQueue'[i].req \in 1 .. MaxCalls + 1
      BY <1>5, <2>2 DEF Async!Blocks
    <2>4. pending'[mainQueue'[i].req] # Nil /\ ~MayResolve(mainQueue'[i].req)
      BY <1>2, <1>5, <2>1, <2>3 DEF ResultsOnTheirWay
    <2>5. ASSUME NEW j \in 1 .. Len(mainQueue'),
                 mainQueue'[j].op = "setResult", mainQueue'[j].req = mainQueue'[i].req
          PROVE  i = j
      <3>1. j + 1 \in 1 .. Len(mainQueue) /\ mainQueue'[j] = mainQueue[j + 1]
        BY <1>1, <2>5
      <3>2. i + 1 = j + 1
        BY <1>2, <1>5, <2>1, <2>5, <3>1 DEF ResultsOnTheirWay
      <3>3. QED
        BY <1>1, <3>2
    <2>6. QED
      BY <2>4, <2>5
  <1>6. \A r \in 1 .. MaxCalls + 1 : MayResolve(r)' => pending'[r] # Nil
    BY <1>2, <1>4 DEF ResultsOnTheirWay
  <1>7. ResultsOnTheirWay'
    BY <1>4, <1>5, <1>6 DEF ResultsOnTheirWay
  <1>8. \A n \in 1 .. Len(calls) : ResultQueued(n) => ResultQueued(n)'
    BY <1>1 DEF ResultQueued, RequestOf
  <1>9. \A n \in 1 .. Len(calls) : RequestOf(n) \in 1 .. MaxCalls + 1
    BY BoundsAssumption DEF IInv, TypeOK, RequestOf
  <1>10. QED
    BY <1>7, <1>8, <1>9

LEMMA RunWithResultStep ==
  ASSUME IInv, Async!RunWithResult, UNCHANGED <<wireVars, session>>
  PROVE  ResultsOnTheirWay' /\ ToldTheOutcome' /\ ResultsKept
  <1> DEFINE b == Head(mainQueue)
  <1>1. /\ Async!RunMain /\ b.op = "withResult"
        /\ UNCHANGED <<outcome, registered, called>>
        /\ \/ /\ pending[b.req] # Nil
              /\ pending' = [pending EXCEPT ![b.req] = Append(@, b.cb)]
           \/ UNCHANGED pending
    BY DEF Async!RunMain, Async!RunWithResult, Async!NextBlockIs
  <1>2. pending \in [1 .. MaxCalls + 1 -> Seq(Nat \ {0}) \cup {Nil}]
    BY DEF IInv, Flow, Async!IInv, Async!TypeOK
  <1>3. b.req \in 1 .. MaxCalls + 1 /\ b.cb \in Nat \ {0}
    BY <1>1, AnyBlockRuns DEF Async!Blocks
  <1> HIDE DEF b
  <1>4. \A r \in 1 .. MaxCalls + 1 : (pending'[r] = Nil) = (pending[r] = Nil)
    <2>1. CASE UNCHANGED pending
      BY <2>1
    <2>2. CASE /\ pending[b.req] # Nil
               /\ pending' = [pending EXCEPT ![b.req] = Append(@, b.cb)]
      <3>1. pending[b.req] \in Seq(Nat \ {0})
        BY <1>2, <1>3, <2>2
      <3>2. Append(pending[b.req], b.cb) \in Seq(Nat \ {0})
        BY <1>3, <3>1, AppendProperties
      <3>3. pending'[b.req] # Nil
        BY <1>2, <1>3, <2>2, <3>2, NilAssumption
      <3>4. QED
        BY <1>2, <2>2, <3>3
    <2>3. QED
      BY <1>1, <2>1, <2>2
  <1>5. /\ ResultsOnTheirWay'
        /\ \A n \in 1 .. Len(calls) :
             /\ ResultQueued(n) => ResultQueued(n)'
             /\ pending[RequestOf(n)] = Nil => pending'[RequestOf(n)] = Nil
    BY <1>1, <1>4, NoResultRuns DEF b
  <1>6. ToldTheOutcome'
    BY <1>1 DEF IInv, Flow, ToldTheOutcome
  <1>7. Len(called) <= Len(called')
    BY <1>1, CalledNames
  <1>8. QED
    BY <1>1, <1>5, <1>6, <1>7 DEF ResultsKept

LEMMA RunOtherStep ==
  ASSUME IInv, Async!RunOther, UNCHANGED <<wireVars, session>>
  PROVE  ResultsOnTheirWay' /\ ToldTheOutcome' /\ ResultsKept
  <1>1. /\ Async!RunMain /\ Head(mainQueue).op = "other"
        /\ UNCHANGED <<pending, outcome, registered, called>>
    BY DEF Async!RunMain, Async!RunOther, Async!NextBlockIs
  <1>2. /\ ResultsOnTheirWay'
        /\ \A n \in 1 .. Len(calls) :
             /\ ResultQueued(n) => ResultQueued(n)'
             /\ pending[RequestOf(n)] = Nil => pending'[RequestOf(n)] = Nil
    BY <1>1, NoResultRuns
  <1>3. ToldTheOutcome'
    BY <1>1 DEF IInv, Flow, ToldTheOutcome
  <1>4. Len(called) <= Len(called')
    BY <1>1, CalledNames
  <1>5. QED
    BY <1>1, <1>2, <1>3, <1>4 DEF ResultsKept

LEMMA RunCallStep ==
  ASSUME IInv, Async!RunCall, UNCHANGED <<wireVars, session>>
  PROVE  ResultsOnTheirWay' /\ ToldTheOutcome' /\ ResultsKept
  <1> DEFINE b == Head(mainQueue)
             c == Async!Call(b.cb, outcome[b.req])
  <1>1. /\ Async!RunMain /\ b.op = "call"
        /\ called' = Append(called, c)
        /\ UNCHANGED <<pending, outcome, registered>>
    BY DEF Async!RunMain, Async!RunCall, Async!NextBlockIs
  <1>2. /\ ResultsOnTheirWay'
        /\ \A n \in 1 .. Len(calls) :
             /\ ResultQueued(n) => ResultQueued(n)'
             /\ pending[RequestOf(n)] = Nil => pending'[RequestOf(n)] = Nil
    BY <1>1, NoResultRuns
  <1>3. /\ Async!NamesOK /\ ToldTheOutcome /\ called \in Seq(Async!Calls)
        /\ outcome \in [1 .. MaxCalls + 1 -> Results \cup {Nil}]
    BY DEF IInv, Flow, Async!IInv, Async!TypeOK
  <1>4. b \in Async!Blocks /\ b = mainQueue[1] /\ 1 \in 1 .. Len(mainQueue)
    BY <1>1, AnyBlockRuns
  <1>5. b.req \in 1 .. MaxCalls + 1 /\ b.cb \in Nat \ {0}
    BY <1>1, <1>4 DEF Async!Blocks
  <1>6. registered[b.cb] = b.req
    BY <1>1, <1>3, <1>4, <1>5 DEF Async!NamesOK, Async!CarriedFor, Async!Callbacks
  <1>7. c.cb = b.cb /\ c.outcome = outcome[b.req] /\ c \in Async!Calls
    BY <1>3, <1>5 DEF Async!Call, Async!Calls
  <1> HIDE DEF b, c
  <1>8. /\ Len(called) \in Nat /\ Len(called') = Len(called) + 1
        /\ called'[Len(called) + 1] = c
        /\ \A i \in 1 .. Len(called) : called'[i] = called[i]
        /\ \A i \in 1 .. Len(called') : i \in 1 .. Len(called) \/ i = Len(called) + 1
    BY <1>1, <1>3, <1>7, OneMore
  <1>9. ToldTheOutcome'
    BY <1>1, <1>3, <1>6, <1>7, <1>8 DEF ToldTheOutcome
  <1>10. Len(called) <= Len(called')
    BY ONLY <1>8
  <1>11. QED
    BY <1>2, <1>8, <1>9, <1>10 DEF ResultsKept

LEMMA FunctionIsSeq ==
  ASSUME NEW S, NEW n \in Nat, NEW f \in [1 .. n -> S]
  PROVE  f \in Seq(S) /\ Len(f) = n
  <1>1. f \in Seq(S)
    BY SeqDef
  <1>2. QED
    BY <1>1, LenProperties

\* The callbacks that wait are called, one after the other.
LEMMA CallsAppended ==
  ASSUME called \in Seq(Async!Calls), NEW list \in Seq(Nat \ {0}),
         NEW v \in Results \cup {Nil}, called' = called \o Async!CallEach(list, v)
  PROVE  /\ Len(called) <= Len(called')
         /\ \A i \in 1 .. Len(called) : called'[i] = called[i]
         /\ \A i \in 1 .. Len(called') :
              \/ i \in 1 .. Len(called) /\ called'[i] = called[i]
              \/ \E k \in 1 .. Len(list) : called'[i].cb = list[k] /\ called'[i].outcome = v
  <1> DEFINE more == Async!CallEach(list, v)
  <1>1. /\ more \in Seq(Async!Calls)
        /\ Len(more) = Len(list)
        /\ \A i \in 1 .. Len(list) : more[i].cb = list[i] /\ more[i].outcome = v
    <2>1. /\ more = [i \in 1 .. Len(list) |-> Async!Call(list[i], v)]
          /\ Len(list) \in Nat
      BY DEF Async!CallEach
    <2>2. \A i \in 1 .. Len(list) :
            /\ Async!Call(list[i], v) \in Async!Calls
            /\ Async!Call(list[i], v).cb = list[i]
            /\ Async!Call(list[i], v).outcome = v
      BY ElementOfSeq DEF Async!Call, Async!Calls
    <2> HIDE DEF more
    <2>3. more \in [1 .. Len(list) -> Async!Calls]
      BY <2>1, <2>2
    <2>4. more \in Seq(Async!Calls) /\ Len(more) = Len(list)
      BY <2>1, <2>3, FunctionIsSeq
    <2>5. QED
      BY <2>1, <2>2, <2>4
  <1> HIDE DEF more
  <1>2. /\ Len(called \o more) = Len(called) + Len(more)
        /\ \A i \in 1 .. Len(called) + Len(more) :
             (called \o more)[i] =
                IF i <= Len(called) THEN called[i] ELSE more[i - Len(called)]
    <2>1. called \in Seq(Async!Calls) /\ more \in Seq(Async!Calls)
      BY <1>1
    <2>2. QED
      BY ONLY <2>1, ConcatProperties
  <1>3. /\ Len(called) \in Nat /\ Len(more) \in Nat
        /\ Len(called') = Len(called) + Len(more)
        /\ \A i \in 1 .. Len(called) + Len(more) :
             called'[i] = IF i <= Len(called) THEN called[i] ELSE more[i - Len(called)]
    <2>1. called' = called \o more /\ Len(called) \in Nat /\ Len(more) \in Nat
      BY <1>1 DEF more
    <2>2. QED
      BY <1>2, <2>1
  <1>4. /\ Len(called) <= Len(called')
        /\ \A i \in 1 .. Len(called) : called'[i] = called[i]
        /\ \A i \in 1 .. Len(called') :
             \/ i \in 1 .. Len(called) /\ called'[i] = called[i]
             \/ i - Len(called) \in 1 .. Len(more) /\ called'[i] = more[i - Len(called)]
    BY ONLY <1>3
  <1>5. QED
    BY <1>1, <1>4

\* A result arrives: it is the only one of its request, so the callbacks that
\* wait are called with it and no one was told another.
LEMMA RunSetResultStep ==
  ASSUME IInv, Async!RunSetResult, UNCHANGED <<wireVars, session>>
  PROVE  ResultsOnTheirWay' /\ ToldTheOutcome' /\ ResultsKept
  <1> DEFINE b == Head(mainQueue)
             r == b.req
             v == b.outcome
             list == pending[r]
  <1>1. /\ Async!RunMain /\ b.op = "setResult"
        /\ outcome' = [outcome EXCEPT ![r] = v]
        /\ registered' = registered
        /\ \/ pending[r] = Nil
           \/ /\ called' = called \o Async!CallEach(list, v)
              /\ pending' = [pending EXCEPT ![r] = Nil]
    BY DEF Async!RunMain, Async!RunSetResult, Async!NextBlockIs
  <1>2. /\ Async!NamesOK /\ Async!PendingInOrder /\ ResultsOnTheirWay /\ ToldTheOutcome
        /\ mainQueue \in Seq(Async!Blocks) /\ called \in Seq(Async!Calls)
        /\ registered \in Seq(1 .. MaxCalls + 1)
        /\ outcome \in [1 .. MaxCalls + 1 -> Results \cup {Nil}]
        /\ pending \in [1 .. MaxCalls + 1 -> Seq(Nat \ {0}) \cup {Nil}]
    BY DEF IInv, Flow, Async!IInv, Async!TypeOK
  <1>3. /\ 1 \in 1 .. Len(mainQueue) /\ b = mainQueue[1] /\ b \in Async!Blocks
        /\ \A i \in 1 .. Len(mainQueue') : mainQueue'[i].op = "setResult" =>
             /\ i + 1 \in 1 .. Len(mainQueue) /\ i + 1 # 1
             /\ mainQueue'[i] = mainQueue[i + 1]
        /\ \A i \in 1 .. Len(mainQueue) : i # 1 =>
             /\ i - 1 \in 1 .. Len(mainQueue')
             /\ mainQueue'[i - 1] = mainQueue[i]
        /\ \A i, j \in 1 .. Len(mainQueue') : i + 1 = j + 1 => i = j
    BY <1>1, AnyBlockRuns
  <1>4. r \in 1 .. MaxCalls + 1 /\ v \in Results \cup {Nil}
    BY <1>1, <1>3 DEF Async!Blocks
  <1>5. /\ list # Nil /\ ~MayResolve(r)
        /\ \A i \in 1 .. Len(mainQueue) :
             mainQueue[i].op = "setResult" /\ mainQueue[i].req = r => i = 1
    <2>1. /\ pending[mainQueue[1].req] # Nil
          /\ \A j \in 1 .. Len(mainQueue) :
               mainQueue[j].op = "setResult" /\ mainQueue[j].req = mainQueue[1].req => 1 = j
      BY <1>1, <1>2, <1>3 DEF ResultsOnTheirWay
    <2>2. ~MayResolve(r)
      BY <1>1, <1>2, <1>3, <1>4 DEF ResultsOnTheirWay
    <2>3. QED
      BY <1>3, <2>1, <2>2
  <1>6. /\ called' = called \o Async!CallEach(list, v)
        /\ pending' = [pending EXCEPT ![r] = Nil]
    BY <1>1, <1>5
  <1>7. list \in Seq(Nat \ {0})
    BY <1>2, <1>4, <1>5
  <1>8. \A k \in 1 .. Len(list) : registered[list[k]] = r
    BY <1>2, <1>4, <1>5 DEF Async!NamesOK
  <1>9. \A i \in 1 .. Len(called) : registered[called[i].cb] # r
    BY <1>2, <1>4, <1>5 DEF Async!PendingInOrder
  <1>10. /\ outcome'[r] = v /\ pending'[r] = Nil
         /\ \A s \in 1 .. MaxCalls + 1 : s # r =>
              outcome'[s] = outcome[s] /\ pending'[s] = pending[s]
    BY <1>1, <1>2, <1>4, <1>6
  <1>11. \A i \in 1 .. Len(called) : registered[called[i].cb] \in 1 .. MaxCalls + 1
    BY <1>2, ElementOfSeq DEF Async!NamesOK, Async!Callbacks
  <1> HIDE DEF b, r, v, list
  <1>12. /\ Len(called) <= Len(called')
         /\ \A i \in 1 .. Len(called) : called'[i] = called[i]
         /\ \A i \in 1 .. Len(called') :
              \/ i \in 1 .. Len(called) /\ called'[i] = called[i]
              \/ \E k \in 1 .. Len(list) : called'[i].cb = list[k] /\ called'[i].outcome = v
    BY <1>2, <1>4, <1>6, <1>7, CallsAppended
  <1>13. ToldTheOutcome'
    <2>1. ASSUME NEW i \in 1 .. Len(called')
          PROVE  called'[i].outcome = outcome'[registered[called'[i].cb]]
      <3>1. CASE i \in 1 .. Len(called) /\ called'[i] = called[i]
        <4>1. called[i].outcome = outcome[registered[called[i].cb]]
          BY <1>2, <3>1 DEF ToldTheOutcome
        <4>2. outcome'[registered[called[i].cb]] = outcome[registered[called[i].cb]]
          BY <1>9, <1>10, <1>11, <3>1
        <4>3. QED
          BY <3>1, <4>1, <4>2
      <3>2. CASE \E k \in 1 .. Len(list) : called'[i].cb = list[k] /\ called'[i].outcome = v
        BY <1>8, <1>10, <3>2
      <3>3. QED
        BY <1>12, <3>1, <3>2
    <2>2. registered' = registered
      BY <1>1
    <2>3. QED
      BY <2>1, <2>2 DEF ToldTheOutcome
  <1>14. UNCHANGED <<sent, flight, session>>
    BY DEF wireVars
  <1>15. \A s \in 1 .. MaxCalls + 1 : MayResolve(s)' => MayResolve(s)
    BY <1>14 DEF MayResolve, IsSent, Session
  <1>16. ResultsOnTheirWay'
    <2>1. ASSUME NEW i \in 1 .. Len(mainQueue'), mainQueue'[i].op = "setResult"
          PROVE  /\ pending'[mainQueue'[i].req] # Nil
                 /\ ~MayResolve(mainQueue'[i].req)
                 /\ \A j \in 1 .. Len(mainQueue') :
                      mainQueue'[j].op = "setResult" /\ mainQueue'[j].req = mainQueue'[i].req
                        => i = j
      <3>1. /\ i + 1 \in 1 .. Len(mainQueue) /\ i + 1 # 1
            /\ mainQueue'[i] = mainQueue[i + 1]
        BY <1>3, <2>1
      <3>2. mainQueue'[i] \in Async!Blocks
        BY <1>2, <3>1, ElementOfSeq
      <3>3. mainQueue'[i].req \in 1 .. MaxCalls + 1
        BY <2>1, <3>2 DEF Async!Blocks
      <3>4. pending[mainQueue'[i].req] # Nil /\ ~MayResolve(mainQueue'[i].req)
        BY <1>2, <2>1, <3>1, <3>3 DEF ResultsOnTheirWay
      <3>5. mainQueue'[i].req # r
        BY <1>5, <2>1, <3>1
      <3>6. pending'[mainQueue'[i].req] # Nil
        BY <1>10, <3>3, <3>4, <3>5
      <3>7. ASSUME NEW j \in 1 .. Len(mainQueue'),
                   mainQueue'[j].op = "setResult", mainQueue'[j].req = mainQueue'[i].req
            PROVE  i = j
        <4>1. j + 1 \in 1 .. Len(mainQueue) /\ mainQueue'[j] = mainQueue[j + 1]
          BY <1>3, <3>7
        <4>2. i + 1 = j + 1
          BY <1>2, <2>1, <3>1, <3>7, <4>1 DEF ResultsOnTheirWay
        <4>3. QED
          BY <1>3, <4>2
      <3>8. QED
        BY <3>4, <3>6, <3>7
    <2>2. ASSUME NEW s \in 1 .. MaxCalls + 1, MayResolve(s)'
          PROVE  pending'[s] # Nil
      <3>1. MayResolve(s) /\ s # r
        BY <1>5, <1>15, <2>2
      <3>2. QED
        BY <1>2, <1>10, <3>1 DEF ResultsOnTheirWay
    <2>3. QED
      BY <1>15, <2>1, <2>2 DEF ResultsOnTheirWay
  <1>17. ASSUME NEW n \in 1 .. Len(calls)
         PROVE  /\ ResultQueued(n) => ResultQueued(n)' \/ pending'[RequestOf(n)] = Nil
                /\ pending[RequestOf(n)] = Nil => pending'[RequestOf(n)] = Nil
    <2>1. RequestOf(n) \in 1 .. MaxCalls + 1
      BY BoundsAssumption DEF IInv, TypeOK, RequestOf
    <2>2. CASE RequestOf(n) = r
      BY <1>10, <2>2
    <2>3. CASE RequestOf(n) # r
      <3>1. pending'[RequestOf(n)] = pending[RequestOf(n)]
        BY <1>10, <2>1, <2>3
      <3>2. ASSUME ResultQueued(n)
            PROVE  ResultQueued(n)'
        <4>1. PICK i \in 1 .. Len(mainQueue) :
                mainQueue[i].op = "setResult" /\ mainQueue[i].req = RequestOf(n)
          BY <3>2 DEF ResultQueued
        <4>2. i # 1
          BY <1>3, <2>3, <4>1 DEF r
        <4>3. i - 1 \in 1 .. Len(mainQueue') /\ mainQueue'[i - 1] = mainQueue[i]
          BY <1>3, <4>2
        <4>4. QED
          BY <4>1, <4>3 DEF ResultQueued, RequestOf
      <3>3. QED
        BY <3>1, <3>2
    <2>4. QED
      BY <2>2, <2>3
  <1>18. QED
    BY <1>12, <1>13, <1>16, <1>17 DEF ResultsKept

LEMMA RunBlockStep ==
  ASSUME IInv, RunBlock
  PROVE  /\ Flow' /\ Bodies'
         /\ due' = <<>> \/ due' = <<Activation>>
         /\ Len(called) \in Nat /\ Len(called') \in Nat /\ Len(called) <= Len(called')
  <1>1. /\ Async!RunMain /\ due = <<>> /\ ran = Len(called)
        /\ due' = IF Async!NextBlockIs("other") THEN <<Activation>> ELSE <<>>
        /\ UNCHANGED <<calls, consumer, ran, session, wireVars>>
    BY DEF RunBlock, MainIsFree
  <1>2. /\ Async!IInv /\ ConsumersMatch /\ ActivatedOnce
    BY DEF IInv, Flow
  <1>3. UNCHANGED <<sent, flight, dropped, session, calls, consumer>>
    BY <1>1 DEF wireVars
  <1>4. ResultsOnTheirWay' /\ ToldTheOutcome' /\ ResultsKept
    BY <1>1, RunSetResultStep, RunWithResultStep, RunCallStep, RunOtherStep
    DEF Async!RunMain
  <1>5. registered' = registered
    BY <1>1 DEF Async!RunMain, Async!RunSetResult, Async!RunWithResult, Async!RunCall,
                Async!RunOther
  <1>6. Async!IInv'
    BY <1>1, <1>2, AsyncRunMain
  <1>7. ConsumersMatch'
    BY <1>2, <1>3, <1>5 DEF ConsumersMatch
  <1>8. /\ 1 \in 1 .. Len(mainQueue) /\ Head(mainQueue) = mainQueue[1]
        /\ \A i \in 1 .. Len(mainQueue') : mainQueue'[i].op = "other" =>
             /\ i + 1 \in 1 .. Len(mainQueue) /\ i + 1 # 1
             /\ mainQueue'[i] = mainQueue[i + 1]
        /\ \A i, j \in 1 .. Len(mainQueue') : i + 1 = j + 1 => i = j
    BY <1>1, AnyBlockRuns
  <1>9. ActivatedOnce'
    <2>1. \A i \in 1 .. Len(mainQueue') : mainQueue'[i].op = "other" =>
            /\ session = "activated" /\ Head(mainQueue).op # "other"
            /\ \A j \in 1 .. Len(mainQueue') : mainQueue'[j].op = "other" => i = j
      BY <1>2, <1>8 DEF ActivatedOnce
    <2>2. CASE Async!NextBlockIs("other")
      <3>1. Head(mainQueue).op = "other" /\ session = "activated"
        BY <1>2, <1>8, <2>2 DEF ActivatedOnce, Async!NextBlockIs
      <3>2. QED
        BY <1>3, <2>1, <3>1 DEF ActivatedOnce
    <2>3. CASE ~Async!NextBlockIs("other")
      <3>1. due' # <<Activation>>' /\ due' # <<Activation>>
        BY <1>1, <2>3
      <3>2. QED
        BY <1>3, <2>1, <3>1 DEF ActivatedOnce
    <2>4. QED
      BY <2>2, <2>3
  <1>10. RanOn
    BY <1>1 DEF RanOn
  <1>11. Bodies'
    BY <1>3, <1>4, <1>10, BodiesKept DEF ResultsKept
  <1>12. Len(called) \in Nat /\ Len(called') \in Nat /\ Len(called) <= Len(called')
    <2>1. called \in Seq(Async!Calls) /\ called' \in Seq(Async!Calls)
      BY <1>2, <1>6 DEF Async!IInv, Async!TypeOK, Async!Calls
    <2>2. QED
      BY <1>4, <2>1 DEF ResultsKept
  <1>13. QED
    BY <1>1, <1>4, <1>6, <1>7, <1>9, <1>11, <1>12 DEF Flow

-----------------------------------------------------------------------------
(* The invariant, action by action.                                        *)

\* What TypeOK says of the variables of this module.
OwnTypes ==
  /\ calls \in Seq(Getters) /\ Len(calls) <= MaxCalls
  /\ ran \in 0 .. Len(called)
  /\ session \in {"activating", "activated", "reachable", "unreachable"}
  /\ sent \in Seq(1 .. Len(calls))
  /\ flight \subseteq 1 .. Len(calls) /\ dropped \subseteq 1 .. Len(calls)
  /\ pages \subseteq (1 .. Len(calls)) \X (1 .. Pages)
  /\ shown \subseteq {"sources", "articles"}
  /\ crashed \in {"no", "image", "page", "archive"}

LEMMA Together ==
  ASSUME Flow', Bodies', DueOK', OwnTypes'
  PROVE  IInv'
  <1>1. ConsumersMatch' /\ Async!TypeOK'
    BY DEF Flow, Async!IInv
  <1>2. ASSUME NEW k \in 1 .. Len(consumer')
        PROVE  /\ consumer'[k].to \in {"send", "fill", "page"}
               /\ consumer'[k].call \in 1 .. Len(calls')
    <2>1. consumer' \in Seq(Consumers) /\ consumer'[k].call \in 1 .. Len(calls')
      BY <1>1 DEF ConsumersMatch, Consumers
    <2>2. consumer'[k] \in Consumers
      BY <2>1, ElementOfSeq
    <2>3. QED
      BY <2>1, <2>2 DEF Consumers
  <1>3. Len(due') <= 1
    <2>1. ASSUME NEW e, due' = <<e>>
          PROVE  Len(due') <= 1
      BY <2>1
    <2>2. CASE due' = <<>>
      BY <2>2
    <2>3. QED
      BY <2>1, <2>2 DEF DueOK
  <1>4. Len(consumer') = Len(registered')
    BY <1>1 DEF ConsumersMatch
  <1>5. TypeOK'
    BY <1>1, <1>2, <1>3, <1>4 DEF TypeOK, OwnTypes
  <1>6. QED
    BY <1>5 DEF IInv

\* A longer list of calls.
LEMMA CallsGrow ==
  ASSUME IInv, RanOn, UNCHANGED <<called, wireVars, session>>,
         calls' \in Seq(Getters), Len(calls') = Len(calls) + 1, Len(calls') <= MaxCalls,
         \A p \in pages' : p \in pages \/ p \in (1 .. Len(calls')) \X (1 .. Pages),
         shown' = shown, crashed' = crashed
  PROVE  OwnTypes'
  <1>1. /\ Len(calls) \in Nat /\ Len(called) \in Nat /\ ran \in Nat /\ ran <= Len(called)
    BY CalledNames
  <1>2. 1 .. Len(calls) \subseteq 1 .. Len(calls')
    BY <1>1
  <1>3. ran' \in 0 .. Len(called')
    BY <1>1 DEF RanOn
  <1>4. UNCHANGED <<sent, flight, dropped>>
    BY DEF wireVars
  <1>5. /\ sent \in Seq(1 .. Len(calls))
        /\ flight \subseteq 1 .. Len(calls) /\ dropped \subseteq 1 .. Len(calls)
        /\ pages \subseteq (1 .. Len(calls)) \X (1 .. Pages)
        /\ shown \subseteq {"sources", "articles"}
        /\ crashed \in {"no", "image", "page", "archive"}
        /\ session \in {"activating", "activated", "reachable", "unreachable"}
    BY DEF IInv, TypeOK
  <1>6. sent' \in Seq(1 .. Len(calls'))
    BY <1>2, <1>4, <1>5, SeqDef
  <1>7. pages' \subseteq (1 .. Len(calls')) \X (1 .. Pages)
    BY <1>2, <1>5
  <1>8. QED
    BY <1>2, <1>3, <1>4, <1>5, <1>6, <1>7 DEF OwnTypes

\* A getter is called.
LEMMA GetStep ==
  ASSUME IInv, NEW getter \in Getters, NEW next, Get(getter, next), due = <<>>,
         next = <<>> \/ next = <<Fill(Len(calls) + 1)>>,
         RanOn, UNCHANGED <<wireVars, session>>
  PROVE  /\ Flow' /\ Bodies' /\ DueOK'
         /\ called' = called /\ calls' \in Seq(Getters)
         /\ Len(calls') = Len(calls) + 1 /\ Len(calls') <= MaxCalls
         /\ Len(calls') \in 1 .. Len(calls')
  <1> DEFINE n == Len(calls) + 1
             c == Send(n)
  <1>1. /\ Len(calls) < MaxCalls
        /\ calls' = Append(calls, getter)
        /\ Async!WithResult(Session)
        /\ consumer' = Append(consumer, c)
        /\ due' = next
    BY DEF Get
  <1>2. calls \in Seq(Getters) /\ Len(calls) \in Nat
    BY CalledNames DEF IInv, TypeOK
  <1>3. /\ calls' \in Seq(Getters) /\ Len(calls') = n /\ n \in 1 .. Len(calls')
    BY <1>1, <1>2, OneMore
  <1>4. Len(calls') <= MaxCalls
    BY <1>1, <1>2, <1>3, BoundsAssumption
  <1>5. c \in Consumers
    BY <1>2 DEF Send, Consumers
  <1>6. Session \in 1 .. MaxCalls + 1
    BY BoundsAssumption DEF Session
  <1>7. due # <<Activation>> /\ due' # <<Activation>>
    <2>1. Fill(n).to = "fill" /\ Activation.to = "activation"
      BY DEF Activation, Fill
    <2>2. Fill(n) # Activation
      BY <2>1
    <2>3. <<Fill(n)>> # <<Activation>>
      BY <2>2
    <2>4. \A e : <<>> # <<e>>
      OBVIOUS
    <2>5. QED
      BY <1>1, <2>3, <2>4
  <1>8. Flow' /\ Bodies'
    BY <1>1, <1>3, <1>5, <1>6, <1>7, AskStep
  <1>9. called' = called
    BY <1>1 DEF Async!WithResult
  <1>10. DueOK'
    BY <1>1, <1>3 DEF DueOK, Fill
  <1>11. QED
    BY <1>3, <1>4, <1>8, <1>9, <1>10

LEMMA OpensStep ==
  ASSUME IInv, NEW getter \in Getters, Opens(getter)
  PROVE  IInv'
  <1> DEFINE next == <<Fill(Len(calls) + 1)>>
  <1>1. /\ due = <<>> /\ Get(getter, next)
        /\ UNCHANGED <<wireVars, ran, session, pages, shown, crashed>>
    BY DEF Opens, MainIsFree
  <1>2. RanOn
    BY <1>1 DEF RanOn
  <1>3. /\ Flow' /\ Bodies' /\ DueOK'
        /\ called' = called /\ calls' \in Seq(Getters)
        /\ Len(calls') = Len(calls) + 1 /\ Len(calls') <= MaxCalls
    BY <1>1, <1>2, GetStep
  <1>4. OwnTypes'
    BY <1>1, <1>2, <1>3, CallsGrow
  <1>5. QED
    BY <1>3, <1>4, Together

LEMMA OpenHeadlinesStep ==
  ASSUME IInv, OpenHeadlines
  PROVE  IInv'
  <1>1. /\ due = <<>> /\ Get("headlines", <<>>) /\ "headlines" \in Getters
        /\ pages' = pages \cup {<<Len(calls) + 1, i>> : i \in 1 .. Pages}
        /\ UNCHANGED <<wireVars, ran, session, shown, crashed>>
    BY DEF OpenHeadlines, MainIsFree, Getters
  <1>2. RanOn
    BY <1>1 DEF RanOn
  <1>3. /\ Flow' /\ Bodies' /\ DueOK'
        /\ called' = called /\ calls' \in Seq(Getters)
        /\ Len(calls') = Len(calls) + 1 /\ Len(calls') <= MaxCalls
        /\ Len(calls') \in 1 .. Len(calls')
    BY <1>1, <1>2, GetStep
  <1>4. \A p \in pages' : p \in pages \/ p \in (1 .. Len(calls')) \X (1 .. Pages)
    BY <1>1, <1>3
  <1>5. OwnTypes'
    BY <1>1, <1>2, <1>3, <1>4, CallsGrow
  <1>6. QED
    BY <1>3, <1>5, Together

\* No getter is called.
LEMMA CallsStay ==
  ASSUME IInv, UNCHANGED <<calls, called>>, RanOn,
         session' \in {"activating", "activated", "reachable", "unreachable"},
         sent' \in Seq(1 .. Len(calls)),
         flight' \subseteq 1 .. Len(calls), dropped' \subseteq 1 .. Len(calls),
         pages' \subseteq pages, shown' \subseteq {"sources", "articles"},
         crashed' \in {"no", "image", "page", "archive"}
  PROVE  OwnTypes'
  <1>1. Len(called) \in Nat /\ ran \in Nat /\ ran <= Len(called)
    BY CalledNames
  <1>2. ran' \in 0 .. Len(called')
    BY <1>1 DEF RanOn
  <1>3. /\ calls \in Seq(Getters) /\ Len(calls) <= MaxCalls
        /\ pages \subseteq (1 .. Len(calls)) \X (1 .. Pages)
    BY DEF IInv, TypeOK
  <1>4. QED
    BY <1>2, <1>3 DEF OwnTypes

\* The caller of a getter waits for its request.
LEMMA WaitStep ==
  ASSUME IInv, NEW c \in Consumers, Wait(c), c.to # "send", c.call \in 1 .. Len(calls),
         UNCHANGED <<wireVars, calls, ran, session, shown, crashed>>, pages' \subseteq pages,
         due # <<Activation>>, due' = <<>>
  PROVE  IInv'
  <1>1. Async!WithResult(RequestOf(c.call)) /\ consumer' = Append(consumer, c)
    BY DEF Wait
  <1>2. RequestOf(c.call) \in 1 .. MaxCalls + 1
    BY BoundsAssumption DEF RequestOf, IInv, TypeOK
  <1>3. RanOn
    BY DEF RanOn
  <1>4. due' # <<Activation>>
    OBVIOUS
  <1>5. Flow' /\ Bodies'
    BY <1>1, <1>2, <1>3, <1>4, AskStep
  <1>6. called' = called /\ UNCHANGED <<sent, flight, dropped>>
    BY <1>1 DEF Async!WithResult, wireVars
  <1>7. OwnTypes'
    BY <1>3, <1>6, CallsStay DEF IInv, TypeOK
  <1>8. DueOK'
    BY DEF DueOK
  <1>9. QED
    BY <1>5, <1>7, <1>8, Together

LEMMA AwakePageStep ==
  ASSUME IInv, NEW n, NEW i, AwakePage(n, i)
  PROVE  IInv'
  <1> DEFINE c == Page(n, i)
  <1>1. /\ due = <<>> /\ <<n, i>> \in pages /\ pages' \subseteq pages /\ Wait(c)
        /\ UNCHANGED <<wireVars, calls, due, ran, session, shown, crashed>>
    BY DEF AwakePage, MainIsFree
  <1>2. n \in 1 .. Len(calls) /\ i \in 1 .. Pages
    BY <1>1 DEF IInv, TypeOK
  <1>3. n \in Nat /\ i \in Nat
    BY <1>2, PagesAssumption
  <1>4. c \in Consumers /\ c.to # "send" /\ c.call = n
    BY <1>3 DEF Page, Consumers
  <1>5. due # <<Activation>>
    BY <1>1
  <1> HIDE DEF c
  <1>6. QED
    BY <1>1, <1>2, <1>4, <1>5, WaitStep

LEMMA RunDueStep ==
  ASSUME IInv, RunDue
  PROVE  IInv'
  <1>1. /\ due # <<>> /\ due # <<Activation>> /\ Wait(Head(due)) /\ due' = Tail(due)
        /\ UNCHANGED <<wireVars, calls, ran, session, pages, shown, crashed>>
    BY DEF RunDue
  <1>2. PICK n \in 1 .. Len(calls) : due = <<Fill(n)>>
    BY <1>1 DEF IInv, DueOK
  <1> DEFINE c == Fill(n)
  <1>3. c \in Consumers /\ c.to # "send" /\ c.call = n
    <2>1. n \in Nat
      BY <1>2
    <2>2. QED
      BY <2>1 DEF Fill, Consumers
  <1>4. Head(due) = c /\ Tail(due) = <<>>
    BY <1>2
  <1> HIDE DEF c
  <1>5. QED
    BY <1>1, <1>2, <1>3, <1>4, WaitStep

LEMMA RunActivationStep ==
  ASSUME IInv, RunActivation
  PROVE  IInv'
  <1>1. /\ due = <<Activation>> /\ due' = <<>>
        /\ UNCHANGED <<wireVars, calls, consumer, ran, pages, shown, crashed>>
    BY DEF RunActivation
  <1>2. UNCHANGED <<sent, flight, dropped>> /\ RanOn /\ session = "activated"
    BY <1>1 DEF wireVars, RanOn, IInv, Flow, ActivatedOnce
  <1>3. CASE session' = "reachable" /\ Async!SetResult(Session, Result("session", 1))
    <2>1. Session \in 1 .. MaxCalls + 1 /\ Result("session", 1) \in Results
      BY BoundsAssumption DEF Session, Results
    <2>2. MayResolve(Session) /\ ~MayResolve(Session)'
      BY <1>2, <1>3 DEF MayResolve, Session
    <2>3. \A s \in 1 .. MaxCalls + 1 : MayResolve(s)' => MayResolve(s)
      BY <1>2 DEF MayResolve, IsSent, Session
    <2>4. Flow' /\ Bodies'
      BY <1>1, <1>2, <1>3, <2>1, <2>2, <2>3, ResultStep
    <2>5. called' = called
      BY <1>3 DEF Async!SetResult
    <2>6. OwnTypes'
      BY <1>1, <1>2, <1>3, <2>5, CallsStay DEF IInv, TypeOK
    <2>7. QED
      BY <1>1, <2>4, <2>6, Together DEF DueOK
  <1>4. CASE session' = "unreachable" /\ UNCHANGED asyncVars
    <2>1. Flow' /\ Bodies'
      BY <1>1, <1>2, <1>4, QuietStep
    <2>2. OwnTypes'
      BY <1>1, <1>2, <1>4, CallsStay DEF IInv, TypeOK, asyncVars
    <2>3. QED
      BY <1>1, <2>1, <2>2, Together DEF DueOK
  <1>5. QED
    BY <1>3, <1>4 DEF RunActivation

\* A handler sets the result: the error handler, or the reply handler.
LEMMA AnswerStep ==
  ASSUME IInv, NEW n \in 1 .. MaxCalls, NEW v \in Results \cup {Nil}, Answered(n),
         Async!SetResult(RequestOf(n), v), UNCHANGED dropped
  PROVE  IInv'
  <1>1. /\ n \in flight /\ flight' = flight \ {n}
        /\ UNCHANGED <<sent, calls, consumer, due, ran, session, pages, shown, crashed>>
    BY DEF Answered
  <1>2. RanOn /\ IsSent(n) /\ RequestOf(n) \in 1 .. MaxCalls + 1
    BY <1>1, BoundsAssumption DEF RanOn, IInv, Bodies, FlightIsSent, RequestOf
  <1>3. RequestOf(n) - 1 = n /\ RequestOf(n) # Session
    BY DEF RequestOf, Session
  <1>4. MayResolve(RequestOf(n)) /\ ~MayResolve(RequestOf(n))'
    <2>1. MayResolve(RequestOf(n))
      BY <1>1, <1>3 DEF MayResolve
    <2>2. MayResolve(RequestOf(n))' <=> n \in flight' \/ ~IsSent(n)'
      BY <1>3 DEF MayResolve, RequestOf, Session, IsSent
    <2>3. IsSent(n)' <=> IsSent(n)
      BY <1>1 DEF IsSent
    <2>4. QED
      BY <1>1, <1>2, <2>1, <2>2, <2>3
  <1>5. \A s \in 1 .. MaxCalls + 1 : MayResolve(s)' => MayResolve(s)
    BY <1>1 DEF MayResolve, IsSent, Session
  <1>6. \A m \in flight : m \in flight' \/ RequestOf(n) = RequestOf(m)
    BY <1>1
  <1>7. Flow' /\ Bodies'
    BY <1>1, <1>2, <1>4, <1>5, <1>6, ResultStep
  <1>8. called' = called
    BY DEF Async!SetResult
  <1>9. OwnTypes'
    BY <1>1, <1>2, <1>8, CallsStay DEF IInv, TypeOK
  <1>10. DueOK'
    BY <1>1 DEF IInv, DueOK, Fill, Activation
  <1>11. QED
    BY <1>7, <1>9, <1>10, Together

\* A reply handler returns and leaves the request as it is.
LEMMA DropStep ==
  ASSUME IInv, NEW n \in 1 .. MaxCalls, Answered(n),
         UNCHANGED asyncVars, dropped' = dropped \cup {n}
  PROVE  IInv'
  <1>1. /\ n \in flight /\ flight' = flight \ {n}
        /\ UNCHANGED <<sent, calls, consumer, due, ran, session, pages, shown, crashed>>
    BY DEF Answered
  <1>2. RanOn /\ called' = called
    BY <1>1 DEF RanOn, asyncVars
  <1>3. Flow' /\ Bodies'
    BY <1>1, <1>2, QuietStep
  <1>4. flight \subseteq 1 .. Len(calls) /\ dropped \subseteq 1 .. Len(calls)
    BY DEF IInv, TypeOK
  <1>5. flight' \subseteq 1 .. Len(calls) /\ dropped' \subseteq 1 .. Len(calls)
    BY <1>1, <1>4
  <1>6. OwnTypes'
    BY <1>1, <1>2, <1>5, CallsStay DEF IInv, TypeOK
  <1>7. DueOK'
    BY <1>1 DEF IInv, DueOK, Fill, Activation
  <1>8. QED
    BY <1>3, <1>6, <1>7, Together

\* A reply handler traps, and nothing else happens.
LEMMA TrapStep ==
  ASSUME IInv, NEW n \in 1 .. MaxCalls, ArchiveTraps(n)
  PROVE  IInv'
  <1>1. /\ UNCHANGED <<asyncVars, wireVars, calls, consumer, due, ran, session, pages, shown>>
        /\ crashed' \in {"no", "image", "page", "archive"}
    BY DEF ArchiveTraps
  <1>2. RanOn /\ UNCHANGED <<called, sent, flight, dropped>>
    BY <1>1 DEF RanOn, asyncVars, wireVars
  <1>3. Flow' /\ Bodies'
    BY <1>1, <1>2, QuietStep
  <1>4. OwnTypes'
    BY <1>1, <1>2, CallsStay DEF IInv, TypeOK
  <1>5. DueOK'
    BY <1>1 DEF IInv, DueOK, Fill, Activation
  <1>6. QED
    BY <1>3, <1>4, <1>5, Together

LEMMA ComesStep ==
  ASSUME IInv, NEW n \in 1 .. MaxCalls, Comes(n)
  PROVE  IInv'
  <1>1. CASE MessageFails(n)
    BY <1>1, AnswerStep DEF MessageFails
  <1>2. CASE GarbageArrives(n)
    BY <1>2, AnswerStep, DropStep DEF GarbageArrives
  <1>3. CASE StrangeReplyArrives(n)
    BY <1>3, DropStep DEF StrangeReplyArrives
  <1>4. ASSUME n \in flight, NEW k \in Lengths(calls[n]), ReplyArrives(n, k)
        PROVE  IInv'
    <2>1. calls[n] \in Getters
      <3>1. n \in 1 .. Len(calls) /\ calls \in Seq(Getters)
        BY <1>4 DEF IInv, TypeOK
      <3>2. QED
        BY <3>1, ElementOfSeq
    <2>2. Result(calls[n], k) \in Results
      BY <2>1 DEF Results, Lengths
    <2>3. QED
      BY <1>4, <2>2, AnswerStep DEF ReplyArrives
  <1>5. CASE ArchiveTraps(n)
    BY <1>5, TrapStep
  <1>6. QED
    BY <1>1, <1>2, <1>3, <1>4, <1>5 DEF Comes

\* A controller fills its view and asks nothing.
LEMMA FillStep ==
  ASSUME IInv, NEW to \in {"fill", "page"}, BodyRuns(to),
         UNCHANGED <<asyncVars, wireVars, calls, consumer, due, session, pages>>,
         shown' \subseteq {"sources", "articles"}, crashed' \in {"no", "image", "page", "archive"}
  PROVE  IInv'
  <1>1. RanOn
    BY DEF BodyRuns, RanOn
  <1>2. UNCHANGED <<called, sent, flight, dropped>>
    BY DEF asyncVars, wireVars
  <1>3. Flow' /\ Bodies'
    BY <1>1, <1>2, QuietStep
  <1>4. OwnTypes'
    BY <1>1, <1>2, CallsStay DEF IInv, TypeOK
  <1>5. DueOK'
    BY DEF IInv, DueOK, Fill, Activation
  <1>6. QED
    BY <1>3, <1>4, <1>5, Together

LEMMA FillViewStep ==
  ASSUME IInv, FillView
  PROVE  IInv'
  <1>1. /\ BodyRuns("fill")
        /\ UNCHANGED <<asyncVars, wireVars, calls, consumer, due, session, pages>>
        /\ crashed' \in {"no", "image", "page", "archive"}
    BY DEF FillView
  <1>2. shown' \subseteq {"sources", "articles"}
    BY DEF FillView, IInv, TypeOK
  <1>3. QED
    BY <1>1, <1>2, FillStep

LEMMA FillPageStep ==
  ASSUME IInv, FillPage
  PROVE  IInv'
  <1>1. BodyRuns("page") /\ UNCHANGED <<wireVars, session, pages, shown>>
    BY DEF FillPage
  <1>2. /\ crashed \in {"no", "image", "page", "archive"} /\ shown \subseteq {"sources", "articles"}
    BY DEF IInv, TypeOK
  <1>3. CASE UNCHANGED <<asyncVars, calls, consumer, due>> /\ crashed' \in {crashed, "page"}
    BY <1>1, <1>2, <1>3, FillStep
  <1>4. CASE Get("image", <<Fill(Len(calls) + 1)>>) /\ UNCHANGED crashed
    <2>1. RanOn /\ due = <<>> /\ "image" \in Getters
      BY <1>1 DEF BodyRuns, RanOn, Getters
    <2>2. /\ Flow' /\ Bodies' /\ DueOK'
          /\ called' = called /\ calls' \in Seq(Getters)
          /\ Len(calls') = Len(calls) + 1 /\ Len(calls') <= MaxCalls
      BY <1>1, <1>4, <2>1, GetStep
    <2>3. OwnTypes'
      BY <1>1, <1>4, <2>1, <2>2, CallsGrow
    <2>4. QED
      BY <2>2, <2>3, Together
  <1>5. QED
    BY <1>3, <1>4 DEF FillPage

LEMMA SendMessageInv ==
  ASSUME IInv, SendMessage
  PROVE  IInv'
  <1>1. /\ BodyRuns("send")
        /\ UNCHANGED <<asyncVars, dropped, calls, consumer, due, session, pages, shown, crashed>>
    BY DEF SendMessage
  <1>2. /\ Flow' /\ Bodies'
        /\ sent' \in Seq(1 .. Len(calls)) /\ flight' \subseteq 1 .. Len(calls)
    BY SendMessageStep
  <1>3. ran' \in 0 .. Len(called) /\ called' = called
    BY <1>1, CalledNames DEF BodyRuns, asyncVars
  <1>4. OwnTypes'
    BY <1>1, <1>2, <1>3 DEF IInv, TypeOK, OwnTypes
  <1>5. DueOK'
    BY <1>1 DEF IInv, DueOK, Fill, Activation
  <1>6. QED
    BY <1>2, <1>4, <1>5, Together

LEMMA RunBlockInv ==
  ASSUME IInv, RunBlock
  PROVE  IInv'
  <1>1. /\ Flow' /\ Bodies'
        /\ due' = <<>> \/ due' = <<Activation>>
        /\ Len(called) \in Nat /\ Len(called') \in Nat /\ Len(called) <= Len(called')
    BY RunBlockStep
  <1>2. /\ ran = Len(called)
        /\ UNCHANGED <<wireVars, calls, consumer, ran, session, pages, shown, crashed>>
    BY DEF RunBlock, MainIsFree
  <1>3. ran' \in 0 .. Len(called')
    BY <1>1, <1>2
  <1>4. OwnTypes'
    BY <1>2, <1>3 DEF IInv, TypeOK, OwnTypes, wireVars
  <1>5. DueOK'
    BY <1>1 DEF DueOK, Activation
  <1>6. QED
    BY <1>1, <1>4, <1>5, Together

LEMMA ActivationCompletesInv ==
  ASSUME IInv, ActivationCompletes
  PROVE  IInv'
  <1>1. /\ session' = "activated" /\ Async!DispatchOther("activation")
        /\ UNCHANGED <<wireVars, calls, consumer, due, ran, pages, shown, crashed>>
    BY DEF ActivationCompletes
  <1>2. Flow' /\ Bodies'
    BY ActivationCompletesStep
  <1>3. RanOn /\ UNCHANGED <<called, sent, flight, dropped>>
    BY <1>1 DEF Async!DispatchOther, RanOn, wireVars
  <1>4. OwnTypes'
    BY <1>1, <1>3, CallsStay DEF IInv, TypeOK
  <1>5. DueOK'
    BY <1>1 DEF IInv, DueOK, Fill, Activation
  <1>6. QED
    BY <1>2, <1>4, <1>5, Together

LEMMA StutterInv ==
  ASSUME IInv, UNCHANGED vars
  PROVE  IInv'
  <1>1. UNCHANGED <<asyncVars, wireVars, calls, consumer, due, ran, session, pages, shown, crashed>>
    BY DEF vars
  <1>2. RanOn /\ UNCHANGED <<called, sent, flight, dropped>>
    BY <1>1 DEF RanOn, asyncVars, wireVars
  <1>3. Flow' /\ Bodies'
    BY <1>1, <1>2, QuietStep
  <1>4. OwnTypes'
    BY <1>1, <1>2, CallsStay DEF IInv, TypeOK
  <1>5. DueOK'
    BY <1>1 DEF IInv, DueOK, Fill, Activation
  <1>6. QED
    BY <1>3, <1>4, <1>5, Together

LEMMA NextInv == IInv /\ [Next]_vars => IInv'
  <1> SUFFICES ASSUME IInv, [Next]_vars
               PROVE  IInv'
    OBVIOUS
  <1>1. CASE ActivationCompletes
    BY <1>1, ActivationCompletesInv
  <1>2. CASE Controllers
    <2>1. CASE OpenSources \/ OpenArticles \/ OpenDetail
      BY <2>1, OpensStep DEF OpenSources, OpenArticles, OpenDetail, Getters
    <2>2. CASE OpenHeadlines
      BY <2>2, OpenHeadlinesStep
    <2>3. CASE \E n \in 1 .. MaxCalls, i \in 1 .. Pages : AwakePage(n, i)
      BY <2>3, AwakePageStep
    <2>4. QED
      BY <1>2, <2>1, <2>2, <2>3 DEF Controllers
  <1>3. CASE \E n \in 1 .. MaxCalls : Comes(n)
    BY <1>3, ComesStep
  <1>4. CASE MainThread
    BY <1>4, RunActivationStep, RunDueStep, SendMessageInv, FillViewStep, FillPageStep,
       RunBlockInv
    DEF MainThread
  <1>5. CASE UNCHANGED vars
    BY <1>5, StutterInv
  <1>6. QED
    BY <1>1, <1>2, <1>3, <1>4, <1>5 DEF Next

LEMMA InitInv == Init => IInv
  <1> SUFFICES ASSUME Init
               PROVE  IInv
    OBVIOUS
  <1>1. /\ mainQueue = <<>> /\ registered = <<>> /\ called = <<>>
        /\ pending = [r \in 1 .. MaxCalls + 1 |-> <<>>]
        /\ outcome = [r \in 1 .. MaxCalls + 1 |-> Nil]
        /\ calls = <<>> /\ consumer = <<>> /\ due = <<>> /\ ran = 0
        /\ session = "activating" /\ sent = <<>> /\ flight = {} /\ dropped = {}
        /\ pages = {} /\ shown = {} /\ crashed = "no"
    BY DEF Init, Async!Init
  <1>2. AsyncP!Init
    BY <1>1 DEF AsyncP!Init
  <1>3. Async!IInv
    BY <1>2, AsyncAssumptions, SameInvariant, AsyncP!InitIInv
  <1>4. ConsumersMatch /\ ActivatedOnce /\ ToldTheOutcome
    BY <1>1 DEF ConsumersMatch, ActivatedOnce, ToldTheOutcome
  <1>5. ResultsOnTheirWay
    <2>1. <<>> # Nil
      BY NilAssumption, EmptySeq
    <2>2. QED
      BY <1>1, <2>1 DEF ResultsOnTheirWay
  <1>6. SentHaveRun /\ SentInOrder /\ FlightIsSent /\ UnresolvedIsUnderWay
    BY <1>1 DEF SentHaveRun, SentInOrder, FlightIsSent, UnresolvedIsUnderWay
  <1>7. DueOK
    BY <1>1 DEF DueOK
  <1>8. TypeOK
    BY <1>1, <1>3, BoundsAssumption DEF TypeOK, Async!IInv
  <1>9. QED
    BY <1>3, <1>4, <1>5, <1>6, <1>7, <1>8 DEF IInv, Flow, Bodies

\* What a step of the watch's own does to the calls and the messages: at most
\* one call is made, or one message is sent that was not sent before.
LEMMA OwnStep ==
  ASSUME IInv, ActivationCompletes \/ Controllers \/ MainThread
  PROVE  /\ dropped' = dropped
         /\ \/ /\ UNCHANGED <<sent, flight>>
               /\ calls' = calls \/ \E getter \in Getters : calls' = Append(calls, getter)
            \/ /\ calls' = calls
               /\ \E n \in 1 .. Len(calls) :
                    /\ ~IsSent(n) /\ n \notin flight
                    /\ sent' = Append(sent, n) /\ flight' = flight \cup {n}
  <1>1. CASE SendMessage
    <2> DEFINE n == NextConsumer.call
    <2>1. /\ dropped' = dropped /\ calls' = calls
          /\ sent' = Append(sent, n) /\ flight' = flight \cup {n}
      BY <1>1 DEF SendMessage
    <2>2. IInv'
      BY <1>1, SendMessageInv
    <2>3. /\ sent \in Seq(1 .. Len(calls)) /\ sent' \in Seq(1 .. Len(calls))
          /\ Len(calls) \in Nat
      BY <2>1, <2>2, CalledNames DEF IInv, TypeOK
    <2> HIDE DEF n
    <2>4. \A i, j \in 1 .. Len(sent') : i < j => sent'[i] < sent'[j]
      BY <2>2 DEF IInv, Bodies, SentInOrder
    <2>5. n \in 1 .. Len(calls)
      <3>1. ran < Len(called) /\ Len(called) \in Nat /\ ran \in Nat
        BY <1>1, CalledNames DEF SendMessage, BodyRuns
      <3>2. called[ran + 1].cb \in 1 .. Len(consumer)
        BY <3>1, CalledNames
      <3>3. QED
        BY <3>2 DEF IInv, TypeOK, NextConsumer, n
    <2>6. /\ Len(sent) \in Nat /\ Len(sent') = Len(sent) + 1
          /\ sent'[Len(sent) + 1] = n
          /\ \A i \in 1 .. Len(sent) : sent'[i] = sent[i]
      BY <2>1, <2>3, <2>5, AppendProperties
    <2>7. ~IsSent(n)
      <3> SUFFICES ASSUME NEW i \in 1 .. Len(sent), sent[i] = n
                   PROVE  FALSE
        BY DEF IsSent
      <3>1. /\ i \in 1 .. Len(sent') /\ Len(sent) + 1 \in 1 .. Len(sent')
            /\ i < Len(sent) + 1
        BY <2>6
      <3>2. sent'[i] < sent'[Len(sent) + 1]
        BY <2>4, <3>1
      <3>3. QED
        BY <2>3, <2>5, <2>6, <3>2
    <2>8. n \notin flight
      BY <2>7 DEF IInv, Bodies, FlightIsSent
    <2>9. QED
      BY <2>1, <2>5, <2>7, <2>8
  <1>2. CASE Controllers
    BY <1>2 DEF Controllers, OpenSources, OpenArticles, OpenDetail, Opens, OpenHeadlines,
                AwakePage, Get, wireVars, Getters
  <1>3. CASE ActivationCompletes
    BY <1>3 DEF ActivationCompletes, wireVars
  <1>4. CASE RunActivation \/ RunDue \/ FillView \/ RunBlock
    BY <1>4 DEF RunActivation, RunDue, FillView, RunBlock, wireVars
  <1>5. CASE FillPage
    BY <1>5 DEF FillPage, Get, wireVars, Getters
  <1>6. QED
    BY <1>1, <1>2, <1>3, <1>4, <1>5 DEF MainThread

\* What a step of the watch's own does to the results of the getters: it queues
\* none, and a request that has one had it before or gets it from a block.
LEMMA OwnResults ==
  ASSUME IInv, ActivationCompletes \/ Controllers \/ MainThread
  PROVE  /\ \A i \in 1 .. Len(mainQueue') :
              mainQueue'[i].op = "setResult" /\ mainQueue'[i].req # Session =>
                \E j \in 1 .. Len(mainQueue) : mainQueue[j] = mainQueue'[i]
         /\ \A r \in 1 .. MaxCalls + 1 : pending'[r] = Nil =>
              \/ pending[r] = Nil /\ outcome'[r] = outcome[r]
              \/ \E j \in 1 .. Len(mainQueue) :
                   mainQueue[j] = [op |-> "setResult", req |-> r, outcome |-> outcome'[r]]
  <1>1. Async!TypeOK
    BY DEF IInv, TypeOK
  <1>2. /\ pending \in [1 .. MaxCalls + 1 -> Seq(Nat \ {0}) \cup {Nil}]
        /\ outcome \in [1 .. MaxCalls + 1 -> Results \cup {Nil}]
    BY <1>1 DEF Async!TypeOK
  <1>3. CASE RunBlock
    <2> DEFINE b == Head(mainQueue)
    <2>1. Async!RunMain
      BY <1>3 DEF RunBlock
    <2>2. /\ 1 \in 1 .. Len(mainQueue) /\ b = mainQueue[1] /\ b \in Async!Blocks
          /\ \A i \in 1 .. Len(mainQueue') : mainQueue'[i].op = "setResult" =>
               \E j \in 1 .. Len(mainQueue) : mainQueue[j] = mainQueue'[i]
      BY <2>1, AnyBlockRuns
    <2>3. CASE Async!RunSetResult
      <3>1. /\ b.op = "setResult"
            /\ outcome' = [outcome EXCEPT ![b.req] = b.outcome]
            /\ pending' = pending \/ pending' = [pending EXCEPT ![b.req] = Nil]
        BY <2>3 DEF Async!RunSetResult, Async!NextBlockIs
      <3>2. b = [op |-> "setResult", req |-> b.req, outcome |-> b.outcome]
            /\ b.req \in 1 .. MaxCalls + 1
        BY <2>2, <3>1 DEF Async!Blocks
      <3> HIDE DEF b
      <3>3. /\ outcome'[b.req] = b.outcome
            /\ \A r \in 1 .. MaxCalls + 1 : r # b.req =>
                 outcome'[r] = outcome[r] /\ pending'[r] = pending[r]
        BY <1>2, <3>1, <3>2
      <3>4. mainQueue[1] = [op |-> "setResult", req |-> b.req, outcome |-> outcome'[b.req]]
        BY <2>2, <3>2, <3>3
      <3>5. QED
        BY <2>2, <3>3, <3>4
    <2>4. CASE Async!RunWithResult
      <3>1. /\ outcome' = outcome
            /\ \/ pending' = pending
               \/ /\ pending[b.req] # Nil
                  /\ pending' = [pending EXCEPT ![b.req] = Append(@, b.cb)]
            /\ b.op = "withResult"
        BY <2>4 DEF Async!RunWithResult, Async!NextBlockIs
      <3>2. b.req \in 1 .. MaxCalls + 1 /\ b.cb \in Nat \ {0}
        BY <2>2, <3>1 DEF Async!Blocks
      <3> HIDE DEF b
      <3>3. \A r \in 1 .. MaxCalls + 1 : pending'[r] = Nil => pending[r] = Nil
        <4>1. CASE pending' = pending
          BY <4>1
        <4>2. CASE pending[b.req] # Nil /\ pending' = [pending EXCEPT ![b.req] = Append(@, b.cb)]
          <5>1. pending[b.req] \in Seq(Nat \ {0})
            BY <1>2, <3>2, <4>2
          <5>2. Append(pending[b.req], b.cb) \in Seq(Nat \ {0})
            BY <3>2, <5>1, AppendProperties
          <5>3. Append(pending[b.req], b.cb) # Nil
            BY <5>2, NilAssumption
          <5>4. QED
            BY <1>2, <3>2, <4>2, <5>3
        <4>3. QED
          BY <3>1, <4>1, <4>2
      <3>4. QED
        BY <2>2, <3>1, <3>3
    <2>5. CASE Async!RunCall \/ Async!RunOther
      BY <2>2, <2>5 DEF Async!RunCall, Async!RunOther
    <2>6. QED
      BY <2>1, <2>3, <2>4, <2>5 DEF Async!RunMain
  <1>4. ASSUME UNCHANGED <<pending, outcome>>,
               NEW b \in Async!Blocks, mainQueue' = Append(mainQueue, b),
               b.op = "setResult" => b.req = Session
        PROVE  /\ \A i \in 1 .. Len(mainQueue') :
                    mainQueue'[i].op = "setResult" /\ mainQueue'[i].req # Session =>
                      \E j \in 1 .. Len(mainQueue) : mainQueue[j] = mainQueue'[i]
               /\ \A r \in 1 .. MaxCalls + 1 : pending'[r] = Nil =>
                    pending[r] = Nil /\ outcome'[r] = outcome[r]
    BY <1>1, <1>4, Enqueued
  <1>5. ASSUME NEW r \in 1 .. MaxCalls + 1, Async!WithResult(r)
        PROVE  Async!WithResultBlock(r, Len(registered) + 1) \in Async!Blocks
    <2>1. Len(registered) + 1 \in Nat \ {0}
      BY <1>1 DEF Async!TypeOK
    <2>2. QED
      BY <2>1 DEF Async!WithResultBlock, Async!Blocks
  <1>6. CASE \E r \in 1 .. MaxCalls + 1 : Async!WithResult(r)
    <2>1. PICK r \in 1 .. MaxCalls + 1 : Async!WithResult(r)
      BY <1>6
    <2>2. /\ UNCHANGED <<pending, outcome>>
          /\ mainQueue' = Append(mainQueue, Async!WithResultBlock(r, Len(registered) + 1))
          /\ Async!WithResultBlock(r, Len(registered) + 1).op # "setResult"
      BY <2>1 DEF Async!WithResult, Async!WithResultBlock
    <2>3. QED
      BY <1>4, <1>5, <2>1, <2>2
  <1>7. CASE UNCHANGED asyncVars
    BY <1>7 DEF asyncVars
  <1>8. Session \in 1 .. MaxCalls + 1
    BY BoundsAssumption DEF Session
  <1>9. CASE ActivationCompletes
    <2>1. /\ UNCHANGED <<pending, outcome>>
          /\ mainQueue' = Append(mainQueue, Async!OtherBlock("activation"))
      BY <1>9 DEF ActivationCompletes, Async!DispatchOther
    <2>2. Async!OtherBlock("activation") \in Async!Blocks
          /\ Async!OtherBlock("activation").op # "setResult"
      BY DEF Async!OtherBlock, Async!Blocks
    <2>3. QED
      BY <1>4, <2>1, <2>2
  <1>10. CASE RunActivation
    <2>1. CASE Async!SetResult(Session, Result("session", 1))
      <3> DEFINE b == Async!SetResultBlock(Session, Result("session", 1))
      <3>1. UNCHANGED <<pending, outcome>> /\ mainQueue' = Append(mainQueue, b)
        BY <2>1 DEF Async!SetResult
      <3>2. b \in Async!Blocks /\ (b.op = "setResult" => b.req = Session)
        <4>1. Result("session", 1) \in Results
          BY DEF Results
        <4>2. QED
          BY <1>8, <4>1 DEF Async!SetResultBlock, Async!Blocks
      <3>3. QED
        BY <1>4, <3>1, <3>2
    <2>2. QED
      BY <1>7, <1>10, <2>1 DEF RunActivation
  <1>11. \A n \in 1 .. Len(calls) : RequestOf(n) \in 1 .. MaxCalls + 1
    BY BoundsAssumption DEF IInv, TypeOK, RequestOf
  <1>12. CASE RunDue
    <2>1. PICK n \in 1 .. Len(calls) : due = <<Fill(n)>>
      BY <1>12 DEF RunDue, IInv, DueOK
    <2>2. Async!WithResult(RequestOf(n))
      BY <1>12, <2>1 DEF RunDue, Wait, Fill
    <2>3. QED
      BY <1>6, <1>11, <2>2
  <1>13. CASE SendMessage \/ FillView
    BY <1>7, <1>13 DEF SendMessage, FillView
  <1>14. CASE FillPage
    BY <1>6, <1>7, <1>8, <1>14 DEF FillPage, Get, asyncVars
  <1>15. CASE Controllers
    <2>1. CASE OpenSources \/ OpenArticles \/ OpenDetail \/ OpenHeadlines
      BY <1>6, <1>8, <2>1 DEF OpenSources, OpenArticles, OpenDetail, Opens, OpenHeadlines, Get
    <2>2. ASSUME NEW n \in 1 .. MaxCalls, NEW i \in 1 .. Pages, AwakePage(n, i)
          PROVE  \E r \in 1 .. MaxCalls + 1 : Async!WithResult(r)
      <3>1. RequestOf(n) \in 1 .. MaxCalls + 1
        BY BoundsAssumption DEF RequestOf
      <3>2. QED
        BY <2>2, <3>1 DEF AwakePage, Wait, Page
    <2>3. QED
      BY <1>6, <1>15, <2>1, <2>2 DEF Controllers
  <1>16. QED
    BY <1>3, <1>9, <1>10, <1>12, <1>13, <1>14, <1>15 DEF MainThread

-----------------------------------------------------------------------------
(* The theorems.                                                           *)

\* The invariant holds in every state of every execution.
THEOREM Invariance == Spec => []IInv
  BY InitInv, NextInv, PTL DEF Spec

\* Calls, callbacks, messages and replies refer to what there is, and the main
\* thread never has two things due (WatchClient.swift and the controllers).
THEOREM TypeCorrect == Spec => []TypeOK
  <1>1. IInv => TypeOK
    BY DEF IInv
  <1>2. QED
    BY <1>1, Invariance, PTL

\* Messages go out in the order of the getter calls and once each, however the
\* activation, the calls and the blocks interleave (WatchClient.swift, sendMessage).
THEOREM SentOnceInOrder == Spec => []SentInOrder
  <1>1. IInv => SentInOrder
    BY DEF IInv, Bodies
  <1>2. QED
    BY <1>1, Invariance, PTL

\* No getter's request is left behind, but where a reply handler returns without
\* a result: the message, its answer or its result is on the way.
THEOREM NoneIsForgotten == Spec => []UnresolvedIsUnderWay
  <1>1. IInv => UnresolvedIsUnderWay
    BY DEF IInv, Bodies
  <1>2. QED
    BY <1>1, Invariance, PTL

\* The headline pages of one presentation share a request and are told the same,
\* whenever the system makes each page (HeadlineBaseController.swift, awake).
THEOREM PagesAlike == Spec => []PagesAgree
  <1>1. IInv => PagesAgree
    <2> SUFFICES ASSUME IInv,
                        NEW i \in 1 .. Len(called), NEW j \in 1 .. Len(called),
                        consumer[called[i].cb].to = "page", consumer[called[j].cb].to = "page",
                        consumer[called[i].cb].call = consumer[called[j].cb].call
                 PROVE  called[i].outcome = called[j].outcome
      BY DEF PagesAgree
    <2>1. called[i].cb \in 1 .. Len(consumer) /\ called[j].cb \in 1 .. Len(consumer)
      BY CalledNames
    <2>2. registered[called[i].cb] = registered[called[j].cb]
      BY <2>1 DEF IInv, Flow, ConsumersMatch
    <2>3. QED
      BY <2>2 DEF IInv, Flow, ToldTheOutcome
  <1>2. QED
    BY <1>1, Invariance, PTL

=============================================================================
