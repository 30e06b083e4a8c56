------------------------ MODULE AsyncRequest_proofs -------------------------
(***************************************************************************)
(* Proofs about AsyncRequest for any requests, outcomes and bounds.        *)
(***************************************************************************)
EXTENDS AsyncRequest, TLAPS, SequenceTheorems

LEMMA InitIInv == Init => IInv
  BY NilAssumption, NoOutcomeAssumption
  DEF Init, IInv, TypeOK, NamesOK, NoCallbackLost, QueueInOrder, PendingInOrder,
      CalledBeforeQueued, CalledInOrder, CarriedFor, Callbacks

-----------------------------------------------------------------------------
(* The main queue and the pending lists as sequences.                      *)

\* What running the oldest block leaves of the queue.
LEMMA HeadBlock ==
  ASSUME TypeOK, mainQueue # <<>>
  PROVE  /\ 1 \in 1 .. Len(mainQueue)
         /\ Head(mainQueue) = mainQueue[1]
         /\ Head(mainQueue) \in Blocks
         /\ Tail(mainQueue) \in Seq(Blocks)
         /\ Len(Tail(mainQueue)) = Len(mainQueue) - 1
         /\ \A i \in 1 .. Len(Tail(mainQueue)) :
              /\ i + 1 \in 1 .. Len(mainQueue)
              /\ Tail(mainQueue)[i] = mainQueue[i + 1]
  BY DEF TypeOK

\* What setResultMain adds to the history for a pending list.
LEMMA CallEachProperties ==
  ASSUME NEW list \in Seq(Nat \ {0}), NEW v \in Outcomes
  PROVE  /\ CallEach(list, v) \in Seq(Calls)
         /\ Len(CallEach(list, v)) = Len(list)
         /\ \A i \in 1 .. Len(list) :
              /\ CallEach(list, v)[i].cb = list[i]
              /\ CallEach(list, v)[i].outcome = v
  <1>1. \A i \in 1 .. Len(list) : Call(list[i], v) \in Calls
    BY DEF Call, Calls
  <1>2. CallEach(list, v) \in [1 .. Len(list) -> Calls]
    BY <1>1 DEF CallEach
  <1>3. Len(list) \in Nat
    OBVIOUS
  <1>4. CallEach(list, v) \in Seq(Calls)
    BY <1>2, <1>3, SeqDef
  <1>5. Len(CallEach(list, v)) = Len(list)
    BY <1>2, <1>3, <1>4, LenProperties
  <1>6. QED
    BY <1>4, <1>5 DEF CallEach, Call

\* A sequence and what one more element makes of it.
LEMMA OneMore ==
  ASSUME NEW S, NEW s \in Seq(S), NEW e \in S, NEW t, t = Append(s, e)
  PROVE  /\ Len(s) \in Nat
         /\ Len(t) = Len(s) + 1
         /\ Len(s) + 1 \in 1 .. Len(t)
         /\ t[Len(s) + 1] = e
         /\ \A i \in 1 .. Len(s) : i \in 1 .. Len(t) /\ i < Len(s) + 1 /\ t[i] = s[i]
         /\ \A i \in 1 .. Len(t) : i \in 1 .. Len(s) \/ i = Len(s) + 1
  <1>1. /\ Len(s) \in Nat
        /\ Len(t) = Len(s) + 1
        /\ t[Len(s) + 1] = e
        /\ \A i \in 1 .. Len(s) : t[i] = s[i]
    BY AppendProperties
  <1>2. QED
    BY ONLY <1>1

\* The history after a pending list was called.
LEMMA CallsAppended ==
  ASSUME NEW list \in Seq(Nat \ {0}), NEW v \in Outcomes,
         NEW s \in Seq(Calls)
  PROVE  /\ Len(s) \in Nat
         /\ Len(list) \in Nat
         /\ Len(s \o CallEach(list, v)) = Len(s) + Len(list)
         /\ \A i \in 1 .. Len(s) : /\ i \in 1 .. Len(s \o CallEach(list, v))
                                   /\ (s \o CallEach(list, v))[i] = s[i]
         /\ \A i \in 1 .. Len(list) :
              /\ Len(s) + i \in 1 .. Len(s \o CallEach(list, v))
              /\ (s \o CallEach(list, v))[Len(s) + i].cb = list[i]
              /\ (s \o CallEach(list, v))[Len(s) + i].outcome = v
  <1> DEFINE more == CallEach(list, v)
             t == s \o more
  <1>1. /\ more \in Seq(Calls)
        /\ Len(more) = Len(list)
        /\ \A i \in 1 .. Len(list) : more[i].cb = list[i] /\ more[i].outcome = v
    BY CallEachProperties
  <1>2. Len(s) \in Nat /\ Len(list) \in Nat
    OBVIOUS
  <1>3. t = s \o more
    OBVIOUS
  <1> HIDE DEF more, t
  <1>4. /\ Len(t) = Len(s) + Len(list)
        /\ \A i \in 1 .. Len(s) + Len(list) :
             t[i] = IF i <= Len(s) THEN s[i] ELSE more[i - Len(s)]
    <2>1. s \in Seq(Calls) /\ more \in Seq(Calls)
      BY <1>1
    <2>2. /\ Len(s \o more) = Len(s) + Len(more)
          /\ \A i \in 1 .. Len(s) + Len(more) :
               (s \o more)[i] = IF i <= Len(s) THEN s[i] ELSE more[i - Len(s)]
      BY <2>1, ConcatProperties
    <2>3. QED
      BY ONLY <1>1, <1>3, <2>2
  <1>5. \A i \in 1 .. Len(list) :
          /\ Len(s) + i \in 1 .. Len(t)
          /\ ~ Len(s) + i <= Len(s)
          /\ (Len(s) + i) - Len(s) = i
    BY ONLY <1>2, <1>4
  <1>6. \A i \in 1 .. Len(s) : i \in 1 .. Len(t) /\ t[i] = s[i]
    BY ONLY <1>2, <1>4
  <1>7. \A i \in 1 .. Len(list) : t[Len(s) + i] = more[i]
    BY ONLY <1>4, <1>5
  <1>8. \A i \in 1 .. Len(list) : t[Len(s) + i].cb = list[i] /\ t[Len(s) + i].outcome = v
    BY ONLY <1>1, <1>7
  <1>9. QED
    BY <1>2, <1>4, <1>5, <1>6, <1>8 DEF t, more

-----------------------------------------------------------------------------
(* Type correctness.                                                       *)

LEMMA SetResultTypes ==
  ASSUME TypeOK, NEW r \in Requests, NEW v \in Outcomes, SetResult(r, v)
  PROVE  TypeOK'
  BY DEF SetResult, SetResultBlock, TypeOK, Blocks

LEMMA WithResultTypes ==
  ASSUME TypeOK, NEW r \in Requests, WithResult(r)
  PROVE  TypeOK'
  BY DEF WithResult, WithResultBlock, TypeOK, Blocks

LEMMA DispatchOtherTypes ==
  ASSUME TypeOK, NEW w \in Work, DispatchOther(w)
  PROVE  TypeOK'
  BY DEF DispatchOther, OtherBlock, TypeOK, Blocks

LEMMA RunSetResultTypes ==
  ASSUME TypeOK, RunSetResult
  PROVE  TypeOK'
  <1> DEFINE b == Head(mainQueue)
  <1>1. /\ b.req \in Requests
        /\ b.outcome \in Outcomes
        /\ Tail(mainQueue) \in Seq(Blocks)
    BY HeadBlock DEF RunSetResult, NextBlockIs, Blocks
  <1>2. CASE pending[b.req] = Nil
    BY <1>1, <1>2 DEF RunSetResult, TypeOK
  <1>3. CASE pending[b.req] # Nil
    <2>1. pending[b.req] \in Seq(Nat \ {0})
      BY <1>1, <1>3 DEF TypeOK
    <2>2. CallEach(pending[b.req], b.outcome) \in Seq(Calls)
      BY <1>1, <2>1, CallEachProperties
    <2>3. called' = called \o CallEach(pending[b.req], b.outcome)
      BY <1>3 DEF RunSetResult
    <2>4. called \in Seq(Calls)
      BY DEF TypeOK
    <2>5. called' \in Seq(Calls)
      BY ONLY <2>2, <2>3, <2>4, SMTT(30)
    <2>6. QED
      BY <1>1, <1>3, <2>5 DEF RunSetResult, TypeOK
  <1>4. QED
    BY <1>2, <1>3

LEMMA RunWithResultTypes ==
  ASSUME TypeOK, RunWithResult
  PROVE  TypeOK'
  <1> DEFINE b == Head(mainQueue)
  <1>1. /\ b.req \in Requests
        /\ b.cb \in Nat \ {0}
        /\ Tail(mainQueue) \in Seq(Blocks)
    BY HeadBlock DEF RunWithResult, NextBlockIs, Blocks
  <1>2. CASE pending[b.req] = Nil
    <2>1. CallBlock(b.req, b.cb) \in Blocks
      BY <1>1 DEF CallBlock, Blocks
    <2>2. Append(Tail(mainQueue), CallBlock(b.req, b.cb)) \in Seq(Blocks)
      BY <1>1, <2>1
    <2>3. QED
      BY <1>1, <1>2, <2>2 DEF RunWithResult, TypeOK
  <1>3. CASE pending[b.req] # Nil
    <2>1. Append(pending[b.req], b.cb) \in Seq(Nat \ {0})
      BY <1>1, <1>3 DEF TypeOK
    <2>2. QED
      BY <1>1, <1>3, <2>1 DEF RunWithResult, TypeOK
  <1>4. QED
    BY <1>2, <1>3

LEMMA RunCallTypes ==
  ASSUME TypeOK, RunCall
  PROVE  TypeOK'
  <1> DEFINE b == Head(mainQueue)
  <1>1. /\ b.req \in Requests
        /\ b.cb \in Nat \ {0}
        /\ Tail(mainQueue) \in Seq(Blocks)
    BY HeadBlock DEF RunCall, NextBlockIs, Blocks
  <1>2. QED
    BY <1>1 DEF RunCall, TypeOK, Call, Calls

LEMMA RunOtherTypes ==
  ASSUME TypeOK, RunOther
  PROVE  TypeOK'
  BY HeadBlock DEF RunOther, NextBlockIs, TypeOK

(* Whatever the threads do, the queue, the pending lists and the history   *)
(* stay well formed.                                                       *)
THEOREM TypeCorrect == Spec => []TypeOK
  <1>1. Init => TypeOK
    BY NoOutcomeAssumption DEF Init, TypeOK
  <1>2. TypeOK /\ [Next]_vars => TypeOK'
    <2> SUFFICES ASSUME TypeOK, [Next]_vars
                 PROVE  TypeOK'
      OBVIOUS
    <2>1. CASE UNCHANGED vars
      BY <2>1 DEF vars, TypeOK
    <2>2. QED
      BY <2>1, SetResultTypes, WithResultTypes, DispatchOtherTypes,
         RunSetResultTypes, RunWithResultTypes, RunCallTypes, RunOtherTypes
      DEF Next, RunMain
  <1>3. QED
    BY <1>1, <1>2, PTL DEF Spec
-----------------------------------------------------------------------------
(* The inductive invariant.                                                *)

\* Appending a block that carries no callback.
LEMMA EnqueueForeign ==
  ASSUME IInv, TypeOK', NEW b \in Blocks, b.op \notin {"withResult", "call"},
         mainQueue' = Append(mainQueue, b),
         UNCHANGED <<pending, registered, called>>
  PROVE  IInv'
  <1>1. \A r \in Requests : CarriedFor(r)' = CarriedFor(r)
    BY DEF IInv, TypeOK, CarriedFor
  <1>2. \A i \in 1 .. Len(mainQueue) :
          i \in 1 .. Len(mainQueue)' /\ mainQueue'[i] = mainQueue[i]
    BY DEF IInv, TypeOK
  <1>3. NamesOK'
    BY <1>1, <1>2 DEF IInv, NamesOK, Callbacks, CarriedFor
  <1>4. NoCallbackLost'
    <2>1. \A n \in Callbacks : IsQueued(n) => IsQueued(n)'
      BY <1>2 DEF IsQueued
    <2>2. QED
      BY <2>1 DEF IInv, NoCallbackLost, Callbacks, Called, IsPending
  <1>5. QueueInOrder'
    BY <1>1, <1>2 DEF IInv, QueueInOrder, CarriedFor
  <1>6. PendingInOrder'
    BY <1>1, <1>2 DEF IInv, PendingInOrder, CarriedFor
  <1>7. CalledBeforeQueued'
    BY <1>1, <1>2 DEF IInv, CalledBeforeQueued, CarriedFor
  <1>8. CalledInOrder'
    BY DEF IInv, CalledInOrder
  <1>9. QED
    BY <1>3, <1>4, <1>5, <1>6, <1>7, <1>8 DEF IInv

\* Running a block that carries no callback and calls none.
LEMMA DequeueForeign ==
  ASSUME IInv, TypeOK', mainQueue # <<>>,
         Head(mainQueue).op \notin {"withResult", "call"},
         mainQueue' = Tail(mainQueue),
         UNCHANGED <<pending, registered, called>>
  PROVE  IInv'
  <1>1. /\ Len(mainQueue)' = Len(mainQueue) - 1
        /\ \A i \in 1 .. Len(mainQueue)' :
             i + 1 \in 1 .. Len(mainQueue) /\ mainQueue'[i] = mainQueue[i + 1]
    BY HeadBlock DEF IInv
  <1>2. \A r \in Requests : \A i \in CarriedFor(r)' :
          i + 1 \in CarriedFor(r) /\ mainQueue'[i] = mainQueue[i + 1]
    BY <1>1 DEF CarriedFor
  <1>3. NamesOK'
    BY <1>2 DEF IInv, NamesOK, Callbacks, CarriedFor
  <1>4. NoCallbackLost'
    <2>1. \A n \in Callbacks : IsQueued(n) => IsQueued(n)'
      <3> SUFFICES ASSUME NEW n \in Callbacks, IsQueued(n)
                   PROVE  IsQueued(n)'
        OBVIOUS
      <3>1. PICK i \in 1 .. Len(mainQueue) :
              mainQueue[i].op \in {"withResult", "call"} /\ mainQueue[i].cb = n
        BY DEF IsQueued
      <3>2. i # 1
        BY <3>1, HeadBlock DEF IInv
      <3>3. i - 1 \in 1 .. Len(mainQueue)' /\ mainQueue'[i - 1] = mainQueue[i]
        BY <1>1, <3>2 DEF IInv, TypeOK
      <3>4. QED
        BY <3>1, <3>3 DEF IsQueued
    <2>2. QED
      BY <2>1 DEF IInv, NoCallbackLost, Callbacks, Called, IsPending
  <1>5. QueueInOrder'
    BY <1>2 DEF IInv, QueueInOrder, CarriedFor
  <1>6. PendingInOrder'
    BY <1>2 DEF IInv, PendingInOrder, CarriedFor
  <1>7. CalledBeforeQueued'
    BY <1>2 DEF IInv, CalledBeforeQueued
  <1>8. CalledInOrder'
    BY DEF IInv, CalledInOrder
  <1>9. QED
    BY <1>3, <1>4, <1>5, <1>6, <1>7, <1>8 DEF IInv

\* What is left of the carrying blocks when the oldest block is taken.
LEMMA Dequeue ==
  ASSUME TypeOK, mainQueue # <<>>, mainQueue' = Tail(mainQueue)
  PROVE  /\ \A r \in Requests : \A i \in CarriedFor(r)' :
              /\ i \in Nat /\ i # 0
              /\ i + 1 \in CarriedFor(r)
              /\ mainQueue'[i] = mainQueue[i + 1]
         /\ \A n : IsQueued(n) =>
              \/ IsQueued(n)'
              \/ Head(mainQueue).op \in {"withResult", "call"} /\ Head(mainQueue).cb = n
  <1>1. /\ Len(mainQueue)' = Len(mainQueue) - 1
        /\ \A i \in 1 .. Len(mainQueue)' :
             i + 1 \in 1 .. Len(mainQueue) /\ mainQueue'[i] = mainQueue[i + 1]
    BY HeadBlock
  <1>2. \A r \in Requests : \A i \in CarriedFor(r)' :
          i \in Nat /\ i # 0 /\ i + 1 \in CarriedFor(r) /\ mainQueue'[i] = mainQueue[i + 1]
    BY <1>1 DEF CarriedFor, TypeOK
  <1>3. ASSUME NEW n, IsQueued(n)
        PROVE  \/ IsQueued(n)'
               \/ Head(mainQueue).op \in {"withResult", "call"} /\ Head(mainQueue).cb = n
    <2>1. PICK i \in 1 .. Len(mainQueue) :
            mainQueue[i].op \in {"withResult", "call"} /\ mainQueue[i].cb = n
      BY <1>3 DEF IsQueued
    <2>2. CASE i = 1
      BY <2>1, <2>2, HeadBlock
    <2>3. CASE i # 1
      <3>1. i - 1 \in 1 .. Len(mainQueue)' /\ mainQueue'[i - 1] = mainQueue[i]
        BY <1>1, <2>3 DEF TypeOK
      <3>2. QED
        BY <2>1, <3>1 DEF IsQueued
    <2>4. QED
      BY <2>2, <2>3
  <1>4. QED
    BY <1>2, <1>3

LEMMA WithResultIInv ==
  ASSUME IInv, NEW r \in Requests, WithResult(r)
  PROVE  IInv'
  <1> DEFINE new == Len(registered) + 1
             last == Len(mainQueue) + 1
  <1>1. TypeOK'
    BY WithResultTypes DEF IInv
  <1>2. /\ new \in Callbacks'
        /\ registered'[new] = r
        /\ \A n \in Callbacks :
             n < new /\ n \in Callbacks' /\ registered'[n] = registered[n]
    BY DEF WithResult, IInv, TypeOK, Callbacks
  <1>3. Callbacks' = Callbacks \cup {new}
    BY DEF WithResult, IInv, TypeOK, Callbacks
  <1>4. /\ last \in 1 .. Len(mainQueue)'
        /\ mainQueue'[last] = WithResultBlock(r, new)
        /\ \A i \in 1 .. Len(mainQueue) :
             i < last /\ i \in 1 .. Len(mainQueue)' /\ mainQueue'[i] = mainQueue[i]
        /\ 1 .. Len(mainQueue)' = (1 .. Len(mainQueue)) \cup {last}
    BY DEF WithResult, IInv, TypeOK
  <1>5. \A q \in Requests : \A i \in CarriedFor(q)' :
          \/ /\ i \in CarriedFor(q) /\ mainQueue'[i] = mainQueue[i]
             /\ i \in Nat /\ i < last
          \/ q = r /\ i = last
    BY <1>4 DEF CarriedFor, WithResultBlock
  <1>6. UNCHANGED <<pending, called>>
    BY DEF WithResult
  <1>7. \A q \in Requests : \A i \in CarriedFor(q) :
          mainQueue[i].cb \in Callbacks /\ mainQueue[i].cb < new
    BY <1>2 DEF IInv, NamesOK
  <1>8. NamesOK'
    <2>1. \A q \in Requests : \A i \in CarriedFor(q)' :
            mainQueue'[i].cb \in Callbacks' /\ registered'[mainQueue'[i].cb] = q
      BY <1>2, <1>4, <1>5 DEF IInv, NamesOK, WithResultBlock
    <2>2. QED
      BY <1>2, <1>6, <2>1 DEF IInv, NamesOK
  <1>9. NoCallbackLost'
    <2>1. \A n \in Callbacks : IsQueued(n) => IsQueued(n)'
      BY <1>4 DEF IsQueued
    <2>2. \A n : n = new => IsQueued(n)'
      BY <1>4 DEF IsQueued, WithResultBlock
    <2>3. \A n \in Callbacks : IsPending(n) => IsPending(n)'
      BY <1>2, <1>6 DEF IsPending
    <2>4. QED
      BY <1>3, <1>6, <2>1, <2>2, <2>3 DEF IInv, NoCallbackLost, Called
  <1>10. QueueInOrder'
    <2> SUFFICES ASSUME NEW q \in Requests,
                        NEW i \in CarriedFor(q)', NEW j \in CarriedFor(q)'
                 PROVE  /\ i < j /\ mainQueue'[i].op = mainQueue'[j].op
                             => mainQueue'[i].cb < mainQueue'[j].cb
                        /\ mainQueue'[i].op = "call" /\ mainQueue'[j].op = "withResult"
                             => mainQueue'[i].cb < mainQueue'[j].cb
      BY DEF QueueInOrder
    <2>1. last \in Nat
      BY DEF IInv, TypeOK
    <2>2. CASE i = last
      BY <1>4, <1>5, <2>1, <2>2 DEF WithResultBlock
    <2>3. CASE i # last /\ j = last
      <3>1. mainQueue'[j].cb = new
        BY <1>4, <2>3 DEF WithResultBlock
      <3>2. i \in CarriedFor(q) /\ mainQueue'[i] = mainQueue[i]
        BY <1>5, <2>3
      <3>3. mainQueue'[i].cb < new
        BY <1>7, <3>2
      <3>4. QED
        BY <3>1, <3>3
    <2>4. CASE i # last /\ j # last
      BY <1>5, <2>4 DEF IInv, QueueInOrder
    <2>5. QED
      BY <2>2, <2>3, <2>4
  <1>11. mainQueue'[last].op = "withResult" /\ mainQueue'[last].cb = new
    BY <1>4 DEF WithResultBlock
  <1>12. \A i \in 1 .. Len(called) :
           /\ called[i].cb < new
           /\ registered'[called[i].cb] = registered[called[i].cb]
    BY <1>2 DEF IInv, NamesOK
  <1>13. PendingInOrder'
    <2> SUFFICES ASSUME NEW q \in Requests, pending[q] # Nil
                 PROVE  /\ \A i \in CarriedFor(q)' :
                             /\ mainQueue'[i].op = "withResult"
                             /\ \A j \in 1 .. Len(pending[q]) :
                                  pending[q][j] < mainQueue'[i].cb
                        /\ \A i \in 1 .. Len(called) :
                             registered'[called[i].cb] # q
      BY <1>6 DEF IInv, PendingInOrder
    <2>1. /\ \A i \in CarriedFor(q) :
               /\ mainQueue[i].op = "withResult"
               /\ \A j \in 1 .. Len(pending[q]) : pending[q][j] < mainQueue[i].cb
          /\ \A i \in 1 .. Len(called) : registered[called[i].cb] # q
      BY DEF IInv, PendingInOrder
    <2>2. \A j \in 1 .. Len(pending[q]) : pending[q][j] < new
      BY <1>2 DEF IInv, NamesOK
    <2>3. QED
      BY <1>5, <1>11, <1>12, <2>1, <2>2
  <1>14. CalledBeforeQueued'
    <2> SUFFICES ASSUME NEW q \in Requests, NEW i \in CarriedFor(q)',
                        NEW j \in 1 .. Len(called), registered'[called[j].cb] = q
                 PROVE  called[j].cb < mainQueue'[i].cb
      BY <1>6 DEF CalledBeforeQueued
    <2>1. called[j].cb < new /\ registered[called[j].cb] = q
      BY <1>12
    <2>2. CASE i = last
      BY <1>11, <2>1, <2>2
    <2>3. CASE i # last
      <3>1. i \in CarriedFor(q) /\ mainQueue'[i] = mainQueue[i]
        BY <1>5, <2>3
      <3>2. QED
        BY <2>1, <3>1 DEF IInv, CalledBeforeQueued
    <2>4. QED
      BY <2>2, <2>3
  <1>15. CalledInOrder'
    BY <1>6, <1>12 DEF IInv, CalledInOrder
  <1>16. QED
    BY <1>1, <1>8, <1>9, <1>10, <1>13, <1>14, <1>15 DEF IInv

LEMMA RunSetResultIInv ==
  ASSUME IInv, RunSetResult
  PROVE  IInv'
  <1> DEFINE b == Head(mainQueue)
             list == pending[b.req]
  <1>1. TypeOK'
    BY RunSetResultTypes DEF IInv
  <1>2. b.op = "setResult" /\ mainQueue # <<>> /\ mainQueue' = Tail(mainQueue)
        /\ registered' = registered
    BY DEF RunSetResult, NextBlockIs
  <1>3. b.req \in Requests /\ b.outcome \in Outcomes
    BY <1>2, HeadBlock DEF IInv, Blocks
  <1>4. CASE list = Nil
    BY <1>1, <1>2, <1>4, DequeueForeign DEF RunSetResult
  <1>5. CASE list # Nil
    <2>1. list \in Seq(Nat \ {0})
      BY <1>3, <1>5 DEF IInv, TypeOK
    <2>2. /\ called' = called \o CallEach(list, b.outcome)
          /\ pending' = [pending EXCEPT ![b.req] = Nil]
      BY <1>5 DEF RunSetResult
    <2>3. /\ Len(called) \in Nat
          /\ Len(list) \in Nat
          /\ Len(called') = Len(called) + Len(list)
          /\ \A i \in 1 .. Len(called) :
               i \in 1 .. Len(called') /\ called'[i] = called[i]
          /\ \A i \in 1 .. Len(list) : /\ Len(called) + i \in 1 .. Len(called')
                                       /\ called'[Len(called) + i].cb = list[i]
                                       /\ called'[Len(called) + i].outcome = b.outcome
      <3>1. called \in Seq(Calls)
        BY DEF IInv, TypeOK
      <3>2. Len(called) \in Nat /\ Len(list) \in Nat
        BY <2>1, <3>1
      <3>3. called' = called \o CallEach(list, b.outcome)
        BY <2>2
      <3>4. /\ Len(called') = Len(called) + Len(list)
            /\ \A i \in 1 .. Len(called) : called'[i] = called[i]
        BY <1>3, <2>1, <3>1, <3>3, CallsAppended, SMTT(30)
      <3>5. \A i \in 1 .. Len(list) : /\ called'[Len(called) + i].cb = list[i]
                                      /\ called'[Len(called) + i].outcome = b.outcome
        BY <1>3, <2>1, <3>1, <3>3, CallsAppended, SMTT(30)
      <3>6. QED
        BY ONLY <3>2, <3>4, <3>5
    <2>4. \A i \in 1 .. Len(called)' :
            \/ i \in 1 .. Len(called) /\ called'[i] = called[i]
            \/ /\ i - Len(called) \in 1 .. Len(list)
               /\ called'[i].cb = list[i - Len(called)]
               /\ i > Len(called)
      <3> SUFFICES ASSUME NEW i \in 1 .. Len(called)', i \notin 1 .. Len(called)
                   PROVE  /\ i - Len(called) \in 1 .. Len(list)
                          /\ called'[i].cb = list[i - Len(called)]
                          /\ i > Len(called)
        BY <2>3
      <3>1. i \in Nat /\ i > Len(called) /\ i - Len(called) \in 1 .. Len(list)
        BY <2>3
      <3>2. Len(called) + (i - Len(called)) = i
        BY <2>3
      <3>3. QED
        BY <2>3, <3>1, <3>2
    <2>5. \A q \in Requests :
            pending'[q] # Nil => q # b.req /\ pending'[q] = pending[q]
      BY <1>3, <2>2 DEF IInv, TypeOK
    <2>6. \A i \in 1 .. Len(list) :
            list[i] \in Callbacks /\ registered[list[i]] = b.req
      BY <1>3, <1>5 DEF IInv, NamesOK
    <2>7. \A q \in Requests : \A i \in CarriedFor(q)' :
            i \in Nat /\ i + 1 \in CarriedFor(q) /\ mainQueue'[i] = mainQueue[i + 1]
      BY <1>2, Dequeue DEF IInv
    <2>8. NamesOK'
      <3>1. Callbacks' = Callbacks
        BY <1>2 DEF Callbacks
      <3>2. \A q \in Requests : \A i \in CarriedFor(q)' :
              mainQueue'[i].cb \in Callbacks /\ registered[mainQueue'[i].cb] = q
        BY <2>7 DEF IInv, NamesOK
      <3>3. \A i \in 1 .. Len(called)' : called'[i].cb \in Callbacks
        BY <2>4, <2>6 DEF IInv, NamesOK
      <3>4. \A q \in Requests : pending'[q] # Nil =>
              \A i \in 1 .. Len(pending'[q]) :
                pending'[q][i] \in Callbacks /\ registered[pending'[q][i]] = q
        BY <2>5 DEF IInv, NamesOK
      <3>5. QED
        BY <1>2, <3>1, <3>2, <3>3, <3>4 DEF NamesOK
    <2>9. NoCallbackLost'
      <3> SUFFICES ASSUME NEW n \in Callbacks
                   PROVE  (Called(n) \/ IsPending(n) \/ IsQueued(n))'
        BY <1>2 DEF NoCallbackLost, Callbacks
      <3>1. CASE Called(n)
        BY <2>3, <3>1 DEF Called
      <3>2. CASE IsPending(n) /\ registered[n] = b.req
        <4>1. PICK i \in 1 .. Len(list) : list[i] = n
          BY <3>2 DEF IsPending
        <4>2. /\ Len(called) + i \in 1 .. Len(called')
              /\ called'[Len(called) + i].cb = n
          BY <2>3, <4>1
        <4>3. QED
          BY <4>2 DEF Called
      <3>3. CASE IsPending(n) /\ registered[n] # b.req
        <4>1. pending'[registered[n]] = pending[registered[n]]
          BY <2>2, <3>3
        <4>2. QED
          BY <1>2, <3>3, <4>1 DEF IsPending
      <3>4. CASE IsQueued(n)
        BY <1>2, <3>4, Dequeue DEF IInv
      <3>5. QED
        BY <3>1, <3>2, <3>3, <3>4 DEF IInv, NoCallbackLost
    <2>10. QueueInOrder'
      BY <2>7 DEF IInv, QueueInOrder
    <2>11. PendingInOrder'
      <3> SUFFICES ASSUME NEW q \in Requests, pending'[q] # Nil
                   PROVE  /\ \A i, j \in 1 .. Len(pending'[q]) :
                               i < j => pending'[q][i] < pending'[q][j]
                          /\ \A i \in CarriedFor(q)' :
                               /\ mainQueue'[i].op = "withResult"
                               /\ \A j \in 1 .. Len(pending'[q]) :
                                    pending'[q][j] < mainQueue'[i].cb
                          /\ \A i \in 1 .. Len(called') : registered[called'[i].cb] # q
        BY <1>2 DEF PendingInOrder
      <3>1. q # b.req /\ pending'[q] = pending[q]
        BY <2>5
      <3>2. /\ \A i, j \in 1 .. Len(pending[q]) : i < j => pending[q][i] < pending[q][j]
            /\ \A i \in CarriedFor(q) :
                 /\ mainQueue[i].op = "withResult"
                 /\ \A j \in 1 .. Len(pending[q]) : pending[q][j] < mainQueue[i].cb
            /\ \A i \in 1 .. Len(called) : registered[called[i].cb] # q
        BY <3>1 DEF IInv, PendingInOrder
      <3>3. QED
        BY <2>4, <2>6, <2>7, <3>1, <3>2
    <2>12. CalledBeforeQueued'
      <3> SUFFICES ASSUME NEW q \in Requests, NEW i \in CarriedFor(q)',
                          NEW j \in 1 .. Len(called)', registered[called'[j].cb] = q
                   PROVE  called'[j].cb < mainQueue'[i].cb
        BY <1>2 DEF CalledBeforeQueued
      <3>1. CASE j \in 1 .. Len(called)
        BY <2>3, <2>7, <3>1 DEF IInv, CalledBeforeQueued
      <3>2. CASE j \notin 1 .. Len(called)
        <4>1. PICK k \in 1 .. Len(list) : called'[j].cb = list[k]
          BY <2>4, <3>2
        <4>2. q = b.req
          BY <2>6, <4>1
        <4>3. list[k] < mainQueue[i + 1].cb
          BY <1>5, <2>7, <4>2 DEF IInv, PendingInOrder
        <4>4. QED
          BY <2>7, <4>1, <4>3
      <3>3. QED
        BY <3>1, <3>2
    <2>13. CalledInOrder'
      <3> SUFFICES ASSUME NEW i \in 1 .. Len(called)', NEW j \in 1 .. Len(called)',
                          i < j, registered[called'[i].cb] = registered[called'[j].cb]
                   PROVE  called'[i].cb < called'[j].cb
        BY <1>2 DEF CalledInOrder
      <3>1. CASE j \in 1 .. Len(called)
        <4>1. i \in 1 .. Len(called)
          BY <3>1, <2>3
        <4>2. QED
          BY <2>3, <3>1, <4>1 DEF IInv, CalledInOrder
      <3>2. CASE j \notin 1 .. Len(called) /\ i \in 1 .. Len(called)
        <4>1. registered[called'[j].cb] = b.req
          BY <2>4, <2>6, <3>2
        <4>2. registered[called[i].cb] # b.req
          BY <1>3, <1>5, <3>2 DEF IInv, PendingInOrder
        <4>3. QED
          BY <2>3, <3>2, <4>1, <4>2
      <3>3. CASE j \notin 1 .. Len(called) /\ i \notin 1 .. Len(called)
        <4>1. i - Len(called) < j - Len(called)
          BY <2>3
        <4>2. QED
          BY <1>3, <1>5, <2>4, <3>3, <4>1 DEF IInv, PendingInOrder
      <3>4. QED
        BY <3>1, <3>2, <3>3
    <2>14. QED
      BY <1>1, <2>8, <2>9, <2>10, <2>11, <2>12, <2>13 DEF IInv
  <1>6. QED
    BY <1>4, <1>5

\* A withResult block that finds the request still unresolved.
LEMMA RunWithResultEarly ==
  ASSUME IInv, RunWithResult, pending[Head(mainQueue).req] # Nil
  PROVE  IInv'
  <1> DEFINE b == Head(mainQueue)
             list == pending[b.req]
             last == Len(list) + 1
  <1>1. TypeOK'
    BY RunWithResultTypes DEF IInv
  <1>2. /\ b.op = "withResult" /\ mainQueue # <<>>
        /\ mainQueue' = Tail(mainQueue)
        /\ pending' = [pending EXCEPT ![b.req] = Append(list, b.cb)]
        /\ registered' = registered /\ called' = called
    BY DEF RunWithResult, NextBlockIs
  <1>3. b.req \in Requests /\ b.cb \in Nat \ {0} /\ 1 \in CarriedFor(b.req)
        /\ b = mainQueue[1]
    BY <1>2, HeadBlock DEF IInv, Blocks, CarriedFor
  <1>4. list \in Seq(Nat \ {0}) /\ last \in Nat
    BY <1>3 DEF IInv, TypeOK
  <1>5. /\ last \in 1 .. Len(pending'[b.req])
        /\ pending'[b.req][last] = b.cb
        /\ \A i \in 1 .. Len(list) : i \in 1 .. Len(pending'[b.req])
                                     /\ pending'[b.req][i] = list[i]
        /\ \A i \in 1 .. Len(pending'[b.req]) :
             \/ i \in 1 .. Len(list) /\ i < last /\ pending'[b.req][i] = list[i]
             \/ i = last
    <2>1. pending \in [Requests -> Seq(Nat \ {0}) \cup {Nil}]
      BY DEF IInv, TypeOK
    <2>2. pending'[b.req] = Append(list, b.cb)
      BY <1>2, <1>3, <2>1
    <2> HIDE DEF list, b
    <2>3. QED
      BY <1>3, <1>4, <2>2, OneMore
  <1>6. /\ pending'[b.req] # Nil
        /\ \A q \in Requests : q # b.req => pending'[q] = pending[q]
    <2>1. Append(list, b.cb) \in Seq(Nat \ {0})
      BY <1>3, <1>4
    <2>2. Append(list, b.cb) # Nil
      BY <2>1, NilAssumption
    <2>3. pending \in [Requests -> Seq(Nat \ {0}) \cup {Nil}]
      BY DEF IInv, TypeOK
    <2>4. QED
      BY <1>2, <1>3, <2>2, <2>3
  <1>7. \A q \in Requests : \A i \in CarriedFor(q)' :
          /\ i \in Nat /\ i # 0
          /\ i + 1 \in CarriedFor(q) /\ mainQueue'[i] = mainQueue[i + 1]
    BY <1>2, Dequeue DEF IInv
  <1>8. b.cb \in Callbacks /\ registered[b.cb] = b.req
    BY <1>3 DEF IInv, NamesOK
  <1>9. NamesOK'
    <2>1. Callbacks' = Callbacks
      BY <1>2 DEF Callbacks
    <2>2. \A q \in Requests : \A i \in CarriedFor(q)' :
            mainQueue'[i].cb \in Callbacks /\ registered[mainQueue'[i].cb] = q
      BY <1>7 DEF IInv, NamesOK
    <2>3. \A q \in Requests : pending'[q] # Nil =>
            \A i \in 1 .. Len(pending'[q]) :
              pending'[q][i] \in Callbacks /\ registered[pending'[q][i]] = q
      <3> SUFFICES ASSUME NEW q \in Requests, pending'[q] # Nil,
                          NEW i \in 1 .. Len(pending'[q])
                   PROVE  pending'[q][i] \in Callbacks /\ registered[pending'[q][i]] = q
        OBVIOUS
      <3>1. CASE q # b.req
        BY <1>6, <3>1 DEF IInv, NamesOK
      <3>2. CASE q = b.req /\ i = last
        BY <1>5, <1>8, <3>2
      <3>3. CASE q = b.req /\ i # last
        <4>1. i \in 1 .. Len(list) /\ pending'[q][i] = list[i]
          BY <1>5, <3>3
        <4>2. QED
          BY <1>3, <3>3, <4>1 DEF IInv, NamesOK
      <3>4. QED
        BY <3>1, <3>2, <3>3
    <2>4. \A i \in 1 .. Len(called') : called'[i].cb \in Callbacks
      BY <1>2 DEF IInv, NamesOK
    <2>5. registered' = registered
      BY <1>2
    <2>6. QED
      BY ONLY <2>1, <2>2, <2>3, <2>4, <2>5 DEF NamesOK
  <1>10. NoCallbackLost'
    <2> SUFFICES ASSUME NEW n \in Callbacks
                 PROVE  (Called(n) \/ IsPending(n) \/ IsQueued(n))'
      BY <1>2 DEF NoCallbackLost, Callbacks
    <2>1. CASE Called(n)
      BY <1>2, <2>1 DEF Called
    <2>2. CASE IsPending(n)
      <3>1. registered[n] \in Requests /\ registered'[n] = registered[n]
        BY <1>2 DEF IInv, TypeOK, Callbacks
      <3>2. PICK i \in 1 .. Len(pending[registered[n]]) : pending[registered[n]][i] = n
        BY <2>2 DEF IsPending
      <3>3. /\ pending'[registered[n]] # Nil
            /\ i \in 1 .. Len(pending'[registered[n]])
            /\ pending'[registered[n]][i] = n
        <4>1. CASE registered[n] # b.req
          BY <1>6, <2>2, <3>1, <3>2, <4>1 DEF IsPending
        <4>2. CASE registered[n] = b.req
          BY <1>5, <1>6, <3>2, <4>2
        <4>3. QED
          BY <4>1, <4>2
      <3>4. QED
        BY <3>1, <3>3 DEF IsPending
    <2>3. CASE IsQueued(n) /\ n # b.cb
      BY <1>2, <2>3, Dequeue DEF IInv
    <2>4. CASE n = b.cb
      <3>1. registered'[n] = b.req
        BY <1>2, <1>8, <2>4
      <3>2. QED
        BY <1>5, <1>6, <2>4, <3>1 DEF IsPending
    <2>5. QED
      BY <2>1, <2>2, <2>3, <2>4 DEF IInv, NoCallbackLost
  <1>11. QueueInOrder'
    BY <1>7 DEF IInv, QueueInOrder
  <1>12. PendingInOrder'
    <2> SUFFICES ASSUME NEW q \in Requests, pending'[q] # Nil
                 PROVE  /\ \A i, j \in 1 .. Len(pending'[q]) :
                             i < j => pending'[q][i] < pending'[q][j]
                        /\ \A i \in CarriedFor(q)' :
                             /\ mainQueue'[i].op = "withResult"
                             /\ \A j \in 1 .. Len(pending'[q]) :
                                  pending'[q][j] < mainQueue'[i].cb
                        /\ \A i \in 1 .. Len(called) : registered[called[i].cb] # q
      BY <1>2 DEF PendingInOrder
    <2>1. CASE q # b.req
      BY <1>6, <1>7, <2>1 DEF IInv, PendingInOrder
    <2>2. CASE q = b.req
      <3>1. /\ \A i, j \in 1 .. Len(list) : i < j => list[i] < list[j]
            /\ \A i \in CarriedFor(q) :
                 /\ mainQueue[i].op = "withResult"
                 /\ \A j \in 1 .. Len(list) : list[j] < mainQueue[i].cb
            /\ \A i \in 1 .. Len(called) : registered[called[i].cb] # q
        BY <2>2 DEF IInv, PendingInOrder
      <3>2. \A j \in 1 .. Len(list) : list[j] < b.cb
        BY <1>3, <2>2, <3>1
      <3>3. \A i \in CarriedFor(q)' :
              mainQueue'[i].op = "withResult" /\ b.cb < mainQueue'[i].cb
        <4> SUFFICES ASSUME NEW i \in CarriedFor(q)'
                     PROVE  mainQueue'[i].op = "withResult" /\ b.cb < mainQueue'[i].cb
          OBVIOUS
        <4>1. 1 < i + 1 /\ i + 1 \in CarriedFor(q) /\ mainQueue'[i] = mainQueue[i + 1]
          BY <1>7
        <4>2. mainQueue[i + 1].op = "withResult" /\ mainQueue[1].op = "withResult"
          BY <1>2, <1>3, <3>1, <4>1
        <4>3. mainQueue[1].cb < mainQueue[i + 1].cb
          BY <1>3, <2>2, <4>1, <4>2 DEF IInv, QueueInOrder
        <4>4. QED
          BY <1>3, <4>1, <4>2, <4>3
      <3>4. \A i, j \in 1 .. Len(pending'[q]) :
              i < j => pending'[q][i] < pending'[q][j]
        <4> SUFFICES ASSUME NEW i \in 1 .. Len(pending'[b.req]),
                            NEW j \in 1 .. Len(pending'[b.req]), i < j
                     PROVE  pending'[b.req][i] < pending'[b.req][j]
          BY <2>2
        <4>1. i \in 1 .. Len(list) /\ pending'[b.req][i] = list[i]
          <5>1. i \in Int /\ j \in Int /\ (j < last \/ j = last)
            BY <1>5, SMTT(30)
          <5>2. i # last
            BY <1>4, <5>1
          <5>3. QED
            BY <1>5, <5>2
        <4>2. CASE j = last
          BY <1>5, <3>2, <4>1, <4>2
        <4>3. CASE j # last
          BY <1>5, <3>1, <4>1, <4>3
        <4>4. QED
          BY <4>2, <4>3
      <3>5. \A i \in CarriedFor(q)' : \A j \in 1 .. Len(pending'[q]) :
              pending'[q][j] < mainQueue'[i].cb
        <4> SUFFICES ASSUME NEW i \in CarriedFor(q)', NEW j \in 1 .. Len(pending'[b.req])
                     PROVE  pending'[b.req][j] < mainQueue'[i].cb
          BY <2>2
        <4>1. CASE j = last
          BY <1>5, <3>3, <4>1
        <4>2. CASE j # last
          <5>1. j \in 1 .. Len(list) /\ pending'[b.req][j] = list[j]
            BY <1>5, <4>2
          <5>2. i + 1 \in CarriedFor(q) /\ mainQueue'[i] = mainQueue[i + 1]
            BY <1>7
          <5>3. QED
            BY <3>1, <5>1, <5>2
        <4>3. QED
          BY <4>1, <4>2
      <3>6. QED
        BY <3>1, <3>3, <3>4, <3>5
    <2>3. QED
      BY <2>1, <2>2
  <1>13. CalledBeforeQueued'
    BY <1>2, <1>7 DEF IInv, CalledBeforeQueued
  <1>14. CalledInOrder'
    BY <1>2 DEF IInv, CalledInOrder
  <1>15. QED
    BY <1>1, <1>9, <1>10, <1>11, <1>12, <1>13, <1>14 DEF IInv

\* A withResult block that finds the result there: a second trip.
LEMMA RunWithResultLate ==
  ASSUME IInv, RunWithResult, pending[Head(mainQueue).req] = Nil
  PROVE  IInv'
  <1> DEFINE b == Head(mainQueue)
             last == Len(mainQueue)
  <1>1. TypeOK'
    BY RunWithResultTypes DEF IInv
  <1>2. /\ b.op = "withResult" /\ mainQueue # <<>>
        /\ mainQueue' = Append(Tail(mainQueue), CallBlock(b.req, b.cb))
        /\ pending' = pending
        /\ registered' = registered /\ called' = called
    BY DEF RunWithResult, NextBlockIs
  <1>3. b.req \in Requests /\ b.cb \in Nat \ {0} /\ 1 \in CarriedFor(b.req)
        /\ b = mainQueue[1]
    BY <1>2, HeadBlock DEF IInv, Blocks, CarriedFor
  <1>4. /\ last \in Nat /\ last # 0
        /\ Len(mainQueue') = last
        /\ mainQueue'[last] = CallBlock(b.req, b.cb)
        /\ \A i \in 1 .. last : i # last =>
             i + 1 \in 1 .. last /\ mainQueue'[i] = mainQueue[i + 1]
    BY <1>2, HeadBlock DEF IInv, TypeOK
  <1>5. \A q \in Requests : \A i \in CarriedFor(q)' :
          \/ /\ i \in Nat /\ i # 0 /\ i < last
             /\ i + 1 \in CarriedFor(q) /\ mainQueue'[i] = mainQueue[i + 1]
          \/ q = b.req /\ i = last
    BY <1>4 DEF CarriedFor, CallBlock
  <1>6. b.cb \in Callbacks /\ registered[b.cb] = b.req
    BY <1>3 DEF IInv, NamesOK
  <1>7. NamesOK'
    <2>1. Callbacks' = Callbacks
      BY <1>2 DEF Callbacks
    <2>2. \A q \in Requests : \A i \in CarriedFor(q)' :
            mainQueue'[i].cb \in Callbacks /\ registered[mainQueue'[i].cb] = q
      BY <1>4, <1>5, <1>6 DEF IInv, NamesOK, CallBlock
    <2>3. QED
      BY <1>2, <2>1, <2>2 DEF IInv, NamesOK
  <1>8. NoCallbackLost'
    <2> SUFFICES ASSUME NEW n \in Callbacks
                 PROVE  (Called(n) \/ IsPending(n) \/ IsQueued(n))'
      BY <1>2 DEF NoCallbackLost, Callbacks
    <2>1. CASE IsQueued(n)
      <3>1. PICK i \in 1 .. last :
              mainQueue[i].op \in {"withResult", "call"} /\ mainQueue[i].cb = n
        BY <2>1 DEF IsQueued
      <3>2. CASE i = 1
        BY <1>3, <1>4, <3>1, <3>2 DEF IsQueued, CallBlock
      <3>3. CASE i # 1
        <4>1. i - 1 \in 1 .. last /\ i - 1 # last /\ (i - 1) + 1 = i
          BY <1>4, <3>3
        <4>2. mainQueue'[i - 1] = mainQueue[i]
          BY <1>4, <4>1
        <4>3. QED
          BY <1>4, <3>1, <4>1, <4>2 DEF IsQueued
      <3>4. QED
        BY <3>2, <3>3
    <2>2. CASE Called(n) \/ IsPending(n)
      BY <1>2, <2>2 DEF Called, IsPending
    <2>3. QED
      BY <2>1, <2>2 DEF IInv, NoCallbackLost
  <1>9. QueueInOrder'
    <2> SUFFICES ASSUME NEW q \in Requests,
                        NEW i \in CarriedFor(q)', NEW j \in CarriedFor(q)'
                 PROVE  /\ i < j /\ mainQueue'[i].op = mainQueue'[j].op
                             => mainQueue'[i].cb < mainQueue'[j].cb
                        /\ mainQueue'[i].op = "call" /\ mainQueue'[j].op = "withResult"
                             => mainQueue'[i].cb < mainQueue'[j].cb
      BY DEF QueueInOrder
    <2>1. CASE i # last /\ j # last
      BY <1>5, <2>1 DEF IInv, QueueInOrder
    <2>2. CASE i # last /\ j = last
      <3>1. q = b.req /\ i + 1 \in CarriedFor(q) /\ mainQueue'[i] = mainQueue[i + 1]
        BY <1>4, <1>5, <2>2
      <3>2. mainQueue'[j].op = "call" /\ mainQueue'[j].cb = b.cb
        BY <1>4, <2>2 DEF CallBlock
      <3>3. mainQueue[i + 1].op = "call" => mainQueue[i + 1].cb < b.cb
        BY <1>2, <1>3, <3>1 DEF IInv, QueueInOrder
      <3>4. QED
        BY <3>1, <3>2, <3>3
    <2>3. CASE i = last /\ j # last
      <3>1. /\ q = b.req /\ j + 1 \in CarriedFor(q) /\ mainQueue'[j] = mainQueue[j + 1]
            /\ j \in Nat /\ j < last /\ 1 < j + 1
        BY <1>4, <1>5, <2>3
      <3>2. mainQueue'[i].op = "call" /\ mainQueue'[i].cb = b.cb
        BY <1>4, <2>3 DEF CallBlock
      <3>3. mainQueue[j + 1].op = "withResult" => b.cb < mainQueue[j + 1].cb
        BY <1>2, <1>3, <3>1 DEF IInv, QueueInOrder
      <3>4. QED
        BY <1>4, <2>3, <3>1, <3>2, <3>3
    <2>4. CASE i = last /\ j = last
      BY <1>4, <2>4 DEF CallBlock
    <2>5. QED
      BY <2>1, <2>2, <2>3, <2>4
  <1>10. PendingInOrder'
    <2> SUFFICES ASSUME NEW q \in Requests, pending[q] # Nil, NEW i \in CarriedFor(q)'
                 PROVE  /\ mainQueue'[i].op = "withResult"
                        /\ \A j \in 1 .. Len(pending[q]) :
                             pending[q][j] < mainQueue'[i].cb
      BY <1>2 DEF IInv, PendingInOrder
    <2>1. i + 1 \in CarriedFor(q) /\ mainQueue'[i] = mainQueue[i + 1]
      BY <1>5
    <2>2. QED
      BY <2>1 DEF IInv, PendingInOrder
  <1>11. CalledBeforeQueued'
    <2> SUFFICES ASSUME NEW q \in Requests, NEW i \in CarriedFor(q)',
                        NEW j \in 1 .. Len(called), registered[called[j].cb] = q
                 PROVE  called[j].cb < mainQueue'[i].cb
      BY <1>2 DEF CalledBeforeQueued
    <2>1. CASE i # last
      BY <1>5, <2>1 DEF IInv, CalledBeforeQueued
    <2>2. CASE i = last
      <3>1. q = b.req /\ mainQueue'[i].cb = mainQueue[1].cb
        BY <1>3, <1>4, <1>5, <2>2 DEF CallBlock
      <3>2. QED
        BY <1>3, <3>1 DEF IInv, CalledBeforeQueued
    <2>3. QED
      BY <2>1, <2>2
  <1>12. CalledInOrder'
    BY <1>2 DEF IInv, CalledInOrder
  <1>13. QED
    BY <1>1, <1>7, <1>8, <1>9, <1>10, <1>11, <1>12 DEF IInv

LEMMA RunCallIInv ==
  ASSUME IInv, RunCall
  PROVE  IInv'
  <1> DEFINE b == Head(mainQueue)
             last == Len(called) + 1
  <1>1. TypeOK'
    BY RunCallTypes DEF IInv
  <1>2. /\ b.op = "call" /\ mainQueue # <<>>
        /\ mainQueue' = Tail(mainQueue)
        /\ called' = Append(called, Call(b.cb, outcome[b.req]))
        /\ pending' = pending /\ registered' = registered
    BY DEF RunCall, NextBlockIs
  <1>3. b.req \in Requests /\ b.cb \in Nat \ {0} /\ 1 \in CarriedFor(b.req)
        /\ b = mainQueue[1]
    BY <1>2, HeadBlock DEF IInv, Blocks, CarriedFor
  <1>4. /\ last \in 1 .. Len(called')
        /\ called'[last].cb = b.cb
        /\ \A i \in 1 .. Len(called) :
             i \in 1 .. Len(called') /\ called'[i] = called[i]
        /\ \A i \in 1 .. Len(called') :
             \/ i \in 1 .. Len(called) /\ called'[i] = called[i] /\ i < last
             \/ i = last
    BY <1>2 DEF IInv, TypeOK, Call
  <1>5. \A q \in Requests : \A i \in CarriedFor(q)' :
          /\ i \in Nat /\ i # 0
          /\ i + 1 \in CarriedFor(q) /\ mainQueue'[i] = mainQueue[i + 1]
    BY <1>2, Dequeue DEF IInv
  <1>6. b.cb \in Callbacks /\ registered[b.cb] = b.req
    BY <1>3 DEF IInv, NamesOK
  <1>7. pending[b.req] = Nil
    BY <1>2, <1>3 DEF IInv, PendingInOrder
  <1>8. NamesOK'
    <2>1. Callbacks' = Callbacks
      BY <1>2 DEF Callbacks
    <2>2. \A q \in Requests : \A i \in CarriedFor(q)' :
            mainQueue'[i].cb \in Callbacks /\ registered[mainQueue'[i].cb] = q
      BY <1>5 DEF IInv, NamesOK
    <2>3. \A i \in 1 .. Len(called') : called'[i].cb \in Callbacks
      BY <1>4, <1>6 DEF IInv, NamesOK
    <2>4. QED
      BY <1>2, <2>1, <2>2, <2>3 DEF IInv, NamesOK
  <1>9. NoCallbackLost'
    <2> SUFFICES ASSUME NEW n \in Callbacks
                 PROVE  (Called(n) \/ IsPending(n) \/ IsQueued(n))'
      BY <1>2 DEF NoCallbackLost, Callbacks
    <2>1. CASE Called(n)
      BY <1>4, <2>1 DEF Called
    <2>2. CASE IsPending(n)
      BY <1>2, <2>2 DEF IsPending
    <2>3. CASE IsQueued(n) /\ n # b.cb
      BY <1>2, <2>3, Dequeue DEF IInv
    <2>4. CASE n = b.cb
      BY <1>4, <2>4 DEF Called
    <2>5. QED
      BY <2>1, <2>2, <2>3, <2>4 DEF IInv, NoCallbackLost
  <1>10. QueueInOrder'
    BY <1>5 DEF IInv, QueueInOrder
  <1>11. PendingInOrder'
    <2> SUFFICES ASSUME NEW q \in Requests, pending[q] # Nil
                 PROVE  /\ \A i \in CarriedFor(q)' :
                             /\ mainQueue'[i].op = "withResult"
                             /\ \A j \in 1 .. Len(pending[q]) :
                                  pending[q][j] < mainQueue'[i].cb
                        /\ \A i \in 1 .. Len(called') : registered[called'[i].cb] # q
      BY <1>2 DEF IInv, PendingInOrder
    <2>1. q # b.req
      BY <1>7
    <2>2. QED
      BY <1>4, <1>5, <1>6, <2>1 DEF IInv, PendingInOrder
  <1>12. CalledBeforeQueued'
    <2> SUFFICES ASSUME NEW q \in Requests, NEW i \in CarriedFor(q)',
                        NEW j \in 1 .. Len(called'), registered[called'[j].cb] = q
                 PROVE  called'[j].cb < mainQueue'[i].cb
      BY <1>2 DEF CalledBeforeQueued
    <2>1. CASE j # last
      BY <1>4, <1>5, <2>1 DEF IInv, CalledBeforeQueued
    <2>2. CASE j = last
      <3>1. q = b.req /\ called'[j].cb = b.cb
        BY <1>4, <1>6, <2>2
      <3>2. /\ 1 < i + 1 /\ i + 1 \in CarriedFor(q) /\ mainQueue'[i] = mainQueue[i + 1]
            /\ mainQueue[i + 1].op \in {"withResult", "call"}
        BY <1>5 DEF CarriedFor
      <3>3. b.cb < mainQueue[i + 1].cb
        BY <1>2, <1>3, <3>1, <3>2 DEF IInv, QueueInOrder
      <3>4. QED
        BY <3>1, <3>2, <3>3
    <2>3. QED
      BY <2>1, <2>2
  <1>13. CalledInOrder'
    <2> SUFFICES ASSUME NEW i \in 1 .. Len(called'), NEW j \in 1 .. Len(called'),
                        i < j, registered[called'[i].cb] = registered[called'[j].cb]
                 PROVE  called'[i].cb < called'[j].cb
      BY <1>2 DEF CalledInOrder
    <2>1. i # last /\ i \in 1 .. Len(called) /\ called'[i] = called[i]
      BY <1>4
    <2>2. CASE j # last
      BY <1>4, <2>1, <2>2 DEF IInv, CalledInOrder
    <2>3. CASE j = last
      BY <1>3, <1>4, <1>6, <2>1, <2>3 DEF IInv, CalledBeforeQueued
    <2>4. QED
      BY <2>2, <2>3
  <1>14. QED
    BY <1>1, <1>8, <1>9, <1>10, <1>11, <1>12, <1>13 DEF IInv

LEMMA NextIInv == IInv /\ [Next]_vars => IInv'
  <1> SUFFICES ASSUME IInv, [Next]_vars
               PROVE  IInv'
    OBVIOUS
  <1>1. ASSUME NEW r \in Requests, NEW v \in Outcomes, SetResult(r, v)
        PROVE  IInv'
    <2>1. SetResultBlock(r, v) \in Blocks /\ SetResultBlock(r, v).op = "setResult"
      BY DEF SetResultBlock, Blocks
    <2>2. QED
      BY <1>1, <2>1, EnqueueForeign, SetResultTypes DEF IInv, SetResult
  <1>2. ASSUME NEW w \in Work, DispatchOther(w)
        PROVE  IInv'
    <2>1. OtherBlock(w) \in Blocks /\ OtherBlock(w).op = "other"
      BY DEF OtherBlock, Blocks
    <2>2. QED
      BY <1>2, <2>1, EnqueueForeign, DispatchOtherTypes DEF IInv, DispatchOther
  <1>3. ASSUME RunOther
        PROVE  IInv'
    BY <1>3, DequeueForeign, RunOtherTypes DEF IInv, RunOther, NextBlockIs
  <1>4. CASE UNCHANGED vars
    <2>1. TypeOK /\ CalledInOrder => TypeOK' /\ CalledInOrder'
      BY <1>4 DEF vars, TypeOK, CalledInOrder
    <2>2. NamesOK => NamesOK'
      BY <1>4 DEF vars, NamesOK, CarriedFor, Callbacks
    <2>3. NoCallbackLost => NoCallbackLost'
      BY <1>4 DEF vars, NoCallbackLost, Callbacks, Called, IsPending, IsQueued
    <2>4. QueueInOrder /\ CalledBeforeQueued => QueueInOrder' /\ CalledBeforeQueued'
      BY <1>4 DEF vars, QueueInOrder, CalledBeforeQueued, CarriedFor
    <2>5. PendingInOrder => PendingInOrder'
      BY <1>4 DEF vars, PendingInOrder, CarriedFor
    <2>6. QED
      BY <2>1, <2>2, <2>3, <2>4, <2>5 DEF IInv
  <1>5. QED
    BY <1>1, <1>2, <1>3, <1>4, WithResultIInv, RunSetResultIInv,
       RunWithResultEarly, RunWithResultLate, RunCallIInv DEF Next, RunMain

(* The invariant holds in every state of every execution.                  *)
THEOREM Invariance == Spec => []IInv
  BY InitIInv, NextIInv, PTL DEF Spec

(* A callback handed to withResult is never lost between the pending list  *)
(* and the blocks of the main queue, for any number of requests, callbacks *)
(* and calls of setResult.                                                 *)
THEOREM NothingLost == Spec => []NoCallbackLost
  <1>1. IInv => NoCallbackLost
    BY DEF IInv
  <1>2. QED
    BY <1>1, Invariance, PTL

(* The callbacks of a request run in the order of their withResult calls,  *)
(* each at most once, though the early and the late ones take different    *)
(* ways over the main queue.                                               *)
THEOREM OrderKept == Spec => []CalledInOrder
  <1>1. IInv => CalledInOrder
    BY DEF IInv
  <1>2. QED
    BY <1>1, Invariance, PTL

-----------------------------------------------------------------------------
(***************************************************************************)
(* AsyncRequest implements AsyncFuture: every step of the class is one     *)
(* step of the future, or none.                                            *)
(***************************************************************************)

\* The variable "published" of the future.
Published == [r \in Requests |-> pending[r] = Nil]

LEMMA InitRefines == Init => Future!Init
  <1>1. <<>> # Nil
    <2>1. <<>> \in Seq(Nat \ {0})
      OBVIOUS
    <2>2. QED
      BY <2>1, NilAssumption
  <1>2. QED
    BY <1>1 DEF Init, Future!Init

-----------------------------------------------------------------------------
(* Steps the future does not see.                                          *)

LEMMA QueueStepStutters ==
  ASSUME UNCHANGED <<pending, outcome, registered, called>>
  PROVE  UNCHANGED Future!vars
  BY DEF Future!vars

LEMMA EarlyStepStutters ==
  ASSUME IInv, RunWithResult
  PROVE  UNCHANGED Future!vars
  <1> DEFINE b == Head(mainQueue)
  <1>1. b.req \in Requests /\ b.cb \in Nat \ {0}
    BY HeadBlock DEF RunWithResult, NextBlockIs, Blocks, IInv
  <1>2. UNCHANGED <<outcome, registered, called>>
    BY DEF RunWithResult
  <1>3. CASE pending[b.req] = Nil
    BY <1>2, <1>3, QueueStepStutters DEF RunWithResult
  <1>4. CASE pending[b.req] # Nil
    <2>1. pending \in [Requests -> Seq(Nat \ {0}) \cup {Nil}]
      BY DEF IInv, TypeOK
    <2>2. pending' = [pending EXCEPT ![b.req] = Append(@, b.cb)]
      BY <1>4 DEF RunWithResult
    <2>3. Append(pending[b.req], b.cb) # Nil
      <3>1. Append(pending[b.req], b.cb) \in Seq(Nat \ {0})
        BY <1>1, <1>4, <2>1
      <3>2. QED
        BY <3>1, NilAssumption
    <2>4. \A r \in Requests : (pending'[r] = Nil) <=> (pending[r] = Nil)
      BY <1>1, <1>4, <2>1, <2>2, <2>3
    <2>5. Published' = Published
      BY <2>4 DEF Published
    <2>6. QED
      BY <1>2, <2>5 DEF Future!vars, Published
  <1>5. QED
    BY <1>3, <1>4

-----------------------------------------------------------------------------
(* Steps of the future.                                                    *)

LEMMA WithResultRegisters ==
  ASSUME NEW r \in Requests, WithResult(r)
  PROVE  Future!Register(r)
  BY DEF WithResult, Future!Register

\* Storing an outcome publishes; the callbacks that were waiting are served.
LEMMA RunSetResultPublishes ==
  ASSUME IInv, RunSetResult
  PROVE  Future!Publish(Head(mainQueue).req)
  <1> DEFINE b == Head(mainQueue)
             list == pending[b.req]
             more == CallEach(list, b.outcome)
  <1>1. b.req \in Requests /\ b.outcome \in Outcomes
    BY HeadBlock DEF RunSetResult, NextBlockIs, Blocks, IInv
  <1>2. /\ outcome' = [outcome EXCEPT ![b.req] = b.outcome]
        /\ registered' = registered
    BY DEF RunSetResult
  <1>3. outcome'[b.req] = b.outcome
    BY <1>1, <1>2 DEF IInv, TypeOK
  <1>4. CASE list = Nil
    <2>1. called' = called /\ pending' = pending
      BY <1>4 DEF RunSetResult
    <2>2. Published' = [Published EXCEPT ![b.req] = TRUE]
      BY <1>1, <1>4, <2>1 DEF Published
    <2>3. Future!Serve(b.req)
      <3>1. Len(called) \in Nat
        BY DEF IInv, TypeOK
      <3>2. Future!New = {}
        BY <2>1, <3>1 DEF Future!New
      <3>3. QED
        BY <2>1, <3>1, <3>2 DEF Future!Serve
    <2>4. QED
      BY <1>1, <1>2, <2>2, <2>3 DEF Future!Publish, Published
  <1>5. CASE list # Nil
    <2>1. list \in Seq(Nat \ {0})
      BY <1>1, <1>5 DEF IInv, TypeOK
    <2>2. called' = called \o more /\ pending' = [pending EXCEPT ![b.req] = Nil]
      BY <1>5 DEF RunSetResult
    <2>3. pending \in [Requests -> Seq(Nat \ {0}) \cup {Nil}]
      BY DEF IInv, TypeOK
    <2>4. Published' = [Published EXCEPT ![b.req] = TRUE]
      BY <1>1, <2>2, <2>3 DEF Published
    <2>5. /\ Len(called) \in Nat
          /\ Len(list) \in Nat
          /\ Len(called') = Len(called) + Len(list)
          /\ \A i \in 1 .. Len(called) :
               i \in 1 .. Len(called') /\ called'[i] = called[i]
          /\ \A i \in 1 .. Len(list) :
               /\ Len(called) + i \in 1 .. Len(called')
               /\ called'[Len(called) + i].cb = list[i]
               /\ called'[Len(called) + i].outcome = b.outcome
      <3>1. called \in Seq(Calls)
        BY DEF IInv, TypeOK
      <3>2. called' = called \o CallEach(list, b.outcome)
        BY <2>2
      <3>3. Len(called) \in Nat /\ Len(list) \in Nat
        BY <2>1, <3>1
      <3>4. /\ Len(called') = Len(called) + Len(list)
            /\ \A i \in 1 .. Len(called) : called'[i] = called[i]
        BY <1>1, <2>1, <3>1, <3>2, CallsAppended, SMTT(30)
      <3>5. \A i \in 1 .. Len(list) : /\ called'[Len(called) + i].cb = list[i]
                                      /\ called'[Len(called) + i].outcome = b.outcome
        BY <1>1, <2>1, <3>1, <3>2, CallsAppended, SMTT(30)
      <3>6. QED
        BY ONLY <3>3, <3>4, <3>5
    <2>6. \A i \in Future!New :
            /\ i - Len(called) \in 1 .. Len(list)
            /\ i \in Int
            /\ called'[i].cb = list[i - Len(called)]
            /\ called'[i].outcome = b.outcome
      <3> SUFFICES ASSUME NEW i \in Future!New
                   PROVE  /\ i - Len(called) \in 1 .. Len(list)
                          /\ i \in Int
                          /\ called'[i].cb = list[i - Len(called)]
                          /\ called'[i].outcome = b.outcome
        OBVIOUS
      <3>1. /\ i \in Int /\ i - Len(called) \in 1 .. Len(list)
            /\ Len(called) + (i - Len(called)) = i
        BY <2>5 DEF Future!New
      <3>2. QED
        BY <2>5, <3>1
    <2>7. \A k \in 1 .. Len(list) :
            Len(called) + k \in Future!New /\ called'[Len(called) + k].cb = list[k]
      BY <2>5 DEF Future!New
    <2>8. /\ \A i, j \in 1 .. Len(list) : i < j => list[i] < list[j]
          /\ \A i \in CarriedFor(b.req) : \A j \in 1 .. Len(list) :
               list[j] < mainQueue[i].cb
          /\ \A i \in 1 .. Len(called) : registered[called[i].cb] # b.req
      BY <1>1, <1>5 DEF IInv, PendingInOrder
    <2>9. \A k \in 1 .. Len(list) : list[k] \in Future!Waiting(b.req)
      <3>1. \A k \in 1 .. Len(list) :
              list[k] \in Callbacks /\ registered[list[k]] = b.req
        BY <1>1, <1>5 DEF IInv, NamesOK
      <3>2. QED
        BY <2>8, <3>1 DEF Future!Waiting, Callbacks
    <2>10. \A n \in Future!Waiting(b.req) : \A k \in 1 .. Len(list) :
             n < list[k] => \E m \in 1 .. Len(list) : m < k /\ list[m] = n
      <3> SUFFICES ASSUME NEW n \in Future!Waiting(b.req),
                          NEW k \in 1 .. Len(list), n < list[k]
                   PROVE  \E m \in 1 .. Len(list) : m < k /\ list[m] = n
        OBVIOUS
      <3>1. n \in Callbacks /\ registered[n] = b.req /\ ~ Called(n)
        BY DEF Future!Waiting, Callbacks, Called
      <3>2. ASSUME IsQueued(n)
            PROVE  FALSE
        <4>1. PICK i \in 1 .. Len(mainQueue) :
                mainQueue[i].op \in {"withResult", "call"} /\ mainQueue[i].cb = n
          BY <3>2 DEF IsQueued
        <4>2. mainQueue[i] \in Blocks
          BY DEF IInv, TypeOK
        <4>3. mainQueue[i].req \in Requests
          BY <4>1, <4>2 DEF Blocks
        <4>4. i \in CarriedFor(mainQueue[i].req)
          BY <4>1 DEF CarriedFor
        <4>5. mainQueue[i].req = b.req
          BY <3>1, <4>1, <4>3, <4>4 DEF IInv, NamesOK
        <4>6. list[k] < n
          BY <2>8, <4>1, <4>4, <4>5
        <4>7. list[k] \in Nat /\ n \in Nat
          BY <2>1, <3>1 DEF Callbacks
        <4>8. QED
          BY <4>6, <4>7
      <3>3. IsPending(n)
        BY <3>1, <3>2 DEF IInv, NoCallbackLost
      <3>4. PICK m \in 1 .. Len(list) : list[m] = n
        BY <3>1, <3>3 DEF IsPending
      <3>5. m < k
        <4>1. list[k] \in Nat /\ n \in Nat /\ m \in Int /\ k \in Int
          BY <2>1, <3>1 DEF Callbacks
        <4>2. k < m => list[k] < n
          BY <2>8, <3>4
        <4>3. QED
          BY <3>4, <4>1, <4>2
      <3>6. QED
        BY <3>4, <3>5
    <2>11. Future!Serve(b.req)
      <3>1. Len(called) <= Len(called')
        BY <2>5
      <3>2. ASSUME NEW i \in Future!New
            PROVE  /\ called'[i].cb \in Future!Waiting(b.req)
                   /\ called'[i].outcome = outcome'[b.req]
                   /\ \A j \in Future!New : j < i => called'[j].cb < called'[i].cb
                   /\ \A n \in Future!Waiting(b.req) : n < called'[i].cb =>
                        \E j \in Future!New : j < i /\ called'[j].cb = n
        <4>1. called'[i].cb \in Future!Waiting(b.req) /\ called'[i].outcome = outcome'[b.req]
          BY <1>3, <2>6, <2>9
        <4>2. ASSUME NEW j \in Future!New, j < i
              PROVE  called'[j].cb < called'[i].cb
          <5>1. j - Len(called) < i - Len(called)
            BY <2>5, <2>6, <4>2
          <5>2. QED
            BY <2>6, <2>8, <5>1
        <4>3. ASSUME NEW n \in Future!Waiting(b.req), n < called'[i].cb
              PROVE  \E j \in Future!New : j < i /\ called'[j].cb = n
          <5>1. PICK m \in 1 .. Len(list) : m < i - Len(called) /\ list[m] = n
            BY <2>6, <2>10, <4>3
          <5>2. Len(called) + m < i
            BY <2>5, <2>6, <5>1
          <5>3. QED
            BY <2>7, <5>1, <5>2
        <4>4. QED
          BY <4>1, <4>2, <4>3
      <3>3. QED
        BY <2>5, <3>1, <3>2 DEF Future!Serve
    <2>12. QED
      BY <1>1, <1>2, <2>4, <2>11 DEF Future!Publish, Published
  <1>6. QED
    BY <1>4, <1>5

\* A second block serves the callback it carries, which is the oldest left.
LEMMA RunCallDelivers ==
  ASSUME IInv, RunCall
  PROVE  Future!Deliver(Head(mainQueue).req)
  <1> DEFINE b == Head(mainQueue)
             last == Len(called) + 1
  <1>1. /\ b.op = "call" /\ mainQueue # <<>>
        /\ called' = Append(called, Call(b.cb, outcome[b.req]))
        /\ UNCHANGED <<pending, outcome, registered>>
    BY DEF RunCall, NextBlockIs
  <1>2. b.req \in Requests /\ b.cb \in Nat \ {0} /\ 1 \in CarriedFor(b.req)
        /\ b = mainQueue[1]
    BY <1>1, HeadBlock DEF IInv, Blocks, CarriedFor
  <1>3. pending[b.req] = Nil
    BY <1>1, <1>2 DEF IInv, PendingInOrder
  <1>4. b.cb \in Callbacks /\ registered[b.cb] = b.req
    BY <1>2 DEF IInv, NamesOK
  <1>5. b.cb \in Future!Waiting(b.req)
    <2>1. \A i \in 1 .. Len(called) : called[i].cb # b.cb
      <3> SUFFICES ASSUME NEW i \in 1 .. Len(called), called[i].cb = b.cb
                   PROVE  FALSE
        OBVIOUS
      <3>1. called[i].cb < b.cb
        BY <1>2, <1>4 DEF IInv, CalledBeforeQueued
      <3>2. QED
        BY <1>2, <3>1
    <2>2. QED
      BY <1>4, <2>1 DEF Future!Waiting, Callbacks
  <1>6. \A n \in Future!Waiting(b.req) : ~ n < b.cb
    <2> SUFFICES ASSUME NEW n \in Future!Waiting(b.req), n < b.cb
                 PROVE  FALSE
      OBVIOUS
    <2>1. n \in Callbacks /\ registered[n] = b.req /\ ~ Called(n)
      BY DEF Future!Waiting, Callbacks, Called
    <2>2. IsQueued(n)
      BY <1>3, <2>1 DEF IInv, NoCallbackLost, IsPending
    <2>3. PICK i \in 1 .. Len(mainQueue) :
            mainQueue[i].op \in {"withResult", "call"} /\ mainQueue[i].cb = n
      BY <2>2 DEF IsQueued
    <2>4. mainQueue[i] \in Blocks
      BY DEF IInv, TypeOK
    <2>5. mainQueue[i].req \in Requests
      BY <2>3, <2>4 DEF Blocks
    <2>6. i \in CarriedFor(mainQueue[i].req)
      BY <2>3 DEF CarriedFor
    <2>7. mainQueue[i].req = b.req
      BY <2>1, <2>3, <2>5, <2>6 DEF IInv, NamesOK
    <2>8. n \in Nat
      BY <2>1 DEF Callbacks
    <2>9. CASE i = 1
      BY <1>2, <2>3, <2>8, <2>9
    <2>10. CASE i # 1
      <3>1. b.cb < n
        BY <1>1, <1>2, <2>3, <2>6, <2>7, <2>10 DEF IInv, QueueInOrder
      <3>2. QED
        BY <1>2, <2>8, <3>1
    <2>11. QED
      BY <2>9, <2>10
  <1>7. Future!Serve(b.req)
    <2>1. /\ Len(called) \in Nat /\ Len(called') = last
          /\ called'[last].cb = b.cb /\ called'[last].outcome = outcome[b.req]
          /\ \A i \in 1 .. Len(called) : called'[i] = called[i]
      <3>1. called \in Seq(Calls)
        BY DEF IInv, TypeOK
      <3>2. Call(b.cb, outcome[b.req]).cb = b.cb
            /\ Call(b.cb, outcome[b.req]).outcome = outcome[b.req]
        BY DEF Call
      <3>3. Call(b.cb, outcome[b.req]) \in Calls
        BY <1>2 DEF IInv, TypeOK, Call, Calls
      <3>4. /\ Len(called') = Len(called) + 1
            /\ called'[Len(called) + 1] = Call(b.cb, outcome[b.req])
            /\ \A i \in 1 .. Len(called) : called'[i] = called[i]
        BY <1>1, <3>1, <3>3, AppendProperties
      <3>5. QED
        BY <3>1, <3>2, <3>4
    <2>2. Future!New = {last}
      BY <2>1 DEF Future!New
    <2>3. Len(called) <= Len(called')
      BY <2>1
    <2>4. outcome'[b.req] = outcome[b.req]
      BY <1>1
    <2>5. ~ last < last
      BY <2>1
    <2> HIDE DEF b, last
    <2>6. QED
      BY ONLY <1>5, <1>6, <2>1, <2>2, <2>3, <2>4, <2>5 DEF Future!Serve
  <1>8. Published' = Published /\ Published[b.req]
    BY <1>1, <1>2, <1>3 DEF Published
  <1>9. QED
    BY <1>1, <1>7, <1>8 DEF Future!Deliver, Published

-----------------------------------------------------------------------------
(* The class is an implementation of the future.  Consumers are served     *)
(* oldest first, with the outcome of that moment, never before the first   *)
(* outcome and never twice, whatever the threads do.                       *)
THEOREM Refinement == Spec => ImplementsFuture
  <1>1. IInv /\ [Next]_vars => [Future!Next]_(Future!vars)
    <2> SUFFICES ASSUME IInv, [Next]_vars
                 PROVE  [Future!Next]_(Future!vars)
      OBVIOUS
    <2>1. ASSUME NEW r \in Requests, WithResult(r)
          PROVE  Future!Next
      BY <2>1, WithResultRegisters DEF Future!Next
    <2>2. ASSUME RunSetResult
          PROVE  Future!Next
      <3>1. Head(mainQueue).req \in Requests
        BY <2>2, HeadBlock DEF RunSetResult, NextBlockIs, Blocks, IInv
      <3>2. Future!Publish(Head(mainQueue).req)
        BY <2>2, RunSetResultPublishes
      <3>3. QED
        BY ONLY <3>1, <3>2 DEF Future!Next, Future!Publish
    <2>3. ASSUME RunCall
          PROVE  Future!Next
      <3>1. Head(mainQueue).req \in Requests
        BY <2>3, HeadBlock DEF RunCall, NextBlockIs, Blocks, IInv
      <3>2. QED
        BY <2>3, <3>1, RunCallDelivers DEF Future!Next
    <2>4. CASE UNCHANGED vars
      BY <2>4, QueueStepStutters DEF vars
    <2>5. ASSUME NEW r \in Requests, NEW v \in Outcomes, SetResult(r, v)
          PROVE  UNCHANGED Future!vars
      BY <2>5, QueueStepStutters DEF SetResult
    <2>6. ASSUME NEW w \in Work, DispatchOther(w)
          PROVE  UNCHANGED Future!vars
      BY <2>6, QueueStepStutters DEF DispatchOther
    <2>7. ASSUME RunOther
          PROVE  UNCHANGED Future!vars
      BY <2>7, QueueStepStutters DEF RunOther
    <2>8. QED
      BY <2>1, <2>2, <2>3, <2>4, <2>5, <2>6, <2>7, EarlyStepStutters
      DEF Next, RunMain
  <1>2. QED
    BY <1>1, InitRefines, Invariance, PTL DEF Spec, ImplementsFuture, Future!Spec

=============================================================================
