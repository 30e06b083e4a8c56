---------------------------- MODULE AsyncRequest ----------------------------
(***************************************************************************)
(* NewsDay's one-shot future, NewsDay/NewsDay/Network/AsyncRequest.swift.  *)
(*                                                                         *)
(* A producer on any thread calls setResult, a consumer on any thread      *)
(* calls withResult.  Neither touches the object: each dispatches a block  *)
(* onto the main queue and returns.  The main thread runs the blocks one   *)
(* at a time and in order, and only they read or write the object, so one  *)
(* block is one action here.  A callback that comes too early waits in     *)
(* "pending"; one that comes late is given a second trip through the main  *)
(* queue and reads the result when that second block runs.                 *)
(*                                                                         *)
(* The loop that calls the pending callbacks is inside one action: other   *)
(* threads can only append to the main queue while it runs, and no callback*)
(* runs another block, so nothing can observe the loop half way.           *)
(***************************************************************************)
EXTENDS Naturals, Sequences

CONSTANTS
  Requests,      \* the AsyncRequest objects of one process
  Outcomes,      \* the pairs (result, error) that setResult is called with
  NoOutcome,     \* the pair (nil, nil) that init leaves in result and error
  Nil,           \* Swift's nil, as a value of "pending"
  Work,          \* the other closures the process dispatches onto its main queue
  MaxCallbacks,  \* bound: calls of withResult
  MaxQueue       \* bound: length the main queue may reach by setResult and Work

\* nil is no array of callbacks: "pending" tells the two apart.
ASSUME NilAssumption == Nil \notin Seq(Nat \ {0})

\* (nil, nil) is an outcome like any other: some producers pass it on.
ASSUME NoOutcomeAssumption == NoOutcome \in Outcomes

VARIABLES
  mainQueue,   \* the blocks dispatched onto DispatchQueue.main, oldest first
  pending,     \* pending[r]: the callbacks that came too early, or Nil
  outcome,     \* outcome[r]: the fields "result" and "error" of r
  registered,  \* history: registered[n] is the request of the n-th withResult
  called       \* history: the callbacks that ran and what they were given

vars == <<mainQueue, pending, outcome, registered, called>>

-----------------------------------------------------------------------------
(* A callback is named by the position of its withResult call: callback n  *)
(* is the closure of the n-th call.                                        *)
Callbacks == 1 .. Len(registered)

SetResultBlock(r, v)  == [op |-> "setResult", req |-> r, outcome |-> v]
WithResultBlock(r, n) == [op |-> "withResult", req |-> r, cb |-> n]
CallBlock(r, n)       == [op |-> "call", req |-> r, cb |-> n]
OtherBlock(w)         == [op |-> "other", work |-> w]

\* The record a callback leaves in the history when it runs.
Call(n, v) == [cb |-> n, outcome |-> v]

\* The callbacks of a pending list, each called with v, in the list's order.
CallEach(list, v) == [i \in 1 .. Len(list) |-> Call(list[i], v)]

Calls == [cb : Nat \ {0}, outcome : Outcomes]

Blocks ==
  [op : {"setResult"}, req : Requests, outcome : Outcomes]
    \cup [op : {"withResult", "call"}, req : Requests, cb : Nat \ {0}]
    \cup [op : {"other"}, work : Work]

Init ==
  /\ mainQueue = <<>>
  /\ pending = [r \in Requests |-> <<>>]
  /\ outcome = [r \in Requests |-> NoOutcome]
  /\ registered = <<>>
  /\ called = <<>>

-----------------------------------------------------------------------------
(* What any thread may do.                                                 *)

\* setResult(result:error:)
SetResult(r, v) ==
  /\ Len(mainQueue) < MaxQueue
  /\ mainQueue' = Append(mainQueue, SetResultBlock(r, v))
  /\ UNCHANGED <<pending, outcome, registered, called>>

\* withResult(callback:), the first dispatch
WithResult(r) ==
  /\ Len(registered) < MaxCallbacks
  /\ registered' = Append(registered, r)
  /\ mainQueue' = Append(mainQueue, WithResultBlock(r, Len(registered) + 1))
  /\ UNCHANGED <<pending, outcome, called>>

\* DispatchQueue.main.async by any other part of the process
DispatchOther(w) ==
  /\ Len(mainQueue) < MaxQueue
  /\ mainQueue' = Append(mainQueue, OtherBlock(w))
  /\ UNCHANGED <<pending, outcome, registered, called>>

-----------------------------------------------------------------------------
(* What the main thread does: it runs the oldest block of its queue.       *)

NextBlockIs(op) == mainQueue # <<>> /\ Head(mainQueue).op = op

\* Mutant: "pending" is reset before the loop over it.
RunSetResult_ResetFirst ==
  /\ NextBlockIs("setResult")
  /\ mainQueue' = Tail(mainQueue)
  /\ outcome' = [outcome EXCEPT ![Head(mainQueue).req] = Head(mainQueue).outcome]
  /\ pending' = [pending EXCEPT ![Head(mainQueue).req] = Nil]
  /\ UNCHANGED <<registered, called>>

\* Mutant: "pending" is never reset.
RunSetResult_NoReset ==
  /\ NextBlockIs("setResult")
  /\ LET b == Head(mainQueue) IN
       /\ mainQueue' = Tail(mainQueue)
       /\ outcome' = [outcome EXCEPT ![b.req] = b.outcome]
       /\ called' = called \o CallEach(pending[b.req], b.outcome)
  /\ UNCHANGED <<pending, registered>>

\* Mutant: the callbacks are called before the outcome is stored.
RunSetResult_CallsFirst ==
  /\ NextBlockIs("setResult")
  /\ LET b == Head(mainQueue) IN
       /\ mainQueue' = Tail(mainQueue)
       /\ outcome' = [outcome EXCEPT ![b.req] = b.outcome]
       /\ called' = IF pending[b.req] = Nil THEN called
                    ELSE called \o CallEach(pending[b.req], outcome[b.req])
       /\ pending' = [pending EXCEPT ![b.req] = Nil]
  /\ UNCHANGED registered

\* setResultMain(resultValue:resultError:): the outcome is stored in any case,
\* the callbacks are called only while "pending" is an array.
RunSetResult ==
  /\ NextBlockIs("setResult")
  /\ LET b == Head(mainQueue) IN
       /\ mainQueue' = Tail(mainQueue)
       /\ outcome' = [outcome EXCEPT ![b.req] = b.outcome]
       /\ \/ /\ pending[b.req] = Nil
             /\ UNCHANGED <<pending, called>>
          \/ /\ pending[b.req] # Nil
             /\ called' = called \o CallEach(pending[b.req], b.outcome)
             /\ pending' = [pending EXCEPT ![b.req] = Nil]
       /\ UNCHANGED registered

\* Mutant: a callback that comes too early goes to the front of the list.
RunWithResult_Prepends ==
  /\ NextBlockIs("withResult")
  /\ LET b == Head(mainQueue) IN
       \/ /\ pending[b.req] # Nil
          /\ pending' = [pending EXCEPT ![b.req] = <<b.cb>> \o @]
          /\ mainQueue' = Tail(mainQueue)
       \/ /\ pending[b.req] = Nil
          /\ mainQueue' = Append(Tail(mainQueue), CallBlock(b.req, b.cb))
          /\ UNCHANGED pending
  /\ UNCHANGED <<outcome, registered, called>>

\* Mutant: the second dispatch calls withResult again.
RunWithResult_AsksAgain ==
  /\ NextBlockIs("withResult")
  /\ LET b == Head(mainQueue) IN
       \/ /\ pending[b.req] # Nil
          /\ pending' = [pending EXCEPT ![b.req] = Append(@, b.cb)]
          /\ mainQueue' = Tail(mainQueue)
       \/ /\ pending[b.req] = Nil
          /\ mainQueue' = Append(Tail(mainQueue), b)
          /\ UNCHANGED pending
  /\ UNCHANGED <<outcome, registered, called>>

\* The block of withResult: too early, wait; otherwise dispatch once more.
RunWithResult ==
  /\ NextBlockIs("withResult")
  /\ LET b == Head(mainQueue) IN
       \/ /\ pending[b.req] # Nil
          /\ pending' = [pending EXCEPT ![b.req] = Append(@, b.cb)]
          /\ mainQueue' = Tail(mainQueue)
       \/ /\ pending[b.req] = Nil
          /\ mainQueue' = Append(Tail(mainQueue), CallBlock(b.req, b.cb))
          /\ UNCHANGED pending
  /\ UNCHANGED <<outcome, registered, called>>

\* The second block of withResult: result and error are read here and now.
RunCall ==
  /\ NextBlockIs("call")
  /\ LET b == Head(mainQueue) IN
       called' = Append(called, Call(b.cb, outcome[b.req]))
  /\ mainQueue' = Tail(mainQueue)
  /\ UNCHANGED <<pending, outcome, registered>>

\* A block of another part of the process; it is no business of this class.
RunOther ==
  /\ NextBlockIs("other")
  /\ mainQueue' = Tail(mainQueue)
  /\ UNCHANGED <<pending, outcome, registered, called>>

RunMain == RunSetResult \/ RunWithResult \/ RunCall \/ RunOther

Next ==
  \/ \E r \in Requests, v \in Outcomes : SetResult(r, v)
  \/ \E r \in Requests : WithResult(r)
  \/ \E w \in Work : DispatchOther(w)
  \/ RunMain

\* The run loop of a live process keeps serving its main queue.  No caller is
\* fair: a download may never answer and a view may never ask.
Spec == Init /\ [][Next]_vars /\ WF_vars(RunMain)

-----------------------------------------------------------------------------
(* Properties.                                                             *)

(* The queue holds well-formed blocks, "pending" is an array of callbacks  *)
(* or nil, and whatever was stored or passed to a callback is an outcome.  *)
TypeOK ==
  /\ mainQueue \in Seq(Blocks)
  /\ pending \in [Requests -> Seq(Nat \ {0}) \cup {Nil}]
  /\ outcome \in [Requests -> Outcomes]
  /\ registered \in Seq(Requests)
  /\ called \in Seq(Calls)

Called(n) == \E i \in 1 .. Len(called) : called[i].cb = n

IsQueued(n) ==
  \E i \in 1 .. Len(mainQueue) :
    mainQueue[i].op \in {"withResult", "call"} /\ mainQueue[i].cb = n

IsPending(n) ==
  /\ pending[registered[n]] # Nil
  /\ \E i \in 1 .. Len(pending[registered[n]]) : pending[registered[n]][i] = n

(* No callback is lost: one that was handed to withResult has been called, *)
(* waits in the pending list of its own request, or sits in a block of the *)
(* main queue, whatever the order of setResult and withResult.             *)
NoCallbackLost ==
  \A n \in Callbacks : Called(n) \/ IsPending(n) \/ IsQueued(n)

(* The callbacks of one request run in the order of their withResult calls *)
(* and none runs twice, though the early ones are called from setResult's  *)
(* block and the late ones from blocks of their own.                       *)
CalledInOrder ==
  \A i, j \in 1 .. Len(called) :
    i < j /\ registered[called[i].cb] = registered[called[j].cb]
      => called[i].cb < called[j].cb

(* The class keeps the promise of AsyncFuture: whoever is served is served *)
(* oldest first, with the outcome the request has at that moment, and no   *)
(* callback runs before the first outcome was published.                   *)
Future == INSTANCE AsyncFuture WITH
  value <- outcome,
  published <- [r \in Requests |-> pending[r] = Nil]

ImplementsFuture == Future!Spec

(* Once a request has its result, every callback it was or will be handed  *)
(* is called: whoever waits for a finished download gets an answer.        *)
ResolvedIsAnswered ==
  \A n \in 1 .. MaxCallbacks :
    (n \in Callbacks /\ pending[registered[n]] = Nil) ~> Called(n)

-----------------------------------------------------------------------------
(* The inductive invariant behind NoCallbackLost, CalledInOrder and        *)
(* ImplementsFuture.  Along the way of a callback, from the block of its   *)
(* withResult over the pending list or a block of its own to the history,  *)
(* the callbacks of a request never overtake each other.                   *)

\* Positions of the main queue whose block carries a callback of request r.
CarriedFor(r) ==
  {i \in 1 .. Len(mainQueue) :
     mainQueue[i].op \in {"withResult", "call"} /\ mainQueue[i].req = r}

\* Whatever names a callback names one that was registered, for its request.
NamesOK ==
  /\ \A r \in Requests : \A i \in CarriedFor(r) :
       mainQueue[i].cb \in Callbacks /\ registered[mainQueue[i].cb] = r
  /\ \A r \in Requests : pending[r] # Nil =>
       \A i \in 1 .. Len(pending[r]) :
         pending[r][i] \in Callbacks /\ registered[pending[r][i]] = r
  /\ \A i \in 1 .. Len(called) : called[i].cb \in Callbacks

\* Blocks of one kind stand in registration order; second blocks are older
\* than first blocks.
QueueInOrder ==
  \A r \in Requests : \A i, j \in CarriedFor(r) :
    /\ i < j /\ mainQueue[i].op = mainQueue[j].op
         => mainQueue[i].cb < mainQueue[j].cb
    /\ mainQueue[i].op = "call" /\ mainQueue[j].op = "withResult"
         => mainQueue[i].cb < mainQueue[j].cb

\* The pending list is in registration order and older than the blocks.  While
\* there is one, no callback of the request has a second block or has run.
PendingInOrder ==
  \A r \in Requests : pending[r] # Nil =>
    /\ \A i, j \in 1 .. Len(pending[r]) : i < j => pending[r][i] < pending[r][j]
    /\ \A i \in CarriedFor(r) :
         /\ mainQueue[i].op = "withResult"
         /\ \A j \in 1 .. Len(pending[r]) : pending[r][j] < mainQueue[i].cb
    /\ \A i \in 1 .. Len(called) : registered[called[i].cb] # r

\* Callbacks that ran are older than those on their way.
CalledBeforeQueued ==
  \A r \in Requests : \A i \in CarriedFor(r) : \A j \in 1 .. Len(called) :
    registered[called[j].cb] = r => called[j].cb < mainQueue[i].cb

IInv ==
  /\ TypeOK
  /\ NamesOK
  /\ NoCallbackLost
  /\ QueueInOrder
  /\ PendingInOrder
  /\ CalledBeforeQueued
  /\ CalledInOrder

=============================================================================
