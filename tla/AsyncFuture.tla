---------------------------- MODULE AsyncFuture -----------------------------
(***************************************************************************)
(* What a future promises to the code that uses one, with no word about    *)
(* main queues and pending lists.  AsyncRequest implements it: "value" is  *)
(* its pair of fields, and a request is published once "pending" is nil.   *)
(*                                                                         *)
(* Consumers register, producers publish, and the future serves consumers. *)
(* A step that serves may serve several, because the first outcome is given*)
(* to everyone already waiting.  It always serves the oldest ones.         *)
(***************************************************************************)
EXTENDS Naturals, Sequences

CONSTANTS Requests, Outcomes, NoOutcome

VARIABLES value, published, registered, called

vars == <<value, published, registered, called>>

Init ==
  /\ value = [r \in Requests |-> NoOutcome]
  /\ published = [r \in Requests |-> FALSE]
  /\ registered = <<>>
  /\ called = <<>>

\* Consumers of r that have not been served yet.
Waiting(r) ==
  {n \in 1 .. Len(registered) :
     registered[n] = r /\ \A i \in 1 .. Len(called) : called[i].cb # n}

\* The calls a step adds to the history.
New == Len(called) + 1 .. Len(called')

\* Serves some consumers of r, possibly none: nothing served before is undone,
\* each gets the present value, each once, and nobody older is passed over.
Serve(r) ==
  /\ Len(called) <= Len(called')
  /\ \A i \in 1 .. Len(called) : called'[i] = called[i]
  /\ \A i \in New :
       /\ called'[i].cb \in Waiting(r)
       /\ called'[i].outcome = value'[r]
       /\ \A j \in New : j < i => called'[j].cb < called'[i].cb
       /\ \A n \in Waiting(r) :
            n < called'[i].cb => \E j \in New : j < i /\ called'[j].cb = n

Register(r) ==
  /\ registered' = Append(registered, r)
  /\ UNCHANGED <<value, published, called>>

\* A first outcome, or one that updates an earlier one.
Publish(r) ==
  /\ \E v \in Outcomes : value' = [value EXCEPT ![r] = v]
  /\ published' = [published EXCEPT ![r] = TRUE]
  /\ Serve(r)
  /\ UNCHANGED registered

\* Consumers that came after the first outcome.
Deliver(r) ==
  /\ published[r]
  /\ Serve(r)
  /\ UNCHANGED <<value, published, registered>>

Next == \E r \in Requests : Register(r) \/ Publish(r) \/ Deliver(r)

Spec == Init /\ [][Next]_vars

=============================================================================
