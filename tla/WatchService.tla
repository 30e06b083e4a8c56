----------------------------- MODULE WatchService -----------------------------
(***************************************************************************)
(* What the phone promises the watch, without queues, downloads or cache:  *)
(* a message is replied to at most once, with an answer to its question,   *)
(* and for as long as the phone's process lives equal questions have equal *)
(* answers.  Nothing is promised of when, or whether, a reply is sent.     *)
(***************************************************************************)
EXTENDS Naturals, Sequences

CONSTANTS
  Questions,   \* what a message may ask
  Payloads,    \* what may be replied; p.of is the question p answers
  MaxMessages  \* bound: messages of one life of the phone

VARIABLES
  questions,  \* the questions of the messages, in the order of their arrival
  replies,    \* replies[m]: the payloads sent back for message m
  ended       \* the process has ended

vars == <<questions, replies, ended>>

Init ==
  /\ questions = <<>>
  /\ replies = [m \in 1 .. MaxMessages |-> <<>>]
  /\ ended = FALSE

\* A message arrives.
Receive(q) ==
  /\ ~ended
  /\ Len(questions) < MaxMessages
  /\ questions' = Append(questions, q)
  /\ UNCHANGED <<replies, ended>>

\* Mutant: what was told before is forgotten.
Reply_Forgets(m, p) ==
  /\ ~ended
  /\ m \in 1 .. Len(questions)
  /\ replies[m] = <<>>
  /\ p.of = questions[m]
  /\ replies' = [replies EXCEPT ![m] = <<p>>]
  /\ UNCHANGED <<questions, ended>>

\* A message without a reply gets one, the one its question got before.
Reply(m, p) ==
  /\ ~ended
  /\ m \in 1 .. Len(questions)
  /\ replies[m] = <<>>
  /\ p.of = questions[m]
  /\ \A n \in 1 .. Len(questions) :
       questions[n] = questions[m] /\ replies[n] # <<>> => replies[n] = <<p>>
  /\ replies' = [replies EXCEPT ![m] = <<p>>]
  /\ UNCHANGED <<questions, ended>>

End ==
  /\ ended' = TRUE
  /\ UNCHANGED <<questions, replies>>

Next ==
  \/ \E q \in Questions : Receive(q)
  \/ \E m \in 1 .. MaxMessages, p \in Payloads : Reply(m, p)
  \/ End

Spec == Init /\ [][Next]_vars

=============================================================================
