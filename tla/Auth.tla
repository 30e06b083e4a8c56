--------------------------------- MODULE Auth ---------------------------------
(***************************************************************************)
(* The entry screen: sign-in, sign-up, password recovery and skip, in      *)
(* Utilities/AuthUtils.swift and Controllers/Sign*ViewController.swift.    *)
(*                                                                         *)
(* Both forms sit in one tab bar controller, through which everything is   *)
(* presented: alerts, and the main UI as a sheet.  UIKit presents one thing*)
(* at a time and ignores further attempts, and what is presented covers    *)
(* the buttons.  The code does not ask whether something is presented, nor *)
(* does it disable a button while Firebase works, so answers of Firebase   *)
(* come to a screen that has moved on.                                     *)
(*                                                                         *)
(* Firebase sets the user before it dispatches the callback onto the main  *)
(* queue.  It also remembers the user from one run of the app to the next, *)
(* which the code never looks at.                                          *)
(*                                                                         *)
(* Screens composes this with Navigation and has the specification.        *)
(***************************************************************************)
EXTENDS Naturals, Sequences, FiniteSets

CONSTANTS
  Nobody,       \* no user is signed in
  MaxRequests   \* bound: requests to Firebase

ASSUME RequestsAssumption == MaxRequests \in Nat

ASSUME NobodyAssumption == Nobody \notin Nat

VARIABLES
  presented,  \* what covers the entry screen: "nothing", "dialog", "confirm", "main"
  requests,   \* requests[n]: what the n-th request to Firebase is for
  asking,     \* the requests Firebase works on
  blocks,     \* the main queue: answers of Firebase in their order
  user,       \* the request that signed the user in, 0 if in an earlier run, or Nobody
  alone,      \* history: nothing was pressed while a request was under way
  swallowed,  \* history: the requests whose answer could not be presented
  startAt,    \* history: the first request after the last sign-out
  late        \* history: the requests under way at the last sign-out

authVars == <<presented, requests, asking, blocks, user, alone, swallowed, startAt, late>>

Operations == {"signIn", "signUp", "reset"}

Blocks == [op : {"answer", "resetDone"}, request : 1 .. MaxRequests, ok : BOOLEAN]

UnderWay == asking \cup {blocks[i].request : i \in 1 .. Len(blocks)}

AuthInit ==
  /\ presented = "nothing"
  /\ requests = <<>> /\ asking = {} /\ blocks = <<>>
  /\ user \in {Nobody, 0}
  /\ alone = TRUE /\ swallowed = {} /\ startAt = 0 /\ late = {}

-----------------------------------------------------------------------------
(* UIKit.                                                                  *)

\* present and performSegue do nothing while something is presented.
Present(what) == presented' = IF presented = "nothing" THEN what ELSE presented

\* A button of the entry screen.
Press ==
  /\ presented = "nothing"
  /\ alone' = (alone /\ UnderWay = {})

\* A request to Firebase.
Request(op) ==
  /\ Len(requests) < MaxRequests
  /\ requests' = Append(requests, op)
  /\ asking' = asking \cup {Len(requests) + 1}

-----------------------------------------------------------------------------
(* The buttons.                                                            *)

\* Mutant: validate shows its message and lets the form pass.
Sign_InvalidPasses(op) ==
  /\ Press
  /\ Request(op)
  /\ Present("dialog") \/ UNCHANGED presented
  /\ UNCHANGED <<blocks, user, swallowed, startAt, late>>

\* signInWith and signUpWith, for a form that is not valid and one that is.
Sign(op) ==
  /\ Press
  /\ \/ Present("dialog") /\ UNCHANGED <<requests, asking>>
     \/ Request(op) /\ UNCHANGED presented
  /\ UNCHANGED <<blocks, user, swallowed, startAt, late>>

\* forgotPassword, for an address that is not valid and one that is.
ForgotPassword ==
  /\ Press
  /\ Present("dialog") \/ Present("confirm")
  /\ UNCHANGED <<requests, asking, blocks, user, swallowed, startAt, late>>

\* "OK" or "Cancel" in answer to forgotPassword
Confirm ==
  /\ presented = "confirm"
  /\ presented' = "nothing"
  /\ alone' = (alone /\ UnderWay = {})
  /\ Request("reset") \/ UNCHANGED <<requests, asking>>
  /\ UNCHANGED <<blocks, user, swallowed, startAt, late>>

\* "OK" of a modalDialog
CloseDialog ==
  /\ presented = "dialog"
  /\ presented' = "nothing"
  /\ UNCHANGED <<requests, asking, blocks, user, alone, swallowed, startAt, late>>

\* skip of either form
Skip ==
  /\ Press
  /\ Present("main")
  /\ UNCHANGED <<requests, asking, blocks, user, swallowed, startAt, late>>

-----------------------------------------------------------------------------
(* Firebase.                                                               *)

\* A request ends; a sign-in or sign-up that succeeds sets the user.
FirebaseEnds(n) ==
  /\ n \in asking
  /\ asking' = asking \ {n}
  /\ \E ok \in BOOLEAN :
       /\ blocks' = Append(blocks, [op |-> "answer", request |-> n, ok |-> ok])
       /\ user' = IF ok /\ requests[n] # "reset" THEN n ELSE user
  /\ UNCHANGED <<presented, requests, alone, swallowed, startAt, late>>

\* The alert or the main UI is presented, or nobody sees it.
Presents(b, what) ==
  /\ Present(what)
  /\ swallowed' = IF presented = "nothing" THEN swallowed ELSE swallowed \cup {b.request}
  /\ blocks' = Tail(blocks)

\* Mutant: the answer to a recovery is dispatched as an answer again.
RunBlock_AnswersAgain ==
  /\ blocks # <<>>
  /\ LET b == Head(blocks) IN
       \/ /\ b.op = "answer" /\ requests[b.request] = "reset"
          /\ blocks' = Append(Tail(blocks), b)
          /\ UNCHANGED <<presented, swallowed>>
       \/ /\ b.op = "answer" /\ requests[b.request] # "reset"
          /\ Presents(b, IF b.ok THEN "main" ELSE "dialog")
  /\ UNCHANGED <<requests, asking, user, alone, startAt, late>>

\* The callbacks.  The one of resetPassword dispatches its completion handler
\* onto the main queue once more; both of its messages are a dialog.
RunBlock ==
  /\ blocks # <<>>
  /\ LET b == Head(blocks) IN
       \/ /\ b.op = "answer" /\ requests[b.request] = "reset"
          /\ blocks' = Append(Tail(blocks), [b EXCEPT !.op = "resetDone"])
          /\ UNCHANGED <<presented, swallowed>>
       \/ /\ b.op = "answer" /\ requests[b.request] # "reset"
          /\ Presents(b, IF b.ok THEN "main" ELSE "dialog")
       \/ /\ b.op = "resetDone"
          /\ Presents(b, "dialog")
  /\ UNCHANGED <<requests, asking, user, alone, startAt, late>>

-----------------------------------------------------------------------------
(* The way back from the main UI.                                          *)

\* Mutant: the unwinding does not sign out.
BackToSignIn_KeepsUser ==
  /\ presented = "main"
  /\ presented' = "nothing"
  /\ startAt' = Len(requests) + 1 /\ late' = UnderWay
  /\ UNCHANGED <<requests, asking, blocks, user, alone, swallowed>>

\* "Sign Out" unwinds to backToSignIn; signOut may throw, which is printed.
BackToSignIn ==
  /\ presented = "main"
  /\ presented' = "nothing"
  /\ \/ /\ user' = Nobody
        /\ startAt' = Len(requests) + 1 /\ late' = UnderWay
     \/ UNCHANGED <<user, startAt, late>>
  /\ UNCHANGED <<requests, asking, blocks, alone, swallowed>>

\* A sheet can be swiped away; nothing in the code prevents or notices it.
SwipeAway ==
  /\ presented = "main"
  /\ presented' = "nothing"
  /\ UNCHANGED <<requests, asking, blocks, user, alone, swallowed, startAt, late>>

\* What may happen at any time; Screens adds Skip and BackToSignIn.
AuthNext ==
  \/ Sign("signIn") \/ Sign("signUp")
  \/ ForgotPassword \/ Confirm \/ CloseDialog \/ SwipeAway
  \/ \E n \in 1 .. MaxRequests : FirebaseEnds(n)
  \/ RunBlock

-----------------------------------------------------------------------------
(* Properties.                                                             *)

AuthTypeOK ==
  /\ presented \in {"nothing", "dialog", "confirm", "main"}
  /\ requests \in Seq(Operations) /\ Len(requests) <= MaxRequests
  /\ asking \subseteq 1 .. Len(requests)
  /\ blocks \in Seq(Blocks)
  /\ \A i \in 1 .. Len(blocks) :
       /\ blocks[i].request \in 1 .. Len(requests)
       /\ blocks[i].op = "resetDone" => requests[blocks[i].request] = "reset"
  /\ user \in {Nobody} \cup 0 .. Len(requests)
  /\ alone \in BOOLEAN
  /\ swallowed \subseteq 1 .. Len(requests)
  /\ startAt \in 0 .. Len(requests) + 1
  /\ late \subseteq 1 .. Len(requests)

(* A sign-out is undone only by a request that was under way at the time:  *)
(* otherwise whoever is signed in has asked for it since.  The code cannot *)
(* do better, for it neither cancels nor marks a request.                  *)
SignOutHolds == user # Nobody => user >= startAt \/ user \in late

(* An answer that is never seen costs a hasty user only: one who presses   *)
(* nothing while a request is under way sees every success, every failure  *)
(* and the result of every recovery.                                       *)
OnlyHasteIsSwallowed == alone => swallowed = {}

(* Whoever presses a button and waits comes to the main UI or to a dialog. *)
WaitingIsAnswered ==
  \A n \in 1 .. MaxRequests :
    (alone /\ n \in UnderWay) ~> (~alone \/ presented \in {"dialog", "main"})

=============================================================================
