------------------------------- MODULE Screens -------------------------------
(***************************************************************************)
(* The screens of the phone's app: the entry screen (Auth) and the main UI *)
(* it presents (Navigation).  The main UI is entered by skipping or by an  *)
(* answer of Firebase, at a time the user does not choose, and left by     *)
(* "Sign Out" of the settings or by a swipe.                               *)
(***************************************************************************)
EXTENDS Auth, Navigation

vars == <<authVars, navVars>>

Init == AuthInit /\ NavInit

\* A step of the entry screen enters the main UI, leaves it, or neither.
MainFollows ==
  \/ presented # "main" /\ presented' = "main" /\ Enter
  \/ presented = "main" /\ presented' # "main" /\ Leave
  \/ (presented = "main") = (presented' = "main") /\ UNCHANGED navVars

Entry == ~trapped /\ AuthNext /\ MainFollows

\* The bound on list views is kept by the user alone: Firebase is not stopped.
SkipEntry == ~trapped /\ views < MaxViews /\ Skip /\ MainFollows

\* The settings have the only "Sign Out".
SignOut == ~trapped /\ tab = "settings" /\ BackToSignIn /\ MainFollows

Navigate ==
  /\ ~trapped
  /\ presented = "main"
  /\ NavNext
  /\ UNCHANGED authVars

\* A list arrives, even while the main UI it is for is gone.
Arrive ==
  /\ ~trapped
  /\ \E l \in loads : ListArrives(l)
  /\ UNCHANGED authVars

Next == Entry \/ SkipEntry \/ SignOut \/ Navigate \/ Arrive

\* The main thread runs its blocks and Firebase ends every request.  The user
\* may do nothing, and lists may never come.
Spec ==
  /\ Init /\ [][Next]_vars
  /\ WF_vars(~trapped /\ RunBlock /\ MainFollows)
  /\ \A n \in 1 .. MaxRequests : WF_vars(~trapped /\ FirebaseEnds(n) /\ MainFollows)

-----------------------------------------------------------------------------
(* Properties.                                                             *)

TypeOK == AuthTypeOK /\ NavTypeOK

=============================================================================
