---------------------------- MODULE Screens_proofs ----------------------------
(***************************************************************************)
(* The phone's screens for any number of requests to Firebase, any sources *)
(* and any number of list views.  First what the steps of the entry screen *)
(* preserve, then what the steps of the main UI preserve; both invariants  *)
(* hold together, for the main UI has its stacks whenever it is presented. *)
(***************************************************************************)
EXTENDS Screens, TLAPS, SequenceTheorems

-----------------------------------------------------------------------------
(* The entry screen.                                                       *)

\* Behind SignOutHolds: the requests Firebase still works on.
AskingHolds == \A n \in asking : n >= startAt \/ n \in late

\* Behind OnlyHasteIsSwallowed: without haste one request is under way at most,
\* in one place, and nothing covers the screen meanwhile.
OneAtATime ==
  alone =>
    /\ presented # "nothing" => asking = {} /\ blocks = <<>>
    /\ Len(blocks) <= 1
    /\ blocks # <<>> => asking = {}
    /\ \A m, n \in asking : m = n

AuthInv ==
  /\ AuthTypeOK
  /\ AskingHolds
  /\ SignOutHolds
  /\ OneAtATime
  /\ OnlyHasteIsSwallowed

AuthStep == AuthNext \/ Skip \/ BackToSignIn

LEMMA AuthInitInv == AuthInit => AuthInv
  BY NobodyAssumption, RequestsAssumption
  DEF AuthInit, AuthInv, AuthTypeOK, AskingHolds, SignOutHolds, OneAtATime,
      OnlyHasteIsSwallowed, Operations, Blocks

-----------------------------------------------------------------------------
(* The requests to Firebase.                                               *)

\* The requests a step leaves as they are, or lengthens by one.
LEMMA RequestFacts ==
  ASSUME AuthTypeOK, NEW op \in Operations, Request(op)
  PROVE  /\ Len(requests) \in Nat
         /\ requests' \in Seq(Operations)
         /\ Len(requests') = Len(requests) + 1
         /\ Len(requests') <= MaxRequests
         /\ \A n \in 1 .. Len(requests) : requests'[n] = requests[n]
         /\ 1 .. Len(requests) \subseteq 1 .. Len(requests')
         /\ 0 .. Len(requests) \subseteq 0 .. Len(requests')
         /\ 0 .. Len(requests) + 1 \subseteq 0 .. Len(requests') + 1
         /\ asking' = asking \cup {Len(requests) + 1}
         /\ asking' \subseteq 1 .. Len(requests')
  <1>1. /\ requests \in Seq(Operations)
        /\ Len(requests) < MaxRequests
        /\ requests' = Append(requests, op)
        /\ asking' = asking \cup {Len(requests) + 1}
        /\ asking \subseteq 1 .. Len(requests)
    BY DEF AuthTypeOK, Request
  <1>2. /\ Len(requests) \in Nat
        /\ requests' \in Seq(Operations)
        /\ Len(requests') = Len(requests) + 1
        /\ \A n \in 1 .. Len(requests) : requests'[n] = requests[n]
    BY <1>1, AppendProperties
  <1>3. Len(requests') <= MaxRequests
    BY <1>1, <1>2, RequestsAssumption
  <1>4. /\ 1 .. Len(requests) \subseteq 1 .. Len(requests) + 1
        /\ 0 .. Len(requests) \subseteq 0 .. Len(requests) + 1
        /\ 0 .. Len(requests) + 1 \subseteq 0 .. (Len(requests) + 1) + 1
        /\ Len(requests) + 1 \in 1 .. Len(requests) + 1
    BY <1>2
  <1>5. asking' \subseteq 1 .. Len(requests')
    BY <1>1, <1>2, <1>4
  <1>6. QED
    BY <1>1, <1>2, <1>3, <1>4, <1>5

\* A step that makes a request and leaves Firebase and its answers alone.
LEMMA RequestInv ==
  ASSUME AuthInv, NEW op \in Operations, Request(op),
         presented' = "nothing",
         alone' = (alone /\ UnderWay = {}),
         UNCHANGED <<blocks, user, swallowed, startAt, late>>
  PROVE  AuthInv'
  <1>1. /\ AuthTypeOK /\ AskingHolds /\ SignOutHolds /\ OneAtATime /\ OnlyHasteIsSwallowed
    BY DEF AuthInv
  <1>2. /\ Len(requests) \in Nat
        /\ requests' \in Seq(Operations)
        /\ Len(requests') = Len(requests) + 1
        /\ Len(requests') <= MaxRequests
        /\ \A n \in 1 .. Len(requests) : requests'[n] = requests[n]
        /\ 1 .. Len(requests) \subseteq 1 .. Len(requests')
        /\ 0 .. Len(requests) \subseteq 0 .. Len(requests')
        /\ 0 .. Len(requests) + 1 \subseteq 0 .. Len(requests') + 1
        /\ asking' = asking \cup {Len(requests) + 1}
        /\ asking' \subseteq 1 .. Len(requests')
    BY <1>1, RequestFacts
  <1>3. alone' \in BOOLEAN
    BY <1>1 DEF AuthTypeOK
  <1>4. AuthTypeOK'
    BY <1>1, <1>2, <1>3 DEF AuthTypeOK
  <1>5. AskingHolds'
    <2>1. startAt <= Len(requests) + 1
      BY <1>1, <1>2 DEF AuthTypeOK
    <2>2. Len(requests) + 1 >= startAt
      BY <1>1, <1>2, <2>1 DEF AuthTypeOK
    <2>3. QED
      BY <1>1, <1>2, <2>2 DEF AskingHolds
  <1>6. SignOutHolds'
    BY <1>1 DEF SignOutHolds
  <1>7. ASSUME alone'
        PROVE  blocks' = <<>> /\ \A m, n \in asking' : m = n
    <2>1. asking = {} /\ \A i \in 1 .. Len(blocks) : FALSE
      BY <1>7 DEF UnderWay
    <2>2. blocks \in Seq(Blocks)
      BY <1>1 DEF AuthTypeOK
    <2>3. Len(blocks) \in Nat /\ (blocks # <<>> => Len(blocks) # 0)
      BY <2>2, EmptySeq
    <2>4. blocks = <<>>
      BY <2>1, <2>3
    <2>5. QED
      BY <1>2, <2>1, <2>4
  <1>8. OneAtATime'
    BY <1>7 DEF OneAtATime
  <1>9. OnlyHasteIsSwallowed'
    BY <1>1 DEF OnlyHasteIsSwallowed, AuthTypeOK
  <1>10. QED
    BY <1>4, <1>5, <1>6, <1>8, <1>9 DEF AuthInv

\* A step that only covers or uncovers the screen: it uncovers it, or nothing
\* is under way for one who is alone.
LEMMA CoverInv ==
  ASSUME AuthInv,
         presented' \in {"nothing", "dialog", "confirm", "main"},
         \/ presented' = "nothing" /\ alone' = alone
         \/ alone' = (alone /\ UnderWay = {}),
         UNCHANGED <<requests, asking, blocks, user, swallowed, startAt, late>>
  PROVE  AuthInv'
  <1>1. /\ AuthTypeOK /\ AskingHolds /\ SignOutHolds /\ OneAtATime /\ OnlyHasteIsSwallowed
    BY DEF AuthInv
  <1>2. alone' \in BOOLEAN /\ (alone' => alone)
    <2>1. alone \in BOOLEAN
      BY <1>1 DEF AuthTypeOK
    <2>2. CASE alone' = alone
      BY <2>1, <2>2
    <2>3. CASE alone' = (alone /\ UnderWay = {})
      BY <2>3, Zenon
    <2>4. QED
      BY <2>2, <2>3
  <1>3. AuthTypeOK' /\ AskingHolds' /\ SignOutHolds'
    BY <1>1, <1>2 DEF AuthTypeOK, AskingHolds, SignOutHolds
  <1>4. OnlyHasteIsSwallowed'
    BY <1>1, <1>2 DEF OnlyHasteIsSwallowed
  <1>5. OneAtATime'
    <2>1. CASE presented' = "nothing" /\ alone' = alone
      BY <1>1, <2>1 DEF OneAtATime
    <2>2. CASE alone' = (alone /\ UnderWay = {})
      <3>1. alone' => asking = {} /\ \A i \in 1 .. Len(blocks) : FALSE
        BY <2>2 DEF UnderWay
      <3>2. Len(blocks) \in Nat /\ (blocks # <<>> => Len(blocks) # 0)
        BY <1>1, EmptySeq DEF AuthTypeOK
      <3>3. alone' => blocks = <<>>
        BY <3>1, <3>2
      <3>4. Len(<<>>) <= 1
        OBVIOUS
      <3>5. QED
        BY <1>1, <1>2, <3>1, <3>3, <3>4 DEF OneAtATime
    <2>3. QED
      BY <2>1, <2>2
  <1>6. QED
    BY <1>3, <1>4, <1>5 DEF AuthInv

-----------------------------------------------------------------------------
(* Firebase and the main queue.                                            *)

\* A request ends.
LEMMA FirebaseEndsInv ==
  ASSUME AuthInv, NEW n \in 1 .. MaxRequests, FirebaseEnds(n)
  PROVE  AuthInv'
  <1>1. /\ AuthTypeOK /\ AskingHolds /\ SignOutHolds /\ OneAtATime /\ OnlyHasteIsSwallowed
    BY DEF AuthInv
  <1>2. PICK ok \in BOOLEAN :
          /\ blocks' = Append(blocks, [op |-> "answer", request |-> n, ok |-> ok])
          /\ user' = IF ok /\ requests[n] # "reset" THEN n ELSE user
    BY DEF FirebaseEnds
  <1>3. /\ n \in asking
        /\ asking' = asking \ {n}
        /\ UNCHANGED <<presented, requests, alone, swallowed, startAt, late>>
    BY DEF FirebaseEnds
  <1> DEFINE b == [op |-> "answer", request |-> n, ok |-> ok]
  <1>4. b \in Blocks /\ b.op = "answer" /\ b.request = n
    BY DEF Blocks
  <1>5. blocks' = Append(blocks, b) /\ blocks \in Seq(Blocks)
    BY <1>1, <1>2 DEF AuthTypeOK
  <1> HIDE DEF b
  <1>6. /\ Len(blocks) \in Nat
        /\ blocks' \in Seq(Blocks)
        /\ Len(blocks') = Len(blocks) + 1
        /\ blocks'[Len(blocks) + 1] = b
        /\ \A i \in 1 .. Len(blocks) : blocks'[i] = blocks[i]
    BY <1>4, <1>5, AppendProperties
  <1>7. \A i \in 1 .. Len(blocks') : i \in 1 .. Len(blocks) \/ i = Len(blocks) + 1
    BY <1>6
  <1>8. n \in 1 .. Len(requests) /\ n \in 0 .. Len(requests)
    BY <1>1, <1>3 DEF AuthTypeOK
  <1>9. AuthTypeOK'
    <2>1. \A i \in 1 .. Len(blocks') :
            /\ blocks'[i].request \in 1 .. Len(requests)
            /\ blocks'[i].op = "resetDone" => requests[blocks'[i].request] = "reset"
      BY <1>1, <1>4, <1>6, <1>7, <1>8 DEF AuthTypeOK
    <2>2. QED
      BY <1>1, <1>2, <1>3, <1>6, <1>8, <2>1 DEF AuthTypeOK
  <1>10. AskingHolds'
    BY <1>1, <1>3 DEF AskingHolds
  <1>11. SignOutHolds'
    BY <1>1, <1>2, <1>3 DEF SignOutHolds, AskingHolds
  <1>12. OneAtATime'
    <2>1. ASSUME alone
          PROVE  presented = "nothing" /\ blocks = <<>> /\ asking' = {}
      BY <1>1, <1>3, <2>1 DEF OneAtATime
    <2>2. alone => Len(blocks) = 0
      BY <2>1
    <2>3. alone => Len(blocks') = 1
      BY <1>6, <2>2
    <2>4. ASSUME alone'
          PROVE  /\ presented' = "nothing" /\ asking' = {} /\ Len(blocks') <= 1
      <3>1. alone /\ presented' = presented
        BY <1>3, <2>4
      <3>2. presented = "nothing" /\ asking' = {} /\ Len(blocks') = 1
        BY <2>1, <2>3, <3>1, Zenon
      <3>3. QED
        BY ONLY <3>1, <3>2
    <2>5. QED
      BY <2>4 DEF OneAtATime
  <1>13. OnlyHasteIsSwallowed'
    BY <1>1, <1>3 DEF OnlyHasteIsSwallowed
  <1>14. QED
    BY <1>9, <1>10, <1>11, <1>12, <1>13 DEF AuthInv

\* The oldest block of the main queue, and what is left without it.
LEMMA HeadAnswer ==
  ASSUME AuthTypeOK, blocks # <<>>
  PROVE  /\ Head(blocks) \in Blocks
         /\ Head(blocks).request \in 1 .. Len(requests)
         /\ Tail(blocks) \in Seq(Blocks)
         /\ Len(Tail(blocks)) = Len(blocks) - 1
         /\ Len(blocks) \in Nat
         /\ \A i \in 1 .. Len(Tail(blocks)) :
              i + 1 \in 1 .. Len(blocks) /\ Tail(blocks)[i] = blocks[i + 1]
  <1>1. blocks \in Seq(Blocks)
    BY DEF AuthTypeOK
  <1>2. /\ Len(blocks) \in Nat /\ 1 \in 1 .. Len(blocks)
        /\ Head(blocks) = blocks[1]
        /\ Tail(blocks) \in Seq(Blocks)
        /\ Len(Tail(blocks)) = Len(blocks) - 1
        /\ \A i \in 1 .. Len(Tail(blocks)) :
             i + 1 \in 1 .. Len(blocks) /\ Tail(blocks)[i] = blocks[i + 1]
    BY <1>1
  <1>3. blocks[1] \in Blocks
    BY <1>1, <1>2, ElementOfSeq
  <1>4. QED
    BY <1>2, <1>3 DEF AuthTypeOK

\* An answer is presented, or swallowed.
LEMMA PresentsInv ==
  ASSUME AuthInv, blocks # <<>>, NEW what \in {"main", "dialog"},
         Presents(Head(blocks), what),
         UNCHANGED <<requests, asking, user, alone, startAt, late>>
  PROVE  AuthInv'
  <1>1. /\ AuthTypeOK /\ AskingHolds /\ SignOutHolds /\ OneAtATime /\ OnlyHasteIsSwallowed
    BY DEF AuthInv
  <1>2. /\ presented' = IF presented = "nothing" THEN what ELSE presented
        /\ swallowed' = IF presented = "nothing" THEN swallowed
                        ELSE swallowed \cup {Head(blocks).request}
        /\ blocks' = Tail(blocks)
    BY DEF Presents, Present
  <1>3. /\ Head(blocks).request \in 1 .. Len(requests)
        /\ Tail(blocks) \in Seq(Blocks)
        /\ Len(Tail(blocks)) = Len(blocks) - 1
        /\ Len(blocks) \in Nat
        /\ \A i \in 1 .. Len(Tail(blocks)) :
             i + 1 \in 1 .. Len(blocks) /\ Tail(blocks)[i] = blocks[i + 1]
    BY <1>1, HeadAnswer
  <1>4. AuthTypeOK'
    <2>1. \A i \in 1 .. Len(blocks') :
            /\ blocks'[i].request \in 1 .. Len(requests)
            /\ blocks'[i].op = "resetDone" => requests[blocks'[i].request] = "reset"
      BY <1>1, <1>2, <1>3 DEF AuthTypeOK
    <2>2. QED
      BY <1>1, <1>2, <1>3, <2>1 DEF AuthTypeOK
  <1>5. AskingHolds' /\ SignOutHolds'
    BY <1>1 DEF AskingHolds, SignOutHolds
  <1>6. ASSUME alone
        PROVE  presented = "nothing" /\ asking = {} /\ blocks' = <<>>
    <2>1. presented = "nothing" /\ asking = {} /\ Len(blocks) <= 1
      BY <1>1, <1>6 DEF OneAtATime
    <2>2. Len(Tail(blocks)) = 0
      BY <1>3, <2>1, LenProperties
    <2>3. QED
      BY <1>2, <1>3, <2>1, <2>2, EmptySeq
  <1>7. OneAtATime'
    <2>1. Len(<<>>) <= 1
      OBVIOUS
    <2>2. QED
      BY <1>6, <2>1 DEF OneAtATime
  <1>8. OnlyHasteIsSwallowed'
    BY <1>1, <1>2, <1>6 DEF OnlyHasteIsSwallowed
  <1>9. QED
    BY <1>4, <1>5, <1>7, <1>8 DEF AuthInv

\* The answer to a recovery is dispatched once more.
LEMMA RedispatchInv ==
  ASSUME AuthInv, blocks # <<>>,
         requests[Head(blocks).request] = "reset",
         blocks' = Append(Tail(blocks), [Head(blocks) EXCEPT !.op = "resetDone"]),
         UNCHANGED <<presented, swallowed, requests, asking, user, alone, startAt, late>>
  PROVE  AuthInv'
  <1>1. /\ AuthTypeOK /\ AskingHolds /\ SignOutHolds /\ OneAtATime /\ OnlyHasteIsSwallowed
    BY DEF AuthInv
  <1> DEFINE b == [Head(blocks) EXCEPT !.op = "resetDone"]
             rest == Tail(blocks)
  <1>2. /\ Head(blocks) \in Blocks
        /\ Head(blocks).request \in 1 .. Len(requests)
        /\ rest \in Seq(Blocks)
        /\ Len(rest) = Len(blocks) - 1
        /\ Len(blocks) \in Nat
        /\ \A i \in 1 .. Len(rest) : i + 1 \in 1 .. Len(blocks) /\ rest[i] = blocks[i + 1]
    BY <1>1, HeadAnswer
  <1>3. b \in Blocks /\ b.request = Head(blocks).request
    BY <1>2 DEF Blocks
  <1>4. blocks' = Append(rest, b)
    OBVIOUS
  <1> HIDE DEF b, rest
  <1>5. /\ Len(rest) \in Nat
        /\ blocks' \in Seq(Blocks)
        /\ Len(blocks') = Len(rest) + 1
        /\ blocks'[Len(rest) + 1] = b
        /\ \A i \in 1 .. Len(rest) : blocks'[i] = rest[i]
    <2>1. rest \in Seq(Blocks) /\ b \in Blocks
      BY <1>2, <1>3
    <2>2. QED
      BY ONLY <1>4, <2>1, AppendProperties
  <1>6. Len(blocks') = Len(blocks)
    <2>1. /\ Len(blocks) \in Nat
          /\ Len(rest) = Len(blocks) - 1
          /\ Len(blocks') = Len(rest) + 1
      BY <1>2, <1>5
    <2>2. QED
      BY ONLY <2>1
  <1>7. \A i \in 1 .. Len(blocks') : i \in 1 .. Len(rest) \/ i = Len(rest) + 1
    BY ONLY <1>5
  <1>8. AuthTypeOK'
    <2>1. \A i \in 1 .. Len(rest) :
            /\ rest[i].request \in 1 .. Len(requests)
            /\ rest[i].op = "resetDone" => requests[rest[i].request] = "reset"
      BY <1>1, <1>2 DEF AuthTypeOK
    <2>2. \A i \in 1 .. Len(blocks') :
            /\ blocks'[i].request \in 1 .. Len(requests)
            /\ blocks'[i].op = "resetDone" => requests[blocks'[i].request] = "reset"
      BY <1>2, <1>3, <1>5, <1>7, <2>1
    <2>3. QED
      BY <1>1, <1>5, <2>2 DEF AuthTypeOK
  <1>9. AskingHolds' /\ SignOutHolds' /\ OnlyHasteIsSwallowed'
    BY <1>1 DEF AskingHolds, SignOutHolds, OnlyHasteIsSwallowed
  <1>10. OneAtATime'
    BY <1>1, <1>6 DEF OneAtATime
  <1>11. QED
    BY <1>8, <1>9, <1>10 DEF AuthInv

LEMMA RunBlockInv ==
  ASSUME AuthInv, RunBlock
  PROVE  AuthInv'
  <1>1. /\ blocks # <<>>
        /\ UNCHANGED <<requests, asking, user, alone, startAt, late>>
    BY DEF RunBlock
  <1>2. CASE /\ requests[Head(blocks).request] = "reset"
             /\ blocks' = Append(Tail(blocks), [Head(blocks) EXCEPT !.op = "resetDone"])
             /\ UNCHANGED <<presented, swallowed>>
    BY <1>1, <1>2, RedispatchInv
  <1>3. CASE Presents(Head(blocks), IF Head(blocks).ok THEN "main" ELSE "dialog")
    BY <1>1, <1>3, PresentsInv
  <1>4. CASE Presents(Head(blocks), "dialog")
    BY <1>1, <1>4, PresentsInv
  <1>5. QED
    BY <1>2, <1>3, <1>4 DEF RunBlock

\* The main UI is left, with a sign-out or without.
LEMMA BackToSignInInv ==
  ASSUME AuthInv, BackToSignIn
  PROVE  AuthInv'
  <1>1. /\ AuthTypeOK /\ AskingHolds /\ SignOutHolds /\ OneAtATime /\ OnlyHasteIsSwallowed
    BY DEF AuthInv
  <1>2. /\ presented' = "nothing"
        /\ UNCHANGED <<requests, asking, blocks, alone, swallowed>>
    BY DEF BackToSignIn
  <1>3. OneAtATime' /\ OnlyHasteIsSwallowed'
    BY <1>1, <1>2 DEF OneAtATime, OnlyHasteIsSwallowed
  <1>4. CASE /\ user' = Nobody
             /\ startAt' = Len(requests) + 1 /\ late' = UnderWay
    <2>1. UnderWay \subseteq 1 .. Len(requests) /\ asking \subseteq UnderWay
      BY <1>1 DEF AuthTypeOK, UnderWay
    <2>2. Len(requests) + 1 \in 0 .. Len(requests) + 1
      BY <1>1 DEF AuthTypeOK
    <2>3. AuthTypeOK'
      BY <1>1, <1>2, <1>4, <2>1, <2>2 DEF AuthTypeOK
    <2>4. AskingHolds' /\ SignOutHolds'
      BY <1>2, <1>4, <2>1 DEF AskingHolds, SignOutHolds
    <2>5. QED
      BY <1>3, <2>3, <2>4 DEF AuthInv
  <1>5. CASE UNCHANGED <<user, startAt, late>>
    BY <1>1, <1>2, <1>3, <1>5 DEF AuthInv, AuthTypeOK, AskingHolds, SignOutHolds
  <1>6. QED
    BY <1>4, <1>5 DEF BackToSignIn

-----------------------------------------------------------------------------

LEMMA AuthStepInv ==
  ASSUME AuthInv, [AuthStep]_authVars
  PROVE  AuthInv'
  <1>1. ASSUME NEW op \in {"signIn", "signUp"}, Sign(op) PROVE AuthInv'
    <2>1. CASE Request(op) /\ UNCHANGED presented
      BY <1>1, <2>1, RequestInv DEF Sign, Press, Operations
    <2>2. CASE Present("dialog") /\ UNCHANGED <<requests, asking>>
      BY <1>1, <2>2, CoverInv DEF Sign, Press, Present
    <2>3. QED
      BY <1>1, <2>1, <2>2 DEF Sign
  <1>2. CASE ForgotPassword
    BY <1>2, CoverInv DEF ForgotPassword, Press, Present
  <1>3. CASE Confirm
    <2>1. CASE Request("reset")
      BY <1>3, <2>1, RequestInv DEF Confirm, Operations
    <2>2. CASE UNCHANGED <<requests, asking>>
      BY <1>3, <2>2, CoverInv DEF Confirm
    <2>3. QED
      BY <1>3, <2>1, <2>2 DEF Confirm
  <1>4. CASE CloseDialog \/ SwipeAway
    BY <1>4, CoverInv DEF CloseDialog, SwipeAway
  <1>5. CASE Skip
    BY <1>5, CoverInv DEF Skip, Press, Present
  <1>6. ASSUME NEW n \in 1 .. MaxRequests, FirebaseEnds(n) PROVE AuthInv'
    BY <1>6, FirebaseEndsInv
  <1>7. CASE RunBlock
    BY <1>7, RunBlockInv
  <1>8. CASE BackToSignIn
    BY <1>8, BackToSignInInv
  <1>9. CASE UNCHANGED authVars
    BY <1>9 DEF authVars, AuthInv, AuthTypeOK, AskingHolds, SignOutHolds, OneAtATime,
                OnlyHasteIsSwallowed
  <1>10. QED
    BY <1>1, <1>2, <1>3, <1>4, <1>5, <1>6, <1>7, <1>8, <1>9 DEF AuthStep, AuthNext

-----------------------------------------------------------------------------
(* The main UI.                                                            *)

\* The only stacks there are: what is the i-th view of tab t, and how many.
ScreenAt(t, i) ==
  IF t = "settings" THEN "settings"
  ELSE IF t = "feed" THEN IF i = 1 THEN "headlines" ELSE IF i = 2 THEN "detail" ELSE "web"
  ELSE IF i = 1 THEN "sources" ELSE IF i = 2 THEN "articles"
  ELSE IF i = 3 THEN "detail" ELSE "web"

Depth(t) == IF t = "settings" THEN 1 ELSE IF t = "feed" THEN 3 ELSE 4

\* The i-th view of s, in tab t: it has its place, a list under way for it is
\* the one it was made for, and it shows what was chosen.
GoodView(t, s, i, n, lists) ==
  /\ s[i].screen = ScreenAt(t, i)
  /\ s[i].view <= n
  /\ \A l \in lists : s[i].view = l.view => s[i].of = l.of
  /\ s[i].list # Nil => s[i].list = s[i].of
  /\ s[i].screen \in {"detail", "web"} => s[i - 1].of = s[i].of

GoodStack(t, s, n, lists) ==
  /\ s \in Seq(Views)
  /\ Len(s) <= Depth(t)
  /\ \A i \in 1 .. Len(s) : GoodView(t, s, i, n, lists)

NavInv ==
  /\ tab \in Tabs /\ barHidden \in BOOLEAN /\ views \in Nat
  /\ stack \in [Tabs -> Seq(Views)]
  /\ loads \subseteq [view : 1 .. views, of : Contents]
  /\ \A t \in Tabs : GoodStack(t, stack[t], views, loads)
  /\ BarFollowsTop
  /\ UnwindCastsHold

NavImplied == NavTypeOK /\ ShowsWhatWasChosen

LEMMA NavInvImplies == NavInv /\ trapped \in BOOLEAN => NavImplied
  <1> SUFFICES ASSUME NavInv, trapped \in BOOLEAN PROVE NavImplied
    OBVIOUS
  <1>1. NavTypeOK
    BY DEF NavInv, NavTypeOK
  <1>2. ShowsWhatWasChosen
    BY DEF NavInv, ShowsWhatWasChosen, GoodStack, GoodView
  <1>3. QED
    BY <1>1, <1>2 DEF NavImplied

-----------------------------------------------------------------------------
(* Stacks.                                                                 *)

LEMMA GoodEmpty ==
  ASSUME NEW t \in Tabs, NEW n \in Nat, NEW lists
  PROVE  GoodStack(t, <<>>, n, lists)
  BY DEF GoodStack, Depth

\* A tab has its root only.
LEMMA GoodRoot ==
  ASSUME NEW t \in Tabs, NEW v \in Views, NEW n \in Nat, NEW lists,
         v.screen = ScreenAt(t, 1), v.view <= n, v.list = Nil,
         \A l \in lists : v.view = l.view => v.of = l.of
  PROVE  /\ GoodStack(t, <<v>>, n, lists)
         /\ <<v>> # <<>> /\ Len(<<v>>) = 1 /\ <<v>>[1] = v
  <1> DEFINE s == <<v>>
  <1>1. s \in Seq(Views) /\ Len(s) = 1 /\ s[1] = v /\ s # <<>>
    OBVIOUS
  <1> HIDE DEF s
  <1>2. v.screen \notin {"detail", "web"}
    BY DEF ScreenAt
  <1>3. GoodView(t, s, 1, n, lists)
    BY <1>1, <1>2 DEF GoodView
  <1>4. Len(s) <= Depth(t) /\ \A i \in 1 .. Len(s) : i = 1
    BY <1>1 DEF Depth
  <1>5. GoodStack(t, s, n, lists)
    BY <1>1, <1>3, <1>4 DEF GoodStack
  <1>6. QED
    BY <1>1, <1>5 DEF s

\* A list view was made elsewhere, for the list x.
LEMMA GoodNextView ==
  ASSUME NEW t \in Tabs, NEW s, NEW n \in Nat, NEW lists, NEW x,
         GoodStack(t, s, n, lists)
  PROVE  GoodStack(t, s, n + 1, lists \cup {[view |-> n + 1, of |-> x]})
  <1>1. s \in Seq(Views) /\ Len(s) <= Depth(t)
    BY DEF GoodStack
  <1>2. ASSUME NEW i \in 1 .. Len(s)
        PROVE  GoodView(t, s, i, n + 1, lists \cup {[view |-> n + 1, of |-> x]})
    <2>1. GoodView(t, s, i, n, lists)
      BY DEF GoodStack
    <2>2. s[i].view \in Nat
      <3>1. s[i] \in Views
        BY <1>1, ElementOfSeq
      <3>2. QED
        BY <3>1 DEF Views
    <2>3. s[i].view # n + 1 /\ s[i].view <= n + 1
      BY <2>1, <2>2 DEF GoodView
    <2>4. QED
      BY <2>1, <2>3 DEF GoodView
  <1>3. QED
    BY <1>1, <1>2 DEF GoodStack

\* A list has arrived: fewer are under way.
LEMMA GoodFewer ==
  ASSUME NEW t \in Tabs, NEW s, NEW n \in Nat, NEW lists, NEW fewer,
         fewer \subseteq lists,
         GoodStack(t, s, n, lists)
  PROVE  GoodStack(t, s, n, fewer)
  BY DEF GoodStack, GoodView

LEMMA GoodPush ==
  ASSUME NEW t \in Tabs, NEW s, NEW n \in Nat, NEW lists, NEW v \in Views,
         GoodStack(t, s, n, lists),
         Len(s) + 1 <= Depth(t),
         v.screen = ScreenAt(t, Len(s) + 1),
         v.view <= n,
         \A l \in lists : v.view = l.view => v.of = l.of,
         v.list # Nil => v.list = v.of,
         v.screen \in {"detail", "web"} => s[Len(s)].of = v.of
  PROVE  /\ GoodStack(t, Append(s, v), n, lists)
         /\ Len(Append(s, v)) = Len(s) + 1
         /\ Append(s, v)[Len(s) + 1] = v
  <1> DEFINE u == Append(s, v)
  <1>1. s \in Seq(Views)
    BY DEF GoodStack
  <1>2. /\ Len(s) \in Nat /\ u \in Seq(Views) /\ Len(u) = Len(s) + 1
        /\ u[Len(s) + 1] = v
        /\ \A i \in 1 .. Len(s) : u[i] = s[i]
    BY <1>1, AppendProperties
  <1> HIDE DEF u
  <1>3. ASSUME NEW i \in 1 .. Len(s)
        PROVE  GoodView(t, u, i, n, lists)
    <2>1. GoodView(t, s, i, n, lists)
      BY DEF GoodStack
    <2>2. s[i].screen \in {"detail", "web"} => i - 1 \in 1 .. Len(s)
      BY <1>2, <2>1 DEF GoodView, ScreenAt
    <2>3. QED
      BY <1>2, <2>1, <2>2 DEF GoodView
  <1>4. GoodView(t, u, Len(s) + 1, n, lists)
    <2>1. v.screen \in {"detail", "web"} => Len(s) \in 1 .. Len(s)
      BY <1>2 DEF ScreenAt
    <2>2. (Len(s) + 1) - 1 = Len(s)
      BY <1>2
    <2>3. v.screen \in {"detail", "web"} => u[Len(s)].of = v.of
      BY <1>2, <2>1
    <2>4. QED
      BY <1>2, <2>2, <2>3 DEF GoodView
  <1>5. \A i \in 1 .. Len(u) : i \in 1 .. Len(s) \/ i = Len(s) + 1
    BY ONLY <1>2
  <1>6. \A i \in 1 .. Len(u) : GoodView(t, u, i, n, lists)
    BY <1>3, <1>4, <1>5
  <1>7. GoodStack(t, u, n, lists)
    BY <1>2, <1>6 DEF GoodStack
  <1>8. QED
    BY <1>2, <1>7 DEF u

LEMMA GoodPrefix ==
  ASSUME NEW t \in Tabs, NEW s, NEW n \in Nat, NEW lists,
         GoodStack(t, s, n, lists), NEW k \in 1 .. Len(s)
  PROVE  /\ GoodStack(t, SubSeq(s, 1, k), n, lists)
         /\ Len(SubSeq(s, 1, k)) = k
         /\ \A i \in 1 .. k : SubSeq(s, 1, k)[i] = s[i]
  <1> DEFINE u == SubSeq(s, 1, k)
  <1>1. s \in Seq(Views) /\ Len(s) \in Nat /\ Len(s) <= Depth(t)
    BY DEF GoodStack
  <1>2. /\ u \in Seq(Views) /\ Len(u) = k
        /\ \A i \in 1 .. k : u[i] = s[i]
    BY <1>1, SubSeqProperties
  <1> HIDE DEF u
  <1>3. k \in Nat /\ k <= Depth(t) /\ 1 .. k \subseteq 1 .. Len(s)
    BY <1>1 DEF Depth
  <1>4. ASSUME NEW i \in 1 .. k
        PROVE  GoodView(t, u, i, n, lists)
    <2>1. GoodView(t, s, i, n, lists)
      BY <1>3 DEF GoodStack
    <2>2. s[i].screen \in {"detail", "web"} => i - 1 \in 1 .. k
      BY <1>3, <2>1 DEF GoodView, ScreenAt
    <2>3. QED
      BY <1>2, <2>1, <2>2 DEF GoodView
  <1>5. GoodStack(t, u, n, lists)
    BY <1>2, <1>3, <1>4 DEF GoodStack
  <1>6. QED
    BY <1>2, <1>5 DEF u

\* A stack after the list l has arrived.
Filled(s, l) ==
  [i \in 1 .. Len(s) |->
     IF s[i].view = l.view THEN [s[i] EXCEPT !.list = l.of] ELSE s[i]]

\* A list arrives at the view it was asked for.
LEMMA GoodArrival ==
  ASSUME NEW t \in Tabs, NEW s, NEW n \in Nat, NEW lists, NEW l \in lists,
         l.of \in Contents,
         GoodStack(t, s, n, lists)
  PROVE  /\ GoodStack(t, Filled(s, l), n, lists)
         /\ Len(Filled(s, l)) = Len(s)
         /\ \A i \in 1 .. Len(s) : Filled(s, l)[i].screen = s[i].screen
  <1> DEFINE F(i) == IF s[i].view = l.view THEN [s[i] EXCEPT !.list = l.of] ELSE s[i]
             u == [i \in 1 .. Len(s) |-> F(i)]
  <1>0. Filled(s, l) = u
    BY DEF Filled
  <1>1. s \in Seq(Views) /\ Len(s) \in Nat /\ Len(s) <= Depth(t)
    BY DEF GoodStack
  <1>2. ASSUME NEW i \in 1 .. Len(s)
        PROVE  /\ F(i) \in Views
               /\ F(i).screen = s[i].screen
               /\ F(i).of = s[i].of
               /\ F(i).view = s[i].view
               /\ F(i).list \in {s[i].list, l.of}
               /\ F(i).list # s[i].list => s[i].view = l.view /\ F(i).list = l.of
    <2>1. s[i] \in Views
      BY <1>1, ElementOfSeq
    <2>2. QED
      BY <2>1 DEF Views
  <1>3. u \in Seq(Views) /\ Len(u) = Len(s)
    <2>1. u \in [1 .. Len(s) -> Views]
      BY <1>2
    <2>2. u \in Seq(Views)
      BY <1>1, <2>1, SeqDef
    <2>3. QED
      BY <1>1, <2>1, <2>2, LenProperties
  <1>4. \A i \in 1 .. Len(s) : u[i] = F(i)
    OBVIOUS
  <1> HIDE DEF F, u
  <1>5. ASSUME NEW i \in 1 .. Len(s)
        PROVE  GoodView(t, u, i, n, lists)
    <2>1. GoodView(t, s, i, n, lists)
      BY DEF GoodStack
    <2>2. s[i].screen \in {"detail", "web"} => i - 1 \in 1 .. Len(s)
      BY <1>1, <2>1 DEF GoodView, ScreenAt
    <2>3. u[i].list # Nil => u[i].list = u[i].of
      BY <1>2, <1>4, <2>1 DEF GoodView
    <2>4. s[i].screen \in {"detail", "web"} => u[i - 1].of = u[i].of
      BY <1>2, <1>4, <2>1, <2>2 DEF GoodView
    <2>5. u[i].screen = s[i].screen /\ u[i].of = s[i].of /\ u[i].view = s[i].view
      BY <1>2, <1>4
    <2>6. QED
      BY <2>1, <2>3, <2>4, <2>5 DEF GoodView
  <1>6. GoodStack(t, u, n, lists)
    BY <1>1, <1>3, <1>5 DEF GoodStack
  <1>7. QED
    BY <1>0, <1>2, <1>3, <1>4, <1>6

-----------------------------------------------------------------------------
(* The bar, and what changes in one tab only.                              *)

\* What NavInv says of the selected tab.
LEMMA HereFacts ==
  ASSUME NavInv, Here # <<>>
  PROVE  /\ Here \in Seq(Views)
         /\ Len(Here) \in Nat /\ Len(Here) >= 1
         /\ Len(Here) \in 1 .. Len(Here)
         /\ Len(Here) <= Depth(tab)
         /\ \A i \in 1 .. Len(Here) : Here[i].screen = ScreenAt(tab, i)
         /\ Top = Here[Len(Here)] /\ Top \in Views
  <1>1. Here \in Seq(Views) /\ Len(Here) <= Depth(tab)
        /\ \A i \in 1 .. Len(Here) : Here[i].screen = ScreenAt(tab, i)
    BY DEF NavInv, GoodStack, GoodView, Here
  <1>2. Len(Here) \in Nat /\ Len(Here) # 0
    BY <1>1, EmptySeq
  <1>3. Len(Here) >= 1 /\ Len(Here) \in 1 .. Len(Here)
    BY <1>2
  <1>4. Here[Len(Here)] \in Views
    BY <1>1, <1>3, ElementOfSeq
  <1>5. QED
    BY <1>1, <1>2, <1>3, <1>4 DEF Top

\* The selected tab gets the stack s, the others keep theirs.
LEMMA OneTabInv ==
  ASSUME NavInv, NEW t \in Tabs, NEW s, NEW n \in Nat, NEW lists,
         \A u \in Tabs : GoodStack(u, stack[u], n, lists),
         GoodStack(t, s, n, lists), s # <<>>,
         lists \subseteq [view : 1 .. n, of : Contents],
         tab' = t, stack' = [stack EXCEPT ![t] = s],
         views' = n, loads' = lists,
         barHidden' \in BOOLEAN,
         Len(s) = 1 => ~barHidden',
         ~barHidden' => s[Len(s)].screen \notin {"detail", "web"},
         ~trapped'
  PROVE  NavInv' /\ Here' # <<>>
  <1>1. stack \in [Tabs -> Seq(Views)]
    BY DEF NavInv
  <1>2. s \in Seq(Views)
    BY DEF GoodStack
  <1>3. stack' \in [Tabs -> Seq(Views)] /\ stack'[t] = s
        /\ \A u \in Tabs : u # t => stack'[u] = stack[u]
    BY <1>1, <1>2
  <1>4. Here' = s
    BY <1>3 DEF Here
  <1>5. BarFollowsTop'
    BY <1>4 DEF BarFollowsTop, Top
  <1>6. \A u \in Tabs : GoodStack(u, stack'[u], views', loads')
    BY <1>3
  <1>7. QED
    BY <1>3, <1>4, <1>5, <1>6 DEF NavInv, UnwindCastsHold

\* A view is pushed: a list view with its list under way, or another.
LEMMA PushInv ==
  ASSUME NavInv, Here # <<>>, NEW v \in Views, Push(v),
         Len(Here) + 1 <= Depth(tab),
         v.screen = ScreenAt(tab, Len(Here) + 1),
         v.list = Nil,
         v.screen \in {"detail", "web"} => Top.of = v.of,
         \/ v.view = 0 /\ UNCHANGED <<views, loads>>
         \/ v.view = views + 1 /\ Loads(v.of)
  PROVE  NavInv' /\ Here' # <<>>
  <1>1. /\ tab' = tab /\ trapped' = trapped
        /\ barHidden' = AfterPushed(v.screen)
        /\ stack' = [stack EXCEPT ![tab] = Append(Here, v)]
    BY DEF Push, Here
  <1>2. /\ Here \in Seq(Views) /\ Len(Here) \in Nat /\ Len(Here) >= 1
        /\ Top = Here[Len(Here)]
    BY HereFacts
  <1>3. /\ tab \in Tabs /\ views \in Nat /\ ~trapped
        /\ loads \subseteq [view : 1 .. views, of : Contents]
        /\ \A t \in Tabs : GoodStack(t, stack[t], views, loads)
    BY DEF NavInv, UnwindCastsHold
  <1>4. v.screen \in {"articles", "detail", "web"}
    BY <1>2, <1>3 DEF ScreenAt, Depth, Tabs
  <1>5. barHidden' = TRUE
    BY <1>1, <1>4 DEF AfterPushed
  <1>6. ASSUME NEW n \in Nat, NEW lists,
               n = views' /\ lists = loads',
               lists \subseteq [view : 1 .. n, of : Contents],
               \A t \in Tabs : GoodStack(t, stack[t], n, lists),
               v.view <= n,
               \A l \in lists : v.view = l.view => v.of = l.of
        PROVE  NavInv' /\ Here' # <<>>
    <2>1. GoodStack(tab, Here, n, lists)
      BY <1>3, <1>6 DEF Here
    <2>2. /\ GoodStack(tab, Append(Here, v), n, lists)
          /\ Len(Append(Here, v)) = Len(Here) + 1
      BY <1>2, <1>3, <1>6, <2>1, GoodPush
    <2>3. Append(Here, v) # <<>> /\ Len(Append(Here, v)) # 1
      BY <1>2, <2>2
    <2>4. QED
      BY <1>1, <1>3, <1>5, <1>6, <2>2, <2>3, OneTabInv
  <1>7. CASE v.view = 0 /\ UNCHANGED <<views, loads>>
    <2>1. \A l \in loads : v.view # l.view
      BY <1>3, <1>7
    <2>2. v.view <= views
      BY <1>3, <1>7
    <2>3. QED
      BY <1>3, <1>6, <1>7, <2>1, <2>2
  <1>8. CASE v.view = views + 1 /\ Loads(v.of)
    <2> DEFINE n == views + 1
               lists == loads \cup {[view |-> n, of |-> v.of]}
    <2>1. views' = n /\ loads' = lists /\ v.view = n
      BY <1>8 DEF Loads
    <2>2. n \in Nat /\ v.view <= n
      BY <1>3, <1>8
    <2>3. \A t \in Tabs : GoodStack(t, stack[t], n, lists)
      BY <1>3, GoodNextView
    <2>4. v.of \in Contents
      BY DEF Views
    <2>5. lists \subseteq [view : 1 .. n, of : Contents]
      BY <1>3, <2>4
    <2>6. \A l \in lists : v.view = l.view => v.of = l.of
      BY <1>3, <1>8
    <2> HIDE DEF n, lists
    <2>7. QED
      BY <1>6, <2>1, <2>2, <2>3, <2>5, <2>6
  <1>9. QED
    BY <1>7, <1>8

\* The stack of the selected tab is cut down.
LEMMA PopInv ==
  ASSUME NavInv, Here # <<>>, Len(Here) > 1, NEW k \in 1 .. Len(Here), PopTo(k),
         UNCHANGED <<tab, views, loads, trapped>>
  PROVE  NavInv' /\ Here' # <<>>
  <1>1. /\ stack' = [stack EXCEPT ![tab] = SubSeq(Here, 1, k)]
        /\ barHidden' = AfterAppears(Here[k].screen, barHidden)
    BY DEF PopTo, Here
  <1>2. /\ Len(Here) \in Nat
        /\ Len(Here) <= Depth(tab)
        /\ Here[k].screen = ScreenAt(tab, k)
    BY HereFacts
  <1>3. /\ tab \in Tabs /\ views \in Nat /\ ~trapped /\ barHidden \in BOOLEAN
        /\ loads \subseteq [view : 1 .. views, of : Contents]
        /\ \A t \in Tabs : GoodStack(t, stack[t], views, loads)
    BY DEF NavInv, UnwindCastsHold
  <1>4. GoodStack(tab, Here, views, loads)
    BY <1>3 DEF Here
  <1>5. /\ GoodStack(tab, SubSeq(Here, 1, k), views, loads)
        /\ Len(SubSeq(Here, 1, k)) = k
        /\ SubSeq(Here, 1, k)[k] = Here[k]
    BY <1>2, <1>3, <1>4, GoodPrefix
  <1>6. tab # "settings"
    BY <1>2 DEF Depth
  <1>7. /\ barHidden' \in BOOLEAN
        /\ k = 1 => ~barHidden'
        /\ ~barHidden' => Here[k].screen \notin {"detail", "web"}
    <2>1. k = 1 => Here[k].screen \in {"headlines", "sources"}
      BY <1>2, <1>6 DEF ScreenAt
    <2>2. QED
      BY <1>1, <1>3, <2>1 DEF AfterAppears
  <1>8. SubSeq(Here, 1, k) # <<>>
    BY <1>5
  <1>9. QED
    BY <1>1, <1>3, <1>5, <1>7, <1>8, OneTabInv

-----------------------------------------------------------------------------
(* The steps.                                                              *)

LEMMA OpenSourceInv ==
  ASSUME NavInv, Here # <<>>, NEW s \in Sources, OpenSource(s)
  PROVE  NavInv' /\ Here' # <<>>
  <1> DEFINE v == ListView("articles", s, views + 1)
  <1>1. Top.screen = "sources" /\ Push(v) /\ Loads(s)
    BY DEF OpenSource
  <1>2. views \in Nat /\ tab \in Tabs
    BY DEF NavInv
  <1>3. /\ v \in Views /\ v.screen = "articles" /\ v.list = Nil
        /\ v.of = s /\ v.view = views + 1
    BY <1>2 DEF ListView, Views, Screens, Contents
  <1>4. Top.screen = ScreenAt(tab, Len(Here)) /\ Len(Here) \in Nat /\ Len(Here) >= 1
    BY HereFacts
  <1>5. tab = "sources" /\ Len(Here) = 1
    BY <1>1, <1>2, <1>4 DEF ScreenAt, Tabs
  <1>6. Len(Here) + 1 <= Depth(tab) /\ ScreenAt(tab, Len(Here) + 1) = "articles"
    BY <1>5 DEF Depth, ScreenAt
  <1> HIDE DEF v
  <1>7. QED
    BY <1>1, <1>3, <1>6, PushInv

LEMMA OpenArticleInv ==
  ASSUME NavInv, Here # <<>>, OpenArticle
  PROVE  NavInv' /\ Here' # <<>>
  <1> DEFINE v == View("detail", Top.list)
  <1>1. /\ Top.screen \in {"headlines", "articles"} /\ Top.list # Nil
        /\ Push(v) /\ UNCHANGED <<views, loads>>
    BY DEF OpenArticle
  <1>2. /\ Top.screen = ScreenAt(tab, Len(Here)) /\ Len(Here) \in Nat /\ Len(Here) >= 1
        /\ Len(Here) \in 1 .. Len(Here) /\ Top = Here[Len(Here)] /\ Top \in Views
    BY HereFacts
  <1>3. tab \in Tabs /\ GoodStack(tab, Here, views, loads)
    BY DEF NavInv, Here
  <1>4. Top.list = Top.of
    BY <1>1, <1>2, <1>3 DEF GoodStack, GoodView
  <1>5. /\ v \in Views /\ v.screen = "detail" /\ v.list = Nil
        /\ v.of = Top.of /\ v.view = 0
    BY <1>2, <1>4 DEF View, Views, Screens
  <1>6. (tab = "feed" /\ Len(Here) = 1) \/ (tab = "sources" /\ Len(Here) = 2)
    BY <1>1, <1>2, <1>3 DEF ScreenAt, Tabs
  <1>7. Len(Here) + 1 <= Depth(tab) /\ ScreenAt(tab, Len(Here) + 1) = "detail"
    <2>1. CASE tab = "feed" /\ Len(Here) = 1
      BY <2>1 DEF Depth, ScreenAt
    <2>2. CASE tab = "sources" /\ Len(Here) = 2
      BY <2>2 DEF Depth, ScreenAt
    <2>3. QED
      BY <1>6, <2>1, <2>2
  <1> HIDE DEF v
  <1>8. QED
    BY <1>1, <1>5, <1>7, PushInv

LEMMA ReadMoreInv ==
  ASSUME NavInv, Here # <<>>, ReadMore
  PROVE  NavInv' /\ Here' # <<>>
  <1> DEFINE v == View("web", Top.of)
  <1>1. Top.screen = "detail" /\ Push(v) /\ UNCHANGED <<views, loads>>
    BY DEF ReadMore
  <1>2. /\ Top.screen = ScreenAt(tab, Len(Here)) /\ Len(Here) \in Nat /\ Len(Here) >= 1
        /\ Len(Here) \in 1 .. Len(Here) /\ Top \in Views
    BY HereFacts
  <1>3. tab \in Tabs
    BY DEF NavInv
  <1>4. /\ v \in Views /\ v.screen = "web" /\ v.list = Nil
        /\ v.of = Top.of /\ v.view = 0
    BY <1>2 DEF View, Views, Screens
  <1>5. (tab = "feed" /\ Len(Here) = 2) \/ (tab = "sources" /\ Len(Here) = 3)
    BY <1>1, <1>2, <1>3 DEF ScreenAt, Tabs
  <1>6. Len(Here) + 1 <= Depth(tab) /\ ScreenAt(tab, Len(Here) + 1) = "web"
    <2>1. CASE tab = "feed" /\ Len(Here) = 2
      BY <2>1 DEF Depth, ScreenAt
    <2>2. CASE tab = "sources" /\ Len(Here) = 3
      BY <2>2 DEF Depth, ScreenAt
    <2>3. QED
      BY <1>5, <2>1, <2>2
  <1> HIDE DEF v
  <1>7. QED
    BY <1>1, <1>4, <1>6, PushInv

\* The unwind segue: the cast finds the controller it expects.
LEMMA BackToArticlesInv ==
  ASSUME NavInv, Here # <<>>, BackToArticles
  PROVE  NavInv' /\ Here' # <<>>
  <1> DEFINE Place(k) == IF Here[k].screen = "headlines" THEN 1 ELSE 2
             Found(k) == Place(k) <= Len(Here) /\ Here[Place(k)].screen = Here[k].screen
  <1>1. /\ Top.screen = "web"
        /\ UNCHANGED <<tab, views, loads>>
    BY DEF BackToArticles
  <1>2. PICK k \in 1 .. Len(Here) - 1 :
          /\ Here[k].screen \in {"headlines", "articles"}
          /\ \/ Found(k) /\ PopTo(Place(k)) /\ UNCHANGED trapped
             \/ ~Found(k)
    BY DEF BackToArticles
  <1>3. /\ Len(Here) \in Nat
        /\ Top.screen = ScreenAt(tab, Len(Here)) /\ Len(Here) >= 1
        /\ Here[k].screen = ScreenAt(tab, k)
        /\ \A i \in 1 .. Len(Here) : Here[i].screen = ScreenAt(tab, i)
    BY <1>2, HereFacts
  <1>4. tab \in Tabs
    BY DEF NavInv
  <1>5. Len(Here) > 1 /\ Place(k) = k /\ k \in 1 .. Len(Here)
    <2>1. k \in 1 .. Len(Here) /\ Len(Here) > 1 /\ k \in Nat /\ k # 0
      BY <1>2, <1>3
    <2>2. Here[k].screen = "headlines" => k = 1
      BY <1>3, <2>1 DEF ScreenAt
    <2>3. Here[k].screen = "articles" => k = 2
      BY <1>3, <2>1 DEF ScreenAt
    <2>4. QED
      BY <1>2, <2>1, <2>2, <2>3
  <1>6. Found(k)
    BY <1>3, <1>5
  <1>7. PopTo(k) /\ UNCHANGED trapped
    BY <1>2, <1>5, <1>6
  <1>8. QED
    BY <1>1, <1>5, <1>7, PopInv

LEMMA CancelBackInv ==
  ASSUME NavInv, Here # <<>>, CancelBack
  PROVE  NavInv' /\ Here' # <<>>
  <1>1. /\ Len(Here) > 1
        /\ barHidden' = AfterAppears(Top.screen,
                                     AfterAppears(Here[Len(Here) - 1].screen, barHidden))
        /\ UNCHANGED <<tab, stack, views, loads, trapped>>
    BY DEF CancelBack
  <1>2. barHidden \in BOOLEAN /\ Len(Here) \in Nat
    BY HereFacts DEF NavInv
  <1>3. barHidden' \in BOOLEAN /\ (Top.screen \in {"detail", "web"} => barHidden')
    BY <1>1, <1>2 DEF AfterAppears
  <1>4. Here' = Here /\ Top' = Top
    BY <1>1 DEF Here, Top
  <1>5. BarFollowsTop'
    <2>1. Len(Here') # 1
      <3>1. Len(Here) > 1 /\ Len(Here) \in Nat
        BY <1>1, <1>2
      <3>2. ASSUME NEW d \in Nat, d > 1 PROVE d # 1
        BY ONLY <3>2
      <3>3. QED
        BY <1>4, <3>1, <3>2, Zenon
    <2>2. ~barHidden' => Top'.screen \notin {"detail", "web"}
      <3>1. CASE Top.screen \in {"detail", "web"}
        <4>1. barHidden' = TRUE
          BY <1>3, <3>1
        <4>2. QED
          BY <4>1
      <3>2. CASE Top.screen \notin {"detail", "web"}
        BY <1>4, <3>2
      <3>3. QED
        BY <3>1, <3>2
    <2>3. QED
      BY <2>1, <2>2, Zenon DEF BarFollowsTop
  <1>6. /\ tab \in Tabs /\ views \in Nat /\ ~trapped
        /\ stack \in [Tabs -> Seq(Views)]
        /\ loads \subseteq [view : 1 .. views, of : Contents]
        /\ \A t \in Tabs : GoodStack(t, stack[t], views, loads)
    BY DEF NavInv, UnwindCastsHold
  <1>7. \A t \in Tabs : GoodStack(t, stack'[t], views', loads')
    BY <1>1, <1>6
  <1>8. QED
    BY <1>1, <1>3, <1>4, <1>5, <1>6, <1>7 DEF NavInv, UnwindCastsHold

LEMMA SelectTabInv ==
  ASSUME NavInv, NEW t \in Tabs, SelectTab(t), t = "sources" \/ stack[t] # <<>>
  PROVE  NavInv' /\ Here' # <<>>
  <1>1. ~barHidden /\ tab' = t /\ UNCHANGED trapped
    BY DEF SelectTab
  <1>2. /\ views \in Nat /\ ~trapped
        /\ stack \in [Tabs -> Seq(Views)]
        /\ loads \subseteq [view : 1 .. views, of : Contents]
        /\ \A u \in Tabs : GoodStack(u, stack[u], views, loads)
    BY DEF NavInv, UnwindCastsHold
  <1>3. CASE /\ stack[t] = <<>>
             /\ stack' = [stack EXCEPT ![t] = <<ListView("sources", AllSources, views + 1)>>]
             /\ barHidden' = AfterPushed("sources")
             /\ Loads(AllSources)
    <2> DEFINE n == views + 1
               v == ListView("sources", AllSources, n)
               lists == loads \cup {[view |-> n, of |-> AllSources]}
    <2>1. views' = n /\ loads' = lists /\ stack' = [stack EXCEPT ![t] = <<v>>]
      BY <1>3 DEF Loads
    <2>2. n \in Nat /\ lists \subseteq [view : 1 .. n, of : Contents]
      BY <1>2 DEF Contents
    <2>3. \A u \in Tabs : GoodStack(u, stack[u], n, lists)
      BY <1>2, GoodNextView
    <2>4. /\ v \in Views /\ v.screen = "sources" /\ v.list = Nil
          /\ v.of = AllSources /\ v.view = n
      <3>1. n \in Nat /\ AllSources \in Contents /\ "sources" \in Screens
        BY <1>2 DEF Contents, Screens
      <3> HIDE DEF n
      <3>2. QED
        BY <3>1 DEF ListView, Views
    <2>5. \A l \in lists : v.view = l.view => v.of = l.of
      BY <1>2, <2>4
    <2>6. ~barHidden' /\ barHidden' \in BOOLEAN
      <3>1. barHidden' = AfterPushed("sources")
        BY <1>3
      <3>2. AfterPushed("sources") = FALSE
        BY DEF AfterPushed
      <3>3. QED
        BY <3>1, <3>2
    <2> HIDE DEF v, n, lists
    <2>7. t = "sources"
      BY <1>3
    <2>8. GoodStack(t, <<v>>, n, lists) /\ <<v>> # <<>> /\ Len(<<v>>) = 1 /\ <<v>>[1] = v
      <3>1. v.screen = ScreenAt(t, 1) /\ v.view <= n
        BY <2>2, <2>4, <2>7 DEF ScreenAt
      <3>2. QED
        BY <2>2, <2>4, <2>5, <3>1, GoodRoot
    <2>9. QED
      BY <1>1, <1>2, <2>1, <2>2, <2>3, <2>4, <2>6, <2>8, OneTabInv
  <1>4. CASE /\ stack[t] # <<>>
             /\ barHidden' = AfterAppears(stack[t][Len(stack[t])].screen, barHidden)
             /\ UNCHANGED <<stack, views, loads>>
    <2> DEFINE s == stack[t]
    <2>1. GoodStack(t, s, views, loads) /\ s \in Seq(Views) /\ s # <<>>
      BY <1>2, <1>4
    <2>2. Len(s) \in Nat /\ Len(s) \in 1 .. Len(s)
      BY <2>1, EmptySeq
    <2>3. barHidden' \in BOOLEAN
          /\ (s[Len(s)].screen \in {"detail", "web"} => barHidden')
          /\ (s[Len(s)].screen \notin {"detail", "web"} => ~barHidden')
      <3>1. barHidden' = AfterAppears(s[Len(s)].screen, FALSE)
        <4>1. barHidden = FALSE
          BY <1>1 DEF NavInv
        <4>2. QED
          BY <1>4, <4>1
      <3>2. CASE s[Len(s)].screen \in {"detail", "web"}
        <4>1. barHidden' = TRUE
          BY <3>1, <3>2 DEF AfterAppears
        <4>2. QED
          BY <3>2, <4>1
      <3>3. CASE s[Len(s)].screen \notin {"detail", "web"}
        <4>1. barHidden' = FALSE
          BY <3>1, <3>3 DEF AfterAppears
        <4>2. QED
          BY <3>3, <4>1
      <3>4. QED
        BY <3>2, <3>3
    <2>4. Len(s) = 1 => s[Len(s)].screen \notin {"detail", "web"}
      BY <2>1, <2>2 DEF GoodStack, GoodView, ScreenAt
    <2>5. stack' = [stack EXCEPT ![t] = s]
      BY <1>2, <1>4
    <2> HIDE DEF s
    <2>6. QED
      BY <1>1, <1>2, <1>4, <2>1, <2>3, <2>4, <2>5, OneTabInv
  <1>5. QED
    BY <1>3, <1>4 DEF SelectTab

\* While the main UI is presented, these tabs have their root.
Standing == Here # <<>> /\ stack["feed"] # <<>> /\ stack["settings"] # <<>>

\* Any step of the user in the main UI.
LEMMA NavNextInv ==
  ASSUME NavInv, Standing, NavNext
  PROVE  NavInv' /\ Here' # <<>>
  <1> USE DEF Standing
  <1>1. ASSUME NEW t \in Tabs, SelectTab(t) PROVE NavInv' /\ Here' # <<>>
    BY <1>1, SelectTabInv DEF Tabs
  <1>2. CASE ReselectTab
    <2>1. 1 \in 1 .. Len(Here)
      BY HereFacts
    <2>2. QED
      BY <1>2, <2>1, PopInv DEF ReselectTab
  <1>3. ASSUME NEW s \in Sources, OpenSource(s) PROVE NavInv' /\ Here' # <<>>
    BY <1>3, OpenSourceInv
  <1>4. CASE Back
    <2>1. Len(Here) > 1 /\ Len(Here) \in Nat
      BY <1>4, HereFacts DEF Back
    <2>2. Len(Here) - 1 \in 1 .. Len(Here)
      BY <2>1
    <2>3. QED
      BY <1>4, <2>1, <2>2, PopInv DEF Back
  <1>5. QED
    BY <1>1, <1>2, <1>3, <1>4, OpenArticleInv, ReadMoreInv, CancelBackInv,
       BackToArticlesInv DEF NavNext

\* ... and it changes the tab it comes to only.
LEMMA NavNextStands ==
  ASSUME NavInv, Standing, NavNext
  PROVE  NavInv' /\ Standing'
  <1>1. NavInv' /\ Here' # <<>>
    BY NavNextInv
  <1>2. stack \in [Tabs -> Seq(Views)]
    BY DEF NavInv
  <1>3. \A t \in Tabs : t # tab' => stack'[t] = stack[t]
    <2>1. ASSUME NEW t \in Tabs, SelectTab(t) PROVE <1>3
      BY <1>2, <2>1 DEF SelectTab
    <2>2. ASSUME NEW v, Push(v) PROVE <1>3
      BY <1>2, <2>2 DEF Push
    <2>3. ASSUME NEW k, PopTo(k), UNCHANGED tab PROVE <1>3
      BY <1>2, <2>3 DEF PopTo
    <2>4. CASE CancelBack
      BY <2>4 DEF CancelBack
    <2>5. CASE BackToArticles
      BY <2>3, <2>5 DEF BackToArticles
    <2>6. QED
      BY <2>1, <2>2, <2>3, <2>4, <2>5
      DEF NavNext, ReselectTab, OpenSource, OpenArticle, ReadMore, Back
  <1>4. QED
    BY <1>1, <1>3 DEF Standing, Here, Tabs

-----------------------------------------------------------------------------
(* The main UI comes and goes, and lists arrive.                           *)

LEMMA NavInitInv == NavInit => NavInv
  <1> SUFFICES ASSUME NavInit PROVE NavInv
    OBVIOUS
  <1>1. stack = NoStacks /\ tab \in Tabs
    BY DEF NavInit, Tabs
  <1>2. \A t \in Tabs : stack[t] = <<>>
    BY <1>1 DEF NoStacks
  <1>3. \A t \in Tabs : GoodStack(t, stack[t], 0, {})
    BY <1>2, GoodEmpty
  <1>4. stack \in [Tabs -> Seq(Views)]
    BY <1>1 DEF NoStacks
  <1>5. BarFollowsTop
    BY <1>1, <1>2 DEF BarFollowsTop, Here
  <1>6. QED
    BY <1>1, <1>3, <1>4, <1>5 DEF NavInv, NavInit, UnwindCastsHold

LEMMA LeaveInv ==
  ASSUME NavInv, Leave
  PROVE  NavInv'
  <1>1. stack' = NoStacks /\ UNCHANGED <<tab, barHidden, views, loads, trapped>>
    BY DEF Leave
  <1>2. /\ tab \in Tabs /\ barHidden \in BOOLEAN /\ views \in Nat /\ ~trapped
        /\ loads \subseteq [view : 1 .. views, of : Contents]
    BY DEF NavInv, UnwindCastsHold
  <1>3. \A t \in Tabs : stack'[t] = <<>>
    BY <1>1 DEF NoStacks
  <1>4. \A t \in Tabs : GoodStack(t, stack'[t], views', loads')
    BY <1>1, <1>2, <1>3, GoodEmpty
  <1>5. stack' \in [Tabs -> Seq(Views)]
    BY <1>1 DEF NoStacks
  <1>6. BarFollowsTop'
    BY <1>1, <1>2, <1>3 DEF BarFollowsTop, Here
  <1>7. QED
    BY <1>1, <1>2, <1>4, <1>5, <1>6 DEF NavInv, UnwindCastsHold

LEMMA EnterInv ==
  ASSUME NavInv, Enter
  PROVE  NavInv' /\ Standing'
  <1> DEFINE n == views + 1
             lists == loads \cup {[view |-> n, of |-> Home]}
             v == ListView("headlines", Home, n)
  <1>1. /\ tab' = "feed" /\ barHidden' = FALSE /\ trapped' = trapped
        /\ views' = n /\ loads' = lists
        /\ stack' = [NoStacks EXCEPT !["feed"] = <<v>>, !["settings"] = <<Settings>>]
    BY DEF Enter, Loads
  <1>2. /\ views \in Nat /\ ~trapped
        /\ loads \subseteq [view : 1 .. views, of : Contents]
    BY DEF NavInv, UnwindCastsHold
  <1>3. /\ n \in Nat /\ Home \in Contents
        /\ lists \subseteq [view : 1 .. n, of : Contents]
        /\ \A l \in lists : n = l.view => Home = l.of
        /\ \A l \in lists : 0 # l.view
    BY <1>2 DEF Contents
  <1> HIDE DEF n, lists
  <1>4. /\ v \in Views /\ v.screen = "headlines" /\ v.list = Nil
        /\ v.of = Home /\ v.view = n
    BY <1>3 DEF ListView, Views, Screens
  <1>5. /\ Settings \in Views /\ Settings.screen = "settings" /\ Settings.list = Nil
        /\ Settings.of = Home /\ Settings.view = 0
    BY <1>3 DEF Settings, View, Views, Screens
  <1> HIDE DEF v
  <1>6. /\ GoodStack("feed", <<v>>, n, lists)
        /\ <<v>> # <<>> /\ Len(<<v>>) = 1 /\ <<v>>[1] = v
    <2>1. "feed" \in Tabs /\ v.screen = ScreenAt("feed", 1) /\ v.view <= n
      BY <1>3, <1>4 DEF Tabs, ScreenAt
    <2>2. QED
      BY <1>3, <1>4, <2>1, GoodRoot
  <1>7. GoodStack("settings", <<Settings>>, n, lists) /\ <<Settings>> # <<>>
    <2>1. /\ "settings" \in Tabs /\ Settings.screen = ScreenAt("settings", 1)
          /\ Settings.view <= n
      BY <1>3, <1>5 DEF Tabs, ScreenAt
    <2>2. QED
      BY <1>3, <1>5, <2>1, GoodRoot
  <1>8. GoodStack("sources", <<>>, n, lists)
    BY <1>3, GoodEmpty DEF Tabs
  <1>9. /\ stack'["feed"] = <<v>> /\ stack'["settings"] = <<Settings>>
        /\ stack'["sources"] = <<>>
    BY <1>1 DEF NoStacks, Tabs
  <1>10. \A t \in Tabs : GoodStack(t, stack'[t], n, lists)
    BY <1>6, <1>7, <1>8, <1>9 DEF Tabs
  <1>11. stack' \in [Tabs -> Seq(Views)]
    <2>1. <<v>> \in Seq(Views) /\ <<Settings>> \in Seq(Views) /\ <<>> \in Seq(Views)
      BY <1>4, <1>5
    <2>2. NoStacks \in [Tabs -> Seq(Views)]
      BY DEF NoStacks
    <2>3. QED
      BY <1>1, <2>1, <2>2
  <1>12. Here' = <<v>> /\ Top' = v
    BY <1>1, <1>6, <1>9 DEF Here, Top
  <1>13. BarFollowsTop'
    BY <1>1, <1>4, <1>12 DEF BarFollowsTop
  <1>14. NavInv'
    BY <1>1, <1>2, <1>3, <1>10, <1>11, <1>13 DEF NavInv, Tabs, UnwindCastsHold
  <1>15. QED
    BY <1>6, <1>7, <1>9, <1>12, <1>14 DEF Standing

LEMMA ListArrivesInv ==
  ASSUME NavInv, NEW l \in loads, ListArrives(l)
  PROVE  NavInv' /\ (Standing => Standing')
  <1>1. /\ loads' = loads \ {l}
        /\ stack' = [t \in Tabs |-> Filled(stack[t], l)]
        /\ UNCHANGED <<tab, barHidden, views, trapped>>
    BY DEF ListArrives, Filled
  <1>2. /\ tab \in Tabs /\ barHidden \in BOOLEAN /\ views \in Nat /\ ~trapped
        /\ stack \in [Tabs -> Seq(Views)]
        /\ loads \subseteq [view : 1 .. views, of : Contents]
        /\ \A t \in Tabs : GoodStack(t, stack[t], views, loads)
        /\ BarFollowsTop
    BY DEF NavInv, UnwindCastsHold
  <1>3. l.of \in Contents
    BY <1>2
  <1>4. ASSUME NEW t \in Tabs
        PROVE  /\ GoodStack(t, Filled(stack[t], l), views, loads)
               /\ Len(Filled(stack[t], l)) = Len(stack[t])
               /\ \A i \in 1 .. Len(stack[t]) :
                    Filled(stack[t], l)[i].screen = stack[t][i].screen
    BY <1>2, <1>3, GoodArrival
  <1>5. /\ loads' \subseteq loads
        /\ \A t \in Tabs : stack'[t] = Filled(stack[t], l)
    BY <1>1
  <1>6. ASSUME NEW t \in Tabs
        PROVE  /\ GoodStack(t, stack'[t], views', loads')
               /\ stack'[t] \in Seq(Views)
               /\ Len(stack'[t]) = Len(stack[t])
               /\ \A i \in 1 .. Len(stack[t]) : stack'[t][i].screen = stack[t][i].screen
               /\ stack[t] # <<>> => stack'[t] # <<>> /\ Len(stack[t]) \in 1 .. Len(stack[t])
               /\ stack[t] = <<>> => stack'[t] = <<>>
    <2>1. GoodStack(t, stack'[t], views, loads')
      BY <1>2, <1>4, <1>5, GoodFewer
    <2>2. stack'[t] \in Seq(Views) /\ stack[t] \in Seq(Views)
      BY <1>2, <2>1 DEF GoodStack
    <2>3. Len(stack'[t]) = Len(stack[t])
      BY <1>4, <1>5
    <2>4. /\ stack[t] # <<>> => stack'[t] # <<>> /\ Len(stack[t]) \in 1 .. Len(stack[t])
          /\ stack[t] = <<>> => stack'[t] = <<>>
      BY ONLY <2>2, <2>3, EmptySeq, LenProperties
    <2>5. QED
      BY <1>1, <1>4, <1>5, <2>1, <2>2, <2>3, <2>4
  <1>7. stack' \in [Tabs -> Seq(Views)]
    <2>1. \A t \in Tabs : Filled(stack[t], l) \in Seq(Views)
      BY <1>5, <1>6
    <2>2. QED
      BY <1>1, <2>1
  <1>8. BarFollowsTop'
    <2>1. /\ Here' # <<>> => Here # <<>> /\ Top'.screen = Top.screen
          /\ Len(Here') = Len(Here)
      BY <1>1, <1>2, <1>6 DEF Here, Top
    <2>2. QED
      BY <1>1, <1>2, <2>1 DEF BarFollowsTop
  <1>9. NavInv'
    BY <1>1, <1>2, <1>5, <1>6, <1>7, <1>8 DEF NavInv, UnwindCastsHold
  <1>10. Standing => Standing'
    BY <1>1, <1>2, <1>6 DEF Standing, Here, Tabs
  <1>11. QED
    BY <1>9, <1>10

-----------------------------------------------------------------------------
(* Both.                                                                   *)

IInv ==
  /\ AuthInv
  /\ NavInv
  /\ trapped \in BOOLEAN
  /\ presented = "main" => Standing

LEMMA InitInv == Init => IInv
  <1> SUFFICES ASSUME Init PROVE IInv
    OBVIOUS
  <1>1. AuthInv /\ NavInv
    BY AuthInitInv, NavInitInv DEF Init
  <1>2. trapped \in BOOLEAN /\ presented # "main"
    BY DEF Init, AuthInit, NavInit
  <1>3. QED
    BY <1>1, <1>2 DEF IInv

\* A step that leaves the main UI alone.
LEMMA NavUnchanged ==
  ASSUME NavInv, UNCHANGED navVars
  PROVE  NavInv' /\ (Standing => Standing') /\ trapped' = trapped
  <1>1. UNCHANGED <<tab, stack, barHidden, views, loads, trapped>>
    BY DEF navVars
  <1>2. UNCHANGED <<Here, Top>>
    BY <1>1 DEF Here, Top
  <1>3. NavInv'
    BY <1>1, <1>2 DEF NavInv, BarFollowsTop, UnwindCastsHold
  <1>4. QED
    BY <1>1, <1>2, <1>3 DEF Standing

\* What the main UI does when the entry screen moves.
LEMMA MainFollowsInv ==
  ASSUME IInv, MainFollows
  PROVE  /\ NavInv' /\ trapped' \in BOOLEAN
         /\ presented' = "main" => Standing'
  <1>1. NavInv /\ trapped \in BOOLEAN /\ (presented = "main" => Standing)
    BY DEF IInv
  <1>2. CASE presented # "main" /\ presented' = "main" /\ Enter
    BY <1>1, <1>2, EnterInv DEF Enter
  <1>3. CASE presented = "main" /\ presented' # "main" /\ Leave
    BY <1>1, <1>3, LeaveInv DEF Leave
  <1>4. CASE (presented = "main") = (presented' = "main") /\ UNCHANGED navVars
    BY <1>1, <1>4, NavUnchanged
  <1>5. QED
    BY <1>2, <1>3, <1>4 DEF MainFollows

LEMMA EntryInv ==
  ASSUME IInv, AuthStep, MainFollows
  PROVE  IInv'
  <1>1. AuthInv'
    BY AuthStepInv DEF IInv
  <1>2. QED
    BY <1>1, MainFollowsInv DEF IInv

\* No step of the user makes another value of the trap than the two.
LEMMA TrapIsBoolean ==
  ASSUME NavNext, trapped \in BOOLEAN
  PROVE  trapped' \in BOOLEAN
  BY DEF NavNext, SelectTab, ReselectTab, OpenSource, OpenArticle, ReadMore, Back,
         CancelBack, BackToArticles, Push

LEMMA NavigateInv ==
  ASSUME IInv, Navigate
  PROVE  IInv'
  <1>1. /\ presented = "main" /\ NavNext /\ UNCHANGED authVars
        /\ AuthInv /\ NavInv /\ Standing /\ trapped \in BOOLEAN
    BY DEF Navigate, IInv
  <1>2. NavInv' /\ Standing'
    BY <1>1, NavNextStands
  <1>3. trapped' \in BOOLEAN
    BY <1>1, TrapIsBoolean
  <1>4. AuthInv'
    BY <1>1, AuthStepInv
  <1>5. QED
    BY <1>2, <1>3, <1>4 DEF IInv

LEMMA ArriveInv ==
  ASSUME IInv, Arrive
  PROVE  IInv'
  <1>1. PICK l \in loads : ListArrives(l)
    BY DEF Arrive
  <1>2. UNCHANGED <<authVars, trapped>>
    BY <1>1 DEF Arrive, ListArrives
  <1>3. presented' = presented
    BY <1>2 DEF authVars
  <1>4. NavInv' /\ (Standing => Standing')
    BY <1>1, ListArrivesInv DEF IInv
  <1>5. AuthInv'
    BY <1>2, AuthStepInv DEF IInv
  <1>6. QED
    BY <1>2, <1>3, <1>4, <1>5 DEF IInv

LEMMA StepInv == IInv /\ [Next]_vars => IInv'
  <1> SUFFICES ASSUME IInv, [Next]_vars PROVE IInv'
    OBVIOUS
  <1>1. CASE Entry \/ SkipEntry \/ SignOut
    BY <1>1, EntryInv DEF Entry, SkipEntry, SignOut, AuthStep
  <1>2. CASE UNCHANGED vars
    <2>1. UNCHANGED <<authVars, navVars>>
      BY <1>2 DEF vars
    <2>2. AuthInv' /\ presented' = presented
      BY <2>1, AuthStepInv DEF IInv, authVars
    <2>3. QED
      BY <2>1, <2>2, NavUnchanged DEF IInv
  <1>3. QED
    BY <1>1, <1>2, NavigateInv, ArriveInv DEF Next

-----------------------------------------------------------------------------
(* The theorems.                                                           *)

\* The invariant behind the others.
THEOREM Invariance == Spec => []IInv
  BY InitInv, StepInv, PTL DEF Spec

\* The variables keep their types; the entry screen never holds a request or an
\* answer nobody made (AuthUtils.swift:19-88), nor a tab a view that is none.
THEOREM TypeCorrect == Spec => []TypeOK
  <1>1. IInv => TypeOK
    BY NavInvImplies DEF IInv, AuthInv, NavImplied, TypeOK
  <1>2. QED
    BY Invariance, <1>1, PTL

\* Nobody is signed in after a sign-out (SignInViewController.swift:82) who has
\* not asked for it since, but for the requests that were under way then.
THEOREM SignOutKept == Spec => []SignOutHolds
  <1>1. IInv => SignOutHolds
    BY DEF IInv, AuthInv
  <1>2. QED
    BY Invariance, <1>1, PTL

\* Every answer of Firebase is seen by whoever waits for it, though the screen
\* never asks whether it may present anything (AuthUtils.swift:63).
THEOREM PatienceIsAnswered == Spec => []OnlyHasteIsSwallowed
  <1>1. IInv => OnlyHasteIsSwallowed
    BY DEF IInv, AuthInv
  <1>2. QED
    BY Invariance, <1>1, PTL

\* The tab bar that all controllers write is there under the root of every tab
\* and gone under every detail and web view, whatever the user swipes, selects
\* and gives up.  Of a source's articles nothing is said: ArticleViewController.swift
\* hides the bar once, and a swipe that is given up brings it back there.
THEOREM BarIsRight == Spec => []BarFollowsTop
  <1>1. IInv => BarFollowsTop
    BY DEF IInv, NavInv
  <1>2. QED
    BY Invariance, <1>1, PTL

\* The forced casts of the unwind segues (HeadlineViewController.swift:40,
\* ArticleViewController.swift:39) never fail.
THEOREM CastsHold == Spec => []UnwindCastsHold
  <1>1. IInv => UnwindCastsHold
    BY DEF IInv, NavInv
  <1>2. QED
    BY Invariance, <1>1, PTL

\* No view shows the list or the article of another choice than the one made
\* below it, however late the lists arrive.
THEOREM ChoicesShown == Spec => []ShowsWhatWasChosen
  <1>1. IInv => ShowsWhatWasChosen
    BY NavInvImplies DEF IInv, NavImplied
  <1>2. QED
    BY Invariance, <1>1, PTL

=============================================================================
