--------------------------- MODULE WatchLink_proofs ---------------------------
(***************************************************************************)
(* Proofs about the watch and the phone together, for any sources, any     *)
(* number of pages, calls and callbacks, and any number of launches of the *)
(* phone's app.  What is proved of WatchApp is instantiated for the watch. *)
(***************************************************************************)
EXTENDS WatchLink, TLAPS, SequenceTheorems

WatchP == INSTANCE WatchApp_proofs

-----------------------------------------------------------------------------
(* The invariant.                                                          *)

\* What TypeOK says of the variables of this module.
LinkTypes ==
  /\ asks \in Seq(Questions) /\ Len(asks) = Len(calls)
  /\ wire \subseteq 1 .. Len(calls)
  /\ phone \in {"off", "listening", "deaf"}
  /\ lives \in 0 .. MaxLives
  /\ questions \in Seq(Questions)
  /\ replies \in [1 .. MaxCalls -> {<<>>} \cup {<<p>> : p \in Payloads}]
  /\ origin \in Seq(1 .. Len(calls)) /\ Len(origin) = Len(questions)
  /\ back \cup told \subseteq
       [call : 1 .. Len(calls), payload : Carried, life : 1 .. MaxLives]

\* What the watch asks is what its getter asks.
AsksMatch == \A n \in 1 .. Len(calls) : asks[n] \in QuestionsOf(calls[n])

\* Replies on their way and replies that have come.
Replied == back \cup told

\* A message has left the watch before it is anywhere else, and who was told
\* does not wait for it any more.
OnlySent ==
  /\ \A n \in wire : WatchP!IsSent(n)
  /\ \A m \in 1 .. Len(origin) : WatchP!IsSent(origin[m])
  /\ \A b \in Replied : WatchP!IsSent(b.call) /\ b.call \notin wire
  /\ \A b \in told : b.call \notin flight

\* What a reply says, and which life of the phone it is from.
RepliesFit ==
  \A b \in Replied : b.payload.of = asks[b.call] /\ b.life <= lives

\* The phone's messages and what it has replied to them.
PhoneKnows ==
  /\ Len(questions) <= MaxCalls
  /\ \A m \in 1 .. Len(origin) : questions[m] = asks[origin[m]]
  /\ \A m \in 1 .. MaxCalls : m > Len(questions) => replies[m] = <<>>
  /\ \A m \in 1 .. Len(origin) :
       replies[m] = <<>> => \A b \in Replied : b.call # origin[m]
  /\ \A m, n \in 1 .. Len(questions) :
       questions[m] = questions[n] /\ replies[m] # <<>> /\ replies[n] # <<>>
         => replies[m] = replies[n]

\* A life begins with nothing, and remembers what it has replied.
ThisLife ==
  /\ phone = "off" => questions = <<>>
  /\ phone # "off" => lives # 0
  /\ phone # "off" => \A b \in Replied : b.life = lives =>
       \E m \in 1 .. Len(origin) : origin[m] = b.call /\ replies[m] = <<b.payload>>

\* OneLifeOneAnswer, for the replies that are on their way as well.
AlikeInLife ==
  \A b, c \in Replied :
    asks[b.call] = asks[c.call] /\ b.life = c.life => b.payload = c.payload

\* A message is in one place at a time: the phone gets none twice, and no call
\* is told twice.
OnePlaceAtATime ==
  /\ \A m \in 1 .. Len(origin) : origin[m] \notin wire
  /\ \A m, n \in 1 .. Len(origin) : m # n => origin[m] # origin[n]
  /\ \A b, c \in Replied : b.call = c.call => b = c

\* A result on its way fits its call, and so does one that has arrived.
TruthOnTheWay ==
  /\ \A i \in 1 .. Len(mainQueue) :
       mainQueue[i].op = "setResult" /\ mainQueue[i].req # WatchP!Session
         => Fits(mainQueue[i].req - 1, mainQueue[i].outcome)
  /\ \A n \in 1 .. Len(calls) :
       pending[WatchP!RequestOf(n)] = Nil => Fits(n, outcome[WatchP!RequestOf(n)])

LinkInv ==
  /\ LinkTypes
  /\ AsksMatch
  /\ OnlySent
  /\ RepliesFit
  /\ PhoneKnows
  /\ ThisLife
  /\ AlikeInLife
  /\ OnePlaceAtATime
  /\ NothingDropped

IInv == WatchP!IInv /\ LinkInv

-----------------------------------------------------------------------------
(* The two instances of WatchApp say the same, action by action.           *)

LEMMA SameRunMain ==
  Watch!Async!RunMain = WatchP!Async!RunMain
  BY DEF Watch!Async!RunMain, WatchP!Async!RunMain, Watch!Async!RunSetResult,
         WatchP!Async!RunSetResult, Watch!Async!RunWithResult,
         WatchP!Async!RunWithResult, Watch!Async!RunCall, WatchP!Async!RunCall,
         Watch!Async!RunOther, WatchP!Async!RunOther, Watch!Async!CallEach,
         WatchP!Async!CallEach, Watch!Async!NextBlockIs, WatchP!Async!NextBlockIs,
         Watch!Async!CallBlock, WatchP!Async!CallBlock, Watch!Async!Call,
         WatchP!Async!Call

LEMMA SameMayPresent ==
  Watch!MayPresent = WatchP!MayPresent
  BY DEF Watch!MayPresent, WatchP!MayPresent

LEMMA SameControllers ==
  Watch!Controllers = WatchP!Controllers
  BY SameMayPresent
  DEF Watch!Controllers, WatchP!Controllers, Watch!OpenSources,
      WatchP!OpenSources, Watch!Opens, WatchP!Opens, Watch!OpenArticles,
      WatchP!OpenArticles, Watch!OpenDetail, WatchP!OpenDetail,
      Watch!OpenHeadlines, WatchP!OpenHeadlines, Watch!AwakePage,
      WatchP!AwakePage, Watch!Get, WatchP!Get, Watch!Wait, WatchP!Wait,
      Watch!asyncVars, WatchP!asyncVars, Watch!wireVars, WatchP!wireVars,
      Watch!Session, WatchP!Session, Watch!RequestOf, WatchP!RequestOf,
      Watch!Send, WatchP!Send, Watch!Fill, WatchP!Fill, Watch!Page, WatchP!Page,
      Watch!Alive, WatchP!Alive, Watch!MainIsFree, WatchP!MainIsFree,
      Watch!Async!WithResult, WatchP!Async!WithResult,
      Watch!Async!WithResultBlock, WatchP!Async!WithResultBlock

LEMMA SameMainThread ==
  Watch!MainThread = WatchP!MainThread
  BY SameRunMain
  DEF Watch!MainThread, WatchP!MainThread, Watch!RunActivation,
      WatchP!RunActivation, Watch!RunDue, WatchP!RunDue, Watch!SendMessage,
      WatchP!SendMessage, Watch!FillView, WatchP!FillView, Watch!FillPage,
      WatchP!FillPage, Watch!RunBlock, WatchP!RunBlock, Watch!Get, WatchP!Get,
      Watch!Wait, WatchP!Wait, Watch!NextResult, WatchP!NextResult,
      Watch!NextConsumer, WatchP!NextConsumer, Watch!BodyRuns, WatchP!BodyRuns,
      Watch!asyncVars, WatchP!asyncVars, Watch!wireVars, WatchP!wireVars,
      Watch!Session, WatchP!Session, Watch!RequestOf, WatchP!RequestOf,
      Watch!Result, WatchP!Result, Watch!Send, WatchP!Send, Watch!Fill,
      WatchP!Fill, Watch!Activation, WatchP!Activation, Watch!Alive, WatchP!Alive,
      Watch!MainIsFree, WatchP!MainIsFree, Watch!Async!WithResult,
      WatchP!Async!WithResult, Watch!Async!WithResultBlock,
      WatchP!Async!WithResultBlock, Watch!Async!SetResult, WatchP!Async!SetResult,
      Watch!Async!SetResultBlock, WatchP!Async!SetResultBlock,
      Watch!Async!NextBlockIs, WatchP!Async!NextBlockIs

LEMMA SameActivation ==
  Watch!ActivationCompletes = WatchP!ActivationCompletes
  BY DEF Watch!ActivationCompletes, WatchP!ActivationCompletes, Watch!wireVars,
         WatchP!wireVars, Watch!Alive, WatchP!Alive, Watch!Async!DispatchOther,
         WatchP!Async!DispatchOther, Watch!Async!OtherBlock, WatchP!Async!OtherBlock

LEMMA SameAnswers ==
  \A n, k : /\ Watch!MessageFails(n) = WatchP!MessageFails(n)
           /\ Watch!ReplyArrives(n, k) = WatchP!ReplyArrives(n, k)
           /\ Watch!StrangeReplyArrives(n) = WatchP!StrangeReplyArrives(n)
  BY DEF Watch!MessageFails, WatchP!MessageFails, Watch!ReplyArrives,
         WatchP!ReplyArrives, Watch!StrangeReplyArrives, WatchP!StrangeReplyArrives,
         Watch!Answered, WatchP!Answered, Watch!asyncVars, WatchP!asyncVars,
         Watch!RequestOf, WatchP!RequestOf, Watch!Result, WatchP!Result, Watch!Alive,
         WatchP!Alive, Watch!Async!SetResult, WatchP!Async!SetResult,
         Watch!Async!SetResultBlock, WatchP!Async!SetResultBlock

LEMMA SameInit == Watch!Init = WatchP!Init
  BY DEF Watch!Init, WatchP!Init, Watch!Async!Init, WatchP!Async!Init

LEMMA SameTypeOK == Watch!TypeOK = WatchP!TypeOK
  BY DEF Watch!TypeOK, WatchP!TypeOK, Watch!Getters, WatchP!Getters, Watch!Results,
         WatchP!Results, Watch!Result, WatchP!Result, Watch!Async!TypeOK,
         WatchP!Async!TypeOK, Watch!Async!Blocks, WatchP!Async!Blocks,
         Watch!Async!Calls, WatchP!Async!Calls

LEMMA SameVars == UNCHANGED watchVars => UNCHANGED WatchP!vars
  BY DEF watchVars, WatchP!vars, WatchP!asyncVars, WatchP!wireVars

\* What a step of the watch keeps.
LEMMA WatchKeeps ==
  ASSUME WatchP!IInv,
         \/ WatchP!ActivationCompletes \/ WatchP!Controllers \/ WatchP!MainThread
         \/ \E n \in 1 .. MaxCalls : WatchP!Comes(n)
         \/ UNCHANGED watchVars
  PROVE  WatchP!IInv'
  <1>1. WatchP!Next \/ UNCHANGED WatchP!vars
    BY SameVars DEF WatchP!Next
  <1>2. QED
    BY <1>1, PagesAssumption, NilAssumption, BoundsAssumption, WatchP!NextInv

-----------------------------------------------------------------------------
(* What the steps of the watch do to the link.                             *)

LEMMA WatchFacts ==
  ASSUME WatchP!IInv
  PROVE  /\ calls \in Seq(Watch!Getters) /\ Len(calls) \in Nat /\ Len(calls) <= MaxCalls
         /\ \A n \in flight : WatchP!IsSent(n)
         /\ \A n : WatchP!IsSent(n) => n \in 1 .. Len(calls)
  <1>1. WatchP!TypeOK
    BY DEF WatchP!IInv
  <1>2. calls \in Seq(Watch!Getters) /\ Len(calls) <= MaxCalls /\ sent \in Seq(1 .. Len(calls))
    BY <1>1 DEF WatchP!TypeOK, Watch!Getters, WatchP!Getters
  <1>3. \A i \in 1 .. Len(sent) : sent[i] \in 1 .. Len(calls)
    BY <1>2, ElementOfSeq
  <1>4. QED
    BY <1>2, <1>3 DEF WatchP!IInv, WatchP!Bodies, WatchP!FlightIsSent, WatchP!IsSent

\* The questions grow with the calls.
AsksGrow ==
  /\ Len(calls) <= Len(calls')
  /\ asks' \in Seq(Questions) /\ Len(asks') = Len(calls')
  /\ AsksMatch'
  /\ \A n \in 1 .. Len(calls) : n \in 1 .. Len(calls') /\ asks'[n] = asks[n]

LEMMA AsksFollow ==
  ASSUME IInv, Asks,
         calls' = calls \/ \E getter \in Watch!Getters : calls' = Append(calls, getter)
  PROVE  AsksGrow
  <1>1. /\ calls \in Seq(Watch!Getters) /\ Len(calls) \in Nat
        /\ asks \in Seq(Questions) /\ Len(asks) = Len(calls) /\ AsksMatch
    BY WatchFacts DEF IInv, LinkInv, LinkTypes
  <1>2. CASE calls' = calls
    <2>1. UNCHANGED asks
      BY <1>1, <1>2 DEF Asks
    <2>2. AsksMatch'
      BY <1>1, <1>2, <2>1 DEF AsksMatch, QuestionsOf
    <2>3. QED
      BY <1>1, <1>2, <2>1, <2>2 DEF AsksGrow
  <1>3. ASSUME NEW getter \in Watch!Getters, calls' = Append(calls, getter)
        PROVE  AsksGrow
    <2> DEFINE new == Len(calls) + 1
    <2>1. /\ calls' \in Seq(Watch!Getters) /\ Len(calls') = new /\ calls'[new] = getter
          /\ \A n \in 1 .. Len(calls) : calls'[n] = calls[n]
      BY <1>1, <1>3, AppendProperties
    <2>2. PICK q \in QuestionsOf(getter) : asks' = Append(asks, q)
      BY <1>1, <2>1 DEF Asks
    <2>3. q \in Questions
      BY <2>2 DEF Questions
    <2>4. /\ asks' \in Seq(Questions) /\ Len(asks') = new /\ asks'[new] = q
          /\ \A n \in 1 .. Len(calls) : asks'[n] = asks[n]
      BY <1>1, <2>2, <2>3, AppendProperties
    <2>5. /\ \A n \in 1 .. Len(calls') : n \in 1 .. Len(calls) \/ n = new
          /\ \A n \in 1 .. Len(calls) : n \in 1 .. Len(calls')
          /\ Len(calls) <= Len(calls')
      BY <1>1, <2>1
    <2> HIDE DEF new
    <2>6. ASSUME NEW n \in 1 .. Len(calls')
          PROVE  asks'[n] \in QuestionsOf(calls'[n])
      <3>1. CASE n \in 1 .. Len(calls)
        BY <1>1, <2>1, <2>4, <3>1 DEF AsksMatch
      <3>2. CASE n = new
        BY <2>1, <2>2, <2>4, <3>2
      <3>3. QED
        BY <2>5, <3>1, <3>2
    <2>7. AsksMatch'
      BY <2>6 DEF AsksMatch, QuestionsOf
    <2>8. QED
      BY <2>1, <2>4, <2>5, <2>7 DEF AsksGrow
  <1>4. QED
    BY <1>2, <1>3

LEMMA NothingAsked ==
  ASSUME IInv, UNCHANGED <<calls, asks>>
  PROVE  AsksGrow
  <1>1. /\ Len(calls) \in Nat
        /\ asks \in Seq(Questions) /\ Len(asks) = Len(calls) /\ AsksMatch
    BY WatchFacts DEF IInv, LinkInv, LinkTypes
  <1>2. AsksMatch'
    BY <1>1 DEF AsksMatch, QuestionsOf
  <1>3. QED
    BY <1>1, <1>2 DEF AsksGrow

\* A step that leaves the phone alone: messages go onto the wire when they are
\* sent, and replies are told or thrown away.
LEMMA WatchSide ==
  ASSUME IInv, AsksGrow, UNCHANGED <<phoneVars, dropped>>,
         \A n \in 1 .. Len(calls) : WatchP!IsSent(n) => WatchP!IsSent(n)',
         \A n \in wire' : \/ n \in wire
                          \/ n \in 1 .. Len(calls) /\ ~WatchP!IsSent(n) /\ WatchP!IsSent(n)',
         Replied' \subseteq Replied, \A b \in told' : b.call \notin flight'
  PROVE  LinkInv'
  <1> USE DEF phoneVars, Replied
  <1>1. /\ LinkTypes /\ AsksMatch /\ OnlySent /\ RepliesFit /\ PhoneKnows /\ ThisLife
        /\ AlikeInLife /\ OnePlaceAtATime /\ NothingDropped
    BY DEF IInv, LinkInv
  <1>2. \A n : WatchP!IsSent(n) => n \in 1 .. Len(calls) /\ WatchP!IsSent(n)'
    BY WatchFacts DEF IInv
  <1>3. /\ \A n \in 1 .. Len(calls) : n \in 1 .. Len(calls') /\ asks'[n] = asks[n]
        /\ asks' \in Seq(Questions) /\ Len(asks') = Len(calls') /\ AsksMatch'
    BY DEF AsksGrow
  <1>4. LinkTypes'
    <2>1. wire' \subseteq 1 .. Len(calls')
      BY <1>1, <1>3 DEF LinkTypes
    <2>2. origin \in Seq(1 .. Len(calls'))
      <3>1. origin \in Seq(1 .. Len(calls)) /\ 1 .. Len(calls) \subseteq 1 .. Len(calls')
        BY <1>1, <1>3 DEF LinkTypes
      <3>2. QED
        BY <3>1, SeqDef
    <2>3. back' \cup told' \subseteq
            [call : 1 .. Len(calls'), payload : Carried, life : 1 .. MaxLives]
      <3>1. \A b \in back' \cup told' :
              b \in [call : 1 .. Len(calls), payload : Carried, life : 1 .. MaxLives]
        BY <1>1 DEF LinkTypes
      <3>2. QED
        BY <1>3, <3>1
    <2>4. QED
      BY <1>1, <1>3, <2>1, <2>2, <2>3 DEF LinkTypes
  <1>5. OnlySent'
    BY <1>1, <1>2 DEF OnlySent
  <1>6. \A b \in Replied : b.call \in 1 .. Len(calls)
    BY <1>1 DEF LinkTypes
  <1>7. \A m \in 1 .. Len(origin) : origin[m] \in 1 .. Len(calls)
    BY <1>1, <1>2 DEF OnlySent
  <1>8. RepliesFit' /\ AlikeInLife'
    BY <1>1, <1>3, <1>6 DEF RepliesFit, AlikeInLife
  <1>9. PhoneKnows'
    BY <1>1, <1>3, <1>7 DEF PhoneKnows
  <1>10. ThisLife'
    BY <1>1 DEF ThisLife
  <1>11. OnePlaceAtATime'
    BY <1>1 DEF OnePlaceAtATime, OnlySent
  <1>12. NothingDropped'
    BY <1>1 DEF NothingDropped
  <1>13. QED
    BY <1>3, <1>4, <1>5, <1>8, <1>9, <1>10, <1>11, <1>12 DEF LinkInv

-----------------------------------------------------------------------------
(* The invariant, action by action: the watch.                             *)

\* What the watch does without the phone.
LEMMA OwnStepInv ==
  ASSUME IInv, Watch!ActivationCompletes \/ Watch!MainThread \/ Watch!Controllers, Follows
  PROVE  IInv'
  <1>1. WatchP!ActivationCompletes \/ WatchP!Controllers \/ WatchP!MainThread
    BY SameActivation, SameMainThread, SameControllers
  <1>2. WatchP!IInv /\ WatchP!IInv'
    BY <1>1, WatchKeeps DEF IInv
  <1>3. /\ dropped' = dropped
        /\ \/ /\ UNCHANGED <<sent, flight>>
              /\ calls' = calls \/ \E getter \in Watch!Getters : calls' = Append(calls, getter)
           \/ /\ calls' = calls
              /\ \E n \in 1 .. Len(calls) :
                   /\ ~WatchP!IsSent(n) /\ n \notin flight
                   /\ sent' = Append(sent, n) /\ flight' = flight \cup {n}
    BY <1>1, <1>2, PagesAssumption, NilAssumption, BoundsAssumption, WatchP!OwnStep
    DEF Watch!Getters, WatchP!Getters
  <1>4. /\ Asks /\ wire' = wire \cup (flight' \ flight) /\ UNCHANGED <<phoneVars, back, told>>
    BY DEF Follows
  <1>5. AsksGrow
    BY <1>3, <1>4, AsksFollow
  <1>6. \A b \in told : WatchP!IsSent(b.call) /\ b.call \notin flight
    BY DEF IInv, LinkInv, OnlySent, Replied
  <1>7. CASE UNCHANGED <<sent, flight>>
    <2>1. \A n \in 1 .. Len(calls) : WatchP!IsSent(n) => WatchP!IsSent(n)'
      BY <1>7 DEF WatchP!IsSent
    <2>2. LinkInv'
      BY <1>3, <1>4, <1>5, <1>6, <1>7, <2>1, WatchSide DEF Replied
    <2>3. QED
      BY <1>2, <2>2 DEF IInv
  <1>8. ASSUME NEW n \in 1 .. Len(calls), ~WatchP!IsSent(n), n \notin flight,
               sent' = Append(sent, n), flight' = flight \cup {n}
        PROVE  IInv'
    <2>1. sent \in Seq(1 .. Len(calls))
      BY <1>2 DEF WatchP!IInv, WatchP!TypeOK
    <2>2. /\ Len(sent) \in Nat /\ Len(sent') = Len(sent) + 1 /\ sent'[Len(sent) + 1] = n
          /\ \A i \in 1 .. Len(sent) : sent'[i] = sent[i]
      BY <1>8, <2>1, AppendProperties
    <2>3. /\ \A i \in 1 .. Len(sent) : i \in 1 .. Len(sent')
          /\ Len(sent) + 1 \in 1 .. Len(sent')
      BY ONLY <2>2
    <2>4. WatchP!IsSent(n)' /\ \A k \in 1 .. Len(calls) : WatchP!IsSent(k) => WatchP!IsSent(k)'
      BY <2>2, <2>3 DEF WatchP!IsSent
    <2>5. wire' = wire \cup {n}
      BY <1>4, <1>8
    <2>6. \A b \in told' : b.call \notin flight'
      BY <1>4, <1>6, <1>8
    <2>7. LinkInv'
      BY <1>3, <1>4, <1>5, <1>8, <2>4, <2>5, <2>6, WatchSide DEF Replied
    <2>8. QED
      BY <1>2, <2>7 DEF IInv
  <1>9. QED
    BY <1>3, <1>7, <1>8

\* One handler of message n is called, and nothing new is asked.
LEMMA HandlerCalled ==
  ASSUME IInv, NEW n \in 1 .. MaxCalls, WatchP!Comes(n),
         UNCHANGED <<phoneVars, asks, calls, sent, dropped>>, flight' = flight \ {n},
         wire' \subseteq wire, Replied' \subseteq Replied,
         \A b \in told' : b \in told \/ b.call = n
  PROVE  IInv'
  <1>1. WatchP!IInv'
    BY WatchKeeps DEF IInv
  <1>2. AsksGrow
    BY NothingAsked
  <1>3. \A k \in 1 .. Len(calls) : WatchP!IsSent(k) => WatchP!IsSent(k)'
    BY DEF WatchP!IsSent
  <1>4. \A b \in told' : b.call \notin flight'
    BY DEF IInv, LinkInv, OnlySent
  <1>5. LinkInv'
    BY <1>2, <1>3, <1>4, WatchSide
  <1>6. QED
    BY <1>1, <1>5 DEF IInv

LEMMA GivesUpInv ==
  ASSUME IInv, NEW n \in 1 .. MaxCalls, GivesUp(n)
  PROVE  IInv'
  <1>1. /\ Watch!MessageFails(n)
        /\ wire' = wire \ {n} \/ wire' = wire
        /\ back' = {b \in back : b.call # n}
        /\ UNCHANGED <<phoneVars, asks, told>>
    BY DEF GivesUp
  <1>2. WatchP!MessageFails(n) /\ WatchP!Comes(n)
    BY <1>1, SameAnswers DEF WatchP!Comes
  <1>3. flight' = flight \ {n} /\ UNCHANGED <<calls, sent, dropped>>
    BY <1>2 DEF WatchP!MessageFails, WatchP!Answered
  <1>4. Replied' \subseteq Replied
    BY <1>1 DEF Replied
  <1>5. QED
    BY <1>1, <1>2, <1>3, <1>4, HandlerCalled

\* The reply has the field that its handler looks for, and is as long as the
\* getter's answers are.
LEMMA ReplyIsUseful ==
  ASSUME IInv, NEW b \in back
  PROVE  /\ b.payload.field = WantedField(calls[b.call])
         /\ b.payload.length \in Watch!Lengths(calls[b.call])
  <1>1. /\ b \in [call : 1 .. Len(calls), payload : Carried, life : 1 .. MaxLives]
        /\ b.payload.of = asks[b.call]
    BY DEF IInv, LinkInv, LinkTypes, RepliesFit, Replied
  <1>2. b.call \in 1 .. Len(calls) /\ b.payload \in Carried
    BY <1>1
  <1>3. calls[b.call] \in Watch!Getters
    BY <1>2, WatchFacts, ElementOfSeq DEF IInv
  <1>4. asks[b.call] \in QuestionsOf(calls[b.call])
    BY <1>2 DEF IInv, LinkInv, AsksMatch
  <1>5. PICK q \in Questions : \E k \in Watch!Lengths(q.what) :
          b.payload = [of |-> q, field |-> ReplyField(q.what), length |-> k]
    BY <1>2 DEF Carried
  <1>6. q = asks[b.call] /\ q.what = calls[b.call]
    <2>1. q = asks[b.call]
      BY <1>1, <1>5
    <2>2. q.what = calls[b.call]
      BY <1>4, <2>1 DEF QuestionsOf
    <2>3. QED
      BY <2>1, <2>2
  <1>7. QED
    BY <1>3, <1>5, <1>6 DEF ReplyField, WantedField, Watch!Getters

LEMMA ReplyComesInv ==
  ASSUME IInv, NEW b, ReplyComes(b)
  PROVE  IInv'
  <1>1. /\ b \in back /\ b.call \in flight
        /\ \/ /\ b.payload.field = WantedField(calls[b.call])
              /\ Watch!ReplyArrives(b.call, b.payload.length)
           \/ b.payload.field # WantedField(calls[b.call])
        /\ back' = back \ {b} /\ told' = told \cup {b}
        /\ UNCHANGED <<phoneVars, asks, wire>>
    BY DEF ReplyComes
  <1> DEFINE n == b.call
             k == b.payload.length
  <1>2. Watch!ReplyArrives(n, k) /\ k \in Watch!Lengths(calls[n])
    BY <1>1, ReplyIsUseful
  <1>3. n \in 1 .. MaxCalls
    <2>1. n \in 1 .. Len(calls) /\ Len(calls) \in Nat /\ Len(calls) <= MaxCalls
      BY <1>1, WatchFacts DEF IInv
    <2>2. QED
      BY <2>1, BoundsAssumption
  <1> HIDE DEF n, k
  <1>4. WatchP!ReplyArrives(n, k) /\ k \in WatchP!Lengths(calls[n])
    BY <1>2, SameAnswers DEF Watch!Lengths, WatchP!Lengths
  <1>5. WatchP!Comes(n)
    BY <1>1, <1>4 DEF WatchP!Comes, n
  <1>6. flight' = flight \ {n} /\ UNCHANGED <<calls, sent, dropped>>
    BY <1>4 DEF WatchP!ReplyArrives, WatchP!Answered
  <1>7. Replied' \subseteq Replied /\ \A c \in told' : c \in told \/ c.call = n
    BY <1>1 DEF Replied, n
  <1>8. QED
    BY <1>1, <1>3, <1>5, <1>6, <1>7, HandlerCalled

\* A step that the watch does not see, but for replies that are thrown away.
LEMMA WatchStutters ==
  ASSUME IInv, UNCHANGED <<watchVars, phoneVars, asks, wire, told>>, back' \subseteq back
  PROVE  IInv'
  <1>1. WatchP!IInv'
    BY WatchKeeps DEF IInv
  <1>2. AsksGrow
    BY NothingAsked DEF watchVars
  <1>3. \A k \in 1 .. Len(calls) : WatchP!IsSent(k) => WatchP!IsSent(k)'
    BY DEF WatchP!IsSent, watchVars
  <1>4. \A b \in told' : b.call \notin flight'
    BY DEF IInv, LinkInv, OnlySent, watchVars
  <1>5. LinkInv'
    BY <1>2, <1>3, <1>4, WatchSide DEF Replied, watchVars
  <1>6. QED
    BY <1>1, <1>5 DEF IInv

-----------------------------------------------------------------------------
(* The invariant, action by action: the phone.                             *)

\* What the steps of the phone leave alone.
Untouched == UNCHANGED <<watchVars, asks, told>>

LEMMA WatchUntouched ==
  ASSUME IInv, Untouched
  PROVE  /\ WatchP!IInv' /\ AsksMatch' /\ NothingDropped'
         /\ UNCHANGED <<calls, flight, dropped, asks, told>>
         /\ \A n : WatchP!IsSent(n)' = WatchP!IsSent(n)
  <1>1. UNCHANGED <<watchVars, calls, flight, sent, dropped, asks, told>>
    BY DEF Untouched, watchVars
  <1>2. WatchP!IInv'
    BY <1>1, WatchKeeps DEF IInv
  <1>3. AsksMatch' /\ NothingDropped'
    BY <1>1 DEF IInv, LinkInv, AsksMatch, NothingDropped, QuestionsOf
  <1>4. QED
    BY <1>1, <1>2, <1>3 DEF WatchP!IsSent

LEMMA LaunchInv ==
  ASSUME IInv, Launch
  PROVE  IInv'
  <1> USE DEF Replied
  <1>1. /\ phone = "off" /\ lives < MaxLives /\ phone' = "listening" /\ lives' = lives + 1
        /\ Untouched /\ UNCHANGED <<wire, back, questions, replies, origin>>
    BY DEF Launch, Untouched
  <1>2. /\ LinkTypes /\ OnlySent /\ RepliesFit /\ PhoneKnows /\ AlikeInLife /\ OnePlaceAtATime
    BY DEF IInv, LinkInv
  <1>3. /\ WatchP!IInv' /\ AsksMatch' /\ NothingDropped'
        /\ UNCHANGED <<calls, flight, dropped, asks, told>>
        /\ \A n : WatchP!IsSent(n)' = WatchP!IsSent(n)
    BY <1>1, WatchUntouched
  <1>4. lives \in Nat /\ lives' \in 0 .. MaxLives /\ lives' # 0
    BY <1>1, <1>2, BoundsAssumption DEF LinkTypes
  <1>5. \A b \in Replied : b.life \in Nat /\ b.life <= lives
    BY <1>2, BoundsAssumption DEF LinkTypes, RepliesFit
  <1>6. LinkTypes'
    BY <1>1, <1>2, <1>3, <1>4 DEF LinkTypes
  <1>7. OnlySent' /\ OnePlaceAtATime' /\ AlikeInLife'
    BY <1>1, <1>2, <1>3 DEF OnlySent, OnePlaceAtATime, AlikeInLife
  <1>8. RepliesFit' /\ ThisLife'
    BY <1>1, <1>2, <1>3, <1>4, <1>5 DEF RepliesFit, ThisLife
  <1>9. PhoneKnows'
    BY <1>1, <1>2, <1>3 DEF PhoneKnows
  <1>10. QED
    BY <1>3, <1>6, <1>7, <1>8, <1>9 DEF IInv, LinkInv

LEMMA KillInv ==
  ASSUME IInv, Kill
  PROVE  IInv'
  <1> USE DEF Replied
  <1>1. /\ phone' = "off" /\ questions' = <<>> /\ origin' = <<>>
        /\ replies' = [m \in 1 .. MaxCalls |-> <<>>]
        /\ Untouched /\ UNCHANGED <<wire, back, lives>>
    BY DEF Kill, Untouched
  <1>2. /\ LinkTypes /\ OnlySent /\ RepliesFit /\ AlikeInLife /\ OnePlaceAtATime
    BY DEF IInv, LinkInv
  <1>3. /\ WatchP!IInv' /\ AsksMatch' /\ NothingDropped'
        /\ UNCHANGED <<calls, flight, dropped, asks, told>>
        /\ \A n : WatchP!IsSent(n)' = WatchP!IsSent(n)
    BY <1>1, WatchUntouched
  <1>4. LinkTypes'
    BY <1>1, <1>2, <1>3 DEF LinkTypes
  <1>5. OnlySent' /\ OnePlaceAtATime' /\ AlikeInLife' /\ RepliesFit' /\ ThisLife'
    BY <1>1, <1>2, <1>3 DEF OnlySent, OnePlaceAtATime, AlikeInLife, RepliesFit, ThisLife
  <1>6. PhoneKnows'
    <2>1. /\ Len(questions') = 0 /\ Len(origin') = 0
          /\ \A m \in 1 .. MaxCalls : replies'[m] = <<>>
      BY <1>1
    <2>2. QED
      BY <2>1, BoundsAssumption DEF PhoneKnows
  <1>7. QED
    BY <1>3, <1>4, <1>5, <1>6 DEF IInv, LinkInv

LEMMA DeactivateInv ==
  ASSUME IInv, Deactivate
  PROVE  IInv'
  <1> USE DEF Replied
  <1>1. /\ phone = "listening" /\ phone' = "deaf"
        /\ Untouched /\ UNCHANGED <<wire, back, lives, questions, replies, origin>>
    BY DEF Deactivate, Untouched
  <1>2. /\ LinkTypes /\ OnlySent /\ RepliesFit /\ PhoneKnows /\ ThisLife
        /\ AlikeInLife /\ OnePlaceAtATime
    BY DEF IInv, LinkInv
  <1>3. /\ WatchP!IInv' /\ AsksMatch' /\ NothingDropped'
        /\ UNCHANGED <<calls, flight, dropped, asks, told>>
        /\ \A n : WatchP!IsSent(n)' = WatchP!IsSent(n)
    BY <1>1, WatchUntouched
  <1>4. LinkTypes'
    BY <1>1, <1>2, <1>3 DEF LinkTypes
  <1>5. OnlySent' /\ OnePlaceAtATime' /\ AlikeInLife'
    BY <1>1, <1>2, <1>3 DEF OnlySent, OnePlaceAtATime, AlikeInLife
  <1>6. RepliesFit' /\ PhoneKnows'
    BY <1>1, <1>2, <1>3 DEF RepliesFit, PhoneKnows
  <1>7. ThisLife'
    <2>1. phone # "off"
      BY <1>1
    <2>2. QED
      BY <1>1, <1>2, <1>3, <2>1 DEF ThisLife
  <1>8. QED
    BY <1>3, <1>4, <1>5, <1>6, <1>7 DEF IInv, LinkInv

\* A message arrives: no one has replied to it, in this life or before.
LEMMA DeliverInv ==
  ASSUME IInv, NEW n, Deliver(n)
  PROVE  IInv'
  <1> USE DEF Replied
  <1> DEFINE new == Len(questions) + 1
  <1>1. /\ phone = "listening" /\ n \in wire /\ wire' = wire \ {n}
        /\ origin' = Append(origin, n) /\ questions' = Append(questions, asks[n])
        /\ Len(questions) < MaxCalls
        /\ Untouched /\ UNCHANGED <<phone, lives, back, replies>>
    BY DEF Deliver, Untouched, Phone!Receive
  <1>2. /\ LinkTypes /\ OnlySent /\ RepliesFit /\ PhoneKnows /\ ThisLife
        /\ AlikeInLife /\ OnePlaceAtATime
    BY DEF IInv, LinkInv
  <1>3. /\ WatchP!IInv' /\ AsksMatch' /\ NothingDropped'
        /\ UNCHANGED <<calls, flight, dropped, asks, told>>
        /\ \A k : WatchP!IsSent(k)' = WatchP!IsSent(k)
    BY <1>1, WatchUntouched
  <1>4. n \in 1 .. Len(calls) /\ WatchP!IsSent(n)
    BY <1>1, <1>2 DEF LinkTypes, OnlySent
  <1>5. asks[n] \in Questions
    BY <1>2, <1>4, ElementOfSeq DEF LinkTypes
  <1>6. /\ Len(questions) \in Nat /\ Len(origin) = Len(questions)
        /\ questions' \in Seq(Questions) /\ origin' \in Seq(1 .. Len(calls))
        /\ Len(questions') = new /\ Len(origin') = new
        /\ questions'[new] = asks[n] /\ origin'[new] = n
        /\ \A m \in 1 .. Len(questions) :
             questions'[m] = questions[m] /\ origin'[m] = origin[m]
    BY <1>1, <1>2, <1>4, <1>5, AppendProperties DEF LinkTypes
  <1>7. /\ \A m \in 1 .. new : m \in 1 .. Len(questions) \/ m = new
        /\ \A m \in 1 .. Len(questions) : m \in 1 .. new /\ m # new
        /\ new \in 1 .. MaxCalls /\ new > Len(questions) /\ new <= MaxCalls
        /\ \A m \in 1 .. MaxCalls : m > new => m > Len(questions)
    BY <1>1, <1>6, BoundsAssumption
  <1> HIDE DEF new
  <1>8. replies[new] = <<>>
    BY <1>2, <1>7 DEF PhoneKnows
  <1>9. \A m \in 1 .. Len(origin) : origin[m] # n
    BY <1>1, <1>2 DEF OnePlaceAtATime
  <1>10. \A b \in Replied : b.call # n
    BY <1>1, <1>2 DEF OnlySent
  <1>11. LinkTypes'
    BY <1>1, <1>2, <1>3, <1>6 DEF LinkTypes
  <1>12. OnlySent'
    BY <1>1, <1>2, <1>3, <1>4, <1>6, <1>7 DEF OnlySent
  <1>13. RepliesFit' /\ AlikeInLife'
    BY <1>1, <1>2, <1>3 DEF RepliesFit, AlikeInLife
  <1>14. OnePlaceAtATime'
    BY <1>1, <1>2, <1>3, <1>6, <1>7, <1>9 DEF OnePlaceAtATime
  <1>15. PhoneKnows'
    <2>1. \A m \in 1 .. Len(origin') : questions'[m] = asks[origin'[m]]
      BY <1>2, <1>6, <1>7 DEF PhoneKnows
    <2>2. \A m \in 1 .. MaxCalls : m > Len(questions') => replies[m] = <<>>
      BY <1>2, <1>6, <1>7 DEF PhoneKnows
    <2>3. \A m \in 1 .. Len(origin') :
            replies[m] = <<>> => \A b \in Replied : b.call # origin'[m]
      BY <1>2, <1>6, <1>7, <1>10 DEF PhoneKnows
    <2>4. \A m, k \in 1 .. Len(questions') :
            questions'[m] = questions'[k] /\ replies[m] # <<>> /\ replies[k] # <<>>
              => replies[m] = replies[k]
      BY <1>2, <1>6, <1>7, <1>8 DEF PhoneKnows
    <2>5. Len(questions') <= MaxCalls
      BY <1>6, <1>7
    <2>6. UNCHANGED <<replies, back, told, asks>>
      BY <1>1, <1>3
    <2>7. QED
      BY <2>1, <2>2, <2>3, <2>4, <2>5, <2>6 DEF PhoneKnows
  <1>16. ThisLife'
    <2>1. ASSUME NEW b \in Replied, b.life = lives
          PROVE  \E m \in 1 .. Len(origin') : origin'[m] = b.call /\ replies[m] = <<b.payload>>
      <3>1. PICK m \in 1 .. Len(origin) : origin[m] = b.call /\ replies[m] = <<b.payload>>
        BY <1>1, <1>2, <2>1 DEF ThisLife
      <3>2. m \in 1 .. Len(origin') /\ origin'[m] = origin[m]
        BY <1>6, <1>7
      <3>3. QED
        BY <3>1, <3>2
    <2>2. phone # "off" /\ lives # 0
      BY <1>1, <1>2 DEF ThisLife
    <2>3. QED
      BY <1>1, <1>3, <2>1, <2>2 DEF ThisLife
  <1>17. QED
    BY <1>3, <1>11, <1>12, <1>13, <1>14, <1>15, <1>16 DEF IInv, LinkInv

\* A reply leaves the phone: the first to its message, and what this life has
\* replied to the same question before.
LEMMA AnswerInv ==
  ASSUME IInv, NEW m, Answer(m)
  PROVE  IInv'
  <1>1. PICK p \in Payloads :
          /\ Phone!Reply(m, p)
          /\ \/ /\ p \in Carried
                /\ back' = back \cup {[call |-> origin[m], payload |-> p, life |-> lives]}
             \/ UNCHANGED back
    BY DEF Answer
  <1> DEFINE b0 == [call |-> origin[m], payload |-> p, life |-> lives]
  <1>2. /\ phone # "off" /\ m \in 1 .. Len(questions) /\ replies[m] = <<>>
        /\ p.of = questions[m]
        /\ \A k \in 1 .. Len(questions) :
             questions[k] = questions[m] /\ replies[k] # <<>> => replies[k] = <<p>>
        /\ replies' = [replies EXCEPT ![m] = <<p>>]
        /\ Untouched /\ UNCHANGED <<wire, phone, lives, origin, questions>>
    BY <1>1 DEF Answer, Untouched, Phone!Reply
  <1>3. /\ LinkTypes /\ OnlySent /\ RepliesFit /\ PhoneKnows /\ ThisLife
        /\ AlikeInLife /\ OnePlaceAtATime
    BY DEF IInv, LinkInv
  <1>4. /\ WatchP!IInv' /\ AsksMatch' /\ NothingDropped'
        /\ UNCHANGED <<calls, flight, dropped, asks, told>>
        /\ \A k : WatchP!IsSent(k)' = WatchP!IsSent(k)
    BY <1>2, WatchUntouched
  <1>5. Len(origin) = Len(questions) /\ m \in 1 .. Len(origin) /\ m \in 1 .. MaxCalls
    <2>1. Len(questions) \in Nat /\ Len(questions) <= MaxCalls /\ Len(origin) = Len(questions)
      BY <1>3 DEF LinkTypes, PhoneKnows
    <2>2. QED
      BY <1>2, <2>1, BoundsAssumption
  <1>6. replies'[m] = <<p>> /\ <<p>> # <<>>
        /\ \A k \in 1 .. MaxCalls : k # m => replies'[k] = replies[k]
    <2>1. DOMAIN replies = 1 .. MaxCalls
      BY <1>3 DEF LinkTypes
    <2>2. QED
      BY <1>2, <1>5, <2>1
  <1>7. \A k \in 1 .. Len(questions) : k \in 1 .. MaxCalls
    BY <1>3, BoundsAssumption DEF LinkTypes, PhoneKnows
  <1>8. b0.call = origin[m] /\ b0.payload = p /\ b0.life = lives
    OBVIOUS
  <1>9. p \in Carried => b0 \in [call : 1 .. Len(calls), payload : Carried, life : 1 .. MaxLives]
    <2>1. origin[m] \in 1 .. Len(calls)
      BY <1>3, <1>5, ElementOfSeq DEF LinkTypes
    <2>2. lives \in 1 .. MaxLives
      BY <1>2, <1>3, BoundsAssumption DEF LinkTypes, ThisLife
    <2>3. QED
      BY <2>1, <2>2
  <1>10. /\ Replied' \subseteq Replied \cup {b0}
         /\ p \in Carried \/ Replied' = Replied
    BY <1>1, <1>4 DEF Replied
  <1> HIDE DEF b0
  <1>11. \A b \in Replied : b.call # b0.call
    BY <1>2, <1>3, <1>5, <1>8 DEF PhoneKnows
  <1>12. questions[m] = asks[b0.call] /\ b0.payload.of = asks[b0.call]
    BY <1>2, <1>3, <1>5, <1>8 DEF PhoneKnows
  <1>13. \A b \in Replied :
           b.life = lives /\ asks[b.call] = asks[b0.call] => b.payload = p
    <2> SUFFICES ASSUME NEW b \in Replied, b.life = lives, asks[b.call] = asks[b0.call]
                 PROVE  b.payload = p
      OBVIOUS
    <2>1. PICK k \in 1 .. Len(origin) : origin[k] = b.call /\ replies[k] = <<b.payload>>
      BY <1>2, <1>3 DEF ThisLife
    <2>2. questions[k] = questions[m]
      BY <1>3, <1>12, <2>1 DEF PhoneKnows
    <2>3. <<b.payload>> # <<>>
      OBVIOUS
    <2>4. <<b.payload>> = <<p>>
      BY <1>2, <1>5, <2>1, <2>2, <2>3
    <2>5. QED
      BY <2>4
  <1>14. LinkTypes'
    <2>1. replies' \in [1 .. MaxCalls -> {<<>>} \cup {<<q>> : q \in Payloads}]
      BY <1>2, <1>3 DEF LinkTypes
    <2>2. back' \cup told' \subseteq
            [call : 1 .. Len(calls), payload : Carried, life : 1 .. MaxLives]
      BY <1>3, <1>9, <1>10 DEF LinkTypes, Replied
    <2>3. QED
      BY <1>2, <1>3, <1>4, <2>1, <2>2 DEF LinkTypes
  <1>15. OnlySent'
    <2>1. WatchP!IsSent(b0.call) /\ b0.call \notin wire
      BY <1>3, <1>5, <1>8 DEF OnlySent, OnePlaceAtATime
    <2>2. QED
      BY <1>2, <1>3, <1>4, <1>10, <2>1 DEF OnlySent
  <1>16. RepliesFit'
    <2>1. b0.life <= lives
      BY <1>3, <1>8 DEF LinkTypes
    <2>2. QED
      BY <1>2, <1>3, <1>4, <1>10, <1>12, <2>1 DEF RepliesFit
  <1>17. OnePlaceAtATime'
    BY <1>2, <1>3, <1>10, <1>11 DEF OnePlaceAtATime, Replied
  <1>18. AlikeInLife'
    BY <1>2, <1>3, <1>4, <1>8, <1>10, <1>13 DEF AlikeInLife
  <1>19. PhoneKnows'
    <2>1. \A k \in 1 .. MaxCalls : k > Len(questions) => replies'[k] = <<>>
      BY <1>2, <1>3, <1>6 DEF PhoneKnows
    <2>2. ASSUME NEW k \in 1 .. Len(origin), replies'[k] = <<>>, NEW b \in Replied'
          PROVE  b.call # origin[k]
      <3>1. k # m /\ replies[k] = <<>>
        BY <1>5, <1>6, <1>7, <2>2
      <3>2. origin[k] # origin[m]
        BY <1>3, <1>5, <3>1 DEF OnePlaceAtATime
      <3>3. QED
        BY <1>3, <1>8, <1>10, <2>2, <3>1, <3>2 DEF PhoneKnows
    <2>3. \A j, k \in 1 .. Len(questions) :
            questions[j] = questions[k] /\ replies'[j] # <<>> /\ replies'[k] # <<>>
              => replies'[j] = replies'[k]
      BY <1>2, <1>3, <1>6, <1>7 DEF PhoneKnows
    <2>4. QED
      BY <1>2, <1>3, <1>4, <2>1, <2>2, <2>3 DEF PhoneKnows
  <1>20. ThisLife'
    <2>1. ASSUME NEW b \in Replied', b.life = lives
          PROVE  \E k \in 1 .. Len(origin) : origin[k] = b.call /\ replies'[k] = <<b.payload>>
      <3>1. CASE b = b0
        BY <1>5, <1>6, <1>8, <3>1
      <3>2. CASE b \in Replied
        <4>1. PICK k \in 1 .. Len(origin) : origin[k] = b.call /\ replies[k] = <<b.payload>>
          BY <1>2, <1>3, <2>1, <3>2 DEF ThisLife
        <4>2. <<b.payload>> # <<>>
          OBVIOUS
        <4>3. replies'[k] = replies[k]
          BY <1>2, <1>5, <1>6, <1>7, <4>1, <4>2
        <4>4. QED
          BY <4>1, <4>3
      <3>3. QED
        BY <1>10, <3>1, <3>2
    <2>2. QED
      BY <1>2, <1>3, <2>1 DEF ThisLife
  <1>21. QED
    BY <1>4, <1>14, <1>15, <1>16, <1>17, <1>18, <1>19, <1>20 DEF IInv, LinkInv

LEMMA NextInv == IInv /\ [Next]_vars => IInv'
  <1> SUFFICES ASSUME IInv, [Next]_vars
               PROVE  IInv'
    OBVIOUS
  <1>1. CASE ActivationCompletes \/ MainThread \/ Controllers
    BY <1>1, OwnStepInv DEF ActivationCompletes, MainThread, Controllers
  <1>2. CASE Launch \/ Kill \/ Deactivate
    BY <1>2, LaunchInv, KillInv, DeactivateInv
  <1>3. ASSUME NEW n \in 1 .. MaxCalls, Deliver(n) \/ Answer(n) \/ Comes(n)
        PROVE  IInv'
    BY <1>3, DeliverInv, AnswerInv, GivesUpInv, ReplyComesInv DEF Comes
  <1>4. ASSUME NEW b \in back, IgnoreReply(b)
        PROVE  IInv'
    BY <1>4, WatchStutters DEF IgnoreReply
  <1>5. CASE UNCHANGED vars
    BY <1>5, WatchStutters DEF vars
  <1>6. QED
    BY <1>1, <1>2, <1>3, <1>4, <1>5 DEF Next

LEMMA InitInv == Init => IInv
  <1> SUFFICES ASSUME Init
               PROVE  IInv
    OBVIOUS
  <1>1. /\ asks = <<>> /\ wire = {} /\ back = {} /\ told = {}
        /\ phone = "off" /\ lives = 0 /\ questions = <<>> /\ origin = <<>>
        /\ replies = [m \in 1 .. MaxCalls |-> <<>>]
    BY DEF Init
  <1>2. WatchP!Init
    BY SameInit DEF Init
  <1>3. WatchP!IInv
    BY <1>2, PagesAssumption, NilAssumption, BoundsAssumption, WatchP!InitInv
  <1>4. calls = <<>> /\ dropped = {}
    BY <1>2 DEF WatchP!Init
  <1>5. LinkTypes
    BY <1>1, <1>4, BoundsAssumption DEF LinkTypes
  <1>6. AsksMatch /\ OnlySent /\ RepliesFit /\ AlikeInLife /\ OnePlaceAtATime
    BY <1>1, <1>4 DEF AsksMatch, OnlySent, RepliesFit, AlikeInLife, OnePlaceAtATime, Replied
  <1>7. PhoneKnows /\ ThisLife /\ NothingDropped
    BY <1>1, <1>4, BoundsAssumption DEF PhoneKnows, ThisLife, NothingDropped
  <1>8. QED
    BY <1>3, <1>5, <1>6, <1>7 DEF IInv, LinkInv

-----------------------------------------------------------------------------
(* The way of a result, from what the watch is told to the callbacks.      *)

\* Fits, in the next state.
FitsNext(n, v) ==
  \/ v = Nil /\ \A b \in told' : b.call # n
  \/ \E b \in told' : b.call = n /\ v = Watch!Result(asks'[b.call].what, b.payload.length)

LEMMA FitsKept ==
  ASSUME AsksGrow, NEW n \in 1 .. Len(calls), NEW v, Fits(n, v),
         told \subseteq told', \A b \in told' : b \in told \/ b.call # n
  PROVE  FitsNext(n, v)
  BY DEF Fits, FitsNext, ResultOf, AsksGrow

LEMMA TruthInNext ==
  ASSUME \A i \in 1 .. Len(mainQueue') :
           mainQueue'[i].op = "setResult" /\ mainQueue'[i].req # WatchP!Session
             => FitsNext(mainQueue'[i].req - 1, mainQueue'[i].outcome),
         \A n \in 1 .. Len(calls') :
           pending'[WatchP!RequestOf(n)] = Nil => FitsNext(n, outcome'[WatchP!RequestOf(n)])
  PROVE  TruthOnTheWay'
  BY DEF TruthOnTheWay, Fits, FitsNext, ResultOf, Watch!Result, WatchP!Session,
         WatchP!RequestOf

\* A result that is on its way, or has arrived, is for a message that was sent
\* and is not waited for.
LEMMA ResultsAreForSent ==
  ASSUME IInv, NEW r \in 1 .. MaxCalls + 1, r # WatchP!Session,
         \/ pending[r] = Nil
         \/ \E j \in 1 .. Len(mainQueue) :
              mainQueue[j].op = "setResult" /\ mainQueue[j].req = r
  PROVE  r - 1 \in 1 .. Len(calls) /\ r - 1 \notin flight
  <1>1. WatchP!ResultsOnTheirWay
    BY DEF IInv, WatchP!IInv, WatchP!Flow
  <1>2. ~WatchP!MayResolve(r)
    BY <1>1 DEF WatchP!ResultsOnTheirWay
  <1>3. QED
    BY <1>2, WatchFacts DEF WatchP!MayResolve, IInv

LEMMA ResultBlocks ==
  ASSUME IInv, NEW i \in 1 .. Len(mainQueue), mainQueue[i].op = "setResult"
  PROVE  mainQueue[i].req \in 1 .. MaxCalls + 1
  <1>1. mainQueue \in Seq(WatchP!Async!Blocks)
    BY DEF IInv, WatchP!IInv, WatchP!Flow, WatchP!Async!IInv, WatchP!Async!TypeOK
  <1>2. mainQueue[i] \in WatchP!Async!Blocks
    BY <1>1, ElementOfSeq
  <1>3. QED
    BY <1>2 DEF WatchP!Async!Blocks

\* The request of a call, and the call of a request.
LEMMA RequestsOfCalls ==
  ASSUME NEW n \in 1 .. MaxCalls
  PROVE  /\ WatchP!RequestOf(n) \in 1 .. MaxCalls + 1
         /\ WatchP!RequestOf(n) # WatchP!Session
         /\ WatchP!RequestOf(n) - 1 = n
  BY BoundsAssumption DEF WatchP!RequestOf, WatchP!Session

\* The watch by itself: it is told nothing, and its results stay what they are.
LEMMA TruthOwnStep ==
  ASSUME IInv, IInv', TruthOnTheWay,
         Watch!ActivationCompletes \/ Watch!MainThread \/ Watch!Controllers, Follows
  PROVE  TruthOnTheWay'
  <1>1. WatchP!ActivationCompletes \/ WatchP!Controllers \/ WatchP!MainThread
    BY SameActivation, SameMainThread, SameControllers
  <1>2. calls' = calls \/ \E getter \in Watch!Getters : calls' = Append(calls, getter)
    BY <1>1, PagesAssumption, NilAssumption, BoundsAssumption, WatchP!OwnStep
    DEF IInv, Watch!Getters, WatchP!Getters
  <1>3. /\ \A i \in 1 .. Len(mainQueue') :
             mainQueue'[i].op = "setResult" /\ mainQueue'[i].req # WatchP!Session =>
               \E j \in 1 .. Len(mainQueue) : mainQueue[j] = mainQueue'[i]
        /\ \A r \in 1 .. MaxCalls + 1 : pending'[r] = Nil =>
             \/ pending[r] = Nil /\ outcome'[r] = outcome[r]
             \/ \E j \in 1 .. Len(mainQueue) :
                  mainQueue[j] = [op |-> "setResult", req |-> r, outcome |-> outcome'[r]]
    BY <1>1, PagesAssumption, NilAssumption, BoundsAssumption, WatchP!OwnResults DEF IInv
  <1>4. Asks /\ UNCHANGED told
    BY DEF Follows
  <1>5. AsksGrow
    BY <1>2, <1>4, AsksFollow
  <1>6. \A v : \A n \in 1 .. Len(calls) : Fits(n, v) => FitsNext(n, v)
    BY <1>4, <1>5, FitsKept
  <1>7. ASSUME NEW i \in 1 .. Len(mainQueue'),
               mainQueue'[i].op = "setResult", mainQueue'[i].req # WatchP!Session
        PROVE  FitsNext(mainQueue'[i].req - 1, mainQueue'[i].outcome)
    <2>1. PICK j \in 1 .. Len(mainQueue) : mainQueue[j] = mainQueue'[i]
      BY <1>3, <1>7
    <2>2. Fits(mainQueue[j].req - 1, mainQueue[j].outcome)
      BY <1>7, <2>1 DEF TruthOnTheWay
    <2>3. mainQueue[j].req - 1 \in 1 .. Len(calls)
      BY <1>7, <2>1, ResultBlocks, ResultsAreForSent
    <2>4. QED
      BY <1>6, <2>1, <2>2, <2>3
  <1>8. \A n \in 1 .. Len(calls') : n \in 1 .. MaxCalls
    <2>1. calls' \in Seq(WatchP!Getters) /\ Len(calls') <= MaxCalls
      BY DEF IInv, WatchP!IInv, WatchP!TypeOK, WatchP!Getters
    <2>2. Len(calls') \in Nat
      BY <2>1
    <2>3. QED
      BY <2>1, <2>2, BoundsAssumption
  <1>9. ASSUME NEW n \in 1 .. Len(calls'), pending'[WatchP!RequestOf(n)] = Nil
        PROVE  FitsNext(n, outcome'[WatchP!RequestOf(n)])
    <2> DEFINE r == WatchP!RequestOf(n)
    <2>1. r \in 1 .. MaxCalls + 1 /\ r # WatchP!Session /\ r - 1 = n
      BY <1>8, RequestsOfCalls
    <2>2. CASE pending[r] = Nil /\ outcome'[r] = outcome[r]
      <3>1. n \in 1 .. Len(calls)
        BY <2>1, <2>2, ResultsAreForSent
      <3>2. Fits(n, outcome[r])
        BY <2>2, <3>1 DEF TruthOnTheWay
      <3>3. QED
        BY <1>6, <2>2, <3>1, <3>2
    <2>3. ASSUME NEW j \in 1 .. Len(mainQueue),
                 mainQueue[j] = [op |-> "setResult", req |-> r, outcome |-> outcome'[r]]
          PROVE  FitsNext(n, outcome'[r])
      <3>1. /\ mainQueue[j].op = "setResult" /\ mainQueue[j].req = r
            /\ mainQueue[j].outcome = outcome'[r]
        BY <2>3
      <3>2. Fits(n, outcome'[r])
        BY <2>1, <3>1 DEF TruthOnTheWay
      <3>3. n \in 1 .. Len(calls)
        BY <2>1, <3>1, ResultsAreForSent
      <3>4. QED
        BY <1>6, <3>2, <3>3
    <2>4. QED
      BY <1>3, <1>9, <2>1, <2>2, <2>3
  <1>10. QED
    BY <1>7, <1>9, TruthInNext

\* A handler of message n brings result v.
LEMMA TruthHandler ==
  ASSUME IInv, TruthOnTheWay, NEW n \in 1 .. MaxCalls, n \in flight, NEW v,
         WatchP!Async!SetResult(WatchP!RequestOf(n), v),
         UNCHANGED <<asks, calls>>, told \subseteq told',
         \A b \in told' : b \in told \/ b.call = n,
         FitsNext(n, v)
  PROVE  TruthOnTheWay'
  <1> DEFINE r == WatchP!RequestOf(n)
             b0 == [op |-> "setResult", req |-> r, outcome |-> v]
  <1>1. /\ mainQueue' = Append(mainQueue, b0)
        /\ UNCHANGED <<pending, outcome>>
    BY DEF WatchP!Async!SetResult, WatchP!Async!SetResultBlock
  <1>2. mainQueue \in Seq(WatchP!Async!Blocks)
    BY DEF IInv, WatchP!IInv, WatchP!Flow, WatchP!Async!IInv, WatchP!Async!TypeOK
  <1>3. r \in 1 .. MaxCalls + 1 /\ r # WatchP!Session /\ r - 1 = n
    BY RequestsOfCalls
  <1>4. AsksGrow
    BY NothingAsked
  <1>5. \A w : \A m \in 1 .. Len(calls) : m # n /\ Fits(m, w) => FitsNext(m, w)
    BY <1>4, FitsKept
  <1>6. /\ b0.op = "setResult" /\ b0.req = r /\ b0.outcome = v
        /\ Len(mainQueue') = Len(mainQueue) + 1 /\ Len(mainQueue) \in Nat
        /\ mainQueue'[Len(mainQueue) + 1] = b0
        /\ \A i \in 1 .. Len(mainQueue) : mainQueue'[i] = mainQueue[i]
    <2> DEFINE S == WatchP!Async!Blocks \cup {b0}
    <2>1. mainQueue \in Seq(S) /\ b0 \in S
      BY <1>2, SeqDef
    <2> HIDE DEF S, b0
    <2>2. /\ Len(mainQueue') = Len(mainQueue) + 1 /\ Len(mainQueue) \in Nat
          /\ mainQueue'[Len(mainQueue) + 1] = b0
          /\ \A i \in 1 .. Len(mainQueue) : mainQueue'[i] = mainQueue[i]
      BY <1>1, <2>1, AppendProperties
    <2>3. b0.op = "setResult" /\ b0.req = r /\ b0.outcome = v
      BY DEF b0
    <2>4. QED
      BY <2>2, <2>3
  <1> HIDE DEF r, b0
  <1>7. ASSUME NEW i \in 1 .. Len(mainQueue'),
               mainQueue'[i].op = "setResult", mainQueue'[i].req # WatchP!Session
        PROVE  FitsNext(mainQueue'[i].req - 1, mainQueue'[i].outcome)
    <2>1. CASE i = Len(mainQueue) + 1
      BY <1>3, <1>6, <2>1
    <2>2. CASE i \in 1 .. Len(mainQueue)
      <3> DEFINE m == mainQueue[i].req - 1
      <3>1. mainQueue'[i] = mainQueue[i]
        BY <1>6, <2>2
      <3>2. m \in 1 .. Len(calls) /\ m \notin flight
        BY <1>7, <2>2, <3>1, ResultBlocks, ResultsAreForSent
      <3>3. Fits(m, mainQueue[i].outcome)
        BY <1>7, <2>2, <3>1 DEF TruthOnTheWay
      <3>4. QED
        BY <1>5, <3>1, <3>2, <3>3
    <2>3. QED
      BY <1>6, <2>1, <2>2
  <1>8. ASSUME NEW m \in 1 .. Len(calls'), pending'[WatchP!RequestOf(m)] = Nil
        PROVE  FitsNext(m, outcome'[WatchP!RequestOf(m)])
    <2>1. m \in 1 .. Len(calls) /\ m \in 1 .. MaxCalls
      BY BoundsAssumption, WatchFacts DEF IInv
    <2>2. /\ pending[WatchP!RequestOf(m)] = Nil
          /\ outcome'[WatchP!RequestOf(m)] = outcome[WatchP!RequestOf(m)]
      BY <1>1, <1>8
    <2>3. m \notin flight
      BY <2>1, <2>2, RequestsOfCalls, ResultsAreForSent
    <2>4. Fits(m, outcome[WatchP!RequestOf(m)])
      BY <2>1, <2>2 DEF TruthOnTheWay
    <2>5. QED
      BY <1>5, <2>1, <2>2, <2>3, <2>4
  <1>9. QED
    BY <1>7, <1>8, TruthInNext

\* The message is given up: the watch was told nothing of it.
LEMMA TruthGivesUp ==
  ASSUME IInv, TruthOnTheWay, NEW n \in 1 .. MaxCalls, GivesUp(n)
  PROVE  TruthOnTheWay'
  <1>1. WatchP!MessageFails(n) /\ UNCHANGED <<asks, told>>
    BY SameAnswers DEF GivesUp
  <1>2. /\ n \in flight /\ UNCHANGED calls
        /\ WatchP!Async!SetResult(WatchP!RequestOf(n), Nil)
    BY <1>1 DEF WatchP!MessageFails, WatchP!Answered
  <1>3. \A b \in told : b.call # n
    BY <1>2 DEF IInv, LinkInv, OnlySent
  <1>4. FitsNext(n, Nil)
    BY <1>1, <1>3 DEF FitsNext
  <1>5. QED
    BY <1>1, <1>2, <1>4, TruthHandler

\* The reply comes: the watch is told what it hands on.
LEMMA TruthReplyComes ==
  ASSUME IInv, TruthOnTheWay, NEW b, ReplyComes(b)
  PROVE  TruthOnTheWay'
  <1> DEFINE n == b.call
             v == Watch!Result(calls[n], b.payload.length)
  <1>1. /\ b \in back /\ n \in flight
        /\ told' = told \cup {b} /\ UNCHANGED asks
        /\ Watch!ReplyArrives(n, b.payload.length)
    BY ReplyIsUseful DEF ReplyComes
  <1>2. n \in 1 .. Len(calls) /\ n \in 1 .. MaxCalls
    BY <1>1, WatchFacts, BoundsAssumption DEF IInv
  <1>3. WatchP!Async!SetResult(WatchP!RequestOf(n), v) /\ UNCHANGED calls
    BY <1>1, SameAnswers
    DEF WatchP!ReplyArrives, WatchP!Answered, WatchP!Result, Watch!Result
  <1>4. asks[n].what = calls[n]
    BY <1>2, WatchFacts, ElementOfSeq DEF IInv, LinkInv, AsksMatch, QuestionsOf, Watch!Getters
  <1>5. FitsNext(n, v)
    BY <1>1, <1>4 DEF FitsNext
  <1>6. told \subseteq told' /\ \A c \in told' : c \in told \/ c.call = n
    BY <1>1
  <1> HIDE DEF n, v
  <1>7. QED
    BY <1>1, <1>2, <1>3, <1>5, <1>6, TruthHandler

\* Every step: the phone by itself tells nothing.
LEMMA TruthNext ==
  ASSUME IInv, IInv', TruthOnTheWay, [Next]_vars
  PROVE  TruthOnTheWay'
  <1>1. CASE ActivationCompletes \/ MainThread \/ Controllers
    BY <1>1, TruthOwnStep DEF ActivationCompletes, MainThread, Controllers
  <1>2. ASSUME UNCHANGED <<watchVars, asks, told>>
        PROVE  TruthOnTheWay'
    BY <1>2 DEF TruthOnTheWay, Fits, ResultOf, Watch!Result, WatchP!Session,
                WatchP!RequestOf, watchVars
  <1>3. CASE Launch \/ Kill \/ Deactivate \/ UNCHANGED vars
    BY <1>2, <1>3 DEF Launch, Kill, Deactivate, vars
  <1>4. ASSUME NEW n \in 1 .. MaxCalls, Deliver(n) \/ Answer(n) \/ Comes(n)
        PROVE  TruthOnTheWay'
    <2>1. CASE Deliver(n) \/ Answer(n)
      BY <1>2, <2>1 DEF Deliver, Answer
    <2>2. CASE Comes(n)
      BY <2>2, TruthGivesUp, TruthReplyComes DEF Comes
    <2>3. QED
      BY <1>4, <2>1, <2>2
  <1>5. ASSUME NEW b \in back, IgnoreReply(b)
        PROVE  TruthOnTheWay'
    BY <1>2, <1>5 DEF IgnoreReply
  <1>6. QED
    BY <1>1, <1>3, <1>4, <1>5 DEF Next

LEMMA TruthInit == Init => TruthOnTheWay
  <1> SUFFICES ASSUME Init
               PROVE  TruthOnTheWay
    OBVIOUS
  <1>1. mainQueue = <<>> /\ calls = <<>>
    BY SameInit DEF Init, WatchP!Init, WatchP!Async!Init
  <1>2. QED
    BY <1>1 DEF TruthOnTheWay

-----------------------------------------------------------------------------
(* The theorems.                                                           *)

\* The invariant holds in every state of every execution.
THEOREM Invariance == Spec => []IInv
  BY InitInv, NextInv, PTL DEF Spec

\* Calls, questions, messages and replies refer to what there is on either end
\* of the connection (WatchClient.swift and WatchServer.swift).
THEOREM TypeCorrect == Spec => []TypeOK
  <1>1. IInv => TypeOK
    <2>1. WatchP!IInv => Watch!TypeOK
      BY SameTypeOK DEF WatchP!IInv
    <2>2. QED
      BY <2>1 DEF IInv, LinkInv, LinkTypes, TypeOK
  <1>2. QED
    BY <1>1, Invariance, PTL

\* The two ends name the fields of a reply alike, so no reply handler of
\* WatchClient.swift returns without a result.
THEOREM EveryReplyIsUsed == Spec => []NothingDropped
  <1>1. IInv => NothingDropped
    BY DEF IInv, LinkInv
  <1>2. QED
    BY <1>1, Invariance, PTL

\* Controllers are given what the phone said in answer to their own call, or nil
\* for a message that was given up, whatever the order of answers, errors and
\* waits (the handlers of sendMessage in WatchClient.swift).
THEOREM ControllersTold == Spec => []ControllersAreTold
  <1>1. IInv /\ TruthOnTheWay => ControllersAreTold
    <2> SUFFICES ASSUME IInv, TruthOnTheWay, NEW i \in 1 .. Len(called),
                        consumer[called[i].cb].to # "send"
                 PROVE  Fits(consumer[called[i].cb].call, called[i].outcome)
      BY DEF ControllersAreTold
    <2> DEFINE k == called[i].cb
               n == consumer[k].call
               r == WatchP!RequestOf(n)
    <2>1. /\ WatchP!IInv /\ WatchP!ConsumersMatch /\ WatchP!ToldTheOutcome
          /\ WatchP!Async!PendingInOrder
      BY DEF IInv, WatchP!IInv, WatchP!Flow, WatchP!Async!IInv
    <2>2. k \in 1 .. Len(consumer)
      BY <2>1, PagesAssumption, NilAssumption, BoundsAssumption, WatchP!CalledNames
    <2>3. n \in 1 .. Len(calls) /\ registered[k] = r
      BY <2>1, <2>2 DEF WatchP!ConsumersMatch
    <2>4. n \in 1 .. MaxCalls
      BY <2>1, <2>3, WatchFacts, BoundsAssumption
    <2>5. r \in 1 .. MaxCalls + 1
      BY <2>4, RequestsOfCalls
    <2>6. called[i].outcome = outcome[r]
      BY <2>1, <2>3 DEF WatchP!ToldTheOutcome
    <2>7. pending[r] = Nil
      BY <2>1, <2>3, <2>5 DEF WatchP!Async!PendingInOrder
    <2>8. QED
      BY <2>3, <2>6, <2>7 DEF TruthOnTheWay
  <1>2. Spec => [](IInv /\ TruthOnTheWay)
    <2>1. IInv /\ TruthOnTheWay /\ [Next]_vars => (IInv /\ TruthOnTheWay)'
      BY NextInv, TruthNext
    <2>2. QED
      BY <2>1, InitInv, TruthInit, PTL DEF Spec
  <1>3. QED
    BY <1>1, <1>2, PTL

\* The watch is told what it asked, and in one life of the phone's app the same
\* whenever it asks again (the cache of NewsApi.swift, behind WatchServer.swift).
THEOREM AlikeWhileAlive == Spec => []OneLifeOneAnswer
  <1>1. IInv => OneLifeOneAnswer
    BY DEF IInv, LinkInv, RepliesFit, AlikeInLife, Replied, OneLifeOneAnswer
  <1>2. QED
    BY <1>1, Invariance, PTL

=============================================================================
