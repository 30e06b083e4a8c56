------------------------------ MODULE WatchLink ------------------------------
(***************************************************************************)
(* The watch and the phone together.  The watch is WatchApp, step by step; *)
(* the phone is the service that PhoneApp implements (WatchService).  In   *)
(* between is WatchConnectivity, which carries messages and replies with   *)
(* delay and out of order, and may give up on any message with an error.   *)
(*                                                                         *)
(* The phone's process may end at any time, by the system or by a trap of  *)
(* its own, and what it had cached and not yet replied is gone.  It listens*)
(* from its launch on (AppDelegate makes the WatchServer, which activates  *)
(* the session) until the session is deactivated by a change of watch:     *)
(* sessionDidDeactivate only prints, so the phone stays deaf for the rest  *)
(* of its life.                                                            *)
(***************************************************************************)
EXTENDS Naturals, Sequences

CONSTANTS
  Nil, Pages, MaxCalls, MaxWaits, MaxPresentations,  \* see WatchApp
  Sources,   \* the rows of the list of sources
  MaxLives   \* bound: launches of the phone's app

\* What WatchApp assumes, and a bound that is a number.
ASSUME PagesAssumption == Pages \in Nat \ {0}

ASSUME NilAssumption == Nil \notin Seq(Nat \ {0})

ASSUME BoundsAssumption == MaxCalls \in Nat /\ MaxLives \in Nat

VARIABLES
  mainQueue, pending, outcome, registered, called,         \* of the watch,
  calls, consumer, due, ran, session, sent, flight,        \* see WatchApp
  dropped, pages, shown, crashed,
  asks,        \* asks[n]: the question of the watch's n-th call
  wire,        \* the calls whose message is on its way to the phone
  phone,       \* "off", "listening" or "deaf"
  lives,       \* how often the phone's app was launched
  questions, replies,                                      \* see WatchService
  origin,      \* origin[m]: the call behind the phone's m-th message
  back,        \* replies on their way to the watch
  told         \* history: what the watch was told, and by which life

watchVars == <<mainQueue, pending, outcome, registered, called, calls, consumer,
               due, ran, session, sent, flight, dropped, pages, shown, crashed>>
phoneVars == <<phone, lives, questions, replies, origin>>
vars == <<watchVars, phoneVars, asks, wire, back, told>>

Watch == INSTANCE WatchApp

\* What the watch asks.  Taps on sources choose whose articles.
QuestionsOf(getter) ==
  IF getter = "articles" THEN [what : {"articles"}, source : Sources]
  ELSE [what : {getter}]

Questions == UNION {QuestionsOf(getter) : getter \in Watch!Getters}

\* Mutant: headlines are replied under a name of their own.
ReplyField_Headlines(what) == what

\* The field of a reply that carries the answer, as WatchServer names it ...
ReplyField(what) == IF what = "headlines" THEN "articles" ELSE what

\* ... and the field that the reply handlers of WatchClient look for.
WantedField(getter) ==
  IF getter \in {"articles", "headlines"} THEN "articles" ELSE getter

\* What reaches the watch: the rows, articles or bytes that were asked for.
Carried ==
  UNION {{[of |-> q, field |-> ReplyField(q.what), length |-> k] :
            k \in Watch!Lengths(q.what)} : q \in Questions}

\* The bytes of an image that has no JPEG form: a nil, for all that WatchServer
\* replies it.
NilImages == [of : QuestionsOf("image"), field : {"image"}, length : {0}]

Payloads == Carried \cup NilImages

Phone == INSTANCE WatchService WITH
  MaxMessages <- MaxCalls, ended <- (phone = "off")

Init ==
  /\ Watch!Init
  /\ asks = <<>> /\ wire = {} /\ back = {} /\ told = {}
  /\ phone = "off" /\ lives = 0
  /\ questions = <<>> /\ replies = [m \in 1 .. MaxCalls |-> <<>>] /\ origin = <<>>

-----------------------------------------------------------------------------
(* The watch.  A call of a getter settles its question, and a message that *)
(* is sent goes onto the wire.                                             *)

Asks ==
  \/ /\ Len(calls') = Len(calls)
     /\ UNCHANGED asks
  \/ /\ Len(calls') > Len(calls)
     /\ \E q \in QuestionsOf(calls'[Len(calls')]) : asks' = Append(asks, q)

Follows ==
  /\ Asks
  /\ wire' = wire \cup (flight' \ flight)
  /\ UNCHANGED <<phoneVars, back, told>>

\* What WatchApp does without the phone: everything but the answers.
ActivationCompletes == Watch!ActivationCompletes /\ Follows

MainThread == Watch!MainThread /\ Follows

Controllers == Watch!Controllers /\ Follows

-----------------------------------------------------------------------------
(* The phone.                                                              *)

\* The system launches the app, for the user or for a message.
Launch ==
  /\ phone = "off"
  /\ lives < MaxLives
  /\ phone' = "listening"
  /\ lives' = lives + 1
  /\ UNCHANGED <<watchVars, asks, wire, back, told, questions, replies, origin>>

\* The process ends, and with it the cache and the reply handlers.
Kill ==
  /\ phone # "off"
  /\ phone' = "off"
  /\ questions' = <<>>
  /\ replies' = [m \in 1 .. MaxCalls |-> <<>>]
  /\ origin' = <<>>
  /\ UNCHANGED <<watchVars, asks, wire, back, told, lives>>

\* sessionDidDeactivate
Deactivate ==
  /\ phone = "listening"
  /\ phone' = "deaf"
  /\ UNCHANGED <<watchVars, asks, wire, back, told, lives, questions, replies, origin>>

\* A message reaches the phone.
Deliver(n) ==
  /\ phone = "listening"
  /\ n \in wire
  /\ wire' = wire \ {n}
  /\ origin' = Append(origin, n)
  /\ UNCHANGED <<watchVars, asks, back, told, phone, lives>>
  /\ Phone!Receive(asks[n])

\* The phone replies, even after the session was deactivated.  A nil is nothing
\* that WatchConnectivity carries: its message is left to fail.
Answer(m) ==
  /\ UNCHANGED <<watchVars, asks, wire, told, phone, lives, origin>>
  /\ \E p \in Payloads :
       /\ Phone!Reply(m, p)
       /\ \/ /\ p \in Carried
             /\ back' = back \cup {[call |-> origin[m], payload |-> p, life |-> lives]}
          \/ /\ p \in NilImages
             /\ UNCHANGED back

-----------------------------------------------------------------------------
(* WatchConnectivity calls one handler of a message, and forgets it.       *)

\* A reply arrives: a handler that does not find its field returns.
ReplyComes(b) ==
  /\ b \in back /\ b.call \in flight
  /\ \/ /\ b.payload.field = WantedField(calls[b.call])
        /\ Watch!ReplyArrives(b.call, b.payload.length)
     \/ /\ b.payload.field # WantedField(calls[b.call])
        /\ Watch!StrangeReplyArrives(b.call)
  /\ back' = back \ {b}
  /\ told' = told \cup {b}
  /\ UNCHANGED <<phoneVars, asks, wire>>

\* The message or its reply is lost, the phone is off or deaf, or has nothing
\* to say for too long.  A message that was not lost may still be delivered.
GivesUp(n) ==
  /\ Watch!MessageFails(n)
  /\ wire' = wire \ {n} \/ wire' = wire
  /\ back' = {b \in back : b.call # n}
  /\ UNCHANGED <<phoneVars, asks, told>>

\* A reply to a message that was given up is ignored.
IgnoreReply(b) ==
  /\ b \in back /\ b.call \notin flight
  /\ back' = back \ {b}
  /\ UNCHANGED <<watchVars, phoneVars, asks, wire, told>>

Comes(n) ==
  GivesUp(n) \/ \E b \in back : b.call = n /\ ReplyComes(b)

Next ==
  \/ ActivationCompletes \/ MainThread \/ Controllers
  \/ Launch \/ Kill \/ Deactivate
  \/ \E n \in 1 .. MaxCalls : Deliver(n) \/ Answer(n) \/ Comes(n)
  \/ \E b \in back : IgnoreReply(b)

\* The watch's main thread keeps running, and WatchConnectivity ends the
\* activation and every message.  Nothing is assumed of the phone.
Spec ==
  /\ Init /\ [][Next]_vars
  /\ WF_vars(MainThread)
  /\ WF_vars(ActivationCompletes)
  /\ \A n \in 1 .. MaxCalls : WF_vars(Comes(n))

-----------------------------------------------------------------------------
(* Properties.                                                             *)

TypeOK ==
  /\ Watch!TypeOK
  /\ asks \in Seq(Questions) /\ Len(asks) = Len(calls)
  /\ wire \subseteq 1 .. Len(calls)
  /\ phone \in {"off", "listening", "deaf"}
  /\ lives \in 0 .. MaxLives
  /\ questions \in Seq(Questions)
  /\ replies \in [1 .. MaxCalls -> {<<>>} \cup {<<p>> : p \in Payloads}]
  /\ origin \in Seq(1 .. Len(calls)) /\ Len(origin) = Len(questions)
  /\ back \cup told \subseteq
       [call : 1 .. Len(calls), payload : Carried, life : 1 .. MaxLives]

(* Whatever the phone replies the watch can use: no handler returns without*)
(* an answer to those who wait, though the two ends agree on the names of  *)
(* the fields by convention only.                                          *)
NothingDropped == dropped = {}

\* The result that the phone's words b are for those who asked.
ResultOf(b) == Watch!Result(asks[b.call].what, b.payload.length)

\* v is what those who wait for call n are to be given: what the watch was told
\* in answer to that call, or nil if it was told nothing.
Fits(n, v) ==
  \/ v = Nil /\ \A b \in told : b.call # n
  \/ \E b \in told : b.call = n /\ v = ResultOf(b)

(* Each controller is given what the phone said in answer to its own call, *)
(* and nil only if the phone said nothing before the message was given up, *)
(* and says nothing later: however many calls are under way, in whatever   *)
(* order they are answered or fail, and however early or late a controller *)
(* comes to wait for its request.                                          *)
ControllersAreTold ==
  \A i \in 1 .. Len(called) :
    LET c == consumer[called[i].cb]
    IN  c.to # "send" => Fits(c.call, called[i].outcome)

(* What the watch is told is for its question, and while the phone's app   *)
(* lives it tells the same to those who ask the same.                      *)
OneLifeOneAnswer ==
  \A b, c \in told :
    /\ b.payload.of = asks[b.call]
    /\ asks[b.call] = asks[c.call] /\ b.life = c.life => b.payload = c.payload

(* A controller that waits is answered whatever becomes of the phone, and  *)
(* without WatchApp's exception for replies that cannot be used: a deaf, a *)
(* killed or a silent phone costs an answer, but no one waits for ever,    *)
(* once the phone could be reached when the watch activated its session.   *)
WaitIsAnswered ==
  \A k \in 1 .. MaxWaits :
    (k <= Len(consumer) /\ session = "reachable")
      ~> (Watch!Async!Called(k) \/ ~Watch!Alive)

=============================================================================
