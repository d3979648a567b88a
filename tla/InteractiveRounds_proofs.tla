---------------------- MODULE InteractiveRounds_proofs ----------------------
(***************************************************************************)
(* Theorems about the rounds of a session, for every set of rounds and     *)
(* every bound: the lifecycle (RoundLifecycle) first, then the rounds with *)
(* their conversation (InteractiveRounds), which extend it.                *)
(*                                                                         *)
(* Type correctness of the lifecycle holds as the code stands.  Its safety *)
(* theorems assume that begins are serial (Crossing = FALSE): a `!` round  *)
(* begins in a task of its own, and when its begin crosses another one     *)
(* they fail.                                                              *)
(*                                                                         *)
(* Every behaviour of InteractiveRounds is one of RoundLifecycle: the body *)
(* of a round, step by step, is a body the lifecycle was proved correct    *)
(* with, so its theorems hold of chat rounds with their conversation.      *)
(*                                                                         *)
(* The last part is about the conversation itself, while the user asks for *)
(* rounds and switches between rounds only (~Overlap): ChatInv, what it    *)
(* says of each position of a body, and the properties of                  *)
(* InteractiveRounds that follow from it.                                  *)
(***************************************************************************)
EXTENDS InteractiveRounds, TLAPS

-----------------------------------------------------------------------------
(* The lifecycle. *)

(* A step of any task keeps every variable in its type. *)
LEMMA TypeStep == TypeOK /\ [Next]_vars => TypeOK'
<1> SUFFICES ASSUME TypeOK, [Next]_vars PROVE TypeOK'
  OBVIOUS
<1> USE RoundsAssumption, RequestsAssumption
    DEF TypeOK, Reasons, Outcomes, Phases, Ops, RequestKinds, Goto, RecordInterrupt, Idle,
        lifecycle, round, session
<1>1. ASSUME NEW r \in Rounds, Prologue(r) PROVE TypeOK'
  <2>1. CASE Reserve(r)
    <3>1. driver' \in [op : Ops, round : Rounds \cup {NoRound}, idle : BOOLEAN]
      <4>1. CASE SerialBegin(r)
        BY <2>1, <4>1 DEF Reserve
      <4>2. CASE ~SerialBegin(r)
        BY <2>1, <4>2 DEF Reserve
      <4> QED  BY <4>1, <4>2
    <3>2. gen' \in [Rounds -> Nat] /\ generation' \in Nat
      BY <2>1 DEF Reserve
    <3>3. pc' \in [Rounds -> Phases]
      BY <2>1 DEF Reserve
    <3>4. UNCHANGED <<slot, reason, cancelled, previous, result, label, published, stops>>
      BY <2>1 DEF Reserve
    <3> QED  BY <3>1, <3>2, <3>3, <3>4
  <2>2. CASE Install(r)  BY <2>2 DEF Install
  <2>3. CASE ParkSuperseded(r)  BY <2>3 DEF ParkSuperseded
  <2>4. CASE Launch(r)  BY <2>4 DEF Launch
  <2> QED  BY <1>1, <2>1, <2>2, <2>3, <2>4 DEF Prologue
<1>2. ASSUME NEW r \in Rounds, PublishRunning(r) PROVE TypeOK'
  BY <1>2 DEF PublishRunning
<1>3. ASSUME NEW r \in Rounds, NEW o \in Outcomes, EndBody(r, o) \/ EndShell(r, o) PROVE TypeOK'
  BY <1>3 DEF EndBody, EndShell
<1>4. ASSUME NEW r \in Rounds, Epilogue(r) PROVE TypeOK'
  <2>1. CASE TakeInterrupt(r)  BY <2>1 DEF TakeInterrupt
  <2>2. CASE Finish(r)  BY <2>2 DEF Finish
  <2>3. CASE PublishIdle(r)  BY <2>3 DEF PublishIdle
  <2> QED  BY <1>4, <2>1, <2>2, <2>3 DEF Epilogue
<1>5. ASSUME NEW kind \in Requests, Request(kind) PROVE TypeOK'
  <2>1. (kind = "fork" \/ ~IsRunning) \in BOOLEAN  OBVIOUS
  <2>2. driver' \in [op : Ops, round : Rounds \cup {NoRound}, idle : BOOLEAN]
    BY <1>5, <2>1 DEF Request
  <2>3. stops' \in 0..MaxStops
    BY <1>5 DEF Request
  <2>4. UNCHANGED <<lifecycle, round, published>>
    BY <1>5 DEF Request
  <2> QED  BY <2>2, <2>3, <2>4
<1>6. CASE DriverStep
  <2>1. CASE ParkReason  BY <2>1 DEF ParkReason
  <2>2. CASE EagerIdle  BY <2>2 DEF EagerIdle
  <2>3. CASE Supersede  BY <2>3 DEF Supersede
  <2>4. CASE CancelCurrent  BY <2>4 DEF CancelCurrent
  <2>5. CASE Reconcile  BY <2>5 DEF Reconcile
  <2> QED  BY <1>6, <2>1, <2>2, <2>3, <2>4, <2>5 DEF DriverStep
<1>7. CASE UNCHANGED vars
  BY <1>7 DEF vars
<1> QED
  BY <1>1, <1>2, <1>3, <1>4, <1>5, <1>6, <1>7 DEF Next, RoundStep, Quiescent

(* Every variable keeps its type, with or without `!` rounds. *)
THEOREM TypeCorrect == Spec => []TypeOK
<1>1. Init => TypeOK
  BY RoundsAssumption, RequestsAssumption DEF Init, TypeOK, Idle, Ops, Phases
<1> QED
  BY <1>1, TypeStep, PTL DEF Spec, Lifecycle

-----------------------------------------------------------------------------
(* The first step of a begin: the generation moves on, the slot does not. *)
LEMMA ReserveStep ==
  ASSUME ~Crossing, SerialInv, TypeOK', NEW r \in Rounds, Reserve(r)
  PROVE  SerialInv'
<1> USE DEF SerialInv, Reserve, Goto, TypeOK, SerialBegin
<1>0. /\ driver.op = "ready" /\ driver'.op = "begin" /\ driver'.round = r
      /\ pc' = [pc EXCEPT ![r] = "reserved"] /\ slot' = slot /\ cancelled' = cancelled
      /\ generation' = generation + 1 /\ gen' = [gen EXCEPT ![r] = generation + 1]
      /\ previous' = previous
  OBVIOUS
<1>1. \A q \in Rounds : ~Beginning(q)
  BY <1>0 DEF OneBegin
<1>2. GenerationsDistinct'
  BY <1>0 DEF GenerationsDistinct, Begun
<1>3. OneBegin'
  BY <1>0, <1>1 DEF OneBegin, Beginning, Replacing
<1>4. SlotNewest'
  BY <1>0, RoundsAssumption DEF SlotNewest, Installed
<1>5. LiveRoundReachable'
  BY <1>0 DEF LiveRoundReachable, Live
<1>6. NoLeakedToken'
  BY <1>0 DEF NoLeakedToken
<1> QED
  BY <1>2, <1>3, <1>4, <1>5, <1>6

(* The second: the token of the newest generation replaces the other, which  *)
(* becomes the predecessor this begin will cancel.                           *)
LEMMA InstallStep ==
  ASSUME ~Crossing, SerialInv, TypeOK', NEW r \in Rounds, Install(r)
  PROVE  SerialInv'
<1> USE DEF SerialInv, Install, Goto, TypeOK
<1>0. /\ pc[r] = "reserved" /\ slot' = r /\ previous' = [previous EXCEPT ![r] = slot]
      /\ pc' = [pc EXCEPT ![r] = IF slot = NoRound THEN "settled" ELSE "installed"]
      /\ UNCHANGED <<generation, gen, cancelled, driver>>
  BY DEF session
<1>1. driver.op = "begin" /\ gen[r] = generation /\ \A q \in Rounds : Beginning(q) => q = r
  BY <1>0 DEF OneBegin, Beginning
<1>2. GenerationsDistinct'
  BY <1>0 DEF GenerationsDistinct, Begun
<1>3. OneBegin'
  BY <1>0, <1>1 DEF OneBegin, Beginning, Replacing
<1>4. SlotNewest'
  BY <1>0, <1>1, RoundsAssumption DEF SlotNewest, Installed, GenerationsDistinct, Begun
<1>5. LiveRoundReachable'
  <2> SUFFICES ASSUME NEW q \in Rounds, Live(q)'
               PROVE  (slot = q)' \/ (Replacing(r)' /\ previous'[r] = q)
    BY <1>0 DEF LiveRoundReachable, Replacing
  <2>1. Live(q) /\ q # r
    BY <1>0 DEF Live
  <2>2. slot = q
    BY <1>0, <1>1, <2>1 DEF LiveRoundReachable, Beginning
  <2> QED
    BY <1>0, <2>2, RoundsAssumption DEF Replacing
<1>6. NoLeakedToken'
  BY <1>0, RoundsAssumption DEF NoLeakedToken, Unwound
<1> QED
  BY <1>2, <1>3, <1>4, <1>5, <1>6

(* Once the predecessor is cancelled, the new round may start: it is the one *)
(* the slot holds, and no other round is live.                               *)
LEMMA LaunchStep ==
  ASSUME ~Crossing, SerialInv, TypeOK', NEW r \in Rounds, Launch(r)
  PROVE  SerialInv'
<1> USE DEF SerialInv, Launch, Goto, TypeOK
<1>0. /\ pc[r] = "settled" /\ driver' = Idle
      /\ pc' = [pc EXCEPT ![r] = IF r \in ShellRounds THEN "running" ELSE "spawned"]
      /\ cancelled' = cancelled \cup ({previous[r]} \ {NoRound})
      /\ previous' = [previous EXCEPT ![r] = NoRound]
      /\ UNCHANGED <<generation, gen, slot>>
  BY DEF SerialBegin
<1>1. slot = r /\ gen[r] = generation /\ \A q \in Rounds : Beginning(q) => q = r
  BY <1>0 DEF OneBegin, Beginning, Replacing
<1>2. GenerationsDistinct'
  BY <1>0 DEF GenerationsDistinct, Begun
<1>3. OneBegin'
  BY <1>0, <1>1 DEF OneBegin, Beginning, Replacing
<1>4. SlotNewest'
  BY <1>0, <1>1 DEF SlotNewest, Installed
<1>5. LiveRoundReachable'
  <2> SUFFICES ASSUME NEW q \in Rounds, Live(q)', q # r PROVE FALSE
    BY <1>0, <1>1 DEF LiveRoundReachable
  <2>1. Live(q) /\ q # previous[r]
    BY <1>0, RoundsAssumption DEF Live
  <2> QED
    BY <1>1, <2>1 DEF LiveRoundReachable, Beginning
<1>6. NoLeakedToken'
  BY <1>0, <1>1 DEF NoLeakedToken, Unwound
<1> QED
  BY <1>2, <1>3, <1>4, <1>5, <1>6

(* finish: a stale round finds a newer generation and leaves the slot alone; *)
(* a current one can only find its own token there, or nothing.              *)
LEMMA FinishOwnToken ==
  ASSUME SerialInv, NEW r \in Rounds, Finish(r), IsCurrent(r)
  PROVE  slot \in {r, NoRound}
<1> SUFFICES ASSUME slot # NoRound PROVE slot = r
  OBVIOUS
<1>1. Installed(r) /\ Begun(r) /\ Begun(slot) /\ slot \in Rounds
  BY DEF Finish, Installed, Begun, SerialInv, SlotNewest, TypeOK
<1>2. gen[r] <= gen[slot] /\ gen[slot] <= generation
  BY <1>1 DEF SerialInv, SlotNewest, GenerationsDistinct
<1>3. gen[slot] = gen[r]
  BY <1>1, <1>2 DEF SerialInv, IsCurrent, TypeOK
<1> QED
  BY <1>1, <1>3 DEF SerialInv, GenerationsDistinct

LEMMA FinishStep ==
  ASSUME SerialInv, TypeOK', NEW r \in Rounds, Finish(r)
  PROVE  SerialInv'
<1>0. /\ pc[r] = "taken"
      /\ pc' = [pc EXCEPT ![r] = "idling"] \/ pc' = [pc EXCEPT ![r] = "ended"]
      /\ UNCHANGED <<generation, gen, previous, cancelled, driver>>
  BY DEF Finish, Goto, session
<1>b. (IsCurrent(r) /\ slot' = NoRound) \/ (~IsCurrent(r) /\ slot' = slot)
  BY DEF Finish
<1> USE DEF SerialInv, TypeOK
<1>1. slot' = slot \/ (slot = r /\ slot' = NoRound)
  BY <1>b, FinishOwnToken
<1>2. GenerationsDistinct'
  BY <1>0 DEF GenerationsDistinct, Begun
<1>3. OneBegin'
  BY <1>0, <1>1 DEF OneBegin, Beginning, Replacing
<1>4. SlotNewest'
  BY <1>0, <1>1 DEF SlotNewest, Installed
<1>5. LiveRoundReachable'
  BY <1>0, <1>1 DEF LiveRoundReachable, Live
<1>6. NoLeakedToken'
  BY <1>0, <1>b, <1>1 DEF NoLeakedToken, Unwound, SlotNewest, IsCurrent
<1> QED
  BY <1>2, <1>3, <1>4, <1>5, <1>6

(* Steps that move one round on without touching the slot or a generation. *)
LEMMA RoundLocalStep ==
  ASSUME SerialInv, TypeOK', NEW r \in Rounds, NEW from, NEW to,
         pc[r] = from, pc' = [pc EXCEPT ![r] = to],
         UNCHANGED <<generation, slot, cancelled, gen, previous, driver>>,
         <<from, to>> \in {<<"installed", "settled">>, <<"spawned", "running">>, <<"running", "closing">>,
                          <<"running", "taken">>, <<"closing", "taken">>, <<"idling", "ended">>}
  PROVE  SerialInv'
<1> USE DEF SerialInv, TypeOK
<1>1. GenerationsDistinct'
  BY DEF GenerationsDistinct, Begun
<1>2. OneBegin'
  BY DEF OneBegin, Beginning, Replacing
<1>3. SlotNewest'
  BY DEF SlotNewest, Installed
<1>4. LiveRoundReachable'
  BY DEF LiveRoundReachable, Live
<1>5. NoLeakedToken'
  BY DEF NoLeakedToken, Unwound
<1> QED
  BY <1>1, <1>2, <1>3, <1>4, <1>5

LEMMA DriverKeepsSerial ==
  ASSUME SerialInv, TypeOK', DriverStep \/ \E kind \in Requests : Request(kind)
  PROVE  SerialInv'
<1> USE DEF SerialInv, TypeOK
<1>1. CASE \E kind \in Requests : Request(kind)
  <2>1. /\ driver.op = "ready" /\ driver'.op \in RequestKinds
        /\ UNCHANGED <<generation, slot, cancelled, pc, gen, previous>>
    BY <1>1, RequestsAssumption DEF Request, lifecycle, round
  <2> QED
    BY <2>1 DEF RequestKinds, GenerationsDistinct, Begun, OneBegin, Beginning, Replacing, SlotNewest,
                Installed, LiveRoundReachable, Live, NoLeakedToken, Unwound
<1>2. CASE ParkReason \/ EagerIdle \/ Reconcile
  <2>1. /\ driver.op \notin {"begin", "cancel"}
        /\ UNCHANGED <<generation, slot, cancelled, pc, gen, previous>>
    BY <1>2 DEF ParkReason, EagerIdle, Reconcile, RequestKinds, lifecycle, round
  <2> QED
    BY <2>1 DEF GenerationsDistinct, Begun, OneBegin, Beginning, Replacing, SlotNewest,
                Installed, LiveRoundReachable, Live, NoLeakedToken, Unwound
<1>3. CASE Supersede
  <2>1. /\ driver.op = "supersede" /\ driver'.op = "cancel" /\ generation' = generation + 1
        /\ UNCHANGED <<slot, cancelled, pc, gen, previous>>
    BY <1>3 DEF Supersede, round
  <2> QED
    BY <2>1 DEF GenerationsDistinct, Begun, OneBegin, Beginning, Replacing, SlotNewest,
                Installed, LiveRoundReachable, Live, NoLeakedToken, Unwound
<1>4. CASE CancelCurrent
  <2>1. /\ driver.op = "cancel" /\ slot' = NoRound
        /\ cancelled' = cancelled \cup ({slot} \ {NoRound})
        /\ UNCHANGED <<generation, pc, gen, previous>>
    BY <1>4 DEF CancelCurrent, round
  <2>2. LiveRoundReachable'
    BY <2>1, RoundsAssumption DEF LiveRoundReachable, Live
  <2> QED
    BY <2>1, <2>2 DEF GenerationsDistinct, Begun, OneBegin, Beginning, Replacing, SlotNewest,
                      Installed, NoLeakedToken, Unwound
<1> QED
  BY <1>1, <1>2, <1>3, <1>4 DEF DriverStep

LEMMA SerialStep ==
  ASSUME ~Crossing, SerialInv, [Next]_vars
  PROVE  SerialInv'
<1>0. TypeOK'
  BY TypeStep DEF SerialInv
<1>1. ASSUME NEW r \in Rounds, Prologue(r) PROVE SerialInv'
  <2>1. CASE Reserve(r)  BY <1>0, <2>1, ReserveStep
  <2>2. CASE Install(r)  BY <1>0, <2>2, InstallStep
  <2>3. CASE ParkSuperseded(r)
    BY <1>0, <2>3, RoundLocalStep DEF ParkSuperseded, Goto, session
  <2>4. CASE Launch(r)  BY <1>0, <2>4, LaunchStep
  <2> QED  BY <1>1, <2>1, <2>2, <2>3, <2>4 DEF Prologue
<1>2. ASSUME NEW r \in Rounds, PublishRunning(r) PROVE SerialInv'
  BY <1>0, <1>2, RoundLocalStep DEF PublishRunning, Goto, lifecycle
<1>3. ASSUME NEW r \in Rounds, NEW o \in Outcomes, EndBody(r, o) \/ EndShell(r, o) PROVE SerialInv'
  <2>1. CASE EndBody(r, o)
    BY <1>0, <2>1, RoundLocalStep DEF EndBody, Goto, lifecycle, session
  <2>2. CASE EndShell(r, o)
    BY <1>0, <2>2, RoundLocalStep DEF EndShell, Goto, lifecycle, session
  <2> QED  BY <1>3, <2>1, <2>2
<1>4. ASSUME NEW r \in Rounds, Epilogue(r) PROVE SerialInv'
  <2>1. CASE TakeInterrupt(r)
    BY <1>0, <2>1, RoundLocalStep DEF TakeInterrupt, Goto, session
  <2>2. CASE Finish(r)  BY <1>0, <2>2, FinishStep
  <2>3. CASE PublishIdle(r)
    BY <1>0, <2>3, RoundLocalStep DEF PublishIdle, Goto, lifecycle
  <2> QED  BY <1>4, <2>1, <2>2, <2>3 DEF Epilogue
<1>5. CASE DriverStep \/ \E kind \in Requests : Request(kind)
  BY <1>0, <1>5, DriverKeepsSerial
<1>6. CASE UNCHANGED vars
  BY <1>6, <1>0 DEF vars, lifecycle, round, session, SerialInv, GenerationsDistinct, Begun, OneBegin,
     Beginning, Replacing, SlotNewest, Installed, LiveRoundReachable, Live, NoLeakedToken, Unwound
<1> QED
  BY <1>1, <1>2, <1>3, <1>4, <1>5, <1>6 DEF Next, RoundStep, Quiescent

LEMMA SerialInvariant ==
  ASSUME ~Crossing PROVE Lifecycle => []SerialInv
<1>1. Init => SerialInv
  BY RoundsAssumption, RequestsAssumption
     DEF Init, SerialInv, TypeOK, Idle, Ops, Phases, GenerationsDistinct, Begun, OneBegin,
         Beginning, Replacing, SlotNewest, LiveRoundReachable, Live, NoLeakedToken
<1>2. SerialInv /\ [Next]_vars => SerialInv'
  BY SerialStep
<1> QED
  BY <1>1, <1>2, PTL DEF Lifecycle

(* At most one active round: with serial begins, for any number of rounds and *)
(* stops, two rounds never work with uncancelled tokens at once.              *)
THEOREM OneActiveRound ==
  ASSUME ~Crossing PROVE Spec => []AtMostOneLive
<1>1. SerialInv => AtMostOneLive
  BY DEF SerialInv, AtMostOneLive, LiveRoundReachable, Beginning
<1> QED
  BY <1>1, SerialInvariant, PTL DEF Spec

(* The user's stop reaches every working round: the round is in the slot, or *)
(* a begin already holds it to cancel it.                                    *)
THEOREM StopReachesLiveRound ==
  ASSUME ~Crossing PROVE Spec => []LiveRoundReachable
<1>1. SerialInv => LiveRoundReachable
  BY DEF SerialInv
<1> QED
  BY <1>1, SerialInvariant, PTL DEF Spec

(* No ended round is left in the slot for is_running to report. *)
THEOREM SlotReleased ==
  ASSUME ~Crossing PROVE Spec => []NoLeakedToken
<1>1. SerialInv => NoLeakedToken
  BY DEF SerialInv
<1> QED
  BY <1>1, SerialInvariant, PTL DEF Spec

(* The tail of a superseded round never takes its successor's token. *)
THEOREM SuccessorKeepsSlot ==
  ASSUME ~Crossing PROVE Spec => FinishSparesSuccessor
<1>1. SerialInv /\ [Next]_vars =>
        [\A r \in Rounds : Finish(r) /\ slot' # slot => slot = r]_vars
  <2> SUFFICES ASSUME SerialInv, NEW r \in Rounds, Finish(r), slot' # slot PROVE slot = r
    OBVIOUS
  <2>1. IsCurrent(r) /\ slot' = NoRound
    BY DEF Finish
  <2> QED
    BY <2>1, FinishOwnToken
<1> QED
  BY <1>1, SerialInvariant, PTL DEF Spec, Lifecycle, FinishSparesSuccessor

-----------------------------------------------------------------------------
(* The body implements the lifecycle's. *)

(* What the histories are made of. *)
LEMMA Histories ==
  ASSUME NEW h \in Seq(Message), NEW r \in Rounds
  PROVE  /\ \A k \in Kinds : Append(h, Say(r, k)) \in Seq(Message)
         /\ \A j, k \in Kinds : h \o <<Say(r, j), Say(r, k)>> \in Seq(Message)
         /\ \A mark \in Nat : UpTo(h, mark) \in Seq(Message)
         /\ h # <<>> => Front(h) \in Seq(Message)
<1>1. \A k \in Kinds : Say(r, k) \in Message
  BY DEF Say, Message
<1>2. \A mark \in Nat : UpTo(h, mark) \in Seq(Message)
  BY DEF UpTo
<1>3. h # <<>> => Front(h) \in Seq(Message)
  BY DEF Front
<1> QED
  BY <1>1, <1>2, <1>3

(* One round's locals change and the rest of the conversation is kept apart. *)
LEMMA OneBody ==
  ASSUME BodyInv, NEW r \in Rounds, NEW b \in Body, body' = [body EXCEPT ![r] = b],
         store' \in Store, agentRound' \in Nat, UNCHANGED <<asked, switching>>,
         \A q \in Rounds \ {r} : pc'[q] = pc[q],
         b.at \in {"unwind", "restore", "unpark", "commit", "retire", "arm", "mirror"} =>
            b.ending \in Outcomes,
         b.at = "done" \/ (b.point = body[r].point /\ body[r].at # "done" /\ pc[r] # "waiting")
  PROVE  ConversationTypeOK' /\ EndingDecided' /\ ResumeHasPoint'
<1> USE DEF BodyInv, ConversationTypeOK
<1>1. body \in [Rounds -> Body] /\ body' \in [Rounds -> Body] /\ body'[r] = b
  OBVIOUS
<1>2. \A q \in Rounds \ {r} : body'[q] = body[q]
  OBVIOUS
<1>3. ConversationTypeOK'
  BY <1>1
<1>4. EndingDecided'
  BY <1>1, <1>2 DEF EndingDecided
<1>5. ResumeHasPoint'
  BY <1>1, <1>2, RetriesAssumption DEF ResumeHasPoint
<1> QED
  BY <1>3, <1>4, <1>5

(* The steps that only move on, and the one that ends the body. *)
LEMMA MovesOn ==
  ASSUME BodyInv, NEW r \in Rounds, NEW s \in Steps \ {"done"}, pc[r] = "running",
         body[r].at # "done", Step(r, s), Within(r), store' \in Store, agentRound' \in Nat,
         s \in {"unwind", "restore", "unpark", "commit", "retire", "arm", "mirror"} =>
            body[r].ending \in Outcomes
  PROVE  ConversationTypeOK' /\ EndingDecided' /\ ResumeHasPoint'
<1> DEFINE b == [body[r] EXCEPT !.at = s]
<1>1. body \in [Rounds -> Body] /\ body[r] \in Body
  BY DEF BodyInv, ConversationTypeOK
<1>2. body' = [body EXCEPT ![r] = b]
  BY <1>1 DEF Step
<1>3. b \in Body /\ b.point = body[r].point /\ b.at = s /\ b.ending = body[r].ending
  BY <1>1 DEF Body
<1> HIDE DEF b
<1> QED
  BY <1>1, <1>2, <1>3, OneBody DEF Within, vars, round

LEMMA Returns ==
  ASSUME BodyInv, NEW r \in Rounds, NEW o, Return(r, o), store' \in Store, agentRound' \in Nat
  PROVE  ConversationTypeOK' /\ EndingDecided' /\ ResumeHasPoint'
<1> DEFINE b == [body[r] EXCEPT !.at = "done", !.before = 0, !.streamed = FALSE,
                                !.attempt = 1, !.point = NoPoint]
<1>1. body \in [Rounds -> Body] /\ body[r] \in Body /\ pc \in [Rounds -> Phases]
  BY DEF BodyInv, ConversationTypeOK, TypeOK
<1>2. body' = [body EXCEPT ![r] = b]
  BY <1>1 DEF Return
<1>3. b \in Body /\ b.at = "done"
  BY <1>1 DEF Body, Steps, MaybePoint
<1>4. \A q \in Rounds \ {r} : pc'[q] = pc[q]
  BY <1>1 DEF Return, EndBody, Goto
<1> HIDE DEF b
<1> QED
  BY <1>1, <1>2, <1>3, <1>4, OneBody DEF Return

(* The other steps, given what they make of the locals. *)
LEMMA Becomes ==
  ASSUME BodyInv, NEW r \in Rounds, NEW b \in Body, pc[r] = "running", body[r].at # "done",
         body' = [body EXCEPT ![r] = b], b.point = body[r].point, Within(r),
         store' \in Store, agentRound' \in Nat,
         b.at \in {"unwind", "restore", "unpark", "commit", "retire", "arm", "mirror"} =>
            b.ending \in Outcomes
  PROVE  ConversationTypeOK' /\ EndingDecided' /\ ResumeHasPoint'
BY OneBody DEF Within, vars, round

LEMMA AdmissionTypes ==
  ASSUME BodyInv, NEW r \in Rounds, Admission(r)
  PROVE  ConversationTypeOK' /\ EndingDecided' /\ ResumeHasPoint'
<1>0. /\ body \in [Rounds -> Body] /\ body[r] \in Body /\ store \in Store /\ agentRound \in Nat
      /\ r \in Retries /\ pc[r] = "running" /\ body[r].at # "done" => body[r].point \in RetryPoint
  BY DEF BodyInv, ConversationTypeOK, ResumeHasPoint
<1>1. CASE Enter(r)
  <2> DEFINE b == [body[r] EXCEPT !.before = agentRound,
                                  !.at = IF r \in Retries THEN "identify" ELSE "bump"]
  <2>1. /\ b \in Body /\ b.point = body[r].point /\ b.at \in {"identify", "bump"}
        /\ body' = [body EXCEPT ![r] = b]
    BY <1>0, <1>1 DEF Enter, Body, Steps
  <2> HIDE DEF b
  <2> QED  BY <1>0, <1>1, <2>1, Becomes DEF Enter, At
<1>2. CASE HookDenies(r)
  BY <1>0, <1>2, Returns DEF HookDenies
<1>3. CASE BumpRound(r)
  BY <1>0, <1>3, MovesOn DEF BumpRound, At, Steps
<1>4. CASE ClearStalePoint(r)
  <2>1. store' \in Store
    BY <1>0, <1>4 DEF ClearStalePoint, Store, MaybePoint
  <2> QED  BY <1>0, <1>4, <2>1, MovesOn DEF ClearStalePoint, At, Steps
<1>5. CASE Identify(r)
  <2> DEFINE b == [body[r] EXCEPT !.at = "window", !.home = store.id,
                     !.number = IF r \in Retries THEN body[r].point.round ELSE agentRound]
  <2>1. b \in Body /\ b.point = body[r].point /\ b.at = "window" /\ body' = [body EXCEPT ![r] = b]
    BY <1>0, <1>5 DEF Identify, At, Body, Steps, Store, RetryPoint
  <2> HIDE DEF b
  <2> QED  BY <1>0, <1>5, <2>1, Becomes DEF Identify, At
<1>6. CASE ReadWindow(r)
  <2> DEFINE h == IF r \in Retries THEN UpTo(store.window, body[r].point.mark)
                                   ELSE Append(store.window, Say(r, "prompt"))
             b == [body[r] EXCEPT !.at = "save", !.history = h]
  <2>1. h \in Seq(Message)
    BY <1>0, <1>6, Histories DEF ReadWindow, At, Store, RetryPoint, Kinds
  <2>2. body' = [body EXCEPT ![r] = b]
    BY <1>0, <1>6 DEF ReadWindow
  <2> HIDE DEF h
  <2>3. b \in Body /\ b.point = body[r].point /\ b.at = "save"
    BY <1>0, <2>1 DEF Body, Steps
  <2> HIDE DEF b
  <2> QED  BY <1>0, <1>6, <2>2, <2>3, Becomes DEF ReadWindow, At
<1>7. CASE SaveWindow(r)
  <2>1. store' \in Store
    BY <1>0, <1>7 DEF SaveWindow, Store, Body
  <2> QED  BY <1>0, <1>7, <2>1, MovesOn, Returns DEF SaveWindow, WriteFails, At, Steps
<1>8. CASE SaveCounter(r)
  <2>1. store' \in Store
    BY <1>0, <1>8 DEF SaveCounter, Store, Body
  <2> QED  BY <1>0, <1>8, <2>1, MovesOn, Returns DEF SaveCounter, WriteFails, At, Steps
<1> QED
  BY <1>1, <1>2, <1>3, <1>4, <1>5, <1>6, <1>7, <1>8 DEF Admission

LEMMA TurnSaves ==
  ASSUME store \in Store, agentRound \in Nat, NEW h \in Seq(Message), AppendTurn(h)
  PROVE  store' \in Store
BY DEF AppendTurn, Store

LEMMA TurnTypes ==
  ASSUME BodyInv, NEW r \in Rounds, Turn(r)
  PROVE  ConversationTypeOK' /\ EndingDecided' /\ ResumeHasPoint'
<1> DEFINE h == body[r].history
<1>0. /\ body \in [Rounds -> Body] /\ body[r] \in Body /\ store \in Store /\ agentRound \in Nat
      /\ h \in Seq(Message)
  BY DEF BodyInv, ConversationTypeOK, Body
<1>a. /\ \A k \in Kinds : Append(h, Say(r, k)) \in Seq(Message)
      /\ \A j, k \in Kinds : h \o <<Say(r, j), Say(r, k)>> \in Seq(Message)
  BY <1>0, Histories
<1>1. CASE Prepare(r)
  <2> DEFINE g == Append(h, Say(r, "steer"))
             b == [body[r] EXCEPT !.at = "request", !.history = g]
  <2>1. g \in Seq(Message)
    BY <1>a DEF Kinds
  <2>2. b \in Body /\ b.point = body[r].point /\ b.at = "request" /\ b.history = g
    BY <1>0, <2>1 DEF Body, Steps
  <2>3. CASE Step(r, "request") /\ UNCHANGED store
    BY <1>0, <1>1, <2>3, MovesOn DEF Prepare, At, Steps
  <2>4. CASE /\ body' = [body EXCEPT ![r] = b]
             /\ AppendTurn(body'[r].history)
    <3>1. store' \in Store
      BY <1>0, <2>1, <2>2, <2>4, TurnSaves
    <3> HIDE DEF b
    <3> QED  BY <1>0, <1>1, <2>2, <2>4, <3>1, Becomes DEF Prepare, At
  <2> QED  BY <1>0, <1>1, <2>3, <2>4 DEF Prepare
<1>2. CASE Delta(r)
  <2> DEFINE b == [body[r] EXCEPT !.streamed = TRUE]
  <2>1. /\ b \in Body /\ b.point = body[r].point /\ b.at = "request"
        /\ body' = [body EXCEPT ![r] = b]
    BY <1>0, <1>2 DEF Delta, At, Body
  <2> HIDE DEF b
  <2> QED  BY <1>0, <1>2, <2>1, Becomes DEF Delta, At
<1>3. CASE CallTools(r)
  <2>1. PICK ending \in {"none", "error", "interrupted"} :
          /\ body' = [body EXCEPT ![r].at = IF ending = "none" THEN "turn" ELSE "unwind",
                                  ![r].ending = ending, ![r].tools = TRUE,
                                  ![r].history = Append(@, Say(r, "turn"))]
          /\ IF ending = "none" THEN AppendTurn(body'[r].history) ELSE UNCHANGED store
    BY <1>3 DEF CallTools
  <2> DEFINE g == Append(h, Say(r, "turn"))
             b == [body[r] EXCEPT !.at = IF ending = "none" THEN "turn" ELSE "unwind",
                                  !.ending = ending, !.tools = TRUE, !.history = g]
  <2>2. g \in Seq(Message)
    BY <1>a DEF Kinds
  <2>3. body' = [body EXCEPT ![r] = b]
    BY <1>0, <2>1
  <2> HIDE DEF g
  <2>4. /\ b \in Body /\ b.point = body[r].point /\ b.history = g
        /\ b.at = "turn" \/ (b.at = "unwind" /\ b.ending \in Outcomes)
    BY <1>0, <2>2 DEF Body, Steps, Outcomes
  <2> HIDE DEF b
  <2>5. store' \in Store
    BY <1>0, <2>1, <2>2, <2>3, <2>4, TurnSaves
  <2> QED  BY <1>0, <1>3, <2>3, <2>4, <2>5, Becomes DEF CallTools, At
<1>4. CASE Answer(r)
  <2> DEFINE g == Append(h, Say(r, "answer"))
             b == [body[r] EXCEPT !.at = "unwind", !.ending = "ok", !.history = g]
  <2>1. g \in Seq(Message)
    BY <1>a DEF Kinds
  <2>2. body' = [body EXCEPT ![r] = b]
    BY <1>0, <1>4 DEF Answer
  <2> HIDE DEF g
  <2>3. b \in Body /\ b.point = body[r].point /\ b.ending \in Outcomes
    BY <1>0, <2>1 DEF Body, Steps, Outcomes
  <2> HIDE DEF b
  <2> QED  BY <1>0, <1>4, <2>2, <2>3, Becomes DEF Answer, At
<1>5. CASE AnswerSteered(r)
  <2> DEFINE g == h \o <<Say(r, "answer"), Say(r, "steer")>>
             b == [body[r] EXCEPT !.at = "turn", !.history = g]
  <2>1. g \in Seq(Message)
    BY <1>a DEF Kinds
  <2>2. body' = [body EXCEPT ![r] = b]
    BY <1>0, <1>5 DEF AnswerSteered
  <2> HIDE DEF g
  <2>3. b \in Body /\ b.point = body[r].point /\ b.at = "turn" /\ b.history = g
    BY <1>0, <2>1 DEF Body, Steps
  <2> HIDE DEF b
  <2>4. store' \in Store
    BY <1>0, <1>5, <2>1, <2>2, <2>3, TurnSaves DEF AnswerSteered
  <2> QED  BY <1>0, <1>5, <2>2, <2>3, <2>4, Becomes DEF AnswerSteered, At
<1>6. ASSUME NEW o \in {"error", "interrupted"}, GiveUp(r, o)
      PROVE  ConversationTypeOK' /\ EndingDecided' /\ ResumeHasPoint'
  <2> DEFINE b == [body[r] EXCEPT !.at = "unwind", !.ending = o]
  <2>1. /\ b \in Body /\ b.point = body[r].point /\ b.ending \in Outcomes
        /\ body' = [body EXCEPT ![r] = b]
    BY <1>0, <1>6 DEF GiveUp, Body, Steps, Outcomes
  <2> HIDE DEF b
  <2> QED  BY <1>0, <1>6, <2>1, Becomes DEF GiveUp, At
<1>7. CASE Panic(r)
  BY <1>0, <1>7, Returns DEF Panic
<1>8. CASE Backoff(r)
  <2> DEFINE b == [body[r] EXCEPT !.at = "backoff", !.streamed = FALSE]
  <2>1. /\ b \in Body /\ b.point = body[r].point /\ b.at = "backoff"
        /\ body' = [body EXCEPT ![r] = b]
    BY <1>0, <1>8 DEF Backoff, Body, Steps
  <2> HIDE DEF b
  <2> QED  BY <1>0, <1>8, <2>1, Becomes DEF Backoff, At
<1>9. CASE Resend(r)
  <2> DEFINE n == body[r].attempt + 1
             b == [body[r] EXCEPT !.at = "request", !.attempt = n]
  <2>0. n \in Nat
    BY <1>0 DEF Body
  <2>1. b \in Body /\ b.point = body[r].point /\ b.at = "request"
    <3> HIDE DEF n
    <3> QED  BY <1>0, <2>0 DEF Body, Steps
  <2>2. CASE body' = [body EXCEPT ![r] = b] /\ Within(r)
    <3> HIDE DEF b
    <3> QED  BY <1>0, <1>9, <2>1, <2>2, Becomes DEF Resend, At
  <2>3. CASE Return(r, "interrupted")
    BY <1>0, <1>9, <2>3, Returns DEF Resend
  <2> QED  BY <1>0, <1>9, <2>2, <2>3 DEF Resend
<1> QED
  BY <1>1, <1>2, <1>3, <1>4, <1>5, <1>6, <1>7, <1>8, <1>9 DEF Turn

LEMMA EndingTypes ==
  ASSUME BodyInv, NEW r \in Rounds, Ending(r)
  PROVE  ConversationTypeOK' /\ EndingDecided' /\ ResumeHasPoint'
<1> DEFINE h == body[r].history
<1>0. /\ body \in [Rounds -> Body] /\ body[r] \in Body /\ store \in Store /\ agentRound \in Nat
      /\ h \in Seq(Message) /\ body[r].before \in Nat /\ body[r].number \in Nat
      /\ body[r].at \in {"unwind", "restore", "unpark", "commit", "retire", "arm", "mirror"} =>
            body[r].ending \in Outcomes
  BY DEF BodyInv, ConversationTypeOK, Body, EndingDecided
<1>1. CASE Unsend(r)
  <2> DEFINE b == [body[r] EXCEPT !.at = "restore", !.history = Front(h)]
  <2>1. Front(h) \in Seq(Message)
    BY <1>0, <1>1, Histories DEF Unsend, Unsendable
  <2>2. b \in Body /\ b.point = body[r].point /\ b.ending = body[r].ending
    BY <1>0, <2>1 DEF Body, Steps
  <2>3. store' \in Store
    BY <1>0, <1>1, <2>1 DEF Unsend, Store
  <2>4. CASE body' = [body EXCEPT ![r] = b] /\ Within(r)
    <3> HIDE DEF b
    <3> QED  BY <1>0, <1>1, <2>2, <2>3, <2>4, Becomes DEF Unsend, At
  <2>5. CASE WriteFails(r)
    BY <1>0, <1>1, <2>3, <2>5, Returns DEF Unsend, WriteFails
  <2> QED  BY <1>0, <1>1, <2>4, <2>5 DEF Unsend
<1>2. CASE Restore(r)
  <2>1. store' \in Store
    BY <1>0, <1>2 DEF Restore, Store
  <2> QED  BY <1>0, <1>2, <2>1, MovesOn, Returns DEF Restore, WriteFails, At, Steps
<1>3. CASE Unpark(r)
  <2>1. store' \in Store
    BY <1>0, <1>3 DEF Unpark, Store, MaybePoint
  <2> QED  BY <1>0, <1>3, <2>1, Returns DEF Unpark
<1>4. CASE CheckSession(r)
  BY <1>0, <1>4, MovesOn, Returns DEF CheckSession, At, Steps
<1>5. CASE Commit(r)
  <2>1. store' \in Store
    BY <1>0, <1>5 DEF Commit, Store
  <2> QED  BY <1>0, <1>5, <2>1, MovesOn, Returns DEF Commit, WriteFails, At, Steps
<1>6. CASE RetirePoint(r)
  <2>1. store' \in Store
    BY <1>0, <1>6 DEF RetirePoint, Store, MaybePoint
  <2> QED  BY <1>0, <1>6, <2>1, MovesOn DEF RetirePoint, At, Steps
<1>7. CASE Arm(r)
  <2>1. store' \in Store
    BY <1>0, <1>7 DEF Arm, Store, MaybePoint, RetryPoint
  <2> QED  BY <1>0, <1>7, <2>1, Returns DEF Arm
<1>8. CASE MirrorCounter(r)
  <2>1. store' \in Store
    BY <1>0, <1>8 DEF MirrorCounter, Store
  <2> QED  BY <1>0, <1>8, <2>1, Returns DEF MirrorCounter
<1> QED
  BY <1>1, <1>2, <1>3, <1>4, <1>5, <1>6, <1>7, <1>8 DEF Ending

(* The other steps of the session: the request loop's, and the lifecycle's,   *)
(* after which no round is waiting that was not.                              *)
LEMMA SessionTypes ==
  ASSUME BodyInv, TypeOK',
         \/ \E r \in Rounds : Begin(r)
         \/ \E kind \in Requests : Stop(kind)
         \/ LifecycleStep \/ AskRetry \/ Repoint \/ UNCHANGED allVars
  PROVE  ConversationTypeOK' /\ EndingDecided' /\ ResumeHasPoint'
<1> USE DEF BodyInv
<1>0. /\ body \in [Rounds -> Body] /\ store \in Store /\ agentRound \in Nat
      /\ asked \in MaybePoint /\ switching \in {"none", "fork", "new"}
      /\ pc \in [Rounds -> Phases]
  BY DEF ConversationTypeOK, TypeOK
<1>1. ASSUME NEW r \in Rounds, Begin(r)
      PROVE  ConversationTypeOK' /\ EndingDecided' /\ ResumeHasPoint'
  <2> DEFINE b == [body[r] EXCEPT !.point = asked]
  <2>1. /\ b \in Body /\ b.at = body[r].at /\ b.ending = body[r].ending /\ b.point = asked
        /\ body' = [body EXCEPT ![r] = b]
    BY <1>0, <1>1 DEF Begin, Body
  <2> HIDE DEF b
  <2>2. /\ body' \in [Rounds -> Body] /\ body'[r] = b
        /\ \A q \in Rounds \ {r} : body'[q] = body[q] /\ pc'[q] = pc[q]
    BY <1>0, <1>1, <2>1 DEF Begin, Reserve, Goto
  <2>3. r \in Retries => asked \in RetryPoint
    BY <1>0, <1>1 DEF Begin, MaybePoint
  <2>4. ConversationTypeOK'
    BY <1>0, <1>1, <2>2 DEF Begin, ConversationTypeOK, MaybePoint
  <2>5. EndingDecided'
    BY <2>1, <2>2 DEF EndingDecided
  <2>6. ResumeHasPoint'
    BY <2>1, <2>2, <2>3, RetriesAssumption DEF ResumeHasPoint
  <2> QED  BY <2>4, <2>5, <2>6
<1>2. ASSUME NEW kind \in Requests, Stop(kind)
      PROVE  ConversationTypeOK' /\ EndingDecided' /\ ResumeHasPoint'
  BY <1>0, <1>2, RequestsAssumption
     DEF Stop, Request, round, ConversationTypeOK, EndingDecided, ResumeHasPoint, RequestKinds
<1>3. CASE LifecycleStep
  <2>1. \A q \in Rounds : pc'[q] # "waiting" => pc[q] # "waiting"
    BY <1>0, <1>3 DEF LifecycleStep, Install, ParkSuperseded, Launch, PublishRunning, Epilogue,
       TakeInterrupt, Finish, PublishIdle, ParkReason, EagerIdle, Supersede, CancelCurrent,
       Reconcile, Goto, round
  <2>2. UNCHANGED conversation
    BY <1>3 DEF LifecycleStep
  <2> QED
    BY <2>1, <2>2, RetriesAssumption DEF conversation, ConversationTypeOK, EndingDecided, ResumeHasPoint
<1>4. CASE AskRetry
  <2>1. store' \in Store /\ asked' \in MaybePoint
    BY <1>0, <1>4 DEF AskRetry, Store, MaybePoint
  <2> QED
    BY <1>0, <1>4, <2>1
       DEF AskRetry, vars, round, ConversationTypeOK, EndingDecided, ResumeHasPoint
<1>5. CASE Repoint
  <2>1. store' \in Store /\ agentRound' \in Nat
    BY <1>0, <1>5 DEF Repoint, Store, MaybePoint
  <2> QED
    BY <1>0, <1>5, <2>1
       DEF Repoint, vars, round, ConversationTypeOK, EndingDecided, ResumeHasPoint
<1>6. CASE UNCHANGED allVars
  BY <1>6 DEF allVars, vars, round, conversation, ConversationTypeOK, EndingDecided, ResumeHasPoint
<1> QED
  BY <1>1, <1>2, <1>3, <1>4, <1>5, <1>6

-----------------------------------------------------------------------------

(* A body returns as EndBody does; all its other steps are invisible. *)
LEMMA BodyStep ==
  ASSUME BodyInv, NEW r \in Rounds, Admission(r) \/ Turn(r) \/ Ending(r)
  PROVE  (\E o \in Outcomes : EndBody(r, o)) \/ UNCHANGED vars
<1> USE DEF Outcomes
<1>1. ASSUME Admission(r)
      PROVE  (\E o \in Outcomes : EndBody(r, o)) \/ UNCHANGED vars
  BY <1>1 DEF Admission, Enter, HookDenies, BumpRound, ClearStalePoint, Identify, ReadWindow,
              SaveWindow, SaveCounter, WriteFails, Return, Within
<1>2. ASSUME Turn(r)
      PROVE  (\E o \in Outcomes : EndBody(r, o)) \/ UNCHANGED vars
  BY <1>2 DEF Turn, Prepare, Delta, CallTools, Answer, AnswerSteered, GiveUp, Panic, Backoff,
              Resend, Return, Within
<1>3. ASSUME Ending(r), ~Arm(r)
      PROVE  (\E o \in Outcomes : EndBody(r, o)) \/ UNCHANGED vars
  BY <1>3 DEF Ending, Unsend, Restore, Unpark, CheckSession, Commit, RetirePoint, MirrorCounter,
              WriteFails, Return, Within
<1>4. ASSUME Arm(r)
      PROVE  (\E o \in Outcomes : EndBody(r, o)) \/ UNCHANGED vars
  BY <1>4 DEF Arm, Return, At, BodyInv, EndingDecided
<1> QED
  BY <1>1, <1>2, <1>3, <1>4

(* Every step of the session is a step of the lifecycle, or none. *)
LEMMA StepSimulation ==
  ASSUME BodyInv, [RoundsNext]_allVars
  PROVE  [Next]_vars
<1>1. ASSUME NEW r \in Rounds, Admission(r) \/ Turn(r) \/ Ending(r) PROVE [Next]_vars
  BY <1>1, BodyStep DEF Next, RoundStep
<1>2. ASSUME NEW r \in Rounds, Begin(r) PROVE [Next]_vars
  BY <1>2 DEF Begin, Next, RoundStep, Prologue
<1>3. ASSUME NEW kind \in Requests, Stop(kind) PROVE [Next]_vars
  BY <1>3 DEF Stop, Next
<1>4. CASE LifecycleStep
  BY <1>4 DEF LifecycleStep, Next, RoundStep, Prologue, DriverStep
<1>5. CASE AskRetry \/ Repoint \/ UNCHANGED allVars
  BY <1>5 DEF AskRetry, Repoint, allVars
<1> QED
  BY <1>1, <1>2, <1>3, <1>4, <1>5 DEF RoundsNext

LEMMA BodyInvStep ==
  ASSUME BodyInv, [RoundsNext]_allVars
  PROVE  BodyInv'
<1>1. TypeOK'
  BY StepSimulation, TypeStep DEF BodyInv
<1>2. ASSUME NEW r \in Rounds, Admission(r) \/ Turn(r) \/ Ending(r) PROVE BodyInv'
  BY <1>1, <1>2, AdmissionTypes, TurnTypes, EndingTypes DEF BodyInv
<1>3. ASSUME \/ \E r \in Rounds : Begin(r)
             \/ \E kind \in Requests : Stop(kind)
             \/ LifecycleStep \/ AskRetry \/ Repoint \/ UNCHANGED allVars
      PROVE  BodyInv'
  BY <1>1, <1>3, SessionTypes DEF BodyInv
<1> QED  BY <1>2, <1>3 DEF RoundsNext

LEMMA InitBodyInv == RoundsInit => BodyInv
<1> SUFFICES ASSUME RoundsInit PROVE BodyInv
  OBVIOUS
<1>1. TypeOK
  BY RoundsAssumption, RequestsAssumption DEF RoundsInit, Init, TypeOK, Idle, Ops, Phases
<1>2. ConversationTypeOK
  BY DEF RoundsInit, ConversationTypeOK, Store, Body, Steps, MaybePoint
<1>3. EndingDecided /\ ResumeHasPoint
  BY RetriesAssumption DEF RoundsInit, Init, EndingDecided, ResumeHasPoint
<1> QED  BY <1>1, <1>2, <1>3 DEF BodyInv

LEMMA BodyInvariant == RoundsSpec => []BodyInv
<1>1. BodyInv /\ [RoundsNext]_allVars => BodyInv'
  BY BodyInvStep
<1> QED
  BY <1>1, InitBodyInv, PTL DEF RoundsSpec

(* The conversation is always well formed: whatever a round is stopped by,    *)
(* its ending is decided before it is used, and a resume has its point.       *)
THEOREM ConversationTypeCorrect == RoundsSpec => []ConversationTypeOK
<1>1. BodyInv => ConversationTypeOK
  BY DEF BodyInv
<1> QED
  BY <1>1, BodyInvariant, PTL

(* The chat rounds with their conversation implement the lifecycle. *)
THEOREM RoundsImplementLifecycle == RoundsSpec => RefinesLifecycle
<1>1. RoundsInit => Init
  BY DEF RoundsInit
<1>2. BodyInv /\ [RoundsNext]_allVars => [Next]_vars
  BY StepSimulation
<1> QED
  BY <1>1, <1>2, BodyInvariant, PTL DEF RoundsSpec, RefinesLifecycle, Lifecycle

(* So at most one chat round works at a time, whatever the rounds say, are    *)
(* steered by, retry or resume.                                               *)
THEOREM OneActiveChatRound == RoundsSpec => []AtMostOneLive
<1>1. SerialInv => AtMostOneLive
  BY DEF SerialInv, AtMostOneLive, LiveRoundReachable, Beginning
<1> QED
  BY <1>1, ChatOnly, SerialInvariant, RoundsImplementLifecycle, PTL DEF RefinesLifecycle

-----------------------------------------------------------------------------
(* The invariant of the conversation.                                         *)

(* Round r has begun and its task has not ended. *)
Working(r) == pc[r] \notin {"waiting", "ended"}

(* The steps before the window is read, and those with the history in hand. *)
Early  == {"enter", "bump", "clear", "identify", "window"}
InHand == Steps \ (Early \cup {"done"})

(* Where the body can stand in each phase of the lifecycle. *)
BodyPhase ==
    \A r \in Rounds :
        /\ pc[r] \in {"waiting", "reserved", "installed", "settled", "spawned"} => body[r].at = "enter"
        /\ pc[r] = "running" => body[r].at # "done"
        /\ pc[r] \in {"closing", "taken", "idling", "ended"} => body[r].at = "done"

(* Rounds follow one another; a switch, and a /retry that has read its point, *)
(* have the session to themselves.                                            *)
OneAtWork == \A r, q \in Rounds : Working(r) /\ Working(q) => r = q

SwitchAlone ==
    switching # "none" => driver.op \notin {"ready", "begin"} /\ \A r \in Rounds : ~Working(r)

AskedAlone ==
    asked # NoPoint =>
        asked = store.retry /\ driver.op = "ready" /\ \A r \in Rounds : ~Working(r)

Homes == store.root <= store.id /\ \A r \in Rounds : body[r].home <= store.id

(* The rounds whose exchange is complete, and those no log may mention: they  *)
(* have not begun to write, or were unsent whole.                             *)
Complete == {r \in Lineage : Completed(r)}
Absent   == {r \in Rounds : body[r].at = "enter" \/ (~Steering /\ Unsent(r))}

(* A log the store may take: of this lineage, with all that is complete. *)
Faithful(log) ==
    /\ \A i \in 1..Len(log) : log[i].round \in Lineage \ Absent
    /\ \A c \in Complete : Kept(c, log)

Answered(r, log) == log # <<>> /\ log[Len(log)] = Say(r, "answer")

(* Of the store s and the agent's counter n, at all times: a retry point lies *)
(* behind every complete exchange, in number and in length,                   *)
StoreGood(s, n) ==
    /\ Faithful(s.window)
    /\ \A c \in Complete : body[c].number <= s.counter /\ body[c].number <= n
    /\ s.retry # NoPoint =>
          /\ s.retry.round = s.counter
          /\ \A c \in Complete : body[c].number < s.retry.round
                                 /\ Len(body[c].history) <= s.retry.mark

(* and while no body is in hand. *)
RestGood(s, n) ==
    s.retry # NoPoint => s.retry.round = n /\ (WritesFail \/ s.retry.mark <= Len(s.window))

(* Of the locals b of round r alone. *)
Local(r, b) ==
    /\ b.at \in Early \cup {"save", "count"} => ~b.tools /\ b.ending = "none"
    /\ b.at \in {"turn", "request", "backoff"} => b.ending = "none"
    /\ b.at \in {"restore", "unpark"} => b.ending = "interrupted"
    /\ b.at = "mirror" => b.ending = "ok"
    /\ b.at = "arm" => b.ending # "ok"
    /\ b.ending = "ok" => Answered(r, b.history)

(* Unless it is steered, the prompt is all a round has written before its     *)
(* first tool call: it is what an unsend takes back.                          *)
PromptLast(r, b) ==
    ~Steering /\ ~b.tools /\ b.ending # "ok"
        /\ b.at \in {"save", "count", "turn", "request", "backoff", "unwind"} =>
        \A i \in 1..Len(b.history) : b.history[i].round = r => i = Len(b.history)

(* The number of the round in hand is above every complete one, and the       *)
(* number to go back to is not below one.                                     *)
Numbered(r, b, s, n) ==
    /\ \A c \in Complete : body[c].number <= b.before
    /\ n = IF r \in Retries \/ b.at \in {"bump", "unpark"} THEN b.before ELSE b.before + 1
    /\ b.at \in InHand \cup {"window"} =>
          /\ b.home = s.id /\ \A c \in Complete : body[c].number < b.number
          /\ b.at # "unpark" => b.number = n
    /\ b.at \in {"turn", "request", "backoff", "unwind", "commit", "retire", "arm"} => s.counter = b.number

(* Its history may be written to the store, and at the save points has been. *)
Logged(r, b, s) ==
    /\ b.at \in InHand => Faithful(b.history)
    /\ b.at \in Early \/ (~Steering /\ b.at \in {"restore", "unpark"}) => Traceless(r, s.window)
    /\ b.at \in {"count", "turn", "request", "backoff", "retire", "mirror"} => s.window = b.history

(* A resume still has in the store the point it started from, a prompt has    *)
(* removed it.                                                                *)
Pointed(r, b, s, n) ==
    /\ r \in Retries =>
        /\ b.at \notin {"bump", "clear"}
        /\ b.at \notin {"arm", "mirror"} =>
              s.retry = b.point /\ b.point \in RetryPoint /\ b.point.round = b.before
        /\ b.at \in InHand \ {"restore", "unpark", "arm", "mirror"} =>
              WritesFail \/ b.point.mark <= Len(b.history)
        /\ b.at \in {"identify", "window"} => WritesFail \/ b.point.mark <= Len(s.window)
    /\ (r \notin Retries /\ b.at \notin {"bump", "clear"}) \/ b.at \in {"arm", "mirror"} =>
          s.retry = NoPoint
    /\ b.at = "bump" => RestGood(s, n)

HandGood(r, b, s, n) ==
    Numbered(r, b, s, n) /\ Logged(r, b, s) /\ Pointed(r, b, s, n) /\ PromptLast(r, b)

ChatInv ==
    /\ BodyInv /\ BodyPhase /\ OneAtWork /\ SwitchAlone /\ AskedAlone /\ Homes
    /\ \A r \in Rounds : Local(r, body[r])
    /\ \A c, d \in Complete : body[c].number = body[d].number => c = d
    /\ StoreGood(store, agentRound)
    /\ (\A r \in Rounds : body[r].at \in {"enter", "done"}) => RestGood(store, agentRound)
    /\ \A r \in Rounds : body[r].at \notin {"enter", "done"} => HandGood(r, body[r], store, agentRound)
    /\ \A r \in Retries : Working(r) /\ body[r].at = "enter" => body[r].point = store.retry

-----------------------------------------------------------------------------
(* What every step of a round's body starts from. *)
LEMMA Hand ==
  ASSUME ChatInv, NEW r \in Rounds, pc[r] = "running"
  PROVE  /\ body \in [Rounds -> Body] /\ body[r] \in Body /\ store \in Store /\ agentRound \in Nat
         /\ StoreGood(store, agentRound) /\ Local(r, body[r])
         /\ \A q \in Rounds \ {r} : ~Working(q) /\ body[q].at \in {"enter", "done"}
         /\ body[r].at = "enter" => RestGood(store, agentRound)
         /\ body[r].at # "enter" => HandGood(r, body[r], store, agentRound)
<1>1. /\ body \in [Rounds -> Body] /\ body[r] \in Body /\ store \in Store /\ agentRound \in Nat
      /\ pc \in [Rounds -> Phases]
  BY DEF ChatInv, BodyInv, ConversationTypeOK, TypeOK
<1>2. \A q \in Rounds \ {r} : ~Working(q)
  BY DEF ChatInv, OneAtWork, Working
<1>3. \A q \in Rounds \ {r} : body[q].at \in {"enter", "done"}
  BY <1>1, <1>2 DEF ChatInv, BodyPhase, Working, Phases
<1>4. body[r].at # "done"
  BY DEF ChatInv, BodyPhase
<1> QED  BY <1>1, <1>2, <1>3, <1>4 DEF ChatInv

(* A step of round r that makes no round completed or unsent. *)
SameOthers(r) ==
    /\ \A q \in Rounds \ {r} : body'[q] = body[q] /\ result'[q] = result[q]
    /\ store'.id = store.id /\ store'.root = store.root
    /\ body'[r].home = body[r].home \/ body'[r].home = store.id

LEMMA SameComplete ==
  ASSUME ChatInv, NEW r \in Rounds, pc[r] = "running", SameOthers(r), ~Completed(r)'
  PROVE  /\ Lineage \subseteq Lineage' /\ Complete' = Complete
         /\ \A c \in Complete : body'[c] = body[c]
<1>0. /\ store \in Store /\ store.id \in Nat /\ store.root \in Nat /\ store.root <= store.id
      /\ body[r].at # "done"
  BY DEF ChatInv, BodyInv, ConversationTypeOK, Homes, Store, BodyPhase
<1>1. ~Completed(r)
  BY <1>0 DEF Completed
<1>2. \A q \in Rounds \ {r} : (q \in Lineage' <=> q \in Lineage) /\ (Completed(q)' <=> Completed(q))
  BY DEF SameOthers, Lineage, Completed
<1>3. r \in Lineage => r \in Lineage'
  BY <1>0 DEF SameOthers, Lineage
<1> QED  BY <1>1, <1>2, <1>3 DEF Complete, Lineage, SameOthers

LEMMA StillFaithful ==
  ASSUME Lineage \subseteq Lineage', Complete' = Complete, Absent' \subseteq Absent,
         \A c \in Complete : body'[c] = body[c],
         NEW log, Faithful(log)
  PROVE  Faithful(log)'
BY DEF Faithful, Kept

LEMMA StillGood ==
  ASSUME Lineage \subseteq Lineage', Complete' = Complete, Absent' \subseteq Absent,
         \A c \in Complete : body'[c] = body[c],
         NEW s, NEW n
  PROVE  /\ StoreGood(s, n) => StoreGood(s, n)'
         /\ \A r \in Rounds, b \in Body : HandGood(r, b, s, n) => HandGood(r, b, s, n)'
<1>1. ASSUME StoreGood(s, n) PROVE StoreGood(s, n)'
  <2>1. Faithful(s.window)'
    BY <1>1, StillFaithful DEF StoreGood
  <2> QED  BY <1>1, <2>1 DEF StoreGood
<1>2. ASSUME NEW r \in Rounds, NEW b \in Body, HandGood(r, b, s, n) PROVE HandGood(r, b, s, n)'
  <2>1. Numbered(r, b, s, n)'
    BY <1>2 DEF HandGood, Numbered
  <2>2. Logged(r, b, s)'
    <3>1. b.at \in InHand => Faithful(b.history)'
      BY <1>2, StillFaithful DEF HandGood, Logged
    <3> QED  BY <1>2, <3>1 DEF HandGood, Logged, Traceless
  <2>3. Pointed(r, b, s, n)' /\ PromptLast(r, b)'
    BY <1>2 DEF HandGood, Pointed, PromptLast, RestGood
  <2> QED  BY <2>1, <2>2, <2>3 DEF HandGood
<1> QED  BY <1>1, <1>2

(* A step inside the body. *)
LEMMA RoundMoves ==
  ASSUME ChatInv, BodyInv', NEW r \in Rounds, pc[r] = "running", NEW b \in Body,
         body' = [body EXCEPT ![r] = b], b.at \notin {"enter", "done"}, Within(r),
         NEW s \in Store, store' = s, s.id = store.id, s.root = store.root,
         NEW n \in Nat, agentRound' = n,
         b.home = body[r].home \/ b.home = store.id,
         Local(r, b), StoreGood(s, n), HandGood(r, b, s, n)
  PROVE  ChatInv'
<1>0. /\ body \in [Rounds -> Body] /\ store \in Store /\ pc' = pc /\ result' = result
      /\ driver' = driver /\ asked' = asked /\ switching' = switching
      /\ body'[r] = b /\ \A q \in Rounds \ {r} : body'[q] = body[q]
  BY DEF ChatInv, BodyInv, ConversationTypeOK, Within, vars, round, session
<1>1. \A q \in Rounds \ {r} : ~Working(q) /\ body[q].at \in {"enter", "done"}
  BY Hand
<1>2. SameOthers(r) /\ ~Completed(r)' /\ ~Unsent(r)'
  BY <1>0 DEF SameOthers, Completed, Unsent
<1>3. /\ Lineage \subseteq Lineage' /\ Complete' = Complete
      /\ \A c \in Complete : body'[c] = body[c]
  BY <1>2, SameComplete
<1>4. Absent' \subseteq Absent
  BY <1>0, <1>2 DEF Absent, Unsent
<1>5. StoreGood(store, agentRound)' /\ HandGood(r, body[r], store, agentRound)'
  <2>1. StoreGood(s, n)' /\ HandGood(r, b, s, n)'
    BY <1>3, <1>4, StillGood
  <2> QED  BY <1>0, <2>1 DEF StoreGood, HandGood, Numbered, Logged, Pointed, PromptLast, RestGood, Faithful
<1>6. BodyPhase' /\ OneAtWork' /\ SwitchAlone' /\ AskedAlone'
  BY <1>0 DEF ChatInv, BodyPhase, OneAtWork, SwitchAlone, AskedAlone, Working, Within
<1>7. Homes'
  BY <1>0 DEF ChatInv, Homes, Store
<1>8. \A q \in Rounds : Local(q, body[q])'
  BY <1>0 DEF ChatInv, Local, Answered
<1>9. \A c, d \in Complete' : body'[c].number = body'[d].number => c = d
  BY <1>3 DEF ChatInv
<1>10. \A q \in Retries : Working(q)' /\ body'[q].at = "enter" => body'[q].point = store'.retry
  BY <1>0, <1>1, RetriesAssumption DEF Working
<1> QED  BY <1>0, <1>1, <1>5, <1>6, <1>7, <1>8, <1>9, <1>10 DEF ChatInv

(* The end of the body, unless it completes the round. *)
LEMMA RoundEnds ==
  ASSUME ChatInv, BodyInv', NEW r \in Rounds, pc[r] = "running", NEW o, Return(r, o),
         NEW s \in Store, store' = s, s.id = store.id, s.root = store.root,
         NEW n \in Nat, agentRound' = n,
         body[r].ending = "ok" => o # "ok",
         body[r].ending = "interrupted" /\ o = "ok" => Steering \/ Traceless(r, s.window),
         StoreGood(s, n), RestGood(s, n)
  PROVE  ChatInv'
<1> DEFINE b == [body[r] EXCEPT !.at = "done", !.before = 0, !.streamed = FALSE,
                                !.attempt = 1, !.point = NoPoint]
<1>a. body \in [Rounds -> Body] /\ body[r] \in Body /\ store \in Store /\ pc \in [Rounds -> Phases]
      /\ result \in [Rounds -> Outcomes \cup {"none"}]
  BY DEF ChatInv, BodyInv, ConversationTypeOK, TypeOK
<1>b. b \in Body /\ b.at = "done" /\ b.ending = body[r].ending /\ b.home = body[r].home
      /\ b.history = body[r].history /\ b.tools = body[r].tools
  BY <1>a DEF Body, Steps, MaybePoint
<1>c. body' = [body EXCEPT ![r] = b]
  BY <1>a DEF Return
<1> HIDE DEF b
<1>0. /\ body'[r] = b /\ \A q \in Rounds \ {r} : body'[q] = body[q]
      /\ pc'[r] = "closing" /\ \A q \in Rounds \ {r} : pc'[q] = pc[q]
      /\ result'[r] = o /\ \A q \in Rounds \ {r} : result'[q] = result[q]
      /\ driver' = driver /\ asked' = asked /\ switching' = switching
  BY <1>a, <1>c DEF Return, EndBody, Goto, session
<1>1. \A q \in Rounds \ {r} : ~Working(q) /\ body[q].at \in {"enter", "done"}
  BY Hand
<1>2. SameOthers(r) /\ ~Completed(r)'
  BY <1>b, <1>0 DEF SameOthers, Completed
<1>3. /\ Lineage \subseteq Lineage' /\ Complete' = Complete
      /\ \A c \in Complete : body'[c] = body[c]
  BY <1>2, SameComplete
<1>4. Absent' \subseteq Absent \cup {r} /\ (r \in Absent' => Traceless(r, s.window))
  BY <1>b, <1>0 DEF Absent, Unsent
<1>5. StoreGood(store, agentRound)'
  <2>1. /\ \A i \in 1..Len(s.window) : s.window[i].round \in Lineage \ Absent
        /\ \A c \in Complete : Kept(c, s.window)
    BY DEF StoreGood, Faithful
  <2>2. \A i \in 1..Len(s.window) : s.window[i].round \in Lineage' \ Absent'
    BY <1>3, <1>4, <2>1 DEF Traceless
  <2>3. \A c \in Complete : Kept(c, s.window)'
    BY <1>3, <2>1 DEF Kept
  <2>4. Faithful(s.window)'
    BY <1>3, <2>2, <2>3 DEF Faithful
  <2>5. StoreGood(s, n)'
    BY <1>3, <2>4 DEF StoreGood
  <2> QED  BY <2>5 DEF StoreGood, Faithful
<1>6. RestGood(store, agentRound)'
  BY DEF RestGood
<1>7. BodyPhase' /\ OneAtWork' /\ SwitchAlone' /\ AskedAlone'
  BY <1>0, <1>1, <1>b DEF ChatInv, BodyPhase, OneAtWork, SwitchAlone, AskedAlone, Working
<1>8. Homes'
  BY <1>0, <1>b DEF ChatInv, Homes, Store
<1>9. \A q \in Rounds : Local(q, body[q])'
  BY <1>0, <1>b DEF ChatInv, Local, Answered, Early
<1>10. \A c, d \in Complete' : body'[c].number = body'[d].number => c = d
  BY <1>3 DEF ChatInv
<1>11. \A q \in Retries : Working(q)' /\ body'[q].at = "enter" => body'[q].point = store'.retry
  BY <1>0, <1>1, <1>b, RetriesAssumption DEF Working
<1>12. \A q \in Rounds : body'[q].at \in {"enter", "done"}
  BY <1>0, <1>1, <1>b
<1> QED  BY <1>5, <1>6, <1>7, <1>8, <1>9, <1>10, <1>11, <1>12 DEF ChatInv

(* The round is completed: its number is the highest, and its history is the  *)
(* window.                                                                    *)
LEMMA MirrorStep ==
  ASSUME ChatInv, BodyInv', NEW r \in Rounds, MirrorCounter(r)
  PROVE  ChatInv'
<1> DEFINE b == [body[r] EXCEPT !.at = "done", !.before = 0, !.streamed = FALSE,
                                !.attempt = 1, !.point = NoPoint]
<1>a. /\ body \in [Rounds -> Body] /\ body[r] \in Body /\ store \in Store /\ pc \in [Rounds -> Phases]
      /\ result \in [Rounds -> Outcomes \cup {"none"}] /\ agentRound \in Nat
      /\ pc[r] = "running" /\ body[r].at = "mirror" /\ agentRound' = agentRound
      /\ store' = [store EXCEPT !.counter = agentRound] /\ Return(r, "ok")
  BY DEF ChatInv, BodyInv, ConversationTypeOK, TypeOK, MirrorCounter, At
<1>b. /\ b \in Body /\ b.at = "done" /\ b.ending = body[r].ending /\ b.home = body[r].home
      /\ b.history = body[r].history /\ b.tools = body[r].tools /\ b.number = body[r].number
  BY <1>a DEF Body, Steps, MaybePoint
<1>c. body' = [body EXCEPT ![r] = b]
  BY <1>a DEF Return
<1>d. /\ store' \in Store /\ store'.id = store.id /\ store'.root = store.root
      /\ store'.window = store.window /\ store'.retry = store.retry /\ store'.counter = agentRound
  BY <1>a DEF Store
<1> HIDE DEF b
<1>0. /\ body'[r] = b /\ \A q \in Rounds \ {r} : body'[q] = body[q]
      /\ pc'[r] = "closing" /\ \A q \in Rounds \ {r} : pc'[q] = pc[q]
      /\ result'[r] = "ok" /\ \A q \in Rounds \ {r} : result'[q] = result[q]
      /\ driver' = driver /\ asked' = asked /\ switching' = switching
  BY <1>a, <1>c DEF Return, EndBody, Goto, session
<1>1. /\ \A q \in Rounds \ {r} : ~Working(q) /\ body[q].at \in {"enter", "done"}
      /\ HandGood(r, body[r], store, agentRound) /\ Local(r, body[r])
      /\ StoreGood(store, agentRound)
  BY <1>a, Hand
<1>2. /\ b.ending = "ok" /\ b.home = store.id /\ b.number = agentRound /\ store.retry = NoPoint
      /\ b.history = store.window /\ \A c \in Complete : body[c].number < b.number
  BY <1>a, <1>b, <1>1 DEF HandGood, Numbered, Logged, Pointed, Local, InHand, Steps, Early
<1>3. Lineage' = Lineage /\ r \in Lineage
  <2>1. body[r].home \in store.root..store.id
    BY <1>a, <1>b, <1>2 DEF ChatInv, Homes, Store
  <2> QED  BY <1>0, <1>b, <1>d, <2>1 DEF Lineage
<1>4. Complete' = Complete \cup {r} /\ r \notin Complete
  <2>1. \A q \in Rounds \ {r} : Completed(q)' <=> Completed(q)
    BY <1>0 DEF Completed
  <2>2. Completed(r)' /\ ~Completed(r)
    BY <1>0, <1>a, <1>b, <1>2 DEF Completed
  <2> QED  BY <1>3, <2>1, <2>2 DEF Complete, Lineage
<1>e. /\ Complete \subseteq Rounds \ {r} /\ \A c \in Complete : body'[c] = body[c]
      /\ \A c \in Complete : body[c].number \in Nat
  <2>1. Complete \subseteq Rounds \ {r}
    BY <1>4 DEF Complete, Lineage
  <2> QED  BY <1>0, <1>a, <2>1 DEF Body
<1>5. Absent' \subseteq Absent
  BY <1>0, <1>b, <1>2 DEF Absent, Unsent
<1>6. StoreGood(store, agentRound)'
  <2>1. /\ \A i \in 1..Len(store.window) : store.window[i].round \in Lineage \ Absent
        /\ \A c \in Complete : Kept(c, store.window)
    BY <1>1 DEF StoreGood, Faithful
  <2>2. \A c \in Complete : Kept(c, store.window)'
    BY <1>e, <1>d, <2>1 DEF Kept
  <2>3. Kept(r, store.window)'
    BY <1>0, <1>a, <1>b, <1>d, <1>2 DEF Kept, Store
  <2>4. Faithful(store.window)'
    BY <1>d, <1>3, <1>4, <1>5, <2>1, <2>2, <2>3 DEF Faithful
  <2>5. \A c \in Complete' : body'[c].number <= agentRound
    BY <1>0, <1>a, <1>1, <1>2, <1>4, <1>e DEF StoreGood
  <2> QED  BY <1>a, <1>d, <1>2, <2>4, <2>5 DEF StoreGood
<1>7. RestGood(store, agentRound)'
  BY <1>d, <1>2 DEF RestGood
<1>8. BodyPhase' /\ OneAtWork' /\ SwitchAlone' /\ AskedAlone'
  BY <1>0, <1>1, <1>a, <1>b DEF ChatInv, BodyPhase, OneAtWork, SwitchAlone, AskedAlone, Working
<1>9. Homes'
  BY <1>0, <1>b, <1>d DEF ChatInv, Homes, Store
<1>10. \A q \in Rounds : Local(q, body[q])'
  BY <1>0, <1>b DEF ChatInv, Local, Answered, Early
<1>11. \A c, d \in Complete' : body'[c].number = body'[d].number => c = d
  <2>1. \A c \in Complete : body'[c].number < agentRound /\ body'[c] = body[c]
    BY <1>2, <1>e
  <2>2. \A c \in Complete : body[c].number \in Nat
    BY <1>e
  <2>3. body'[r].number = agentRound
    BY <1>0, <1>2
  <2>4. \A c, d \in Complete : body[c].number = body[d].number => c = d
    BY DEF ChatInv
  <2> QED  BY <1>4, <2>1, <2>2, <2>3, <2>4
<1>12. \A q \in Retries : Working(q)' /\ body'[q].at = "enter" => body'[q].point = store'.retry
  BY <1>0, <1>1, <1>b, RetriesAssumption DEF Working
<1>13. \A q \in Rounds : body'[q].at \in {"enter", "done"}
  BY <1>0, <1>1, <1>b
<1> QED  BY <1>6, <1>7, <1>8, <1>9, <1>10, <1>11, <1>12, <1>13 DEF ChatInv

-----------------------------------------------------------------------------
(* The logs. *)

(* A message the round in hand adds; it is neither absent nor complete. *)
LEMMA FaithfulAppend ==
  ASSUME NEW log \in Seq(Message), Faithful(log), NEW r \in Lineage \ Absent, r \notin Complete,
         NEW k
  PROVE  Faithful(Append(log, Say(r, k)))
<1> DEFINE g == Append(log, Say(r, k))
<1>1. /\ Len(g) = Len(log) + 1 /\ Len(log) \in Nat
      /\ \A i \in 1..Len(g) : IF i <= Len(log) THEN g[i] = log[i] ELSE g[i].round = r
  BY DEF Say
<1> HIDE DEF g
<1>2. \A i \in 1..Len(g) : g[i].round \in Lineage \ Absent
  BY <1>1 DEF Faithful
<1>3. \A c \in Complete : Kept(c, g)
  <2> SUFFICES ASSUME NEW c \in Complete PROVE Kept(c, g)
    OBVIOUS
  <2>1. Kept(c, log) /\ c # r
    BY DEF Faithful
  <2> QED  BY <1>1, <2>1 DEF Kept
<1> QED  BY <1>2, <1>3 DEF Faithful, g

(* What a completed round committed survives a cut after it. *)
LEMMA FaithfulUpTo ==
  ASSUME ChatInv, NEW log \in Seq(Message), Faithful(log), NEW mark \in Nat,
         \A c \in Complete : Len(body[c].history) <= mark
  PROVE  /\ Faithful(UpTo(log, mark)) /\ UpTo(log, mark) \in Seq(Message)
         /\ Len(UpTo(log, mark)) = IF mark < Len(log) THEN mark ELSE Len(log)
         /\ \A i \in 1..Len(UpTo(log, mark)) : UpTo(log, mark)[i] = log[i] /\ i \in 1..Len(log)
<1> DEFINE m == IF mark < Len(log) THEN mark ELSE Len(log)
           g == UpTo(log, mark)
<1>0. m \in Nat /\ Len(log) \in Nat /\ m <= Len(log) /\ g = SubSeq(log, 1, m)
  BY DEF UpTo
<1>1. g \in Seq(Message) /\ Len(g) = m /\ \A i \in 1..m : g[i] = log[i]
  BY <1>0
<1>2. \A i \in 1..Len(g) : g[i].round \in Lineage \ Absent
  BY <1>0, <1>1 DEF Faithful
<1>3. \A c \in Complete : Kept(c, g)
  <2> HIDE DEF g
  <2> SUFFICES ASSUME NEW c \in Complete PROVE Kept(c, g)
    OBVIOUS
  <2>1. Kept(c, log) /\ Len(body[c].history) <= m
    BY <1>0 DEF Faithful, Kept
  <2> QED  BY <1>0, <1>1, <2>1 DEF Kept
<1> QED  BY <1>0, <1>1, <1>2, <1>3 DEF Faithful

(* The message an unsend takes back is from a user, and the last one a        *)
(* completed round committed is an answer.                                    *)
LEMMA FaithfulFront ==
  ASSUME ChatInv, NEW log \in Seq(Message), Faithful(log), log # <<>>, FromUser(Last(log))
  PROVE  /\ Faithful(Front(log)) /\ Front(log) \in Seq(Message)
         /\ Len(Front(log)) = Len(log) - 1
         /\ \A i \in 1..Len(Front(log)) : Front(log)[i] = log[i]
<1> DEFINE g == Front(log)
<1>0. Len(log) \in Nat /\ Len(log) > 0 /\ Last(log) = log[Len(log)]
  BY DEF Last
<1>1. g \in Seq(Message) /\ Len(g) = Len(log) - 1 /\ \A i \in 1..Len(g) : g[i] = log[i]
  <2>1. PICK m \in Nat : m = Len(log) - 1
    BY <1>0
  <2>2. g = SubSeq(log, 1, m)
    BY <2>1 DEF Front
  <2>3. SubSeq(log, 1, m) \in Seq(Message) /\ Len(SubSeq(log, 1, m)) = m
    BY <1>0, <2>1
  <2>4. \A i \in 1..m : SubSeq(log, 1, m)[i] = log[i]
    BY <1>0, <2>1
  <2> HIDE DEF g
  <2> QED  BY <2>1, <2>2, <2>3, <2>4
<1> HIDE DEF g
<1>2. \A i \in 1..Len(g) : g[i].round \in Lineage \ Absent
  BY <1>0, <1>1 DEF Faithful
<1>3. \A c \in Complete : Kept(c, g)
  <2> SUFFICES ASSUME NEW c \in Complete PROVE Kept(c, g)
    OBVIOUS
  <2> DEFINE h == body[c].history
  <2>1. Kept(c, log) /\ c \in Rounds /\ body[c] \in Body
    BY DEF Faithful, Complete, Lineage, ChatInv, BodyInv, ConversationTypeOK
  <2>2. h \in Seq(Message) /\ h # <<>> /\ h[Len(h)] = Say(c, "answer")
    BY <2>1 DEF Complete, Completed, ChatInv, Local, Answered, Body
  <2>3. Len(h) \in Nat /\ Len(h) > 0
    BY <2>2
  <2>4. Len(h) # Len(log)
    BY <1>0, <2>1, <2>2, <2>3 DEF Kept, FromUser, Say
  <2> HIDE DEF h
  <2>5. Len(h) <= Len(g)
    BY <1>0, <1>1, <2>1, <2>3, <2>4 DEF Kept, h
  <2> QED  BY <1>0, <1>1, <2>1, <2>5 DEF Kept, h
<1> QED  BY <1>1, <1>2, <1>3 DEF Faithful, g

-----------------------------------------------------------------------------
(* The steps of a body, one by one. *)

LEMMA EnterStep ==
  ASSUME ChatInv, BodyInv', NEW r \in Rounds, Enter(r)
  PROVE  ChatInv'
<1> DEFINE b == [body[r] EXCEPT !.before = agentRound,
                                !.at = IF r \in Retries THEN "identify" ELSE "bump"]
<1>0. /\ body[r] \in Body /\ store \in Store /\ agentRound \in Nat /\ pc[r] = "running"
      /\ StoreGood(store, agentRound) /\ Local(r, body[r]) /\ body[r].at = "enter"
      /\ RestGood(store, agentRound) /\ body' = [body EXCEPT ![r] = b]
      /\ Within(r) /\ store' = store /\ agentRound' = agentRound
  BY Hand DEF Enter, At
<1>1. /\ b \in Body /\ b.before = agentRound /\ b.home = body[r].home /\ b.history = body[r].history
      /\ b.tools = body[r].tools /\ b.ending = body[r].ending /\ b.point = body[r].point
      /\ b.at = IF r \in Retries THEN "identify" ELSE "bump"
  BY <1>0 DEF Body, Steps
<1> HIDE DEF b
<1>2. Local(r, b)
  BY <1>0, <1>1 DEF Local, Answered, Early
<1>3. Numbered(r, b, store, agentRound)
  BY <1>0, <1>1 DEF Numbered, StoreGood, InHand, Early
<1>4. Logged(r, b, store)
  <2>1. r \in Absent
    BY <1>0 DEF Absent
  <2> QED  BY <1>0, <1>1, <2>1 DEF Logged, StoreGood, Faithful, Traceless, InHand, Early
<1>5. Pointed(r, b, store, agentRound)
  <2>1. r \in Retries => body[r].point = store.retry /\ body[r].point \in RetryPoint
    BY <1>0 DEF ChatInv, Working, BodyInv, ResumeHasPoint
  <2> QED  BY <1>0, <1>1, <2>1, NoPointAssumption DEF Pointed, RestGood, InHand, Early, RetryPoint
<1>6. PromptLast(r, b)
  BY <1>1 DEF PromptLast
<1> QED  BY <1>0, <1>1, <1>2, <1>3, <1>4, <1>5, <1>6, RoundMoves DEF HandGood

LEMMA OpenStep ==
  ASSUME ChatInv, BodyInv', NEW r \in Rounds,
         HookDenies(r) \/ BumpRound(r) \/ ClearStalePoint(r) \/ Identify(r)
  PROVE  ChatInv'
<1>0. /\ body[r] \in Body /\ store \in Store /\ agentRound \in Nat /\ pc[r] = "running"
      /\ StoreGood(store, agentRound) /\ Local(r, body[r]) /\ body[r].at # "enter"
      /\ HandGood(r, body[r], store, agentRound)
  BY Hand DEF HookDenies, BumpRound, ClearStalePoint, Identify, At
<1>1. CASE HookDenies(r)
  <2>1. /\ Return(r, "ok") /\ store' = store /\ agentRound' = agentRound
        /\ RestGood(store, agentRound) /\ body[r].ending = "none"
    BY <1>0, <1>1 DEF HookDenies, At, HandGood, Pointed, Local, Early
  <2> QED  BY <1>0, <2>1, RoundEnds
<1>2. CASE BumpRound(r)
  <2> DEFINE b == [body[r] EXCEPT !.at = "clear"]
             n == agentRound + 1
  <2>1. /\ body[r].at = "bump" /\ body' = [body EXCEPT ![r] = b] /\ Within(r)
        /\ store' = store /\ agentRound' = n /\ n \in Nat
    BY <1>0, <1>2 DEF BumpRound, At, Step
  <2>2. /\ b \in Body /\ b.before = body[r].before /\ b.home = body[r].home
        /\ b.history = body[r].history /\ b.tools = body[r].tools /\ b.ending = body[r].ending
        /\ b.point = body[r].point /\ b.at = "clear"
    BY <1>0 DEF Body, Steps
  <2> HIDE DEF b
  <2>3. Local(r, b) /\ PromptLast(r, b)
    BY <1>0, <2>1, <2>2 DEF Local, PromptLast, Answered, Early
  <2>4. Numbered(r, b, store, n)
    BY <1>0, <2>1, <2>2 DEF HandGood, Numbered, Pointed, InHand, Early
  <2>5. Logged(r, b, store)
    BY <1>0, <2>1, <2>2 DEF HandGood, Logged, InHand, Early
  <2>6. Pointed(r, b, store, n)
    BY <1>0, <2>1, <2>2 DEF HandGood, Pointed
  <2>7. StoreGood(store, n)
    <3>1. \A c \in Complete : body[c].number \in Nat
      BY DEF Complete, Lineage, ChatInv, BodyInv, ConversationTypeOK, Body
    <3> QED  BY <1>0, <3>1 DEF StoreGood
  <2> HIDE DEF n
  <2> QED  BY <1>0, <2>1, <2>2, <2>3, <2>4, <2>5, <2>6, <2>7, RoundMoves DEF HandGood
<1>3. CASE ClearStalePoint(r)
  <2> DEFINE b == [body[r] EXCEPT !.at = "identify"]
             s == [store EXCEPT !.retry = NoPoint]
  <2>1. /\ body[r].at = "clear" /\ body' = [body EXCEPT ![r] = b] /\ Within(r)
        /\ store' = s /\ agentRound' = agentRound
    BY <1>3 DEF ClearStalePoint, At, Step
  <2>2. /\ b \in Body /\ b.before = body[r].before /\ b.home = body[r].home
        /\ b.history = body[r].history /\ b.tools = body[r].tools /\ b.ending = body[r].ending
        /\ b.point = body[r].point /\ b.at = "identify"
    BY <1>0 DEF Body, Steps
  <2>3. /\ s \in Store /\ s.id = store.id /\ s.root = store.root /\ s.window = store.window
        /\ s.counter = store.counter /\ s.retry = NoPoint
    BY <1>0 DEF Store, MaybePoint
  <2> HIDE DEF b, s
  <2>4. Local(r, b) /\ PromptLast(r, b)
    BY <1>0, <2>1, <2>2 DEF Local, PromptLast, Answered, Early
  <2>5. Numbered(r, b, s, agentRound)
    BY <1>0, <2>1, <2>2 DEF HandGood, Numbered, InHand, Early
  <2>6. Logged(r, b, s)
    BY <1>0, <2>1, <2>2, <2>3 DEF HandGood, Logged, InHand, Early
  <2>7. Pointed(r, b, s, agentRound)
    BY <1>0, <2>1, <2>2, <2>3 DEF HandGood, Pointed
  <2>8. StoreGood(s, agentRound)
    BY <1>0, <2>3 DEF StoreGood
  <2> QED  BY <1>0, <2>1, <2>2, <2>3, <2>4, <2>5, <2>6, <2>7, <2>8, RoundMoves DEF HandGood
<1>4. CASE Identify(r)
  <2> DEFINE number == IF r \in Retries THEN body[r].point.round ELSE agentRound
             b == [body[r] EXCEPT !.at = "window", !.home = store.id, !.number = number]
  <2>1. /\ body[r].at = "identify" /\ body' = [body EXCEPT ![r] = b] /\ Within(r)
        /\ store' = store /\ agentRound' = agentRound
    BY <1>4 DEF Identify, At
  <2>2. /\ number = agentRound /\ \A c \in Complete : body[c].number < number
    <3>1. CASE r \in Retries
      <4>1. /\ store.retry = body[r].point /\ body[r].point \in RetryPoint
            /\ body[r].point.round = agentRound
        BY <1>0, <2>1, <3>1 DEF HandGood, Pointed, Numbered
      <4> QED  BY <1>0, <3>1, <4>1, NoPointAssumption DEF StoreGood, RetryPoint
    <3>2. CASE r \notin Retries
      <4>1. \A c \in Complete : body[c].number \in Nat
        BY DEF Complete, Lineage, ChatInv, BodyInv, ConversationTypeOK, Body
      <4>2. agentRound = body[r].before + 1 /\ body[r].before \in Nat
        BY <1>0, <2>1, <3>2 DEF HandGood, Numbered, Body
      <4>3. \A c \in Complete : body[c].number <= body[r].before
        BY <1>0 DEF HandGood, Numbered
      <4> QED  BY <3>2, <4>1, <4>2, <4>3
    <3> QED  BY <3>1, <3>2
  <2> HIDE DEF number
  <2>3. /\ b \in Body /\ b.before = body[r].before /\ b.home = store.id /\ b.number = number
        /\ b.history = body[r].history /\ b.tools = body[r].tools /\ b.ending = body[r].ending
        /\ b.point = body[r].point /\ b.at = "window"
    BY <1>0, <2>2 DEF Body, Steps, Store
  <2> HIDE DEF b
  <2>4. Local(r, b) /\ PromptLast(r, b)
    BY <1>0, <2>1, <2>3 DEF Local, PromptLast, Answered, Early
  <2>5. Numbered(r, b, store, agentRound)
    BY <1>0, <2>1, <2>2, <2>3 DEF HandGood, Numbered
  <2>6. Logged(r, b, store)
    BY <1>0, <2>1, <2>3 DEF HandGood, Logged, InHand, Early
  <2>7. Pointed(r, b, store, agentRound)
    BY <1>0, <2>1, <2>3 DEF HandGood, Pointed, InHand, Early
  <2> QED  BY <1>0, <2>1, <2>3, <2>4, <2>5, <2>6, <2>7, RoundMoves DEF HandGood
<1> QED  BY <1>1, <1>2, <1>3, <1>4

(* A round in hand belongs to the session and may write to it. *)
LEMMA InLineage ==
  ASSUME ChatInv, NEW r \in Rounds, pc[r] = "running",
         body[r].at \in InHand \cup {"window"}
  PROVE  r \in Lineage \ Absent /\ r \notin Complete
<1>1. body[r].home = store.id /\ store \in Store /\ store.root <= store.id /\ body[r].at # "done"
  BY Hand DEF ChatInv, Homes, HandGood, Numbered, InHand, Early, BodyPhase
<1>2. r \in Lineage
  BY <1>1 DEF Lineage, Store
<1>3. r \notin Absent /\ r \notin Complete
  BY <1>1 DEF Absent, Unsent, Complete, Completed, InHand, Early
<1> QED  BY <1>2, <1>3

LEMMA ReadWindowStep ==
  ASSUME ChatInv, BodyInv', NEW r \in Rounds, ReadWindow(r)
  PROVE  ChatInv'
<1> DEFINE h == IF r \in Retries THEN UpTo(store.window, body[r].point.mark)
                                 ELSE Append(store.window, Say(r, "prompt"))
           b == [body[r] EXCEPT !.at = "save", !.history = h]
<1>0. /\ body[r] \in Body /\ store \in Store /\ agentRound \in Nat /\ pc[r] = "running"
      /\ StoreGood(store, agentRound) /\ Local(r, body[r])
      /\ HandGood(r, body[r], store, agentRound) /\ body[r].at = "window"
      /\ body' = [body EXCEPT ![r] = b] /\ Within(r) /\ store' = store /\ agentRound' = agentRound
  BY Hand DEF ReadWindow, At
<1>1. /\ h \in Seq(Message) /\ Faithful(h)
      /\ \A i \in 1..Len(h) : h[i].round = r => i = Len(h)
      /\ r \in Retries => WritesFail \/ body[r].point.mark <= Len(h)
  <2>1. store.window \in Seq(Message) /\ Faithful(store.window) /\ Traceless(r, store.window)
    BY <1>0 DEF Store, StoreGood, HandGood, Logged, Early
  <2>2. CASE r \in Retries
    <3>1. /\ body[r].point = store.retry /\ store.retry \in RetryPoint /\ store.retry # NoPoint
          /\ WritesFail \/ body[r].point.mark <= Len(store.window)
      BY <1>0, <2>2, NoPointAssumption DEF HandGood, Pointed, RetryPoint
    <3>2. /\ body[r].point.mark \in Nat
          /\ \A c \in Complete : Len(body[c].history) <= body[r].point.mark
      BY <1>0, <3>1 DEF StoreGood, RetryPoint
    <3> DEFINE g == UpTo(store.window, body[r].point.mark)
               m == body[r].point.mark
    <3>3. /\ Faithful(g) /\ g \in Seq(Message)
          /\ Len(g) = IF m < Len(store.window) THEN m ELSE Len(store.window)
          /\ \A i \in 1..Len(g) : g[i] = store.window[i] /\ i \in 1..Len(store.window)
      BY <2>1, <3>2, FaithfulUpTo
    <3>4. h = g /\ Len(store.window) \in Nat
      BY <2>1, <2>2
    <3> HIDE DEF g, h
    <3> QED  BY <2>1, <3>1, <3>2, <3>3, <3>4 DEF Traceless
  <2>3. CASE r \notin Retries
    <3> DEFINE g == Append(store.window, Say(r, "prompt"))
    <3>1. Faithful(g)
      BY <1>0, <2>1, InLineage, FaithfulAppend
    <3>2. g \in Seq(Message)
      BY <2>1, Histories DEF Kinds
    <3>3. /\ Len(g) = Len(store.window) + 1 /\ Len(store.window) \in Nat
          /\ \A i \in 1..Len(store.window) : g[i] = store.window[i]
      BY <2>1
    <3>4. h = g
      BY <2>3
    <3> HIDE DEF g, h
    <3> QED  BY <2>1, <2>3, <3>1, <3>2, <3>3, <3>4 DEF Traceless
  <2> QED  BY <2>2, <2>3
<1> HIDE DEF h
<1>2. /\ b \in Body /\ b.before = body[r].before /\ b.home = body[r].home /\ b.number = body[r].number
      /\ b.history = h /\ b.tools = body[r].tools /\ b.ending = body[r].ending
      /\ b.point = body[r].point /\ b.at = "save"
  BY <1>0, <1>1 DEF Body, Steps
<1> HIDE DEF b
<1>3. Local(r, b) /\ PromptLast(r, b)
  BY <1>0, <1>1, <1>2 DEF Local, PromptLast, Answered, Early
<1>4. Numbered(r, b, store, agentRound)
  BY <1>0, <1>2 DEF HandGood, Numbered
<1>5. Logged(r, b, store)
  BY <1>1, <1>2 DEF Logged, InHand, Early
<1>6. Pointed(r, b, store, agentRound)
  BY <1>0, <1>1, <1>2 DEF HandGood, Pointed, InHand, Early
<1> QED  BY <1>0, <1>2, <1>3, <1>4, <1>5, <1>6, RoundMoves DEF HandGood

(* The store another step of the round in hand leaves, if nothing of it that  *)
(* counts has changed.                                                        *)
LEMMA EndOfHand ==
  ASSUME ChatInv, NEW r \in Rounds, pc[r] = "running",
         body[r].at \in InHand \ {"restore", "unpark", "arm", "mirror"}
  PROVE  /\ store.retry # NoPoint => store.retry.round = agentRound
         /\ store.retry # NoPoint =>
              WritesFail \/ store.retry.mark <= Len(body[r].history)
<1>1. body[r] \in Body /\ HandGood(r, body[r], store, agentRound)
  BY Hand DEF InHand, Early
<1> QED  BY <1>1 DEF HandGood, Numbered, Pointed, InHand, Early

LEMMA SaveWindowStep ==
  ASSUME ChatInv, BodyInv', NEW r \in Rounds, SaveWindow(r)
  PROVE  ChatInv'
<1> DEFINE s == [store EXCEPT !.window = body[r].history]
           b == [body[r] EXCEPT !.at = "count"]
<1>0. /\ body[r] \in Body /\ store \in Store /\ agentRound \in Nat /\ pc[r] = "running"
      /\ StoreGood(store, agentRound) /\ Local(r, body[r]) /\ body[r].at = "save"
      /\ HandGood(r, body[r], store, agentRound)
      /\ store' = s /\ agentRound' = agentRound
      /\ WriteFails(r) \/ (body' = [body EXCEPT ![r] = b] /\ Within(r))
  BY Hand DEF SaveWindow, At, Step
<1>1. /\ s \in Store /\ s.id = store.id /\ s.root = store.root /\ s.window = body[r].history
      /\ s.counter = store.counter /\ s.retry = store.retry
  BY <1>0 DEF Store, Body
<1>2. /\ b \in Body /\ b.before = body[r].before /\ b.home = body[r].home /\ b.number = body[r].number
      /\ b.history = body[r].history /\ b.tools = body[r].tools /\ b.ending = body[r].ending
      /\ b.point = body[r].point /\ b.at = "count"
  BY <1>0 DEF Body, Steps
<1> HIDE DEF b, s
<1>3. StoreGood(s, agentRound)
  BY <1>0, <1>1 DEF StoreGood, HandGood, Logged, InHand, Steps, Early
<1>4. CASE WriteFails(r)
  <2>1. RestGood(s, agentRound)
    BY <1>0, <1>1, <1>4, EndOfHand DEF RestGood, WriteFails, InHand, Steps, Early
  <2>2. Return(r, "error") /\ "error" # "ok"
    BY <1>4 DEF WriteFails
  <2> QED  BY <1>0, <1>1, <1>3, <2>1, <2>2, RoundEnds
<1>5. CASE body' = [body EXCEPT ![r] = b] /\ Within(r)
  <2>1. Local(r, b) /\ PromptLast(r, b)
    BY <1>0, <1>2 DEF HandGood, Local, PromptLast, Answered, Early
  <2>2. Numbered(r, b, s, agentRound)
    BY <1>0, <1>1, <1>2 DEF HandGood, Numbered, InHand, Steps, Early
  <2>3. Logged(r, b, s)
    BY <1>0, <1>1, <1>2 DEF HandGood, Logged, InHand, Steps, Early
  <2>4. Pointed(r, b, s, agentRound)
    BY <1>0, <1>1, <1>2 DEF HandGood, Pointed, InHand, Steps, Early
  <2> QED  BY <1>0, <1>1, <1>2, <1>3, <1>5, <2>1, <2>2, <2>3, <2>4, RoundMoves DEF HandGood
<1> QED  BY <1>0, <1>4, <1>5

LEMMA SaveCounterStep ==
  ASSUME ChatInv, BodyInv', NEW r \in Rounds, SaveCounter(r)
  PROVE  ChatInv'
<1> DEFINE s == [store EXCEPT !.counter = body[r].number]
           b == [body[r] EXCEPT !.at = "turn"]
<1>0. /\ body[r] \in Body /\ store \in Store /\ agentRound \in Nat /\ pc[r] = "running"
      /\ StoreGood(store, agentRound) /\ Local(r, body[r]) /\ body[r].at = "count"
      /\ HandGood(r, body[r], store, agentRound)
      /\ store' = s /\ agentRound' = agentRound
      /\ WriteFails(r) \/ (body' = [body EXCEPT ![r] = b] /\ Within(r))
  BY Hand DEF SaveCounter, At, Step
<1>1. /\ s \in Store /\ s.id = store.id /\ s.root = store.root /\ s.window = store.window
      /\ s.counter = body[r].number /\ s.retry = store.retry
  BY <1>0 DEF Store, Body
<1>2. /\ b \in Body /\ b.before = body[r].before /\ b.home = body[r].home /\ b.number = body[r].number
      /\ b.history = body[r].history /\ b.tools = body[r].tools /\ b.ending = body[r].ending
      /\ b.point = body[r].point /\ b.at = "turn"
  BY <1>0 DEF Body, Steps
<1> HIDE DEF b, s
<1>a. /\ store.retry # NoPoint => store.retry.round = agentRound
      /\ body[r].number = agentRound /\ \A c \in Complete : body[c].number < body[r].number
      /\ \A c \in Complete : body[c].number \in Nat
  <2>1. store.retry # NoPoint => store.retry.round = agentRound
    BY <1>0, EndOfHand DEF InHand, Steps, Early
  <2>2. \A c \in Complete : body[c].number \in Nat
    BY DEF Complete, Lineage, ChatInv, BodyInv, ConversationTypeOK, Body
  <2>3. body[r].number = agentRound /\ \A c \in Complete : body[c].number < body[r].number
    BY <1>0 DEF HandGood, Numbered, InHand, Steps, Early
  <2> QED  BY <2>1, <2>2, <2>3
<1>3. StoreGood(s, agentRound)
  BY <1>0, <1>1, <1>a DEF StoreGood
<1>4. CASE WriteFails(r)
  <2>1. RestGood(s, agentRound)
    BY <1>0, <1>1, <1>4, <1>a DEF RestGood, WriteFails
  <2>2. Return(r, "error") /\ "error" # "ok"
    BY <1>4 DEF WriteFails
  <2> QED  BY <1>0, <1>1, <1>3, <2>1, <2>2, RoundEnds
<1>5. CASE body' = [body EXCEPT ![r] = b] /\ Within(r)
  <2>1. Local(r, b) /\ PromptLast(r, b)
    BY <1>0, <1>2 DEF HandGood, Local, PromptLast, Answered, Early
  <2>2. Numbered(r, b, s, agentRound)
    BY <1>0, <1>1, <1>2 DEF HandGood, Numbered, InHand, Steps, Early
  <2>3. Logged(r, b, s)
    BY <1>0, <1>1, <1>2 DEF HandGood, Logged, InHand, Steps, Early
  <2>4. Pointed(r, b, s, agentRound)
    BY <1>0, <1>1, <1>2 DEF HandGood, Pointed, InHand, Steps, Early
  <2> QED  BY <1>0, <1>1, <1>2, <1>3, <1>5, <2>1, <2>2, <2>3, <2>4, RoundMoves DEF HandGood
<1> QED  BY <1>0, <1>4, <1>5

(* What a step leaves in the store when it writes the window and the counter. *)
Leaves(window, number) ==
    /\ store' \in Store /\ store'.id = store.id /\ store'.root = store.root
    /\ store'.window = window /\ store'.counter = number /\ store'.retry = store.retry

(* A step of the turns: the history may grow, and the store holds it under    *)
(* the round's number unless the body is about to end.                        *)
LEMMA TurnMoves ==
  ASSUME ChatInv, BodyInv', NEW r \in Rounds, pc[r] = "running",
         body[r].at \in {"turn", "request", "backoff"},
         NEW b \in Body, body' = [body EXCEPT ![r] = b], Within(r), agentRound' = agentRound,
         b.at \in {"turn", "request", "backoff", "unwind"},
         b.before = body[r].before, b.home = body[r].home, b.number = body[r].number,
         b.point = body[r].point,
         Faithful(b.history), Len(body[r].history) <= Len(b.history),
         Local(r, b), PromptLast(r, b),
         NEW w, Leaves(w, body[r].number),
         w = b.history \/ (b.at = "unwind" /\ w = store.window)
  PROVE  ChatInv'
<1>0. /\ body[r] \in Body /\ store \in Store /\ agentRound \in Nat
      /\ StoreGood(store, agentRound) /\ HandGood(r, body[r], store, agentRound)
  BY Hand
<1>1. w \in Seq(Message) /\ Faithful(w) /\ (b.at # "unwind" => w = b.history)
  BY <1>0 DEF Store, Body, StoreGood
<1>2. PICK s \in Store : /\ store' = s /\ s.id = store.id /\ s.root = store.root /\ s.window = w
                         /\ s.counter = body[r].number /\ s.retry = store.retry
  BY DEF Leaves
<1>3. /\ store.retry # NoPoint => store.retry.round = agentRound
      /\ body[r].number = agentRound /\ \A c \in Complete : body[c].number < body[r].number
      /\ \A c \in Complete : body[c].number \in Nat
  <2>1. store.retry # NoPoint => store.retry.round = agentRound
    BY <1>0, EndOfHand DEF InHand, Steps, Early
  <2>2. \A c \in Complete : body[c].number \in Nat
    BY DEF Complete, Lineage, ChatInv, BodyInv, ConversationTypeOK, Body
  <2>3. body[r].number = agentRound /\ \A c \in Complete : body[c].number < body[r].number
    BY <1>0 DEF HandGood, Numbered, InHand, Steps, Early
  <2> QED  BY <2>1, <2>2, <2>3
<1>4. StoreGood(s, agentRound)
  BY <1>0, <1>1, <1>2, <1>3 DEF StoreGood
<1>5. Numbered(r, b, s, agentRound)
  BY <1>0, <1>2, <1>3 DEF HandGood, Numbered, InHand, Steps, Early
<1>6. Logged(r, b, s)
  BY <1>0, <1>1, <1>2 DEF Logged, Early
<1>7. Pointed(r, b, s, agentRound)
  <2>1. Len(body[r].history) \in Nat /\ Len(b.history) \in Nat
    BY <1>0 DEF Body
  <2>2. r \in Retries => /\ store.retry = body[r].point /\ body[r].point \in RetryPoint
                         /\ body[r].point.round = body[r].before
                         /\ WritesFail \/ body[r].point.mark <= Len(body[r].history)
    BY <1>0 DEF HandGood, Pointed, InHand, Steps, Early
  <2>3. r \in Retries => WritesFail \/ body[r].point.mark <= Len(b.history)
    BY <2>1, <2>2 DEF RetryPoint
  <2>4. r \notin Retries => store.retry = NoPoint
    BY <1>0 DEF HandGood, Pointed
  <2> QED  BY <1>2, <2>2, <2>3, <2>4 DEF Pointed
<1> QED  BY <1>0, <1>2, <1>4, <1>5, <1>6, <1>7, RoundMoves DEF HandGood

(* The turns save when there is more than the store has. *)
LEMMA TurnIsSaved ==
  ASSUME ChatInv, NEW r \in Rounds, pc[r] = "running", body[r].at \in {"turn", "request"},
         NEW g \in Seq(Message), Len(g) > Len(body[r].history), AppendTurn(g)
  PROVE  Leaves(g, body[r].number)
<1>1. /\ store \in Store /\ store.window = body[r].history /\ body[r].number = agentRound
      /\ agentRound \in Nat
  BY Hand DEF HandGood, Logged, Numbered, InHand, Steps, Early
<1>2. Len(g) \in Nat /\ Len(body[r].history) \in Nat
  BY <1>1 DEF Store
<1>3. ~(Len(g) <= Len(store.window))
  BY <1>1, <1>2
<1>4. store' = [store EXCEPT !.window = g, !.counter = agentRound]
  BY <1>1, <1>3 DEF AppendTurn, Store
<1> QED  BY <1>1, <1>4 DEF Leaves, Store

(* A step of the turns that saves nothing has nothing to save. *)
LEMMA NothingUnsaved ==
  ASSUME ChatInv, NEW r \in Rounds, pc[r] = "running",
         body[r].at \in {"turn", "request", "backoff"}, store' = store
  PROVE  Leaves(body[r].history, body[r].number) /\ Leaves(store.window, body[r].number)
<1>0. body[r].at # "enter"
  OBVIOUS
<1>1. store \in Store /\ HandGood(r, body[r], store, agentRound)
  BY <1>0, Hand
<1>2. store.window = body[r].history /\ store.counter = body[r].number
  BY <1>1 DEF HandGood, Logged, Numbered
<1> QED  BY <1>1, <1>2 DEF Leaves

LEMMA AppendTwo ==
  ASSUME NEW h \in Seq(Message), NEW r \in Rounds, NEW j \in Kinds, NEW k \in Kinds
  PROVE  h \o <<Say(r, j), Say(r, k)>> = Append(Append(h, Say(r, j)), Say(r, k))
<1> DEFINE a == Say(r, j)
           b == Say(r, k)
<1>1. a \in Message /\ b \in Message
  BY DEF Say, Message
<1> HIDE DEF a, b
<1>2. h \o <<a, b>> \in Seq(Message) /\ Append(Append(h, a), b) \in Seq(Message)
  BY <1>1
<1>3. /\ Len(h \o <<a, b>>) = Len(h) + 2 /\ Len(Append(Append(h, a), b)) = Len(h) + 2
      /\ Len(h) \in Nat
  BY <1>1
<1>4. \A i \in 1..(Len(h) + 2) : (h \o <<a, b>>)[i] = Append(Append(h, a), b)[i]
  BY <1>1
<1>5. h \o <<a, b>> = Append(Append(h, a), b)
  BY <1>2, <1>3, <1>4
<1> QED  BY <1>5 DEF a, b

LEMMA TurnStep ==
  ASSUME ChatInv, BodyInv', NEW r \in Rounds,
         Prepare(r) \/ Delta(r) \/ CallTools(r) \/ Answer(r) \/ AnswerSteered(r)
         \/ (\E o \in {"error", "interrupted"} : GiveUp(r, o)) \/ Backoff(r)
  PROVE  ChatInv'
<1> DEFINE h == body[r].history
<1>0. /\ body[r] \in Body /\ store \in Store /\ agentRound \in Nat /\ pc[r] = "running"
      /\ Local(r, body[r]) /\ HandGood(r, body[r], store, agentRound)
      /\ body[r].at \in {"turn", "request"}
  BY Hand DEF Prepare, Delta, CallTools, Answer, AnswerSteered, GiveUp, Backoff, At
<1>a. /\ h \in Seq(Message) /\ Len(h) \in Nat /\ Faithful(h) /\ body[r].ending = "none"
      /\ r \in Lineage \ Absent /\ r \notin Complete /\ Within(r) /\ agentRound' = agentRound
      /\ \A k \in Kinds : /\ Append(h, Say(r, k)) \in Seq(Message)
                          /\ Faithful(Append(h, Say(r, k)))
                          /\ Len(Append(h, Say(r, k))) = Len(h) + 1
                          /\ Append(h, Say(r, k))[Len(h) + 1] = Say(r, k)
  <2>1. h \in Seq(Message) /\ Len(h) \in Nat /\ Faithful(h) /\ body[r].ending = "none"
    BY <1>0 DEF Body, HandGood, Logged, Local, InHand, Steps, Early
  <2>2. r \in Lineage \ Absent /\ r \notin Complete
    BY <1>0, InLineage DEF InHand, Steps, Early
  <2>3. Within(r) /\ agentRound' = agentRound
    BY DEF Prepare, Delta, CallTools, Answer, AnswerSteered, GiveUp, Backoff
  <2>4. \A k \in Kinds : Append(h, Say(r, k)) \in Seq(Message) /\ Faithful(Append(h, Say(r, k)))
    BY <2>1, <2>2, Histories, FaithfulAppend
  <2>5. \A k \in Kinds : /\ Len(Append(h, Say(r, k))) = Len(h) + 1
                         /\ Append(h, Say(r, k))[Len(h) + 1] = Say(r, k)
    BY <2>1
  <2> QED  BY <2>1, <2>2, <2>3, <2>4, <2>5
<1>b. body[r].at \in {"turn", "request", "backoff"} /\ r \in Rounds
  BY <1>0
<1>1. CASE Prepare(r)
  <2>1. CASE Step(r, "request") /\ UNCHANGED store
    <3> DEFINE b == [body[r] EXCEPT !.at = "request"]
    <3>1. /\ b \in Body /\ b.before = body[r].before /\ b.home = body[r].home
          /\ b.number = body[r].number /\ b.history = h /\ b.tools = body[r].tools
          /\ b.ending = body[r].ending /\ b.point = body[r].point /\ b.at = "request"
          /\ body' = [body EXCEPT ![r] = b]
      BY <1>0, <2>1 DEF Body, Steps, Step
    <3> HIDE DEF b
    <3>2. Local(r, b) /\ PromptLast(r, b)
      BY <1>0, <1>1, <3>1 DEF Prepare, At, HandGood, Local, PromptLast, Early
    <3>3. Faithful(b.history) /\ Len(h) <= Len(b.history) /\ b.at \in {"turn", "request", "backoff", "unwind"}
      BY <1>a, <3>1
    <3>4. Leaves(b.history, body[r].number)
      BY <1>0, <1>b, <2>1, <3>1, NothingUnsaved
    <3> QED  BY <1>0, <1>a, <1>b, <3>1, <3>2, <3>3, <3>4, TurnMoves
  <2>2. CASE /\ Steering
             /\ body' = [body EXCEPT ![r].at = "request", ![r].history = Append(@, Say(r, "steer"))]
             /\ AppendTurn(body'[r].history)
    <3> DEFINE g == Append(h, Say(r, "steer"))
               b == [body[r] EXCEPT !.at = "request", !.history = g]
    <3>1. g \in Seq(Message) /\ Faithful(g) /\ Len(g) = Len(h) + 1
      BY <1>a DEF Kinds
    <3>2. body' = [body EXCEPT ![r] = b]
      BY <1>0, <2>2
    <3> HIDE DEF g
    <3>3. /\ b \in Body /\ b.before = body[r].before /\ b.home = body[r].home
          /\ b.number = body[r].number /\ b.history = g /\ b.tools = body[r].tools
          /\ b.ending = "none" /\ b.point = body[r].point /\ b.at = "request"
      BY <1>0, <1>a, <3>1 DEF Body, Steps
    <3> HIDE DEF b
    <3>4. Local(r, b) /\ PromptLast(r, b)
      BY <2>2, <3>3 DEF Local, PromptLast, Early
    <3>5. Leaves(g, body[r].number)
      <4>1. AppendTurn(g)
        BY <2>2, <3>2, <3>3 DEF ChatInv, BodyInv, ConversationTypeOK
      <4> QED  BY <1>0, <1>a, <3>1, <4>1, TurnIsSaved
    <3>6. Faithful(b.history) /\ Len(h) <= Len(b.history) /\ b.at \in {"turn", "request", "backoff", "unwind"}
      BY <1>a, <3>1, <3>3
    <3> QED  BY <1>0, <1>a, <1>b, <3>2, <3>3, <3>4, <3>5, <3>6, TurnMoves
  <2> QED  BY <1>1, <2>1, <2>2 DEF Prepare
<1>2. CASE Delta(r) \/ Backoff(r)
  <2>1. PICK at \in {"request", "backoff"}, streamed \in BOOLEAN :
          body' = [body EXCEPT ![r] = [body[r] EXCEPT !.at = at, !.streamed = streamed]]
    <3>1. CASE Delta(r)
      <4>1. body' = [body EXCEPT ![r] = [body[r] EXCEPT !.at = "request", !.streamed = TRUE]]
        BY <1>0, <3>1 DEF Delta, At, Body
      <4> QED  BY <4>1
    <3>2. CASE Backoff(r)
      <4>1. body' = [body EXCEPT ![r] = [body[r] EXCEPT !.at = "backoff", !.streamed = FALSE]]
        BY <1>0, <3>2 DEF Backoff
      <4> QED  BY <4>1
    <3> QED  BY <1>2, <3>1, <3>2
  <2> DEFINE b == [body[r] EXCEPT !.at = at, !.streamed = streamed]
  <2>2. /\ b \in Body /\ b.before = body[r].before /\ b.home = body[r].home
        /\ b.number = body[r].number /\ b.history = h /\ b.tools = body[r].tools
        /\ b.ending = body[r].ending /\ b.point = body[r].point /\ b.at = at
        /\ body' = [body EXCEPT ![r] = b]
    BY <1>0, <2>1 DEF Body, Steps
  <2> HIDE DEF b
  <2>3. Local(r, b) /\ PromptLast(r, b)
    BY <1>0, <2>2 DEF HandGood, Local, PromptLast, Early
  <2>4. Faithful(b.history) /\ Len(h) <= Len(b.history) /\ b.at \in {"turn", "request", "backoff", "unwind"}
    BY <1>a, <2>2
  <2>5. Leaves(b.history, body[r].number)
    BY <1>0, <1>b, <1>2, <2>2, NothingUnsaved DEF Delta, Backoff
  <2> QED  BY <1>0, <1>a, <1>b, <2>2, <2>3, <2>4, <2>5, TurnMoves
<1>3. CASE CallTools(r)
  <2>1. PICK ending \in {"none", "error", "interrupted"} :
          /\ body' = [body EXCEPT ![r].at = IF ending = "none" THEN "turn" ELSE "unwind",
                                  ![r].ending = ending, ![r].tools = TRUE,
                                  ![r].history = Append(@, Say(r, "turn"))]
          /\ IF ending = "none" THEN AppendTurn(body'[r].history) ELSE UNCHANGED store
    BY <1>3 DEF CallTools
  <2> DEFINE g == Append(h, Say(r, "turn"))
             b == [body[r] EXCEPT !.at = IF ending = "none" THEN "turn" ELSE "unwind",
                                  !.ending = ending, !.tools = TRUE, !.history = g]
  <2>2. g \in Seq(Message) /\ Faithful(g) /\ Len(g) = Len(h) + 1
    BY <1>a DEF Kinds
  <2>3. body' = [body EXCEPT ![r] = b]
    BY <1>0, <2>1
  <2> HIDE DEF g
  <2>4. /\ b \in Body /\ b.before = body[r].before /\ b.home = body[r].home
        /\ b.number = body[r].number /\ b.history = g /\ b.tools /\ b.ending = ending
        /\ b.point = body[r].point /\ b.at = IF ending = "none" THEN "turn" ELSE "unwind"
    BY <1>0, <2>2 DEF Body, Steps, Outcomes
  <2> HIDE DEF b
  <2>5. Local(r, b) /\ PromptLast(r, b)
    BY <2>4 DEF Local, PromptLast, Early
  <2>8. Faithful(b.history) /\ Len(h) <= Len(b.history) /\ b.at \in {"turn", "request", "backoff", "unwind"}
    BY <1>a, <2>2, <2>4
  <2>6. CASE ending = "none"
    <3>1. AppendTurn(g)
      BY <2>1, <2>3, <2>4, <2>6 DEF ChatInv, BodyInv, ConversationTypeOK
    <3>2. Leaves(g, body[r].number)
      BY <1>0, <1>a, <2>2, <3>1, TurnIsSaved
    <3> QED  BY <1>0, <1>a, <1>b, <2>3, <2>4, <2>5, <2>8, <3>2, TurnMoves
  <2>7. CASE ending # "none"
    <3>1. Leaves(store.window, body[r].number) /\ b.at = "unwind"
      BY <1>0, <1>b, <2>1, <2>4, <2>7, NothingUnsaved
    <3> QED  BY <1>0, <1>a, <1>b, <2>3, <2>4, <2>5, <2>8, <3>1, TurnMoves
  <2> QED  BY <2>6, <2>7
<1>4. CASE Answer(r)
  <2> DEFINE g == Append(h, Say(r, "answer"))
             b == [body[r] EXCEPT !.at = "unwind", !.ending = "ok", !.history = g]
  <2>1. /\ g \in Seq(Message) /\ Faithful(g) /\ Len(g) = Len(h) + 1
        /\ g[Len(h) + 1] = Say(r, "answer")
    BY <1>a DEF Kinds
  <2>2. body' = [body EXCEPT ![r] = b] /\ store' = store
    BY <1>0, <1>4 DEF Answer
  <2> HIDE DEF g
  <2>3. /\ b \in Body /\ b.before = body[r].before /\ b.home = body[r].home
        /\ b.number = body[r].number /\ b.history = g /\ b.ending = "ok"
        /\ b.point = body[r].point /\ b.at = "unwind"
    BY <1>0, <2>1 DEF Body, Steps, Outcomes
  <2> HIDE DEF b
  <2>4. Answered(r, g)
    BY <1>a, <2>1 DEF Answered
  <2>5. Local(r, b) /\ PromptLast(r, b)
    BY <2>3, <2>4 DEF Local, PromptLast, Early
  <2>6. Faithful(b.history) /\ Len(h) <= Len(b.history) /\ b.at \in {"turn", "request", "backoff", "unwind"}
    BY <1>a, <2>1, <2>3
  <2>7. Leaves(store.window, body[r].number)
    BY <1>0, <1>b, <2>2, NothingUnsaved
  <2> QED  BY <1>0, <1>a, <1>b, <2>2, <2>3, <2>5, <2>6, <2>7, TurnMoves
<1>5. CASE AnswerSteered(r)
  <2> DEFINE f == Append(h, Say(r, "answer"))
             g == h \o <<Say(r, "answer"), Say(r, "steer")>>
             b == [body[r] EXCEPT !.at = "turn", !.history = g]
  <2>1. f \in Seq(Message) /\ Faithful(f) /\ Len(f) = Len(h) + 1
    BY <1>a DEF Kinds
  <2>2. g = Append(f, Say(r, "steer"))
    BY <1>a, AppendTwo DEF Kinds
  <2>3. g \in Seq(Message) /\ Faithful(g) /\ Len(g) = Len(h) + 2
    <3> HIDE DEF f, g
    <3>1. Append(f, Say(r, "steer")) \in Seq(Message) /\ Faithful(Append(f, Say(r, "steer")))
      BY <1>a, <2>1, Histories, FaithfulAppend DEF Kinds
    <3>2. Len(Append(f, Say(r, "steer"))) = Len(f) + 1
      BY <2>1
    <3> QED  BY <1>a, <2>1, <2>2, <3>1, <3>2
  <2>4. body' = [body EXCEPT ![r] = b]
    BY <1>0, <1>5 DEF AnswerSteered
  <2> HIDE DEF f, g
  <2>5. /\ b \in Body /\ b.before = body[r].before /\ b.home = body[r].home
        /\ b.number = body[r].number /\ b.history = g /\ b.tools = body[r].tools
        /\ b.ending = "none" /\ b.point = body[r].point /\ b.at = "turn"
    BY <1>0, <1>a, <2>3 DEF Body, Steps
  <2> HIDE DEF b
  <2>6. Local(r, b) /\ PromptLast(r, b)
    BY <1>5, <2>5 DEF Local, PromptLast, Early, AnswerSteered
  <2>7. AppendTurn(g)
    BY <1>5, <2>4, <2>5 DEF ChatInv, BodyInv, ConversationTypeOK, AnswerSteered
  <2>8. Leaves(g, body[r].number)
    BY <1>0, <1>a, <2>3, <2>7, TurnIsSaved
  <2>9. Faithful(b.history) /\ Len(h) <= Len(b.history) /\ b.at \in {"turn", "request", "backoff", "unwind"}
    BY <1>a, <2>3, <2>5
  <2> QED  BY <1>0, <1>a, <1>b, <2>4, <2>5, <2>6, <2>8, <2>9, TurnMoves
<1>6. ASSUME NEW o \in {"error", "interrupted"}, GiveUp(r, o) PROVE ChatInv'
  <2> DEFINE b == [body[r] EXCEPT !.at = "unwind", !.ending = o]
  <2>1. /\ b \in Body /\ b.before = body[r].before /\ b.home = body[r].home
        /\ b.number = body[r].number /\ b.history = h /\ b.tools = body[r].tools
        /\ b.ending = o /\ b.point = body[r].point /\ b.at = "unwind"
        /\ body' = [body EXCEPT ![r] = b] /\ store' = store
    BY <1>0, <1>6 DEF Body, Steps, Outcomes, GiveUp
  <2> HIDE DEF b
  <2>2. Local(r, b) /\ PromptLast(r, b)
    BY <1>0, <1>a, <2>1 DEF HandGood, Local, PromptLast, Early
  <2>3. Faithful(b.history) /\ Len(h) <= Len(b.history) /\ b.at \in {"turn", "request", "backoff", "unwind"}
    BY <1>a, <2>1
  <2>4. Leaves(store.window, body[r].number)
    BY <1>0, <1>b, <2>1, NothingUnsaved
  <2> QED  BY <1>0, <1>a, <1>b, <2>1, <2>2, <2>3, <2>4, TurnMoves
<1> QED  BY <1>1, <1>2, <1>3, <1>4, <1>5, <1>6

(* The body returns out of a turn: a panic, or the token in the delay before  *)
(* a resend.  What is in the store is what the round had saved.               *)
LEMMA QuitStep ==
  ASSUME ChatInv, BodyInv', NEW r \in Rounds, Panic(r) \/ Resend(r)
  PROVE  ChatInv'
<1>0. /\ body[r] \in Body /\ store \in Store /\ agentRound \in Nat /\ pc[r] = "running"
      /\ StoreGood(store, agentRound) /\ Local(r, body[r]) /\ body[r].ending = "none"
      /\ body[r].at \in {"turn", "request", "backoff"}
      /\ HandGood(r, body[r], store, agentRound)
      /\ store' = store /\ agentRound' = agentRound
  BY Hand DEF Panic, Resend, At, Local
<1>1. ASSUME NEW o, Return(r, o) PROVE ChatInv'
  <2>1. RestGood(store, agentRound)
    <3>1. store.window = body[r].history
      BY <1>0 DEF HandGood, Logged
    <3>2. /\ store.retry # NoPoint => store.retry.round = agentRound
          /\ store.retry # NoPoint => WritesFail \/ store.retry.mark <= Len(body[r].history)
      BY <1>0, EndOfHand DEF InHand, Steps, Early
    <3> QED  BY <3>1, <3>2 DEF RestGood
  <2> QED  BY <1>0, <1>1, <2>1, RoundEnds
<1>2. CASE Resend(r) /\ Within(r) /\ body' = [body EXCEPT ![r].at = "request", ![r].attempt = @ + 1]
  <2> DEFINE h == body[r].history
             a == body[r].attempt + 1
             b == [body[r] EXCEPT !.at = "request", !.attempt = a]
  <2>0. a \in Nat /\ body' = [body EXCEPT ![r] = b]
    <3>1. a \in Nat
      BY <1>0 DEF Body
    <3>2. body' = [body EXCEPT ![r] = b]
      BY <1>2
    <3> QED  BY <3>1, <3>2
  <2> HIDE DEF a
  <2>1. /\ b \in Body /\ b.before = body[r].before /\ b.home = body[r].home
        /\ b.number = body[r].number /\ b.history = h /\ b.tools = body[r].tools
        /\ b.ending = body[r].ending /\ b.point = body[r].point /\ b.at = "request"
    BY <1>0, <2>0 DEF Body, Steps
  <2> HIDE DEF b
  <2>3. Local(r, b) /\ PromptLast(r, b)
    BY <1>0, <1>2, <2>1 DEF HandGood, Local, PromptLast, Early
  <2>4. /\ Faithful(b.history) /\ Len(h) <= Len(b.history)
        /\ b.at \in {"turn", "request", "backoff", "unwind"}
    <3>1. Faithful(h) /\ Len(h) \in Nat
      BY <1>0 DEF Body, HandGood, Logged, InHand, Steps, Early
    <3> QED  BY <2>1, <3>1
  <2>5. Leaves(b.history, body[r].number)
    BY <1>0, <2>1, NothingUnsaved
  <2> QED  BY <1>0, <1>2, <2>0, <2>1, <2>3, <2>4, <2>5, TurnMoves
<1> QED  BY <1>1, <1>2 DEF Panic, Resend

(* The prompt is taken back from the window, *)
LEMMA UnsendStep ==
  ASSUME ChatInv, BodyInv', NEW r \in Rounds, Unsend(r)
  PROVE  ChatInv'
<1> DEFINE h == body[r].history
           f == Front(h)
           s == [store EXCEPT !.window = f]
           b == [body[r] EXCEPT !.at = "restore", !.history = f]
<1>0. /\ body[r] \in Body /\ store \in Store /\ agentRound \in Nat /\ pc[r] = "running"
      /\ StoreGood(store, agentRound) /\ Local(r, body[r]) /\ body[r].at = "unwind"
      /\ HandGood(r, body[r], store, agentRound) /\ Unsendable(r)
      /\ store' = s /\ agentRound' = agentRound
      /\ WriteFails(r) \/ (body' = [body EXCEPT ![r] = b] /\ Within(r))
  BY Hand DEF Unsend, At
<1>1. /\ h \in Seq(Message) /\ Faithful(h) /\ Len(h) \in Nat
      /\ body[r].ending = "interrupted" /\ ~body[r].tools /\ h # <<>> /\ FromUser(Last(h))
  BY <1>0 DEF Body, HandGood, Logged, Unsendable, InHand, Steps, Early
<1>2. /\ f \in Seq(Message) /\ Faithful(f) /\ Len(f) = Len(h) - 1
      /\ \A i \in 1..Len(f) : f[i] = h[i]
  BY <1>1, FaithfulFront
<1>3. Steering \/ Traceless(r, f)
  BY <1>0, <1>1, <1>2 DEF HandGood, PromptLast, Traceless
<1> HIDE DEF f
<1>4. /\ s \in Store /\ s.id = store.id /\ s.root = store.root /\ s.window = f
      /\ s.counter = store.counter /\ s.retry = store.retry
  BY <1>0, <1>2 DEF Store
<1>5. /\ b \in Body /\ b.before = body[r].before /\ b.home = body[r].home /\ b.number = body[r].number
      /\ b.history = f /\ b.ending = body[r].ending
      /\ b.point = body[r].point /\ b.at = "restore"
  BY <1>0, <1>2 DEF Body, Steps
<1> HIDE DEF b, s
<1>6. StoreGood(s, agentRound)
  BY <1>0, <1>2, <1>4 DEF StoreGood
<1>7. CASE WriteFails(r)
  <2>1. RestGood(s, agentRound)
    BY <1>0, <1>4, <1>7, EndOfHand DEF RestGood, WriteFails, InHand, Steps, Early
  <2>2. Return(r, "error") /\ "error" # "ok"
    BY <1>7 DEF WriteFails
  <2> QED  BY <1>0, <1>4, <1>6, <2>1, <2>2, RoundEnds
<1>8. CASE body' = [body EXCEPT ![r] = b] /\ Within(r)
  <2>1. Local(r, b) /\ PromptLast(r, b)
    BY <1>0, <1>1, <1>5 DEF Local, PromptLast, Answered, Early
  <2>2. Numbered(r, b, s, agentRound)
    BY <1>0, <1>4, <1>5 DEF HandGood, Numbered, InHand, Steps, Early
  <2>3. Logged(r, b, s)
    BY <1>2, <1>3, <1>4, <1>5 DEF Logged, Early
  <2>4. Pointed(r, b, s, agentRound)
    BY <1>0, <1>4, <1>5 DEF HandGood, Pointed, InHand, Steps, Early
  <2> QED  BY <1>0, <1>4, <1>5, <1>6, <1>8, <2>1, <2>2, <2>3, <2>4, RoundMoves DEF HandGood
<1> QED  BY <1>0, <1>7, <1>8

(* the counters go back, and they go back together, *)
LEMMA RestoreStep ==
  ASSUME ChatInv, BodyInv', NEW r \in Rounds, Restore(r)
  PROVE  ChatInv'
<1> DEFINE n == body[r].before
           s == [store EXCEPT !.counter = n]
           b == [body[r] EXCEPT !.at = "unpark"]
<1>0. /\ body[r] \in Body /\ store \in Store /\ agentRound \in Nat /\ pc[r] = "running"
      /\ StoreGood(store, agentRound) /\ Local(r, body[r]) /\ body[r].at = "restore"
      /\ HandGood(r, body[r], store, agentRound)
      /\ store' = s /\ agentRound' = n
      /\ WriteFails(r) \/ (body' = [body EXCEPT ![r] = b] /\ Within(r))
  BY Hand DEF Restore, At, Step
<1>1. n \in Nat /\ n = body[r].before
  BY <1>0 DEF Body
<1>2. /\ s \in Store /\ s.id = store.id /\ s.root = store.root /\ s.window = store.window
      /\ s.counter = n /\ s.retry = store.retry
  BY <1>0, <1>1 DEF Store
<1>3. /\ b \in Body /\ b.before = n /\ b.home = body[r].home /\ b.number = body[r].number
      /\ b.history = body[r].history /\ b.tools = body[r].tools /\ b.ending = "interrupted"
      /\ b.point = body[r].point /\ b.at = "unpark"
  BY <1>0 DEF Body, Steps, Local
<1>4. /\ \A c \in Complete : body[c].number <= n
      /\ store.retry # NoPoint => store.retry.round = n /\ r \in Retries
  BY <1>0 DEF HandGood, Numbered, Pointed
<1>5. Steering \/ Traceless(r, store.window)
  BY <1>0 DEF HandGood, Logged
<1> HIDE DEF b, s, n
<1>6. StoreGood(s, n)
  BY <1>0, <1>2, <1>4 DEF StoreGood
<1>7. CASE WriteFails(r)
  <2>1. RestGood(s, n)
    BY <1>2, <1>4, <1>7 DEF RestGood, WriteFails
  <2>2. Return(r, "error") /\ "error" # "ok"
    BY <1>7 DEF WriteFails
  <2> QED  BY <1>0, <1>1, <1>2, <1>6, <2>1, <2>2, RoundEnds
<1>8. CASE body' = [body EXCEPT ![r] = b] /\ Within(r)
  <2>1. Local(r, b) /\ PromptLast(r, b)
    BY <1>3 DEF Local, PromptLast, Answered, Early
  <2>2. Numbered(r, b, s, n)
    BY <1>0, <1>2, <1>3, <1>4 DEF HandGood, Numbered, InHand, Steps, Early
  <2>3. Logged(r, b, s)
    BY <1>0, <1>2, <1>3, <1>5 DEF HandGood, Logged, InHand, Steps, Early
  <2>4. Pointed(r, b, s, n)
    BY <1>0, <1>1, <1>2, <1>3 DEF HandGood, Pointed, InHand, Steps, Early
  <2> QED  BY <1>0, <1>1, <1>2, <1>3, <1>6, <1>8, <2>1, <2>2, <2>3, <2>4, RoundMoves DEF HandGood
<1> QED  BY <1>0, <1>7, <1>8

(* and there is nothing to retry. *)
LEMMA UnparkStep ==
  ASSUME ChatInv, BodyInv', NEW r \in Rounds, Unpark(r)
  PROVE  ChatInv'
<1> DEFINE s == [store EXCEPT !.retry = NoPoint]
<1>0. /\ body[r] \in Body /\ store \in Store /\ agentRound \in Nat /\ pc[r] = "running"
      /\ StoreGood(store, agentRound) /\ Local(r, body[r]) /\ body[r].at = "unpark"
      /\ HandGood(r, body[r], store, agentRound)
      /\ store' = s /\ agentRound' = agentRound /\ Return(r, "ok")
  BY Hand DEF Unpark, At
<1>1. /\ s \in Store /\ s.id = store.id /\ s.root = store.root /\ s.window = store.window
      /\ s.counter = store.counter /\ s.retry = NoPoint
  BY <1>0 DEF Store, MaybePoint
<1> HIDE DEF s
<1>2. StoreGood(s, agentRound) /\ RestGood(s, agentRound)
  BY <1>0, <1>1 DEF StoreGood, RestGood
<1>3. Steering \/ Traceless(r, s.window)
  BY <1>0, <1>1 DEF HandGood, Logged
<1>4. body[r].ending # "ok"
  BY <1>0 DEF Local
<1> QED  BY <1>0, <1>1, <1>2, <1>3, <1>4, RoundEnds

(* The history is committed: the store still points at the session.           *)
LEMMA CheckStep ==
  ASSUME ChatInv, BodyInv', NEW r \in Rounds, CheckSession(r)
  PROVE  ChatInv'
<1> DEFINE b == [body[r] EXCEPT !.at = "commit"]
<1>0. /\ body[r] \in Body /\ store \in Store /\ agentRound \in Nat /\ pc[r] = "running"
      /\ StoreGood(store, agentRound) /\ Local(r, body[r]) /\ body[r].at = "unwind"
      /\ HandGood(r, body[r], store, agentRound)
      /\ store' = store /\ agentRound' = agentRound
  BY Hand DEF CheckSession, At
<1>1. body' = [body EXCEPT ![r] = b] /\ Within(r)
  <2>1. body[r].home = store.id
    BY <1>0 DEF HandGood, Numbered, InHand, Steps, Early
  <2> QED  BY <2>1 DEF CheckSession, Step
<1>2. /\ b \in Body /\ b.before = body[r].before /\ b.home = body[r].home /\ b.number = body[r].number
      /\ b.history = body[r].history /\ b.ending = body[r].ending
      /\ b.point = body[r].point /\ b.at = "commit"
  BY <1>0 DEF Body, Steps
<1> HIDE DEF b
<1>3. Local(r, b) /\ PromptLast(r, b)
  BY <1>0, <1>2 DEF Local, PromptLast, Answered, Early
<1>4. Numbered(r, b, store, agentRound) /\ Logged(r, b, store)
  BY <1>0, <1>2 DEF HandGood, Numbered, Logged, InHand, Steps, Early
<1>5. Pointed(r, b, store, agentRound)
  BY <1>0, <1>2 DEF HandGood, Pointed, InHand, Steps, Early
<1> QED  BY <1>0, <1>1, <1>2, <1>3, <1>4, <1>5, RoundMoves DEF HandGood

LEMMA CommitStep ==
  ASSUME ChatInv, BodyInv', NEW r \in Rounds, Commit(r)
  PROVE  ChatInv'
<1> DEFINE s == [store EXCEPT !.window = body[r].history]
           b == [body[r] EXCEPT !.at = "retire"]
<1>0. /\ body[r] \in Body /\ store \in Store /\ agentRound \in Nat /\ pc[r] = "running"
      /\ StoreGood(store, agentRound) /\ Local(r, body[r]) /\ body[r].at = "commit"
      /\ HandGood(r, body[r], store, agentRound)
      /\ store' = s /\ agentRound' = agentRound
      /\ WriteFails(r) \/ (body' = [body EXCEPT ![r] = b] /\ Within(r))
  BY Hand DEF Commit, At, Step
<1>1. /\ s \in Store /\ s.id = store.id /\ s.root = store.root /\ s.window = body[r].history
      /\ s.counter = store.counter /\ s.retry = store.retry
  BY <1>0 DEF Store, Body
<1>2. /\ b \in Body /\ b.before = body[r].before /\ b.home = body[r].home /\ b.number = body[r].number
      /\ b.history = body[r].history /\ b.ending = body[r].ending
      /\ b.point = body[r].point /\ b.at = "retire"
  BY <1>0 DEF Body, Steps
<1> HIDE DEF b, s
<1>3. StoreGood(s, agentRound)
  BY <1>0, <1>1 DEF StoreGood, HandGood, Logged, InHand, Steps, Early
<1>4. CASE WriteFails(r)
  <2>1. RestGood(s, agentRound)
    BY <1>0, <1>1, <1>4, EndOfHand DEF RestGood, WriteFails, InHand, Steps, Early
  <2>2. Return(r, "error") /\ "error" # "ok"
    BY <1>4 DEF WriteFails
  <2> QED  BY <1>0, <1>1, <1>3, <2>1, <2>2, RoundEnds
<1>5. CASE body' = [body EXCEPT ![r] = b] /\ Within(r)
  <2>1. Local(r, b) /\ PromptLast(r, b)
    BY <1>0, <1>2 DEF Local, PromptLast, Answered, Early
  <2>2. Numbered(r, b, s, agentRound)
    BY <1>0, <1>1, <1>2 DEF HandGood, Numbered, InHand, Steps, Early
  <2>3. Logged(r, b, s)
    BY <1>0, <1>1, <1>2 DEF HandGood, Logged, InHand, Steps, Early
  <2>4. Pointed(r, b, s, agentRound)
    BY <1>0, <1>1, <1>2 DEF HandGood, Pointed, InHand, Steps, Early
  <2> QED  BY <1>0, <1>1, <1>2, <1>3, <1>5, <2>1, <2>2, <2>3, <2>4, RoundMoves DEF HandGood
<1> QED  BY <1>0, <1>4, <1>5

(* The point of an earlier stop is retired, *)
LEMMA RetireStep ==
  ASSUME ChatInv, BodyInv', NEW r \in Rounds, RetirePoint(r)
  PROVE  ChatInv'
<1> DEFINE s == [store EXCEPT !.retry = NoPoint]
           b == [body[r] EXCEPT !.at = IF body[r].ending = "ok" THEN "mirror" ELSE "arm"]
<1>0. /\ body[r] \in Body /\ store \in Store /\ agentRound \in Nat /\ pc[r] = "running"
      /\ StoreGood(store, agentRound) /\ Local(r, body[r]) /\ body[r].at = "retire"
      /\ HandGood(r, body[r], store, agentRound)
      /\ store' = s /\ agentRound' = agentRound
      /\ body' = [body EXCEPT ![r] = b] /\ Within(r)
  BY Hand DEF RetirePoint, At, Step
<1>1. /\ s \in Store /\ s.id = store.id /\ s.root = store.root /\ s.window = store.window
      /\ s.counter = store.counter /\ s.retry = NoPoint
  BY <1>0 DEF Store, MaybePoint
<1>2. /\ b \in Body /\ b.before = body[r].before /\ b.home = body[r].home /\ b.number = body[r].number
      /\ b.history = body[r].history /\ b.ending = body[r].ending
      /\ b.point = body[r].point /\ b.at = IF body[r].ending = "ok" THEN "mirror" ELSE "arm"
  BY <1>0 DEF Body, Steps
<1> HIDE DEF b, s
<1>3. StoreGood(s, agentRound)
  BY <1>0, <1>1 DEF StoreGood
<1>4. Local(r, b) /\ PromptLast(r, b)
  BY <1>0, <1>2 DEF Local, PromptLast, Answered, Early
<1>5. Numbered(r, b, s, agentRound)
  BY <1>0, <1>1, <1>2 DEF HandGood, Numbered, InHand, Steps, Early
<1>6. Logged(r, b, s)
  BY <1>0, <1>1, <1>2 DEF HandGood, Logged, InHand, Steps, Early
<1>7. Pointed(r, b, s, agentRound)
  BY <1>0, <1>1, <1>2 DEF HandGood, Pointed, InHand, Steps, Early
<1> QED  BY <1>0, <1>1, <1>2, <1>3, <1>4, <1>5, <1>6, <1>7, RoundMoves DEF HandGood

(* and a stopped round leaves its own: it names the last round the session    *)
(* counted and lies behind everything a completed round committed.            *)
LEMMA ArmStep ==
  ASSUME ChatInv, BodyInv', NEW r \in Rounds, Arm(r)
  PROVE  ChatInv'
<1> DEFINE p == [round |-> body[r].number, mark |-> Len(store.window)]
           s == [store EXCEPT !.retry = p]
<1>0. /\ body[r] \in Body /\ store \in Store /\ agentRound \in Nat /\ pc[r] = "running"
      /\ StoreGood(store, agentRound) /\ Local(r, body[r]) /\ body[r].at = "arm"
      /\ HandGood(r, body[r], store, agentRound)
      /\ store' = s /\ agentRound' = agentRound /\ Return(r, body[r].ending)
  BY Hand DEF Arm, At
<1>1. p \in RetryPoint /\ p.round = body[r].number /\ p.mark = Len(store.window) /\ p.mark \in Nat
  BY <1>0 DEF RetryPoint, Store, Body
<1> HIDE DEF p
<1>2. /\ s \in Store /\ s.id = store.id /\ s.root = store.root /\ s.window = store.window
      /\ s.counter = store.counter /\ s.retry = p
  BY <1>0, <1>1 DEF Store, MaybePoint
<1> HIDE DEF s
<1>3. /\ store.counter = body[r].number /\ agentRound = body[r].number
      /\ \A c \in Complete : body[c].number < body[r].number
      /\ body[r].ending # "ok"
  BY <1>0 DEF HandGood, Numbered, Local, InHand, Steps, Early
<1>4. \A c \in Complete : Len(body[c].history) <= Len(store.window)
  BY <1>0 DEF StoreGood, Faithful, Kept
<1>5. StoreGood(s, agentRound) /\ RestGood(s, agentRound)
  BY <1>0, <1>1, <1>2, <1>3, <1>4 DEF StoreGood, RestGood
<1> QED  BY <1>0, <1>2, <1>3, <1>5, RoundEnds

-----------------------------------------------------------------------------
(* The steps between the rounds.                                              *)

(* The steps that leave the conversation alone and end no body. *)
LEMMA LifecycleKeeps ==
  ASSUME ChatInv, BodyInv', UNCHANGED conversation,
         \A r \in Rounds : result'[r] = result[r],
         BodyPhase', OneAtWork', SwitchAlone', AskedAlone',
         \A r \in Retries : Working(r)' /\ body[r].at = "enter" => body[r].point = store.retry
  PROVE  ChatInv'
<1>0. /\ store' = store /\ agentRound' = agentRound /\ body' = body /\ asked' = asked
      /\ switching' = switching
  BY DEF conversation
<1>1. Lineage' = Lineage /\ Complete' = Complete /\ Absent' = Absent
  BY <1>0 DEF Lineage, Complete, Absent, Completed, Unsent
<1>2. StoreGood(store, agentRound)' /\ \A r \in Rounds : body[r].at \notin {"enter", "done"} =>
                                          HandGood(r, body[r], store, agentRound)'
  <2>0. \A r \in Rounds : body[r] \in Body
    BY DEF ChatInv, BodyInv, ConversationTypeOK
  <2>1. StoreGood(store, agentRound)'
    BY <1>0, <1>1 DEF ChatInv, StoreGood, Faithful, Kept
  <2>2. ASSUME NEW r \in Rounds, body[r].at \notin {"enter", "done"}
        PROVE  HandGood(r, body[r], store, agentRound)'
    <3>1. HandGood(r, body[r], store, agentRound)
      BY <2>2 DEF ChatInv
    <3> QED  BY <1>0, <1>1, <3>1 DEF HandGood, Numbered, Logged, Pointed, PromptLast, RestGood, Faithful, Kept, Traceless
  <2> QED  BY <2>1, <2>2
<1>3. Homes' /\ \A r \in Rounds : Local(r, body[r])'
  BY <1>0 DEF ChatInv, Homes, Local, Answered
<1>4. (\A r \in Rounds : body'[r].at \in {"enter", "done"}) => RestGood(store, agentRound)'
  BY <1>0 DEF ChatInv, RestGood
<1>5. \A c, d \in Complete' : body'[c].number = body'[d].number => c = d
  BY <1>0, <1>1 DEF ChatInv
<1> QED  BY <1>0, <1>2, <1>3, <1>4, <1>5 DEF ChatInv

LEMMA LifecycleSteps ==
  ASSUME ChatInv, BodyInv', LifecycleStep
  PROVE  ChatInv'
<1>0. /\ pc \in [Rounds -> Phases] /\ pc' \in [Rounds -> Phases] /\ ShellRounds = {} /\ ~Crossing
      /\ driver \in [op : Ops, round : Rounds \cup {NoRound}, idle : BOOLEAN]
  BY ChatOnly DEF ChatInv, BodyInv, TypeOK
<1>1. UNCHANGED conversation /\ result' = result
  BY DEF LifecycleStep, Install, ParkSuperseded, Launch, PublishRunning, Epilogue, TakeInterrupt, Finish,
         PublishIdle, ParkReason, EagerIdle, Supersede, CancelCurrent, Reconcile, round
<1>2. /\ store' = store /\ body' = body /\ asked' = asked /\ switching' = switching
  BY <1>1 DEF conversation
<1> DEFINE Fore == {"reserved", "installed", "settled", "spawned"}
           Rear  == {"closing", "taken", "idling", "ended"}
<1>3. CASE \E r \in Rounds : Install(r) \/ ParkSuperseded(r) \/ Launch(r) \/ PublishRunning(r) \/ Epilogue(r)
  <2>1. PICK r \in Rounds : Install(r) \/ ParkSuperseded(r) \/ Launch(r) \/ PublishRunning(r) \/ Epilogue(r)
    BY <1>3
  <2>2. /\ \A q \in Rounds \ {r} : pc'[q] = pc[q]
        /\ \/ pc[r] \in Fore /\ pc'[r] \in Fore \cup {"running"}
           \/ pc[r] \in Rear \ {"ended"} /\ pc'[r] \in Rear
    BY <1>0, <2>1 DEF Install, ParkSuperseded, Launch, PublishRunning, Epilogue, TakeInterrupt,
                      Finish, PublishIdle, Goto
  <2>3. Working(r) /\ \A q \in Rounds : Working(q)' => Working(q)
    BY <1>0, <2>2 DEF Working
  <2>4. BodyPhase'
    <3>1. \A q \in Rounds \ {r} : body'[q] = body[q] /\ pc'[q] = pc[q]
      BY <1>2, <2>2
    <3>2. /\ pc[r] \in Fore => body[r].at = "enter"
          /\ pc[r] \in Rear => body[r].at = "done"
      BY DEF ChatInv, BodyPhase
    <3> QED  BY <1>2, <2>2, <3>1, <3>2 DEF ChatInv, BodyPhase
  <2>5. OneAtWork' /\ SwitchAlone' /\ AskedAlone'
    BY <1>2, <2>3 DEF ChatInv, OneAtWork, SwitchAlone, AskedAlone
  <2>6. \A q \in Retries : Working(q)' /\ body[q].at = "enter" => body[q].point = store.retry
    BY <2>3, RetriesAssumption DEF ChatInv
  <2> QED  BY <1>1, <2>4, <2>5, <2>6, LifecycleKeeps
<1>4. CASE ParkReason \/ EagerIdle \/ Supersede \/ CancelCurrent \/ (Reconcile /\ switching = "none")
  <2>1. pc' = pc /\ driver.op # "ready" /\ (switching # "none" => driver'.op \notin {"ready", "begin"})
    BY <1>0, <1>4 DEF ParkReason, EagerIdle, Supersede, CancelCurrent, Reconcile, round, RequestKinds, Ops
  <2>2. BodyPhase' /\ OneAtWork' /\ SwitchAlone' /\ AskedAlone'
    BY <1>2, <2>1 DEF ChatInv, BodyPhase, OneAtWork, SwitchAlone, AskedAlone, Working
  <2>3. \A q \in Retries : Working(q)' /\ body[q].at = "enter" => body[q].point = store.retry
    BY <2>1, RetriesAssumption DEF ChatInv, Working
  <2> QED  BY <1>1, <2>2, <2>3, LifecycleKeeps
<1> QED  BY <1>3, <1>4 DEF LifecycleStep

LEMMA StopStep ==
  ASSUME ~Overlap, ChatInv, BodyInv', NEW kind \in Requests, Stop(kind)
  PROVE  ChatInv'
<1>0. /\ store' = store /\ agentRound' = agentRound /\ body' = body /\ asked' = asked /\ asked = NoPoint
      /\ pc' = pc /\ result' = result /\ kind \in RequestKinds
  BY RequestsAssumption DEF Stop, Request, round
<1>1. driver'.op = kind /\ (switching' # "none" => kind # "interrupt" /\ AtRest)
  BY DEF Stop, Request, Awaited
<1>2. Lineage' = Lineage /\ Complete' = Complete /\ Absent' = Absent
  BY <1>0 DEF Lineage, Complete, Absent, Completed, Unsent
<1>3. BodyPhase' /\ OneAtWork' /\ AskedAlone'
  BY <1>0 DEF ChatInv, BodyPhase, OneAtWork, AskedAlone, Working
<1>4. SwitchAlone'
  BY <1>0, <1>1 DEF SwitchAlone, AtRest, Working, RequestKinds
<1>5. StoreGood(store, agentRound)'
  BY <1>0, <1>2 DEF ChatInv, StoreGood, Faithful, Kept
<1>6. ASSUME NEW r \in Rounds, body[r].at \notin {"enter", "done"}
      PROVE  HandGood(r, body[r], store, agentRound)'
  <2>1. HandGood(r, body[r], store, agentRound)
    BY <1>6 DEF ChatInv
  <2> QED  BY <1>0, <1>2, <2>1 DEF HandGood, Numbered, Logged, Pointed, PromptLast, RestGood, Faithful, Kept, Traceless
<1>7. Homes' /\ \A r \in Rounds : Local(r, body[r])'
  BY <1>0 DEF ChatInv, Homes, Local, Answered
<1>8. /\ (\A r \in Rounds : body'[r].at \in {"enter", "done"}) => RestGood(store, agentRound)'
      /\ \A c, d \in Complete' : body'[c].number = body'[d].number => c = d
      /\ \A r \in Retries : Working(r)' /\ body'[r].at = "enter" => body'[r].point = store'.retry
  BY <1>0, <1>2, RetriesAssumption DEF ChatInv, RestGood, Working
<1> QED  BY <1>0, <1>3, <1>4, <1>5, <1>6, <1>7, <1>8 DEF ChatInv

(* With nothing under way, no body is in hand.                                *)
LEMMA NoneInHand ==
  ASSUME ChatInv, \A r \in Rounds : ~Working(r)
  PROVE  (\A r \in Rounds : body[r].at \in {"enter", "done"}) /\ RestGood(store, agentRound)
BY DEF ChatInv, BodyPhase, Working

LEMMA AskRetryStep ==
  ASSUME ~Overlap, ChatInv, BodyInv', AskRetry
  PROVE  ChatInv'
<1>0. /\ agentRound' = agentRound /\ body' = body /\ pc' = pc /\ result' = result
      /\ driver' = driver /\ switching' = switching /\ store \in Store
      /\ driver.op = "ready" /\ \A r \in Rounds : ~Working(r)
  BY DEF AskRetry, Awaited, AtRest, Working, vars, round, session, ChatInv, BodyInv, ConversationTypeOK
<1>1. /\ store'.id = store.id /\ store'.root = store.root /\ store'.window = store.window
      /\ store'.counter = store.counter
      /\ \/ store' = store /\ asked' = store.retry
         \/ store'.retry = NoPoint /\ asked' = NoPoint
  BY <1>0 DEF AskRetry, Store
<1>2. Lineage' = Lineage /\ Complete' = Complete /\ Absent' = Absent
  BY <1>0, <1>1 DEF Lineage, Complete, Absent, Completed, Unsent
<1>3. (\A r \in Rounds : body[r].at \in {"enter", "done"}) /\ RestGood(store, agentRound)
  BY <1>0, NoneInHand
<1>4. BodyPhase' /\ OneAtWork' /\ SwitchAlone' /\ AskedAlone'
  BY <1>0, <1>1 DEF ChatInv, BodyPhase, OneAtWork, SwitchAlone, AskedAlone, Working
<1>5. StoreGood(store, agentRound)'
  BY <1>0, <1>1, <1>2 DEF ChatInv, StoreGood, Faithful, Kept
<1>6. RestGood(store, agentRound)'
  BY <1>0, <1>1, <1>3 DEF RestGood
<1>7. Homes' /\ \A r \in Rounds : Local(r, body[r])'
  BY <1>0, <1>1 DEF ChatInv, Homes, Local, Answered
<1>8. /\ \A c, d \in Complete' : body'[c].number = body'[d].number => c = d
      /\ \A r \in Retries : Working(r)' /\ body'[r].at = "enter" => body'[r].point = store'.retry
  BY <1>0, <1>2, RetriesAssumption DEF ChatInv, Working
<1> QED  BY <1>0, <1>3, <1>4, <1>5, <1>6, <1>7, <1>8 DEF ChatInv

LEMMA BeginStep ==
  ASSUME ~Overlap, ChatInv, BodyInv', NEW r \in Rounds, Begin(r)
  PROVE  ChatInv'
<1> DEFINE b == [body[r] EXCEPT !.point = asked]
<1>0. /\ agentRound' = agentRound /\ store' = store /\ result' = result /\ switching' = switching
      /\ asked' = NoPoint /\ body \in [Rounds -> Body] /\ pc \in [Rounds -> Phases]
      /\ driver.op = "ready" /\ pc[r] = "waiting" /\ \A q \in Rounds : ~Working(q)
      /\ body' = [body EXCEPT ![r] = b] /\ pc' = [pc EXCEPT ![r] = "reserved"]
      /\ r \in Retries => asked # NoPoint
  BY DEF Begin, Reserve, Awaited, AtRest, Goto, Working, ChatInv, BodyInv, ConversationTypeOK, TypeOK
<1>1. body[r].at = "enter" /\ switching = "none"
  BY <1>0 DEF ChatInv, BodyPhase, SwitchAlone
<1>2. /\ b.at = "enter" /\ b.before = body[r].before /\ b.home = body[r].home
      /\ b.number = body[r].number /\ b.history = body[r].history /\ b.tools = body[r].tools
      /\ b.ending = body[r].ending /\ b.point = asked
  BY <1>0, <1>1 DEF Body
<1> HIDE DEF b
<1>3. /\ \A q \in Rounds \ {r} : body'[q] = body[q] /\ pc'[q] = pc[q]
      /\ body'[r] = b /\ pc'[r] = "reserved"
  BY <1>0
<1>4. /\ Lineage' = Lineage /\ Complete' = Complete /\ Absent' = Absent
      /\ \A q \in Rounds : /\ body'[q].at = body[q].at /\ body'[q].history = body[q].history
                           /\ body'[q].number = body[q].number /\ body'[q].home = body[q].home
                           /\ body'[q].tools = body[q].tools /\ body'[q].ending = body[q].ending
  <2>1. \A q \in Rounds : /\ body'[q].at = body[q].at /\ body'[q].history = body[q].history
                          /\ body'[q].number = body[q].number /\ body'[q].home = body[q].home
                          /\ body'[q].tools = body[q].tools /\ body'[q].ending = body[q].ending
    BY <1>1, <1>2, <1>3
  <2> QED  BY <1>0, <2>1 DEF Lineage, Complete, Absent, Completed, Unsent
<1>5. BodyPhase' /\ OneAtWork' /\ SwitchAlone' /\ AskedAlone'
  <2>1. BodyPhase'
    BY <1>1, <1>2, <1>3 DEF ChatInv, BodyPhase
  <2> QED  BY <1>0, <1>1, <1>3, <2>1 DEF OneAtWork, SwitchAlone, AskedAlone, Working
<1>6. (\A q \in Rounds : body[q].at \in {"enter", "done"}) /\ RestGood(store, agentRound)
  BY <1>0, NoneInHand
<1>7. StoreGood(store, agentRound)'
  <2>1. Complete \subseteq Rounds
    BY DEF Complete, Lineage
  <2> QED  BY <1>0, <1>4, <2>1 DEF ChatInv, StoreGood, Faithful, Kept
<1>8. RestGood(store, agentRound)'
  BY <1>0, <1>6 DEF RestGood
<1>9. Homes' /\ \A q \in Rounds : Local(q, body[q])'
  BY <1>0, <1>4 DEF ChatInv, Homes, Local, Answered
<1>10. \A c, d \in Complete' : body'[c].number = body'[d].number => c = d
  <2>1. Complete \subseteq Rounds
    BY DEF Complete, Lineage
  <2> QED  BY <1>4, <2>1 DEF ChatInv
<1>11. \A q \in Retries : Working(q)' /\ body'[q].at = "enter" => body'[q].point = store'.retry
  <2>1. r \in Retries => asked = store.retry
    BY <1>0 DEF ChatInv, AskedAlone
  <2>2. \A q \in Rounds \ {r} : ~Working(q)'
    BY <1>0, <1>3 DEF Working
  <2> QED  BY <1>0, <1>2, <1>3, <2>1, <2>2, RetriesAssumption
<1>12. \A q \in Rounds : body'[q].at \in {"enter", "done"}
  BY <1>4, <1>6
<1> QED  BY <1>5, <1>7, <1>8, <1>9, <1>10, <1>11, <1>12 DEF ChatInv

(* A switch repoints the store while no round works: a fork keeps the rounds  *)
(* of its lineage, a new session starts with none.                            *)
LEMMA RepointStep ==
  ASSUME ChatInv, BodyInv', Repoint
  PROVE  ChatInv'
<1>0. /\ store \in Store /\ store.id \in Nat /\ store.root \in Nat /\ store.root <= store.id
      /\ \A r \in Rounds : body[r] \in Body /\ body[r].home \in Nat /\ body[r].home <= store.id
      /\ body' = body /\ pc' = pc /\ result' = result /\ driver' = driver /\ asked' = asked
      /\ switching # "none" /\ switching' = "none" /\ driver.op = "close"
      /\ \A r \in Rounds : ~Working(r)
  BY DEF Repoint, ChatInv, BodyInv, ConversationTypeOK, Store, Body, Homes, SwitchAlone, vars, round, session
<1>1. (\A r \in Rounds : body[r].at \in {"enter", "done"}) /\ RestGood(store, agentRound)
  BY <1>0, NoneInHand
<1>2. Absent' = Absent /\ \A r \in Rounds : Completed(r)' <=> Completed(r)
  BY <1>0 DEF Absent, Completed, Unsent
<1>3. BodyPhase' /\ OneAtWork' /\ SwitchAlone' /\ AskedAlone'
  BY <1>0 DEF ChatInv, BodyPhase, OneAtWork, SwitchAlone, AskedAlone, Working
<1>4. \A r \in Rounds : Local(r, body[r])'
  BY <1>0 DEF ChatInv, Local, Answered
<1>5. \A r \in Retries : Working(r)' /\ body'[r].at = "enter" => body'[r].point = store'.retry
  BY <1>0, RetriesAssumption DEF Working
<1>6. CASE store' = store /\ agentRound' = agentRound
  <2>1. Lineage' = Lineage /\ Complete' = Complete
    BY <1>0, <1>2, <1>6 DEF Lineage, Complete
  <2>2. StoreGood(store, agentRound)' /\ RestGood(store, agentRound)' /\ Homes'
    BY <1>0, <1>1, <1>2, <1>6, <2>1 DEF ChatInv, StoreGood, RestGood, Homes, Faithful, Kept
  <2>3. \A c, d \in Complete' : body'[c].number = body'[d].number => c = d
    BY <1>0, <2>1 DEF ChatInv
  <2> QED  BY <1>0, <1>1, <1>3, <1>4, <1>5, <2>2, <2>3 DEF ChatInv
<1>7. CASE /\ store'.id = store.id + 1 /\ store'.root = store.root /\ store'.window = store.window
           /\ store'.counter = store.counter /\ store'.retry = store.retry
           /\ agentRound' = store.counter
  <2>1. Lineage' = Lineage
    BY <1>0, <1>7 DEF Lineage
  <2>2. Complete' = Complete
    BY <1>0, <1>2, <2>1 DEF Complete, Lineage
  <2>3. StoreGood(store, agentRound)'
    BY <1>0, <1>2, <1>7, <2>1, <2>2 DEF ChatInv, StoreGood, Faithful, Kept
  <2>4. RestGood(store, agentRound)'
    BY <1>1, <1>7 DEF ChatInv, RestGood, StoreGood
  <2>5. Homes'
    BY <1>0, <1>7 DEF Homes
  <2>6. \A c, d \in Complete' : body'[c].number = body'[d].number => c = d
    BY <1>0, <2>2 DEF ChatInv
  <2> QED  BY <1>0, <1>1, <1>3, <1>4, <1>5, <2>3, <2>4, <2>5, <2>6 DEF ChatInv
<1>8. CASE /\ store'.id = store.id + 1 /\ store'.root = store.id + 1 /\ store'.window = <<>>
           /\ store'.counter = 0 /\ store'.retry = NoPoint
  <2>1. Lineage' = {} /\ Complete' = {}
    BY <1>0, <1>8 DEF Lineage, Complete
  <2>2. StoreGood(store, agentRound)' /\ RestGood(store, agentRound)'
    BY <1>8, <2>1 DEF StoreGood, RestGood, Faithful
  <2>3. Homes'
    BY <1>0, <1>8 DEF Homes
  <2> QED  BY <1>0, <1>1, <1>3, <1>4, <1>5, <2>1, <2>2, <2>3 DEF ChatInv
<1>9. \/ store' = store /\ agentRound' = agentRound
      \/ /\ store'.id = store.id + 1 /\ store'.root = store.root /\ store'.window = store.window
         /\ store'.counter = store.counter /\ store'.retry = store.retry
         /\ agentRound' = store.counter
      \/ /\ store'.id = store.id + 1 /\ store'.root = store.id + 1 /\ store'.window = <<>>
         /\ store'.counter = 0 /\ store'.retry = NoPoint
  <2>1. PICK n \in Nat : n = store.id + 1
    BY <1>0
  <2>2. CASE switching = "fork" /\ store.window = <<>>
    BY <2>2 DEF Repoint
  <2>3. CASE switching = "fork" /\ store.window # <<>>
    <3> DEFINE s == [store EXCEPT !.id = n]
    <3>1. store' = s
      BY <2>1, <2>3 DEF Repoint
    <3>2. /\ s.id = n /\ s.root = store.root /\ s.window = store.window
          /\ s.counter = store.counter /\ s.retry = store.retry
      BY <1>0 DEF Store
    <3>3. agentRound' = store'.counter
      BY <1>0, <2>1, <2>3, <3>1, <3>2 DEF Repoint
    <3> HIDE DEF s
    <3> QED  BY <2>1, <3>1, <3>2, <3>3
  <2>4. CASE switching # "fork"
    <3>1. store' = [id |-> n, root |-> n, window |-> <<>>, counter |-> 0, retry |-> NoPoint]
      BY <2>1, <2>4 DEF Repoint
    <3> QED  BY <2>1, <3>1
  <2> QED  BY <2>2, <2>3, <2>4
<1> QED  BY <1>6, <1>7, <1>8, <1>9

LEMMA UnchangedStep ==
  ASSUME ChatInv, BodyInv', UNCHANGED allVars
  PROVE  ChatInv'
<1>1. UNCHANGED conversation /\ pc' = pc /\ result' = result /\ driver' = driver
  BY DEF allVars, vars, round, session
<1>2. body' = body /\ store' = store /\ asked' = asked /\ switching' = switching
  BY <1>1 DEF conversation
<1>3. BodyPhase' /\ OneAtWork' /\ SwitchAlone' /\ AskedAlone'
  BY <1>1, <1>2 DEF ChatInv, BodyPhase, OneAtWork, SwitchAlone, AskedAlone, Working
<1>4. \A r \in Retries : Working(r)' /\ body[r].at = "enter" => body[r].point = store.retry
  BY <1>1 DEF ChatInv, Working
<1> QED  BY <1>1, <1>3, <1>4, LifecycleKeeps

LEMMA ChatStep ==
  ASSUME ~Overlap, ChatInv, [RoundsNext]_allVars
  PROVE  ChatInv'
<1>1. BodyInv'
  BY BodyInvStep DEF ChatInv
<1>2. ASSUME NEW r \in Rounds, Admission(r) PROVE ChatInv'
  BY <1>1, <1>2, EnterStep, OpenStep, ReadWindowStep, SaveWindowStep, SaveCounterStep DEF Admission
<1>3. ASSUME NEW r \in Rounds, Turn(r) PROVE ChatInv'
  BY <1>1, <1>3, TurnStep, QuitStep DEF Turn
<1>4. ASSUME NEW r \in Rounds, Ending(r) PROVE ChatInv'
  BY <1>1, <1>4, UnsendStep, RestoreStep, UnparkStep, CheckStep, CommitStep, RetireStep, ArmStep,
     MirrorStep DEF Ending
<1>5. ASSUME NEW r \in Rounds, Begin(r) PROVE ChatInv'
  BY <1>1, <1>5, BeginStep
<1>6. ASSUME NEW kind \in Requests, Stop(kind) PROVE ChatInv'
  BY <1>1, <1>6, StopStep
<1>7. CASE LifecycleStep \/ AskRetry \/ Repoint \/ UNCHANGED allVars
  BY <1>1, <1>7, LifecycleSteps, AskRetryStep, RepointStep, UnchangedStep
<1> QED  BY <1>2, <1>3, <1>4, <1>5, <1>6, <1>7 DEF RoundsNext

LEMMA ChatInit == RoundsInit => ChatInv
<1> SUFFICES ASSUME RoundsInit PROVE ChatInv
  OBVIOUS
<1>0. /\ store = [id |-> 0, root |-> 0, window |-> <<>>, counter |-> 0, retry |-> NoPoint]
      /\ asked = NoPoint /\ switching = "none" /\ agentRound = 0
      /\ \A r \in Rounds : /\ pc[r] = "waiting" /\ body[r].at = "enter" /\ body[r].home = 0
                           /\ ~body[r].tools /\ body[r].ending = "none"
  BY DEF RoundsInit, Init
<1>1. BodyInv
  BY InitBodyInv
<1>2. BodyPhase /\ OneAtWork /\ SwitchAlone /\ AskedAlone
  BY <1>0 DEF BodyPhase, OneAtWork, SwitchAlone, AskedAlone, Working
<1>3. Homes /\ \A r \in Rounds : Local(r, body[r])
  BY <1>0 DEF Homes, Local
<1>4. Complete = {}
  BY <1>0 DEF Complete, Completed, Lineage
<1>5. StoreGood(store, agentRound) /\ RestGood(store, agentRound)
  BY <1>0, <1>4 DEF StoreGood, RestGood, Faithful
<1>6. \A r \in Retries : ~Working(r)
  BY <1>0, RetriesAssumption DEF Working
<1> QED  BY <1>0, <1>1, <1>2, <1>3, <1>4, <1>5, <1>6 DEF ChatInv

LEMMA ChatInvariant ==
  ASSUME ~Overlap
  PROVE  RoundsSpec => []ChatInv
<1>1. ChatInv /\ [RoundsNext]_allVars => ChatInv'
  BY ChatStep
<1> QED  BY <1>1, ChatInit, PTL DEF RoundsSpec

-----------------------------------------------------------------------------
(* While requests wait for the round in progress, what a round committed and  *)
(* the user has seen completed stays in the window, whole and in its place,   *)
(* through every later prompt, /retry, unsend, failed write and switch.       *)
THEOREM ExchangesKept ==
  ASSUME ~Overlap
  PROVE  RoundsSpec => []CompletedExchangeKept
<1>1. ChatInv => CompletedExchangeKept
  BY DEF ChatInv, StoreGood, Faithful, CompletedExchangeKept, Complete
<1> QED  BY <1>1, ChatInvariant, PTL

(* Then also no two completed exchanges bear one round number, although an    *)
(* unsent round gives its number back and a resumed one keeps that of the     *)
(* round it resumes, and the session has counted to all of them.              *)
THEOREM NumbersDistinct ==
  ASSUME ~Overlap
  PROVE  RoundsSpec => []ExchangeNumbersDistinct
<1>1. ChatInv => ExchangeNumbersDistinct
  BY DEF ChatInv, StoreGood, ExchangeNumbersDistinct, Complete, Lineage
<1> QED  BY <1>1, ChatInvariant, PTL

(* And whenever a request is out, the store holds all the round will go on    *)
(* from, under the round's own number.                                        *)
THEOREM TurnsAreSaved ==
  ASSUME ~Overlap
  PROVE  RoundsSpec => []TurnsSaved
<1>1. ChatInv => TurnsSaved
  BY DEF ChatInv, TurnsSaved, At, HandGood, Logged, Numbered
<1> QED  BY <1>1, ChatInvariant, PTL

(* And the window holds no message of a round of another session.             *)
THEOREM WindowIsOwn ==
  ASSUME ~Overlap
  PROVE  RoundsSpec => []OwnHistory
<1>1. ChatInv => OwnHistory
  BY DEF ChatInv, StoreGood, Faithful, OwnHistory
<1> QED  BY <1>1, ChatInvariant, PTL

(* A round that was taken back because nothing was committed leaves nothing   *)
(* in the window, if the user could not steer it.                             *)
THEOREM UnsentIsGone ==
  ASSUME ~Overlap, ~Steering
  PROVE  RoundsSpec => []UnsentLeavesNothing
<1>1. ChatInv => UnsentLeavesNothing
  BY DEF ChatInv, StoreGood, Faithful, UnsentLeavesNothing, Traceless, Absent
<1> QED  BY <1>1, ChatInvariant, PTL

(* If writes do not fail, a retry point that is offered works: it names the   *)
(* session's last round, lies within the window and resumes no completed      *)
(* exchange.                                                                  *)
THEOREM OfferedRetryIsGood ==
  ASSUME ~Overlap, ~WritesFail
  PROVE  RoundsSpec => []OfferedRetryWorks
<1>1. ChatInv => OfferedRetryWorks
  <2> SUFFICES ASSUME ChatInv, AtRest, store.retry # NoPoint
               PROVE  /\ store.retry.round = store.counter /\ store.retry.mark <= Len(store.window)
                      /\ \A r \in Lineage : Completed(r) => body[r].number # store.retry.round
    BY DEF OfferedRetryWorks
  <2>1. \A r \in Rounds : ~Working(r)
    BY DEF AtRest, Working
  <2>2. RestGood(store, agentRound)
    BY <2>1, NoneInHand
  <2>3. StoreGood(store, agentRound) /\ store \in Store /\ \A r \in Rounds : body[r] \in Body
    BY DEF ChatInv, BodyInv, ConversationTypeOK
  <2>4. \A r \in Rounds : body[r].number \in Nat
    BY <2>3 DEF Body
  <2>5. store.retry.round \in Nat
    BY <2>3 DEF Store, MaybePoint, RetryPoint
  <2> QED  BY <2>2, <2>3, <2>4, <2>5 DEF RestGood, StoreGood, Complete, Lineage
<1> QED  BY <1>1, ChatInvariant, PTL
=============================================================================
