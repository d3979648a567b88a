--------------------------- MODULE RoundLifecycle ---------------------------
(***************************************************************************)
(* The round lifecycle of one session                                      *)
(* (crates/neenee-agent/src/round_lifecycle.rs) together with everything   *)
(* that drives it: the prologue and the tail of an interactive round       *)
(* (orchestration.rs, start_interactive_round), the `!` shell round        *)
(* (neenee-runtime/src/shell.rs), and the three requests of the session's  *)
(* request loop that stop a round: Interrupt, /fork and /new.              *)
(*                                                                         *)
(* A cancellation token is identified with the round it was made for, so   *)
(* token_slot holds a round.  What a round does between its first status   *)
(* event and its end is the one action EndBody; InteractiveRounds.tla      *)
(* gives it.  One step of this module is the code between two points where *)
(* another task can run: an await, an atomic operation or a short lock.    *)
(***************************************************************************)
EXTENDS Integers, FiniteSets

CONSTANTS
    Rounds,       \* the rounds the session will be asked for, each once
    ShellRounds,  \* those of them that are `!` commands
    Crossing,     \* TRUE: the begin of a `!` command may cross the request loop's work
    Requests,     \* the stop requests in use, among "interrupt", "fork", "new"
    MaxStops,     \* bound on the number of stop requests
    NoRound       \* the empty slot

RequestKinds == {"interrupt", "fork", "new"}

ASSUME RoundsAssumption == NoRound \notin Rounds /\ ShellRounds \subseteq Rounds
ASSUME CrossingAssumption == Crossing \in BOOLEAN
ASSUME RequestsAssumption == Requests \subseteq RequestKinds /\ MaxStops \in Nat

VARIABLES
    generation,  \* RoundLifecycle::generation, an AtomicU64
    slot,        \* RoundLifecycle::token_slot
    reason,      \* RoundLifecycle::interrupt_reason
    cancelled,   \* the rounds whose token has been cancelled
    pc,          \* where the code of each round stands
    gen,         \* RoundBegin::generation of each round
    previous,    \* RoundBegin::previous of each round, while it is held
    result,      \* how the body of each round ended
    label,       \* what take_interrupt returned to each round
    driver,      \* the request the session's loop is dispatching
    published,   \* LoopStatus of the last HarnessState event sent
    stops        \* stop requests dispatched so far

lifecycle == <<generation, slot, reason, cancelled>>
round     == <<pc, gen, previous, result, label>>
session   == <<driver, published, stops>>
vars      == <<lifecycle, round, session>>

Reasons  == {"user", "superseded"}
Outcomes == {"ok", "error", "interrupted"}
Phases   == {"waiting", "reserved", "installed", "settled", "spawned", "running",
             "closing", "taken", "idling", "ended"}
Ops      == {"ready", "begin", "parkIdle", "supersede", "cancel", "close"} \cup RequestKinds

ChatRounds == Rounds \ ShellRounds
Idle       == [op |-> "ready", round |-> NoRound, idle |-> FALSE]

TypeOK ==
    /\ generation \in Nat
    /\ slot \in Rounds \cup {NoRound}
    /\ reason \in Reasons \cup {"none"}
    /\ cancelled \subseteq Rounds
    /\ pc \in [Rounds -> Phases]
    /\ gen \in [Rounds -> Nat]
    /\ previous \in [Rounds -> Rounds \cup {NoRound}]
    /\ result \in [Rounds -> Outcomes \cup {"none"}]
    /\ label \in [Rounds -> Reasons \cup {"none"}]
    /\ driver \in [op : Ops, round : Rounds \cup {NoRound}, idle : BOOLEAN]
    /\ published \in {"idle", "running"}
    /\ stops \in 0..MaxStops

Init ==
    /\ generation = 0 /\ slot = NoRound /\ reason = "none" /\ cancelled = {}
    /\ pc       = [r \in Rounds |-> "waiting"]
    /\ gen      = [r \in Rounds |-> 0]
    /\ previous = [r \in Rounds |-> NoRound]
    /\ result   = [r \in Rounds |-> "none"]
    /\ label    = [r \in Rounds |-> "none"]
    /\ driver = Idle /\ published = "idle" /\ stops = 0

Goto(r, phase) == pc' = [pc EXCEPT ![r] = phase]

(* is_current *)
IsCurrent(r) == gen[r] = generation

(* is_running: a token is installed and nobody has cancelled it. *)
IsRunning == slot # NoRound /\ slot \notin cancelled

(* record_interrupt: the last writer wins. *)
RecordInterrupt(why) == reason' = why

-----------------------------------------------------------------------------
(* The prologue of a round: begin, then the caller settles the predecessor. *)

(* A chat round is begun by the request loop, which waits for the prologue to *)
(* end; a shell round by its own task, which may meet the loop at work.       *)
SerialBegin(r) == r \in ChatRounds \/ ~Crossing

(* begin, first half: fetch_add. *)
Reserve(r) ==
    /\ pc[r] = "waiting"
    /\ SerialBegin(r) => driver.op = "ready"
    /\ driver' = IF SerialBegin(r) THEN [op |-> "begin", round |-> r, idle |-> FALSE] ELSE driver
    /\ generation' = generation + 1
    /\ gen' = [gen EXCEPT ![r] = generation + 1]
    /\ Goto(r, "reserved")
    /\ UNCHANGED <<slot, reason, cancelled, previous, result, label, published, stops>>

(* begin, second half: once the write lock is granted, replace the token. *)
Install(r) ==
    /\ pc[r] = "reserved"
    /\ previous' = [previous EXCEPT ![r] = slot]
    /\ slot' = r
    /\ Goto(r, IF slot = NoRound THEN "settled" ELSE "installed")
    /\ UNCHANGED <<generation, reason, cancelled, gen, result, label, session>>

(* The caller found a predecessor: park the reason before cancelling it. *)
ParkSuperseded(r) ==
    /\ pc[r] = "installed"
    /\ RecordInterrupt("superseded")
    /\ Goto(r, "settled")
    /\ UNCHANGED <<generation, slot, cancelled, gen, previous, result, label, session>>

(* Mutant: the predecessor is dropped without being cancelled. *)
LaunchWithoutCancel(r) ==
    /\ pc[r] = "settled"
    /\ previous' = [previous EXCEPT ![r] = NoRound]
    /\ Goto(r, IF r \in ShellRounds THEN "running" ELSE "spawned")
    /\ driver' = IF SerialBegin(r) THEN Idle ELSE driver
    /\ UNCHANGED <<lifecycle, gen, result, label, published, stops>>

(* Cancel the predecessor and go on: a chat round is spawned onto a task and *)
(* the request loop is free again; a shell round runs in its own task.       *)
Launch(r) ==
    /\ pc[r] = "settled"
    /\ cancelled' = cancelled \cup ({previous[r]} \ {NoRound})
    /\ previous' = [previous EXCEPT ![r] = NoRound]
    /\ Goto(r, IF r \in ShellRounds THEN "running" ELSE "spawned")
    /\ driver' = IF SerialBegin(r) THEN Idle ELSE driver
    /\ UNCHANGED <<generation, slot, reason, gen, result, label, published, stops>>

-----------------------------------------------------------------------------
(* The round's own task. *)

(* The spawned task starts: HarnessState(Running), whoever is current by now. *)
PublishRunning(r) ==
    /\ pc[r] = "spawned"
    /\ published' = "running"
    /\ Goto(r, "running")
    /\ UNCHANGED <<lifecycle, gen, previous, result, label, driver, stops>>

(* The body of a chat round returns: interrupted only by its own token; a     *)
(* panic counts as an error.                                                  *)
EndBody(r, outcome) ==
    /\ pc[r] = "running" /\ r \in ChatRounds
    /\ outcome = "interrupted" => r \in cancelled
    /\ result' = [result EXCEPT ![r] = outcome]
    /\ Goto(r, "closing")
    /\ UNCHANGED <<lifecycle, gen, previous, label, session>>

(* The `!` command ends or is killed by its token (a failing command ends     *)
(* normally).  The round goes straight to finish: it never takes a label.     *)
EndShell(r, outcome) ==
    /\ pc[r] = "running" /\ r \in ShellRounds
    /\ outcome = "ok" \/ (outcome = "interrupted" /\ r \in cancelled)
    /\ result' = [result EXCEPT ![r] = outcome]
    /\ Goto(r, "taken")
    /\ UNCHANGED <<lifecycle, gen, previous, label, session>>

(* take_interrupt, whatever the result was and whether or not the round is   *)
(* still current: a label found here is recorded durably and announced.      *)
TakeInterrupt(r) ==
    /\ pc[r] = "closing"
    /\ label' = [label EXCEPT ![r] = reason]
    /\ reason' = "none"
    /\ Goto(r, "taken")
    /\ UNCHANGED <<generation, slot, cancelled, gen, previous, result, session>>

(* Mutants: finish without the generation guard; finish that only reports. *)
FinishUnguarded(r) ==
    /\ pc[r] = "taken"
    /\ slot' = NoRound /\ Goto(r, "idling")
    /\ UNCHANGED <<generation, reason, cancelled, gen, previous, result, label, session>>

FinishWithoutRelease(r) ==
    /\ pc[r] = "taken"
    /\ Goto(r, IF IsCurrent(r) THEN "idling" ELSE "ended")
    /\ UNCHANGED <<lifecycle, gen, previous, result, label, session>>

(* finish: under the write lock, release the slot if still current. *)
Finish(r) ==
    /\ pc[r] = "taken"
    /\ \/ IsCurrent(r) /\ slot' = NoRound /\ Goto(r, "idling")
       \/ ~IsCurrent(r) /\ UNCHANGED slot /\ Goto(r, "ended")
    /\ UNCHANGED <<generation, reason, cancelled, gen, previous, result, label, session>>

(* The terminal HarnessState(Idle).  A chat round has awaited the session's *)
(* retry point since finish returned.                                       *)
PublishIdle(r) ==
    /\ pc[r] = "idling"
    /\ published' = "idle"
    /\ Goto(r, "ended")
    /\ UNCHANGED <<lifecycle, gen, previous, result, label, driver, stops>>

-----------------------------------------------------------------------------
(* The request loop dispatching a stop.  Whether the loop will reconcile the *)
(* displayed status is decided before the handler runs; /fork sends an Idle   *)
(* of its own unless it fails.                                               *)
Request(kind) ==
    /\ driver.op = "ready" /\ stops < MaxStops
    /\ \E sends \in BOOLEAN :
         /\ sends => kind = "fork"
         /\ driver' = [op |-> kind, round |-> NoRound, idle |-> sends \/ ~IsRunning]
    /\ stops' = stops + 1
    /\ UNCHANGED <<lifecycle, round, published>>

(* Both stop paths park their reason first, live round or not. *)
ParkReason ==
    /\ driver.op \in RequestKinds
    /\ RecordInterrupt(IF driver.op = "interrupt" THEN "user" ELSE "superseded")
    /\ driver' = [driver EXCEPT !.op = IF @ = "interrupt" THEN "parkIdle" ELSE "supersede"]
    /\ UNCHANGED <<generation, slot, cancelled, round, published, stops>>

(* interrupt: the eager Idle, before the round unwinds. *)
EagerIdle ==
    /\ driver.op = "parkIdle"
    /\ published' = "idle"
    /\ driver' = [driver EXCEPT !.op = "cancel"]
    /\ UNCHANGED <<lifecycle, round, stops>>

(* supersede_for_session_switch: the generation moves on without a successor. *)
Supersede ==
    /\ driver.op = "supersede"
    /\ generation' = generation + 1
    /\ driver' = [driver EXCEPT !.op = "cancel"]
    /\ UNCHANGED <<slot, reason, cancelled, round, published, stops>>

(* cancel_current: take the live token, if any, and cancel it. *)
CancelCurrent ==
    /\ driver.op = "cancel"
    /\ cancelled' = cancelled \cup ({slot} \ {NoRound})
    /\ slot' = NoRound
    /\ driver' = [driver EXCEPT !.op = "close"]
    /\ UNCHANGED <<generation, reason, round, published, stops>>

(* The handler has returned: the loop sends Idle if it decided to. *)
Reconcile ==
    /\ driver.op = "close"
    /\ published' = IF driver.idle THEN "idle" ELSE published
    /\ driver' = Idle
    /\ UNCHANGED <<lifecycle, round, stops>>

-----------------------------------------------------------------------------
Prologue(r) == Reserve(r) \/ Install(r) \/ ParkSuperseded(r) \/ Launch(r)

Epilogue(r) == TakeInterrupt(r) \/ Finish(r) \/ PublishIdle(r)

RoundStep(r) ==
    Prologue(r) \/ PublishRunning(r) \/ Epilogue(r)
    \/ \E o \in Outcomes : EndBody(r, o) \/ EndShell(r, o)

DriverStep == ParkReason \/ EagerIdle \/ Supersede \/ CancelCurrent \/ Reconcile

(* Every round has run and the loop waits for requests that never come. *)
Quiescent ==
    /\ driver.op = "ready" /\ \A r \in Rounds : pc[r] = "ended"
    /\ UNCHANGED vars

Next ==
    \/ \E r \in Rounds : RoundStep(r)
    \/ \E kind \in Requests : Request(kind)
    \/ DriverStep
    \/ Quiescent

(***************************************************************************)
(* A task that can take a step is eventually polled; a body whose token is *)
(* cancelled returns.  Nothing obliges the user to send a request, nor an  *)
(* uncancelled body to return (it may wait for a permission reply).        *)
(***************************************************************************)
Fairness ==
    /\ \A r \in Rounds :
         /\ WF_vars(Install(r) \/ ParkSuperseded(r) \/ Launch(r) \/ PublishRunning(r) \/ Epilogue(r))
         /\ WF_vars(EndBody(r, "interrupted") \/ EndShell(r, "interrupted"))
    /\ WF_vars(DriverStep)

Lifecycle == Init /\ [][Next]_vars

Spec == Lifecycle /\ Fairness

-----------------------------------------------------------------------------
(* Vocabulary of the properties. *)

Beginning(r) == pc[r] \in {"reserved", "installed", "settled"}
Live(r)      == pc[r] \in {"spawned", "running"} /\ r \notin cancelled
Unwound(r)   == pc[r] \in {"idling", "ended"}

(* "At most one active round": once every begin has settled its predecessor, *)
(* two rounds are never both working with an uncancelled token.              *)
AtMostOneLive ==
    (\A r \in Rounds : ~Beginning(r)) =>
        \A r, q \in Rounds : Live(r) /\ Live(q) => r = q

(* Interrupt and switch cancel what the slot holds, so a round that still    *)
(* works must be in it, or be the predecessor a begin is about to cancel:    *)
(* no round ever runs out of reach of the user's stop.                       *)
LiveRoundReachable ==
    \A r \in Rounds : Live(r) =>
        slot = r \/ \E q \in Rounds : pc[q] \in {"installed", "settled"} /\ previous[q] = r

(* The slot never keeps the token of a round that has ended (is_running      *)
(* would stay true for ever), except while a begin is about to replace it or *)
(* a switch to take it.                                                      *)
NoLeakedToken ==
    slot # NoRound /\ driver.op # "cancel" /\ (\A r \in Rounds : pc[r] # "reserved") =>
        ~Unwound(slot)

(* finish(N) after supersession is a no-op: no step of a round's tail takes  *)
(* another round's token out of the slot.                                    *)
FinishSparesSuccessor ==
    [][\A r \in Rounds : Finish(r) /\ slot' # slot => slot = r]_vars

(* A superseded round is told to stop and unwinds to its end. *)
SupersededEnds ==
    \A r \in Rounds : (pc[r] = "running" /\ ~IsCurrent(r)) ~> pc[r] = "ended"

-----------------------------------------------------------------------------
(* Why the safety properties hold when begins are serial: the conjuncts of    *)
(* an inductive invariant.                                                    *)

Begun(r)     == pc[r] # "waiting"
Installed(r) == pc[r] \notin {"waiting", "reserved"}
Replacing(r) == pc[r] \in {"installed", "settled"}

(* fetch_add never hands out a generation twice. *)
GenerationsDistinct ==
    \A r, q \in Rounds : Begun(r) =>
        gen[r] <= generation /\ (Begun(q) /\ gen[q] = gen[r] => q = r)

(* The request loop is inside the only begin there is, and nothing bumps the *)
(* generation meanwhile; once installed, the token stays in the slot.        *)
OneBegin ==
    /\ \A r \in Rounds : Beginning(r) =>
          driver.op = "begin" /\ driver.round = r /\ gen[r] = generation
    /\ \A r \in Rounds : Replacing(r) => slot = r

(* The slot holds the newest of the installed generations, and the current   *)
(* one unless a begin or a switch has just moved the counter on.             *)
SlotNewest ==
    slot # NoRound =>
        /\ Installed(slot)
        /\ \A r \in Rounds : Installed(r) => gen[r] <= gen[slot]
        /\ gen[slot] = generation \/ driver.op = "cancel" \/ \E r \in Rounds : pc[r] = "reserved"

SerialInv ==
    /\ TypeOK /\ GenerationsDistinct /\ OneBegin /\ SlotNewest
    /\ LiveRoundReachable /\ NoLeakedToken

=============================================================================
