----------------------------- MODULE UserInputs -----------------------------
(***************************************************************************)
(* Input the user sends to a round in progress: the agent's inbox          *)
(* (crates/neenee-agent/src/agent.rs, UserInputRound and the five          *)
(* operations under its mutex), the requests that put input into it or     *)
(* take it out again (neenee-runtime/src/handlers_chat.rs), the turn loop  *)
(* that admits it (resume_streaming_with_events) and the prologue and tail *)
(* of a round that open and close it (orchestration.rs).  The rounds are   *)
(* chat rounds of the session's main agent, which has one inbox for all.   *)
(*                                                                         *)
(* The lifecycle is here as far as the inbox depends on it: who is         *)
(* cancelled when, and which round is current.  RoundLifecycle.tla has the *)
(* rest, and the proof that what a begin or a stop finds in the slot is    *)
(* the one round that works.  Left out: what a provider or a tool does     *)
(* during a request, provider retries (they go back to the request, past   *)
(* the admission), /btw sides (each has an agent and an inbox of its own). *)
(***************************************************************************)
EXTENDS Naturals, Sequences, SequencesExt

CONSTANTS
    Rounds,    \* the chat rounds the session will be asked for, each once
    Inputs,    \* the inputs the user may send, each once
    MaxTurns,  \* bound on the turns of a round
    MaxStops,  \* bound on the interrupts and session switches
    NoRound,   \* the empty token slot
    NoInbox    \* Agent::user_input_queue is None

ASSUME NoRoundAssumption == NoRound \notin Rounds
ASSUME NoInboxAssumption == NoInbox \notin [session : Nat, gen : Nat, queue : Seq(Inputs)]
ASSUME BoundsAssumption == MaxTurns \in Nat \ {0} /\ MaxStops \in Nat

VARIABLES
    generation,  \* RoundLifecycle::generation
    slot,        \* RoundLifecycle::token_slot, as the round the token was made for
    cancelled,   \* the rounds whose token has been cancelled
    gen,         \* RoundBegin::generation of each round
    loop,        \* the request being dispatched, how far, and the round it begins or replaces
    stops,       \* interrupts and switches so far
    current,     \* the session the main agent works for
    inbox,       \* user_input_queue: the open UserInputRound, or NoInbox
    at,          \* where the task of each round stands
    turn,        \* StreamingRoundState::turn_index
    seen,        \* StreamingRoundState::user_input_generation; 0 is None
    outcome,     \* how the body of each round ended, while its task lasts
    told,        \* history: what the user was told of each input, in order
    heldBy,      \* history: the round whose inbox took each input
    heardBy      \* history: the round that admitted each input

lifecycle == <<generation, slot, cancelled, gen>>
requests  == <<loop, stops, current>>
bodies    == <<turn, seen, outcome>>
history   == <<heldBy, heardBy>>
vars      == <<lifecycle, requests, inbox, at, bodies, told, history>>

Places   == {"waiting", "beginning", "entering", "turn", "admit", "request", "exit", "saving",
             "over", "shut", "ended"}
LoopOps  == {"ready", "cancelPrevious", "open", "cancelCurrent", "repoint"}
Outcomes == {"none", "denied", "ok", "error", "interrupted"}
Tales    == {"heard", "returned", "withdrawn"}
Inbox    == [session : Nat, gen : Nat, queue : Seq(Inputs)]

TypeOK ==
    /\ generation \in Nat /\ slot \in Rounds \cup {NoRound} /\ cancelled \subseteq Rounds
    /\ gen \in [Rounds -> Nat]
    /\ loop \in [op : LoopOps, round : Rounds \cup {NoRound}, previous : Rounds \cup {NoRound}]
    /\ stops \in 0..MaxStops /\ current \in Nat
    /\ inbox \in Inbox \cup {NoInbox}
    /\ at \in [Rounds -> Places] /\ turn \in [Rounds -> 0..MaxTurns] /\ seen \in [Rounds -> Nat]
    /\ outcome \in [Rounds -> Outcomes]
    /\ told \in [Inputs -> Seq(Tales)]
    /\ heldBy \in [Inputs -> Rounds \cup {NoRound}]
    /\ heardBy \in [Inputs -> Rounds \cup {NoRound}]

Loop(op, r, previous) == [op |-> op, round |-> r, previous |-> previous]
Ready == Loop("ready", NoRound, NoRound)

Init ==
    /\ generation = 0 /\ slot = NoRound /\ cancelled = {} /\ gen = [r \in Rounds |-> 0]
    /\ loop = Ready /\ stops = 0 /\ current = 0
    /\ inbox = NoInbox
    /\ at = [r \in Rounds |-> "waiting"]
    /\ turn = [r \in Rounds |-> 0] /\ seen = [r \in Rounds |-> 0]
    /\ outcome = [r \in Rounds |-> "none"]
    /\ told = [i \in Inputs |-> <<>>]
    /\ heldBy = [i \in Inputs |-> NoRound] /\ heardBy = [i \in Inputs |-> NoRound]

Queue   == IF inbox = NoInbox THEN <<>> ELSE inbox.queue
Held(i) == i \in ToSet(Queue)

Goes(r, place) == at' = [at EXCEPT ![r] = place]

(* The event that ends the wait for each of the inputs. *)
Tell(inputs, tale) ==
    told' = [i \in Inputs |-> IF i \in inputs THEN Append(told[i], tale) ELSE told[i]]

-----------------------------------------------------------------------------
(* The request loop: one request after the other. *)

(* A round is asked for: begin installs its token. *)
Begin(r) ==
    /\ loop.op = "ready" /\ at[r] = "waiting"
    /\ generation' = generation + 1 /\ gen' = [gen EXCEPT ![r] = generation + 1]
    /\ slot' = r /\ loop' = Loop("cancelPrevious", r, slot)
    /\ Goes(r, "beginning")
    /\ UNCHANGED <<cancelled, stops, current, inbox, bodies, told, history>>

(* Its predecessor is cancelled before the inbox changes hands. *)
CancelPrevious ==
    /\ loop.op = "cancelPrevious"
    /\ cancelled' = cancelled \cup ({loop.previous} \ {NoRound})
    /\ loop' = Loop("open", loop.round, NoRound)
    /\ UNCHANGED <<generation, slot, gen, stops, current, inbox, at, bodies, told, history>>

(* Mutant: the successor leaves what it finds in the inbox to nobody. *)
OpenInboxSilently ==
    /\ loop.op = "open"
    /\ inbox' = [session |-> current, gen |-> gen[loop.round], queue |-> <<>>]
    /\ loop' = Ready /\ Goes(loop.round, "entering")
    /\ UNCHANGED <<lifecycle, stops, current, bodies, told, history>>

(* begin_user_input_round: a fresh queue, and what the old one still held goes *)
(* back to the sender; then the round is spawned.                             *)
OpenInbox ==
    /\ loop.op = "open"
    /\ inbox' = [session |-> current, gen |-> gen[loop.round], queue |-> <<>>]
    /\ Tell(ToSet(Queue), "returned")
    /\ loop' = Ready /\ Goes(loop.round, "entering")
    /\ UNCHANGED <<lifecycle, stops, current, bodies, history>>

(* The main agent is the target of the current session only, and the inbox     *)
(* must have been opened for it.                                              *)
Takes(session_id) == session_id = current /\ inbox # NoInbox /\ inbox.session = session_id

Owner == CHOOSE r \in Rounds : at[r] # "waiting" /\ gen[r] = inbox.gen

(* insert_user_input, submit_user_input: the session the user typed it into    *)
(* decides whether it is taken in or refused.                                 *)
Submit(i, session_id) ==
    /\ loop.op = "ready" /\ told[i] = <<>> /\ ~Held(i)
    /\ \/ /\ Takes(session_id)
          /\ inbox' = [inbox EXCEPT !.queue = Append(@, i)]
          /\ heldBy' = [heldBy EXCEPT ![i] = Owner]
          /\ UNCHANGED told
       \/ /\ ~Takes(session_id)
          /\ Tell({i}, "returned") /\ UNCHANGED <<inbox, heldBy>>
    /\ UNCHANGED <<lifecycle, requests, at, bodies, heardBy>>

(* cancel_inserted_input, cancel_user_input; one that fails changes nothing. *)
Cancel(i, session_id) ==
    /\ loop.op = "ready" /\ Takes(session_id) /\ Held(i)
    /\ \E k \in DOMAIN inbox.queue :
         inbox.queue[k] = i /\ inbox' = [inbox EXCEPT !.queue = RemoveAt(@, k)]
    /\ Tell({i}, "withdrawn")
    /\ UNCHANGED <<lifecycle, requests, at, bodies, history>>

(* interrupt cancels what the slot holds; so does a session switch, once it    *)
(* has moved the generation on, *)
CancelCurrent ==
    /\ \/ loop.op = "ready" /\ stops < MaxStops /\ stops' = stops + 1 /\ UNCHANGED loop
       \/ loop.op = "cancelCurrent" /\ loop' = Loop("repoint", NoRound, NoRound) /\ UNCHANGED stops
    /\ cancelled' = cancelled \cup ({slot} \ {NoRound}) /\ slot' = NoRound
    /\ UNCHANGED <<generation, gen, current, inbox, at, bodies, told, history>>

Supersede ==
    /\ loop.op = "ready" /\ stops < MaxStops
    /\ generation' = generation + 1
    /\ loop' = Loop("cancelCurrent", NoRound, NoRound) /\ stops' = stops + 1
    /\ UNCHANGED <<slot, cancelled, gen, current, inbox, at, bodies, told, history>>

(* and the store is repointed, unless the switch fails. *)
Repoint ==
    /\ loop.op = "repoint" /\ loop' = Ready
    /\ current' \in {current, current + 1}
    /\ UNCHANGED <<lifecycle, stops, inbox, at, bodies, told, history>>

-----------------------------------------------------------------------------
(* The body of a round. *)

(* What the steps of a body that do not end it leave alone. *)
Within(r) == UNCHANGED <<lifecycle, requests, outcome, heldBy>>

(* The body returns, and its locals are gone. *)
Return(r, result) ==
    /\ outcome' = [outcome EXCEPT ![r] = result] /\ Goes(r, "over")
    /\ turn' = [turn EXCEPT ![r] = 0] /\ seen' = [seen EXCEPT ![r] = 0]
    /\ UNCHANGED <<lifecycle, requests, heldBy>>

Quietly == UNCHANGED <<inbox, told, heardBy>>

(* A UserPromptSubmit hook denies the prompt. *)
HookDenies(r) == at[r] = "entering" /\ Return(r, "denied") /\ Quietly

(* begin_streaming_round, resume_streaming_round: the inbox that is open now. *)
CaptureInbox(r) ==
    /\ at[r] = "entering" /\ Goes(r, "turn")
    /\ seen' = [seen EXCEPT ![r] = IF inbox = NoInbox THEN 0 ELSE inbox.gen]
    /\ Within(r) /\ Quietly /\ UNCHANGED turn

(* Mutant: the loop admits input before it looks at its token. *)
SkipCheck(r) ==
    /\ at[r] = "turn" /\ Goes(r, "admit")
    /\ Within(r) /\ Quietly /\ UNCHANGED <<turn, seen>>

(* The top of the loop: the token first, *)
CheckCancel(r) ==
    /\ at[r] = "turn" /\ r \notin cancelled /\ Goes(r, "admit")
    /\ Within(r) /\ Quietly /\ UNCHANGED <<turn, seen>>

(* admit_user_inputs: everything queued, if the inbox is still the one seen.  *)
IsMine(r)  == inbox # NoInbox /\ inbox.gen = seen[r]
Waiting(r) == IsMine(r) /\ inbox.queue # <<>>

AdmitAll(r) ==
    /\ inbox' = [inbox EXCEPT !.queue = <<>>]
    /\ Tell(ToSet(inbox.queue), "heard")
    /\ heardBy' = [i \in Inputs |-> IF Held(i) THEN r ELSE heardBy[i]]

(* then the input of the last turn; *)
AdmitAtTop(r) ==
    /\ at[r] = "admit" /\ Goes(r, "request")
    /\ \/ IsMine(r) /\ AdmitAll(r)
       \/ ~IsMine(r) /\ Quietly
    /\ Within(r) /\ UNCHANGED <<turn, seen>>

(* a response with tool calls takes another turn, one without is the exit. *)
CallTools(r) ==
    /\ at[r] = "request" /\ turn[r] < MaxTurns
    /\ turn' = [turn EXCEPT ![r] = @ + 1] /\ Goes(r, "turn")
    /\ Within(r) /\ Quietly /\ UNCHANGED seen

Answer(r) ==
    /\ at[r] = "request" /\ Goes(r, "exit")
    /\ Within(r) /\ Quietly /\ UNCHANGED <<turn, seen>>

(* Mutant: the gate is left open when the queue is found empty. *)
ExitGateOpen(r) ==
    /\ at[r] = "exit"
    /\ \/ /\ Waiting(r) /\ AdmitAll(r)
          /\ turn[r] < MaxTurns /\ turn' = [turn EXCEPT ![r] = @ + 1] /\ Goes(r, "turn")
       \/ /\ ~Waiting(r)
          /\ Goes(r, "saving") /\ Quietly /\ UNCHANGED turn
    /\ Within(r) /\ UNCHANGED seen

(* The exit: a stop gate may ask for one more turn; input that arrived takes   *)
(* one as well; else the inbox is closed in the same step that found it empty. *)
ExitGate(r) ==
    /\ at[r] = "exit"
    /\ \/ /\ Waiting(r) /\ AdmitAll(r)
          /\ turn[r] < MaxTurns /\ turn' = [turn EXCEPT ![r] = @ + 1] /\ Goes(r, "turn")
       \/ /\ ~Waiting(r)
          /\ turn[r] < MaxTurns /\ turn' = [turn EXCEPT ![r] = @ + 1] /\ Goes(r, "turn")
          /\ Quietly
       \/ /\ ~Waiting(r)
          /\ inbox' = IF IsMine(r) THEN NoInbox ELSE inbox
          /\ Goes(r, "saving") /\ UNCHANGED <<turn, told, heardBy>>
    /\ Within(r) /\ UNCHANGED seen

(* At the turn budget the input is admitted and the round fails. *)
HardStop(r) ==
    /\ at[r] = "exit" /\ turn[r] = MaxTurns /\ Return(r, "error")
    /\ \/ IsMine(r) /\ AdmitAll(r)
       \/ ~IsMine(r) /\ Quietly

(* The response is saved and the body returns. *)
Saved(r) == at[r] = "saving" /\ Return(r, "ok") /\ Quietly

(* The token is seen at the top of the loop or during a request; a round whose *)
(* session was switched away ends the same way.                               *)
Interrupted(r) ==
    /\ at[r] \in {"turn", "request", "saving"} /\ r \in cancelled
    /\ Return(r, "interrupted") /\ Quietly

(* A write, a hook or the provider fails, at any point of the body. *)
Fail(r) ==
    /\ at[r] \in {"entering", "turn", "request", "saving"}
    /\ Return(r, "error") /\ Quietly

-----------------------------------------------------------------------------
(* The tail: the inbox is closed first, if it is still this round's. *)

CloseWith(r, mine, returned) ==
    /\ at[r] = "over" /\ Goes(r, "shut")
    /\ inbox' = IF mine THEN NoInbox ELSE inbox
    /\ Tell(returned, "returned")
    /\ UNCHANGED <<lifecycle, requests, bodies, history>>

OpenedBy(r) == inbox # NoInbox /\ inbox.gen = gen[r]

(* Mutant: what the inbox held is dropped. *)
CloseSilently(r) == CloseWith(r, OpenedBy(r), {})

(* close_user_input_round: what never crossed a turn boundary goes back. *)
CloseInbox(r) == CloseWith(r, OpenedBy(r), IF OpenedBy(r) THEN ToSet(Queue) ELSE {})

(* finish: the slot is released if the round is still current; the task ends. *)
Finish(r) ==
    /\ at[r] = "shut" /\ Goes(r, "ended")
    /\ slot' = IF gen[r] = generation THEN NoRound ELSE slot
    /\ outcome' = [outcome EXCEPT ![r] = "none"]
    /\ UNCHANGED <<generation, cancelled, gen, requests, inbox, turn, seen, told, history>>

-----------------------------------------------------------------------------
(* What a round's task does of itself, *)
Task(r) ==
    \/ CaptureInbox(r) \/ CheckCancel(r) \/ AdmitAtTop(r) \/ ExitGate(r) \/ HardStop(r)
    \/ Saved(r) \/ Interrupted(r) \/ CloseInbox(r) \/ Finish(r)

(* and what it needs the provider, a tool or a hook for. *)
Environment(r) == HookDenies(r) \/ CallTools(r) \/ Answer(r) \/ Fail(r)

Prologue == CancelPrevious \/ OpenInbox

Requests ==
    \/ \E r \in Rounds : Begin(r)
    \/ \E i \in Inputs, s \in 0..current : Submit(i, s) \/ Cancel(i, s)
    \/ CancelCurrent \/ Supersede \/ Repoint

(* Every round has run and the loop waits for requests that never come. *)
Quiescent ==
    /\ loop.op = "ready" /\ \A r \in Rounds : at[r] = "ended"
    /\ UNCHANGED vars

Next ==
    \/ \E r \in Rounds : Task(r) \/ Environment(r)
    \/ Prologue \/ Requests \/ Quiescent

(* A task that can move is polled, and a request in dispatch is carried       *)
(* through; nobody need send a request, nor the provider answer one, but a    *)
(* cancelled one is dropped.                                                  *)
Fairness ==
    /\ \A r \in Rounds : WF_vars(Task(r))
    /\ WF_vars(Prologue)

Spec == Init /\ [][Next]_vars /\ Fairness

-----------------------------------------------------------------------------
(* The inbox implements the promise of InputDelivery. *)
StageOf(i) ==
    IF told[i] = <<>> THEN IF Held(i) THEN "held" ELSE "unsent"
    ELSE IF Len(told[i]) = 1 /\ ~Held(i) THEN told[i][1] ELSE "broken"

Delivery == INSTANCE InputDelivery WITH stage <- [i \in Inputs |-> StageOf(i)]

(* Every input taken in leaves once, to one place, and nothing is dropped. *)
DeliversInputs == Delivery!Spec

(* Input is heard by the round it was taken in for and by no other, although  *)
(* a superseded round may look the inbox up when its successor has opened it. *)
HeardByItsRound ==
    \A i \in Inputs : heardBy[i] # NoRound => heardBy[i] = heldBy[i]

(* The admission gate closes atomically: a round that runs to its answer       *)
(* without being stopped has heard everything it took in.                     *)
AcceptedIsHeard ==
    \A r \in Rounds : outcome[r] = "ok" /\ r \notin cancelled =>
        \A i \in Inputs : heldBy[i] = r => "returned" \notin ToSet(told[i])

(* Input held for a round that was stopped does not wait for ever. *)
StoppedAnswers ==
    \A r \in Rounds :
        r \in cancelled ~> \A i \in Inputs : heldBy[i] = r => told[i] # <<>>
=============================================================================
