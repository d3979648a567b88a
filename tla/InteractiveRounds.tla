------------------------- MODULE InteractiveRounds -------------------------
(***************************************************************************)
(* What the chat rounds of a session do between their first status event   *)
(* and their end (crates/neenee-agent/src/orchestration.rs, execute_round, *)
(* and the loop of agent.rs it calls), and what that leaves in the session *)
(* store: the model window, the durable round counter and the /retry       *)
(* point.  The module superposes this on RoundLifecycle: every action of   *)
(* the lifecycle is here with its effect on the conversation, the body of  *)
(* a round is a series of steps that stutter there, and the step that ends *)
(* it is EndBody.                                                          *)
(*                                                                         *)
(* A message is the round that wrote it and its kind; an assistant message *)
(* with tool calls and the results are one message, "turn".  Left out:     *)
(* pruning and compaction of the window, todos, usage records, the hook    *)
(* texts, hidden prompts.                                                  *)
(***************************************************************************)
EXTENDS RoundLifecycle, Sequences, SequencesExt

CONSTANTS
    Retries,      \* the rounds that are /retry commands
    Overlap,      \* FALSE: the user asks for a round or a switch only between rounds
    Steering,     \* TRUE: the user may send input to a round in progress
    WritesFail,   \* TRUE: a write to the session's files may fail
    MaxAttempts,  \* retry_limit
    MaxWindow,    \* bound on the length of a round's history
    NoPoint       \* no /retry point

ASSUME ChatOnly == ShellRounds = {} /\ ~Crossing
ASSUME RetriesAssumption == Retries \subseteq Rounds
ASSUME SwitchesAssumption == {Overlap, Steering, WritesFail} \subseteq BOOLEAN
ASSUME BoundsAssumption == MaxAttempts \in Nat \ {0} /\ MaxWindow \in Nat
ASSUME NoPointAssumption == NoPoint \notin [round : Nat, mark : Nat]

VARIABLES
    store,       \* the session store: the session it points at, the one that is a fork of
                 \* by parent_id, model_window, round_counter and retry_pending
    agentRound,  \* Agent::round_counter, in memory
    body,        \* the locals of execute_round, for each round
    asked,       \* the retry point /retry has read and not yet used
    switching    \* the switch whose handler has not yet repointed the store

conversation == <<store, agentRound, body, asked, switching>>
allVars == <<vars, conversation>>

Kinds == {"prompt", "steer", "turn", "answer"}
Steps == {"enter", "bump", "clear", "identify", "window", "save", "count", "turn", "request",
          "backoff", "unwind", "restore", "unpark", "commit", "retire", "arm", "mirror", "done"}

Message    == [round : Rounds, kind : Kinds]
RetryPoint == [round : Nat, mark : Nat]
MaybePoint == RetryPoint \cup {NoPoint}

Say(r, kind)    == [round |-> r, kind |-> kind]
FromUser(m)     == m.kind \in {"prompt", "steer"}
UpTo(window, mark) == SubSeq(window, 1, IF mark < Len(window) THEN mark ELSE Len(window))

Store == [id : Nat, root : Nat, window : Seq(Message), counter : Nat, retry : MaybePoint]
Body  == [at : Steps, before : Nat, number : Nat, home : Nat, history : Seq(Message),
          streamed : BOOLEAN, tools : BOOLEAN, attempt : Nat,
          ending : Outcomes \cup {"none"}, point : MaybePoint]

ConversationTypeOK ==
    /\ store \in Store /\ agentRound \in Nat /\ body \in [Rounds -> Body]
    /\ asked \in MaybePoint
    /\ switching \in {"none", "fork", "new"}

RoundsInit ==
    /\ Init
    /\ store = [id |-> 0, root |-> 0, window |-> <<>>, counter |-> 0, retry |-> NoPoint]
    /\ agentRound = 0
    /\ body = [r \in Rounds |-> [at |-> "enter", before |-> 0, number |-> 0, home |-> 0,
                                 history |-> <<>>, streamed |-> FALSE, tools |-> FALSE,
                                 attempt |-> 1, ending |-> "none", point |-> NoPoint]]
    /\ asked = NoPoint /\ switching = "none"

-----------------------------------------------------------------------------
(* The request loop. *)

(* Nothing is under way; no request need ever come. *)
AtRest == driver.op = "ready" /\ \A r \in Rounds : pc[r] \in {"waiting", "ended"}

(* When the user may ask for a round or a switch. *)
Awaited == Overlap \/ AtRest

(* /retry reads the point, unless a round runs or the point is stale; it is   *)
(* used when the round begins.                                                *)
AskRetry ==
    /\ driver.op = "ready" /\ Awaited /\ asked = NoPoint
    /\ ~IsRunning /\ store.retry # NoPoint
    /\ \/ /\ store.retry.round = store.counter
          /\ \E r \in Retries : pc[r] = "waiting"
          /\ asked' = store.retry /\ UNCHANGED store
       \/ /\ store.retry.round # store.counter
          /\ store' = [store EXCEPT !.retry = NoPoint] /\ UNCHANGED asked
    /\ UNCHANGED <<vars, agentRound, body, switching>>

(* A round is asked for: a resume with its point, or a fresh prompt. *)
Begin(r) ==
    /\ Reserve(r)
    /\ Awaited
    /\ (asked # NoPoint) <=> (r \in Retries)
    /\ body' = [body EXCEPT ![r].point = asked]
    /\ asked' = NoPoint
    /\ UNCHANGED <<store, agentRound, switching>>

Stop(kind) ==
    /\ Request(kind) /\ asked = NoPoint
    /\ kind = "interrupt" \/ Awaited
    /\ switching' = IF kind = "interrupt" THEN "none" ELSE kind
    /\ UNCHANGED <<store, agentRound, body, asked>>

(* Mutant: /new takes the window along. *)
RepointKeepsWindow ==
    /\ driver.op = "close" /\ switching # "none"
    /\ store' = [store EXCEPT !.id = @ + 1, !.root = IF switching = "new" THEN store.id + 1 ELSE @]
    /\ agentRound' = store'.counter /\ switching' = "none"
    /\ UNCHANGED <<vars, body, asked>>

(* /fork and /new repoint the store and rebase the agent's counter.  A fork    *)
(* copies the session, the retry point included; an empty one is not forked.  *)
Repoint ==
    /\ driver.op = "close" /\ switching # "none"
    /\ LET next == IF switching = "fork"
                   THEN IF store.window = <<>> THEN store ELSE [store EXCEPT !.id = @ + 1]
                   ELSE [id |-> store.id + 1, root |-> store.id + 1,
                         window |-> <<>>, counter |-> 0, retry |-> NoPoint]
       IN /\ store' = next
          /\ agentRound' = IF next.id = store.id THEN agentRound ELSE next.counter
    /\ switching' = "none"
    /\ UNCHANGED <<vars, body, asked>>

-----------------------------------------------------------------------------
(* The body of a round.  At(r, step): it stands there and its task runs.      *)

At(r, step) == pc[r] = "running" /\ body[r].at = step

Step(r, step) == body' = [body EXCEPT ![r].at = step]

(* The steps that neither end the body nor touch the lifecycle. *)
Within(r) == UNCHANGED <<vars, asked, switching>>

(* The body returns; of its locals the properties still look at some. *)
Return(r, outcome) ==
    /\ EndBody(r, outcome)
    /\ body' = [body EXCEPT ![r].at = "done", ![r].before = 0, ![r].streamed = FALSE,
                            ![r].attempt = 1, ![r].point = NoPoint]
    /\ UNCHANGED <<asked, switching>>

(* A write fails: the store already holds the change, and the body ends. *)
WriteFails(r) == WritesFail /\ Return(r, "error")

Enter(r) ==
    /\ At(r, "enter")
    /\ body' = [body EXCEPT ![r].before = agentRound,
                            ![r].at = IF r \in Retries THEN "identify" ELSE "bump"]
    /\ Within(r) /\ UNCHANGED <<store, agentRound>>

(* A UserPromptSubmit hook refuses the prompt: no round is opened. *)
HookDenies(r) == At(r, "bump") /\ Return(r, "ok") /\ UNCHANGED <<store, agentRound>>

(* Mutant: the prompt opens no round of its own. *)
AdmitWithoutBump(r) ==
    /\ At(r, "bump") /\ Step(r, "clear")
    /\ Within(r) /\ UNCHANGED <<store, agentRound>>

BumpRound(r) ==
    /\ At(r, "bump")
    /\ agentRound' = agentRound + 1
    /\ Step(r, "clear")
    /\ Within(r) /\ UNCHANGED store

ClearStalePoint(r) ==
    /\ At(r, "clear")
    /\ store' = [store EXCEPT !.retry = NoPoint]
    /\ Step(r, "identify")
    /\ Within(r) /\ UNCHANGED agentRound

(* admitted_round and admitted_session_id. *)
Identify(r) ==
    /\ At(r, "identify")
    /\ body' = [body EXCEPT ![r].at = "window", ![r].home = store.id,
                            ![r].number = IF r \in Retries THEN body[r].point.round ELSE agentRound]
    /\ Within(r) /\ UNCHANGED <<store, agentRound>>

(* round_history: the window and the prompt, or the window up to the watermark. *)
ReadWindow(r) ==
    /\ At(r, "window")
    /\ body' = [body EXCEPT ![r].at = "save",
                            ![r].history = IF r \in Retries
                                           THEN UpTo(store.window, body[r].point.mark)
                                           ELSE Append(store.window, Say(r, "prompt"))]
    /\ Within(r) /\ UNCHANGED <<store, agentRound>>

(* The round is made durable before any request. *)
SaveWindow(r) ==
    /\ At(r, "save")
    /\ store' = [store EXCEPT !.window = body[r].history]
    /\ WriteFails(r) \/ (Step(r, "count") /\ Within(r))
    /\ UNCHANGED agentRound

SaveCounter(r) ==
    /\ At(r, "count")
    /\ store' = [store EXCEPT !.counter = body[r].number]
    /\ WriteFails(r) \/ (Step(r, "turn") /\ Within(r))
    /\ UNCHANGED agentRound

(* append_turn and the save point around it: the new tail, or everything when *)
(* the prefixes differ, but nothing unless there is more than the store has.  *)
AppendTurn(history) ==
    store' = [store EXCEPT !.window = IF Len(history) <= Len(@) THEN @ ELSE history,
                           !.counter = agentRound]

HasRoom(r) == Len(body[r].history) < MaxWindow

(* The top of the loop: queued input is admitted and the request assembled. *)
Prepare(r) ==
    /\ At(r, "turn")
    /\ \/ Step(r, "request") /\ UNCHANGED store
       \/ /\ Steering /\ HasRoom(r)
          /\ body' = [body EXCEPT ![r].at = "request", ![r].history = Append(@, Say(r, "steer"))]
          /\ AppendTurn(body'[r].history)
    /\ Within(r) /\ UNCHANGED agentRound

(* A content delta reaches the frontends. *)
Delta(r) ==
    /\ At(r, "request")
    /\ body' = [body EXCEPT ![r].streamed = TRUE]
    /\ Within(r) /\ UNCHANGED <<store, agentRound>>

(* Mutant: the turn goes on without the save point. *)
CallToolsUnsaved(r) ==
    /\ At(r, "request") /\ HasRoom(r)
    /\ body' = [body EXCEPT ![r].at = "turn", ![r].tools = TRUE,
                            ![r].history = Append(@, Say(r, "turn"))]
    /\ Within(r) /\ UNCHANGED <<store, agentRound>>

(* The response calls tools; they run, and the turn is saved.  Stopped while   *)
(* they run, or by the turn budget, it is not.                                *)
CallTools(r) ==
    /\ At(r, "request") /\ HasRoom(r)
    /\ \E ending \in {"none", "error", "interrupted"} :
         /\ ending = "interrupted" => r \in cancelled
         /\ body' = [body EXCEPT ![r].at = IF ending = "none" THEN "turn" ELSE "unwind",
                                 ![r].ending = ending, ![r].tools = TRUE,
                                 ![r].history = Append(@, Say(r, "turn"))]
         /\ IF ending = "none" THEN AppendTurn(body'[r].history) ELSE UNCHANGED store
    /\ Within(r) /\ UNCHANGED agentRound

(* The response calls none: the round is over. *)
Answer(r) ==
    /\ At(r, "request") /\ HasRoom(r)
    /\ body' = [body EXCEPT ![r].at = "unwind", ![r].ending = "ok",
                            ![r].history = Append(@, Say(r, "answer"))]
    /\ Within(r) /\ UNCHANGED <<store, agentRound>>

(* The same, but input came meanwhile: one more turn in this round. *)
AnswerSteered(r) ==
    /\ At(r, "request") /\ Steering /\ Len(body[r].history) + 1 < MaxWindow
    /\ body' = [body EXCEPT ![r].at = "turn",
                            ![r].history = @ \o <<Say(r, "answer"), Say(r, "steer")>>]
    /\ AppendTurn(body'[r].history)
    /\ Within(r) /\ UNCHANGED agentRound

(* The token is seen, or the request fails for good: a permanent error, or a   *)
(* transient one on the last attempt.  A failed save of a turn ends so too.   *)
GiveUp(r, outcome) ==
    /\ At(r, "turn") \/ At(r, "request")
    /\ outcome = "interrupted" => r \in cancelled
    /\ body' = [body EXCEPT ![r].at = "unwind", ![r].ending = outcome]
    /\ Within(r) /\ UNCHANGED <<store, agentRound>>

(* Mutant: nothing catches the panic, and the task dies without its tail. *)
PanicUncaught(r) ==
    /\ At(r, "turn") \/ At(r, "request")
    /\ Goto(r, "ended") /\ Step(r, "done")
    /\ UNCHANGED <<lifecycle, gen, previous, result, label, session, asked, switching>>
    /\ UNCHANGED <<store, agentRound>>

(* Provider or tool code panics; the tail of the round runs all the same. *)
Panic(r) ==
    /\ At(r, "turn") \/ At(r, "request")
    /\ Return(r, "error") /\ UNCHANGED <<store, agentRound>>

(* A transient failure with attempts left: what was streamed is discarded. *)
Backoff(r) ==
    /\ At(r, "request") /\ body[r].attempt < MaxAttempts
    /\ body' = [body EXCEPT ![r].at = "backoff", ![r].streamed = FALSE]
    /\ Within(r) /\ UNCHANGED <<store, agentRound>>

(* The delay ends, or the token ends it: then the body returns at once. *)
Resend(r) ==
    /\ At(r, "backoff")
    /\ \/ /\ body' = [body EXCEPT ![r].at = "request", ![r].attempt = @ + 1]
          /\ Within(r)
       \/ Return(r, "interrupted")
    /\ UNCHANGED <<store, agentRound>>

-----------------------------------------------------------------------------
(* The end of the body. *)

(* is_phase1_unsend, and a user message to take back. *)
Unsendable(r) ==
    /\ body[r].ending = "interrupted" /\ ~body[r].streamed /\ ~body[r].tools
    /\ body[r].history # <<>> /\ FromUser(Last(body[r].history))

(* Mutant: the unsent prompt is popped from the round's history only. *)
UnsendLocally(r) ==
    /\ At(r, "unwind") /\ Unsendable(r)
    /\ body' = [body EXCEPT ![r].at = "restore", ![r].history = Front(@)]
    /\ Within(r) /\ UNCHANGED <<store, agentRound>>

(* Nothing was committed: the last message is taken back, *)
Unsend(r) ==
    /\ At(r, "unwind") /\ Unsendable(r)
    /\ store' = [store EXCEPT !.window = Front(body[r].history)]
    /\ \/ WriteFails(r)
       \/ /\ body' = [body EXCEPT ![r].at = "restore", ![r].history = Front(@)]
          /\ Within(r)
    /\ UNCHANGED agentRound

(* the counters go back, *)
Restore(r) ==
    /\ At(r, "restore")
    /\ agentRound' = body[r].before
    /\ store' = [store EXCEPT !.counter = body[r].before]
    /\ WriteFails(r) \/ (Step(r, "unpark") /\ Within(r))

(* and there is nothing to retry. *)
Unpark(r) ==
    /\ At(r, "unpark")
    /\ store' = [store EXCEPT !.retry = NoPoint]
    /\ Return(r, "ok") /\ UNCHANGED agentRound

(* Otherwise the history is committed, unless the store points elsewhere. *)
CheckSession(r) ==
    /\ At(r, "unwind") /\ ~Unsendable(r)
    /\ \/ store.id # body[r].home /\ Return(r, "interrupted")
       \/ store.id = body[r].home /\ Step(r, "commit") /\ Within(r)
    /\ UNCHANGED <<store, agentRound>>

(* Mutant: the final commit reuses append_turn's length test. *)
CommitShorter(r) ==
    /\ At(r, "commit")
    /\ store' = [store EXCEPT !.window = UpTo(body[r].history, Len(@))]
    /\ Step(r, "retire") /\ Within(r) /\ UNCHANGED agentRound

Commit(r) ==
    /\ At(r, "commit")
    /\ store' = [store EXCEPT !.window = body[r].history]
    /\ WriteFails(r) \/ (Step(r, "retire") /\ Within(r))
    /\ UNCHANGED agentRound

(* Mutant: the point of an earlier stop outlives the round that resumed it. *)
RetireNothing(r) ==
    /\ At(r, "retire")
    /\ Step(r, IF body[r].ending = "ok" THEN "mirror" ELSE "arm")
    /\ Within(r) /\ UNCHANGED <<store, agentRound>>

RetirePoint(r) ==
    /\ At(r, "retire")
    /\ store' = [store EXCEPT !.retry = NoPoint]
    /\ Step(r, IF body[r].ending = "ok" THEN "mirror" ELSE "arm")
    /\ Within(r) /\ UNCHANGED agentRound

(* A stopped round leaves the point to resume it from. *)
Arm(r) ==
    /\ At(r, "arm")
    /\ store' = [store EXCEPT !.retry = [round |-> body[r].number, mark |-> Len(store.window)]]
    /\ Return(r, body[r].ending) /\ UNCHANGED agentRound

(* A completed one mirrors the agent's counter into the session. *)
MirrorCounter(r) ==
    /\ At(r, "mirror")
    /\ store' = [store EXCEPT !.counter = agentRound]
    /\ Return(r, "ok") /\ UNCHANGED agentRound

-----------------------------------------------------------------------------
Admission(r) ==
    \/ Enter(r) \/ HookDenies(r) \/ BumpRound(r) \/ ClearStalePoint(r) \/ Identify(r)
    \/ ReadWindow(r) \/ SaveWindow(r) \/ SaveCounter(r)

Turn(r) ==
    \/ Prepare(r) \/ Delta(r) \/ CallTools(r) \/ Answer(r) \/ AnswerSteered(r)
    \/ GiveUp(r, "error") \/ GiveUp(r, "interrupted") \/ Panic(r) \/ Backoff(r) \/ Resend(r)

Ending(r) ==
    \/ Unsend(r) \/ Restore(r) \/ Unpark(r) \/ CheckSession(r) \/ Commit(r)
    \/ RetirePoint(r) \/ Arm(r) \/ MirrorCounter(r)

(* The lifecycle's own steps, which leave the conversation alone. *)
LifecycleStep ==
    /\ \/ \E r \in Rounds : Install(r) \/ ParkSuperseded(r) \/ Launch(r) \/ PublishRunning(r) \/ Epilogue(r)
       \/ ParkReason \/ EagerIdle \/ Supersede \/ CancelCurrent
       \/ Reconcile /\ switching = "none"
    /\ UNCHANGED conversation

RoundsNext ==
    \/ \E r \in Rounds : Begin(r) \/ Admission(r) \/ Turn(r) \/ Ending(r)
    \/ \E kind \in Requests : Stop(kind)
    \/ LifecycleStep \/ AskRetry \/ Repoint
    \/ AtRest /\ UNCHANGED allVars

RoundsSpec == RoundsInit /\ [][RoundsNext]_allVars

-----------------------------------------------------------------------------
(* Why the body returns what it should: an ending is decided before the end   *)
(* of the body, and a resume keeps its point while it needs it.               *)
EndingDecided ==
    \A r \in Rounds :
        body[r].at \in {"unwind", "restore", "unpark", "commit", "retire", "arm", "mirror"} =>
            body[r].ending \in Outcomes

ResumeHasPoint ==
    \A r \in Retries :
        pc[r] # "waiting" /\ body[r].at # "done" => body[r].point \in RetryPoint

BodyInv == TypeOK /\ ConversationTypeOK /\ EndingDecided /\ ResumeHasPoint

-----------------------------------------------------------------------------
(* The body as it is refined here is the body the lifecycle was checked with: *)
(* every behaviour is one of RoundLifecycle, so its properties carry over.    *)
RefinesLifecycle == Lifecycle

Completed(r) == body[r].at = "done" /\ result[r] = "ok" /\ body[r].ending = "ok"
Unsent(r)    == body[r].at = "done" /\ result[r] = "ok" /\ body[r].ending = "interrupted"

(* The log goes on from all that round r committed, and r wrote no more of it. *)
Kept(r, log) ==
    LET history == body[r].history
    IN /\ Len(history) <= Len(log)
       /\ \A i \in 1..Len(log) :
             IF i <= Len(history) THEN log[i] = history[i] ELSE log[i].round # r

Traceless(r, log) == \A i \in 1..Len(log) : log[i].round # r

(* The rounds of the current session and of those it was forked from. *)
Lineage == {r \in Rounds : body[r].home \in store.root..store.id}

(* What a round committed and the user has seen completed stays in the        *)
(* session's window, whole and in its place, with all that went before it,    *)
(* whatever other rounds do.                                                  *)
CompletedExchangeKept == \A r \in Lineage : Completed(r) => Kept(r, store.window)

(* "Monotonic user-exchange counter": two completed exchanges never bear the  *)
(* same round number, nor one the session has not counted to.                 *)
ExchangeNumbersDistinct ==
    \A r, q \in Lineage : Completed(r) =>
        body[r].number <= store.counter /\ (Completed(q) /\ body[q].number = body[r].number => q = r)

(* The save points: while a request is out, everything the round will go on   *)
(* from is in the store under its own number, so a crash loses no turn.       *)
TurnsSaved ==
    \A r \in Rounds : At(r, "request") =>
        store.window = body[r].history /\ store.counter = body[r].number

(* A point that is offered works: it names the session's last round, lies     *)
(* within the window, and resumes no exchange that was completed.             *)
OfferedRetryWorks ==
    AtRest /\ store.retry # NoPoint =>
        /\ store.retry.round = store.counter /\ store.retry.mark <= Len(store.window)
        /\ \A r \in Lineage : Completed(r) => body[r].number # store.retry.round

(* "The conversation context ends up identical to the pre-send state": of an  *)
(* unsent round nothing is left in the window.                                *)
UnsentLeavesNothing == \A r \in Rounds : Unsent(r) => Traceless(r, store.window)

(* Each round writes to the session it was admitted to: the window holds no   *)
(* message of a round of another session.                                     *)
OwnHistory ==
    \A i \in 1..Len(store.window) : store.window[i].round \in Lineage
=============================================================================
