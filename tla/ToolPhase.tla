------------------------------ MODULE ToolPhase ------------------------------
(***************************************************************************)
(* The tool calls of one turn: the scheduler that decides which of them    *)
(* run together (crates/neenee-agent/src/tool_scheduler.rs), the driver    *)
(* that submits them, forwards their results and ends the phase            *)
(* (dispatch_pipeline.rs), and the requests that wait for an answer of the *)
(* user (permission_store.rs, Agent::execute_tool).  The calls run in      *)
(* tasks of their own; an interrupt, a reply and the drain's grace period  *)
(* may fall anywhere.                                                      *)
(*                                                                         *)
(* An answer is `once` or `reject`; `always` is a `once` that also stores  *)
(* a rule.  What a tool does, hooks and the transcript messages of the     *)
(* results are left out.                                                   *)
(***************************************************************************)
EXTENDS ToolAccess, Naturals, FiniteSets

CONSTANTS
    Calls,       \* the calls of the turn, numbered in input order
    Known,       \* those answered without running: a retry's replays, guarded repeats
    Accesses,    \* what each call declares to touch
    Paths,       \* the files there are
    Asking,      \* those that need the user's permission
    Envoys,      \* those whose tool supports a cooperative cancel
    MaxPanics    \* bound on panics in tool code

ASSUME CallsAssumption == Calls \subseteq Nat
ASSUME KindsAssumption == Known \cup Asking \cup Envoys \subseteq Calls
ASSUME PathsAssumption == Paths \subseteq Seq(STRING)
ASSUME AccessesAssumption ==
    \A c \in Calls : \A a \in Accesses[c] :
        a = All \/ a \in [operation : Operations, path : Paths, recursive : BOOLEAN]
ASSUME PanicsAssumption == MaxPanics \in Nat

VARIABLES
    call,       \* where each call stands
    driver,     \* where schedule_tool_calls stands
    cancelled,  \* the turn's token, whose child every task holds
    channel,    \* results sent by the tasks and not yet forwarded
    slots,      \* results forwarded
    told,       \* the calls announced as cancelled
    pending,    \* requests the permission store can answer
    answer,     \* what each request's receiver was sent
    panicked,   \* the calls whose tool panicked
    produced    \* history: the calls whose task sent a result

store == <<pending, answer>>
vars  == <<call, driver, cancelled, channel, slots, told, store, panicked, produced>>

Exec == Calls \ Known

Active   == {c \in Calls : call[c] \in {"spawned", "asking", "tool", "returned"}}
Resolved == {c \in Calls : call[c] \in {"known", "finished", "rejected", "aborted"}}

(* SchedulerInner.queued.  Calls arrive in input order and are only ever taken *)
(* out, so the queue is in the order of their numbers.                        *)
Queued == {c \in Calls : call[c] = "queued"}

Clash(c, d) == Conflicts(Accesses[c], Accesses[d])

Places == {"known", "announced", "queued", "spawned", "asking", "tool", "returned",
           "finished", "rejected", "aborted"}

TypeOK ==
    /\ call \in [Calls -> Places]
    /\ driver \in {"submitting", "waiting", "cancelling", "draining", "done"}
    /\ cancelled \in BOOLEAN
    /\ channel \cup slots \cup told \cup pending \cup panicked \cup produced \subseteq Exec
    /\ answer \in [Calls -> {"none", "once", "reject"}]

(* After the preflight: every call is announced, the known ones have their    *)
(* result.                                                                    *)
Init ==
    /\ call = [c \in Calls |-> IF c \in Known THEN "known" ELSE "announced"]
    /\ driver = "submitting" /\ cancelled = FALSE
    /\ channel = {} /\ slots = {} /\ told = {}
    /\ pending = {} /\ answer = [c \in Calls |-> "none"]
    /\ panicked = {} /\ produced = {}

-----------------------------------------------------------------------------
(* The scheduler. *)

IsBlocked(c) == \E d \in Active \cup Queued : Clash(c, d)

(* add: the calls are submitted in input order. *)
Submit ==
    /\ driver = "submitting"
    /\ \E c \in Calls :
         /\ call[c] = "announced" /\ \A d \in Calls : d < c => call[d] # "announced"
         /\ call' = [call EXCEPT ![c] = IF IsBlocked(c) THEN "queued" ELSE "spawned"]
    /\ UNCHANGED <<driver, cancelled, channel, slots, told, store, panicked, produced>>

(* Mutant: the scan does not see what it has promoted itself. *)
ScansAtOnce(up, running) == up = {c \in Queued : \A d \in running : ~Clash(d, c)}

(* The queue is scanned in order: a call that conflicts with nothing active,  *)
(* those promoted before it by this scan included, is promoted.               *)
Scans(up, running) ==
    up = {c \in Queued : \A d \in running \cup {e \in up : e < c} : ~Clash(d, c)}

(* Mutant: the queue is left alone. *)
FinishOnly(c) ==
    /\ call[c] = "returned" /\ call' = [call EXCEPT ![c] = "finished"]
    /\ UNCHANGED <<driver, cancelled, channel, slots, told, store, panicked, produced>>

(* finish: the caller is resolved and the queue scanned. *)
FinishCall(c) ==
    /\ call[c] = "returned"
    /\ \E up \in SUBSET Queued :
         /\ Scans(up, Active \ {c})
         /\ call' = [d \in Calls |-> IF d = c THEN "finished"
                                     ELSE IF d \in up THEN "spawned" ELSE call[d]]
    /\ UNCHANGED <<driver, cancelled, channel, slots, told, store, panicked, produced>>

-----------------------------------------------------------------------------
(* The task of a call. *)

(* The gates are passed; a call that needs permission parks its request.      *)
Enters(c) ==
    /\ call' = [call EXCEPT ![c] = IF c \in Asking THEN "asking" ELSE "tool"]
    /\ pending' = IF c \in Asking THEN pending \cup {c} ELSE pending

(* A task whose token is already cancelled returns at once; an envoy starts   *)
(* all the same, for nothing is registered yet that could be told to stop.    *)
Poll(c) ==
    /\ call[c] = "spawned"
    /\ \/ (~cancelled \/ c \in Envoys) /\ Enters(c)
       \/ cancelled /\ c \notin Envoys /\ call' = [call EXCEPT ![c] = "returned"] /\ UNCHANGED pending
    /\ UNCHANGED <<driver, cancelled, channel, slots, told, answer, panicked, produced>>

(* Only an envoy goes on once the token is cancelled. *)
GoesOn(c) == ~cancelled \/ c \in Envoys

Returns(c) ==
    /\ call' = [call EXCEPT ![c] = "returned"]
    /\ channel' = channel \cup {c} /\ produced' = produced \cup {c}

(* The decision arrives: the tool runs, or the denial is the result. *)
Decided(c) ==
    /\ call[c] = "asking" /\ GoesOn(c) /\ answer[c] # "none"
    /\ \/ answer[c] = "once" /\ call' = [call EXCEPT ![c] = "tool"] /\ UNCHANGED <<channel, produced>>
       \/ answer[c] = "reject" /\ Returns(c)
    /\ UNCHANGED <<driver, cancelled, slots, told, store, panicked>>

ToolEnds(c) ==
    /\ call[c] = "tool" /\ GoesOn(c) /\ Returns(c)
    /\ UNCHANGED <<driver, cancelled, slots, told, store, panicked>>

(* A panic is caught: the task ends, without a result. *)
ToolPanics(c) ==
    /\ call[c] = "tool" /\ Cardinality(panicked) < MaxPanics
    /\ call' = [call EXCEPT ![c] = "returned"] /\ panicked' = panicked \cup {c}
    /\ UNCHANGED <<driver, cancelled, channel, slots, told, store, produced>>

(* The token is cancelled: the call is dropped where it stands, a parked      *)
(* request with it, whose sender stays in the store.                          *)
Dropped(c) ==
    /\ call[c] \in {"asking", "tool"} /\ cancelled /\ c \notin Envoys
    /\ call' = [call EXCEPT ![c] = "returned"]
    /\ UNCHANGED <<driver, cancelled, channel, slots, told, store, panicked, produced>>

-----------------------------------------------------------------------------
(* The driver. *)

AllSubmitted ==
    /\ driver = "submitting" /\ driver' = "waiting" /\ \A c \in Calls : call[c] # "announced"
    /\ UNCHANGED <<call, cancelled, channel, slots, told, store, panicked, produced>>

(* A cancelled token is looked at before the channel is. *)
Forward ==
    /\ \/ driver = "waiting" /\ ~cancelled
       \/ driver = "draining"
    /\ \E c \in channel : slots' = slots \cup {c} /\ channel' = channel \ {c}
    /\ UNCHANGED <<call, driver, cancelled, told, store, panicked, produced>>

(* Mutant: what is still in the channel is dropped. *)
EndsUndrained == driver' = "done" /\ channel' = {} /\ UNCHANGED slots

(* The phase ends: what the channel still holds is forwarded. *)
Ends == driver' = "done" /\ channel' = {} /\ slots' = slots \cup channel

Complete ==
    /\ driver = "waiting" /\ ~cancelled /\ Resolved = Calls /\ Ends
    /\ UNCHANGED <<call, cancelled, told, store, panicked, produced>>

SeesCancel ==
    /\ driver = "waiting" /\ cancelled /\ driver' = "cancelling"
    /\ UNCHANGED <<call, cancelled, channel, slots, told, store, panicked, produced>>

Rejects(c) == IF call[c] = "queued" THEN "rejected" ELSE call[c]

(* cancel_all: the queue is rejected. *)
CancelAll ==
    /\ driver = "cancelling" /\ driver' = "draining"
    /\ call' = [c \in Calls |-> Rejects(c)]
    /\ UNCHANGED <<cancelled, channel, slots, told, store, panicked, produced>>

(* Every call without a result is announced as cancelled. *)
Announces == told' = Exec \ slots'

Drained ==
    /\ driver = "draining" /\ Resolved = Calls /\ Ends /\ Announces
    /\ UNCHANGED <<call, cancelled, store, panicked, produced>>

(* abort_all: what still runs is aborted, what is queued rejected. *)
AbortAll == call' = [c \in Calls |-> IF c \in Active THEN "aborted" ELSE Rejects(c)]

(* Mutant: the drain has no deadline. *)
DrainUnbounded ==
    /\ driver = "draining" /\ Resolved = Calls /\ Ends /\ Announces
    /\ UNCHANGED <<call, cancelled, store, panicked, produced>>

(* The grace period is over. *)
GraceEnds ==
    /\ driver = "draining" /\ AbortAll /\ Ends /\ Announces
    /\ UNCHANGED <<cancelled, store, panicked, produced>>

-----------------------------------------------------------------------------
(* The user. *)

(* The requests in `ids` are answered, those whose receiver still waits.      *)
Sends(ids, decision) ==
    answer' = [c \in Calls |-> IF c \in ids /\ call[c] = "asking" THEN decision ELSE answer[c]]

(* Mutant: a rejection throws the other requests away unanswered. *)
ReplyForgets(c, decision) ==
    /\ c \in pending /\ Sends({c}, decision)
    /\ pending' = IF decision = "reject" /\ call[c] = "asking" THEN {} ELSE pending \ {c}
    /\ UNCHANGED <<call, driver, cancelled, channel, slots, told, panicked, produced>>

(* reply: a rejection that reached its call settles all that are parked.      *)
Reply(c, decision) ==
    /\ c \in pending
    /\ IF decision = "reject" /\ call[c] = "asking"
       THEN Sends(pending, "reject") /\ pending' = {}
       ELSE Sends({c}, decision) /\ pending' = pending \ {c}
    /\ UNCHANGED <<call, driver, cancelled, channel, slots, told, panicked, produced>>

(* An interrupt rejects what is parked and then, some awaits later, cancels   *)
(* the token; a superseding round only does the latter.                       *)
RejectPending ==
    /\ pending # {} /\ Sends(pending, "reject") /\ pending' = {}
    /\ UNCHANGED <<call, driver, cancelled, channel, slots, told, panicked, produced>>

Cancel ==
    /\ ~cancelled /\ driver # "done" /\ cancelled' = TRUE
    /\ UNCHANGED <<call, driver, channel, slots, told, store, panicked, produced>>

-----------------------------------------------------------------------------
TaskStep(c) == Poll(c) \/ Decided(c) \/ Dropped(c) \/ FinishCall(c)

DriverStep ==
    \/ Submit \/ AllSubmitted \/ Forward \/ Complete
    \/ SeesCancel \/ CancelAll \/ Drained \/ GraceEnds

UserStep == RejectPending \/ Cancel \/ \E c \in Calls, d \in {"once", "reject"} : Reply(c, d)

Next ==
    \/ \E c \in Calls : TaskStep(c) \/ ToolEnds(c) \/ ToolPanics(c)
    \/ DriverStep \/ UserStep

(* Tasks and the driver are scheduled, and the grace timer runs out.  Neither *)
(* a tool nor the user owes an end.                                           *)
Fairness == WF_vars(DriverStep) /\ \A c \in Calls : WF_vars(TaskStep(c))

Spec == Init /\ [][Next]_vars /\ Fairness

-----------------------------------------------------------------------------
Running == {c \in Calls : call[c] \in {"spawned", "asking", "tool"}}

Touches(c, path) ==
    \E a \in Accesses[c] : path = a.path \/ (a.recursive /\ IsPrefix(a.path, path))

Changes(c, path) ==
    \E a \in Accesses[c] :
        (a = All \/ Writes(a)) /\ (path = a.path \/ (a.recursive /\ IsPrefix(a.path, path)))

(* No file is changed by one call while another one touches it, whichever     *)
(* calls end, panic, are denied or cancelled in between.                      *)
NoClashingFiles ==
    \A c, d \in Running : c # d => ~\E path \in Paths : Changes(c, path) /\ Touches(d, path)

(* No wakeup is lost: the first call in the queue waits for one that is       *)
(* active and will report back.                                               *)
HeadWaitsForActive ==
    \A c \in Queued : (\A d \in Queued : c <= d) => \E d \in Active : Clash(d, c)

(* When the phase ends every call has exactly one outcome: nothing of it runs *)
(* or waits on unseen; a result that was sent is kept, even if it came in     *)
(* with the interrupt or at the end of the grace period, and is never also    *)
(* announced as cancelled; an undisturbed phase has a result of every call    *)
(* whose tool did not panic.                                                  *)
OneOutcomeEach ==
    driver = "done" =>
        /\ Running = {} /\ Queued = {}
        /\ produced = slots /\ slots \cap told = {}
        /\ IF cancelled THEN slots \cup told = Exec ELSE Exec \ panicked \subseteq slots

(* A call that waits for the user can be reached by a reply and an interrupt. *)
AskedIsAnswerable ==
    \A c \in Calls : call[c] = "asking" /\ answer[c] = "none" => c \in pending

(* An interrupted phase ends, whatever its tools and the user do.             *)
InterruptEndsPhase == cancelled ~> (driver = "done")
=============================================================================
