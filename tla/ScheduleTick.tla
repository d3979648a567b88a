---------------------------- MODULE ScheduleTick ----------------------------
(***************************************************************************)
(* Scheduled prompts of one session: the tick of its scheduler             *)
(* (crates/neenee-agent/src/orchestration.rs, run_schedule_tick and the    *)
(* supervised loop around it), /schedule and /repeat in the request loop   *)
(* (neenee-runtime/src/handlers_slash.rs), and the scan of a daemon that   *)
(* starts, which hosts sessions with armed jobs again (registry.rs,        *)
(* rehost_armed_sessions).  The tick and the commands read the job list,   *)
(* work on a copy and write the whole list back, each in a task of its own *)
(* with awaits in between.                                                 *)
(*                                                                         *)
(* Time is counted in minutes.  The jobs of a tick are sent in any order;  *)
(* a job whose cron does not parse, which no command admits, is left out,  *)
(* and so is the round a prompt starts once the loop takes it.             *)
(***************************************************************************)
EXTENDS Cron, Sequences, Functions, FiniteSetsExt

CONSTANTS
    Jobs,          \* job ids, each used once
    CronJobs,      \* those that recur; the others fire once
    Expr,          \* Expr[j]: the cron expression of a recurring job
    FireAt,        \* FireAt[j]: when the others fire
    Day,           \* what next_fire falls back to when nothing matches
    MaxAge,        \* DEFAULT_MAX_AGE_DAYS
    RestartLimit,  \* SCHEDULER_RESTART_LIMIT
    Overlap,       \* TRUE: a command or a rehost may come in the middle of a tick
    MaxTime,       \* bound on the clock
    MaxFaults      \* bound on crashes, panics, failing writes and ends of the harness

ASSUME JobsAssumption ==
    /\ Jobs # {} /\ CronJobs \subseteq Jobs /\ FireAt \in [Jobs \ CronJobs -> Nat]
    /\ \A j \in CronJobs : Parses(Expr[j])
ASSUME TimesAssumption == Day \in Nat \ {0} /\ {MaxAge, RestartLimit, MaxTime, MaxFaults} \subseteq Nat
ASSUME OverlapAssumption == Overlap \in BOOLEAN

VARIABLES
    clock,     \* the current minute
    jobs,      \* the list in the memory of the session store, by job id
    disk,      \* the list a load of the session finds
    up,        \* the harness runs: the request loop holds its receiver
    boot,      \* the scan at the start of the daemon has still to come to this session
    attempts,  \* panics of the tick loop since the harness was assembled
    tick,      \* run_schedule_tick: where it stands and its locals
    command,   \* the /schedule or /repeat being dispatched, and its locals
    queue,     \* the prompts sent to the request loop and not yet taken
    sends,     \* history: the fire times whose prompt was sent, for each job
    status,    \* history: what the user was last told of each job
    since,     \* history: created_at of each job
    faults     \* faults so far

lists == <<jobs, disk>>
tasks == <<tick, command, queue>>
told  == <<status, since>>
vars  == <<clock, lists, up, boot, attempts, tasks, sends, told, faults>>

Once == Jobs \ CronJobs

Job  == [next : Nat, created : Nat]
List == UNION {[ids -> Job] : ids \in SUBSET Jobs}
Empty == [j \in {} |-> 0]

NoTick    == [at |-> "idle", now |-> 0, left |-> {}, keep |-> Empty, size |-> 0,
              sent |-> FALSE, stale |-> FALSE]
NoCommand == [op |-> "none", job |-> CHOOSE j \in Jobs : TRUE, list |-> Empty]

IsList(f) == DOMAIN f \subseteq Jobs /\ \A j \in DOMAIN f : f[j] \in Job

TypeOK ==
    /\ clock \in 0..MaxTime /\ up \in BOOLEAN /\ boot \in BOOLEAN /\ attempts \in 0..RestartLimit + 1
    /\ IsList(jobs) /\ IsList(disk) /\ IsList(tick.keep) /\ IsList(command.list)
    /\ tick.at \in {"idle", "sending"} /\ tick.now \in Nat /\ tick.left \subseteq Jobs
    /\ tick.size \in Nat /\ tick.sent \in BOOLEAN /\ tick.stale \in BOOLEAN
    /\ command.op \in {"none", "add", "cancel"} /\ command.job \in Jobs
    /\ queue \in Seq(Jobs)
    /\ sends \in [Jobs -> Seq(Nat)]
    /\ status \in [Jobs -> {"none", "armed", "refused", "cancelled", "failed"}]
    /\ since \in [Jobs -> Nat] /\ faults \in 0..MaxFaults

Init ==
    /\ clock = 0 /\ jobs = Empty /\ disk = Empty /\ up = TRUE /\ boot = FALSE /\ attempts = 0
    /\ tick = NoTick /\ command = NoCommand /\ queue = <<>>
    /\ sends = [j \in Jobs |-> <<>>]
    /\ status = [j \in Jobs |-> "none"] /\ since = [j \in Jobs |-> 0]
    /\ faults = 0

Fault == faults < MaxFaults /\ faults' = faults + 1

(* next_fire: the first match strictly after the given minute. *)
Later(j, minute) ==
    IF j \in CronJobs THEN Candidates(Expr[j], minute) ELSE {FireAt[j]} \ 0..minute

Fires(j, minute) == Later(j, minute) # {}
NextFire(j, minute) == IF Fires(j, minute) THEN Min(Later(j, minute)) ELSE minute + Day

(* set_scheduled_jobs: the list in memory is replaced before the log is        *)
(* written, so a write that fails still changes what the session works with.  *)
Store(list, ok) ==
    /\ jobs' = list
    /\ disk' = IF ok THEN list ELSE disk
    /\ IF ok THEN UNCHANGED faults ELSE Fault

-----------------------------------------------------------------------------
(* The tick. *)

GaveUp == attempts > RestartLimit

(* The list is read and expired recurring jobs are left out. *)
TickRead ==
    /\ up /\ ~GaveUp /\ tick.at = "idle" /\ (Overlap \/ command.op = "none")
    /\ LET alive == {j \in DOMAIN jobs : j \in Once \/ jobs[j].created + MaxAge >= clock}
           due   == {j \in alive : jobs[j].next <= clock}
       IN tick' = [at |-> "sending", now |-> clock, left |-> due,
                   keep |-> Restrict(jobs, alive), size |-> Cardinality(DOMAIN jobs),
                   sent |-> FALSE, stale |-> FALSE]
    /\ UNCHANGED <<clock, lists, up, boot, attempts, command, queue, sends, told, faults>>

(* Mutant: a job counts as fired whether or not its prompt was sent. *)
TickSendUnchecked(j) ==
    /\ tick.at = "sending" /\ j \in tick.left
    /\ tick' = [tick EXCEPT !.left = @ \ {j}, !.sent = TRUE,
                            !.keep = IF j \in CronJobs
                                     THEN [@ EXCEPT ![j].next = NextFire(j, tick.now)]
                                     ELSE Restrict(@, DOMAIN @ \ {j})]
    /\ queue' = IF up THEN Append(queue, j) ELSE queue
    /\ sends' = IF up THEN [sends EXCEPT ![j] = Append(@, tick.keep[j].next)] ELSE sends
    /\ UNCHANGED <<clock, lists, up, boot, attempts, command, told, faults>>

(* A due job: the prompt first, then the schedule; a prompt that nobody can   *)
(* receive leaves the job as it was.                                          *)
TickSend(j) ==
    /\ tick.at = "sending" /\ j \in tick.left
    /\ \/ /\ up
          /\ queue' = Append(queue, j)
          /\ sends' = [sends EXCEPT ![j] = Append(@, tick.keep[j].next)]
          /\ tick' = [tick EXCEPT !.left = @ \ {j}, !.sent = TRUE,
                                  !.keep = IF j \in CronJobs
                                           THEN [@ EXCEPT ![j].next = NextFire(j, tick.now)]
                                           ELSE Restrict(@, DOMAIN @ \ {j})]
       \/ ~up /\ tick' = [tick EXCEPT !.left = @ \ {j}] /\ UNCHANGED <<queue, sends>>
    /\ UNCHANGED <<clock, lists, up, boot, attempts, command, told, faults>>

(* Mutant: only a list that got shorter is written back. *)
TickWriteIfShorter ==
    /\ tick.at = "sending" /\ tick.left = {} /\ tick' = NoTick
    /\ IF Cardinality(DOMAIN tick.keep) # tick.size
       THEN Store(tick.keep, TRUE) ELSE UNCHANGED <<lists, faults>>
    /\ UNCHANGED <<clock, up, boot, attempts, command, queue, sends, told>>

(* The list is written back if anything was fired, pruned or dropped.  The    *)
(* tick of a harness that has been replaced writes to the files only.         *)
TickWrite ==
    /\ tick.at = "sending" /\ tick.left = {} /\ tick' = NoTick
    /\ IF Cardinality(DOMAIN tick.keep) = tick.size /\ ~tick.sent THEN UNCHANGED <<lists, faults>>
       ELSE IF tick.stale THEN disk' = tick.keep /\ UNCHANGED <<jobs, faults>>
       ELSE \E ok \in BOOLEAN : Store(tick.keep, ok)
    /\ UNCHANGED <<clock, up, boot, attempts, command, queue, sends, told>>

(* The supervised loop catches a panic and starts over, a few times. *)
TickPanics ==
    /\ tick.at = "sending" /\ Fault
    /\ tick' = NoTick
    /\ attempts' = IF tick.stale THEN attempts ELSE attempts + 1
    /\ UNCHANGED <<clock, lists, up, boot, command, queue, sends, told>>

-----------------------------------------------------------------------------
(* The request loop. *)

LoopFree == up /\ command.op = "none"
Awaited  == Overlap \/ tick.at = "idle"

(* A job that never fires is refused at once. *)
AddRead(j) ==
    /\ LoopFree /\ Awaited /\ status[j] = "none" /\ Fires(j, clock)
    /\ command' = [op |-> "add", job |-> j, list |-> jobs]
    /\ since' = [since EXCEPT ![j] = clock]
    /\ UNCHANGED <<clock, lists, up, boot, attempts, tick, queue, sends, status, faults>>

(* A recurring job is also run once right away. *)
AddWrite ==
    /\ up /\ command.op = "add" /\ Awaited
    /\ LET j   == command.job
           new == [next |-> NextFire(j, since[j]), created |-> since[j]]
       IN \E ok \in BOOLEAN :
            /\ Store([k \in DOMAIN command.list \cup {j} |->
                        IF k = j THEN new ELSE command.list[k]], ok)
            /\ status' = [status EXCEPT ![j] = IF ok THEN "armed" ELSE "refused"]
            /\ queue' = IF ok /\ j \in CronJobs THEN Append(queue, j) ELSE queue
    /\ command' = NoCommand
    /\ UNCHANGED <<clock, up, boot, attempts, tick, sends, since>>

CancelRead(j) ==
    /\ LoopFree /\ Awaited /\ j \in DOMAIN jobs
    /\ command' = [op |-> "cancel", job |-> j, list |-> jobs]
    /\ UNCHANGED <<clock, lists, up, boot, attempts, tick, queue, sends, told, faults>>

(* Mutant: the cancelled job is dropped from memory only. *)
CancelInMemory ==
    /\ up /\ command.op = "cancel" /\ Awaited
    /\ jobs' = Restrict(command.list, DOMAIN command.list \ {command.job})
    /\ status' = [status EXCEPT ![command.job] = "cancelled"]
    /\ command' = NoCommand
    /\ UNCHANGED <<clock, disk, up, boot, attempts, tick, queue, sends, since, faults>>

CancelWrite ==
    /\ up /\ command.op = "cancel" /\ Awaited
    /\ \E ok \in BOOLEAN :
         /\ Store(Restrict(command.list, DOMAIN command.list \ {command.job}), ok)
         /\ status' = [status EXCEPT ![command.job] = IF ok THEN "cancelled" ELSE "failed"]
    /\ command' = NoCommand
    /\ UNCHANGED <<clock, up, boot, attempts, tick, queue, sends, since>>

(* The loop takes a prompt: a round begins, or is refused without a provider. *)
TakePrompt ==
    /\ LoopFree /\ queue # <<>> /\ queue' = Tail(queue)
    /\ UNCHANGED <<clock, lists, up, boot, attempts, tick, command, sends, told, faults>>

-----------------------------------------------------------------------------
(* The surroundings. *)

Minute ==
    /\ clock < MaxTime /\ clock' = clock + 1
    /\ UNCHANGED <<lists, up, boot, attempts, tasks, sends, told, faults>>

(* The session's harness ends, killed or crashed: its loop and its queue are   *)
(* gone; a tick in progress goes on.                                          *)
HarnessEnds ==
    /\ up /\ Fault /\ up' = FALSE
    /\ command' = NoCommand /\ queue' = <<>>
    /\ UNCHANGED <<clock, lists, boot, attempts, tick, sends, told>>

(* The daemon dies and is started again, with daemon.rehost_armed_schedules   *)
(* set or not.                                                                *)
Crash ==
    /\ Fault /\ up' = FALSE /\ boot' \in BOOLEAN
    /\ tick' = NoTick /\ command' = NoCommand /\ queue' = <<>>
    /\ UNCHANGED <<clock, lists, attempts, sends, told>>

(* Mutant: the session is loaded with an empty list. *)
LoadForgets ==
    /\ ~up /\ Awaited /\ up' = TRUE /\ attempts' = 0
    /\ jobs' = Empty
    /\ tick' = [tick EXCEPT !.stale = tick.at # "idle"]
    /\ UNCHANGED <<clock, disk, command, queue, sends, told, faults>>

(* A harness is assembled: the store is loaded again and the tick starts.     *)
LoadSession ==
    /\ ~up /\ Awaited /\ up' = TRUE /\ attempts' = 0
    /\ jobs' = disk
    /\ tick' = [tick EXCEPT !.stale = tick.at # "idle"]
    /\ UNCHANGED <<clock, disk, command, queue, sends, told, faults>>

(* rehost_armed_sessions comes to a session with armed jobs. *)
Rehost == boot /\ disk # Empty /\ boot' = FALSE /\ LoadSession

(* Or passes it by: it has no jobs or is hosted by then; its project root is  *)
(* gone, its assembly fails, or the daemon shuts down first.                  *)
RehostSkips ==
    /\ boot /\ boot' = FALSE
    /\ IF up \/ disk = Empty THEN UNCHANGED faults ELSE Fault
    /\ UNCHANGED <<clock, lists, up, attempts, tasks, sends, told>>

(* A client attaches to the session. *)
Resume == LoadSession /\ UNCHANGED boot

-----------------------------------------------------------------------------
TickStep == TickRead \/ TickWrite \/ \E j \in Jobs : TickSend(j)

LoopStep == AddWrite \/ CancelWrite \/ TakePrompt

Next ==
    \/ TickStep \/ TickPanics
    \/ LoopStep \/ \E j \in Jobs : AddRead(j) \/ CancelRead(j)
    \/ Minute \/ HarnessEnds \/ Crash \/ Rehost \/ RehostSkips \/ Resume

(* The ticker ticks, the loop carries a request through, and the scan at the   *)
(* start of the daemon runs.  Nobody needs to attach.                         *)
Fairness ==
    /\ WF_vars(TickStep) /\ WF_vars(LoopStep) /\ WF_vars(Rehost)

Spec == Init /\ [][Next]_vars /\ Fairness

-----------------------------------------------------------------------------
Armed(j)   == status[j] = "armed"
Expired(j) == j \in CronJobs /\ since[j] + MaxAge < clock

(* "So a slow turn cannot cause a double-fire": a fire time is sent once, and  *)
(* once more only for a crash, a panic or a failing write between the send    *)
(* and the write.                                                             *)
SlotFiresOnce ==
    \A j \in Jobs : Len(sends[j]) <= Cardinality(Range(sends[j])) + faults

(* A job the user was told is armed stays in the files until it is cancelled, *)
(* has fired for good, or has expired: no tick, crash or failing write loses  *)
(* it.                                                                        *)
AcceptedJobKept ==
    \A j \in Jobs : Armed(j) =>
        j \in DOMAIN disk \/ (j \in Once /\ sends[j] # <<>>) \/ Expired(j)

(* The minutes a recurring job is meant for: of the two day fields those count *)
(* that are restricted, and one of them is enough.                            *)
MeantFor(j) ==
    LET restricted == {f \in {"dom", "dow"} : Mask(Expr[j], f) # Span[f]}
    IN {t \in DOMAIN Clock :
          /\ \A f \in Fields \ {"dom", "dow"} : Clock[t][f] \in Mask(Expr[j], f)
          /\ restricted # {} => \E f \in restricted : Clock[t][f] \in Mask(Expr[j], f)}

(* An armed recurring job is set to a minute it is meant for, and never past  *)
(* the next one: ticks that come late, panics, restarts and stale lists make  *)
(* it skip no minute that is still to come.                                   *)
SetToNextSlot ==
    \A j \in DOMAIN jobs \cap CronJobs :
        /\ jobs[j].next \in MeantFor(j)
        /\ \A t \in MeantFor(j) : t > clock => jobs[j].next <= t

(* Once the user was told that a job is cancelled, it sends nothing more.     *)
CancelledIsSilent ==
    [][\A j \in Jobs : status[j] = "cancelled" => sends'[j] = sends[j]]_vars

(* A session that nobody hosts, nor will unless a client attaches.            *)
Dormant == ~up /\ ~boot

(* A one-shot job that is due is sent as long as its session is hosted or the *)
(* daemon is about to host it again, through crashes, panics and failing      *)
(* writes, unless it is cancelled or the scheduler has given up.              *)
DueJobFires ==
    \A j \in Once :
        (Armed(j) /\ clock >= FireAt[j])
            ~> (sends[j] # <<>> \/ ~Armed(j) \/ GaveUp \/ Dormant)
=============================================================================
