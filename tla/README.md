# TLA+ models of neenee

neenee is a coding-agent daemon written in Rust: a host process keeps many
sessions, each with its own agent, conversation store and request loop;
frontends (the TUI, the web app, headless commands) attach to sessions over a
socket, send requests and render the event stream. This directory holds TLA+
modules translated from the code under `src/`, the TLC configurations that check
them on small instances, and proofs checked by TLAPS. Paths below are relative
to `crates/`.

## 1. The system

| Component | State it keeps | Operations | Interacts with |
|---|---|---|---|
| Round lifecycle (`neenee-agent/src/round_lifecycle.rs`) | token slot, generation counter, parked interrupt reason | `begin`, `finish`, `supersede`, `cancel_current`, `record_interrupt`, `take_interrupt` | every code path that starts or stops a round |
| Interactive rounds (`neenee-agent/src/orchestration.rs`) | per-round locals: admitted round number, history under construction, unsend sentinels, attempt counter | `start_interactive_round`, `execute_round`, phase-1 unsend, retry loop, tail | lifecycle, session store, agent, provider |
| Steering inbox (`agent.rs`, `UserInputRound`) | the open inbox of the current round: session, generation, queue | open, insert, cancel, admit, close | request loop, round body |
| ReAct turn loop (`agent.rs`, `resume_streaming_with_events`) | turn index, pending request, replay guard | stream, dispatch tools, persist, stop gate | provider, tools, hooks |
| Session store (`neenee-persistence/src/session/mod.rs`, `events.rs`) | in-memory session, append-only event log, snapshot with watermark and checksum | ~20 mutators, `append_turn`, compaction, load, reset, resume, fork | round bodies, request loop, scheduler |
| Request loop (`neenee-runtime/src/session_driver.rs`, `handlers_*.rs`) | the request being dispatched, the reconcile flag | chat, shell, interrupt, slash commands, session switch, crash recovery at start | all of the above |
| Session registry (`neenee-runtime/src/registry.rs`, `supervise.rs`, `host.rs`) | map of live sessions, their tasks and clients | assemble, resolve, resume, suspend, evict, kill, reap, re-host | request loops, disk |
| Scheduler (`orchestration.rs`, `run_schedule_tick`; `neenee-contracts/src/cron.rs`, `repeat.rs`) | armed jobs in the session | tick, arm, cancel | session store, request loop |
| Side sessions (`side.rs`, `handlers_session.rs`) | registry of `/btw` asides with a lifecycle and store each | open, focus, interrupt, close | request loop |
| Parked requests (`agent.rs`, `dispatch_pipeline.rs`, `permission_store.rs`) | one-shot senders for permissions, questions, inputs | park, reply, reject | tools, request loop |
| Token accounting (`neenee-contracts/src/token_ledger.rs`, `neenee-persistence/src/usage_stats.rs`, `agent.rs` `RequestAccountingGuard`) | usage record per model request, in memory, in the session's files and in the machine's usage files | start, complete, abandon, restore | turn loop, store |
| Tool scheduling (`tool_scheduler.rs`, `doom_guard.rs`, `loop_guard.rs`) | running batches, guard counters | schedule, guard, collect | turn loop |
| MCP runtime (`neenee-mcp`) | per session: the list of servers with handles, tools and status; per server: a slot with the current client and its pipe to a process | switch, reconnect, reconfigure, refresh; call, reset, retry | tools, request loop |
| Context pressure (`neenee-contracts/src/pressure.rs`, compaction in `session/mod.rs`) | thresholds, projections | estimate, prune, compact | round bodies |
| Shutdown (`neenee-runtime/src/shutdown.rs`) | drain phase, deadlines | drain, abort | registry |
| Policies (`permission_policy.rs`, `bash_policy.rs`, `trusted_projects.rs`) | rules | evaluate | parked requests |
| Frontends, wire, providers, skills, CLI (`neenee-tui*`, `apps/web`, `serve*.rs`, `client.rs`, `neenee-providers`, `neenee-llm-client`, `neenee-skills`, `neenee-cli`) | rendering and I/O | - | request loops |

### What is hard here, and what makes each part correct

All sessions of a host run on one tokio runtime with several workers. A session
has one request loop, which handles one request at a time, but a chat round is
spawned off it, and a `!` command, the schedule ticker, the idle sweep, usage
saves and every client run in tasks of their own. They share the round
lifecycle, the agent and the session store, and meet at awaits, short locks and
atomics. On top of this come user stops at any instant, provider and tool
failures with retries, failing writes, and crashes after which a session is
loaded from two files written at different times.

- **Round lifecycle.** At most one round of a session works uncancelled; a
  working round can be stopped; a stopped or superseded round unwinds and leaves
  the slot of its successor alone; an interrupt is attributed to the round it
  was meant for; the display ends idle.
- **Interactive rounds.** A completed exchange stays in the window of its
  session, whole and under a number of its own; an unsent one leaves nothing; a
  request goes out only when everything it is built from is in the store; a
  /retry point that is offered resumes the right round and loses nothing; a
  round writes only to the session it was admitted to.
- **Session store.** After a crash at any step a load finds what was confirmed,
  field by field, with some of what was changed since, and nothing else, also
  where writes failed; numbers in the log only grow as seen by a mark; a
  compaction loses nothing.
- **Steering inbox.** An input is taken in or refused; what was taken in is heard
  by the round it was meant for, given back, or withdrawn, once.
- **Scheduler.** A due job's prompt is sent once per slot; an accepted job is
  not lost and a cancelled one is silent.
- **Registry.** The map, the running harnesses and the monitors agree; a client
  is told when its session ends; a crashed session is evicted, and the scan of a
  daemon that starts hosts each armed one or leaves it dormant, not in between.
- **Parked requests.** Each can be answered while it waits, and none outlives an
  interrupt of its round.
- **Token accounting.** Each model request is counted once, also across a crash;
  what a crash cut off is told from what ended and could save that.
- **Tool scheduling.** Calls in conflict never run together, none is stuck, each
  has one outcome.
- **MCP.** List, tools on offer and table show the configuration in force; calls
  that share a connection do not read each other's answers away; a call ends,
  unless a write to a process that has stopped reading keeps it.

`PROJECT.json` lists the hazards at their lines, with the properties that cover
them or the reason why none does yet.

## 2. The modules

| Module | Models | Extends or implements |
|---|---|---|
| `RoundLifecycle` | `round_lifecycle.rs`; the prologue and tail in `start_interactive_round`; `shell.rs`; the stop requests Interrupt, /fork, /new of the request loop | - |
| `InteractiveRounds` | `execute_round` and the loop of `agent.rs` at the grain of a turn; window, round counter and retry point of the store; /retry | extends `RoundLifecycle` and implements its behaviours |
| `InteractiveRounds_proofs` | the theorems of both, and that the one implements the other | `InteractiveRounds` |
| `DurableSession` | what a store promises its callers | abstract |
| `SessionStore` | event log, snapshot, watermark, gate, compaction, load | implements `DurableSession` |
| `SessionStore_proofs` | its theorems | `SessionStore` |
| `InputDelivery` | what the harness promises about input sent to a running round | abstract |
| `UserInputs` | the agent's inbox, who fills, reads and closes it | implements `InputDelivery` |
| `UserInputs_proofs` | its theorems | `UserInputs` |
| `Cron` | cron fields and the day rule, over a calendar that is a parameter | - |
| `ScheduleTick` | the tick and its supervision, /schedule and /repeat, the rehost of armed sessions | extends `Cron` |
| `ScheduleTick_proofs` | its theorems | `ScheduleTick` |
| `SessionRegistry` | the daemon's map of hosted sessions and what changes it | - |
| `SessionRegistry_proofs` | its theorems | `SessionRegistry` |
| `ToolAccess` | which declarations of tool calls conflict | - |
| `ToolPhase` | the tool calls of one turn: scheduler, driver, permissions, interrupt | extends `ToolAccess` |
| `ToolPhase_proofs` | its theorems | `ToolPhase` |
| `UsageAccounting` | request records: ledger, session files, usage files, recovery | - |
| `UsageAccounting_proofs` | its theorems | `UsageAccounting` |
| `McpRuntime` | the MCP servers of a session | - |
| `McpServer` | the connection to one MCP server | - |
| `Mcp_proofs` | the theorems of both | `McpRuntime`, `McpServer` |
| `MCInteractiveRounds`, `MCSessionStore`, `MCScheduleTick`, `MCToolPhase` | symmetry, calendar and batch for TLC | - |

How they fit. `RoundLifecycle` is the frame: `InteractiveRounds` refines its
body, `UserInputs` takes from it who is cancelled when, and `ToolPhase` shows
that the tool calls of an interrupted body end. `SessionStore` is what
`InteractiveRounds`, `ScheduleTick` and `UsageAccounting` write to; each of these
takes a confirmed write as durable, which is what `DurableSession` promises.
`ScheduleTick` takes from `SessionRegistry` that an armed session is hosted
again. `McpRuntime` treats a connection attempt as one choice between success
and failure, and `McpServer` is the inside of a connection.

### RoundLifecycle

A cancellation token is identified with the round it was made for: `slot` is
`token_slot`, `cancelled` the set of cancelled tokens, `generation` and `reason`
the atomic counter and the parked interrupt reason, `pc` the place of each
round's code. One step is the code between two points at which another task can
run. So `begin` is two steps (`Reserve` is the `fetch_add`, `Install` the
exchange under the write lock), its caller two more (`ParkSuperseded`,
`Launch`), and the tail three (`TakeInterrupt`, `Finish`, `PublishIdle`). The
request loop is `driver`: a chat round holds it until it is spawned; a stop
request goes through `ParkReason`, then `EagerIdle` or `Supersede`, then
`CancelCurrent` and `Reconcile`, whose decision was taken in `Request`, before
the handler ran, as in `session_driver.rs:308`. The body of a round is the
single action `EndBody`: it returns with any result, interrupted only if its own
token was cancelled. `Crossing`
says whether the begin of a `!` round, which runs in a task of its own
(`handlers_chat.rs:161`), may fall into another begin or a stop; without it that
begin holds the request loop, as a chat round's does. Once begun, rounds overlap
freely either way.

### InteractiveRounds

Every action of the lifecycle is here together with what it does to the
conversation, and the body becomes the steps between `Enter` and the return, one
per await at which the store or the agent changes or is read: admission (`Enter`
to `SaveCounter`), the turns (`Prepare` to `Resend`), the unsend (`Unsend`,
`Restore`, `Unpark`) and the commit (`CheckSession` to `MirrorCounter`). A
message is the round that wrote it and its kind. The provider's answer is a
choice: tools, an answer, a transient or permanent error, a panic, silence until
the token is cancelled. `WriteFails` models that a mutator changes the session in
memory before its write fails. `Overlap` says whether the user may ask for a
round or a switch while a round still unwinds.

### SessionStore

A session is a set of items per field. A mutator changes memory and appends its
event under the state lock (`Mutate`). The change may be put off, as long as the
session is not worth a file; it may be logged; or it may be refused, when the
log cannot be opened or written (`RecordFails`): memory has changed by then, the
caller gets an error, and the log holds nothing of the change, a part, or all of
it. The copy of a logged change goes through `Queue`
(the gate), `Compact`, `Stamp` (the mark is read from the log) and
`WriteSnapshot`, or ends in `PersistFails`. `append_turn` only appends
(`AppendTurn`), once the round's admission has written the window and until one
of its turns fails (`admitted`). `Restart` is the death of the process, at any
step, and the load. Two histories say what a caller may count on: `found` is the
set of values a restart may find in each field, `refused` the fields in which
memory may be ahead of the files.
`Replayed` is `apply_events`: the last value that was set and all that was added
after it. Sequence numbers are natural numbers as in the file (`u64`; the code
cannot reach its bound). `next` is `next_seq` plus one, so 0 stands for
`None`: it is seeded again from the file after a restart and kept across a
compaction, which starts the numbers of the file over.

`DurableSession` is the contract: a write, an answer to callers, and a restart
that shows of each field the value last confirmed with some of the changes made
since, in their order. A change that was refused is one of these.

### UserInputs

`inbox` is `Agent::user_input_queue`, one for all rounds of the main agent; the
five operations under its mutex are single steps. `Submit` and `Cancel` are the
requests that send and withdraw input, `OpenInbox` the prologue's, `CaptureInbox`
the place where a round's task looks the inbox up, `AdmitAtTop` the admission
before a request, `ExitGate` the one that closes the inbox if it is empty, and
`CloseInbox` the tail's, which gives back what is left. What an input went
through is the history `told`; `heldBy` and `heardBy` say which round took it in
and which heard it. `DeliversInputs` is the refinement: the stage of an input in
`InputDelivery` is read off `told` and the inbox.

### Cron and ScheduleTick

`Cron` has the five fields as sets of `lo-hi/step` items and the day rule;
`Candidates` are the minutes `next_fire` tries. The tick (`TickRead`, `TickSend`,
`TickWrite`) and the commands (`AddRead`, `AddWrite`, `CancelRead`,
`CancelWrite`) read the list, work on a copy and write it back, with awaits in
between; `Store` is `set_scheduled_jobs`, which changes memory before a write
that can fail. `TickPanics` counts against `RestartLimit`. `HarnessEnds` and
`Crash` take a session down. Only a daemon that starts scans for armed sessions,
and only with `daemon.rehost_armed_schedules` set: `boot` says that this scan has
still to come to the session, `Rehost` and `RehostSkips` are its coming. At any
other time the session waits for a client (`Resume`); one that no scan will come
to is `Dormant`.

### SessionRegistry

Harnesses are numbered as they are assembled. A client and the scan at boot walk
through miss, assembly, insertion and subscription (`Misses`, `Assemble`, `Insert`,
`Subscribe`). `toRehost` is what the scan has still to look at. It may find a
session hosted already, its project root gone, or its assembly failing
(`Rehost`, `AssembleFails`): then the session is in `dormant` and the scan goes
on. A shutdown drops the rest (`ScanStops`), and a daemon that is configured not
to scan begins with every armed session in `dormant` (`Init`, `Restart`). Kill, suspension
and eviction go through removal from the map, cancellation and announcement
(`Removes`, `Cancels`, `Announces`); the idle sweep probes and then acts
(`Probe`, `Sweep`). `store` is the session a harness works on, which /new
changes, while `key` stays the one it is hosted under. Operations on different
ids interleave freely, as do rounds and what clients do meanwhile; `Overlap` says
whether operations on one id may too, or the next waits until it is `Settled`.

### ToolAccess and ToolPhase

Paths are sequences of components, a declared access is an operation on a path,
recursive or not, or `All`. In `ToolPhase` the driver submits the calls in order
(`Submit`), takes results (`Forward`), and on a cancelled token rejects what is
parked or queued and drains the rest for a grace period (`CancelAll`, `Drained`,
`GraceEnds`). A call's task is polled, asks, runs and reports (`Poll`, `Decided`,
`Returns`, `FinishCall`, which is the scheduler's `finish` with its re-scan).
Calls are numbers in the order of submission, so the scheduler's queue is
the set `Queued` in that order, and `Scans` says of a set of calls that it is what
a scan in that order promotes. An envoy's tool ends by itself when cancelled; other tools are
dropped with their task.

### UsageAccounting

One request is a key, round and attempt, whose record is in the ledger, in the
session's files (`stored`) and, once settled, in the machine's usage files
(`day`). `Ends` settles it and reads the day's file, where a file that cannot be
read is taken to be empty; `Bills` writes it. What the round does then is told
apart by its end: `Fails` saves the records after a failure, and the round tries
again, is interrupted before it does, or stops; `Unsends` gives its number back;
`Concludes` saves and arms or clears the retry point; `BreaksOff` is a body that
panics, or whose history cannot be written, and saves nothing. Each save
(`Persists`) may fail. `cut` and `unsaved` are histories of the rounds that a
crash or a switch cut off and of those that could not save how they ended.
`SaverReads` and `SaverWrites` are the task spawned when a request starts. `Leave`
and `ComeBack` switch the harness to another session and back, `Crash` and
`Start` kill the daemon and start a driver, with `Recover`.

### McpRuntime and McpServer

In `McpRuntime` a switch or a reconnect holds the list's mutex over its I/O and
is one step. `refresh_all` is three (`List` the jobs by place, `ReadConfigs`,
`WriteBack` by place), `reconfigure` three as well (`Reconfigure` swaps the
configuration, `Split` copies what is unchanged, `Splice` replaces the list).
`Published` is a snapshot of every entry laid over what is on offer. `Crossing`
names the operations of the request loop that may fall into a refresh; a refresh
may always fall into the other one. The sorts of the code are written by rank
(`InOrder`, `ByName`: the element in place k has k - 1 before it), so that they
can be reasoned about without recursion.

In `McpServer` a client is a `wire`: its process, the requests it has received,
the replies on their way and the mutex of its transport. `Ensure`, `Connects` and
`Reset` are the slot. A request waits for the mutex and is written (`Send`), at
once or, when the pipe is full, as the process reads (`Write`, `WriteFails`);
only then does its time-out run (`Read`, `ReadFails`, `TimesOut`). A process may
stop reading for good and live on (`Deafens`): what is written to it stays in the
pipe, and a write that does not fit waits for ever. What is given up half-way
leaves traces: a read may have consumed the beginning of a line (`torn`), a write
sent one, which swallows the next request (`cut`). A call can be dropped
anywhere (`Interrupted`), and a reconnection has a limit of its own after its
reset (`LimitReached`).

## 3. The runs

| Run | Question | Bounds | Result |
|---|---|---|---|
| `RoundSerial` | Do rounds whose begins do not cross keep to one at a time, reachable, with no leaked token, and does a superseded one end? | 2 chat rounds, 1 `!` round, 1 interrupt or /fork | holds, liveness included |
| `ChatSequence` | Exchanges kept, numbered apart, unsent without trace; the body implements the lifecycle | 3 rounds, 1 interrupt, 2 attempts, history of 5 | holds, with failing writes |
| `ChatRetry` | Save points, offered retry points, own history | 3 rounds, one of them /retry, 1 stop or switch, steering, history of 4 | holds |
| `StoreSerial` | Does a load find what is in memory, but for what could not be logged, and do the files implement `DurableSession`? | 2 fields, 2 items, 4 writes, compaction from 4 events | holds, with appends and snapshots that fail |
| `StoreTurnLost` | The same promise with `append_turn` beside another mutator | 2 fields, 3 writes, no compaction | violated, finding |
| `Steering` | Is every input heard by its round, given back or withdrawn, once, and does a stop give back? | 2 rounds, 2 inputs, 1 turn with tools each, 1 stop or switch | holds, liveness included |
| `Schedule` | Does a fire time fire once, is no accepted job lost and no cancelled one heard, is what is due sent while its session is hosted? | a recurring and a one-shot job, 3 minutes, 3 faults, 1 restart of the tick | holds when commands wait for a tick |
| `Registry` | Do map, drivers, monitors and clients agree, is a crash evicted, does the scan host each armed session or find it dormant? | 2 ids, 1 client, 2 harnesses, 1 panic or restart | holds when operations on one id do not cross |
| `ToolBatch` | No clash over a file, nobody stuck, one outcome each, an interrupted phase ends | 5 calls, 3 ask, 1 drains, 1 known, 1 panic | holds, liveness included |
| `Usage` | Is each request counted, is a crash offered for a retry, is only what was cut off or could not be saved taken for one? | 1 session, 2 rounds, 2 attempts, 2 crashes, 2 switches, 2 faults | holds for one session, its writes one after the other |
| `Mcp` | Do list, tools and table show the configuration in force, does what is switched off stay off, does connecting settle? | 2 servers, 3 settings, both refreshes | holds when a switch-off or a new configuration waits for a refresh |
| `McpCalls` | Is no answer read away, does a call survive one fault, does every call end but one that a write keeps? | 2 tool calls, 1 reconnection, 2 faults | holds, liveness included |

A property about types is stated in each module, as `TypeOK` or under a name of
its own; all are theorems (section 5). The runs are kept for the other properties.

Why the bounds are enough. A begin concerns its round and one predecessor, a
stop the slot, so three rounds and a stop show them in every order, and the
theorems of section 5 carry the safety part of `RoundSerial` to any number.
Three chat rounds give an exchange, one that fails or
is unsent, and one that comes after; a history of 4 or 5 messages holds an
earlier exchange and a prompt, a turn and an answer on top (`MaxWindow` stops a
round from calling tools for ever, in the guards of the turns only). Two
attempts give one backoff. Two fields are the least for which one can be
absorbed and the other not, one that makes a session worth a file and one that
does not, one that is set and one that grows; four writes with a compaction from
four events on reach a log that was compacted and appended to again, and
`SessionStore_proofs` does without the bounds.

An inbox is confused with its successor's at most, so two rounds, one input held
by each or both by one, and a turn at whose end input can be admitted or be too
late. The calendar of `Schedule` has days of two minutes, months of three days
and weeks of two, so that both restricted day fields are hit and missed within
three minutes; three faults allow one in each of a send, a write and a restart.
Two harnesses are what a second attach, a rehost or a resume after a kill can
confuse, the fault is a driver's panic or a restart; a second session that is
armed before the restart shows that the scan goes on after a failure. The five calls of `ToolBatch` have a
writer of one file, a search next to it, a write of the tree above both and a
read in it, so the re-scan meets conflicts with active, promoted and waiting
calls. Two attempts give a number that is used, lost in a crash and used again,
two faults a save that fails and a file that cannot be read. Two servers are enough for a list whose places shift; settings are off and
two that differ, so a server can be added, removed, switched and changed.
Two tool calls can fail on one client while a reconnection drops another;
two faults are one more than `OneFaultIsRecovered` speaks of and let a process
hang while another call is dropped, and the number
of clients follows from that of the calls. `MaxStops`, `MaxWrites`, `MaxTurns`, `MaxTime`,
`MaxFaults`, `MaxBuilt`, `MaxRounds`, `MaxAttempts`, `MaxCrashes`, `MaxLeaves`
and `MaxPanics` bound the number of what they name and nothing else. Rounds (where none is
a /retry, `!` or otherwise singled out) and items are symmetric; no run with
symmetry checks liveness.

`CHECK_DEADLOCK` is off where the model may stop: time, faults or harnesses are
used up, the phase or the calls have ended.

### Fairness

| Run | Fair | Why |
|---|---|---|
| `RoundSerial` | each round's prologue and tail, a request being handled, the return of a body whose token is cancelled | a task that can run is polled, no lock is held across an await; every await of a request, a tool or a backoff selects on the token |
| `Steering` | each round's own steps, the prologue | the same; the provider and the user (`Environment`, `Requests`) owe nothing |
| `Schedule` | the tick, a command being handled, the scan of a daemon that starts | the interval fires and the supervisor restarts; the scan is a task of the daemon. Nobody has to attach, so a property of a dormant session is not asked |
| `Registry` | the daemon's tasks together (assembly, insertion, teardowns, the sweep, the end of a cancelled driver), subscriptions; strongly, evictions and the steps of the scan | tasks of their own, finite in number as harnesses are; the last two wait for other operations on their id to be over, which the run has one after the other |
| `ToolBatch` | the driver, each call's task | neither tool nor user owes an end: the grace period has a timer |
| `Mcp` | the two refreshes, a reconfiguration; strongly, the listing of a refresh | a connection attempt has a time limit; the mutex is fair, and the listing waits for the reconfigurations that the run keeps apart |
| `McpCalls` | the calls together, the limit of a reconnection included | a call's task is polled and its timers run out; there are finitely many steps before all have ended. A process owes neither a reply nor a read, nobody has to interrupt |

Nothing is assumed of users, who may never send a request, nor of a round's body
that was not cancelled, which may wait for a permission for ever. That a
cancelled body returns is an assumption of `RoundSerial`; for the tools of a turn,
with those that wait for a permission, it is `InterruptEndsPhase` of `ToolBatch`.

## 4. Findings

`StoreTurnLost` is a run that TLC must find violated; `PROJECT.json` quotes the
comment it contradicts: a snapshot is marked with events its copy does not hold.

The others were met while modelling, by reading or with the models under other
constants than those of the runs. What a reader changes to see them again is
given; where no constants are named, the model does not have the detail.

**Rounds** (`neenee-agent/src/orchestration.rs` where no file is named)

- `RoundLifecycle` with `Crossing` TRUE and rounds {c1, c2, s1}, s1 a `!` round:
  `AtMostOneLive` fails (`round_lifecycle.rs:72`), against
  `docs/reference/state-model.md:25`. With {r1, s1} at most one works, but
  `LiveRoundReachable`, `NoLeakedToken` and `SupersededEnds` fail: the slot holds
  the older of the two begins.
- An Interrupt with nothing running leaves its label to the next round
  (`handlers_permission.rs:34`; `round_lifecycle.rs:129`), and the label of a
  superseded round may be taken by its successor (`:785`, `:808`).
- After /new on a running round no Idle is sent (`session_driver.rs:308`,
  `:765`), and the Idle of a superseded round (`:832`) may follow its
  successor's Running.
- `InteractiveRounds` with `Overlap` TRUE: `CompletedExchangeKept` fails, a
  superseded round and its successor overwrite each other's window (`:1266`;
  ADR-0048, line 235). A superseded round that restores or mirrors the counter
  (`:1241`) undoes its successor's admission.
- An unsend after a steer, or of a resumed round, takes back the wrong message
  (`:1238`).
- A resume that panics or is interrupted in its backoff leaves a watermark below
  the turns it saved, and the next /retry cuts them off (`:959`, `:1221`).
- A round that was admitted before /new repointed the store can write its
  admission to the new session (`:983`).

**Store**

- With `TornCompaction` TRUE (and `Threshold` 3) TLC finds `ConfirmedSurvives`
  and `LoadFindsMemory` violated: compaction replaces the log before the
  snapshot, a crash in between leaves a snapshot whose mark is above all numbers
  of the new log, and what it did not hold is skipped. `session/mod.rs:2140`
  says that compaction "can therefore never drop an unabsorbed event".
- A copy takes its place at the gate after the state lock is released
  (`session/mod.rs:1996`), so an older copy may be written last.
- Every mutator changes memory before `ensure_event_log_started` and `append`,
  which may fail and return (`session/mod.rs:1371-1384`, also `:940-948`,
  `:976-986`, `:1308-1316`). The caller is told that its change failed, yet the
  session shows it, and a load does not. It reaches the files with the next
  snapshot, whoever writes it, or is gone. `StoreSerial` shows that this is all a
  failing write can do (`LoadFindsMemory`, `ImplementsDurable`).
- `reset` returns an id that is not the one its data bear (`session/mod.rs:1625`).

**Scheduler**

- `Overlap` TRUE: `SlotFiresOnce`, `AcceptedJobKept` and `CancelledIsSilent`
  fail, as the tick reads the jobs at `orchestration.rs:1710` and writes them
  back at `:1793` across awaits, and so do the commands.
- The tick delivers before it advances (`:1737`, as ADR-0125 has it), where its
  doc (`:1697`) has the advance first; a crash in between fires again, and one
  after it loses a prompt the request loop has not taken.
- A failing `set_scheduled_jobs` has changed the list in memory. An expression
  whose next match is further than 366 days falls back to a day from now.
  /schedule list shows eight characters of an id, cancel compares all
  (`handlers_slash.rs:2055`).
- A session that is killed, suspended or evicted while its daemon runs sends
  nothing more, armed or not: armed sessions are hosted by the scan of a daemon
  that starts (`neenee-runtime/src/host.rs:389-409`) and by a client that attaches.
  Without its exemption of `Dormant` sessions `DueJobFires` fails.

**Registry** (`neenee-runtime/src/registry.rs`)

- `Overlap` TRUE: `MapMatchesDrivers` and `AttachedOrTold` fail.
  `evict_crashed_session` says it compares tokens (`:358`) and removes whatever
  is hosted under the id by then; two resumes of one id build two harnesses over
  the same files (`:923`); the driver is spawned (`:1129`) before the entry is
  inserted (`:1189`), against the comment at `:1120`; a client that attaches
  between resolution and subscription misses the final Exit; the idle sweep
  suspends what got a client or a round after its probe (`:454`).
- A kill records a round as terminated whose spawned task goes on (`:520`,
  `orchestration.rs:727`).
- After /new the map's key is the old session's id.
- An armed session whose assembly fails in the scan, or whose project root is
  gone (`:970`, `:993`), is left out with a warning and not tried again; so is
  what a shutdown of the scan leaves (`host.rs:399`).

**Tools**

- `tool_scheduler.rs:313`: the re-scan compares a waiting call with the active
  ones and those it has promoted, not with calls that wait ahead of it, so a
  later call starts before an earlier one it conflicts with; the comment at
  `:14-18` says that it "cannot jump ahead". In `MCToolPhase` calls 3 and 4 do
  so; no file is clashed over.
- A recursive access to the root conflicts with nothing below it
  (`tool_access.rs:240`).
- A panicking tool sends no result and is recorded as blocked by the loop guard,
  where `dispatch_pipeline.rs:468` says every terminal task emits one. An envoy
  that is promoted while the token is cancelled still starts.

**Usage**

- `usage_stats.rs:127`: the day's file is read before the lock is taken, so two
  sessions or processes that settle at the same time write one over the other's
  record; `:18-20` says the "read-modify-write window is serialised". With two
  `Sessions` and `Overlap` TRUE `EveryRequestCounted` fails.
- The spawned save may write an in-flight record over the settled one
  (`orchestration.rs:1101`).
- /new or /resume during a request leaves a request in flight in the files of
  the old session, whose next driver takes it for a crash (`session_driver.rs:888`);
  `/session open` of a crashed session in a running driver restores the ledger
  and recovers nothing. A crash after the usage file was written and before the
  record was saved uses the key again.
- A round may end with its request in flight in the files: when its body panics
  (`orchestration.rs:742-770`), when a `replace_messages` fails before the save
  (`:1239`, `:1266`), when the save fails. The next driver to start records that
  round as terminated and offers it for a retry, though it was neither killed nor
  cut off. `session_driver.rs:170` says "Every live settlement path writes a
  terminal status back before the round ends", and `:891` that in-flight records
  are left "exclusively to process death". In `Usage` these rounds are `unsaved`;
  without them `ResidueIsCutOff` fails.
- A day's file that cannot be read or parsed is taken to be empty and written
  over with the one record at hand (`usage_stats.rs:229-248`).

**MCP** (`neenee-mcp/src/runtime.rs`)

- `Crossing` {"switchOff"}: `SwitchedOffStaysOff` fails. A refresh releases the
  list for its I/O (`:392`) and writes back what it listed, so a server that was
  switched off meanwhile is connected and on offer again; the comment at `:60`
  says that holding the mutex "serializes a user toggle against the background
  refresh loop".
- `Crossing` {"reconfigure"}: `PublishedIsConfigured` fails. The write-back by
  place (`:452`) can bring back a removed server, write over another entry, or
  reach past the end of a shorter list: this panic ends the repeating refresh,
  where `neenee-agent/src/dynamic.rs:16` says "a failed refresh never kills the
  loop". The copy of what is unchanged (`:312`) is from before the connections
  and takes back what happened to it since, where `:257` says "left untouched".
- After a failed reconnection the handle stays, and switching the server on does
  nothing (`:198`).
- The repeating refresh keeps the runtime (`neenee-runtime/src/bootstrap.rs:587`), so the servers of
  a session that was killed go on running and are reconnected, and its `Drop`
  does not run; `lib.rs:7` says "the session owns each runtime because it
  controls connection lifetime".
- A call that timed out counts as a broken transport and is sent again
  (`client.rs:45`, `:319`): the server may apply it twice, which "retry-safe"
  (`:40`) does not say. `reset` (`:275`) drops whatever client is in the slot,
  also one that another call has just made.
- The wait for the transport and the write (`client.rs:174-177`, `:222-225` for a
  notification) come before the time-out of `:182`. A process that stops reading
  and whose pipe is full keeps the write for ever, with the transport locked, and
  every other call on this client behind it until one is interrupted, where
  `:179-181` says that a silent server is "released rather than pinning the
  transport lock forever". Without its exemption `CallEnds` fails. The reset of a
  reconnection (`:454`) comes before its limit as well.

## 5. What is proved

All proofs are for any sets of rounds, fields, items, inputs, calls, jobs,
sessions, servers and settings and any bounds. An assumption on the interleaving
that a theorem makes is stated as its hypothesis, and is there because the
property fails without it: section 4 says how. Type correctness assumes nothing in
any module; where the other theorems of a module do, it has an inductive
invariant of its own (`TypeOK`, `StoreTypes`, `ScheduleTypes`, `UsageTypes`,
`RegistryTypes`, `RuntimeTypes`).

**Lifecycle.** Assumption: `~Crossing`, no begin of a `!` round falls into
another begin or a stop, except for `TypeCorrect`, which needs none; `!` rounds
are among the rounds. The inductive invariant `SerialInv` adds to the
properties that generations are handed out once (`GenerationsDistinct`), that
there is one begin at a time and it holds the loop (`OneBegin`), and that the
slot holds the newest installed round, the current one unless the counter has
just been moved on (`SlotNewest`). The last is what makes the test of `finish` the
right one: an old generation is not in the slot. Proved: `OneActiveRound`,
`StopReachesLiveRound`, `SlotReleased`, `SuccessorKeepsSlot`.

**Rounds.** `RoundsImplementLifecycle`: every step of `InteractiveRounds` is a
step of the lifecycle or none, from the invariant `BodyInv` (types; an ending is
decided before it is used; a resume has its point until it ends). Its rounds are
chat rounds (`ChatOnly`), so the lifecycle's theorems hold of the detailed
rounds: `OneActiveChatRound`. These need no assumption on the interleaving.

**Conversation.** Assumption: `~Overlap`, the user waits for a round to end.
Proved: `ExchangesKept`, `NumbersDistinct`, `TurnsAreSaved`, `WindowIsOwn`;
`UnsentIsGone`, which also needs `~Steering` (an unsend takes back the last
message, and after a steer that is not the prompt); and `OfferedRetryIsGood`,
which also needs `~WritesFail` (a failed write leaves a watermark that the
window never reached). Failing writes, panics, interrupts and switches at any
step are covered by the others. The invariant `ChatInv` says of the store and of
the round in hand, at each position of its body:

- A log that may be written to the store is of this lineage of sessions and
  begins with every completed exchange (`Faithful`): true of the window at all
  times and of the round's own history from the moment it has one (`Logged`), so
  that a write of the whole window loses nothing, wherever it is cut off.
- An offered point lies behind all that is completed, in number and in length
  (`StoreGood`), so a /retry cuts nothing completed off. A round that resumes
  keeps its point in the store until it returns, and a prompt removes it before
  it writes (`Pointed`).
- The number in hand is above every completed one, and so is the one an unsend
  goes back to (`Numbered`).
- Until the first tool call the prompt is all a round has written and it is last
  (`PromptLast`), which is what makes "take back the last message" an unsend.

`CompletedExchangeKept` asks that each completed exchange stand in the window as
a prefix of it, so that it is whole, in its place and not only present.

**Store.** Assumption: one mutator at a time (`~Concurrent`), no crash between
the two files of a compaction (`~TornCompaction`); both are needed, as
`StoreTurnLost` and section 4 show. `StoreInv` says that the log is in order and
no longer than its numbers (`LogOrdered`: this is what keeps a compacted log
below the counter that was not reset, given that a seed is shorter than a log
that is due for compaction, `ThresholdAssumption`); that the call under way is
the only one, its copy is current and its mark covers the log (`OneCall`); that
snapshot and tail make up the memory, but for refused changes (`Absorbed`); that
memory and files are each what was confirmed with some of the later changes
(`Owed`); and that a round which may save turns has its window in the files
(`Admitted`), so that a turn that was answered is never behind one that was
refused. Appends and snapshots may fail at any step. The lemma on
which it rests is `ReplayNewer`: an event that is newer than a log is applied to
what the log replays to. Proved: `LoadsWhatWasInMemory`, `StoreImplementsDurable`.

`StoreTypeCorrect` needs neither assumption: from `StoreTypes` (the types,
`LogOrdered`, and a log that is not empty while a call is under way) it follows
that mutators which overtake one another and a crash inside a compaction can
lose a value, but never leave a log out of order or files that load as no
session (`LoadIsTyped`).

**Steering inbox.** No assumption but that rounds are begun by the request loop,
as they are in `UserInputs`. `InputsInv` relates the inbox to the lifecycle: an
open inbox belongs to a round whose tail has still to close it (`InboxOwned`); as
long as its token is live a round's inbox is open (`LiveInbox`), and a body that
has passed the check of its token looks at its own (`SeenOwn`, which is where a
round that was superseded before it looked its inbox up is stopped); what the
inbox holds was taken in for its owner (`HeldForOwner`); and one thing is told of
an input (`ToldOnce`). Proved: `InputsTypeCorrect`, `InputsHeardByTheirRound`,
`AcceptedInputsAreHeard`, and `InputsDelivered`, the refinement of
`InputDelivery`.

**Tool phase.** `PhaseInv`: no two active calls conflict (`ActiveApart`); every
queued call conflicts with an active one or one queued before it
(`QueuedBlocked`, which each scan restores, so that no wakeup is lost); the
driver's place and the results agree (`DriverOrder`, `ResultsKept`).
`RunningCallsApart` assumes `NoRootTree`, that no call declares the tree of the root,
and rests on a lemma about paths, `PrefixesNest`: two directories
that hold one file are one inside the other. The others assume nothing:
`PhaseTypeCorrect`, `QueueIsWoken`, `EachCallHasOneOutcome`,
`WaitingCallsAnswerable`.

**MCP server.** No assumption but that the bound on faults is above one, so that
the count tells one from more. `ServerInv`: whoever connects holds the mutex
and finds the slot empty (`ConnectsAlone`); before the first fault every held
client is healthy (`Undisturbed`); and after one fault a call that is in its
second try has a healthy client in its hand or in the slot, because what was
thrown away was the broken one (`Recovering`). `PipeInv` says that whoever uses a
client's transport holds its lock (`UsesAlone`) and that the answer to what a
living process has received is still to come (`NoAnswerIsSkipped`); the reason is
that one reader at a time skips, and what it skips are answers to calls that were
given up. Its proof rests on a lemma that a call's step changes no transport
another one holds (`Spares`). Proved: `ServerTypeCorrect`, `OneFaultRecovered`,
`AnswersAreNotSkipped`.

**MCP list.** `RuntimeTypeCorrect` assumes nothing. `PublishedConfigured` assumes
that no reconfiguration falls into a refresh, `SwitchedOffSilent` that no
switch-off does either; section 4 says what happens otherwise. Switches on,
reconnects and the two refreshes interleave as they like in both. `ListInv`: the
list holds the configured servers, each once and in order, with handle and tools
of the settings in force, except those in the hands of a reconfiguration
(`ListShape`), and one is under way only when no refresh has jobs (`LoopShape`);
what is on offer is the list's (`OfferShape`); the jobs of a refresh match the
list place by place and carry settings in force or none (`JobShape`), which is
why results may be written back by place. `OffShape` adds that the entry of a
server the user switched off is a disabled one, and that no refresh has a job
for it but to skip it.
The lemmas they rest on are about sorting by rank: `Rank` (in an ordered finite
set each number up to its size is the rank of an element), `InOrderUnique` (a
list in order is the sorted list of its members) and `ByNamePermutes`, from which
the list a reconfiguration splices is again in order (`ByNameIs`).

**Usage.** Assumption: `~Overlap`, the save of a started request and a write of
the usage files are through before a request ends or its session is switched.
`UsageInv`: the request that is out is the only one in flight, its key is new
to the usage files, and it is on file once the spawned task is through (`OnWire`,
`InTime`); what was billed is on file, and what is on file is in a ledger in use
(`Known`), so that an attempt's number is never used twice, even if its round's
number was given back; the files show in flight only what was cut off, could not
be saved, or is being asked or about to be saved (`CutOff`, `Asked`); the round a
crash took is the last one and still shown in flight (`LostOnFile`), so it is the
greatest that the recovery finds; and one request at a time bills, from the files
as they are or, if they could not be read, from nothing (`BillsAlone`). Panics and
failing writes are covered. The theorems
hold for any number of sessions, where the run has one: `RequestsCounted`,
`CrashedRoundsOffered`, `OnlyCutOffIsResidue`. `UsageTypeCorrect` holds however
saves and writes are interleaved: `UsageTypes` adds to the types that a request
that is out has a key, and that what is about to be billed is settled.

**Scheduler.** For any jobs, calendar and bounds. `ScheduleTypeCorrect` and
`RecurringSetToNext` hold with ticks, commands and rehosts interleaved in any
way. The second assumes that an expression has a match to come (`AlwaysFires`;
`next_fire` otherwise falls back to a day from now) and says of every copy of the
list, stale or not, that it is set to a minute meant for the job (`SlotInv`); the
lemma `MatchesAreMeant` is the day rule of `cron.rs` against its definition. The
others assume `~Overlap`, that commands and rehosts wait for the tick. Whether
the scan comes to the session, skips it or is switched off makes no difference to
them. Their
invariant `ScheduleInv` says that one task works on the list and its copy is
current (`OneTask`); that what left the tick's copy was fired for good or has
expired (`TickCopy`, `Kept`); and how sends are paid for (`Counted`): a list that
would send a fire time again, and that the tick has not moved on in its copy,
has been left behind by a fault of its own. That an unchanged list need not be
written rests on sizes: a copy that dropped nothing and sent nothing is the
list. Proved: `ArmedJobsStay`, `FiresOnce`, and `CancelledStaysSilent`, an action
property.

**Registry.** Assumption: `~Overlap`, the next operation on an id waits until it
is settled; operations on different ids interleave as they like, and so do
panics, restarts, rounds and `/new`. `RegistryInv` says of each id by itself
(`Good`): one operation on it is under way (`OneOperation`); of the harnesses built
for it one at most has still to end, and it is in the map, told to end, or in
the hands of that operation (`OneHarness`); what the operation has found or done
so far still holds, so that a probe's harness is still the entry and has nobody
attached, and a crashed harness about to be evicted is the entry, although the
code asks only for the id (`Owed`); and the clients of a cancelled harness have
been told (`Told`). An id's own operation can disturb what is said of it, any
other step can only take a client away from it: that is `Same`, and the lemma
`Untouched`. Proved: `MapAgrees`, `ClientsAreTold`. `RegistryTypeCorrect` holds
also when operations on one id fall into each other.

**Only model-checked.** Everything under fairness (`SupersededEnds`,
`StoppedAnswers`, `DueJobFires`, `CrashedIsEvicted`, `ArmedIsRehosted`,
`InterruptEndsPhase`, `ConnectingSettles`, `CallEnds`), as liveness is beyond the
prover. The masks that `Cron` computes
from the fields are checked by the run over its calendar.

## 6. What the models leave out

- `RoundLifecycle`: the rounds of side sessions (each has a lifecycle of its
  own, of the same code), the process of a `!` command.
- `InteractiveRounds`: pruning and compaction of the window, todos, usage
  records, titles, hidden prompts. The runs have the user wait for a round
  to end before the next round or switch (`Overlap` FALSE); section 4 says what
  happens otherwise.
- `SessionStore`: other sessions of the store (new, resume, fork, open, delete),
  blobs, checksums, migrations, malformed and cut-off lines: what a failed write
  leaves of a line also swallows the next event, which is glued to it, so that a
  turn appended after it may be lost though its caller was answered. Each field
  has one writer. The cached high number skips a line that was written and not
  synced, which matters only when mutators overlap.
- `UserInputs`: provider retries, which go back to the request and past the
  admission; the asides, each with an agent and an inbox of its own.
- `ScheduleTick`: the round a prompt starts, a job whose expression does not parse
  (no command admits one), the reading of countdowns and dates; that a daemon that
  died is started again (the scan is fair once it is, nothing says when); in `Cron` a step
  after a single value (`a/n`, which the code reads as `a`), and leap years.
- `SessionRegistry`: work in progress that tools declare, several projects, the
  contents of a monitor's row; a scan that stops between the start of a driver and
  its entry in the map, which leaves a driver outside the map until the process
  exits.
- `ToolPhase`: what a tool does, hooks, the messages of the results, rules stored
  by `always`; questions and inputs of tools, which are parked as permissions are.
- `UsageAccounting`: counts, reports, days and their pruning; envoys and further
  turns, which add keys; a round that ends before it asks; a failing write of the
  counter or of the retry point, of which the code warns or gives up, with the
  memory changed; a record whose save failed and that a later snapshot of the
  session carries to the files. The save of a started request may fail only with
  `Overlap`. Requests are counted from the last time the usage files were found
  unreadable.
- `McpRuntime`: names and shapes of tools, what `Drop` takes back, the paths that
  only tests use (`connect_all`, `load_mcp_tools`). `McpServer`: the greeting
  (two short messages into an empty pipe), a process that writes something other
  than replies; a call that retries keeps its first client until it ends,
  and the model lets go of it at once.
- The parts marked `not_modelled` in `PROJECT.json`: side sessions, shutdown,
  context projection and envoys have state of their own and are left for later;
  the others are I/O, rendering, text and configuration.

## 7. Plan

Modules that would come next: the store's switches (reset, resume, fork, open,
delete) over `SessionStore`; side sessions; questions and inputs that tools park;
shutdown against its deadline; the selection of what a compaction keeps.
