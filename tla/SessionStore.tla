---------------------------- MODULE SessionStore ----------------------------
(***************************************************************************)
(* The files of one session (crates/neenee-persistence/src/session/mod.rs  *)
(* and events.rs): an append-only event log, and a snapshot that bears the *)
(* sequence number of the last event it has absorbed, so that a load reads *)
(* the snapshot and replays the rest of the log.                           *)
(*                                                                         *)
(* A mutator changes the session in memory and appends its event under the *)
(* state lock; the copy it took is written after the lock is released,     *)
(* behind a first-in first-out gate.  A completed turn is only appended.   *)
(* Memory is changed first: an event that cannot be appended leaves it     *)
(* ahead of the files, and the caller with an error.                       *)
(*                                                                         *)
(* The session is a set of items per field.  Each field has one writer,    *)
(* which waits for its own call to return.  Left out: other sessions (new, *)
(* fork, open, delete), blobs, migrations, malformed lines.                *)
(***************************************************************************)
EXTENDS Naturals, Sequences, FiniteSets

CONSTANTS
    Fields,          \* model_window, todos, title, request usage, ...
    Window,          \* the field append_turn writes
    Substantive,     \* the fields that make a session worth a file
    Growing,         \* the fields whose events add to the value
    Items,           \* messages, jobs, records
    Threshold,       \* LOG_COMPACTION_THRESHOLD
    Concurrent,      \* TRUE: a mutator may run while another one's snapshot is due
    TornCompaction,  \* TRUE: a crash or an I/O error may fall between the two files
    MaxWrites,       \* bound on the number of mutations
    NoSnapshot       \* the snapshot file does not exist

ASSUME FieldsAssumption ==
    /\ IsFiniteSet(Fields) /\ Window \in Substantive
    /\ Substantive \subseteq Fields /\ Growing \subseteq Fields
(* The seed of a session is shorter than a log that is due for compaction. *)
ASSUME ThresholdAssumption == Threshold \in Nat /\ Cardinality(Fields) < Threshold
ASSUME StoreSwitchesAssumption == {Concurrent, TornCompaction} \subseteq BOOLEAN
ASSUME WritesAssumption == MaxWrites \in Nat

VARIABLES
    mem,        \* SessionState::data
    next,       \* EventLog::next_seq; 0 while unseeded, else one more than the number
    log,        \* the events in the .jsonl file
    snapshot,   \* the .json file
    call,       \* the mutator of each field: where it stands, the copy it took, its mark
    gate,       \* the queue of persist_gate
    admitted,   \* a round has saved the window, and none of its turns failed
    found,      \* ghost: for each field the values a restart may find: the one last
                \* confirmed to a caller, with some of the changes made since
    refused,    \* ghost: the fields with a change whose event was not logged
    torn,       \* ghost: the log is rewritten and the snapshot not yet
    writes      \* mutations so far

files == <<log, snapshot>>
store == <<mem, next, log, snapshot, call, gate, admitted, found, refused, torn, writes>>

Values == SUBSET Items
Data   == [Fields -> Values]
Empty  == [f \in Fields |-> {}]
Event  == [seq : Nat, kind : {"started", "set", "add"}, field : Fields, value : Values]
Snapshot == [data : Data, mark : Nat]
Calls  == {"none", "leaving", "queued", "stamping", "writing"}

ASSUME NoSnapshotAssumption == NoSnapshot \notin Snapshot

StoreTypeOK ==
    /\ mem \in Data /\ next \in Nat
    /\ log \subseteq Event
    /\ snapshot \in Snapshot \cup {NoSnapshot}
    /\ call \in [Fields -> [at : Calls, data : Data, mark : Nat]]
    /\ gate \in Seq(Fields)
    /\ admitted \in BOOLEAN /\ found \in [Fields -> SUBSET Values] /\ refused \subseteq Fields
    /\ torn \in BOOLEAN /\ writes \in Nat

StoreInit ==
    /\ mem = Empty /\ next = 0 /\ log = {} /\ snapshot = NoSnapshot
    /\ call = [f \in Fields |-> [at |-> "none", data |-> Empty, mark |-> 0]]
    /\ gate = <<>> /\ admitted = FALSE
    /\ found = [f \in Fields |-> {{}}] /\ refused = {}
    /\ torn = FALSE /\ writes = 0

(* The abstract session, of which the files are an implementation.            *)
Durable == INSTANCE DurableSession WITH value <- mem

-----------------------------------------------------------------------------
(* The event log. *)

(* high_seq: the newest number in the file, which is not empty. *)
High == CHOOSE n \in {e.seq : e \in log} : \A e \in log : e.seq <= n

(* The number the next event gets: next_seq, seeded from the file. *)
NextSeq == IF next # 0 THEN next ELSE IF log = {} THEN 0 ELSE High + 1

Started(n) == [seq |-> n, kind |-> "started", field |-> Window, value |-> {}]

(* ensure_event_log_started and append. *)
Record(kind, f, v) ==
    LET first == NextSeq
        seq   == IF log = {} THEN first + 1 ELSE first
        event == [seq |-> seq, kind |-> kind, field |-> f, value |-> v]
    IN /\ log' = log \cup {event} \cup (IF log = {} THEN {Started(first)} ELSE {})
       /\ next' = seq + 1

(* They fail.  The number may be spent without a line, the first line may be  *)
(* all that is written, or one of the lines is written and cannot be synced.  *)
RecordFails(f, lines) ==
    \/ log' = log /\ next' \in {next, NextSeq + 1}
    \/ log = {} /\ log' = {Started(NextSeq)} /\ next' \in {NextSeq + 1, NextSeq + 2}
    \/ \E c \in lines : Record(c.kind, f, c.value)

(* apply_events, field by field: the last value that was set, and what was    *)
(* added after it.                                                            *)
Sets(events, f)       == {e \in events : e.field = f /\ e.kind = "set"}
LastSet(events, f)    == CHOOSE e \in Sets(events, f) : \A d \in Sets(events, f) : d.seq <= e.seq
Added(events, f)      == UNION {e.value : e \in {d \in events : d.field = f /\ d.kind = "add"}}

Replayed(base, events, f) ==
    IF Sets(events, f) = {} THEN base[f] \cup Added(events, f)
    ELSE LET last == LastSet(events, f)
         IN last.value \cup Added({e \in events : e.seq > last.seq}, f)

Replay(base, events) == [f \in Fields |-> Replayed(base, events, f)]

(* load_or_seed: the snapshot and the events past its mark, or all events. *)
Load ==
    IF snapshot = NoSnapshot THEN Replay(Empty, log)
    ELSE Replay(snapshot.data, {e \in log : e.seq > snapshot.mark})

(* snapshot_to_events; the events of different fields commute, so they may    *)
(* bear one number.                                                           *)
Seeds(data) ==
    LET full == {f \in Fields : data[f] # {}}
    IN {Started(0)}
       \cup {[seq |-> Cardinality(full \cup {Window}), kind |-> "set", field |-> f, value |-> data[f]] :
                f \in full \cup {Window}}

-----------------------------------------------------------------------------
(* The mutators. *)

Idle(f) == call[f].at = "none"

MayMutate(f) ==
    /\ writes < MaxWrites /\ writes' = writes + 1
    /\ IF Concurrent THEN Idle(f) ELSE \A g \in Fields : Idle(g)

(* should_skip_persist: nothing on disk yet and nothing worth it. *)
Deferred == snapshot = NoSnapshot /\ \A f \in Substantive : mem'[f] = {}

Enter(f, step) == call' = [call EXCEPT ![f] = [at |-> step, data |-> mem', mark |-> 0]]

(* The events a mutator of f writes. *)
Changes(f) == [kind : IF f \in Growing THEN {"set", "add"} ELSE {"set"}, value : Values]

(* Memory is changed before anything is written. *)
Change(f, c) == mem' = [mem EXCEPT ![f] = Durable!Apply(c, @)]

(* What a restart may find changes with it. *)
Attempt(f, c) == found' = [found EXCEPT ![f] = Durable!Later(c, @)]

(* Mutant: the copy to be written is taken before the change. *)
MutateStaleCopy(f) ==
    /\ MayMutate(f) /\ admitted' = (admitted /\ f # Window)
    /\ \E c \in Changes(f) :
         /\ Change(f, c) /\ Attempt(f, c)
         /\ IF Deferred THEN UNCHANGED <<next, log, call, refused>>
            ELSE /\ Record(c.kind, f, c.value)
                 /\ call' = [call EXCEPT ![f] = [at |-> "leaving", data |-> mem, mark |-> 0]]
                 /\ refused' = IF c.kind = "set" THEN refused \ {f} ELSE refused
    /\ UNCHANGED <<snapshot, gate, torn>>

(* replace_messages and the setters: under the state lock.  A change is put   *)
(* off, logged by a call that goes on to persist_off_runtime, or refused: the *)
(* caller gets an error, of items that are logged one by one (request usage)  *)
(* with some of them in the log.                                              *)
Mutate(f) ==
    /\ MayMutate(f) /\ admitted' = (admitted /\ f # Window)
    /\ \E c \in Changes(f) :
         /\ Change(f, c) /\ Attempt(f, c)
         /\ \/ Deferred /\ UNCHANGED <<next, log, call, refused>>
            \/ /\ ~Deferred /\ Record(c.kind, f, c.value) /\ Enter(f, "leaving")
               /\ refused' = IF c.kind = "set" THEN refused \ {f} ELSE refused
            \/ /\ ~Deferred /\ RecordFails(f, Durable!Parts(c))
               /\ refused' = refused \cup {f} /\ UNCHANGED call
    /\ UNCHANGED <<snapshot, gate, torn>>

(* append_turn: the new tail is in the log when the call returns.  A round    *)
(* saves turns only after its admission has written the whole window, and     *)
(* ends when a turn cannot be saved.                                          *)
AppendTurn ==
    /\ MayMutate(Window) /\ admitted
    /\ \E v \in Values \ {{}} :
         LET c == [kind |-> "add", value |-> v]
         IN /\ v \cap mem[Window] = {} /\ Change(Window, c)
            /\ \/ /\ Record("add", Window, v)
                  /\ found' = [found EXCEPT ![Window] = {mem'[Window]}]
                  /\ UNCHANGED <<admitted, refused>>
               \/ /\ RecordFails(Window, {c}) /\ Attempt(Window, c)
                  /\ admitted' = FALSE /\ refused' = refused \cup {Window}
    /\ UNCHANGED <<snapshot, call, gate, torn>>

-----------------------------------------------------------------------------
(* persist_off_runtime. *)

Step(f, step) == call' = [call EXCEPT ![f].at = step]

(* When a crash or an I/O error may come. *)
MayStop == torn => TornCompaction

(* The call has left the state lock and takes its place at the gate. *)
Queue(f) ==
    /\ call[f].at = "leaving"
    /\ gate' = Append(gate, f)
    /\ Step(f, "queued")
    /\ UNCHANGED <<mem, next, log, snapshot, admitted, found, refused, torn, writes>>

AtGate(f, step) == gate # <<>> /\ Head(gate) = f /\ call[f].at = step

(* compact_log_if_needed: a log of enough events, and of enough bytes, is     *)
(* rewritten from the copy.                                                   *)
Compact(f) ==
    /\ AtGate(f, "queued")
    /\ \/ UNCHANGED <<log, torn>>
       \/ Cardinality(log) >= Threshold /\ log' = Seeds(call[f].data) /\ torn' = TRUE
    /\ Step(f, "stamping")
    /\ UNCHANGED <<mem, next, snapshot, gate, admitted, found, refused, writes>>

(* Mutant: the mark is the number of the next event. *)
StampNext(f) ==
    /\ AtGate(f, "stamping")
    /\ call' = [call EXCEPT ![f] = [at |-> "writing", data |-> @.data, mark |-> NextSeq]]
    /\ UNCHANGED <<mem, next, files, gate, admitted, found, refused, torn, writes>>

(* write_session_file: the mark is the newest number in the log by now, *)
Stamp(f) ==
    /\ AtGate(f, "stamping")
    /\ call' = [call EXCEPT ![f] = [at |-> "writing", data |-> @.data, mark |-> High]]
    /\ UNCHANGED <<mem, next, files, gate, admitted, found, refused, torn, writes>>

(* and the copy replaces the snapshot; the caller gets its answer.            *)
WriteSnapshot(f) ==
    /\ AtGate(f, "writing")
    /\ snapshot' = [data |-> call[f].data, mark |-> call[f].mark]
    /\ found' = [found EXCEPT ![f] = {call[f].data[f]}]
    /\ refused' = {g \in refused : call[f].data[g] # mem[g]}
    /\ admitted' = (admitted \/ f = Window)
    /\ torn' = FALSE
    /\ gate' = Tail(gate)
    /\ Step(f, "none")
    /\ UNCHANGED <<mem, next, log, writes>>

(* The snapshot cannot be written: the caller gets an error.                  *)
PersistFails(f) ==
    /\ AtGate(f, "stamping") \/ AtGate(f, "writing")
    /\ MayStop
    /\ gate' = Tail(gate)
    /\ Step(f, "none")
    /\ UNCHANGED <<mem, next, files, admitted, found, refused, torn, writes>>

-----------------------------------------------------------------------------
(* The process dies, or the session is closed, and is loaded again; what the  *)
(* load shows is what callers go on from.  A missing snapshot is rewritten.   *)
Restart ==
    /\ MayStop
    /\ mem' = Load /\ found' = [f \in Fields |-> {Load[f]}]
    /\ admitted' = FALSE /\ refused' = {}
    /\ next' = 0 /\ gate' = <<>> /\ torn' = FALSE
    /\ call' = [f \in Fields |-> [at |-> "none", data |-> Empty, mark |-> 0]]
    /\ snapshot' = IF snapshot = NoSnapshot /\ log # {}
                   THEN [data |-> Load, mark |-> High] ELSE snapshot
    /\ UNCHANGED <<log, writes>>

(* Every call has returned and no mutation is left. *)
Closed ==
    /\ writes = MaxWrites /\ \A f \in Fields : Idle(f)
    /\ UNCHANGED store

Persist(f) ==
    Queue(f) \/ Compact(f) \/ Stamp(f) \/ WriteSnapshot(f) \/ PersistFails(f)

StoreNext ==
    \/ \E f \in Fields : Mutate(f) \/ Persist(f)
    \/ AppendTurn \/ Restart \/ Closed

StoreSpec == StoreInit /\ [][StoreNext]_store

-----------------------------------------------------------------------------
(* Whatever instant the process dies at, a load finds for every field what    *)
(* was confirmed, with some of the changes that were made since.              *)
ConfirmedSurvives ==
    MayStop => \A f \in Fields : Load[f] \in found[f]

(* Once a session has a file, a load finds what is in memory, a change whose  *)
(* snapshot failed included ("the log is the authoritative source"); only in  *)
(* a field with a change that could not be logged may it be behind, until the *)
(* field is set anew or a snapshot is written.                                *)
LoadFindsMemory ==
    MayStop /\ snapshot # NoSnapshot => \A f \in Fields \ refused : Load[f] = mem[f]

(* The files keep the promises of the abstract session: see DurableSession.   *)
ImplementsDurable == Durable!Spec

-----------------------------------------------------------------------------
(* Why they hold of a store with one mutator at a time: the conjuncts of an    *)
(* inductive invariant.                                                       *)

Newest(e, events) == e \in events /\ \A d \in events : d.seq <= e.seq

(* The log has a newest event and a last value of each field, no two values   *)
(* of a field bear one number, and the next number is a new one.  A log is no *)
(* longer than its numbers, which is what keeps a seed below the next number. *)
LogOrdered ==
    /\ log # {} => \E e \in log : Newest(e, log)
    /\ \A f \in Fields : Sets(log, f) # {} => \E e \in log : Newest(e, Sets(log, f))
    /\ \A d, e \in log : d.kind = "set" /\ e.kind = "set" /\ d.field = e.field /\ d.seq = e.seq => d = e
    /\ next # 0 => \A e \in log : e.seq < next
    /\ IsFiniteSet(log)
    /\ \A e \in log : Newest(e, log) => Cardinality(log) <= e.seq + 1

(* A call that is under way is the only one, and the copy it took is current; *)
(* the mark it is about to write covers the log.                              *)
OneCall ==
    \A f \in Fields : ~Idle(f) =>
        /\ call[f].data = mem /\ log # {} /\ next # 0
        /\ \A g \in Fields \ {f} : Idle(g)
        /\ call[f].at = "writing" => \E e \in log : Newest(e, log) /\ call[f].mark = e.seq

(* A snapshot and the events past its mark make up what is in memory, but for *)
(* refused changes, and new events will be past its mark.                     *)
Absorbed ==
    snapshot # NoSnapshot /\ ~torn =>
        /\ \A f \in Fields \ refused : Load[f] = mem[f]
        /\ \E e \in log : snapshot.mark <= e.seq

(* What is in memory, and what a load finds, is what was confirmed with some  *)
(* of the changes made since.                                                 *)
Owed ==
    /\ \A f \in Fields : mem[f] \in found[f]
    /\ ~torn => \A f \in Fields : Load[f] \in found[f]

(* A round that may save turns has its window in the files.                   *)
Admitted == admitted => snapshot # NoSnapshot /\ Window \notin refused

StoreInv ==
    /\ StoreTypeOK /\ LogOrdered /\ OneCall /\ Absorbed /\ Owed /\ Admitted
    /\ torn => \E f \in Fields : ~Idle(f)
=============================================================================
