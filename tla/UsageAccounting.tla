--------------------------- MODULE UsageAccounting ---------------------------
(***************************************************************************)
(* What is known of the requests to the model: the ledger of each hosted   *)
(* session (crates/neenee-contracts/src/token_ledger.rs) with the guard    *)
(* that settles every request (neenee-agent/src/agent.rs), the records in  *)
(* the session's files (orchestration.rs, persist_request_usage and the    *)
(* task spawned when a request starts), the usage files of the machine     *)
(* (neenee-persistence/src/usage_stats.rs), and what a restart makes of    *)
(* the records a crash left behind (neenee-runtime/src/session_driver.rs). *)
(*                                                                         *)
(* A round asks the model once, and again after a failure; further turns   *)
(* and envoys only add keys, and a round that ends before it asks is left  *)
(* out.  A request's status and the source of its count are one value; the *)
(* counts, the clock and the day files' days are left out.  The session's  *)
(* files are a value that a write replaces or, when it fails, leaves.      *)
(***************************************************************************)
EXTENDS Naturals, FiniteSets, FiniteSetsExt

CONSTANTS
    Sessions,     \* the sessions of the daemon, each with a harness of its own
    Overlap,      \* TRUE: the save of a started request, which may then fail, and a write
                  \* of the usage files may be interleaved with everything else
    MaxRounds,    \* bound on the rounds of a session
    MaxAttempts,  \* bound on the requests of a round
    MaxCrashes,   \* bound on the crashes of the daemon
    MaxLeaves,    \* bound on switches to another session and back
    MaxFaults     \* bound on panics of a round, writes that fail and files that cannot be read

ASSUME BoundsAssumption ==
    {MaxRounds, MaxAttempts, MaxCrashes, MaxLeaves, MaxFaults} \subseteq Nat
ASSUME OverlapAssumption == Overlap \in BOOLEAN

VARIABLES
    hosted,   \* the store of the session's harness holds this session
    phase,    \* where the session's round stands
    resumed,  \* the round is a /retry of a stopped one
    counter,  \* round_counter, in the files
    retry,    \* the round of the armed retry point, 0 when there is none, in the files
    residue,  \* the rounds with a Terminated record, in the files
    ledger,   \* the ledger's records, by round and attempt
    stored,   \* request_usage_records, in the files
    wire,     \* the request the guard stands for
    saver,    \* the task spawned when a request started: waiting, or what it has read
    copy,     \* the usage files as a settling request has read them
    day,      \* the usage files
    cut,      \* history: the rounds that a crash or a switch cut off
    unsaved,  \* history: those that broke off before they saved how their request ended,
              \* or failed to
    lost,     \* history: the round whose request, started and saved, the crash took;
              \* 0 when it was not the last round, or the session was opened in a running
              \* driver since
    billed,   \* history: how many requests were settled and written to the usage files
              \* since these were last found unreadable
    crashes, leaves, faults

files == <<counter, retry, residue, stored, day>>
memory == <<hosted, phase, resumed, ledger, wire, saver, copy>>
history == <<cut, unsaved, lost, billed>>
bounds == <<crashes, leaves, faults>>
vars == <<files, memory, history, bounds>>

Keys == (1..MaxRounds) \X (1..MaxAttempts)

Settled == {"estimated", "reported"}
Status  == {"none", "inflight", "abandoned"} \cup Settled
Records == [Keys -> Status]
NoRecords == [k \in Keys |-> "none"]

NoKey  == <<0, 0>>
NoSave == [k \in Keys |-> "saved"]
Due    == [k \in Keys |-> "due"]
NoCopy == [p \in Sessions \X Keys |-> "unread"]
NoEntries == [p \in Sessions \X Keys |-> "none"]

Phases == {"idle", "asking", "waiting", "billing", "failed", "stopped", "unsent", "completed"}

TypeOK ==
    /\ hosted \in [Sessions -> BOOLEAN]
    /\ phase \in [Sessions -> Phases] /\ resumed \in [Sessions -> BOOLEAN]
    /\ counter \in [Sessions -> 0..MaxRounds] /\ retry \in [Sessions -> 0..MaxRounds]
    /\ residue \in [Sessions -> SUBSET (1..MaxRounds)]
    /\ ledger \in [Sessions -> Records] /\ stored \in [Sessions -> Records]
    /\ wire \in [Sessions -> Keys \cup {NoKey}]
    /\ saver \in [Sessions -> [Keys -> Records \cup {NoSave, Due}]]
    /\ copy \in [Sessions -> [Sessions \X Keys -> {"none", "unread"} \cup Settled]]
    /\ cut \in [Sessions -> SUBSET (1..MaxRounds)] /\ unsaved \in [Sessions -> SUBSET (1..MaxRounds)]
    /\ lost \in [Sessions -> 0..MaxRounds]
    /\ day \in [Sessions \X Keys -> {"none"} \cup Settled]
    /\ billed \in Nat /\ crashes \in 0..MaxCrashes /\ leaves \in 0..MaxLeaves
    /\ faults \in 0..MaxFaults

Init ==
    /\ hosted = [s \in Sessions |-> TRUE] /\ phase = [s \in Sessions |-> "idle"]
    /\ resumed = [s \in Sessions |-> FALSE]
    /\ counter = [s \in Sessions |-> 0] /\ retry = [s \in Sessions |-> 0]
    /\ residue = [s \in Sessions |-> {}]
    /\ ledger = [s \in Sessions |-> NoRecords] /\ stored = [s \in Sessions |-> NoRecords]
    /\ wire = [s \in Sessions |-> NoKey]
    /\ saver = [s \in Sessions |-> [k \in Keys |-> NoSave]]
    /\ copy = [s \in Sessions |-> NoCopy]
    /\ day = NoEntries
    /\ cut = [s \in Sessions |-> {}] /\ unsaved = [s \in Sessions |-> {}] /\ lost = [s \in Sessions |-> 0]
    /\ billed = 0 /\ crashes = 0 /\ leaves = 0 /\ faults = 0

Fault == faults < MaxFaults /\ faults' = faults + 1

-----------------------------------------------------------------------------
(* The round. *)

(* A fresh round retires the retry point; a retry goes on with its number.    *)
Round(s) ==
    /\ hosted[s] /\ phase[s] = "idle" /\ phase' = [phase EXCEPT ![s] = "asking"]
    /\ \/ /\ counter[s] < MaxRounds
          /\ counter' = [counter EXCEPT ![s] = @ + 1] /\ retry' = [retry EXCEPT ![s] = 0]
          /\ resumed' = [resumed EXCEPT ![s] = FALSE]
       \/ /\ retry[s] # 0 /\ retry[s] = counter[s] /\ UNCHANGED <<counter, retry>>
          /\ resumed' = [resumed EXCEPT ![s] = TRUE]
    /\ lost' = [lost EXCEPT ![s] = 0]
    /\ UNCHANGED <<residue, stored, day, hosted, ledger, wire, saver, copy, cut, unsaved, billed,
                   bounds>>

(* The number of the round at work; one that was unsent has given it back.    *)
Working(s) ==
    IF phase[s] = "idle" THEN {}
    ELSE IF phase[s] = "unsent" /\ ~resumed[s] THEN {counter[s] + 1}
    ELSE {counter[s]}

Attempts(s) == {a \in 1..MaxAttempts : ledger[s][<<counter[s], a>>] # "none"}

(* Mutant: the number of the last attempt is used again. *)
LastAttempt(s) == IF Attempts(s) = {} THEN 1 ELSE Max(Attempts(s))

(* begin_request: one more than the highest attempt of the round. *)
NextAttempt(s) == IF Attempts(s) = {} THEN 1 ELSE Max(Attempts(s)) + 1

(* The request is recorded as in flight, and a task spawned to save that.     *)
Request(s) ==
    /\ phase[s] = "asking" /\ NextAttempt(s) <= MaxAttempts
    /\ LET k == <<counter[s], NextAttempt(s)>>
       IN /\ ledger' = [ledger EXCEPT ![s][k] = "inflight"]
          /\ wire' = [wire EXCEPT ![s] = k]
          /\ saver' = [saver EXCEPT ![s][k] = Due]
    /\ phase' = [phase EXCEPT ![s] = "waiting"]
    /\ UNCHANGED <<files, hosted, resumed, copy, history, bounds>>

(* settle_request: a reported count stays, and a record that is gone stays so. *)
Settle(old, count) == IF old \in {"none", "reported"} THEN old ELSE count

(* The request ends: the guard settles it, with the provider's count or an    *)
(* estimate, and the settled record is to go into a copy of the usage files,  *)
(* of which one that cannot be read is taken to be empty.                     *)
Ends(s, count) ==
    /\ phase[s] = "waiting" /\ wire[s] # NoKey
    /\ \/ Overlap
       \/ (\A k \in Keys : saver[s][k] = NoSave) /\ (\A t \in Sessions : copy[t] = NoCopy)
    /\ ledger' = [ledger EXCEPT ![s][wire[s]] = Settle(@, count)]
    /\ \/ copy' = [copy EXCEPT ![s] = day] /\ UNCHANGED faults
       \/ copy' = [copy EXCEPT ![s] = NoEntries] /\ Fault
    /\ phase' = [phase EXCEPT ![s] = "billing"]
    /\ UNCHANGED <<files, hosted, resumed, wire, saver, history, crashes, leaves>>

(* upsert_record: a known key is only upgraded. *)
Upsert(old, count) == IF count = "reported" \/ old = "none" THEN count ELSE old

(* The copy is written back, under the lock of the file, or cannot be. *)
Bills(s) ==
    /\ phase[s] = "billing"
    /\ LET p == <<s, wire[s]>>
           record == ledger[s][wire[s]]
       IN \/ /\ record \in Settled /\ UNCHANGED faults
             /\ day' = [copy[s] EXCEPT ![p] = Upsert(@, record)]
             /\ billed' = IF copy[s] = NoEntries THEN 1 ELSE billed + 1
          \/ Fault /\ UNCHANGED <<day, billed>>
    /\ copy' = [copy EXCEPT ![s] = NoCopy] /\ wire' = [wire EXCEPT ![s] = NoKey]
    /\ \E outcome \in {"failed", "completed"} : phase' = [phase EXCEPT ![s] = outcome]
    /\ UNCHANGED <<counter, retry, residue, stored, hosted, resumed, ledger, saver, cut, unsaved,
                   lost, crashes, leaves>>

(* set_request_usage_records: another session's records are refused, and so   *)
(* is a set that lacks a record.                                              *)
Accepted(s, records) ==
    hosted[s] /\ \A k \in Keys : stored[s][k] # "none" => records[k] # "none"

Save(s, records) ==
    stored' = IF Accepted(s, records) THEN [stored EXCEPT ![s] = records] ELSE stored

(* Mutant: the records are not saved when the round is over. *)
SaveNothing(s, records) == UNCHANGED stored

SaveAtEnd(s, records) == Save(s, records)

(* persist_request_usage *)
Persists(s, ok) ==
    IF ok THEN SaveAtEnd(s, ledger[s]) /\ UNCHANGED <<unsaved, faults>>
    ELSE UNCHANGED stored /\ unsaved' = [unsaved EXCEPT ![s] = @ \cup Working(s)] /\ Fault

(* After a failure the records are saved, or a warning is left.  Then the     *)
(* round tries again, is interrupted while it waits to, or goes on to stop.   *)
Fails(s) ==
    /\ phase[s] = "failed" /\ \E ok \in BOOLEAN : Persists(s, ok)
    /\ \/ phase' = [phase EXCEPT ![s] = "stopped"]
       \/ /\ NextAttempt(s) <= MaxAttempts
          /\ \E next \in {"idle"} \cup (IF hosted[s] THEN {"asking"} ELSE {}) :
                phase' = [phase EXCEPT ![s] = next]
    /\ UNCHANGED <<counter, retry, residue, day, hosted, resumed, ledger, wire, saver, copy,
                   cut, lost, billed, crashes, leaves>>

(* One that was interrupted before it showed anything is unsent: its number   *)
(* is given back, unless it had it from the round it resumed.                 *)
Unsends(s) ==
    /\ phase[s] = "stopped" /\ hosted[s] /\ phase' = [phase EXCEPT ![s] = "unsent"]
    /\ counter' = [counter EXCEPT ![s] = IF resumed[s] THEN @ ELSE @ - 1]
    /\ retry' = [retry EXCEPT ![s] = 0]
    /\ UNCHANGED <<residue, stored, day, hosted, resumed, ledger, wire, saver, copy, history,
                   bounds>>

(* The round is over once its records are saved: completed, unsent, or        *)
(* stopped and armed for a retry; a save that fails ends it as it is.         *)
Concludes(s) ==
    /\ phase[s] \in {"stopped", "unsent", "completed"}
    /\ phase' = [phase EXCEPT ![s] = "idle"]
    /\ \E ok \in BOOLEAN :
         /\ Persists(s, ok)
         /\ retry' = IF ~ok \/ ~hosted[s] THEN retry
                     ELSE [retry EXCEPT ![s] = IF phase[s] = "stopped" THEN counter[s] ELSE 0]
    /\ UNCHANGED <<counter, residue, day, hosted, resumed, ledger, wire, saver, copy, cut, lost,
                   billed, crashes, leaves>>

(* The body panics, or its history cannot be written: nothing more is saved.  *)
BreaksOff(s) ==
    /\ phase[s] \in {"asking", "failed", "stopped", "unsent", "completed"} /\ Fault
    /\ phase' = [phase EXCEPT ![s] = "idle"]
    /\ unsaved' = IF phase[s] \in {"failed", "completed"}
                  THEN [unsaved EXCEPT ![s] = @ \cup Working(s)] ELSE unsaved
    /\ UNCHANGED <<files, hosted, resumed, ledger, wire, saver, copy, cut, lost, billed,
                   crashes, leaves>>

(* The spawned task: it reads the ledger and then waits for the store.        *)
SaverReads(s, k) ==
    /\ saver[s][k] = Due /\ saver' = [saver EXCEPT ![s][k] = ledger[s]]
    /\ UNCHANGED <<files, hosted, phase, resumed, ledger, wire, copy, history, bounds>>

SaverWrites(s, k) ==
    /\ saver[s][k] \notin {NoSave, Due}
    /\ \/ Save(s, saver[s][k]) /\ UNCHANGED faults
       \/ Overlap /\ Fault /\ UNCHANGED stored
    /\ saver' = [saver EXCEPT ![s][k] = NoSave]
    /\ UNCHANGED <<counter, retry, residue, day, hosted, phase, resumed, ledger, wire, copy,
                   history, crashes, leaves>>

-----------------------------------------------------------------------------
(* Sessions come and go. *)

Inflight(records) == {k \in Keys : records[k] = "inflight"}

(* restore_session: what the files say is in flight was abandoned. *)
Restored(s) ==
    [k \in Keys |-> IF stored[s][k] = "inflight" THEN "abandoned" ELSE stored[s][k]]

(* /new or /resume of another session: the round is cancelled, and its store  *)
(* holds the other session from now on.                                       *)
Leave(s) ==
    /\ hosted[s] /\ leaves < MaxLeaves /\ leaves' = leaves + 1
    /\ Overlap \/ \A k \in Keys : saver[s][k] = NoSave
    /\ hosted' = [hosted EXCEPT ![s] = FALSE]
    /\ phase' = [phase EXCEPT ![s] = IF @ = "asking" THEN "idle" ELSE @]
    /\ cut' = [cut EXCEPT ![s] = @ \cup Working(s)]
    /\ UNCHANGED <<files, resumed, ledger, wire, saver, copy, unsaved, lost, billed, crashes,
                   faults>>

(* /session open, in a driver that runs: the ledger is restored, and nothing   *)
(* is looked for.                                                             *)
ComeBack(s) ==
    /\ ~hosted[s] /\ phase[s] = "idle"
    /\ Overlap \/ \A k \in Keys : saver[s][k] = NoSave
    /\ hosted' = [hosted EXCEPT ![s] = TRUE]
    /\ ledger' = [ledger EXCEPT ![s] = Restored(s)]
    /\ lost' = [lost EXCEPT ![s] = 0]
    /\ UNCHANGED <<files, phase, resumed, wire, saver, copy, cut, unsaved, billed, bounds>>

(* The daemon dies: the files are what is left. *)
Crash ==
    /\ crashes < MaxCrashes /\ crashes' = crashes + 1
    /\ hosted' = [s \in Sessions |-> FALSE] /\ phase' = [s \in Sessions |-> "idle"]
    /\ ledger' = [s \in Sessions |-> NoRecords] /\ wire' = [s \in Sessions |-> NoKey]
    /\ saver' = [s \in Sessions |-> [k \in Keys |-> NoSave]]
    /\ copy' = [s \in Sessions |-> NoCopy]
    /\ cut' = [s \in Sessions |-> cut[s] \cup Working(s)]
    /\ lost' = [s \in Sessions |->
                  IF /\ hosted[s] /\ phase[s] = "waiting" /\ saver[s][wire[s]] = NoSave
                  THEN counter[s] ELSE lost[s]]
    /\ resumed' = [s \in Sessions |-> FALSE]
    /\ UNCHANGED <<files, unsaved, billed, leaves, faults>>

(* Mutant: the records are looked at after they were restored. *)
RecoverRestored(s) ==
    /\ Inflight(Restored(s)) = {} /\ UNCHANGED <<residue, retry>>

(* recover_crashed_round: the highest round the files show in flight is       *)
(* recorded as terminated, and armed for a retry if it is the last one.       *)
Recover(s) ==
    LET rounds == {k[1] : k \in Inflight(stored[s])}
    IN IF rounds = {} THEN UNCHANGED <<residue, retry>>
       ELSE /\ residue' = [residue EXCEPT ![s] = @ \cup {Max(rounds)}]
            /\ retry' = [retry EXCEPT ![s] = IF Max(rounds) = counter[s] THEN counter[s] ELSE @]

(* A driver starts: the ledger is restored and the crash residue looked for.  *)
Start(s) ==
    /\ ~hosted[s] /\ crashes > 0 /\ phase[s] = "idle"
    /\ Overlap \/ \A k \in Keys : saver[s][k] = NoSave
    /\ hosted' = [hosted EXCEPT ![s] = TRUE]
    /\ ledger' = [ledger EXCEPT ![s] = Restored(s)]
    /\ Recover(s)
    /\ UNCHANGED <<counter, stored, day, phase, resumed, wire, saver, copy, history, bounds>>

-----------------------------------------------------------------------------
Next ==
    \/ \E s \in Sessions :
         \/ Round(s) \/ Request(s) \/ Bills(s)
         \/ Fails(s) \/ Unsends(s) \/ Concludes(s) \/ BreaksOff(s)
         \/ \E count \in Settled : Ends(s, count)
         \/ Leave(s) \/ ComeBack(s) \/ Start(s)
         \/ \E k \in Keys : SaverReads(s, k) \/ SaverWrites(s, k)
    \/ Crash

Spec == Init /\ [][Next]_vars

-----------------------------------------------------------------------------
(* "Day's real consumption": of the requests settled and written, in whatever *)
(* sessions and on either side of a crash, each has an entry of its own in    *)
(* the usage files, as long as these can be read.                             *)
EveryRequestCounted ==
    Cardinality({p \in Sessions \X Keys : day[p] # "none"}) = billed

(* A round whose request was on the wire and on file when the daemon died is  *)
(* offered for a retry by the driver that is started for its session.          *)
CrashedRoundIsOffered ==
    \A s \in Sessions : hosted[s] /\ lost[s] # 0 => retry[s] = lost[s]

(* The files show a request in flight, once its round is over and saved, and  *)
(* a round is recorded as terminated, only if a crash or a switch cut that    *)
(* round off or it could not save how its request ended: one that ended in    *)
(* any other way, unsent, interrupted or failed, is never taken for a crashed *)
(* one.                                                                       *)
ResidueIsCutOff ==
    \A s \in Sessions :
        /\ phase[s] = "idle" /\ (\A k \in Keys : saver[s][k] = NoSave) =>
              {k[1] : k \in Inflight(stored[s])} \subseteq cut[s] \cup unsaved[s]
        /\ residue[s] \subseteq cut[s] \cup unsaved[s]
=============================================================================
