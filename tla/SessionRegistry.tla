--------------------------- MODULE SessionRegistry ---------------------------
(***************************************************************************)
(* The sessions a daemon hosts (crates/neenee-runtime/src/registry.rs):    *)
(* attach, lazy resume and creation, kill, the idle sweeps, the eviction   *)
(* of a session whose driver panicked, and the rehost of armed sessions at *)
(* boot.  The map is locked for single steps only, so these operations     *)
(* interleave; a harness keeps the key it was hosted under while /new      *)
(* points its store at another session.                                    *)
(*                                                                         *)
(* A harness is what bootstrap::assemble builds: a driver task, a store,   *)
(* an event bus and a lifetime token; harnesses are numbered as they are   *)
(* built.  One project; declared work in progress (wip) and the row a      *)
(* monitor shows beyond the session's id are left out.                     *)
(***************************************************************************)
EXTENDS Naturals, FiniteSets

CONSTANTS
    Ids,         \* session ids
    Saved,       \* those on disk at the start
    Timed,       \* those on disk with armed /schedule jobs
    Clients,     \* attaching connections
    MaxBuilt,    \* bound on the harnesses built
    MaxFaults,   \* bound on driver panics and restarts of the daemon
    Overlap      \* TRUE: operations on the same id may interleave too

ASSUME IdsAssumption == Ids # {} /\ Saved \subseteq Ids /\ Timed \subseteq Saved
ASSUME BoundsAssumption == MaxBuilt \in Nat /\ MaxFaults \in Nat /\ Overlap \in BOOLEAN

Harnesses == 1..MaxBuilt

VARIABLES
    hosted,      \* the map: the harness hosted under each id, 0 for none
    built,       \* harnesses built so far
    key,         \* the id each harness was assembled for
    store,       \* the id its session store points at now
    driver,      \* its driver task
    cancelled,   \* the harnesses whose lifetime token is cancelled
    working,     \* those with a round at work
    terminated,  \* those whose round was recorded as ended by the daemon
    disk,        \* ids with a saved session
    armed,       \* ids with armed jobs in their store
    actor,       \* clients, and the boot scan: where they stand
    toRehost,    \* what the boot scan has still to host
    dormant,     \* armed sessions this daemon leaves to an attach
    teardowns,   \* kills, suspensions and evictions in progress
    sweep,       \* the idle reaper: the entry it has probed
    monitor,     \* the ids a monitor client shows
    faults       \* faults so far

harness == <<key, store, driver, cancelled, working, terminated>>
saved   == <<disk, armed, dormant>>
vars    == <<hosted, built, harness, saved, actor, toRehost, teardowns, sweep, monitor, faults>>

Boot   == "boot"
Actors == Clients \cup {Boot}
Away   == [at |-> "away", id |-> CHOOSE i \in Ids : TRUE, h |-> 0, exit |-> FALSE]
NoProbe == [id |-> Away.id, h |-> 0, how |-> "none"]

Teardown == [id : Ids, h : Harnesses, how : {"kill", "suspend", "evict"},
             at : {"removed", "cancelled"}]

TypeOK ==
    /\ hosted \in [Ids -> 0..built] /\ built \in 0..MaxBuilt
    /\ key \in [Harnesses -> Ids] /\ store \in [Harnesses -> Ids]
    /\ driver \in [Harnesses -> {"none", "running", "panicked", "evicting", "ended"}]
    /\ cancelled \cup working \cup terminated \subseteq 1..built
    /\ armed \subseteq disk /\ disk \subseteq Ids /\ monitor \subseteq Ids
    /\ actor \in [Actors -> [at : {"away", "missed", "assembled", "bound", "attached"},
                             id : Ids, h : 0..built, exit : BOOLEAN]]
    /\ toRehost \cup dormant \subseteq Ids /\ teardowns \subseteq Teardown
    /\ sweep \in [id : Ids, h : 0..built, how : {"none", "reap", "suspend"}]
    /\ faults \in 0..MaxFaults

Init ==
    /\ hosted = [i \in Ids |-> 0] /\ built = 0
    /\ key = [h \in Harnesses |-> Away.id] /\ store = key
    /\ driver = [h \in Harnesses |-> "none"]
    /\ cancelled = {} /\ working = {} /\ terminated = {}
    /\ disk = Saved /\ armed = Timed /\ toRehost \in {Timed, {}} /\ dormant = Timed \ toRehost
    /\ actor = [a \in Actors |-> Away]
    /\ teardowns = {} /\ sweep = NoProbe /\ monitor = {} /\ faults = 0

Fault == faults < MaxFaults /\ faults' = faults + 1

(* An operation on this id is under way; then also a harness that was built   *)
(* for it is still to end.  Without Overlap the next operation on the id      *)
(* waits for that; operations on different ids cross in any case.             *)
UnderWay(id) ==
    \/ \E a \in Actors : actor[a].id = id /\ actor[a].at \notin {"away", "attached"}
    \/ \E t \in teardowns : t.id = id
    \/ sweep # NoProbe /\ sweep.id = id
    \/ \E h \in Harnesses : key[h] = id /\ driver[h] = "evicting"

Settled(id) == ~UnderWay(id) /\ \A h \in cancelled : key[h] = id => driver[h] = "ended"

Free(id) == Overlap \/ Settled(id)

Hosted == {i \in Ids : hosted[i] # 0}
Building == {a \in Actors : actor[a].at = "missed"}

InUse  == disk \cup Hosted \cup {store[h] : h \in 1..built} \cup {key[h] : h \in 1..built}
            \cup {actor[a].id : a \in Building}

Attached(h) == {c \in Clients : actor[c].at = "attached" /\ actor[c].h = h}

-----------------------------------------------------------------------------
(* Attaching. *)

(* The operation of actor a gets as far as `at`. *)
Moves(a, at, id, h) ==
    actor' = [actor EXCEPT ![a] = [at |-> at, id |-> id, h |-> h, exit |-> FALSE]]

(* A harness has to be built for it, within the bound. *)
Misses(a, id) ==
    /\ built + Cardinality(Building) < MaxBuilt
    /\ Moves(a, "missed", id, 0)

(* A hosted id is bound at once; otherwise a session on disk is resumed. *)
AttachTo(c, id) ==
    /\ Free(id) /\ actor[c].at = "away"
    /\ \/ hosted[id] # 0 /\ Moves(c, "bound", id, hosted[id])
       \/ hosted[id] = 0 /\ id \in disk /\ Misses(c, id)
    /\ UNCHANGED <<hosted, built, harness, saved, toRehost, teardowns, sweep, monitor, faults>>

AttachNew(c) ==
    /\ actor[c].at = "away"
    /\ \E id \in Ids \ InUse : Misses(c, id)
    /\ UNCHANGED <<hosted, built, harness, saved, toRehost, teardowns, sweep, monitor, faults>>

(* A lone hosted session is bound, with none a session is created; with more  *)
(* the client is asked to pick.                                               *)
AttachAuto(c) ==
    /\ actor[c].at = "away"
    /\ \/ Cardinality(Hosted) = 1 /\ \E id \in Hosted : Free(id) /\ Moves(c, "bound", id, hosted[id])
       \/ Hosted = {} /\ \E id \in Ids \ InUse : Misses(c, id)
    /\ UNCHANGED <<hosted, built, harness, saved, toRehost, teardowns, sweep, monitor, faults>>

(* Mutant: the boot scan takes a session off its list without hosting it. *)
RehostDrops(id) ==
    /\ actor[Boot].at = "away" /\ id \in toRehost /\ Free(id)
    /\ toRehost' = toRehost \ {id}
    /\ UNCHANGED <<hosted, built, harness, saved, actor, teardowns, sweep, monitor, faults>>

(* The boot scan hosts each armed session that nobody has hosted yet; one     *)
(* whose project root is gone stays dormant.                                  *)
Rehost(id) ==
    /\ actor[Boot].at = "away" /\ id \in toRehost /\ Free(id)
    /\ toRehost' = toRehost \ {id}
    /\ \/ hosted[id] = 0 /\ Misses(Boot, id) /\ UNCHANGED dormant
       \/ hosted[id] = 0 /\ dormant' = dormant \cup {id} /\ UNCHANGED actor
       \/ hosted[id] # 0 /\ UNCHANGED <<actor, dormant>>
    /\ UNCHANGED <<hosted, built, harness, disk, armed, teardowns, sweep, monitor, faults>>

(* The harness is assembled, and its driver starts before it is in the map. *)
Assemble(a) ==
    /\ actor[a].at = "missed"
    /\ built' = built + 1
    /\ key' = [key EXCEPT ![built'] = actor[a].id]
    /\ store' = [store EXCEPT ![built'] = actor[a].id]
    /\ driver' = [driver EXCEPT ![built'] = "running"]
    /\ Moves(a, "assembled", actor[a].id, built')
    /\ UNCHANGED <<hosted, cancelled, working, terminated, saved, toRehost, teardowns, sweep,
                   monitor, faults>>

(* It cannot be assembled: a client gets an error, a scanned session stays    *)
(* dormant, and the scan goes on.                                             *)
AssembleFails(a) ==
    /\ actor[a].at = "missed" /\ actor' = [actor EXCEPT ![a] = Away]
    /\ dormant' = IF a = Boot THEN dormant \cup {actor[a].id} ELSE dormant
    /\ UNCHANGED <<hosted, built, harness, disk, armed, toRehost, teardowns, sweep, monitor, faults>>

(* The daemon is told to shut down and drops the scan, with the harness that  *)
(* is being assembled.                                                        *)
ScanStops ==
    /\ \/ actor[Boot].at = "missed"
       \/ actor[Boot].at = "away" /\ toRehost # {}
    /\ actor' = [actor EXCEPT ![Boot] = Away] /\ toRehost' = {}
    /\ dormant' = dormant \cup toRehost
                    \cup (IF actor[Boot].at = "missed" THEN {actor[Boot].id} ELSE {})
    /\ UNCHANGED <<hosted, built, harness, disk, armed, teardowns, sweep, monitor, faults>>

(* It is announced to monitors and takes the id's place in the map. *)
Insert(a) ==
    /\ actor[a].at = "assembled"
    /\ monitor' = monitor \cup {actor[a].id}
    /\ hosted' = [hosted EXCEPT ![actor[a].id] = actor[a].h]
    /\ dormant' = dormant \ {actor[a].id}
    /\ IF a = Boot THEN actor' = [actor EXCEPT ![a] = Away]
       ELSE Moves(a, "bound", actor[a].id, actor[a].h)
    /\ UNCHANGED <<built, harness, disk, armed, toRehost, teardowns, sweep, faults>>

(* The connection subscribes to the event bus after the welcome was sent. *)
Subscribe(c) ==
    /\ actor[c].at = "bound" /\ Moves(c, "attached", actor[c].id, actor[c].h)
    /\ UNCHANGED <<hosted, built, harness, saved, toRehost, teardowns, sweep, monitor, faults>>

Detach(c) ==
    /\ actor[c].at = "attached" /\ actor' = [actor EXCEPT ![c] = Away]
    /\ UNCHANGED <<hosted, built, harness, saved, toRehost, teardowns, sweep, monitor, faults>>

-----------------------------------------------------------------------------
(* Teardown. *)

(* The entry leaves the map; what its harness has at stake comes after. *)
Removes(id, h, how) ==
    /\ hosted' = [hosted EXCEPT ![id] = 0]
    /\ teardowns' = teardowns \cup {[id |-> id, h |-> h, how |-> how, at |-> "removed"]}

Kill(id) ==
    /\ Free(id) /\ hosted[id] # 0 /\ Removes(id, hosted[id], "kill")
    /\ UNCHANGED <<built, harness, saved, actor, toRehost, sweep, monitor, faults>>

(* A client ends the session its store points at, if that id is hosted, and   *)
(* hangs up.                                                                  *)
EndSession(c) ==
    /\ actor[c].at = "attached"
    /\ LET id == store[actor[c].h]
       IN /\ Free(id)
          /\ IF hosted[id] # 0 THEN Removes(id, hosted[id], "kill") ELSE UNCHANGED <<hosted, teardowns>>
    /\ actor' = [actor EXCEPT ![c] = Away]
    /\ UNCHANGED <<built, harness, saved, toRehost, sweep, monitor, faults>>

(* Mutant: the entry is gone, its harness is not told. *)
CancelsNothing(t) ==
    /\ t.at = "removed"
    /\ teardowns' = (teardowns \ {t}) \cup {[t EXCEPT !.at = "cancelled"]}
    /\ UNCHANGED <<cancelled, terminated, actor>>
    /\ UNCHANGED <<hosted, built, key, store, driver, working, saved, toRehost, sweep, monitor,
                   faults>>

(* Mutant: the token is cancelled, the clients are not told. *)
CancelsQuietly(t) ==
    /\ t.at = "removed"
    /\ teardowns' = (teardowns \ {t}) \cup {[t EXCEPT !.at = "cancelled"]}
    /\ cancelled' = cancelled \cup {t.h}
    /\ UNCHANGED <<terminated, actor>>
    /\ UNCHANGED <<hosted, built, key, store, driver, working, saved, toRehost, sweep, monitor,
                   faults>>

(* A kill records the interrupted round; the token is cancelled; all but a    *)
(* suspension tell the attached clients to exit.                              *)
Cancels(t) ==
    /\ t.at = "removed"
    /\ teardowns' = (teardowns \ {t}) \cup {[t EXCEPT !.at = "cancelled"]}
    /\ cancelled' = cancelled \cup {t.h}
    /\ terminated' = IF t.how = "kill" THEN terminated \cup ({t.h} \cap working) ELSE terminated
    /\ actor' = [a \in Actors |-> IF t.how # "suspend" /\ a \in Attached(t.h)
                                  THEN [actor[a] EXCEPT !.exit = TRUE] ELSE actor[a]]
    /\ UNCHANGED <<hosted, built, key, store, driver, working, saved, toRehost, sweep, monitor,
                   faults>>

(* After the SessionEnd hooks, monitors learn that the id is gone. *)
Announces(t) ==
    /\ t.at = "cancelled" /\ teardowns' = teardowns \ {t}
    /\ monitor' = monitor \ {t.id}
    /\ UNCHANGED <<hosted, built, harness, saved, actor, toRehost, sweep, faults>>

DriverEnds(h) ==
    /\ driver[h] = "running" /\ h \in cancelled
    /\ driver' = [driver EXCEPT ![h] = "ended"]
    /\ UNCHANGED <<hosted, built, key, store, cancelled, working, terminated, saved, actor,
                   toRehost, teardowns, sweep, monitor, faults>>

(* Empty and never saved, or saved and with nothing to do: idle since its TTL, *)
(* without a client.                                                           *)
Reapable(id)    == store[hosted[id]] \notin disk /\ store[hosted[id]] = id
Suspendable(id) == /\ hosted[id] \notin working /\ store[hosted[id]] \notin armed
                   /\ store[hosted[id]] \in disk

Probe(id, how) ==
    /\ Free(id) /\ sweep = NoProbe /\ hosted[id] # 0 /\ Attached(hosted[id]) = {}
    /\ \/ how = "reap" /\ Reapable(id)
       \/ how = "suspend" /\ Suspendable(id)
    /\ sweep' = [id |-> id, h |-> hosted[id], how |-> how]
    /\ UNCHANGED <<hosted, built, harness, saved, actor, toRehost, teardowns, monitor, faults>>

(* The sweep removes whatever the id's entry is by now. *)
Sweep ==
    /\ sweep # NoProbe /\ sweep' = NoProbe
    /\ IF hosted[sweep.id] = 0 THEN UNCHANGED <<hosted, teardowns>>
       ELSE Removes(sweep.id, hosted[sweep.id], IF sweep.how = "reap" THEN "kill" ELSE "suspend")
    /\ UNCHANGED <<built, harness, saved, actor, toRehost, monitor, faults>>

-----------------------------------------------------------------------------
(* Crashes. *)

Panic(h) ==
    /\ driver[h] = "running" /\ Fault
    /\ driver' = [driver EXCEPT ![h] = "panicked"]
    /\ UNCHANGED <<hosted, built, key, store, cancelled, working, terminated, saved, actor,
                   toRehost, teardowns, sweep, monitor>>

(* Mutant: a crash is not taken to be the end of the session. *)
EvictNothing(h) ==
    /\ driver[h] = "panicked" /\ (Overlap \/ ~UnderWay(key[h])) /\ driver' = [driver EXCEPT ![h] = "ended"]
    /\ UNCHANGED <<hosted, built, key, store, cancelled, working, terminated, saved, actor,
                   toRehost, teardowns, sweep, monitor, faults>>

(* The check asks for an entry under the id, not for this harness. *)
EvictCheck(h) ==
    /\ driver[h] = "panicked" /\ (Overlap \/ ~UnderWay(key[h]))
    /\ driver' = [driver EXCEPT ![h] = IF hosted[key[h]] = 0 THEN "ended" ELSE "evicting"]
    /\ UNCHANGED <<hosted, built, key, store, cancelled, working, terminated, saved, actor,
                   toRehost, teardowns, sweep, monitor, faults>>

EvictRemove(h) ==
    /\ driver[h] = "evicting" /\ driver' = [driver EXCEPT ![h] = "ended"]
    /\ Removes(key[h], h, "evict")
    /\ UNCHANGED <<built, key, store, cancelled, working, terminated, saved, actor, toRehost,
                   sweep, monitor, faults>>

(* The daemon dies and starts again; it scans for armed sessions if           *)
(* daemon.rehost_armed_schedules is set.                                      *)
Restart ==
    /\ Fault
    /\ hosted' = [i \in Ids |-> 0] /\ monitor' = {}
    /\ driver' = [h \in Harnesses |-> IF driver[h] = "none" THEN "none" ELSE "ended"]
    /\ working' = {} /\ cancelled' = 1..built
    /\ actor' = [a \in Actors |-> Away]
    /\ toRehost' \in {armed, {}} /\ dormant' = armed \ toRehost'
    /\ teardowns' = {} /\ sweep' = NoProbe
    /\ UNCHANGED <<built, key, store, terminated, disk, armed>>

-----------------------------------------------------------------------------
(* What the hosted sessions do meanwhile. *)

Serves(h) == driver[h] = "running" /\ h \notin cancelled

(* A round: a client's prompt, or a scheduled one. *)
RoundBegins(h) ==
    /\ Serves(h) /\ h \notin working /\ (Attached(h) # {} \/ store[h] \in armed)
    /\ working' = working \cup {h} /\ disk' = disk \cup {store[h]}
    /\ UNCHANGED <<hosted, built, key, store, driver, cancelled, terminated, armed, dormant, actor,
                   toRehost, teardowns, sweep, monitor, faults>>

(* The round runs in a task of its own and outlives the driver. *)
RoundEnds(h) ==
    /\ h \in working /\ working' = working \ {h}
    /\ terminated' = terminated \ {h}
    /\ UNCHANGED <<hosted, built, key, store, driver, cancelled, saved, actor, toRehost,
                   teardowns, sweep, monitor, faults>>

(* The first job is armed, or the last one cancelled. *)
Schedule(h) ==
    /\ Serves(h) /\ Attached(h) # {}
    /\ armed' = IF store[h] \in armed THEN armed \ {store[h]} ELSE armed \cup {store[h]}
    /\ disk' = disk \cup {store[h]}
    /\ UNCHANGED <<hosted, built, harness, dormant, actor, toRehost, teardowns, sweep, monitor, faults>>

(* /new: the round is superseded and the store points at a new session. *)
NewSession(h) ==
    /\ Serves(h) /\ Attached(h) # {}
    /\ \E id \in Ids \ InUse : store' = [store EXCEPT ![h] = id]
    /\ working' = working \ {h}
    /\ UNCHANGED <<hosted, built, key, driver, cancelled, terminated, saved, actor, toRehost,
                   teardowns, sweep, monitor, faults>>

-----------------------------------------------------------------------------
Attaches ==
    \/ \E c \in Clients : \/ \E id \in Ids : AttachTo(c, id)
                          \/ AttachNew(c) \/ AttachAuto(c) \/ Detach(c) \/ Subscribe(c)
    \/ \E id \in Ids : Rehost(id)
    \/ ScanStops \/ \E a \in Actors : AssembleFails(a)

Ends ==
    \/ \E id \in Ids : Kill(id) \/ \E how \in {"reap", "suspend"} : Probe(id, how)
    \/ \E c \in Clients : EndSession(c)

Works ==
    \/ \E a \in Actors : Assemble(a) \/ Insert(a)
    \/ Sweep \/ \E t \in teardowns : Cancels(t) \/ Announces(t)
    \/ \E h \in Harnesses : DriverEnds(h)

Evicts(h) == EvictCheck(h) \/ EvictRemove(h)

Lives ==
    \E h \in Harnesses : RoundBegins(h) \/ RoundEnds(h) \/ Schedule(h) \/ NewSession(h)

Next ==
    \/ Attaches \/ Ends \/ Works \/ Lives \/ Restart
    \/ \E h \in Harnesses : Evicts(h) \/ Panic(h)

(* The tasks of the daemon run on.  They are taken together, as the harnesses  *)
(* and so the operations are finite in number; a client may attach for ever.  *)
Fairness ==
    /\ WF_vars(Works) /\ \A c \in Clients : WF_vars(Subscribe(c))
    /\ SF_vars(\E h \in Harnesses : Evicts(h)) /\ SF_vars(\E id \in Ids : Rehost(id))

Spec == Init /\ [][Next]_vars /\ Fairness

-----------------------------------------------------------------------------
(* While no operation on an id is under way, the driver that serves it is in  *)
(* the map, where it can be found, interrupted and killed, its entry in the   *)
(* map has a driver that serves or whose crash is about to evict it, and      *)
(* monitors show it if it has one: no harness is orphaned, no entry a zombie. *)
MapMatchesDrivers ==
    \A id \in Ids : Settled(id) =>
        /\ id \in monitor <=> id \in Hosted
        /\ \A h \in 1..built : key[h] = id /\ driver[h] = "running" => hosted[id] = h
        /\ id \in Hosted => /\ driver[hosted[id]] \in {"running", "panicked"}
                            /\ hosted[id] \notin cancelled /\ key[hosted[id]] = id

(* A client is never left attached to a harness that was torn down without    *)
(* having been sent the final Exit.                                           *)
AttachedOrTold ==
    \A c \in Clients : actor[c].at = "attached" /\ actor[c].h \in cancelled => actor[c].exit

(* Sessions whose driver crashed are taken out of the map, so the next attach *)
(* resumes them from disk.                                                    *)
Crashed == {id \in Hosted : driver[hosted[id]] # "running"}

CrashedIsEvicted == Crashed # {} ~> Crashed = {}

(* A session the boot scan is about to host is hosted, or found dormant; what *)
(* one session fails at does not keep the others from being hosted.           *)
ArmedIsRehosted ==
    \A id \in Ids : (id \in toRehost)
        ~> (hosted[id] # 0 \/ id \notin armed \/ id \in dormant \/ built = MaxBuilt)
=============================================================================
