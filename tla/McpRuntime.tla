----------------------------- MODULE McpRuntime -----------------------------
(***************************************************************************)
(* The MCP servers of one session (crates/neenee-mcp/src/runtime.rs): the  *)
(* list of live entries, the tools published to the agent and the status   *)
(* table, and those that change them: the session's request loop (the      *)
(* switch and the reconnect of /mcp, the new configuration of /reload,     *)
(* /trust and /untrust, neenee-runtime/src/handlers_session.rs and         *)
(* handlers_slash.rs) and the refreshes of the whole list, one spawned     *)
(* when the session starts and one that repeats (catalog.rs and            *)
(* neenee-agent/src/dynamic.rs).                                           *)
(*                                                                         *)
(* A switch or a reconnect holds the list's mutex through its connection   *)
(* attempt and is one step; a refresh and a reconfiguration release it.    *)
(* An attempt connects or fails (a time limit is a failure).  A handle is  *)
(* the settings it was made from, and so are the tools it discovered.      *)
(***************************************************************************)
EXTENDS Naturals, Sequences, FiniteSets, SequencesExt

CONSTANTS
    Servers,   \* names of servers; names are numbers, in their order
    Settings,  \* what the configuration may say of a server
    Enabled,   \* the settings with enabled = true
    NoHandle,      \* no handle; no tools
    Crossing   \* the operations of the request loop that may fall into a refresh

Ops == {"switchOn", "switchOff", "reconnect", "reconfigure"}

ASSUME ServersAssumption == Servers \subseteq Nat /\ IsFiniteSet(Servers)
ASSUME SettingsAssumption == Enabled \subseteq Settings /\ NoHandle \notin Settings
ASSUME CrossingAssumption == Crossing \subseteq Ops

VARIABLES
    configs,   \* the settings of each configured server
    entries,   \* McpRuntime::entries
    offered,   \* the agent's dynamic tools, by source: DynamicToolRegistry
    statuses,  \* the status table
    loop,      \* the reconfiguration the request loop is in, with its locals
    refresh,   \* the two refreshing tasks, with their locals
    off        \* history: the servers the user's last word switched off

runtimeVars == <<configs, entries, offered, statuses, loop, refresh, off>>

Refreshers == {"first", "periodic"}

Statuses == {"disabled", "connecting", "connected", "failed"}
Handles  == Settings \cup {NoHandle}
Entry    == [name : Servers, server : Handles, tools : Handles, status : Statuses]
Configs  == UNION {[names -> Settings] : names \in SUBSET Servers}
Jobs     == [name : Servers, do : {"skip", "connect", "reconnect"}, with : Handles]

RuntimeTypeOK ==
    /\ configs \in Configs /\ entries \in Seq(Entry)
    /\ DOMAIN offered \subseteq Servers /\ \A n \in DOMAIN offered : offered[n] \in Handles
    /\ statuses \in Seq([name : Servers, status : Statuses])
    /\ loop.at \in {"ready", "diffed", "connecting"}
    /\ loop.changed \cup loop.removed \subseteq Servers /\ loop.kept \in Seq(Entry)
    /\ \A t \in Refreshers :
          /\ refresh[t].at \in {"idle", "listed", "connecting", "over", "dead"}
          /\ refresh[t].jobs \in Seq(Jobs)
    /\ off \subseteq Servers

Ready      == [at |-> "ready", changed |-> {}, removed |-> {}, kept |-> <<>>]
Resting(s) == [at |-> s, jobs |-> <<>>]

Disabled(n)    == [name |-> n, server |-> NoHandle, tools |-> NoHandle, status |-> "disabled"]
Connecting(n)  == [Disabled(n) EXCEPT !.status = "connecting"]
Failed(n)      == [Disabled(n) EXCEPT !.status = "failed"]
Live(n, s)     == [name |-> n, server |-> s, tools |-> s, status |-> "connected"]
Unreached(n, s)   == [Failed(n) EXCEPT !.server = s]

(* connect_entry: a fresh handle, or none. *)
Connect(n, s, ok) == IF ok THEN Live(n, s) ELSE Failed(n)

(* reconnect_server: the handle stays whatever comes of it. *)
Reconnect(n, s, ok) == IF ok THEN Live(n, s) ELSE Unreached(n, s)

(* Sorted, by rank: as many numbers of the set are below the next.  An entry   *)
(* of a list has before it those of smaller names and, the sort being stable, *)
(* those of its own name that were.                                           *)
InOrder(names) ==
    [k \in 1..Cardinality(names) |-> CHOOSE n \in names : Cardinality({m \in names : m < n}) = k - 1]

Before(list, i) ==
    {j \in DOMAIN list : list[j].name < list[i].name \/ (list[j].name = list[i].name /\ j < i)}

ByName(list) ==
    [k \in DOMAIN list |-> list[CHOOSE i \in DOMAIN list : Cardinality(Before(list, i)) = k - 1]]

(* The entries of other names, in the order they have. *)
Without(list, names) ==
    LET places == InOrder({i \in DOMAIN list : list[i].name \notin names})
    IN [k \in DOMAIN places |-> list[places[k]]]

(* publish: a complete snapshot of every entry; sources of others stay. *)
Published(list, sources) ==
    [n \in DOMAIN sources \cup {e.name : e \in ToSet(list)} |->
        IF \E e \in ToSet(list) : e.name = n
        THEN list[SelectLastInSeq(list, LAMBDA e : e.name = n)].tools
        ELSE sources[n]]

Table(list) == [i \in DOMAIN list |-> [name |-> list[i].name, status |-> list[i].status]]

Publish(list) ==
    /\ entries' = list /\ offered' = Published(list, offered) /\ statuses' = Table(list)

(* start_background: every enabled server is still to be connected. *)
Starting(n) == IF configs[n] \in Enabled THEN Connecting(n) ELSE Disabled(n)

RuntimeInit ==
    /\ configs \in Configs
    /\ entries = [i \in DOMAIN InOrder(DOMAIN configs) |-> Starting(InOrder(DOMAIN configs)[i])]
    /\ offered = [n \in DOMAIN configs |-> NoHandle] /\ statuses = Table(entries)
    /\ loop = Ready /\ refresh = [t \in Refreshers |-> Resting("idle")] /\ off = {}

-----------------------------------------------------------------------------
(* The request loop. *)

Refreshing == \E t \in Refreshers : refresh[t].at \in {"listed", "connecting"}

May(op) == loop.at = "ready" /\ (op \in Crossing \/ ~Refreshing)

Place(n) == SelectInSeq(entries, LAMBDA e : e.name = n)

(* set_enabled(true): nothing to do if there is a handle. *)
SwitchOn(n) ==
    /\ May("switchOn") /\ n \in DOMAIN configs /\ Place(n) # 0
    /\ off' = off \ {n}
    /\ \/ entries[Place(n)].server # NoHandle /\ UNCHANGED <<entries, offered, statuses>>
       \/ /\ entries[Place(n)].server = NoHandle
          /\ \E ok \in BOOLEAN : Publish([entries EXCEPT ![Place(n)] = Connect(n, configs[n], ok)])
    /\ UNCHANGED <<configs, loop, refresh>>

(* set_enabled(false): the handle is dropped. *)
SwitchOff(n) ==
    /\ May("switchOff") /\ n \in DOMAIN configs /\ Place(n) # 0
    /\ off' = off \cup {n}
    /\ Publish([entries EXCEPT ![Place(n)] = Disabled(n)])
    /\ UNCHANGED <<configs, loop, refresh>>

(* reconnect: through the handle, or with a fresh one. *)
ReconnectOne(n) ==
    /\ May("reconnect") /\ n \in DOMAIN configs /\ Place(n) # 0
    /\ entries[Place(n)].status # "disabled"
    /\ \E ok \in BOOLEAN :
         Publish([entries EXCEPT ![Place(n)] =
                    IF @.server # NoHandle THEN Reconnect(n, @.server, ok)
                    ELSE Connect(n, configs[n], ok)])
    /\ UNCHANGED <<configs, loop, refresh, off>>

(* reconfigure: the difference is taken and the configuration replaced, *)
Reconfigure(new) ==
    /\ May("reconfigure")
    /\ configs' = new
    /\ loop' = [at |-> "diffed",
                changed |-> {n \in DOMAIN new : n \notin DOMAIN configs \/ configs[n] # new[n]},
                removed |-> DOMAIN configs \ DOMAIN new, kept |-> <<>>]
    /\ off' = off \ loop'.changed
    /\ UNCHANGED <<entries, offered, statuses, refresh>>

(* Mutant: the tools of a removed server stay published. *)
SplitOnly ==
    /\ loop.at = "diffed"
    /\ loop' = [loop EXCEPT !.at = "connecting",
                            !.kept = Without(entries, loop.removed \cup loop.changed)]
    /\ offered' = [n \in DOMAIN offered \cup loop.changed |->
                     IF n \in loop.changed THEN NoHandle ELSE offered[n]]
    /\ UNCHANGED <<configs, entries, statuses, refresh, off>>

(* what is unchanged is copied, and what is not loses its tools at once, *)
Split ==
    /\ loop.at = "diffed"
    /\ loop' = [loop EXCEPT !.at = "connecting",
                            !.kept = Without(entries, loop.removed \cup loop.changed)]
    /\ offered' = [n \in (DOMAIN offered \cup loop.changed) \ loop.removed |->
                     IF n \in loop.changed THEN NoHandle ELSE offered[n]]
    /\ UNCHANGED <<configs, entries, statuses, refresh, off>>

(* and the list becomes the copy and the new connections, which come in any    *)
(* order and are sorted in.                                                   *)
Splice ==
    /\ loop.at = "connecting"
    /\ \E up \in SUBSET loop.changed :
         LET fresh(n) == IF configs[n] \in Enabled THEN Connect(n, configs[n], n \in up) ELSE Disabled(n)
             names    == InOrder(loop.changed)
         IN Publish(ByName(loop.kept \o [i \in DOMAIN names |-> fresh(names[i])]))
    /\ loop' = Ready
    /\ UNCHANGED <<configs, refresh, off>>

-----------------------------------------------------------------------------
(* A refresh. *)

Job(e, what, with) == [name |-> e.name, do |-> what, with |-> with]

(* Mutants: a disabled server is connected as well; one that never was is not. *)
JobOfAll(e) == IF e.server # NoHandle THEN Job(e, "reconnect", e.server) ELSE Job(e, "connect", NoHandle)

JobOfLive(e) ==
    IF e.server # NoHandle /\ e.status # "disabled" THEN Job(e, "reconnect", e.server)
    ELSE Job(e, "skip", NoHandle)

(* Disabled servers stay disabled. *)
JobOf(e) ==
    IF e.status = "disabled" THEN Job(e, "skip", NoHandle)
    ELSE IF e.server # NoHandle THEN Job(e, "reconnect", e.server)
    ELSE Job(e, "connect", NoHandle)

(* refresh_all: the jobs are listed, by place; a catalog without servers does  *)
(* nothing.                                                                   *)
List(t) ==
    /\ refresh[t].at = "idle" /\ (loop.at = "ready" \/ "reconfigure" \in Crossing)
    /\ t = "periodic" => DOMAIN configs # {}
    /\ refresh' = [refresh EXCEPT ![t] = [at |-> "listed", jobs |-> [i \in DOMAIN entries |-> JobOf(entries[i])]]]
    /\ UNCHANGED <<configs, entries, offered, statuses, loop, off>>

(* A fresh connection is made with the settings of now, if there are any. *)
ReadConfigs(t) ==
    /\ refresh[t].at = "listed"
    /\ refresh' = [refresh EXCEPT ![t] =
          [at |-> "connecting",
           jobs |-> [i \in DOMAIN refresh[t].jobs |->
              LET job == refresh[t].jobs[i]
              IN IF job.do = "connect" /\ job.name \in DOMAIN configs
                 THEN [job EXCEPT !.with = configs[job.name]] ELSE job]]]
    /\ UNCHANGED <<configs, entries, offered, statuses, loop, off>>

Result(job, ok) ==
    IF job.do = "reconnect" THEN Reconnect(job.name, job.with, ok)
    ELSE Connect(job.name, job.with, ok /\ job.with # NoHandle)

(* The results are written back by place.  A place the list no longer has is a *)
(* panic, which the repeating task does not survive.                          *)
WriteBack(t) ==
    /\ refresh[t].at = "connecting"
    /\ LET jobs == refresh[t].jobs
           done == {i \in DOMAIN jobs : jobs[i].do # "skip"}
           over == Resting(IF t = "first" THEN "over" ELSE "idle")
       IN \E up \in SUBSET done :
            LET list == [i \in DOMAIN entries |->
                           IF i \in done THEN Result(jobs[i], i \in up) ELSE entries[i]]
            IN IF done \subseteq DOMAIN entries
               THEN Publish(list) /\ refresh' = [refresh EXCEPT ![t] = over]
               ELSE /\ entries' = list /\ UNCHANGED <<offered, statuses>>
                    /\ refresh' = [refresh EXCEPT ![t] = Resting("dead")]
    /\ UNCHANGED <<configs, loop, off>>

-----------------------------------------------------------------------------
RefreshStep(t) == List(t) \/ ReadConfigs(t) \/ WriteBack(t)

LoopStep == Split \/ Splice

RuntimeNext ==
    \/ \E t \in Refreshers : RefreshStep(t)
    \/ LoopStep
    \/ \E n \in Servers : SwitchOn(n) \/ SwitchOff(n) \/ ReconnectOne(n)
    \/ \E new \in Configs : Reconfigure(new)

(* The refreshing tasks and a reconfiguration go on: every attempt to connect *)
(* has a time limit.                                                          *)
RuntimeFairness ==
    /\ \A t \in Refreshers : WF_runtimeVars(ReadConfigs(t) \/ WriteBack(t)) /\ SF_runtimeVars(List(t))
    /\ WF_runtimeVars(LoopStep)

RuntimeSpec == RuntimeInit /\ [][RuntimeNext]_runtimeVars /\ RuntimeFairness

-----------------------------------------------------------------------------
(* Between two requests the list holds the configured servers, each once and  *)
(* with handle and tools of the settings in force, whatever reconfigurations  *)
(* and refreshes came before; the agent is offered these tools and no others, *)
(* and the table shows these states.                                          *)
PublishedIsConfigured ==
    loop.at = "ready" =>
        /\ [i \in DOMAIN entries |-> entries[i].name] = InOrder(DOMAIN configs)
        /\ \A i \in DOMAIN entries :
              {entries[i].server, entries[i].tools} \subseteq {NoHandle, configs[entries[i].name]}
        /\ offered = [n \in DOMAIN configs |-> entries[Place(n)].tools]
        /\ statuses = Table(entries)

(* A server the user switched off has no tools on offer until it is switched  *)
(* on or configured anew.                                                     *)
SwitchedOffStaysOff ==
    \A n \in off : n \in DOMAIN offered => offered[n] = NoHandle

(* No server is shown as connecting for ever. *)
ConnectingSettles ==
    \A n \in Servers :
        [name |-> n, status |-> "connecting"] \in ToSet(statuses)
            ~> [name |-> n, status |-> "connecting"] \notin ToSet(statuses)
=============================================================================
