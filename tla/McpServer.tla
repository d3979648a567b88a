------------------------------ MODULE McpServer ------------------------------
(***************************************************************************)
(* The connection to one MCP server (crates/neenee-mcp/src/client.rs): the *)
(* slot of McpServer that holds the current client, the clients with their *)
(* pipe to a child process, and those that use them at the same time: tool *)
(* calls, which reconnect and retry once when the transport fails, and     *)
(* reconnections, which drop the client and list the tools anew.           *)
(*                                                                         *)
(* A client is kept by whoever holds it and its process killed when nobody *)
(* does; its number is then free for another.  (A call that retries keeps  *)
(* its first client until it ends and does nothing with it; here it lets   *)
(* go of it at once.)  A result and a protocol error are both an answer.   *)
(* The write waits as long as the process does not read.  The greeting of  *)
(* a new connection, two short messages into an empty pipe, is left out.   *)
(***************************************************************************)
EXTENDS Naturals, Sequences, FiniteSets, Functions

CONSTANTS
    Calls,     \* the uses of the server, each once
    Listings,  \* those of them that are reconnections
    Nobody,    \* a mutex that is free
    MaxFaults  \* bound: deaths, hangs and interrupts come before so many faults

ASSUME CallsAssumption ==
    /\ IsFiniteSet(Calls) /\ Listings \subseteq Calls /\ Nobody \notin Calls
    /\ MaxFaults \in Nat /\ MaxFaults > 1

(* A call holds one client at most, and so does the slot. *)
Clients == 1..Cardinality(Calls) + 1
None    == 0
Tries   == {1, 2}
Request == Calls \X Tries

VARIABLES
    slot,      \* McpServer::client
    slotLock,  \* who holds its mutex over an await
    wire,      \* each client's process and pipe
    call,      \* where each call stands, the client it holds, which try it is
    faults     \* what has gone wrong of itself so far, counted up to the bound

vars == <<slot, slotLock, wire, call, faults>>

(* alive: the process runs; deaf: it has stopped reading for good; cut: it    *)
(* was sent part of a line; inbox: requests it has received and not answered; *)
(* pipe: replies on their way; torn: the reader has lost the first part of    *)
(* the next one; lock: who holds the transport.                               *)
Wire == [alive : BOOLEAN, deaf : BOOLEAN, cut : BOOLEAN, inbox : Seq(Request),
         pipe : Seq(Request), torn : BOOLEAN, lock : Calls \cup {Nobody}]

NoWire  == [alive |-> FALSE, deaf |-> FALSE, cut |-> FALSE, inbox |-> <<>>,
            pipe |-> <<>>, torn |-> FALSE, lock |-> Nobody]
NewWire == [NoWire EXCEPT !.alive = TRUE]

(* A call that has the transport waits for room to write, or for the answer   *)
(* to a request that the process has received ("sent") or never will.         *)
Reading == {"sent", "unheard"}
Using   == {"writing"} \cup Reading
Places  == {"idle", "ensure", "connecting", "waiting", "reset", "failed", "over"}
             \cup Using

TypeOK ==
    /\ slot \in Clients \cup {None} /\ slotLock \in Calls \cup {Nobody}
    /\ wire \in [Clients -> Wire]
    /\ call \in [Calls -> [at : Places, client : Clients \cup {None}, try : Tries]]
    /\ faults \in 0..MaxFaults

Init ==
    /\ slot = None /\ slotLock = Nobody /\ wire = [k \in Clients |-> NoWire]
    /\ call = [c \in Calls |-> [at |-> "idle", client |-> None, try |-> 1]]
    /\ faults = 0

UnderWay(c) == call[c].at \notin {"idle", "failed", "over"}

Id(c)     == <<c, call[c].try>>
Client(c) == call[c].client
Fault     == faults' = IF faults < MaxFaults THEN faults + 1 ELSE faults

Goes(c, at) == call' = [call EXCEPT ![c].at = at]
Takes(c, k) == call' = [call EXCEPT ![c].at = "waiting", ![c].client = k]
Retries(c)  == call' = [call EXCEPT ![c] = [at |-> "ensure", client |-> None, try |-> 2]]

(* A call that ends, or gives up a client, leaves it. *)
Leaves(c, at) ==
    call' = [call EXCEPT ![c] = [at |-> at, client |-> None,
                                 try |-> IF at = "reset" THEN @.try ELSE 1]]

Held(k) == k = slot \/ \E c \in Calls : Client(c) = k

(* The process of a client that nobody holds any more is killed. *)
Sweep(w) ==
    wire' = [k \in Clients |->
               IF k = slot' \/ \E c \in Calls : call'[c].client = k THEN w[k] ELSE NoWire]

-----------------------------------------------------------------------------
(* The slot. *)

(* A tool call begins with the client there is, a reconnection without. *)
Begin(c) ==
    /\ call[c].at = "idle" /\ Goes(c, IF c \in Listings THEN "reset" ELSE "ensure")
    /\ UNCHANGED <<slot, slotLock, wire, faults>>

(* ensure_connected: the client in the slot, or a new one, made under the lock. *)
Ensure(c) ==
    /\ call[c].at = "ensure" /\ slotLock = Nobody
    /\ IF slot # None THEN Takes(c, slot) /\ UNCHANGED slotLock
                      ELSE Goes(c, "connecting") /\ slotLock' = c
    /\ UNCHANGED <<slot, wire, faults>>

Free == CHOOSE k \in Clients : ~Held(k)

Connects(c) ==
    /\ call[c].at = "connecting" /\ Takes(c, Free)
    /\ slot' = Free /\ slotLock' = Nobody /\ wire' = [wire EXCEPT ![Free] = NewWire]
    /\ UNCHANGED faults

ConnectFails(c) ==
    /\ call[c].at = "connecting" /\ Leaves(c, "over") /\ slotLock' = Nobody
    /\ UNCHANGED <<slot, wire, faults>>

(* Mutant: the broken client is left in the slot. *)
KeepClient(c) ==
    /\ call[c].at = "reset" /\ slotLock = Nobody /\ Retries(c)
    /\ UNCHANGED <<slot, slotLock, wire, faults>>

(* reset: whatever client is in the slot is dropped from it. *)
Reset(c) ==
    /\ call[c].at = "reset" /\ slotLock = Nobody /\ Retries(c)
    /\ slot' = None /\ Sweep(wire)
    /\ UNCHANGED <<slotLock, faults>>

-----------------------------------------------------------------------------
(* A request. *)

(* A transport failure is tried once more, unless it was the second one. *)
Broken(c, w) ==
    /\ Leaves(c, IF call[c].try = 1 THEN "reset" ELSE "failed")
    /\ UNCHANGED <<slot, slotLock>>
    /\ Sweep([w EXCEPT ![Client(c)].lock = Nobody])

(* Mutant: the transport's lock is held for the write alone. *)
DeliversAndReleases(c, w) ==
    /\ UNCHANGED <<slot, slotLock>> /\ Goes(c, "sent")
    /\ wire' = [w EXCEPT ![Client(c)].inbox = Append(@, Id(c)), ![Client(c)].lock = Nobody]

(* A process that reads receives the request, or takes it for the rest of a   *)
(* line; one that does not leaves it in the pipe.                             *)
Delivers(c, w) ==
    /\ UNCHANGED <<slot, slotLock>>
    /\ IF w[Client(c)].deaf \/ w[Client(c)].cut
       THEN Goes(c, "unheard") /\ wire' = [w EXCEPT ![Client(c)].cut = FALSE]
       ELSE Goes(c, "sent") /\ wire' = [w EXCEPT ![Client(c)].inbox = Append(@, Id(c))]

(* The transport's lock is taken and the request written, at once if there is *)
(* room in the pipe.                                                          *)
Locked(c) == [wire EXCEPT ![Client(c)].lock = c]

Send(c) ==
    /\ call[c].at = "waiting" /\ wire[Client(c)].lock = Nobody /\ wire[Client(c)].alive
    /\ \/ Delivers(c, Locked(c))
       \/ Goes(c, "writing") /\ wire' = Locked(c) /\ UNCHANGED <<slot, slotLock>>
    /\ UNCHANGED faults

(* A write that found the pipe full goes on as the process reads. *)
Write(c) ==
    /\ call[c].at = "writing" /\ wire[Client(c)].alive /\ ~wire[Client(c)].deaf
    /\ Delivers(c, wire) /\ UNCHANGED faults

(* A process that has died takes nothing. *)
WriteFails(c) ==
    /\ \/ call[c].at = "waiting" /\ wire[Client(c)].lock = Nobody
       \/ call[c].at = "writing"
    /\ ~wire[Client(c)].alive /\ Broken(c, wire) /\ UNCHANGED faults

(* The first reply is read, or was lost in part; one with another id is       *)
(* skipped.                                                                   *)
Arrives(c)  == call[c].at \in Reading /\ wire[Client(c)].pipe # <<>> /\ UNCHANGED faults
Reply(c)    == Head(wire[Client(c)].pipe)
Consumed(c) == [wire EXCEPT ![Client(c)].pipe = Tail(@), ![Client(c)].torn = FALSE]

Read(c) ==
    /\ Arrives(c) /\ ~wire[Client(c)].torn /\ UNCHANGED <<slot, slotLock>>
    /\ IF Reply(c) = Id(c)
       THEN Leaves(c, "over") /\ Sweep([Consumed(c) EXCEPT ![Client(c)].lock = Nobody])
       ELSE wire' = Consumed(c) /\ UNCHANGED call

(* The end of the stream, or the rest of a line whose beginning is lost. *)
ReadFails(c) ==
    \/ Arrives(c) /\ wire[Client(c)].torn /\ Broken(c, Consumed(c))
    \/ /\ call[c].at \in Reading /\ ~wire[Client(c)].alive /\ wire[Client(c)].pipe = <<>>
       /\ Broken(c, wire) /\ UNCHANGED faults

(* What is given up half-way leaves part of a line sent or part of one read.  *)
GivenUp(c, part) ==
    IF call[c].at = "writing"
    THEN [wire EXCEPT ![Client(c)].cut = @ \/ part, ![Client(c)].lock = Nobody]
    ELSE [wire EXCEPT ![Client(c)].torn = @ \/ part, ![Client(c)].lock = Nobody]

(* A call that ends early for what went wrong before is no fault of its own.  *)
Blames(c) ==
    IF call[c].at = "unheard" \/ (call[c].at \in {"writing", "sent"} /\ wire[Client(c)].deaf)
    THEN UNCHANGED faults ELSE Fault

(* Mutant: only a process that has died is given up. *)
TimesOutIfDead(c) ==
    /\ call[c].at \in Reading /\ ~wire[Client(c)].alive /\ Blames(c)
    /\ \E part \in BOOLEAN : Broken(c, GivenUp(c, part))

TimesOut(c) ==
    /\ call[c].at \in Reading /\ Blames(c)
    /\ \E part \in BOOLEAN : Broken(c, GivenUp(c, part))

(* The call's task is dropped. *)
Dropped(c) ==
    /\ UnderWay(c) /\ Blames(c) /\ Leaves(c, "over")
    /\ slotLock' = IF slotLock = c THEN Nobody ELSE slotLock
    /\ UNCHANGED slot
    /\ IF call[c].at \in Using
       THEN \E part \in BOOLEAN : Sweep(GivenUp(c, part)) ELSE Sweep(wire)

Interrupted(c) == faults < MaxFaults /\ Dropped(c)

(* A reconnection has a limit of its own for all it does after its reset. *)
LimitReached(c) == c \in Listings /\ call[c].at # "reset" /\ Dropped(c)

-----------------------------------------------------------------------------
(* The process. *)

Replies(k) ==
    /\ wire[k].alive /\ wire[k].inbox # <<>>
    /\ wire' = [wire EXCEPT ![k].inbox = Tail(@), ![k].pipe = Append(@, Head(wire[k].inbox))]
    /\ UNCHANGED <<slot, slotLock, call, faults>>

(* It may still answer what it has received. *)
Deafens(k) ==
    /\ wire[k].alive /\ ~wire[k].deaf /\ faults < MaxFaults /\ Fault
    /\ wire' = [wire EXCEPT ![k].deaf = TRUE]
    /\ UNCHANGED <<slot, slotLock, call>>

(* What it has written can still be read. *)
Dies(k) ==
    /\ wire[k].alive /\ faults < MaxFaults /\ Fault
    /\ wire' = [wire EXCEPT ![k] = [NoWire EXCEPT !.pipe = wire[k].pipe, !.torn = wire[k].torn,
                                                  !.lock = wire[k].lock]]
    /\ UNCHANGED <<slot, slotLock, call>>

-----------------------------------------------------------------------------
CallStep(c) ==
    \/ Ensure(c) \/ Connects(c) \/ ConnectFails(c) \/ Reset(c)
    \/ Send(c) \/ Write(c) \/ WriteFails(c) \/ Read(c) \/ ReadFails(c) \/ TimesOut(c)

Next ==
    \/ \E c \in Calls : Begin(c) \/ CallStep(c) \/ LimitReached(c) \/ Interrupted(c)
    \/ \E k \in Clients : Replies(k) \/ Deafens(k) \/ Dies(k)

(* A call's task is polled and its timers run out: as long as some call can   *)
(* go on, one does.  A process owes no reply, and nobody has to interrupt.    *)
Fairness == WF_vars(\E c \in Calls : CallStep(c) \/ LimitReached(c))

Spec == Init /\ [][Next]_vars /\ Fairness

-----------------------------------------------------------------------------
(* Those that share a pipe do not read each other's answers away: as long as  *)
(* the process lives, the answer to a request it has received is still to     *)
(* come, however many calls before it were given up or dropped.               *)
Owes(w) == Range(w.inbox) \cup Range(w.pipe)

NoAnswerIsSkipped ==
    \A c \in Calls : call[c].at = "sent" /\ wire[Client(c)].alive => Id(c) \in Owes(wire[Client(c)])

(* "Transparent crash recovery": if one thing went wrong, be it a death, a     *)
(* process that hangs, a time-out or another call that was dropped, no tool   *)
(* call fails for it, unless no new connection can be made; and of several    *)
(* calls that find a client broken none disturbs the retry of another.        *)
OneFaultIsRecovered ==
    faults <= 1 => \A c \in Calls \ Listings : call[c].at # "failed"

(* A reconnection ends, and so does a tool call, also with a process that     *)
(* never answers and with others before it on the same client; it is kept     *)
(* only by a write to a process that has stopped reading.                     *)
Hangs(c) ==
    \E d \in Calls \ Listings :
        call[d].at = "writing" /\ Client(d) = Client(c) /\ wire[Client(d)].deaf

ToEnd == {c \in Calls : UnderWay(c) /\ (c \in Listings \/ ~Hangs(c))}

CallEnds == ToEnd # {} ~> ToEnd = {}
=============================================================================
