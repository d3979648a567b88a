----------------------------- MODULE Mcp_proofs -----------------------------
(***************************************************************************)
(* Theorems about the MCP part, for every set of servers, settings, calls  *)
(* and reconnections.  Of one server's connection (McpServer): the calls   *)
(* on a shared pipe do not read each other's answers away, and one fault   *)
(* fails no tool call, whichever calls find the client broken and in       *)
(* whatever order they throw it away.  Of the list of servers (McpRuntime): what is offered and      *)
(* shown is what is configured, and a server that was switched off stays   *)
(* silent.                                                                 *)
(***************************************************************************)
EXTENDS McpServer, McpRuntime, SequenceTheorems, FiniteSetTheorems, TLAPS

(* A call holds a client from its first step to the end of its request. *)
CallShape == \A c \in Calls : call[c].at \in {"waiting"} \cup Using <=> Client(c) # None

(* Whoever connects holds the slot's mutex, and the slot is empty. *)
ConnectsAlone == \A c \in Calls : call[c].at = "connecting" => slotLock = c /\ slot = None

(* A process that runs and reads, with no line cut off either way; and a      *)
(* client that has one and swallowed no request.                              *)
Sound(w, k) == w[k].alive /\ ~w[k].deaf /\ ~w[k].cut /\ ~w[k].torn

Healthy(k) == Sound(wire, k) /\ \A c \in Calls : Client(c) = k => call[c].at # "unheard"

(* Until something goes wrong every client that is held is healthy, and no    *)
(* tool call has a reason to retry.                                           *)
Undisturbed ==
    faults = 0 =>
        /\ \A k \in Clients : Held(k) => Healthy(k)
        /\ \A c \in Calls \ Listings : call[c].try = 1 /\ call[c].at # "reset"

(* After one fault a tool call that retries has a healthy client, in its hand *)
(* or in the slot: what its reset threw away was the one that is broken.      *)
Recovering ==
    faults <= 1 =>
        \A c \in Calls \ Listings : call[c].try = 2 =>
            /\ Client(c) # None => Healthy(Client(c))
            /\ slot # None => Healthy(slot)

ServerInv ==
    /\ TypeOK /\ CallShape /\ ConnectsAlone /\ Undisturbed /\ Recovering /\ OneFaultIsRecovered

Tools == Calls \ Listings

-----------------------------------------------------------------------------
(* What the operators do to the calls and the wires.                          *)

CallRecord == [at : Places, client : Clients \cup {None}, try : Tries]

(* Where a step leaves the call that takes it. *)
Becomes(c, at, client, try) ==
    /\ call' \in [Calls -> CallRecord]
    /\ call'[c].at = at /\ call'[c].client = client /\ call'[c].try = try
    /\ \A d \in Calls \ {c} : call'[d] = call[d]

LEMMA BecomesIntro ==
  ASSUME TypeOK, NEW c \in Calls, NEW at \in Places, NEW client \in Clients \cup {None},
         NEW try \in Tries,
         call' = [call EXCEPT ![c] = [at |-> at, client |-> client, try |-> try]]
  PROVE  Becomes(c, at, client, try)
BY DEF TypeOK, Becomes, CallRecord

LEMMA CallMoves ==
  ASSUME TypeOK, NEW c \in Calls
  PROVE  /\ call[c].at \in Places /\ call[c].client \in Clients \cup {None} /\ call[c].try \in Tries
         /\ \A at \in Places : Goes(c, at) => Becomes(c, at, call[c].client, call[c].try)
         /\ \A k \in Clients : Takes(c, k) => Becomes(c, "waiting", k, call[c].try)
         /\ Retries(c) => Becomes(c, "ensure", None, 2)
         /\ \A at \in Places : Leaves(c, at) =>
              Becomes(c, at, None, IF at = "reset" THEN call[c].try ELSE 1)
<1>1. /\ call \in [Calls -> CallRecord] /\ call[c] \in CallRecord
      /\ call[c] = [at |-> call[c].at, client |-> call[c].client, try |-> call[c].try]
  BY DEF TypeOK, CallRecord
<1>2. call[c].at \in Places /\ call[c].client \in Clients \cup {None} /\ call[c].try \in Tries
  BY <1>1 DEF CallRecord
<1>3. ASSUME NEW at \in Places, Goes(c, at) PROVE Becomes(c, at, call[c].client, call[c].try)
  BY <1>1, <1>2, <1>3 DEF Goes, Becomes, CallRecord
<1>4. ASSUME NEW k \in Clients, Takes(c, k) PROVE Becomes(c, "waiting", k, call[c].try)
  BY <1>1, <1>2, <1>4 DEF Takes, Becomes, CallRecord, Places
<1>5. ASSUME Retries(c) PROVE Becomes(c, "ensure", None, 2)
  BY <1>1, <1>2, <1>5 DEF Retries, Becomes, CallRecord, Places, Tries
<1>6. ASSUME NEW at \in Places, Leaves(c, at)
      PROVE  Becomes(c, at, None, IF at = "reset" THEN call[c].try ELSE 1)
  BY <1>1, <1>2, <1>6 DEF Leaves, Becomes, CallRecord, Tries
<1> QED  BY <1>2, <1>3, <1>4, <1>5, <1>6

(* A wire on which nothing that is healthy has suffered. *)
Keeps(w) == w \in [Clients -> Wire] /\ \A k \in Clients : Healthy(k) => Sound(w, k)

LEMMA SweepKeeps ==
  ASSUME TypeOK, NEW w \in [Clients -> Wire], Sweep(w)
  PROVE  /\ wire' \in [Clients -> Wire]
         /\ \A k \in Clients : Held(k)' => wire'[k] = w[k]
<1>1. NoWire \in Wire
  BY DEF NoWire, Wire
<1>2. \A k \in Clients : Held(k)' => wire'[k] = w[k]
  BY DEF Sweep, Held, Client
<1> QED  BY <1>1, <1>2 DEF Sweep

LEMMA Unlocked ==
  ASSUME NEW w \in [Clients -> Wire], NEW k \in Clients
  PROVE  /\ [w EXCEPT ![k].lock = Nobody] \in [Clients -> Wire]
         /\ \A j \in Clients : Sound([w EXCEPT ![k].lock = Nobody], j) <=> Sound(w, j)
         /\ \A j \in Clients \ {k} : [w EXCEPT ![k].lock = Nobody][j] = w[j]
BY DEF Wire, Sound

(* What a sequence holds, when it loses its head or gains an element.         *)
LEMMA HeadTailRange ==
  ASSUME NEW S, NEW s \in Seq(S), s # <<>>
  PROVE  Tail(s) \in Seq(S) /\ Head(s) \in S /\ Range(s) = {Head(s)} \cup Range(Tail(s))
<1>1. Len(s) \in Nat \ {0} /\ Head(s) = s[1] /\ Tail(s) \in Seq(S) /\ Head(s) \in S
  BY HeadTailProperties, EmptySeq, LenProperties
<1>2. DOMAIN s = 1..Len(s) /\ DOMAIN Tail(s) = 1..Len(s) - 1
  BY <1>1, HeadTailProperties, LenProperties
<1>3. \A i \in 1..Len(s) - 1 : Tail(s)[i] = s[i + 1]
  BY <1>1, HeadTailProperties
<1>4. ASSUME NEW x, x \in Range(s) PROVE x \in {Head(s)} \cup Range(Tail(s))
  <2>1. PICK i \in 1..Len(s) : x = s[i]
    BY <1>2, <1>4 DEF Range
  <2>2. CASE i = 1
    BY <1>1, <2>1, <2>2
  <2>3. CASE i # 1
    <3>1. i - 1 \in 1..Len(s) - 1 /\ (i - 1) + 1 = i
      BY <1>1, <2>3
    <3> QED  BY <1>2, <1>3, <2>1, <3>1 DEF Range
  <2> QED  BY <2>2, <2>3
<1>5. ASSUME NEW x, x \in {Head(s)} \cup Range(Tail(s)) PROVE x \in Range(s)
  <2>1. CASE x = Head(s)
    BY <1>1, <1>2, <2>1 DEF Range
  <2>2. CASE x \in Range(Tail(s))
    <3>1. PICK i \in 1..Len(s) - 1 : x = Tail(s)[i]
      BY <1>2, <2>2 DEF Range
    <3>2. i + 1 \in 1..Len(s)
      BY <1>1
    <3> QED  BY <1>2, <1>3, <3>1, <3>2 DEF Range
  <2> QED  BY <1>5, <2>1, <2>2
<1> QED  BY <1>1, <1>4, <1>5

LEMMA AppendRange ==
  ASSUME NEW S, NEW s \in Seq(S), NEW x \in S
  PROVE  Append(s, x) \in Seq(S) /\ Range(Append(s, x)) = Range(s) \cup {x}
<1>1. /\ Append(s, x) \in Seq(S) /\ Len(s) \in Nat /\ Len(Append(s, x)) = Len(s) + 1
      /\ DOMAIN s = 1..Len(s) /\ DOMAIN Append(s, x) = 1..Len(s) + 1
      /\ Append(s, x)[Len(s) + 1] = x /\ \A i \in 1..Len(s) : Append(s, x)[i] = s[i]
  BY AppendProperties, LenProperties
<1>2. ASSUME NEW y, y \in Range(Append(s, x)) PROVE y \in Range(s) \cup {x}
  <2>1. PICK i \in 1..Len(s) + 1 : y = Append(s, x)[i]
    BY <1>1, <1>2 DEF Range
  <2>2. i = Len(s) + 1 \/ i \in 1..Len(s)
    BY <1>1
  <2> QED  BY <1>1, <2>1, <2>2 DEF Range
<1>3. ASSUME NEW y, y \in Range(s) \cup {x} PROVE y \in Range(Append(s, x))
  <2>1. 1..Len(s) \subseteq 1..Len(s) + 1 /\ Len(s) + 1 \in 1..Len(s) + 1
    BY <1>1
  <2> QED  BY <1>1, <1>3, <2>1 DEF Range
<1> QED  BY <1>1, <1>2, <1>3

LEMMA ConsumedKeeps ==
  ASSUME TypeOK, NEW c \in Calls, Client(c) \in Clients, wire[Client(c)].pipe # <<>>
  PROVE  /\ Keeps(Consumed(c))
         /\ \A j \in Clients \ {Client(c)} : Consumed(c)[j] = wire[j]
         /\ Consumed(c)[Client(c)].lock = wire[Client(c)].lock
         /\ Consumed(c)[Client(c)].alive = wire[Client(c)].alive
         /\ Owes(Consumed(c)[Client(c)]) \cup {Reply(c)} = Owes(wire[Client(c)])
<1>1. wire[Client(c)].pipe \in Seq(Request) /\ wire[Client(c)] \in Wire
  BY DEF TypeOK, Wire
<1>2. PICK t \in Seq(Request) : t = Tail(wire[Client(c)].pipe) /\ Range(wire[Client(c)].pipe) = {Reply(c)} \cup Range(t)
  BY <1>1, HeadTailRange DEF Reply
<1> DEFINE r == [wire[Client(c)] EXCEPT !.pipe = t, !.torn = FALSE]
<1>3. r \in Wire /\ (\A k \in Clients : k = Client(c) /\ Sound(wire, k) =>
                        r.alive /\ ~r.deaf /\ ~r.cut /\ ~r.torn)
  BY <1>1 DEF Wire, Sound
<1>4. Consumed(c) = [wire EXCEPT ![Client(c)] = r]
  BY <1>1, <1>2 DEF Consumed, TypeOK
<1>5. r.lock = wire[Client(c)].lock /\ r.inbox = wire[Client(c)].inbox /\ r.pipe = t
      /\ r.alive = wire[Client(c)].alive
  BY <1>1 DEF Wire
<1> HIDE DEF r
<1>6. /\ Consumed(c) \in [Clients -> Wire] /\ Consumed(c)[Client(c)] = r
      /\ \A j \in Clients \ {Client(c)} : Consumed(c)[j] = wire[j]
  BY <1>3, <1>4 DEF TypeOK
<1>7. Keeps(Consumed(c))
  BY <1>3, <1>6 DEF Keeps, Healthy, Sound
<1>8. Owes(r) \cup {Reply(c)} = Owes(wire[Client(c)])
  BY <1>2, <1>5 DEF Owes
<1> QED  BY <1>5, <1>6, <1>7, <1>8

(* The clients are one more than the calls, so a connection finds one free.   *)
LEMMA FreeIsFree ==
  ASSUME TypeOK, slot = None, NEW c \in Calls, Client(c) = None
  PROVE  Free \in Clients /\ ~Held(Free)
<1>1. IsFiniteSet(Calls) /\ Cardinality(Calls) \in Nat
  BY CallsAssumption, FS_CardinalityType
<1>2. IsFiniteSet(Clients) /\ Cardinality(Clients) = Cardinality(Calls) + 1
  BY <1>1, FS_Interval DEF Clients
<1>3. ASSUME \A k \in Clients : \E d \in Calls : Client(d) = k PROVE FALSE
  <2> DEFINE holder == [k \in Clients |-> CHOOSE d \in Calls : Client(d) = k]
  <2>1. holder \in [Clients -> Calls] /\ \A k \in Clients : Client(holder[k]) = k
    BY <1>3
  <2>2. Cardinality(Calls) < Cardinality(Clients)
    BY <1>1, <1>2
  <2> HIDE DEF holder
  <2>3. PICK j, k \in Clients : j # k /\ holder[j] = holder[k]
    BY <1>1, <1>2, <2>1, <2>2, FS_PigeonHole
  <2> QED  BY <2>1, <2>3
<1>4. \E k \in Clients : ~Held(k)
  <2>1. \A k \in Clients : k # slot
    BY DEF Clients, None
  <2> QED  BY <1>3, <2>1 DEF Held
<1> QED  BY <1>4 DEF Free

-----------------------------------------------------------------------------
(* Steps of a call.                                                           *)

(* A step of call c that breaks nothing: what is held stays healthy, what is  *)
(* new is healthy, and a call that begins to retry leaves the slot empty.     *)
Harmless(c, at, client, try) ==
    /\ Becomes(c, at, client, try) /\ faults' = faults
    /\ at \in {"waiting"} \cup Using <=> client # None
    /\ slot' \in Clients \cup {None} /\ slotLock' \in Calls \cup {Nobody}
    /\ wire' \in [Clients -> Wire]
    /\ \A k \in Clients : Held(k)' /\ (~Held(k) \/ Healthy(k)) => Sound(wire', k)
    /\ at = "unheard" => Held(client) /\ ~Healthy(client)
    /\ slot' = slot \/ slot' = None \/ ~Held(slot')
    /\ client = call[c].client \/ client = None \/ client = slot \/ ~Held(client)
    /\ c \in Tools /\ try = 2 => call[c].try = 2 \/ (faults # 0 /\ slot' = None /\ client = None)
    /\ c \in Tools /\ at = "reset" => faults # 0
    /\ c \in Tools /\ at = "failed" => faults > 1 \/ call[c].at = "failed"

LEMMA HarmlessStep ==
  ASSUME ServerInv, NEW c \in Calls, NEW at \in Places, NEW client \in Clients \cup {None},
         NEW try \in Tries, Harmless(c, at, client, try), ConnectsAlone'
  PROVE  ServerInv'
<1>1. /\ TypeOK /\ Becomes(c, at, client, try) /\ faults \in 0..MaxFaults /\ MaxFaults \in Nat
  BY CallsAssumption DEF ServerInv, TypeOK, Harmless
<1>2. /\ \A d \in Calls \ {c} : call'[d] = call[d]
      /\ call'[c].at = at /\ call'[c].client = client /\ call'[c].try = try
  BY <1>1 DEF Becomes
<1>3. TypeOK'
  BY <1>1 DEF Harmless, Becomes, CallRecord, TypeOK
<1>4. CallShape'
  BY <1>2 DEF Harmless, ServerInv, CallShape, Client
<1>h. \A k \in Clients : Held(k)' /\ (~Held(k) \/ Healthy(k)) => Healthy(k)'
  <2> SUFFICES ASSUME NEW k \in Clients, Held(k)', ~Held(k) \/ Healthy(k),
                      NEW d \in Calls, call'[d].client = k, call'[d].at = "unheard"
               PROVE  FALSE
    BY DEF Harmless, Healthy, Client
  <2>1. CASE d # c
    <3>1. call[d].client = k /\ call[d].at = "unheard"
      BY <1>2, <2>1
    <3> QED  BY <3>1 DEF Held, Healthy, Client
  <2>2. CASE d = c
    BY <1>2, <2>2 DEF Harmless
  <2> QED  BY <2>1, <2>2
<1>5. Undisturbed'
  <2> SUFFICES ASSUME faults = 0
               PROVE  /\ \A k \in Clients : Held(k)' => Healthy(k)'
                      /\ \A d \in Tools : call'[d].try = 1 /\ call'[d].at # "reset"
    BY DEF Harmless, Undisturbed, Tools
  <2>1. \A k \in Clients : Held(k)' => Healthy(k)'
    BY <1>h DEF ServerInv, Undisturbed
  <2>2. ASSUME NEW d \in Tools PROVE call'[d].try = 1 /\ call'[d].at # "reset"
    <3>1. call[d].try = 1 /\ call[d].at # "reset"
      BY DEF ServerInv, Undisturbed, Tools
    <3> QED  BY <1>2, <3>1 DEF Harmless, Tools, Tries
  <2> QED  BY <2>1, <2>2
<1>6. Recovering'
  <2> SUFFICES ASSUME faults <= 1, NEW d \in Tools, call'[d].try = 2
               PROVE  /\ Client(d)' # None => Healthy(Client(d))'
                      /\ slot' # None => Healthy(slot)'
    BY DEF Harmless, Recovering, Tools
  <2>1. d \in Calls /\ Client(d)' = call'[d].client /\ call'[d].client \in Clients \cup {None}
    BY <1>1, <1>3 DEF Tools, Client, TypeOK
  <2>2. CASE call[d].try = 2
    <3>1. /\ Client(d) # None => Healthy(Client(d))
          /\ slot # None => Healthy(slot)
      BY <2>2 DEF ServerInv, Recovering, Tools
    <3>2. slot' # None => Healthy(slot)'
      <4>1. SUFFICES ASSUME slot' # None PROVE \E k \in Clients : k = slot' /\ Healthy(k)'
        BY DEF Healthy
      <4>2. slot' \in Clients /\ Held(slot)'
        BY <4>1 DEF Harmless, Held
      <4>3. CASE slot' = slot
        <5>1. slot \in Clients /\ Held(slot) /\ Healthy(slot)
          BY <3>1, <4>1, <4>2, <4>3 DEF Held
        <5>2. \A k \in Clients : k = slot => Held(k)'
          BY <4>3 DEF Held
        <5> QED  BY <1>h, <4>3, <5>1, <5>2
      <4>4. CASE ~Held(slot')
        <5>1. \A k \in Clients : k = slot' => Held(k)'
          BY DEF Held
        <5> QED  BY <1>h, <4>2, <4>4, <5>1
      <4> QED  BY <4>1, <4>3, <4>4 DEF Harmless
    <3>3. Client(d)' # None => Healthy(Client(d))'
      <4>1. SUFFICES ASSUME call'[d].client # None PROVE \E k \in Clients : k = call'[d].client /\ Healthy(k)'
        BY <2>1 DEF Healthy, Client
      <4>2. PICK k \in Clients : k = call'[d].client
        BY <2>1, <4>1
      <4>3. Held(k)'
        BY <2>1, <4>2 DEF Held
      <4>4. k = Client(d) \/ k = slot \/ ~Held(k)
        BY <1>2, <2>1, <4>1, <4>2 DEF Harmless, Client
      <4>5. CASE k = Client(d) \/ k = slot
        <5>1. Held(k) /\ Healthy(k)
          BY <2>1, <3>1, <4>2, <4>5 DEF Held, Clients, None
        <5> QED  BY <1>h, <4>2, <4>3, <5>1
      <4>6. CASE ~Held(k)
        BY <1>h, <4>2, <4>3, <4>6
      <4> QED  BY <4>4, <4>5, <4>6
    <3> QED  BY <3>2, <3>3
  <2>3. CASE call[d].try # 2
    <3>1. d = c /\ try = 2
      BY <1>2, <2>1, <2>3
    <3>2. slot' = None /\ client = None
      BY <2>3, <3>1 DEF Harmless
    <3> QED  BY <1>2, <2>1, <3>1, <3>2
  <2> QED  BY <2>2, <2>3
<1>7. OneFaultIsRecovered'
  <2>1. ASSUME faults <= 1, NEW d \in Tools PROVE call'[d].at # "failed"
    BY <1>1, <1>2, <2>1 DEF Harmless, ServerInv, OneFaultIsRecovered, Tools
  <2> QED  BY <2>1 DEF Harmless, OneFaultIsRecovered, Tools
<1> QED  BY <1>3, <1>4, <1>5, <1>6, <1>7 DEF ServerInv, Harmless

(* Begin, a connection that fails and a call that finds one. *)
LEMMA BeginStep ==
  ASSUME ServerInv, NEW c \in Calls, Begin(c)
  PROVE  ServerInv'
<1> DEFINE at == IF c \in Listings THEN "reset" ELSE "ensure"
<1>1. /\ TypeOK /\ call[c].at = "idle" /\ Goes(c, at) /\ at \in Places /\ at \in {"reset", "ensure"}
      /\ c \in Tools => at = "ensure"
      /\ UNCHANGED <<slot, slotLock, wire, faults>>
  BY DEF Begin, ServerInv, Places, Tools
<1> HIDE DEF at
<1>2. call[c].client = None /\ call[c].try \in Tries
  BY <1>1, CallMoves DEF ServerInv, CallShape, Client, Using, Reading
<1>3. Becomes(c, at, None, call[c].try)
  BY <1>1, <1>2, CallMoves
<1>4. \A k \in Clients : Held(k)' <=> Held(k)
  BY <1>1, <1>2, <1>3 DEF Held, Client, Becomes
<1>5. Harmless(c, at, None, call[c].try)
  BY <1>1, <1>2, <1>3, <1>4 DEF Harmless, Healthy, TypeOK, Tries, Using, Reading
<1>6. ConnectsAlone'
  BY <1>1, <1>3 DEF ServerInv, ConnectsAlone, Becomes
<1> QED  BY <1>1, <1>2, <1>5, <1>6, HarmlessStep

LEMMA EnsureStep ==
  ASSUME ServerInv, NEW c \in Calls, Ensure(c)
  PROVE  ServerInv'
<1>1. /\ TypeOK /\ call[c].at = "ensure" /\ slotLock = Nobody
      /\ UNCHANGED <<slot, wire, faults>>
  BY DEF Ensure, ServerInv
<1>2. call[c].client = None /\ call[c].try \in Tries
  BY <1>1, CallMoves DEF ServerInv, CallShape, Client, Using, Reading
<1>3. \A d \in Calls : call[d].at # "connecting"
  BY <1>1, CallsAssumption DEF ServerInv, ConnectsAlone
<1>4. CASE slot # None
  <2>1. slot \in Clients /\ Takes(c, slot) /\ slotLock' = slotLock
    BY <1>1, <1>4 DEF Ensure, TypeOK
  <2>2. Becomes(c, "waiting", slot, call[c].try)
    BY <1>1, <2>1, CallMoves
  <2>3. \A k \in Clients : Held(k)' <=> Held(k)
    BY <1>1, <1>2, <2>1, <2>2 DEF Held, Client, Becomes, Clients, None
  <2>4. Harmless(c, "waiting", slot, call[c].try) /\ "waiting" \in Places
    BY <1>1, <1>2, <1>4, <2>1, <2>2, <2>3 DEF Harmless, Healthy, TypeOK, Tries, Places, Using, Reading
  <2>5. ConnectsAlone'
    BY <1>1, <1>3, <2>2 DEF ConnectsAlone, Becomes
  <2> QED  BY <1>1, <1>2, <2>1, <2>4, <2>5, HarmlessStep
<1>5. CASE slot = None
  <2>1. Goes(c, "connecting") /\ slotLock' = c /\ "connecting" \in Places
    BY <1>1, <1>5 DEF Ensure, Places
  <2>2. Becomes(c, "connecting", None, call[c].try)
    BY <1>1, <1>2, <2>1, CallMoves
  <2>3. \A k \in Clients : Held(k)' <=> Held(k)
    BY <1>1, <1>2, <2>1, <2>2 DEF Held, Client, Becomes
  <2>4. Harmless(c, "connecting", None, call[c].try)
    BY <1>1, <1>2, <2>1, <2>2, <2>3 DEF Harmless, Healthy, TypeOK, Tries, Using, Reading
  <2>5. ConnectsAlone'
    BY <1>1, <1>3, <1>5, <2>1, <2>2 DEF ConnectsAlone, Becomes
  <2> QED  BY <1>1, <1>2, <2>1, <2>4, <2>5, HarmlessStep
<1> QED  BY <1>4, <1>5

LEMMA ConnectsStep ==
  ASSUME ServerInv, NEW c \in Calls, Connects(c) \/ ConnectFails(c)
  PROVE  ServerInv'
<1>1. /\ TypeOK /\ call[c].at = "connecting" /\ slot = None /\ slotLock = c
      /\ slotLock' = Nobody /\ faults' = faults
  BY DEF Connects, ConnectFails, ServerInv, ConnectsAlone
<1>2. call[c].client = None /\ Client(c) = None /\ call[c].try \in Tries
  BY <1>1, CallMoves DEF ServerInv, CallShape, Client, Using, Reading
<1>3. \A d \in Calls : call[d].at = "connecting" => d = c
  BY <1>1 DEF ServerInv, ConnectsAlone
<1>4. CASE ConnectFails(c)
  <2>1. Leaves(c, "over") /\ UNCHANGED <<slot, wire>> /\ "over" \in Places /\ 1 \in Tries
    BY <1>4 DEF ConnectFails, Places, Tries
  <2>2. Becomes(c, "over", None, 1)
    BY <1>1, <2>1, CallMoves
  <2>3. \A k \in Clients : Held(k)' <=> Held(k)
    BY <1>1, <1>2, <2>1, <2>2 DEF Held, Client, Becomes
  <2>4. Harmless(c, "over", None, 1)
    BY <1>1, <1>2, <2>1, <2>2, <2>3 DEF Harmless, Healthy, TypeOK, Using, Reading
  <2>5. ConnectsAlone'
    BY <1>3, <2>2 DEF ConnectsAlone, Becomes
  <2> QED  BY <1>1, <2>1, <2>4, <2>5, HarmlessStep
<1>5. CASE Connects(c)
  <2>1. Free \in Clients /\ ~Held(Free)
    BY <1>1, <1>2, FreeIsFree
  <2>2. PICK k \in Clients : k = Free
    BY <2>1
  <2>3. /\ Takes(c, k) /\ slot' = k /\ wire' = [wire EXCEPT ![k] = NewWire] /\ ~Held(k)
        /\ "waiting" \in Places
    BY <1>5, <2>1, <2>2 DEF Connects, Places
  <2>4. Becomes(c, "waiting", k, call[c].try)
    BY <1>1, <2>3, CallMoves
  <2>5. NewWire \in Wire /\ NewWire.alive /\ ~NewWire.deaf /\ ~NewWire.cut /\ ~NewWire.torn
    <3>1. NoWire \in Wire /\ ~NoWire.deaf /\ ~NoWire.cut /\ ~NoWire.torn
      BY DEF NoWire, Wire
    <3> QED  BY <3>1 DEF NewWire, Wire
  <2>6. wire' \in [Clients -> Wire] /\ \A j \in Clients : wire'[j] = IF j = k THEN NewWire ELSE wire[j]
    BY <1>1, <2>3, <2>5 DEF TypeOK
  <2>7. \A j \in Clients : Held(j)' => j = k \/ Held(j)
    BY <1>1, <1>2, <2>3, <2>4 DEF Held, Client, Becomes
  <2>8. \A j \in Clients : (Healthy(j) \/ j = k) => Sound(wire', j)
    BY <2>5, <2>6 DEF Healthy, Sound
  <2>9. Harmless(c, "waiting", k, call[c].try)
    <3>1. \A j \in Clients : Held(j)' /\ (~Held(j) \/ Healthy(j)) => Sound(wire', j)
      BY <2>7, <2>8
    <3>2. k # None /\ slot' \in Clients \cup {None} /\ slotLock' \in Calls \cup {Nobody}
      BY <1>1, <2>3 DEF Clients, None
    <3> QED  BY <1>1, <2>3, <2>4, <2>6, <3>1, <3>2 DEF Harmless, Using, Reading
  <2>10. ConnectsAlone'
    BY <1>3, <2>4 DEF ConnectsAlone, Becomes
  <2> QED  BY <1>1, <1>2, <2>3, <2>9, <2>10, HarmlessStep
<1> QED  BY <1>4, <1>5

(* What is in the slot is thrown away, and the call's next try finds it empty. *)
LEMMA ResetStep ==
  ASSUME ServerInv, NEW c \in Calls, Reset(c)
  PROVE  ServerInv'
<1>1. /\ TypeOK /\ call[c].at = "reset" /\ slotLock = Nobody /\ Retries(c)
      /\ slot' = None /\ Sweep(wire) /\ UNCHANGED <<slotLock, faults>>
      /\ "ensure" \in Places /\ 2 \in Tries /\ wire \in [Clients -> Wire]
  BY DEF Reset, ServerInv, Places, Tries, TypeOK
<1>2. Becomes(c, "ensure", None, 2)
  BY <1>1, CallMoves
<1>3. wire' \in [Clients -> Wire] /\ \A k \in Clients : Held(k)' => wire'[k] = wire[k]
  BY <1>1, SweepKeeps
<1>4. \A k \in Clients : Held(k)' => Held(k)
  BY <1>1, <1>2 DEF Held, Client, Becomes, Clients, None
<1>5. c \in Tools => faults # 0
  BY <1>1 DEF ServerInv, Undisturbed, Tools
<1>6. Harmless(c, "ensure", None, 2)
  <2>1. \A k \in Clients : Held(k)' /\ (~Held(k) \/ Healthy(k)) => Sound(wire', k)
    BY <1>3, <1>4 DEF Healthy, Sound
  <2> QED  BY <1>1, <1>2, <1>3, <1>5, <2>1 DEF Harmless, TypeOK, Using, Reading
<1>7. ConnectsAlone'
  BY <1>1, <1>2, CallsAssumption DEF ServerInv, ConnectsAlone, Becomes
<1> QED  BY <1>1, <1>6, <1>7, HarmlessStep

(* A call that gives up a client that was broken before, with no new fault.   *)
LEMMA GivesUpBroken ==
  ASSUME ServerInv, NEW c \in Calls, call[c].at \in {"waiting"} \cup Using, ~Healthy(Client(c)),
         NEW at \in {"reset", "failed", "over"}, Leaves(c, at), at = "failed" => call[c].try = 2,
         NEW w, Keeps(w), Sweep(w), slot' = slot, faults' = faults,
         slotLock' \in {slotLock, IF slotLock = c THEN Nobody ELSE slotLock}
  PROVE  ServerInv'
<1> DEFINE try == IF at = "reset" THEN call[c].try ELSE 1
<1>1. /\ TypeOK /\ at \in Places /\ w \in [Clients -> Wire] /\ call[c].try \in Tries /\ try \in Tries
      /\ call[c].client \in Clients /\ call[c].at # "connecting"
  BY CallMoves DEF ServerInv, CallShape, Client, Keeps, Places, Tries, Using, Reading
<1>2. Becomes(c, at, None, try)
  BY <1>1, CallMoves
<1>3. c \in Tools => faults # 0 /\ (at = "failed" => faults > 1)
  <2>1. Held(Client(c)) /\ Client(c) \in Clients /\ faults \in 0..MaxFaults /\ MaxFaults \in Nat
    BY <1>1, CallsAssumption DEF Held, Client, TypeOK
  <2>2. c \in Tools => faults # 0
    BY <2>1 DEF ServerInv, Undisturbed, Tools
  <2>3. c \in Tools /\ call[c].try = 2 => ~(faults <= 1)
    BY <2>1 DEF ServerInv, Recovering, Tools, Clients, None
  <2> QED  BY <2>1, <2>2, <2>3
<1>4. try = 2 => call[c].try = 2
  BY <1>1
<1> HIDE DEF try
<1>5. wire' \in [Clients -> Wire] /\ \A k \in Clients : Held(k)' => wire'[k] = w[k]
  BY <1>1, SweepKeeps
<1>6. \A k \in Clients : Held(k)' => Held(k)
  BY <1>1, <1>2 DEF Held, Client, Becomes, Clients, None
<1>7. \A k \in Clients : Held(k)' /\ Healthy(k) => Sound(wire', k)
  BY <1>5 DEF Keeps, Sound
<1>8. slotLock' \in Calls \cup {Nobody}
  BY <1>1 DEF TypeOK
<1>9. Harmless(c, at, None, try)
  BY <1>1, <1>2, <1>3, <1>4, <1>5, <1>6, <1>7, <1>8 DEF Harmless, TypeOK, Using, Reading
<1>10. ConnectsAlone'
  BY <1>1, <1>2 DEF ServerInv, ConnectsAlone, Becomes
<1> QED  BY <1>1, <1>9, <1>10, HarmlessStep

LEMMA BrokenStep ==
  ASSUME ServerInv, NEW c \in Calls, call[c].at \in {"waiting"} \cup Using, ~Healthy(Client(c)),
         NEW w, Keeps(w), Broken(c, w), faults' = faults
  PROVE  ServerInv'
<1> DEFINE at == IF call[c].try = 1 THEN "reset" ELSE "failed"
           u  == [w EXCEPT ![Client(c)].lock = Nobody]
<1>1. TypeOK /\ Client(c) \in Clients /\ call[c].try \in Tries /\ w \in [Clients -> Wire]
  BY CallMoves DEF ServerInv, CallShape, Client, Keeps
<1>2. Leaves(c, at) /\ Sweep(u) /\ UNCHANGED <<slot, slotLock>>
  BY DEF Broken
<1>3. at \in {"reset", "failed", "over"} /\ (at = "failed" => call[c].try = 2)
  BY <1>1 DEF Tries
<1>4. Keeps(u)
  <2>1. u \in [Clients -> Wire] /\ \A j \in Clients : Sound(u, j) <=> Sound(w, j)
    BY <1>1, Unlocked
  <2> HIDE DEF u
  <2> QED  BY <2>1 DEF Keeps
<1> HIDE DEF at, u
<1> QED  BY <1>2, <1>3, <1>4, GivesUpBroken

(* A step that is a fault: until the second one a tool call that had no       *)
(* reason to retry still has a try left.                                      *)
LEMMA FaultStep ==
  ASSUME ServerInv, Fault, TypeOK', CallShape', ConnectsAlone',
         \A d \in Calls : /\ call'[d].try = 2 => call[d].try = 2
                          /\ call'[d].at = "failed" => call[d].at = "failed" \/ call[d].try = 2
  PROVE  ServerInv'
<1>1. /\ faults \in 0..MaxFaults /\ MaxFaults \in Nat /\ MaxFaults > 1
      /\ faults' = IF faults < MaxFaults THEN faults + 1 ELSE faults
  BY CallsAssumption DEF ServerInv, TypeOK, Fault
<1>2. faults' # 0 /\ (faults' <= 1 => faults = 0)
  BY <1>1
<1>3. Undisturbed'
  BY <1>2 DEF Undisturbed
<1>4. faults = 0 => \A d \in Tools : call[d].try = 1
  BY DEF ServerInv, Undisturbed, Tools
<1>5. Recovering'
  BY <1>2, <1>4 DEF Recovering, Tools
<1>6. OneFaultIsRecovered'
  BY <1>1, <1>2, <1>4 DEF ServerInv, OneFaultIsRecovered, Tools
<1> QED  BY <1>3, <1>5, <1>6 DEF ServerInv

LEMMA FaultTyped == TypeOK /\ Fault => faults' \in 0..MaxFaults
BY CallsAssumption DEF TypeOK, Fault

(* What is given up half-way touches nobody else's client. *)
LEMMA GivenUpTyped ==
  ASSUME TypeOK, NEW c \in Calls, Client(c) \in Clients, NEW part \in BOOLEAN
  PROVE  /\ GivenUp(c, part) \in [Clients -> Wire]
         /\ \A j \in Clients \ {Client(c)} : GivenUp(c, part)[j] = wire[j]
<1> DEFINE k == Client(c)
           r == IF call[c].at = "writing" THEN [wire[k] EXCEPT !.cut = @ \/ part, !.lock = Nobody]
                                          ELSE [wire[k] EXCEPT !.torn = @ \/ part, !.lock = Nobody]
<1>1. wire[k] \in Wire /\ (wire[k].cut \/ part) \in BOOLEAN /\ (wire[k].torn \/ part) \in BOOLEAN
  BY DEF TypeOK, Wire
<1>2. r \in Wire
  BY <1>1 DEF Wire
<1>3. GivenUp(c, part) = [wire EXCEPT ![k] = r]
  BY DEF GivenUp, TypeOK
<1> HIDE DEF r
<1> QED  BY <1>2, <1>3 DEF TypeOK

(* A call that breaks off, for a fault of its own. *)
LEMMA BreaksOff ==
  ASSUME ServerInv, NEW c \in Calls, NEW at \in {"reset", "failed", "over"}, Fault, Leaves(c, at),
         at = "failed" => call[c].try = 2,
         slot' = slot, NEW w \in [Clients -> Wire], Sweep(w),
         \/ slotLock' = slotLock /\ call[c].at # "connecting"
         \/ slotLock' = IF slotLock = c THEN Nobody ELSE slotLock
  PROVE  ServerInv'
<1> DEFINE try == IF at = "reset" THEN call[c].try ELSE 1
<1>1. TypeOK /\ at \in Places /\ call[c].try \in Tries
  BY CallMoves DEF ServerInv, Places
<1>2. Becomes(c, at, None, try)
  BY <1>1, CallMoves
<1>3. wire' \in [Clients -> Wire]
  BY <1>1, SweepKeeps
<1>4. try = 2 => call[c].try = 2
  BY <1>1
<1> HIDE DEF try
<1>5. TypeOK'
  <2>1. slotLock' \in Calls \cup {Nobody} /\ faults' \in 0..MaxFaults
    BY <1>1, FaultTyped DEF TypeOK
  <2> QED  BY <1>1, <1>2, <1>3, <2>1 DEF TypeOK, Becomes, CallRecord
<1>6. CallShape'
  BY <1>2 DEF ServerInv, CallShape, Client, Becomes, Using, Reading
<1>7. ConnectsAlone'
  BY <1>2 DEF ServerInv, ConnectsAlone, Becomes
<1> QED  BY <1>2, <1>4, <1>5, <1>6, <1>7, FaultStep DEF Becomes

(* A call that gives up its request: a fault, or it was broken before.        *)
LEMMA GivesUp ==
  ASSUME ServerInv, NEW c \in Calls, call[c].at \in Using, Blames(c), NEW part \in BOOLEAN,
         NEW at \in {"reset", "failed", "over"}, Leaves(c, at), at = "failed" => call[c].try = 2,
         NEW w \in [Clients -> Wire], \A j \in Clients \ {Client(c)} : w[j] = wire[j],
         Sweep(w), slot' = slot,
         slotLock' \in {slotLock, IF slotLock = c THEN Nobody ELSE slotLock}
  PROVE  ServerInv'
<1>1. call[c].at # "connecting"
  BY DEF Using, Reading
<1>2. CASE Fault
  BY <1>1, <1>2, BreaksOff
<1>3. CASE ~Fault
  <2>1. /\ call[c].at = "unheard" \/ (call[c].at \in {"writing", "sent"} /\ wire[Client(c)].deaf)
        /\ faults' = faults
    BY <1>3 DEF Blames
  <2>2. ~Healthy(Client(c))
    BY <2>1 DEF Healthy, Sound
  <2>3. Keeps(w)
    BY <2>2 DEF Keeps, Healthy, Sound
  <2> QED  BY <2>1, <2>2, <2>3, GivesUpBroken
<1> QED  BY <1>2, <1>3

LEMMA TimesOutStep ==
  ASSUME ServerInv, NEW c \in Calls, TimesOut(c)
  PROVE  ServerInv'
<1>1. /\ TypeOK /\ call[c].at \in Using /\ Blames(c) /\ Client(c) \in Clients
      /\ call[c].try \in Tries
  BY CallMoves DEF TimesOut, ServerInv, CallShape, Client, Using
<1>2. PICK part \in BOOLEAN : Broken(c, GivenUp(c, part))
  BY DEF TimesOut
<1> DEFINE at == IF call[c].try = 1 THEN "reset" ELSE "failed"
           g  == GivenUp(c, part)
           w  == [g EXCEPT ![Client(c)].lock = Nobody]
<1>3. g \in [Clients -> Wire] /\ \A j \in Clients \ {Client(c)} : g[j] = wire[j]
  BY <1>1, GivenUpTyped
<1>4. Leaves(c, at) /\ UNCHANGED <<slot, slotLock>> /\ Sweep(w)
  BY <1>2 DEF Broken
<1> HIDE DEF g
<1>5. w \in [Clients -> Wire] /\ \A j \in Clients \ {Client(c)} : w[j] = wire[j]
  BY <1>1, <1>3, Unlocked
<1>6. at \in {"reset", "failed", "over"} /\ (at = "failed" => call[c].try = 2)
  BY <1>1 DEF Tries
<1> HIDE DEF at, w
<1> QED  BY <1>1, <1>4, <1>5, <1>6, GivesUp

LEMMA DroppedStep ==
  ASSUME ServerInv, NEW c \in Calls, Dropped(c)
  PROVE  ServerInv'
<1>1. /\ TypeOK /\ Blames(c) /\ Leaves(c, "over") /\ slot' = slot
      /\ slotLock' = IF slotLock = c THEN Nobody ELSE slotLock
      /\ call[c].at \in Using => Client(c) \in Clients
      /\ wire \in [Clients -> Wire]
  BY CallMoves DEF Dropped, ServerInv, CallShape, Client, TypeOK
<1>2. CASE call[c].at \in Using
  <2>1. PICK part \in BOOLEAN : Sweep(GivenUp(c, part))
    BY <1>2 DEF Dropped
  <2> DEFINE g == GivenUp(c, part)
  <2>2. g \in [Clients -> Wire] /\ (\A j \in Clients \ {Client(c)} : g[j] = wire[j]) /\ Sweep(g)
    BY <1>1, <1>2, <2>1, GivenUpTyped
  <2> HIDE DEF g
  <2> QED  BY <1>1, <1>2, <2>2, GivesUp
<1>3. CASE call[c].at \notin Using
  <2>1. Sweep(wire)
    BY <1>3 DEF Dropped
  <2>2. Fault
    BY <1>1, <1>3 DEF Blames, Using, Reading
  <2> QED  BY <1>1, <2>1, <2>2, BreaksOff
<1> QED  BY <1>2, <1>3

(* What a request does to the wire it is written to. *)
LEMMA DeliversTyped ==
  ASSUME TypeOK, NEW c \in Calls, Client(c) \in Clients, NEW w \in [Clients -> Wire], Delivers(c, w),
         w[Client(c)].alive, Sound(wire, Client(c)) <=> Sound(w, Client(c))
  PROVE  /\ wire' \in [Clients -> Wire] /\ \A j \in Clients \ {Client(c)} : wire'[j] = w[j]
         /\ wire'[Client(c)].lock = w[Client(c)].lock
         /\ Sound(w, Client(c)) => Sound(wire', Client(c))
         /\ \/ Goes(c, "unheard") /\ ~Sound(wire, Client(c))
            \/ Goes(c, "sent") /\ Id(c) \in Range(wire'[Client(c)].inbox)
<1> DEFINE k == Client(c)
<1>1. /\ w[k] \in Wire /\ Id(c) \in Request /\ w[k].inbox \in Seq(Request)
      /\ w[k].lock \in Calls \cup {Nobody}
  BY CallMoves DEF TypeOK, Wire, Id, Request
<1>2. CASE w[k].deaf \/ w[k].cut
  <2>1. wire' = [w EXCEPT ![k].cut = FALSE] /\ Goes(c, "unheard")
    BY <1>2 DEF Delivers
  <2>2. ~Sound(w, k)
    BY <1>2 DEF Sound
  <2>3. wire' = [w EXCEPT ![k] = [w[k] EXCEPT !.cut = FALSE]] /\ [w[k] EXCEPT !.cut = FALSE] \in Wire
    BY <1>1, <2>1 DEF Wire
  <2>4. [w[k] EXCEPT !.cut = FALSE].lock = w[k].lock
    BY <1>1 DEF Wire
  <2> QED  BY <2>1, <2>2, <2>3, <2>4
<1>3. CASE ~(w[k].deaf \/ w[k].cut)
  <2> DEFINE i == Append(w[k].inbox, Id(c))
             r == [w[k] EXCEPT !.inbox = i]
  <2>1. wire' = [w EXCEPT ![k] = r] /\ Goes(c, "sent")
    BY <1>3 DEF Delivers
  <2>2. i \in Seq(Request) /\ Id(c) \in Range(i)
    <3>1. i \in Seq(Request) /\ Len(i) = Len(w[k].inbox) + 1 /\ i[Len(i)] = Id(c)
      BY <1>1, AppendProperties
    <3>2. Len(i) \in DOMAIN i
      BY <1>1, <3>1, LenProperties
    <3> QED  BY <3>1, <3>2 DEF Range
  <2> HIDE DEF i
  <2>3. /\ r \in Wire /\ r.lock = w[k].lock /\ r.inbox = i
        /\ r.alive = w[k].alive /\ r.deaf = w[k].deaf /\ r.cut = w[k].cut /\ r.torn = w[k].torn
    BY <1>1, <2>2 DEF Wire
  <2> HIDE DEF r
  <2>4. wire' \in [Clients -> Wire] /\ wire'[k] = r /\ \A j \in Clients \ {k} : wire'[j] = w[j]
    BY <2>1, <2>3
  <2>5. Sound(w, k) => Sound(wire', k)
    BY <2>3, <2>4 DEF Sound
  <2> QED  BY <2>1, <2>2, <2>3, <2>4, <2>5
<1> QED  BY <1>2, <1>3

LEMMA LockedTyped ==
  ASSUME TypeOK, NEW c \in Calls, Client(c) \in Clients
  PROVE  /\ Locked(c) \in [Clients -> Wire] /\ \A j \in Clients \ {Client(c)} : Locked(c)[j] = wire[j]
         /\ Locked(c)[Client(c)].lock = c /\ Locked(c)[Client(c)].alive = wire[Client(c)].alive
         /\ \A j \in Clients : Sound(Locked(c), j) <=> Sound(wire, j)
BY DEF TypeOK, Locked, Wire, Sound

(* A call that moves on with its client. *)
LEMMA KeepsItsClient ==
  ASSUME ServerInv, NEW c \in Calls, NEW at \in Using, Goes(c, at), Client(c) \in Clients,
         UNCHANGED <<slot, slotLock, faults>>, wire' \in [Clients -> Wire],
         \A j \in Clients : Healthy(j) => Sound(wire', j),
         at = "unheard" => ~Healthy(Client(c))
  PROVE  ServerInv'
<1>1. TypeOK /\ at \in Places /\ call[c].try \in Tries /\ Client(c) = call[c].client
  BY CallMoves DEF ServerInv, Places, Client
<1>2. Becomes(c, at, Client(c), call[c].try)
  BY <1>1, CallMoves
<1>3. \A j \in Clients : Held(j)' <=> Held(j)
  BY <1>1, <1>2 DEF Held, Client, Becomes
<1>4. Held(Client(c)) /\ at # "connecting" /\ at # "reset" /\ at # "failed"
  BY DEF Held, Using, Reading
<1>5. Harmless(c, at, Client(c), call[c].try)
  BY <1>1, <1>2, <1>3, <1>4 DEF Harmless, TypeOK, Clients, None
<1>6. ConnectsAlone'
  BY <1>2, <1>4 DEF ServerInv, ConnectsAlone, Becomes
<1> QED  BY <1>1, <1>5, <1>6, HarmlessStep

(* A request is written, or has to wait for room. *)
LEMMA SendStep ==
  ASSUME ServerInv, NEW c \in Calls, Send(c) \/ Write(c)
  PROVE  ServerInv'
<1>1. /\ TypeOK /\ faults' = faults /\ Client(c) \in Clients /\ wire[Client(c)].alive
      /\ "sent" \in Using /\ "unheard" \in Using /\ "writing" \in Using /\ wire \in [Clients -> Wire]
  BY CallMoves DEF Send, Write, ServerInv, CallShape, Client, Using, Reading, TypeOK
<1>2. ASSUME NEW w \in [Clients -> Wire], Delivers(c, w), w[Client(c)].alive,
             \A j \in Clients : Sound(w, j) <=> Sound(wire, j)
      PROVE  ServerInv'
  <2>1. /\ wire' \in [Clients -> Wire] /\ \A j \in Clients \ {Client(c)} : wire'[j] = w[j]
        /\ Sound(w, Client(c)) => Sound(wire', Client(c))
        /\ (Goes(c, "unheard") /\ ~Sound(wire, Client(c))) \/ Goes(c, "sent")
    BY <1>1, <1>2, DeliversTyped
  <2>2. \A j \in Clients : Healthy(j) => Sound(wire', j)
    <3>1. \A j \in Clients \ {Client(c)} : Sound(w, j) => Sound(wire', j)
      BY <2>1 DEF Sound
    <3> QED  BY <1>2, <2>1, <3>1 DEF Healthy
  <2>3. ~Sound(wire, Client(c)) => ~Healthy(Client(c))
    BY DEF Healthy
  <2>4. UNCHANGED <<slot, slotLock, faults>>
    BY <1>1, <1>2 DEF Delivers
  <2> QED  BY <1>1, <2>1, <2>2, <2>3, <2>4, KeepsItsClient
<1>3. CASE Write(c)
  BY <1>1, <1>2, <1>3 DEF Write
<1>4. CASE Send(c)
  <2>1. /\ Locked(c) \in [Clients -> Wire] /\ Locked(c)[Client(c)].alive
        /\ \A j \in Clients : Sound(Locked(c), j) <=> Sound(wire, j)
    BY <1>1, LockedTyped
  <2>2. CASE Delivers(c, Locked(c))
    BY <1>2, <2>1, <2>2
  <2>3. CASE Goes(c, "writing") /\ wire' = Locked(c) /\ UNCHANGED <<slot, slotLock>>
    <3>1. \A j \in Clients : Healthy(j) => Sound(wire', j)
      BY <2>1, <2>3 DEF Healthy
    <3> QED  BY <1>1, <2>1, <2>3, <3>1, KeepsItsClient
  <2> QED  BY <1>4, <2>2, <2>3 DEF Send
<1> QED  BY <1>3, <1>4

(* A process that has died takes no request. *)
LEMMA WriteFailsStep ==
  ASSUME ServerInv, NEW c \in Calls, WriteFails(c)
  PROVE  ServerInv'
<1>1. /\ Broken(c, wire) /\ Keeps(wire) /\ ~Healthy(Client(c)) /\ faults' = faults
      /\ call[c].at \in {"waiting"} \cup Using
  BY DEF WriteFails, Keeps, Healthy, Sound, ServerInv, TypeOK, Using
<1> QED  BY <1>1, BrokenStep

(* A reply is the answer only under the call's own number. *)
LEMMA ReadStep ==
  ASSUME ServerInv, NEW c \in Calls, Read(c)
  PROVE  ServerInv'
<1>1. /\ TypeOK /\ call[c].at \in Reading /\ faults' = faults /\ wire[Client(c)].pipe # <<>>
      /\ UNCHANGED <<slot, slotLock>>
      /\ call[c].try \in Tries /\ Client(c) \in Clients /\ Client(c) = call[c].client
  BY CallMoves DEF Read, Arrives, ServerInv, CallShape, Client, Using
<1>2. Keeps(Consumed(c))
  BY <1>1, ConsumedKeeps
<1>3. CASE Reply(c) = Id(c)
  <2> DEFINE u == [Consumed(c) EXCEPT ![Client(c)].lock = Nobody]
  <2>1. Leaves(c, "over") /\ Sweep(u) /\ "over" \in Places /\ 1 \in Tries
    BY <1>3 DEF Read, Places, Tries
  <2>2. u \in [Clients -> Wire] /\ \A j \in Clients : Sound(u, j) <=> Sound(Consumed(c), j)
    BY <1>1, <1>2, Unlocked DEF Keeps
  <2> HIDE DEF u
  <2>3. wire' \in [Clients -> Wire] /\ \A k \in Clients : Held(k)' => wire'[k] = u[k]
    BY <1>1, <2>1, <2>2, SweepKeeps
  <2>4. \A k \in Clients : Held(k)' /\ Healthy(k) => Sound(wire', k)
    <3>1. \A k \in Clients : Held(k)' /\ Sound(u, k) => Sound(wire', k)
      BY <2>3 DEF Sound
    <3> QED  BY <1>2, <2>2, <3>1 DEF Keeps
  <2>5. Becomes(c, "over", None, 1)
    BY <1>1, <2>1, CallMoves
  <2>6. \A k \in Clients : Held(k)' => Held(k)
    BY <1>1, <2>1, <2>5 DEF Held, Client, Becomes, Clients, None
  <2>7. Harmless(c, "over", None, 1)
    BY <1>1, <2>3, <2>4, <2>5, <2>6 DEF Harmless, TypeOK, Using, Reading
  <2>8. ConnectsAlone'
    BY <1>1, <2>5 DEF ServerInv, ConnectsAlone, Becomes
  <2> QED  BY <1>1, <2>1, <2>7, <2>8, HarmlessStep
<1>4. CASE Reply(c) # Id(c)
  <2>1. wire' = Consumed(c) /\ call' = call
    BY <1>4 DEF Read
  <2>2. wire' \in [Clients -> Wire] /\ \A k \in Clients : Healthy(k) => Sound(wire', k)
    BY <1>2, <2>1 DEF Keeps
  <2>3. Goes(c, call[c].at) /\ call[c].at \in Using
    BY <1>1, <2>1 DEF Goes, TypeOK, Using
  <2>4. call[c].at = "unheard" => ~Healthy(Client(c))
    BY DEF Healthy
  <2> QED  BY <1>1, <2>2, <2>3, <2>4, KeepsItsClient
<1> QED  BY <1>3, <1>4

LEMMA ReadFailsStep ==
  ASSUME ServerInv, NEW c \in Calls, ReadFails(c)
  PROVE  ServerInv'
<1>1. /\ TypeOK /\ call[c].at \in Using /\ faults' = faults /\ Client(c) \in Clients
      /\ wire \in [Clients -> Wire]
  BY CallMoves DEF ReadFails, Arrives, ServerInv, CallShape, Client, TypeOK, Using
<1>2. CASE Arrives(c) /\ wire[Client(c)].torn /\ Broken(c, Consumed(c))
  <2>1. Keeps(Consumed(c)) /\ ~Healthy(Client(c))
    BY <1>1, <1>2, ConsumedKeeps DEF Arrives, Healthy, Sound
  <2> QED  BY <1>1, <1>2, <2>1, BrokenStep
<1>3. CASE ~wire[Client(c)].alive /\ Broken(c, wire)
  <2>1. Keeps(wire) /\ ~Healthy(Client(c))
    BY <1>1, <1>3 DEF Keeps, Healthy, Sound
  <2> QED  BY <1>1, <1>3, <2>1, BrokenStep
<1> QED  BY <1>2, <1>3 DEF ReadFails

-----------------------------------------------------------------------------
(* Steps of a process.                                                        *)

(* What has been received or answered stays owed when a reply is written.     *)
LEMMA RepliesTyped ==
  ASSUME TypeOK, NEW k \in Clients, Replies(k)
  PROVE  /\ wire' \in [Clients -> Wire]
         /\ \A j \in Clients : /\ Sound(wire', j) <=> Sound(wire, j)
                               /\ wire'[j].alive = wire[j].alive /\ wire'[j].lock = wire[j].lock
                               /\ Owes(wire[j]) \subseteq Owes(wire'[j])
<1>1. /\ wire[k] \in Wire /\ wire[k].inbox \in Seq(Request) /\ wire[k].pipe \in Seq(Request)
      /\ wire \in [Clients -> Wire] /\ wire[k].inbox # <<>>
  BY DEF TypeOK, Wire, Replies
<1> DEFINE i == Tail(wire[k].inbox)
           p == Append(wire[k].pipe, Head(wire[k].inbox))
           r == [wire[k] EXCEPT !.inbox = i, !.pipe = p]
<1>2. /\ i \in Seq(Request) /\ Range(wire[k].inbox) = {Head(wire[k].inbox)} \cup Range(i)
      /\ Head(wire[k].inbox) \in Request
  BY <1>1, HeadTailRange
<1>3. p \in Seq(Request) /\ Range(p) = Range(wire[k].pipe) \cup {Head(wire[k].inbox)}
  BY <1>1, <1>2, AppendRange
<1>4. wire' = [wire EXCEPT ![k] = r]
  BY <1>1 DEF Replies
<1> HIDE DEF i, p
<1>5. /\ r \in Wire /\ r.alive = wire[k].alive /\ r.deaf = wire[k].deaf /\ r.cut = wire[k].cut
      /\ r.torn = wire[k].torn /\ r.lock = wire[k].lock /\ r.inbox = i /\ r.pipe = p
  BY <1>1, <1>2, <1>3 DEF Wire
<1> HIDE DEF r
<1>6. wire' \in [Clients -> Wire] /\ wire'[k] = r /\ \A j \in Clients \ {k} : wire'[j] = wire[j]
  BY <1>1, <1>4, <1>5
<1>7. Owes(wire[k]) \subseteq Owes(wire'[k])
  BY <1>2, <1>3, <1>5, <1>6 DEF Owes
<1>8. \A j \in Clients : Sound(wire', j) <=> Sound(wire, j)
  BY <1>5, <1>6 DEF Sound
<1> QED  BY <1>5, <1>6, <1>7, <1>8

LEMMA RepliesStep ==
  ASSUME ServerInv, NEW k \in Clients, Replies(k)
  PROVE  ServerInv'
<1>1. TypeOK /\ UNCHANGED <<slot, slotLock, call, faults>>
  BY DEF ServerInv, Replies
<1>2. wire' \in [Clients -> Wire] /\ \A j \in Clients : Sound(wire', j) <=> Sound(wire, j)
  BY <1>1, RepliesTyped
<1>3. \A j \in Clients : Healthy(j)' <=> Healthy(j)
  BY <1>1, <1>2 DEF Healthy, Client
<1>4. TypeOK'
  BY <1>1, <1>2 DEF TypeOK
<1>5. CallShape' /\ ConnectsAlone' /\ OneFaultIsRecovered'
  BY <1>1 DEF ServerInv, CallShape, ConnectsAlone, OneFaultIsRecovered, Client
<1>6. Undisturbed'
  BY <1>1, <1>3 DEF ServerInv, Undisturbed, Held, Client
<1>7. Recovering'
  <2>1. slot \in Clients \cup {None} /\ \A c \in Calls : call[c].client \in Clients \cup {None}
    BY <1>1 DEF TypeOK
  <2>2. SUFFICES ASSUME faults <= 1, NEW c \in Tools, call[c].try = 2
                 PROVE  /\ call[c].client # None => Healthy(call[c].client)'
                        /\ slot # None => Healthy(slot)'
    BY <1>1 DEF Recovering, Tools, Client, Healthy
  <2>3. /\ call[c].client # None => Healthy(call[c].client)
        /\ slot # None => Healthy(slot)
    BY <2>2 DEF ServerInv, Recovering, Tools, Client
  <2>4. \A j \in Clients \cup {None} : j # None => j \in Clients
    OBVIOUS
  <2>5. call'[c].client = call[c].client /\ slot' = slot
    BY <1>1
  <2>6. \A j \in Clients : Healthy(j) => Sound(wire', j) /\ \A d \in Calls : call'[d].client = j => call'[d].at # "unheard"
    BY <1>3 DEF Healthy, Client
  <2> QED  BY <2>1, <2>3, <2>4, <2>5, <2>6 DEF Tools, Healthy, Client
<1> QED  BY <1>4, <1>5, <1>6, <1>7 DEF ServerInv

(* A process that stops reading, or dies, leaves who holds the transport.     *)
LEMMA FailsTyped ==
  ASSUME TypeOK, NEW k \in Clients, Deafens(k) \/ Dies(k)
  PROVE  /\ wire' \in [Clients -> Wire]
         /\ \A j \in Clients : /\ wire'[j].lock = wire[j].lock
                               /\ wire'[j].alive => Owes(wire[j]) = Owes(wire'[j]) /\ wire[j].alive
<1>1. wire[k] \in Wire /\ wire \in [Clients -> Wire] /\ wire[k].alive
  BY DEF TypeOK, Deafens, Dies
<1>2. CASE Deafens(k)
  <2> DEFINE r == [wire[k] EXCEPT !.deaf = TRUE]
  <2>1. wire' = [wire EXCEPT ![k] = r]
    BY <1>1, <1>2 DEF Deafens
  <2>2. r \in Wire /\ r.lock = wire[k].lock /\ r.inbox = wire[k].inbox /\ r.pipe = wire[k].pipe
    BY <1>1 DEF Wire
  <2> HIDE DEF r
  <2> QED  BY <1>1, <2>1, <2>2 DEF Owes
<1>3. CASE Dies(k)
  <2> DEFINE r == [NoWire EXCEPT !.pipe = wire[k].pipe, !.torn = wire[k].torn, !.lock = wire[k].lock]
  <2>1. wire' = [wire EXCEPT ![k] = r]
    BY <1>1, <1>3 DEF Dies
  <2>2. NoWire \in Wire
    BY DEF NoWire, Wire
  <2>3. r \in Wire /\ r.lock = wire[k].lock /\ ~r.alive
    <3>1. r \in Wire /\ r.lock = wire[k].lock
      BY <1>1, <2>2 DEF Wire
    <3>2. ~r.alive
      BY DEF NoWire
    <3> QED  BY <3>1, <3>2
  <2> HIDE DEF r
  <2> QED  BY <1>1, <2>1, <2>3
<1> QED  BY <1>2, <1>3

LEMMA FailsStep ==
  ASSUME ServerInv, NEW k \in Clients, Deafens(k) \/ Dies(k)
  PROVE  ServerInv'
<1>1. TypeOK /\ Fault /\ UNCHANGED <<slot, slotLock, call>>
  BY DEF ServerInv, Deafens, Dies
<1>2. wire' \in [Clients -> Wire] /\ faults' \in 0..MaxFaults
  BY <1>1, FailsTyped, FaultTyped
<1>3. TypeOK'
  BY <1>1, <1>2 DEF TypeOK
<1>4. CallShape' /\ ConnectsAlone'
  BY <1>1 DEF ServerInv, CallShape, ConnectsAlone, Client
<1> QED  BY <1>1, <1>3, <1>4, FaultStep

-----------------------------------------------------------------------------
LEMMA InitServerInv == Init => ServerInv
<1> SUFFICES ASSUME Init PROVE ServerInv
  OBVIOUS
<1>1. call = [c \in Calls |-> [at |-> "idle", client |-> None, try |-> 1]]
  BY DEF Init
<1>2. \A c \in Calls : call[c].at = "idle" /\ call[c].client = None /\ call[c].try = 1
  BY <1>1
<1>3. TypeOK
  <2>1. NoWire \in Wire
    BY DEF NoWire, Wire
  <2>2. wire \in [Clients -> Wire]
    BY <2>1 DEF Init
  <2>3. call \in [Calls -> [at : Places, client : Clients \cup {None}, try : Tries]]
    BY <1>1 DEF Places, Tries
  <2>4. faults \in 0..MaxFaults
    BY CallsAssumption DEF Init
  <2> QED  BY <2>2, <2>3, <2>4 DEF Init, TypeOK
<1>4. CallShape /\ ConnectsAlone /\ OneFaultIsRecovered
  BY <1>2 DEF CallShape, ConnectsAlone, OneFaultIsRecovered, Client, Using, Reading
<1>5. Undisturbed /\ Recovering
  <2>1. \A k \in Clients : ~Held(k)
    BY <1>2 DEF Init, Held, Client, Clients, None
  <2> QED  BY <1>2, <2>1 DEF Undisturbed, Recovering
<1> QED  BY <1>3, <1>4, <1>5 DEF ServerInv

LEMMA NextServerInv == ServerInv /\ [Next]_vars => ServerInv'
<1> SUFFICES ASSUME ServerInv, [Next]_vars PROVE ServerInv'
  OBVIOUS
<1>1. ASSUME NEW c \in Calls, Begin(c) \/ CallStep(c) \/ LimitReached(c) \/ Interrupted(c)
      PROVE  ServerInv'
  BY <1>1, BeginStep, EnsureStep, ConnectsStep, ResetStep, SendStep, WriteFailsStep, ReadStep,
     ReadFailsStep, TimesOutStep, DroppedStep DEF CallStep, LimitReached, Interrupted
<1>2. ASSUME NEW k \in Clients, Replies(k) \/ Deafens(k) \/ Dies(k) PROVE ServerInv'
  BY <1>2, RepliesStep, FailsStep
<1>3. ASSUME UNCHANGED vars PROVE ServerInv'
  BY <1>3 DEF vars, ServerInv, TypeOK, CallShape, ConnectsAlone, Undisturbed, Recovering,
              OneFaultIsRecovered, Client, Held, Healthy, Sound
<1> QED  BY <1>1, <1>2, <1>3 DEF Next

LEMMA ServerInvHolds == Spec => []ServerInv
BY InitServerInv, NextServerInv, PTL DEF Spec

(* The slot, the calls and the pipes keep their types. *)
THEOREM ServerTypeCorrect == Spec => []TypeOK
<1>1. ServerInv => TypeOK
  BY DEF ServerInv
<1> QED  BY <1>1, ServerInvHolds, PTL

(* One death, hang, time-out or dropped call fails no tool call (McpTool's    *)
(* call in client.rs: reset, then one more try).                              *)
THEOREM OneFaultRecovered == Spec => []OneFaultIsRecovered
<1>1. ServerInv => OneFaultIsRecovered
  BY DEF ServerInv
<1> QED  BY <1>1, ServerInvHolds, PTL

-----------------------------------------------------------------------------
(* The pipes.  Whoever uses a client's transport holds its lock, so that only *)
(* it reads; what a process owes is lost only with the process.               *)
UsesAlone == \A c \in Calls : call[c].at \in Using => wire[Client(c)].lock = c

PipeInv == UsesAlone /\ NoAnswerIsSkipped

(* A step of call c changes no transport that another call holds. *)
Spares(c) ==
    \A k \in Clients : Held(k) /\ Held(k)' /\ wire[k].lock \notin {c, Nobody} => wire'[k] = wire[k]

LEMMA SparingStep ==
  ASSUME ServerInv, CallShape', PipeInv, NEW c \in Calls, NEW at \in Places,
         NEW client \in Clients \cup {None}, NEW try \in Tries,
         Becomes(c, at, client, try), Spares(c),
         at \in Using => wire'[client].lock = c,
         at = "sent" /\ wire'[client].alive => <<c, try>> \in Owes(wire'[client])
  PROVE  PipeInv'
<1>1. /\ \A d \in Calls \ {c} : call'[d] = call[d]
      /\ call'[c].at = at /\ call'[c].client = client /\ call'[c].try = try
  BY DEF Becomes
<1>2. ASSUME NEW d \in Calls \ {c}, call'[d].at \in Using
      PROVE  /\ call[d].at \in Using /\ call[d].client = call'[d].client /\ call[d].try = call'[d].try
             /\ wire'[call[d].client] = wire[call[d].client] /\ wire[call[d].client].lock = d
  <2>1. call[d] = call'[d] /\ call[d].at \in Using
    BY <1>1, <1>2
  <2>2. wire[call[d].client].lock = d /\ d # c /\ d # Nobody
    BY <2>1, CallsAssumption DEF PipeInv, UsesAlone, Client
  <2>3. PICK k \in Clients : k = call[d].client
    BY <2>1, CallMoves DEF ServerInv, CallShape, Client
  <2>4. Held(k) /\ Held(k)'
    BY <2>1, <2>3 DEF Held, Client
  <2>5. wire'[k] = wire[k]
    BY <2>2, <2>3, <2>4 DEF Spares
  <2> QED  BY <2>1, <2>2, <2>3, <2>5
<1>3. UsesAlone'
  BY <1>1, <1>2 DEF UsesAlone, Client
<1>4. NoAnswerIsSkipped'
  <2> SUFFICES ASSUME NEW d \in Calls, call'[d].at = "sent", wire'[call'[d].client].alive
               PROVE  <<d, call'[d].try>> \in Owes(wire'[call'[d].client])
    BY DEF NoAnswerIsSkipped, Client, Id, Owes
  <2>1. CASE d = c
    BY <1>1, <2>1
  <2>2. CASE d # c
    <3>1. /\ call[d] = call'[d] /\ wire'[call[d].client] = wire[call[d].client]
      BY <1>1, <1>2, <2>2 DEF Using, Reading
    <3>2. <<d, call[d].try>> \in Owes(wire[call[d].client])
      BY <3>1 DEF PipeInv, NoAnswerIsSkipped, Client, Id
    <3> QED  BY <3>1, <3>2
  <2> QED  BY <2>1, <2>2
<1> QED  BY <1>3, <1>4 DEF PipeInv

(* A step that ends with the call outside the transport.                      *)
LEMMA LeavingStep ==
  ASSUME ServerInv, CallShape', PipeInv, NEW c \in Calls, NEW at \in Places \ Using,
         NEW client \in Clients \cup {None}, NEW try \in Tries,
         Becomes(c, at, client, try), Spares(c)
  PROVE  PipeInv'
BY SparingStep DEF Using, Reading

(* What is swept differs only in the transport that the call held, or none.   *)
LEMMA SweptSpares ==
  ASSUME ServerInv, NEW c \in Calls, NEW w \in [Clients -> Wire], Sweep(w),
         \A j \in Clients : w[j] = wire[j] \/ wire[j].lock \in {c, Nobody}
  PROVE  Spares(c)
<1>1. \A k \in Clients : Held(k)' => wire'[k] = w[k]
  BY SweepKeeps DEF ServerInv
<1> QED  BY <1>1 DEF Spares

LEMMA BrokenPipe ==
  ASSUME ServerInv, CallShape', PipeInv, NEW c \in Calls, Client(c) \in Clients,
         wire[Client(c)].lock \in {c, Nobody},
         NEW w \in [Clients -> Wire], \A j \in Clients \ {Client(c)} : w[j] = wire[j], Broken(c, w)
  PROVE  PipeInv'
<1> DEFINE at == IF call[c].try = 1 THEN "reset" ELSE "failed"
           u  == [w EXCEPT ![Client(c)].lock = Nobody]
<1>1. /\ TypeOK /\ call[c].try \in Tries /\ Leaves(c, at) /\ at \in Places \ Using
      /\ at \in {"reset", "failed"}
  BY CallMoves DEF Broken, ServerInv, Places, Using, Reading
<1>2. u \in [Clients -> Wire] /\ \A j \in Clients \ {Client(c)} : u[j] = wire[j]
  BY Unlocked
<1>3. Sweep(u)
  BY DEF Broken
<1> HIDE DEF u, at
<1>4. Spares(c)
  BY <1>2, <1>3, SweptSpares
<1> DEFINE try == IF at = "reset" THEN call[c].try ELSE 1
<1>5. Becomes(c, at, None, try) /\ try \in Tries
  BY <1>1, CallMoves DEF Tries
<1> HIDE DEF try
<1> QED  BY <1>1, <1>4, <1>5, LeavingStep

LEMMA SlotPipe ==
  ASSUME ServerInv, CallShape', PipeInv, NEW c \in Calls,
         Begin(c) \/ Ensure(c) \/ Connects(c) \/ ConnectFails(c) \/ Reset(c)
  PROVE  PipeInv'
<1>1. TypeOK /\ call[c].try \in Tries /\ call[c].client \in Clients \cup {None} /\ wire \in [Clients -> Wire]
  BY CallMoves DEF ServerInv, TypeOK
<1>2. wire' = wire => Spares(c)
  BY DEF Spares
<1>3. {"reset", "ensure", "connecting", "waiting", "over"} \subseteq Places \ Using
  BY DEF Places, Using, Reading
<1>4. CASE Begin(c)
  <2>1. wire' = wire /\ (Goes(c, "reset") \/ Goes(c, "ensure"))
    BY <1>4 DEF Begin
  <2>2. PICK at \in {"reset", "ensure"} : Becomes(c, at, call[c].client, call[c].try)
    BY <1>1, <1>3, <2>1, CallMoves
  <2> QED  BY <1>1, <1>2, <1>3, <2>1, <2>2, LeavingStep
<1>5. CASE Ensure(c)
  <2>1. wire' = wire /\ ((slot \in Clients /\ Takes(c, slot)) \/ Goes(c, "connecting"))
    BY <1>1, <1>5 DEF Ensure, TypeOK
  <2>2. CASE slot \in Clients /\ Takes(c, slot)
    <3>1. Becomes(c, "waiting", slot, call[c].try)
      BY <1>1, <2>2, CallMoves
    <3> QED  BY <1>1, <1>2, <1>3, <2>1, <2>2, <3>1, LeavingStep
  <2>3. CASE Goes(c, "connecting")
    <3>1. Becomes(c, "connecting", call[c].client, call[c].try)
      BY <1>1, <1>3, <2>3, CallMoves
    <3> QED  BY <1>1, <1>2, <1>3, <2>1, <3>1, LeavingStep
  <2> QED  BY <2>1, <2>2, <2>3
<1>6. CASE Connects(c)
  <2>1. slot = None /\ Client(c) = None
    BY <1>1, <1>6, CallMoves DEF Connects, ServerInv, ConnectsAlone, CallShape, Client, Using, Reading
  <2>2. PICK k \in Clients : k = Free /\ ~Held(k)
    BY <1>1, <2>1, FreeIsFree
  <2>3. Takes(c, k) /\ wire' = [wire EXCEPT ![k] = NewWire]
    BY <1>6, <2>2 DEF Connects
  <2>4. Spares(c)
    BY <1>1, <2>2, <2>3 DEF Spares
  <2>5. Becomes(c, "waiting", k, call[c].try)
    BY <1>1, <2>3, CallMoves
  <2> QED  BY <1>1, <1>3, <2>4, <2>5, LeavingStep
<1>7. CASE ConnectFails(c)
  <2>1. wire' = wire /\ Leaves(c, "over")
    BY <1>7 DEF ConnectFails
  <2>2. Becomes(c, "over", None, 1) /\ 1 \in Tries
    BY <1>1, <1>3, <2>1, CallMoves DEF Tries
  <2> QED  BY <1>2, <1>3, <2>1, <2>2, LeavingStep
<1>8. CASE Reset(c)
  <2>1. Sweep(wire) /\ Retries(c)
    BY <1>8 DEF Reset
  <2>2. Becomes(c, "ensure", None, 2) /\ 2 \in Tries
    BY <1>1, <2>1, CallMoves DEF Tries
  <2>3. Spares(c)
    BY <1>1, <2>1, SweptSpares
  <2> QED  BY <1>3, <2>2, <2>3, LeavingStep
<1> QED  BY <1>4, <1>5, <1>6, <1>7, <1>8

(* What is written is owed, and its writer alone will read. *)
LEMMA SendPipe ==
  ASSUME ServerInv, CallShape', PipeInv, NEW c \in Calls, Send(c) \/ Write(c)
  PROVE  PipeInv'
<1>1. /\ TypeOK /\ Client(c) \in Clients /\ wire[Client(c)].alive /\ Client(c) = call[c].client
      /\ {"sent", "unheard", "writing"} \subseteq Places /\ wire \in [Clients -> Wire]
      /\ call[c].try \in Tries /\ wire[Client(c)].lock \in {c, Nobody}
  BY CallMoves DEF Send, Write, ServerInv, CallShape, Client, Using, Reading, TypeOK, PipeInv,
                   UsesAlone, Places
<1>2. ASSUME NEW w \in [Clients -> Wire], Delivers(c, w), w[Client(c)].alive,
             w[Client(c)].lock = c, \A j \in Clients \ {Client(c)} : w[j] = wire[j],
             Sound(wire, Client(c)) <=> Sound(w, Client(c))
      PROVE  PipeInv'
  <2>1. /\ \A j \in Clients \ {Client(c)} : wire'[j] = wire[j]
        /\ wire'[Client(c)].lock = c
        /\ \/ Goes(c, "unheard")
           \/ Goes(c, "sent") /\ Id(c) \in Range(wire'[Client(c)].inbox)
    BY <1>1, <1>2, DeliversTyped
  <2>2. Spares(c)
    BY <1>1, <2>1 DEF Spares
  <2>3. CASE Goes(c, "unheard")
    <3>1. Becomes(c, "unheard", Client(c), call[c].try)
      BY <1>1, <2>3, CallMoves
    <3> QED  BY <1>1, <2>1, <2>2, <3>1, SparingStep
  <2>4. CASE Goes(c, "sent") /\ Id(c) \in Range(wire'[Client(c)].inbox)
    <3>1. Becomes(c, "sent", Client(c), call[c].try)
      BY <1>1, <2>4, CallMoves
    <3>2. <<c, call[c].try>> \in Owes(wire'[Client(c)])
      BY <2>4 DEF Owes, Id
    <3> QED  BY <1>1, <2>1, <2>2, <3>1, <3>2, SparingStep
  <2> QED  BY <2>1, <2>3, <2>4
<1>3. CASE Write(c)
  <2>1. wire[Client(c)].lock = c /\ Delivers(c, wire)
    BY <1>3 DEF Write, PipeInv, UsesAlone, Using
  <2> QED  BY <1>1, <1>2, <2>1
<1>4. CASE Send(c)
  <2>1. /\ Locked(c) \in [Clients -> Wire] /\ Locked(c)[Client(c)].alive
        /\ Locked(c)[Client(c)].lock = c /\ \A j \in Clients \ {Client(c)} : Locked(c)[j] = wire[j]
        /\ Sound(wire, Client(c)) <=> Sound(Locked(c), Client(c))
    BY <1>1, LockedTyped
  <2>2. CASE Delivers(c, Locked(c))
    BY <1>2, <2>1, <2>2
  <2>3. CASE Goes(c, "writing") /\ wire' = Locked(c)
    <3>1. Becomes(c, "writing", Client(c), call[c].try)
      BY <1>1, <2>3, CallMoves
    <3>2. Spares(c)
      BY <1>1, <2>1, <2>3 DEF Spares
    <3> QED  BY <1>1, <2>1, <2>3, <3>1, <3>2, SparingStep
  <2> QED  BY <1>4, <2>2, <2>3 DEF Send
<1> QED  BY <1>3, <1>4

(* The holder of the lock skips what is not its own. *)
LEMMA ReadPipe ==
  ASSUME ServerInv, CallShape', PipeInv, NEW c \in Calls, Read(c) \/ ReadFails(c)
  PROVE  PipeInv'
<1>1. /\ TypeOK /\ call[c].at \in Reading /\ Client(c) \in Clients /\ Client(c) = call[c].client
      /\ wire \in [Clients -> Wire] /\ call[c].try \in Tries /\ wire[Client(c)].lock = c
  BY CallMoves DEF Read, ReadFails, Arrives, ServerInv, CallShape, Client, Using, TypeOK, PipeInv,
                   UsesAlone
<1>2. wire[Client(c)].pipe # <<>> =>
        /\ Consumed(c) \in [Clients -> Wire] /\ \A j \in Clients \ {Client(c)} : Consumed(c)[j] = wire[j]
        /\ Consumed(c)[Client(c)].lock = c /\ Consumed(c)[Client(c)].alive = wire[Client(c)].alive
        /\ Owes(Consumed(c)[Client(c)]) \cup {Reply(c)} = Owes(wire[Client(c)])
  BY <1>1, ConsumedKeeps DEF Keeps
<1>3. CASE ReadFails(c)
  <2>1. \/ Broken(c, wire)
        \/ wire[Client(c)].pipe # <<>> /\ Broken(c, Consumed(c))
    BY <1>3 DEF ReadFails, Arrives
  <2> QED  BY <1>1, <1>2, <2>1, BrokenPipe
<1>4. CASE Read(c) /\ Reply(c) = Id(c)
  <2> DEFINE u == [Consumed(c) EXCEPT ![Client(c)].lock = Nobody]
  <2>1. wire[Client(c)].pipe # <<>> /\ Leaves(c, "over") /\ Sweep(u) /\ "over" \in Places \ Using
        /\ 1 \in Tries
    BY <1>4 DEF Read, Arrives, Places, Using, Reading, Tries
  <2>2. u \in [Clients -> Wire] /\ \A j \in Clients \ {Client(c)} : u[j] = wire[j]
    BY <1>1, <1>2, <2>1, Unlocked
  <2> HIDE DEF u
  <2>3. Spares(c)
    BY <1>1, <2>1, <2>2, SweptSpares
  <2>4. Becomes(c, "over", None, 1)
    BY <1>1, <2>1, CallMoves
  <2> QED  BY <2>1, <2>3, <2>4, LeavingStep
<1>5. CASE Read(c) /\ Reply(c) # Id(c)
  <2>1. wire[Client(c)].pipe # <<>> /\ wire' = Consumed(c) /\ call' = call
    BY <1>5 DEF Read, Arrives
  <2>2. Spares(c)
    BY <1>1, <1>2, <2>1 DEF Spares
  <2>3. Becomes(c, call[c].at, Client(c), call[c].try) /\ call[c].at \in Places
    BY <1>1, <2>1, CallMoves DEF Becomes, TypeOK, CallRecord
  <2>4. call[c].at = "sent" /\ wire'[Client(c)].alive => <<c, call[c].try>> \in Owes(wire'[Client(c)])
    <3>1. call[c].at = "sent" /\ wire[Client(c)].alive => Id(c) \in Owes(wire[Client(c)])
      BY DEF PipeInv, NoAnswerIsSkipped
    <3> QED  BY <1>2, <1>5, <2>1, <3>1 DEF Id
  <2>5. wire'[Client(c)].lock = c
    BY <1>2, <2>1
  <2> QED  BY <1>1, <2>2, <2>3, <2>4, <2>5, SparingStep
<1> QED  BY <1>3, <1>4, <1>5

LEMMA GiveUpPipe ==
  ASSUME ServerInv, CallShape', PipeInv, NEW c \in Calls, WriteFails(c) \/ TimesOut(c) \/ Dropped(c)
  PROVE  PipeInv'
<1>1. /\ TypeOK /\ wire \in [Clients -> Wire] /\ call[c].try \in Tries
      /\ call[c].at \in {"waiting"} \cup Using => Client(c) \in Clients
      /\ call[c].at \in Using => wire[Client(c)].lock = c
  BY CallMoves DEF ServerInv, CallShape, Client, TypeOK, PipeInv, UsesAlone
<1>2. CASE WriteFails(c)
  <2>1. Client(c) \in Clients /\ wire[Client(c)].lock \in {c, Nobody} /\ Broken(c, wire)
    BY <1>1, <1>2 DEF WriteFails, Using
  <2> QED  BY <1>1, <2>1, BrokenPipe
<1>3. CASE TimesOut(c)
  <2>1. Client(c) \in Clients /\ wire[Client(c)].lock = c
    BY <1>1, <1>3 DEF TimesOut, Using
  <2>2. PICK part \in BOOLEAN : Broken(c, GivenUp(c, part))
    BY <1>3 DEF TimesOut
  <2> QED  BY <1>1, <2>1, <2>2, GivenUpTyped, BrokenPipe
<1>4. CASE Dropped(c)
  <2>1. Becomes(c, "over", None, 1) /\ "over" \in Places \ Using /\ 1 \in Tries
    BY <1>1, <1>4, CallMoves DEF Dropped, Places, Using, Reading, Tries
  <2>2. CASE call[c].at \in Using
    <3>1. PICK part \in BOOLEAN : Sweep(GivenUp(c, part))
      BY <1>4, <2>2 DEF Dropped
    <3>2. /\ GivenUp(c, part) \in [Clients -> Wire]
          /\ \A j \in Clients \ {Client(c)} : GivenUp(c, part)[j] = wire[j]
      BY <1>1, <2>2, GivenUpTyped
    <3>3. Spares(c)
      BY <1>1, <2>2, <3>1, <3>2, SweptSpares
    <3> QED  BY <2>1, <3>3, LeavingStep
  <2>3. CASE call[c].at \notin Using
    <3>1. Sweep(wire)
      BY <1>4, <2>3 DEF Dropped
    <3>2. Spares(c)
      BY <1>1, <3>1, SweptSpares
    <3> QED  BY <2>1, <3>2, LeavingStep
  <2> QED  BY <2>2, <2>3
<1> QED  BY <1>2, <1>3, <1>4

LEMMA ProcessPipe ==
  ASSUME ServerInv, PipeInv, NEW k \in Clients, Replies(k) \/ Deafens(k) \/ Dies(k)
  PROVE  PipeInv'
<1>1. TypeOK /\ call' = call
  BY DEF ServerInv, Replies, Deafens, Dies
<1>2. \A j \in Clients : /\ wire'[j].lock = wire[j].lock
                         /\ wire'[j].alive => wire[j].alive /\ Owes(wire[j]) \subseteq Owes(wire'[j])
  BY <1>1, RepliesTyped, FailsTyped
<1>3. \A c \in Calls : call[c].at \in Using => call[c].client \in Clients
  BY <1>1, CallMoves DEF ServerInv, CallShape, Client
<1>4. UsesAlone'
  BY <1>1, <1>2, <1>3 DEF PipeInv, UsesAlone, Client
<1>5. NoAnswerIsSkipped'
  <2> SUFFICES ASSUME NEW c \in Calls, call[c].at = "sent", wire'[call[c].client].alive
               PROVE  <<c, call[c].try>> \in Owes(wire'[call[c].client])
    BY <1>1 DEF NoAnswerIsSkipped, Client, Id, Owes
  <2>1. PICK j \in Clients : j = call[c].client
    BY <1>3 DEF Using, Reading
  <2>2. wire[j].alive => <<c, call[c].try>> \in Owes(wire[j])
    BY <2>1 DEF PipeInv, NoAnswerIsSkipped, Client, Id
  <2> QED  BY <1>2, <2>1, <2>2
<1> QED  BY <1>4, <1>5 DEF PipeInv

LEMMA NextPipeInv == ServerInv /\ ServerInv' /\ PipeInv /\ [Next]_vars => PipeInv'
<1> SUFFICES ASSUME ServerInv, CallShape', PipeInv, [Next]_vars PROVE PipeInv'
  BY DEF ServerInv
<1>1. ASSUME NEW c \in Calls, Begin(c) \/ CallStep(c) \/ LimitReached(c) \/ Interrupted(c)
      PROVE  PipeInv'
  BY <1>1, SlotPipe, SendPipe, ReadPipe, GiveUpPipe DEF CallStep, LimitReached, Interrupted
<1>2. ASSUME NEW k \in Clients, Replies(k) \/ Deafens(k) \/ Dies(k) PROVE PipeInv'
  BY <1>2, ProcessPipe
<1>3. ASSUME UNCHANGED vars PROVE PipeInv'
  BY <1>3 DEF vars, PipeInv, UsesAlone, NoAnswerIsSkipped, Client, Id
<1> QED  BY <1>1, <1>2, <1>3 DEF Next

(* As long as a process lives, what it has received and not answered to the   *)
(* caller is still to come: no other call on its pipe has read it away, in    *)
(* whatever order calls were given up before (request in client.rs, which     *)
(* holds the transport from the write to the reply).                          *)
THEOREM AnswersAreNotSkipped == Spec => []NoAnswerIsSkipped
<1>1. Init => PipeInv
  <2>1. Init => \A c \in Calls : call[c].at \notin Using
    BY DEF Init, Using, Reading
  <2> QED  BY <2>1 DEF PipeInv, UsesAlone, NoAnswerIsSkipped, Using, Reading
<1>2. PipeInv => NoAnswerIsSkipped
  BY DEF PipeInv
<1> QED  BY <1>1, <1>2, ServerInvHolds, NextPipeInv, PTL DEF Spec

-----------------------------------------------------------------------------
(* The list of servers.                                                       *)

(* In a finite set that is ordered, B[x] being what comes before x, the number *)
(* of its predecessors places an element.                                     *)
LEMMA Rank ==
  ASSUME NEW S, IsFiniteSet(S), NEW B \in [S -> SUBSET S],
         \A x \in S : x \notin B[x],
         \A x, y \in S : x # y => x \in B[y] \/ y \in B[x],
         \A x, y \in S : x \in B[y] => B[x] \subseteq B[y]
  PROVE  /\ \A x \in S : Cardinality(B[x]) + 1 \in 1..Cardinality(S)
         /\ \A x, y \in S : (x \in B[y]) <=> Cardinality(B[x]) < Cardinality(B[y])
         /\ \A k \in 1..Cardinality(S) : \E x \in S : Cardinality(B[x]) = k - 1
<1>1. Cardinality(S) \in Nat /\ \A x \in S : IsFiniteSet(B[x]) /\ Cardinality(B[x]) \in Nat
  <2>1. Cardinality(S) \in Nat  BY FS_CardinalityType
  <2>2. ASSUME NEW x \in S  PROVE IsFiniteSet(B[x]) /\ Cardinality(B[x]) \in Nat
    <3>1. B[x] \in SUBSET S  OBVIOUS
    <3>2. IsFiniteSet(B[x])  BY <3>1, FS_Subset
    <3> QED  BY <3>2, FS_CardinalityType
  <2> QED  BY <2>1, <2>2
<1>2. ASSUME NEW T \in SUBSET S, NEW U \in SUBSET T, U # T
      PROVE  Cardinality(U) < Cardinality(T)
  <2>1. IsFiniteSet(T)  BY FS_Subset
  <2>2. IsFiniteSet(U) /\ Cardinality(U) <= Cardinality(T) /\ Cardinality(T) # Cardinality(U)
    BY <2>1, FS_Subset, <1>2
  <2> QED  BY <2>1, <2>2, FS_CardinalityType
<1>3. \A x, y \in S : x \in B[y] => Cardinality(B[x]) < Cardinality(B[y])
  BY <1>2
<1>4. \A x, y \in S : Cardinality(B[x]) < Cardinality(B[y]) => x \in B[y]
  <2> SUFFICES ASSUME NEW x \in S, NEW y \in S, Cardinality(B[x]) < Cardinality(B[y]), x \notin B[y]
               PROVE  FALSE
    OBVIOUS
  <2>1. x # y  BY <1>1
  <2>2. Cardinality(B[y]) < Cardinality(B[x])  BY <2>1, <1>3
  <2> QED  BY <2>2, <1>1
<1>5. \A x \in S : Cardinality(B[x]) + 1 \in 1..Cardinality(S)
  <2> SUFFICES ASSUME NEW x \in S  PROVE Cardinality(B[x]) + 1 \in 1..Cardinality(S)
    OBVIOUS
  <2>1. Cardinality(B[x]) < Cardinality(S)
    <3>1. B[x] \in SUBSET S /\ B[x] # S  OBVIOUS
    <3> QED  BY <3>1, <1>2
  <2> QED  BY <2>1, <1>1
<1>6. ASSUME NEW k \in 1..Cardinality(S)  PROVE \E x \in S : Cardinality(B[x]) = k - 1
  <2> DEFINE f == [x \in S |-> Cardinality(B[x]) + 1]
  <2>1. f \in [S -> 1..Cardinality(S)]  BY <1>5
  <2>2. \A x, y \in S : f[x] = f[y] => x = y
    <3> SUFFICES ASSUME NEW x \in S, NEW y \in S, f[x] = f[y], x # y  PROVE FALSE
      OBVIOUS
    <3>1. Cardinality(B[x]) = Cardinality(B[y])  BY <1>1
    <3>2. CASE x \in B[y]  BY <3>1, <3>2, <1>3, <1>1
    <3>3. CASE y \in B[x]  BY <3>1, <3>3, <1>3, <1>1
    <3> QED  BY <3>2, <3>3
  <2> HIDE DEF f
  <2>3. f \in Injection(S, 1..Cardinality(S))  BY <2>1, <2>2 DEF Injection, IsInjective
  <2>4. IsFiniteSet(1..Cardinality(S)) /\ Cardinality(1..Cardinality(S)) = Cardinality(S)
    BY <1>1, FS_Interval
  <2>5. f \in Surjection(S, 1..Cardinality(S))  BY <2>3, <2>4, FS_Injection
  <2>6. PICK x \in S : f[x] = k  BY <2>5 DEF Surjection
  <2> QED  BY <2>6, <1>1 DEF f
<1> QED  BY <1>3, <1>4, <1>5, <1>6

(* A set of numbers, sorted: each of them once, and ascending. *)
LEMMA InOrderIs ==
  ASSUME NEW names \in SUBSET Nat, IsFiniteSet(names)
  PROVE  /\ InOrder(names) \in [1..Cardinality(names) -> names]
         /\ InOrder(names) \in Seq(names)
         /\ \A k \in 1..Cardinality(names) :
               Cardinality({m \in names : m < InOrder(names)[k]}) = k - 1
         /\ \A n \in names : \E k \in 1..Cardinality(names) : InOrder(names)[k] = n
         /\ \A j, k \in 1..Cardinality(names) : j < k => InOrder(names)[j] < InOrder(names)[k]
         /\ \A m, n \in names :
               Cardinality({l \in names : l < m}) = Cardinality({l \in names : l < n}) => m = n
<1> DEFINE B == [n \in names |-> {m \in names : m < n}]
<1>1. \A n \in names : B[n] = {m \in names : m < n}  OBVIOUS
<1>2. \A x, y \in names : (x \in B[y]) <=> x < y  OBVIOUS
<1>3. B \in [names -> SUBSET names]  OBVIOUS
<1> HIDE DEF B
<1>4. /\ B \in [names -> SUBSET names]
      /\ \A x \in names : x \notin B[x]
      /\ \A x, y \in names : x # y => x \in B[y] \/ y \in B[x]
      /\ \A x, y \in names : x \in B[y] => B[x] \subseteq B[y]
  <2>1. \A x \in names : x \notin B[x]  BY <1>2
  <2>2. \A x, y \in names : x # y => x \in B[y] \/ y \in B[x]  BY <1>2
  <2>3. ASSUME NEW x \in names, NEW y \in names, x \in B[y], NEW z \in B[x]
        PROVE  z \in B[y]
    <3>1. z \in names /\ z < x /\ x < y  BY <1>3, <1>2, <2>3
    <3>2. x \in Nat /\ y \in Nat /\ z \in Nat  BY <3>1
    <3>3. z < y  BY <3>1, <3>2
    <3> QED  BY <3>1, <3>3, <1>2
  <2> QED  BY <1>3, <2>1, <2>2, <2>3
<1>5. /\ \A x \in names : Cardinality(B[x]) + 1 \in 1..Cardinality(names)
      /\ \A x, y \in names : (x \in B[y]) <=> Cardinality(B[x]) < Cardinality(B[y])
      /\ \A k \in 1..Cardinality(names) : \E x \in names : Cardinality(B[x]) = k - 1
  BY <1>4, Rank
<1>6. \A x \in names : Cardinality(B[x]) \in Nat
  BY <1>4, FS_Subset, FS_CardinalityType
<1>7. Cardinality(names) \in Nat  BY FS_CardinalityType
<1> DEFINE h(k) == CHOOSE n \in names : Cardinality({m \in names : m < n}) = k - 1
<1>8. InOrder(names) = [k \in 1..Cardinality(names) |-> h(k)]  BY DEF InOrder
<1>9. ASSUME NEW k \in 1..Cardinality(names)
       PROVE  h(k) \in names /\ Cardinality({m \in names : m < h(k)}) = k - 1
  <2>1. \E n \in names : Cardinality({m \in names : m < n}) = k - 1  BY <1>5, <1>1
  <2> QED  BY <2>1
<1> HIDE DEF h
<1> DEFINE f == InOrder(names)
<1>10. ASSUME NEW k \in 1..Cardinality(names)
      PROVE  f[k] \in names /\ Cardinality(B[f[k]]) = k - 1
  <2>1. f[k] = h(k)  BY <1>8
  <2> QED  BY <2>1, <1>9, <1>1
<1>11. f \in [1..Cardinality(names) -> names]  BY <1>8, <1>9
<1> HIDE DEF f
<1>12. \A m, n \in names : Cardinality(B[m]) = Cardinality(B[n]) => m = n
  BY <1>4, <1>5, <1>6
<1>13. \A n \in names : \E k \in 1..Cardinality(names) : f[k] = n
  <2> SUFFICES ASSUME NEW n \in names  PROVE \E k \in 1..Cardinality(names) : f[k] = n
    OBVIOUS
  <2>1. /\ Cardinality(B[n]) + 1 \in 1..Cardinality(names)
        /\ (Cardinality(B[n]) + 1) - 1 = Cardinality(B[n])
    BY <1>5, <1>6
  <2>2. f[Cardinality(B[n]) + 1] = n  BY <2>1, <1>10, <1>12
  <2> QED  BY <2>1, <2>2
<1>14. \A j, k \in 1..Cardinality(names) : j < k => f[j] < f[k]
  <2> SUFFICES ASSUME NEW j \in 1..Cardinality(names), NEW k \in 1..Cardinality(names), j < k
               PROVE  f[j] < f[k]
    OBVIOUS
  <2>1. f[j] \in names /\ f[k] \in names  BY <1>10
  <2>2. Cardinality(B[f[j]]) < Cardinality(B[f[k]])  BY <1>10, <1>7
  <2> QED  BY <2>1, <2>2, <1>2, <1>5
<1>15. f \in Seq(names)  BY <1>11, <1>7, SeqDef
<1>16. \A k \in 1..Cardinality(names) : Cardinality({m \in names : m < f[k]}) = k - 1
  BY <1>1, <1>10
<1>17. \A m, n \in names :
          Cardinality({l \in names : l < m}) = Cardinality({l \in names : l < n}) => m = n
  <2> SUFFICES ASSUME NEW m \in names, NEW n \in names,
                      Cardinality({l \in names : l < m}) = Cardinality({l \in names : l < n})
               PROVE  m = n
    OBVIOUS
  <2>1. Cardinality(B[m]) = Cardinality(B[n])  BY <1>1
  <2> QED  BY <2>1, <1>12
<1> QED  BY <1>11, <1>13, <1>14, <1>15, <1>16, <1>17 DEF f

(* There is no other sequence of them that ascends. *)
LEMMA InOrderUnique ==
  ASSUME NEW names \in SUBSET Nat, NEW s \in Seq(Nat),
         \A i, j \in DOMAIN s : i < j => s[i] < s[j],
         names = {s[i] : i \in DOMAIN s}
  PROVE  IsFiniteSet(names) /\ s = InOrder(names)
<1>1. DOMAIN s = 1..Len(s) /\ Len(s) \in Nat /\ s \in [1..Len(s) -> Nat]
  BY LenProperties
<1>2. \A i, j \in DOMAIN s : (i < j) <=> (s[i] < s[j])
  <2> SUFFICES ASSUME NEW i \in DOMAIN s, NEW j \in DOMAIN s, s[i] < s[j], ~(i < j)  PROVE FALSE
    OBVIOUS
  <2>1. i = j \/ j < i  BY <1>1
  <2> QED  BY <2>1, <1>1
<1>3. \A i, j \in DOMAIN s : s[i] = s[j] => i = j
  BY <1>1
<1>4. ASSUME NEW k \in 0..Len(s)
      PROVE  LET T == {s[i] : i \in 1..k} IN IsFiniteSet(T) /\ Cardinality(T) = k
  <2> DEFINE T == {s[i] : i \in 1..k}
             g == [i \in 1..k |-> s[i]]
  <2>1. 1..k \subseteq DOMAIN s  BY <1>1
  <2>2. g \in Bijection(1..k, T)
    BY <2>1, <1>3 DEF Bijection, Injection, Surjection, IsInjective
  <2>3. ExistsBijection(1..k, T)  BY <2>2 DEF ExistsBijection
  <2>4. IsFiniteSet(1..k) /\ Cardinality(1..k) = k  BY FS_Interval, <1>1
  <2> QED  BY <2>3, <2>4, FS_Bijection
<1>5. IsFiniteSet(names) /\ Cardinality(names) = Len(s)
  <2>1. Len(s) \in 0..Len(s) /\ names = {s[i] : i \in 1..Len(s)}  BY <1>1
  <2> QED  BY <2>1, <1>4
<1>6. ASSUME NEW k \in DOMAIN s
      PROVE  s[k] = InOrder(names)[k]
  <2>1. {m \in names : m < s[k]} = {s[i] : i \in 1..(k - 1)}
    <3>1. \A i \in DOMAIN s : (s[i] < s[k]) <=> i \in 1..(k - 1)  BY <1>1, <1>2
    <3>2. 1..(k - 1) \subseteq DOMAIN s  BY <1>1
    <3> QED  BY <3>1, <3>2
  <2>2. k - 1 \in 0..Len(s)  BY <1>1
  <2>3. Cardinality({m \in names : m < s[k]}) = k - 1  BY <2>1, <2>2, <1>4
  <2>4. s[k] \in names /\ k \in 1..Cardinality(names)  BY <1>1, <1>5
  <2>5. /\ InOrder(names)[k] \in names
        /\ Cardinality({m \in names : m < InOrder(names)[k]}) = k - 1
    <3>1. /\ InOrder(names) \in [1..Cardinality(names) -> names]
          /\ \A j \in 1..Cardinality(names) : Cardinality({m \in names : m < InOrder(names)[j]}) = j - 1
      BY <1>5, InOrderIs
    <3> QED  BY <3>1, <2>4
  <2>6. \A m, n \in names :
           Cardinality({l \in names : l < m}) = Cardinality({l \in names : l < n}) => m = n
    BY <1>5, InOrderIs
  <2>7. Cardinality({l \in names : l < s[k]}) = Cardinality({l \in names : l < InOrder(names)[k]})
    BY <2>3, <2>5
  <2> QED  BY <2>4, <2>5, <2>6, <2>7
<1>7. InOrder(names) \in [1..Len(s) -> names]  BY <1>5, InOrderIs
<1> QED  BY <1>1, <1>5, <1>6, <1>7

Names(list) == {list[i].name : i \in DOMAIN list}

Ascending(list) == \A i, j \in DOMAIN list : i < j => list[i].name < list[j].name

LEMMA ListTyped ==
  ASSUME NEW list \in Seq(Entry)
  PROVE  /\ DOMAIN list = 1..Len(list) /\ Len(list) \in Nat
         /\ list \in [1..Len(list) -> Entry]
         /\ \A i \in DOMAIN list : list[i] \in Entry /\ list[i].name \in Servers
         /\ \A i \in DOMAIN list : list[i].name \in Nat
<1>1. DOMAIN list = 1..Len(list) /\ Len(list) \in Nat /\ list \in [1..Len(list) -> Entry]
  BY LenProperties
<1>2. \A i \in DOMAIN list : list[i] \in Entry  BY <1>1
<1>3. \A e \in Entry : e.name \in Servers  BY DEF Entry
<1> QED  BY <1>1, <1>2, <1>3, ServersAssumption

(* Sorting an entry list permutes it, by name and otherwise by place. *)
LEMMA ByNamePermutes ==
  ASSUME NEW list \in Seq(Entry)
  PROVE  \E p \in [DOMAIN list -> DOMAIN list] :
           /\ ByName(list) = [k \in DOMAIN list |-> list[p[k]]]
           /\ \A i \in DOMAIN list : \E k \in DOMAIN list : p[k] = i
           /\ \A j, k \in DOMAIN list : j < k => p[j] \in Before(list, p[k])
<1>1. DOMAIN list = 1..Len(list) /\ Len(list) \in Nat /\ \A i \in DOMAIN list : list[i].name \in Nat
  BY ListTyped
<1>2. IsFiniteSet(DOMAIN list) /\ Cardinality(DOMAIN list) = Len(list)
  BY <1>1, FS_Interval
<1> DEFINE B == [i \in DOMAIN list |-> Before(list, i)]
<1>3. /\ B \in [DOMAIN list -> SUBSET DOMAIN list]
      /\ \A i \in DOMAIN list : B[i] = Before(list, i)
      /\ \A i, j \in DOMAIN list :
            (j \in B[i]) <=> (list[j].name < list[i].name \/ (list[j].name = list[i].name /\ j < i))
  BY DEF Before
<1> HIDE DEF B
<1>4. \A i \in DOMAIN list : i \notin B[i]  BY <1>1, <1>3
<1>5. \A i, j \in DOMAIN list : i # j => i \in B[j] \/ j \in B[i]  BY <1>1, <1>3
<1>6. ASSUME NEW i \in DOMAIN list, NEW j \in DOMAIN list, i \in B[j], NEW l \in B[i]
      PROVE  l \in B[j]
  <2>1. l \in DOMAIN list  BY <1>3
  <2> QED  BY <2>1, <1>1, <1>3, <1>6
<1>7. /\ \A i \in DOMAIN list : Cardinality(B[i]) + 1 \in 1..Len(list)
      /\ \A i, j \in DOMAIN list : (i \in B[j]) <=> Cardinality(B[i]) < Cardinality(B[j])
      /\ \A k \in 1..Len(list) : \E i \in DOMAIN list : Cardinality(B[i]) = k - 1
  <2>1. \A i, j \in DOMAIN list : i \in B[j] => B[i] \subseteq B[j]  BY <1>6
  <2> HIDE <1>1
  <2>2. /\ \A x \in DOMAIN list : Cardinality(B[x]) + 1 \in 1..Cardinality(DOMAIN list)
        /\ \A x, y \in DOMAIN list : (x \in B[y]) <=> Cardinality(B[x]) < Cardinality(B[y])
        /\ \A k \in 1..Cardinality(DOMAIN list) : \E x \in DOMAIN list : Cardinality(B[x]) = k - 1
    BY <1>2, <1>3, <1>4, <1>5, <2>1, Rank
  <2> QED  BY <2>2, <1>2
<1> DEFINE q(k) == CHOOSE i \in DOMAIN list : Cardinality(Before(list, i)) = k - 1
<1>8. ByName(list) = [k \in DOMAIN list |-> list[q(k)]]  BY DEF ByName
<1>9. ASSUME NEW k \in DOMAIN list
      PROVE  q(k) \in DOMAIN list /\ Cardinality(B[q(k)]) = k - 1
  <2>1. \E i \in DOMAIN list : Cardinality(Before(list, i)) = k - 1  BY <1>1, <1>3, <1>7
  <2>2. q(k) \in DOMAIN list /\ Cardinality(Before(list, q(k))) = k - 1  BY <2>1
  <2> QED  BY <2>2, <1>3
<1> HIDE DEF q
<1> DEFINE p == [k \in DOMAIN list |-> q(k)]
<1>10. p \in [DOMAIN list -> DOMAIN list] /\ \A k \in DOMAIN list : p[k] = q(k)
  BY <1>9
<1> HIDE DEF p
<1>11. ByName(list) = [k \in DOMAIN list |-> list[p[k]]]  BY <1>8, <1>10
<1>12. \A i \in DOMAIN list : Cardinality(B[i]) \in Nat
  <2>1. \A i \in DOMAIN list : B[i] \in SUBSET DOMAIN list  BY <1>3
  <2> QED  BY <2>1, <1>2, FS_Subset, FS_CardinalityType
<1>13. \A i, j \in DOMAIN list : Cardinality(B[i]) = Cardinality(B[j]) => i = j
  BY <1>5, <1>7, <1>12
<1>14. ASSUME NEW i \in DOMAIN list  PROVE \E k \in DOMAIN list : p[k] = i
  <2>1. Cardinality(B[i]) + 1 \in DOMAIN list  BY <1>1, <1>7
  <2>2. (Cardinality(B[i]) + 1) - 1 = Cardinality(B[i])  BY <1>12
  <2>3. Cardinality(B[p[Cardinality(B[i]) + 1]]) = Cardinality(B[i])  BY <2>1, <2>2, <1>9, <1>10
  <2> QED  BY <2>1, <2>3, <1>10, <1>13
<1>15. ASSUME NEW j \in DOMAIN list, NEW k \in DOMAIN list, j < k  PROVE p[j] \in Before(list, p[k])
  <2>1. p[j] \in DOMAIN list /\ p[k] \in DOMAIN list  BY <1>10
  <2>2. Cardinality(B[p[j]]) = j - 1 /\ Cardinality(B[p[k]]) = k - 1  BY <1>9, <1>10
  <2>3. Cardinality(B[p[j]]) < Cardinality(B[p[k]])  BY <2>2, <1>15, <1>1
  <2> QED  BY <2>1, <2>3, <1>3, <1>7
<1> QED  BY <1>10, <1>11, <1>14, <1>15

(* A sorted list has the entries it was made from; ascending, if no name is   *)
(* there twice.                                                               *)
LEMMA ByNameIs ==
  ASSUME NEW list \in Seq(Entry)
  PROVE  /\ ByName(list) \in Seq(Entry) /\ DOMAIN ByName(list) = DOMAIN list
         /\ \A k \in DOMAIN list : \E i \in DOMAIN list : ByName(list)[k] = list[i]
         /\ Names(ByName(list)) = Names(list)
         /\ (\A i, j \in DOMAIN list : i # j => list[i].name # list[j].name) => Ascending(ByName(list))
<1>1. /\ DOMAIN list = 1..Len(list) /\ Len(list) \in Nat /\ list \in [1..Len(list) -> Entry]
      /\ \A i \in DOMAIN list : list[i].name \in Nat
  BY ListTyped
<1>2. PICK p \in [DOMAIN list -> DOMAIN list] :
           /\ ByName(list) = [k \in DOMAIN list |-> list[p[k]]]
           /\ \A i \in DOMAIN list : \E k \in DOMAIN list : p[k] = i
           /\ \A j, k \in DOMAIN list : j < k => p[j] \in Before(list, p[k])
  BY ByNamePermutes
<1>3. ByName(list) \in [1..Len(list) -> Entry] /\ DOMAIN ByName(list) = DOMAIN list
  BY <1>1, <1>2
<1>4. ByName(list) \in Seq(Entry)  BY <1>1, <1>3, SeqDef
<1>5. \A k \in DOMAIN list : ByName(list)[k] = list[p[k]]  BY <1>2
<1>6. \A k \in DOMAIN list : \E i \in DOMAIN list : ByName(list)[k] = list[i]  BY <1>5
<1>7. Names(ByName(list)) = Names(list)
  <2>1. ASSUME NEW n \in Names(list)  PROVE n \in Names(ByName(list))
    <3>1. PICK i \in DOMAIN list : n = list[i].name  BY DEF Names
    <3>2. PICK k \in DOMAIN list : p[k] = i  BY <1>2
    <3> QED  BY <3>1, <3>2, <1>3, <1>5 DEF Names
  <2>2. Names(ByName(list)) \subseteq Names(list)  BY <1>3, <1>6 DEF Names
  <2> QED  BY <2>1, <2>2
<1>8. ASSUME \A i, j \in DOMAIN list : i # j => list[i].name # list[j].name,
             NEW j \in DOMAIN list, NEW k \in DOMAIN list, j < k
      PROVE  ByName(list)[j].name < ByName(list)[k].name
  <2>1. p[j] \in Before(list, p[k]) /\ p[j] \in DOMAIN list /\ p[k] \in DOMAIN list  BY <1>2, <1>8
  <2>2. \/ list[p[j]].name < list[p[k]].name
        \/ list[p[j]].name = list[p[k]].name /\ p[j] < p[k]
    BY <2>1 DEF Before
  <2>3. p[j] < p[k] => p[j] # p[k]  BY <2>1, <1>1
  <2>4. list[p[j]].name < list[p[k]].name  BY <2>1, <2>2, <2>3, <1>8
  <2> QED  BY <2>4, <1>5
<1> QED  BY <1>3, <1>4, <1>6, <1>7, <1>8 DEF Ascending

LEMMA Extremes ==
  ASSUME NEW T \in SUBSET Nat, IsFiniteSet(T), T # {}
  PROVE  /\ Min(T) \in T /\ \A y \in T : Min(T) <= y
         /\ Max(T) \in T /\ \A y \in T : Max(T) >= y
<1>1. /\ InOrder(T) \in [1..Cardinality(T) -> T]
      /\ \A n \in T : \E k \in 1..Cardinality(T) : InOrder(T)[k] = n
      /\ \A j, k \in 1..Cardinality(T) : j < k => InOrder(T)[j] < InOrder(T)[k]
  BY InOrderIs
<1>2. Cardinality(T) \in Nat /\ Cardinality(T) # 0
  BY FS_CardinalityType, FS_EmptySet
<1>3. ASSUME NEW y \in T
      PROVE  InOrder(T)[1] <= y /\ y <= InOrder(T)[Cardinality(T)]
  <2>1. PICK k \in 1..Cardinality(T) : InOrder(T)[k] = y  BY <1>1
  <2>2. (k = 1 \/ 1 < k) /\ (k = Cardinality(T) \/ k < Cardinality(T))  BY <1>2
  <2>3. 1 \in 1..Cardinality(T) /\ Cardinality(T) \in 1..Cardinality(T)  BY <1>2
  <2>4. InOrder(T)[1] \in Nat /\ y \in Nat /\ InOrder(T)[Cardinality(T)] \in Nat  BY <1>1, <2>3
  <2> QED  BY <1>1, <2>1, <2>2, <2>3, <2>4
<1>4. 1 \in 1..Cardinality(T) /\ Cardinality(T) \in 1..Cardinality(T)  BY <1>2
<1>5. \E x \in T : \A y \in T : x <= y  BY <1>1, <1>3, <1>4
<1>6. \E x \in T : \A y \in T : x >= y
  <2>1. InOrder(T)[Cardinality(T)] \in T  BY <1>1, <1>4
  <2>2. \A y \in T : InOrder(T)[Cardinality(T)] >= y  BY <2>1, <1>3
  <2> QED  BY <2>1, <2>2
<1>7. Min(T) \in T /\ \A y \in T : Min(T) <= y  BY <1>5 DEF Min
<1>8. Max(T) \in T /\ \A y \in T : Max(T) >= y  BY <1>6 DEF Max
<1> QED  BY <1>7, <1>8

(* What is left of a list keeps its entries and their order. *)
LEMMA WithoutIs ==
  ASSUME NEW list \in Seq(Entry), NEW names
  PROVE  /\ Without(list, names) \in Seq(Entry)
         /\ \A k \in DOMAIN Without(list, names) :
               \E i \in DOMAIN list : Without(list, names)[k] = list[i]
         /\ Names(Without(list, names)) = Names(list) \ names
         /\ Ascending(list) => Ascending(Without(list, names))
<1> DEFINE T == {i \in DOMAIN list : list[i].name \notin names}
<1>1. DOMAIN list = 1..Len(list) /\ Len(list) \in Nat /\ list \in [1..Len(list) -> Entry]
  BY ListTyped
<1>2. T \in SUBSET Nat /\ IsFiniteSet(T)
  <2>1. IsFiniteSet(DOMAIN list)  BY <1>1, FS_Interval
  <2>2. T \in SUBSET DOMAIN list  OBVIOUS
  <2> QED  BY <1>1, <2>1, <2>2, FS_Subset
<1>3. \A i : (i \in T) <=> (i \in DOMAIN list /\ list[i].name \notin names)  OBVIOUS
<1>4. Without(list, names) = [k \in DOMAIN InOrder(T) |-> list[InOrder(T)[k]]]  BY DEF Without
<1> HIDE DEF T
<1> DEFINE f == InOrder(T)
           w == Without(list, names)
<1>5. /\ f \in [1..Cardinality(T) -> T]
      /\ \A n \in T : \E k \in 1..Cardinality(T) : f[k] = n
      /\ \A j, k \in 1..Cardinality(T) : j < k => f[j] < f[k]
  BY <1>2, InOrderIs
<1>6. Cardinality(T) \in Nat  BY <1>2, FS_CardinalityType
<1>7. w = [k \in DOMAIN f |-> list[f[k]]]  BY <1>4
<1> HIDE DEF f, w
<1>8. DOMAIN w = 1..Cardinality(T) /\ \A k \in DOMAIN w : w[k] = list[f[k]] /\ f[k] \in T
  BY <1>5, <1>7
<1>9. w \in [1..Cardinality(T) -> Entry]  BY <1>1, <1>3, <1>5, <1>7
<1>10. w \in Seq(Entry)  BY <1>6, <1>9, SeqDef
<1>11. \A k \in DOMAIN w : \E i \in DOMAIN list : w[k] = list[i]  BY <1>3, <1>8
<1>12. Names(w) = Names(list) \ names
  <2>1. \A n \in Names(w) : n \in Names(list) \ names  BY <1>3, <1>8 DEF Names
  <2>2. ASSUME NEW n \in Names(list) \ names  PROVE n \in Names(w)
    <3>1. PICK i \in DOMAIN list : n = list[i].name  BY DEF Names
    <3>2. i \in T  BY <3>1, <1>3
    <3>3. PICK k \in DOMAIN w : f[k] = i  BY <3>2, <1>5, <1>8
    <3> QED  BY <3>1, <3>3, <1>8 DEF Names
  <2> QED  BY <2>1, <2>2
<1>13. Ascending(list) => Ascending(w)
  BY <1>3, <1>5, <1>8 DEF Ascending
<1> QED  BY <1>10, <1>11, <1>12, <1>13 DEF w

LEMMA AscendingDistinct ==
  ASSUME NEW list \in Seq(Entry), Ascending(list)
  PROVE  \A i, j \in DOMAIN list : list[i].name = list[j].name => i = j
<1>1. DOMAIN list = 1..Len(list) /\ Len(list) \in Nat /\ \A i \in DOMAIN list : list[i].name \in Nat
  BY ListTyped
<1> SUFFICES ASSUME NEW i \in DOMAIN list, NEW j \in DOMAIN list, list[i].name = list[j].name, i # j
             PROVE  FALSE
  OBVIOUS
<1>2. i < j \/ j < i  BY <1>1
<1> QED  BY <1>1, <1>2 DEF Ascending

(* The first and the last place that pass a test, if one does. *)
LEMMA PlacesOf ==
  ASSUME NEW list \in Seq(Entry), NEW n, NEW I \in SUBSET DOMAIN list, I # {},
         \A i \in I : list[i].name = n
  PROVE  /\ Min(I) \in DOMAIN list /\ list[Min(I)].name = n
         /\ Max(I) \in DOMAIN list /\ list[Max(I)].name = n
<1>1. DOMAIN list = 1..Len(list) /\ Len(list) \in Nat  BY ListTyped
<1>2. I \in SUBSET Nat /\ IsFiniteSet(I)
  <2>1. IsFiniteSet(1..Len(list))  BY <1>1, FS_Interval
  <2> QED  BY <1>1, <2>1, FS_Subset
<1>3. Min(I) \in I /\ Max(I) \in I  BY <1>2, Extremes
<1> QED  BY <1>3

LEMMA PlaceIs ==
  ASSUME entries \in Seq(Entry), NEW n, Place(n) # 0
  PROVE  Place(n) \in DOMAIN entries /\ entries[Place(n)].name = n
<1> DEFINE I == {i \in 1..Len(entries) : entries[i].name = n}
<1>1. Place(n) = IF I # {} THEN Min(I) ELSE 0  BY DEF Place, SelectInSeq
<1>2. I # {} /\ Place(n) = Min(I)  BY <1>1
<1>3. I \in SUBSET DOMAIN entries /\ \A i \in I : entries[i].name = n  BY ListTyped
<1> HIDE DEF I
<1>4. Min(I) \in DOMAIN entries /\ entries[Min(I)].name = n  BY <1>2, <1>3, PlacesOf
<1> QED  BY <1>2, <1>4

LEMMA PlaceOf ==
  ASSUME entries \in Seq(Entry), Ascending(entries), NEW i \in DOMAIN entries
  PROVE  Place(entries[i].name) = i
<1> DEFINE I == {j \in 1..Len(entries) : entries[j].name = entries[i].name}
<1>1. Place(entries[i].name) = IF I # {} THEN Min(I) ELSE 0  BY DEF Place, SelectInSeq
<1>2. DOMAIN entries = 1..Len(entries) /\ Len(entries) \in Nat  BY ListTyped
<1>3. I # {} /\ 0 \notin DOMAIN entries  BY <1>2
<1>4. Place(entries[i].name) # 0
  <2>1. I \in SUBSET DOMAIN entries /\ \A j \in I : entries[j].name = entries[i].name  BY <1>2
  <2> HIDE DEF I
  <2>2. Min(I) \in DOMAIN entries  BY <1>3, <2>1, PlacesOf
  <2> QED  BY <1>1, <1>3, <2>2
<1>5. Place(entries[i].name) \in DOMAIN entries /\ entries[Place(entries[i].name)].name = entries[i].name
  BY <1>4, PlaceIs
<1> QED  BY <1>5, AscendingDistinct

(* What is published of a list: the tools of an entry under its name, of the  *)
(* only one of that name if there is one; a name without entry keeps what it  *)
(* had.                                                                       *)
LEMMA PublishedNames ==
  ASSUME NEW list \in Seq(Entry), NEW sources
  PROVE  \A n \in Names(list) :
            \E i \in DOMAIN list : list[i].name = n /\ Published(list, sources)[n] = list[i].tools
<1> DEFINE I(n) == {i \in 1..Len(list) : list[i].name = n}
           p == Published(list, sources)
           v(n) == IF n \in Names(list) THEN list[Max(I(n))].tools ELSE sources[n]
<1>1. DOMAIN list = 1..Len(list)  BY ListTyped
<1>2. {e.name : e \in ToSet(list)} = Names(list)  BY DEF Names, ToSet
<1>3. \A n : (\E e \in ToSet(list) : e.name = n) <=> n \in Names(list)  BY DEF Names, ToSet
<1>4. ASSUME NEW n \in Names(list)
      PROVE  SelectLastInSeq(list, LAMBDA e : e.name = n) = Max(I(n)) /\ I(n) # {}
  <2>1. I(n) # {}  BY <1>1 DEF Names
  <2> QED  BY <2>1 DEF SelectLastInSeq
<1>5. p = [n \in DOMAIN sources \cup Names(list) |-> v(n)]
  BY <1>2, <1>3, <1>4 DEF Published
<1>6. ASSUME NEW n \in Names(list)
      PROVE  Max(I(n)) \in DOMAIN list /\ list[Max(I(n))].name = n
  <2>1. I(n) \in SUBSET DOMAIN list /\ I(n) # {} /\ \A i \in I(n) : list[i].name = n  BY <1>1, <1>4
  <2> HIDE DEF I
  <2> QED  BY <2>1, PlacesOf
<1>7. \A n \in Names(list) : p[n] = list[Max(I(n))].tools  BY <1>5
<1> HIDE DEF I, p, v
<1> QED  BY <1>6, <1>7 DEF p

LEMMA PublishedEach ==
  ASSUME NEW list \in Seq(Entry), NEW sources, Ascending(list)
  PROVE  \A i \in DOMAIN list : Published(list, sources)[list[i].name] = list[i].tools
<1> SUFFICES ASSUME NEW i \in DOMAIN list
             PROVE  Published(list, sources)[list[i].name] = list[i].tools
  OBVIOUS
<1>1. list[i].name \in Names(list)  BY DEF Names
<1>2. PICK j \in DOMAIN list :
         list[j].name = list[i].name /\ Published(list, sources)[list[i].name] = list[j].tools
  BY <1>1, PublishedNames
<1> QED  BY <1>2, AscendingDistinct

LEMMA PublishedIs ==
  ASSUME NEW list \in Seq(Entry), NEW sources
  PROVE  /\ DOMAIN Published(list, sources) = DOMAIN sources \cup Names(list)
         /\ \A n \in DOMAIN sources \ Names(list) : Published(list, sources)[n] = sources[n]
<1>1. {e.name : e \in ToSet(list)} = Names(list)  BY DEF Names, ToSet
<1>2. \A n : (\E e \in ToSet(list) : e.name = n) <=> n \in Names(list)  BY DEF Names, ToSet
<1> QED  BY <1>1, <1>2 DEF Published

LEMMA PublishedTyped ==
  ASSUME NEW list \in Seq(Entry), NEW sources,
         DOMAIN sources \subseteq Servers, \A n \in DOMAIN sources : sources[n] \in Handles
  PROVE  /\ Published(list, sources) \in [DOMAIN sources \cup Names(list) -> Handles]
         /\ DOMAIN sources \cup Names(list) \subseteq Servers
<1> DEFINE p == Published(list, sources)
           D == DOMAIN sources \cup Names(list)
           v(n) == IF \E e \in ToSet(list) : e.name = n
                   THEN list[SelectLastInSeq(list, LAMBDA e : e.name = n)].tools
                   ELSE sources[n]
<1>1. {e.name : e \in ToSet(list)} = Names(list)  BY DEF Names, ToSet
<1>2. p = [n \in D |-> v(n)]  BY <1>1 DEF Published
<1>3. \A n \in D : p[n] = v(n)  BY <1>2
<1> HIDE DEF v
<1>4. p = [n \in D |-> p[n]]  BY <1>2
<1>5. \A i \in DOMAIN list : list[i].name \in Servers /\ list[i].tools \in Handles
  BY ListTyped DEF Entry
<1>6. D \subseteq Servers  BY <1>5 DEF Names
<1> HIDE DEF D
<1>7. ASSUME NEW n \in D  PROVE p[n] \in Handles
  <2>1. CASE n \in Names(list)
    <3>1. PICK i \in DOMAIN list : p[n] = list[i].tools  BY <2>1, PublishedNames
    <3> QED  BY <3>1, <1>5
  <2>2. CASE n \in DOMAIN sources \ Names(list)
    <3>1. p[n] = sources[n]  BY <2>2, PublishedIs
    <3> QED  BY <3>1, <2>2
  <2> QED  BY <2>1, <2>2 DEF D
<1> HIDE DEF p
<1>8. p \in [D -> Handles]  BY <1>4, <1>7
<1> QED  BY <1>6, <1>8 DEF p, D

Loop == [at : {"ready", "diffed", "connecting"}, changed : SUBSET Servers, removed : SUBSET Servers,
         kept : Seq(Entry)]

Refresh == [at : {"idle", "listed", "connecting", "over", "dead"}, jobs : Seq(Jobs)]

Rows == [name : Servers, status : Statuses]

RuntimeTypes ==
    /\ configs \in Configs /\ entries \in Seq(Entry)
    /\ DOMAIN offered \subseteq Servers /\ offered \in [DOMAIN offered -> Handles]
    /\ statuses \in Seq(Rows)
    /\ loop \in Loop /\ loop.changed \subseteq DOMAIN configs
    /\ refresh \in [Refreshers -> Refresh] /\ off \subseteq Servers

LEMMA ConfigsTyped ==
  ASSUME NEW c \in Configs
  PROVE  /\ DOMAIN c \subseteq Servers /\ c \in [DOMAIN c -> Settings]
         /\ DOMAIN c \in SUBSET Nat /\ IsFiniteSet(DOMAIN c)
         /\ \A n \in DOMAIN c : c[n] \in Settings /\ c[n] \in Handles /\ c[n] # NoHandle
<1>1. PICK names \in SUBSET Servers : c \in [names -> Settings]  BY DEF Configs
<1>2. DOMAIN c \subseteq Servers /\ c \in [DOMAIN c -> Settings]  BY <1>1
<1>3. DOMAIN c \in SUBSET Nat /\ IsFiniteSet(DOMAIN c)
  BY <1>2, ServersAssumption, FS_Subset
<1> QED  BY <1>2, <1>3, SettingsAssumption DEF Handles

(* What is made of a server is an entry of its name. *)
LEMMA EntriesMade ==
  ASSUME NEW n \in Servers, NEW s \in Handles, NEW ok \in BOOLEAN
  PROVE  /\ Disabled(n) \in Entry /\ Connecting(n) \in Entry
         /\ Connect(n, s, ok) \in Entry /\ Reconnect(n, s, ok) \in Entry
         /\ Disabled(n).name = n /\ Connecting(n).name = n
         /\ Connect(n, s, ok).name = n /\ Reconnect(n, s, ok).name = n
         /\ Disabled(n).server = NoHandle /\ Disabled(n).tools = NoHandle
         /\ Connecting(n).server = NoHandle /\ Connecting(n).tools = NoHandle
         /\ Connect(n, s, ok).server \in {NoHandle, s} /\ Connect(n, s, ok).tools \in {NoHandle, s}
         /\ Reconnect(n, s, ok).server = s /\ Reconnect(n, s, ok).tools \in {NoHandle, s}
BY DEF Disabled, Connecting, Connect, Reconnect, Failed, Live, Unreached, Entry, Handles, Statuses

LEMMA TableTyped ==
  ASSUME NEW list \in Seq(Entry)
  PROVE  Table(list) \in Seq(Rows)
<1>1. DOMAIN list = 1..Len(list) /\ Len(list) \in Nat /\ \A i \in DOMAIN list : list[i] \in Entry
  BY ListTyped
<1>2. Table(list) \in [1..Len(list) -> Rows]  BY <1>1 DEF Table, Entry, Rows
<1> QED  BY <1>1, <1>2, SeqDef

LEMMA PublishTyped ==
  ASSUME NEW list \in Seq(Entry), DOMAIN offered \subseteq Servers, offered \in [DOMAIN offered -> Handles],
         Publish(list)
  PROVE  /\ entries' = list /\ entries' \in Seq(Entry)
         /\ DOMAIN offered' \subseteq Servers /\ offered' \in [DOMAIN offered' -> Handles]
         /\ statuses' = Table(list) /\ statuses' \in Seq(Rows)
<1>1. entries' = list /\ offered' = Published(list, offered) /\ statuses' = Table(list)
  BY DEF Publish
<1> DEFINE p == Published(list, offered)
<1>2. p \in [DOMAIN offered \cup Names(list) -> Handles] /\ DOMAIN offered \cup Names(list) \subseteq Servers
  BY PublishedTyped
<1>3. offered' = p  BY <1>1
<1> HIDE DEF p
<1>4. DOMAIN offered' \subseteq Servers /\ offered' \in [DOMAIN offered' -> Handles]
  BY <1>2, <1>3
<1> QED  BY <1>1, <1>4, TableTyped

(* One entry of a list in place of another. *)
LEMMA Replaced ==
  ASSUME NEW list \in Seq(Entry), NEW p \in DOMAIN list, NEW e \in Entry
  PROVE  /\ [list EXCEPT ![p] = e] \in Seq(Entry)
         /\ DOMAIN [list EXCEPT ![p] = e] = DOMAIN list
         /\ [list EXCEPT ![p] = e][p] = e
         /\ \A i \in DOMAIN list \ {p} : [list EXCEPT ![p] = e][i] = list[i]
<1>1. DOMAIN list = 1..Len(list) /\ Len(list) \in Nat /\ list \in [1..Len(list) -> Entry]
  BY ListTyped
<1>2. [list EXCEPT ![p] = e] \in [1..Len(list) -> Entry]  BY <1>1
<1>3. [list EXCEPT ![p] = e] \in Seq(Entry)  BY <1>1, <1>2, SeqDef
<1> QED  BY <1>1, <1>3

-----------------------------------------------------------------------------
(* What a reconfiguration puts together, and in what it is sorted. *)
Fresh(up, n) == IF configs[n] \in Enabled THEN Connect(n, configs[n], n \in up) ELSE Disabled(n)

Combined(up) ==
    loop.kept \o [i \in DOMAIN InOrder(loop.changed) |-> Fresh(up, InOrder(loop.changed)[i])]

LEMMA FreshMade ==
  ASSUME RuntimeTypes, NEW up, NEW n \in loop.changed
  PROVE  /\ Fresh(up, n) \in Entry /\ Fresh(up, n).name = n
         /\ Fresh(up, n).server \in {NoHandle, configs[n]} /\ Fresh(up, n).tools \in {NoHandle, configs[n]}
<1>1. n \in Servers /\ configs[n] \in Handles
  BY ConfigsTyped DEF RuntimeTypes, Loop
<1>2. /\ Disabled(n) \in Entry /\ Disabled(n).name = n
      /\ Disabled(n).server = NoHandle /\ Disabled(n).tools = NoHandle
  BY <1>1, EntriesMade
<1>3. /\ Connect(n, configs[n], n \in up) \in Entry /\ Connect(n, configs[n], n \in up).name = n
      /\ Connect(n, configs[n], n \in up).server \in {NoHandle, configs[n]}
      /\ Connect(n, configs[n], n \in up).tools \in {NoHandle, configs[n]}
  BY <1>1 DEF Connect, Live, Failed, Disabled, Entry, Handles, Statuses
<1> QED  BY <1>2, <1>3 DEF Fresh

LEMMA CombinedIs ==
  ASSUME RuntimeTypes, NEW up
  PROVE  /\ Combined(up) \in Seq(Entry)
         /\ Names(Combined(up)) = Names(loop.kept) \cup loop.changed
         /\ \A i \in DOMAIN Combined(up) :
               \/ \E j \in DOMAIN loop.kept : Combined(up)[i] = loop.kept[j]
               \/ \E n \in loop.changed : Combined(up)[i] = Fresh(up, n)
         /\ Ascending(loop.kept) /\ Names(loop.kept) \cap loop.changed = {}
               => \A i, j \in DOMAIN Combined(up) : i # j => Combined(up)[i].name # Combined(up)[j].name
<1> DEFINE kept == loop.kept
           changed == loop.changed
           order == InOrder(changed)
           new == [i \in DOMAIN order |-> Fresh(up, order[i])]
           all == kept \o new
<1>1. kept \in Seq(Entry) /\ changed \in SUBSET Nat /\ IsFiniteSet(changed)
  BY ServersAssumption, FS_Subset DEF RuntimeTypes, Loop
<1>2. \A n \in changed : Fresh(up, n) \in Entry /\ Fresh(up, n).name = n
  BY FreshMade
<1> HIDE DEF changed
<1>3. /\ order \in [1..Cardinality(changed) -> changed]
      /\ \A n \in changed : \E k \in 1..Cardinality(changed) : order[k] = n
      /\ \A j, k \in 1..Cardinality(changed) : j < k => order[j] < order[k]
      /\ Cardinality(changed) \in Nat
  BY <1>1, InOrderIs, FS_CardinalityType
<1> HIDE DEF order
<1>4. DOMAIN order = 1..Cardinality(changed) /\ new \in [1..Cardinality(changed) -> Entry]
  BY <1>2, <1>3
<1>5. new \in Seq(Entry) /\ Len(new) = Cardinality(changed)
  BY <1>3, <1>4, SeqDef, LenProperties
<1>6. \A k \in 1..Cardinality(changed) : new[k] = Fresh(up, order[k]) /\ order[k] \in changed
  BY <1>3, <1>4
<1>7. all = Combined(up)  BY DEF Combined, order, changed
<1> HIDE DEF new, kept
<1>8. /\ all \in Seq(Entry) /\ Len(all) = Len(kept) + Len(new)
      /\ Len(kept) \in Nat /\ DOMAIN kept = 1..Len(kept) /\ DOMAIN all = 1..(Len(kept) + Len(new))
      /\ \A i \in 1..Len(kept) : all[i] = kept[i]
      /\ \A i \in 1..Len(new) : all[Len(kept) + i] = new[i]
  <2>1. all \in Seq(Entry) /\ Len(all) = Len(kept) + Len(new)  BY <1>1, <1>5, ConcatProperties
  <2>2. /\ Len(kept) \in Nat /\ DOMAIN kept = 1..Len(kept) /\ DOMAIN all = 1..Len(all)
    BY <1>1, <2>1, LenProperties
  <2>3. \A i \in 1..Len(kept) : all[i] = kept[i]  BY <1>1, <1>5, <2>1, <2>2, <1>3, ConcatProperties
  <2>4. \A i \in 1..Len(new) : all[Len(kept) + i] = new[i]
    BY <1>1, <1>5, <2>1, <2>2, <1>3, ConcatProperties
  <2> QED  BY <2>1, <2>2, <2>3, <2>4
<1> HIDE DEF all
<1>9. ASSUME NEW i \in DOMAIN all
      PROVE  \/ i \in DOMAIN kept /\ all[i] = kept[i]
             \/ \E k \in 1..Cardinality(changed) :
                   i = Len(kept) + k /\ all[i] = Fresh(up, order[k]) /\ order[k] \in changed
  <2>1. CASE i \in 1..Len(kept)  BY <2>1, <1>8
  <2>2. CASE i \notin 1..Len(kept)
    <3>1. i - Len(kept) \in 1..Cardinality(changed) /\ i = Len(kept) + (i - Len(kept))
      BY <2>2, <1>3, <1>5, <1>8
    <3>2. all[i] = new[i - Len(kept)]  BY <3>1, <1>5, <1>8
    <3> QED  BY <3>1, <3>2, <1>6
  <2> QED  BY <2>1, <2>2
<1>10. Names(all) = Names(kept) \cup changed
  <2>1. \A n \in Names(all) : n \in Names(kept) \cup changed  BY <1>2, <1>9 DEF Names
  <2>2. \A n \in Names(kept) : n \in Names(all)
    <3>1. \A i \in DOMAIN kept : i \in DOMAIN all /\ all[i] = kept[i]  BY <1>3, <1>5, <1>8
    <3> QED  BY <3>1 DEF Names
  <2>3. ASSUME NEW n \in changed  PROVE n \in Names(all)
    <3>1. PICK k \in 1..Cardinality(changed) : order[k] = n  BY <1>3
    <3>2. Len(kept) + k \in DOMAIN all /\ all[Len(kept) + k] = Fresh(up, n)
      BY <3>1, <1>3, <1>5, <1>6, <1>8
    <3> QED  BY <3>2, <1>2 DEF Names
  <2> QED  BY <2>1, <2>2, <2>3
<1>11. ASSUME Ascending(kept), Names(kept) \cap changed = {},
              NEW i \in DOMAIN all, NEW j \in DOMAIN all, i # j, all[i].name = all[j].name
       PROVE  FALSE
  <2>1. CASE i \in DOMAIN kept /\ all[i] = kept[i] /\ j \in DOMAIN kept /\ all[j] = kept[j]
    BY <2>1, <1>1, <1>11, AscendingDistinct
  <2>2. ASSUME NEW k \in 1..Cardinality(changed), i = Len(kept) + k, all[i] = Fresh(up, order[k]),
               order[k] \in changed,
               NEW l \in 1..Cardinality(changed), j = Len(kept) + l, all[j] = Fresh(up, order[l]),
               order[l] \in changed
        PROVE  FALSE
    <3>1. order[k] = order[l]  BY <2>2, <1>11, <1>2
    <3>2. order[k] \in Nat /\ order[l] \in Nat  BY <2>2, <1>1
    <3>3. k # l  BY <2>2, <1>11
    <3>4. k \in Nat /\ l \in Nat  BY <1>3
    <3>5. k < l \/ l < k  BY <3>3, <3>4
    <3> QED  BY <3>1, <3>2, <3>5, <1>3
  <2>3. ASSUME NEW d \in DOMAIN kept, NEW n \in changed, kept[d].name = n  PROVE FALSE
    BY <2>3, <1>11 DEF Names
  <2> QED  BY <2>1, <2>2, <2>3, <1>2, <1>9, <1>11
<1>12. \A i \in DOMAIN all :
          \/ \E j \in DOMAIN kept : all[i] = kept[j]
          \/ \E n \in changed : all[i] = Fresh(up, n)
  BY <1>9
<1>13. (Ascending(kept) /\ Names(kept) \cap changed = {})
          => \A i, j \in DOMAIN all : i # j => all[i].name # all[j].name
  BY <1>11
<1> QED  BY <1>7, <1>8, <1>10, <1>12, <1>13 DEF kept, changed

-----------------------------------------------------------------------------
(* Types.  A step that publishes a list of entries keeps those of the list,   *)
(* the offer and the table.                                                   *)
LEMMA PublishKeepsTypes ==
  ASSUME RuntimeTypes, NEW list \in Seq(Entry), Publish(list)
  PROVE  /\ entries' \in Seq(Entry) /\ statuses' \in Seq(Rows)
         /\ DOMAIN offered' \subseteq Servers /\ offered' \in [DOMAIN offered' -> Handles]
BY PublishTyped DEF RuntimeTypes

LEMMA InitTypes == ASSUME RuntimeInit PROVE RuntimeTypes
<1> DEFINE order == InOrder(DOMAIN configs)
<1>1. configs \in Configs /\ DOMAIN configs \subseteq Servers
  BY ConfigsTyped DEF RuntimeInit
<1>2. order \in [1..Cardinality(DOMAIN configs) -> DOMAIN configs] /\ Cardinality(DOMAIN configs) \in Nat
  BY <1>1, ConfigsTyped, InOrderIs, FS_CardinalityType
<1>3. ASSUME NEW n \in DOMAIN configs  PROVE Starting(n) \in Entry
  <2>1. n \in Servers /\ configs[n] \in Handles  BY <1>1, ConfigsTyped
  <2> QED  BY <2>1, EntriesMade DEF Starting
<1> HIDE DEF order
<1>4. entries = [i \in DOMAIN order |-> Starting(order[i])]  BY DEF RuntimeInit, order
<1>5. entries \in [1..Cardinality(DOMAIN configs) -> Entry]  BY <1>2, <1>3, <1>4
<1>6. entries \in Seq(Entry)  BY <1>2, <1>5, SeqDef
<1>7. statuses \in Seq(Rows)  BY <1>6, TableTyped DEF RuntimeInit
<1>8. DOMAIN offered \subseteq Servers /\ offered \in [DOMAIN offered -> Handles]
  BY <1>1 DEF RuntimeInit, Handles
<1>9. <<>> \in Seq(Entry) /\ <<>> \in Seq(Jobs)  OBVIOUS
<1>10. loop \in Loop /\ loop.changed \subseteq DOMAIN configs  BY <1>9 DEF RuntimeInit, Loop, Ready
<1>11. refresh \in [Refreshers -> Refresh]  BY <1>9 DEF RuntimeInit, Refresh, Resting
<1> QED  BY <1>1, <1>6, <1>7, <1>8, <1>10, <1>11 DEF RuntimeTypes, RuntimeInit

LEMMA SwitchOnTypes ==
  ASSUME RuntimeTypes, NEW n \in Servers, SwitchOn(n)
  PROVE  RuntimeTypes'
<1>1. n \in DOMAIN configs /\ Place(n) # 0 /\ off' = off \ {n} /\ UNCHANGED <<configs, loop, refresh>>
  BY DEF SwitchOn
<1>2. configs[n] \in Handles  BY <1>1, ConfigsTyped DEF RuntimeTypes
<1>3. Place(n) \in DOMAIN entries  BY <1>1, PlaceIs DEF RuntimeTypes
<1>4. CASE UNCHANGED <<entries, offered, statuses>>  BY <1>1, <1>4 DEF RuntimeTypes
<1>5. ASSUME NEW ok \in BOOLEAN, Publish([entries EXCEPT ![Place(n)] = Connect(n, configs[n], ok)])
      PROVE  RuntimeTypes'
  <2>1. Connect(n, configs[n], ok) \in Entry  BY <1>2, EntriesMade
  <2>2. [entries EXCEPT ![Place(n)] = Connect(n, configs[n], ok)] \in Seq(Entry)
    BY <2>1, <1>3, Replaced DEF RuntimeTypes
  <2>3. /\ entries' \in Seq(Entry) /\ statuses' \in Seq(Rows)
        /\ DOMAIN offered' \subseteq Servers /\ offered' \in [DOMAIN offered' -> Handles]
    BY <2>2, <1>5, PublishKeepsTypes
  <2> QED  BY <2>3, <1>1 DEF RuntimeTypes
<1> QED  BY <1>4, <1>5 DEF SwitchOn

LEMMA SwitchOffTypes ==
  ASSUME RuntimeTypes, NEW n \in Servers, SwitchOff(n)
  PROVE  RuntimeTypes'
<1>1. /\ n \in DOMAIN configs /\ Place(n) # 0 /\ off' = off \cup {n} /\ UNCHANGED <<configs, loop, refresh>>
      /\ Publish([entries EXCEPT ![Place(n)] = Disabled(n)])
  BY DEF SwitchOff
<1>2. Place(n) \in DOMAIN entries  BY <1>1, PlaceIs DEF RuntimeTypes
<1>3. NoHandle \in Handles  BY DEF Handles
<1>4. Disabled(n) \in Entry  BY <1>3, EntriesMade
<1>5. [entries EXCEPT ![Place(n)] = Disabled(n)] \in Seq(Entry)
  BY <1>2, <1>4, Replaced DEF RuntimeTypes
<1>6. /\ entries' \in Seq(Entry) /\ statuses' \in Seq(Rows)
      /\ DOMAIN offered' \subseteq Servers /\ offered' \in [DOMAIN offered' -> Handles]
  BY <1>1, <1>5, PublishKeepsTypes
<1> QED  BY <1>1, <1>6 DEF RuntimeTypes

(* What a reconnect makes of the entry it finds. *)
Reached(n, e, ok) == IF e.server # NoHandle THEN Reconnect(n, e.server, ok) ELSE Connect(n, configs[n], ok)

LEMMA ReachedIs ==
  ASSUME RuntimeTypes, NEW n \in Servers, ReconnectOne(n)
  PROVE  \E ok \in BOOLEAN :
           /\ Publish([entries EXCEPT ![Place(n)] = Reached(n, entries[Place(n)], ok)])
           /\ Reached(n, entries[Place(n)], ok) \in Entry
<1>1. n \in DOMAIN configs /\ Place(n) # 0  BY DEF ReconnectOne
<1>2. Place(n) \in DOMAIN entries  BY <1>1, PlaceIs DEF RuntimeTypes
<1>3. configs[n] \in Handles /\ entries[Place(n)].server \in Handles
  <2>1. configs[n] \in Handles  BY <1>1, ConfigsTyped DEF RuntimeTypes
  <2>2. entries[Place(n)] \in Entry  BY <1>2, ListTyped DEF RuntimeTypes
  <2> QED  BY <2>1, <2>2 DEF Entry
<1>4. PICK ok \in BOOLEAN :
         Publish([entries EXCEPT ![Place(n)] =
                    IF @.server # NoHandle THEN Reconnect(n, @.server, ok)
                    ELSE Connect(n, configs[n], ok)])
  BY DEF ReconnectOne
<1>5. Publish([entries EXCEPT ![Place(n)] = Reached(n, entries[Place(n)], ok)])
  BY <1>4 DEF Reached
<1>6. Reached(n, entries[Place(n)], ok) \in Entry
  BY <1>3, EntriesMade DEF Reached
<1> QED  BY <1>5, <1>6

LEMMA ReconnectOneTypes ==
  ASSUME RuntimeTypes, NEW n \in Servers, ReconnectOne(n)
  PROVE  RuntimeTypes'
<1>1. Place(n) # 0 /\ UNCHANGED <<configs, loop, refresh, off>>  BY DEF ReconnectOne
<1>2. Place(n) \in DOMAIN entries  BY <1>1, PlaceIs DEF RuntimeTypes
<1>3. PICK ok \in BOOLEAN :
           /\ Publish([entries EXCEPT ![Place(n)] = Reached(n, entries[Place(n)], ok)])
           /\ Reached(n, entries[Place(n)], ok) \in Entry
  BY ReachedIs
<1>4. [entries EXCEPT ![Place(n)] = Reached(n, entries[Place(n)], ok)] \in Seq(Entry)
  BY <1>2, <1>3, Replaced DEF RuntimeTypes
<1>5. /\ entries' \in Seq(Entry) /\ statuses' \in Seq(Rows)
      /\ DOMAIN offered' \subseteq Servers /\ offered' \in [DOMAIN offered' -> Handles]
  BY <1>3, <1>4, PublishKeepsTypes
<1> QED  BY <1>1, <1>5 DEF RuntimeTypes

LEMMA ReconfigureTypes ==
  ASSUME RuntimeTypes, NEW new \in Configs, Reconfigure(new)
  PROVE  RuntimeTypes'
<1>1. /\ configs' = new /\ UNCHANGED <<entries, offered, statuses, refresh>>
      /\ off' = off \ loop'.changed
      /\ loop' = [at |-> "diffed",
                  changed |-> {n \in DOMAIN new : n \notin DOMAIN configs \/ configs[n] # new[n]},
                  removed |-> DOMAIN configs \ DOMAIN new, kept |-> <<>>]
  BY DEF Reconfigure
<1>2. DOMAIN new \subseteq Servers /\ DOMAIN configs \subseteq Servers
  BY ConfigsTyped DEF RuntimeTypes
<1>3. <<>> \in Seq(Entry)  OBVIOUS
<1>4. loop' \in Loop /\ loop'.changed \subseteq DOMAIN new  BY <1>1, <1>2, <1>3 DEF Loop
<1>5. /\ configs' \in Configs /\ entries' \in Seq(Entry) /\ statuses' \in Seq(Rows)
      /\ DOMAIN offered' \subseteq Servers /\ offered' \in [DOMAIN offered' -> Handles]
      /\ refresh' \in [Refreshers -> Refresh] /\ off' \subseteq Servers
  BY <1>1 DEF RuntimeTypes
<1> QED  BY <1>1, <1>4, <1>5 DEF RuntimeTypes

LEMMA SplitTypes == ASSUME RuntimeTypes, Split PROVE RuntimeTypes'
<1>1. /\ UNCHANGED <<configs, entries, statuses, refresh, off>>
      /\ loop' = [loop EXCEPT !.at = "connecting",
                              !.kept = Without(entries, loop.removed \cup loop.changed)]
      /\ offered' = [n \in (DOMAIN offered \cup loop.changed) \ loop.removed |->
                       IF n \in loop.changed THEN NoHandle ELSE offered[n]]
  BY DEF Split
<1>2. Without(entries, loop.removed \cup loop.changed) \in Seq(Entry)
  BY WithoutIs DEF RuntimeTypes
<1>3. loop' \in Loop /\ loop'.changed = loop.changed  BY <1>1, <1>2 DEF RuntimeTypes, Loop
<1>4. DOMAIN offered' \subseteq Servers /\ offered' \in [DOMAIN offered' -> Handles]
  <2>1. DOMAIN offered' = (DOMAIN offered \cup loop.changed) \ loop.removed  BY <1>1
  <2>2. \A n \in DOMAIN offered' : offered'[n] \in Handles  BY <1>1 DEF RuntimeTypes, Handles
  <2>3. offered' \in [DOMAIN offered' -> Handles]  BY <1>1, <2>2
  <2> QED  BY <2>1, <2>3 DEF RuntimeTypes, Loop
<1> QED  BY <1>1, <1>3, <1>4 DEF RuntimeTypes

LEMMA SpliceIs ==
  ASSUME RuntimeTypes, Splice
  PROVE  \E up \in SUBSET loop.changed : Publish(ByName(Combined(up)))
BY DEF Splice, Combined, Fresh

LEMMA SpliceTypes == ASSUME RuntimeTypes, Splice PROVE RuntimeTypes'
<1>1. loop' = Ready /\ UNCHANGED <<configs, refresh, off>>  BY DEF Splice
<1>2. PICK up \in SUBSET loop.changed : Publish(ByName(Combined(up)))  BY SpliceIs
<1>3. Combined(up) \in Seq(Entry)  BY CombinedIs
<1>4. ByName(Combined(up)) \in Seq(Entry)  BY <1>3, ByNameIs
<1>5. /\ entries' \in Seq(Entry) /\ statuses' \in Seq(Rows)
      /\ DOMAIN offered' \subseteq Servers /\ offered' \in [DOMAIN offered' -> Handles]
  BY <1>2, <1>4, PublishKeepsTypes
<1>6. <<>> \in Seq(Entry)  OBVIOUS
<1>7. loop' \in Loop /\ loop'.changed = {}  BY <1>1, <1>6 DEF Ready, Loop
<1> QED  BY <1>1, <1>5, <1>7 DEF RuntimeTypes

(* The jobs of a refresh and what they bring. *)
LEMMA JobsListed ==
  ASSUME entries \in Seq(Entry)
  PROVE  [i \in DOMAIN entries |-> JobOf(entries[i])] \in Seq(Jobs)
<1>1. DOMAIN entries = 1..Len(entries) /\ Len(entries) \in Nat
      /\ \A i \in DOMAIN entries : entries[i] \in Entry
  BY ListTyped
<1>2. \A e \in Entry : JobOf(e) \in Jobs  BY DEF JobOf, Job, Jobs, Entry, Handles
<1>3. [i \in DOMAIN entries |-> JobOf(entries[i])] \in [1..Len(entries) -> Jobs]  BY <1>1, <1>2
<1> QED  BY <1>1, <1>3, SeqDef

LEMMA JobsTyped ==
  ASSUME NEW jobs \in Seq(Jobs)
  PROVE  /\ DOMAIN jobs = 1..Len(jobs) /\ Len(jobs) \in Nat
         /\ \A i \in DOMAIN jobs : jobs[i] \in Jobs
BY LenProperties

LEMMA RefreshTyped ==
  ASSUME RuntimeTypes, NEW t \in Refreshers
  PROVE  refresh[t] \in Refresh /\ refresh[t].jobs \in Seq(Jobs)
BY DEF RuntimeTypes, Refresh

LEMMA ListTypes ==
  ASSUME RuntimeTypes, NEW t \in Refreshers, List(t)
  PROVE  RuntimeTypes'
<1>1. /\ UNCHANGED <<configs, entries, offered, statuses, loop, off>>
      /\ refresh' = [refresh EXCEPT ![t] = [at |-> "listed", jobs |-> [i \in DOMAIN entries |-> JobOf(entries[i])]]]
  BY DEF List
<1>2. [i \in DOMAIN entries |-> JobOf(entries[i])] \in Seq(Jobs)  BY JobsListed DEF RuntimeTypes
<1>3. [at |-> "listed", jobs |-> [i \in DOMAIN entries |-> JobOf(entries[i])]] \in Refresh
  BY <1>2 DEF Refresh
<1>4. refresh' \in [Refreshers -> Refresh]  BY <1>1, <1>3 DEF RuntimeTypes
<1> QED  BY <1>1, <1>4 DEF RuntimeTypes

(* The settings of now, for a connection that has none. *)
Reread(job) ==
    IF job.do = "connect" /\ job.name \in DOMAIN configs
    THEN [job EXCEPT !.with = configs[job.name]] ELSE job

LEMMA RereadIs ==
  ASSUME RuntimeTypes, NEW job \in Jobs
  PROVE  /\ Reread(job) \in Jobs /\ Reread(job).name = job.name /\ Reread(job).do = job.do
         /\ \/ Reread(job) = job
            \/ /\ job.do = "connect" /\ job.name \in DOMAIN configs
               /\ Reread(job).with = configs[job.name]
<1>1. CASE job.do = "connect" /\ job.name \in DOMAIN configs
  <2>1. configs[job.name] \in Handles  BY <1>1, ConfigsTyped DEF RuntimeTypes
  <2>2. Reread(job) = [job EXCEPT !.with = configs[job.name]]  BY <1>1 DEF Reread
  <2> QED  BY <2>1, <2>2, <1>1 DEF Jobs
<1>2. CASE ~(job.do = "connect" /\ job.name \in DOMAIN configs)
  BY <1>2 DEF Reread
<1> QED  BY <1>1, <1>2

LEMMA ReadConfigsIs ==
  ASSUME RuntimeTypes, NEW t \in Refreshers, ReadConfigs(t)
  PROVE  \E jobs \in Seq(Jobs) :
            /\ refresh' = [refresh EXCEPT ![t] = [at |-> "connecting", jobs |-> jobs]]
            /\ DOMAIN jobs = DOMAIN refresh[t].jobs
            /\ \A i \in DOMAIN jobs : jobs[i] = Reread(refresh[t].jobs[i])
<1> DEFINE jobs == [i \in DOMAIN refresh[t].jobs |-> Reread(refresh[t].jobs[i])]
<1>1. refresh' = [refresh EXCEPT ![t] = [at |-> "connecting", jobs |-> jobs]]
  BY DEF ReadConfigs, Reread
<1>2. refresh[t].jobs \in Seq(Jobs)  BY RefreshTyped
<1>3. /\ DOMAIN refresh[t].jobs = 1..Len(refresh[t].jobs) /\ Len(refresh[t].jobs) \in Nat
      /\ \A i \in DOMAIN refresh[t].jobs : refresh[t].jobs[i] \in Jobs
  BY <1>2, JobsTyped
<1>4. \A i \in DOMAIN refresh[t].jobs : Reread(refresh[t].jobs[i]) \in Jobs  BY <1>3, RereadIs
<1>5. jobs \in [1..Len(refresh[t].jobs) -> Jobs]  BY <1>3, <1>4
<1>6. jobs \in Seq(Jobs)  BY <1>3, <1>5, SeqDef
<1> QED  BY <1>1, <1>6

LEMMA ReadConfigsTypes ==
  ASSUME RuntimeTypes, NEW t \in Refreshers, ReadConfigs(t)
  PROVE  RuntimeTypes'
<1>1. UNCHANGED <<configs, entries, offered, statuses, loop, off>>  BY DEF ReadConfigs
<1>2. PICK jobs \in Seq(Jobs) : refresh' = [refresh EXCEPT ![t] = [at |-> "connecting", jobs |-> jobs]]
  BY ReadConfigsIs
<1>3. [at |-> "connecting", jobs |-> jobs] \in Refresh  BY DEF Refresh
<1>4. refresh' \in [Refreshers -> Refresh]  BY <1>2, <1>3 DEF RuntimeTypes
<1> QED  BY <1>1, <1>4 DEF RuntimeTypes

LEMMA ResultIs ==
  ASSUME NEW job \in Jobs, NEW ok \in BOOLEAN
  PROVE  /\ Result(job, ok) \in Entry /\ Result(job, ok).name = job.name
         /\ Result(job, ok).server \in {NoHandle, job.with} /\ Result(job, ok).tools \in {NoHandle, job.with}
<1>1. job.name \in Servers /\ job.with \in Handles  BY DEF Jobs
<1> QED  BY <1>1 DEF Result, Connect, Reconnect, Live, Unreached, Failed, Disabled, Entry, Handles, Statuses

(* The list a refresh writes, in which the places of its jobs have results. *)
Written(t, up) ==
    [i \in DOMAIN entries |->
        IF i \in DOMAIN refresh[t].jobs /\ refresh[t].jobs[i].do # "skip"
        THEN Result(refresh[t].jobs[i], i \in up) ELSE entries[i]]

LEMMA WrittenIs ==
  ASSUME RuntimeTypes, NEW t \in Refreshers, NEW up
  PROVE  /\ Written(t, up) \in Seq(Entry) /\ DOMAIN Written(t, up) = DOMAIN entries
         /\ \A i \in DOMAIN entries :
               \/ Written(t, up)[i] = entries[i]
               \/ /\ i \in DOMAIN refresh[t].jobs /\ refresh[t].jobs[i].do # "skip"
                  /\ Written(t, up)[i] = Result(refresh[t].jobs[i], i \in up)
<1>1. /\ DOMAIN entries = 1..Len(entries) /\ Len(entries) \in Nat
      /\ \A i \in DOMAIN entries : entries[i] \in Entry
  BY ListTyped DEF RuntimeTypes
<1>2. \A i \in DOMAIN refresh[t].jobs : refresh[t].jobs[i] \in Jobs
  BY RefreshTyped, JobsTyped
<1>3. ASSUME NEW i \in DOMAIN refresh[t].jobs  PROVE Result(refresh[t].jobs[i], i \in up) \in Entry
  <2>1. \A job \in Jobs : Result(job, i \in up) \in Entry
    BY DEF Result, Connect, Reconnect, Live, Unreached, Failed, Disabled, Jobs, Entry, Handles, Statuses
  <2> QED  BY <2>1, <1>2
<1>4. Written(t, up) \in [1..Len(entries) -> Entry]  BY <1>1, <1>3 DEF Written
<1>5. Written(t, up) \in Seq(Entry)  BY <1>1, <1>4, SeqDef
<1> QED  BY <1>5 DEF Written

LEMMA WriteBackIs ==
  ASSUME RuntimeTypes, NEW t \in Refreshers, WriteBack(t)
  PROVE  \E up, over :
           /\ over \in Refresh /\ over.at \notin {"listed", "connecting"}
           /\ refresh' = [refresh EXCEPT ![t] = over]
           /\ \/ Publish(Written(t, up))
              \/ entries' = Written(t, up) /\ UNCHANGED <<offered, statuses>>
           /\ (\A i \in DOMAIN refresh[t].jobs : i \in DOMAIN entries) => Publish(Written(t, up))
<1> DEFINE jobs == refresh[t].jobs
           done == {i \in DOMAIN jobs : jobs[i].do # "skip"}
           over == Resting(IF t = "first" THEN "over" ELSE "idle")
           list(up) == [i \in DOMAIN entries |->
                          IF i \in done THEN Result(jobs[i], i \in up) ELSE entries[i]]
<1>1. PICK up \in SUBSET done :
         IF done \subseteq DOMAIN entries
         THEN Publish(list(up)) /\ refresh' = [refresh EXCEPT ![t] = over]
         ELSE /\ entries' = list(up) /\ UNCHANGED <<offered, statuses>>
              /\ refresh' = [refresh EXCEPT ![t] = Resting("dead")]
  BY DEF WriteBack
<1>2. list(up) = Written(t, up)  BY DEF Written
<1>3. /\ over \in Refresh /\ over.at \notin {"listed", "connecting"}
      /\ Resting("dead") \in Refresh /\ Resting("dead").at \notin {"listed", "connecting"}
  <2>1. <<>> \in Seq(Jobs)  OBVIOUS
  <2> QED  BY <2>1 DEF Resting, Refresh
<1> HIDE DEF over, list
<1>4. CASE done \subseteq DOMAIN entries
  <2>1. Publish(Written(t, up)) /\ refresh' = [refresh EXCEPT ![t] = over]  BY <1>1, <1>2, <1>4
  <2> QED  BY <2>1, <1>3
<1>5. CASE ~(done \subseteq DOMAIN entries)
  <2>1. /\ entries' = Written(t, up) /\ UNCHANGED <<offered, statuses>>
        /\ refresh' = [refresh EXCEPT ![t] = Resting("dead")]
    BY <1>1, <1>2, <1>5
  <2>2. ~(\A i \in DOMAIN refresh[t].jobs : i \in DOMAIN entries)  BY <1>5
  <2> QED  BY <2>1, <2>2, <1>3
<1> QED  BY <1>4, <1>5

LEMMA WriteBackTypes ==
  ASSUME RuntimeTypes, NEW t \in Refreshers, WriteBack(t)
  PROVE  RuntimeTypes'
<1>1. UNCHANGED <<configs, loop, off>>  BY DEF WriteBack
<1>2. PICK up, over :
           /\ over \in Refresh
           /\ refresh' = [refresh EXCEPT ![t] = over]
           /\ \/ Publish(Written(t, up))
              \/ entries' = Written(t, up) /\ UNCHANGED <<offered, statuses>>
  BY WriteBackIs
<1>3. Written(t, up) \in Seq(Entry)  BY WrittenIs
<1>4. /\ entries' \in Seq(Entry) /\ statuses' \in Seq(Rows)
      /\ DOMAIN offered' \subseteq Servers /\ offered' \in [DOMAIN offered' -> Handles]
  <2>1. CASE Publish(Written(t, up))  BY <2>1, <1>3, PublishKeepsTypes
  <2>2. CASE entries' = Written(t, up) /\ UNCHANGED <<offered, statuses>>
    BY <2>2, <1>3 DEF RuntimeTypes
  <2> QED  BY <2>1, <2>2, <1>2
<1>5. refresh' \in [Refreshers -> Refresh]  BY <1>2 DEF RuntimeTypes
<1> QED  BY <1>1, <1>4, <1>5 DEF RuntimeTypes

LEMMA NextTypes == ASSUME RuntimeTypes, [RuntimeNext]_runtimeVars PROVE RuntimeTypes'
<1>1. CASE UNCHANGED runtimeVars  BY <1>1 DEF runtimeVars, RuntimeTypes
<1>2. ASSUME NEW t \in Refreshers, RefreshStep(t)  PROVE RuntimeTypes'
  BY <1>2, ListTypes, ReadConfigsTypes, WriteBackTypes DEF RefreshStep
<1>3. CASE LoopStep  BY <1>3, SplitTypes, SpliceTypes DEF LoopStep
<1>4. ASSUME NEW n \in Servers, SwitchOn(n) \/ SwitchOff(n) \/ ReconnectOne(n)  PROVE RuntimeTypes'
  BY <1>4, SwitchOnTypes, SwitchOffTypes, ReconnectOneTypes
<1>5. ASSUME NEW new \in Configs, Reconfigure(new)  PROVE RuntimeTypes'
  BY <1>5, ReconfigureTypes
<1> QED  BY <1>1, <1>2, <1>3, <1>4, <1>5 DEF RuntimeNext

LEMMA TypesHold == RuntimeSpec => []RuntimeTypes
<1>1. RuntimeInit => RuntimeTypes  BY InitTypes
<1>2. RuntimeTypes /\ [RuntimeNext]_runtimeVars => RuntimeTypes'  BY NextTypes
<1> QED  BY <1>1, <1>2, PTL DEF RuntimeSpec

(* The settings, the list, the offer and the table are of their types, and so *)
(* are the locals of a reconfiguration and of a refresh, whatever falls into  *)
(* what.                                                                      *)
THEOREM RuntimeTypeCorrect == RuntimeSpec => []RuntimeTypeOK
<1>1. RuntimeTypes => RuntimeTypeOK
  <2> SUFFICES ASSUME RuntimeTypes  PROVE RuntimeTypeOK
    OBVIOUS
  <2>1. \A n \in DOMAIN offered : offered[n] \in Handles  BY DEF RuntimeTypes
  <2>2. loop.at \in {"ready", "diffed", "connecting"} /\ loop.changed \cup loop.removed \subseteq Servers
        /\ loop.kept \in Seq(Entry)
    BY DEF RuntimeTypes, Loop
  <2>3. \A t \in Refreshers : /\ refresh[t].at \in {"idle", "listed", "connecting", "over", "dead"}
                              /\ refresh[t].jobs \in Seq(Jobs)
    BY DEF RuntimeTypes, Refresh
  <2> QED  BY <2>1, <2>2, <2>3 DEF RuntimeTypes, RuntimeTypeOK, Rows
<1> QED  BY <1>1, TypesHold, PTL

-----------------------------------------------------------------------------
(* The list, if no reconfiguration falls into a refresh.                      *)

Active(t) == refresh[t].at \in {"listed", "connecting"}

(* An entry with handle and tools of the settings in force, or without. *)
Fits(e) == {e.server, e.tools} \subseteq {NoHandle, configs[e.name]}

(* The servers a reconfiguration leaves alone, and the list that has them: the *)
(* entries, or in the end the copy.                                           *)
Unchanged == DOMAIN configs \ loop.changed

Copied == IF loop.at = "connecting" THEN loop.kept ELSE entries

LoopShape ==
    /\ loop.removed \cap DOMAIN configs = {}
    /\ loop.at = "ready" => (loop.changed = {} /\ loop.removed = {})
    /\ loop.at # "ready" => \A t \in Refreshers : ~Active(t)

ListShape ==
    /\ Ascending(Copied)
    /\ Names(Copied) \ (loop.changed \cup loop.removed) = Unchanged
    /\ loop.at = "connecting" => Names(Copied) = Unchanged
    /\ \A i \in DOMAIN Copied : Copied[i].name \in Unchanged => Fits(Copied[i])

OfferShape ==
    /\ DOMAIN offered = IF loop.at = "connecting" THEN DOMAIN configs ELSE Names(entries)
    /\ \A i \in DOMAIN Copied : offered[Copied[i].name] = Copied[i].tools
    /\ loop.at = "connecting" => \A n \in loop.changed : offered[n] = NoHandle

(* A refresh has a job for each entry, with the settings in force or none. *)
JobsFit(t) ==
    /\ DOMAIN refresh[t].jobs = DOMAIN entries
    /\ \A i \in DOMAIN entries :
          /\ refresh[t].jobs[i].name = entries[i].name
          /\ refresh[t].jobs[i].with \in {NoHandle, configs[entries[i].name]}

JobShape == \A t \in Refreshers : Active(t) => JobsFit(t)

ListInv ==
    /\ RuntimeTypes /\ LoopShape /\ ListShape /\ OfferShape /\ JobShape
    /\ statuses = Table(entries)

LEMMA ReadyList ==
  ASSUME ListInv, loop.at = "ready"
  PROVE  /\ entries \in Seq(Entry) /\ Ascending(entries) /\ Names(entries) = DOMAIN configs
         /\ \A i \in DOMAIN entries : entries[i].name \in DOMAIN configs /\ Fits(entries[i])
         /\ DOMAIN offered = DOMAIN configs
         /\ \A i \in DOMAIN entries : offered[entries[i].name] = entries[i].tools
<1>1. Copied = entries /\ loop.changed = {} /\ loop.removed = {} /\ Unchanged = DOMAIN configs
  BY DEF ListInv, LoopShape, Copied, Unchanged
<1>2. entries \in Seq(Entry) /\ Ascending(entries) /\ Names(entries) = DOMAIN configs
  BY <1>1 DEF ListInv, ListShape, RuntimeTypes
<1>3. \A i \in DOMAIN entries : entries[i].name \in DOMAIN configs  BY <1>2 DEF Names
<1> QED  BY <1>1, <1>2, <1>3 DEF ListInv, ListShape, OfferShape

(* A list of the same names is published between two requests. *)
LEMMA InPlace ==
  ASSUME ListInv, RuntimeTypes', loop.at = "ready", UNCHANGED <<configs, loop>>,
         NEW list \in Seq(Entry), DOMAIN list = DOMAIN entries,
         \A i \in DOMAIN entries : list[i].name = entries[i].name /\ Fits(list[i]),
         Publish(list)
  PROVE  LoopShape' /\ ListShape' /\ OfferShape' /\ statuses' = Table(entries')
<1>1. entries' = list /\ offered' = Published(list, offered) /\ statuses' = Table(list)
  BY DEF Publish
<1>2. /\ Ascending(entries) /\ Names(entries) = DOMAIN configs /\ DOMAIN offered = DOMAIN configs
  BY ReadyList
<1>3. Ascending(list) /\ Names(list) = Names(entries)
  BY <1>2 DEF Ascending, Names
<1>4. Copied' = list /\ loop'.at = "ready" /\ loop'.changed = {} /\ loop'.removed = {}
      /\ Unchanged' = DOMAIN configs
  BY <1>1 DEF ListInv, LoopShape, Copied, Unchanged
<1>5. LoopShape'  BY <1>4 DEF LoopShape
<1>6. ListShape'  BY <1>2, <1>3, <1>4 DEF ListShape, Fits
<1>7. OfferShape'
  <2>1. DOMAIN Published(list, offered) = DOMAIN offered \cup Names(list)  BY PublishedIs
  <2>2. DOMAIN offered' = Names(list)  BY <1>1, <1>2, <1>3, <2>1
  <2>3. \A i \in DOMAIN list : Published(list, offered)[list[i].name] = list[i].tools
    BY <1>3, PublishedEach
  <2> QED  BY <1>1, <1>4, <2>2, <2>3 DEF OfferShape
<1> QED  BY <1>1, <1>5, <1>6, <1>7

(* The jobs fit the new list as they did the old. *)
LEMMA InPlaceJobs ==
  ASSUME ListInv, UNCHANGED configs, NEW list \in Seq(Entry), entries' = list,
         DOMAIN list = DOMAIN entries, \A i \in DOMAIN entries : list[i].name = entries[i].name,
         NEW t \in Refreshers, UNCHANGED refresh[t], Active(t)'
  PROVE  JobsFit(t)'
<1>1. JobsFit(t)  BY DEF ListInv, JobShape, Active
<1> QED  BY <1>1 DEF JobsFit

(* One entry is replaced by one that fits: a switch or a reconnect. *)
LEMMA ReplacedStep ==
  ASSUME ListInv, RuntimeTypes', loop.at = "ready", UNCHANGED <<configs, loop, refresh>>,
         NEW p \in DOMAIN entries, NEW e \in Entry, e.name = entries[p].name, Fits(e),
         Publish([entries EXCEPT ![p] = e])
  PROVE  ListInv'
<1>1. PICK list : list = [entries EXCEPT ![p] = e]  OBVIOUS
<1>2. /\ list \in Seq(Entry) /\ DOMAIN list = DOMAIN entries /\ list[p] = e
      /\ \A i \in DOMAIN entries \ {p} : list[i] = entries[i]
  BY <1>1, Replaced DEF ListInv, RuntimeTypes
<1>3. \A i \in DOMAIN entries : list[i].name = entries[i].name /\ Fits(list[i])
  BY <1>2, ReadyList
<1>4. Publish(list)  BY <1>1
<1>5. LoopShape' /\ ListShape' /\ OfferShape' /\ statuses' = Table(entries')
  BY <1>2, <1>3, <1>4, InPlace
<1>6. entries' = list  BY <1>4 DEF Publish
<1>7. \A t \in Refreshers : UNCHANGED refresh[t]  OBVIOUS
<1>8. JobShape'  BY <1>2, <1>3, <1>6, <1>7, InPlaceJobs DEF JobShape
<1> QED  BY <1>5, <1>8 DEF ListInv

LEMMA SwitchOnStep ==
  ASSUME ListInv, RuntimeTypes', NEW n \in Servers, SwitchOn(n)
  PROVE  ListInv'
<1>1. /\ loop.at = "ready" /\ n \in DOMAIN configs /\ Place(n) # 0
      /\ UNCHANGED <<configs, loop, refresh>>
  BY DEF SwitchOn, May
<1>2. Place(n) \in DOMAIN entries /\ entries[Place(n)].name = n
  BY <1>1, PlaceIs DEF ListInv, RuntimeTypes
<1>3. CASE UNCHANGED <<entries, offered, statuses>>
  BY <1>1, <1>3 DEF ListInv, LoopShape, ListShape, OfferShape, JobShape, JobsFit, Active, Fits,
                    Copied, Unchanged
<1>4. ASSUME NEW ok \in BOOLEAN, Publish([entries EXCEPT ![Place(n)] = Connect(n, configs[n], ok)])
      PROVE  ListInv'
  <2>1. configs[n] \in Handles  BY <1>1, ConfigsTyped DEF ListInv, RuntimeTypes
  <2>2. PICK e : e = Connect(n, configs[n], ok)  OBVIOUS
  <2>3. e \in Entry /\ e.name = n /\ Fits(e)  BY <2>1, <2>2, EntriesMade DEF Fits
  <2>4. PICK p : p = Place(n)  OBVIOUS
  <2>5. p \in DOMAIN entries /\ e.name = entries[p].name /\ Publish([entries EXCEPT ![p] = e])
    BY <1>2, <1>4, <2>2, <2>3, <2>4
  <2> QED  BY <1>1, <2>3, <2>5, ReplacedStep
<1> QED  BY <1>3, <1>4 DEF SwitchOn

LEMMA SwitchOffStep ==
  ASSUME ListInv, RuntimeTypes', NEW n \in Servers, SwitchOff(n)
  PROVE  ListInv'
<1>1. /\ loop.at = "ready" /\ n \in DOMAIN configs /\ Place(n) # 0
      /\ UNCHANGED <<configs, loop, refresh>> /\ Publish([entries EXCEPT ![Place(n)] = Disabled(n)])
  BY DEF SwitchOff, May
<1>2. Place(n) \in DOMAIN entries /\ entries[Place(n)].name = n
  BY <1>1, PlaceIs DEF ListInv, RuntimeTypes
<1>3. PICK e : e = Disabled(n)  OBVIOUS
<1>4. NoHandle \in Handles  BY DEF Handles
<1>5. e \in Entry /\ e.name = n /\ Fits(e)  BY <1>3, <1>4, EntriesMade DEF Fits
<1>6. PICK p : p = Place(n)  OBVIOUS
<1>7. p \in DOMAIN entries /\ e.name = entries[p].name /\ Publish([entries EXCEPT ![p] = e])
  BY <1>1, <1>2, <1>3, <1>5, <1>6
<1> QED  BY <1>1, <1>5, <1>7, ReplacedStep

LEMMA ReconnectOneStep ==
  ASSUME ListInv, RuntimeTypes', NEW n \in Servers, ReconnectOne(n)
  PROVE  ListInv'
<1>1. /\ loop.at = "ready" /\ n \in DOMAIN configs /\ Place(n) # 0
      /\ UNCHANGED <<configs, loop, refresh>>
  BY DEF ReconnectOne, May
<1>2. Place(n) \in DOMAIN entries /\ entries[Place(n)].name = n
  BY <1>1, PlaceIs DEF ListInv, RuntimeTypes
<1>3. PICK ok \in BOOLEAN :
         /\ Publish([entries EXCEPT ![Place(n)] = Reached(n, entries[Place(n)], ok)])
         /\ Reached(n, entries[Place(n)], ok) \in Entry
  BY ReachedIs DEF ListInv
<1>4. PICK p : p = Place(n)  OBVIOUS
<1>5. PICK e : e = Reached(n, entries[p], ok)  OBVIOUS
<1>6. e.name = n /\ Fits(e)
  <2>1. configs[n] \in Handles /\ configs[n] # NoHandle  BY <1>1, ConfigsTyped DEF ListInv, RuntimeTypes
  <2>2. entries[p].server \in {NoHandle, configs[n]}
    BY <1>1, <1>2, <1>4, ReadyList DEF Fits
  <2>3. CASE entries[p].server = NoHandle
    <3>1. e = Connect(n, configs[n], ok)  BY <1>5, <2>3 DEF Reached
    <3> QED  BY <2>1, <3>1, EntriesMade DEF Fits
  <2>4. CASE entries[p].server = configs[n]
    <3>1. e = Reconnect(n, configs[n], ok)  BY <1>5, <2>1, <2>4 DEF Reached
    <3> QED  BY <2>1, <3>1, EntriesMade DEF Fits
  <2> QED  BY <2>2, <2>3, <2>4
<1>7. /\ p \in DOMAIN entries /\ e \in Entry /\ e.name = entries[p].name
      /\ Publish([entries EXCEPT ![p] = e])
  BY <1>2, <1>3, <1>4, <1>5, <1>6
<1> QED  BY <1>1, <1>6, <1>7, ReplacedStep

(* While a refresh has jobs the request loop is between two requests. *)
LEMMA ActiveReady ==
  ASSUME ListInv, NEW t \in Refreshers, Active(t)
  PROVE  loop.at = "ready" /\ JobsFit(t)
BY DEF ListInv, LoopShape, JobShape

(* The step of a refresh that changes its jobs and not the list. *)
LEMMA JobsStep ==
  ASSUME ListInv, RuntimeTypes', NEW t \in Refreshers, loop.at = "ready",
         UNCHANGED <<configs, entries, offered, statuses, loop>>,
         NEW r, refresh' = [refresh EXCEPT ![t] = r],
         DOMAIN r.jobs = DOMAIN entries,
         \A i \in DOMAIN entries :
            /\ r.jobs[i].name = entries[i].name
            /\ r.jobs[i].with \in {NoHandle, configs[entries[i].name]}
  PROVE  ListInv'
<1>1. refresh'[t] = r /\ \A u \in Refreshers \ {t} : refresh'[u] = refresh[u]
  BY DEF ListInv, RuntimeTypes
<1>2. ASSUME NEW u \in Refreshers, Active(u)'  PROVE JobsFit(u)'
  <2>1. CASE u = t  BY <2>1, <1>1 DEF JobsFit
  <2>2. CASE u # t
    <3>1. refresh'[u] = refresh[u]  BY <1>1, <2>2
    <3>2. JobsFit(u)  BY <1>2, <3>1 DEF ListInv, JobShape, Active
    <3> QED  BY <3>1, <3>2 DEF JobsFit
  <2> QED  BY <2>1, <2>2
<1>3. LoopShape' /\ ListShape' /\ OfferShape' /\ statuses' = Table(entries')
  BY DEF ListInv, LoopShape, ListShape, OfferShape, Fits, Copied, Unchanged
<1> QED  BY <1>2, <1>3 DEF ListInv, JobShape

LEMMA ListStep ==
  ASSUME ListInv, RuntimeTypes', "reconfigure" \notin Crossing, NEW t \in Refreshers, List(t)
  PROVE  ListInv'
<1> DEFINE jobs == [i \in DOMAIN entries |-> JobOf(entries[i])]
<1>1. /\ loop.at = "ready" /\ UNCHANGED <<configs, entries, offered, statuses, loop>>
      /\ refresh' = [refresh EXCEPT ![t] = [at |-> "listed", jobs |-> jobs]]
  BY DEF List
<1>2. PICK r : r = [at |-> "listed", jobs |-> jobs]  OBVIOUS
<1>3. ASSUME NEW i \in DOMAIN entries
      PROVE  /\ r.jobs[i].name = entries[i].name
             /\ r.jobs[i].with \in {NoHandle, configs[entries[i].name]}
  <2>1. entries[i].server \in {NoHandle, configs[entries[i].name]}  BY <1>1, ReadyList DEF Fits
  <2>2. r.jobs[i] = JobOf(entries[i])  BY <1>2
  <2> QED  BY <2>1, <2>2 DEF JobOf, Job
<1>4. DOMAIN r.jobs = DOMAIN entries  BY <1>2
<1>5. refresh' = [refresh EXCEPT ![t] = r]  BY <1>1, <1>2
<1> QED  BY <1>1, <1>3, <1>4, <1>5, JobsStep

LEMMA ReadConfigsStep ==
  ASSUME ListInv, RuntimeTypes', NEW t \in Refreshers, ReadConfigs(t)
  PROVE  ListInv'
<1>1. Active(t) /\ UNCHANGED <<configs, entries, offered, statuses, loop>>
  BY DEF ReadConfigs, Active
<1>2. loop.at = "ready" /\ JobsFit(t)  BY <1>1, ActiveReady
<1>3. PICK jobs \in Seq(Jobs) :
            /\ refresh' = [refresh EXCEPT ![t] = [at |-> "connecting", jobs |-> jobs]]
            /\ DOMAIN jobs = DOMAIN refresh[t].jobs
            /\ \A i \in DOMAIN jobs : jobs[i] = Reread(refresh[t].jobs[i])
  BY ReadConfigsIs DEF ListInv
<1>4. PICK r : r = [at |-> "connecting", jobs |-> jobs]  OBVIOUS
<1>5. DOMAIN r.jobs = DOMAIN entries  BY <1>2, <1>3, <1>4 DEF JobsFit
<1>6. ASSUME NEW i \in DOMAIN entries
      PROVE  /\ r.jobs[i].name = entries[i].name
             /\ r.jobs[i].with \in {NoHandle, configs[entries[i].name]}
  <2>1. PICK job : job = refresh[t].jobs[i]  OBVIOUS
  <2>2. job \in Jobs  BY <1>2, <2>1, RefreshTyped, JobsTyped DEF JobsFit, ListInv
  <2>3. job.name = entries[i].name /\ job.with \in {NoHandle, configs[job.name]}
    BY <1>2, <2>1 DEF JobsFit
  <2>4. r.jobs[i] = Reread(job)  BY <1>3, <1>4, <1>5, <2>1
  <2>5. Reread(job).name = job.name /\ (Reread(job) = job \/ Reread(job).with = configs[job.name])
    BY <2>2, RereadIs DEF ListInv
  <2> QED  BY <2>3, <2>4, <2>5
<1>7. refresh' = [refresh EXCEPT ![t] = r]  BY <1>3, <1>4
<1> QED  BY <1>1, <1>2, <1>5, <1>6, <1>7, JobsStep

LEMMA WriteBackStep ==
  ASSUME ListInv, RuntimeTypes', NEW t \in Refreshers, WriteBack(t)
  PROVE  ListInv'
<1>1. Active(t) /\ UNCHANGED <<configs, loop>>  BY DEF WriteBack, Active
<1>2. loop.at = "ready" /\ JobsFit(t)  BY <1>1, ActiveReady
<1>3. PICK up, over :
           /\ over \in Refresh /\ over.at \notin {"listed", "connecting"}
           /\ refresh' = [refresh EXCEPT ![t] = over]
           /\ (\A i \in DOMAIN refresh[t].jobs : i \in DOMAIN entries) => Publish(Written(t, up))
  BY WriteBackIs DEF ListInv
<1>4. PICK list : list = Written(t, up)  OBVIOUS
<1>5. Publish(list)  BY <1>2, <1>3, <1>4 DEF JobsFit
<1>6. /\ list \in Seq(Entry) /\ DOMAIN list = DOMAIN entries
      /\ \A i \in DOMAIN entries :
               \/ list[i] = entries[i]
               \/ /\ i \in DOMAIN refresh[t].jobs
                  /\ list[i] = Result(refresh[t].jobs[i], i \in up)
  BY <1>4, WrittenIs DEF ListInv
<1>7. ASSUME NEW i \in DOMAIN entries
      PROVE  list[i].name = entries[i].name /\ Fits(list[i])
  <2>1. CASE list[i] = entries[i]  BY <2>1, <1>2, ReadyList
  <2>2. CASE list[i] = Result(refresh[t].jobs[i], i \in up) /\ i \in DOMAIN refresh[t].jobs
    <3>1. PICK job : job = refresh[t].jobs[i]  OBVIOUS
    <3>2. job \in Jobs  BY <2>2, <3>1, RefreshTyped, JobsTyped DEF ListInv
    <3>3. job.name = entries[i].name /\ job.with \in {NoHandle, configs[entries[i].name]}
      BY <1>2, <3>1 DEF JobsFit
    <3>4. list[i] = Result(job, i \in up)  BY <2>2, <3>1
    <3>5. /\ list[i].name = job.name
          /\ list[i].server \in {NoHandle, job.with} /\ list[i].tools \in {NoHandle, job.with}
      BY <3>2, <3>4 DEF Result, Connect, Reconnect, Live, Unreached, Failed, Disabled, Jobs
    <3> QED  BY <3>3, <3>5 DEF Fits
  <2> QED  BY <2>1, <2>2, <1>6
<1>8. LoopShape' /\ ListShape' /\ OfferShape' /\ statuses' = Table(entries')
  BY <1>1, <1>2, <1>5, <1>6, <1>7, InPlace
<1>9. refresh'[t] = over /\ \A u \in Refreshers \ {t} : refresh'[u] = refresh[u]
  BY <1>3 DEF ListInv, RuntimeTypes
<1>10. entries' = list  BY <1>5 DEF Publish
<1>11. ASSUME NEW u \in Refreshers, Active(u)'  PROVE JobsFit(u)'
  <2>1. u # t  BY <1>3, <1>9, <1>11 DEF Active
  <2>2. UNCHANGED refresh[u]  BY <1>9, <2>1
  <2> QED  BY <1>1, <1>6, <1>7, <1>10, <1>11, <2>2, InPlaceJobs
<1> QED  BY <1>8, <1>11 DEF ListInv, JobShape

LEMMA ReconfigureStep ==
  ASSUME ListInv, RuntimeTypes', "reconfigure" \notin Crossing,
         NEW new \in Configs, Reconfigure(new)
  PROVE  ListInv'
<1>1. /\ loop.at = "ready" /\ configs' = new /\ UNCHANGED <<entries, offered, statuses, refresh>>
      /\ loop' = [at |-> "diffed",
                  changed |-> {n \in DOMAIN new : n \notin DOMAIN configs \/ configs[n] # new[n]},
                  removed |-> DOMAIN configs \ DOMAIN new, kept |-> <<>>]
  BY DEF Reconfigure, May
<1>2. \A t \in Refreshers : ~Active(t)  BY DEF Reconfigure, May, Refreshing, Active
<1>3. /\ Ascending(entries) /\ Names(entries) = DOMAIN configs /\ DOMAIN offered = DOMAIN configs
      /\ \A i \in DOMAIN entries : entries[i].name \in DOMAIN configs /\ Fits(entries[i])
      /\ \A i \in DOMAIN entries : offered[entries[i].name] = entries[i].tools
  BY <1>1, ReadyList
<1>4. /\ loop'.at = "diffed" /\ loop'.removed = DOMAIN configs \ DOMAIN new
      /\ loop'.changed = {n \in DOMAIN new : n \notin DOMAIN configs \/ configs[n] # new[n]}
  BY <1>1
<1>5. \A t \in Refreshers : ~Active(t)'  BY <1>1, <1>2 DEF Active
<1>6. LoopShape' /\ JobShape'  BY <1>1, <1>4, <1>5 DEF LoopShape, JobShape
<1>7. Copied' = entries  BY <1>1, <1>4 DEF Copied
<1>8. Unchanged' = {n \in DOMAIN new : n \in DOMAIN configs /\ configs[n] = new[n]}
  BY <1>1, <1>4 DEF Unchanged
<1>9. Names(entries) \ (loop'.changed \cup loop'.removed) = Unchanged'
  BY <1>3, <1>4, <1>8
<1>10. ASSUME NEW i \in DOMAIN entries, entries[i].name \in Unchanged'  PROVE Fits(entries[i])'
  <2>1. configs'[entries[i].name] = configs[entries[i].name]  BY <1>1, <1>8, <1>10
  <2> QED  BY <1>1, <1>3, <2>1 DEF Fits
<1>11. ListShape'
  <2>1. \A i \in DOMAIN Copied' : Copied'[i].name \in Unchanged' => Fits(Copied[i])'
    BY <1>1, <1>7, <1>10 DEF Fits
  <2> QED  BY <1>3, <1>4, <1>7, <1>9, <2>1 DEF ListShape
<1>12. OfferShape'  BY <1>1, <1>3, <1>4, <1>7 DEF OfferShape
<1>13. statuses' = Table(entries')  BY <1>1 DEF ListInv
<1> QED  BY <1>6, <1>11, <1>12, <1>13 DEF ListInv

LEMMA SplitStep == ASSUME ListInv, RuntimeTypes', Split PROVE ListInv'
<1>1. PICK kept : kept = Without(entries, loop.removed \cup loop.changed)  OBVIOUS
<1>2. /\ loop.at = "diffed" /\ UNCHANGED <<configs, entries, statuses, refresh>>
      /\ loop' = [loop EXCEPT !.at = "connecting", !.kept = kept]
      /\ offered' = [n \in (DOMAIN offered \cup loop.changed) \ loop.removed |->
                       IF n \in loop.changed THEN NoHandle ELSE offered[n]]
  BY <1>1 DEF Split
<1>3. /\ loop'.at = "connecting" /\ loop'.kept = kept /\ loop'.changed = loop.changed
      /\ loop'.removed = loop.removed
  BY <1>2 DEF ListInv, RuntimeTypes, Loop
<1>4. Copied = entries /\ Copied' = kept /\ Unchanged' = Unchanged
  BY <1>2, <1>3 DEF Copied, Unchanged
<1>5. /\ \A k \in DOMAIN kept : \E i \in DOMAIN entries : kept[k] = entries[i]
      /\ Names(kept) = Names(entries) \ (loop.removed \cup loop.changed)
      /\ Ascending(entries) => Ascending(kept)
  <2>1. PICK list \in Seq(Entry) : list = entries  BY DEF ListInv, RuntimeTypes
  <2>2. PICK names : names = loop.removed \cup loop.changed  OBVIOUS
  <2>3. kept = Without(list, names)  BY <1>1, <2>1, <2>2
  <2>4. /\ \A k \in DOMAIN kept : \E i \in DOMAIN list : kept[k] = list[i]
        /\ Names(kept) = Names(list) \ names
        /\ Ascending(list) => Ascending(kept)
    BY <2>3, WithoutIs
  <2> QED  BY <2>1, <2>2, <2>4
<1>6. /\ Ascending(entries) /\ Names(entries) \ (loop.changed \cup loop.removed) = Unchanged
      /\ \A i \in DOMAIN entries : entries[i].name \in Unchanged => Fits(entries[i])
      /\ DOMAIN offered = Names(entries)
      /\ \A i \in DOMAIN entries : offered[entries[i].name] = entries[i].tools
  BY <1>2, <1>4 DEF ListInv, ListShape, OfferShape
<1>7. /\ loop.removed \cap DOMAIN configs = {} /\ loop.changed \subseteq DOMAIN configs
      /\ \A t \in Refreshers : ~Active(t)
  BY <1>2 DEF ListInv, LoopShape, RuntimeTypes
<1>8. Names(kept) = Unchanged  BY <1>5, <1>6
<1>9. \A t \in Refreshers : ~Active(t)'  BY <1>2, <1>7 DEF Active
<1>10. LoopShape' /\ JobShape'  BY <1>2, <1>3, <1>7, <1>9 DEF LoopShape, JobShape
<1>11. \A k \in DOMAIN kept : kept[k].name \in Unchanged => Fits(kept[k])  BY <1>5, <1>6
<1>12. ListShape'
  <2>1. \A k \in DOMAIN kept : kept[k].name \in Unchanged => Fits(kept[k])'  BY <1>2, <1>11 DEF Fits
  <2>2. Names(kept) \ (loop.changed \cup loop.removed) = Unchanged  BY <1>5, <1>8
  <2>3. \A k \in DOMAIN Copied' : Copied'[k].name \in Unchanged' => Fits(Copied[k])'
    BY <1>2, <1>4, <2>1 DEF Fits
  <2> QED  BY <1>3, <1>4, <1>5, <1>6, <1>8, <2>2, <2>3 DEF ListShape
<1>13. OfferShape'
  <2>1. DOMAIN offered' = DOMAIN configs
    <3>1. DOMAIN offered' = (Names(entries) \cup loop.changed) \ loop.removed  BY <1>2, <1>6
    <3>2. Unchanged = DOMAIN configs \ loop.changed  BY DEF Unchanged
    <3> QED  BY <3>1, <3>2, <1>6, <1>7
  <2>2. ASSUME NEW k \in DOMAIN kept  PROVE offered'[kept[k].name] = kept[k].tools
    <3>1. PICK i \in DOMAIN entries : kept[k] = entries[i]  BY <1>5
    <3>2. kept[k].name \in Unchanged  BY <1>8 DEF Names
    <3>3. kept[k].name \in DOMAIN offered' /\ kept[k].name \notin loop.changed
      BY <3>2, <2>1 DEF Unchanged
    <3> QED  BY <3>1, <3>3, <1>2, <1>6
  <2>3. \A n \in loop.changed : offered'[n] = NoHandle  BY <1>2, <1>7
  <2> QED  BY <1>2, <1>3, <1>4, <2>1, <2>2, <2>3 DEF OfferShape
<1>14. statuses' = Table(entries')  BY <1>2 DEF ListInv
<1> QED  BY <1>10, <1>12, <1>13, <1>14 DEF ListInv

(* The list of the configured servers, put together and sorted. *)
LEMMA SplicedList ==
  ASSUME ListInv, loop.at = "connecting", NEW up
  PROVE  LET list == ByName(Combined(up)) IN
         /\ list \in Seq(Entry) /\ Ascending(list) /\ Names(list) = DOMAIN configs
         /\ \A i \in DOMAIN list :
               \/ \E j \in DOMAIN loop.kept : list[i] = loop.kept[j]
               \/ \E n \in loop.changed : list[i] = Fresh(up, n)
<1>1. /\ Combined(up) \in Seq(Entry)
      /\ Names(Combined(up)) = Names(loop.kept) \cup loop.changed
      /\ \A i \in DOMAIN Combined(up) :
            \/ \E j \in DOMAIN loop.kept : Combined(up)[i] = loop.kept[j]
            \/ \E n \in loop.changed : Combined(up)[i] = Fresh(up, n)
      /\ Ascending(loop.kept) /\ Names(loop.kept) \cap loop.changed = {}
            => \A i, j \in DOMAIN Combined(up) : i # j => Combined(up)[i].name # Combined(up)[j].name
  BY CombinedIs DEF ListInv
<1>2. Ascending(loop.kept) /\ Names(loop.kept) = DOMAIN configs \ loop.changed
  BY DEF ListInv, ListShape, Copied, Unchanged
<1>3. loop.changed \subseteq DOMAIN configs  BY DEF ListInv, RuntimeTypes
<1>4. PICK all : all = Combined(up)  OBVIOUS
<1>5. /\ all \in Seq(Entry) /\ Names(all) = DOMAIN configs
      /\ \A i, j \in DOMAIN all : i # j => all[i].name # all[j].name
  BY <1>1, <1>2, <1>3, <1>4
<1>6. /\ ByName(all) \in Seq(Entry) /\ DOMAIN ByName(all) = DOMAIN all
      /\ \A k \in DOMAIN all : \E i \in DOMAIN all : ByName(all)[k] = all[i]
      /\ Names(ByName(all)) = Names(all) /\ Ascending(ByName(all))
  BY <1>5, ByNameIs
<1>7. PICK list : list = ByName(all)  OBVIOUS
<1>8. list \in Seq(Entry) /\ Ascending(list) /\ Names(list) = DOMAIN configs
  BY <1>5, <1>6, <1>7
<1>9. ASSUME NEW k \in DOMAIN list
      PROVE  \/ \E j \in DOMAIN loop.kept : list[k] = loop.kept[j]
             \/ \E n \in loop.changed : list[k] = Fresh(up, n)
  <2>1. PICK i \in DOMAIN all : list[k] = all[i]  BY <1>6, <1>7
  <2> QED  BY <2>1, <1>1, <1>4
<1>10. list = ByName(Combined(up))  BY <1>4, <1>7
<1> QED  BY <1>8, <1>9, <1>10

LEMMA SpliceStep == ASSUME ListInv, RuntimeTypes', Splice PROVE ListInv'
<1>1. /\ loop.at = "connecting" /\ loop' = Ready /\ UNCHANGED <<configs, refresh>>
  BY DEF Splice
<1>2. PICK up \in SUBSET loop.changed : Publish(ByName(Combined(up)))
  BY SpliceIs DEF ListInv
<1>3. PICK list : list = ByName(Combined(up))  OBVIOUS
<1>4. /\ list \in Seq(Entry) /\ Ascending(list) /\ Names(list) = DOMAIN configs
      /\ \A i \in DOMAIN list :
            \/ \E j \in DOMAIN loop.kept : list[i] = loop.kept[j]
            \/ \E n \in loop.changed : list[i] = Fresh(up, n)
  BY <1>1, <1>3, SplicedList
<1>5. entries' = list /\ offered' = Published(list, offered) /\ statuses' = Table(list)
  BY <1>2, <1>3 DEF Publish
<1>6. ASSUME NEW i \in DOMAIN list  PROVE Fits(list[i])
  <2>1. ASSUME NEW j \in DOMAIN loop.kept, list[i] = loop.kept[j]  PROVE Fits(list[i])
    <3>1. loop.kept[j].name \in Names(loop.kept)  BY DEF Names
    <3>2. Copied = loop.kept  BY <1>1 DEF Copied
    <3>3. Fits(loop.kept[j])  BY <1>1, <3>1, <3>2 DEF ListInv, ListShape
    <3> QED  BY <2>1, <3>3
  <2>2. ASSUME NEW n \in loop.changed, list[i] = Fresh(up, n)  PROVE Fits(list[i])
    BY <2>2, FreshMade DEF Fits, ListInv
  <2> QED  BY <2>1, <2>2, <1>4
<1>7. loop'.at = "ready" /\ loop'.changed = {} /\ loop'.removed = {}  BY <1>1 DEF Ready
<1>8. Copied' = list /\ Unchanged' = DOMAIN configs  BY <1>1, <1>5, <1>7 DEF Copied, Unchanged
<1>9. \A t \in Refreshers : ~Active(t)'
  BY <1>1 DEF ListInv, LoopShape, Active
<1>10. LoopShape' /\ JobShape'  BY <1>7, <1>9 DEF LoopShape, JobShape
<1>11. ListShape'
  <2>1. \A i \in DOMAIN list : Fits(list[i])'  BY <1>1, <1>6 DEF Fits
  <2>2. \A i \in DOMAIN Copied' : Fits(Copied[i])'  BY <1>1, <1>8, <2>1 DEF Fits
  <2> QED  BY <1>4, <1>7, <1>8, <2>2 DEF ListShape
<1>12. OfferShape'
  <2>1. DOMAIN offered = DOMAIN configs  BY <1>1 DEF ListInv, OfferShape
  <2>2. DOMAIN Published(list, offered) = DOMAIN offered \cup Names(list)  BY <1>4, PublishedIs
  <2>3. \A i \in DOMAIN list : Published(list, offered)[list[i].name] = list[i].tools
    BY <1>4, PublishedEach
  <2> QED  BY <1>4, <1>5, <1>7, <1>8, <2>1, <2>2, <2>3 DEF OfferShape
<1> QED  BY <1>5, <1>10, <1>11, <1>12 DEF ListInv

LEMMA InitListInv == ASSUME RuntimeInit PROVE ListInv
<1>1. RuntimeTypes  BY InitTypes
<1>2. PICK order : order = InOrder(DOMAIN configs)  OBVIOUS
<1>3. /\ DOMAIN configs \in SUBSET Nat /\ IsFiniteSet(DOMAIN configs)
      /\ configs \in Configs
  BY <1>1, ConfigsTyped DEF RuntimeTypes
<1>4. /\ order \in [1..Cardinality(DOMAIN configs) -> DOMAIN configs]
      /\ \A n \in DOMAIN configs : \E k \in 1..Cardinality(DOMAIN configs) : order[k] = n
      /\ \A j, k \in 1..Cardinality(DOMAIN configs) : j < k => order[j] < order[k]
  BY <1>2, <1>3, InOrderIs
<1>5. entries = [i \in DOMAIN order |-> Starting(order[i])]  BY <1>2 DEF RuntimeInit
<1>6. ASSUME NEW n \in DOMAIN configs
      PROVE  Starting(n).name = n /\ Starting(n).server = NoHandle /\ Starting(n).tools = NoHandle
  BY DEF Starting, Disabled, Connecting
<1>7. /\ DOMAIN entries = DOMAIN order
      /\ \A i \in DOMAIN entries :
            /\ entries[i].name = order[i] /\ order[i] \in DOMAIN configs
            /\ entries[i].server = NoHandle /\ entries[i].tools = NoHandle
  BY <1>4, <1>5, <1>6
<1>8. /\ loop.at = "ready" /\ loop.changed = {} /\ loop.removed = {}
      /\ offered = [n \in DOMAIN configs |-> NoHandle] /\ statuses = Table(entries)
      /\ \A t \in Refreshers : ~Active(t)
  BY DEF RuntimeInit, Ready, Resting, Active
<1>9. Copied = entries /\ Unchanged = DOMAIN configs  BY <1>8 DEF Copied, Unchanged
<1>10. Names(entries) = DOMAIN configs
  <2>1. \A n \in Names(entries) : n \in DOMAIN configs  BY <1>7 DEF Names
  <2>2. \A n \in DOMAIN configs : n \in Names(entries)  BY <1>4, <1>7 DEF Names
  <2> QED  BY <2>1, <2>2
<1>11. Ascending(entries)  BY <1>4, <1>7 DEF Ascending
<1>12. LoopShape /\ JobShape  BY <1>8 DEF LoopShape, JobShape
<1>13. ListShape  BY <1>7, <1>8, <1>9, <1>10, <1>11 DEF ListShape, Fits
<1>14. OfferShape  BY <1>7, <1>8, <1>9, <1>10 DEF OfferShape
<1> QED  BY <1>1, <1>8, <1>12, <1>13, <1>14 DEF ListInv

LEMMA NextListInv ==
  ASSUME ListInv, "reconfigure" \notin Crossing, [RuntimeNext]_runtimeVars
  PROVE  ListInv'
<1>1. RuntimeTypes'  BY NextTypes DEF ListInv
<1>2. CASE UNCHANGED runtimeVars
  BY <1>1, <1>2 DEF runtimeVars, ListInv, LoopShape, ListShape, OfferShape, JobShape, JobsFit, Active,
                    Fits, Copied, Unchanged
<1>3. ASSUME NEW t \in Refreshers, RefreshStep(t)  PROVE ListInv'
  BY <1>1, <1>3, ListStep, ReadConfigsStep, WriteBackStep DEF RefreshStep
<1>4. CASE LoopStep  BY <1>1, <1>4, SplitStep, SpliceStep DEF LoopStep
<1>5. ASSUME NEW n \in Servers, SwitchOn(n) \/ SwitchOff(n) \/ ReconnectOne(n)  PROVE ListInv'
  BY <1>1, <1>5, SwitchOnStep, SwitchOffStep, ReconnectOneStep
<1>6. ASSUME NEW new \in Configs, Reconfigure(new)  PROVE ListInv'
  BY <1>1, <1>6, ReconfigureStep
<1> QED  BY <1>2, <1>3, <1>4, <1>5, <1>6 DEF RuntimeNext

LEMMA ListConfigured == ASSUME ListInv PROVE PublishedIsConfigured
<1> SUFFICES ASSUME loop.at = "ready"
             PROVE  /\ [i \in DOMAIN entries |-> entries[i].name] = InOrder(DOMAIN configs)
                    /\ \A i \in DOMAIN entries :
                          {entries[i].server, entries[i].tools} \subseteq {NoHandle, configs[entries[i].name]}
                    /\ offered = [n \in DOMAIN configs |-> entries[Place(n)].tools]
                    /\ statuses = Table(entries)
  BY DEF PublishedIsConfigured
<1>1. /\ entries \in Seq(Entry) /\ Ascending(entries) /\ Names(entries) = DOMAIN configs
      /\ \A i \in DOMAIN entries : entries[i].name \in DOMAIN configs /\ Fits(entries[i])
      /\ DOMAIN offered = DOMAIN configs
      /\ \A i \in DOMAIN entries : offered[entries[i].name] = entries[i].tools
  BY ReadyList
<1>2. [i \in DOMAIN entries |-> entries[i].name] = InOrder(DOMAIN configs)
  <2>1. PICK s : s = [i \in DOMAIN entries |-> entries[i].name]  OBVIOUS
  <2>2. PICK names : names = DOMAIN configs  OBVIOUS
  <2>3. /\ DOMAIN entries = 1..Len(entries) /\ Len(entries) \in Nat
        /\ \A i \in DOMAIN entries : entries[i].name \in Nat
    BY <1>1, ListTyped
  <2>4. s \in [1..Len(entries) -> Nat] /\ DOMAIN s = DOMAIN entries  BY <2>1, <2>3
  <2>5. s \in Seq(Nat)  BY <2>3, <2>4, SeqDef
  <2>6. \A i, j \in DOMAIN s : i < j => s[i] < s[j]  BY <1>1, <2>1, <2>4 DEF Ascending
  <2>7. names = {s[i] : i \in DOMAIN s} /\ names \in SUBSET Nat
    BY <1>1, <2>1, <2>2, <2>3, <2>4 DEF Names
  <2>8. s = InOrder(names)  BY <2>5, <2>6, <2>7, InOrderUnique
  <2> QED  BY <2>1, <2>2, <2>8
<1>3. offered = [n \in DOMAIN configs |-> entries[Place(n)].tools]
  <2>1. ASSUME NEW n \in DOMAIN configs  PROVE offered[n] = entries[Place(n)].tools
    <3>1. PICK i \in DOMAIN entries : entries[i].name = n  BY <1>1 DEF Names
    <3>2. Place(n) = i  BY <1>1, <3>1, PlaceOf
    <3> QED  BY <1>1, <3>1, <3>2
  <2>2. offered = [n \in DOMAIN configs |-> offered[n]]  BY <1>1 DEF ListInv, RuntimeTypes
  <2> QED  BY <2>1, <2>2
<1> QED  BY <1>1, <1>2, <1>3 DEF Fits, ListInv

(* Between two requests the list holds the configured servers in their order, *)
(* with handle and tools of the settings in force, and what is offered and    *)
(* shown is the list's, if the request loop does not reconfigure while a      *)
(* refresh has jobs; it may switch and reconnect servers meanwhile.           *)
THEOREM PublishedConfigured ==
  ASSUME "reconfigure" \notin Crossing
  PROVE  RuntimeSpec => []PublishedIsConfigured
<1>1. RuntimeInit => ListInv  BY InitListInv
<1>2. ListInv /\ [RuntimeNext]_runtimeVars => ListInv'  BY NextListInv
<1>3. ListInv => PublishedIsConfigured  BY ListConfigured
<1> QED  BY <1>1, <1>2, <1>3, PTL DEF RuntimeSpec

-----------------------------------------------------------------------------
(* The switch, if neither it nor a reconfiguration falls into a refresh.      *)

(* A server that is switched off is so in the list, and a refresh that has    *)
(* jobs skips it; one that a reconfiguration connects anew is not off.        *)
OffShape ==
    /\ off \cap loop.changed = {}
    /\ \A i \in DOMAIN Copied : Copied[i].name \in off => Copied[i] = Disabled(Copied[i].name)
    /\ \A t \in Refreshers : Active(t) =>
          \A i \in DOMAIN entries : entries[i].name \in off => refresh[t].jobs[i].do = "skip"

LEMMA ReadyCopy ==
  ASSUME ListInv, loop.at = "ready"
  PROVE  Copied = entries /\ loop.changed = {}
BY DEF ListInv, LoopShape, Copied

(* One entry is replaced: it is off only as it should be, no other server is  *)
(* switched off, and none at all while there are jobs.                        *)
LEMMA ReplacedOff ==
  ASSUME ListInv, OffShape, loop.at = "ready", UNCHANGED <<loop, refresh>>,
         NEW p \in DOMAIN entries, NEW e \in Entry, e.name = entries[p].name,
         entries' = [entries EXCEPT ![p] = e],
         e.name \in off' => e = Disabled(e.name),
         off' \subseteq off \cup {e.name},
         off' \subseteq off \/ ~Refreshing
  PROVE  OffShape'
<1>1. Copied = entries /\ loop.changed = {}  BY ReadyCopy
<1>2. Copied' = entries' /\ loop'.changed = {}  BY <1>1 DEF Copied
<1>3. /\ DOMAIN entries' = DOMAIN entries /\ entries'[p] = e
      /\ \A i \in DOMAIN entries \ {p} : entries'[i] = entries[i]
  BY DEF ListInv, RuntimeTypes
<1>4. \A i \in DOMAIN entries \ {p} : entries[i].name # e.name
  BY ReadyList, AscendingDistinct
<1>5. ASSUME NEW i \in DOMAIN entries, entries'[i].name \in off'
      PROVE  entries'[i] = Disabled(entries'[i].name)
  <2>1. CASE i = p  BY <2>1, <1>3, <1>5
  <2>2. CASE i # p
    <3>1. entries[i].name \in off  BY <2>2, <1>3, <1>4, <1>5
    <3> QED  BY <3>1, <2>2, <1>1, <1>3 DEF OffShape
  <2> QED  BY <2>1, <2>2
<1>6. ASSUME NEW t \in Refreshers, Active(t)', NEW i \in DOMAIN entries, entries'[i].name \in off'
      PROVE  refresh'[t].jobs[i].do = "skip"
  <2>1. Active(t) /\ refresh'[t] = refresh[t]  BY <1>6 DEF Active
  <2>2. off' \subseteq off  BY <2>1 DEF Refreshing, Active
  <2>3. entries'[i].name = entries[i].name  BY <1>3
  <2> QED  BY <2>1, <2>2, <2>3, <1>6 DEF OffShape
<1> QED  BY <1>2, <1>3, <1>5, <1>6 DEF OffShape

LEMMA SwitchOnOff ==
  ASSUME ListInv, OffShape, NEW n \in Servers, SwitchOn(n)
  PROVE  OffShape'
<1>1. /\ loop.at = "ready" /\ n \in DOMAIN configs /\ Place(n) # 0 /\ off' = off \ {n}
      /\ UNCHANGED <<configs, loop, refresh>>
  BY DEF SwitchOn, May
<1>2. Place(n) \in DOMAIN entries /\ entries[Place(n)].name = n
  BY <1>1, PlaceIs DEF ListInv, RuntimeTypes
<1>3. CASE UNCHANGED <<entries, offered, statuses>>
  BY <1>1, <1>3 DEF OffShape, Active, Copied
<1>4. ASSUME NEW ok \in BOOLEAN, Publish([entries EXCEPT ![Place(n)] = Connect(n, configs[n], ok)])
      PROVE  OffShape'
  <2>1. configs[n] \in Handles  BY <1>1, ConfigsTyped DEF ListInv, RuntimeTypes
  <2>2. PICK e : e = Connect(n, configs[n], ok)  OBVIOUS
  <2>3. e \in Entry /\ e.name = n  BY <2>1, <2>2, EntriesMade
  <2>4. PICK p : p = Place(n)  OBVIOUS
  <2>5. /\ p \in DOMAIN entries /\ e.name = entries[p].name
        /\ entries' = [entries EXCEPT ![p] = e]
    BY <1>2, <1>4, <2>2, <2>3, <2>4 DEF Publish
  <2>6. e.name \notin off' /\ off' \subseteq off  BY <1>1, <2>3
  <2> QED  BY <1>1, <2>3, <2>5, <2>6, ReplacedOff
<1> QED  BY <1>3, <1>4 DEF SwitchOn

LEMMA SwitchOffOff ==
  ASSUME ListInv, OffShape, "switchOff" \notin Crossing, NEW n \in Servers, SwitchOff(n)
  PROVE  OffShape'
<1>1. /\ loop.at = "ready" /\ ~Refreshing /\ n \in DOMAIN configs /\ Place(n) # 0
      /\ off' = off \cup {n}
      /\ UNCHANGED <<configs, loop, refresh>> /\ Publish([entries EXCEPT ![Place(n)] = Disabled(n)])
  BY DEF SwitchOff, May
<1>2. Place(n) \in DOMAIN entries /\ entries[Place(n)].name = n
  BY <1>1, PlaceIs DEF ListInv, RuntimeTypes
<1>3. PICK e : e = Disabled(n)  OBVIOUS
<1>4. NoHandle \in Handles  BY DEF Handles
<1>5. e \in Entry /\ e.name = n  BY <1>3, <1>4, EntriesMade
<1>6. PICK p : p = Place(n)  OBVIOUS
<1>7. p \in DOMAIN entries /\ e.name = entries[p].name /\ entries' = [entries EXCEPT ![p] = e]
  BY <1>1, <1>2, <1>3, <1>5, <1>6 DEF Publish
<1>8. e = Disabled(e.name)  BY <1>3, <1>5
<1> QED  BY <1>1, <1>5, <1>7, <1>8, ReplacedOff

LEMMA ReconnectOneOff ==
  ASSUME ListInv, OffShape, NEW n \in Servers, ReconnectOne(n)
  PROVE  OffShape'
<1>1. /\ loop.at = "ready" /\ n \in DOMAIN configs /\ Place(n) # 0
      /\ entries[Place(n)].status # "disabled" /\ UNCHANGED <<configs, loop, refresh, off>>
  BY DEF ReconnectOne, May
<1>2. Place(n) \in DOMAIN entries /\ entries[Place(n)].name = n
  BY <1>1, PlaceIs DEF ListInv, RuntimeTypes
<1>3. PICK ok \in BOOLEAN :
         /\ Publish([entries EXCEPT ![Place(n)] = Reached(n, entries[Place(n)], ok)])
         /\ Reached(n, entries[Place(n)], ok) \in Entry
  BY ReachedIs DEF ListInv
<1>4. PICK p : p = Place(n)  OBVIOUS
<1>5. PICK e : e = Reached(n, entries[p], ok)  OBVIOUS
<1>6. e.name = n
  BY <1>5 DEF Reached, Reconnect, Connect, Live, Unreached, Failed, Disabled
<1>7. n \notin off
  <2>1. Copied = entries  BY <1>1, ReadyCopy
  <2>2. Disabled(n).status = "disabled"  BY DEF Disabled
  <2> QED  BY <2>1, <2>2, <1>1, <1>2 DEF OffShape
<1>8. /\ p \in DOMAIN entries /\ e \in Entry /\ e.name = entries[p].name
      /\ entries' = [entries EXCEPT ![p] = e]
  BY <1>2, <1>3, <1>4, <1>5, <1>6 DEF Publish
<1> QED  BY <1>1, <1>6, <1>7, <1>8, ReplacedOff

LEMMA ReconfigureOff ==
  ASSUME ListInv, OffShape, "reconfigure" \notin Crossing, NEW new \in Configs, Reconfigure(new)
  PROVE  OffShape'
<1>1. /\ loop.at = "ready" /\ loop'.at = "diffed" /\ UNCHANGED <<entries, refresh>>
      /\ off' = off \ loop'.changed
  BY DEF Reconfigure, May
<1>2. \A t \in Refreshers : ~Active(t)'
  BY <1>1 DEF Reconfigure, May, Refreshing, Active
<1>3. Copied = entries /\ Copied' = entries  BY <1>1 DEF Copied
<1> QED  BY <1>1, <1>2, <1>3 DEF OffShape

LEMMA SplitOff == ASSUME ListInv, OffShape, Split PROVE OffShape'
<1>1. PICK kept : kept = Without(entries, loop.removed \cup loop.changed)  OBVIOUS
<1>2. /\ loop.at = "diffed" /\ UNCHANGED <<refresh, off>>
      /\ loop' = [loop EXCEPT !.at = "connecting", !.kept = kept]
  BY <1>1 DEF Split
<1>3. loop'.at = "connecting" /\ loop'.kept = kept /\ loop'.changed = loop.changed
  BY <1>2 DEF ListInv, RuntimeTypes, Loop
<1>4. Copied = entries /\ Copied' = kept  BY <1>2, <1>3 DEF Copied
<1>5. \A k \in DOMAIN kept : \E i \in DOMAIN entries : kept[k] = entries[i]
  <2>1. PICK list \in Seq(Entry) : list = entries  BY DEF ListInv, RuntimeTypes
  <2>2. PICK names : names = loop.removed \cup loop.changed  OBVIOUS
  <2>3. kept = Without(list, names)  BY <1>1, <2>1, <2>2
  <2>4. \A k \in DOMAIN kept : \E i \in DOMAIN list : kept[k] = list[i]  BY <2>3, WithoutIs
  <2> QED  BY <2>1, <2>4
<1>6. \A t \in Refreshers : ~Active(t)'
  BY <1>2 DEF ListInv, LoopShape, Active
<1>7. \A k \in DOMAIN kept : kept[k].name \in off => kept[k] = Disabled(kept[k].name)
  BY <1>4, <1>5 DEF OffShape
<1> QED  BY <1>2, <1>3, <1>4, <1>6, <1>7 DEF OffShape

LEMMA SpliceOff == ASSUME ListInv, OffShape, Splice PROVE OffShape'
<1>1. /\ loop.at = "connecting" /\ loop' = Ready /\ UNCHANGED <<configs, refresh, off>>
  BY DEF Splice
<1>2. PICK up \in SUBSET loop.changed : Publish(ByName(Combined(up)))
  BY SpliceIs DEF ListInv
<1>3. PICK list : list = ByName(Combined(up))  OBVIOUS
<1>4. \A i \in DOMAIN list :
         \/ \E j \in DOMAIN loop.kept : list[i] = loop.kept[j]
         \/ \E n \in loop.changed : list[i] = Fresh(up, n)
  BY <1>1, <1>3, SplicedList
<1>5. entries' = list /\ loop'.at = "ready" /\ loop'.changed = {}
  BY <1>1, <1>2, <1>3 DEF Publish, Ready
<1>6. Copied = loop.kept /\ Copied' = list  BY <1>1, <1>5 DEF Copied
<1>7. ASSUME NEW i \in DOMAIN list, list[i].name \in off
      PROVE  list[i] = Disabled(list[i].name)
  <2>1. ASSUME NEW n \in loop.changed, list[i] = Fresh(up, n)  PROVE FALSE
    <3>1. list[i].name = n  BY <2>1, FreshMade DEF ListInv
    <3> QED  BY <3>1, <1>7, <2>1 DEF OffShape
  <2>2. PICK j \in DOMAIN loop.kept : list[i] = loop.kept[j]  BY <2>1, <1>4
  <2> QED  BY <2>2, <1>6, <1>7 DEF OffShape
<1>8. \A t \in Refreshers : ~Active(t)'
  BY <1>1 DEF ListInv, LoopShape, Active
<1> QED  BY <1>1, <1>5, <1>6, <1>7, <1>8 DEF OffShape

LEMMA RefreshOff ==
  ASSUME ListInv, OffShape, "reconfigure" \notin Crossing, NEW t \in Refreshers, RefreshStep(t)
  PROVE  OffShape'
<1>1. UNCHANGED <<loop, off>> /\ loop.at = "ready"
  <2>1. List(t) => UNCHANGED <<loop, off>> /\ loop.at = "ready"  BY DEF List
  <2>2. ReadConfigs(t) => UNCHANGED <<loop, off>> /\ Active(t)  BY DEF ReadConfigs, Active
  <2>3. WriteBack(t) => UNCHANGED <<loop, off>> /\ Active(t)  BY DEF WriteBack, Active
  <2> QED  BY <2>1, <2>2, <2>3, ActiveReady DEF RefreshStep
<1>2. Copied = entries /\ Copied' = entries'  BY <1>1 DEF Copied
<1>3. refresh \in [Refreshers -> Refresh]  BY DEF ListInv, RuntimeTypes
<1>4. CASE List(t)
  <2>1. /\ UNCHANGED entries
        /\ refresh' = [refresh EXCEPT ![t] = [at |-> "listed", jobs |-> [i \in DOMAIN entries |-> JobOf(entries[i])]]]
    BY <1>4 DEF List
  <2>2. ASSUME NEW i \in DOMAIN entries, entries[i].name \in off
        PROVE  refresh'[t].jobs[i].do = "skip"
    <3>1. entries[i].status = "disabled"  BY <1>2, <2>2 DEF OffShape, Disabled
    <3>2. refresh'[t].jobs[i] = JobOf(entries[i])  BY <2>1, <1>3
    <3> QED  BY <3>1, <3>2 DEF JobOf, Job
  <2>3. \A u \in Refreshers \ {t} : refresh'[u] = refresh[u]  BY <2>1, <1>3
  <2> QED  BY <1>1, <1>2, <2>1, <2>2, <2>3 DEF OffShape, Active
<1>5. CASE ReadConfigs(t)
  <2>1. Active(t) /\ UNCHANGED entries  BY <1>5 DEF ReadConfigs, Active
  <2>2. PICK jobs \in Seq(Jobs) :
            /\ refresh' = [refresh EXCEPT ![t] = [at |-> "connecting", jobs |-> jobs]]
            /\ DOMAIN jobs = DOMAIN refresh[t].jobs
            /\ \A i \in DOMAIN jobs : jobs[i] = Reread(refresh[t].jobs[i])
    BY <1>5, ReadConfigsIs DEF ListInv
  <2>3. refresh'[t].jobs = jobs /\ \A u \in Refreshers \ {t} : refresh'[u] = refresh[u]
    BY <2>2, <1>3
  <2>4. ASSUME NEW i \in DOMAIN entries, entries[i].name \in off  PROVE jobs[i].do = "skip"
    <3>1. i \in DOMAIN jobs /\ refresh[t].jobs[i].do = "skip"
      BY <2>1, <2>2, <2>4, ActiveReady DEF JobsFit, OffShape
    <3> QED  BY <3>1, <2>2 DEF Reread
  <2> QED  BY <1>1, <1>2, <2>1, <2>3, <2>4 DEF OffShape, Active
<1>6. CASE WriteBack(t)
  <2>1. Active(t)  BY <1>6 DEF WriteBack, Active
  <2>2. PICK up, over :
           /\ over.at \notin {"listed", "connecting"}
           /\ refresh' = [refresh EXCEPT ![t] = over]
           /\ \/ Publish(Written(t, up))
              \/ entries' = Written(t, up) /\ UNCHANGED <<offered, statuses>>
    BY <1>6, WriteBackIs DEF ListInv
  <2>3. entries' = Written(t, up)  BY <2>2 DEF Publish
  <2>4. /\ DOMAIN entries' = DOMAIN entries
        /\ \A i \in DOMAIN entries :
              \/ entries'[i] = entries[i]
              \/ /\ i \in DOMAIN refresh[t].jobs /\ refresh[t].jobs[i].do # "skip"
                 /\ entries'[i] = Result(refresh[t].jobs[i], i \in up)
    BY <2>3, WrittenIs DEF ListInv
  <2>5. \A i \in DOMAIN entries : entries'[i].name = entries[i].name
    <3> SUFFICES ASSUME NEW i \in DOMAIN entries  PROVE entries'[i].name = entries[i].name
      OBVIOUS
    <3>1. refresh[t].jobs[i].name = entries[i].name  BY <2>1, ActiveReady DEF JobsFit
    <3>2. Result(refresh[t].jobs[i], i \in up).name = refresh[t].jobs[i].name
      BY DEF Result, Connect, Reconnect, Live, Unreached, Failed, Disabled
    <3> QED  BY <3>1, <3>2, <2>4
  <2>6. ASSUME NEW i \in DOMAIN entries, entries'[i].name \in off
        PROVE  entries'[i] = Disabled(entries'[i].name)
    <3>1. entries[i].name \in off  BY <2>5, <2>6
    <3>2. refresh[t].jobs[i].do = "skip"  BY <2>1, <3>1 DEF OffShape
    <3> QED  BY <3>1, <3>2, <2>4, <1>2 DEF OffShape
  <2>7. refresh'[t] = over /\ \A u \in Refreshers \ {t} : refresh'[u] = refresh[u]
    BY <2>2, <1>3
  <2>8. ASSUME NEW u \in Refreshers, Active(u)', NEW i \in DOMAIN entries, entries'[i].name \in off
        PROVE  refresh'[u].jobs[i].do = "skip"
    <3>1. u # t /\ refresh'[u] = refresh[u] /\ Active(u)  BY <2>2, <2>7, <2>8 DEF Active
    <3> QED  BY <3>1, <2>5, <2>8 DEF OffShape
  <2> QED  BY <1>1, <1>2, <2>4, <2>6, <2>8 DEF OffShape
<1> QED  BY <1>4, <1>5, <1>6 DEF RefreshStep

LEMMA NextOffShape ==
  ASSUME ListInv, OffShape, {"switchOff", "reconfigure"} \cap Crossing = {}, [RuntimeNext]_runtimeVars
  PROVE  OffShape'
<1>1. CASE UNCHANGED runtimeVars  BY <1>1 DEF runtimeVars, OffShape, Active, Copied
<1>2. ASSUME NEW t \in Refreshers, RefreshStep(t)  PROVE OffShape'  BY <1>2, RefreshOff
<1>3. CASE LoopStep  BY <1>3, SplitOff, SpliceOff DEF LoopStep
<1>4. ASSUME NEW n \in Servers, SwitchOn(n) \/ SwitchOff(n) \/ ReconnectOne(n)  PROVE OffShape'
  BY <1>4, SwitchOnOff, SwitchOffOff, ReconnectOneOff
<1>5. ASSUME NEW new \in Configs, Reconfigure(new)  PROVE OffShape'  BY <1>5, ReconfigureOff
<1> QED  BY <1>1, <1>2, <1>3, <1>4, <1>5 DEF RuntimeNext

LEMMA OffSilent == ASSUME ListInv, OffShape PROVE SwitchedOffStaysOff
<1> SUFFICES ASSUME NEW n \in off, n \in DOMAIN offered  PROVE offered[n] = NoHandle
  BY DEF SwitchedOffStaysOff
<1>1. n \in Names(Copied)
  <2>1. CASE loop.at = "connecting"
    BY <2>1 DEF ListInv, OfferShape, ListShape, OffShape, Unchanged
  <2>2. CASE loop.at # "connecting"
    BY <2>2 DEF ListInv, OfferShape, Copied
  <2> QED  BY <2>1, <2>2
<1>2. PICK i \in DOMAIN Copied : Copied[i].name = n  BY <1>1 DEF Names
<1>3. Copied[i] = Disabled(n)  BY <1>2 DEF OffShape
<1>4. offered[n] = Copied[i].tools  BY <1>2 DEF ListInv, OfferShape
<1> QED  BY <1>3, <1>4 DEF Disabled

(* A server that the user switched off has no tools on offer, through         *)
(* refreshes, reconnects and reconfigurations that leave it alone, if neither *)
(* the switch nor a reconfiguration comes while a refresh has jobs.           *)
THEOREM SwitchedOffSilent ==
  ASSUME {"switchOff", "reconfigure"} \cap Crossing = {}
  PROVE  RuntimeSpec => []SwitchedOffStaysOff
<1>1. RuntimeInit => ListInv /\ OffShape
  <2>1. RuntimeInit => ListInv  BY InitListInv
  <2>2. RuntimeInit => OffShape
    BY DEF RuntimeInit, OffShape, Ready, Resting, Active
  <2> QED  BY <2>1, <2>2
<1>2. ListInv /\ OffShape /\ [RuntimeNext]_runtimeVars => ListInv' /\ OffShape'
  BY NextListInv, NextOffShape
<1>3. ListInv /\ OffShape => SwitchedOffStaysOff  BY OffSilent
<1> QED  BY <1>1, <1>2, <1>3, PTL DEF RuntimeSpec
=============================================================================
