----------------------- MODULE SessionRegistry_proofs -----------------------
(***************************************************************************)
(* The sessions of a daemon, when operations on one id follow each other   *)
(* (~Overlap) and those on different ids interleave: the map, the drivers, *)
(* the monitors and the attached clients agree whatever is killed, swept,  *)
(* evicted or restarted, for any number of ids, clients and harnesses.     *)
(* The types are proved for operations on one id that interleave, too.     *)
(***************************************************************************)
EXTENDS SessionRegistry, FiniteSetTheorems, TLAPS

(* What concerns one id: the attaches to it, the clients attached under it,   *)
(* its teardowns, its probe, and the harnesses that were built for it.        *)
Acts(id)     == {a \in Actors : actor[a].id = id /\ actor[a].at \in {"missed", "assembled", "bound"}}
Guests(id)   == {c \in Clients : actor[c].id = id /\ actor[c].at = "attached"}
Torn(id)     == {t \in teardowns : t.id = id}
Probed(id)   == sweep # NoProbe /\ sweep.id = id
Keyed(id)    == {h \in 1..built : key[h] = id}
Alive(id)    == {h \in Keyed(id) : driver[h] # "ended"}
Evicting(id) == {h \in Keyed(id) : driver[h] = "evicting"}

(* One operation on the id is under way at a time. *)
OneOperation(id) ==
    /\ \A a, b \in Acts(id) : a = b
    /\ \A t, u \in Torn(id) : t = u
    /\ Acts(id) # {} => Torn(id) = {} /\ ~Probed(id) /\ Evicting(id) = {}
    /\ Torn(id) # {} => ~Probed(id) /\ Evicting(id) = {}
    /\ Probed(id) => Evicting(id) = {}

(* Of its harnesses one at most has still to end: it is in the map, told to   *)
(* end, or in the hands of the operation.                                     *)
OneHarness(id) ==
    /\ \A g, h \in Alive(id) : g = h
    /\ hosted[id] # 0 => hosted[id] \in Alive(id) \ cancelled
    /\ \A h \in Alive(id) :
         \/ hosted[id] = h \/ h \in cancelled
         \/ \E t \in Torn(id) : t.h = h
         \/ \E a \in Acts(id) : actor[a].at = "assembled" /\ actor[a].h = h
    /\ id \in monitor <=> hosted[id] # 0 \/ Torn(id) # {}

(* What an operation has found or done so far still holds. *)
Owed(id) ==
    /\ \A a \in Acts(id) :
         /\ actor[a].at = "missed"    => hosted[id] = 0 /\ Alive(id) = {}
         /\ actor[a].at = "assembled" => hosted[id] = 0 /\ actor[a].h \in Alive(id) \ cancelled
         /\ actor[a].at = "bound"     => hosted[id] = actor[a].h /\ hosted[id] # 0
    /\ \A t \in Torn(id) :
         /\ hosted[id] = 0 /\ t.h \in Keyed(id)
         /\ t.at = "cancelled" => t.h \in cancelled
         /\ t.how = "suspend" => \A c \in Guests(id) : actor[c].h # t.h
    /\ Probed(id) => /\ hosted[id] = sweep.h /\ sweep.h # 0
                     /\ \A c \in Guests(id) : actor[c].h # sweep.h
    /\ \A h \in Evicting(id) : hosted[id] = h

Told(id) ==
    \A c \in Guests(id) : actor[c].h \in Keyed(id) /\ (actor[c].h \in cancelled => actor[c].exit)

Good(id) == OneOperation(id) /\ OneHarness(id) /\ Owed(id) /\ Told(id)

(* Harnesses are numbered as they are built, each for an attach that missed.  *)
Numbers ==
    /\ \A h \in Harnesses : driver[h] = "none" <=> h > built
    /\ IsFiniteSet(Building) /\ built + Cardinality(Building) <= MaxBuilt

RegistryInv == TypeOK /\ Numbers /\ \A id \in Ids : Good(id)

-----------------------------------------------------------------------------
(* What a step leaves of another id: a client may have gone. *)
Same(id) ==
    /\ hosted'[id] = hosted[id] /\ (id \in monitor' <=> id \in monitor)
    /\ Keyed(id)' = Keyed(id) /\ Alive(id)' = Alive(id) /\ Evicting(id)' = Evicting(id)
    /\ \A h \in Keyed(id) : h \in cancelled' <=> h \in cancelled
    /\ Acts(id)' = Acts(id) /\ \A a \in Acts(id) : actor'[a] = actor[a]
    /\ Guests(id)' \subseteq Guests(id) /\ \A c \in Guests(id)' : actor'[c] = actor[c]
    /\ Torn(id)' = Torn(id)
    /\ (Probed(id)' <=> Probed(id)) /\ (Probed(id) => sweep' = sweep)

LEMMA Untouched ==
  ASSUME NEW id \in Ids, Good(id), Same(id)
  PROVE  Good(id)'
<1>0. Alive(id) \subseteq Keyed(id) /\ Evicting(id) \subseteq Keyed(id)
  BY DEF Alive, Evicting
<1>1. OneOperation(id)'
  BY DEF Good, OneOperation, Same
<1>2. OneHarness(id)'
  BY <1>0 DEF Good, OneHarness, Same
<1>3. Owed(id)'
  BY <1>0 DEF Good, Owed, Same
<1>4. Told(id)'
  BY <1>0 DEF Good, Told, Same
<1> QED  BY <1>1, <1>2, <1>3, <1>4 DEF Good

(* The parts of Same that most steps leave as they are. *)
LEMMA SameHarnesses ==
  ASSUME NEW id \in Ids, UNCHANGED <<built, key, driver, cancelled>>
  PROVE  /\ Keyed(id)' = Keyed(id) /\ Alive(id)' = Alive(id) /\ Evicting(id)' = Evicting(id)
         /\ \A h \in Keyed(id) : h \in cancelled' <=> h \in cancelled
BY DEF Keyed, Alive, Evicting

LEMMA SameActors ==
  ASSUME NEW id \in Ids, UNCHANGED actor
  PROVE  /\ Acts(id)' = Acts(id) /\ \A a \in Acts(id) : actor'[a] = actor[a]
         /\ Guests(id)' = Guests(id) /\ \A c \in Guests(id)' : actor'[c] = actor[c]
BY DEF Acts, Guests, Actors

Goes(a, r) == actor'[a] = r /\ \A b \in Actors \ {a} : actor'[b] = actor[b]

(* An actor that comes to one id, or goes from it, is nothing to another.     *)
LEMMA OtherActors ==
  ASSUME NEW a \in Actors, NEW r, NEW id \in Ids, Goes(a, r), r.at = "away" \/ r.id # id,
         actor[a].at \in {"away", "attached"} \/ actor[a].id # id
  PROVE  /\ Acts(id)' = Acts(id) /\ \A b \in Acts(id) : actor'[b] = actor[b]
         /\ Guests(id)' \subseteq Guests(id) /\ \A c \in Guests(id)' : actor'[c] = actor[c]
<1>1. actor'[a] = r /\ \A b \in Actors \ {a} : actor'[b] = actor[b]
  BY DEF Goes
<1>2. a \notin Acts(id) /\ a \notin Acts(id)' /\ a \notin Guests(id)'
  BY <1>1 DEF Acts, Guests, Actors
<1> QED  BY <1>1, <1>2 DEF Acts, Guests, Actors

LEMMA AwayFacts ==
  /\ Away \in [at : {"away"}, id : Ids, h : {0}, exit : {FALSE}]
  /\ Away.at = "away" /\ Away.id \in Ids /\ Away.h = 0
<1>1. (CHOOSE i \in Ids : TRUE) \in Ids
  BY IdsAssumption
<1> QED  BY <1>1 DEF Away

(* Between two operations nothing is in hand, and a harness that lives is the *)
(* one in the map.                                                            *)
LEMMA Quiet ==
  ASSUME RegistryInv, NEW id \in Ids, Settled(id)
  PROVE  /\ Acts(id) = {} /\ Torn(id) = {} /\ ~Probed(id) /\ Evicting(id) = {}
         /\ \A h \in Alive(id) : hosted[id] = h
<1>1. Acts(id) = {} /\ Torn(id) = {} /\ ~Probed(id)
  BY DEF Settled, UnderWay, Acts, Torn, Probed
<1>2. Evicting(id) = {}
  <2>1. 1..built \subseteq Harnesses
    BY BoundsAssumption DEF RegistryInv, TypeOK, Harnesses
  <2> QED  BY <2>1 DEF Settled, UnderWay, Evicting, Keyed
<1>3. \A h \in Alive(id) : h \notin cancelled
  BY DEF Settled, Alive, Keyed
<1> QED  BY <1>1, <1>2, <1>3 DEF RegistryInv, Good, OneHarness

(* An id that is not in use has no harness and no operation. *)
LEMMA Unused ==
  ASSUME RegistryInv, NEW id \in Ids \ InUse
  PROVE  /\ Acts(id) = {} /\ Torn(id) = {} /\ ~Probed(id) /\ Keyed(id) = {}
         /\ hosted[id] = 0
<1>0. Good(id)
  BY DEF RegistryInv
<1>1. Keyed(id) = {} /\ hosted[id] = 0
  BY DEF InUse, Keyed, Hosted
<1>2. Alive(id) = {}
  BY <1>1 DEF Alive
<1>3. Acts(id) = {}
  <2>1. \A a \in Acts(id) : actor[a].at # "missed"
    BY DEF Acts, InUse, Building
  <2>2. \A a \in Acts(id) : actor[a].at \notin {"assembled", "bound"}
    BY <1>0, <1>1, <1>2 DEF Good, Owed
  <2> QED  BY <2>1, <2>2 DEF Acts
<1>4. Torn(id) = {}
  BY <1>0, <1>1 DEF Good, Owed
<1>5. ~Probed(id)
  BY <1>0, <1>1 DEF Good, Owed
<1> QED  BY <1>1, <1>3, <1>4, <1>5

-----------------------------------------------------------------------------
(* Attaching.                                                                 *)

ActorRecords(n) == [at : {"away", "missed", "assembled", "bound", "attached"},
                    id : Ids, h : 0..n, exit : BOOLEAN]

LEMMA AwayRecord ==
  ASSUME NEW n \in Nat
  PROVE  Away \in ActorRecords(n)
<1>1. 0 \in 0..n
  OBVIOUS
<1> QED  BY <1>1, AwayFacts DEF ActorRecords

(* An actor goes to another place, and the rest of the daemon stays. *)
LEMMA ActorTypes ==
  ASSUME TypeOK, NEW a \in Actors, NEW r \in ActorRecords(built), actor' = [actor EXCEPT ![a] = r],
         UNCHANGED <<hosted, built, harness, disk, armed, teardowns, sweep, monitor, faults>>,
         toRehost' \subseteq Ids, dormant' \subseteq Ids
  PROVE  TypeOK'
<1>1. actor' \in [Actors -> ActorRecords(built)]
  BY DEF TypeOK, ActorRecords
<1> QED  BY <1>1 DEF TypeOK, ActorRecords, harness

(* Of the actors of its own id one that goes somewhere is the only one at work. *)
LEMMA OwnActors ==
  ASSUME NEW a \in Actors, NEW r, NEW id \in Ids, Goes(a, r), r.id = id,
         r.at \in {"missed", "assembled", "bound"}, Acts(id) \subseteq {a}
  PROVE  /\ Acts(id)' = {a} /\ actor'[a] = r
         /\ Guests(id)' \subseteq Guests(id) /\ \A c \in Guests(id)' : actor'[c] = actor[c]
<1>1. actor'[a] = r /\ \A b \in Actors \ {a} : actor'[b] = actor[b]
  BY DEF Goes
<1>2. \A b \in Actors \ {a} : b \notin Acts(id) /\ b \notin Acts(id)'
  BY <1>1 DEF Acts
<1>3. a \in Acts(id)' /\ a \notin Guests(id)'
  BY <1>1 DEF Acts, Guests, Actors
<1>4. Acts(id)' = {a}
  BY <1>2, <1>3 DEF Acts
<1> QED  BY <1>1, <1>3, <1>4 DEF Guests, Actors

(* Guests that stay have been told what they had been told. *)
LEMMA GuestsStay ==
  ASSUME NEW id \in Ids, Told(id), Keyed(id)' = Keyed(id),
         Guests(id)' \subseteq Guests(id), \A c \in Guests(id)' : actor'[c] = actor[c],
         \A h \in Keyed(id) : h \in cancelled' => h \in cancelled
  PROVE  Told(id)'
BY DEF Told

LEMMA MissStep ==
  ASSUME RegistryInv, NEW a \in Actors, NEW id \in Ids, Misses(a, id), actor[a].at = "away",
         hosted[id] = 0, Alive(id) = {}, Acts(id) = {}, Torn(id) = {}, ~Probed(id),
         UNCHANGED <<hosted, built, harness, saved, teardowns, sweep, monitor, faults>>,
         toRehost' \subseteq Ids
  PROVE  RegistryInv'
<1> DEFINE r == [at |-> "missed", id |-> id, h |-> 0, exit |-> FALSE]
<1>0. /\ TypeOK /\ Numbers /\ \A j \in Ids : Good(j)
      /\ built \in Nat /\ MaxBuilt \in Nat
      /\ built + Cardinality(Building) < MaxBuilt /\ actor' = [actor EXCEPT ![a] = r]
      /\ UNCHANGED <<key, driver, cancelled, disk, armed>> /\ dormant' \subseteq Ids
  BY BoundsAssumption DEF RegistryInv, Misses, Moves, TypeOK, harness, saved
<1>1. r \in ActorRecords(built) /\ r.at = "missed" /\ r.id = id /\ r.h = 0
  BY <1>0 DEF ActorRecords
<1> HIDE DEF r
<1>2. TypeOK'
  BY <1>0, <1>1, ActorTypes
<1>b. Goes(a, r)
  BY <1>0 DEF TypeOK, Goes
<1>3. Numbers'
  <2>1. Building' = Building \cup {a}
    BY <1>0, <1>1 DEF Building, TypeOK
  <2>2. a \notin Building
    BY DEF Building
  <2>3. IsFiniteSet(Building) /\ Cardinality(Building) \in Nat
    BY <1>0, FS_CardinalityType DEF Numbers
  <2>4. IsFiniteSet(Building \cup {a}) /\ Cardinality(Building \cup {a}) = Cardinality(Building) + 1
    BY <2>2, <2>3, FS_AddElement
  <2> QED  BY <1>0, <2>1, <2>3, <2>4 DEF Numbers
<1>4. ASSUME NEW j \in Ids \ {id} PROVE Good(j)'
  <2>1. Same(j)
    <3>1. UNCHANGED <<built, key, driver, cancelled>>
      BY <1>0
    <3>2. r.at = "away" \/ r.id # j
      BY <1>1
    <3>3. actor[a].at \in {"away", "attached"} \/ actor[a].id # j
      OBVIOUS
    <3>4. /\ Keyed(j)' = Keyed(j) /\ Alive(j)' = Alive(j) /\ Evicting(j)' = Evicting(j)
          /\ \A h \in Keyed(j) : h \in cancelled' <=> h \in cancelled
      BY <3>1, SameHarnesses
    <3>5. /\ Acts(j)' = Acts(j) /\ \A b \in Acts(j) : actor'[b] = actor[b]
          /\ Guests(j)' \subseteq Guests(j) /\ \A c \in Guests(j)' : actor'[c] = actor[c]
      BY <1>b, <3>2, <3>3, OtherActors
    <3> QED  BY <3>4, <3>5 DEF Same, Torn, Probed
  <2> QED  BY <1>0, <2>1, Untouched
<1>5. Good(id)'
  <2>1. /\ Keyed(id)' = Keyed(id) /\ Alive(id)' = {} /\ Evicting(id)' = {}
        /\ \A h \in Keyed(id) : h \in cancelled' <=> h \in cancelled
    BY <1>0, SameHarnesses DEF Alive, Evicting
  <2>2. Torn(id)' = {} /\ ~Probed(id)' /\ hosted'[id] = 0 /\ id \notin monitor'
    BY <1>0 DEF Torn, Probed, Good, OneHarness
  <2>3. /\ Acts(id)' = {a} /\ actor'[a] = r
        /\ Guests(id)' \subseteq Guests(id) /\ \A c \in Guests(id)' : actor'[c] = actor[c]
    <3>1. r.id = id /\ r.at \in {"missed", "assembled", "bound"} /\ Acts(id) \subseteq {a}
      BY <1>1
    <3> QED  BY <1>b, <3>1, OwnActors
  <2>4. OneOperation(id)'
    BY <2>1, <2>2, <2>3 DEF OneOperation
  <2>5. OneHarness(id)'
    BY <2>1, <2>2 DEF OneHarness
  <2>6. Owed(id)'
    BY <1>1, <2>1, <2>2, <2>3 DEF Owed
  <2>7. Told(id)'
    BY <1>0, <2>1, <2>3, GuestsStay DEF Good
  <2> QED  BY <2>4, <2>5, <2>6, <2>7 DEF Good
<1> QED  BY <1>2, <1>3, <1>4, <1>5 DEF RegistryInv

LEMMA BindStep ==
  ASSUME RegistryInv, NEW a \in Actors, NEW id \in Ids, Settled(id), hosted[id] # 0,
         Moves(a, "bound", id, hosted[id]), actor[a].at = "away",
         UNCHANGED <<hosted, built, harness, saved, toRehost, teardowns, sweep, monitor, faults>>
  PROVE  RegistryInv'
<1> DEFINE r == [at |-> "bound", id |-> id, h |-> hosted[id], exit |-> FALSE]
<1>0. /\ TypeOK /\ Numbers /\ \A j \in Ids : Good(j)
      /\ actor' = [actor EXCEPT ![a] = r] /\ hosted[id] \in 0..built
      /\ UNCHANGED <<key, driver, cancelled, disk, armed>>
      /\ toRehost' \subseteq Ids /\ dormant' \subseteq Ids
  BY DEF RegistryInv, Moves, TypeOK, harness, saved
<1>1. r \in ActorRecords(built) /\ r.at = "bound" /\ r.id = id /\ r.h = hosted[id]
  BY <1>0 DEF ActorRecords
<1>a. Acts(id) = {} /\ Torn(id) = {} /\ ~Probed(id) /\ Evicting(id) = {}
  BY Quiet
<1> HIDE DEF r
<1>2. TypeOK'
  BY <1>0, <1>1, ActorTypes
<1>b. Goes(a, r)
  BY <1>0 DEF TypeOK, Goes
<1>3. Numbers'
  <2>1. Building' = Building
    BY <1>0, <1>1 DEF Building, TypeOK
  <2> QED  BY <1>0, <2>1 DEF Numbers
<1>4. ASSUME NEW j \in Ids \ {id} PROVE Good(j)'
  <2>1. Same(j)
    <3>1. UNCHANGED <<built, key, driver, cancelled>>
      BY <1>0
    <3>2. r.at = "away" \/ r.id # j
      BY <1>1
    <3>3. actor[a].at \in {"away", "attached"} \/ actor[a].id # j
      OBVIOUS
    <3>4. /\ Keyed(j)' = Keyed(j) /\ Alive(j)' = Alive(j) /\ Evicting(j)' = Evicting(j)
          /\ \A h \in Keyed(j) : h \in cancelled' <=> h \in cancelled
      BY <3>1, SameHarnesses
    <3>5. /\ Acts(j)' = Acts(j) /\ \A b \in Acts(j) : actor'[b] = actor[b]
          /\ Guests(j)' \subseteq Guests(j) /\ \A c \in Guests(j)' : actor'[c] = actor[c]
      BY <1>b, <3>2, <3>3, OtherActors
    <3> QED  BY <3>4, <3>5 DEF Same, Torn, Probed
  <2> QED  BY <1>0, <2>1, Untouched
<1>5. Good(id)'
  <2>1. /\ Keyed(id)' = Keyed(id) /\ Alive(id)' = Alive(id) /\ Evicting(id)' = {}
        /\ (\A h \in Keyed(id) : h \in cancelled' <=> h \in cancelled) /\ cancelled' = cancelled
    BY <1>0, <1>a, SameHarnesses
  <2>2. Torn(id)' = {} /\ ~Probed(id)' /\ hosted'[id] = hosted[id] /\ monitor' = monitor
    BY <1>0, <1>a DEF Torn, Probed
  <2>3. /\ Acts(id)' = {a} /\ actor'[a] = r
        /\ Guests(id)' \subseteq Guests(id) /\ \A c \in Guests(id)' : actor'[c] = actor[c]
    <3>1. r.id = id /\ r.at \in {"missed", "assembled", "bound"} /\ Acts(id) \subseteq {a}
      BY <1>1, <1>a
    <3> QED  BY <1>b, <3>1, OwnActors
  <2>4. OneOperation(id)'
    BY <2>1, <2>2, <2>3 DEF OneOperation
  <2>5. OneHarness(id)'
    <3>1. \A h \in Alive(id) : hosted[id] = h
      BY Quiet
    <3> QED  BY <1>0, <1>a, <2>1, <2>2, <3>1 DEF Good, OneHarness
  <2>6. Owed(id)'
    BY <1>1, <2>1, <2>2, <2>3 DEF Owed
  <2>7. Told(id)'
    BY <1>0, <2>1, <2>3, GuestsStay DEF Good
  <2> QED  BY <2>4, <2>5, <2>6, <2>7 DEF Good
<1> QED  BY <1>2, <1>3, <1>4, <1>5 DEF RegistryInv

(* A client, or the boot scan, finds an id hosted, on disk, or unused. *)
LEMMA AttachSteps ==
  ASSUME ~Overlap, RegistryInv, Attaches,
         ~\E c \in Clients : Detach(c) \/ Subscribe(c),
         ~ScanStops, ~\E a \in Actors : AssembleFails(a)
  PROVE  RegistryInv'
<1>0. /\ TypeOK /\ \A id \in Ids : \A h \in Alive(id) : h # 0
      /\ Clients \subseteq Actors /\ Boot \in Actors
  BY DEF RegistryInv, Alive, Keyed, Actors
<1>1. ASSUME NEW c \in Clients, NEW id \in Ids, AttachTo(c, id) PROVE RegistryInv'
  <2>0. /\ Settled(id) /\ actor[c].at = "away" /\ c \in Actors /\ toRehost' \subseteq Ids
        /\ UNCHANGED <<hosted, built, harness, saved, toRehost, teardowns, sweep, monitor, faults>>
        /\ UNCHANGED <<hosted, built, harness, saved, teardowns, sweep, monitor, faults>>
    BY <1>0, <1>1 DEF AttachTo, Free, TypeOK
  <2>1. CASE hosted[id] # 0 /\ Moves(c, "bound", id, hosted[id])
    BY <2>0, <2>1, BindStep
  <2>2. CASE hosted[id] = 0 /\ Misses(c, id)
    <3>1. Acts(id) = {} /\ Torn(id) = {} /\ ~Probed(id) /\ Alive(id) = {}
      BY <1>0, <2>0, <2>2, Quiet
    <3> QED  BY <2>0, <2>2, <3>1, MissStep
  <2> QED  BY <1>1, <2>1, <2>2 DEF AttachTo
<1>2. ASSUME NEW c \in Clients, NEW id \in Ids \ InUse, Misses(c, id), actor[c].at = "away",
             UNCHANGED <<hosted, built, harness, saved, toRehost, teardowns, sweep, monitor, faults>>
      PROVE  RegistryInv'
  <2>1. /\ c \in Actors /\ toRehost' \subseteq Ids
        /\ UNCHANGED <<hosted, built, harness, saved, teardowns, sweep, monitor, faults>>
    BY <1>0, <1>2 DEF TypeOK
  <2>2. /\ Acts(id) = {} /\ Torn(id) = {} /\ ~Probed(id) /\ hosted[id] = 0
        /\ Alive(id) = {}
    BY Unused DEF Alive
  <2> QED  BY <1>2, <2>1, <2>2, MissStep
<1>3. ASSUME NEW c \in Clients, AttachNew(c) PROVE RegistryInv'
  BY <1>2, <1>3 DEF AttachNew
<1>4. ASSUME NEW c \in Clients, AttachAuto(c) PROVE RegistryInv'
  <2>0. /\ actor[c].at = "away" /\ c \in Actors
        /\ UNCHANGED <<hosted, built, harness, saved, toRehost, teardowns, sweep, monitor, faults>>
    BY <1>0, <1>4 DEF AttachAuto
  <2>1. ASSUME NEW id \in Hosted, Free(id), Moves(c, "bound", id, hosted[id]) PROVE RegistryInv'
    BY <2>0, <2>1, BindStep DEF Free, Hosted
  <2>2. ASSUME NEW id \in Ids \ InUse, Misses(c, id) PROVE RegistryInv'
    BY <1>2, <2>0, <2>2
  <2> QED  BY <1>4, <2>1, <2>2 DEF AttachAuto
<1>5. ASSUME NEW id \in Ids, Rehost(id) PROVE RegistryInv'
  <2>0. /\ Settled(id) /\ actor[Boot].at = "away"
        /\ toRehost' \subseteq Ids /\ dormant' \subseteq Ids
        /\ UNCHANGED <<hosted, built, harness, disk, armed, teardowns, sweep, monitor, faults>>
    BY <1>0, <1>5 DEF Rehost, Free, TypeOK
  <2>1. CASE hosted[id] = 0 /\ Misses(Boot, id) /\ UNCHANGED dormant
    <3>1. Acts(id) = {} /\ Torn(id) = {} /\ ~Probed(id) /\ Alive(id) = {}
      BY <1>0, <2>0, <2>1, Quiet
    <3>2. UNCHANGED <<hosted, built, harness, saved, teardowns, sweep, monitor, faults>>
      BY <2>0, <2>1 DEF saved
    <3> QED  BY <1>0, <2>0, <2>1, <3>1, <3>2, MissStep
  <2>2. CASE UNCHANGED actor
    <3>1. TypeOK' /\ Numbers'
      BY <2>0, <2>2 DEF RegistryInv, TypeOK, Numbers, Building, harness
    <3>2. ASSUME NEW j \in Ids PROVE Good(j)'
      <4>1. UNCHANGED <<built, key, driver, cancelled>>
        BY <2>0 DEF harness
      <4>2. Same(j)
        BY <2>0, <2>2, <4>1, SameHarnesses, SameActors DEF Same, Torn, Probed
      <4> QED  BY <4>2, Untouched DEF RegistryInv
    <3> QED  BY <3>1, <3>2 DEF RegistryInv
  <2> QED  BY <1>5, <2>1, <2>2 DEF Rehost
<1> QED  BY <1>1, <1>3, <1>4, <1>5 DEF Attaches

(* One that is attached or nowhere is missed by nobody when it goes. *)
LEMMA LeaveStep ==
  ASSUME RegistryInv, NEW c \in Actors, actor' = [actor EXCEPT ![c] = Away],
         actor[c].at \in {"away", "attached"},
         UNCHANGED <<hosted, built, harness, disk, armed, teardowns, sweep, monitor, faults>>,
         toRehost' \subseteq Ids, dormant' \subseteq Ids
  PROVE  RegistryInv'
<1>0. /\ TypeOK /\ Numbers /\ \A j \in Ids : Good(j)
      /\ UNCHANGED <<built, key, driver, cancelled>> /\ built \in Nat
  BY BoundsAssumption DEF RegistryInv, TypeOK, harness
<1>1. Away \in ActorRecords(built) /\ Away.at = "away"
  BY <1>0, AwayFacts, AwayRecord
<1>b. Goes(c, Away)
  BY <1>0 DEF TypeOK, Goes
<1>2. TypeOK'
  BY <1>0, <1>1, ActorTypes
<1>3. Numbers'
  <2>1. Building' = Building
    BY <1>0, <1>1 DEF Building, TypeOK
  <2> QED  BY <1>0, <2>1 DEF Numbers
<1>4. ASSUME NEW j \in Ids PROVE Good(j)'
  <2>1. /\ Keyed(j)' = Keyed(j) /\ Alive(j)' = Alive(j) /\ Evicting(j)' = Evicting(j)
        /\ \A h \in Keyed(j) : h \in cancelled' <=> h \in cancelled
    BY <1>0, SameHarnesses
  <2>2. /\ Acts(j)' = Acts(j) /\ \A b \in Acts(j) : actor'[b] = actor[b]
        /\ Guests(j)' \subseteq Guests(j) /\ \A d \in Guests(j)' : actor'[d] = actor[d]
    <3>1. Away.at = "away" \/ Away.id # j
      BY <1>1
    <3>2. actor[c].at \in {"away", "attached"} \/ actor[c].id # j
      BY <1>0
    <3> QED  BY <1>0, <1>b, <3>1, <3>2, OtherActors
  <2>3. Same(j)
    BY <1>0, <2>1, <2>2 DEF Same, Torn, Probed
  <2> QED  BY <1>0, <2>3, Untouched
<1> QED  BY <1>2, <1>3, <1>4 DEF RegistryInv

(* One that had a harness to build leaves its id with nothing. *)
LEMMA GiveUpStep ==
  ASSUME RegistryInv, NEW c \in Actors, actor' = [actor EXCEPT ![c] = Away],
         actor[c].at = "missed",
         UNCHANGED <<hosted, built, harness, disk, armed, teardowns, sweep, monitor, faults>>,
         toRehost' \subseteq Ids, dormant' \subseteq Ids
  PROVE  RegistryInv'
<1>p. PICK id \in Ids : actor[c].id = id
  BY DEF RegistryInv, TypeOK
<1>0. /\ TypeOK /\ Numbers /\ \A j \in Ids : Good(j)
      /\ UNCHANGED <<built, key, driver, cancelled>> /\ built \in Nat /\ MaxBuilt \in Nat
  BY BoundsAssumption DEF RegistryInv, TypeOK, harness
<1>1. Away \in ActorRecords(built) /\ Away.at = "away"
  BY <1>0, AwayFacts, AwayRecord
<1>b. Goes(c, Away)
  BY <1>0 DEF TypeOK, Goes
<1>2. TypeOK'
  BY <1>0, <1>1, ActorTypes
<1>3. Numbers'
  <2>1. Building' = Building \ {c} /\ c \in Building
    BY <1>0, <1>1 DEF Building, TypeOK
  <2>2. /\ IsFiniteSet(Building \ {c}) /\ Cardinality(Building \ {c}) = Cardinality(Building) - 1
        /\ Cardinality(Building) \in Nat
    BY <1>0, <2>1, FS_RemoveElement, FS_CardinalityType DEF Numbers
  <2> QED  BY <1>0, <2>1, <2>2 DEF Numbers
<1>h. ASSUME NEW j \in Ids
      PROVE  /\ Keyed(j)' = Keyed(j) /\ Alive(j)' = Alive(j) /\ Evicting(j)' = Evicting(j)
             /\ \A h \in Keyed(j) : h \in cancelled' <=> h \in cancelled
  BY <1>0, SameHarnesses
<1>4. ASSUME NEW j \in Ids \ {id} PROVE Good(j)'
  <2>2. /\ Acts(j)' = Acts(j) /\ \A b \in Acts(j) : actor'[b] = actor[b]
        /\ Guests(j)' \subseteq Guests(j) /\ \A d \in Guests(j)' : actor'[d] = actor[d]
    <3>1. Away.at = "away" \/ Away.id # j
      BY <1>1
    <3>2. actor[c].at \in {"away", "attached"} \/ actor[c].id # j
      BY <1>p
    <3> QED  BY <1>0, <1>b, <3>1, <3>2, OtherActors
  <2>3. Same(j)
    BY <1>0, <1>h, <2>2 DEF Same, Torn, Probed
  <2> QED  BY <1>0, <2>3, Untouched
<1>5. Good(id)'
  <2>0. c \in Acts(id)
    BY <1>0, <1>p DEF Acts
  <2>1. /\ Acts(id) = {c} /\ hosted[id] = 0 /\ Alive(id) = {} /\ Torn(id) = {} /\ ~Probed(id)
        /\ Evicting(id) = {} /\ id \notin monitor
    BY <1>0, <2>0 DEF Good, OneOperation, Owed, OneHarness
  <2>2. Acts(id)' = {} /\ Guests(id)' \subseteq Guests(id) /\ \A d \in Guests(id)' : actor'[d] = actor[d]
    BY <1>1, <1>b, <2>1 DEF Acts, Guests, Goes, Actors
  <2>3. Torn(id)' = {} /\ ~Probed(id)' /\ hosted'[id] = 0 /\ id \notin monitor'
    BY <1>0, <2>1 DEF Torn, Probed
  <2>4. Alive(id)' = {} /\ Evicting(id)' = {} /\ Keyed(id)' = Keyed(id)
    BY <1>h, <2>0, <2>1
  <2>5. Told(id)'
    BY <1>0, <2>0, <2>2, <2>4, GuestsStay DEF Good
  <2> QED  BY <2>2, <2>3, <2>4, <2>5 DEF Good, OneOperation, OneHarness, Owed
<1> QED  BY <1>2, <1>3, <1>4, <1>5 DEF RegistryInv

(* A client detaches, an assembly fails, or the boot scan is dropped. *)
LEMMA GoneStep ==
  ASSUME RegistryInv,
         ScanStops \/ (\E c \in Clients : Detach(c)) \/ \E a \in Actors : AssembleFails(a)
  PROVE  RegistryInv'
<1>0. /\ toRehost \subseteq Ids /\ dormant \subseteq Ids /\ Clients \subseteq Actors
      /\ Boot \in Actors /\ \A a \in Actors : actor[a].id \in Ids
  BY DEF RegistryInv, TypeOK, Actors
<1>1. ASSUME NEW c \in Clients, Detach(c) PROVE RegistryInv'
  <2>1. UNCHANGED <<hosted, built, harness, disk, armed, toRehost, dormant, teardowns, sweep, monitor, faults>>
    BY <1>1 DEF Detach, saved
  <2> QED  BY <1>0, <1>1, <2>1, LeaveStep DEF Detach
<1>2. ASSUME NEW a \in Actors, AssembleFails(a) PROVE RegistryInv'
  <2>1. /\ UNCHANGED <<hosted, built, harness, disk, armed, teardowns, sweep, monitor, faults>>
        /\ toRehost' \subseteq Ids /\ dormant' \subseteq Ids
    BY <1>0, <1>2 DEF AssembleFails
  <2> QED  BY <1>2, <2>1, GiveUpStep DEF AssembleFails
<1>3. CASE ScanStops
  <2>1. /\ UNCHANGED <<hosted, built, harness, disk, armed, teardowns, sweep, monitor, faults>>
        /\ toRehost' \subseteq Ids /\ dormant' \subseteq Ids
        /\ actor' = [actor EXCEPT ![Boot] = Away] /\ actor[Boot].at \in {"missed", "away"}
    BY <1>0, <1>3 DEF ScanStops
  <2> QED  BY <1>0, <2>1, GiveUpStep, LeaveStep
<1> QED  BY <1>1, <1>2, <1>3

LEMMA SubscribeStep ==
  ASSUME RegistryInv, NEW c \in Clients, Subscribe(c)
  PROVE  RegistryInv'
<1>p. PICK id \in Ids : actor[c].id = id
  BY DEF RegistryInv, TypeOK, Actors
<1> DEFINE r == [at |-> "attached", id |-> id, h |-> actor[c].h, exit |-> FALSE]
<1>0. /\ TypeOK /\ Numbers /\ \A j \in Ids : Good(j)
      /\ actor' = [actor EXCEPT ![c] = r] /\ actor[c].at = "bound" /\ c \in Actors
      /\ UNCHANGED <<hosted, built, harness, disk, armed, teardowns, sweep, monitor, faults>>
      /\ UNCHANGED <<built, key, driver, cancelled>> /\ toRehost' \subseteq Ids /\ dormant' \subseteq Ids
      /\ actor[c].h \in 0..built
  BY <1>p DEF RegistryInv, Subscribe, Moves, Actors, TypeOK, harness, saved
<1>1. r \in ActorRecords(built) /\ r.at = "attached" /\ r.id = id /\ r.h = actor[c].h
  BY <1>0 DEF ActorRecords
<1>a. c \in Acts(id)
  BY <1>0, <1>p DEF Acts
<1> HIDE DEF r
<1>b. Goes(c, r)
  BY <1>0 DEF TypeOK, Goes
<1>2. TypeOK'
  BY <1>0, <1>1, ActorTypes
<1>3. Numbers'
  <2>1. Building' = Building
    BY <1>0, <1>1 DEF Building, TypeOK
  <2> QED  BY <1>0, <2>1 DEF Numbers
<1>h. ASSUME NEW j \in Ids
      PROVE  /\ Keyed(j)' = Keyed(j) /\ Alive(j)' = Alive(j) /\ Evicting(j)' = Evicting(j)
             /\ \A h \in Keyed(j) : h \in cancelled' <=> h \in cancelled
  BY <1>0, SameHarnesses
<1>4. ASSUME NEW j \in Ids \ {id} PROVE Good(j)'
  <2>2. /\ Acts(j)' = Acts(j) /\ \A b \in Acts(j) : actor'[b] = actor[b]
        /\ Guests(j)' \subseteq Guests(j) /\ \A d \in Guests(j)' : actor'[d] = actor[d]
    <3>1. r.at = "away" \/ r.id # j
      BY <1>1
    <3>2. actor[c].at \in {"away", "attached"} \/ actor[c].id # j
      BY <1>p
    <3> QED  BY <1>0, <1>b, <3>1, <3>2, OtherActors
  <2>3. Same(j)
    BY <1>0, <1>h, <2>2 DEF Same, Torn, Probed
  <2> QED  BY <1>0, <2>3, Untouched
<1>5. Good(id)'
  <2>1. /\ Acts(id) = {c} /\ Torn(id) = {} /\ ~Probed(id) /\ Evicting(id) = {}
        /\ hosted[id] = actor[c].h /\ hosted[id] # 0
    BY <1>0, <1>a DEF Good, OneOperation, Owed
  <2>2. Acts(id)' = {} /\ Guests(id)' \subseteq Guests(id) \cup {c}
    BY <1>1, <1>b, <2>1 DEF Acts, Guests, Goes, Actors
  <2>3. \A d \in Guests(id)' \ {c} : actor'[d] = actor[d] /\ d \in Guests(id)
    BY <1>b, <2>2 DEF Guests, Goes, Actors
  <2>4. Torn(id)' = {} /\ ~Probed(id)' /\ hosted'[id] = hosted[id] /\ monitor' = monitor /\ cancelled' = cancelled
    BY <1>0, <2>1 DEF Torn, Probed
  <2>5. Alive(id)' = Alive(id) /\ Evicting(id)' = {} /\ Keyed(id)' = Keyed(id)
    BY <1>h, <1>0, <2>1
  <2>6. OneOperation(id)'
    BY <2>2, <2>4, <2>5 DEF OneOperation
  <2>7. OneHarness(id)'
    <3>1. \A a \in Acts(id) : actor[a].at # "assembled"
      BY <1>0, <2>1
    <3> QED  BY <1>0, <2>1, <2>4, <2>5, <3>1 DEF Good, OneHarness
  <2>8. Owed(id)'
    BY <2>2, <2>4, <2>5 DEF Owed
  <2>9. Told(id)'
    <3>1. actor'[c].h \in Keyed(id) \ cancelled
      BY <1>0, <1>1, <1>b, <2>1 DEF Good, OneHarness, Alive, Goes
    <3> QED  BY <1>0, <2>3, <2>4, <2>5, <3>1 DEF Good, Told
  <2> QED  BY <2>6, <2>7, <2>8, <2>9 DEF Good
<1> QED  BY <1>2, <1>3, <1>4, <1>5 DEF RegistryInv

-----------------------------------------------------------------------------
(* The lock on the map is taken for single steps: assembling and inserting.   *)

(* A step that leaves the map, the drivers and the operations as they are. *)
LEMMA AllSame ==
  ASSUME Numbers, \A j \in Ids : Good(j),
         UNCHANGED <<hosted, built, key, driver, cancelled, actor, teardowns, sweep, monitor>>
  PROVE  Numbers' /\ \A j \in Ids : Good(j)'
<1>1. Numbers'
  BY DEF Numbers, Building
<1>2. ASSUME NEW j \in Ids PROVE Good(j)'
  <2>1. UNCHANGED <<built, key, driver, cancelled>> /\ UNCHANGED actor
    OBVIOUS
  <2>2. Same(j)
    BY <2>1, SameHarnesses, SameActors DEF Same, Torn, Probed
  <2> QED  BY <2>2, Untouched
<1> QED  BY <1>1, <1>2

LEMMA AssembleStep ==
  ASSUME RegistryInv, NEW a \in Actors, Assemble(a)
  PROVE  RegistryInv'
<1>p. PICK id \in Ids : actor[a].id = id
  BY DEF RegistryInv, TypeOK
<1>n. PICK n \in Nat : n = built + 1
  BY BoundsAssumption DEF RegistryInv, TypeOK
<1> DEFINE r == [at |-> "assembled", id |-> id, h |-> n, exit |-> FALSE]
<1>0. /\ TypeOK /\ Numbers /\ \A j \in Ids : Good(j)
      /\ actor[a].at = "missed" /\ built' = n /\ built \in Nat /\ MaxBuilt \in Nat
      /\ key' = [key EXCEPT ![n] = id] /\ store' = [store EXCEPT ![n] = id]
      /\ driver' = [driver EXCEPT ![n] = "running"] /\ actor' = [actor EXCEPT ![a] = r]
      /\ UNCHANGED <<hosted, cancelled, working, terminated, saved, toRehost, teardowns, sweep,
                     monitor, faults>>
  BY <1>p, <1>n, BoundsAssumption DEF RegistryInv, Assemble, Moves, TypeOK
<1>1. r \in ActorRecords(n) /\ r.at = "assembled" /\ r.id = id /\ r.h = n
  BY <1>0 DEF ActorRecords
<1> HIDE DEF r
<1>b. Goes(a, r)
  BY <1>0 DEF TypeOK, Goes
<1>c. a \in Building /\ Building' = Building \ {a}
  BY <1>0, <1>1 DEF Building, TypeOK
<1>d. /\ IsFiniteSet(Building \ {a}) /\ Cardinality(Building \ {a}) = Cardinality(Building) - 1
      /\ Cardinality(Building) \in Nat /\ Cardinality(Building \ {a}) \in Nat
  BY <1>0, <1>c, FS_RemoveElement, FS_CardinalityType DEF Numbers
<1>e. n \in Harnesses /\ n \in 1..n /\ 1..n = (1..built) \cup {n} /\ n \notin 1..built
      /\ 1..built \subseteq Harnesses
  BY <1>0, <1>n, <1>d DEF Numbers, Harnesses
<1>2. TypeOK'
  <2>1. hosted' \in [Ids -> 0..built'] /\ built' \in 0..MaxBuilt /\ sweep' \in [id : Ids, h : 0..built', how : {"none", "reap", "suspend"}]
    BY <1>0, <1>n, <1>e DEF TypeOK, Harnesses
  <2>2. /\ key' \in [Harnesses -> Ids] /\ store' \in [Harnesses -> Ids]
        /\ driver' \in [Harnesses -> {"none", "running", "panicked", "evicting", "ended"}]
    BY <1>0, <1>e DEF TypeOK
  <2>3. cancelled' \cup working' \cup terminated' \subseteq 1..built'
    BY <1>0, <1>e DEF TypeOK
  <2>4. actor' \in [Actors -> ActorRecords(built')]
    <3>1. ActorRecords(built) \subseteq ActorRecords(n)
      BY <1>0, <1>n DEF ActorRecords
    <3>2. actor \in [Actors -> ActorRecords(built)]
      BY <1>0 DEF TypeOK, ActorRecords
    <3> QED  BY <1>0, <1>1, <3>1, <3>2
  <2> QED  BY <1>0, <2>1, <2>2, <2>3, <2>4 DEF TypeOK, ActorRecords, saved
<1>3. Numbers'
  <2>1. \A h \in Harnesses : driver'[h] = "none" <=> h > built'
    BY <1>0, <1>n, <1>e DEF Numbers, TypeOK, Harnesses
  <2> QED  BY <1>0, <1>n, <1>c, <1>d, <2>1 DEF Numbers
<1>h. /\ \A h \in 1..built : key'[h] = key[h] /\ driver'[h] = driver[h]
      /\ key'[n] = id /\ driver'[n] = "running" /\ 1..built' = (1..built) \cup {n} /\ n \notin cancelled
  BY <1>0, <1>e DEF TypeOK
<1>4. ASSUME NEW j \in Ids \ {id} PROVE Good(j)'
  <2>1. /\ Keyed(j)' = Keyed(j) /\ Alive(j)' = Alive(j) /\ Evicting(j)' = Evicting(j)
        /\ \A h \in Keyed(j) : h \in cancelled' <=> h \in cancelled
    BY <1>0, <1>h DEF Keyed, Alive, Evicting
  <2>2. /\ Acts(j)' = Acts(j) /\ \A b \in Acts(j) : actor'[b] = actor[b]
        /\ Guests(j)' \subseteq Guests(j) /\ \A d \in Guests(j)' : actor'[d] = actor[d]
    <3>1. r.at = "away" \/ r.id # j
      BY <1>1
    <3>2. actor[a].at \in {"away", "attached"} \/ actor[a].id # j
      BY <1>p
    <3> QED  BY <1>b, <3>1, <3>2, OtherActors
  <2>3. Same(j)
    BY <1>0, <2>1, <2>2 DEF Same, Torn, Probed
  <2> QED  BY <1>0, <2>3, Untouched
<1>5. Good(id)'
  <2>0. a \in Acts(id)
    BY <1>0, <1>p DEF Acts
  <2>1. /\ Acts(id) = {a} /\ hosted[id] = 0 /\ Alive(id) = {} /\ Torn(id) = {} /\ ~Probed(id)
        /\ Evicting(id) = {} /\ id \notin monitor
    BY <1>0, <2>0 DEF Good, OneOperation, Owed, OneHarness
  <2>2. /\ Acts(id)' = {a} /\ actor'[a] = r
        /\ Guests(id)' \subseteq Guests(id) /\ \A d \in Guests(id)' : actor'[d] = actor[d]
    <3>1. r.id = id /\ r.at \in {"missed", "assembled", "bound"} /\ Acts(id) \subseteq {a}
      BY <1>1, <2>1
    <3> QED  BY <1>b, <3>1, OwnActors
  <2>3. Torn(id)' = {} /\ ~Probed(id)' /\ hosted'[id] = 0 /\ id \notin monitor' /\ cancelled' = cancelled
    BY <1>0, <2>1 DEF Torn, Probed
  <2>4. Alive(id)' = {n} /\ Evicting(id)' = {} /\ Keyed(id)' = Keyed(id) \cup {n}
    BY <1>h, <2>1 DEF Keyed, Alive, Evicting
  <2>5. OneOperation(id)'
    BY <2>2, <2>3, <2>4 DEF OneOperation
  <2>6. OneHarness(id)'
    BY <1>1, <2>2, <2>3, <2>4 DEF OneHarness
  <2>7. Owed(id)'
    BY <1>1, <1>h, <2>2, <2>3, <2>4 DEF Owed
  <2>8. Told(id)'
    BY <1>0, <2>2, <2>3, <2>4 DEF Good, Told
  <2> QED  BY <2>5, <2>6, <2>7, <2>8 DEF Good
<1> QED  BY <1>2, <1>3, <1>4, <1>5 DEF RegistryInv

LEMMA InsertStep ==
  ASSUME RegistryInv, NEW a \in Actors, Insert(a)
  PROVE  RegistryInv'
<1>p. PICK id \in Ids : actor[a].id = id
  BY DEF RegistryInv, TypeOK
<1>n. PICK n \in 0..built : actor[a].h = n
  BY DEF RegistryInv, TypeOK
<1> DEFINE r == IF a = Boot THEN Away ELSE [at |-> "bound", id |-> id, h |-> n, exit |-> FALSE]
<1>0. /\ TypeOK /\ Numbers /\ \A j \in Ids : Good(j)
      /\ actor[a].at = "assembled" /\ built \in Nat
      /\ hosted' = [hosted EXCEPT ![id] = n] /\ monitor' = monitor \cup {id}
      /\ actor' = [actor EXCEPT ![a] = r]
      /\ UNCHANGED <<built, harness, disk, armed, toRehost, teardowns, sweep, faults>>
      /\ UNCHANGED <<built, key, driver, cancelled>> /\ dormant' \subseteq Ids
  BY <1>p, <1>n, BoundsAssumption DEF RegistryInv, Insert, Moves, TypeOK, harness
<1>1. /\ r \in ActorRecords(built)
      /\ r.at = "away" \/ (r.at = "bound" /\ r.id = id /\ r.h = n)
  <2>1. Away \in ActorRecords(built)
    BY <1>0, AwayRecord
  <2> QED  BY <2>1, AwayFacts DEF ActorRecords
<1> HIDE DEF r
<1>b. Goes(a, r)
  BY <1>0 DEF TypeOK, Goes
<1>2. TypeOK'
  <2>1. actor' \in [Actors -> ActorRecords(built)]
    BY <1>0, <1>1 DEF TypeOK, ActorRecords
  <2>2. hosted' \in [Ids -> 0..built] /\ monitor' \subseteq Ids
    BY <1>0 DEF TypeOK
  <2> QED  BY <1>0, <2>1, <2>2 DEF TypeOK, ActorRecords, harness
<1>3. Numbers'
  <2>1. Building' = Building
    BY <1>0, <1>1 DEF Building, TypeOK
  <2> QED  BY <1>0, <2>1 DEF Numbers
<1>h. ASSUME NEW j \in Ids
      PROVE  /\ Keyed(j)' = Keyed(j) /\ Alive(j)' = Alive(j) /\ Evicting(j)' = Evicting(j)
             /\ \A h \in Keyed(j) : h \in cancelled' <=> h \in cancelled
  BY <1>0, SameHarnesses
<1>4. ASSUME NEW j \in Ids \ {id} PROVE Good(j)'
  <2>2. /\ Acts(j)' = Acts(j) /\ \A b \in Acts(j) : actor'[b] = actor[b]
        /\ Guests(j)' \subseteq Guests(j) /\ \A d \in Guests(j)' : actor'[d] = actor[d]
    <3>1. r.at = "away" \/ r.id # j
      BY <1>1
    <3>2. actor[a].at \in {"away", "attached"} \/ actor[a].id # j
      BY <1>p
    <3> QED  BY <1>b, <3>1, <3>2, OtherActors
  <2>3. hosted'[j] = hosted[j] /\ (j \in monitor' <=> j \in monitor)
    BY <1>0 DEF TypeOK
  <2>4. Same(j)
    BY <1>0, <1>h, <2>2, <2>3 DEF Same, Torn, Probed
  <2> QED  BY <1>0, <2>4, Untouched
<1>5. Good(id)'
  <2>0. a \in Acts(id)
    BY <1>0, <1>p DEF Acts
  <2>1. /\ Acts(id) = {a} /\ hosted[id] = 0 /\ n \in Alive(id) \ cancelled /\ Torn(id) = {} /\ ~Probed(id)
        /\ Evicting(id) = {}
    BY <1>0, <1>n, <2>0 DEF Good, OneOperation, Owed
  <2>2. /\ Acts(id)' \subseteq {a} /\ \A b \in Acts(id)' : actor'[b].at = "bound" /\ actor'[b].h = n
        /\ Guests(id)' \subseteq Guests(id) /\ \A d \in Guests(id)' : actor'[d] = actor[d]
    BY <1>1, <1>b, <2>1 DEF Acts, Guests, Goes, Actors
  <2>3. Torn(id)' = {} /\ ~Probed(id)' /\ hosted'[id] = n /\ id \in monitor' /\ cancelled' = cancelled
    BY <1>0, <2>1 DEF Torn, Probed, TypeOK
  <2>4. Alive(id)' = Alive(id) /\ Evicting(id)' = {} /\ Keyed(id)' = Keyed(id) /\ n # 0
    BY <1>h, <2>1 DEF Alive, Keyed
  <2>5. OneOperation(id)'
    BY <2>2, <2>3, <2>4 DEF OneOperation
  <2>6. OneHarness(id)'
    <3>1. \A h \in Alive(id) : h = n
      BY <1>0, <2>1 DEF Good, OneHarness
    <3> QED  BY <2>1, <2>3, <2>4, <3>1 DEF OneHarness
  <2>7. Owed(id)'
    BY <2>2, <2>3, <2>4 DEF Owed
  <2>8. Told(id)'
    BY <1>0, <2>2, <2>3, <2>4 DEF Good, Told
  <2> QED  BY <2>5, <2>6, <2>7, <2>8 DEF Good
<1> QED  BY <1>2, <1>3, <1>4, <1>5 DEF RegistryInv

-----------------------------------------------------------------------------
(* Teardown.                                                                  *)

LEMMA SameTeardowns ==
  ASSUME NEW t, NEW id \in Ids, t.id # id, teardowns' = teardowns \cup {t}
  PROVE  Torn(id)' = Torn(id)
BY DEF Torn

(* The entry of an id with nothing else under way leaves the map. *)
LEMMA Removed ==
  ASSUME NEW id \in Ids, Good(id), hosted[id] # 0, Acts(id) = {}, Torn(id) = {},
         NEW t, t.id = id, t.at = "removed", t.h = hosted[id],
         teardowns' = teardowns \cup {t}, hosted'[id] = 0,
         id \in monitor' <=> id \in monitor,
         t.how = "suspend" => \A c \in Guests(id) : actor[c].h # t.h,
         ~Probed(id)', Evicting(id)' = {}, Keyed(id)' = Keyed(id), Alive(id)' \subseteq Alive(id),
         \A h \in Keyed(id) : h \in cancelled' <=> h \in cancelled,
         Acts(id)' = Acts(id), Guests(id)' \subseteq Guests(id),
         \A c \in Guests(id)' : actor'[c] = actor[c]
  PROVE  Good(id)'
<1>1. Torn(id)' = {t}
  BY DEF Torn
<1>2. /\ \A h \in Alive(id) : h = hosted[id]
      /\ hosted[id] \in Alive(id) \ cancelled /\ id \in monitor
  BY DEF Good, OneHarness
<1>3. OneOperation(id)'
  BY <1>1 DEF OneOperation
<1>4. OneHarness(id)'
  BY <1>1, <1>2 DEF OneHarness
<1>5. Owed(id)'
  <2>1. t.h \in Keyed(id)'
    BY <1>2 DEF Alive
  <2> QED  BY <1>1, <2>1 DEF Owed
<1>6. Told(id)'
  BY GuestsStay DEF Good
<1> QED  BY <1>3, <1>4, <1>5, <1>6 DEF Good

LEMMA RemovesTypes ==
  ASSUME TypeOK, NEW id \in Ids, hosted[id] # 0, NEW how \in {"kill", "suspend", "evict"},
         Removes(id, hosted[id], how)
  PROVE  /\ hosted' \in [Ids -> 0..built] /\ teardowns' \subseteq Teardown
         /\ hosted'[id] = 0 /\ \A j \in Ids \ {id} : hosted'[j] = hosted[j]
<1>1. hosted[id] \in 0..built /\ built \in 0..MaxBuilt /\ 0 \in 0..built
  BY BoundsAssumption DEF TypeOK
<1>2. hosted[id] \in Harnesses
  BY <1>1, BoundsAssumption DEF Harnesses
<1> QED  BY <1>1, <1>2 DEF TypeOK, Removes, Teardown

LEMMA KillStep ==
  ASSUME ~Overlap, RegistryInv, NEW id \in Ids, Kill(id)
  PROVE  RegistryInv'
<1> DEFINE t == [id |-> id, h |-> hosted[id], how |-> "kill", at |-> "removed"]
<1>0. /\ TypeOK /\ Numbers /\ \A j \in Ids : Good(j)
      /\ Settled(id) /\ hosted[id] # 0 /\ Removes(id, hosted[id], "kill")
      /\ teardowns' = teardowns \cup {t}
      /\ UNCHANGED <<built, harness, saved, actor, toRehost, sweep, monitor, faults>>
      /\ UNCHANGED <<built, key, driver, cancelled>>
  BY DEF RegistryInv, Kill, Removes, Free, harness
<1>1. t.id = id /\ t.at = "removed" /\ t.h = hosted[id] /\ t.how = "kill"
  OBVIOUS
<1> HIDE DEF t
<1>a. Acts(id) = {} /\ Torn(id) = {} /\ ~Probed(id) /\ Evicting(id) = {}
  BY <1>0, Quiet
<1>r. /\ hosted' \in [Ids -> 0..built] /\ teardowns' \subseteq Teardown
      /\ hosted'[id] = 0 /\ \A j \in Ids \ {id} : hosted'[j] = hosted[j]
  BY <1>0, RemovesTypes
<1>2. TypeOK'
  BY <1>0, <1>r DEF TypeOK, harness, saved
<1>3. Numbers'
  BY <1>0 DEF Numbers, Building
<1>h. ASSUME NEW j \in Ids
      PROVE  /\ Keyed(j)' = Keyed(j) /\ Alive(j)' = Alive(j) /\ Evicting(j)' = Evicting(j)
             /\ \A h \in Keyed(j) : h \in cancelled' <=> h \in cancelled
             /\ Acts(j)' = Acts(j) /\ \A b \in Acts(j) : actor'[b] = actor[b]
             /\ Guests(j)' = Guests(j) /\ \A d \in Guests(j)' : actor'[d] = actor[d]
             /\ Probed(j)' <=> Probed(j)
  BY <1>0, SameHarnesses, SameActors DEF Probed
<1>4. ASSUME NEW j \in Ids \ {id} PROVE Good(j)'
  <2>1. Same(j)
    BY <1>0, <1>1, <1>r, <1>h, SameTeardowns DEF Same
  <2> QED  BY <1>0, <2>1, Untouched
<1>5. Good(id)'
  <2>1. t.how = "suspend" => \A c \in Guests(id) : actor[c].h # t.h
    BY <1>1
  <2>2. /\ ~Probed(id)' /\ Evicting(id)' = {} /\ Keyed(id)' = Keyed(id) /\ Alive(id)' \subseteq Alive(id)
        /\ Acts(id)' = Acts(id) /\ Guests(id)' \subseteq Guests(id)
        /\ \A c \in Guests(id)' : actor'[c] = actor[c]
        /\ \A h \in Keyed(id) : h \in cancelled' <=> h \in cancelled
        /\ id \in monitor' <=> id \in monitor
    BY <1>0, <1>a, <1>h
  <2>3. Good(id)
    BY <1>0
  <2> QED  BY <1>0, <1>1, <1>a, <1>r, <2>1, <2>2, <2>3, Removed
<1> QED  BY <1>2, <1>3, <1>4, <1>5 DEF RegistryInv

(* The session that a client ends need not be the one it attached to. *)
LEMMA EndSessionStep ==
  ASSUME ~Overlap, RegistryInv, NEW c \in Clients, EndSession(c)
  PROVE  RegistryInv'
<1>0. /\ TypeOK /\ Numbers /\ \A j \in Ids : Good(j)
      /\ actor' = [actor EXCEPT ![c] = Away] /\ actor[c].at = "attached" /\ c \in Actors
      /\ UNCHANGED <<built, harness, saved, toRehost, sweep, monitor, faults>>
      /\ UNCHANGED <<built, key, driver, cancelled>> /\ built \in Nat
  BY BoundsAssumption DEF RegistryInv, EndSession, Actors, TypeOK, harness
<1>k. 1..built \subseteq Harnesses
  BY <1>0, BoundsAssumption DEF TypeOK, Harnesses
<1>1. Away \in ActorRecords(built) /\ Away.at = "away"
  BY <1>0, AwayFacts, AwayRecord
<1>b. Goes(c, Away)
  BY <1>0 DEF TypeOK, Goes
<1>g. actor[c].h \in Harnesses
  <2>1. actor[c].id \in Ids /\ c \in Guests(actor[c].id)
    BY <1>0 DEF TypeOK, Guests
  <2> QED  BY <1>0, <1>k, <2>1 DEF Good, Told, Keyed
<1>p. PICK id \in Ids : id = store[actor[c].h]
  BY <1>0, <1>g DEF TypeOK
<1>3. Numbers'
  <2>1. Building' = Building
    BY <1>0, <1>1 DEF Building, TypeOK
  <2> QED  BY <1>0, <2>1 DEF Numbers
<1>y. actor' \in [Actors -> ActorRecords(built)]
  BY <1>0, <1>1 DEF TypeOK, ActorRecords
<1>t. ASSUME hosted' \in [Ids -> 0..built], teardowns' \subseteq Teardown PROVE TypeOK'
  BY <1>0, <1>t, <1>y DEF TypeOK, ActorRecords, harness, saved
<1>h. ASSUME NEW j \in Ids
      PROVE  /\ Keyed(j)' = Keyed(j) /\ Alive(j)' = Alive(j) /\ Evicting(j)' = Evicting(j)
             /\ \A h \in Keyed(j) : h \in cancelled' <=> h \in cancelled
             /\ Acts(j)' = Acts(j) /\ \A b \in Acts(j) : actor'[b] = actor[b]
             /\ Guests(j)' \subseteq Guests(j) /\ \A d \in Guests(j)' : actor'[d] = actor[d]
             /\ Probed(j)' <=> Probed(j)
  <2>1. /\ Keyed(j)' = Keyed(j) /\ Alive(j)' = Alive(j) /\ Evicting(j)' = Evicting(j)
        /\ \A h \in Keyed(j) : h \in cancelled' <=> h \in cancelled
    BY <1>0, SameHarnesses
  <2>2. Away.at = "away" \/ Away.id # j
    BY <1>1
  <2>3. actor[c].at \in {"away", "attached"} \/ actor[c].id # j
    BY <1>0
  <2>4. /\ Acts(j)' = Acts(j) /\ \A b \in Acts(j) : actor'[b] = actor[b]
        /\ Guests(j)' \subseteq Guests(j) /\ \A d \in Guests(j)' : actor'[d] = actor[d]
    BY <1>0, <1>b, <2>2, <2>3, OtherActors
  <2> QED  BY <1>0, <2>1, <2>4 DEF Probed
<1>4. CASE hosted[id] = 0
  <2>1. UNCHANGED <<hosted, teardowns>>
    BY <1>4, <1>p DEF EndSession
  <2>2. TypeOK'
    BY <1>0, <1>t, <2>1 DEF TypeOK
  <2>3. ASSUME NEW j \in Ids PROVE Good(j)'
    <3>1. Same(j)
      BY <1>0, <1>h, <2>1 DEF Same, Torn
    <3> QED  BY <1>0, <3>1, Untouched
  <2> QED  BY <1>3, <2>2, <2>3 DEF RegistryInv
<1>5. CASE hosted[id] # 0
  <2> DEFINE t == [id |-> id, h |-> hosted[id], how |-> "kill", at |-> "removed"]
  <2>0. Settled(id) /\ Removes(id, hosted[id], "kill") /\ teardowns' = teardowns \cup {t}
    BY <1>5, <1>p DEF EndSession, Free, Removes
  <2>1. t.id = id /\ t.at = "removed" /\ t.h = hosted[id] /\ t.how = "kill"
    OBVIOUS
  <2> HIDE DEF t
  <2>a. Acts(id) = {} /\ Torn(id) = {} /\ ~Probed(id) /\ Evicting(id) = {}
    BY <2>0, Quiet
  <2>r. /\ hosted' \in [Ids -> 0..built] /\ teardowns' \subseteq Teardown
        /\ hosted'[id] = 0 /\ \A j \in Ids \ {id} : hosted'[j] = hosted[j]
    BY <1>0, <1>5, <2>0, RemovesTypes
  <2>2. TypeOK'
    BY <1>t, <2>r
  <2>4. ASSUME NEW j \in Ids \ {id} PROVE Good(j)'
    <3>1. Same(j)
      BY <1>0, <1>h, <2>0, <2>1, <2>r, SameTeardowns DEF Same
    <3> QED  BY <1>0, <3>1, Untouched
  <2>5. Good(id)'
    <3>1. t.how = "suspend" => \A d \in Guests(id) : actor[d].h # t.h
      BY <2>1
    <3>2. /\ ~Probed(id)' /\ Evicting(id)' = {} /\ Keyed(id)' = Keyed(id) /\ Alive(id)' \subseteq Alive(id)
          /\ Acts(id)' = Acts(id) /\ Guests(id)' \subseteq Guests(id)
          /\ \A d \in Guests(id)' : actor'[d] = actor[d]
          /\ \A h \in Keyed(id) : h \in cancelled' <=> h \in cancelled
          /\ id \in monitor' <=> id \in monitor
      BY <1>0, <1>h, <2>a
    <3>3. Good(id)
      BY <1>0
    <3> QED  BY <1>5, <2>0, <2>1, <2>a, <2>r, <3>1, <3>2, <3>3, Removed
  <2> QED  BY <1>3, <2>2, <2>4, <2>5 DEF RegistryInv
<1> QED  BY <1>4, <1>5

LEMMA SweepStep ==
  ASSUME RegistryInv, Sweep
  PROVE  RegistryInv'
<1>p. PICK id \in Ids : id = sweep.id
  BY DEF RegistryInv, TypeOK
<1>q. PICK how \in {"kill", "suspend"} : how = IF sweep.how = "reap" THEN "kill" ELSE "suspend"
  OBVIOUS
<1> DEFINE t == [id |-> id, h |-> hosted[id], how |-> how, at |-> "removed"]
<1>0. /\ TypeOK /\ Numbers /\ \A j \in Ids : Good(j)
      /\ sweep # NoProbe /\ sweep' = NoProbe
      /\ UNCHANGED <<built, harness, saved, actor, toRehost, monitor, faults>>
      /\ UNCHANGED <<built, key, driver, cancelled>> /\ built \in Nat
  BY BoundsAssumption DEF RegistryInv, Sweep, harness, TypeOK
<1>a. /\ Probed(id) /\ hosted[id] = sweep.h /\ sweep.h # 0
      /\ \A c \in Guests(id) : actor[c].h # hosted[id]
      /\ Acts(id) = {} /\ Torn(id) = {} /\ Evicting(id) = {}
  BY <1>0, <1>p DEF Probed, Good, Owed, OneOperation
<1>c. Removes(id, hosted[id], how) /\ teardowns' = teardowns \cup {t}
  BY <1>a, <1>p, <1>q DEF Sweep, Removes
<1>1. t.id = id /\ t.at = "removed" /\ t.h = hosted[id]
  OBVIOUS
<1> HIDE DEF t
<1>r. /\ hosted' \in [Ids -> 0..built] /\ teardowns' \subseteq Teardown
      /\ hosted'[id] = 0 /\ \A j \in Ids \ {id} : hosted'[j] = hosted[j]
  BY <1>0, <1>a, <1>c, RemovesTypes
<1>2. TypeOK'
  <2>1. sweep' \in [id : Ids, h : 0..built, how : {"none", "reap", "suspend"}]
    BY <1>0, AwayFacts DEF NoProbe
  <2> QED  BY <1>0, <1>r, <2>1 DEF TypeOK, harness, saved
<1>3. Numbers'
  BY <1>0 DEF Numbers, Building
<1>h. ASSUME NEW j \in Ids
      PROVE  /\ Keyed(j)' = Keyed(j) /\ Alive(j)' = Alive(j) /\ Evicting(j)' = Evicting(j)
             /\ \A h \in Keyed(j) : h \in cancelled' <=> h \in cancelled
             /\ Acts(j)' = Acts(j) /\ \A b \in Acts(j) : actor'[b] = actor[b]
             /\ Guests(j)' = Guests(j) /\ \A d \in Guests(j)' : actor'[d] = actor[d]
             /\ ~Probed(j)'
  <2>1. ~Probed(j)'
    BY <1>0 DEF Probed, NoProbe, Away
  <2> QED  BY <1>0, <2>1, SameHarnesses, SameActors
<1>4. ASSUME NEW j \in Ids \ {id} PROVE Good(j)'
  <2>1. ~Probed(j)
    BY <1>p DEF Probed
  <2>2. Same(j)
    BY <1>0, <1>1, <1>c, <1>r, <1>h, <2>1, SameTeardowns DEF Same
  <2> QED  BY <1>0, <2>2, Untouched
<1>5. Good(id)'
  <2>1. t.how = "suspend" => \A c \in Guests(id) : actor[c].h # t.h
    BY <1>1, <1>a
  <2>2. /\ ~Probed(id)' /\ Evicting(id)' = {} /\ Keyed(id)' = Keyed(id) /\ Alive(id)' \subseteq Alive(id)
        /\ Acts(id)' = Acts(id) /\ Guests(id)' \subseteq Guests(id)
        /\ \A c \in Guests(id)' : actor'[c] = actor[c]
        /\ \A h \in Keyed(id) : h \in cancelled' <=> h \in cancelled
        /\ id \in monitor' <=> id \in monitor
    BY <1>0, <1>a, <1>h
  <2>3. Good(id) /\ hosted[id] # 0
    BY <1>0, <1>a
  <2> QED  BY <1>1, <1>a, <1>c, <1>r, <2>1, <2>2, <2>3, Removed
<1> QED  BY <1>2, <1>3, <1>4, <1>5 DEF RegistryInv

(* A probe promises that nobody is attached to what it found. *)
LEMMA ProbeStep ==
  ASSUME ~Overlap, RegistryInv, NEW id \in Ids, NEW how \in {"reap", "suspend"}, Probe(id, how)
  PROVE  RegistryInv'
<1>0. /\ TypeOK /\ Numbers /\ \A j \in Ids : Good(j)
      /\ Settled(id) /\ sweep = NoProbe /\ hosted[id] # 0 /\ Attached(hosted[id]) = {}
      /\ sweep' = [id |-> id, h |-> hosted[id], how |-> how]
      /\ UNCHANGED <<hosted, built, harness, saved, actor, toRehost, teardowns, monitor, faults>>
      /\ UNCHANGED <<built, key, driver, cancelled>>
  BY DEF RegistryInv, Probe, Free, harness
<1>1. sweep'.id = id /\ sweep'.h = hosted[id] /\ sweep' # NoProbe
  BY <1>0 DEF NoProbe
<1>a. Acts(id) = {} /\ Torn(id) = {} /\ ~Probed(id) /\ Evicting(id) = {}
  BY <1>0, Quiet
<1>2. TypeOK'
  <2>1. sweep' \in [id : Ids, h : 0..built, how : {"none", "reap", "suspend"}]
    BY <1>0 DEF TypeOK
  <2> QED  BY <1>0, <2>1 DEF TypeOK, harness, saved
<1>3. Numbers'
  BY <1>0 DEF Numbers, Building
<1>h. ASSUME NEW j \in Ids
      PROVE  /\ Keyed(j)' = Keyed(j) /\ Alive(j)' = Alive(j) /\ Evicting(j)' = Evicting(j)
             /\ \A h \in Keyed(j) : h \in cancelled' <=> h \in cancelled
             /\ Acts(j)' = Acts(j) /\ \A b \in Acts(j) : actor'[b] = actor[b]
             /\ Guests(j)' = Guests(j) /\ \A d \in Guests(j)' : actor'[d] = actor[d]
             /\ Torn(j)' = Torn(j)
  BY <1>0, SameHarnesses, SameActors DEF Torn
<1>4. ASSUME NEW j \in Ids \ {id} PROVE Good(j)'
  <2>1. ~Probed(j) /\ ~Probed(j)'
    BY <1>0, <1>1 DEF Probed
  <2>2. Same(j)
    BY <1>0, <1>h, <2>1 DEF Same
  <2> QED  BY <1>0, <2>2, Untouched
<1>5. Good(id)'
  <2>1. /\ Acts(id)' = {} /\ Torn(id)' = {} /\ Evicting(id)' = {} /\ Alive(id)' = Alive(id)
        /\ hosted' = hosted /\ cancelled' = cancelled /\ monitor' = monitor
    BY <1>0, <1>a, <1>h
  <2>2. OneOperation(id)'
    BY <2>1 DEF OneOperation
  <2>3. OneHarness(id)'
    BY <1>0, <1>a, <2>1 DEF Good, OneHarness
  <2>4. Owed(id)'
    <3>1. \A c \in Guests(id)' : actor'[c].h # hosted[id]
      BY <1>0, <1>h DEF Guests, Attached
    <3> QED  BY <1>0, <1>1, <2>1, <3>1 DEF Owed
  <2>5. Told(id)'
    BY <1>0, <1>h, GuestsStay DEF Good
  <2> QED  BY <2>2, <2>3, <2>4, <2>5 DEF Good
<1> QED  BY <1>2, <1>3, <1>4, <1>5 DEF RegistryInv

(* The clients of a harness attached under the id it was built for. *)
LEMMA CancelsStep ==
  ASSUME RegistryInv, NEW t \in teardowns, Cancels(t)
  PROVE  RegistryInv'
<1>p. PICK id \in Ids : t.id = id
  BY DEF RegistryInv, TypeOK, Teardown
<1> DEFINE u == [t EXCEPT !.at = "cancelled"]
           r(a) == IF t.how # "suspend" /\ a \in Attached(t.h)
                   THEN [actor[a] EXCEPT !.exit = TRUE] ELSE actor[a]
<1>0. /\ TypeOK /\ Numbers /\ \A j \in Ids : Good(j)
      /\ t \in Teardown /\ t.at = "removed" /\ teardowns' = (teardowns \ {t}) \cup {u}
      /\ cancelled' = cancelled \cup {t.h} /\ actor' = [a \in Actors |-> r(a)]
      /\ terminated' \subseteq terminated \cup {t.h}
      /\ UNCHANGED <<hosted, built, key, store, driver, working, saved, toRehost, sweep, monitor,
                     faults>>
  BY DEF RegistryInv, Cancels, TypeOK
<1>1. u \in Teardown /\ u.id = id /\ u.h = t.h /\ u.how = t.how /\ u.at = "cancelled"
  BY <1>0, <1>p DEF Teardown
<1>r. \A a \in Actors : /\ r(a) \in ActorRecords(built)
                        /\ r(a).at = actor[a].at /\ r(a).id = actor[a].id /\ r(a).h = actor[a].h
                        /\ r(a) = actor[a] \/ (a \in Attached(t.h) /\ r(a).exit)
                        /\ a \in Attached(t.h) /\ t.how # "suspend" => r(a).exit
  <2> SUFFICES ASSUME NEW a \in Actors
               PROVE  /\ r(a) \in ActorRecords(built)
                      /\ r(a).at = actor[a].at /\ r(a).id = actor[a].id /\ r(a).h = actor[a].h
                      /\ r(a) = actor[a] \/ (a \in Attached(t.h) /\ r(a).exit)
                      /\ a \in Attached(t.h) /\ t.how # "suspend" => r(a).exit
    OBVIOUS
  <2>1. actor[a] \in ActorRecords(built)
    BY <1>0 DEF TypeOK, ActorRecords
  <2>2. CASE t.how # "suspend" /\ a \in Attached(t.h)
    <3>1. r(a) = [actor[a] EXCEPT !.exit = TRUE]
      BY <2>2
    <3> QED  BY <2>1, <2>2, <3>1 DEF ActorRecords
  <2>3. CASE ~(t.how # "suspend" /\ a \in Attached(t.h))
    <3>1. r(a) = actor[a]
      BY <2>3
    <3> QED  BY <2>1, <2>3, <3>1
  <2> QED  BY <2>2, <2>3
<1> HIDE DEF u, r
<1>s. \A a \in Actors : actor'[a] = r(a)
  BY <1>0
<1>a. /\ Torn(id) = {t} /\ t.h \in Keyed(id) /\ hosted[id] = 0 /\ Acts(id) = {} /\ ~Probed(id)
      /\ Evicting(id) = {} /\ id \in monitor
      /\ t.how = "suspend" => \A c \in Guests(id) : actor[c].h # t.h
  <2>1. t \in Torn(id) /\ \A v \in Torn(id) : v = t
    BY <1>0, <1>p DEF Torn, Good, OneOperation
  <2>2. Torn(id) = {t}
    BY <2>1
  <2> QED  BY <1>0, <2>1, <2>2 DEF Good, OneOperation, OneHarness, Owed
<1>2. TypeOK'
  <2>1. actor' \in [Actors -> ActorRecords(built)]
    BY <1>0, <1>r
  <2>2. (cancelled \cup working \cup terminated)' \subseteq 1..built
    BY <1>0, <1>a DEF TypeOK, Keyed
  <2>3. teardowns' \subseteq Teardown
    BY <1>0, <1>1 DEF TypeOK
  <2> QED  BY <1>0, <2>1, <2>2, <2>3 DEF TypeOK, ActorRecords, saved
<1>3. Numbers'
  <2>1. Building' = Building
    BY <1>r, <1>s DEF Building
  <2> QED  BY <1>0, <2>1 DEF Numbers
<1>h. ASSUME NEW j \in Ids
      PROVE  /\ Keyed(j)' = Keyed(j) /\ Alive(j)' = Alive(j) /\ Evicting(j)' = Evicting(j)
             /\ Acts(j)' = Acts(j) /\ Guests(j)' = Guests(j)
             /\ Probed(j)' <=> Probed(j)
             /\ \A a \in Acts(j) : actor'[a] = actor[a]
  <2>1. Keyed(j)' = Keyed(j) /\ Alive(j)' = Alive(j) /\ Evicting(j)' = Evicting(j)
    BY <1>0 DEF Keyed, Alive, Evicting
  <2>2. Acts(j)' = Acts(j) /\ Guests(j)' = Guests(j)
    BY <1>r, <1>s DEF Acts, Guests, Actors
  <2>3. \A a \in Acts(j) : actor'[a] = actor[a]
    BY <1>r, <1>s DEF Acts, Attached
  <2> QED  BY <1>0, <2>1, <2>2, <2>3 DEF Probed
<1>4. ASSUME NEW j \in Ids \ {id} PROVE Good(j)'
  <2>1. t.h \notin Keyed(j)
    BY <1>a DEF Keyed
  <2>2. \A c \in Guests(j) : c \in Actors /\ c \notin Attached(t.h)
    BY <1>0, <2>1 DEF Good, Told, Guests, Actors, Attached
  <2>3. \A c \in Guests(j) : actor'[c] = actor[c]
    BY <1>r, <1>s, <2>2
  <2>4. Torn(j)' = Torn(j)
    BY <1>0, <1>1, <1>p DEF Torn
  <2>5. \A h \in Keyed(j) : h \in cancelled' <=> h \in cancelled
    BY <1>0, <2>1
  <2>6. Same(j)
    BY <1>0, <1>h, <2>3, <2>4, <2>5 DEF Same
  <2> QED  BY <1>0, <2>6, Untouched
<1>5. Good(id)'
  <2>1. /\ Acts(id)' = {} /\ Torn(id)' = {u} /\ ~Probed(id)' /\ Evicting(id)' = {}
        /\ hosted'[id] = 0 /\ id \in monitor'
    <3>1. Torn(id)' = {u}
      BY <1>0, <1>1, <1>a DEF Torn
    <3> QED  BY <1>0, <1>h, <1>a, <3>1
  <2>2. OneOperation(id)'
    BY <2>1 DEF OneOperation
  <2>3. OneHarness(id)'
    <3>0. \A h \in Alive(id) : h # 0
      BY DEF Alive, Keyed
    <3>1. \A h \in Alive(id) : h \in cancelled'
      BY <1>0, <1>a, <3>0 DEF Good, OneHarness
    <3> QED  BY <1>0, <1>h, <2>1, <3>1 DEF Good, OneHarness
  <2>4. Owed(id)'
    <3>1. u.h \in Keyed(id)' /\ u.h \in cancelled'
      BY <1>0, <1>1, <1>h, <1>a
    <3>2. u.how = "suspend" => \A c \in Guests(id)' : actor'[c].h # u.h
      BY <1>1, <1>r, <1>s, <1>h, <1>a DEF Guests, Actors
    <3> QED  BY <2>1, <3>1, <3>2 DEF Owed
  <2>5. Told(id)'
    <3> SUFFICES ASSUME NEW c \in Guests(id)
                 PROVE  actor'[c].h \in Keyed(id) /\ (actor'[c].h \in cancelled' => actor'[c].exit)
      BY <1>h DEF Told
    <3>1. c \in Actors /\ actor[c].h \in Keyed(id) /\ (actor[c].h \in cancelled => actor[c].exit)
      BY <1>0 DEF Good, Told, Guests, Actors
    <3>2. CASE actor[c].h = t.h
      <4>1. c \in Attached(t.h) /\ t.how # "suspend"
        BY <1>a, <3>2 DEF Guests, Attached
      <4> QED  BY <1>r, <1>s, <3>1, <4>1
    <3>3. CASE actor[c].h # t.h
      <4>1. c \notin Attached(t.h)
        BY <3>3 DEF Attached
      <4> QED  BY <1>0, <1>r, <1>s, <3>1, <3>3, <4>1
    <3> QED  BY <3>2, <3>3
  <2> QED  BY <2>2, <2>3, <2>4, <2>5 DEF Good
<1> QED  BY <1>2, <1>3, <1>4, <1>5 DEF RegistryInv

LEMMA AnnouncesStep ==
  ASSUME RegistryInv, NEW t \in teardowns, Announces(t)
  PROVE  RegistryInv'
<1>p. PICK id \in Ids : t.id = id
  BY DEF RegistryInv, TypeOK, Teardown
<1>0. /\ TypeOK /\ Numbers /\ \A j \in Ids : Good(j)
      /\ t.at = "cancelled" /\ teardowns' = teardowns \ {t} /\ monitor' = monitor \ {id}
      /\ UNCHANGED <<hosted, built, harness, saved, actor, toRehost, sweep, faults>>
      /\ UNCHANGED <<built, key, driver, cancelled>>
  BY <1>p DEF RegistryInv, Announces, harness
<1>a. /\ Torn(id) = {t} /\ t.h \in cancelled /\ hosted[id] = 0 /\ Acts(id) = {} /\ ~Probed(id)
      /\ Evicting(id) = {}
  <2>1. t \in Torn(id) /\ \A v \in Torn(id) : v = t
    BY <1>0, <1>p DEF Torn, Good, OneOperation
  <2>2. Torn(id) = {t}
    BY <2>1
  <2> QED  BY <1>0, <2>1, <2>2 DEF Good, OneOperation, Owed
<1>2. TypeOK'
  BY <1>0 DEF TypeOK, harness, saved
<1>3. Numbers'
  BY <1>0 DEF Numbers, Building
<1>h. ASSUME NEW j \in Ids
      PROVE  /\ Keyed(j)' = Keyed(j) /\ Alive(j)' = Alive(j) /\ Evicting(j)' = Evicting(j)
             /\ \A h \in Keyed(j) : h \in cancelled' <=> h \in cancelled
             /\ Acts(j)' = Acts(j) /\ \A b \in Acts(j) : actor'[b] = actor[b]
             /\ Guests(j)' = Guests(j) /\ \A d \in Guests(j)' : actor'[d] = actor[d]
             /\ Probed(j)' <=> Probed(j)
  BY <1>0, SameHarnesses, SameActors DEF Probed
<1>4. ASSUME NEW j \in Ids \ {id} PROVE Good(j)'
  <2>1. Torn(j)' = Torn(j)
    BY <1>0, <1>p DEF Torn
  <2>2. Same(j)
    BY <1>0, <1>h, <2>1 DEF Same
  <2> QED  BY <1>0, <2>2, Untouched
<1>5. Good(id)'
  <2>1. /\ Acts(id)' = {} /\ Torn(id)' = {} /\ ~Probed(id)' /\ Evicting(id)' = {}
        /\ hosted'[id] = 0 /\ id \notin monitor' /\ Alive(id)' = Alive(id)
    BY <1>0, <1>h, <1>a DEF Torn
  <2>2. OneOperation(id)'
    BY <2>1 DEF OneOperation
  <2>3. OneHarness(id)'
    BY <1>0, <1>a, <2>1 DEF Good, OneHarness
  <2>4. Owed(id)'
    BY <2>1 DEF Owed
  <2>5. Told(id)'
    BY <1>0, <1>h, GuestsStay DEF Good
  <2> QED  BY <2>2, <2>3, <2>4, <2>5 DEF Good
<1> QED  BY <1>2, <1>3, <1>4, <1>5 DEF RegistryInv

-----------------------------------------------------------------------------
(* Drivers end, crash and are evicted.                                        *)

(* The driver of one harness goes to another state. *)
LEMMA DriverOf ==
  ASSUME TypeOK, Numbers, NEW h \in Harnesses, driver[h] # "none",
         NEW d \in {"running", "panicked", "evicting", "ended"}, driver' = [driver EXCEPT ![h] = d],
         UNCHANGED <<built, key, cancelled>>
  PROVE  /\ driver' \in [Harnesses -> {"none", "running", "panicked", "evicting", "ended"}]
         /\ \A g \in Harnesses : driver'[g] = "none" <=> g > built'
         /\ driver'[h] = d /\ h \in Keyed(key[h]) /\ key[h] \in Ids
         /\ \A j \in Ids : /\ Keyed(j)' = Keyed(j)
                           /\ \A g \in Keyed(j) : g \in cancelled' <=> g \in cancelled
                           /\ \A g \in Keyed(j) \ {h} : driver'[g] = driver[g]
         /\ \A j \in Ids \ {key[h]} : Alive(j)' = Alive(j) /\ Evicting(j)' = Evicting(j)
<1>0. built \in Nat /\ built <= MaxBuilt /\ MaxBuilt \in Nat
  BY BoundsAssumption DEF TypeOK
<1>1. h \in 1..built /\ 1..built \subseteq Harnesses
  BY <1>0 DEF Numbers, Harnesses
<1>2. driver'[h] = d /\ \A g \in Harnesses \ {h} : driver'[g] = driver[g]
  BY DEF TypeOK
<1>3. /\ driver' \in [Harnesses -> {"none", "running", "panicked", "evicting", "ended"}]
      /\ \A g \in Harnesses : driver'[g] = "none" <=> g > built'
  BY <1>2 DEF TypeOK, Numbers
<1>4. h \in Keyed(key[h]) /\ key[h] \in Ids
  BY <1>1 DEF Keyed, TypeOK
<1>5. ASSUME NEW j \in Ids
      PROVE  /\ Keyed(j)' = Keyed(j)
             /\ \A g \in Keyed(j) : g \in cancelled' <=> g \in cancelled
             /\ \A g \in Keyed(j) \ {h} : driver'[g] = driver[g]
  BY <1>1, <1>2 DEF Keyed
<1>6. ASSUME NEW j \in Ids \ {key[h]} PROVE Alive(j)' = Alive(j) /\ Evicting(j)' = Evicting(j)
  <2>1. h \notin Keyed(j)
    BY DEF Keyed
  <2> QED  BY <1>5, <2>1 DEF Alive, Evicting
<1> QED  BY <1>2, <1>3, <1>4, <1>5, <1>6

(* Which leaves the other ids as they were. *)
LEMMA OthersLive ==
  ASSUME \A j \in Ids : Good(j), NEW id \in Ids,
         \A j \in Ids : Keyed(j)' = Keyed(j) /\ \A g \in Keyed(j) : g \in cancelled' <=> g \in cancelled,
         \A j \in Ids \ {id} : Alive(j)' = Alive(j) /\ Evicting(j)' = Evicting(j),
         UNCHANGED <<hosted, actor, teardowns, sweep, monitor>>
  PROVE  \A j \in Ids \ {id} : Good(j)'
<1> SUFFICES ASSUME NEW j \in Ids \ {id} PROVE Good(j)'
  OBVIOUS
<1>1. UNCHANGED actor
  OBVIOUS
<1>2. Same(j)
  BY <1>1, SameActors DEF Same, Torn, Probed
<1> QED  BY <1>2, Untouched

(* A driver that was told to end, or crashed without an entry, ends. *)
LEMMA EndsStep ==
  ASSUME RegistryInv, NEW h \in Harnesses, driver[h] \in {"running", "panicked"}, h \in cancelled,
         driver' = [driver EXCEPT ![h] = "ended"],
         UNCHANGED <<hosted, built, key, store, cancelled, working, terminated, saved, actor,
                     toRehost, teardowns, sweep, monitor, faults>>
  PROVE  RegistryInv'
<1>p. PICK id \in Ids : id = key[h]
  BY DEF RegistryInv, TypeOK
<1>0. TypeOK /\ Numbers /\ (\A j \in Ids : Good(j)) /\ driver[h] # "none"
      /\ "ended" \in {"running", "panicked", "evicting", "ended"}
      /\ UNCHANGED <<built, key, cancelled>>
  BY DEF RegistryInv
<1>d. /\ driver' \in [Harnesses -> {"none", "running", "panicked", "evicting", "ended"}]
      /\ \A g \in Harnesses : driver'[g] = "none" <=> g > built'
      /\ driver'[h] = "ended" /\ h \in Keyed(key[h]) /\ key[h] \in Ids
      /\ \A j \in Ids : /\ Keyed(j)' = Keyed(j)
                        /\ \A g \in Keyed(j) : g \in cancelled' <=> g \in cancelled
                        /\ \A g \in Keyed(j) \ {h} : driver'[g] = driver[g]
      /\ \A j \in Ids \ {key[h]} : Alive(j)' = Alive(j) /\ Evicting(j)' = Evicting(j)
  BY <1>0, DriverOf
<1>2. TypeOK' /\ Numbers'
  BY <1>0, <1>d DEF TypeOK, Numbers, Building, saved
<1>4. ASSUME NEW j \in Ids \ {id} PROVE Good(j)'
  BY <1>0, <1>d, <1>p, OthersLive
<1>5. Good(id)'
  <2>1. /\ Alive(id)' = Alive(id) \ {h} /\ Evicting(id)' = Evicting(id) /\ Keyed(id)' = Keyed(id)
        /\ \A g \in Keyed(id) : g \in cancelled' <=> g \in cancelled
    BY <1>d, <1>p DEF Alive, Evicting
  <2>2. /\ Acts(id)' = Acts(id) /\ \A a \in Acts(id) : actor'[a] = actor[a]
        /\ Guests(id)' = Guests(id) /\ \A c \in Guests(id)' : actor'[c] = actor[c]
    BY SameActors
  <2>3. Torn(id)' = Torn(id) /\ (Probed(id)' <=> Probed(id))
    BY DEF Torn, Probed
  <2>4. OneOperation(id)'
    BY <1>0, <2>1, <2>2, <2>3 DEF Good, OneOperation
  <2>5. OneHarness(id)'
    BY <1>0, <2>1, <2>2, <2>3 DEF Good, OneHarness
  <2>6. Owed(id)'
    BY <1>0, <2>1, <2>2, <2>3 DEF Good, Owed
  <2>7. Told(id)'
    BY <1>0, <2>1, <2>2, GuestsStay DEF Good
  <2> QED  BY <2>4, <2>5, <2>6, <2>7 DEF Good
<1> QED  BY <1>2, <1>4, <1>5 DEF RegistryInv

LEMMA PanicStep ==
  ASSUME RegistryInv, NEW h \in Harnesses, Panic(h)
  PROVE  RegistryInv'
<1>0. /\ TypeOK /\ Numbers /\ (\A j \in Ids : Good(j)) /\ driver[h] # "none" /\ driver[h] = "running"
      /\ "panicked" \in {"running", "panicked", "evicting", "ended"}
      /\ driver' = [driver EXCEPT ![h] = "panicked"]
      /\ UNCHANGED <<built, key, cancelled>>
      /\ UNCHANGED <<hosted, store, working, terminated, saved, actor, toRehost, teardowns, sweep, monitor>>
  BY DEF RegistryInv, Panic
<1>d. /\ driver' \in [Harnesses -> {"none", "running", "panicked", "evicting", "ended"}]
      /\ \A g \in Harnesses : driver'[g] = "none" <=> g > built'
      /\ driver'[h] = "panicked" /\ h \in Keyed(key[h]) /\ key[h] \in Ids
      /\ \A j \in Ids : /\ Keyed(j)' = Keyed(j)
                        /\ \A g \in Keyed(j) : g \in cancelled' <=> g \in cancelled
                        /\ \A g \in Keyed(j) \ {h} : driver'[g] = driver[g]
      /\ \A j \in Ids \ {key[h]} : Alive(j)' = Alive(j) /\ Evicting(j)' = Evicting(j)
  BY <1>0, DriverOf
<1>f. faults' \in 0..MaxFaults
  BY <1>0, BoundsAssumption DEF Panic, Fault, TypeOK
<1>2. TypeOK' /\ Numbers'
  BY <1>0, <1>d, <1>f DEF TypeOK, Numbers, Building, saved
<1>4. ASSUME NEW j \in Ids PROVE Good(j)'
  <2>1. Alive(j)' = Alive(j) /\ Evicting(j)' = Evicting(j)
    BY <1>0, <1>d DEF Alive, Evicting
  <2>2. UNCHANGED actor
    BY <1>0
  <2>3. Same(j)
    BY <1>0, <1>d, <2>1, <2>2, SameActors DEF Same, Torn, Probed
  <2> QED  BY <1>0, <2>3, Untouched
<1> QED  BY <1>2, <1>4 DEF RegistryInv

(* While no operation on the id is under way the entry under it, if there is  *)
(* one, is this harness: the check may well ask for the id.                   *)
LEMMA EvictCheckStep ==
  ASSUME ~Overlap, RegistryInv, NEW h \in Harnesses, EvictCheck(h)
  PROVE  RegistryInv'
<1>p. PICK id \in Ids : id = key[h]
  BY DEF RegistryInv, TypeOK
<1>0. /\ TypeOK /\ Numbers /\ (\A j \in Ids : Good(j)) /\ driver[h] # "none" /\ driver[h] = "panicked"
      /\ ~UnderWay(id) /\ h \in 1..built /\ 1..built \subseteq Harnesses
      /\ UNCHANGED <<built, key, cancelled>>
      /\ UNCHANGED <<hosted, built, key, store, cancelled, working, terminated, saved, actor, toRehost,
                     teardowns, sweep, monitor, faults>>
  <2>1. /\ TypeOK /\ Numbers /\ (\A j \in Ids : Good(j)) /\ driver[h] # "none" /\ driver[h] = "panicked"
        /\ ~UnderWay(id)
        /\ UNCHANGED <<hosted, built, key, store, cancelled, working, terminated, saved, actor, toRehost,
                       teardowns, sweep, monitor, faults>>
    BY <1>p DEF RegistryInv, EvictCheck
  <2>2. h \in 1..built /\ 1..built \subseteq Harnesses
    BY <2>1, BoundsAssumption DEF TypeOK, Numbers, Harnesses
  <2> QED  BY <2>1, <2>2
<1>a. Acts(id) = {} /\ Torn(id) = {} /\ ~Probed(id) /\ Evicting(id) = {}
  <2>1. Acts(id) = {} /\ Torn(id) = {} /\ ~Probed(id)
    BY <1>0 DEF UnderWay, Acts, Torn, Probed
  <2>2. Evicting(id) = {}
    BY <1>0 DEF UnderWay, Evicting, Keyed
  <2> QED  BY <2>1, <2>2
<1>k. h \in Alive(id) /\ h # 0
  BY <1>0, <1>p DEF Alive, Keyed
<1>1. CASE hosted[id] = 0
  <2>1. h \in cancelled
    BY <1>0, <1>1, <1>a, <1>k DEF Good, OneHarness
  <2>2. driver' = [driver EXCEPT ![h] = "ended"]
    BY <1>1, <1>p DEF EvictCheck
  <2> QED  BY <1>0, <2>1, <2>2, EndsStep
<1>2. CASE hosted[id] # 0
  <2>0. driver' = [driver EXCEPT ![h] = "evicting"] /\ "evicting" \in {"running", "panicked", "evicting", "ended"}
    BY <1>2, <1>p DEF EvictCheck
  <2>1. hosted[id] = h
    BY <1>0, <1>2, <1>k DEF Good, OneHarness
  <2>d. /\ driver' \in [Harnesses -> {"none", "running", "panicked", "evicting", "ended"}]
        /\ \A g \in Harnesses : driver'[g] = "none" <=> g > built'
        /\ driver'[h] = "evicting" /\ h \in Keyed(key[h]) /\ key[h] \in Ids
        /\ \A j \in Ids : /\ Keyed(j)' = Keyed(j)
                          /\ \A g \in Keyed(j) : g \in cancelled' <=> g \in cancelled
                          /\ \A g \in Keyed(j) \ {h} : driver'[g] = driver[g]
        /\ \A j \in Ids \ {key[h]} : Alive(j)' = Alive(j) /\ Evicting(j)' = Evicting(j)
    BY <1>0, <2>0, DriverOf
  <2>2. TypeOK' /\ Numbers'
    BY <1>0, <2>d DEF TypeOK, Numbers, Building, saved
  <2>4. ASSUME NEW j \in Ids \ {id} PROVE Good(j)'
    BY <1>0, <2>d, <1>p, OthersLive
  <2>5. Good(id)'
    <3>1. /\ Alive(id)' = Alive(id) /\ Evicting(id)' = {h} /\ Keyed(id)' = Keyed(id)
          /\ \A g \in Keyed(id) : g \in cancelled' <=> g \in cancelled
      BY <1>0, <1>a, <1>p, <2>d DEF Alive, Evicting
    <3>2. /\ Acts(id)' = {} /\ Guests(id)' = Guests(id) /\ \A c \in Guests(id)' : actor'[c] = actor[c]
      BY <1>0, <1>a, SameActors
    <3>3. /\ Torn(id)' = {} /\ ~Probed(id)' /\ hosted'[id] = hosted[id] /\ monitor' = monitor
          /\ cancelled' = cancelled
      BY <1>0, <1>a DEF Torn, Probed
    <3>4. OneOperation(id)'
      BY <3>1, <3>2, <3>3 DEF OneOperation
    <3>5. OneHarness(id)'
      BY <1>0, <1>a, <3>1, <3>2, <3>3 DEF Good, OneHarness
    <3>6. Owed(id)'
      BY <2>1, <3>1, <3>2, <3>3 DEF Owed
    <3>7. Told(id)'
      BY <1>0, <3>1, <3>2, GuestsStay DEF Good
    <3> QED  BY <3>4, <3>5, <3>6, <3>7 DEF Good
  <2> QED  BY <2>2, <2>4, <2>5 DEF RegistryInv
<1> QED  BY <1>1, <1>2

LEMMA EvictRemoveStep ==
  ASSUME RegistryInv, NEW h \in Harnesses, EvictRemove(h)
  PROVE  RegistryInv'
<1>p. PICK id \in Ids : id = key[h]
  BY DEF RegistryInv, TypeOK
<1> DEFINE t == [id |-> id, h |-> h, how |-> "evict", at |-> "removed"]
<1>0. /\ TypeOK /\ Numbers /\ (\A j \in Ids : Good(j)) /\ driver[h] # "none" /\ driver[h] = "evicting"
      /\ "ended" \in {"running", "panicked", "evicting", "ended"}
      /\ driver' = [driver EXCEPT ![h] = "ended"] /\ Removes(id, h, "evict")
      /\ teardowns' = teardowns \cup {t}
      /\ UNCHANGED <<built, key, cancelled>>
      /\ UNCHANGED <<store, working, terminated, saved, actor, toRehost, sweep, monitor, faults>>
  BY <1>p DEF RegistryInv, EvictRemove, Removes
<1>d. /\ driver' \in [Harnesses -> {"none", "running", "panicked", "evicting", "ended"}]
      /\ \A g \in Harnesses : driver'[g] = "none" <=> g > built'
      /\ driver'[h] = "ended" /\ h \in Keyed(key[h]) /\ key[h] \in Ids
      /\ \A j \in Ids : /\ Keyed(j)' = Keyed(j)
                        /\ \A g \in Keyed(j) : g \in cancelled' <=> g \in cancelled
                        /\ \A g \in Keyed(j) \ {h} : driver'[g] = driver[g]
      /\ \A j \in Ids \ {key[h]} : Alive(j)' = Alive(j) /\ Evicting(j)' = Evicting(j)
  BY <1>0, DriverOf
<1>1. t.id = id /\ t.at = "removed" /\ t.h = h /\ t.how = "evict"
  OBVIOUS
<1> HIDE DEF t
<1>a. /\ h \in Evicting(id) /\ h \in Alive(id) /\ h # 0 /\ hosted[id] = h
      /\ Acts(id) = {} /\ Torn(id) = {} /\ ~Probed(id) /\ \A g \in Alive(id) : g = h
  <2>1. h \in Evicting(id) /\ h \in Alive(id) /\ h # 0
    BY <1>0, <1>d, <1>p DEF Evicting, Alive, Keyed
  <2> QED  BY <1>0, <2>1 DEF Good, OneOperation, OneHarness, Owed
<1>r. /\ hosted' \in [Ids -> 0..built] /\ teardowns' \subseteq Teardown
      /\ hosted'[id] = 0 /\ \A j \in Ids \ {id} : hosted'[j] = hosted[j]
  <2>1. Removes(id, hosted[id], "evict") /\ hosted[id] # 0
    BY <1>0, <1>a
  <2> QED  BY <1>0, <2>1, RemovesTypes
<1>2. TypeOK' /\ Numbers'
  BY <1>0, <1>d, <1>r DEF TypeOK, Numbers, Building, saved
<1>h. ASSUME NEW j \in Ids
      PROVE  /\ Acts(j)' = Acts(j) /\ \A b \in Acts(j) : actor'[b] = actor[b]
             /\ Guests(j)' = Guests(j) /\ \A c \in Guests(j)' : actor'[c] = actor[c]
             /\ Probed(j)' <=> Probed(j)
  BY <1>0, SameActors DEF Probed
<1>4. ASSUME NEW j \in Ids \ {id} PROVE Good(j)'
  <2>1. Torn(j)' = Torn(j)
    BY <1>0, <1>1, SameTeardowns
  <2>2. Same(j)
    BY <1>0, <1>d, <1>p, <1>r, <1>h, <2>1 DEF Same
  <2> QED  BY <1>0, <2>2, Untouched
<1>5. Good(id)'
  <2>1. t.how = "suspend" => \A c \in Guests(id) : actor[c].h # t.h
    BY <1>1
  <2>2. Evicting(id)' = {} /\ Alive(id)' \subseteq Alive(id)
    BY <1>a, <1>d, <1>p DEF Evicting, Alive
  <2>3. /\ ~Probed(id)' /\ Keyed(id)' = Keyed(id)
        /\ Acts(id)' = Acts(id) /\ Guests(id)' \subseteq Guests(id)
        /\ \A c \in Guests(id)' : actor'[c] = actor[c]
        /\ \A g \in Keyed(id) : g \in cancelled' <=> g \in cancelled
        /\ id \in monitor' <=> id \in monitor
    BY <1>0, <1>a, <1>d, <1>h
  <2>4. Good(id) /\ hosted[id] # 0 /\ t.h = hosted[id] /\ teardowns' = teardowns \cup {t}
    BY <1>0, <1>1, <1>a
  <2> QED  BY <1>1, <1>a, <1>r, <2>1, <2>2, <2>3, <2>4, Removed
<1> QED  BY <1>2, <1>4, <1>5 DEF RegistryInv

LEMMA RestartStep ==
  ASSUME RegistryInv, Restart
  PROVE  RegistryInv'
<1>0. /\ TypeOK /\ Numbers /\ built \in Nat /\ 1..built \subseteq Harnesses
      /\ hosted' = [i \in Ids |-> 0] /\ monitor' = {} /\ working' = {} /\ cancelled' = 1..built
      /\ driver' = [h \in Harnesses |-> IF driver[h] = "none" THEN "none" ELSE "ended"]
      /\ actor' = [a \in Actors |-> Away] /\ toRehost' \cup dormant' \subseteq Ids
      /\ teardowns' = {} /\ sweep' = NoProbe
      /\ UNCHANGED <<built, key, store, terminated, disk, armed>>
  BY BoundsAssumption DEF RegistryInv, Restart, TypeOK, Harnesses
<1>1. Away \in ActorRecords(built) /\ Away.at = "away"
  BY <1>0, AwayFacts, AwayRecord
<1>2. TypeOK'
  <2>1. faults' \in 0..MaxFaults
    BY <1>0, BoundsAssumption DEF Restart, Fault, TypeOK
  <2>2. sweep' \in [id : Ids, h : 0..built, how : {"none", "reap", "suspend"}]
    BY <1>0, AwayFacts DEF NoProbe
  <2>3. hosted' \in [Ids -> 0..built] /\ actor' \in [Actors -> ActorRecords(built)]
    BY <1>0, <1>1
  <2> QED  BY <1>0, <2>1, <2>2, <2>3 DEF TypeOK, ActorRecords
<1>3. Numbers'
  <2>1. Building' = {}
    BY <1>0, <1>1 DEF Building
  <2> QED  BY <1>0, <2>1, FS_EmptySet, BoundsAssumption DEF Numbers, TypeOK
<1>4. ASSUME NEW id \in Ids PROVE Good(id)'
  <2>1. Acts(id)' = {} /\ Guests(id)' = {}
    BY <1>0, <1>1 DEF Acts, Guests, Actors
  <2>2. Torn(id)' = {} /\ ~Probed(id)' /\ hosted'[id] = 0 /\ id \notin monitor'
    BY <1>0 DEF Torn, Probed, NoProbe, Away
  <2>3. \A h \in 1..built : driver'[h] = "ended"
    BY <1>0 DEF Numbers
  <2>4. Alive(id)' = {} /\ Evicting(id)' = {}
    BY <1>0, <2>3 DEF Alive, Evicting, Keyed
  <2> QED  BY <2>1, <2>2, <2>4 DEF Good, OneOperation, OneHarness, Owed, Told
<1> QED  BY <1>2, <1>3, <1>4 DEF RegistryInv

-----------------------------------------------------------------------------
(* Rounds, schedules and /new concern no entry: the harness keeps its key.    *)
LEMMA LivesStep ==
  ASSUME RegistryInv, Lives
  PROVE  RegistryInv'
<1>0. TypeOK /\ Numbers /\ (\A j \in Ids : Good(j))
  BY DEF RegistryInv
<1>1. PICK h \in Harnesses : RoundBegins(h) \/ RoundEnds(h) \/ Schedule(h) \/ NewSession(h)
  BY DEF Lives
<1>2. UNCHANGED <<hosted, built, key, driver, cancelled, dormant, actor, toRehost, teardowns, sweep,
                  monitor, faults>>
  BY <1>1 DEF RoundBegins, RoundEnds, Schedule, NewSession, harness, saved
<1>3. Serves(h) => h \in 1..built
  BY <1>0, BoundsAssumption DEF Serves, Numbers, TypeOK, Harnesses
<1>4. store[h] \in Ids
  BY <1>0 DEF TypeOK
<1>5. /\ store' \in [Harnesses -> Ids] /\ working' \cup terminated' \subseteq 1..built
      /\ armed' \subseteq disk' /\ disk' \subseteq Ids
  <2>1. CASE RoundBegins(h)
    BY <1>0, <1>3, <1>4, <2>1 DEF RoundBegins, TypeOK
  <2>2. CASE RoundEnds(h)
    BY <1>0, <2>2 DEF RoundEnds, TypeOK, saved
  <2>3. CASE Schedule(h)
    BY <1>0, <1>4, <2>3 DEF Schedule, TypeOK, harness
  <2>4. CASE NewSession(h)
    BY <1>0, <2>4 DEF NewSession, TypeOK, saved
  <2> QED  BY <1>1, <2>1, <2>2, <2>3, <2>4
<1>6. TypeOK'
  BY <1>0, <1>2, <1>5 DEF TypeOK
<1>7. UNCHANGED <<hosted, built, key, driver, cancelled, actor, teardowns, sweep, monitor>>
  BY <1>2
<1>8. Numbers' /\ \A j \in Ids : Good(j)'
  BY <1>0, <1>7, AllSame
<1> QED  BY <1>6, <1>8 DEF RegistryInv

LEMMA RegistryInit ==
  ASSUME Init
  PROVE  RegistryInv
<1>0. 0 \in 0..MaxBuilt /\ 0 \in 0..MaxFaults /\ 0 \in 0..0 /\ 1..0 = {} /\ 0 \in Nat
  BY BoundsAssumption
<1>1. Away \in ActorRecords(0) /\ Away.at = "away"
  BY <1>0, AwayFacts, AwayRecord
<1>2. TypeOK
  <2>1. sweep \in [id : Ids, h : 0..0, how : {"none", "reap", "suspend"}]
    BY <1>0, AwayFacts DEF Init, NoProbe
  <2>2. hosted \in [Ids -> 0..0] /\ actor \in [Actors -> ActorRecords(0)]
    BY <1>0, <1>1 DEF Init
  <2>3. key \in [Harnesses -> Ids] /\ store \in [Harnesses -> Ids]
    BY AwayFacts DEF Init
  <2> QED  BY <1>0, <2>1, <2>2, <2>3, IdsAssumption DEF Init, TypeOK, ActorRecords
<1>3. Numbers
  <2>1. Building = {}
    BY <1>1 DEF Init, Building
  <2>2. \A h \in Harnesses : driver[h] = "none" /\ h > built
    BY DEF Init, Harnesses
  <2> QED  BY <1>0, <2>1, <2>2, FS_EmptySet, BoundsAssumption DEF Numbers, Init
<1>4. ASSUME NEW id \in Ids PROVE Good(id)
  <2>1. /\ Acts(id) = {} /\ Guests(id) = {} /\ Torn(id) = {} /\ ~Probed(id) /\ Keyed(id) = {}
        /\ hosted[id] = 0 /\ id \notin monitor
    BY <1>0, <1>1 DEF Init, Acts, Guests, Torn, Probed, Keyed, Actors
  <2>2. Alive(id) = {} /\ Evicting(id) = {}
    BY <2>1 DEF Alive, Evicting
  <2> QED  BY <2>1, <2>2 DEF Good, OneOperation, OneHarness, Owed, Told
<1> QED  BY <1>2, <1>3, <1>4 DEF RegistryInv

LEMMA RegistryStep ==
  ASSUME ~Overlap, RegistryInv, [Next]_vars
  PROVE  RegistryInv'
<1>1. CASE Attaches
  <2>1. CASE ScanStops \/ (\E c \in Clients : Detach(c)) \/ \E a \in Actors : AssembleFails(a)
    BY <2>1, GoneStep
  <2>2. CASE \E c \in Clients : Subscribe(c)
    BY <2>2, SubscribeStep
  <2> QED  BY <1>1, <2>1, <2>2, AttachSteps
<1>2. CASE Ends
  BY <1>2, KillStep, EndSessionStep, ProbeStep DEF Ends
<1>3. CASE Works
  <2>1. ASSUME NEW h \in Harnesses, DriverEnds(h) PROVE RegistryInv'
    <3>1. /\ driver[h] \in {"running", "panicked"} /\ h \in cancelled /\ driver' = [driver EXCEPT ![h] = "ended"]
          /\ UNCHANGED <<hosted, built, key, store, cancelled, working, terminated, saved, actor,
                         toRehost, teardowns, sweep, monitor, faults>>
      BY <2>1 DEF DriverEnds
    <3> QED  BY <3>1, EndsStep
  <2> QED  BY <1>3, <2>1, AssembleStep, InsertStep, SweepStep, CancelsStep, AnnouncesStep DEF Works
<1>4. CASE Lives
  BY <1>4, LivesStep
<1>5. CASE Restart
  BY <1>5, RestartStep
<1>6. CASE \E h \in Harnesses : Evicts(h) \/ Panic(h)
  BY <1>6, EvictCheckStep, EvictRemoveStep, PanicStep DEF Evicts
<1>7. CASE UNCHANGED vars
  <2>0. TypeOK /\ Numbers /\ (\A j \in Ids : Good(j))
    BY DEF RegistryInv
  <2>1. TypeOK'
    BY <1>7, <2>0 DEF vars, TypeOK, harness, saved
  <2>2. UNCHANGED <<hosted, built, key, driver, cancelled, actor, teardowns, sweep, monitor>>
    BY <1>7 DEF vars, harness
  <2>3. Numbers' /\ \A j \in Ids : Good(j)'
    BY <2>0, <2>2, AllSame
  <2> QED  BY <2>1, <2>3 DEF RegistryInv
<1> QED  BY <1>1, <1>2, <1>3, <1>4, <1>5, <1>6, <1>7 DEF Next

-----------------------------------------------------------------------------
(* The types need no order of operations: they hold under Overlap too.        *)
RegistryTypes ==
    /\ TypeOK /\ Numbers
    /\ \A t \in teardowns : t.h \in 1..built   \* what is torn down was built,
    /\ \A a \in Actors :                       \* and so was what is bound
          actor[a].at \in {"assembled", "bound", "attached"} => actor[a].h # 0

(* No harness is added to those that are to be built.                         *)
LEMMA FewerBuilding ==
  ASSUME TypeOK, Numbers, UNCHANGED <<built, driver>>, Building' \subseteq Building
  PROVE  Numbers'
<1>1. IsFiniteSet(Building) /\ Cardinality(Building) \in Nat
  BY FS_CardinalityType DEF Numbers
<1>2. IsFiniteSet(Building') /\ Cardinality(Building') <= Cardinality(Building)
  BY <1>1, FS_Subset
<1>3. Cardinality(Building') \in Nat /\ built \in Nat /\ MaxBuilt \in Nat
  BY <1>2, FS_CardinalityType, BoundsAssumption DEF TypeOK
<1> QED  BY <1>1, <1>2, <1>3 DEF Numbers

LEMMA SameBuilding == ASSUME UNCHANGED actor PROVE Building' = Building
BY DEF Building

(* An actor goes to a place from which nothing is to be built.                *)
LEMMA GoesTypes ==
  ASSUME RegistryTypes, NEW a \in Actors, NEW r \in ActorRecords(built),
         r.at = "away" \/ (r.at # "missed" /\ r.h # 0),
         actor' = [actor EXCEPT ![a] = r],
         UNCHANGED <<built, harness, disk, armed, sweep, faults>>,
         toRehost' \subseteq Ids, dormant' \subseteq Ids,
         hosted' \in [Ids -> 0..built], monitor' \subseteq Ids,
         teardowns' \subseteq Teardown, \A t \in teardowns' : t.h \in 1..built
  PROVE  RegistryTypes'
<1>1. /\ actor' \in [Actors -> ActorRecords(built)] /\ actor'[a] = r
      /\ \A b \in Actors \ {a} : actor'[b] = actor[b]
  BY DEF RegistryTypes, TypeOK, ActorRecords
<1>2. TypeOK'
  BY <1>1 DEF RegistryTypes, TypeOK, ActorRecords, harness
<1>3. Building' \subseteq Building
  BY DEF Building, RegistryTypes, TypeOK
<1>4. Numbers'
  BY <1>3, FewerBuilding DEF RegistryTypes, harness
<1> QED  BY <1>1, <1>2, <1>4 DEF RegistryTypes

(* An actor has a harness to build.                                           *)
LEMMA MissTypes ==
  ASSUME RegistryTypes, NEW a \in Actors, NEW id \in Ids, Misses(a, id), actor[a].at = "away",
         UNCHANGED <<hosted, built, harness, saved, teardowns, sweep, monitor, faults>>,
         toRehost' \subseteq Ids
  PROVE  RegistryTypes'
<1> DEFINE r == [at |-> "missed", id |-> id, h |-> 0, exit |-> FALSE]
<1>0. /\ TypeOK /\ Numbers /\ built \in Nat /\ MaxBuilt \in Nat
      /\ built + Cardinality(Building) < MaxBuilt /\ actor' = [actor EXCEPT ![a] = r]
      /\ UNCHANGED <<built, driver, disk, armed>> /\ dormant' \subseteq Ids
  BY BoundsAssumption DEF RegistryTypes, Misses, Moves, TypeOK, harness, saved
<1>1. r \in ActorRecords(built) /\ r.at = "missed"
  BY <1>0 DEF ActorRecords
<1> HIDE DEF r
<1>2. TypeOK'
  BY <1>0, <1>1, ActorTypes
<1>3. Numbers'
  <2>1. Building' = Building \cup {a} /\ a \notin Building
    BY <1>0, <1>1 DEF Building, TypeOK
  <2>2. IsFiniteSet(Building) /\ Cardinality(Building) \in Nat
    BY <1>0, FS_CardinalityType DEF Numbers
  <2>3. IsFiniteSet(Building \cup {a}) /\ Cardinality(Building \cup {a}) = Cardinality(Building) + 1
    BY <2>1, <2>2, FS_AddElement
  <2> QED  BY <1>0, <2>1, <2>2, <2>3 DEF Numbers
<1> QED  BY <1>0, <1>1, <1>2, <1>3 DEF RegistryTypes, TypeOK

LEMMA AttachesTypes ==
  ASSUME RegistryTypes, Attaches
  PROVE  RegistryTypes'
<1>0. /\ TypeOK /\ built \in Nat /\ hosted \in [Ids -> 0..built] /\ Clients \subseteq Actors
      /\ Boot \in Actors /\ toRehost \subseteq Ids /\ dormant \subseteq Ids /\ monitor \subseteq Ids
      /\ teardowns \subseteq Teardown /\ \A t \in teardowns : t.h \in 1..built
      /\ \A a \in Actors : actor[a] \in ActorRecords(built)
      /\ \A id \in Ids : hosted[id] # 0 => hosted[id] \in 1..built
      /\ \A a \in Actors : actor[a].at \in {"assembled", "bound", "attached"} => actor[a].h # 0
  BY BoundsAssumption DEF RegistryTypes, TypeOK, Actors, ActorRecords
<1>1. ASSUME NEW a \in Actors, NEW r \in ActorRecords(built),
             r.at = "away" \/ (r.at # "missed" /\ r.h # 0), actor' = [actor EXCEPT ![a] = r],
             UNCHANGED <<hosted, built, harness, disk, armed, teardowns, sweep, monitor, faults>>,
             toRehost' \subseteq Ids, dormant' \subseteq Ids
      PROVE  RegistryTypes'
  <2>1. /\ UNCHANGED <<built, harness, disk, armed, sweep, faults>>
        /\ hosted' \in [Ids -> 0..built] /\ monitor' \subseteq Ids
        /\ teardowns' \subseteq Teardown /\ \A t \in teardowns' : t.h \in 1..built
    BY <1>0, <1>1
  <2> QED  BY <1>1, <2>1, GoesTypes
<1>2. ASSUME NEW c \in Clients, NEW id \in Ids, NEW at \in {"bound", "attached"},
             NEW h \in 1..built, Moves(c, at, id, h),
             UNCHANGED <<hosted, built, harness, saved, toRehost, teardowns, sweep, monitor, faults>>
      PROVE  RegistryTypes'
  <2> DEFINE r == [at |-> at, id |-> id, h |-> h, exit |-> FALSE]
  <2>1. r \in ActorRecords(built) /\ r.at # "missed" /\ r.h # 0 /\ actor' = [actor EXCEPT ![c] = r]
    BY <1>0, <1>2 DEF ActorRecords, Moves
  <2> HIDE DEF r
  <2>2. UNCHANGED <<disk, armed, toRehost, dormant>>
    BY <1>2 DEF saved
  <2> QED  BY <1>0, <1>1, <1>2, <2>1, <2>2
<1>3. ASSUME NEW c \in Actors, actor' = [actor EXCEPT ![c] = Away],
             UNCHANGED <<hosted, built, harness, disk, armed, teardowns, sweep, monitor, faults>>,
             toRehost' \subseteq Ids, dormant' \subseteq Ids
      PROVE  RegistryTypes'
  <2>1. Away \in ActorRecords(built) /\ Away.at = "away"
    BY <1>0, AwayFacts, AwayRecord
  <2> QED  BY <1>0, <1>1, <1>3, <2>1
<1>4. ASSUME NEW c \in Clients, NEW id \in Ids, Misses(c, id), actor[c].at = "away",
             UNCHANGED <<hosted, built, harness, saved, toRehost, teardowns, sweep, monitor, faults>>
      PROVE  RegistryTypes'
  <2>1. UNCHANGED <<hosted, built, harness, saved, teardowns, sweep, monitor, faults>> /\ toRehost' \subseteq Ids
    BY <1>0, <1>4
  <2> QED  BY <1>0, <1>4, <2>1, MissTypes
<1>5. ASSUME NEW c \in Clients, NEW id \in Ids, AttachTo(c, id) PROVE RegistryTypes'
  BY <1>0, <1>2, <1>4, <1>5 DEF AttachTo
<1>6. ASSUME NEW c \in Clients, AttachNew(c) \/ AttachAuto(c) PROVE RegistryTypes'
  BY <1>0, <1>2, <1>4, <1>6 DEF AttachNew, AttachAuto, Hosted
<1>7. CASE ScanStops \/ (\E c \in Clients : Detach(c)) \/ \E a \in Actors : AssembleFails(a)
  <2>1. ASSUME NEW c \in Clients, Detach(c) PROVE RegistryTypes'
    <3>1. UNCHANGED <<hosted, built, harness, disk, armed, toRehost, dormant, teardowns, sweep, monitor, faults>>
      BY <2>1 DEF Detach, saved
    <3> QED  BY <1>0, <1>3, <2>1, <3>1 DEF Detach
  <2>2. \A a \in Actors : actor[a].id \in Ids
    BY <1>0 DEF ActorRecords
  <2>3. ASSUME NEW a \in Actors, AssembleFails(a) PROVE RegistryTypes'
    <3>1. /\ UNCHANGED <<hosted, built, harness, disk, armed, teardowns, sweep, monitor, faults>>
          /\ toRehost' \subseteq Ids /\ dormant' \subseteq Ids /\ actor' = [actor EXCEPT ![a] = Away]
      BY <1>0, <2>2, <2>3 DEF AssembleFails
    <3> QED  BY <1>3, <3>1
  <2>4. CASE ScanStops
    <3>1. /\ UNCHANGED <<hosted, built, harness, disk, armed, teardowns, sweep, monitor, faults>>
          /\ toRehost' \subseteq Ids /\ dormant' \subseteq Ids /\ actor' = [actor EXCEPT ![Boot] = Away]
      BY <1>0, <2>2, <2>4 DEF ScanStops
    <3> QED  BY <1>0, <1>3, <3>1
  <2> QED  BY <1>7, <2>1, <2>3, <2>4
<1>8. ASSUME NEW c \in Clients, Subscribe(c) PROVE RegistryTypes'
  <2>1. actor[c].id \in Ids /\ actor[c].h \in 1..built
    BY <1>0, <1>8 DEF ActorRecords, Subscribe
  <2> QED  BY <1>2, <1>8, <2>1 DEF Subscribe
<1>9. ASSUME NEW id \in Ids, Rehost(id) PROVE RegistryTypes'
  <2>1. /\ UNCHANGED <<hosted, built, harness, disk, armed, teardowns, sweep, monitor, faults>>
        /\ toRehost' \subseteq Ids /\ dormant' \subseteq Ids /\ actor[Boot].at = "away"
        /\ (Misses(Boot, id) /\ UNCHANGED dormant) \/ UNCHANGED actor
    BY <1>0, <1>9 DEF Rehost
  <2>2. CASE Misses(Boot, id) /\ UNCHANGED dormant
    <3>1. UNCHANGED <<hosted, built, harness, saved, teardowns, sweep, monitor, faults>>
      BY <2>1, <2>2 DEF saved
    <3> QED  BY <1>0, <2>1, <2>2, <3>1, MissTypes
  <2>3. CASE UNCHANGED actor
    <3>1. TypeOK'
      BY <1>0, <2>1, <2>3 DEF TypeOK, harness
    <3>2. Numbers'
      BY <2>1, <2>3, SameBuilding DEF RegistryTypes, Numbers, harness
    <3> QED  BY <2>1, <2>3, <3>1, <3>2 DEF RegistryTypes
  <2> QED  BY <2>1, <2>2, <2>3
<1> QED  BY <1>5, <1>6, <1>7, <1>8, <1>9 DEF Attaches

LEMMA AssembleTypes ==
  ASSUME RegistryTypes, NEW a \in Actors, Assemble(a)
  PROVE  RegistryTypes'
<1>p. PICK id \in Ids : actor[a].id = id
  BY DEF RegistryTypes, TypeOK
<1>n. PICK n \in Nat : n = built + 1
  BY BoundsAssumption DEF RegistryTypes, TypeOK
<1> DEFINE r == [at |-> "assembled", id |-> id, h |-> n, exit |-> FALSE]
<1>0. /\ TypeOK /\ Numbers /\ \A t \in teardowns : t.h \in 1..built
      /\ actor[a].at = "missed" /\ built' = n /\ built \in Nat /\ MaxBuilt \in Nat
      /\ key' = [key EXCEPT ![n] = id] /\ store' = [store EXCEPT ![n] = id]
      /\ driver' = [driver EXCEPT ![n] = "running"] /\ actor' = [actor EXCEPT ![a] = r]
      /\ UNCHANGED <<hosted, cancelled, working, terminated, saved, toRehost, teardowns, sweep,
                     monitor, faults>>
  BY <1>p, <1>n, BoundsAssumption DEF RegistryTypes, Assemble, Moves, TypeOK
<1>1. r \in ActorRecords(n) /\ r.at = "assembled" /\ r.h # 0
  BY <1>0, <1>n DEF ActorRecords
<1> HIDE DEF r
<1>c. a \in Building /\ Building' = Building \ {a}
  BY <1>0, <1>1 DEF Building, TypeOK
<1>d. /\ IsFiniteSet(Building \ {a}) /\ Cardinality(Building \ {a}) = Cardinality(Building) - 1
      /\ Cardinality(Building) \in Nat /\ Cardinality(Building \ {a}) \in Nat
  BY <1>0, <1>c, FS_RemoveElement, FS_CardinalityType DEF Numbers
<1>e. n \in Harnesses /\ 1..n = (1..built) \cup {n} /\ 0..built \subseteq 0..n
  BY <1>0, <1>n, <1>d DEF Numbers, Harnesses
<1>2. TypeOK'
  <2>1. /\ hosted' \in [Ids -> 0..built'] /\ built' \in 0..MaxBuilt
        /\ sweep' \in [id : Ids, h : 0..built', how : {"none", "reap", "suspend"}]
    BY <1>0, <1>n, <1>e DEF TypeOK, Harnesses
  <2>2. /\ key' \in [Harnesses -> Ids] /\ store' \in [Harnesses -> Ids]
        /\ driver' \in [Harnesses -> {"none", "running", "panicked", "evicting", "ended"}]
    BY <1>0, <1>e DEF TypeOK
  <2>3. cancelled' \cup working' \cup terminated' \subseteq 1..built'
    BY <1>0, <1>e DEF TypeOK
  <2>4. actor' \in [Actors -> ActorRecords(built')]
    <3>1. ActorRecords(built) \subseteq ActorRecords(n)
      BY <1>e DEF ActorRecords
    <3>2. actor \in [Actors -> ActorRecords(built)]
      BY <1>0 DEF TypeOK, ActorRecords
    <3> QED  BY <1>0, <1>1, <3>1, <3>2
  <2> QED  BY <1>0, <2>1, <2>2, <2>3, <2>4 DEF TypeOK, ActorRecords, saved
<1>3. Numbers'
  <2>1. \A h \in Harnesses : driver'[h] = "none" <=> h > built'
    BY <1>0, <1>n, <1>e DEF Numbers, TypeOK, Harnesses
  <2> QED  BY <1>0, <1>n, <1>c, <1>d, <2>1 DEF Numbers
<1>4. \A b \in Actors : actor'[b].at \in {"assembled", "bound", "attached"} => actor'[b].h # 0
  BY <1>0, <1>1 DEF RegistryTypes, TypeOK
<1> QED  BY <1>0, <1>2, <1>3, <1>4, <1>e DEF RegistryTypes

LEMMA InsertTypes ==
  ASSUME RegistryTypes, NEW a \in Actors, Insert(a)
  PROVE  RegistryTypes'
<1> DEFINE r == IF a = Boot THEN Away
                ELSE [at |-> "bound", id |-> actor[a].id, h |-> actor[a].h, exit |-> FALSE]
<1>0. /\ TypeOK /\ built \in Nat /\ actor[a].id \in Ids /\ actor[a].h \in 0..built /\ actor[a].h # 0
      /\ teardowns \subseteq Teardown /\ \A t \in teardowns : t.h \in 1..built
      /\ hosted \in [Ids -> 0..built] /\ monitor \subseteq Ids
  BY BoundsAssumption DEF RegistryTypes, TypeOK, Insert
<1>1. /\ UNCHANGED <<built, harness, disk, armed, toRehost, teardowns, sweep, faults>>
      /\ toRehost' \subseteq Ids /\ dormant' \subseteq Ids
      /\ hosted' = [hosted EXCEPT ![actor[a].id] = actor[a].h]
      /\ monitor' = monitor \cup {actor[a].id} /\ actor' = [actor EXCEPT ![a] = r]
  BY <1>0 DEF Insert, Moves, TypeOK
<1>2. r \in ActorRecords(built) /\ (r.at = "away" \/ (r.at # "missed" /\ r.h # 0))
  BY <1>0, AwayFacts, AwayRecord DEF ActorRecords
<1> HIDE DEF r
<1>3. hosted' \in [Ids -> 0..built] /\ monitor' \subseteq Ids
  BY <1>0, <1>1
<1> QED  BY <1>0, <1>1, <1>2, <1>3, GoesTypes

-----------------------------------------------------------------------------
(* What the map and the teardowns become, with the actors as they are.        *)
LEMMA MapTypes ==
  ASSUME RegistryTypes, UNCHANGED <<built, key, store, working, terminated, saved, actor, toRehost, faults>>,
         hosted' \in [Ids -> 0..built], monitor' \subseteq Ids, cancelled' \subseteq 1..built,
         sweep' \in [id : Ids, h : 0..built, how : {"none", "reap", "suspend"}],
         teardowns' \subseteq Teardown, \A t \in teardowns' : t.h \in 1..built,
         UNCHANGED driver
         \/ \E h \in Harnesses, d \in {"panicked", "evicting", "ended"} :
               driver[h] # "none" /\ driver' = [driver EXCEPT ![h] = d]
  PROVE  RegistryTypes'
<1>1. /\ driver' \in [Harnesses -> {"none", "running", "panicked", "evicting", "ended"}]
      /\ \A h \in Harnesses : driver'[h] = "none" <=> driver[h] = "none"
  BY DEF RegistryTypes, TypeOK
<1>2. TypeOK'
  BY <1>1 DEF RegistryTypes, TypeOK, saved
<1>3. Numbers'
  BY <1>1, SameBuilding DEF RegistryTypes, Numbers
<1> QED  BY <1>2, <1>3 DEF RegistryTypes

LEMMA RemovedTypes ==
  ASSUME RegistryTypes, NEW id \in Ids, NEW h \in 1..built, NEW how \in {"kill", "suspend", "evict"},
         Removes(id, h, how)
  PROVE  /\ hosted' \in [Ids -> 0..built] /\ teardowns' \subseteq Teardown
         /\ \A t \in teardowns' : t.h \in 1..built
<1>1. built \in 0..MaxBuilt /\ 0 \in 0..built /\ h \in Harnesses
  BY BoundsAssumption DEF RegistryTypes, TypeOK, Harnesses
<1>2. [id |-> id, h |-> h, how |-> how, at |-> "removed"] \in Teardown
  BY <1>1 DEF Teardown
<1> QED  BY <1>1, <1>2 DEF RegistryTypes, TypeOK, Removes

LEMMA EntryTypes ==
  ASSUME RegistryTypes, Ends \/ Sweep
  PROVE  RegistryTypes'
<1>0. /\ TypeOK /\ hosted \in [Ids -> 0..built] /\ teardowns \subseteq Teardown /\ monitor \subseteq Ids
      /\ sweep \in [id : Ids, h : 0..built, how : {"none", "reap", "suspend"}] /\ built \in Nat
      /\ cancelled \subseteq 1..built /\ store \in [Harnesses -> Ids] /\ \A t \in teardowns : t.h \in 1..built
      /\ \A id \in Ids : hosted[id] # 0 => hosted[id] \in 1..built
  BY BoundsAssumption DEF RegistryTypes, TypeOK
<1>1. ASSUME NEW id \in Ids, Kill(id) PROVE RegistryTypes'
  <2>1. /\ hosted[id] \in 1..built /\ Removes(id, hosted[id], "kill")
        /\ UNCHANGED <<built, harness, saved, actor, toRehost, sweep, monitor, faults>>
    BY <1>0, <1>1 DEF Kill
  <2>2. /\ hosted' \in [Ids -> 0..built] /\ teardowns' \subseteq Teardown
        /\ \A t \in teardowns' : t.h \in 1..built
    BY <2>1, RemovedTypes
  <2> QED  BY <1>0, <2>1, <2>2, MapTypes DEF harness
<1>2. ASSUME NEW id \in Ids, NEW how \in {"reap", "suspend"}, Probe(id, how) PROVE RegistryTypes'
  <2>1. /\ sweep' = [id |-> id, h |-> hosted[id], how |-> how]
        /\ UNCHANGED <<hosted, built, harness, saved, actor, toRehost, teardowns, monitor, faults>>
    BY <1>2 DEF Probe
  <2>2. sweep' \in [id : Ids, h : 0..built, how : {"none", "reap", "suspend"}]
    BY <1>0, <2>1
  <2> QED  BY <1>0, <2>1, <2>2, MapTypes DEF harness
<1>3. ASSUME Sweep PROVE RegistryTypes'
  <2>1. /\ sweep' = NoProbe /\ sweep.id \in Ids
        /\ UNCHANGED <<built, harness, saved, actor, toRehost, monitor, faults>>
    BY <1>0, <1>3 DEF Sweep
  <2>2. sweep' \in [id : Ids, h : 0..built, how : {"none", "reap", "suspend"}]
    BY <1>0, <2>1, AwayFacts DEF NoProbe
  <2>3. /\ hosted' \in [Ids -> 0..built] /\ teardowns' \subseteq Teardown
        /\ \A t \in teardowns' : t.h \in 1..built
    <3>1. CASE hosted[sweep.id] = 0
      BY <1>0, <1>3, <3>1 DEF Sweep
    <3>2. CASE hosted[sweep.id] # 0
      <4>1. \E how \in {"kill", "suspend", "evict"} : Removes(sweep.id, hosted[sweep.id], how)
        BY <1>3, <3>2 DEF Sweep
      <4> QED  BY <1>0, <2>1, <3>2, <4>1, RemovedTypes
    <3> QED  BY <3>1, <3>2
  <2> QED  BY <1>0, <2>1, <2>2, <2>3, MapTypes DEF harness
<1>4. ASSUME NEW c \in Clients, EndSession(c) PROVE RegistryTypes'
  <2> DEFINE id == store[actor[c].h]
  <2>1. /\ actor' = [actor EXCEPT ![c] = Away] /\ c \in Actors
        /\ UNCHANGED <<built, harness, disk, armed, toRehost, dormant, sweep, monitor, faults>>
        /\ toRehost' \subseteq Ids /\ dormant' \subseteq Ids
    BY <1>0, <1>4 DEF EndSession, Actors, saved, TypeOK
  <2>2. Away \in ActorRecords(built) /\ Away.at = "away"
    BY <1>0, AwayFacts, AwayRecord
  <2>3. /\ hosted' \in [Ids -> 0..built] /\ teardowns' \subseteq Teardown
        /\ \A t \in teardowns' : t.h \in 1..built
    <3>1. CASE hosted[id] = 0
      BY <1>0, <1>4, <3>1 DEF EndSession
    <3>2. CASE hosted[id] # 0
      <4>1. Removes(id, hosted[id], "kill")
        BY <1>4, <3>2 DEF EndSession
      <4>2. id \in Ids
        <5>1. actor[c].h \in 0..built /\ actor[c].h # 0
          BY <1>4, <2>1 DEF EndSession, RegistryTypes, TypeOK
        <5>2. actor[c].h \in Harnesses
          BY <1>0, <5>1, BoundsAssumption DEF TypeOK, Harnesses
        <5> QED  BY <1>0, <5>2
      <4> HIDE DEF id
      <4> QED  BY <1>0, <3>2, <4>1, <4>2, RemovedTypes
    <3> QED  BY <3>1, <3>2
  <2> QED  BY <1>0, <2>1, <2>2, <2>3, GoesTypes
<1> QED  BY <1>1, <1>2, <1>3, <1>4 DEF Ends

LEMMA TeardownTypes ==
  ASSUME RegistryTypes, NEW t \in teardowns, Cancels(t) \/ Announces(t)
  PROVE  RegistryTypes'
<1>0. /\ TypeOK /\ Numbers /\ t \in Teardown /\ t.h \in 1..built /\ hosted \in [Ids -> 0..built]
      /\ teardowns \subseteq Teardown /\ monitor \subseteq Ids /\ cancelled \subseteq 1..built
      /\ sweep \in [id : Ids, h : 0..built, how : {"none", "reap", "suspend"}]
      /\ \A u \in teardowns : u.h \in 1..built
  BY DEF RegistryTypes, TypeOK
<1>1. CASE Announces(t)
  <2>1. /\ UNCHANGED <<hosted, built, harness, saved, actor, toRehost, sweep, faults>>
        /\ teardowns' \subseteq teardowns /\ monitor' \subseteq monitor
    BY <1>1 DEF Announces
  <2> QED  BY <1>0, <2>1, MapTypes DEF harness
<1>2. CASE Cancels(t)
  <2> DEFINE u == [t EXCEPT !.at = "cancelled"]
             r(a) == IF t.how # "suspend" /\ a \in Attached(t.h)
                     THEN [actor[a] EXCEPT !.exit = TRUE] ELSE actor[a]
  <2>1. /\ teardowns' = (teardowns \ {t}) \cup {u} /\ cancelled' = cancelled \cup {t.h}
        /\ actor' = [a \in Actors |-> r(a)] /\ terminated' \subseteq terminated \cup {t.h}
        /\ UNCHANGED <<hosted, built, key, store, driver, working, saved, toRehost, sweep, monitor,
                       faults>>
    BY <1>2 DEF Cancels
  <2>2. u \in Teardown /\ u.h = t.h
    BY <1>0 DEF Teardown
  <2>3. ASSUME NEW a \in Actors PROVE r(a) \in ActorRecords(built) /\ r(a).at = actor[a].at /\ r(a).h = actor[a].h
    <3>1. actor[a] \in ActorRecords(built)
      BY <1>0 DEF TypeOK, ActorRecords
    <3>2. CASE t.how # "suspend" /\ a \in Attached(t.h)
      <4>1. r(a) = [actor[a] EXCEPT !.exit = TRUE]
        BY <3>2
      <4> QED  BY <3>1, <4>1 DEF ActorRecords
    <3>3. CASE ~(t.how # "suspend" /\ a \in Attached(t.h))
      <4>1. r(a) = actor[a]
        BY <3>3
      <4> QED  BY <3>1, <4>1
    <3> QED  BY <3>2, <3>3
  <2> HIDE DEF u, r
  <2>4. actor' \in [Actors -> ActorRecords(built)] /\ Building' = Building
    BY <2>1, <2>3 DEF Building
  <2>5. TypeOK'
    BY <1>0, <2>1, <2>2, <2>4 DEF TypeOK, ActorRecords, saved
  <2>6. Numbers'
    BY <1>0, <2>1, <2>4 DEF Numbers
  <2> QED  BY <1>0, <2>1, <2>2, <2>3, <2>5, <2>6 DEF RegistryTypes
<1> QED  BY <1>1, <1>2

LEMMA DriverTypes ==
  ASSUME RegistryTypes, NEW h \in Harnesses, DriverEnds(h) \/ Panic(h) \/ Evicts(h)
  PROVE  RegistryTypes'
<1>0. /\ TypeOK /\ Numbers /\ hosted \in [Ids -> 0..built] /\ teardowns \subseteq Teardown
      /\ monitor \subseteq Ids /\ cancelled \subseteq 1..built /\ key[h] \in Ids
      /\ sweep \in [id : Ids, h : 0..built, how : {"none", "reap", "suspend"}]
      /\ \A u \in teardowns : u.h \in 1..built
  BY DEF RegistryTypes, TypeOK
<1>1. CASE DriverEnds(h) \/ EvictCheck(h)
  <2>1. /\ UNCHANGED <<hosted, built, key, store, cancelled, working, terminated, saved, actor,
                       toRehost, teardowns, sweep, monitor, faults>>
        /\ driver[h] # "none" /\ \E d \in {"ended", "evicting"} : driver' = [driver EXCEPT ![h] = d]
    BY <1>1 DEF DriverEnds, EvictCheck
  <2> QED  BY <1>0, <2>1, MapTypes
<1>2. CASE EvictRemove(h)
  <2>1. /\ UNCHANGED <<built, key, store, cancelled, working, terminated, saved, actor, toRehost,
                       sweep, monitor, faults>>
        /\ driver[h] # "none" /\ driver' = [driver EXCEPT ![h] = "ended"] /\ Removes(key[h], h, "evict")
    BY <1>2 DEF EvictRemove
  <2>2. h \in 1..built
    BY <1>0, <2>1, BoundsAssumption DEF Numbers, TypeOK, Harnesses
  <2>3. /\ hosted' \in [Ids -> 0..built] /\ teardowns' \subseteq Teardown
        /\ \A t \in teardowns' : t.h \in 1..built
    BY <1>0, <2>1, <2>2, RemovedTypes
  <2> QED  BY <1>0, <2>1, <2>3, MapTypes
<1>3. CASE Panic(h)
  <2>1. /\ UNCHANGED <<hosted, built, key, store, cancelled, working, terminated, saved, actor,
                       toRehost, teardowns, sweep, monitor>>
        /\ driver[h] = "running" /\ driver' = [driver EXCEPT ![h] = "panicked"]
    BY <1>3 DEF Panic
  <2>2. /\ driver' \in [Harnesses -> {"none", "running", "panicked", "evicting", "ended"}]
        /\ \A g \in Harnesses : driver'[g] = "none" <=> driver[g] = "none"
    BY <1>0, <2>1 DEF TypeOK
  <2>3. faults' \in 0..MaxFaults
    BY <1>0, <1>3, BoundsAssumption DEF Panic, Fault, TypeOK
  <2>4. TypeOK'
    BY <1>0, <2>1, <2>2, <2>3 DEF TypeOK, saved
  <2>5. Numbers'
    BY <1>0, <2>1, <2>2, SameBuilding DEF Numbers
  <2> QED  BY <1>0, <2>1, <2>4, <2>5 DEF RegistryTypes
<1> QED  BY <1>1, <1>2, <1>3 DEF Evicts

LEMMA RestartTypes ==
  ASSUME RegistryTypes, Restart
  PROVE  RegistryTypes'
<1>0. /\ TypeOK /\ Numbers /\ built \in Nat /\ 1..built \subseteq Harnesses
      /\ hosted' = [i \in Ids |-> 0] /\ monitor' = {} /\ working' = {} /\ cancelled' = 1..built
      /\ driver' = [h \in Harnesses |-> IF driver[h] = "none" THEN "none" ELSE "ended"]
      /\ actor' = [a \in Actors |-> Away] /\ toRehost' \cup dormant' \subseteq Ids
      /\ teardowns' = {} /\ sweep' = NoProbe
      /\ UNCHANGED <<built, key, store, terminated, disk, armed>>
  BY BoundsAssumption DEF RegistryTypes, Restart, TypeOK, Harnesses
<1>1. Away \in ActorRecords(built) /\ Away.at = "away"
  BY <1>0, AwayFacts, AwayRecord
<1>2. TypeOK'
  <2>1. faults' \in 0..MaxFaults
    BY <1>0, BoundsAssumption DEF Restart, Fault, TypeOK
  <2>2. sweep' \in [id : Ids, h : 0..built, how : {"none", "reap", "suspend"}]
    BY <1>0, AwayFacts DEF NoProbe
  <2>3. hosted' \in [Ids -> 0..built] /\ actor' \in [Actors -> ActorRecords(built)]
    BY <1>0, <1>1
  <2> QED  BY <1>0, <2>1, <2>2, <2>3 DEF TypeOK, ActorRecords
<1>3. Numbers'
  <2>1. Building' = {}
    BY <1>0, <1>1 DEF Building
  <2> QED  BY <1>0, <2>1, FS_EmptySet, BoundsAssumption DEF Numbers, TypeOK
<1> QED  BY <1>0, <1>1, <1>2, <1>3 DEF RegistryTypes

LEMMA LivesTypes ==
  ASSUME RegistryTypes, Lives
  PROVE  RegistryTypes'
<1>0. TypeOK /\ Numbers /\ \A t \in teardowns : t.h \in 1..built
  BY DEF RegistryTypes
<1>1. PICK h \in Harnesses : RoundBegins(h) \/ RoundEnds(h) \/ Schedule(h) \/ NewSession(h)
  BY DEF Lives
<1>2. UNCHANGED <<hosted, built, key, driver, cancelled, dormant, actor, toRehost, teardowns, sweep,
                  monitor, faults>>
  BY <1>1 DEF RoundBegins, RoundEnds, Schedule, NewSession, harness, saved
<1>3. Serves(h) => h \in 1..built
  BY <1>0, BoundsAssumption DEF Serves, Numbers, TypeOK, Harnesses
<1>4. store[h] \in Ids
  BY <1>0 DEF TypeOK
<1>5. /\ store' \in [Harnesses -> Ids] /\ working' \cup terminated' \subseteq 1..built
      /\ armed' \subseteq disk' /\ disk' \subseteq Ids
  <2>1. CASE RoundBegins(h)
    BY <1>0, <1>3, <1>4, <2>1 DEF RoundBegins, TypeOK
  <2>2. CASE RoundEnds(h)
    BY <1>0, <2>2 DEF RoundEnds, TypeOK, saved
  <2>3. CASE Schedule(h)
    BY <1>0, <1>4, <2>3 DEF Schedule, TypeOK, harness
  <2>4. CASE NewSession(h)
    BY <1>0, <2>4 DEF NewSession, TypeOK, saved
  <2> QED  BY <1>1, <2>1, <2>2, <2>3, <2>4
<1>6. TypeOK'
  BY <1>0, <1>2, <1>5 DEF TypeOK
<1>7. Numbers'
  BY <1>0, <1>2, SameBuilding DEF Numbers
<1> QED  BY <1>0, <1>2, <1>6, <1>7 DEF RegistryTypes

-----------------------------------------------------------------------------
(* At every state, when operations on one id follow each other, the invariant *)
(* holds: of an id's harnesses one at most has still to end, and it is in the *)
(* map, told to end, or in the hands of the one operation on the id.          *)
THEOREM RegistryInvHolds ==
  ASSUME ~Overlap
  PROVE  Spec => []RegistryInv
<1>1. Init => RegistryInv
  BY RegistryInit
<1>2. RegistryInv /\ [Next]_vars => RegistryInv'
  BY RegistryStep
<1> QED  BY <1>1, <1>2, PTL DEF Spec

(* The state has the types declared for it (registry.rs, bootstrap.rs), and   *)
(* no more harnesses are built than there is room for, whatever operations on *)
(* one id fall into each other.                                               *)
THEOREM RegistryTypeCorrect == Spec => []TypeOK
<1>1. Init => RegistryTypes
  BY RegistryInit, AwayFacts DEF RegistryInv, RegistryTypes, Init
<1>2. RegistryTypes /\ [Next]_vars => RegistryTypes'
  <2> SUFFICES ASSUME RegistryTypes, [Next]_vars PROVE RegistryTypes'
    OBVIOUS
  <2>1. CASE Attaches \/ Ends \/ Lives \/ Restart
    BY <2>1, AttachesTypes, EntryTypes, LivesTypes, RestartTypes
  <2>2. CASE Works
    BY <2>2, AssembleTypes, InsertTypes, EntryTypes, TeardownTypes, DriverTypes DEF Works
  <2>3. CASE \E h \in Harnesses : Evicts(h) \/ Panic(h)
    BY <2>3, DriverTypes
  <2>4. CASE UNCHANGED vars
    <3>1. TypeOK'
      BY <2>4 DEF RegistryTypes, TypeOK, vars, harness, saved
    <3>2. Numbers'
      BY <2>4, SameBuilding DEF RegistryTypes, Numbers, vars, harness
    <3> QED  BY <2>4, <3>1, <3>2 DEF RegistryTypes, vars, harness
  <2> QED  BY <2>1, <2>2, <2>3, <2>4 DEF Next
<1>3. RegistryTypes => TypeOK
  BY DEF RegistryTypes
<1> QED  BY <1>1, <1>2, <1>3, PTL DEF Spec

(* Kills, idle sweeps, evictions, rehosts and restarts leave no orphan and no *)
(* zombie: between two operations on an id its running driver is the one in   *)
(* the map, the entry has a driver that serves or is about to be evicted, and *)
(* the monitors show just the hosted ids.                                     *)
THEOREM MapAgrees ==
  ASSUME ~Overlap
  PROVE  Spec => []MapMatchesDrivers
<1>1. ASSUME RegistryInv PROVE MapMatchesDrivers
  <2> SUFFICES ASSUME NEW id \in Ids, Settled(id)
               PROVE  /\ id \in monitor <=> id \in Hosted
                      /\ \A h \in 1..built : key[h] = id /\ driver[h] = "running" => hosted[id] = h
                      /\ id \in Hosted => /\ driver[hosted[id]] \in {"running", "panicked"}
                                          /\ hosted[id] \notin cancelled /\ key[hosted[id]] = id
    BY DEF MapMatchesDrivers
  <2>0. TypeOK /\ Numbers /\ Good(id)
    BY <1>1 DEF RegistryInv
  <2>1. Torn(id) = {} /\ Evicting(id) = {} /\ \A h \in Alive(id) : hosted[id] = h
    BY <1>1, Quiet
  <2>2. id \in monitor <=> id \in Hosted
    BY <2>0, <2>1 DEF Good, OneHarness, Hosted
  <2>3. \A h \in 1..built : key[h] = id /\ driver[h] = "running" => hosted[id] = h
    BY <2>1 DEF Alive, Keyed
  <2>4. ASSUME id \in Hosted
        PROVE  /\ driver[hosted[id]] \in {"running", "panicked"}
               /\ hosted[id] \notin cancelled /\ key[hosted[id]] = id
    <3>1. hosted[id] \in Alive(id) \ cancelled
      BY <2>0, <2>4 DEF Good, OneHarness, Hosted
    <3>2. hosted[id] \in 1..built /\ key[hosted[id]] = id /\ driver[hosted[id]] \notin {"ended", "evicting"}
      BY <2>1, <3>1 DEF Alive, Keyed, Evicting
    <3>3. hosted[id] \in Harnesses /\ driver[hosted[id]] # "none"
      BY <2>0, <3>2, BoundsAssumption DEF Numbers, TypeOK, Harnesses
    <3> QED  BY <2>0, <3>1, <3>2, <3>3 DEF TypeOK
  <2> QED  BY <2>2, <2>3, <2>4
<1> QED  BY <1>1, RegistryInvHolds, PTL

(* Nobody stays attached to a session that was killed or evicted without      *)
(* having been sent the Exit; one that is suspended has nobody attached.      *)
THEOREM ClientsAreTold ==
  ASSUME ~Overlap
  PROVE  Spec => []AttachedOrTold
<1>1. ASSUME RegistryInv PROVE AttachedOrTold
  <2> SUFFICES ASSUME NEW c \in Clients, actor[c].at = "attached", actor[c].h \in cancelled
               PROVE  actor[c].exit
    BY DEF AttachedOrTold
  <2>1. actor[c].id \in Ids /\ c \in Guests(actor[c].id)
    BY <1>1 DEF RegistryInv, TypeOK, Guests, Actors
  <2> QED  BY <1>1, <2>1 DEF RegistryInv, Good, Told
<1> QED  BY <1>1, RegistryInvHolds, PTL
=============================================================================
