------------------------- MODULE SessionStore_proofs -------------------------
(***************************************************************************)
(* A session store whose mutators take turns keeps its promise: after a    *)
(* crash at any step, failed snapshots and compactions included (but not   *)
(* between the two files of a compaction), a load finds what was in memory *)
(* once the session has a file, but for changes that could not be logged,  *)
(* and the files implement DurableSession.                                 *)
(* The last part, on types, lets mutators overtake one another and crashes *)
(* fall anywhere.                                                          *)
(***************************************************************************)
EXTENDS SessionStore, FiniteSetTheorems, TLAPS

-----------------------------------------------------------------------------
(* Replay.                                                                    *)

(* Events of another field, or that carry no value, replay to the base.       *)
LEMMA ReplayNothing ==
  ASSUME NEW base, NEW events, NEW f,
         \A e \in events : e.kind = "started" \/ e.field # f
  PROVE  Replayed(base, events, f) = base[f]
<1>1. Sets(events, f) = {}
  BY DEF Sets
<1>2. {e.value : e \in {d \in events : d.field = f /\ d.kind = "add"}} = {}
  OBVIOUS
<1>3. Added(events, f) = {}
  BY <1>2 DEF Added
<1> QED
  BY <1>1, <1>3 DEF Replayed

(* The last value that was set is the newest of them. *)
LEMMA LastIsNewest ==
  ASSUME NEW events, NEW f, NEW e, Newest(e, Sets(events, f))
  PROVE  Newest(LastSet(events, f), Sets(events, f))
BY DEF Newest, LastSet

(* An event that is newer than some events, whose last value of f is known. *)
Follows(e, events, more, f) ==
    /\ events \subseteq Event /\ e \in Event /\ e.kind # "started"
    /\ more = events \cup {e} /\ \A d \in events : d.seq < e.seq
    /\ Sets(events, f) # {} => \E d \in events : Newest(d, Sets(events, f))

(* It is applied to what the older ones replay to. *)
LEMMA ReplayNewer ==
  ASSUME NEW base, NEW e, NEW events, NEW more, NEW f, Follows(e, events, more, f)
  PROVE  /\ e.field # f => Replayed(base, more, f) = Replayed(base, events, f)
         /\ e.field = f /\ e.kind = "set" => Replayed(base, more, f) = e.value
         /\ e.field = f /\ e.kind = "add" =>
              Replayed(base, more, f) = Replayed(base, events, f) \cup e.value
<1>. /\ events \subseteq Event /\ e \in Event /\ e.kind # "started"
     /\ more = events \cup {e} /\ \A d \in events : d.seq < e.seq
     /\ Sets(events, f) # {} => \E d \in events : Newest(d, Sets(events, f))
  BY DEF Follows
<1>0. e.seq \in Nat /\ e.kind \in {"set", "add"} /\ \A d \in events : d.seq \in Nat
  BY DEF Event
<1>1. CASE e.field = f /\ e.kind = "set"
  <2>1. e \in Sets(more, f) /\ Newest(e, Sets(more, f))
    BY <1>0, <1>1 DEF Sets, Newest
  <2>2. LastSet(more, f) \in Sets(more, f) /\ e.seq <= LastSet(more, f).seq
    BY <2>1, LastIsNewest DEF Newest
  <2>3. LastSet(more, f) = e
    BY <1>0, <2>2 DEF Sets
  <2>4. {d \in more : d.seq > e.seq} = {}
    BY <1>0
  <2>5. Added({d \in more : d.seq > e.seq}, f) = {}
    BY <2>4 DEF Added
  <2>6. Sets(more, f) # {}
    BY <2>1
  <2>7. Replayed(base, more, f) = e.value \cup Added({d \in more : d.seq > e.seq}, f)
    BY <2>3, <2>6 DEF Replayed
  <2> QED
    BY <2>5, <2>7, <1>1
<1>2. ASSUME e.field # f \/ e.kind = "add"
      PROVE  /\ Sets(more, f) = Sets(events, f)
             /\ LastSet(more, f) = LastSet(events, f)
             /\ Sets(events, f) # {} => LastSet(events, f) \in events
  <2>1. Sets(more, f) = Sets(events, f)
    BY <1>0, <1>2 DEF Sets
  <2>2. LastSet(more, f) = LastSet(events, f)
    BY <2>1 DEF LastSet
  <2>3. ASSUME Sets(events, f) # {} PROVE LastSet(events, f) \in events
    BY <2>3, LastIsNewest DEF Newest, Sets
  <2> QED
    BY <2>1, <2>2, <2>3
<1>3. CASE e.field # f
  <2>1. Added(more, f) = Added(events, f)
    <3>1. {d \in more : d.field = f /\ d.kind = "add"} = {d \in events : d.field = f /\ d.kind = "add"}
      BY <1>3
    <3> QED
      BY <3>1 DEF Added
  <2>2. ASSUME NEW n PROVE Added({d \in more : d.seq > n}, f) = Added({d \in events : d.seq > n}, f)
    <3>1. {c \in {d \in more : d.seq > n} : c.field = f /\ c.kind = "add"} =
          {c \in {d \in events : d.seq > n} : c.field = f /\ c.kind = "add"}
      BY <1>3
    <3> QED
      BY <3>1 DEF Added
  <2> QED
    BY <1>2, <1>3, <2>1, <2>2 DEF Replayed
<1>4. CASE e.field = f /\ e.kind = "add"
  <2>1. ASSUME NEW some \in SUBSET events
        PROVE  Added(some \cup {e}, f) = Added(some, f) \cup e.value
    <3>1. {d \in some \cup {e} : d.field = f /\ d.kind = "add"} =
          {d \in some : d.field = f /\ d.kind = "add"} \cup {e}
      BY <1>4
    <3> QED
      BY <3>1 DEF Added
  <2>2. CASE Sets(events, f) = {}
    BY <1>2, <1>4, <2>1, <2>2 DEF Replayed
  <2>3. CASE Sets(events, f) # {}
    <3> DEFINE last == LastSet(events, f)
    <3>1. last.seq < e.seq
      BY <1>2, <1>4, <2>3
    <3>2. {d \in more : d.seq > last.seq} = {d \in events : d.seq > last.seq} \cup {e}
      BY <3>1, <1>0, <1>2, <1>4, <2>3
    <3>3. Added({d \in more : d.seq > last.seq}, f) =
          Added({d \in events : d.seq > last.seq}, f) \cup e.value
      BY <3>2, <2>1
    <3> QED
      BY <1>2, <1>4, <2>3, <3>3 DEF Replayed
  <2> QED
    BY <2>2, <2>3
<1> QED
  BY <1>0, <1>1, <1>3, <1>4

-----------------------------------------------------------------------------
(* The log.                                                                   *)

LEMMA HighIsNewest ==
  ASSUME log \subseteq Event, NEW h \in log, Newest(h, log)
  PROVE  High = h.seq
<1>1. \A e \in log : e.seq \in Nat
  BY DEF Event
<1>2. h.seq \in {e.seq : e \in log} /\ \A e \in log : e.seq <= h.seq
  BY DEF Newest
<1>3. High \in {e.seq : e \in log} /\ \A e \in log : e.seq <= High
  BY <1>2 DEF High
<1> QED
  BY <1>1, <1>2, <1>3

(* The next number is above every number in the file. *)
LEMMA NextIsFresh ==
  ASSUME StoreTypeOK, LogOrdered
  PROVE  /\ NextSeq \in Nat /\ \A e \in log : e.seq < NextSeq
         /\ Cardinality(log) <= NextSeq
<1>0. log \subseteq Event /\ next \in Nat /\ \A e \in log : e.seq \in Nat
  BY DEF StoreTypeOK, Event
<1>1. CASE log = {}
  BY <1>0, <1>1, FS_EmptySet DEF NextSeq
<1>2. CASE log # {}
  <2>1. PICK h \in log : Newest(h, log)
    BY <1>2 DEF LogOrdered
  <2>2. High = h.seq /\ h.seq \in Nat /\ \A e \in log : e.seq <= h.seq
    BY <1>0, <2>1, HighIsNewest DEF Newest
  <2>3. Cardinality(log) <= h.seq + 1 /\ (next # 0 => h.seq < next)
    BY <2>1 DEF LogOrdered
  <2>4. Cardinality(log) \in Nat
    BY FS_CardinalityType DEF LogOrdered
  <2> QED
    BY <1>0, <1>2, <2>2, <2>3, <2>4 DEF NextSeq
<1> QED
  BY <1>1, <1>2

(* What one mutation adds to the log: an event newer than all, after a start  *)
(* if the log was empty.                                                      *)
Adds(e, kind, f, v) ==
    /\ e \in Event /\ e.kind = kind /\ e.field = f /\ e.value = v
    /\ Newest(e, log') /\ \A d \in log : d.seq < e.seq
    /\ log # {} => log' = log \cup {e}
    /\ log = {} => \E s \in Event : s.kind = "started" /\ s.seq < e.seq /\ log' = {s} \cup {e}

LEMMA RecordAdds ==
  ASSUME StoreTypeOK, LogOrdered, NEW kind \in {"set", "add"}, NEW f \in Fields,
         NEW v \in Values, Record(kind, f, v)
  PROVE  /\ \E e \in log' : Adds(e, kind, f, v)
         /\ LogOrdered' /\ log' \subseteq Event /\ next' \in Nat \ {0}
<1> DEFINE first == NextSeq
           seq   == IF log = {} THEN first + 1 ELSE first
           s     == Started(first)
           e     == [seq |-> seq, kind |-> kind, field |-> f, value |-> v]
           older == IF log = {} THEN {s} ELSE log
<1>1. /\ first \in Nat /\ \A d \in log : d.seq < first
      /\ Cardinality(log) <= first /\ log \subseteq Event /\ IsFiniteSet(log)
  BY NextIsFresh DEF StoreTypeOK, LogOrdered
<1>2. log' = older \cup {e} /\ next' = seq + 1
  BY DEF Record
<1>3. s \in Event /\ e \in Event
  BY <1>1, FieldsAssumption DEF Event, Values, Started
<1>4. /\ e.seq = seq /\ e.kind = kind /\ e.field = f /\ e.value = v
      /\ s.seq = first /\ s.kind = "started"
  BY DEF Started
<1>5. older \subseteq Event /\ seq \in Nat /\ \A d \in older : d.seq < seq
  BY <1>1, <1>3, <1>4
<1>6. \A d \in older : d.seq \in Nat
  BY <1>5 DEF Event
<1>7. IsFiniteSet(older) /\ Cardinality(older) \in Nat /\ Cardinality(older) <= seq
  <2>1. CASE log = {}
    <3>1. older = {s} /\ seq = first + 1
      BY <2>1
    <3>2. IsFiniteSet({s}) /\ Cardinality({s}) = 1
      BY FS_Singleton
    <3> HIDE DEF older, seq, s
    <3> QED
      BY <1>1, <3>1, <3>2
  <2>2. CASE log # {}
    BY <1>1, <2>2, FS_CardinalityType
  <2> QED
    BY <2>1, <2>2
<1> HIDE DEF first, seq, s, e, older
<1>8. Newest(e, log') /\ e \in log'
  BY <1>2, <1>4, <1>5, <1>6 DEF Newest
<1>9. Adds(e, kind, f, v)
  <2>1. log # {} => older = log
    BY DEF older
  <2>2. log = {} => older = {s} /\ s.seq < e.seq
    BY <1>4, <1>5 DEF older
  <2>3. \A d \in log : d.seq < e.seq
    BY <1>4, <1>5, <2>1
  <2> QED
    BY <1>2, <1>3, <1>4, <1>8, <2>1, <2>2, <2>3 DEF Adds
<1>10. LogOrdered'
  <2>1. \E d \in log' : Newest(d, log')
    BY <1>8
  <2>2. ASSUME NEW g \in Fields, Sets(log', g) # {}
        PROVE  \E d \in log' : Newest(d, Sets(log', g))
    <3>1. CASE e \in Sets(log', g)
      BY <1>8, <3>1 DEF Newest, Sets
    <3>2. CASE e \notin Sets(log', g)
      <4>1. Sets(log', g) = Sets(older, g)
        BY <1>2, <3>2 DEF Sets
      <4>2. log # {}
        BY <1>4, <2>2, <4>1 DEF Sets, older
      <4>3. older = log
        BY <4>2 DEF older
      <4>4. PICK d \in log : Newest(d, Sets(log, g))
        BY <2>2, <4>1, <4>3 DEF LogOrdered
      <4> QED
        BY <1>2, <4>1, <4>3, <4>4
    <3> QED
      BY <3>1, <3>2
  <2>3. ASSUME NEW c \in log', NEW d \in log', c.kind = "set", d.kind = "set",
               c.field = d.field, c.seq = d.seq
        PROVE  c = d
    <3>1. CASE c \in older /\ d \in older
      <4>1. log # {}
        BY <1>4, <2>3, <3>1 DEF older
      <4>2. c \in log /\ d \in log
        BY <3>1, <4>1 DEF older
      <4> QED
        BY <2>3, <4>2 DEF LogOrdered
    <3>2. CASE ~(c \in older /\ d \in older)
      BY <1>2, <1>4, <1>5, <1>6, <2>3, <3>2
    <3> QED
      BY <3>1, <3>2
  <2>4. \A d \in log' : d.seq < next'
    BY <1>2, <1>4, <1>5, <1>6
  <2>5. /\ IsFiniteSet(log') /\ Cardinality(log') \in Nat
        /\ Cardinality(log') <= Cardinality(older) + 1
    <3>1. /\ IsFiniteSet(older \cup {e})
          /\ Cardinality(older \cup {e}) = IF e \in older THEN Cardinality(older)
                                          ELSE Cardinality(older) + 1
      BY <1>7, FS_AddElement
    <3> QED
      BY <1>2, <1>7, <3>1
  <2>6. \A d \in log' : Newest(d, log') => Cardinality(log') <= d.seq + 1
    <3> TAKE d \in log'
    <3> HAVE Newest(d, log')
    <3>1. d = e \/ d \in older
      BY <1>2
    <3>2. e.seq <= d.seq
      BY <1>8 DEF Newest
    <3>3. d = e
      BY <1>4, <1>5, <1>6, <3>1, <3>2
    <3> QED
      BY <1>4, <1>5, <1>7, <2>5, <3>3
  <2> QED
    BY <2>1, <2>2, <2>3, <2>4, <2>5, <2>6 DEF LogOrdered
<1> QED
  BY <1>2, <1>3, <1>5, <1>8, <1>9, <1>10

(* A compacted log is a log in good order, and below the next number. *)
LEMMA SeedsOrdered ==
  ASSUME StoreTypeOK, LogOrdered, NEW data \in Data, Cardinality(log) >= Threshold,
         log' = Seeds(data), next' = next
  PROVE  LogOrdered' /\ log' \subseteq Event /\ log' # {}
<1> DEFINE full  == {f \in Fields : data[f] # {}}
           named == full \cup {Window}
           n     == Cardinality(named)
           s     == Started(0)
           Seed(f) == [seq |-> n, kind |-> "set", field |-> f, value |-> data[f]]
           seeds == {Seed(f) : f \in named}
<1>1. log' = {s} \cup seeds
  BY DEF Seeds
<1>2. named \subseteq Fields /\ Window \in named
  BY FieldsAssumption
<1>3. IsFiniteSet(named) /\ n \in Nat /\ n <= Cardinality(Fields)
  BY <1>2, FieldsAssumption, FS_Subset, FS_CardinalityType
<1>4. \A f \in Fields : data[f] \in Values
  BY DEF Data
<1>5. /\ s.seq = 0 /\ s.kind = "started"
      /\ \A f \in named : /\ Seed(f).seq = n /\ Seed(f).kind = "set"
                          /\ Seed(f).field = f /\ Seed(f).value = data[f]
  BY DEF Started
<1>6. log' \subseteq Event
  <2>1. s \in Event
    BY FieldsAssumption DEF Event, Values, Started
  <2>2. \A f \in named : Seed(f) \in Event
    BY <1>2, <1>3, <1>4 DEF Event
  <2> QED
    BY <1>1, <2>1, <2>2
<1> HIDE DEF n, s, Seed, named
<1>7. \A e \in seeds : e.seq = n /\ e.kind = "set" /\ e = Seed(e.field)
  BY <1>5
<1>8. Seed(Window) \in seeds /\ s \in log'
  BY <1>1, <1>2
<1>9. \A e \in log' : e.seq <= n
  BY <1>1, <1>3, <1>5, <1>7
<1>10. n < NextSeq /\ (next # 0 => n < next)
  <2>1. Cardinality(log) \in Nat /\ Cardinality(Fields) \in Nat
    BY FS_CardinalityType, FieldsAssumption DEF LogOrdered
  <2>2. NextSeq \in Nat /\ Cardinality(log) <= NextSeq
    BY NextIsFresh
  <2> QED
    BY <1>3, <2>1, <2>2, ThresholdAssumption DEF NextSeq
<1>11. IsFiniteSet(log') /\ Cardinality(log') <= n + 1
  <2>1. IsFiniteSet(seeds) /\ Cardinality(seeds) <= n
    <3>1. [f \in named |-> Seed(f)] \in Surjection(named, seeds)
      BY DEF Surjection
    <3> QED
      BY <1>3, <3>1, FS_Surjection DEF n
  <2>2. Cardinality(seeds) \in Nat
    BY <2>1, FS_CardinalityType
  <2>3. /\ IsFiniteSet(seeds \cup {s})
        /\ Cardinality(seeds \cup {s}) = IF s \in seeds THEN Cardinality(seeds)
                                         ELSE Cardinality(seeds) + 1
    BY <2>1, FS_AddElement
  <2>4. log' = seeds \cup {s}
    BY <1>1
  <2> HIDE DEF seeds
  <2> QED
    BY <1>3, <2>1, <2>2, <2>3, <2>4
<1>12. LogOrdered'
  <2>1. \E e \in log' : Newest(e, log')
    BY <1>1, <1>7, <1>8, <1>9 DEF Newest
  <2>2. ASSUME NEW g \in Fields, Sets(log', g) # {}
        PROVE  \E e \in log' : Newest(e, Sets(log', g))
    <3>1. \A e \in Sets(log', g) : e \in log' /\ e.seq = n
      BY <1>1, <1>5, <1>7 DEF Sets
    <3>2. \A d, e \in Sets(log', g) : d.seq <= e.seq
      BY <1>3, <3>1
    <3> QED
      BY <2>2, <3>1, <3>2 DEF Newest
  <2>3. \A d, e \in log' : d.kind = "set" /\ e.kind = "set" /\ d.field = e.field => d = e
    BY <1>1, <1>5, <1>7
  <2>4. next' # 0 => \A e \in log' : e.seq < next'
    <3>1. \A e \in log' : e.seq \in Nat
      BY <1>6 DEF Event
    <3> QED
      BY <1>3, <1>9, <1>10, <3>1 DEF StoreTypeOK
  <2>5. \A e \in log' : Newest(e, log') => Cardinality(log') <= e.seq + 1
    <3>1. ASSUME NEW e \in log', Newest(e, log') PROVE e.seq = n
      <4>1. Seed(Window).seq <= e.seq
        BY <1>1, <1>8, <3>1 DEF Newest
      <4>2. e.seq \in Nat
        BY <1>6 DEF Event
      <4> QED
        BY <1>3, <1>7, <1>8, <1>9, <4>1, <4>2
    <3> QED
      BY <1>11, <3>1
  <2> QED
    BY <1>11, <2>1, <2>2, <2>3, <2>4, <2>5 DEF LogOrdered
<1> QED
  BY <1>6, <1>8, <1>12

-----------------------------------------------------------------------------
(* A refused event.                                                           *)

(* What is left of one keeps the log in order. *)
LEMMA RecordFailsKeeps ==
  ASSUME StoreTypeOK, LogOrdered, NEW f \in Fields, NEW lines \in SUBSET Durable!Changes,
         RecordFails(f, lines)
  PROVE  LogOrdered' /\ log' \subseteq Event /\ next' \in Nat /\ (log # {} => log' # {})
<1>1. /\ NextSeq \in Nat /\ \A e \in log : e.seq < NextSeq
      /\ next \in Nat /\ log \subseteq Event /\ \A e \in log : e.seq \in Nat
  BY NextIsFresh DEF StoreTypeOK, Event
<1>2. CASE log' = log /\ next' \in {next, NextSeq + 1}
  <2>1. next' \in Nat /\ (next' # 0 => \A e \in log : e.seq < next')
    BY <1>1, <1>2 DEF LogOrdered
  <2> QED
    BY <1>1, <1>2, <2>1 DEF LogOrdered, Sets, Newest
<1>3. CASE log = {} /\ log' = {Started(NextSeq)} /\ next' \in {NextSeq + 1, NextSeq + 2}
  <2> DEFINE s == Started(NextSeq)
  <2>1. s \in Event /\ s.kind = "started" /\ s.seq = NextSeq
    BY <1>1, FieldsAssumption DEF Event, Values, Started
  <2>2. IsFiniteSet(log') /\ Cardinality(log') = 1
    BY <1>3, FS_Singleton
  <2> HIDE DEF s
  <2>3. log' = {s} /\ next' \in Nat /\ s.seq < next'
    BY <1>1, <1>3, <2>1 DEF s
  <2>4. Newest(s, log') /\ \A f_1 \in Fields : Sets(log', f_1) = {}
    BY <1>1, <2>1, <2>3 DEF Newest, Sets
  <2>5. \A e \in log' : Cardinality(log') <= e.seq + 1
    BY <1>1, <2>1, <2>2, <2>3
  <2>6. LogOrdered'
    BY <2>1, <2>2, <2>3, <2>4, <2>5 DEF LogOrdered
  <2> QED
    BY <1>3, <2>1, <2>3, <2>6
<1>4. CASE \E c \in lines : Record(c.kind, f, c.value)
  <2>1. PICK c \in lines : Record(c.kind, f, c.value)
    BY <1>4
  <2>2. c.kind \in {"set", "add"} /\ c.value \in Values
    BY DEF Durable!Changes, Durable!Values, Values
  <2> QED
    BY <2>1, <2>2, RecordAdds
<1> QED
  BY <1>2, <1>3, <1>4 DEF RecordFails

-----------------------------------------------------------------------------
(* Loading.                                                                   *)

(* Events with a last value of each field replay to a session. *)
LEMMA ReplayIsData ==
  ASSUME NEW base \in Data, NEW events, events \subseteq Event,
         \A f \in Fields : Sets(events, f) # {} => \E e \in events : Newest(e, Sets(events, f))
  PROVE  Replay(base, events) \in Data
<1>1. \A e \in events : e.value \subseteq Items
  BY DEF Event, Values
<1>2. \A some \in SUBSET events, f \in Fields : Added(some, f) \subseteq Items
  BY <1>1 DEF Added
<1>3. ASSUME NEW f \in Fields PROVE Replayed(base, events, f) \in Values
  <2>1. base[f] \subseteq Items
    BY DEF Data, Values
  <2>2. CASE Sets(events, f) = {}
    BY <1>2, <2>1, <2>2 DEF Replayed, Values
  <2>3. CASE Sets(events, f) # {}
    <3>1. LastSet(events, f) \in events
      BY <2>3, LastIsNewest DEF Newest, Sets
    <3> DEFINE later == {e \in events : e.seq > LastSet(events, f).seq}
    <3>2. LastSet(events, f).value \subseteq Items /\ Added(later, f) \subseteq Items
      BY <1>1, <1>2, <3>1
    <3>3. Replayed(base, events, f) = LastSet(events, f).value \cup Added(later, f)
      BY <2>3 DEF Replayed
    <3> QED
      BY <3>2, <3>3 DEF Values
  <2> QED
    BY <2>2, <2>3
<1> QED
  BY <1>3 DEF Replay, Data

(* Whatever the files are, a load finds a session. *)
LEMMA LoadIsTyped ==
  ASSUME StoreTypeOK, LogOrdered
  PROVE  Load \in Data
<1>1. log \subseteq Event
  BY DEF StoreTypeOK
<1>2. CASE snapshot = NoSnapshot
  <2>1. Empty \in Data
    BY DEF Empty, Data, Values
  <2> QED
    BY <1>1, <1>2, <2>1, ReplayIsData DEF Load, LogOrdered
<1>3. CASE snapshot # NoSnapshot
  <2> DEFINE past == {e \in log : e.seq > snapshot.mark}
  <2>1. snapshot.data \in Data /\ snapshot.mark \in Nat
    BY <1>3 DEF StoreTypeOK, Snapshot
  <2>2. ASSUME NEW f \in Fields, Sets(past, f) # {}
        PROVE  \E e \in past : Newest(e, Sets(past, f))
    <3>1. PICK d \in past : d \in Sets(past, f)
      BY <2>2 DEF Sets
    <3>2. d \in Sets(log, f)
      BY <3>1 DEF Sets
    <3>3. PICK e \in log : Newest(e, Sets(log, f))
      BY <3>2 DEF LogOrdered
    <3>4. d.seq <= e.seq /\ d.seq \in Nat /\ e.seq \in Nat /\ d.seq > snapshot.mark
      BY <1>1, <3>1, <3>2, <3>3 DEF Newest, Event
    <3>5. e \in past
      BY <2>1, <3>4
    <3>6. e \in Sets(past, f) /\ \A c \in Sets(past, f) : c \in Sets(log, f)
      BY <3>3, <3>5 DEF Newest, Sets
    <3> QED
      BY <3>3, <3>5, <3>6 DEF Newest
  <2>3. Load = Replay(snapshot.data, past)
    BY <1>3 DEF Load
  <2> QED
    BY <1>1, <2>1, <2>2, <2>3, ReplayIsData
<1> QED
  BY <1>2, <1>3

(* New events will be past the mark of the snapshot. *)
Covers == snapshot # NoSnapshot => \E d \in log : snapshot.mark <= d.seq

(* An event that writes c, newer than some events in good order. *)
Writes(e, c, f, events, more) ==
    /\ e.kind = c.kind /\ e.value = c.value /\ e.field = f
    /\ \A g \in Fields : Follows(e, events, more, g)

(* It applies c to what they replay to. *)
LEMMA ReplayAdds ==
  ASSUME NEW base, NEW events, NEW more, NEW e, NEW f, NEW c \in Durable!Changes,
         Writes(e, c, f, events, more), NEW g \in Fields
  PROVE  Replayed(base, more, g) =
           IF g = f THEN Durable!Apply(c, Replayed(base, events, g)) ELSE Replayed(base, events, g)
<1>1. c.kind \in {"set", "add"}
  BY DEF Durable!Changes
<1>2. Follows(e, events, more, g)
  BY DEF Writes
<1>3. /\ e.field # g => Replayed(base, more, g) = Replayed(base, events, g)
      /\ e.field = g /\ e.kind = "set" => Replayed(base, more, g) = e.value
      /\ e.field = g /\ e.kind = "add" =>
           Replayed(base, more, g) = Replayed(base, events, g) \cup e.value
  BY <1>2, ReplayNewer
<1> QED
  BY <1>1, <1>3 DEF Durable!Apply, Writes

(* How to see that. *)
LEMMA WritesFollows ==
  ASSUME NEW events \in SUBSET Event, NEW more, NEW e \in Event, NEW f, NEW c \in Durable!Changes,
         e.kind = c.kind, e.value = c.value, e.field = f,
         more = events \cup {e}, \A d \in events : d.seq < e.seq,
         \A g \in Fields : Sets(events, g) # {} => \E d \in events : Newest(d, Sets(events, g))
  PROVE  Writes(e, c, f, events, more)
<1>1. e.kind # "started"
  BY DEF Durable!Changes
<1>2. \A g \in Fields : Follows(e, events, more, g)
  BY <1>1 DEF Follows
<1> QED
  BY <1>2 DEF Writes

(* What a new event changes in what a load finds. *)
LEMMA LoadAdds ==
  ASSUME StoreTypeOK, LogOrdered, NEW c \in Durable!Changes, NEW f \in Fields,
         NEW e, Adds(e, c.kind, f, c.value), snapshot' = snapshot, Covers
  PROVE  Load' = [g \in Fields |-> IF g = f THEN Durable!Apply(c, Load[g]) ELSE Load[g]]
<1>1. /\ e \in Event /\ e.kind = c.kind /\ e.field = f /\ e.value = c.value /\ e.seq \in Nat
      /\ \A d \in log : d.seq < e.seq
  BY DEF Adds, Event
<1>2. log \subseteq Event /\ \A d \in log : d.seq \in Nat
  BY DEF StoreTypeOK, Event
<1>3. CASE snapshot # NoSnapshot
  <2> DEFINE base == snapshot.data
             tail == {d \in log : d.seq > snapshot.mark}
             more == {d \in log' : d.seq > snapshot'.mark}
  <2>1. snapshot.mark \in Nat
    BY <1>3 DEF StoreTypeOK, Snapshot
  <2>2. log' = log \cup {e} /\ e.seq > snapshot.mark
    BY <1>1, <1>2, <1>3, <2>1 DEF Adds, Covers
  <2>3. more = tail \cup {e}
    BY <2>2
  <2>4. /\ Load = [g \in Fields |-> Replayed(base, tail, g)]
        /\ Load' = [g \in Fields |-> Replayed(base, more, g)]
    BY <1>3 DEF Load, Replay
  <2>5. ASSUME NEW g \in Fields, Sets(tail, g) # {}
        PROVE  \E d \in tail : Newest(d, Sets(tail, g))
    <3>1. PICK d \in Sets(tail, g) : TRUE
      BY <2>5
    <3>2. d \in Sets(log, g) /\ d.seq > snapshot.mark
      BY DEF Sets
    <3>3. PICK h \in log : Newest(h, Sets(log, g))
      BY <3>2 DEF LogOrdered
    <3>4. h.seq > snapshot.mark
      BY <1>2, <2>1, <3>2, <3>3 DEF Newest, Sets
    <3> QED
      BY <3>3, <3>4 DEF Newest, Sets
  <2>6. tail \in SUBSET Event /\ \A d \in tail : d.seq < e.seq
    BY <1>1, <1>2
  <2> HIDE DEF tail, base, more
  <2>7. Writes(e, c, f, tail, more)
    BY <1>1, <2>3, <2>5, <2>6, WritesFollows
  <2>8. ASSUME NEW g \in Fields
        PROVE  Replayed(base, more, g) =
          IF g = f THEN Durable!Apply(c, Replayed(base, tail, g)) ELSE Replayed(base, tail, g)
    BY <2>7, ReplayAdds, Z3
  <2> QED
    BY <2>4, <2>8
<1>4. CASE snapshot = NoSnapshot /\ log # {}
  <2>1. log' = log \cup {e}
    BY <1>4 DEF Adds
  <2>2. /\ Load = [g \in Fields |-> Replayed(Empty, log, g)]
        /\ Load' = [g \in Fields |-> Replayed(Empty, log', g)]
    BY <1>4 DEF Load, Replay
  <2>3. Writes(e, c, f, log, log')
    BY <1>1, <1>2, <2>1, WritesFollows DEF LogOrdered
  <2>4. ASSUME NEW g \in Fields
        PROVE  Replayed(Empty, log', g) =
          IF g = f THEN Durable!Apply(c, Replayed(Empty, log, g)) ELSE Replayed(Empty, log, g)
    BY <2>3, ReplayAdds
  <2> QED
    BY <2>2, <2>4
<1>5. CASE snapshot = NoSnapshot /\ log = {}
  <2>1. PICK s \in Event : s.kind = "started" /\ s.seq < e.seq /\ log' = {s} \cup {e}
    BY <1>5 DEF Adds
  <2> DEFINE start == {s}
  <2>2. /\ Load = [g \in Fields |-> Replayed(Empty, {}, g)]
        /\ Load' = [g \in Fields |-> Replayed(Empty, log', g)]
    BY <1>5 DEF Load, Replay
  <2>3. ASSUME NEW g \in Fields
        PROVE  Replayed(Empty, start, g) = Replayed(Empty, {}, g) /\ Sets(start, g) = {}
    BY <2>1, ReplayNothing DEF Sets
  <2>4. start \in SUBSET Event /\ log' = start \cup {e} /\ \A d \in start : d.seq < e.seq
    BY <2>1
  <2> HIDE DEF start
  <2>5. Writes(e, c, f, start, log')
    BY <1>1, <2>3, <2>4, WritesFollows
  <2>6. ASSUME NEW g \in Fields
        PROVE  Replayed(Empty, log', g) =
          IF g = f THEN Durable!Apply(c, Replayed(Empty, start, g)) ELSE Replayed(Empty, start, g)
    BY <2>5, ReplayAdds, Z3
  <2> QED
    BY <2>2, <2>3, <2>6
<1> QED
  BY <1>3, <1>4, <1>5

(* A log, and a tail of it, that did not change load the same. *)
LEMMA SameFiles ==
  ASSUME UNCHANGED files
  PROVE  Load' = Load
BY DEF files, Load

(* What is left of a refused event changes no more than a part of it would.   *)
LEMMA LoadAddsPart ==
  ASSUME StoreTypeOK, LogOrdered, NEW f \in Fields, NEW lines \in SUBSET Durable!Changes,
         RecordFails(f, lines), snapshot' = snapshot, Covers
  PROVE  /\ Covers'
         /\ \A g \in Fields \ {f} : Load'[g] = Load[g]
         /\ Load'[f] = Load[f] \/ \E d \in lines : Load'[f] = Durable!Apply(d, Load[f])
<1>0. Load = [g \in Fields |-> Load[g]]
  <2>1. CASE snapshot = NoSnapshot
    BY <2>1 DEF Load, Replay
  <2>2. CASE snapshot # NoSnapshot
    BY <2>2 DEF Load, Replay
  <2> QED
    BY <2>1, <2>2
<1>1. CASE log' = log
  BY <1>1, SameFiles DEF files, Covers
<1>2. CASE log = {} /\ log' = {Started(NextSeq)}
  <2>1. snapshot = NoSnapshot
    BY <1>2 DEF Covers
  <2>2. Load = Replay(Empty, {}) /\ Load' = Replay(Empty, {Started(NextSeq)})
    BY <1>2, <2>1 DEF Load
  <2>3. \A g \in Fields : Replayed(Empty, {Started(NextSeq)}, g) = Replayed(Empty, {}, g)
    BY ReplayNothing DEF Started
  <2> QED
    BY <2>1, <2>2, <2>3 DEF Replay, Covers
<1>3. CASE \E d \in lines : Record(d.kind, f, d.value)
  <2>1. PICK d \in lines : Record(d.kind, f, d.value)
    BY <1>3
  <2>2. d.kind \in {"set", "add"} /\ d.value \in Values
    BY DEF Durable!Changes, Durable!Values, Values
  <2>3. PICK e \in log' : Adds(e, d.kind, f, d.value)
    BY <2>1, <2>2, RecordAdds
  <2>4. Load' = [g \in Fields |-> IF g = f THEN Durable!Apply(d, Load[g]) ELSE Load[g]]
    BY <2>3, LoadAdds
  <2>5. Covers'
    BY <2>3 DEF Covers, Adds
  <2> QED
    BY <2>4, <2>5
<1> QED
  BY <1>1, <1>2, <1>3 DEF RecordFails

(* A snapshot whose mark covers the log is all a load reads. *)
LEMMA LoadCovered ==
  ASSUME snapshot' \in Snapshot, log' \subseteq Event,
         \A e \in log' : e.seq <= snapshot'.mark
  PROVE  Load' = snapshot'.data
<1>1. {e \in log' : e.seq > snapshot'.mark} = {}
  BY DEF Event, Snapshot
<1>2. Load' = [f \in Fields |-> Replayed(snapshot'.data, {}, f)]
  BY <1>1, NoSnapshotAssumption DEF Load, Replay
<1>3. \A f \in Fields : Replayed(snapshot'.data, {}, f) = snapshot'.data[f]
  BY ReplayNothing
<1>4. snapshot'.data \in [Fields -> Values]
  BY DEF Snapshot, Data
<1> QED
  BY <1>2, <1>3, <1>4

-----------------------------------------------------------------------------
(* The steps.                                                                 *)

Serial == ~Concurrent /\ ~TornCompaction

AllIdle == \A f \in Fields : Idle(f)

(* A change is one of its own parts, and what was to be found and made of     *)
(* parts of it is to be found with it.                                        *)
LEMMA AttemptOwes ==
  ASSUME StoreTypeOK, NEW f \in Fields, NEW c \in Durable!Changes, Attempt(f, c)
  PROVE  /\ c \in Durable!Parts(c) /\ Durable!Parts(c) \in SUBSET Durable!Changes
         /\ found' \in [Fields -> SUBSET Values]
         /\ \A g \in Fields \ {f} : found'[g] = found[g]
         /\ \A v \in found[f] : v \in found'[f] /\ \A d \in Durable!Parts(c) : Durable!Apply(d, v) \in found'[f]
<1>1. c \in [kind : {"set", "add"}, value : Values] /\ c.kind \in {"set", "add"} /\ c.value \in Values
  BY DEF Durable!Changes, Durable!Values, Values
<1>2. c \in Durable!Parts(c) /\ Durable!Parts(c) \in SUBSET Durable!Changes
  <2>1. CASE c.kind = "set"
    BY <2>1 DEF Durable!Parts
  <2>2. CASE c.kind # "set"
    <3>1. Durable!Parts(c) = {[c EXCEPT !.value = w] : w \in SUBSET c.value}
      BY <2>2 DEF Durable!Parts
    <3>2. c = [c EXCEPT !.value = c.value] /\ c.value \in SUBSET c.value
      BY <1>1
    <3>3. \A w \in SUBSET c.value : [c EXCEPT !.value = w] \in Durable!Changes
      BY <1>1 DEF Durable!Changes, Durable!Values, Values
    <3> QED
      BY <3>1, <3>2, <3>3
  <2> QED
    BY <2>1, <2>2
<1>3. found \in [Fields -> SUBSET Values]
  BY DEF StoreTypeOK
<1>4. /\ found'[f] = found[f] \cup {Durable!Apply(d, v) : d \in Durable!Parts(c), v \in found[f]}
      /\ \A g \in Fields \ {f} : found'[g] = found[g]
      /\ found' = [found EXCEPT ![f] = Durable!Later(c, found[f])]
  BY <1>3 DEF Attempt, Durable!Later
<1>5. \A d \in Durable!Changes, v \in Values : Durable!Apply(d, v) \in Values
  BY DEF Durable!Changes, Durable!Values, Durable!Apply, Values
<1>6. Durable!Later(c, found[f]) \in SUBSET Values
  <2>1. \A v \in found[f] : v \in Values
    BY <1>3
  <2>2. \A d \in Durable!Parts(c), v \in found[f] : Durable!Apply(d, v) \in Values
    BY <1>2, <1>5, <2>1
  <2> QED
    BY <2>1, <2>2 DEF Durable!Later
<1>7. found' \in [Fields -> SUBSET Values]
  BY <1>3, <1>4, <1>6
<1> QED
  BY <1>2, <1>4, <1>7

(* Memory after a change. *)
LEMMA ChangeTyped ==
  ASSUME StoreTypeOK, NEW f \in Fields, NEW c \in Durable!Changes, Change(f, c)
  PROVE  /\ mem' \in Data /\ mem'[f] = Durable!Apply(c, mem[f]) /\ mem'[f] \in Values
         /\ \A g \in Fields \ {f} : mem'[g] = mem[g]
<1>1. mem \in [Fields -> Values] /\ mem' = [mem EXCEPT ![f] = Durable!Apply(c, mem[f])]
  BY DEF StoreTypeOK, Data, Change
<1>2. Durable!Apply(c, mem[f]) \in Values
  BY <1>1 DEF Durable!Changes, Durable!Values, Durable!Apply, Values
<1> QED
  BY <1>1, <1>2 DEF Data

(* An idle store: whatever the files are, new events will be past the mark.   *)
LEMMA IdleCovers ==
  ASSUME StoreInv, AllIdle
  PROVE  ~torn /\ Covers /\ \A f \in Fields : Load[f] \in found[f] /\ mem[f] \in found[f]
BY DEF StoreInv, AllIdle, Absorbed, Owed, Covers

LEMMA ChangesTyped ==
  ASSUME NEW f \in Fields
  PROVE  Changes(f) \subseteq Durable!Changes
BY DEF Changes, Durable!Changes, Durable!Values, Values

(* A refused change: memory is ahead of the files in its field, and what they *)
(* may show has grown by what may be left of it.                              *)
LEMMA RefusedStep ==
  ASSUME StoreInv, AllIdle, NEW f \in Fields, NEW c \in Durable!Changes,
         NEW lines \in SUBSET Durable!Parts(c),
         Change(f, c), Attempt(f, c), RecordFails(f, lines), refused' = refused \cup {f},
         UNCHANGED <<snapshot, call, gate, torn>>, writes' \in Nat,
         admitted' \in BOOLEAN, admitted' => admitted /\ f # Window
  PROVE  StoreInv'
<1>1. StoreTypeOK /\ LogOrdered
  BY DEF StoreInv
<1>2. /\ c \in Durable!Parts(c) /\ Durable!Parts(c) \in SUBSET Durable!Changes
      /\ found' \in [Fields -> SUBSET Values]
      /\ \A g \in Fields \ {f} : found'[g] = found[g]
      /\ \A v \in found[f] : v \in found'[f] /\ \A d \in Durable!Parts(c) : Durable!Apply(d, v) \in found'[f]
  BY <1>1, AttemptOwes
<1>3. /\ mem' \in Data /\ mem'[f] = Durable!Apply(c, mem[f])
      /\ \A g \in Fields \ {f} : mem'[g] = mem[g]
  BY <1>1, ChangeTyped
<1>4. ~torn /\ Covers /\ \A g \in Fields : Load[g] \in found[g] /\ mem[g] \in found[g]
  BY IdleCovers
<1>5. lines \in SUBSET Durable!Changes
  BY <1>2
<1>6. LogOrdered' /\ log' \subseteq Event /\ next' \in Nat
  BY <1>1, <1>5, RecordFailsKeeps
<1>7. /\ Covers' /\ \A g \in Fields \ {f} : Load'[g] = Load[g]
      /\ Load'[f] = Load[f] \/ \E d \in lines : Load'[f] = Durable!Apply(d, Load[f])
  BY <1>1, <1>4, <1>5, LoadAddsPart
<1>8. StoreTypeOK'
  BY <1>1, <1>2, <1>3, <1>6 DEF StoreTypeOK
<1>9. AllIdle' /\ OneCall'
  BY DEF AllIdle, OneCall, Idle
<1>10. Owed'
  <2>1. \A g \in Fields : mem'[g] \in found'[g] /\ Load'[g] \in found'[g]
    BY <1>2, <1>3, <1>4, <1>7
  <2> QED
    BY <2>1 DEF Owed
<1>11. Absorbed'
  <2> SUFFICES ASSUME snapshot # NoSnapshot
               PROVE  /\ \A g \in Fields \ (refused \cup {f}) : Load'[g] = mem'[g]
                      /\ \E e \in log' : snapshot'.mark <= e.seq
    BY DEF Absorbed
  <2>1. \A g \in Fields \ refused : Load[g] = mem[g]
    BY <1>4 DEF StoreInv, Absorbed
  <2> QED
    BY <1>3, <1>7, <2>1 DEF Covers
<1>12. Admitted'
  BY DEF StoreInv, Admitted
<1> QED
  BY <1>4, <1>6, <1>8, <1>9, <1>10, <1>11, <1>12 DEF StoreInv

(* A logged change: the files and memory change alike. *)
LEMMA LoggedChange ==
  ASSUME StoreInv, AllIdle, NEW f \in Fields, NEW c \in Durable!Changes,
         Change(f, c), Record(c.kind, f, c.value), snapshot' = snapshot
  PROVE  /\ LogOrdered' /\ log' \subseteq Event /\ log' # {} /\ next' \in Nat \ {0} /\ Covers'
         /\ \A g \in Fields \ {f} : Load'[g] = Load[g]
         /\ Load'[f] = Durable!Apply(c, Load[f])
         /\ Load[f] = mem[f] \/ c.kind = "set" => Load'[f] = mem'[f]
<1>1. StoreTypeOK /\ LogOrdered /\ Covers
  BY IdleCovers DEF StoreInv
<1>2. c.kind \in {"set", "add"} /\ c.value \in Values
  BY DEF Durable!Changes, Durable!Values, Values
<1>3. /\ \E e \in log' : Adds(e, c.kind, f, c.value)
      /\ LogOrdered' /\ log' \subseteq Event /\ next' \in Nat \ {0}
  BY <1>1, <1>2, RecordAdds
<1>4. PICK e \in log' : Adds(e, c.kind, f, c.value)
  BY <1>3
<1>5. Load' = [g \in Fields |-> IF g = f THEN Durable!Apply(c, Load[g]) ELSE Load[g]]
  BY <1>1, <1>4, LoadAdds
<1>6. Covers'
  BY <1>1, <1>4 DEF Covers, Adds
<1>7. mem'[f] = Durable!Apply(c, mem[f])
  BY <1>1, ChangeTyped
<1> QED
  BY <1>3, <1>5, <1>6, <1>7 DEF Durable!Apply

(* A mutation: put off, logged by a call that then leaves, or refused.        *)
LEMMA MutateStep ==
  ASSUME StoreInv, Serial, NEW f \in Fields, Mutate(f)
  PROVE  StoreInv'
<1>1. /\ AllIdle /\ writes' \in Nat /\ UNCHANGED <<snapshot, gate, torn>>
      /\ StoreTypeOK /\ LogOrdered
      /\ admitted' \in BOOLEAN /\ (admitted' => admitted /\ f # Window)
  BY DEF Mutate, MayMutate, Serial, AllIdle, StoreInv, StoreTypeOK
<1>2. PICK c \in Durable!Changes :
        /\ Change(f, c) /\ Attempt(f, c)
        /\ \/ Deferred /\ UNCHANGED <<next, log, call, refused>>
           \/ /\ ~Deferred /\ Record(c.kind, f, c.value) /\ Enter(f, "leaving")
              /\ refused' = IF c.kind = "set" THEN refused \ {f} ELSE refused
           \/ /\ ~Deferred /\ RecordFails(f, Durable!Parts(c))
              /\ refused' = refused \cup {f} /\ UNCHANGED call
  BY ChangesTyped DEF Mutate
<1>3. /\ mem' \in Data /\ mem'[f] = Durable!Apply(c, mem[f])
      /\ \A g \in Fields \ {f} : mem'[g] = mem[g]
  BY <1>1, <1>2, ChangeTyped
<1>4. /\ c \in Durable!Parts(c) /\ found' \in [Fields -> SUBSET Values]
      /\ \A g \in Fields \ {f} : found'[g] = found[g]
      /\ \A v \in found[f] : v \in found'[f] /\ \A d \in Durable!Parts(c) : Durable!Apply(d, v) \in found'[f]
  BY <1>1, <1>2, AttemptOwes
<1>5. ~torn /\ Covers /\ \A g \in Fields : Load[g] \in found[g] /\ mem[g] \in found[g]
  BY <1>1, IdleCovers
<1>6. \A g \in Fields : mem'[g] \in found'[g]
  BY <1>3, <1>4, <1>5
<1>7. CASE Deferred /\ UNCHANGED <<next, log, call, refused>>
  <2>1. snapshot = NoSnapshot /\ snapshot' = NoSnapshot
    BY <1>1, <1>7 DEF Deferred
  <2>2. Load' = Load
    BY <1>1, <1>7, SameFiles DEF files
  <2>3. StoreTypeOK'
    BY <1>1, <1>3, <1>4, <1>7 DEF StoreTypeOK
  <2>4. LogOrdered'
    BY <1>1, <1>7 DEF LogOrdered, Sets, Newest
  <2>5. OneCall' /\ Absorbed' /\ Admitted'
    BY <1>1, <1>7, <2>1 DEF StoreInv, OneCall, Absorbed, Admitted, AllIdle, Idle
  <2>6. Owed'
    BY <1>4, <1>5, <1>6, <2>2 DEF Owed
  <2> QED
    BY <1>1, <1>5, <2>3, <2>4, <2>5, <2>6 DEF StoreInv
<1>8. CASE /\ ~Deferred /\ Record(c.kind, f, c.value) /\ Enter(f, "leaving")
           /\ refused' = IF c.kind = "set" THEN refused \ {f} ELSE refused
  <2>1. /\ LogOrdered' /\ log' \subseteq Event /\ log' # {} /\ next' \in Nat \ {0} /\ Covers'
        /\ \A g \in Fields \ {f} : Load'[g] = Load[g]
        /\ Load'[f] = Durable!Apply(c, Load[f])
        /\ Load[f] = mem[f] \/ c.kind = "set" => Load'[f] = mem'[f]
    BY <1>1, <1>2, <1>8, LoggedChange
  <2>2. /\ call' = [call EXCEPT ![f] = [at |-> "leaving", data |-> mem', mark |-> 0]]
        /\ call \in [Fields -> [at : Calls, data : Data, mark : Nat]]
    BY <1>1, <1>8 DEF Enter, StoreTypeOK
  <2>3. [at |-> "leaving", data |-> mem', mark |-> 0] \in [at : Calls, data : Data, mark : Nat]
    BY <1>3 DEF Calls
  <2>4. call'[f].at = "leaving" /\ call'[f].data = mem' /\ \A g \in Fields \ {f} : call'[g].at = "none"
    BY <1>1, <2>2 DEF AllIdle, Idle
  <2>5. StoreTypeOK'
    <3>1. call' \in [Fields -> [at : Calls, data : Data, mark : Nat]] /\ refused' \subseteq Fields
      BY <1>1, <1>8, <2>2, <2>3 DEF StoreTypeOK
    <3> QED
      BY <1>1, <1>3, <1>4, <2>1, <3>1 DEF StoreTypeOK
  <2>6. OneCall'
    BY <2>1, <2>4 DEF OneCall, Idle
  <2>7. Owed'
    <3>1. \A g \in Fields : Load'[g] \in found'[g]
      BY <1>4, <1>5, <2>1
    <3> QED
      BY <1>6, <3>1 DEF Owed
  <2>8. Absorbed'
    <3> SUFFICES ASSUME snapshot # NoSnapshot
                 PROVE  /\ \A g \in Fields \ refused' : Load'[g] = mem'[g]
                        /\ \E e \in log' : snapshot'.mark <= e.seq
      BY <1>1 DEF Absorbed
    <3>1. \A g \in Fields \ refused : Load[g] = mem[g]
      BY <1>5 DEF StoreInv, Absorbed
    <3>2. \A g \in Fields \ refused' : Load'[g] = mem'[g]
      BY <1>3, <1>8, <2>1, <3>1
    <3> QED
      BY <1>1, <2>1, <3>2 DEF Covers
  <2>9. Admitted'
    BY <1>1, <1>8 DEF StoreInv, Admitted
  <2> QED
    BY <1>1, <1>5, <2>1, <2>5, <2>6, <2>7, <2>8, <2>9 DEF StoreInv
<1>9. CASE /\ ~Deferred /\ RecordFails(f, Durable!Parts(c))
           /\ refused' = refused \cup {f} /\ UNCHANGED call
  BY <1>1, <1>2, <1>9, RefusedStep
<1> QED
  BY <1>2, <1>7, <1>8, <1>9

(* The change that a completed turn makes. *)
LEMMA TurnTyped ==
  ASSUME NEW v \in Values
  PROVE  LET c == [kind |-> "add", value |-> v] IN c \in Durable!Changes /\ c \in Durable!Parts(c)
<1> DEFINE c == [kind |-> "add", value |-> v]
<1>1. c \in Durable!Changes /\ c.kind = "add" /\ c.value = v
  BY DEF Durable!Changes, Durable!Values, Values
<1>2. c = [c EXCEPT !.value = v]
  OBVIOUS
<1> HIDE DEF c
<1>3. c \in Durable!Parts(c)
  BY <1>1, <1>2 DEF Durable!Parts
<1> QED
  BY <1>1, <1>3 DEF c

(* A completed turn: logged, and confirmed at once, or refused. *)
LEMMA AppendTurnStep ==
  ASSUME StoreInv, Serial, AppendTurn
  PROVE  StoreInv'
<1>1. /\ AllIdle /\ writes' \in Nat /\ UNCHANGED <<snapshot, call, gate, torn>>
      /\ StoreTypeOK /\ LogOrdered /\ Window \in Fields
      /\ snapshot # NoSnapshot /\ Window \notin refused
  BY FieldsAssumption DEF AppendTurn, MayMutate, Serial, AllIdle, StoreInv, StoreTypeOK, Admitted
<1>2. PICK v \in Values : LET c == [kind |-> "add", value |-> v] IN
        /\ Change(Window, c)
        /\ \/ /\ Record("add", Window, v)
              /\ found' = [found EXCEPT ![Window] = {mem'[Window]}]
              /\ UNCHANGED <<admitted, refused>>
           \/ /\ RecordFails(Window, {c}) /\ Attempt(Window, c)
              /\ admitted' = FALSE /\ refused' = refused \cup {Window}
  BY DEF AppendTurn
<1> DEFINE c == [kind |-> "add", value |-> v]
<1>3. c \in Durable!Changes /\ c \in Durable!Parts(c) /\ c.kind = "add" /\ c.value = v
  BY TurnTyped
<1>4. Change(Window, c)
  BY <1>2
<1>5. CASE /\ RecordFails(Window, {c}) /\ Attempt(Window, c)
           /\ admitted' = FALSE /\ refused' = refused \cup {Window}
  <2>1. {c} \in SUBSET Durable!Parts(c)
    BY <1>3
  <2> HIDE DEF c
  <2> QED
    BY <1>1, <1>3, <1>4, <1>5, <2>1, RefusedStep
<1>6. CASE /\ Record("add", Window, v)
           /\ found' = [found EXCEPT ![Window] = {mem'[Window]}]
           /\ UNCHANGED <<admitted, refused>>
  <2> HIDE DEF c
  <2>1. ~torn /\ Covers /\ \A g \in Fields : Load[g] \in found[g] /\ mem[g] \in found[g]
    BY <1>1, IdleCovers
  <2>2. \A g \in Fields \ refused : Load[g] = mem[g]
    BY <1>1, <2>1 DEF StoreInv, Absorbed
  <2>3. /\ mem' \in Data /\ mem'[Window] \in Values
        /\ \A g \in Fields \ {Window} : mem'[g] = mem[g]
    BY <1>1, <1>3, <1>4, ChangeTyped
  <2>4. /\ LogOrdered' /\ log' \subseteq Event /\ next' \in Nat \ {0} /\ Covers'
        /\ \A g \in Fields \ {Window} : Load'[g] = Load[g]
        /\ Load'[Window] = mem'[Window]
    BY <1>1, <1>3, <1>4, <1>6, <2>2, LoggedChange
  <2>5. /\ found' \in [Fields -> SUBSET Values] /\ found'[Window] = {mem'[Window]}
        /\ \A g \in Fields \ {Window} : found'[g] = found[g]
    BY <1>1, <1>6, <2>3 DEF StoreTypeOK
  <2>6. StoreTypeOK'
    BY <1>1, <1>6, <2>3, <2>4, <2>5 DEF StoreTypeOK
  <2>7. OneCall' /\ Admitted'
    BY <1>1, <1>6 DEF StoreInv, OneCall, Admitted, AllIdle, Idle
  <2>8. Owed'
    BY <2>1, <2>3, <2>4, <2>5 DEF Owed
  <2>9. Absorbed'
    BY <1>1, <1>6, <2>2, <2>3, <2>4 DEF Absorbed, Covers
  <2> QED
    BY <1>1, <2>1, <2>4, <2>6, <2>7, <2>8, <2>9 DEF StoreInv
<1> QED
  BY <1>2, <1>5, <1>6

(* A call changes where it stands, and its mark. *)
LEMMA CallMoves ==
  ASSUME StoreInv, NEW f \in Fields, ~Idle(f), NEW step \in Calls \ {"none"},
         NEW mark \in Nat,
         call' = [call EXCEPT ![f] = [at |-> step, data |-> call[f].data, mark |-> mark]]
  PROVE  /\ call' \in [Fields -> [at : Calls, data : Data, mark : Nat]]
         /\ call'[f].at = step /\ call'[f].data = mem /\ call'[f].mark = mark
         /\ \A g \in Fields \ {f} : Idle(g)'
<1>1. call \in [Fields -> [at : Calls, data : Data, mark : Nat]]
  BY DEF StoreInv, StoreTypeOK
<1>2. call[f].data = mem /\ \A g \in Fields \ {f} : Idle(g)
  BY DEF StoreInv, OneCall
<1>4. [at |-> step, data |-> call[f].data, mark |-> mark] \in [at : Calls, data : Data, mark : Nat]
  BY <1>1
<1>5. /\ call' \in [Fields -> [at : Calls, data : Data, mark : Nat]]
      /\ call'[f] = [at |-> step, data |-> call[f].data, mark |-> mark]
      /\ \A g \in Fields \ {f} : call'[g] = call[g]
  BY <1>1, <1>4
<1> QED
  BY <1>2, <1>5 DEF Idle

(* A call waits at the gate. *)
LEMMA QueueStep ==
  ASSUME StoreInv, NEW f \in Fields, Queue(f)
  PROVE  StoreInv'
<1>1. /\ ~Idle(f) /\ gate' \in Seq(Fields)
      /\ UNCHANGED <<mem, next, log, snapshot, admitted, found, refused, torn, writes>>
  BY DEF Queue, Idle, StoreInv, StoreTypeOK
<1>2. /\ call' = [call EXCEPT ![f] = [at |-> "queued", data |-> call[f].data, mark |-> call[f].mark]]
      /\ call[f].mark \in Nat
  <2>1. call[f] \in [at : Calls, data : Data, mark : Nat]
    BY DEF StoreInv, StoreTypeOK
  <2>2. [call[f] EXCEPT !.at = "queued"] = [at |-> "queued", data |-> call[f].data, mark |-> call[f].mark]
    BY <2>1
  <2> QED
    BY <2>1, <2>2 DEF Queue, Step
<1>3. /\ call' \in [Fields -> [at : Calls, data : Data, mark : Nat]]
      /\ call'[f].at = "queued" /\ call'[f].data = mem /\ \A g \in Fields \ {f} : Idle(g)'
  BY <1>1, <1>2, CallMoves DEF Calls
<1>4. StoreTypeOK'
  BY <1>1, <1>3 DEF StoreInv, StoreTypeOK
<1>5. LogOrdered'
  BY <1>1 DEF StoreInv, LogOrdered, Sets, Newest
<1>6. OneCall' /\ ~Idle(f)'
  BY <1>1, <1>3 DEF StoreInv, OneCall, Idle
<1>7. Load' = Load
  BY <1>1, SameFiles DEF files
<1>8. Absorbed' /\ Owed' /\ Admitted'
  BY <1>1, <1>6, <1>7 DEF StoreInv, Absorbed, Owed, Admitted
<1> QED
  BY <1>4, <1>5, <1>6, <1>8 DEF StoreInv

(* The log is rewritten, or left: until the snapshot follows the files are    *)
(* torn only if it was.                                                       *)
LEMMA CompactStep ==
  ASSUME StoreInv, NEW f \in Fields, Compact(f)
  PROVE  StoreInv'
<1>1. /\ ~Idle(f) /\ gate' = gate
      /\ UNCHANGED <<mem, next, snapshot, admitted, found, refused, writes>>
  BY DEF Compact, AtGate, Idle
<1>2. /\ call' = [call EXCEPT ![f] = [at |-> "stamping", data |-> call[f].data, mark |-> call[f].mark]]
      /\ call[f].mark \in Nat
  <2>1. call[f] \in [at : Calls, data : Data, mark : Nat]
    BY DEF StoreInv, StoreTypeOK
  <2>2. [call[f] EXCEPT !.at = "stamping"] = [at |-> "stamping", data |-> call[f].data, mark |-> call[f].mark]
    BY <2>1
  <2> QED
    BY <2>1, <2>2 DEF Compact, Step
<1>3. /\ call' \in [Fields -> [at : Calls, data : Data, mark : Nat]]
      /\ call'[f].at = "stamping" /\ call'[f].data = mem /\ \A g \in Fields \ {f} : Idle(g)'
  BY <1>1, <1>2, CallMoves DEF Calls
<1>4. ~Idle(f)'
  BY <1>3 DEF Idle
<1>5. CASE UNCHANGED <<log, torn>>
  <2>1. Load' = Load
    BY <1>1, <1>5, SameFiles DEF files
  <2>2. StoreTypeOK'
    BY <1>1, <1>3, <1>5 DEF StoreInv, StoreTypeOK
  <2>3. LogOrdered'
    BY <1>1, <1>5 DEF StoreInv, LogOrdered, Sets, Newest
  <2>4. OneCall'
    BY <1>1, <1>3, <1>5 DEF StoreInv, OneCall, Idle
  <2>5. Absorbed' /\ Owed' /\ Admitted'
    BY <1>1, <1>4, <1>5, <2>1 DEF StoreInv, Absorbed, Owed, Admitted
  <2> QED
    BY <1>4, <2>2, <2>3, <2>4, <2>5 DEF StoreInv
<1>6. CASE Cardinality(log) >= Threshold /\ log' = Seeds(call[f].data) /\ torn' = TRUE
  <2>1. call[f].data \in Data
    BY DEF StoreInv, StoreTypeOK
  <2>2. LogOrdered' /\ log' \subseteq Event /\ log' # {}
    BY <1>1, <1>6, <2>1, SeedsOrdered DEF StoreInv
  <2>3. StoreTypeOK'
    BY <1>1, <1>3, <1>6, <2>2 DEF StoreInv, StoreTypeOK
  <2>4. OneCall'
    BY <1>1, <1>3, <2>2 DEF StoreInv, OneCall, Idle
  <2>5. Absorbed' /\ Owed' /\ Admitted'
    BY <1>1, <1>4, <1>6 DEF StoreInv, Absorbed, Owed, Admitted
  <2> QED
    BY <1>4, <2>2, <2>3, <2>4, <2>5 DEF StoreInv
<1> QED
  BY <1>5, <1>6 DEF Compact

(* The mark covers the log as it is now. *)
LEMMA StampStep ==
  ASSUME StoreInv, NEW f \in Fields, Stamp(f)
  PROVE  StoreInv'
<1>1. /\ ~Idle(f) /\ gate' = gate /\ log # {}
      /\ UNCHANGED <<mem, next, log, snapshot, admitted, found, refused, torn, writes>>
  BY DEF Stamp, AtGate, Idle, files, StoreInv, OneCall
<1>2. PICK h \in log : Newest(h, log)
  BY <1>1 DEF StoreInv, LogOrdered
<1>3. High = h.seq /\ h.seq \in Nat
  BY <1>2, HighIsNewest DEF StoreInv, StoreTypeOK, Event
<1>4. call' = [call EXCEPT ![f] = [at |-> "writing", data |-> call[f].data, mark |-> h.seq]]
  BY <1>3 DEF Stamp
<1>5. /\ call' \in [Fields -> [at : Calls, data : Data, mark : Nat]]
      /\ call'[f].at = "writing" /\ call'[f].data = mem /\ call'[f].mark = h.seq
      /\ \A g \in Fields \ {f} : Idle(g)'
  BY <1>1, <1>3, <1>4, CallMoves DEF Calls
<1>6. StoreTypeOK'
  BY <1>1, <1>5 DEF StoreInv, StoreTypeOK
<1>7. LogOrdered'
  BY <1>1 DEF StoreInv, LogOrdered, Sets, Newest
<1>8. ~Idle(f)'
  BY <1>5 DEF Idle
<1>9. OneCall'
  <2>1. next # 0
    BY <1>1 DEF StoreInv, OneCall
  <2>2. Newest(h, log')
    BY <1>1, <1>2 DEF Newest
  <2> QED
    BY <1>1, <1>5, <2>1, <2>2 DEF OneCall
<1>10. Absorbed' /\ Owed' /\ Admitted'
  BY <1>1, <1>8, SameFiles DEF StoreInv, Absorbed, Owed, Admitted, files
<1> QED
  BY <1>6, <1>7, <1>8, <1>9, <1>10 DEF StoreInv

(* The snapshot replaces the old one: all of the log is absorbed, and no call *)
(* is left.                                                                   *)
LEMMA WriteSnapshotStep ==
  ASSUME StoreInv, NEW f \in Fields, WriteSnapshot(f)
  PROVE  StoreInv'
<1>1. /\ call[f].at = "writing" /\ ~Idle(f) /\ torn' = FALSE
      /\ UNCHANGED <<mem, next, log, writes>>
      /\ snapshot' = [data |-> call[f].data, mark |-> call[f].mark]
  BY DEF WriteSnapshot, AtGate, Idle
<1>2. /\ call[f].data = mem /\ \A g \in Fields \ {f} : Idle(g)
      /\ \E e \in log : Newest(e, log) /\ call[f].mark = e.seq
  BY <1>1 DEF StoreInv, OneCall
<1>3. /\ call \in [Fields -> [at : Calls, data : Data, mark : Nat]]
      /\ mem \in Data /\ found \in [Fields -> SUBSET Values] /\ log \subseteq Event
  BY DEF StoreInv, StoreTypeOK
<1>4. snapshot' \in Snapshot /\ snapshot'.data = mem /\ snapshot'.mark = call[f].mark
  <2>1. call[f].mark \in Nat
    BY <1>3
  <2> QED
    BY <1>1, <1>2, <1>3, <2>1 DEF Snapshot
<1>5. /\ call' \in [Fields -> [at : Calls, data : Data, mark : Nat]]
      /\ AllIdle'
  <2>1. call' = [call EXCEPT ![f].at = "none"]
    BY DEF WriteSnapshot, Step
  <2>2. [call[f] EXCEPT !.at = "none"] \in [at : Calls, data : Data, mark : Nat]
    BY <1>3 DEF Calls
  <2>3. /\ call'[f].at = "none" /\ \A g \in Fields \ {f} : call'[g] = call[g]
        /\ call' \in [Fields -> [at : Calls, data : Data, mark : Nat]]
    BY <1>3, <2>1, <2>2
  <2> QED
    BY <1>2, <2>3 DEF AllIdle, Idle
<1>6. gate' \in Seq(Fields)
  BY DEF WriteSnapshot, AtGate, StoreInv, StoreTypeOK
<1>7. /\ found' \in [Fields -> SUBSET Values] /\ found'[f] = {mem[f]}
      /\ \A g \in Fields \ {f} : found'[g] = found[g]
      /\ admitted' \in BOOLEAN /\ refused' = {}
  <2>1. /\ found' = [found EXCEPT ![f] = {mem[f]}] /\ refused' = {g \in refused : mem[g] # mem[g]}
        /\ admitted' = (admitted \/ f = Window)
    BY <1>2 DEF WriteSnapshot
  <2>2. mem[f] \in Values /\ admitted \in BOOLEAN
    BY <1>3 DEF Data, StoreInv, StoreTypeOK
  <2> QED
    BY <1>3, <2>1, <2>2
<1>8. StoreTypeOK'
  BY <1>1, <1>3, <1>4, <1>5, <1>6, <1>7 DEF StoreInv, StoreTypeOK
<1>9. LogOrdered'
  BY <1>1 DEF StoreInv, LogOrdered, Sets, Newest
<1>10. Load' = mem
  <2>1. \A e \in log' : e.seq <= snapshot'.mark
    BY <1>1, <1>2, <1>4 DEF Newest
  <2> QED
    BY <1>1, <1>3, <1>4, <2>1, LoadCovered
<1>11. \E e \in log' : snapshot'.mark <= e.seq
  BY <1>1, <1>2, <1>3, <1>4 DEF Event
<1>12. OneCall' /\ Absorbed' /\ Admitted'
  BY <1>1, <1>4, <1>5, <1>7, <1>10, <1>11, NoSnapshotAssumption
     DEF OneCall, Absorbed, Admitted, AllIdle
<1>13. Owed'
  <2>1. \A g \in Fields : mem[g] \in found[g]
    BY DEF StoreInv, Owed
  <2> QED
    BY <1>1, <1>7, <1>10, <2>1 DEF Owed
<1> QED
  BY <1>1, <1>8, <1>9, <1>12, <1>13 DEF StoreInv

(* The snapshot is not written: what the log holds still makes up the memory. *)
LEMMA PersistFailsStep ==
  ASSUME StoreInv, Serial, NEW f \in Fields, PersistFails(f)
  PROVE  StoreInv'
<1>1. /\ ~Idle(f) /\ ~torn
      /\ UNCHANGED <<mem, next, log, snapshot, admitted, found, refused, torn, writes>>
  BY DEF PersistFails, AtGate, Idle, files, MayStop, Serial
<1>2. \A g \in Fields \ {f} : Idle(g)
  BY <1>1 DEF StoreInv, OneCall
<1>3. /\ call' \in [Fields -> [at : Calls, data : Data, mark : Nat]]
      /\ AllIdle'
  <2>1. call' = [call EXCEPT ![f].at = "none"] /\ call \in [Fields -> [at : Calls, data : Data, mark : Nat]]
    BY DEF PersistFails, Step, StoreInv, StoreTypeOK
  <2>2. [call[f] EXCEPT !.at = "none"] \in [at : Calls, data : Data, mark : Nat]
    BY <2>1 DEF Calls
  <2>3. /\ call'[f].at = "none" /\ \A g \in Fields \ {f} : call'[g] = call[g]
        /\ call' \in [Fields -> [at : Calls, data : Data, mark : Nat]]
    BY <2>1, <2>2
  <2> QED
    BY <1>2, <2>3 DEF AllIdle, Idle
<1>4. gate' \in Seq(Fields)
  BY DEF PersistFails, AtGate, StoreInv, StoreTypeOK
<1>5. StoreTypeOK'
  BY <1>1, <1>3, <1>4 DEF StoreInv, StoreTypeOK
<1>6. LogOrdered'
  BY <1>1 DEF StoreInv, LogOrdered, Sets, Newest
<1>7. OneCall' /\ Absorbed' /\ Owed' /\ Admitted'
  BY <1>1, <1>3, SameFiles DEF StoreInv, OneCall, Absorbed, Owed, Admitted, AllIdle, files
<1> QED
  BY <1>1, <1>5, <1>6, <1>7 DEF StoreInv

(* A load: the session is what the files say. *)
LEMMA RestartStep ==
  ASSUME StoreInv, Serial, Restart
  PROVE  StoreInv'
<1>1. /\ ~torn /\ torn' = FALSE /\ mem' = Load /\ next' = 0 /\ gate' = <<>>
      /\ found' = [f \in Fields |-> {Load[f]}] /\ admitted' = FALSE /\ refused' = {}
      /\ UNCHANGED <<log, writes>>
      /\ snapshot' = IF snapshot = NoSnapshot /\ log # {}
                     THEN [data |-> Load, mark |-> High] ELSE snapshot
  BY DEF Restart, MayStop, Serial
<1>2. Load \in Data
  BY LoadIsTyped DEF StoreInv
<1>3. /\ call' \in [Fields -> [at : Calls, data : Data, mark : Nat]]
      /\ AllIdle'
  <2>1. Empty \in Data
    BY DEF Empty, Data, Values
  <2>2. call' = [f \in Fields |-> [at |-> "none", data |-> Empty, mark |-> 0]]
    BY DEF Restart
  <2> QED
    BY <2>1, <2>2 DEF Calls, AllIdle, Idle
<1>4. gate' \in Seq(Fields) /\ found' \in [Fields -> SUBSET Values]
  BY <1>1, <1>2 DEF Data
<1>5. LogOrdered'
  BY <1>1 DEF StoreInv, LogOrdered, Sets, Newest
<1>6. log' \subseteq Event
  BY <1>1 DEF StoreInv, StoreTypeOK
<1>7. CASE snapshot = NoSnapshot /\ log # {}
  <2>1. PICK h \in log : Newest(h, log)
    BY <1>7 DEF StoreInv, LogOrdered
  <2>2. High = h.seq /\ h.seq \in Nat
    BY <2>1, HighIsNewest DEF StoreInv, StoreTypeOK, Event
  <2>3. snapshot' \in Snapshot /\ snapshot'.data = Load /\ snapshot'.mark = h.seq
    BY <1>1, <1>2, <1>7, <2>2 DEF Snapshot
  <2>4. Load' = Load
    <3>1. \A e \in log' : e.seq <= snapshot'.mark
      BY <1>1, <2>1, <2>3 DEF Newest
    <3> QED
      BY <1>6, <2>3, <3>1, LoadCovered
  <2>5. StoreTypeOK'
    BY <1>1, <1>2, <1>3, <1>4, <1>6, <2>3 DEF StoreInv, StoreTypeOK
  <2>6. OneCall' /\ Absorbed' /\ Owed' /\ Admitted'
    BY <1>1, <1>3, <2>1, <2>2, <2>3, <2>4, NoSnapshotAssumption
       DEF OneCall, Absorbed, Owed, Admitted, AllIdle
  <2> QED
    BY <1>1, <1>5, <2>5, <2>6 DEF StoreInv
<1>8. CASE ~(snapshot = NoSnapshot /\ log # {})
  <2>1. snapshot' = snapshot /\ Load' = Load
    BY <1>1, <1>8, SameFiles DEF files
  <2>2. StoreTypeOK'
    BY <1>1, <1>2, <1>3, <1>4, <1>6, <2>1 DEF StoreInv, StoreTypeOK
  <2>3. Absorbed' /\ Owed' /\ Admitted'
    BY <1>1, <2>1 DEF StoreInv, Absorbed, Owed, Admitted
  <2>4. OneCall'
    BY <1>3 DEF OneCall, AllIdle
  <2> QED
    BY <1>1, <1>5, <2>2, <2>3, <2>4 DEF StoreInv
<1> QED
  BY <1>7, <1>8

-----------------------------------------------------------------------------
(* The theorems.                                                              *)

LEMMA StoreInvInit == StoreInit => StoreInv
<1> SUFFICES ASSUME StoreInit PROVE StoreInv
  OBVIOUS
<1> USE DEF StoreInit
<1>1. Empty \in Data
  BY DEF Empty, Data, Values
<1>2. StoreTypeOK
  <2>1. call \in [Fields -> [at : Calls, data : Data, mark : Nat]]
    BY <1>1 DEF Calls
  <2>2. log \subseteq Event /\ gate \in Seq(Fields) /\ found \in [Fields -> SUBSET Values]
    BY DEF Values
  <2> QED
    BY <1>1, <2>1, <2>2 DEF StoreTypeOK
<1>3. LogOrdered
  BY FS_EmptySet DEF LogOrdered, Sets
<1>4. AllIdle
  BY DEF AllIdle, Idle
<1>5. Load = Empty
  <2>1. \A f \in Fields : Replayed(Empty, {}, f) = {}
    BY ReplayNothing DEF Empty
  <2> QED
    BY <2>1 DEF Load, Replay, Empty
<1>6. OneCall /\ Absorbed /\ Admitted
  BY <1>4 DEF OneCall, Absorbed, Admitted, AllIdle
<1>7. Owed
  BY <1>5 DEF Owed, Empty
<1> QED
  BY <1>2, <1>3, <1>6, <1>7 DEF StoreInv

LEMMA StoreInvStep ==
  ASSUME StoreInv, Serial, [StoreNext]_store
  PROVE  StoreInv'
<1>1. CASE \E f \in Fields : Mutate(f)
  BY <1>1, MutateStep
<1>2. CASE \E f \in Fields : Persist(f)
  BY <1>2, QueueStep, CompactStep, StampStep, WriteSnapshotStep, PersistFailsStep DEF Persist
<1>3. CASE AppendTurn
  BY <1>3, AppendTurnStep
<1>4. CASE Restart
  BY <1>4, RestartStep
<1>5. CASE UNCHANGED store
  BY <1>5, SameFiles DEF store, files, StoreInv, StoreTypeOK, LogOrdered, Sets, Newest, OneCall,
     Idle, Absorbed, Owed, Admitted
<1> QED
  BY <1>1, <1>2, <1>3, <1>4, <1>5 DEF StoreNext, Closed

LEMMA StoreInvariant ==
  ASSUME Serial
  PROVE  StoreSpec => []StoreInv
BY StoreInvInit, StoreInvStep, PTL DEF StoreSpec

(* Once a session has a file, a load finds what was in memory at whatever     *)
(* step the process died, changes whose snapshot failed and compactions       *)
(* included, but for fields with a change whose event could not be logged.    *)
THEOREM LoadsWhatWasInMemory ==
  ASSUME ~Concurrent, ~TornCompaction
  PROVE  StoreSpec => []LoadFindsMemory
<1>1. Serial
  BY DEF Serial
<1>2. StoreInv => LoadFindsMemory
  BY DEF StoreInv, Absorbed, LoadFindsMemory, MayStop
<1> QED
  BY <1>1, <1>2, StoreInvariant, PTL

(* Each step of the files is one of the abstract session, or none of its.     *)
LEMMA StoreStepSimulation ==
  ASSUME StoreInv, Serial, [StoreNext]_store
  PROVE  [Durable!Next]_Durable!state
<1> USE DEF Durable!state
<1>0. Values = Durable!Values /\ Window \in Fields
  BY FieldsAssumption DEF Values, Durable!Values
<1>1. ASSUME NEW f \in Fields, Mutate(f)
      PROVE  Durable!Next
  <2>1. PICK c \in Durable!Changes : Change(f, c) /\ Attempt(f, c)
    BY <1>1, ChangesTyped DEF Mutate
  <2>2. writes' = writes + 1
    BY <1>1 DEF Mutate, MayMutate
  <2>3. Durable!Write(f)
    BY <2>1, <2>2 DEF Durable!Write, Change, Attempt
  <2> QED
    BY <2>3 DEF Durable!Next
<1>2. ASSUME AppendTurn
      PROVE  Durable!Next
  <2>1. PICK v \in Values : LET c == [kind |-> "add", value |-> v] IN
          /\ Change(Window, c)
          /\ found' = [found EXCEPT ![Window] = {mem'[Window]}] \/ Attempt(Window, c)
    BY <1>2 DEF AppendTurn
  <2> DEFINE c == [kind |-> "add", value |-> v]
  <2>2. c \in Durable!Changes
    BY TurnTyped
  <2>3. Change(Window, c) /\ (found' = [found EXCEPT ![Window] = {mem'[Window]}] \/ Attempt(Window, c))
    BY <2>1
  <2>4. writes' = writes + 1
    BY <1>2 DEF AppendTurn, MayMutate
  <2> HIDE DEF c
  <2>5. CASE found' = [found EXCEPT ![Window] = {mem'[Window]}]
    <3>1. Durable!WriteThrough(Window)
      BY <2>2, <2>3, <2>4, <2>5 DEF Durable!WriteThrough, Change
    <3> QED
      BY <1>0, <3>1 DEF Durable!Next
  <2>6. CASE Attempt(Window, c)
    <3>1. Durable!Write(Window)
      BY <2>2, <2>3, <2>4, <2>6 DEF Durable!Write, Change, Attempt
    <3> QED
      BY <1>0, <3>1 DEF Durable!Next
  <2> QED
    BY <2>3, <2>5, <2>6
<1>3. ASSUME NEW f \in Fields, WriteSnapshot(f)
      PROVE  Durable!Next
  <2>1. call[f].data = mem
    BY <1>3 DEF WriteSnapshot, AtGate, Idle, StoreInv, OneCall
  <2>2. found' = [found EXCEPT ![f] = {mem[f]}] /\ UNCHANGED <<mem, writes>>
    BY <1>3, <2>1 DEF WriteSnapshot
  <2>3. found' = [g \in Fields |-> IF g \in {f} THEN {mem[g]} ELSE found[g]]
    BY <2>2 DEF StoreInv, StoreTypeOK
  <2>4. Durable!Confirm
    BY <2>2, <2>3 DEF Durable!Confirm
  <2> QED
    BY <2>4 DEF Durable!Next
<1>4. ASSUME Restart
      PROVE  Durable!Next
  <2>1. /\ ~torn /\ mem' = Load /\ writes' = writes
        /\ found' = [f \in Fields |-> {mem'[f]}]
    BY <1>4 DEF Restart, MayStop, Serial
  <2>2. mem' \in [Fields -> Durable!Values]
    BY <1>0, <2>1, LoadIsTyped DEF StoreInv, Data
  <2>3. \A f \in Fields : mem'[f] \in found[f]
    BY <2>1 DEF StoreInv, Owed
  <2>4. Durable!Restart
    BY <2>1, <2>2, <2>3 DEF Durable!Restart
  <2> QED
    BY <2>4 DEF Durable!Next
<1>5. ASSUME \/ \E f \in Fields : \/ Queue(f) \/ Compact(f) \/ Stamp(f) \/ PersistFails(f)
             \/ UNCHANGED store
      PROVE  UNCHANGED <<mem, found, writes>>
  BY <1>5 DEF Queue, Compact, Stamp, PersistFails, store
<1> QED
  BY <1>1, <1>2, <1>3, <1>4, <1>5 DEF StoreNext, Persist, Closed

(* The files implement the abstract session: a change is a write, a completed *)
(* turn a write that is answered at once, a snapshot answers the call it was  *)
(* taken for, and a load is a restart that shows what was confirmed with some *)
(* of the changes made since, refused ones included, and nothing else.        *)
THEOREM StoreImplementsDurable ==
  ASSUME ~Concurrent, ~TornCompaction
  PROVE  StoreSpec => ImplementsDurable
<1>1. Serial
  BY DEF Serial
<1>2. StoreInit => Durable!Init
  BY DEF StoreInit, Durable!Init, Empty, Durable!Values
<1>3. StoreInv /\ [StoreNext]_store => [Durable!Next]_Durable!state
  BY <1>1, StoreStepSimulation
<1> QED
  BY <1>1, <1>2, <1>3, StoreInvariant, PTL DEF StoreSpec, ImplementsDurable, Durable!Spec

-----------------------------------------------------------------------------
(* The types need no order of calls: mutators may overtake one another, and   *)
(* a crash may fall between the two files of a compaction.                    *)

StoreTypes ==
    /\ StoreTypeOK /\ LogOrdered
    /\ \A f \in Fields : ~Idle(f) => log # {}

(* What the files do not hold. *)
Unfiled ==
    admitted \in BOOLEAN /\ found \in [Fields -> SUBSET Values] /\ refused \subseteq Fields

(* A call moves on with a record of its own. *)
LEMMA CallIsTyped ==
  ASSUME StoreTypes, NEW f \in Fields, NEW r \in [at : Calls, data : Data, mark : Nat],
         call' = [call EXCEPT ![f] = r]
  PROVE  /\ call' \in [Fields -> [at : Calls, data : Data, mark : Nat]]
         /\ \A g \in Fields \ {f} : Idle(g)' <=> Idle(g)
         /\ Idle(f)' <=> r.at = "none"
<1>1. call \in [Fields -> [at : Calls, data : Data, mark : Nat]]
  BY DEF StoreTypes, StoreTypeOK
<1> QED
  BY <1>1 DEF Idle

(* A step of persist_off_runtime that leaves the log alone. *)
LEMMA CallSteps ==
  ASSUME StoreTypes, NEW f \in Fields, ~Idle(f), NEW r \in [at : Calls, data : Data, mark : Nat],
         call' = [call EXCEPT ![f] = r], UNCHANGED <<mem, next, log, writes>>,
         snapshot' \in Snapshot \cup {NoSnapshot}, gate' \in Seq(Fields),
         Unfiled', torn' \in BOOLEAN
  PROVE  StoreTypes'
<1>1. call' \in [Fields -> [at : Calls, data : Data, mark : Nat]]
  BY CallIsTyped
<1>2. StoreTypeOK'
  BY <1>1 DEF StoreTypes, StoreTypeOK, Unfiled
<1>3. LogOrdered'
  BY DEF StoreTypes, LogOrdered, Sets, Newest
<1>4. log' # {}
  BY DEF StoreTypes
<1> QED
  BY <1>2, <1>3, <1>4 DEF StoreTypes

(* The record of a call that only moves on. *)
LEMMA StepRecord ==
  ASSUME StoreTypes, NEW f \in Fields, NEW step \in Calls, Step(f, step)
  PROVE  \E r \in [at : Calls, data : Data, mark : Nat] :
           r.at = step /\ call' = [call EXCEPT ![f] = r]
<1>1. call[f] \in [at : Calls, data : Data, mark : Nat]
  BY DEF StoreTypes, StoreTypeOK
<1> DEFINE r == [call[f] EXCEPT !.at = step]
<1>2. r \in [at : Calls, data : Data, mark : Nat] /\ r.at = step
  BY <1>1
<1>3. call' = [call EXCEPT ![f] = r]
  BY DEF Step
<1> HIDE DEF r
<1> QED
  BY <1>2, <1>3

LEMMA MutateTyped ==
  ASSUME StoreTypes, NEW f \in Fields, Mutate(f)
  PROVE  StoreTypes'
<1>1. /\ writes' \in Nat /\ admitted' \in BOOLEAN /\ UNCHANGED <<snapshot, gate, torn>>
      /\ StoreTypeOK /\ LogOrdered
  BY DEF Mutate, MayMutate, StoreTypes, StoreTypeOK
<1>2. PICK c \in Durable!Changes :
        /\ Change(f, c) /\ Attempt(f, c)
        /\ \/ UNCHANGED <<next, log, call, refused>>
           \/ /\ Record(c.kind, f, c.value) /\ Enter(f, "leaving")
              /\ refused' = IF c.kind = "set" THEN refused \ {f} ELSE refused
           \/ /\ RecordFails(f, Durable!Parts(c))
              /\ refused' = refused \cup {f} /\ UNCHANGED call
  BY ChangesTyped DEF Mutate
<1>3. mem' \in Data
  BY <1>1, <1>2, ChangeTyped
<1>4. found' \in [Fields -> SUBSET Values] /\ Durable!Parts(c) \in SUBSET Durable!Changes
  BY <1>1, <1>2, AttemptOwes
<1>5. CASE UNCHANGED <<next, log, call, refused>>
  <2>1. StoreTypeOK'
    BY <1>1, <1>3, <1>4, <1>5 DEF StoreTypeOK
  <2>2. LogOrdered' /\ \A g \in Fields : ~Idle(g)' => log' # {}
    BY <1>5 DEF StoreTypes, LogOrdered, Sets, Newest, Idle
  <2> QED
    BY <2>1, <2>2 DEF StoreTypes
<1>6. CASE /\ Record(c.kind, f, c.value) /\ Enter(f, "leaving")
           /\ refused' = IF c.kind = "set" THEN refused \ {f} ELSE refused
  <2>1. c.kind \in {"set", "add"} /\ c.value \in Values
    BY DEF Durable!Changes, Durable!Values, Values
  <2>2. LogOrdered' /\ log' \subseteq Event /\ next' \in Nat /\ log' # {}
    BY <1>1, <1>6, <2>1, RecordAdds
  <2>3. [at |-> "leaving", data |-> mem', mark |-> 0] \in [at : Calls, data : Data, mark : Nat]
    BY <1>3 DEF Calls
  <2>4. call' \in [Fields -> [at : Calls, data : Data, mark : Nat]]
    BY <1>6, <2>3, CallIsTyped DEF Enter
  <2>5. refused' \subseteq Fields
    BY <1>1, <1>6 DEF StoreTypeOK
  <2>6. StoreTypeOK'
    BY <1>1, <1>3, <1>4, <2>2, <2>4, <2>5 DEF StoreTypeOK
  <2> QED
    BY <2>2, <2>6 DEF StoreTypes
<1>7. CASE RecordFails(f, Durable!Parts(c)) /\ refused' = refused \cup {f} /\ UNCHANGED call
  <2>1. LogOrdered' /\ log' \subseteq Event /\ next' \in Nat /\ (log # {} => log' # {})
    BY <1>1, <1>4, <1>7, RecordFailsKeeps
  <2>2. StoreTypeOK'
    BY <1>1, <1>3, <1>4, <1>7, <2>1 DEF StoreTypeOK
  <2> QED
    BY <1>7, <2>1, <2>2 DEF StoreTypes, Idle
<1> QED
  BY <1>2, <1>5, <1>6, <1>7

LEMMA AppendTurnTyped ==
  ASSUME StoreTypes, AppendTurn
  PROVE  StoreTypes'
<1>1. /\ writes' \in Nat /\ UNCHANGED <<snapshot, call, gate, torn>> /\ Window \in Fields
      /\ StoreTypeOK /\ LogOrdered
  BY FieldsAssumption DEF AppendTurn, MayMutate, StoreTypes, StoreTypeOK
<1>2. PICK v \in Values : LET c == [kind |-> "add", value |-> v] IN
        /\ Change(Window, c)
        /\ \/ /\ Record("add", Window, v)
              /\ found' = [found EXCEPT ![Window] = {mem'[Window]}]
              /\ UNCHANGED <<admitted, refused>>
           \/ /\ RecordFails(Window, {c}) /\ Attempt(Window, c)
              /\ admitted' = FALSE /\ refused' = refused \cup {Window}
  BY DEF AppendTurn
<1> DEFINE c == [kind |-> "add", value |-> v]
<1>3. c \in Durable!Changes
  BY TurnTyped
<1>4. mem' \in Data /\ mem'[Window] \in Values
  BY <1>1, <1>2, <1>3, ChangeTyped
<1>5. CASE /\ Record("add", Window, v)
           /\ found' = [found EXCEPT ![Window] = {mem'[Window]}]
           /\ UNCHANGED <<admitted, refused>>
  <2>1. LogOrdered' /\ log' \subseteq Event /\ next' \in Nat /\ log' # {}
    BY <1>1, <1>5, RecordAdds
  <2>2. Unfiled'
    BY <1>1, <1>4, <1>5 DEF StoreTypeOK, Unfiled
  <2>3. StoreTypeOK'
    BY <1>1, <1>4, <2>1, <2>2 DEF StoreTypeOK, Unfiled
  <2> QED
    BY <2>1, <2>3 DEF StoreTypes
<1>6. CASE /\ RecordFails(Window, {c}) /\ Attempt(Window, c)
           /\ admitted' = FALSE /\ refused' = refused \cup {Window}
  <2> HIDE DEF c
  <2>1. {c} \in SUBSET Durable!Changes
    BY <1>3
  <2>2. LogOrdered' /\ log' \subseteq Event /\ next' \in Nat /\ (log # {} => log' # {})
    BY <1>1, <1>6, <2>1, RecordFailsKeeps
  <2>3. found' \in [Fields -> SUBSET Values]
    BY <1>1, <1>3, <1>6, AttemptOwes
  <2>4. StoreTypeOK'
    BY <1>1, <1>4, <1>6, <2>2, <2>3 DEF StoreTypeOK
  <2> QED
    BY <1>1, <2>2, <2>4 DEF StoreTypes, Idle
<1> QED
  BY <1>2, <1>5, <1>6

LEMMA QueueTyped ==
  ASSUME StoreTypes, NEW f \in Fields, Queue(f)
  PROVE  StoreTypes'
<1>1. /\ ~Idle(f) /\ gate' \in Seq(Fields)
      /\ UNCHANGED <<mem, next, log, snapshot, admitted, found, refused, torn, writes>>
  BY DEF Queue, Idle, StoreTypes, StoreTypeOK
<1>2. PICK r \in [at : Calls, data : Data, mark : Nat] : call' = [call EXCEPT ![f] = r]
  BY StepRecord DEF Queue, Calls
<1>3. snapshot' \in Snapshot \cup {NoSnapshot} /\ Unfiled' /\ torn' \in BOOLEAN
  BY <1>1 DEF StoreTypes, StoreTypeOK, Unfiled
<1> QED
  BY <1>1, <1>2, <1>3, CallSteps

LEMMA CompactTyped ==
  ASSUME StoreTypes, NEW f \in Fields, Compact(f)
  PROVE  StoreTypes'
<1>1. ~Idle(f) /\ UNCHANGED <<mem, next, snapshot, gate, admitted, found, refused, writes>>
  BY DEF Compact, AtGate, Idle
<1>2. PICK r \in [at : Calls, data : Data, mark : Nat] : call' = [call EXCEPT ![f] = r]
  BY StepRecord DEF Compact, Calls
<1>3. /\ snapshot' \in Snapshot \cup {NoSnapshot} /\ gate' \in Seq(Fields)
      /\ Unfiled'
  BY <1>1 DEF StoreTypes, StoreTypeOK, Unfiled
<1>4. CASE UNCHANGED <<log, torn>>
  <2>1. torn' \in BOOLEAN
    BY <1>4 DEF StoreTypes, StoreTypeOK
  <2> QED
    BY <1>1, <1>2, <1>3, <1>4, <2>1, CallSteps
<1>5. CASE Cardinality(log) >= Threshold /\ log' = Seeds(call[f].data) /\ torn' = TRUE
  <2>1. call[f].data \in Data
    BY DEF StoreTypes, StoreTypeOK
  <2>2. LogOrdered' /\ log' \subseteq Event /\ log' # {}
    BY <1>1, <1>5, <2>1, SeedsOrdered DEF StoreTypes
  <2>3. call' \in [Fields -> [at : Calls, data : Data, mark : Nat]]
    BY <1>2, CallIsTyped
  <2>4. StoreTypeOK'
    BY <1>1, <1>3, <1>5, <2>2, <2>3 DEF StoreTypes, StoreTypeOK, Unfiled
  <2> QED
    BY <2>2, <2>4 DEF StoreTypes
<1> QED
  BY <1>4, <1>5 DEF Compact

LEMMA StampTyped ==
  ASSUME StoreTypes, NEW f \in Fields, Stamp(f)
  PROVE  StoreTypes'
<1>1. ~Idle(f) /\ UNCHANGED <<mem, next, log, snapshot, gate, admitted, found, refused, torn, writes>>
  BY DEF Stamp, AtGate, Idle, files
<1>2. PICK h \in log : Newest(h, log)
  BY <1>1 DEF StoreTypes, LogOrdered
<1>3. High \in Nat
  BY <1>2, HighIsNewest DEF StoreTypes, StoreTypeOK, Event
<1>4. /\ call' = [call EXCEPT ![f] = [at |-> "writing", data |-> call[f].data, mark |-> High]]
      /\ call[f].data \in Data
  BY DEF Stamp, StoreTypes, StoreTypeOK
<1>5. [at |-> "writing", data |-> call[f].data, mark |-> High] \in [at : Calls, data : Data, mark : Nat]
  BY <1>3, <1>4 DEF Calls
<1>6. /\ snapshot' \in Snapshot \cup {NoSnapshot} /\ gate' \in Seq(Fields)
      /\ Unfiled' /\ torn' \in BOOLEAN
  BY <1>1 DEF StoreTypes, StoreTypeOK, Unfiled
<1> QED
  BY <1>1, <1>4, <1>5, <1>6, CallSteps

LEMMA WriteSnapshotTyped ==
  ASSUME StoreTypes, NEW f \in Fields, WriteSnapshot(f)
  PROVE  StoreTypes'
<1>1. ~Idle(f) /\ torn' = FALSE /\ UNCHANGED <<mem, next, log, writes>>
  BY DEF WriteSnapshot, AtGate, Idle
<1>2. call[f].data \in Data /\ call[f].mark \in Nat
  BY DEF StoreTypes, StoreTypeOK
<1>3. snapshot' \in Snapshot
  BY <1>2 DEF WriteSnapshot, Snapshot
<1>4. gate' \in Seq(Fields)
  BY DEF WriteSnapshot, AtGate, StoreTypes, StoreTypeOK
<1>5. Unfiled'
  <2>1. /\ found \in [Fields -> SUBSET Values] /\ refused \subseteq Fields
        /\ admitted \in BOOLEAN /\ call[f].data[f] \in Values
    BY <1>2 DEF StoreTypes, StoreTypeOK, Data
  <2> QED
    BY <2>1 DEF WriteSnapshot, Unfiled
<1>6. PICK r \in [at : Calls, data : Data, mark : Nat] : call' = [call EXCEPT ![f] = r]
  BY StepRecord DEF WriteSnapshot, Calls
<1> QED
  BY <1>1, <1>3, <1>4, <1>5, <1>6, CallSteps

LEMMA PersistFailsTyped ==
  ASSUME StoreTypes, NEW f \in Fields, PersistFails(f)
  PROVE  StoreTypes'
<1>1. ~Idle(f) /\ UNCHANGED <<mem, next, log, snapshot, admitted, found, refused, torn, writes>>
  BY DEF PersistFails, AtGate, Idle, files
<1>2. gate' \in Seq(Fields)
  BY DEF PersistFails, AtGate, StoreTypes, StoreTypeOK
<1>3. PICK r \in [at : Calls, data : Data, mark : Nat] : call' = [call EXCEPT ![f] = r]
  BY StepRecord DEF PersistFails, Calls
<1>4. snapshot' \in Snapshot \cup {NoSnapshot} /\ Unfiled' /\ torn' \in BOOLEAN
  BY <1>1 DEF StoreTypes, StoreTypeOK, Unfiled
<1> QED
  BY <1>1, <1>2, <1>3, <1>4, CallSteps

LEMMA RestartTyped ==
  ASSUME StoreTypes, Restart
  PROVE  StoreTypes'
<1>1. /\ mem' = Load /\ found' = [f \in Fields |-> {Load[f]}]
      /\ admitted' = FALSE /\ refused' = {} /\ next' = 0 /\ gate' = <<>> /\ torn' = FALSE
      /\ UNCHANGED <<log, writes>>
      /\ call' = [f \in Fields |-> [at |-> "none", data |-> Empty, mark |-> 0]]
      /\ snapshot' = IF snapshot = NoSnapshot /\ log # {}
                     THEN [data |-> Load, mark |-> High] ELSE snapshot
  BY DEF Restart
<1>2. Load \in Data
  BY LoadIsTyped DEF StoreTypes
<1>3. call' \in [Fields -> [at : Calls, data : Data, mark : Nat]] /\ \A f \in Fields : Idle(f)'
  <2>1. Empty \in Data
    BY DEF Empty, Data, Values
  <2> QED
    BY <1>1, <2>1 DEF Calls, Idle
<1>4. snapshot' \in Snapshot \cup {NoSnapshot}
  <2>1. CASE snapshot = NoSnapshot /\ log # {}
    <3>1. PICK h \in log : Newest(h, log)
      BY <2>1 DEF StoreTypes, LogOrdered
    <3>2. High \in Nat
      BY <3>1, HighIsNewest DEF StoreTypes, StoreTypeOK, Event
    <3> QED
      BY <1>1, <1>2, <2>1, <3>2 DEF Snapshot
  <2>2. CASE ~(snapshot = NoSnapshot /\ log # {})
    BY <1>1, <2>2 DEF StoreTypes, StoreTypeOK
  <2> QED
    BY <2>1, <2>2
<1>5. gate' \in Seq(Fields)
  BY <1>1
<1>5a. Unfiled'
  <2>1. \A f \in Fields : {Load[f]} \in SUBSET Values
    BY <1>2 DEF Data
  <2>2. found' \in [Fields -> SUBSET Values]
    BY <1>1, <2>1
  <2>3. refused' \subseteq Fields
    BY <1>1
  <2>4. admitted' \in BOOLEAN
    BY <1>1
  <2> QED
    BY <2>2, <2>3, <2>4 DEF Unfiled
<1>6. StoreTypeOK'
  BY <1>1, <1>2, <1>3, <1>4, <1>5, <1>5a DEF StoreTypes, StoreTypeOK, Unfiled
<1>7. LogOrdered'
  BY <1>1 DEF StoreTypes, LogOrdered, Sets, Newest
<1> QED
  BY <1>3, <1>6, <1>7 DEF StoreTypes

LEMMA StoreTypesStep ==
  ASSUME StoreTypes, [StoreNext]_store
  PROVE  StoreTypes'
<1>1. CASE \E f \in Fields : Mutate(f)
  BY <1>1, MutateTyped
<1>2. CASE \E f \in Fields : Persist(f)
  BY <1>2, QueueTyped, CompactTyped, StampTyped, WriteSnapshotTyped, PersistFailsTyped DEF Persist
<1>3. CASE AppendTurn
  BY <1>3, AppendTurnTyped
<1>4. CASE Restart
  BY <1>4, RestartTyped
<1>5. CASE UNCHANGED store
  BY <1>5 DEF store, files, StoreTypes, StoreTypeOK, LogOrdered, Sets, Newest, Idle
<1> QED
  BY <1>1, <1>2, <1>3, <1>4, <1>5 DEF StoreNext, Closed

(* The store of a session is always well formed and numbers its events in     *)
(* order: a mutator that overtakes another, a failed snapshot or a crash in a *)
(* compaction may lose a value, but never leaves a log that does not load.    *)
THEOREM StoreTypeCorrect == StoreSpec => [](StoreTypeOK /\ LogOrdered)
<1>1. StoreInit => StoreTypes
  BY StoreInvInit DEF StoreInv, StoreTypes, StoreInit, Idle
<1>2. StoreTypes /\ [StoreNext]_store => StoreTypes'
  BY StoreTypesStep
<1>3. StoreTypes => StoreTypeOK /\ LogOrdered
  BY DEF StoreTypes
<1> QED
  BY <1>1, <1>2, <1>3, PTL DEF StoreSpec
=============================================================================
