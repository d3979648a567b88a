-------------------------- MODULE ToolPhase_proofs --------------------------
(***************************************************************************)
(* Theorems about ToolPhase for every set of calls, files, declarations    *)
(* and panics: the scheduler keeps the calls that run apart, leaves none   *)
(* behind in its queue, and the phase ends with one outcome of each.       *)
(***************************************************************************)
EXTENDS ToolPhase, SequenceTheorems, TLAPS

(* No two active calls conflict; one that has returned counts until its end   *)
(* has been reported and the queue scanned.                                   *)
ActiveApart == \A c, d \in Active : c # d => ~Clash(c, d)

(* Every queued call is held up by an active one, or by one queued before it. *)
QueuedBlocked ==
    \A c \in Queued : \E d \in Active \cup {e \in Queued : e < c} : Clash(d, c)

(* The calls are submitted in their order, and the known ones never. *)
InOrder ==
    /\ \A c \in Calls : call[c] = "known" <=> c \in Known
    /\ \A c, d \in Calls : call[c] = "announced" /\ c < d => call[d] \in {"announced", "known"}

(* How far the driver is tells what has become of the calls. *)
DriverOrder ==
    /\ driver # "submitting" => \A c \in Calls : call[c] # "announced"
    /\ driver \in {"cancelling", "draining"} => cancelled
    /\ driver = "done" => Active = {} /\ Queued = {} /\ channel = {}
    /\ driver # "done" => told = {}

(* What was sent is in the channel or forwarded; without a cancel every call  *)
(* that has returned has sent its result or panicked.                         *)
ResultsKept ==
    /\ produced = channel \cup slots
    /\ ~cancelled =>
         \A c \in Calls : /\ call[c] \in {"returned", "finished"} => c \in produced \cup panicked
                          /\ call[c] \notin {"rejected", "aborted"}

PhaseInv ==
    /\ TypeOK /\ ActiveApart /\ QueuedBlocked /\ InOrder /\ DriverOrder /\ ResultsKept
    /\ OneOutcomeEach /\ AskedIsAnswerable

-----------------------------------------------------------------------------
(* Declarations that do not conflict.                                         *)

LEMMA ClashSymmetric ==
  ASSUME NEW c, NEW d
  PROVE  Clash(c, d) <=> Clash(d, c)
BY DEF Clash, Conflicts, AccessConflict, Overlap

LEMMA PrefixPointwise ==
  ASSUME NEW S, NEW s \in Seq(S), NEW t \in Seq(S)
  PROVE  IsPrefix(s, t) <=> Len(s) <= Len(t) /\ \A i \in 1..Len(s) : s[i] = t[i]
<1>0. Len(s) \in Nat /\ Len(t) \in Nat /\ s \in [1..Len(s) -> S] /\ t \in [1..Len(t) -> S]
  BY LenProperties
<1>1. CASE Len(s) <= Len(t)
  <2>1. /\ SubSeq(s, 1, Len(s)) \in Seq(S) /\ Len(SubSeq(s, 1, Len(s))) = Len(s)
        /\ \A i \in 1..Len(s) : SubSeq(s, 1, Len(s))[i] = s[i]
    BY <1>0, SubSeqProperties
  <2>2. /\ SubSeq(t, 1, Len(s)) \in Seq(S) /\ Len(SubSeq(t, 1, Len(s))) = Len(s)
        /\ \A i \in 1..Len(s) : SubSeq(t, 1, Len(s))[i] = t[i]
    BY <1>0, <1>1, SubSeqProperties
  <2>3. SubSeq(s, 1, Len(s)) = SubSeq(t, 1, Len(s)) <=> \A i \in 1..Len(s) : s[i] = t[i]
    <3> DEFINE u == SubSeq(s, 1, Len(s))
               v == SubSeq(t, 1, Len(s))
    <3>1. u \in Seq(S) /\ v \in Seq(S) /\ Len(u) = Len(v) /\ Len(u) = Len(s)
      BY <2>1, <2>2
    <3>2. \A i \in 1..Len(s) : u[i] = s[i] /\ v[i] = t[i]
      BY <2>1, <2>2
    <3> HIDE DEF u, v
    <3>3. (\A i \in 1..Len(u) : u[i] = v[i]) => u = v
      BY <3>1, SeqEqual
    <3>4. u = v <=> \A i \in 1..Len(s) : s[i] = t[i]
      BY <3>1, <3>2, <3>3
    <3> QED  BY <3>4 DEF u, v
  <2> QED  BY <1>1, <2>3 DEF IsPrefix
<1>2. CASE ~(Len(s) <= Len(t))
  BY <1>2 DEF IsPrefix
<1> QED  BY <1>1, <1>2

(* Of two directories above a file one is above the other, or they are one. *)
LEMMA PrefixesNest ==
  ASSUME NEW S, NEW s \in Seq(S), NEW t \in Seq(S), NEW u \in Seq(S), IsPrefix(s, u), IsPrefix(t, u)
  PROVE  s = t \/ IsStrictPrefix(s, t) \/ IsStrictPrefix(t, s)
<1>1. /\ Len(s) \in Nat /\ Len(t) \in Nat
      /\ \A i \in 1..Len(s) : s[i] = u[i]
      /\ \A i \in 1..Len(t) : t[i] = u[i]
  BY PrefixPointwise, LenProperties
<1>2. CASE Len(s) <= Len(t)
  <2>1. \A i \in 1..Len(s) : s[i] = t[i]
    BY <1>1, <1>2
  <2> QED  BY <1>2, <2>1, PrefixPointwise DEF IsStrictPrefix
<1>3. CASE Len(t) <= Len(s)
  <2>1. \A i \in 1..Len(t) : t[i] = s[i]
    BY <1>1, <1>3
  <2> QED  BY <1>3, <2>1, PrefixPointwise DEF IsStrictPrefix
<1> QED  BY <1>1, <1>2, <1>3

(* No call declares the whole tree from the root down, with which the code    *)
(* sees no conflict below the root (is_subtree in tool_access.rs).            *)
NoRootTree ==
    \A c \in Calls : \A a \in Accesses[c] : a # All /\ a.recursive => a.path # Root

(* Calls that do not conflict change no file the other one touches. *)
LEMMA FilesApart ==
  ASSUME NoRootTree, NEW c \in Calls, NEW d \in Calls, ~Clash(c, d), NEW path \in Paths
  PROVE  ~(Changes(c, path) /\ Touches(d, path))
<1> SUFFICES ASSUME Changes(c, path), Touches(d, path) PROVE FALSE
  OBVIOUS
<1>1. PICK a \in Accesses[c] :
        (a = All \/ Writes(a)) /\ (path = a.path \/ (a.recursive /\ IsPrefix(a.path, path)))
  BY DEF Changes
<1>2. PICK b \in Accesses[d] : path = b.path \/ (b.recursive /\ IsPrefix(b.path, path))
  BY DEF Touches
<1>3. a # All /\ b # All /\ ~Overlap(a, b) /\ Writes(a)
  BY <1>1 DEF Clash, Conflicts, AccessConflict
<1>4. /\ a \in [operation : Operations, path : Paths, recursive : BOOLEAN]
      /\ b \in [operation : Operations, path : Paths, recursive : BOOLEAN]
      /\ (a.recursive => a.path # Root) /\ (b.recursive => b.path # Root)
  BY <1>3, AccessesAssumption DEF NoRootTree
<1>5. a.path \in Seq(STRING) /\ b.path \in Seq(STRING) /\ path \in Seq(STRING)
  BY <1>4, PathsAssumption
<1>6. a.path # b.path
  BY <1>3 DEF Overlap
<1>7. a.recursive => ~IsStrictPrefix(a.path, b.path)
  BY <1>3, <1>4 DEF Overlap, IsSubtree
<1>8. b.recursive => ~IsStrictPrefix(b.path, a.path)
  BY <1>3, <1>4 DEF Overlap, IsSubtree
<1>9. CASE path = a.path
  BY <1>2, <1>6, <1>8, <1>9 DEF IsStrictPrefix
<1>10. CASE path = b.path
  BY <1>1, <1>6, <1>7, <1>10 DEF IsStrictPrefix
<1>11. CASE a.recursive /\ IsPrefix(a.path, path) /\ b.recursive /\ IsPrefix(b.path, path)
  BY <1>5, <1>6, <1>7, <1>8, <1>11, PrefixesNest
<1> QED  BY <1>1, <1>2, <1>9, <1>10, <1>11

-----------------------------------------------------------------------------
(* The task of a call.                                                        *)

(* A call moves on in its task: the scheduler still counts it as active, and  *)
(* the phase is not over.                                                     *)
LEMMA WorkStep ==
  ASSUME PhaseInv, NEW c \in Calls, NEW place \in {"asking", "tool", "returned"},
         call[c] \in {"spawned", "asking", "tool"}, call' = [call EXCEPT ![c] = place],
         UNCHANGED <<driver, cancelled, told>>
  PROVE  /\ ActiveApart' /\ QueuedBlocked' /\ InOrder' /\ DriverOrder' /\ OneOutcomeEach'
         /\ call' \in [Calls -> Places] /\ c \in Exec
         /\ \A d \in Calls : call'[d] = IF d = c THEN place ELSE call[d]
<1>1. call \in [Calls -> Places] /\ \A d \in Calls : call'[d] = IF d = c THEN place ELSE call[d]
  BY DEF PhaseInv, TypeOK
<1>2. call' \in [Calls -> Places]
  BY <1>1 DEF Places
<1>3. c \in Active /\ Active' = Active /\ Queued' = Queued
  BY <1>1 DEF Active, Queued
<1>4. driver # "done"
  BY <1>3 DEF PhaseInv, DriverOrder
<1>5. ActiveApart' /\ QueuedBlocked'
  BY <1>3 DEF PhaseInv, ActiveApart, QueuedBlocked, Clash
<1>6. InOrder' /\ c \in Exec
  BY <1>1 DEF PhaseInv, InOrder, Exec
<1>7. DriverOrder'
  BY <1>1, <1>4 DEF PhaseInv, DriverOrder
<1>8. OneOutcomeEach'
  BY <1>4 DEF OneOutcomeEach
<1> QED  BY <1>1, <1>2, <1>5, <1>6, <1>7, <1>8

LEMMA PollStep ==
  ASSUME PhaseInv, NEW c \in Calls, Poll(c)
  PROVE  PhaseInv'
<1>0. /\ call[c] = "spawned" /\ UNCHANGED <<driver, cancelled, channel, slots, told, answer, panicked, produced>>
      /\ \/ call' = [call EXCEPT ![c] = "asking"] /\ pending' = pending \cup {c}
         \/ call' = [call EXCEPT ![c] = "tool"] /\ pending' = pending
         \/ call' = [call EXCEPT ![c] = "returned"] /\ pending' = pending /\ cancelled
  BY DEF Poll, Enters
<1>1. PICK place \in {"asking", "tool", "returned"} :
        /\ call' = [call EXCEPT ![c] = place]
        /\ pending' = (IF place = "asking" THEN pending \cup {c} ELSE pending)
        /\ place = "returned" => cancelled
  BY <1>0
<1>2. /\ ActiveApart' /\ QueuedBlocked' /\ InOrder' /\ DriverOrder' /\ OneOutcomeEach'
      /\ call' \in [Calls -> Places] /\ c \in Exec
      /\ \A d \in Calls : call'[d] = IF d = c THEN place ELSE call[d]
  BY <1>0, <1>1, WorkStep
<1>3. TypeOK'
  BY <1>0, <1>1, <1>2 DEF PhaseInv, TypeOK
<1>4. ResultsKept'
  BY <1>0, <1>1, <1>2 DEF PhaseInv, ResultsKept
<1>5. AskedIsAnswerable'
  BY <1>0, <1>1, <1>2 DEF PhaseInv, AskedIsAnswerable
<1> QED  BY <1>2, <1>3, <1>4, <1>5 DEF PhaseInv

(* A result, a denial, a panic or a drop ends the work of a call. *)
LEMMA EndSteps ==
  ASSUME PhaseInv, NEW c \in Calls, Decided(c) \/ ToolEnds(c) \/ ToolPanics(c) \/ Dropped(c)
  PROVE  PhaseInv'
<1>0. /\ call[c] \in {"asking", "tool"} /\ UNCHANGED <<driver, cancelled, slots, told, pending, answer>>
      /\ \/ /\ call' = [call EXCEPT ![c] = "tool"] /\ UNCHANGED <<channel, produced, panicked>>
         \/ /\ call' = [call EXCEPT ![c] = "returned"] /\ UNCHANGED panicked
            /\ channel' = channel \cup {c} /\ produced' = produced \cup {c}
         \/ /\ call' = [call EXCEPT ![c] = "returned"] /\ UNCHANGED <<channel, produced>>
            /\ panicked' = panicked \cup {c}
         \/ /\ call' = [call EXCEPT ![c] = "returned"] /\ UNCHANGED <<channel, produced, panicked>>
            /\ cancelled
  BY DEF Decided, ToolEnds, ToolPanics, Dropped, Returns, store
<1>1. PICK place \in {"tool", "returned"} : call' = [call EXCEPT ![c] = place]
  BY <1>0
<1>2. /\ ActiveApart' /\ QueuedBlocked' /\ InOrder' /\ DriverOrder' /\ OneOutcomeEach'
      /\ call' \in [Calls -> Places] /\ c \in Exec
      /\ \A d \in Calls : call'[d] = IF d = c THEN place ELSE call[d]
  BY <1>0, <1>1, WorkStep
<1>3. TypeOK'
  BY <1>0, <1>2 DEF PhaseInv, TypeOK
<1>4. ResultsKept'
  <2>1. produced' = channel' \cup slots'
    BY <1>0 DEF PhaseInv, ResultsKept
  <2>2. produced \cup panicked \subseteq produced' \cup panicked'
    BY <1>0
  <2>3. ASSUME ~cancelled, place = "returned" PROVE c \in produced' \cup panicked'
    <3>1. call'[c] = "returned"
      BY <1>2, <2>3
    <3>2. call' # [call EXCEPT ![c] = "tool"]
      BY <3>1 DEF PhaseInv, TypeOK
    <3> QED  BY <1>0, <2>3, <3>2
  <2> QED  BY <1>0, <1>2, <2>1, <2>2, <2>3 DEF PhaseInv, ResultsKept
<1>5. AskedIsAnswerable'
  BY <1>0, <1>2 DEF PhaseInv, AskedIsAnswerable
<1> QED  BY <1>2, <1>3, <1>4, <1>5 DEF PhaseInv

-----------------------------------------------------------------------------
(* The scheduler.                                                             *)

(* A submitted call starts if nothing active and nothing queued conflicts. *)
LEMMA SubmitStep ==
  ASSUME PhaseInv, Submit
  PROVE  PhaseInv'
<1>0. PICK c \in Calls :
        /\ call[c] = "announced" /\ \A d \in Calls : d < c => call[d] # "announced"
        /\ call' = [call EXCEPT ![c] = IF IsBlocked(c) THEN "queued" ELSE "spawned"]
  BY DEF Submit
<1>1. /\ driver = "submitting"
      /\ UNCHANGED <<driver, cancelled, channel, slots, told, pending, answer, panicked, produced>>
  BY DEF Submit, store
<1> DEFINE place == IF IsBlocked(c) THEN "queued" ELSE "spawned"
<1>2. /\ call \in [Calls -> Places] /\ place \in {"queued", "spawned"}
      /\ IsBlocked(c) <=> place = "queued"
      /\ \A d \in Calls : call'[d] = IF d = c THEN place ELSE call[d]
  BY <1>0 DEF PhaseInv, TypeOK
<1> HIDE DEF place
<1>3. TypeOK'
  <2>1. call' \in [Calls -> Places]
    BY <1>0, <1>2 DEF Places, place
  <2> QED  BY <1>1, <2>1 DEF PhaseInv, TypeOK
<1>4. InOrder' /\ \A d \in Queued : d < c
  <2>1. \A d \in Calls : call[d] = "announced" /\ d # c => c < d
    BY <1>0, CallsAssumption
  <2>2. \A d \in Queued : d < c
    BY <1>0, CallsAssumption DEF PhaseInv, InOrder, Queued
  <2> QED  BY <1>0, <1>2, <2>1, <2>2, CallsAssumption DEF PhaseInv, InOrder
<1>5. CASE IsBlocked(c)
  <2>1. Active' = Active /\ Queued' = Queued \cup {c} /\ c \notin Queued
    BY <1>0, <1>2, <1>5 DEF Active, Queued
  <2>2. ActiveApart'
    BY <2>1 DEF PhaseInv, ActiveApart, Clash
  <2>3. PICK d \in Active \cup Queued : Clash(c, d)
    BY <1>5 DEF IsBlocked
  <2>4. Clash(d, c) /\ (d \in Queued => d < c)
    BY <1>4, <2>3, ClashSymmetric
  <2>5. QueuedBlocked'
    BY <2>1, <2>3, <2>4 DEF PhaseInv, QueuedBlocked, Clash
  <2> QED  BY <1>1, <1>2, <1>3, <1>4, <1>5, <2>2, <2>5
           DEF PhaseInv, DriverOrder, ResultsKept, OneOutcomeEach, AskedIsAnswerable
<1>6. CASE ~IsBlocked(c)
  <2>1. Active' = Active \cup {c} /\ Queued' = Queued
    BY <1>0, <1>2, <1>6 DEF Active, Queued
  <2>2. \A d \in Active : ~Clash(c, d) /\ ~Clash(d, c)
    BY <1>6, ClashSymmetric DEF IsBlocked
  <2>3. ActiveApart'
    BY <2>1, <2>2 DEF PhaseInv, ActiveApart, Clash
  <2>4. QueuedBlocked'
    BY <2>1 DEF PhaseInv, QueuedBlocked, Clash
  <2> QED  BY <1>1, <1>2, <1>3, <1>4, <1>6, <2>3, <2>4
           DEF PhaseInv, DriverOrder, ResultsKept, OneOutcomeEach, AskedIsAnswerable
<1> QED  BY <1>5, <1>6

(* The scan promotes calls that conflict neither with the active ones nor     *)
(* with each other, and what it leaves queued conflicts with one of these.    *)
LEMMA FinishCallStep ==
  ASSUME PhaseInv, NEW c \in Calls, FinishCall(c)
  PROVE  PhaseInv'
<1>0. PICK up \in SUBSET Queued :
        /\ Scans(up, Active \ {c})
        /\ call' = [d \in Calls |-> IF d = c THEN "finished"
                                    ELSE IF d \in up THEN "spawned" ELSE call[d]]
  BY DEF FinishCall
<1>1. /\ call[c] = "returned" /\ call \in [Calls -> Places]
      /\ UNCHANGED <<driver, cancelled, channel, slots, told, pending, answer, panicked, produced>>
  BY DEF FinishCall, store, PhaseInv, TypeOK
<1>2. \A d \in Calls : call'[d] = IF d = c THEN "finished" ELSE IF d \in up THEN "spawned" ELSE call[d]
  BY <1>0
<1>3. Active' = (Active \ {c}) \cup up /\ Queued' = Queued \ up /\ c \notin up /\ c \in Active
  BY <1>0, <1>1, <1>2 DEF Active, Queued
<1>4. driver # "done"
  BY <1>3 DEF PhaseInv, DriverOrder
<1>5. /\ \A d \in up : \A e \in (Active \ {c}) \cup {e \in up : e < d} : ~Clash(e, d)
      /\ \A d \in Queued \ up : \E e \in (Active \ {c}) \cup {e \in up : e < d} : Clash(e, d)
  BY <1>0 DEF Scans
<1>6. ActiveApart'
  <2>1. ASSUME NEW d \in Active', NEW e \in Active', d # e PROVE ~Clash(d, e)
    <3>1. up \subseteq Nat
      BY <1>0, CallsAssumption DEF Queued
    <3>2. CASE d \in up /\ e \in up
      <4>1. d < e \/ e < d
        BY <2>1, <3>1, <3>2
      <4> QED  BY <1>5, <3>2, <4>1, ClashSymmetric
    <3>3. CASE d \in up /\ e \notin up
      BY <1>3, <1>5, <3>3, ClashSymmetric
    <3>4. CASE d \notin up /\ e \in up
      BY <1>3, <1>5, <3>4
    <3>5. CASE d \notin up /\ e \notin up
      BY <1>3, <2>1, <3>5 DEF PhaseInv, ActiveApart
    <3> QED  BY <3>2, <3>3, <3>4, <3>5
  <2> QED  BY <2>1 DEF ActiveApart, Clash
<1>7. QueuedBlocked'
  <2>1. \A d \in Queued' : \E e \in Active' : Clash(e, d)
    BY <1>3, <1>5
  <2> QED  BY <2>1 DEF QueuedBlocked, Clash
<1>8. TypeOK'
  <2>1. call' \in [Calls -> Places]
    BY <1>0, <1>1 DEF Places
  <2> QED  BY <1>1, <2>1 DEF PhaseInv, TypeOK
<1>9. InOrder' /\ DriverOrder'
  <2>1. \A d \in up : call[d] = "queued"
    BY <1>0 DEF Queued
  <2>2. InOrder'
    BY <1>1, <1>2, <2>1 DEF PhaseInv, InOrder
  <2>3. DriverOrder'
    BY <1>1, <1>2, <1>4 DEF PhaseInv, DriverOrder
  <2> QED  BY <2>2, <2>3
<1>10. ResultsKept'
  BY <1>1, <1>2 DEF PhaseInv, ResultsKept
<1>11. OneOutcomeEach' /\ AskedIsAnswerable'
  BY <1>1, <1>2, <1>4 DEF PhaseInv, OneOutcomeEach, AskedIsAnswerable
<1> QED  BY <1>6, <1>7, <1>8, <1>9, <1>10, <1>11 DEF PhaseInv

-----------------------------------------------------------------------------
(* The driver.                                                                *)

LEMMA WaitSteps ==
  ASSUME PhaseInv, AllSubmitted \/ Forward \/ SeesCancel
  PROVE  PhaseInv'
<1>0. /\ UNCHANGED <<call, cancelled, told, pending, answer, panicked, produced>>
      /\ driver # "done" /\ driver' \in {"waiting", "cancelling", "draining"}
      /\ driver' \in {"cancelling", "draining"} => cancelled
      /\ driver = "submitting" => \A c \in Calls : call[c] # "announced"
      /\ channel' \cup slots' = channel \cup slots
  <2>1. CASE AllSubmitted
    BY <2>1 DEF AllSubmitted, store
  <2>2. CASE Forward
    <3>1. PICK c \in channel : slots' = slots \cup {c} /\ channel' = channel \ {c}
      BY <2>2 DEF Forward
    <3>2. driver \in {"waiting", "draining"} /\ driver' = driver
          /\ UNCHANGED <<call, cancelled, told, pending, answer, panicked, produced>>
      BY <2>2 DEF Forward, store
    <3>3. channel' \cup slots' = channel \cup slots
      BY <3>1
    <3>4. driver = "draining" => cancelled
      BY DEF PhaseInv, DriverOrder
    <3> QED  BY ONLY <3>2, <3>3, <3>4
  <2>3. CASE SeesCancel
    BY <2>3 DEF SeesCancel, store
  <2> QED  BY <2>1, <2>2, <2>3
<1>2. TypeOK'
  <2>1. driver' \in {"submitting", "waiting", "cancelling", "draining", "done"}
    BY <1>0
  <2>2. channel' \subseteq Exec /\ slots' \subseteq Exec
    BY <1>0 DEF PhaseInv, TypeOK
  <2> QED  BY <1>0, <2>1, <2>2 DEF PhaseInv, TypeOK
<1>3. ActiveApart' /\ QueuedBlocked' /\ InOrder' /\ AskedIsAnswerable'
  BY <1>0 DEF PhaseInv, ActiveApart, QueuedBlocked, InOrder, AskedIsAnswerable, Active, Queued, Clash
<1>4. DriverOrder'
  BY <1>0 DEF PhaseInv, DriverOrder
<1>5. ResultsKept' /\ OneOutcomeEach'
  BY <1>0 DEF PhaseInv, ResultsKept, OneOutcomeEach
<1> QED  BY <1>2, <1>3, <1>4, <1>5 DEF PhaseInv

LEMMA CancelAllStep ==
  ASSUME PhaseInv, CancelAll
  PROVE  PhaseInv'
<1>0. /\ driver = "cancelling" /\ driver' = "draining" /\ call \in [Calls -> Places]
      /\ call' = [c \in Calls |-> Rejects(c)]
      /\ UNCHANGED <<cancelled, channel, slots, told, pending, answer, panicked, produced>>
  BY DEF CancelAll, store, PhaseInv, TypeOK
<1>1. \A c \in Calls : call'[c] = IF call[c] = "queued" THEN "rejected" ELSE call[c]
  BY <1>0 DEF Rejects
<1>2. Active' = Active /\ Queued' = {} /\ cancelled
  BY <1>0, <1>1 DEF Active, Queued, PhaseInv, DriverOrder
<1>3. TypeOK'
  <2>1. call' \in [Calls -> Places]
    BY <1>0, <1>1 DEF Places
  <2> QED  BY <1>0, <2>1 DEF PhaseInv, TypeOK
<1>4. ActiveApart' /\ QueuedBlocked'
  BY <1>2 DEF PhaseInv, ActiveApart, QueuedBlocked, Clash
<1>5. InOrder' /\ DriverOrder'
  BY <1>0, <1>1, <1>2 DEF PhaseInv, InOrder, DriverOrder
<1>6. ResultsKept' /\ OneOutcomeEach' /\ AskedIsAnswerable'
  BY <1>0, <1>1, <1>2 DEF PhaseInv, ResultsKept, OneOutcomeEach, AskedIsAnswerable
<1> QED  BY <1>3, <1>4, <1>5, <1>6 DEF PhaseInv

(* Without a cancel the phase ends with a result of every call that did not   *)
(* panic; *)
LEMMA CompleteStep ==
  ASSUME PhaseInv, Complete
  PROVE  PhaseInv'
<1>0. /\ driver = "waiting" /\ ~cancelled /\ Resolved = Calls
      /\ driver' = "done" /\ channel' = {} /\ slots' = slots \cup channel
      /\ UNCHANGED <<call, cancelled, told, pending, answer, panicked, produced>>
  BY DEF Complete, Ends, store
<1>1. Active = {} /\ Queued = {} /\ Active' = {} /\ Queued' = {} /\ Running' = {}
  BY <1>0 DEF Active, Queued, Resolved, Running
<1>2. /\ produced' = slots' /\ told' = {} /\ slots' \subseteq Exec
  BY <1>0 DEF PhaseInv, TypeOK, ResultsKept, DriverOrder
<1>3. Exec \ panicked \subseteq slots'
  <2>1. ASSUME NEW c \in Exec \ panicked PROVE c \in produced
    <3>1. c \in Calls /\ call[c] \in {"known", "finished", "rejected", "aborted"} /\ c \notin Known
      BY <1>0 DEF Exec, Resolved
    <3>2. call[c] = "finished"
      BY <1>0, <3>1 DEF PhaseInv, InOrder, ResultsKept
    <3> QED  BY <1>0, <2>1, <3>1, <3>2 DEF PhaseInv, ResultsKept
  <2> QED  BY <1>0, <1>2, <2>1
<1>4. TypeOK'
  BY <1>0, <1>2 DEF PhaseInv, TypeOK
<1>5. ActiveApart' /\ QueuedBlocked' /\ InOrder' /\ AskedIsAnswerable'
  BY <1>0, <1>1 DEF PhaseInv, ActiveApart, QueuedBlocked, InOrder, AskedIsAnswerable
<1>6. DriverOrder' /\ ResultsKept' /\ OneOutcomeEach'
  BY <1>0, <1>1, <1>2, <1>3 DEF PhaseInv, DriverOrder, ResultsKept, OneOutcomeEach
<1> QED  BY <1>4, <1>5, <1>6 DEF PhaseInv

(* after one, those without a result are announced. *)
LEMMA DrainedStep ==
  ASSUME PhaseInv, Drained \/ GraceEnds
  PROVE  PhaseInv'
<1>0. /\ driver = "draining" /\ call \in [Calls -> Places]
      /\ driver' = "done" /\ channel' = {} /\ slots' = slots \cup channel /\ told' = Exec \ slots'
      /\ UNCHANGED <<cancelled, pending, answer, panicked, produced>>
  BY DEF Drained, GraceEnds, Ends, Announces, store, PhaseInv, TypeOK
<1>1. /\ call' \in [Calls -> Places]
      /\ \A c \in Calls : /\ call'[c] \in {"known", "finished", "rejected", "aborted"}
                          /\ call[c] = "known" <=> call'[c] = "known"
  <2>0. \A c \in Calls : call[c] # "announced"
    BY <1>0 DEF PhaseInv, DriverOrder
  <2>1. CASE Drained
    BY <1>0, <2>1 DEF Drained, Resolved
  <2>2. CASE GraceEnds
    <3>1. \A c \in Calls : call'[c] = IF c \in Active THEN "aborted"
                                      ELSE IF call[c] = "queued" THEN "rejected" ELSE call[c]
      BY <2>2 DEF GraceEnds, AbortAll, Rejects
    <3>2. call' \in [Calls -> Places]
      BY <1>0, <2>2, <3>1 DEF GraceEnds, AbortAll, Places
    <3>3. \A c \in Calls : call'[c] \in {"known", "finished", "rejected", "aborted"}
      BY <1>0, <2>0, <3>1 DEF Active, Places
    <3> QED  BY <3>1, <3>2, <3>3 DEF Active
  <2> QED  BY <2>1, <2>2
<1>2. Active' = {} /\ Queued' = {} /\ Running' = {}
  BY <1>1 DEF Active, Queued, Running
<1>3. produced' = slots' /\ slots' \subseteq Exec /\ cancelled
  BY <1>0 DEF PhaseInv, TypeOK, ResultsKept, DriverOrder
<1>4. TypeOK'
  BY <1>0, <1>1, <1>3 DEF PhaseInv, TypeOK
<1>5. ActiveApart' /\ QueuedBlocked' /\ InOrder' /\ AskedIsAnswerable'
  BY <1>1, <1>2 DEF PhaseInv, ActiveApart, QueuedBlocked, InOrder, AskedIsAnswerable
<1>6. DriverOrder' /\ ResultsKept' /\ OneOutcomeEach'
  BY <1>0, <1>1, <1>2, <1>3 DEF PhaseInv, DriverOrder, ResultsKept, OneOutcomeEach
<1> QED  BY <1>4, <1>5, <1>6 DEF PhaseInv

-----------------------------------------------------------------------------
(* The user.                                                                  *)

LEMMA CancelStep ==
  ASSUME PhaseInv, Cancel
  PROVE  PhaseInv'
<1>0. /\ driver # "done" /\ cancelled' = TRUE
      /\ UNCHANGED <<call, driver, channel, slots, told, pending, answer, panicked, produced>>
  BY DEF Cancel, store
<1> QED
  BY <1>0 DEF PhaseInv, TypeOK, ActiveApart, QueuedBlocked, InOrder, DriverOrder, ResultsKept,
              OneOutcomeEach, AskedIsAnswerable, Active, Queued, Clash

(* What leaves the store has been answered, if its call still waits. *)
LEMMA AnswerSteps ==
  ASSUME PhaseInv,
         RejectPending \/ \E c \in Calls, d \in {"once", "reject"} : Reply(c, d)
  PROVE  PhaseInv'
<1>0. UNCHANGED <<call, driver, cancelled, channel, slots, told, panicked, produced>>
  BY DEF RejectPending, Reply
<1>1. PICK ids \in SUBSET Calls, d \in {"once", "reject"} :
        /\ Sends(ids, d) /\ pending' = pending \ ids
  <2>1. pending \subseteq Calls
    BY DEF PhaseInv, TypeOK, Exec
  <2>2. CASE RejectPending
    <3>1. Sends(pending, "reject") /\ pending' = pending \ pending
      BY <2>2 DEF RejectPending
    <3> QED  BY <2>1, <3>1
  <2>3. ASSUME NEW c \in Calls, NEW d \in {"once", "reject"}, Reply(c, d)
        PROVE  \E ids \in SUBSET Calls, e \in {"once", "reject"} : Sends(ids, e) /\ pending' = pending \ ids
    <3>1. CASE d = "reject" /\ call[c] = "asking"
      <4>1. Sends(pending, "reject") /\ pending' = pending \ pending
        BY <2>3, <3>1 DEF Reply
      <4> QED  BY <2>1, <4>1
    <3>2. CASE ~(d = "reject" /\ call[c] = "asking")
      <4>1. Sends({c}, d) /\ pending' = pending \ {c}
        BY <2>3, <3>2 DEF Reply
      <4> QED  BY <4>1
    <3> QED  BY <3>1, <3>2
  <2> QED  BY <2>2, <2>3
<1>2. \A c \in Calls : answer'[c] = IF c \in ids /\ call[c] = "asking" THEN d ELSE answer[c]
  BY <1>1 DEF Sends
<1>3. TypeOK'
  <2>1. answer' \in [Calls -> {"none", "once", "reject"}]
    BY <1>1 DEF Sends, PhaseInv, TypeOK
  <2>2. pending' \subseteq Exec
    BY <1>1 DEF PhaseInv, TypeOK
  <2> QED  BY <1>0, <2>1, <2>2 DEF PhaseInv, TypeOK
<1>4. ActiveApart' /\ QueuedBlocked' /\ InOrder' /\ DriverOrder'
  BY <1>0 DEF PhaseInv, ActiveApart, QueuedBlocked, InOrder, DriverOrder, Active, Queued, Clash
<1>5. ResultsKept' /\ OneOutcomeEach'
  BY <1>0 DEF PhaseInv, ResultsKept, OneOutcomeEach, Running, Queued
<1>6. AskedIsAnswerable'
  BY <1>0, <1>1, <1>2 DEF PhaseInv, AskedIsAnswerable
<1> QED  BY <1>3, <1>4, <1>5, <1>6 DEF PhaseInv

-----------------------------------------------------------------------------
(* The invariant holds at the start and is kept by every step.                *)

LEMMA PhaseInit == Init => PhaseInv
<1> SUFFICES ASSUME Init PROVE PhaseInv
  OBVIOUS
<1>1. \A c \in Calls : call[c] = IF c \in Known THEN "known" ELSE "announced"
  BY DEF Init
<1>2. TypeOK
  <2>1. call \in [Calls -> Places]
    BY DEF Init, Places
  <2> QED  BY <2>1 DEF Init, TypeOK
<1>3. Active = {} /\ Queued = {}
  BY <1>1 DEF Active, Queued
<1>4. ActiveApart /\ QueuedBlocked
  BY <1>3 DEF ActiveApart, QueuedBlocked
<1>5. InOrder /\ DriverOrder /\ ResultsKept
  BY <1>1 DEF Init, InOrder, DriverOrder, ResultsKept
<1>6. OneOutcomeEach /\ AskedIsAnswerable
  BY <1>1 DEF Init, OneOutcomeEach, AskedIsAnswerable
<1> QED  BY <1>2, <1>4, <1>5, <1>6 DEF PhaseInv

LEMMA PhaseNext == PhaseInv /\ [Next]_vars => PhaseInv'
<1> SUFFICES ASSUME PhaseInv, [Next]_vars PROVE PhaseInv'
  OBVIOUS
<1>1. ASSUME NEW c \in Calls, TaskStep(c) \/ ToolEnds(c) \/ ToolPanics(c) PROVE PhaseInv'
  BY <1>1, PollStep, EndSteps, FinishCallStep DEF TaskStep
<1>2. CASE DriverStep
  BY <1>2, SubmitStep, WaitSteps, CompleteStep, CancelAllStep, DrainedStep DEF DriverStep
<1>3. CASE UserStep
  BY <1>3, CancelStep, AnswerSteps DEF UserStep
<1>4. CASE UNCHANGED vars
  BY <1>4 DEF vars, store, PhaseInv, TypeOK, ActiveApart, QueuedBlocked, InOrder, DriverOrder,
              ResultsKept, OneOutcomeEach, AskedIsAnswerable, Active, Queued, Running, Clash
<1> QED  BY <1>1, <1>2, <1>3, <1>4 DEF Next

LEMMA PhaseInvariant == Spec => []PhaseInv
BY PhaseInit, PhaseNext, PTL DEF Spec

-----------------------------------------------------------------------------
(* The theorems.                                                              *)

(* The calls, the results and the parked requests keep their types. *)
THEOREM PhaseTypeCorrect == Spec => []TypeOK
<1>1. PhaseInv => TypeOK
  BY DEF PhaseInv
<1> QED  BY <1>1, PhaseInvariant, PTL

(* Whatever ends, panics, is denied or cancelled, no call that runs changes a *)
(* file that another running call has declared to touch, unless one of the    *)
(* calls has declared the tree of the root.                                   *)
THEOREM RunningCallsApart ==
  ASSUME NoRootTree
  PROVE  Spec => []NoClashingFiles
<1>1. PhaseInv => NoClashingFiles
  <2> SUFFICES ASSUME PhaseInv, NEW c \in Running, NEW d \in Running, c # d, NEW path \in Paths
               PROVE  ~(Changes(c, path) /\ Touches(d, path))
    BY DEF NoClashingFiles
  <2>1. c \in Active /\ d \in Active /\ c \in Calls /\ d \in Calls
    BY DEF Running, Active
  <2>2. ~Clash(c, d)
    BY <2>1 DEF PhaseInv, ActiveApart
  <2> QED  BY <2>1, <2>2, FilesApart
<1> QED  BY <1>1, PhaseInvariant, PTL

(* The scan after a call loses no wakeup: the first in the queue waits for a  *)
(* call that is active and whose end will scan the queue again.               *)
THEOREM QueueIsWoken == Spec => []HeadWaitsForActive
<1>1. PhaseInv => HeadWaitsForActive
  <2> SUFFICES ASSUME PhaseInv, NEW c \in Queued, \A d \in Queued : c <= d
               PROVE  \E d \in Active : Clash(d, c)
    BY DEF HeadWaitsForActive
  <2>1. PICK d \in Active \cup {e \in Queued : e < c} : Clash(d, c)
    BY DEF PhaseInv, QueuedBlocked
  <2>2. ~\E e \in Queued : e < c
    BY CallsAssumption DEF Queued
  <2> QED  BY <2>1, <2>2
<1> QED  BY <1>1, PhaseInvariant, PTL

(* The phase ends with exactly one outcome of every call. *)
THEOREM EachCallHasOneOutcome == Spec => []OneOutcomeEach
<1>1. PhaseInv => OneOutcomeEach
  BY DEF PhaseInv
<1> QED  BY <1>1, PhaseInvariant, PTL

(* A call that waits for the user can be reached by a reply or an interrupt. *)
THEOREM WaitingCallsAnswerable == Spec => []AskedIsAnswerable
<1>1. PhaseInv => AskedIsAnswerable
  BY DEF PhaseInv
<1> QED  BY <1>1, PhaseInvariant, PTL
=============================================================================
