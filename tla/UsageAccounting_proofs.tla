----------------------- MODULE UsageAccounting_proofs -----------------------
(***************************************************************************)
(* What is known of the requests, when the task that saves a started       *)
(* request and the write of the usage files are through before the request *)
(* ends (~Overlap): each settled request has an entry of its own in the    *)
(* usage files, a round whose request a crash took is offered for a retry, *)
(* and only a round that was cut off, or that could not save how its       *)
(* request ended, is ever taken for a crashed one.                         *)
(* The types are proved without that order.                                *)
(***************************************************************************)
EXTENDS UsageAccounting, FiniteSetTheorems, WellFoundedInduction, TLAPS

(* The request that is out is the only one in flight; its key is new to the   *)
(* usage files until it is billed, and it is the only one that the file shows *)
(* in flight once the task spawned for it is through.                         *)
OnWire(s) ==
    /\ Working(s) \subseteq 1..MaxRounds
    /\ phase[s] = "asking" => hosted[s]
    /\ phase[s] \in {"waiting", "billing"} =>
          /\ wire[s] \in Keys /\ wire[s][1] = counter[s]
          /\ day[<<s, wire[s]>>] = "none"
    /\ phase[s] = "waiting" =>
          /\ ledger[s][wire[s]] = "inflight"
          /\ saver[s][wire[s]] = NoSave =>
                \A k \in Keys : stored[s][k] = "inflight" <=> k = wire[s]
    /\ phase[s] = "billing" =>
          ledger[s][wire[s]] \in Settled /\ stored[s][wire[s]] # "none"
    /\ \A k \in Keys : ledger[s][k] = "inflight" => phase[s] = "waiting" /\ k = wire[s]

(* A save is under way for that request only, before anyone leaves, and what  *)
(* it writes is what the ledger holds.                                        *)
InTime(s) ==
    \A k \in Keys :
        /\ saver[s][k] # NoSave => phase[s] = "waiting" /\ k = wire[s] /\ hosted[s]
        /\ saver[s][k] \notin {NoSave, Due} => saver[s][k] = ledger[s]

(* What was billed is on file, and what is on file is in a ledger in use.     *)
Known(s) ==
    \A k \in Keys :
        /\ day[<<s, k>>] # "none" => stored[s][k] # "none"
        /\ stored[s][k] # "none" /\ (hosted[s] \/ phase[s] # "idle") => ledger[s][k] # "none"

(* The round whose request is out, or has ended and is not saved yet.         *)
Asked(s) ==
    IF phase[s] \in {"waiting", "billing", "failed", "completed"} THEN {counter[s]} ELSE {}

(* The files show in flight requests of rounds that were cut off or did not   *)
(* save, and of the round in progress.                                        *)
CutOff(s) ==
    /\ ~hosted[s] => Working(s) \subseteq cut[s]
    /\ \A k \in Keys : stored[s][k] = "inflight" =>
          k[1] \in cut[s] \cup unsaved[s] \cup Asked(s)
    /\ residue[s] \subseteq cut[s] \cup unsaved[s]

(* The request that a crash took is still shown in flight, and it is the last *)
(* round's, and alone.                                                        *)
LostOnFile(s) ==
    lost[s] # 0 =>
        /\ lost[s] = counter[s] /\ phase[s] = "idle"
        /\ \E k \in Keys : stored[s][k] = "inflight" /\ k[1] = lost[s]
        /\ \A k \in Keys : stored[s][k] = "inflight" => k[1] = lost[s]
        /\ hosted[s] => retry[s] = lost[s]

Good(s) == OnWire(s) /\ InTime(s) /\ Known(s) /\ CutOff(s) /\ LostOnFile(s)

(* A settled request writes the usage files back as they are, or as empty.    *)
BillsAlone ==
    \A s \in Sessions :
        IF phase[s] = "billing"
        THEN copy[s] \in {day, NoEntries} /\ \A t \in Sessions : phase[t] = "billing" => t = s
        ELSE copy[s] = NoCopy

Billed == {p \in Sessions \X Keys : day[p] # "none"}

Counted == IsFiniteSet(Billed) /\ Cardinality(Billed) = billed

UsageInv == TypeOK /\ (\A s \in Sessions : Good(s)) /\ BillsAlone /\ Counted

-----------------------------------------------------------------------------
(* A bounded set of numbers has a greatest one. *)
LEMMA MaxIsGreatest ==
  ASSUME NEW n \in Nat, NEW S \in SUBSET (0..n), S # {}
  PROVE  Max(S) \in S /\ \A y \in S : y <= Max(S)
<1> DEFINE T == {n - x : x \in S}
           R == OpToRel(<, Nat)
<1>1. T \subseteq Nat /\ T # {}
  <2>1. \A x \in S : n - x \in Nat
    OBVIOUS
  <2>2. T \subseteq Nat
    BY <2>1
  <2>3. PICK x \in S : TRUE
    OBVIOUS
  <2>4. n - x \in T
    BY <2>3
  <2> QED  BY <2>2, <2>4
<1> HIDE DEF T, R
<1>2. PICK m \in T : \A y \in T : ~(<<y, m>> \in R)
  <2>1. IsWellFoundedOn(R, Nat)
    BY NatLessThanWellFounded DEF R
  <2> QED  BY <1>1, <2>1, WFMin
<1>3. \A y \in T : m <= y
  <2> SUFFICES ASSUME NEW y \in T, y < m PROVE FALSE
    BY <1>1, <1>2
  <2>1. <<y, m>> \in Nat \X Nat /\ <<y, m>>[1] = y /\ <<y, m>>[2] = m
    BY <1>1, <1>2
  <2>2. <<y, m>> \in R
    BY <2>1 DEF OpToRel, R
  <2> QED  BY <1>2, <2>2
<1>4. PICK x \in S : m = n - x
  BY <1>2 DEF T
<1>5. \A y \in S : x >= y
  <2> SUFFICES ASSUME NEW y \in S PROVE x >= y
    OBVIOUS
  <2>1. n - x <= n - y
    BY <1>3, <1>4 DEF T
  <2> QED  BY <2>1
<1>6. Max(S) \in S /\ \A y \in S : Max(S) >= y
  BY <1>5 DEF Max
<1> QED  BY <1>6

(* A new attempt has a key the ledger does not know. *)
LEMMA NextIsNew ==
  ASSUME TypeOK, NEW s \in Sessions
  PROVE  NextAttempt(s) \in Nat \ {0} /\ NextAttempt(s) \notin Attempts(s)
<1>1. MaxAttempts \in Nat /\ Attempts(s) \in SUBSET (0..MaxAttempts)
  BY BoundsAssumption DEF Attempts
<1>2. CASE Attempts(s) = {}
  BY <1>2 DEF NextAttempt
<1>3. CASE Attempts(s) # {}
  <2>1. Max(Attempts(s)) \in Attempts(s) /\ \A y \in Attempts(s) : y <= Max(Attempts(s))
    BY <1>1, <1>3, MaxIsGreatest
  <2>2. PICK m \in 0..MaxAttempts : m = Max(Attempts(s))
    BY <1>1, <2>1
  <2>3. NextAttempt(s) = m + 1
    BY <1>3, <2>2 DEF NextAttempt
  <2> QED  BY <1>1, <2>1, <2>2, <2>3
<1> QED  BY <1>2, <1>3

(* What a step leaves of another session. *)
Same(t) ==
    /\ hosted'[t] = hosted[t] /\ phase'[t] = phase[t] /\ counter'[t] = counter[t]
    /\ retry'[t] = retry[t] /\ residue'[t] = residue[t] /\ ledger'[t] = ledger[t]
    /\ stored'[t] = stored[t] /\ wire'[t] = wire[t] /\ saver'[t] = saver[t]
    /\ resumed'[t] = resumed[t] /\ cut'[t] = cut[t] /\ unsaved'[t] = unsaved[t]
    /\ lost'[t] = lost[t]
    /\ \A k \in Keys : day'[<<t, k>>] \in {day[<<t, k>>], "none"}

LEMMA Untouched ==
  ASSUME NEW t \in Sessions, Good(t), Same(t)
  PROVE  Good(t)'
<1>1. OnWire(t)'
  BY DEF Good, OnWire, Working, Same
<1>2. InTime(t)'
  BY DEF Good, InTime, Same
<1>3. Known(t)'
  BY DEF Good, Known, Same
<1>4. CutOff(t)'
  BY DEF Good, CutOff, Working, Asked, Same
<1>5. LostOnFile(t)'
  BY DEF Good, LostOnFile, Same
<1> QED  BY <1>1, <1>2, <1>3, <1>4, <1>5 DEF Good

-----------------------------------------------------------------------------
(* The steps of a round. *)

LEMMA Bounds == MaxRounds \in Nat /\ MaxAttempts \in Nat /\ MaxCrashes \in Nat
                /\ MaxLeaves \in Nat /\ MaxFaults \in Nat
BY BoundsAssumption

LEMMA RoundStep ==
  ASSUME UsageInv, NEW s \in Sessions, Round(s)
  PROVE  UsageInv'
<1>0. /\ TypeOK /\ Good(s) /\ \A t \in Sessions : Good(t)
      /\ counter \in [Sessions -> 0..MaxRounds] /\ retry \in [Sessions -> 0..MaxRounds]
      /\ phase \in [Sessions -> Phases]
      /\ lost \in [Sessions -> 0..MaxRounds] /\ phase[s] = "idle" /\ hosted[s]
      /\ resumed \in [Sessions -> BOOLEAN]
  BY DEF Round, UsageInv, TypeOK
<1>1. /\ UNCHANGED <<residue, stored, day, hosted, ledger, wire, saver, copy, cut, unsaved, billed, bounds>>
      /\ phase' = [phase EXCEPT ![s] = "asking"] /\ lost' = [lost EXCEPT ![s] = 0]
  BY DEF Round
<1>2. /\ counter' \in [Sessions -> 0..MaxRounds] /\ retry' \in [Sessions -> 0..MaxRounds]
      /\ counter'[s] # 0 /\ resumed' \in [Sessions -> BOOLEAN]
      /\ \A t \in Sessions \ {s} :
            counter'[t] = counter[t] /\ retry'[t] = retry[t] /\ resumed'[t] = resumed[t]
  <2>1. CASE /\ counter[s] < MaxRounds /\ counter' = [counter EXCEPT ![s] = @ + 1]
             /\ retry' = [retry EXCEPT ![s] = 0] /\ resumed' = [resumed EXCEPT ![s] = FALSE]
    <3>1. PICK n \in 0..MaxRounds : n = counter[s] + 1 /\ n # 0
      BY <1>0, <2>1, Bounds
    <3>2. counter' = [counter EXCEPT ![s] = n]
      BY <2>1, <3>1
    <3> QED  BY <1>0, <2>1, <3>1, <3>2, Bounds
  <2>2. CASE /\ retry[s] # 0 /\ retry[s] = counter[s] /\ UNCHANGED <<counter, retry>>
             /\ resumed' = [resumed EXCEPT ![s] = TRUE]
    BY <1>0, <2>2, Bounds
  <2> QED  BY <2>1, <2>2 DEF Round
<1>3. TypeOK'
  <2>1. phase' \in [Sessions -> Phases]
    BY <1>0, <1>1 DEF Phases
  <2>2. lost' \in [Sessions -> 0..MaxRounds]
    BY <1>0, <1>1, Bounds
  <2> QED  BY <1>0, <1>1, <1>2, <2>1, <2>2 DEF TypeOK, bounds
<1>4. \A t \in Sessions \ {s} : Good(t)'
  <2>1. \A t \in Sessions \ {s} : Same(t)
    BY <1>0, <1>1, <1>2 DEF Same
  <2> QED  BY <1>0, <2>1, Untouched
<1>5. Good(s)'
  <2>a. counter[s] \in 0..MaxRounds /\ counter'[s] \in 0..MaxRounds
    BY <1>0, <1>2
  <2>0. phase'[s] = "asking" /\ lost'[s] = 0 /\ counter'[s] \in 1..MaxRounds
    BY <1>0, <1>1, <1>2, <2>a, Bounds
  <2>1. OnWire(s)'
    BY <1>0, <1>1, <2>0 DEF Good, OnWire, Working
  <2>2. InTime(s)'
    BY <1>0, <1>1, <2>0 DEF Good, InTime
  <2>3. Known(s)'
    BY <1>0, <1>1, <2>0 DEF Good, Known
  <2>4. CutOff(s)' /\ LostOnFile(s)'
    BY <1>0, <1>1, <2>0 DEF Good, CutOff, Working, Asked, LostOnFile
  <2> QED  BY <2>1, <2>2, <2>3, <2>4 DEF Good
<1>6. BillsAlone'
  BY <1>0, <1>1 DEF UsageInv, BillsAlone
<1>7. Counted'
  BY <1>1 DEF UsageInv, Counted, Billed
<1> QED  BY <1>3, <1>4, <1>5, <1>6, <1>7 DEF UsageInv

LEMMA RequestStep ==
  ASSUME UsageInv, NEW s \in Sessions, Request(s)
  PROVE  UsageInv'
<1> DEFINE k == <<counter[s], NextAttempt(s)>>
<1>0. /\ TypeOK /\ Good(s) /\ (\A t \in Sessions : Good(t)) /\ phase[s] = "asking" /\ hosted[s]
      /\ phase \in [Sessions -> Phases]
      /\ ledger \in [Sessions -> [Keys -> Status]] /\ wire \in [Sessions -> Keys \cup {NoKey}]
      /\ saver \in [Sessions -> [Keys -> Records \cup {NoSave, Due}]]
  BY DEF Request, UsageInv, TypeOK, Good, OnWire, Records
<1>a. /\ k \in Keys /\ ledger[s][k] = "none" /\ k[1] = counter[s] /\ counter[s] \in 1..MaxRounds
  <2>1. NextAttempt(s) \in 1..MaxAttempts /\ NextAttempt(s) \notin Attempts(s)
    BY <1>0, NextIsNew, Bounds DEF Request
  <2>2. counter[s] \in 1..MaxRounds
    BY <1>0 DEF Good, OnWire, Working
  <2> QED  BY <1>0, <2>1, <2>2, Bounds DEF Keys, Attempts
<1>1. /\ UNCHANGED <<files, hosted, resumed, copy, history, bounds>>
      /\ phase' = [phase EXCEPT ![s] = "waiting"] /\ wire' = [wire EXCEPT ![s] = k]
      /\ ledger' = [ledger EXCEPT ![s][k] = "inflight"] /\ saver' = [saver EXCEPT ![s][k] = Due]
  BY DEF Request
<1> HIDE DEF k
<1>2. /\ ledger'[s] \in Records /\ ledger'[s][k] = "inflight"
      /\ \A j \in Keys \ {k} : ledger'[s][j] = ledger[s][j]
      /\ saver'[s] \in [Keys -> Records \cup {NoSave, Due}] /\ saver'[s][k] = Due
      /\ \A j \in Keys \ {k} : saver'[s][j] = saver[s][j]
      /\ phase'[s] = "waiting" /\ wire'[s] = k
  BY <1>0, <1>1, <1>a DEF Records, Status
<1>3. TypeOK'
  BY <1>0, <1>1, <1>2, <1>a DEF TypeOK, files, history, bounds, Records, Phases
<1>4. \A t \in Sessions \ {s} : Good(t)'
  <2>1. \A t \in Sessions \ {s} : Same(t)
    BY <1>0, <1>1 DEF Same, files, history
  <2> QED  BY <1>0, <2>1, Untouched
<1>5. Good(s)'
  <2>0. /\ stored[s][k] = "none" /\ day[<<s, k>>] = "none"
        /\ \A j \in Keys : saver[s][j] = NoSave
        /\ \A j \in Keys : ledger[s][j] # "inflight"
    BY <1>0, <1>a DEF Good, Known, InTime, OnWire
  <2>a. Due # NoSave
    BY <1>a DEF Due, NoSave
  <2>1. OnWire(s)'
    BY <1>0, <1>1, <1>2, <1>a, <2>0, <2>a DEF Good, OnWire, Working, files
  <2>2. InTime(s)'
    BY <1>0, <1>1, <1>2, <1>a, <2>0, <2>a DEF InTime
  <2>3. Known(s)'
    BY <1>0, <1>1, <1>2, <1>a DEF Good, Known, files
  <2>4. CutOff(s)' /\ LostOnFile(s)'
    BY <1>0, <1>1, <1>2 DEF Good, CutOff, Working, Asked, LostOnFile, files, history
  <2> QED  BY <2>1, <2>2, <2>3, <2>4 DEF Good
<1>6. BillsAlone'
  BY <1>0, <1>1 DEF UsageInv, BillsAlone, files
<1>7. Counted'
  BY <1>1 DEF UsageInv, Counted, Billed, files, history
<1> QED  BY <1>3, <1>4, <1>5, <1>6, <1>7 DEF UsageInv

LEMMA EndsStep ==
  ASSUME ~Overlap, UsageInv, NEW s \in Sessions, NEW count \in Settled, Ends(s, count)
  PROVE  UsageInv'
<1> DEFINE k == wire[s]
<1>0. /\ TypeOK /\ Good(s) /\ (\A t \in Sessions : Good(t)) /\ phase[s] = "waiting"
      /\ (\A j \in Keys : saver[s][j] = NoSave) /\ (\A t \in Sessions : copy[t] = NoCopy)
      /\ phase \in [Sessions -> Phases]
      /\ ledger \in [Sessions -> [Keys -> Status]]
      /\ copy \in [Sessions -> [Sessions \X Keys -> {"none", "unread"} \cup Settled]]
      /\ day \in [Sessions \X Keys -> {"none"} \cup Settled] /\ faults \in 0..MaxFaults
  BY DEF Ends, UsageInv, TypeOK, Records
<1>a. /\ k \in Keys /\ ledger[s][k] = "inflight" /\ stored[s][k] = "inflight"
      /\ day[<<s, k>>] = "none" /\ k[1] = counter[s]
  BY <1>0 DEF Good, OnWire
<1>b. Settle(ledger[s][k], count) = count
  BY <1>a DEF Settle
<1>c. PICK read \in {day, NoEntries} :
        /\ copy' = [copy EXCEPT ![s] = read]
        /\ UNCHANGED faults \/ Fault
  BY DEF Ends
<1>1. /\ UNCHANGED <<files, hosted, resumed, wire, saver, history, crashes, leaves>>
      /\ phase' = [phase EXCEPT ![s] = "billing"] /\ copy' = [copy EXCEPT ![s] = read]
      /\ ledger' = [ledger EXCEPT ![s][k] = count]
      /\ faults' \in 0..MaxFaults
  BY <1>0, <1>b, <1>c, Bounds DEF Ends, Fault
<1> HIDE DEF k
<1>2. /\ ledger'[s] \in Records /\ ledger'[s][k] = count
      /\ \A j \in Keys \ {k} : ledger'[s][j] = ledger[s][j]
      /\ phase'[s] = "billing"
  BY <1>0, <1>1, <1>a DEF Records, Status, Settled
<1>3. TypeOK'
  <2>1. phase' \in [Sessions -> Phases]
    BY <1>0, <1>1 DEF Phases
  <2>2. ledger' \in [Sessions -> Records]
    BY <1>0, <1>1, <1>2 DEF Records
  <2>3. copy' \in [Sessions -> [Sessions \X Keys -> {"none", "unread"} \cup Settled]]
    <3>1. read \in [Sessions \X Keys -> {"none", "unread"} \cup Settled]
      BY <1>0, <1>c DEF NoEntries
    <3> QED  BY <1>0, <1>1, <3>1
  <2> QED  BY <1>0, <1>1, <2>1, <2>2, <2>3 DEF TypeOK, files, history, bounds
<1>4. \A t \in Sessions \ {s} : Good(t)'
  <2>1. \A t \in Sessions \ {s} : Same(t)
    BY <1>0, <1>1 DEF Same, files, history
  <2> QED  BY <1>0, <2>1, Untouched
<1>5. Good(s)'
  <2>1. OnWire(s)'
    BY <1>0, <1>1, <1>2, <1>a DEF Good, OnWire, Working, files, Settled, k
  <2>2. InTime(s)'
    BY <1>0, <1>1 DEF InTime
  <2>3. Known(s)'
    BY <1>0, <1>1, <1>2, <1>a DEF Good, Known, files, Settled
  <2>4. CutOff(s)' /\ LostOnFile(s)'
    BY <1>0, <1>1, <1>2 DEF Good, CutOff, Working, Asked, LostOnFile, files, history
  <2> QED  BY <2>1, <2>2, <2>3, <2>4 DEF Good
<1>6. BillsAlone'
  <2>1. read # NoCopy
    <3>1. read[<<s, k>>] # NoCopy[<<s, k>>]
      BY <1>a, <1>c DEF NoCopy, NoEntries
    <3> QED  BY <3>1
  <2>2. \A t \in Sessions : phase[t] # "billing"
    <3>1. NoCopy \notin {day, NoEntries}
      <4>1. day[<<s, k>>] # NoCopy[<<s, k>>] /\ NoEntries[<<s, k>>] # NoCopy[<<s, k>>]
        BY <1>a DEF NoCopy, NoEntries
      <4> QED  BY <4>1
    <3> QED  BY <1>0, <3>1 DEF UsageInv, BillsAlone
  <2>3. day' = day
    BY <1>1 DEF files
  <2>4. copy'[s] = read /\ phase'[s] = "billing"
        /\ \A t \in Sessions \ {s} : copy'[t] = NoCopy /\ phase'[t] # "billing"
    BY <1>0, <1>1, <2>2
  <2> QED  BY <1>c, <2>3, <2>4 DEF BillsAlone
<1>7. Counted'
  BY <1>1 DEF UsageInv, Counted, Billed, files, history
<1> QED  BY <1>3, <1>4, <1>5, <1>6, <1>7 DEF UsageInv

LEMMA BillsStep ==
  ASSUME UsageInv, NEW s \in Sessions, Bills(s)
  PROVE  UsageInv'
<1> DEFINE k == wire[s]
           p == <<s, wire[s]>>
<1>0. /\ TypeOK /\ Good(s) /\ (\A t \in Sessions : Good(t)) /\ phase[s] = "billing"
      /\ phase \in [Sessions -> Phases]
      /\ wire \in [Sessions -> Keys \cup {NoKey}] /\ billed \in Nat /\ faults \in 0..MaxFaults
      /\ copy \in [Sessions -> [Sessions \X Keys -> {"none", "unread"} \cup Settled]]
      /\ day \in [Sessions \X Keys -> {"none"} \cup Settled]
  BY DEF Bills, UsageInv, TypeOK
<1>a. /\ k \in Keys /\ ledger[s][k] \in Settled /\ stored[s][k] # "none" /\ p \in Sessions \X Keys
      /\ day[p] = "none" /\ k[1] = counter[s] /\ copy[s] \in {day, NoEntries}
      /\ \A t \in Sessions : phase[t] = "billing" => t = s
  BY <1>0 DEF Good, OnWire, UsageInv, BillsAlone
<1>1. /\ UNCHANGED <<counter, retry, residue, stored, hosted, resumed, ledger, saver, cut, unsaved,
                      lost, crashes, leaves>>
      /\ copy' = [copy EXCEPT ![s] = NoCopy] /\ wire' = [wire EXCEPT ![s] = NoKey]
      /\ faults' \in 0..MaxFaults
  BY <1>0, Bounds DEF Bills, Fault
<1>b. \/ /\ day' = [copy[s] EXCEPT ![p] = ledger[s][k]]
         /\ billed' = IF copy[s] = NoEntries THEN 1 ELSE billed + 1
      \/ UNCHANGED <<day, billed>>
  <2>1. copy[s][p] = "none"
    BY <1>a DEF NoEntries
  <2>2. Upsert(copy[s][p], ledger[s][k]) = ledger[s][k]
    BY <2>1 DEF Upsert
  <2> QED  BY <2>2 DEF Bills
<1>2. PICK outcome \in {"failed", "completed"} : phase' = [phase EXCEPT ![s] = outcome]
  BY DEF Bills
<1>c. /\ copy[s] \in [Sessions \X Keys -> {"none"} \cup Settled]
      /\ \A q \in Sessions \X Keys : copy[s][q] \in {day[q], "none"}
  BY <1>0, <1>a DEF NoEntries
<1>3. NoCopy \in [Sessions \X Keys -> {"none", "unread"} \cup Settled]
  BY DEF NoCopy
<1> HIDE DEF k, p
<1>4. TypeOK'
  <2>1. phase' \in [Sessions -> Phases]
    BY <1>0, <1>2 DEF Phases
  <2>2. copy' \in [Sessions -> [Sessions \X Keys -> {"none", "unread"} \cup Settled]]
    BY <1>0, <1>1, <1>3
  <2>3. wire' \in [Sessions -> Keys \cup {NoKey}]
    BY <1>0, <1>1
  <2>4. day' \in [Sessions \X Keys -> {"none"} \cup Settled] /\ billed' \in Nat
    BY <1>0, <1>a, <1>b, <1>c
  <2> QED  BY <1>0, <1>1, <2>1, <2>2, <2>3, <2>4 DEF TypeOK
<1>5. \A t \in Sessions \ {s} : Good(t)'
  <2>1. \A t \in Sessions \ {s} : Same(t)
    <3> SUFFICES ASSUME NEW t \in Sessions \ {s} PROVE Same(t)
      OBVIOUS
    <3>1. \A j \in Keys : <<t, j>> \in Sessions \X Keys /\ <<t, j>> # p
      BY DEF p
    <3>2. \A j \in Keys : day'[<<t, j>>] \in {day[<<t, j>>], "none"}
      BY <1>0, <1>a, <1>b, <1>c, <3>1
    <3>3. phase'[t] = phase[t] /\ wire'[t] = wire[t]
      BY <1>0, <1>1, <1>2
    <3> QED  BY <1>1, <3>2, <3>3 DEF Same
  <2> QED  BY <1>0, <2>1, Untouched
<1>6. Good(s)'
  <2>0. phase'[s] \in {"failed", "completed"} /\ wire'[s] = NoKey
    BY <1>0, <1>1, <1>2
  <2>a. \A j \in Keys : <<s, j>> \in Sessions \X Keys /\ (j # k => <<s, j>> # p)
    BY DEF p, k
  <2>b. \A j \in Keys \ {k} : day'[<<s, j>>] \in {day[<<s, j>>], "none"}
    BY <1>0, <1>a, <1>b, <1>c, <2>a
  <2>1. OnWire(s)'
    BY <1>0, <1>1, <2>0 DEF Good, OnWire, Working
  <2>2. InTime(s)'
    BY <1>0, <1>1 DEF Good, InTime
  <2>3. Known(s)'
    BY <1>0, <1>1, <1>a, <2>0, <2>b DEF Good, Known
  <2>4. CutOff(s)' /\ LostOnFile(s)'
    BY <1>0, <1>1, <2>0 DEF Good, CutOff, Working, Asked, LostOnFile
  <2> QED  BY <2>1, <2>2, <2>3, <2>4 DEF Good
<1>7. BillsAlone'
  <2>1. phase'[s] # "billing" /\ \A t \in Sessions : phase'[t] # "billing"
    BY <1>0, <1>2, <1>a
  <2>2. \A t \in Sessions : copy'[t] = NoCopy
    BY <1>0, <1>1, <1>a DEF UsageInv, BillsAlone
  <2> QED  BY <2>1, <2>2 DEF BillsAlone
<1>8. Counted'
  <2>0. IsFiniteSet(Billed) /\ Cardinality(Billed) = billed
    BY DEF UsageInv, Counted
  <2>1. CASE UNCHANGED <<day, billed>>
    BY <2>0, <2>1 DEF Counted, Billed
  <2>2. CASE /\ day' = [copy[s] EXCEPT ![p] = ledger[s][k]]
             /\ billed' = IF copy[s] = NoEntries THEN 1 ELSE billed + 1
    <3> DEFINE B == {q \in Sessions \X Keys : copy[s][q] # "none"}
    <3>1. Billed' = B \cup {p}
      <4>1. \A q \in Sessions \X Keys : day'[q] # "none" <=> copy[s][q] # "none" \/ q = p
        BY <1>a, <1>c, <2>2 DEF Settled
      <4> QED  BY <1>a, <4>1 DEF Billed
    <3>2. p \notin B
      BY <1>a, <1>c
    <3>3. IsFiniteSet(B) /\ billed' = Cardinality(B) + 1
      <4>1. CASE copy[s] = NoEntries
        <5>1. B = {}
          BY <4>1 DEF NoEntries
        <5> QED  BY <2>2, <4>1, <5>1, FS_EmptySet
      <4>2. CASE copy[s] # NoEntries
        <5>1. B = Billed
          BY <1>a, <4>2 DEF Billed
        <5> QED  BY <2>0, <2>2, <4>2, <5>1
      <4> QED  BY <4>1, <4>2
    <3> HIDE DEF B
    <3>4. IsFiniteSet(B \cup {p}) /\ Cardinality(B \cup {p}) = Cardinality(B) + 1
      BY <3>2, <3>3, FS_AddElement
    <3> QED  BY <3>1, <3>3, <3>4 DEF Counted
  <2> QED  BY <1>b, <2>1, <2>2
<1> QED  BY <1>4, <1>5, <1>6, <1>7, <1>8 DEF UsageInv

(* The three marks of a save are told apart where there is a key. *)
LEMMA Marks ==
  ASSUME NEW k \in Keys, NEW r \in Records
  PROVE  Due # NoSave /\ r # NoSave /\ r # Due
<1>1. Due[k] = "due" /\ NoSave[k] = "saved" /\ r[k] \in Status
  BY DEF Due, NoSave, Records
<1> QED  BY <1>1 DEF Status, Settled

(* What saving the records of a settled request leaves in the files.          *)
LEMMA PersistsStep ==
  ASSUME UsageInv, NEW s \in Sessions, NEW ok \in BOOLEAN, Persists(s, ok),
         phase[s] \notin {"idle", "waiting", "billing"}
  PROVE  /\ stored' \in [Sessions -> Records]
         /\ unsaved' \in [Sessions -> SUBSET (1..MaxRounds)] /\ faults' \in 0..MaxFaults
         /\ \A t \in Sessions \ {s} : stored'[t] = stored[t] /\ unsaved'[t] = unsaved[t]
         /\ unsaved[s] \subseteq unsaved'[s]
         /\ \A k \in Keys : /\ stored[s][k] # "none" => stored'[s][k] # "none"
                            /\ stored'[s][k] # "none" => ledger[s][k] # "none"
                            /\ stored'[s][k] = "inflight" => k[1] \in cut[s] \cup unsaved'[s]
<1>0. /\ TypeOK /\ Good(s) /\ ledger \in [Sessions -> Records] /\ stored \in [Sessions -> Records]
      /\ unsaved \in [Sessions -> SUBSET (1..MaxRounds)] /\ faults \in 0..MaxFaults
  BY DEF UsageInv, TypeOK
<1>1. /\ \A k \in Keys : ledger[s][k] # "inflight"
      /\ \A k \in Keys : stored[s][k] # "none" => ledger[s][k] # "none"
      /\ \A k \in Keys : stored[s][k] = "inflight" => k[1] \in cut[s] \cup unsaved[s] \cup Working(s)
      /\ Working(s) \subseteq 1..MaxRounds /\ (~hosted[s] => Working(s) \subseteq cut[s])
  <2>1. Asked(s) \subseteq Working(s)
    BY DEF Asked, Working
  <2> QED  BY <1>0, <2>1 DEF Good, OnWire, Known, CutOff
<1>2. CASE ok /\ hosted[s]
  <2>1. Accepted(s, ledger[s])
    BY <1>1, <1>2 DEF Accepted
  <2>2. stored' = [stored EXCEPT ![s] = ledger[s]] /\ UNCHANGED <<unsaved, faults>>
    BY <1>2, <2>1 DEF Persists, SaveAtEnd, Save
  <2> QED  BY <1>0, <1>1, <2>2
<1>3. CASE ok /\ ~hosted[s]
  <2>1. UNCHANGED <<stored, unsaved, faults>>
    BY <1>3 DEF Persists, SaveAtEnd, Save, Accepted
  <2> QED  BY <1>0, <1>1, <1>3, <2>1
<1>4. CASE ~ok
  <2>1. /\ UNCHANGED stored /\ unsaved' = [unsaved EXCEPT ![s] = unsaved[s] \cup Working(s)]
        /\ faults < MaxFaults /\ faults' = faults + 1
    BY <1>4 DEF Persists, Fault
  <2> HIDE DEF Working
  <2>2. faults' \in 0..MaxFaults
    BY <1>0, <2>1, Bounds
  <2> QED  BY <1>0, <1>1, <2>1, <2>2
<1> QED  BY <1>2, <1>3, <1>4

(* A step that a round takes when its request is settled and billed.          *)
LEMMA AfterTheRequest ==
  ASSUME UsageInv, TypeOK', NEW s \in Sessions,
         phase[s] \notin {"idle", "waiting", "billing"},
         phase'[s] \in {"idle", "asking", "stopped", "unsent"},
         phase'[s] = "asking" => hosted[s],
         UNCHANGED <<residue, day, hosted, resumed, ledger, wire, saver, copy, cut, lost, billed>>,
         \A t \in Sessions \ {s} :
            /\ phase'[t] = phase[t] /\ counter'[t] = counter[t] /\ retry'[t] = retry[t]
            /\ stored'[t] = stored[t] /\ unsaved'[t] = unsaved[t],
         Working(s)' \subseteq Working(s), unsaved[s] \subseteq unsaved'[s],
         \A k \in Keys : /\ stored[s][k] # "none" => stored'[s][k] # "none"
                         /\ stored'[s][k] # "none" => ledger[s][k] # "none"
                         /\ stored'[s][k] = "inflight" => k[1] \in cut[s] \cup unsaved'[s]
  PROVE  UsageInv'
<1>0. (\A t \in Sessions : Good(t)) /\ Good(s)
  BY DEF UsageInv
<1>1. \A t \in Sessions \ {s} : Good(t)'
  <2>1. \A t \in Sessions \ {s} : Same(t)
    BY DEF Same
  <2> QED  BY <1>0, <2>1, Untouched
<1>2. OnWire(s)' /\ InTime(s)'
  BY <1>0 DEF Good, OnWire, InTime
<1>3. Known(s)'
  BY <1>0 DEF Good, Known
<1>4. CutOff(s)'
  BY <1>0 DEF Good, CutOff, Asked
<1>5. LostOnFile(s)'
  BY <1>0 DEF Good, LostOnFile
<1>6. Good(s)'
  BY <1>2, <1>3, <1>4, <1>5 DEF Good
<1>7. BillsAlone'
  <2>1. \A t \in Sessions : phase'[t] = "billing" <=> phase[t] = "billing"
    OBVIOUS
  <2> QED  BY <2>1 DEF UsageInv, BillsAlone
<1>8. Counted'
  BY DEF UsageInv, Counted, Billed
<1> QED  BY <1>1, <1>6, <1>7, <1>8 DEF UsageInv

LEMMA FailsStep ==
  ASSUME UsageInv, NEW s \in Sessions, Fails(s)
  PROVE  UsageInv'
<1>0. TypeOK /\ phase[s] = "failed" /\ phase \in [Sessions -> Phases]
  BY DEF Fails, UsageInv, TypeOK
<1>1. PICK ok \in BOOLEAN : Persists(s, ok)
  BY DEF Fails
<1>2. UNCHANGED <<counter, retry, residue, day, hosted, resumed, ledger, wire, saver, copy, cut,
                  lost, billed, crashes, leaves>>
  BY DEF Fails
<1>3. /\ phase' \in [Sessions -> Phases] /\ phase'[s] \in {"idle", "asking", "stopped"}
      /\ phase'[s] = "asking" => hosted[s]
      /\ \A t \in Sessions \ {s} : phase'[t] = phase[t]
  BY <1>0 DEF Fails, Phases
<1>4. TypeOK'
  BY <1>0, <1>1, <1>2, <1>3, PersistsStep DEF TypeOK
<1>5. Working(s)' \subseteq Working(s)
  BY <1>0, <1>2, <1>3 DEF Working
<1> QED  BY <1>0, <1>1, <1>2, <1>3, <1>4, <1>5, PersistsStep, AfterTheRequest

LEMMA UnsendsStep ==
  ASSUME UsageInv, NEW s \in Sessions, Unsends(s)
  PROVE  UsageInv'
<1>0. /\ TypeOK /\ Good(s) /\ phase[s] = "stopped" /\ hosted[s] /\ phase \in [Sessions -> Phases]
      /\ counter \in [Sessions -> 0..MaxRounds] /\ retry \in [Sessions -> 0..MaxRounds]
  BY DEF Unsends, UsageInv, TypeOK
<1> DEFINE n == IF resumed[s] THEN counter[s] ELSE counter[s] - 1
<1>1. /\ UNCHANGED <<residue, stored, day, hosted, resumed, ledger, wire, saver, copy, history, bounds>>
      /\ phase' = [phase EXCEPT ![s] = "unsent"] /\ counter' = [counter EXCEPT ![s] = n]
      /\ retry' = [retry EXCEPT ![s] = 0]
  BY DEF Unsends
<1>2. counter[s] \in 1..MaxRounds /\ n \in 0..MaxRounds
  BY <1>0, Bounds DEF Good, OnWire, Working
<1>3. Working(s)' = Working(s)
  BY <1>0, <1>1, <1>2, Bounds DEF Working
<1> HIDE DEF n
<1>4. TypeOK'
  BY <1>0, <1>1, <1>2, Bounds DEF TypeOK, history, bounds, Phases
<1>5. /\ phase'[s] = "unsent"
      /\ \A t \in Sessions \ {s} :
            phase'[t] = phase[t] /\ counter'[t] = counter[t] /\ retry'[t] = retry[t]
  BY <1>0, <1>1
<1>6. \A k \in Keys : /\ stored[s][k] # "none" => ledger[s][k] # "none"
                      /\ stored[s][k] = "inflight" => k[1] \in cut[s] \cup unsaved[s]
  BY <1>0 DEF Good, Known, CutOff, Asked
<1> QED  BY <1>0, <1>1, <1>3, <1>4, <1>5, <1>6, AfterTheRequest DEF history

LEMMA ConcludesStep ==
  ASSUME UsageInv, NEW s \in Sessions, Concludes(s)
  PROVE  UsageInv'
<1>0. /\ TypeOK /\ phase[s] \in {"stopped", "unsent", "completed"} /\ phase \in [Sessions -> Phases]
      /\ counter \in [Sessions -> 0..MaxRounds] /\ retry \in [Sessions -> 0..MaxRounds]
  BY DEF Concludes, UsageInv, TypeOK
<1>1. PICK ok \in BOOLEAN :
        /\ Persists(s, ok)
        /\ retry' = IF ~ok \/ ~hosted[s] THEN retry
                    ELSE [retry EXCEPT ![s] = IF phase[s] = "stopped" THEN counter[s] ELSE 0]
  BY DEF Concludes
<1>2. /\ UNCHANGED <<counter, residue, day, hosted, resumed, ledger, wire, saver, copy, cut, lost,
                     billed, crashes, leaves>>
      /\ phase' = [phase EXCEPT ![s] = "idle"]
  BY DEF Concludes
<1>3. /\ phase' \in [Sessions -> Phases] /\ phase'[s] = "idle"
      /\ \A t \in Sessions \ {s} : phase'[t] = phase[t]
  BY <1>0, <1>2 DEF Phases
<1>4. retry' \in [Sessions -> 0..MaxRounds] /\ \A t \in Sessions \ {s} : retry'[t] = retry[t]
  <2> DEFINE n == IF phase[s] = "stopped" THEN counter[s] ELSE 0
  <2>1. n \in 0..MaxRounds
    BY <1>0, Bounds
  <2>2. retry' = retry \/ retry' = [retry EXCEPT ![s] = n]
    BY <1>1
  <2> HIDE DEF n
  <2> QED  BY <1>0, <2>1, <2>2
<1>a. /\ stored' \in [Sessions -> Records] /\ faults' \in 0..MaxFaults
      /\ unsaved' \in [Sessions -> SUBSET (1..MaxRounds)]
  BY <1>0, <1>1, PersistsStep
<1>5. TypeOK'
  BY <1>0, <1>2, <1>3, <1>4, <1>a DEF TypeOK
<1>6. Working(s)' \subseteq Working(s)
  BY <1>3 DEF Working
<1> QED  BY <1>0, <1>1, <1>2, <1>3, <1>4, <1>5, <1>6, PersistsStep, AfterTheRequest

LEMMA BreaksOffStep ==
  ASSUME UsageInv, NEW s \in Sessions, BreaksOff(s)
  PROVE  UsageInv'
<1>0. /\ TypeOK /\ Good(s) /\ phase[s] \in {"asking", "failed", "stopped", "unsent", "completed"}
      /\ phase \in [Sessions -> Phases] /\ faults \in 0..MaxFaults
      /\ unsaved \in [Sessions -> SUBSET (1..MaxRounds)]
  BY DEF BreaksOff, UsageInv, TypeOK
<1> DEFINE more == IF phase[s] \in {"failed", "completed"} THEN Working(s) ELSE {}
<1>1. /\ UNCHANGED <<files, hosted, resumed, ledger, wire, saver, copy, cut, lost, billed, crashes, leaves>>
      /\ phase' = [phase EXCEPT ![s] = "idle"]
      /\ unsaved' = [unsaved EXCEPT ![s] = unsaved[s] \cup more]
      /\ faults < MaxFaults /\ faults' = faults + 1
  BY <1>0 DEF BreaksOff, Fault
<1>2. more \subseteq 1..MaxRounds /\ Asked(s) \subseteq more
  BY <1>0 DEF Good, OnWire, Asked, Working
<1> HIDE DEF more
<1>3. /\ phase' \in [Sessions -> Phases] /\ phase'[s] = "idle"
      /\ \A t \in Sessions \ {s} : phase'[t] = phase[t]
  BY <1>0, <1>1 DEF Phases
<1>4. /\ unsaved' \in [Sessions -> SUBSET (1..MaxRounds)] /\ unsaved'[s] = unsaved[s] \cup more
      /\ \A t \in Sessions \ {s} : unsaved'[t] = unsaved[t]
      /\ faults' \in 0..MaxFaults
  <2>1. unsaved[s] \cup more \in SUBSET (1..MaxRounds)
    BY <1>0, <1>2
  <2>2. faults' \in 0..MaxFaults
    BY <1>0, <1>1, Bounds
  <2> QED  BY <1>0, <1>1, <2>1, <2>2
<1>5. TypeOK'
  BY <1>0, <1>1, <1>3, <1>4 DEF TypeOK, files
<1>6. Working(s)' \subseteq Working(s)
  BY <1>3 DEF Working
<1>7. \A k \in Keys : /\ stored[s][k] # "none" => ledger[s][k] # "none"
                      /\ stored[s][k] = "inflight" => k[1] \in cut[s] \cup unsaved'[s]
  BY <1>0, <1>2, <1>4 DEF Good, Known, CutOff
<1> QED  BY <1>0, <1>1, <1>3, <1>4, <1>5, <1>6, <1>7, AfterTheRequest DEF files

LEMMA SaverReadsStep ==
  ASSUME UsageInv, NEW s \in Sessions, NEW k \in Keys, SaverReads(s, k)
  PROVE  UsageInv'
<1>0. /\ TypeOK /\ Good(s) /\ (\A t \in Sessions : Good(t)) /\ saver[s][k] = Due
      /\ saver \in [Sessions -> [Keys -> Records \cup {NoSave, Due}]]
      /\ ledger[s] \in Records
  BY DEF SaverReads, UsageInv, TypeOK
<1>1. /\ UNCHANGED <<files, hosted, phase, resumed, ledger, wire, copy, history, bounds>>
      /\ saver' = [saver EXCEPT ![s][k] = ledger[s]]
  BY DEF SaverReads
<1>2. ledger[s] # NoSave /\ Due # NoSave
  BY <1>0, Marks
<1>3. /\ saver' \in [Sessions -> [Keys -> Records \cup {NoSave, Due}]]
      /\ saver'[s][k] = ledger[s] /\ \A j \in Keys \ {k} : saver'[s][j] = saver[s][j]
      /\ \A t \in Sessions \ {s} : saver'[t] = saver[t]
  BY <1>0, <1>1
<1>4. TypeOK'
  BY <1>0, <1>1, <1>3 DEF TypeOK, files, history, bounds
<1>5. \A t \in Sessions \ {s} : Good(t)'
  <2>1. \A t \in Sessions \ {s} : Same(t)
    BY <1>1, <1>3 DEF Same, files, history
  <2> QED  BY <1>0, <2>1, Untouched
<1>6. Good(s)'
  <2>0. phase[s] = "waiting" /\ k = wire[s] /\ hosted[s]
    BY <1>0, <1>2 DEF Good, InTime
  <2>1. OnWire(s)'
    BY <1>0, <1>1, <1>2, <1>3, <2>0 DEF Good, OnWire, Working, files
  <2>2. InTime(s)'
    BY <1>0, <1>1, <1>3, <2>0 DEF Good, InTime
  <2>3. Known(s)'
    BY <1>0, <1>1 DEF Good, Known, files
  <2>4. CutOff(s)' /\ LostOnFile(s)'
    BY <1>0, <1>1 DEF Good, CutOff, Working, Asked, LostOnFile, files, history
  <2> QED  BY <2>1, <2>2, <2>3, <2>4 DEF Good
<1>7. BillsAlone'
  BY <1>1 DEF UsageInv, BillsAlone, files
<1>8. Counted'
  BY <1>1 DEF UsageInv, Counted, Billed, files, history
<1> QED  BY <1>4, <1>5, <1>6, <1>7, <1>8 DEF UsageInv

LEMMA SaverWritesStep ==
  ASSUME ~Overlap, UsageInv, NEW s \in Sessions, NEW k \in Keys, SaverWrites(s, k)
  PROVE  UsageInv'
<1>0. /\ TypeOK /\ Good(s) /\ (\A t \in Sessions : Good(t)) /\ saver[s][k] \notin {NoSave, Due}
      /\ saver \in [Sessions -> [Keys -> Records \cup {NoSave, Due}]]
      /\ ledger[s] \in Records /\ stored \in [Sessions -> Records] /\ counter[s] \in Nat
  BY Bounds DEF SaverWrites, UsageInv, TypeOK
<1>a. phase[s] = "waiting" /\ k = wire[s] /\ hosted[s] /\ saver[s][k] = ledger[s]
  BY <1>0 DEF Good, InTime
<1>b. Accepted(s, ledger[s])
  BY <1>0, <1>a DEF Accepted, Good, Known
<1>1. /\ UNCHANGED <<counter, retry, residue, day, hosted, phase, resumed, ledger, wire, copy,
                      history, bounds>>
      /\ saver' = [saver EXCEPT ![s][k] = NoSave] /\ stored' = [stored EXCEPT ![s] = ledger[s]]
  BY <1>a, <1>b DEF SaverWrites, Save, bounds
<1>3. /\ saver' \in [Sessions -> [Keys -> Records \cup {NoSave, Due}]]
      /\ saver'[s][k] = NoSave /\ \A j \in Keys \ {k} : saver'[s][j] = saver[s][j]
      /\ stored' \in [Sessions -> Records] /\ stored'[s] = ledger[s]
      /\ \A t \in Sessions \ {s} : saver'[t] = saver[t] /\ stored'[t] = stored[t]
  BY <1>0, <1>1
<1>4. TypeOK'
  BY <1>0, <1>1, <1>3 DEF TypeOK, history, bounds
<1>5. \A t \in Sessions \ {s} : Good(t)'
  <2>1. \A t \in Sessions \ {s} : Same(t)
    BY <1>1, <1>3 DEF Same, history
  <2> QED  BY <1>0, <2>1, Untouched
<1>6. Good(s)'
  <2>1. OnWire(s)'
    BY <1>0, <1>1, <1>3, <1>a DEF Good, OnWire, Working
  <2>2. InTime(s)'
    BY <1>0, <1>1, <1>3, <1>a DEF Good, InTime
  <2>3. Known(s)'
    BY <1>0, <1>1, <1>3, <1>a DEF Good, Known
  <2>4. CutOff(s)'
    BY <1>0, <1>1, <1>3, <1>a DEF Good, CutOff, Working, Asked, OnWire, history
  <2>5. LostOnFile(s)'
    BY <1>0, <1>1, <1>a DEF Good, LostOnFile, history
  <2> QED  BY <2>1, <2>2, <2>3, <2>4, <2>5 DEF Good
<1>7. BillsAlone'
  BY <1>1 DEF UsageInv, BillsAlone
<1>8. Counted'
  BY <1>1 DEF UsageInv, Counted, Billed, history
<1> QED  BY <1>4, <1>5, <1>6, <1>7, <1>8 DEF UsageInv

-----------------------------------------------------------------------------
(* Sessions come and go. *)

LEMMA LeaveStep ==
  ASSUME ~Overlap, UsageInv, NEW s \in Sessions, Leave(s)
  PROVE  UsageInv'
<1>0. /\ TypeOK /\ Good(s) /\ (\A t \in Sessions : Good(t)) /\ hosted[s]
      /\ (\A k \in Keys : saver[s][k] = NoSave)
      /\ phase \in [Sessions -> Phases]
      /\ hosted \in [Sessions -> BOOLEAN] /\ cut \in [Sessions -> SUBSET (1..MaxRounds)]
      /\ counter[s] \in 0..MaxRounds /\ leaves \in 0..MaxLeaves
  BY DEF Leave, UsageInv, TypeOK
<1>1. /\ UNCHANGED <<files, resumed, ledger, wire, saver, copy, unsaved, lost, billed, crashes, faults>>
      /\ leaves < MaxLeaves /\ leaves' = leaves + 1
      /\ hosted' = [hosted EXCEPT ![s] = FALSE]
      /\ phase' = [phase EXCEPT ![s] = IF phase[s] = "asking" THEN "idle" ELSE phase[s]]
      /\ cut' = [cut EXCEPT ![s] = cut[s] \cup Working(s)]
  BY DEF Leave
<1>2. /\ ~hosted'[s] /\ phase'[s] = (IF phase[s] = "asking" THEN "idle" ELSE phase[s])
      /\ cut'[s] = cut[s] \cup Working(s)
      /\ Working(s)' \subseteq Working(s) /\ Asked(s)' = Asked(s)
  BY <1>0, <1>1 DEF Working, Asked, files
<1>3. TypeOK'
  <2>1. phase' \in [Sessions -> Phases]
    BY <1>0, <1>1 DEF Phases
  <2>2. hosted' \in [Sessions -> BOOLEAN]
    BY <1>0, <1>1
  <2>3. cut' \in [Sessions -> SUBSET (1..MaxRounds)]
    <3>1. Working(s) \subseteq 1..MaxRounds
      BY <1>0 DEF Good, OnWire
    <3> QED  BY <1>0, <1>1, <3>1
  <2>4. leaves' \in 0..MaxLeaves
    BY <1>0, <1>1, Bounds
  <2> QED  BY <1>0, <1>1, <2>1, <2>2, <2>3, <2>4 DEF TypeOK, files
<1>4. \A t \in Sessions \ {s} : Good(t)'
  <2>1. \A t \in Sessions \ {s} : Same(t)
    BY <1>0, <1>1 DEF Same, files
  <2> QED  BY <1>0, <2>1, Untouched
<1>5. Good(s)'
  <2>1. OnWire(s)'
    BY <1>0, <1>1, <1>2 DEF Good, OnWire, files
  <2>2. InTime(s)'
    BY <1>0, <1>1 DEF InTime
  <2>3. Known(s)'
    BY <1>0, <1>1, <1>2 DEF Good, Known, files
  <2>4. CutOff(s)'
    BY <1>0, <1>1, <1>2 DEF Good, CutOff, files
  <2>5. LostOnFile(s)'
    BY <1>0, <1>1, <1>2 DEF Good, LostOnFile, files
  <2> QED  BY <2>1, <2>2, <2>3, <2>4, <2>5 DEF Good
<1>6. BillsAlone'
  <2>1. \A t \in Sessions : phase'[t] = "billing" <=> phase[t] = "billing"
    BY <1>0, <1>1
  <2> QED  BY <1>1, <2>1 DEF UsageInv, BillsAlone, files
<1>7. Counted'
  BY <1>1 DEF UsageInv, Counted, Billed, files
<1> QED  BY <1>3, <1>4, <1>5, <1>6, <1>7 DEF UsageInv

(* What restoring makes of the records. *)
LEMMA RestoredRecords ==
  ASSUME TypeOK, NEW s \in Sessions
  PROVE  /\ Restored(s) \in Records
         /\ \A k \in Keys : /\ Restored(s)[k] # "inflight"
                            /\ Restored(s)[k] # "none" <=> stored[s][k] # "none"
BY DEF TypeOK, Restored, Records, Status

(* A session is opened again, with its ledger restored: in an idle round the  *)
(* invariant asks of it only that the retry point is there for a lost one.    *)
LEMMA Opened ==
  ASSUME TypeOK, NEW s \in Sessions, Good(s), phase[s] = "idle",
         hosted'[s], phase'[s] = "idle", counter'[s] = counter[s], stored'[s] = stored[s],
         ledger'[s] = Restored(s), wire'[s] = wire[s], saver'[s] = saver[s], cut'[s] = cut[s],
         unsaved'[s] = unsaved[s], day' = day, residue'[s] \subseteq cut[s] \cup unsaved[s],
         lost'[s] # 0 => lost'[s] = lost[s] /\ retry'[s] = lost[s]
  PROVE  Good(s)'
<1>1. OnWire(s)'
  BY RestoredRecords DEF OnWire, Working
<1>2. InTime(s)'
  BY DEF Good, InTime
<1>3. Known(s)'
  BY RestoredRecords DEF Good, Known
<1>4. CutOff(s)' /\ LostOnFile(s)'
  BY DEF Good, CutOff, Working, Asked, LostOnFile
<1> QED  BY <1>1, <1>2, <1>3, <1>4 DEF Good

LEMMA ComeBackStep ==
  ASSUME UsageInv, NEW s \in Sessions, ComeBack(s)
  PROVE  UsageInv'
<1>0. /\ TypeOK /\ Good(s) /\ (\A t \in Sessions : Good(t)) /\ phase[s] = "idle"
      /\ hosted \in [Sessions -> BOOLEAN] /\ ledger \in [Sessions -> Records]
      /\ lost \in [Sessions -> 0..MaxRounds]
  BY DEF ComeBack, UsageInv, TypeOK
<1>1. /\ UNCHANGED <<files, phase, resumed, wire, saver, copy, cut, unsaved, billed, bounds>>
      /\ hosted' = [hosted EXCEPT ![s] = TRUE] /\ lost' = [lost EXCEPT ![s] = 0]
      /\ ledger' = [ledger EXCEPT ![s] = Restored(s)]
  BY DEF ComeBack
<1>2. TypeOK'
  <2>1. hosted' \in [Sessions -> BOOLEAN] /\ ledger' \in [Sessions -> Records]
    BY <1>0, <1>1, RestoredRecords
  <2>2. lost' \in [Sessions -> 0..MaxRounds]
    BY <1>0, <1>1, Bounds
  <2> QED  BY <1>0, <1>1, <2>1, <2>2 DEF TypeOK, files, bounds
<1>3. \A t \in Sessions \ {s} : Good(t)'
  <2>1. \A t \in Sessions \ {s} : Same(t)
    BY <1>0, <1>1 DEF Same, files
  <2> QED  BY <1>0, <2>1, Untouched
<1>4. Good(s)'
  <2>1. hosted'[s] /\ ledger'[s] = Restored(s) /\ lost'[s] = 0
    BY <1>0, <1>1
  <2>2. /\ phase'[s] = "idle" /\ counter'[s] = counter[s] /\ stored'[s] = stored[s]
        /\ wire'[s] = wire[s] /\ saver'[s] = saver[s] /\ cut'[s] = cut[s]
        /\ unsaved'[s] = unsaved[s] /\ day' = day /\ residue'[s] \subseteq cut[s] \cup unsaved[s]
    BY <1>0, <1>1 DEF files, Good, CutOff
  <2>3. lost'[s] # 0 => lost'[s] = lost[s] /\ retry'[s] = lost[s]
    BY <2>1
  <2> QED  BY <1>0, <2>1, <2>2, <2>3, Opened
<1>5. BillsAlone'
  BY <1>1 DEF UsageInv, BillsAlone, files
<1>6. Counted'
  BY <1>1 DEF UsageInv, Counted, Billed, files
<1> QED  BY <1>2, <1>3, <1>4, <1>5, <1>6 DEF UsageInv

LEMMA StartStep ==
  ASSUME UsageInv, NEW s \in Sessions, Start(s)
  PROVE  UsageInv'
<1> DEFINE rounds == {k[1] : k \in Inflight(stored[s])}
<1>0. /\ TypeOK /\ Good(s) /\ (\A t \in Sessions : Good(t)) /\ phase[s] = "idle"
      /\ hosted \in [Sessions -> BOOLEAN] /\ ledger \in [Sessions -> Records]
      /\ residue \in [Sessions -> SUBSET (1..MaxRounds)]
      /\ retry \in [Sessions -> 0..MaxRounds] /\ counter \in [Sessions -> 0..MaxRounds]
      /\ cut \in [Sessions -> SUBSET (1..MaxRounds)]
  BY DEF Start, UsageInv, TypeOK
<1>1. /\ UNCHANGED <<counter, stored, day, phase, resumed, wire, saver, copy, history, bounds>>
      /\ hosted' = [hosted EXCEPT ![s] = TRUE] /\ ledger' = [ledger EXCEPT ![s] = Restored(s)]
      /\ Recover(s)
  BY DEF Start
<1>2. /\ residue' \in [Sessions -> SUBSET (1..MaxRounds)] /\ retry' \in [Sessions -> 0..MaxRounds]
      /\ residue'[s] \subseteq cut[s] \cup unsaved[s] /\ (lost[s] # 0 => retry'[s] = lost[s])
      /\ \A t \in Sessions \ {s} : residue'[t] = residue[t] /\ retry'[t] = retry[t]
  <2>1. \A k \in Keys : k[1] \in 1..MaxRounds
    BY DEF Keys
  <2>2. rounds \subseteq cut[s] \cup unsaved[s] /\ rounds \subseteq 1..MaxRounds
    BY <1>0, <2>1 DEF Inflight, Good, CutOff, Asked
  <2>4. lost[s] # 0 => lost[s] = counter[s] /\ rounds = {lost[s]}
    BY <1>0 DEF Inflight, Good, LostOnFile
  <2>5. residue[s] \subseteq cut[s] \cup unsaved[s]
    BY <1>0 DEF Good, CutOff
  <2>6. CASE rounds = {}
    <3>1. UNCHANGED <<residue, retry>>
      BY <1>1, <2>6 DEF Recover
    <3>2. lost[s] = 0
      BY <2>4, <2>6
    <3> HIDE DEF rounds
    <3> QED  BY <1>0, <2>5, <3>1, <3>2
  <2>7. CASE rounds # {}
    <3> DEFINE m == Max(rounds)
               r == IF m = counter[s] THEN counter[s] ELSE retry[s]
    <3>1. /\ residue' = [residue EXCEPT ![s] = residue[s] \cup {m}]
          /\ retry' = [retry EXCEPT ![s] = r]
      BY <1>1, <2>7 DEF Recover
    <3>2. m \in rounds /\ \A y \in rounds : y <= m
      <4>1. rounds \in SUBSET (0..MaxRounds)
        BY <2>2, Bounds
      <4> HIDE DEF rounds
      <4> QED  BY <2>7, <4>1, Bounds, MaxIsGreatest
    <3> HIDE DEF rounds, m
    <3>3. r \in 0..MaxRounds /\ m \in 1..MaxRounds /\ m \in cut[s] \cup unsaved[s]
      BY <1>0, <2>2, <3>2
    <3>4. lost[s] # 0 => r = lost[s]
      BY <2>4, <3>2 DEF r
    <3> HIDE DEF r
    <3> QED  BY <1>0, <2>5, <3>1, <3>3, <3>4
  <2> QED  BY <2>6, <2>7
<1>3. TypeOK'
  <2>1. hosted' \in [Sessions -> BOOLEAN] /\ ledger' \in [Sessions -> Records]
    BY <1>0, <1>1, RestoredRecords
  <2> QED  BY <1>0, <1>1, <1>2, <2>1 DEF TypeOK, history, bounds
<1>4. \A t \in Sessions \ {s} : Good(t)'
  <2>1. \A t \in Sessions \ {s} : Same(t)
    BY <1>0, <1>1, <1>2 DEF Same, history
  <2> QED  BY <1>0, <2>1, Untouched
<1>5. Good(s)'
  <2>1. hosted'[s] /\ ledger'[s] = Restored(s)
    BY <1>0, <1>1
  <2>2. /\ phase'[s] = "idle" /\ counter'[s] = counter[s] /\ stored'[s] = stored[s]
        /\ wire'[s] = wire[s] /\ saver'[s] = saver[s] /\ cut'[s] = cut[s]
        /\ unsaved'[s] = unsaved[s] /\ day' = day /\ residue'[s] \subseteq cut[s] \cup unsaved[s]
    BY <1>0, <1>1, <1>2 DEF history
  <2>3. lost'[s] # 0 => lost'[s] = lost[s] /\ retry'[s] = lost[s]
    BY <1>1, <1>2 DEF history
  <2> QED  BY <1>0, <2>1, <2>2, <2>3, Opened
<1>6. BillsAlone'
  BY <1>1 DEF UsageInv, BillsAlone
<1>7. Counted'
  BY <1>1 DEF UsageInv, Counted, Billed, history
<1> QED  BY <1>3, <1>4, <1>5, <1>6, <1>7 DEF UsageInv

LEMMA CrashStep ==
  ASSUME UsageInv, Crash
  PROVE  UsageInv'
<1>0. /\ TypeOK /\ (\A t \in Sessions : Good(t))
      /\ cut \in [Sessions -> SUBSET (1..MaxRounds)] /\ counter \in [Sessions -> 0..MaxRounds]
      /\ lost \in [Sessions -> 0..MaxRounds] /\ crashes \in 0..MaxCrashes
  BY DEF UsageInv, TypeOK
<1>1. /\ UNCHANGED <<files, unsaved, billed, leaves, faults>> /\ crashes < MaxCrashes /\ crashes' = crashes + 1
      /\ hosted' = [s \in Sessions |-> FALSE] /\ phase' = [s \in Sessions |-> "idle"]
      /\ ledger' = [s \in Sessions |-> NoRecords] /\ wire' = [s \in Sessions |-> NoKey]
      /\ saver' = [s \in Sessions |-> [k \in Keys |-> NoSave]]
      /\ copy' = [s \in Sessions |-> NoCopy]
      /\ cut' = [s \in Sessions |-> cut[s] \cup Working(s)]
      /\ resumed' = [s \in Sessions |-> FALSE]
  BY DEF Crash
<1>2. \A s \in Sessions :
        lost'[s] = IF hosted[s] /\ phase[s] = "waiting" /\ saver[s][wire[s]] = NoSave
                   THEN counter[s] ELSE lost[s]
  BY DEF Crash
<1>3. TypeOK'
  <2>1. cut' \in [Sessions -> SUBSET (1..MaxRounds)]
    <3>1. ASSUME NEW s \in Sessions PROVE Working(s) \subseteq 1..MaxRounds
      BY <1>0 DEF Good, OnWire
    <3> QED  BY <1>0, <1>1, <3>1
  <2>2. lost' \in [Sessions -> 0..MaxRounds]
    <3>1. DOMAIN lost' = Sessions /\ lost' = [s \in Sessions |-> lost'[s]]
      BY DEF Crash
    <3>2. \A s \in Sessions : lost'[s] \in 0..MaxRounds
      BY <1>0, <1>2
    <3> QED  BY <3>1, <3>2
  <2>3. ledger' \in [Sessions -> Records] /\ wire' \in [Sessions -> Keys \cup {NoKey}]
    BY <1>1 DEF NoRecords, Records, Status
  <2>4. saver' \in [Sessions -> [Keys -> Records \cup {NoSave, Due}]]
    BY <1>1
  <2>5. copy' \in [Sessions -> [Sessions \X Keys -> {"none", "unread"} \cup Settled]]
    BY <1>1 DEF NoCopy
  <2>6. /\ hosted' \in [Sessions -> BOOLEAN]
        /\ phase' \in [Sessions -> Phases] /\ resumed' \in [Sessions -> BOOLEAN]
    BY <1>1 DEF Phases
  <2>7. crashes' \in 0..MaxCrashes
    BY <1>0, <1>1, Bounds
  <2> QED  BY <1>0, <1>1, <2>1, <2>2, <2>3, <2>4, <2>5, <2>6, <2>7 DEF TypeOK, files
<1>4. ASSUME NEW s \in Sessions PROVE Good(s)'
  <2>0. /\ Good(s) /\ ~hosted'[s] /\ phase'[s] = "idle" /\ ledger'[s] = NoRecords
        /\ (\A k \in Keys : saver'[s][k] = NoSave) /\ cut'[s] = cut[s] \cup Working(s)
        /\ unsaved' = unsaved /\ counter' = counter /\ stored' = stored /\ day' = day /\ residue' = residue
    BY <1>0, <1>1 DEF files
  <2>1. OnWire(s)' /\ InTime(s)'
    BY <2>0 DEF OnWire, Working, InTime, NoRecords
  <2>2. Known(s)'
    BY <2>0 DEF Good, Known, NoRecords
  <2>3. CutOff(s)'
    <3>1. Asked(s) \subseteq Working(s) /\ Working(s)' = {} /\ Asked(s)' = {}
      BY <2>0 DEF Working, Asked
    <3> QED  BY <2>0, <3>1 DEF Good, CutOff
  <2>4. LostOnFile(s)'
    <3>1. CASE hosted[s] /\ phase[s] = "waiting" /\ saver[s][wire[s]] = NoSave
      <4>1. wire[s] \in Keys /\ wire[s][1] = counter[s]
            /\ \A k \in Keys : stored[s][k] = "inflight" <=> k = wire[s]
        BY <2>0, <3>1 DEF Good, OnWire
      <4>2. lost'[s] = counter[s]
        BY <1>2, <3>1
      <4> QED  BY <2>0, <4>1, <4>2 DEF LostOnFile
    <3>2. CASE ~(hosted[s] /\ phase[s] = "waiting" /\ saver[s][wire[s]] = NoSave)
      <4>1. lost'[s] = lost[s]
        BY <1>2, <3>2
      <4> QED  BY <2>0, <4>1 DEF Good, LostOnFile
    <3> QED  BY <3>1, <3>2
  <2> QED  BY <2>1, <2>2, <2>3, <2>4 DEF Good
<1>5. BillsAlone'
  BY <1>1 DEF BillsAlone
<1>6. Counted'
  BY <1>1 DEF UsageInv, Counted, Billed, files
<1> QED  BY <1>3, <1>4, <1>5, <1>6 DEF UsageInv

-----------------------------------------------------------------------------

LEMMA InitUsage == Init => UsageInv
<1> SUFFICES ASSUME Init PROVE UsageInv
  OBVIOUS
<1>1. TypeOK
  <2>1. ledger \in [Sessions -> Records] /\ stored \in [Sessions -> Records]
    BY DEF Init, NoRecords, Records, Status
  <2>a. phase \in [Sessions -> Phases] /\ day \in [Sessions \X Keys -> {"none"} \cup Settled]
    BY DEF Init, Phases, NoEntries
  <2>2. copy \in [Sessions -> [Sessions \X Keys -> {"none", "unread"} \cup Settled]]
    BY DEF Init, NoCopy
  <2>3. /\ counter \in [Sessions -> 0..MaxRounds] /\ retry \in [Sessions -> 0..MaxRounds]
        /\ lost \in [Sessions -> 0..MaxRounds] /\ crashes \in 0..MaxCrashes
        /\ leaves \in 0..MaxLeaves /\ faults \in 0..MaxFaults
    BY Bounds DEF Init
  <2> QED  BY <2>1, <2>a, <2>2, <2>3 DEF Init, TypeOK
<1>2. ASSUME NEW s \in Sessions PROVE Good(s)
  <2>1. /\ phase[s] = "idle" /\ hosted[s] /\ ledger[s] = NoRecords /\ stored[s] = NoRecords
        /\ (\A k \in Keys : saver[s][k] = NoSave) /\ residue[s] = {} /\ lost[s] = 0
        /\ \A k \in Keys : day[<<s, k>>] = "none" /\ NoRecords[k] = "none"
    BY <1>1 DEF Init, NoRecords, NoEntries
  <2> QED  BY <2>1 DEF Good, OnWire, Working, InTime, Known, CutOff, LostOnFile
<1>3. BillsAlone
  BY DEF Init, BillsAlone
<1>4. Counted
  <2>1. Billed = {}
    BY DEF Init, Billed, NoEntries
  <2> QED  BY <2>1, FS_EmptySet DEF Init, Counted
<1> QED  BY <1>1, <1>2, <1>3, <1>4 DEF UsageInv

LEMMA StutterUsage ==
  ASSUME UsageInv, UNCHANGED vars
  PROVE  UsageInv'
<1>1. TypeOK'
  BY DEF UsageInv, TypeOK, vars, files, memory, history, bounds
<1>2. ASSUME NEW s \in Sessions PROVE Good(s)'
  <2>1. Good(s) /\ Same(s)
    BY DEF UsageInv, Same, vars, files, memory, history, bounds
  <2> QED  BY <2>1, Untouched
<1>3. BillsAlone' /\ Counted'
  BY DEF UsageInv, BillsAlone, Counted, Billed, vars, files, memory, history, bounds
<1> QED  BY <1>1, <1>2, <1>3 DEF UsageInv

LEMMA UsageInvHolds ==
  ASSUME ~Overlap
  PROVE  Spec => []UsageInv
<1>1. UsageInv /\ [Next]_vars => UsageInv'
  <2> SUFFICES ASSUME UsageInv, [Next]_vars PROVE UsageInv'
    OBVIOUS
  <2>1. CASE UNCHANGED vars
    BY <2>1, StutterUsage
  <2>2. CASE Crash
    BY <2>2, CrashStep
  <2>3. ASSUME NEW s \in Sessions,
               \/ Round(s) \/ Request(s) \/ Bills(s)
               \/ Fails(s) \/ Unsends(s) \/ Concludes(s) \/ BreaksOff(s)
        PROVE  UsageInv'
    BY <2>3, RoundStep, RequestStep, BillsStep, FailsStep, UnsendsStep, ConcludesStep,
       BreaksOffStep
  <2>4. ASSUME NEW s \in Sessions, NEW count \in Settled, Ends(s, count) PROVE UsageInv'
    BY <2>4, EndsStep
  <2>5. ASSUME NEW s \in Sessions, Leave(s) \/ ComeBack(s) \/ Start(s) PROVE UsageInv'
    BY <2>5, LeaveStep, ComeBackStep, StartStep
  <2>6. ASSUME NEW s \in Sessions, NEW k \in Keys, SaverReads(s, k) \/ SaverWrites(s, k)
        PROVE  UsageInv'
    BY <2>6, SaverReadsStep, SaverWritesStep
  <2> QED  BY <2>1, <2>2, <2>3, <2>4, <2>5, <2>6 DEF Next
<1> QED  BY <1>1, InitUsage, PTL DEF Spec

-----------------------------------------------------------------------------
(* The types need no order of saves and writes: they hold under Overlap too.  *)

(* A round has a number, a request that is out a key, and a copy of the usage *)
(* files has been read before it is written.                                  *)
UsageTypes ==
    /\ TypeOK
    /\ \A s \in Sessions :
          /\ Working(s) \subseteq 1..MaxRounds
          /\ phase[s] \in {"waiting", "billing"} => wire[s] \in Keys
          /\ phase[s] = "billing" => copy[s] \in [Sessions \X Keys -> {"none"} \cup Settled]

LEMMA RoundTypes ==
  ASSUME UsageTypes, NEW s \in Sessions, Round(s)
  PROVE  UsageTypes'
<1>0. /\ TypeOK /\ phase[s] = "idle" /\ counter \in [Sessions -> 0..MaxRounds]
      /\ retry \in [Sessions -> 0..MaxRounds] /\ lost \in [Sessions -> 0..MaxRounds]
      /\ phase \in [Sessions -> Phases] /\ resumed \in [Sessions -> BOOLEAN]
  BY DEF Round, UsageTypes, TypeOK
<1>1. /\ UNCHANGED <<residue, stored, day, hosted, ledger, wire, saver, copy, cut, unsaved, billed, bounds>>
      /\ phase' = [phase EXCEPT ![s] = "asking"] /\ lost' = [lost EXCEPT ![s] = 0]
  BY DEF Round
<1>2. /\ counter' \in [Sessions -> 0..MaxRounds] /\ retry' \in [Sessions -> 0..MaxRounds]
      /\ counter'[s] # 0 /\ resumed' \in [Sessions -> BOOLEAN]
      /\ \A t \in Sessions \ {s} : counter'[t] = counter[t] /\ resumed'[t] = resumed[t]
  <2>1. CASE /\ counter[s] < MaxRounds /\ counter' = [counter EXCEPT ![s] = @ + 1]
             /\ retry' = [retry EXCEPT ![s] = 0] /\ resumed' = [resumed EXCEPT ![s] = FALSE]
    <3>1. PICK n \in 0..MaxRounds : n = counter[s] + 1 /\ n # 0
      BY <1>0, <2>1, Bounds
    <3>2. counter' = [counter EXCEPT ![s] = n]
      BY <2>1, <3>1
    <3> QED  BY <1>0, <2>1, <3>1, <3>2, Bounds
  <2>2. CASE /\ retry[s] # 0 /\ retry[s] = counter[s] /\ UNCHANGED <<counter, retry>>
             /\ resumed' = [resumed EXCEPT ![s] = TRUE]
    BY <1>0, <2>2
  <2> QED  BY <2>1, <2>2 DEF Round
<1>3. TypeOK'
  <2>1. /\ phase' \in [Sessions -> Phases]
        /\ lost' \in [Sessions -> 0..MaxRounds]
    BY <1>0, <1>1, Bounds DEF Phases
  <2> QED  BY <1>0, <1>1, <1>2, <2>1 DEF TypeOK, bounds
<1>4. phase'[s] = "asking" /\ counter'[s] \in 1..MaxRounds
  <2>1. counter'[s] \in 0..MaxRounds
    BY <1>2
  <2> QED  BY <1>0, <1>1, <1>2, <2>1, Bounds
<1>5. \A t \in Sessions \ {s} : phase'[t] = phase[t]
  BY <1>0, <1>1
<1>6. Working(s)' \subseteq 1..MaxRounds /\ \A t \in Sessions \ {s} : Working(t)' = Working(t)
  BY <1>2, <1>4, <1>5 DEF Working
<1> QED  BY <1>0, <1>1, <1>3, <1>4, <1>5, <1>6 DEF UsageTypes

LEMMA RequestTypes ==
  ASSUME UsageTypes, NEW s \in Sessions, Request(s)
  PROVE  UsageTypes'
<1> DEFINE k == <<counter[s], NextAttempt(s)>>
<1>0. /\ TypeOK /\ phase[s] = "asking" /\ counter[s] \in 1..MaxRounds
      /\ phase \in [Sessions -> Phases]
      /\ ledger \in [Sessions -> Records] /\ wire \in [Sessions -> Keys \cup {NoKey}]
      /\ saver \in [Sessions -> [Keys -> Records \cup {NoSave, Due}]]
  BY DEF Request, UsageTypes, Working, TypeOK
<1>a. k \in Keys
  <2>1. NextAttempt(s) \in 1..MaxAttempts
    BY <1>0, NextIsNew, Bounds DEF Request
  <2> QED  BY <1>0, <2>1, Bounds DEF Keys
<1>1. /\ UNCHANGED <<files, hosted, resumed, copy, history, bounds>>
      /\ phase' = [phase EXCEPT ![s] = "waiting"] /\ wire' = [wire EXCEPT ![s] = k]
      /\ ledger' = [ledger EXCEPT ![s][k] = "inflight"] /\ saver' = [saver EXCEPT ![s][k] = Due]
  BY DEF Request
<1> HIDE DEF k
<1>2. ledger' \in [Sessions -> Records]
  BY <1>0, <1>1, <1>a DEF Records, Status
<1>3. saver' \in [Sessions -> [Keys -> Records \cup {NoSave, Due}]]
  BY <1>0, <1>1
<1>4. /\ wire' \in [Sessions -> Keys \cup {NoKey}]
      /\ phase' \in [Sessions -> Phases]
  BY <1>0, <1>1, <1>a DEF Phases
<1>5. TypeOK'
  BY <1>0, <1>1, <1>2, <1>3, <1>4 DEF TypeOK, files, history, bounds
<1> QED  BY <1>0, <1>1, <1>5, <1>a DEF UsageTypes, Working, files

LEMMA EndsTypes ==
  ASSUME UsageTypes, NEW s \in Sessions, NEW count \in Settled, Ends(s, count)
  PROVE  UsageTypes'
<1> DEFINE k == wire[s]
           record == Settle(ledger[s][k], count)
<1>0. /\ TypeOK /\ phase[s] = "waiting" /\ k \in Keys /\ faults \in 0..MaxFaults
      /\ phase \in [Sessions -> Phases]
      /\ ledger \in [Sessions -> Records] /\ day \in [Sessions \X Keys -> {"none"} \cup Settled]
      /\ copy \in [Sessions -> [Sessions \X Keys -> {"none", "unread"} \cup Settled]]
  BY DEF Ends, UsageTypes, TypeOK
<1>a. PICK read \in {day, NoEntries} : copy' = [copy EXCEPT ![s] = read]
  BY DEF Ends
<1>b. read \in [Sessions \X Keys -> {"none"} \cup Settled]
  BY <1>0, <1>a DEF NoEntries
<1>1. /\ UNCHANGED <<files, hosted, resumed, wire, saver, history, crashes, leaves>>
      /\ phase' = [phase EXCEPT ![s] = "billing"] /\ copy' = [copy EXCEPT ![s] = read]
      /\ ledger' = [ledger EXCEPT ![s][k] = record] /\ faults' \in 0..MaxFaults
  BY <1>0, <1>a, Bounds DEF Ends, Fault
<1>2. record \in Status
  BY <1>0 DEF Records, Status, Settle
<1> HIDE DEF k, record
<1>3. ledger' \in [Sessions -> Records]
  BY <1>0, <1>1, <1>2 DEF Records
<1>4. /\ copy' \in [Sessions -> [Sessions \X Keys -> {"none", "unread"} \cup Settled]]
      /\ phase' \in [Sessions -> Phases]
  BY <1>0, <1>1, <1>b DEF Phases
<1>5. TypeOK'
  BY <1>0, <1>1, <1>3, <1>4 DEF TypeOK, files, history, bounds
<1> QED  BY <1>0, <1>1, <1>5, <1>b DEF UsageTypes, Working, files, k

LEMMA BillsTypes ==
  ASSUME UsageTypes, NEW s \in Sessions, Bills(s)
  PROVE  UsageTypes'
<1> DEFINE p == <<s, wire[s]>>
           record == ledger[s][wire[s]]
           count == Upsert(copy[s][p], record)
<1>0. /\ TypeOK /\ phase[s] = "billing" /\ wire[s] \in Keys /\ faults \in 0..MaxFaults
      /\ copy[s] \in [Sessions \X Keys -> {"none"} \cup Settled]
      /\ phase \in [Sessions -> Phases]
      /\ wire \in [Sessions -> Keys \cup {NoKey}] /\ billed \in Nat
      /\ copy \in [Sessions -> [Sessions \X Keys -> {"none", "unread"} \cup Settled]]
      /\ day \in [Sessions \X Keys -> {"none"} \cup Settled]
  BY DEF Bills, UsageTypes, TypeOK
<1>1. /\ UNCHANGED <<counter, retry, residue, stored, hosted, resumed, ledger, saver, cut, unsaved,
                      lost, crashes, leaves>>
      /\ copy' = [copy EXCEPT ![s] = NoCopy] /\ wire' = [wire EXCEPT ![s] = NoKey]
      /\ \E outcome \in {"failed", "completed"} : phase' = [phase EXCEPT ![s] = outcome]
  BY DEF Bills
<1>a. faults' \in 0..MaxFaults
  <2>1. faults' = faults \/ (faults < MaxFaults /\ faults' = faults + 1)
    BY DEF Bills, Fault
  <2> QED  BY <1>0, <2>1, Bounds
<1>2. day' \in [Sessions \X Keys -> {"none"} \cup Settled] /\ billed' \in Nat
  <2>1. CASE UNCHANGED <<day, billed>>
    BY <1>0, <2>1
  <2>2. CASE ~UNCHANGED <<day, billed>>
    <3>1. /\ record \in Settled /\ day' = [copy[s] EXCEPT ![p] = count]
          /\ billed' = IF copy[s] = NoEntries THEN 1 ELSE billed + 1
      BY <2>2 DEF Bills
    <3>2. count \in {"none"} \cup Settled
      BY <1>0, <3>1 DEF Upsert
    <3> HIDE DEF p, count
    <3>3. [copy[s] EXCEPT ![p] = count] \in [Sessions \X Keys -> {"none"} \cup Settled]
      BY <1>0, <3>2
    <3>4. billed' \in Nat
      BY <1>0, <3>1
    <3> QED  BY <3>1, <3>3, <3>4
  <2> QED  BY <2>1, <2>2
<1>3. copy' \in [Sessions -> [Sessions \X Keys -> {"none", "unread"} \cup Settled]]
  BY <1>0, <1>1 DEF NoCopy
<1>4. /\ wire' \in [Sessions -> Keys \cup {NoKey}]
      /\ phase' \in [Sessions -> Phases]
  BY <1>0, <1>1 DEF Phases
<1>5. TypeOK'
  BY <1>0, <1>1, <1>2, <1>3, <1>4, <1>a DEF TypeOK
<1>6. phase'[s] \in {"failed", "completed"} /\ \A t \in Sessions \ {s} : phase'[t] = phase[t]
  BY <1>0, <1>1
<1> QED  BY <1>0, <1>1, <1>5, <1>6 DEF UsageTypes, Working

(* What is left of the usage files and of the request that is out.            *)
LEMMA KeptTypes ==
  ASSUME UsageTypes, TypeOK', UNCHANGED <<wire, copy>>,
         \A s \in Sessions : /\ phase'[s] = phase[s] \/ phase'[s] \notin {"waiting", "billing"}
                             /\ Working(s)' \subseteq Working(s)
  PROVE  UsageTypes'
BY DEF UsageTypes

LEMMA SaveTypes ==
  ASSUME UsageTypes, NEW s \in Sessions, NEW records \in Records, Save(s, records)
  PROVE  stored' \in [Sessions -> Records]
BY DEF UsageTypes, TypeOK, Save

LEMMA PersistsTypes ==
  ASSUME UsageTypes, NEW s \in Sessions, NEW ok \in BOOLEAN, Persists(s, ok)
  PROVE  /\ stored' \in [Sessions -> Records] /\ faults' \in 0..MaxFaults
         /\ unsaved' \in [Sessions -> SUBSET (1..MaxRounds)]
<1>0. /\ ledger[s] \in Records /\ stored \in [Sessions -> Records] /\ faults \in 0..MaxFaults
      /\ unsaved \in [Sessions -> SUBSET (1..MaxRounds)] /\ Working(s) \subseteq 1..MaxRounds
  BY DEF UsageTypes, TypeOK
<1>1. CASE ok
  BY <1>0, <1>1, SaveTypes DEF Persists, SaveAtEnd
<1>2. CASE ~ok
  <2>1. /\ UNCHANGED stored /\ unsaved' = [unsaved EXCEPT ![s] = unsaved[s] \cup Working(s)]
        /\ faults < MaxFaults /\ faults' = faults + 1
    BY <1>2 DEF Persists, Fault
  <2>2. faults' \in 0..MaxFaults
    BY <1>0, <2>1, Bounds
  <2> QED  BY <1>0, <2>1, <2>2
<1> QED  BY <1>1, <1>2

LEMMA AfterTypes ==
  ASSUME UsageTypes, NEW s \in Sessions,
         Fails(s) \/ Unsends(s) \/ Concludes(s) \/ BreaksOff(s)
  PROVE  UsageTypes'
<1>0. /\ TypeOK /\ phase \in [Sessions -> Phases] /\ Working(s) \subseteq 1..MaxRounds
      /\ counter \in [Sessions -> 0..MaxRounds] /\ retry \in [Sessions -> 0..MaxRounds]
      /\ stored \in [Sessions -> Records] /\ unsaved \in [Sessions -> SUBSET (1..MaxRounds)]
      /\ faults \in 0..MaxFaults
  BY DEF UsageTypes, TypeOK
<1>1. /\ UNCHANGED <<residue, day, hosted, resumed, ledger, wire, saver, copy, cut, lost, billed,
                      crashes, leaves>>
      /\ \E next \in {"idle", "asking", "stopped", "unsent"} : phase' = [phase EXCEPT ![s] = next]
  BY DEF Fails, Unsends, Concludes, BreaksOff, files, history, bounds
<1>2. /\ stored' \in [Sessions -> Records] /\ faults' \in 0..MaxFaults
      /\ unsaved' \in [Sessions -> SUBSET (1..MaxRounds)]
  <2>1. CASE Fails(s) \/ Concludes(s)
    <3>1. PICK ok \in BOOLEAN : Persists(s, ok)
      BY <2>1 DEF Fails, Concludes
    <3> QED  BY <3>1, PersistsTypes
  <2>2. CASE Unsends(s)
    BY <1>0, <2>2 DEF Unsends, history, bounds
  <2>3. CASE BreaksOff(s)
    <3>1. /\ UNCHANGED stored /\ faults < MaxFaults /\ faults' = faults + 1
          /\ \/ UNCHANGED unsaved
             \/ unsaved' = [unsaved EXCEPT ![s] = unsaved[s] \cup Working(s)]
      BY <2>3 DEF BreaksOff, Fault, files
    <3>2. faults' \in 0..MaxFaults
      BY <1>0, <3>1, Bounds
    <3> QED  BY <1>0, <3>1, <3>2
  <2> QED  BY <2>1, <2>2, <2>3
<1>3. /\ counter' \in [Sessions -> 0..MaxRounds] /\ retry' \in [Sessions -> 0..MaxRounds]
      /\ phase' \in [Sessions -> Phases] /\ phase'[s] \notin {"waiting", "billing"}
      /\ Working(s)' \subseteq Working(s)
      /\ \A t \in Sessions \ {s} : phase'[t] = phase[t] /\ counter'[t] = counter[t]
  <2>1. /\ phase' \in [Sessions -> Phases] /\ phase'[s] \notin {"waiting", "billing"}
        /\ \A t \in Sessions \ {s} : phase'[t] = phase[t]
    BY <1>0, <1>1 DEF Phases
  <2>2. CASE Unsends(s)
    <3> DEFINE n == IF resumed[s] THEN counter[s] ELSE counter[s] - 1
    <3>1. /\ counter' = [counter EXCEPT ![s] = n] /\ retry' = [retry EXCEPT ![s] = 0]
          /\ phase[s] = "stopped" /\ phase'[s] = "unsent"
      BY <1>0, <2>2 DEF Unsends
    <3>2. counter[s] \in 1..MaxRounds /\ n \in 0..MaxRounds
      BY <1>0, <3>1, Bounds DEF Working
    <3>3. Working(s)' \subseteq Working(s)
      BY <1>0, <1>1, <3>1, <3>2, Bounds DEF Working
    <3> HIDE DEF n
    <3> QED  BY <1>0, <2>1, <3>1, <3>2, <3>3, Bounds
  <2>3. CASE Fails(s) \/ Concludes(s) \/ BreaksOff(s)
    <3> DEFINE n == IF phase[s] = "stopped" THEN counter[s] ELSE 0
    <3>1. /\ UNCHANGED counter /\ (retry' = retry \/ retry' = [retry EXCEPT ![s] = n])
          /\ phase[s] # "idle" /\ phase'[s] \in {"idle", "asking", "stopped"}
          /\ phase[s] = "unsent" => phase'[s] = "idle"
      BY <1>0, <2>3 DEF Fails, Concludes, BreaksOff, files
    <3>2. n \in 0..MaxRounds
      BY <1>0, Bounds
    <3>3. Working(s)' \subseteq Working(s)
      BY <3>1 DEF Working
    <3> HIDE DEF n
    <3> QED  BY <1>0, <2>1, <3>1, <3>2, <3>3
  <2> QED  BY <2>2, <2>3
<1>4. TypeOK'
  BY <1>0, <1>1, <1>2, <1>3 DEF TypeOK
<1>5. \A t \in Sessions \ {s} : Working(t)' \subseteq Working(t)
  BY <1>1, <1>3 DEF Working
<1> QED  BY <1>1, <1>3, <1>4, <1>5, KeptTypes

LEMMA SaverTypes ==
  ASSUME UsageTypes, NEW s \in Sessions, NEW k \in Keys, SaverReads(s, k) \/ SaverWrites(s, k)
  PROVE  UsageTypes'
<1>0. /\ TypeOK /\ ledger[s] \in Records /\ stored \in [Sessions -> Records]
      /\ faults \in 0..MaxFaults /\ saver \in [Sessions -> [Keys -> Records \cup {NoSave, Due}]]
  BY DEF UsageTypes, TypeOK
<1>1. /\ UNCHANGED <<counter, retry, residue, day, hosted, phase, resumed, ledger, wire, copy,
                      history, crashes, leaves>>
      /\ faults' \in 0..MaxFaults
  BY <1>0, Bounds DEF SaverReads, SaverWrites, Fault, files, bounds
<1>2. \E value \in Records \cup {NoSave} : saver' = [saver EXCEPT ![s][k] = value]
  BY <1>0 DEF SaverReads, SaverWrites
<1>3. stored' \in [Sessions -> Records]
  <2>1. CASE SaverReads(s, k)
    BY <1>0, <2>1 DEF SaverReads, files
  <2>2. CASE SaverWrites(s, k)
    <3>1. saver[s][k] \in Records /\ (Save(s, saver[s][k]) \/ UNCHANGED stored)
      BY <1>0, <2>2 DEF SaverWrites
    <3> QED  BY <1>0, <3>1, SaveTypes
  <2> QED  BY <2>1, <2>2
<1>4. saver' \in [Sessions -> [Keys -> Records \cup {NoSave, Due}]]
  BY <1>0, <1>2
<1>5. TypeOK'
  BY <1>0, <1>1, <1>3, <1>4 DEF TypeOK, history, bounds
<1>6. \A t \in Sessions : Working(t)' = Working(t)
  BY <1>1 DEF Working
<1> QED  BY <1>1, <1>5, <1>6, KeptTypes

LEMMA LeaveTypes ==
  ASSUME UsageTypes, NEW s \in Sessions, Leave(s)
  PROVE  UsageTypes'
<1>0. /\ TypeOK /\ hosted \in [Sessions -> BOOLEAN] /\ leaves \in 0..MaxLeaves
      /\ phase \in [Sessions -> Phases]
      /\ cut \in [Sessions -> SUBSET (1..MaxRounds)] /\ Working(s) \subseteq 1..MaxRounds
  BY DEF UsageTypes, TypeOK
<1>1. /\ UNCHANGED <<files, resumed, ledger, wire, saver, copy, unsaved, lost, billed, crashes, faults>>
      /\ leaves < MaxLeaves /\ leaves' = leaves + 1 /\ hosted' = [hosted EXCEPT ![s] = FALSE]
      /\ phase' = [phase EXCEPT ![s] = IF phase[s] = "asking" THEN "idle" ELSE phase[s]]
      /\ cut' = [cut EXCEPT ![s] = cut[s] \cup Working(s)]
  BY DEF Leave
<1>2. \A t \in Sessions : Working(t)' \subseteq Working(t)
  BY <1>0, <1>1 DEF Working, files
<1>3. /\ hosted' \in [Sessions -> BOOLEAN] /\ cut' \in [Sessions -> SUBSET (1..MaxRounds)]
      /\ leaves' \in 0..MaxLeaves
      /\ phase' \in [Sessions -> Phases]
      /\ \A t \in Sessions : phase'[t] \in {phase[t], "idle"}
  BY <1>0, <1>1, Bounds DEF Phases
<1>4. TypeOK'
  BY <1>0, <1>1, <1>3 DEF TypeOK, files
<1> QED  BY <1>1, <1>2, <1>3, <1>4, KeptTypes DEF files

LEMMA OpenTypes ==
  ASSUME UsageTypes, NEW s \in Sessions, ComeBack(s) \/ Start(s)
  PROVE  UsageTypes'
<1>0. /\ TypeOK /\ hosted \in [Sessions -> BOOLEAN] /\ ledger \in [Sessions -> Records]
      /\ lost \in [Sessions -> 0..MaxRounds] /\ counter[s] \in 0..MaxRounds
      /\ residue \in [Sessions -> SUBSET (1..MaxRounds)] /\ retry \in [Sessions -> 0..MaxRounds]
  BY DEF UsageTypes, TypeOK
<1>1. /\ UNCHANGED <<counter, stored, day, phase, resumed, wire, saver, copy, cut, unsaved, billed, bounds>>
      /\ hosted' = [hosted EXCEPT ![s] = TRUE] /\ ledger' = [ledger EXCEPT ![s] = Restored(s)]
      /\ UNCHANGED lost \/ lost' = [lost EXCEPT ![s] = 0]
      /\ UNCHANGED <<residue, retry>> \/ Recover(s)
  BY DEF ComeBack, Start, files, history
<1>2. /\ hosted' \in [Sessions -> BOOLEAN] /\ ledger' \in [Sessions -> Records]
      /\ lost' \in [Sessions -> 0..MaxRounds]
  BY <1>0, <1>1, RestoredRecords, Bounds
<1>3. residue' \in [Sessions -> SUBSET (1..MaxRounds)] /\ retry' \in [Sessions -> 0..MaxRounds]
  <2> DEFINE rounds == {k[1] : k \in Inflight(stored[s])}
             m == Max(rounds)
             r == IF m = counter[s] THEN counter[s] ELSE retry[s]
  <2>1. CASE UNCHANGED <<residue, retry>>
    BY <1>0, <2>1
  <2>2. CASE Recover(s) /\ rounds # {}
    <3>1. /\ residue' = [residue EXCEPT ![s] = residue[s] \cup {m}]
          /\ retry' = [retry EXCEPT ![s] = r]
      BY <2>2 DEF Recover
    <3>2. rounds \subseteq 1..MaxRounds
      BY DEF Inflight, Keys
    <3>3. m \in 1..MaxRounds
      <4>1. rounds \in SUBSET (0..MaxRounds)
        BY <3>2, Bounds
      <4> HIDE DEF rounds
      <4> QED  BY <2>2, <3>2, <4>1, Bounds, MaxIsGreatest
    <3>4. r \in 0..MaxRounds
      BY <1>0
    <3> HIDE DEF m, r
    <3> QED  BY <1>0, <3>1, <3>3, <3>4
  <2>3. CASE Recover(s) /\ rounds = {}
    <3>1. UNCHANGED <<residue, retry>>
      BY <2>3 DEF Recover
    <3> QED  BY <1>0, <3>1
  <2> QED  BY <1>1, <2>1, <2>2, <2>3
<1>4. TypeOK'
  BY <1>0, <1>1, <1>2, <1>3 DEF TypeOK, bounds
<1>5. \A t \in Sessions : Working(t)' = Working(t)
  BY <1>1 DEF Working
<1> QED  BY <1>1, <1>4, <1>5, KeptTypes

LEMMA CrashTypes ==
  ASSUME UsageTypes, Crash
  PROVE  UsageTypes'
<1>0. /\ TypeOK /\ cut \in [Sessions -> SUBSET (1..MaxRounds)] /\ crashes \in 0..MaxCrashes
      /\ counter \in [Sessions -> 0..MaxRounds] /\ lost \in [Sessions -> 0..MaxRounds]
  BY DEF UsageTypes, TypeOK
<1>1. /\ UNCHANGED <<files, unsaved, billed, leaves, faults>> /\ crashes < MaxCrashes /\ crashes' = crashes + 1
      /\ hosted' = [s \in Sessions |-> FALSE] /\ phase' = [s \in Sessions |-> "idle"]
      /\ ledger' = [s \in Sessions |-> NoRecords] /\ wire' = [s \in Sessions |-> NoKey]
      /\ saver' = [s \in Sessions |-> [k \in Keys |-> NoSave]]
      /\ copy' = [s \in Sessions |-> NoCopy]
      /\ cut' = [s \in Sessions |-> cut[s] \cup Working(s)]
      /\ resumed' = [s \in Sessions |-> FALSE]
  BY DEF Crash
<1>2. cut' \in [Sessions -> SUBSET (1..MaxRounds)]
  <2>1. \A s \in Sessions : Working(s) \subseteq 1..MaxRounds
    BY DEF UsageTypes
  <2> QED  BY <1>0, <1>1, <2>1
<1>3. lost' \in [Sessions -> 0..MaxRounds]
  BY <1>0 DEF Crash
<1>4. ledger' \in [Sessions -> Records] /\ wire' \in [Sessions -> Keys \cup {NoKey}]
  BY <1>1 DEF NoRecords, Records, Status
<1>5. /\ saver' \in [Sessions -> [Keys -> Records \cup {NoSave, Due}]]
      /\ copy' \in [Sessions -> [Sessions \X Keys -> {"none", "unread"} \cup Settled]]
  BY <1>1 DEF NoCopy
<1>6. /\ hosted' \in [Sessions -> BOOLEAN] /\ crashes' \in 0..MaxCrashes
      /\ phase' \in [Sessions -> Phases] /\ resumed' \in [Sessions -> BOOLEAN]
  BY <1>0, <1>1, Bounds DEF Phases
<1>7. TypeOK'
  BY <1>0, <1>1, <1>2, <1>3, <1>4, <1>5, <1>6 DEF TypeOK, files
<1> QED  BY <1>1, <1>7 DEF UsageTypes, Working

(* The records, the files, the guards and the tasks keep their types, however *)
(* saves and writes are interleaved.                                          *)
THEOREM UsageTypeCorrect == Spec => []TypeOK
<1>1. Init => UsageTypes
  BY InitUsage DEF UsageInv, UsageTypes, Working, Init
<1>2. UsageTypes /\ [Next]_vars => UsageTypes'
  <2> SUFFICES ASSUME UsageTypes, [Next]_vars PROVE UsageTypes'
    OBVIOUS
  <2>1. CASE UNCHANGED vars
    BY <2>1 DEF UsageTypes, Working, TypeOK, vars, files, memory, history, bounds
  <2>2. CASE Crash
    BY <2>2, CrashTypes
  <2>3. ASSUME NEW s \in Sessions,
               \/ Round(s) \/ Request(s) \/ Bills(s)
               \/ Fails(s) \/ Unsends(s) \/ Concludes(s) \/ BreaksOff(s)
        PROVE  UsageTypes'
    BY <2>3, RoundTypes, RequestTypes, BillsTypes, AfterTypes
  <2>4. ASSUME NEW s \in Sessions, NEW count \in Settled, Ends(s, count) PROVE UsageTypes'
    BY <2>4, EndsTypes
  <2>5. ASSUME NEW s \in Sessions, Leave(s) \/ ComeBack(s) \/ Start(s) PROVE UsageTypes'
    BY <2>5, LeaveTypes, OpenTypes
  <2>6. ASSUME NEW s \in Sessions, NEW k \in Keys, SaverReads(s, k) \/ SaverWrites(s, k)
        PROVE  UsageTypes'
    BY <2>6, SaverTypes
  <2> QED  BY <2>1, <2>2, <2>3, <2>4, <2>5, <2>6 DEF Next
<1>3. UsageTypes => TypeOK
  BY DEF UsageTypes
<1> QED  BY <1>1, <1>2, <1>3, PTL DEF Spec

(* Each request that was settled and written has one entry of its own in the  *)
(* usage files (upsert_record in usage_stats.rs and begin_request in          *)
(* token_ledger.rs), over crashes, restarts and switches of session, as long   *)
(* as these files can be read.                                                *)
THEOREM RequestsCounted ==
  ASSUME ~Overlap
  PROVE  Spec => []EveryRequestCounted
<1>1. UsageInv => EveryRequestCounted
  BY DEF UsageInv, Counted, Billed, EveryRequestCounted
<1> QED  BY <1>1, UsageInvHolds, PTL

(* A driver that is started offers the round that a crash took for a retry    *)
(* (recover_crashed_round in session_driver.rs).                              *)
THEOREM CrashedRoundsOffered ==
  ASSUME ~Overlap
  PROVE  Spec => []CrashedRoundIsOffered
<1>1. UsageInv => CrashedRoundIsOffered
  BY DEF UsageInv, Good, LostOnFile, CrashedRoundIsOffered
<1> QED  BY <1>1, UsageInvHolds, PTL

(* Only a round that a crash or a switch cut off, or that could not save how  *)
(* its request ended, is ever recorded as terminated, or left in flight in    *)
(* the files (recover_crashed_round again).                                   *)
THEOREM OnlyCutOffIsResidue ==
  ASSUME ~Overlap
  PROVE  Spec => []ResidueIsCutOff
<1>1. UsageInv => ResidueIsCutOff
  <2> SUFFICES ASSUME UsageInv, NEW s \in Sessions
               PROVE  /\ phase[s] = "idle" /\ (\A k \in Keys : saver[s][k] = NoSave) =>
                            {k[1] : k \in Inflight(stored[s])} \subseteq cut[s] \cup unsaved[s]
                      /\ residue[s] \subseteq cut[s] \cup unsaved[s]
    BY DEF ResidueIsCutOff
  <2> QED  BY DEF UsageInv, Good, CutOff, Asked, Inflight
<1> QED  BY <1>1, UsageInvHolds, PTL
=============================================================================
