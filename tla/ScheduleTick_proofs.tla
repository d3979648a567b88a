------------------------ MODULE ScheduleTick_proofs ------------------------
(***************************************************************************)
(* The scheduled prompts of a session, for any jobs, calendar and bounds:  *)
(* when commands and rehosts wait for the tick (~Overlap) no accepted job  *)
(* is lost, none is sent twice without a fault and none after it was       *)
(* cancelled; recurring jobs are set to their next minute in any case.     *)
(***************************************************************************)
EXTENDS ScheduleTick, SequenceTheorems, FiniteSetTheorems, WellFoundedInduction, TLAPS

Sending == tick.at = "sending"

(* The types, with the shape of the records and what their fields have to do *)
(* with each other: a tick that sends was begun by a loop that had not given *)
(* up.                                                                       *)
Lists == {f \in List : IsFiniteSet(DOMAIN f)}

Ticks == [at : {"idle", "sending"}, now : Nat, left : SUBSET Jobs, keep : Lists, size : Nat,
          sent : BOOLEAN, stale : BOOLEAN]

Commands == [op : {"none", "add", "cancel"}, job : Jobs, list : Lists]

TickTypes ==
    /\ tick \in Ticks /\ tick.left \subseteq DOMAIN tick.keep
    /\ tick.at = "idle" => tick = NoTick
    /\ attempts \in 0..RestartLimit + 1
    /\ Sending /\ ~tick.stale => attempts <= RestartLimit

CommandTypes == command \in Commands /\ (command.op = "none" => command = NoCommand)

ListTypes == jobs \in Lists /\ disk \in Lists

OtherTypes ==
    /\ clock \in 0..MaxTime /\ up \in BOOLEAN /\ boot \in BOOLEAN /\ faults \in 0..MaxFaults
    /\ queue \in Seq(Jobs) /\ sends \in [Jobs -> Seq(Nat)] /\ since \in [Jobs -> Nat]
    /\ status \in [Jobs -> {"none", "armed", "refused", "cancelled", "failed"}]

ScheduleTypes == TickTypes /\ CommandTypes /\ ListTypes /\ OtherTypes

-----------------------------------------------------------------------------
(* One task works on the list at a time, on a copy that is still current. *)
OneTask ==
    /\ ~tick.stale
    /\ command.op # "none" => tick.at = "idle" /\ up /\ command.list = jobs
    /\ command.op = "add" => status[command.job] = "none"
    /\ Sending => tick.size = Cardinality(DOMAIN jobs)

(* What the lists say of a job is what the user was told of it. *)
ListedJobs ==
    /\ \A j \in DOMAIN jobs : jobs[j].created = since[j]
    /\ \A j \in DOMAIN disk : disk[j].created = since[j]
    /\ \A j \in DOMAIN jobs \cup DOMAIN disk : status[j] \notin {"none", "cancelled"}
    /\ \A j \in Jobs : status[j] = "none" => sends[j] = <<>>

(* The job is on the list, has fired for good, or has expired. *)
Settled(j) == (j \in Once /\ sends[j] # <<>>) \/ Expired(j)
Accounted(j, list) == j \in DOMAIN list \/ Settled(j)

Kept == \A j \in Jobs : Armed(j) => Accounted(j, jobs) /\ Accounted(j, disk)

(* A tick that has done something about job j, which is to be written.       *)
Moved(j) == Sending /\ j \in DOMAIN jobs /\ ~(j \in DOMAIN tick.keep /\ tick.keep[j] = jobs[j])

TickCopy ==
    Sending =>
        /\ DOMAIN tick.keep \subseteq DOMAIN jobs /\ tick.now <= clock
        /\ \A j \in tick.left : tick.keep[j] = jobs[j] /\ jobs[j].next <= tick.now
        /\ \A j \in DOMAIN tick.keep : tick.keep[j].created = jobs[j].created
        /\ \A j \in DOMAIN jobs \ DOMAIN tick.keep : Accounted(j, tick.keep)
        /\ ~tick.sent => \A j \in DOMAIN tick.keep : tick.keep[j] = jobs[j]

(* A fire time that was sent lies in the past, and is set once more only by a *)
(* list that a fault left behind: twice at most for every fault.              *)
Twice(j) == Len(sends[j]) - Cardinality(Range(sends[j]))

Again(j, list) == j \in DOMAIN list /\ list[j].next \in Range(sends[j])

Counted ==
    \A j \in Jobs :
        /\ \A s \in Range(sends[j]) : s <= clock /\ (Sending => s <= tick.now)
        /\ IsFiniteSet(Range(sends[j])) /\ Twice(j) <= faults
        /\ Again(j, jobs) \/ Again(j, disk) => Moved(j) \/ Twice(j) + 1 <= faults
        /\ Moved(j) => ~Again(j, tick.keep)

ScheduleInv == ScheduleTypes /\ OneTask /\ ListedJobs /\ Kept /\ TickCopy /\ Counted

-----------------------------------------------------------------------------
(* Recurring jobs have a next minute to come, however late it is computed. *)
AlwaysFires == \A j \in CronJobs : \A m \in 0..MaxTime : Fires(j, m)

(* The minute is meant for the job, and none to come is before it. *)
NextSlot(j, minute, now) ==
    minute \in MeantFor(j) /\ \A t \in MeantFor(j) : t > now => minute <= t

RightlySet(list) == \A j \in DOMAIN list \cap CronJobs : NextSlot(j, list[j].next, clock)

SlotInv ==
    /\ ScheduleTypes
    /\ RightlySet(jobs) /\ RightlySet(disk) /\ RightlySet(tick.keep) /\ RightlySet(command.list)
    /\ tick.now <= clock /\ \A j \in Jobs : since[j] <= clock

-----------------------------------------------------------------------------
(* Lists and times. *)

LEMMA ListIs ==
  ASSUME NEW ids \in SUBSET Jobs, IsFiniteSet(ids), NEW f \in [ids -> Job]
  PROVE  f \in Lists
BY DEF Lists, List

LEMMA ListFacts ==
  ASSUME NEW f \in Lists
  PROVE  /\ IsFiniteSet(DOMAIN f)
         /\ DOMAIN f \subseteq Jobs /\ f \in [DOMAIN f -> Job]
         /\ \A j \in DOMAIN f : f[j] \in Job /\ f[j].next \in Nat /\ f[j].created \in Nat
BY DEF Lists, List, Job

LEMMA EmptyIs == Empty \in Lists /\ DOMAIN Empty = {}
<1>1. {} \in SUBSET Jobs /\ IsFiniteSet({}) /\ Empty \in [{} -> Job] /\ DOMAIN Empty = {}
  BY FS_EmptySet DEF Empty
<1> QED  BY <1>1, ListIs

LEMMA Restricted ==
  ASSUME NEW f \in Lists, NEW S \in SUBSET DOMAIN f
  PROVE  /\ Restrict(f, S) \in Lists /\ DOMAIN Restrict(f, S) = S
         /\ \A j \in S : Restrict(f, S)[j] = f[j]
<1>1. Restrict(f, S) \in [S -> Job] /\ S \in SUBSET Jobs
  BY ListFacts DEF Restrict
<1>2. IsFiniteSet(S)
  BY ListFacts, FS_Subset
<1> QED  BY <1>1, <1>2, ListIs DEF Restrict

LEMMA MinIsLeast ==
  ASSUME NEW S \in SUBSET Nat, S # {}
  PROVE  Min(S) \in S /\ \A y \in S : Min(S) <= y
<1> DEFINE R == OpToRel(<, Nat)
<1>1. PICK m \in S : \A y \in S : ~(<<y, m>> \in R)
  BY NatLessThanWellFounded, WFMin
<1>2. \A y \in S : m =< y
  <2> SUFFICES ASSUME NEW y \in S, y < m PROVE FALSE
    OBVIOUS
  <2>1. <<y, m>> \in Nat \X Nat /\ <<y, m>>[1] = y /\ <<y, m>>[2] = m
    BY <1>1
  <2>2. <<y, m>> \in R
    BY <2>1 DEF OpToRel
  <2> QED  BY <1>1, <2>2
<1> QED  BY <1>2 DEF Min

(* The next fire time lies ahead, and is the first one if there is any. *)
LEMMA NextFireAhead ==
  ASSUME NEW j \in Jobs, NEW m \in Nat
  PROVE  /\ NextFire(j, m) \in Nat /\ NextFire(j, m) > m
         /\ Fires(j, m) => /\ NextFire(j, m) \in Later(j, m)
                           /\ \A t \in Later(j, m) : NextFire(j, m) <= t
<1>1. Later(j, m) \subseteq Nat /\ \A t \in Later(j, m) : t > m
  <2>1. CASE j \in CronJobs
    BY <2>1, CalendarAssumption DEF Later, Candidates
  <2>2. CASE j \notin CronJobs
    BY <2>2, JobsAssumption DEF Later
  <2> QED  BY <2>1, <2>2
<1>2. CASE Fires(j, m)
  <2>1. Min(Later(j, m)) \in Later(j, m) /\ \A t \in Later(j, m) : Min(Later(j, m)) <= t
    BY <1>1, <1>2, MinIsLeast DEF Fires
  <2>2. NextFire(j, m) = Min(Later(j, m))
    BY <1>2 DEF NextFire
  <2> QED  BY <1>1, <2>1, <2>2
<1>3. CASE ~Fires(j, m)
  BY <1>3, TimesAssumption DEF NextFire
<1> QED  BY <1>2, <1>3

LEMMA RangeAppend ==
  ASSUME NEW s \in Seq(Nat), NEW x \in Nat
  PROVE  /\ Append(s, x) \in Seq(Nat) /\ Len(Append(s, x)) = Len(s) + 1
         /\ Range(Append(s, x)) = Range(s) \cup {x}
<1>1. /\ Append(s, x) \in Seq(Nat) /\ Len(Append(s, x)) = Len(s) + 1 /\ Len(s) \in Nat
      /\ DOMAIN s = 1..Len(s) /\ DOMAIN Append(s, x) = 1..(Len(s) + 1)
      /\ Append(s, x)[Len(s) + 1] = x /\ \A i \in 1..Len(s) : Append(s, x)[i] = s[i]
  OBVIOUS
<1>2. 1..(Len(s) + 1) = (1..Len(s)) \cup {Len(s) + 1}
  BY <1>1
<1> QED  BY <1>1, <1>2 DEF Range

LEMMA StoreEffect ==
  ASSUME NEW list, NEW ok \in BOOLEAN, Store(list, ok)
  PROVE  /\ jobs' = list
         /\ (disk' = list /\ faults' = faults) \/ (disk' = disk /\ Fault)
BY DEF Store

-----------------------------------------------------------------------------
(* What the steps of a tick do to its copy. *)

LEMMA TickFacts ==
  ASSUME ScheduleTypes
  PROVE  /\ tick.keep \in Lists /\ tick.left \subseteq DOMAIN tick.keep /\ DOMAIN tick.keep \subseteq Jobs
         /\ tick.now \in Nat /\ tick.size \in Nat /\ tick.sent \in BOOLEAN /\ tick.stale \in BOOLEAN
         /\ tick.at \in {"idle", "sending"}
         /\ command.list \in Lists /\ command.job \in Jobs /\ command.op \in {"none", "add", "cancel"}
         /\ clock \in Nat /\ faults \in Nat
<1>1. tick \in Ticks /\ tick.left \subseteq DOMAIN tick.keep /\ command \in Commands
  BY DEF ScheduleTypes, TickTypes, CommandTypes
<1>2. clock \in Nat /\ faults \in Nat
  BY TimesAssumption DEF ScheduleTypes, OtherTypes
<1>3. tick.keep \in Lists
  BY <1>1 DEF Ticks
<1>4. DOMAIN tick.keep \subseteq Jobs
  BY <1>3, ListFacts
<1> QED  BY <1>1, <1>2, <1>3, <1>4 DEF Ticks, Commands

LEMMA NoTickFacts ==
  /\ NoTick \in Ticks /\ NoTick.at = "idle" /\ NoTick.left = {} /\ NoTick.keep = Empty /\ ~NoTick.stale
  /\ NoTick.now = 0
  /\ NoCommand \in Commands /\ NoCommand.op = "none" /\ NoCommand.list = Empty
<1>1. (CHOOSE j \in Jobs : TRUE) \in Jobs
  BY JobsAssumption
<1> QED  BY <1>1, EmptyIs DEF NoTick, NoCommand, Ticks, Commands

LEMMA ReadEffect ==
  ASSUME ScheduleTypes, TickRead
  PROVE  /\ tick.at = "idle" /\ (Overlap \/ command.op = "none") /\ up /\ attempts <= RestartLimit
         /\ tick' \in Ticks /\ tick'.left \subseteq DOMAIN tick'.keep
         /\ tick'.at = "sending" /\ tick'.now = clock /\ ~tick'.sent /\ ~tick'.stale
         /\ tick'.size = Cardinality(DOMAIN jobs) /\ DOMAIN tick'.keep \subseteq DOMAIN jobs
         /\ \A j \in DOMAIN tick'.keep : tick'.keep[j] = jobs[j]
         /\ \A j \in tick'.left : jobs[j].next <= clock
         /\ \A j \in DOMAIN jobs \ DOMAIN tick'.keep : j \in CronJobs /\ jobs[j].created + MaxAge < clock
<1> DEFINE alive == {j \in DOMAIN jobs : j \in Once \/ jobs[j].created + MaxAge >= clock}
           due   == {j \in alive : jobs[j].next <= clock}
           keep  == Restrict(jobs, alive)
           size  == Cardinality(DOMAIN jobs)
<1>1. tick' = [at |-> "sending", now |-> clock, left |-> due, keep |-> keep, size |-> size,
               sent |-> FALSE, stale |-> FALSE]
  BY DEF TickRead
<1>2. jobs \in Lists /\ DOMAIN jobs \subseteq Jobs /\ clock \in Nat /\ attempts \in Nat
  BY ListFacts, TimesAssumption DEF ScheduleTypes, ListTypes, OtherTypes, TickTypes
<1>3. \A j \in DOMAIN jobs : jobs[j].created \in Nat /\ jobs[j].next \in Nat
  BY <1>2, ListFacts
<1>4. /\ alive \in SUBSET DOMAIN jobs /\ due \subseteq alive
      /\ \A j \in due : jobs[j].next <= clock
      /\ \A j \in DOMAIN jobs \ alive : j \in CronJobs /\ jobs[j].created + MaxAge < clock
  BY <1>2, <1>3, TimesAssumption DEF Once
<1> HIDE DEF alive, due
<1>5. keep \in Lists /\ DOMAIN keep = alive /\ \A j \in alive : keep[j] = jobs[j]
  BY <1>2, <1>4, Restricted
<1>6. size \in Nat
  BY <1>2, ListFacts, FS_CardinalityType
<1> HIDE DEF keep, size
<1>7. /\ tick' \in Ticks /\ tick'.left = due /\ tick'.keep = keep /\ tick'.at = "sending"
      /\ tick'.now = clock /\ ~tick'.sent /\ ~tick'.stale /\ tick'.size = size
  BY <1>1, <1>2, <1>4, <1>5, <1>6 DEF Ticks
<1>8. tick.at = "idle" /\ (Overlap \/ command.op = "none") /\ up /\ attempts <= RestartLimit
  BY <1>2, TimesAssumption DEF TickRead, GaveUp
<1> QED  BY <1>4, <1>5, <1>7, <1>8 DEF size

LEMMA SendEffect ==
  ASSUME ScheduleTypes, NEW j \in Jobs, TickSend(j)
  PROVE  /\ Sending /\ j \in tick.left /\ j \in DOMAIN tick.keep
         /\ tick' \in Ticks /\ tick'.left = tick.left \ {j} /\ tick'.left \subseteq DOMAIN tick'.keep
         /\ tick'.at = "sending" /\ tick'.now = tick.now /\ tick'.size = tick.size
         /\ tick'.stale = tick.stale
         /\ DOMAIN tick'.keep \subseteq DOMAIN tick.keep
         /\ \A k \in DOMAIN tick.keep \ {j} : k \in DOMAIN tick'.keep /\ tick'.keep[k] = tick.keep[k]
         /\ \/ /\ up /\ tick'.sent
               /\ j \in CronJobs => /\ j \in DOMAIN tick'.keep
                                    /\ tick'.keep[j].created = tick.keep[j].created
                                    /\ tick'.keep[j].next = NextFire(j, tick.now)
               /\ j \notin CronJobs => j \notin DOMAIN tick'.keep
               /\ queue' = Append(queue, j)
               /\ sends' = [sends EXCEPT ![j] = Append(sends[j], tick.keep[j].next)]
            \/ ~up /\ tick'.keep = tick.keep /\ tick'.sent = tick.sent /\ UNCHANGED <<queue, sends>>
<1>1. /\ tick \in Ticks /\ tick.at = "sending" /\ j \in tick.left /\ tick.keep \in Lists
      /\ tick.left \subseteq DOMAIN tick.keep /\ tick.now \in Nat
  BY TickFacts DEF ScheduleTypes, TickTypes, TickSend
<1>2. DOMAIN tick.keep \subseteq Jobs /\ tick.keep \in [DOMAIN tick.keep -> Job] /\ IsFiniteSet(DOMAIN tick.keep)
  BY <1>1, ListFacts
<1>3. CASE ~up /\ tick' = [tick EXCEPT !.left = @ \ {j}] /\ UNCHANGED <<queue, sends>>
  BY <1>1, <1>3 DEF Ticks, Sending
<1>4. CASE up /\ j \in CronJobs
  <2> DEFINE n == NextFire(j, tick.now)
             e == [tick.keep[j] EXCEPT !.next = n]
             k == [tick.keep EXCEPT ![j] = e]
  <2>1. /\ queue' = Append(queue, j) /\ sends' = [sends EXCEPT ![j] = Append(sends[j], tick.keep[j].next)]
        /\ tick' = [tick EXCEPT !.left = tick.left \ {j}, !.sent = TRUE, !.keep = k]
    BY <1>4 DEF TickSend
  <2>2. n \in Nat
    BY <1>1, NextFireAhead
  <2> HIDE DEF n
  <2>3. e \in Job /\ e.next = n /\ e.created = tick.keep[j].created
    BY <1>1, <1>2, <2>2 DEF Job
  <2> HIDE DEF e
  <2>4. /\ k \in [DOMAIN tick.keep -> Job] /\ k[j] = e
        /\ \A i \in DOMAIN tick.keep \ {j} : k[i] = tick.keep[i]
    BY <1>1, <1>2, <2>3
  <2> HIDE DEF k
  <2>5. k \in Lists /\ DOMAIN k = DOMAIN tick.keep
    BY <1>2, <2>4, ListIs
  <2>6. /\ tick' \in Ticks /\ tick'.left = tick.left \ {j} /\ tick'.at = tick.at /\ tick'.now = tick.now
        /\ tick'.size = tick.size /\ tick'.stale = tick.stale /\ tick'.keep = k /\ tick'.sent
    BY <1>1, <2>1, <2>5 DEF Ticks
  <2> QED  BY <1>1, <1>4, <2>1, <2>3, <2>4, <2>5, <2>6 DEF Sending, n
<1>5. CASE up /\ j \notin CronJobs
  <2> DEFINE k == Restrict(tick.keep, DOMAIN tick.keep \ {j})
  <2>1. /\ queue' = Append(queue, j) /\ sends' = [sends EXCEPT ![j] = Append(sends[j], tick.keep[j].next)]
        /\ tick' = [tick EXCEPT !.left = tick.left \ {j}, !.sent = TRUE, !.keep = k]
    BY <1>5 DEF TickSend
  <2>2. DOMAIN tick.keep \ {j} \in SUBSET DOMAIN tick.keep
    OBVIOUS
  <2>3. k \in Lists /\ DOMAIN k = DOMAIN tick.keep \ {j} /\ \A i \in DOMAIN k : k[i] = tick.keep[i]
    BY <1>1, <2>2, Restricted
  <2> HIDE DEF k
  <2>6. /\ tick' \in Ticks /\ tick'.left = tick.left \ {j} /\ tick'.at = tick.at /\ tick'.now = tick.now
        /\ tick'.size = tick.size /\ tick'.stale = tick.stale /\ tick'.keep = k /\ tick'.sent
    BY <1>1, <2>1, <2>3 DEF Ticks
  <2> QED  BY <1>1, <1>5, <2>1, <2>3, <2>6 DEF Sending
<1> QED  BY <1>3, <1>4, <1>5 DEF TickSend

(* What the request loop's commands write back. *)
LEMMA AddEffect ==
  ASSUME ScheduleTypes, AddWrite
  PROVE  LET j == command.job
         IN \E list \in Lists, ok \in BOOLEAN :
              /\ Store(list, ok) /\ DOMAIN list = DOMAIN command.list \cup {j}
              /\ list[j].created = since[j] /\ list[j].next = NextFire(j, since[j])
              /\ \A k \in DOMAIN command.list \ {j} : list[k] = command.list[k]
              /\ status' = [status EXCEPT ![j] = IF ok THEN "armed" ELSE "refused"]
              /\ queue' = IF ok /\ j \in CronJobs THEN Append(queue, j) ELSE queue
<1> DEFINE j == command.job
           new == [next |-> NextFire(j, since[j]), created |-> since[j]]
           list == [k \in DOMAIN command.list \cup {j} |-> IF k = j THEN new ELSE command.list[k]]
<1>1. j \in Jobs /\ command.list \in Lists /\ since[j] \in Nat
  BY TickFacts DEF ScheduleTypes, OtherTypes
<1>2. new \in Job /\ new.next = NextFire(j, since[j]) /\ new.created = since[j]
  BY <1>1, NextFireAhead DEF Job
<1>3. PICK ok \in BOOLEAN : /\ Store(list, ok)
                            /\ status' = [status EXCEPT ![j] = IF ok THEN "armed" ELSE "refused"]
                            /\ queue' = IF ok /\ j \in CronJobs THEN Append(queue, j) ELSE queue
  BY DEF AddWrite
<1> HIDE DEF new
<1>4. /\ list \in [DOMAIN command.list \cup {j} -> Job] /\ DOMAIN command.list \cup {j} \in SUBSET Jobs
      /\ list[j] = new /\ \A k \in DOMAIN command.list \ {j} : list[k] = command.list[k]
  BY <1>1, <1>2, ListFacts
<1>5. IsFiniteSet(DOMAIN command.list \cup {j})
  BY <1>1, ListFacts, FS_AddElement
<1> HIDE DEF list, j
<1>6. list \in Lists /\ DOMAIN list = DOMAIN command.list \cup {j}
  BY <1>4, <1>5, ListIs
<1> QED  BY <1>2, <1>3, <1>4, <1>6 DEF j

LEMMA CancelEffect ==
  ASSUME ScheduleTypes, CancelWrite
  PROVE  \E list \in Lists, ok \in BOOLEAN :
           /\ Store(list, ok) /\ DOMAIN list = DOMAIN command.list \ {command.job}
           /\ \A k \in DOMAIN list : list[k] = command.list[k]
           /\ status' = [status EXCEPT ![command.job] = IF ok THEN "cancelled" ELSE "failed"]
<1> DEFINE S == DOMAIN command.list \ {command.job}
<1>1. command.list \in Lists /\ S \in SUBSET DOMAIN command.list
  BY TickFacts
<1>2. /\ Restrict(command.list, S) \in Lists /\ DOMAIN Restrict(command.list, S) = S
      /\ \A k \in S : Restrict(command.list, S)[k] = command.list[k]
  BY <1>1, Restricted
<1> QED  BY <1>2 DEF CancelWrite

-----------------------------------------------------------------------------
(* Types. *)

LEMMA TypesImply ==
  ASSUME ScheduleTypes
  PROVE  TypeOK
<1>1. \A f \in Lists : IsList(f)
  BY ListFacts DEF IsList
<1> QED  BY <1>1 DEF ScheduleTypes, TickTypes, CommandTypes, ListTypes, OtherTypes, Ticks, Commands, TypeOK

LEMMA FaultTypes ==
  ASSUME faults \in 0..MaxFaults, Fault
  PROVE  faults' \in 0..MaxFaults /\ faults' = faults + 1
BY TimesAssumption DEF Fault

LEMMA StoreTypes ==
  ASSUME ScheduleTypes, NEW list \in Lists, NEW ok \in BOOLEAN, Store(list, ok)
  PROVE  ListTypes' /\ faults' \in 0..MaxFaults
BY StoreEffect, FaultTypes DEF ScheduleTypes, ListTypes, OtherTypes

LEMMA TypesStep ==
  ASSUME ScheduleTypes, [Next]_vars
  PROVE  ScheduleTypes'
<1>0. TickTypes /\ CommandTypes /\ ListTypes /\ OtherTypes /\ Empty \in Lists
  BY EmptyIs DEF ScheduleTypes
<1>b. boot' \in BOOLEAN
  BY <1>0 DEF OtherTypes, Next, TickStep, LoopStep, TickRead, TickSend, TickWrite, TickPanics, AddRead, AddWrite,
         CancelRead, CancelWrite, TakePrompt, Minute, HarnessEnds, Crash, Rehost, RehostSkips, Resume, vars
<1>1. CASE TickRead
  <2>1. TickTypes'
    BY <1>0, <1>1, ReadEffect DEF TickTypes, Sending, TickRead
  <2> QED  BY <1>0, <1>b, <1>1, <2>1 DEF ScheduleTypes, CommandTypes, ListTypes, OtherTypes, TickRead, lists, told
<1>2. ASSUME NEW j \in Jobs, TickSend(j) PROVE ScheduleTypes'
  <2>1. TickTypes'
    BY <1>0, <1>2, SendEffect DEF TickTypes, Sending, TickSend
  <2>2. OtherTypes'
    <3>1. tick.keep[j].next \in Nat
      BY <1>2, SendEffect, TickFacts, ListFacts
    <3>2. sends[j] \in Seq(Nat) /\ Append(sends[j], tick.keep[j].next) \in Seq(Nat)
      BY <1>0, <3>1 DEF OtherTypes
    <3>3. Append(queue, j) \in Seq(Jobs)
      BY <1>0 DEF OtherTypes
    <3>4. queue' \in Seq(Jobs) /\ sends' \in [Jobs -> Seq(Nat)]
      BY <1>0, <1>2, <3>2, <3>3, SendEffect DEF OtherTypes
    <3> QED  BY <1>0, <1>2, <3>4 DEF OtherTypes, TickSend, told
  <2> QED  BY <1>0, <1>b, <1>2, <2>1, <2>2 DEF ScheduleTypes, CommandTypes, ListTypes, TickSend, lists
<1>3. CASE TickWrite
  <2>1. TickTypes'
    BY <1>0, <1>3, NoTickFacts DEF TickTypes, Sending, TickWrite
  <2>2. tick.keep \in Lists
    BY TickFacts
  <2>3. ListTypes' /\ faults' \in 0..MaxFaults
    <3>1. CASE \E ok \in BOOLEAN : Store(tick.keep, ok)
      BY <2>2, <3>1, StoreTypes
    <3>2. CASE disk' = tick.keep /\ UNCHANGED <<jobs, faults>>
      BY <1>0, <2>2, <3>2 DEF ListTypes, OtherTypes
    <3>3. CASE UNCHANGED <<lists, faults>>
      BY <1>0, <3>3 DEF ListTypes, OtherTypes, lists
    <3> QED  BY <1>3, <3>1, <3>2, <3>3 DEF TickWrite
  <2> QED  BY <1>0, <1>b, <1>3, <2>1, <2>3 DEF ScheduleTypes, CommandTypes, OtherTypes, TickWrite, told
<1>4. CASE TickPanics
  <2>1. TickTypes'
    <3>1. attempts' \in 0..RestartLimit + 1
      BY <1>0, <1>4, TimesAssumption DEF TickTypes, TickPanics, Sending
    <3> QED  BY <1>0, <1>4, <3>1, NoTickFacts DEF TickTypes, Sending, TickPanics
  <2> QED  BY <1>0, <1>b, <1>4, <2>1, FaultTypes DEF ScheduleTypes, CommandTypes, ListTypes, OtherTypes, TickPanics, lists, told
<1>5. ASSUME NEW j \in Jobs, AddRead(j) PROVE ScheduleTypes'
  <2>1. CommandTypes'
    BY <1>0, <1>5 DEF CommandTypes, Commands, ListTypes, AddRead
  <2>2. OtherTypes'
    BY <1>0, <1>5, TimesAssumption DEF OtherTypes, AddRead
  <2> QED  BY <1>0, <1>b, <1>5, <2>1, <2>2 DEF ScheduleTypes, TickTypes, ListTypes, AddRead, lists, Sending
<1>6. CASE AddWrite
  <2>1. command.job \in Jobs
    BY TickFacts
  <2>2. PICK list \in Lists, ok \in BOOLEAN :
           /\ Store(list, ok)
           /\ status' = [status EXCEPT ![command.job] = IF ok THEN "armed" ELSE "refused"]
           /\ queue' = IF ok /\ command.job \in CronJobs THEN Append(queue, command.job) ELSE queue
    BY <1>6, AddEffect
  <2>3. ListTypes' /\ faults' \in 0..MaxFaults
    BY <2>2, StoreTypes
  <2>4. queue' \in Seq(Jobs)
    BY <1>0, <2>1, <2>2 DEF OtherTypes
  <2>5. status' \in [Jobs -> {"none", "armed", "refused", "cancelled", "failed"}]
    BY <1>0, <2>1, <2>2 DEF OtherTypes
  <2>6. CommandTypes'
    BY <1>6, NoTickFacts DEF CommandTypes, AddWrite
  <2> QED  BY <1>0, <1>b, <1>6, <2>3, <2>4, <2>5, <2>6 DEF ScheduleTypes, TickTypes, OtherTypes, AddWrite, Sending
<1>7. ASSUME NEW j \in Jobs, CancelRead(j) PROVE ScheduleTypes'
  <2>1. CommandTypes'
    BY <1>0, <1>7 DEF CommandTypes, Commands, ListTypes, CancelRead
  <2> QED  BY <1>0, <1>b, <1>7, <2>1 DEF ScheduleTypes, TickTypes, ListTypes, OtherTypes, CancelRead, lists, told, Sending
<1>8. CASE CancelWrite
  <2>1. command.job \in Jobs
    BY TickFacts
  <2>2. PICK list \in Lists, ok \in BOOLEAN :
           /\ Store(list, ok)
           /\ status' = [status EXCEPT ![command.job] = IF ok THEN "cancelled" ELSE "failed"]
    BY <1>8, CancelEffect
  <2>3. ListTypes' /\ faults' \in 0..MaxFaults
    BY <2>2, StoreTypes
  <2>5. status' \in [Jobs -> {"none", "armed", "refused", "cancelled", "failed"}]
    BY <1>0, <2>1, <2>2 DEF OtherTypes
  <2>6. CommandTypes'
    BY <1>8, NoTickFacts DEF CommandTypes, CancelWrite
  <2> QED  BY <1>0, <1>b, <1>8, <2>3, <2>5, <2>6 DEF ScheduleTypes, TickTypes, OtherTypes, CancelWrite, Sending
<1>9. CASE TakePrompt
  <2>1. queue' \in Seq(Jobs)
    BY <1>0, <1>9 DEF TakePrompt, OtherTypes
  <2> QED  BY <1>0, <1>b, <1>9, <2>1 DEF ScheduleTypes, TickTypes, CommandTypes, ListTypes, OtherTypes, TakePrompt,
             lists, told, Sending
<1>10. CASE Minute
  <2>1. clock' \in 0..MaxTime
    BY <1>0, <1>10, TimesAssumption DEF Minute, OtherTypes
  <2> QED  BY <1>0, <1>b, <1>10, <2>1 DEF ScheduleTypes, TickTypes, CommandTypes, ListTypes, OtherTypes, Minute,
             lists, told, tasks, Sending
<1>11. CASE HarnessEnds
  <2>1. CommandTypes' /\ queue' \in Seq(Jobs)
    BY <1>11, NoTickFacts DEF HarnessEnds, CommandTypes
  <2> QED  BY <1>0, <1>b, <1>11, <2>1, FaultTypes DEF ScheduleTypes, TickTypes, ListTypes, OtherTypes, HarnessEnds,
             lists, told, Sending
<1>12. CASE Crash
  <2>1. CommandTypes' /\ queue' \in Seq(Jobs)
    BY <1>12, NoTickFacts DEF Crash, CommandTypes
  <2>2. TickTypes'
    BY <1>0, <1>12, NoTickFacts DEF Crash, TickTypes, Sending
  <2> QED  BY <1>0, <1>b, <1>12, <2>1, <2>2, FaultTypes DEF ScheduleTypes, ListTypes, OtherTypes, Crash, lists, told
<1>13. CASE LoadSession
  <2>1. /\ tick' \in Ticks /\ tick'.left = tick.left /\ tick'.keep = tick.keep /\ tick'.at = tick.at
        /\ tick'.stale = (tick.at # "idle")
    BY <1>0, <1>13 DEF LoadSession, TickTypes, Ticks
  <2>2. tick.at = "idle" => tick' = tick
    BY <1>0, <1>13, NoTickFacts DEF LoadSession, TickTypes, Ticks
  <2>3. TickTypes'
    BY <1>0, <1>13, <2>1, <2>2, TimesAssumption DEF LoadSession, TickTypes, Sending
  <2> QED  BY <1>0, <1>b, <1>13, <2>3 DEF ScheduleTypes, CommandTypes, ListTypes, OtherTypes, LoadSession, told
<1>14. CASE RehostSkips
  <2>1. faults' \in 0..MaxFaults
    BY <1>0, <1>14, FaultTypes DEF RehostSkips, OtherTypes
  <2> QED  BY <1>0, <1>b, <1>14, <2>1 DEF ScheduleTypes, TickTypes, CommandTypes, ListTypes, OtherTypes, RehostSkips,
             lists, told, tasks, Sending
<1>15. CASE UNCHANGED vars
  BY <1>0, <1>b, <1>15 DEF ScheduleTypes, TickTypes, CommandTypes, ListTypes, OtherTypes, vars, lists, told, tasks, Sending
<1> QED  BY <1>1, <1>2, <1>3, <1>4, <1>5, <1>6, <1>7, <1>8, <1>9, <1>10, <1>11, <1>12, <1>13, <1>14,
            <1>15
         DEF Next, TickStep, LoopStep, Rehost, Resume

LEMMA TypesInit ==
  ASSUME Init
  PROVE  ScheduleTypes
<1>1. Empty \in Lists
  BY EmptyIs
<1>2. OtherTypes
  <2>1. up \in BOOLEAN /\ boot \in BOOLEAN
    BY DEF Init
  <2> QED  BY <2>1, TimesAssumption DEF Init, OtherTypes
<1> QED  BY <1>1, <1>2, NoTickFacts, TimesAssumption
         DEF Init, ScheduleTypes, TickTypes, CommandTypes, ListTypes, Sending

(* The list, its copies, the queue and the history have the types declared    *)
(* for them (orchestration.rs, handlers_slash.rs), commands and ticks being   *)
(* interleaved in any way.                                                    *)
THEOREM ScheduleTypeCorrect == Spec => []TypeOK
<1>1. Init => ScheduleTypes
  BY TypesInit
<1>2. ScheduleTypes /\ [Next]_vars => ScheduleTypes'
  BY TypesStep
<1>3. ScheduleTypes => TypeOK
  BY TypesImply
<1> QED  BY <1>1, <1>2, <1>3, PTL DEF Spec

-----------------------------------------------------------------------------
(* Recurring jobs. *)

(* The day rule, said in two ways. *)
LEMMA MatchesAreMeant ==
  ASSUME NEW j \in CronJobs, NEW t \in DOMAIN Clock
  PROVE  Matches(Expr[j], t) <=> t \in MeantFor(j)
<1> DEFINE hit(f) == Clock[t][f] \in Mask(Expr[j], f)
           free(f) == Mask(Expr[j], f) = Span[f]
<1>1. \A f \in Fields : free(f) => hit(f)
  BY CalendarAssumption
<1>2. \A f : f \in Fields \ {"dom", "dow"} <=> f \in {"minute", "hour", "month"}
  BY DEF Fields
<1>3. "dom" \in Fields /\ "dow" \in Fields
  BY DEF Fields
<1>4. Matches(Expr[j], t) <=> /\ \A f \in {"minute", "hour", "month"} : hit(f)
                             /\ IF ~free("dom") /\ ~free("dow") THEN hit("dom") \/ hit("dow")
                                ELSE hit("dom") /\ hit("dow")
  BY DEF Matches, DayMatches
<1>5. t \in MeantFor(j) <=> /\ \A f \in Fields \ {"dom", "dow"} : hit(f)
                           /\ ((~free("dom") \/ ~free("dow")) =>
                                 ((~free("dom") /\ hit("dom")) \/ (~free("dow") /\ hit("dow"))))
  BY DEF MeantFor
<1> HIDE DEF hit, free
<1>6. (IF ~free("dom") /\ ~free("dow") THEN hit("dom") \/ hit("dow") ELSE hit("dom") /\ hit("dow"))
      <=> ((~free("dom") \/ ~free("dow")) =>
             ((~free("dom") /\ hit("dom")) \/ (~free("dow") /\ hit("dow"))))
  BY <1>1, <1>3
<1> QED  BY <1>2, <1>4, <1>5, <1>6

LEMMA SlotLater ==
  ASSUME NEW j \in CronJobs, NEW n \in Nat, NEW c \in Nat, NEW d \in Nat, c <= d, NextSlot(j, n, c)
  PROVE  NextSlot(j, n, d)
BY CalendarAssumption DEF NextSlot, MeantFor

(* Time has passed since the minute from which the next one was looked for.   *)
LEMMA SlotFound ==
  ASSUME AlwaysFires, NEW j \in CronJobs, NEW m \in 0..MaxTime, NEW c \in Nat, m <= c
  PROVE  NextSlot(j, NextFire(j, m), c)
<1> DEFINE n == NextFire(j, m)
<1>0. m \in Nat /\ Year \in Nat /\ DOMAIN Clock \subseteq Nat /\ j \in Jobs
  BY CalendarAssumption, JobsAssumption, TimesAssumption
<1>1. n \in Later(j, m) /\ n \in Nat /\ \A t \in Later(j, m) : n <= t
  BY <1>0, NextFireAhead DEF AlwaysFires
<1> HIDE DEF n
<1>2. \A t : t \in Later(j, m) <=> t \in MeantFor(j) /\ t > m /\ t <= m + Year
  <2>1. MeantFor(j) \subseteq DOMAIN Clock
    BY DEF MeantFor
  <2> QED  BY <2>1, MatchesAreMeant DEF Later, Candidates
<1>3. ASSUME NEW t \in MeantFor(j), t > c PROVE n <= t
  <2>1. t \in Nat /\ t > m
    BY <1>0, <1>3 DEF MeantFor
  <2> QED  BY <1>0, <1>1, <1>2, <2>1
<1> QED  BY <1>1, <1>2, <1>3 DEF NextSlot, n

LEMMA SlotInvStep ==
  ASSUME AlwaysFires, SlotInv, [Next]_vars
  PROVE  SlotInv'
<1>0. /\ ScheduleTypes /\ ScheduleTypes' /\ MaxTime \in Nat /\ clock \in 0..MaxTime /\ clock' \in 0..MaxTime
      /\ clock <= clock' /\ CronJobs \subseteq Jobs
      /\ RightlySet(jobs) /\ RightlySet(disk) /\ RightlySet(tick.keep) /\ RightlySet(command.list)
      /\ tick.now <= clock /\ \A j \in Jobs : since[j] <= clock
  <2>1. ScheduleTypes /\ ScheduleTypes'
    BY TypesStep DEF SlotInv
  <2>2. clock' = clock \/ clock' = clock + 1
    BY DEF Next, TickStep, LoopStep, TickRead, TickSend, TickWrite, TickPanics, AddRead, AddWrite, CancelRead,
           CancelWrite, TakePrompt, Minute, HarnessEnds, Crash, Rehost, RehostSkips, Resume, LoadSession, vars
  <2>3. clock \in 0..MaxTime /\ clock' \in 0..MaxTime
    BY <2>1 DEF ScheduleTypes, OtherTypes
  <2>4. clock \in Nat /\ clock <= clock'
    BY <2>2, <2>3, TimesAssumption
  <2> QED  BY <2>1, <2>3, <2>4, TimesAssumption, JobsAssumption DEF SlotInv
<1>a. /\ jobs \in Lists /\ disk \in Lists /\ tick.keep \in Lists /\ command.list \in Lists
      /\ tick.now \in 0..MaxTime /\ \A j \in Jobs : since[j] \in 0..MaxTime
      /\ clock \in Nat /\ clock' \in Nat
  BY <1>0, TickFacts DEF ScheduleTypes, ListTypes, OtherTypes
(* A list that is kept stays right as time passes. *)
<1>b. ASSUME NEW f \in Lists, \A j \in DOMAIN f \cap CronJobs : NextSlot(j, f[j].next, clock)
      PROVE  \A j \in DOMAIN f \cap CronJobs : NextSlot(j, f[j].next, clock')
  BY <1>0, <1>a, <1>b, SlotLater, ListFacts
<1> DEFINE Right(f) == \A j \in DOMAIN f \cap CronJobs : NextSlot(j, f[j].next, clock')
<1>c. Right(jobs) /\ Right(disk) /\ Right(tick.keep) /\ Right(command.list) /\ Right(Empty)
  BY <1>0, <1>a, <1>b, EmptyIs DEF RightlySet
<1>d. ASSUME Right(jobs'), Right(disk'), Right(tick'.keep), Right(command'.list), tick'.now <= clock',
             \A j \in Jobs : since'[j] <= clock'
      PROVE  SlotInv'
  BY <1>0, <1>d DEF SlotInv, RightlySet
<1>e. tick.now <= clock' /\ \A j \in Jobs : since[j] <= clock'
  BY <1>0, <1>a
<1> HIDE DEF Right
<1>s. ASSUME NEW list \in Lists, NEW ok \in BOOLEAN, Store(list, ok), Right(list)
      PROVE  Right(jobs') /\ Right(disk')
  BY <1>c, <1>s, StoreEffect
<1>1. CASE TickRead
  <2>1. Right(tick'.keep)
    BY <1>1, <1>c, ReadEffect, <1>0 DEF Right
  <2> QED  BY <1>0, <1>1, <1>c, <1>d, <1>e, <2>1, ReadEffect DEF TickRead, lists, told
<1>2. ASSUME NEW j \in Jobs, TickSend(j) PROVE SlotInv'
  <2>1. ASSUME NEW k \in DOMAIN tick'.keep \cap CronJobs PROVE NextSlot(k, tick'.keep[k].next, clock')
    <3>1. CASE k = j /\ up
      BY <1>0, <1>2, <1>a, <1>e, <3>1, <2>1, SlotFound, SendEffect
    <3>2. CASE ~(k = j /\ up)
      BY <1>0, <1>2, <1>c, <3>2, <2>1, SendEffect DEF Right
    <3> QED  BY <3>1, <3>2
  <2>2. Right(tick'.keep) /\ tick'.now = tick.now
    BY <1>0, <1>2, <2>1, SendEffect DEF Right
  <2> QED  BY <1>2, <1>c, <1>d, <1>e, <2>2 DEF TickSend, lists, told
<1>3. CASE TickWrite
  <2>1. Right(jobs') /\ Right(disk')
    BY <1>3, <1>a, <1>c, <1>s DEF TickWrite, lists
  <2>2. Right(tick'.keep) /\ tick'.now <= clock'
    BY <1>3, <1>a, <1>c, NoTickFacts DEF TickWrite
  <2> QED  BY <1>3, <1>c, <1>d, <1>e, <2>1, <2>2 DEF TickWrite, told
<1>4. CASE TickPanics
  <2>2. Right(tick'.keep) /\ tick'.now <= clock'
    BY <1>4, <1>a, <1>c, NoTickFacts DEF TickPanics
  <2> QED  BY <1>4, <1>c, <1>d, <1>e, <2>2 DEF TickPanics, lists, told
<1>5. ASSUME NEW j \in Jobs, AddRead(j) PROVE SlotInv'
  <2>1. command'.list = jobs
    BY <1>5 DEF AddRead
  <2>2. \A k \in Jobs : since'[k] <= clock'
    BY <1>0, <1>5, <1>e, <1>a DEF AddRead, ScheduleTypes, OtherTypes
  <2> QED  BY <1>5, <1>c, <1>d, <1>e, <2>1, <2>2 DEF AddRead, lists
<1>6. CASE AddWrite
  <2>1. PICK list \in Lists, ok \in BOOLEAN :
           /\ Store(list, ok) /\ DOMAIN list = DOMAIN command.list \cup {command.job}
           /\ list[command.job].next = NextFire(command.job, since[command.job])
           /\ \A k \in DOMAIN command.list \ {command.job} : list[k] = command.list[k]
    BY <1>0, <1>6, AddEffect
  <2>2. ASSUME NEW k \in DOMAIN list \cap CronJobs PROVE NextSlot(k, list[k].next, clock')
    <3>1. CASE k = command.job
      BY <1>0, <1>a, <1>e, <2>1, <2>2, <3>1, SlotFound
    <3>2. CASE k # command.job
      BY <1>c, <2>1, <2>2, <3>2 DEF Right
    <3> QED  BY <3>1, <3>2
  <2>3. Right(jobs') /\ Right(disk')
    <3>1. Right(list)
      BY <2>2 DEF Right
    <3> QED  BY <2>1, <3>1, <1>s
  <2>4. Right(command'.list)
    BY <1>6, <1>c, NoTickFacts DEF AddWrite
  <2> QED  BY <1>6, <1>c, <1>d, <1>e, <2>3, <2>4 DEF AddWrite
<1>7. ASSUME NEW j \in Jobs, CancelRead(j) PROVE SlotInv'
  <2>1. command'.list = jobs
    BY <1>7 DEF CancelRead
  <2> QED  BY <1>7, <1>c, <1>d, <1>e, <2>1 DEF CancelRead, lists, told
<1>8. CASE CancelWrite
  <2>1. PICK list \in Lists, ok \in BOOLEAN :
           /\ Store(list, ok) /\ DOMAIN list = DOMAIN command.list \ {command.job}
           /\ \A k \in DOMAIN list : list[k] = command.list[k]
    BY <1>0, <1>8, CancelEffect
  <2>3. Right(jobs') /\ Right(disk')
    <3>1. Right(list)
      BY <1>c, <2>1 DEF Right
    <3> QED  BY <2>1, <3>1, <1>s
  <2>4. Right(command'.list)
    BY <1>8, <1>c, NoTickFacts DEF CancelWrite
  <2> QED  BY <1>8, <1>c, <1>d, <1>e, <2>3, <2>4 DEF CancelWrite
<1>9. CASE TakePrompt \/ Minute \/ RehostSkips \/ UNCHANGED vars
  BY <1>9, <1>c, <1>d, <1>e DEF TakePrompt, Minute, RehostSkips, vars, lists, told, tasks
<1>10. CASE HarnessEnds
  <2>1. Right(command'.list)
    BY <1>10, <1>c, NoTickFacts DEF HarnessEnds
  <2> QED  BY <1>10, <1>c, <1>d, <1>e, <2>1 DEF HarnessEnds, lists, told
<1>11. CASE Crash
  <2>1. Right(command'.list) /\ Right(tick'.keep) /\ tick'.now <= clock'
    BY <1>11, <1>a, <1>c, NoTickFacts DEF Crash
  <2> QED  BY <1>11, <1>c, <1>d, <1>e, <2>1 DEF Crash, lists, told
<1>12. CASE LoadSession
  <2>1. tick'.keep = tick.keep /\ tick'.now = tick.now
    BY <1>0, <1>12 DEF LoadSession, ScheduleTypes, TickTypes, Ticks
  <2> QED  BY <1>12, <1>c, <1>d, <1>e, <2>1 DEF LoadSession, told
<1> QED  BY <1>1, <1>2, <1>3, <1>4, <1>5, <1>6, <1>7, <1>8, <1>9, <1>10, <1>11, <1>12 DEF Next, TickStep, LoopStep, Rehost, Resume

(* A recurring job is set to a minute it is meant for and to none past the    *)
(* next one to come, with ticks, commands, panics, restarts and stale copies  *)
(* interleaved in any way, if its expression has matches to come (cron.rs,    *)
(* next_fire; otherwise it falls back to the day after).                      *)
THEOREM RecurringSetToNext ==
  ASSUME AlwaysFires
  PROVE  Spec => []SetToNextSlot
<1>1. Init => SlotInv
  <2> SUFFICES ASSUME Init PROVE SlotInv
    OBVIOUS
  <2>1. ScheduleTypes /\ DOMAIN Empty = {} /\ tick.now = 0 /\ clock = 0
    BY TypesInit, EmptyIs, NoTickFacts DEF Init
  <2> QED  BY <2>1, NoTickFacts DEF Init, SlotInv, RightlySet
<1>2. SlotInv /\ [Next]_vars => SlotInv'
  BY SlotInvStep
<1>3. SlotInv => SetToNextSlot
  BY DEF SlotInv, RightlySet, NextSlot, SetToNextSlot
<1> QED  BY <1>1, <1>2, <1>3, PTL DEF Spec

-----------------------------------------------------------------------------
(* When commands and rehosts wait for the tick. *)

LEMMA InvFacts ==
  ASSUME ScheduleInv
  PROVE  /\ ScheduleTypes /\ OneTask /\ ListedJobs /\ Kept /\ TickCopy /\ Counted
         /\ jobs \in Lists /\ disk \in Lists /\ tick.keep \in Lists /\ command.list \in Lists
         /\ DOMAIN jobs \subseteq Jobs /\ DOMAIN disk \subseteq Jobs /\ DOMAIN tick.keep \subseteq Jobs
         /\ clock \in Nat /\ faults \in Nat /\ tick.now \in Nat /\ MaxAge \in Nat
         /\ \A j \in Jobs : sends[j] \in Seq(Nat) /\ since[j] \in Nat
<1>1. jobs \in Lists /\ disk \in Lists /\ ScheduleTypes
  BY DEF ScheduleInv, ScheduleTypes, ListTypes
<1>2. \A j \in Jobs : sends[j] \in Seq(Nat) /\ since[j] \in Nat
  BY <1>1 DEF ScheduleTypes, OtherTypes
<1> QED  BY <1>1, <1>2, TickFacts, ListFacts, TimesAssumption DEF ScheduleInv

(* A write: the list in memory is replaced, and the one on disk unless the    *)
(* write fails.                                                               *)
Replaced(list) == jobs' = list /\ ((disk' = list /\ faults' = faults) \/ (disk' = disk /\ Fault))

LEMMA ReplacedBy ==
  ASSUME NEW list, NEW ok \in BOOLEAN, Store(list, ok)
  PROVE  Replaced(list) /\ (ok => disk' = list)
BY DEF Store, Replaced

(* The step of the tick that changes the lists. *)
LEMMA WriteEffect ==
  ASSUME ScheduleInv, TickWrite
  PROVE  /\ Sending /\ tick' = NoTick
         /\ \/ /\ UNCHANGED <<jobs, disk, faults>> /\ \A j \in Jobs : ~Moved(j)
            \/ Replaced(tick.keep)
<1>0. Sending /\ tick' = NoTick /\ ~tick.stale /\ OneTask /\ TickCopy /\ jobs \in Lists
  BY InvFacts DEF TickWrite, Sending, OneTask
<1>1. CASE Cardinality(DOMAIN tick.keep) = tick.size /\ ~tick.sent
  <2>1. DOMAIN tick.keep \subseteq DOMAIN jobs /\ IsFiniteSet(DOMAIN jobs)
        /\ Cardinality(DOMAIN tick.keep) = Cardinality(DOMAIN jobs)
    BY <1>0, <1>1, ListFacts DEF TickCopy, OneTask
  <2>2. DOMAIN tick.keep = DOMAIN jobs
    BY <2>1, FS_Subset
  <2>3. \A j \in Jobs : ~Moved(j)
    BY <1>0, <1>1, <2>2 DEF TickCopy, Moved
  <2> QED  BY <1>0, <1>1, <2>3 DEF TickWrite, lists
<1>2. CASE ~(Cardinality(DOMAIN tick.keep) = tick.size /\ ~tick.sent)
  BY <1>0, <1>2, ReplacedBy DEF TickWrite
<1> QED  BY <1>1, <1>2

LEMMA OneTaskStep ==
  ASSUME ~Overlap, ScheduleInv, [Next]_vars
  PROVE  OneTask'
<1>0. OneTask /\ ScheduleTypes /\ command \in Commands /\ tick \in Ticks
      /\ (tick.at = "idle" => tick = NoTick)
  BY InvFacts DEF ScheduleTypes, CommandTypes, TickTypes
<1>1. CASE TickRead
  BY <1>0, <1>1, ReadEffect DEF OneTask, Sending, TickRead, lists, told
<1>2. ASSUME NEW j \in Jobs, TickSend(j) PROVE OneTask'
  BY <1>0, <1>2, SendEffect DEF OneTask, Sending, TickSend, lists, told
<1>3. CASE TickWrite
  BY <1>0, <1>3, NoTickFacts DEF OneTask, Sending, TickWrite, told
<1>4. CASE TickPanics
  BY <1>0, <1>4, NoTickFacts DEF OneTask, Sending, TickPanics, told, lists
<1>5. ASSUME NEW j \in Jobs, AddRead(j) PROVE OneTask'
  BY <1>0, <1>5 DEF OneTask, Sending, AddRead, LoopFree, Awaited, lists
<1>6. CASE AddWrite \/ CancelWrite
  BY <1>0, <1>6, NoTickFacts DEF OneTask, Sending, AddWrite, CancelWrite, Awaited
<1>7. ASSUME NEW j \in Jobs, CancelRead(j) PROVE OneTask'
  BY <1>0, <1>7 DEF OneTask, Sending, CancelRead, LoopFree, Awaited, lists, told
<1>8. CASE TakePrompt \/ Minute \/ RehostSkips \/ UNCHANGED vars
  BY <1>0, <1>8 DEF OneTask, Sending, TakePrompt, Minute, RehostSkips, vars, lists, told, tasks
<1>9. CASE HarnessEnds
  BY <1>0, <1>9, NoTickFacts DEF OneTask, Sending, HarnessEnds, lists, told
<1>10. CASE Crash
  BY <1>0, <1>10, NoTickFacts DEF OneTask, Sending, Crash, lists, told
<1>11. CASE LoadSession
  <2>1. tick.at = "idle" /\ command.op = "none"
    BY <1>0, <1>11 DEF LoadSession, Awaited, OneTask
  <2>2. ~tick'.stale /\ tick'.at = "idle"
    BY <1>0, <1>11, <2>1 DEF LoadSession, Ticks
  <2> QED  BY <1>0, <1>11, <2>1, <2>2 DEF OneTask, Sending, LoadSession, told
<1> QED  BY <1>1, <1>2, <1>3, <1>4, <1>5, <1>6, <1>7, <1>8, <1>9, <1>10, <1>11 DEF Next, TickStep, LoopStep, Rehost, Resume

(* What a step does besides the lists, the tick and what the user is told.    *)
LEMMA HistoryStep ==
  ASSUME ScheduleInv, [Next]_vars
  PROVE  /\ clock' = clock \/ clock' = clock + 1
         /\ \A j \in Jobs : status[j] # "none" => since'[j] = since[j]
         /\ \/ sends' = sends
            \/ \E j \in Jobs : TickSend(j) /\ up /\ sends' = [sends EXCEPT ![j] = Append(sends[j], tick.keep[j].next)]
         /\ since' = since \/ \E j \in Jobs : AddRead(j)
<1>0. ScheduleTypes /\ since \in [Jobs -> Nat] /\ sends \in [Jobs -> Seq(Nat)]
  BY InvFacts DEF ScheduleTypes, OtherTypes
<1>1. clock' = clock \/ clock' = clock + 1
  BY DEF Next, TickStep, LoopStep, TickRead, TickSend, TickWrite, TickPanics, AddRead, AddWrite, CancelRead,
         CancelWrite, TakePrompt, Minute, HarnessEnds, Crash, Rehost, RehostSkips, Resume, LoadSession, vars
<1>2. since' = since \/ \E j \in Jobs : AddRead(j)
  BY DEF Next, TickStep, LoopStep, TickRead, TickSend, TickWrite, TickPanics, AddWrite, CancelRead,
         CancelWrite, TakePrompt, Minute, HarnessEnds, Crash, Rehost, RehostSkips, Resume, LoadSession, vars, told
<1>3. sends' = sends \/ \E j \in Jobs : TickSend(j)
  BY DEF Next, TickStep, LoopStep, TickRead, TickWrite, TickPanics, AddRead, AddWrite, CancelRead,
         CancelWrite, TakePrompt, Minute, HarnessEnds, Crash, Rehost, RehostSkips, Resume, LoadSession, vars
<1>4. \A j \in Jobs : status[j] # "none" => since'[j] = since[j]
  BY <1>0, <1>2 DEF AddRead
<1>5. \/ sends' = sends
      \/ \E j \in Jobs : TickSend(j) /\ up /\ sends' = [sends EXCEPT ![j] = Append(sends[j], tick.keep[j].next)]
  BY <1>0, <1>3 DEF TickSend
<1> QED  BY <1>1, <1>2, <1>4, <1>5

LEMMA SettledStays ==
  ASSUME ScheduleInv, [Next]_vars, NEW j \in Jobs, status[j] # "none", Settled(j)
  PROVE  Settled(j)'
<1>0. /\ clock \in Nat /\ MaxAge \in Nat /\ since[j] \in Nat /\ since'[j] = since[j]
      /\ clock' = clock \/ clock' = clock + 1
  BY InvFacts, HistoryStep
<1>1. CASE Expired(j)
  BY <1>0, <1>1 DEF Expired, Settled
<1>2. CASE j \in Once /\ sends[j] # <<>>
  <2>1. sends'[j] # <<>>
    <3>1. CASE sends' = sends
      BY <1>2, <3>1
    <3>2. ASSUME NEW i \in Jobs, TickSend(i), sends' = [sends EXCEPT ![i] = Append(sends[i], tick.keep[i].next)]
          PROVE  sends'[j] # <<>>
      <4>1. ScheduleTypes /\ i \in DOMAIN tick.keep /\ tick.keep \in Lists
        BY <3>2, InvFacts, SendEffect
      <4>2. tick.keep[i].next \in Nat /\ sends[i] \in Seq(Nat) /\ sends \in [Jobs -> Seq(Nat)]
        BY <4>1, ListFacts DEF ScheduleTypes, OtherTypes
      <4>3. Append(sends[i], tick.keep[i].next) # <<>>
        BY <4>2
      <4> QED  BY <1>2, <3>2, <4>2, <4>3
    <3> QED  BY <3>1, <3>2, HistoryStep
  <2> QED  BY <1>2, <2>1 DEF Settled
<1> QED  BY <1>1, <1>2 DEF Settled

(* The commands, which work on the list as it is. *)
LEMMA AddInv ==
  ASSUME ~Overlap, ScheduleInv, AddWrite
  PROVE  LET j == command.job
         IN /\ j \in Jobs /\ status[j] = "none" /\ sends[j] = <<>> /\ tick.at = "idle"
            /\ j \notin DOMAIN jobs /\ j \notin DOMAIN disk
            /\ \E list \in Lists, ok \in BOOLEAN :
                 /\ Replaced(list) /\ (ok => disk' = list) /\ DOMAIN list = DOMAIN jobs \cup {j}
                 /\ list[j].created = since[j]
                 /\ \A k \in DOMAIN jobs : k # j /\ list[k] = jobs[k]
                 /\ status' = [status EXCEPT ![j] = IF ok THEN "armed" ELSE "refused"]
<1>0. ScheduleTypes /\ OneTask /\ ListedJobs /\ command.job \in Jobs
  BY InvFacts, TickFacts
<1>1. /\ command.list = jobs /\ status[command.job] = "none" /\ tick.at = "idle"
      /\ sends[command.job] = <<>> /\ command.job \notin DOMAIN jobs \cup DOMAIN disk
  BY <1>0 DEF AddWrite, OneTask, ListedJobs
<1>2. PICK list \in Lists, ok \in BOOLEAN :
         /\ Store(list, ok) /\ DOMAIN list = DOMAIN command.list \cup {command.job}
         /\ list[command.job].created = since[command.job]
         /\ \A k \in DOMAIN command.list \ {command.job} : list[k] = command.list[k]
         /\ status' = [status EXCEPT ![command.job] = IF ok THEN "armed" ELSE "refused"]
  BY <1>0, AddEffect
<1>3. Replaced(list) /\ (ok => disk' = list)
  BY <1>2, ReplacedBy
<1> QED  BY <1>0, <1>1, <1>2, <1>3

LEMMA CancelInv ==
  ASSUME ~Overlap, ScheduleInv, CancelWrite
  PROVE  LET j == command.job
         IN /\ j \in Jobs /\ tick.at = "idle"
            /\ \E list \in Lists, ok \in BOOLEAN :
                 /\ Replaced(list) /\ (ok => disk' = list) /\ DOMAIN list = DOMAIN jobs \ {j}
                 /\ \A k \in DOMAIN list : list[k] = jobs[k]
                 /\ status' = [status EXCEPT ![j] = IF ok THEN "cancelled" ELSE "failed"]
<1>0. ScheduleTypes /\ OneTask /\ command.job \in Jobs
  BY InvFacts, TickFacts
<1>1. command.list = jobs /\ tick.at = "idle"
  BY <1>0 DEF CancelWrite, OneTask
<1>2. PICK list \in Lists, ok \in BOOLEAN :
         /\ Store(list, ok) /\ DOMAIN list = DOMAIN command.list \ {command.job}
         /\ \A k \in DOMAIN list : list[k] = command.list[k]
         /\ status' = [status EXCEPT ![command.job] = IF ok THEN "cancelled" ELSE "failed"]
  BY <1>0, CancelEffect
<1>3. Replaced(list) /\ (ok => disk' = list)
  BY <1>2, ReplacedBy
<1> QED  BY <1>0, <1>1, <1>2, <1>3

(* Which steps change the lists, and to what. *)
LEMMA ListStep ==
  ASSUME ~Overlap, ScheduleInv, [Next]_vars
  PROVE  \/ UNCHANGED <<jobs, disk>>
         \/ TickWrite /\ Replaced(tick.keep) /\ UNCHANGED status
         \/ AddWrite
         \/ CancelWrite
         \/ LoadSession /\ tick.at = "idle" /\ jobs' = disk /\ disk' = disk /\ UNCHANGED status
<1>1. TickWrite => \/ UNCHANGED <<jobs, disk>>
                   \/ Replaced(tick.keep) /\ UNCHANGED status
  BY WriteEffect DEF TickWrite, told
<1>2. LoadSession => tick.at = "idle" /\ jobs' = disk /\ disk' = disk /\ UNCHANGED status
  BY DEF LoadSession, Awaited, told
<1> QED  BY <1>1, <1>2 DEF Next, TickStep, LoopStep, TickRead, TickSend, TickPanics, AddRead, CancelRead,
         TakePrompt, Minute, HarnessEnds, Crash, Rehost, RehostSkips, Resume, vars, lists

LEMMA ListedStep ==
  ASSUME ~Overlap, ScheduleInv, [Next]_vars
  PROVE  ListedJobs'
<1>0. /\ ScheduleTypes /\ ListedJobs /\ TickCopy /\ status \in [Jobs -> {"none", "armed", "refused", "cancelled", "failed"}]
      /\ DOMAIN jobs \subseteq Jobs /\ DOMAIN disk \subseteq Jobs
  BY InvFacts DEF ScheduleTypes, OtherTypes
<1> DEFINE Good(f) == \A j \in DOMAIN f : f[j].created = since'[j] /\ status'[j] \notin {"none", "cancelled"}
           Fresh == \A j \in Jobs : status'[j] = "none" => sends'[j] = <<>>
<1>a. Good(jobs') /\ Good(disk') /\ Fresh => ListedJobs'
  BY DEF ListedJobs
<1>b. \A j \in DOMAIN jobs : jobs[j].created = since'[j]
  BY <1>0, HistoryStep DEF ListedJobs
<1>c. \A j \in DOMAIN disk : disk[j].created = since'[j]
  BY <1>0, HistoryStep DEF ListedJobs
<1>d. UNCHANGED status => Good(jobs) /\ Good(disk)
  BY <1>0, <1>b, <1>c DEF ListedJobs
<1>e. UNCHANGED status => Fresh
  <2> SUFFICES ASSUME UNCHANGED status, NEW j \in Jobs, status'[j] = "none" PROVE sends'[j] = <<>>
    OBVIOUS
  <2>1. sends[j] = <<>> /\ j \notin DOMAIN jobs /\ sends \in [Jobs -> Seq(Nat)]
    BY <1>0 DEF ListedJobs, ScheduleTypes, OtherTypes
  <2>2. ASSUME NEW i \in Jobs, TickSend(i) PROVE i # j
    BY <1>0, <2>1, <2>2, SendEffect DEF TickCopy
  <2> QED  BY <2>1, <2>2, HistoryStep
<1>1. CASE UNCHANGED status /\ UNCHANGED <<jobs, disk>>
  BY <1>1, <1>a, <1>d, <1>e
<1>2. CASE TickWrite /\ Replaced(tick.keep) /\ UNCHANGED status
  <2>1. Good(tick.keep)
    BY <1>0, <1>2, <1>d DEF TickCopy, TickWrite, Sending
  <2> QED  BY <1>2, <1>a, <1>d, <1>e, <2>1 DEF Replaced
<1>3. CASE AddWrite
  <2>1. PICK j \in Jobs, list \in Lists, ok \in BOOLEAN :
           /\ Replaced(list) /\ DOMAIN list = DOMAIN jobs \cup {j}
           /\ list[j].created = since[j] /\ j \notin DOMAIN disk
           /\ \A k \in DOMAIN jobs : k # j /\ list[k] = jobs[k]
           /\ status' = [status EXCEPT ![j] = IF ok THEN "armed" ELSE "refused"]
    BY <1>3, AddInv
  <2>2. since' = since /\ sends' = sends
    BY <1>3 DEF AddWrite
  <2>3. Good(list)
    BY <1>0, <2>1, <2>2 DEF ListedJobs
  <2>4. Good(disk)
    BY <1>0, <2>1, <2>2 DEF ListedJobs
  <2>5. Fresh
    BY <1>0, <2>1, <2>2 DEF ListedJobs
  <2> QED  BY <1>a, <2>1, <2>3, <2>4, <2>5 DEF Replaced
<1>4. CASE CancelWrite
  <2>1. PICK j \in Jobs, list \in Lists, ok \in BOOLEAN :
           /\ Replaced(list) /\ (ok => disk' = list) /\ DOMAIN list = DOMAIN jobs \ {j}
           /\ \A k \in DOMAIN list : list[k] = jobs[k]
           /\ status' = [status EXCEPT ![j] = IF ok THEN "cancelled" ELSE "failed"]
    BY <1>4, CancelInv
  <2>2. since' = since /\ sends' = sends
    BY <1>4 DEF CancelWrite
  <2>3. Good(list)
    BY <1>0, <2>1, <2>2 DEF ListedJobs
  <2>4. ~ok => Good(disk)
    BY <1>0, <2>1, <2>2 DEF ListedJobs
  <2>5. Fresh
    BY <1>0, <2>1, <2>2 DEF ListedJobs
  <2> QED  BY <1>a, <2>1, <2>3, <2>4, <2>5 DEF Replaced
<1>5. CASE LoadSession /\ jobs' = disk /\ disk' = disk /\ UNCHANGED status
  BY <1>5, <1>a, <1>d, <1>e
<1>6. UNCHANGED status \/ AddWrite \/ CancelWrite
  BY DEF Next, TickStep, LoopStep, TickRead, TickSend, TickWrite, TickPanics, AddRead, CancelRead,
         TakePrompt, Minute, HarnessEnds, Crash, Rehost, RehostSkips, Resume, LoadSession, vars, told
<1> QED  BY <1>1, <1>2, <1>3, <1>4, <1>5, <1>6, ListStep

LEMMA KeptStep ==
  ASSUME ~Overlap, ScheduleInv, [Next]_vars
  PROVE  Kept'
<1>0. ScheduleTypes /\ ListedJobs /\ Kept /\ TickCopy /\ status \in [Jobs -> {"none", "armed", "refused", "cancelled", "failed"}]
  BY InvFacts DEF ScheduleTypes, OtherTypes
<1> SUFFICES ASSUME NEW j \in Jobs, status'[j] = "armed", ~Settled(j)'
             PROVE  j \in DOMAIN jobs' /\ j \in DOMAIN disk'
  BY DEF Kept, Accounted, Armed
<1>a. status[j] = "armed" => j \in DOMAIN jobs /\ j \in DOMAIN disk /\ ~Settled(j)
  BY <1>0, SettledStays DEF Kept, Accounted, Armed
<1>1. CASE UNCHANGED status /\ UNCHANGED <<jobs, disk>>
  BY <1>1, <1>a
<1>2. CASE TickWrite /\ Replaced(tick.keep) /\ UNCHANGED status
  <2>1. j \in DOMAIN tick.keep
    BY <1>0, <1>2, <1>a DEF TickCopy, TickWrite, Sending, Accounted
  <2> QED  BY <1>2, <1>a, <2>1 DEF Replaced
<1>3. CASE AddWrite
  <2>1. PICK i \in Jobs, list \in Lists, ok \in BOOLEAN :
           /\ Replaced(list) /\ (ok => disk' = list) /\ DOMAIN list = DOMAIN jobs \cup {i}
           /\ status' = [status EXCEPT ![i] = IF ok THEN "armed" ELSE "refused"]
    BY <1>3, AddInv
  <2>2. ok \/ i # j
    BY <1>0, <2>1
  <2> QED  BY <1>0, <1>a, <2>1, <2>2 DEF Replaced
<1>4. CASE CancelWrite
  <2>1. PICK i \in Jobs, list \in Lists, ok \in BOOLEAN :
           /\ Replaced(list) /\ DOMAIN list = DOMAIN jobs \ {i}
           /\ status' = [status EXCEPT ![i] = IF ok THEN "cancelled" ELSE "failed"]
    BY <1>4, CancelInv
  <2>2. i # j
    BY <1>0, <2>1
  <2> QED  BY <1>0, <1>a, <2>1, <2>2 DEF Replaced
<1>5. CASE LoadSession /\ jobs' = disk /\ disk' = disk /\ UNCHANGED status
  BY <1>5, <1>a
<1>6. UNCHANGED status \/ AddWrite \/ CancelWrite
  BY DEF Next, TickStep, LoopStep, TickRead, TickSend, TickWrite, TickPanics, AddRead, CancelRead,
         TakePrompt, Minute, HarnessEnds, Crash, Rehost, RehostSkips, Resume, LoadSession, vars, told
<1> QED  BY <1>1, <1>2, <1>3, <1>4, <1>5, <1>6, ListStep

(* What else can happen while a tick sends: nothing that touches the lists.   *)
LEMMA SendingStep ==
  ASSUME ~Overlap, ScheduleInv, [Next]_vars, tick'.at = "sending"
  PROVE  /\ UNCHANGED <<jobs, disk>>
         /\ \/ TickRead
            \/ \E j \in Jobs : TickSend(j)
            \/ tick' = tick /\ sends' = sends
<1>0. OneTask /\ ScheduleTypes /\ tick \in Ticks /\ NoTick.at = "idle"
  BY InvFacts, NoTickFacts DEF ScheduleTypes, TickTypes
<1>1. CASE TickRead
  BY <1>1 DEF TickRead, lists
<1>2. CASE \E j \in Jobs : TickSend(j)
  BY <1>2 DEF TickSend, lists
<1>3. CASE LoadSession
  BY <1>0, <1>3 DEF LoadSession, Awaited, Ticks
<1>4. CASE AddWrite \/ CancelWrite
  BY <1>0, <1>4 DEF AddWrite, CancelWrite, Awaited
<1>5. CASE TickWrite \/ TickPanics \/ Crash
  BY <1>0, <1>5 DEF TickWrite, TickPanics, Crash
<1>6. CASE TakePrompt \/ Minute \/ RehostSkips \/ HarnessEnds \/ (\E j \in Jobs : AddRead(j) \/ CancelRead(j)) \/ UNCHANGED vars
  BY <1>6 DEF TakePrompt, Minute, RehostSkips, HarnessEnds, AddRead, CancelRead, vars, lists, tasks
<1> QED  BY <1>1, <1>2, <1>3, <1>4, <1>5, <1>6 DEF Next, TickStep, LoopStep, Rehost, Resume

LEMMA TickCopyStep ==
  ASSUME ~Overlap, ScheduleInv, [Next]_vars
  PROVE  TickCopy'
<1>0. /\ ScheduleTypes /\ OneTask /\ ListedJobs /\ TickCopy /\ clock \in Nat /\ tick.now \in Nat
      /\ clock' = clock \/ clock' = clock + 1
      /\ DOMAIN jobs \subseteq Jobs /\ DOMAIN tick.keep \subseteq Jobs
      /\ sends \in [Jobs -> Seq(Nat)] /\ tick.left \subseteq DOMAIN tick.keep
  BY InvFacts, HistoryStep DEF ScheduleTypes, OtherTypes, TickTypes
<1> SUFFICES ASSUME tick'.at = "sending" PROVE TickCopy'
  BY DEF TickCopy, Sending
<1>a. UNCHANGED <<jobs, disk>>
  BY SendingStep
<1>b. ASSUME NEW j \in DOMAIN jobs, Settled(j) PROVE Settled(j)'
  BY <1>0, <1>b, SettledStays DEF ListedJobs
<1>1. CASE TickRead
  <2>1. ASSUME NEW j \in DOMAIN jobs, j \notin DOMAIN tick'.keep PROVE Settled(j)'
    <3>1. j \in CronJobs /\ since[j] + MaxAge < clock
      BY <1>0, <1>1, <2>1, ReadEffect DEF ListedJobs
    <3>2. Settled(j)
      BY <3>1 DEF Settled, Expired
    <3> QED  BY <1>b, <3>2
  <2>2. clock' = clock
    BY <1>1 DEF TickRead
  <2> QED  BY <1>0, <1>1, <1>a, <2>1, <2>2, ReadEffect DEF TickCopy, Accounted, Sending
<1>2. ASSUME NEW j \in Jobs, TickSend(j) PROVE TickCopy'
  <2>0. /\ Sending /\ j \in tick.left /\ j \in DOMAIN tick.keep /\ tick'.left = tick.left \ {j}
        /\ tick'.now = tick.now /\ DOMAIN tick'.keep \subseteq DOMAIN tick.keep
        /\ \A k \in DOMAIN tick.keep \ {j} : k \in DOMAIN tick'.keep /\ tick'.keep[k] = tick.keep[k]
        /\ j \in DOMAIN tick'.keep => tick'.keep[j].created = tick.keep[j].created
        /\ ~tick'.sent => tick'.keep = tick.keep /\ ~tick.sent
    BY <1>0, <1>2, SendEffect
  <2>1. ASSUME NEW k \in DOMAIN jobs, k \notin DOMAIN tick'.keep PROVE Settled(k)'
    <3>1. CASE k = j
      <4>1. /\ j \notin CronJobs /\ sends' = [sends EXCEPT ![j] = Append(sends[j], tick.keep[j].next)]
        BY <1>0, <1>2, <2>0, <2>1, <3>1, SendEffect
      <4>2. tick.keep[j].next \in Nat
        BY <2>0, InvFacts, ListFacts
      <4>3. sends'[j] # <<>>
        BY <1>0, <4>1, <4>2
      <4> QED  BY <3>1, <4>1, <4>3 DEF Settled, Once
    <3>2. CASE k # j
      <4>1. k \notin DOMAIN tick.keep
        BY <2>0, <2>1, <3>2
      <4>2. Settled(k)
        BY <1>0, <2>0, <4>1 DEF TickCopy, Accounted
      <4> QED  BY <1>b, <4>2
    <3> QED  BY <3>1, <3>2
  <2>2. /\ DOMAIN tick.keep \subseteq DOMAIN jobs /\ tick.now <= clock
        /\ \A k \in tick.left : tick.keep[k] = jobs[k] /\ jobs[k].next <= tick.now
        /\ \A k \in DOMAIN tick.keep : tick.keep[k].created = jobs[k].created
        /\ ~tick.sent => \A k \in DOMAIN tick.keep : tick.keep[k] = jobs[k]
    BY <1>0, <2>0 DEF TickCopy
  <2>3. \A k \in tick'.left : tick'.keep[k] = jobs[k] /\ jobs[k].next <= tick.now
    BY <1>0, <2>0, <2>2
  <2>4. \A k \in DOMAIN tick'.keep : tick'.keep[k].created = jobs[k].created
    BY <2>0, <2>2
  <2> QED  BY <1>0, <1>a, <2>0, <2>1, <2>2, <2>3, <2>4 DEF TickCopy, Accounted
<1>3. CASE tick' = tick /\ sends' = sends
  <2>1. Sending
    BY <1>3 DEF Sending
  <2>2. \A j \in DOMAIN jobs \ DOMAIN tick.keep : Settled(j)'
    BY <1>0, <1>b, <2>1 DEF TickCopy, Accounted
  <2> QED  BY <1>0, <1>3, <1>a, <2>1, <2>2 DEF TickCopy, Accounted
<1> QED  BY <1>1, <1>2, <1>3, SendingStep

-----------------------------------------------------------------------------
(* Counting what was sent. *)

LEMMA AppendCount ==
  ASSUME NEW s \in Seq(Nat), NEW x \in Nat, IsFiniteSet(Range(s))
  PROVE  /\ IsFiniteSet(Range(Append(s, x)))
         /\ Cardinality(Range(s)) \in Nat /\ Len(s) \in Nat
         /\ x \in Range(s) =>
              Len(Append(s, x)) - Cardinality(Range(Append(s, x))) = Len(s) - Cardinality(Range(s)) + 1
         /\ x \notin Range(s) =>
              Len(Append(s, x)) - Cardinality(Range(Append(s, x))) = Len(s) - Cardinality(Range(s))
<1>1. /\ Len(Append(s, x)) = Len(s) + 1 /\ Range(Append(s, x)) = Range(s) \cup {x} /\ Len(s) \in Nat
      /\ Cardinality(Range(s)) \in Nat
  BY RangeAppend, FS_CardinalityType
<1>2. /\ IsFiniteSet(Range(s) \cup {x})
      /\ Cardinality(Range(s) \cup {x}) =
           IF x \in Range(s) THEN Cardinality(Range(s)) ELSE Cardinality(Range(s)) + 1
  BY FS_AddElement
<1> QED  BY <1>1, <1>2

LEMMA TwiceIsInt ==
  ASSUME ScheduleInv, NEW j \in Jobs
  PROVE  Twice(j) \in Int /\ Len(sends[j]) \in Nat /\ Cardinality(Range(sends[j])) \in Nat
<1>1. IsFiniteSet(Range(sends[j])) /\ sends[j] \in Seq(Nat)
  BY InvFacts DEF Counted
<1> QED  BY <1>1, FS_CardinalityType DEF Twice

(* A prompt sent: its fire time was sent before only if a fault has been paid *)
(* for it, and the copy is set to a time to come.                             *)
LEMMA CountedSend ==
  ASSUME ~Overlap, ScheduleInv, NEW i \in Jobs, TickSend(i)
  PROVE  Counted'
<1>0. /\ ScheduleTypes /\ TickCopy /\ Counted /\ sends \in [Jobs -> Seq(Nat)]
      /\ jobs \in Lists /\ DOMAIN jobs \subseteq Jobs /\ tick.keep \in Lists /\ DOMAIN tick.keep \subseteq Jobs
      /\ clock \in Nat /\ faults \in Nat /\ tick.now \in Nat
  BY InvFacts DEF ScheduleTypes, OtherTypes
<1>1. /\ Sending /\ i \in tick.left /\ i \in DOMAIN tick.keep /\ tick'.at = "sending" /\ tick'.now = tick.now
      /\ DOMAIN tick'.keep \subseteq DOMAIN tick.keep
      /\ \A k \in DOMAIN tick.keep \ {i} : k \in DOMAIN tick'.keep /\ tick'.keep[k] = tick.keep[k]
      /\ \/ /\ up
            /\ i \in DOMAIN tick'.keep => tick'.keep[i].next = NextFire(i, tick.now)
            /\ sends' = [sends EXCEPT ![i] = Append(sends[i], tick.keep[i].next)]
         \/ ~up /\ tick'.keep = tick.keep /\ sends' = sends
  BY <1>0, <1>0, SendEffect
<1>2. UNCHANGED <<jobs, disk, clock, faults>>
  BY DEF TickSend, lists
<1>3. /\ tick.now <= clock /\ DOMAIN tick.keep \subseteq DOMAIN jobs
      /\ tick.keep[i] = jobs[i] /\ jobs[i].next <= tick.now
  BY <1>0, <1>1 DEF TickCopy
<1>4. jobs[i].next \in Nat /\ NextFire(i, tick.now) \in Nat /\ NextFire(i, tick.now) > tick.now
  BY <1>0, <1>1, <1>3, ListFacts, NextFireAhead
<1>5. CASE ~up /\ tick'.keep = tick.keep /\ sends' = sends
  BY <1>0, <1>1, <1>2, <1>5 DEF Counted, Sending, Moved, Again, Twice
<1>6. CASE up /\ sends' = [sends EXCEPT ![i] = Append(sends[i], jobs[i].next)]
  <2>1. ASSUME NEW j \in Jobs, j # i
        PROVE  /\ \A s \in Range(sends'[j]) : s <= clock /\ s <= tick.now
               /\ IsFiniteSet(Range(sends'[j])) /\ Twice(j)' <= faults
               /\ Again(j, jobs)' \/ Again(j, disk)' => Moved(j)' \/ Twice(j)' + 1 <= faults
               /\ Moved(j)' => ~Again(j, tick.keep)'
    <3>1. sends'[j] = sends[j] /\ Twice(j)' = Twice(j)
      BY <1>0, <1>6, <2>1 DEF Twice
    <3>2. /\ j \in DOMAIN tick'.keep <=> j \in DOMAIN tick.keep
          /\ j \in DOMAIN tick.keep => tick'.keep[j] = tick.keep[j]
      BY <1>1, <2>1
    <3>3. Moved(j)' <=> Moved(j)
      BY <1>1, <1>2, <3>2 DEF Moved, Sending
    <3>4. /\ Again(j, jobs)' = Again(j, jobs) /\ Again(j, disk)' = Again(j, disk)
          /\ Again(j, tick.keep)' = Again(j, tick.keep)
      BY <1>2, <3>1, <3>2 DEF Again
    <3> QED  BY <1>0, <1>1, <3>1, <3>3, <3>4 DEF Counted
  <2>2. /\ \A s \in Range(sends'[i]) : s <= clock /\ s <= tick.now
        /\ IsFiniteSet(Range(sends'[i])) /\ Twice(i)' <= faults
        /\ Moved(i)' /\ ~Again(i, tick.keep)'
    <3>1. /\ sends[i] \in Seq(Nat) /\ IsFiniteSet(Range(sends[i])) /\ Twice(i) <= faults
          /\ \A s \in Range(sends[i]) : s <= clock /\ s <= tick.now
          /\ Again(i, jobs) => Moved(i) \/ Twice(i) + 1 <= faults
      BY <1>0, <1>1 DEF Counted
    <3>2. sends'[i] = Append(sends[i], jobs[i].next)
      BY <1>0, <1>6
    <3>3. Range(sends'[i]) = Range(sends[i]) \cup {jobs[i].next} /\ IsFiniteSet(Range(sends'[i]))
      BY <1>4, <3>1, <3>2, RangeAppend, AppendCount
    <3>4. \A s \in Range(sends'[i]) : s <= clock /\ s <= tick.now
      BY <1>0, <1>3, <1>4, <3>1, <3>3
    <3>5. ~Moved(i) /\ i \in DOMAIN jobs
      BY <1>1, <1>3 DEF Moved
    <3>8. Moved(i)'
      <4>1. i \in DOMAIN tick'.keep => tick'.keep[i].next > jobs[i].next
        BY <1>0, <1>1, <1>3, <1>4, <1>6
      <4> QED  BY <1>1, <1>2, <1>3, <1>4, <4>1 DEF Moved, Sending
    <3>9. ~Again(i, tick.keep)'
      <4>1. i \in DOMAIN tick'.keep => tick'.keep[i].next > tick.now
        BY <1>1, <1>4, <1>6
      <4>2. i \in DOMAIN tick'.keep => tick'.keep[i].next \notin Range(sends'[i])
        BY <1>0, <1>1, <1>4, <1>6, <3>4, <4>1
      <4> QED  BY <4>2 DEF Again
    <3>6. CASE jobs[i].next \in Range(sends[i])
      <4>1. Twice(i) + 1 <= faults
        BY <3>1, <3>5, <3>6 DEF Again
      <4>2. Twice(i)' = Twice(i) + 1
        BY <1>4, <3>1, <3>2, <3>6, AppendCount DEF Twice
      <4> QED  BY <3>3, <3>4, <3>8, <3>9, <4>1, <4>2
    <3>7. CASE jobs[i].next \notin Range(sends[i])
      <4>2. Twice(i)' = Twice(i)
        BY <1>4, <3>1, <3>2, <3>7, AppendCount DEF Twice
      <4> QED  BY <3>1, <3>3, <3>4, <3>8, <3>9, <4>2
    <3> QED  BY <3>6, <3>7
  <2> QED  BY <1>1, <1>2, <2>1, <2>2 DEF Counted
<1> QED  BY <1>1, <1>3, <1>5, <1>6

(* The steps that send nothing. *)
LEMMA CountedOther ==
  ASSUME ~Overlap, ScheduleInv, [Next]_vars, sends' = sends
  PROVE  Counted'
<1>0. /\ ScheduleTypes /\ OneTask /\ TickCopy /\ Counted /\ tick \in Ticks
      /\ DOMAIN jobs \subseteq Jobs /\ DOMAIN disk \subseteq Jobs /\ DOMAIN tick.keep \subseteq Jobs
      /\ clock \in Nat /\ faults \in Nat /\ tick.now \in Nat
      /\ clock' = clock \/ clock' = clock + 1
  BY InvFacts, HistoryStep DEF ScheduleTypes, TickTypes
<1>a. \A j \in Jobs : Twice(j)' = Twice(j) /\ Twice(j) \in Int
  BY TwiceIsInt DEF Twice
<1>b. \A j \in Jobs : /\ IsFiniteSet(Range(sends[j])) /\ Twice(j) <= faults
                      /\ \A s \in Range(sends[j]) : s \in Nat /\ s <= clock /\ s <= clock'
                      /\ Again(j, jobs) \/ Again(j, disk) => Moved(j) \/ Twice(j) + 1 <= faults
                      /\ Moved(j) => ~Again(j, tick.keep)
  <2> SUFFICES ASSUME NEW j \in Jobs PROVE \A s \in Range(sends[j]) : s \in Nat /\ s <= clock /\ s <= clock'
    BY <1>0 DEF Counted
  <2>1. Range(sends[j]) \subseteq Nat
    <3>1. sends[j] \in Seq(Nat)
      BY InvFacts
    <3> QED  BY <3>1 DEF Range
  <2> QED  BY <1>0, <2>1 DEF Counted
<1>c. \A j \in Jobs : Sending => \A s \in Range(sends[j]) : s <= tick.now
  BY <1>0 DEF Counted
(* A fault pays for whatever is left behind. *)
<1>d. ASSUME Fault, tick'.at = "sending" => tick' = tick /\ jobs' = jobs PROVE Counted'
  <2>1. faults' = faults + 1
    BY <1>d DEF Fault
  <2>2. \A j \in Jobs : Moved(j)' => Moved(j) /\ tick' = tick
    BY <1>d DEF Moved, Sending
  <2>3. \A j \in Jobs : Moved(j)' => ~Again(j, tick.keep)'
    BY <1>b, <2>2 DEF Again
  <2>4. \A j \in Jobs : Twice(j)' <= faults' /\ Twice(j)' + 1 <= faults'
    BY <1>0, <1>a, <1>b, <2>1
  <2>5. \A j \in Jobs : Sending' => \A s \in Range(sends[j]) : s <= tick'.now
    BY <1>c, <1>d DEF Sending
  <2> QED  BY <1>b, <2>3, <2>4, <2>5 DEF Counted
(* Otherwise what a list may send again was to be sent again before. *)
<1>e. ASSUME faults' = faults, tick'.at # "sending",
             \A j \in Jobs : (Again(j, jobs)' \/ Again(j, disk)') =>
                               (~Moved(j) /\ (Again(j, jobs) \/ Again(j, disk)))
      PROVE  Counted'
  <2>1. \A j \in Jobs : ~Moved(j)'
    BY <1>e DEF Moved, Sending
  <2> QED  BY <1>a, <1>b, <1>e, <2>1 DEF Counted, Sending
<1>1. CASE TickRead
  <2>1. UNCHANGED <<jobs, disk, faults>> /\ tick'.now = clock /\ \A j \in Jobs : ~Moved(j)
    BY <1>0, <1>1, ReadEffect DEF TickRead, lists, Moved, Sending
  <2>2. \A j \in Jobs : Again(j, jobs)' = Again(j, jobs) /\ Again(j, disk)' = Again(j, disk)
    BY <2>1 DEF Again
  <2>3. \A j \in Jobs : Moved(j)' => ~Again(j, tick.keep)'
    BY <1>0, <1>1, <2>1, ReadEffect DEF Moved, Again
  <2> QED  BY <1>a, <1>b, <2>1, <2>2, <2>3 DEF Counted
<1>2. ASSUME NEW j \in Jobs, TickSend(j) PROVE Counted'
  BY <1>2, CountedSend
<1>3. CASE TickWrite
  <2>1. tick'.at # "sending"
    BY <1>3, NoTickFacts DEF TickWrite
  <2>2. CASE UNCHANGED <<jobs, disk, faults>> /\ \A j \in Jobs : ~Moved(j)
    BY <1>e, <2>1, <2>2 DEF Again
  <2>3. CASE Replaced(tick.keep) /\ disk' = disk /\ Fault
    BY <1>d, <2>1, <2>3
  <2>4. CASE jobs' = tick.keep /\ disk' = tick.keep /\ faults' = faults
    <3>1. ASSUME NEW j \in Jobs, Again(j, tick.keep) PROVE ~Moved(j) /\ Again(j, jobs)
      <4>1. ~Moved(j)
        BY <1>b, <3>1
      <4>2. j \in DOMAIN tick.keep /\ j \in DOMAIN jobs /\ tick.keep[j] = jobs[j]
        BY <1>0, <1>3, <3>1, <4>1 DEF Moved, Again, TickCopy, TickWrite, Sending
      <4> QED  BY <3>1, <4>1, <4>2 DEF Again
    <3>2. \A j \in Jobs : Again(j, jobs)' = Again(j, tick.keep) /\ Again(j, disk)' = Again(j, tick.keep)
      BY <2>4 DEF Again
    <3> QED  BY <1>e, <2>1, <2>4, <3>1, <3>2
  <2> QED  BY <1>3, <2>2, <2>3, <2>4, WriteEffect DEF Replaced
<1>4. CASE TickPanics \/ HarnessEnds \/ Crash \/ (RehostSkips /\ Fault)
  BY <1>4, <1>d, NoTickFacts DEF TickPanics, HarnessEnds, Crash, RehostSkips, lists, tasks
<1>5. CASE AddWrite
  <2>1. PICK j \in Jobs, list \in Lists :
           /\ Replaced(list) /\ DOMAIN list = DOMAIN jobs \cup {j} /\ sends[j] = <<>> /\ tick.at = "idle"
           /\ \A k \in DOMAIN jobs : k # j /\ list[k] = jobs[k]
    BY <1>5, AddInv
  <2>2. tick' = tick
    BY <1>5 DEF AddWrite
  <2>3. CASE Fault
    BY <1>d, <2>1, <2>2, <2>3
  <2>4. CASE jobs' = list /\ disk' = list /\ faults' = faults
    <3>1. \A k \in Jobs : Again(k, list) => Again(k, jobs) /\ ~Moved(k)
      BY <2>1 DEF Again, Moved, Sending, Range
    <3>2. \A k \in Jobs : Again(k, jobs)' = Again(k, list) /\ Again(k, disk)' = Again(k, list)
      BY <2>4 DEF Again
    <3> QED  BY <1>e, <2>1, <2>2, <2>4, <3>1, <3>2
  <2> QED  BY <2>1, <2>3, <2>4 DEF Replaced
<1>6. CASE CancelWrite
  <2>1. PICK j \in Jobs, list \in Lists :
           /\ Replaced(list) /\ DOMAIN list = DOMAIN jobs \ {j} /\ tick.at = "idle"
           /\ \A k \in DOMAIN list : list[k] = jobs[k]
    BY <1>6, CancelInv
  <2>2. tick' = tick
    BY <1>6 DEF CancelWrite
  <2>3. CASE Fault
    BY <1>d, <2>1, <2>2, <2>3
  <2>4. CASE jobs' = list /\ disk' = list /\ faults' = faults
    <3>1. \A k \in Jobs : Again(k, list) => Again(k, jobs) /\ ~Moved(k)
      BY <2>1 DEF Again, Moved, Sending
    <3>2. \A k \in Jobs : Again(k, jobs)' = Again(k, list) /\ Again(k, disk)' = Again(k, list)
      BY <2>4 DEF Again
    <3> QED  BY <1>e, <2>1, <2>2, <2>4, <3>1, <3>2
  <2> QED  BY <2>1, <2>3, <2>4 DEF Replaced
<1>7. CASE LoadSession
  <2>1. tick.at = "idle" /\ jobs' = disk /\ disk' = disk /\ faults' = faults
    BY <1>7 DEF LoadSession, Awaited
  <2>2. tick'.at = "idle"
    BY <1>0, <1>7, <2>1 DEF LoadSession, Ticks
  <2>3. \A k \in Jobs : Again(k, jobs)' = Again(k, disk) /\ Again(k, disk)' = Again(k, disk) /\ ~Moved(k)
    BY <2>1 DEF Again, Moved, Sending
  <2> QED  BY <1>e, <2>1, <2>2, <2>3
<1>8. CASE TakePrompt \/ Minute \/ (RehostSkips /\ UNCHANGED faults)
              \/ (\E j \in Jobs : AddRead(j) \/ CancelRead(j)) \/ UNCHANGED vars
  <2>1. UNCHANGED <<jobs, disk, faults, tick>>
    BY <1>8 DEF TakePrompt, Minute, RehostSkips, AddRead, CancelRead, vars, lists, tasks
  <2>2. \A k \in Jobs : /\ Again(k, jobs)' = Again(k, jobs) /\ Again(k, disk)' = Again(k, disk)
                        /\ Moved(k)' = Moved(k) /\ Again(k, tick.keep)' = Again(k, tick.keep)
    BY <2>1 DEF Again, Moved, Sending
  <2> QED  BY <1>a, <1>b, <1>c, <2>1, <2>2 DEF Counted, Sending
<1>9. RehostSkips => Fault \/ UNCHANGED faults
  BY DEF RehostSkips
<1> QED  BY <1>1, <1>2, <1>3, <1>4, <1>5, <1>6, <1>7, <1>8, <1>9 DEF Next, TickStep, LoopStep, Rehost, Resume

LEMMA CountedStep ==
  ASSUME ~Overlap, ScheduleInv, [Next]_vars
  PROVE  Counted'
BY CountedSend, CountedOther, HistoryStep

LEMMA ScheduleInit ==
  ASSUME Init
  PROVE  ScheduleInv
<1>1. ScheduleTypes /\ ~Sending /\ ~tick.stale /\ command.op = "none" /\ clock = 0 /\ faults = 0
  BY TypesInit, NoTickFacts DEF Init, Sending
<1>2. DOMAIN jobs = {} /\ DOMAIN disk = {}
  BY EmptyIs DEF Init
<1>3. \A j \in Jobs : status[j] = "none" /\ sends[j] = <<>>
  BY DEF Init
<1>4. OneTask /\ ListedJobs /\ Kept /\ TickCopy
  BY <1>1, <1>2, <1>3 DEF OneTask, ListedJobs, Kept, TickCopy, Armed
<1>5. ASSUME NEW j \in Jobs PROVE Range(sends[j]) = {} /\ Twice(j) = 0
  <2>1. sends[j] = <<>> /\ Range(sends[j]) = {} /\ Len(sends[j]) = 0
    BY <1>3 DEF Range
  <2> QED  BY <2>1, FS_EmptySet DEF Twice
<1>6. Counted
  <2>1. ASSUME NEW j \in Jobs PROVE ~Again(j, jobs) /\ ~Again(j, disk) /\ ~Moved(j)
    BY <1>1, <1>2 DEF Again, Moved
  <2>2. \A j \in Jobs : IsFiniteSet(Range(sends[j])) /\ Twice(j) <= faults
    BY <1>1, <1>5, FS_EmptySet
  <2> QED  BY <1>5, <2>1, <2>2 DEF Counted
<1> QED  BY <1>1, <1>4, <1>6 DEF ScheduleInv

LEMMA ScheduleStep ==
  ASSUME ~Overlap, ScheduleInv, [Next]_vars
  PROVE  ScheduleInv'
<1>1. ScheduleTypes'
  BY InvFacts, TypesStep
<1> QED  BY <1>1, OneTaskStep, ListedStep, KeptStep, TickCopyStep, CountedStep DEF ScheduleInv

THEOREM ScheduleInvHolds ==
  ASSUME ~Overlap
  PROVE  Spec => []ScheduleInv
<1>1. ScheduleInv /\ [Next]_vars => ScheduleInv'
  BY ScheduleStep
<1> QED  BY <1>1, ScheduleInit, PTL DEF Spec

(* A job the user was told is armed stays in the files until it is cancelled, *)
(* has fired for good or has expired, whatever the crashes, panics and        *)
(* failing writes (run_schedule_tick, set_scheduled_jobs).                    *)
THEOREM ArmedJobsStay ==
  ASSUME ~Overlap
  PROVE  Spec => []AcceptedJobKept
<1>1. ScheduleInv => AcceptedJobKept
  BY DEF ScheduleInv, Kept, Accounted, Settled, AcceptedJobKept
<1> QED  BY <1>1, ScheduleInvHolds, PTL

(* A fire time is sent twice only for a crash, a panic or a failing write     *)
(* between the send and the write, and once more for each of them at most.    *)
THEOREM FiresOnce ==
  ASSUME ~Overlap
  PROVE  Spec => []SlotFiresOnce
<1>1. ScheduleInv => SlotFiresOnce
  <2> SUFFICES ASSUME ScheduleInv, NEW j \in Jobs
               PROVE  Len(sends[j]) <= Cardinality(Range(sends[j])) + faults
    BY DEF SlotFiresOnce
  <2>1. Twice(j) <= faults /\ faults \in Nat
    BY InvFacts DEF Counted
  <2> QED  BY <2>1, TwiceIsInt DEF Twice
<1> QED  BY <1>1, ScheduleInvHolds, PTL

(* Nothing is sent for a job once the user was told that it is cancelled.     *)
THEOREM CancelledStaysSilent ==
  ASSUME ~Overlap
  PROVE  Spec => CancelledIsSilent
<1>1. ScheduleInv /\ [Next]_vars => [\A j \in Jobs : status[j] = "cancelled" => sends'[j] = sends[j]]_vars
  <2> SUFFICES ASSUME ScheduleInv, [Next]_vars, NEW j \in Jobs, status[j] = "cancelled"
               PROVE  sends'[j] = sends[j]
    OBVIOUS
  <2>1. ASSUME NEW i \in Jobs, TickSend(i) PROVE i # j
    BY <2>1, InvFacts, SendEffect DEF ListedJobs, TickCopy
  <2>2. sends \in [Jobs -> Seq(Nat)]
    BY InvFacts DEF ScheduleTypes, OtherTypes
  <2> QED  BY <2>1, <2>2, HistoryStep
<1> QED  BY <1>1, ScheduleInvHolds, PTL DEF Spec, CancelledIsSilent
=============================================================================
