------------------------- MODULE UserInputs_proofs -------------------------
(***************************************************************************)
(* Theorems about UserInputs for every set of rounds and inputs and every  *)
(* bound: what is typed into a round is heard by that round, given back or *)
(* withdrawn, once.  No step is assumed away; a session's rounds are begun *)
(* by its request loop alone, as they are in UserInputs.                   *)
(***************************************************************************)
EXTENDS UserInputs, SequenceTheorems, TLAPS

Begun(r)  == at[r] # "waiting"
Opened(r) == at[r] \notin {"waiting", "beginning"}
Live(r)   == at[r] \notin {"waiting", "ended"}

(* Up to its tail a body may hear or hold input. *)
InBody(r) == at[r] \in {"turn", "admit", "request", "exit"}

-----------------------------------------------------------------------------
(* The inductive invariant.                                                   *)

(* No generation is given to two rounds. *)
GenerationsDistinct ==
    \A r \in Rounds : Begun(r) =>
        gen[r] \in 1..generation /\ \A q \in Rounds : Begun(q) /\ gen[q] = gen[r] => q = r

(* A begin holds the loop until its inbox is open, and the slot is its own. *)
OneBegin ==
    /\ \A r \in Rounds :
         at[r] = "beginning" <=> loop.op \in {"cancelPrevious", "open"} /\ loop.round = r
    /\ loop.op \in {"cancelPrevious", "open"} => loop.round \in Rounds /\ slot = loop.round

(* The slot holds the newest round, the current one unless a session switch   *)
(* has moved the counter on and is about to empty it.                         *)
SlotNewest ==
    slot # NoRound =>
        /\ Begun(slot) /\ \A r \in Rounds : Begun(r) => gen[r] <= gen[slot]
        /\ gen[slot] = generation \/ loop.op = "cancelCurrent"

(* A round that was not cancelled is in the slot, or about to be cancelled. *)
LiveReachable ==
    \A r \in Rounds : Live(r) /\ r \notin cancelled =>
        slot = r \/ (loop.op = "cancelPrevious" /\ loop.previous = r)

(* An open inbox belongs to a round whose tail has still to close it. *)
InboxOwned ==
    inbox # NoInbox =>
        \E r \in Rounds : Opened(r) /\ at[r] \notin {"shut", "ended"} /\ gen[r] = inbox.gen

(* While its token is live, the inbox is the round's own up to the exit. *)
LiveInbox ==
    \A r \in Rounds : (at[r] = "entering" \/ InBody(r)) /\ r \notin cancelled =>
        inbox # NoInbox /\ inbox.gen = gen[r]

(* A body that has passed the check of its token looks at its own inbox. *)
SeenOwn ==
    \A r \in Rounds :
        InBody(r) /\ (at[r] = "turn" => r \notin cancelled) => seen[r] = gen[r]

(* What the inbox holds was taken in for its owner and is still to be told. *)
HeldForOwner ==
    /\ IsInjective(Queue)
    /\ \A i \in Inputs : Held(i) =>
         /\ told[i] = <<>>
         /\ heldBy[i] \in Rounds /\ gen[heldBy[i]] = inbox.gen

(* An input is told of once; what was not taken in is held and heard by none. *)
ToldOnce ==
    /\ \A i \in Inputs : Len(told[i]) <= 1
    /\ \A i \in Inputs : told[i] = <<>> => (heldBy[i] # NoRound => Held(i)) /\ heardBy[i] = NoRound
    /\ \A i \in Inputs : heldBy[i] # NoRound => Opened(heldBy[i])

(* A round that answered undisturbed has closed its inbox, *)
AnsweredIsClosed ==
    \A r \in Rounds :
        r \notin cancelled /\ (at[r] = "saving" \/ outcome[r] = "ok") /\ inbox # NoInbox =>
            inbox.gen # gen[r]

(* and nothing goes back to the sender before the tail of its round. *)
NothingReturned ==
    /\ \A r \in Rounds : outcome[r] # "none" => at[r] \in {"over", "shut"}
    /\ \A r \in Rounds, i \in Inputs :
         r \notin cancelled /\ heldBy[i] = r /\ (at[r] \notin {"ended", "shut"} \/ outcome[r] = "ok") =>
             "returned" \notin ToSet(told[i])

InputsInv ==
    /\ TypeOK /\ GenerationsDistinct /\ OneBegin /\ SlotNewest /\ LiveReachable
    /\ InboxOwned /\ LiveInbox /\ SeenOwn /\ HeldForOwner /\ ToldOnce
    /\ HeardByItsRound /\ AnsweredIsClosed /\ NothingReturned

-----------------------------------------------------------------------------
(* Types.                                                                     *)

(* The queue is a sequence of inputs, empty if there is no inbox. *)
LEMMA QueueTypes ==
  ASSUME TypeOK
  PROVE  /\ Queue \in Seq(Inputs) /\ ToSet(Queue) \subseteq Inputs
         /\ inbox # NoInbox => inbox \in Inbox /\ Queue = inbox.queue
BY DEF TypeOK, Inbox, Queue, ToSet

(* Inputs that were not told of before are told of once. *)
LEMMA ToldFirst ==
  ASSUME TypeOK, NEW inputs \in SUBSET Inputs, NEW tale \in Tales, Tell(inputs, tale),
         \A i \in inputs : told[i] = <<>>
  PROVE  /\ told' \in [Inputs -> Seq(Tales)]
         /\ \A i \in Inputs \ inputs : told'[i] = told[i]
         /\ \A i \in inputs : /\ told'[i] = <<tale>> /\ told'[i] # <<>> /\ Len(told'[i]) <= 1
                              /\ ToSet(told'[i]) = {tale}
<1>1. told \in [Inputs -> Seq(Tales)]
  BY DEF TypeOK
<1>2. told' \in [Inputs -> Seq(Tales)] /\ \A i \in Inputs \ inputs : told'[i] = told[i]
  BY <1>1 DEF Tell
<1>3. \A i \in inputs : told'[i] = Append(<<>>, tale)
  BY DEF Tell
<1>4. Append(<<>>, tale) = <<tale>> /\ <<tale>> # <<>> /\ Len(<<tale>>) <= 1
  OBVIOUS
<1>5. ToSet(<<tale>>) = {tale}
  BY DEF ToSet
<1> QED
  BY <1>2, <1>3, <1>4, <1>5

(* An inbox that is opened differs from none. *)
LEMMA InboxIsThere ==
  ASSUME NEW s \in Nat, NEW g \in Nat, NEW q \in Seq(Inputs)
  PROVE  [session |-> s, gen |-> g, queue |-> q] \in Inbox \ {NoInbox}
BY NoInboxAssumption DEF Inbox

(* What becomes of an open inbox whose queue is replaced. *)
LEMMA QueueReplaced ==
  ASSUME NEW before \in Inbox, NEW q \in Seq(Inputs), NEW after,
         after = [before EXCEPT !.queue = q]
  PROVE  /\ after \in Inbox \ {NoInbox}
         /\ after.gen = before.gen /\ after.session = before.session /\ after.queue = q
<1>1. /\ after.gen = before.gen /\ after.session = before.session /\ after.queue = q
      /\ after \in Inbox
  BY DEF Inbox
<1> QED
  BY <1>1, NoInboxAssumption DEF Inbox

LEMMA Requeued ==
  ASSUME TypeOK, inbox # NoInbox, NEW q \in Seq(Inputs), inbox' = [inbox EXCEPT !.queue = q]
  PROVE  /\ inbox' \in Inbox /\ inbox' # NoInbox
         /\ inbox'.gen = inbox.gen /\ inbox'.session = inbox.session /\ inbox'.queue = q
         /\ Queue' = q
<1>1. inbox \in Inbox
  BY DEF TypeOK
<1>2. \A after : after = [inbox EXCEPT !.queue = q] =>
        /\ after \in Inbox \ {NoInbox}
        /\ after.gen = inbox.gen /\ after.session = inbox.session /\ after.queue = q
  BY <1>1, QueueReplaced
<1> QED
  BY <1>2 DEF Queue

(* An append adds its input to those of the queue. *)
LEMMA AppendedLast ==
  ASSUME NEW q \in Seq(Inputs), NEW i \in Inputs
  PROVE  ToSet(Append(q, i)) = ToSet(q) \cup {i}
<1> DEFINE p == Append(q, i)
           n == Len(q)
<1>1. /\ n \in Nat /\ DOMAIN q = 1..n /\ DOMAIN p = 1..n+1
      /\ p[n+1] = i /\ \A k \in 1..n : p[k] = q[k]
  OBVIOUS
<1> HIDE DEF p, n
<1>2. ToSet(p) = {p[k] : k \in 1..n+1} /\ ToSet(q) = {q[k] : k \in 1..n}
  BY <1>1 DEF ToSet
<1>3. 1..n+1 = (1..n) \cup {n+1}
  BY <1>1
<1>4. \A x : x \in ToSet(p) <=> x \in ToSet(q) \cup {i}
  BY <1>1, <1>2, <1>3
<1> QED  BY <1>4 DEF p

(* A removal leaves the other inputs, each at most once. *)
LEMMA RemovalKeepsOthers ==
  ASSUME NEW q \in Seq(Inputs), IsInjective(q), NEW k \in DOMAIN q
  PROVE  /\ RemoveAt(q, k) \in Seq(Inputs) /\ IsInjective(RemoveAt(q, k))
         /\ ToSet(RemoveAt(q, k)) = ToSet(q) \ {q[k]}
<1> DEFINE n == Len(q)
           p == RemoveAt(q, k)
<1>1. n \in Nat /\ k \in 1..n /\ DOMAIN q = 1..n /\ q \in [1..n -> Inputs]
  OBVIOUS
<1>2. /\ SubSeq(q, 1, k-1) \in Seq(Inputs) /\ Len(SubSeq(q, 1, k-1)) = k - 1
      /\ \A i \in 1..k-1 : SubSeq(q, 1, k-1)[i] = q[i]
  BY <1>1, SubSeqProperties
<1>3. /\ SubSeq(q, k+1, n) \in Seq(Inputs) /\ Len(SubSeq(q, k+1, n)) = n - k
      /\ \A i \in 1..n-k : SubSeq(q, k+1, n)[i] = q[i+k]
  <2>1. \A i \in k+1..n : q[i] \in Inputs
    BY <1>1
  <2>2. /\ SubSeq(q, k+1, n) \in Seq(Inputs)
        /\ Len(SubSeq(q, k+1, n)) = IF k+1 <= n THEN n-(k+1)+1 ELSE 0
        /\ \A i \in 1..n-(k+1)+1 : SubSeq(q, k+1, n)[i] = q[k+1+i-1]
    BY ONLY <1>1, <2>1, k+1 \in Int, n \in Int, SubSeqProperties
  <2> QED
    BY <1>1, <2>2
<1>4. /\ p \in Seq(Inputs) /\ Len(p) = n - 1 /\ DOMAIN p = 1..n-1
      /\ \A i \in 1..n-1 : p[i] = IF i <= k - 1 THEN q[i] ELSE q[i+1]
  <2> DEFINE a == SubSeq(q, 1, k-1)
             b == SubSeq(q, k+1, n)
  <2>1. p = a \o b
    BY DEF RemoveAt
  <2>2. a \in Seq(Inputs) /\ Len(a) = k - 1 /\ \A i \in 1..k-1 : a[i] = q[i]
    BY <1>2
  <2>3. b \in Seq(Inputs) /\ Len(b) = n - k /\ \A i \in 1..n-k : b[i] = q[i+k]
    BY <1>3
  <2> HIDE DEF a, b, p
  <2>4. p \in Seq(Inputs) /\ Len(p) = n - 1
    <3>1. p \in Seq(Inputs) /\ Len(p) = Len(a) + Len(b)
      BY <2>1, <2>2, <2>3
    <3> QED
      BY <1>1, <2>2, <2>3, <3>1
  <2>5. ASSUME NEW i \in 1..n-1 PROVE p[i] = IF i <= k - 1 THEN q[i] ELSE q[i+1]
    <3>1. p[i] = IF i <= k - 1 THEN a[i] ELSE b[i - (k-1)]
      BY <1>1, <2>1, <2>2, <2>3, ConcatProperties
    <3>2. i > k - 1 => i - (k-1) \in 1..n-k /\ b[i - (k-1)] = q[i+1]
      <4> SUFFICES ASSUME i > k - 1 PROVE i - (k-1) \in 1..n-k /\ b[i - (k-1)] = q[i+1]
        OBVIOUS
      <4>1. i - (k-1) \in 1..n-k /\ i - (k-1) + k = i + 1
        BY <1>1
      <4> QED
        BY <2>3, <4>1
    <3> QED
      BY <1>1, <2>2, <3>1, <3>2
  <2> QED
    BY <1>1, <2>4, <2>5
<1> HIDE DEF n, p
<1>5. IsInjective(p)
  <2> SUFFICES ASSUME NEW i \in 1..n-1, NEW j \in 1..n-1, p[i] = p[j] PROVE i = j
    BY <1>4 DEF IsInjective
  <2>1. \A x, y \in 1..n : q[x] = q[y] => x = y
    BY <1>1 DEF IsInjective
  <2> QED
    BY <1>1, <1>4, <2>1
<1>6. ASSUME NEW i \in 1..n, i # k PROVE q[i] \in ToSet(p)
  <2>1. CASE i <= k - 1
    BY <1>1, <1>4, <2>1 DEF ToSet
  <2>2. CASE i > k
    <3>1. i - 1 \in 1..n-1 /\ p[i-1] = q[i]
      BY <1>1, <1>4, <2>2
    <3> QED  BY <1>4, <3>1 DEF ToSet
  <2> QED  BY <1>1, <1>6, <2>1, <2>2
<1>7. ASSUME NEW i \in 1..n-1 PROVE p[i] \in ToSet(q) /\ p[i] # q[k]
  <2>1. \A x, y \in 1..n : q[x] = q[y] => x = y
    BY <1>1 DEF IsInjective
  <2>2. (p[i] = q[i] /\ i \in 1..n /\ i # k) \/ (p[i] = q[i+1] /\ i+1 \in 1..n /\ i + 1 # k)
    BY <1>1, <1>4
  <2> QED  BY <1>1, <2>1, <2>2 DEF ToSet
<1>8. ToSet(p) = ToSet(q) \ {q[k]}
  <2>1. \A x, y \in 1..n : q[x] = q[y] => x = y
    BY <1>1 DEF IsInjective
  <2>2. ToSet(p) = {p[i] : i \in 1..n-1} /\ ToSet(q) = {q[i] : i \in 1..n}
    BY <1>1, <1>4 DEF ToSet
  <2> QED
    BY <1>6, <1>7, <2>2
<1> QED
  BY <1>4, <1>5, <1>8 DEF p

-----------------------------------------------------------------------------
(* The steps of the request loop.                                             *)

(* What holds of the inputs as long as neither the inbox nor what was told of *)
(* them changes and no round goes back to before its begin.                   *)
LEMMA InputsUntouched ==
  ASSUME InputsInv, UNCHANGED <<inbox, told, history>>,
         \A r \in Rounds : gen'[r] = gen[r] /\ (Opened(r) => Opened(r)')
  PROVE  HeldForOwner' /\ ToldOnce' /\ HeardByItsRound'
<1> USE DEF InputsInv, history, Queue, Held
<1>1. HeldForOwner'
  <2>1. Queue' = Queue /\ \A i \in Inputs : Held(i)' <=> Held(i)
    OBVIOUS
  <2>2. IsInjective(Queue)'
    BY <2>1 DEF HeldForOwner
  <2> QED  BY <2>1, <2>2 DEF HeldForOwner
<1>2. ToldOnce'
  BY NoRoundAssumption DEF ToldOnce, TypeOK
<1>3. HeardByItsRound'
  BY DEF HeardByItsRound
<1> QED  BY <1>1, <1>2, <1>3

LEMMA BeginStep ==
  ASSUME InputsInv, NEW r \in Rounds, Begin(r)
  PROVE  InputsInv'
<1> USE NoRoundAssumption DEF InputsInv, Goes, Loop, Ready, Begun, Opened, Live, InBody
<1>0. /\ loop.op = "ready" /\ at[r] = "waiting"
      /\ generation' = generation + 1 /\ gen' = [gen EXCEPT ![r] = generation + 1]
      /\ slot' = r /\ loop' = [op |-> "cancelPrevious", round |-> r, previous |-> slot]
      /\ at' = [at EXCEPT ![r] = "beginning"]
      /\ UNCHANGED <<cancelled, stops, current, inbox, turn, seen, outcome, told, heldBy, heardBy>>
  BY DEF Begin, bodies, history
<1>1. TypeOK'
  <2>1. loop' \in [op : LoopOps, round : Rounds \cup {NoRound}, previous : Rounds \cup {NoRound}]
    BY <1>0 DEF TypeOK, LoopOps
  <2>2. at' \in [Rounds -> Places]
    BY <1>0 DEF TypeOK, Places
  <2>3. gen' \in [Rounds -> Nat] /\ generation' \in Nat
    BY <1>0 DEF TypeOK
  <2> QED
    BY <1>0, <2>1, <2>2, <2>3 DEF TypeOK
<1>2. GenerationsDistinct'
  <2>1. \A q \in Rounds : Begun(q) => gen[q] \in 1..generation /\ q # r /\ gen'[q] = gen[q]
    BY <1>0 DEF TypeOK, GenerationsDistinct
  <2>2. gen'[r] = generation + 1 /\ generation \in Nat
    BY <1>0 DEF TypeOK
  <2>3. \A q \in Rounds : Begun(q)' => q = r \/ Begun(q)
    BY <1>0 DEF TypeOK
  <2> QED
    BY <1>0, <2>1, <2>2, <2>3 DEF GenerationsDistinct
<1>3. OneBegin'
  BY <1>0 DEF TypeOK, OneBegin
<1>4. SlotNewest'
  BY <1>0 DEF TypeOK, SlotNewest, GenerationsDistinct
<1>5. LiveReachable'
  BY <1>0 DEF TypeOK, LiveReachable
<1>6. InboxOwned'
  BY <1>0 DEF TypeOK, InboxOwned
<1>7. LiveInbox'
  BY <1>0 DEF TypeOK, LiveInbox
<1>8. SeenOwn'
  BY <1>0 DEF TypeOK, SeenOwn
<1>9. HeldForOwner' /\ ToldOnce' /\ HeardByItsRound'
  <2>1. HeldForOwner'
    BY <1>0 DEF TypeOK, HeldForOwner, ToldOnce, Queue, Held
  <2>2. ToldOnce'
    BY <1>0 DEF TypeOK, ToldOnce, Queue, Held
  <2>3. HeardByItsRound'
    BY <1>0 DEF HeardByItsRound
  <2> QED  BY <2>1, <2>2, <2>3
<1>10. AnsweredIsClosed'
  BY <1>0 DEF TypeOK, AnsweredIsClosed, NothingReturned
<1>11. NothingReturned'
  BY <1>0 DEF TypeOK, NothingReturned, ToldOnce
<1> QED
  BY <1>1, <1>2, <1>3, <1>4, <1>5, <1>6, <1>7, <1>8, <1>9, <1>10, <1>11

LEMMA CancelPreviousStep ==
  ASSUME InputsInv, CancelPrevious
  PROVE  InputsInv'
<1> USE NoRoundAssumption DEF InputsInv, Loop, Begun, Opened, Live, InBody
<1>0. /\ loop.op = "cancelPrevious" /\ loop.round \in Rounds
      /\ cancelled' = cancelled \cup ({loop.previous} \ {NoRound})
      /\ loop' = [op |-> "open", round |-> loop.round, previous |-> NoRound]
      /\ UNCHANGED <<generation, slot, gen, stops, current, inbox, at, turn, seen, outcome, told,
                     heldBy, heardBy>>
  BY DEF CancelPrevious, bodies, history, OneBegin
<1>1. TypeOK'
  <2>1. loop' \in [op : LoopOps, round : Rounds \cup {NoRound}, previous : Rounds \cup {NoRound}]
    BY <1>0 DEF TypeOK, LoopOps
  <2>2. cancelled' \subseteq Rounds
    BY <1>0 DEF TypeOK
  <2> QED
    BY <1>0, <2>1, <2>2 DEF TypeOK
<1>2. GenerationsDistinct' /\ InboxOwned'
  BY <1>0 DEF GenerationsDistinct, InboxOwned
<1>3. OneBegin'
  BY <1>0 DEF OneBegin
<1>4. SlotNewest'
  BY <1>0 DEF SlotNewest
<1>5. LiveReachable'
  BY <1>0 DEF LiveReachable
<1>6. LiveInbox' /\ SeenOwn'
  BY <1>0 DEF LiveInbox, SeenOwn
<1>7. HeldForOwner' /\ ToldOnce' /\ HeardByItsRound'
  BY <1>0, InputsUntouched DEF history
<1>8. AnsweredIsClosed' /\ NothingReturned'
  BY <1>0 DEF AnsweredIsClosed, NothingReturned
<1> QED
  BY <1>1, <1>2, <1>3, <1>4, <1>5, <1>6, <1>7, <1>8

(* A stop or a session switch cancels what is in the slot. *)
LEMMA CancelCurrentStep ==
  ASSUME InputsInv, CancelCurrent
  PROVE  InputsInv'
<1> USE NoRoundAssumption DEF InputsInv, Loop, Begun, Opened, Live, InBody
<1>0. /\ loop.op \in {"ready", "cancelCurrent"} /\ loop'.op \in {"ready", "repoint"}
      /\ cancelled' = cancelled \cup ({slot} \ {NoRound}) /\ slot' = NoRound
      /\ UNCHANGED <<generation, gen, current, inbox, at, turn, seen, outcome, told, heldBy, heardBy>>
  BY DEF CancelCurrent, bodies, history
<1>1. TypeOK'
  <2>1. loop' \in [op : LoopOps, round : Rounds \cup {NoRound}, previous : Rounds \cup {NoRound}]
    BY DEF TypeOK, LoopOps, CancelCurrent
  <2>2. cancelled' \subseteq Rounds
    BY <1>0 DEF TypeOK
  <2>3. stops' \in 0..MaxStops
    BY BoundsAssumption DEF TypeOK, CancelCurrent
  <2> QED
    BY <1>0, <2>1, <2>2, <2>3 DEF TypeOK
<1>2. GenerationsDistinct' /\ InboxOwned'
  BY <1>0 DEF GenerationsDistinct, InboxOwned
<1>3. OneBegin'
  BY <1>0 DEF OneBegin
<1>4. SlotNewest'
  BY <1>0 DEF SlotNewest
<1>5. LiveReachable'
  BY <1>0 DEF LiveReachable
<1>6. LiveInbox' /\ SeenOwn'
  BY <1>0 DEF LiveInbox, SeenOwn
<1>7. HeldForOwner' /\ ToldOnce' /\ HeardByItsRound'
  BY <1>0, InputsUntouched DEF history
<1>8. AnsweredIsClosed' /\ NothingReturned'
  BY <1>0 DEF AnsweredIsClosed, NothingReturned
<1> QED
  BY <1>1, <1>2, <1>3, <1>4, <1>5, <1>6, <1>7, <1>8

LEMMA SwitchStep ==
  ASSUME InputsInv, Supersede \/ Repoint
  PROVE  InputsInv'
<1> USE NoRoundAssumption DEF InputsInv, Loop, Begun, Opened, Live, InBody
<1>0. /\ loop.op \in {"ready", "repoint"} /\ loop'.op \in {"ready", "cancelCurrent"}
      /\ loop.op = "ready" => loop'.op = "cancelCurrent" /\ generation' = generation + 1
      /\ loop.op = "repoint" => generation' = generation
      /\ UNCHANGED <<slot, cancelled, gen, inbox, at, turn, seen, outcome, told, heldBy, heardBy>>
  BY DEF Supersede, Repoint, Ready, lifecycle, bodies, history
<1>1. TypeOK'
  <2>1. loop' \in [op : LoopOps, round : Rounds \cup {NoRound}, previous : Rounds \cup {NoRound}]
    BY DEF TypeOK, LoopOps, Supersede, Repoint, Ready
  <2>2. generation' \in Nat /\ current' \in Nat
    BY DEF TypeOK, Supersede, Repoint, lifecycle
  <2>3. stops' \in 0..MaxStops
    BY BoundsAssumption DEF TypeOK, Supersede, Repoint
  <2> QED
    BY <1>0, <2>1, <2>2, <2>3 DEF TypeOK
<1>2. GenerationsDistinct' /\ InboxOwned'
  BY <1>0 DEF GenerationsDistinct, InboxOwned, TypeOK
<1>3. OneBegin'
  BY <1>0 DEF OneBegin
<1>4. SlotNewest'
  BY <1>0 DEF SlotNewest
<1>5. LiveReachable'
  BY <1>0 DEF LiveReachable
<1>6. LiveInbox' /\ SeenOwn'
  BY <1>0 DEF LiveInbox, SeenOwn
<1>7. HeldForOwner' /\ ToldOnce' /\ HeardByItsRound'
  BY <1>0, InputsUntouched DEF history
<1>8. AnsweredIsClosed' /\ NothingReturned'
  BY <1>0 DEF AnsweredIsClosed, NothingReturned
<1> QED
  BY <1>1, <1>2, <1>3, <1>4, <1>5, <1>6, <1>7, <1>8

(* The inbox changes hands: what the last owner left goes back, and its owner *)
(* was cancelled before.                                                      *)
LEMMA OpenInboxStep ==
  ASSUME InputsInv, OpenInbox
  PROVE  InputsInv'
<1> USE NoRoundAssumption DEF InputsInv, Begun, Opened, Live, InBody
<1> DEFINE r == loop.round
<1>0. /\ loop.op = "open" /\ r \in Rounds /\ at[r] = "beginning" /\ slot = r
      /\ loop' = [op |-> "ready", round |-> NoRound, previous |-> NoRound]
      /\ at' = [at EXCEPT ![r] = "entering"]
      /\ inbox' = [session |-> current, gen |-> gen[r], queue |-> <<>>]
      /\ Tell(ToSet(Queue), "returned")
      /\ UNCHANGED <<generation, slot, cancelled, gen, stops, current, turn, seen, outcome,
                     heldBy, heardBy>>
  BY DEF OpenInbox, Goes, Loop, Ready, lifecycle, bodies, history, OneBegin
<1>1. inbox' \in Inbox \ {NoInbox} /\ inbox'.gen = gen[r] /\ Queue' = <<>>
  <2>1. current \in Nat /\ gen[r] \in Nat /\ <<>> \in Seq(Inputs)
    BY <1>0 DEF TypeOK
  <2>2. inbox' \in Inbox \ {NoInbox}
    BY <1>0, <2>1, InboxIsThere
  <2> QED  BY <1>0, <2>2 DEF Queue
<1>2. /\ ToSet(Queue) \subseteq Inputs /\ \A i \in ToSet(Queue) : told[i] = <<>>
      /\ told' \in [Inputs -> Seq(Tales)]
      /\ \A i \in Inputs \ ToSet(Queue) : told'[i] = told[i]
      /\ \A i \in ToSet(Queue) : told'[i] # <<>>
      /\ \A i \in ToSet(Queue) : Len(told'[i]) <= 1
  <2>1. ToSet(Queue) \subseteq Inputs /\ \A i \in ToSet(Queue) : told[i] = <<>>
    BY QueueTypes DEF HeldForOwner, Held
  <2> QED  BY <1>0, <2>1, ToldFirst DEF Tales
<1>3. \A q \in Rounds : Live(q) /\ q # r => q \in cancelled
  BY <1>0 DEF LiveReachable
<1>4. TypeOK'
  <2>1. loop' \in [op : LoopOps, round : Rounds \cup {NoRound}, previous : Rounds \cup {NoRound}]
    BY <1>0 DEF TypeOK, LoopOps
  <2>2. at' \in [Rounds -> Places]
    BY <1>0 DEF TypeOK, Places
  <2> QED
    BY <1>0, <1>1, <1>2, <2>1, <2>2 DEF TypeOK
<1>5. GenerationsDistinct' /\ SlotNewest'
  BY <1>0 DEF GenerationsDistinct, SlotNewest, TypeOK
<1>6. OneBegin'
  BY <1>0 DEF OneBegin, TypeOK
<1>7. LiveReachable'
  BY <1>0 DEF LiveReachable, TypeOK
<1>8. InboxOwned'
  BY <1>0, <1>1 DEF InboxOwned, TypeOK
<1>9. LiveInbox'
  BY <1>0, <1>1, <1>3 DEF TypeOK, LiveInbox
<1>10. SeenOwn'
  BY <1>0 DEF SeenOwn, TypeOK
<1>11. \A i \in Inputs : ~Held(i)'
  BY <1>1 DEF Held, ToSet
<1>12. HeldForOwner'
  BY <1>1, <1>11 DEF HeldForOwner, IsInjective
<1>13. ToldOnce'
  <2>1. ASSUME NEW i \in Inputs PROVE Len(told'[i]) <= 1
    <3>1. CASE i \in ToSet(Queue)  BY ONLY <1>2, <3>1
    <3>2. CASE i \notin ToSet(Queue)  BY <1>2, <3>2 DEF ToldOnce
    <3> QED  BY <3>1, <3>2
  <2>2. ASSUME NEW i \in Inputs, told'[i] = <<>>
        PROVE  heldBy'[i] = NoRound /\ heardBy'[i] = NoRound
    BY <1>0, <1>2, <2>2 DEF ToldOnce, Held
  <2>3. \A i \in Inputs : heldBy'[i] # NoRound => Opened(heldBy[i])'
    BY <1>0 DEF ToldOnce, TypeOK
  <2> QED  BY <2>1, <2>2, <2>3 DEF ToldOnce
<1>14. HeardByItsRound'
  BY <1>0 DEF HeardByItsRound
<1>15. AnsweredIsClosed'
  BY <1>0, <1>1 DEF AnsweredIsClosed, NothingReturned, GenerationsDistinct, TypeOK
<1>16. NothingReturned'
  <2>1. ASSUME NEW q \in Rounds, outcome'[q] # "none" PROVE at'[q] \in {"over", "shut"}
    BY <1>0, <2>1 DEF NothingReturned, TypeOK
  <2>2. ASSUME NEW q \in Rounds, NEW i \in Inputs, q \notin cancelled', heldBy'[i] = q,
               at'[q] \notin {"ended", "shut"} \/ outcome'[q] = "ok"
        PROVE  "returned" \notin ToSet(told'[i])
    <3>1. q \notin cancelled /\ heldBy[i] = q /\ Opened(q)
      BY <1>0, <2>2 DEF ToldOnce
    <3>2. q # r /\ at'[q] = at[q] /\ outcome'[q] = outcome[q]
      BY <1>0, <3>1 DEF TypeOK
    <3>3. Live(q)
      BY <2>2, <3>1, <3>2 DEF NothingReturned
    <3> QED
      BY <1>3, <3>1, <3>2, <3>3
  <2> QED  BY <2>1, <2>2 DEF NothingReturned
<1> QED
  BY <1>4, <1>5, <1>6, <1>7, <1>8, <1>9, <1>10, <1>12, <1>13, <1>14, <1>15, <1>16

(* What depends on the rounds and on whose inbox is open, but not on its queue. *)
LEMMA OwnersStay ==
  ASSUME InputsInv, UNCHANGED <<generation, slot, cancelled, gen, loop, at, seen, outcome>>,
         inbox' # NoInbox /\ inbox # NoInbox /\ inbox'.gen = inbox.gen
  PROVE  /\ GenerationsDistinct' /\ OneBegin' /\ SlotNewest' /\ LiveReachable'
         /\ InboxOwned' /\ LiveInbox' /\ SeenOwn' /\ AnsweredIsClosed'
BY DEF InputsInv, Begun, Opened, Live, InBody, GenerationsDistinct, OneBegin, SlotNewest,
       LiveReachable, InboxOwned, LiveInbox, SeenOwn, AnsweredIsClosed

(* The owner of an open inbox. *)
LEMMA OwnerOpened ==
  ASSUME InputsInv, inbox # NoInbox
  PROVE  Owner \in Rounds /\ Opened(Owner) /\ gen[Owner] = inbox.gen
<1>1. PICK r \in Rounds : Opened(r) /\ gen[r] = inbox.gen
  BY DEF InputsInv, InboxOwned
<1>2. Owner \in Rounds /\ at[Owner] # "waiting" /\ gen[Owner] = inbox.gen
  BY <1>1 DEF Owner, Opened
<1>3. Owner = r
  BY <1>1, <1>2 DEF InputsInv, GenerationsDistinct, Begun, Opened
<1> QED  BY <1>1, <1>3

(* An input that is taken in is held for the owner of the inbox. *)
LEMMA TakenStep ==
  ASSUME InputsInv, NEW i \in Inputs, NEW s \in 0..current, Submit(i, s), Takes(s)
  PROVE  InputsInv'
<1> USE NoRoundAssumption DEF InputsInv
<1>0. /\ told[i] = <<>> /\ ~Held(i) /\ inbox # NoInbox
      /\ inbox' = [inbox EXCEPT !.queue = Append(@, i)]
      /\ heldBy' = [heldBy EXCEPT ![i] = Owner]
      /\ UNCHANGED <<generation, slot, cancelled, gen, loop, stops, current, at, turn, seen,
                     outcome, told, heardBy>>
  BY DEF Submit, Takes, lifecycle, requests, bodies
<1>1. Queue \in Seq(Inputs) /\ Queue = inbox.queue /\ inbox \in Inbox
  BY <1>0, QueueTypes
<1>2. Append(Queue, i) \in Seq(Inputs) /\ inbox' = [inbox EXCEPT !.queue = Append(Queue, i)]
  BY <1>0, <1>1
<1>3. /\ inbox' \in Inbox /\ inbox' # NoInbox /\ inbox'.gen = inbox.gen
      /\ Queue' = Append(Queue, i)
  BY <1>0, <1>2, Requeued
<1>4. \A j \in Inputs : Held(j)' <=> Held(j) \/ j = i
  <2>1. ToSet(Append(Queue, i)) = ToSet(Queue) \cup {i}
    BY <1>1, AppendedLast
  <2> QED  BY <1>3, <2>1 DEF Held
<1>5. Owner \in Rounds /\ Opened(Owner) /\ gen[Owner] = inbox.gen
  BY <1>0, OwnerOpened
<1> HIDE DEF InputsInv
<1>6. TypeOK'
  BY <1>0, <1>3, <1>5 DEF TypeOK, InputsInv
<1>7. /\ GenerationsDistinct' /\ OneBegin' /\ SlotNewest' /\ LiveReachable'
      /\ InboxOwned' /\ LiveInbox' /\ SeenOwn' /\ AnsweredIsClosed'
  BY <1>0, <1>3, OwnersStay
<1>8. \A j \in Inputs : heldBy'[j] = IF j = i THEN Owner ELSE heldBy[j]
  BY <1>0 DEF TypeOK, InputsInv
<1>9. HeldForOwner'
  <2>1. IsInjective(Queue)'
    <3>1. \A x, y \in 1..Len(Queue) : Queue[x] = Queue[y] => x = y
      BY <1>1 DEF InputsInv, HeldForOwner, IsInjective
    <3>2. \A x \in 1..Len(Queue) : Queue[x] # i
      BY <1>0, <1>1 DEF Held, ToSet
    <3> QED  BY <1>1, <1>3, <3>1, <3>2 DEF IsInjective
  <2> QED
    BY <1>0, <1>3, <1>4, <1>5, <1>8, <2>1 DEF HeldForOwner, InputsInv
<1>10. ToldOnce' /\ HeardByItsRound'
  <2>1. ToldOnce'
    BY <1>0, <1>4, <1>5, <1>8, NoRoundAssumption DEF ToldOnce, InputsInv, Opened
  <2>2. heardBy[i] = NoRound
    BY <1>0 DEF ToldOnce, InputsInv
  <2>3. HeardByItsRound'
    BY <1>0, <1>8, <2>2 DEF HeardByItsRound, InputsInv
  <2> QED  BY <2>1, <2>3
<1>11. NothingReturned'
  <2>1. ToSet(told[i]) = {}
    BY <1>0 DEF ToSet
  <2> QED
    BY <1>0, <1>8, <2>1 DEF NothingReturned, InputsInv
<1> QED
  BY <1>6, <1>7, <1>9, <1>10, <1>11 DEF InputsInv

(* What is told of inputs that were not told of before keeps the books: they  *)
(* leave the inbox, and the others stay where they are.                       *)
LEMMA ToldStep ==
  ASSUME InputsInv, NEW inputs \in SUBSET Inputs, NEW tale \in Tales, Tell(inputs, tale),
         \A i \in inputs : told[i] = <<>>,
         UNCHANGED <<gen, heldBy>>, \A r \in Rounds : Opened(r) => Opened(r)',
         IsInjective(Queue)',
         \A i \in Inputs : Held(i)' <=> Held(i) /\ i \notin inputs,
         \A i \in Inputs : Held(i)' => inbox'.gen = inbox.gen,
         \A i \in Inputs \ inputs : heardBy'[i] = heardBy[i]
  PROVE  /\ HeldForOwner' /\ ToldOnce' /\ told' \in [Inputs -> Seq(Tales)]
         /\ tale # "returned" =>
              \A i \in Inputs : "returned" \in ToSet(told'[i]) => "returned" \in ToSet(told[i])
<1>1. TypeOK
  BY DEF InputsInv
<1>2. /\ told' \in [Inputs -> Seq(Tales)]
      /\ \A i \in Inputs \ inputs : told'[i] = told[i]
      /\ \A i \in inputs : told'[i] # <<>> /\ Len(told'[i]) <= 1 /\ ToSet(told'[i]) = {tale}
  BY <1>1, ToldFirst
<1>3. HeldForOwner'
  <2>1. ASSUME NEW i \in Inputs, Held(i)'
        PROVE  told'[i] = <<>> /\ heldBy'[i] \in Rounds /\ gen'[heldBy'[i]] = inbox'.gen
    <3>1. Held(i) /\ i \notin inputs /\ inbox'.gen = inbox.gen
      BY <2>1
    <3> QED  BY <1>2, <3>1 DEF InputsInv, HeldForOwner
  <2> QED  BY <2>1 DEF HeldForOwner
<1>4. ToldOnce'
  <2>1. ASSUME NEW i \in Inputs
        PROVE  /\ Len(told'[i]) <= 1
               /\ told'[i] = <<>> => (heldBy'[i] # NoRound => Held(i)') /\ heardBy'[i] = NoRound
    <3>1. CASE i \in inputs  BY <1>2, <3>1
    <3>2. CASE i \notin inputs
      <4>1. told'[i] = told[i] /\ heardBy'[i] = heardBy[i]
        BY <1>2, <3>2
      <4> QED  BY <3>2, <4>1 DEF InputsInv, ToldOnce
    <3> QED  BY <3>1, <3>2
  <2>2. ASSUME NEW i \in Inputs, heldBy'[i] # NoRound PROVE Opened(heldBy[i])'
    <3>1. heldBy[i] \in Rounds /\ Opened(heldBy[i])
      BY <1>1, <2>2 DEF InputsInv, ToldOnce, TypeOK
    <3> QED  BY <3>1 DEF Opened
  <2> QED  BY <2>1, <2>2 DEF ToldOnce
<1>5. tale # "returned" =>
        \A i \in Inputs : "returned" \in ToSet(told'[i]) => "returned" \in ToSet(told[i])
  <2>1. ASSUME tale # "returned", NEW i \in Inputs, "returned" \in ToSet(told'[i])
        PROVE  "returned" \in ToSet(told[i])
    <3>1. i \notin inputs
      <4>1. ASSUME i \in inputs PROVE FALSE
        <5>1. ToSet(told'[i]) = {tale}
          BY <1>2, <4>1
        <5> QED  BY <2>1, <5>1
      <4> QED  BY <4>1
    <3>2. told'[i] = told[i]
      BY <1>2, <3>1
    <3> QED  BY <2>1, <3>2
  <2> QED  BY <2>1
<1> QED  BY <1>2, <1>3, <1>4, <1>5

(* A refused input goes back at once, and no round had taken it. *)
LEMMA RefusedStep ==
  ASSUME InputsInv, NEW i \in Inputs, NEW s \in 0..current, Submit(i, s), ~Takes(s)
  PROVE  InputsInv'
<1>0. /\ told[i] = <<>> /\ ~Held(i) /\ Tell({i}, "returned")
      /\ UNCHANGED <<generation, slot, cancelled, gen, loop, stops, current, inbox, at, turn, seen,
                     outcome, heldBy, heardBy>>
  BY DEF Submit, lifecycle, requests, bodies
<1>1. /\ Queue' = Queue /\ \A j \in Inputs : Held(j)' <=> Held(j)
      /\ \A r \in Rounds : Opened(r) => Opened(r)'
  BY <1>0 DEF Queue, Held, Opened
<1>2. HeldForOwner' /\ ToldOnce' /\ told' \in [Inputs -> Seq(Tales)]
  <2>1. IsInjective(Queue)'
    BY <1>1 DEF InputsInv, HeldForOwner
  <2>2. /\ {i} \in SUBSET Inputs /\ "returned" \in Tales /\ \A j \in {i} : told[j] = <<>>
        /\ \A j \in Inputs : Held(j)' <=> Held(j) /\ j \notin {i}
        /\ \A j \in Inputs : Held(j)' => inbox'.gen = inbox.gen
        /\ \A j \in Inputs \ {i} : heardBy'[j] = heardBy[j]
        /\ gen' = gen /\ heldBy' = heldBy
    BY <1>0, <1>1 DEF Tales
  <2> QED  BY <1>0, <1>1, <2>1, <2>2, ToldStep
<1>3. TypeOK'
  BY <1>0, <1>2 DEF TypeOK, InputsInv
<1>4. /\ GenerationsDistinct' /\ OneBegin' /\ SlotNewest' /\ LiveReachable'
      /\ InboxOwned' /\ LiveInbox' /\ SeenOwn' /\ AnsweredIsClosed'
  BY <1>0 DEF InputsInv, Begun, Opened, Live, InBody, GenerationsDistinct, OneBegin, SlotNewest,
       LiveReachable, InboxOwned, LiveInbox, SeenOwn, AnsweredIsClosed
<1>5. HeardByItsRound'
  BY <1>0 DEF InputsInv, HeardByItsRound
<1>6. NothingReturned'
  <2>1. heldBy[i] = NoRound
    BY <1>0 DEF InputsInv, ToldOnce
  <2>2. \A j \in Inputs : j # i => told'[j] = told[j]
    BY <1>0 DEF Tell, InputsInv, TypeOK
  <2> QED
    BY <1>0, <2>1, <2>2, NoRoundAssumption DEF InputsInv, NothingReturned
<1> QED  BY <1>2, <1>3, <1>4, <1>5, <1>6 DEF InputsInv

(* A withdrawn input leaves the queue, and the others stay. *)
LEMMA WithdrawnStep ==
  ASSUME InputsInv, NEW i \in Inputs, NEW s \in 0..current, Cancel(i, s)
  PROVE  InputsInv'
<1>0. /\ Held(i) /\ inbox # NoInbox /\ Tell({i}, "withdrawn")
      /\ UNCHANGED <<generation, slot, cancelled, gen, loop, stops, current, at, turn, seen,
                     outcome, heldBy, heardBy>>
  BY DEF Cancel, Takes, lifecycle, requests, bodies, history
<1>1. TypeOK /\ HeldForOwner
  BY DEF InputsInv
<1>2. inbox \in Inbox /\ Queue = inbox.queue /\ Queue \in Seq(Inputs)
  BY <1>0, <1>1, QueueTypes
<1>3. PICK k \in DOMAIN Queue :
        Queue[k] = i /\ inbox' = [inbox EXCEPT !.queue = RemoveAt(Queue, k)]
  BY <1>2 DEF Cancel
<1>4. /\ RemoveAt(Queue, k) \in Seq(Inputs) /\ IsInjective(RemoveAt(Queue, k))
      /\ ToSet(RemoveAt(Queue, k)) = ToSet(Queue) \ {i}
  <2>1. IsInjective(Queue)
    BY <1>1 DEF HeldForOwner
  <2> QED  BY <1>2, <1>3, <2>1, RemovalKeepsOthers
<1>5. /\ inbox' \in Inbox /\ inbox' # NoInbox /\ inbox'.gen = inbox.gen
      /\ Queue' = RemoveAt(Queue, k)
  BY <1>0, <1>1, <1>3, <1>4, Requeued
<1>6. HeldForOwner' /\ ToldOnce' /\ told' \in [Inputs -> Seq(Tales)]
      /\ \A j \in Inputs : "returned" \in ToSet(told'[j]) => "returned" \in ToSet(told[j])
  <2>1. IsInjective(Queue)'
    BY <1>4, <1>5
  <2>2. \A j \in Inputs : Held(j)' <=> Held(j) /\ j \notin {i}
    BY <1>4, <1>5 DEF Held
  <2>3. /\ {i} \in SUBSET Inputs /\ "withdrawn" \in Tales /\ "withdrawn" # "returned"
        /\ \A j \in {i} : told[j] = <<>>
        /\ gen' = gen /\ heldBy' = heldBy
        /\ \A j \in Inputs \ {i} : heardBy'[j] = heardBy[j]
        /\ \A r \in Rounds : Opened(r) => Opened(r)'
    BY <1>0, <1>1 DEF Tales, HeldForOwner, Opened
  <2> QED  BY <1>0, <1>5, <2>1, <2>2, <2>3, ToldStep
<1>7. TypeOK'
  BY <1>0, <1>5, <1>6 DEF TypeOK, InputsInv
<1>8. /\ GenerationsDistinct' /\ OneBegin' /\ SlotNewest' /\ LiveReachable'
      /\ InboxOwned' /\ LiveInbox' /\ SeenOwn' /\ AnsweredIsClosed'
  BY <1>0, <1>5, OwnersStay
<1>9. HeardByItsRound'
  BY <1>0 DEF InputsInv, HeardByItsRound
<1>10. NothingReturned'
  BY <1>0, <1>6 DEF InputsInv, NothingReturned
<1> QED  BY <1>6, <1>7, <1>8, <1>9, <1>10 DEF InputsInv

-----------------------------------------------------------------------------
(* The steps of a body.                                                       *)

(* A step of a body that leaves the inbox to the round it is open for; it may *)
(* not look at another's, nor answer without having closed its own.           *)
BodyMoves(r, place) ==
    /\ at[r] \in {"entering", "turn", "admit", "request", "exit", "saving"}
    /\ place \in {"turn", "admit", "request", "exit", "over"}
    /\ at' = [at EXCEPT ![r] = place]
    /\ at[r] = "saving" => place = "over"
    /\ UNCHANGED <<generation, slot, cancelled, gen, loop, stops, current, heldBy>>
    /\ turn' \in [Rounds -> 0..MaxTurns] /\ seen' \in [Rounds -> Nat]
    /\ outcome' \in [Rounds -> Outcomes]
    /\ \A q \in Rounds \ {r} : seen'[q] = seen[q] /\ outcome'[q] = outcome[q]
    /\ place \in {"turn", "admit", "request", "exit"} =>
         /\ outcome'[r] = outcome[r]
         /\ ~(place = "turn" /\ r \in cancelled) => seen'[r] = gen[r]
    /\ outcome'[r] = "ok" => at[r] = "saving" \/ outcome[r] = "ok"

LEMMA BodyStep ==
  ASSUME InputsInv, NEW r \in Rounds, NEW place, BodyMoves(r, place),
         inbox' # NoInbox <=> inbox # NoInbox, inbox # NoInbox => inbox'.gen = inbox.gen,
         \A i \in Inputs : "returned" \in ToSet(told'[i]) => "returned" \in ToSet(told[i])
  PROVE  /\ GenerationsDistinct' /\ OneBegin' /\ SlotNewest' /\ LiveReachable'
         /\ InboxOwned' /\ LiveInbox' /\ SeenOwn' /\ AnsweredIsClosed' /\ NothingReturned'
         /\ at' \in [Rounds -> Places] /\ \A q \in Rounds : Opened(q) => Opened(q)'
<1> USE DEF BodyMoves, Begun, Opened, Live, InBody
<1>0. /\ at \in [Rounds -> Places] /\ \A q \in Rounds : at'[q] = IF q = r THEN place ELSE at[q]
      /\ outcome \in [Rounds -> Outcomes]
  BY DEF InputsInv, TypeOK
<1>1. at' \in [Rounds -> Places]
  BY <1>0 DEF Places
<1>2. GenerationsDistinct' /\ OneBegin'
  BY <1>0 DEF InputsInv, GenerationsDistinct, OneBegin
<1>3. SlotNewest' /\ LiveReachable'
  <2>1. SlotNewest'
    BY <1>0 DEF InputsInv, SlotNewest, TypeOK
  <2>2. LiveReachable'
    BY <1>0 DEF InputsInv, LiveReachable
  <2> QED  BY <2>1, <2>2
<1>4. InboxOwned'
  BY <1>0 DEF InputsInv, InboxOwned
<1>5. LiveInbox'
  BY <1>0 DEF InputsInv, LiveInbox
<1>6. SeenOwn'
  BY <1>0 DEF InputsInv, SeenOwn
<1>7. AnsweredIsClosed'
  BY <1>0 DEF InputsInv, AnsweredIsClosed
<1>8. NothingReturned'
  <2>1. \A q \in Rounds : outcome'[q] # "none" => at'[q] \in {"over", "shut"}
    BY <1>0 DEF InputsInv, NothingReturned
  <2>2. ASSUME NEW q \in Rounds, NEW i \in Inputs, q \notin cancelled', heldBy'[i] = q,
               at'[q] \notin {"ended", "shut"} \/ outcome'[q] = "ok"
        PROVE  "returned" \notin ToSet(told[i])
    BY <1>0, <2>2 DEF InputsInv, NothingReturned
  <2> QED  BY <2>1, <2>2 DEF NothingReturned
<1>9. \A q \in Rounds : Opened(q) => Opened(q)'
  BY <1>0
<1> QED  BY <1>1, <1>2, <1>3, <1>4, <1>5, <1>6, <1>7, <1>8, <1>9

(* A step that touches neither the inbox nor what is known of the inputs, *)
LEMMA QuietStep ==
  ASSUME InputsInv, NEW r \in Rounds, NEW place, BodyMoves(r, place), Quietly
  PROVE  InputsInv'
<1>1. /\ GenerationsDistinct' /\ OneBegin' /\ SlotNewest' /\ LiveReachable'
      /\ InboxOwned' /\ LiveInbox' /\ SeenOwn' /\ AnsweredIsClosed' /\ NothingReturned'
      /\ at' \in [Rounds -> Places] /\ \A q \in Rounds : Opened(q) => Opened(q)'
  BY BodyStep DEF Quietly
<1>2. HeldForOwner' /\ ToldOnce' /\ HeardByItsRound'
  BY <1>1, InputsUntouched DEF Quietly, BodyMoves, history
<1>3. TypeOK'
  BY <1>1 DEF InputsInv, TypeOK, Quietly, BodyMoves
<1> QED  BY <1>1, <1>2, <1>3 DEF InputsInv

(* and one that admits what the inbox holds: it was taken in for this round. *)
LEMMA AdmitStep ==
  ASSUME InputsInv, NEW r \in Rounds, NEW place, BodyMoves(r, place),
         at[r] \in {"admit", "exit"}, IsMine(r), AdmitAll(r)
  PROVE  InputsInv'
<1>1. TypeOK /\ HeldForOwner /\ ToldOnce /\ HeardByItsRound
  BY DEF InputsInv
<1>2. inbox # NoInbox /\ inbox.gen = gen[r]
  BY DEF IsMine, InputsInv, SeenOwn, InBody
<1>3. inbox \in Inbox /\ Queue = inbox.queue /\ Queue \in Seq(Inputs) /\ ToSet(Queue) \subseteq Inputs
  BY <1>1, <1>2, QueueTypes
<1>4. inbox' \in Inbox /\ inbox' # NoInbox /\ inbox'.gen = inbox.gen /\ Queue' = <<>>
  <2>1. <<>> \in Seq(Inputs) /\ inbox' = [inbox EXCEPT !.queue = <<>>]
    BY DEF AdmitAll
  <2> QED  BY <1>1, <1>2, <2>1, Requeued
<1>5. \A i \in Inputs : Held(i) => heldBy[i] = r
  <2>1. ASSUME NEW i \in Inputs, Held(i) PROVE heldBy[i] = r
    <3>1. heldBy[i] \in Rounds /\ gen[heldBy[i]] = gen[r] /\ Opened(heldBy[i])
      BY <1>1, <1>2, <2>1, NoRoundAssumption DEF HeldForOwner, ToldOnce
    <3>2. Begun(r) /\ Begun(heldBy[i])
      BY <3>1 DEF Begun, Opened
    <3> QED  BY <3>1, <3>2 DEF InputsInv, GenerationsDistinct
  <2> QED  BY <2>1
<1>6. \A i \in Inputs : ~Held(i)'
  BY <1>4 DEF Held, ToSet
<1>7. \A q \in Rounds : Opened(q) => Opened(q)'
  BY <1>1 DEF BodyMoves, Opened, TypeOK
<1>8. /\ HeldForOwner' /\ ToldOnce' /\ told' \in [Inputs -> Seq(Tales)]
      /\ \A i \in Inputs : "returned" \in ToSet(told'[i]) => "returned" \in ToSet(told[i])
  <2>1. IsInjective(Queue)'
    BY <1>4 DEF IsInjective
  <2>2. /\ ToSet(Queue) \in SUBSET Inputs /\ "heard" \in Tales /\ "heard" # "returned"
        /\ Tell(ToSet(Queue), "heard")
        /\ \A i \in ToSet(Queue) : told[i] = <<>>
        /\ gen' = gen /\ heldBy' = heldBy
    BY <1>1, <1>3 DEF Tales, HeldForOwner, Held, AdmitAll, BodyMoves
  <2>3. \A i \in Inputs \ ToSet(Queue) : heardBy'[i] = heardBy[i]
    BY DEF AdmitAll, Held
  <2>4. \A i \in Inputs : Held(i)' <=> Held(i) /\ i \notin ToSet(Queue)
    BY <1>6 DEF Held
  <2> QED  BY <1>6, <1>7, <2>1, <2>2, <2>3, <2>4, ToldStep
<1>9. /\ GenerationsDistinct' /\ OneBegin' /\ SlotNewest' /\ LiveReachable'
      /\ InboxOwned' /\ LiveInbox' /\ SeenOwn' /\ AnsweredIsClosed' /\ NothingReturned'
      /\ at' \in [Rounds -> Places]
  BY <1>2, <1>4, <1>8, BodyStep
<1>10. HeardByItsRound' /\ heardBy' \in [Inputs -> Rounds \cup {NoRound}]
  <2>1. \A i \in Inputs : heardBy'[i] = IF Held(i) THEN r ELSE heardBy[i]
    BY DEF AdmitAll
  <2>2. heldBy' = heldBy
    BY DEF BodyMoves
  <2>3. HeardByItsRound'
    BY <1>1, <1>5, <2>1, <2>2 DEF HeardByItsRound
  <2>4. heardBy' \in [Inputs -> Rounds \cup {NoRound}]
    BY <1>1 DEF AdmitAll, TypeOK
  <2> QED  BY <2>3, <2>4
<1>11. TypeOK'
  BY <1>1, <1>4, <1>8, <1>9, <1>10 DEF TypeOK, BodyMoves
<1> QED  BY <1>8, <1>9, <1>10, <1>11 DEF InputsInv

(* The inbox a body may look at before its first turn is the one opened for it. *)
LEMMA FirstSteps ==
  ASSUME InputsInv, NEW r \in Rounds, HookDenies(r) \/ CaptureInbox(r) \/ CheckCancel(r)
  PROVE  InputsInv'
<1> USE DEF BodyMoves, Quietly, Within, Return, Goes, lifecycle, requests
<1>0. TypeOK
  BY DEF InputsInv
<1>1. CASE HookDenies(r)
  <2>1. BodyMoves(r, "over") /\ Quietly
    BY <1>0, <1>1, BoundsAssumption DEF HookDenies, TypeOK, Outcomes
  <2> QED  BY <2>1, QuietStep
<1>2. CASE CaptureInbox(r)
  <2>1. seen' \in [Rounds -> Nat] /\ \A q \in Rounds \ {r} : seen'[q] = seen[q]
    BY <1>0, <1>2 DEF CaptureInbox, TypeOK, Inbox
  <2>2. r \notin cancelled => seen'[r] = gen[r]
    BY <1>0, <1>2 DEF CaptureInbox, TypeOK, InputsInv, LiveInbox, InBody
  <2>3. BodyMoves(r, "turn") /\ Quietly
    BY <1>0, <1>2, <2>1, <2>2 DEF CaptureInbox, TypeOK
  <2> QED  BY <2>3, QuietStep
<1>3. CASE CheckCancel(r)
  <2>1. seen[r] = gen[r]
    BY <1>3 DEF CheckCancel, InputsInv, SeenOwn, InBody
  <2>2. BodyMoves(r, "admit") /\ Quietly
    BY <1>0, <1>3, <2>1 DEF CheckCancel, TypeOK
  <2> QED  BY <2>2, QuietStep
<1> QED  BY <1>1, <1>2, <1>3

LEMMA TurnSteps ==
  ASSUME InputsInv, NEW r \in Rounds, AdmitAtTop(r) \/ CallTools(r) \/ Answer(r) \/ HardStop(r)
  PROVE  InputsInv'
<1> USE DEF BodyMoves, Within, Return, Goes, lifecycle, requests
<1>0. TypeOK
  BY DEF InputsInv
<1>1. seen[r] = gen[r]
  BY DEF AdmitAtTop, CallTools, Answer, HardStop, InputsInv, SeenOwn, InBody
<1>2. CASE AdmitAtTop(r)
  <2>1. BodyMoves(r, "request") /\ at[r] = "admit"
    BY <1>0, <1>1, <1>2 DEF AdmitAtTop, TypeOK
  <2> QED  BY <1>2, <2>1, QuietStep, AdmitStep DEF AdmitAtTop
<1>3. CASE CallTools(r)
  <2>1. turn' \in [Rounds -> 0..MaxTurns]
    BY <1>0, <1>3, BoundsAssumption DEF CallTools, TypeOK
  <2>2. BodyMoves(r, "turn") /\ Quietly
    BY <1>0, <1>1, <1>3, <2>1 DEF CallTools, TypeOK
  <2> QED  BY <2>2, QuietStep
<1>4. CASE Answer(r)
  <2>1. BodyMoves(r, "exit") /\ Quietly
    BY <1>0, <1>1, <1>4 DEF Answer, TypeOK
  <2> QED  BY <2>1, QuietStep
<1>5. CASE HardStop(r)
  <2>1. turn' \in [Rounds -> 0..MaxTurns] /\ outcome' \in [Rounds -> Outcomes]
    BY <1>0, <1>5, BoundsAssumption DEF HardStop, TypeOK, Outcomes
  <2>2. BodyMoves(r, "over") /\ at[r] = "exit"
    BY <1>0, <1>5, <2>1 DEF HardStop, TypeOK
  <2> QED  BY <1>5, <2>2, QuietStep, AdmitStep DEF HardStop
<1> QED  BY <1>2, <1>3, <1>4, <1>5

LEMMA LastSteps ==
  ASSUME InputsInv, NEW r \in Rounds, Saved(r) \/ Interrupted(r) \/ Fail(r)
  PROVE  InputsInv'
<1> USE DEF BodyMoves, Return, Goes, lifecycle, requests
<1>0. TypeOK
  BY DEF InputsInv
<1>1. turn' \in [Rounds -> 0..MaxTurns] /\ seen' \in [Rounds -> Nat]
  <2>1. turn' = [turn EXCEPT ![r] = 0] /\ seen' = [seen EXCEPT ![r] = 0]
    BY DEF Saved, Interrupted, Fail
  <2>2. 0 \in 0..MaxTurns
    BY BoundsAssumption
  <2> QED  BY <1>0, <2>1, <2>2 DEF TypeOK
<1>2. PICK result \in {"ok", "interrupted", "error"} :
        /\ outcome' = [outcome EXCEPT ![r] = result]
        /\ result = "ok" => at[r] = "saving"
  BY DEF Saved, Interrupted, Fail
<1>3. /\ outcome' \in [Rounds -> Outcomes] /\ outcome'[r] = result
      /\ \A q \in Rounds \ {r} : outcome'[q] = outcome[q]
  BY <1>0, <1>2 DEF TypeOK, Outcomes
<1>4. /\ at[r] \in {"entering", "turn", "request", "saving"} /\ at' = [at EXCEPT ![r] = "over"]
      /\ UNCHANGED <<generation, slot, cancelled, gen, loop, stops, current, heldBy>> /\ Quietly
      /\ \A q \in Rounds \ {r} : seen'[q] = seen[q]
  BY <1>0 DEF Saved, Interrupted, Fail, TypeOK
<1>5. BodyMoves(r, "over")
  BY <1>1, <1>2, <1>3, <1>4
<1> QED  BY <1>4, <1>5, QuietStep

(* The exit gate: input that waits takes one more turn; else the inbox is     *)
(* closed with nothing in it, and it was no other round's.                    *)
LEMMA ExitGateStep ==
  ASSUME InputsInv, NEW r \in Rounds, ExitGate(r)
  PROVE  InputsInv'
<1>0. TypeOK /\ at[r] = "exit"
  BY DEF InputsInv, ExitGate
<1>1. seen[r] = gen[r]
  BY <1>0 DEF InputsInv, SeenOwn, InBody
<1>2. CASE turn[r] < MaxTurns /\ turn' = [turn EXCEPT ![r] = @ + 1] /\ Goes(r, "turn")
           /\ (Quietly \/ (IsMine(r) /\ AdmitAll(r)))
  <2>1. turn' \in [Rounds -> 0..MaxTurns]
    BY <1>0, <1>2, BoundsAssumption DEF TypeOK
  <2>2. BodyMoves(r, "turn")
    BY <1>0, <1>1, <1>2, <2>1
       DEF ExitGate, Within, Goes, BodyMoves, lifecycle, requests, TypeOK
  <2> QED  BY <1>0, <1>2, <2>2, QuietStep, AdmitStep
<1>3. CASE /\ ~Waiting(r) /\ inbox' = IF IsMine(r) THEN NoInbox ELSE inbox
           /\ Goes(r, "saving") /\ UNCHANGED <<turn, told, heardBy>>
  <2>0. /\ at' = [at EXCEPT ![r] = "saving"]
        /\ UNCHANGED <<generation, slot, cancelled, gen, loop, stops, current, turn, seen, outcome,
                       told, heldBy, heardBy>>
    BY <1>3 DEF ExitGate, Within, Goes, lifecycle, requests
  <2>1. \A q \in Rounds : at'[q] = IF q = r THEN "saving" ELSE at[q]
    BY <1>0, <2>0 DEF TypeOK
  <2>2. CASE ~IsMine(r)
    <3>1. UNCHANGED inbox /\ r \in cancelled
      BY <1>0, <1>1, <1>3, <2>2 DEF InputsInv, LiveInbox, InBody, IsMine
    <3>2. TypeOK'
      <4>1. at' \in [Rounds -> Places]
        BY <1>0, <2>0 DEF TypeOK, Places
      <4> QED  BY <1>0, <2>0, <3>1, <4>1 DEF TypeOK
    <3>3. GenerationsDistinct' /\ OneBegin' /\ SlotNewest' /\ LiveReachable'
      BY <1>0, <2>0, <2>1
         DEF InputsInv, GenerationsDistinct, OneBegin, SlotNewest, LiveReachable, Begun, Live, TypeOK
    <3>4. InboxOwned' /\ LiveInbox' /\ SeenOwn'
      BY <1>0, <2>0, <2>1, <3>1 DEF InputsInv, InboxOwned, LiveInbox, SeenOwn, InBody, Opened
    <3>5. HeldForOwner' /\ ToldOnce' /\ HeardByItsRound'
      BY <1>0, <2>0, <2>1, <3>1, InputsUntouched DEF Opened, history
    <3>6. AnsweredIsClosed'
      BY <2>0, <2>1, <3>1 DEF InputsInv, AnsweredIsClosed
    <3>7. NothingReturned'
      BY <1>0, <2>0, <2>1 DEF InputsInv, NothingReturned
    <3> QED  BY <3>2, <3>3, <3>4, <3>5, <3>6, <3>7 DEF InputsInv
  <2>3. CASE IsMine(r)
    <3>1. inbox # NoInbox /\ inbox.gen = gen[r] /\ inbox' = NoInbox /\ Queue = <<>> /\ Queue' = <<>>
      BY <1>1, <1>3, <2>3 DEF IsMine, Waiting, Queue
    <3>2. \A i \in Inputs : ~Held(i) /\ ~Held(i)'
      BY <3>1 DEF Held, ToSet
    <3>3. TypeOK'
      <4>1. at' \in [Rounds -> Places]
        BY <1>0, <2>0 DEF TypeOK, Places
      <4> QED  BY <1>0, <2>0, <3>1, <4>1 DEF TypeOK
    <3>4. GenerationsDistinct' /\ OneBegin' /\ SlotNewest' /\ LiveReachable'
      BY <1>0, <2>0, <2>1
         DEF InputsInv, GenerationsDistinct, OneBegin, SlotNewest, LiveReachable, Begun, Live, TypeOK
    <3>5. InboxOwned' /\ AnsweredIsClosed'
      BY <3>1 DEF InboxOwned, AnsweredIsClosed
    <3>6. LiveInbox' /\ SeenOwn'
      <4>1. \A q \in Rounds : (at[q] = "entering" \/ InBody(q)) /\ q \notin cancelled => q = r
        BY <1>0, <3>1 DEF InputsInv, LiveInbox, GenerationsDistinct, InBody, Begun
      <4> QED  BY <1>0, <2>0, <2>1, <4>1 DEF InputsInv, LiveInbox, SeenOwn, InBody
    <3>7. HeldForOwner'
      BY <3>1, <3>2 DEF HeldForOwner, IsInjective
    <3>8. ToldOnce' /\ HeardByItsRound'
      BY <1>0, <2>0, <2>1, <3>2 DEF InputsInv, ToldOnce, HeardByItsRound, Opened
    <3>9. NothingReturned'
      BY <1>0, <2>0, <2>1 DEF InputsInv, NothingReturned
    <3> QED  BY <3>3, <3>4, <3>5, <3>6, <3>7, <3>8, <3>9 DEF InputsInv
  <2> QED  BY <2>2, <2>3
<1> QED  BY <1>2, <1>3 DEF ExitGate, Waiting

-----------------------------------------------------------------------------
(* The tail.                                                                  *)

(* What the inbox of the round still holds goes back; a round that answered   *)
(* undisturbed finds it closed.                                               *)
LEMMA CloseInboxStep ==
  ASSUME InputsInv, NEW r \in Rounds, CloseInbox(r)
  PROVE  InputsInv'
<1> DEFINE back == IF OpenedBy(r) THEN ToSet(Queue) ELSE {}
<1>0. /\ TypeOK /\ at[r] = "over" /\ at' = [at EXCEPT ![r] = "shut"]
      /\ inbox' = (IF OpenedBy(r) THEN NoInbox ELSE inbox) /\ Tell(back, "returned")
      /\ UNCHANGED <<generation, slot, cancelled, gen, loop, stops, current, turn, seen, outcome,
                     heldBy, heardBy>>
  BY DEF CloseInbox, CloseWith, Goes, InputsInv, lifecycle, requests, bodies, history
<1>1. /\ \A q \in Rounds : at'[q] = IF q = r THEN "shut" ELSE at[q]
      /\ at' \in [Rounds -> Places]
  <2>1. \A q \in Rounds : at'[q] = IF q = r THEN "shut" ELSE at[q]
    BY <1>0 DEF TypeOK
  <2>2. at' \in [Rounds -> Places]
    BY <1>0 DEF TypeOK, Places
  <2> QED  BY <2>1, <2>2
<1>2. /\ back \in SUBSET Inputs /\ \A i \in back : told[i] = <<>> /\ Held(i)
      /\ \A i \in back : OpenedBy(r)
  BY <1>0, QueueTypes DEF InputsInv, HeldForOwner, Held
<1> HIDE DEF back
<1>3. /\ ~OpenedBy(r) => Queue' = Queue
      /\ OpenedBy(r) => Queue' = <<>> /\ back = ToSet(Queue)
  BY <1>0 DEF Queue, back
<1>4. /\ \A i \in Inputs : Held(i)' <=> Held(i) /\ i \notin back
      /\ \A i \in Inputs : Held(i)' => inbox'.gen = inbox.gen
      /\ IsInjective(Queue)'
  <2>1. CASE OpenedBy(r)
    <3>1. \A i \in Inputs : ~Held(i)'
      BY <1>3, <2>1 DEF Held, ToSet
    <3>2. IsInjective(Queue)'
      BY <1>3, <2>1 DEF IsInjective
    <3> QED  BY <1>3, <2>1, <3>1, <3>2 DEF Held
  <2>2. CASE ~OpenedBy(r)
    <3>1. back = {} /\ inbox' = inbox
      BY <1>0, <2>2 DEF back
    <3> QED  BY <1>3, <2>2, <3>1 DEF Held, InputsInv, HeldForOwner
  <2> QED  BY <2>1, <2>2
<1>5. HeldForOwner' /\ ToldOnce' /\ told' \in [Inputs -> Seq(Tales)]
  <2>1. \A q \in Rounds : Opened(q) => Opened(q)'
    BY <1>1 DEF Opened
  <2>2. "returned" \in Tales /\ \A i \in Inputs \ back : heardBy'[i] = heardBy[i]
    BY <1>0 DEF Tales
  <2> QED  BY <1>0, <1>2, <1>4, <2>1, <2>2, ToldStep
<1>6. TypeOK'
  BY <1>0, <1>1, <1>5 DEF TypeOK
<1>7. GenerationsDistinct' /\ OneBegin' /\ SlotNewest' /\ LiveReachable' /\ SeenOwn'
  BY <1>0, <1>1 DEF InputsInv, GenerationsDistinct, OneBegin, SlotNewest, LiveReachable, SeenOwn,
       Begun, Live, InBody, TypeOK
<1>8. InboxOwned' /\ AnsweredIsClosed' /\ HeardByItsRound'
  <2>1. InboxOwned'
    BY <1>0, <1>1 DEF InputsInv, InboxOwned, OpenedBy, Opened
  <2>2. AnsweredIsClosed'
    BY <1>0, <1>1 DEF InputsInv, AnsweredIsClosed
  <2>3. HeardByItsRound'
    BY <1>0 DEF InputsInv, HeardByItsRound
  <2> QED  BY <2>1, <2>2, <2>3
<1>9. LiveInbox'
  <2>1. ASSUME NEW q \in Rounds, at'[q] = "entering" \/ InBody(q)', q \notin cancelled
        PROVE  inbox' # NoInbox /\ inbox'.gen = gen[q]
    <3>1. q # r /\ (at[q] = "entering" \/ InBody(q))
      BY <1>1, <2>1 DEF InBody
    <3>2. inbox # NoInbox /\ inbox.gen = gen[q]
      BY <2>1, <3>1 DEF InputsInv, LiveInbox
    <3>3. ~OpenedBy(r)
      BY <1>0, <3>1, <3>2 DEF OpenedBy, InputsInv, GenerationsDistinct, Begun, InBody
    <3> QED  BY <1>0, <3>2, <3>3
  <2> QED  BY <1>0, <2>1 DEF LiveInbox
<1>10. NothingReturned'
  <2>1. \A q \in Rounds : outcome'[q] # "none" => at'[q] \in {"over", "shut"}
    BY <1>0, <1>1 DEF InputsInv, NothingReturned
  <2>2. ASSUME NEW q \in Rounds, NEW i \in Inputs, q \notin cancelled, heldBy[i] = q,
               at'[q] \notin {"ended", "shut"} \/ outcome[q] = "ok"
        PROVE  "returned" \notin ToSet(told'[i])
    <3>1. i \notin back
      <4>1. SUFFICES ASSUME i \in back PROVE FALSE
        OBVIOUS
      <4>2. OpenedBy(r) /\ Held(i)
        BY <1>2, <4>1
      <4>3. gen[q] = gen[r] /\ inbox # NoInbox /\ inbox.gen = gen[r] /\ Opened(q)
        BY <2>2, <4>2, NoRoundAssumption DEF OpenedBy, InputsInv, HeldForOwner, ToldOnce
      <4>4. q = r
        BY <1>0, <4>3 DEF InputsInv, GenerationsDistinct, Begun, Opened
      <4>5. outcome[r] = "ok"
        BY <1>1, <2>2, <4>4
      <4> QED  BY <2>2, <4>3, <4>4, <4>5 DEF InputsInv, AnsweredIsClosed
    <3>2. told'[i] = told[i]
      BY <1>0, <3>1 DEF Tell
    <3>3. at[q] \notin {"ended", "shut"} \/ outcome[q] = "ok"
      BY <1>0, <1>1, <2>2
    <3> QED  BY <2>2, <3>2, <3>3 DEF InputsInv, NothingReturned
  <2> QED  BY <1>0, <2>1, <2>2 DEF NothingReturned
<1> QED  BY <1>5, <1>6, <1>7, <1>8, <1>9, <1>10 DEF InputsInv

(* The task ends; the slot is released if it is still this round's. *)
LEMMA FinishStep ==
  ASSUME InputsInv, NEW r \in Rounds, Finish(r)
  PROVE  InputsInv'
<1> USE NoRoundAssumption
<1>0. /\ TypeOK /\ at[r] = "shut" /\ at' = [at EXCEPT ![r] = "ended"]
      /\ slot' = (IF gen[r] = generation THEN NoRound ELSE slot)
      /\ outcome' = [outcome EXCEPT ![r] = "none"]
      /\ UNCHANGED <<generation, cancelled, gen, loop, stops, current, inbox, turn, seen, told,
                     heldBy, heardBy>>
  BY DEF Finish, Goes, InputsInv, requests, history
<1>1. /\ \A q \in Rounds : at'[q] = IF q = r THEN "ended" ELSE at[q]
      /\ \A q \in Rounds : outcome'[q] = IF q = r THEN "none" ELSE outcome[q]
  BY <1>0 DEF TypeOK
<1>2. slot # NoRound /\ slot # r => slot' = slot \/ loop.op = "cancelCurrent"
  BY <1>0 DEF InputsInv, SlotNewest, GenerationsDistinct, Begun, TypeOK
<1>3. gen[r] = generation /\ slot # NoRound => slot = r
  <2>1. SUFFICES ASSUME gen[r] = generation, slot # NoRound PROVE slot = r
    OBVIOUS
  <2>2. slot \in Rounds /\ Begun(slot) /\ gen[r] <= gen[slot] /\ Begun(r)
    BY <1>0, <2>1 DEF InputsInv, SlotNewest, Begun, TypeOK
  <2>3. gen[slot] \in 1..generation /\ generation \in Nat
    BY <1>0, <2>2 DEF InputsInv, GenerationsDistinct, TypeOK
  <2>4. gen[slot] = gen[r]
    BY <2>1, <2>2, <2>3
  <2> QED  BY <2>2, <2>4 DEF InputsInv, GenerationsDistinct
<1>4. TypeOK'
  <2>1. at' \in [Rounds -> Places]
    BY <1>0 DEF TypeOK, Places
  <2>2. outcome' \in [Rounds -> Outcomes]
    BY <1>0 DEF TypeOK, Outcomes
  <2> QED  BY <1>0, <2>1, <2>2 DEF TypeOK
<1>5. GenerationsDistinct' /\ LiveInbox' /\ SeenOwn'
  BY <1>0, <1>1 DEF InputsInv, GenerationsDistinct, LiveInbox, SeenOwn, Begun, InBody
<1>6. OneBegin'
  BY <1>0, <1>1, <1>3 DEF InputsInv, OneBegin
<1>7. SlotNewest'
  BY <1>0, <1>1 DEF InputsInv, SlotNewest, Begun, TypeOK
<1>8. LiveReachable'
  BY <1>0, <1>1, <1>3 DEF InputsInv, LiveReachable, Live
<1>9. InboxOwned' /\ AnsweredIsClosed'
  BY <1>0, <1>1 DEF InputsInv, InboxOwned, AnsweredIsClosed, Opened
<1>10. HeldForOwner' /\ ToldOnce' /\ HeardByItsRound'
  BY <1>0, <1>1, InputsUntouched DEF Opened, history
<1>11. NothingReturned'
  BY <1>0, <1>1 DEF InputsInv, NothingReturned
<1> QED  BY <1>4, <1>5, <1>6, <1>7, <1>8, <1>9, <1>10, <1>11 DEF InputsInv

-----------------------------------------------------------------------------
(* The invariant holds at the start and is kept by every step.                *)

LEMMA InputsInit == Init => InputsInv
<1> SUFFICES ASSUME Init PROVE InputsInv
  OBVIOUS
<1> USE NoRoundAssumption DEF Init
<1>1. TypeOK
  <2>1. loop \in [op : LoopOps, round : Rounds \cup {NoRound}, previous : Rounds \cup {NoRound}]
    BY DEF LoopOps, Ready, Loop
  <2>2. /\ at \in [Rounds -> Places] /\ outcome \in [Rounds -> Outcomes]
        /\ told \in [Inputs -> Seq(Tales)]
    BY DEF Places, Outcomes
  <2> QED  BY <2>1, <2>2, BoundsAssumption DEF TypeOK
<1>2. GenerationsDistinct /\ OneBegin /\ SlotNewest /\ LiveReachable
  BY DEF GenerationsDistinct, OneBegin, SlotNewest, LiveReachable, Begun, Live, Ready, Loop
<1>3. InboxOwned /\ LiveInbox /\ SeenOwn /\ AnsweredIsClosed
  BY DEF InboxOwned, LiveInbox, SeenOwn, AnsweredIsClosed, InBody
<1>4. HeldForOwner
  BY DEF HeldForOwner, Held, Queue, ToSet, IsInjective
<1>5. ToldOnce /\ HeardByItsRound
  BY DEF ToldOnce, HeardByItsRound
<1>6. NothingReturned
  BY DEF NothingReturned, ToSet
<1> QED  BY <1>1, <1>2, <1>3, <1>4, <1>5, <1>6 DEF InputsInv

LEMMA InputsStutter == InputsInv /\ UNCHANGED vars => InputsInv'
<1> SUFFICES ASSUME InputsInv, UNCHANGED vars PROVE InputsInv'
  OBVIOUS
<1> USE DEF vars, lifecycle, requests, bodies, history
<1>1. TypeOK' /\ GenerationsDistinct' /\ OneBegin' /\ SlotNewest' /\ LiveReachable'
  BY DEF InputsInv, TypeOK, GenerationsDistinct, OneBegin, SlotNewest, LiveReachable, Begun, Live
<1>2. InboxOwned' /\ LiveInbox' /\ SeenOwn' /\ AnsweredIsClosed' /\ NothingReturned'
  BY DEF InputsInv, InboxOwned, LiveInbox, SeenOwn, AnsweredIsClosed, NothingReturned, Opened, InBody
<1>3. HeldForOwner' /\ ToldOnce' /\ HeardByItsRound'
  BY InputsUntouched DEF Opened
<1> QED  BY <1>1, <1>2, <1>3 DEF InputsInv

LEMMA InputsNext == InputsInv /\ [Next]_vars => InputsInv'
<1> SUFFICES ASSUME InputsInv, [Next]_vars PROVE InputsInv'
  OBVIOUS
<1>1. ASSUME NEW r \in Rounds, Task(r) \/ Environment(r) PROVE InputsInv'
  BY <1>1, FirstSteps, TurnSteps, LastSteps, ExitGateStep, CloseInboxStep, FinishStep
     DEF Task, Environment
<1>2. CASE Prologue
  BY <1>2, CancelPreviousStep, OpenInboxStep DEF Prologue
<1>3. CASE Requests
  <2>1. ASSUME NEW i \in Inputs, NEW s \in 0..current, Submit(i, s) \/ Cancel(i, s) PROVE InputsInv'
    BY <2>1, TakenStep, RefusedStep, WithdrawnStep
  <2> QED
    BY <1>3, <2>1, BeginStep, CancelCurrentStep, SwitchStep DEF Requests
<1>4. CASE Quiescent \/ UNCHANGED vars
  BY <1>4, InputsStutter DEF Quiescent
<1> QED  BY <1>1, <1>2, <1>3, <1>4 DEF Next

LEMMA InputsInvariant == Spec => []InputsInv
BY InputsInit, InputsNext, PTL DEF Spec

-----------------------------------------------------------------------------
(* The theorems.                                                              *)

(* The inbox, the rounds and the requests keep their types. *)
THEOREM InputsTypeCorrect == Spec => []TypeOK
<1>1. InputsInv => TypeOK
  BY DEF InputsInv
<1> QED  BY <1>1, InputsInvariant, PTL

(* Input is admitted by the round it was taken in for and by no other: a      *)
(* superseded round that still runs never drains its successor's inbox.       *)
THEOREM InputsHeardByTheirRound == Spec => []HeardByItsRound
<1>1. InputsInv => HeardByItsRound
  BY DEF InputsInv
<1> QED  BY <1>1, InputsInvariant, PTL

(* A round that ran to its answer undisturbed gave no input back: the gate    *)
(* closed in the step that found the queue empty.                             *)
THEOREM AcceptedInputsAreHeard == Spec => []AcceptedIsHeard
<1>1. InputsInv => AcceptedIsHeard
  BY DEF InputsInv, NothingReturned, AcceptedIsHeard
<1> QED  BY <1>1, InputsInvariant, PTL

-----------------------------------------------------------------------------
(* The refinement: every step moves each input as InputDelivery allows.       *)

Stage == [i \in Inputs |-> StageOf(i)]

LEMMA StageTypes == InputsInv => Stage \in [Inputs -> Delivery!Stages]
<1> SUFFICES ASSUME InputsInv PROVE Stage \in [Inputs -> Delivery!Stages]
  OBVIOUS
<1>1. ASSUME NEW i \in Inputs PROVE StageOf(i) \in Delivery!Stages
  <2>1. told[i] \in Seq(Tales) /\ Len(told[i]) <= 1 /\ (Held(i) => told[i] = <<>>)
    BY DEF InputsInv, TypeOK, ToldOnce, HeldForOwner
  <2>2. ASSUME NEW t \in Seq(Tales), t # <<>>, Len(t) <= 1 PROVE Len(t) = 1 /\ t[1] \in Tales
    <3>1. Len(t) \in Nat \ {0}
      BY <2>2, EmptySeq
    <3>2. Len(t) = 1
      BY <2>2, <3>1
    <3>3. 1 \in 1..Len(t)
      BY <3>2
    <3>4. t \in [1..Len(t) -> Tales]
      BY LenProperties
    <3> QED  BY <3>2, <3>3, <3>4
  <2> QED  BY <2>1, <2>2 DEF StageOf, Tales, Delivery!Stages
<1> QED  BY <1>1 DEF Stage

(* An input nobody is told of, held or not as before, stays where it is. *)
LEMMA Unmoved ==
  ASSUME NEW i \in Inputs, told'[i] = told[i], Held(i)' <=> Held(i)
  PROVE  Delivery!Moves(StageOf(i), StageOf(i)')
BY DEF StageOf, Delivery!Moves

LEMMA AllUnmoved ==
  ASSUME UNCHANGED <<inbox, told>>
  PROVE  \A i \in Inputs : Delivery!Moves(StageOf(i), StageOf(i)')
BY Unmoved DEF Held, Queue

(* Inputs that are told of leave the inbox, or were never taken in. *)
LEMMA ToldMoves ==
  ASSUME InputsInv, InputsInv', NEW inputs \in SUBSET Inputs, NEW tale \in Tales,
         Tell(inputs, tale), \A i \in inputs : told[i] = <<>> /\ (Held(i) \/ tale = "returned"),
         \A i \in Inputs \ inputs : Held(i)' <=> Held(i)
  PROVE  \A i \in Inputs : Delivery!Moves(StageOf(i), StageOf(i)')
<1>1. /\ \A i \in Inputs \ inputs : told'[i] = told[i]
      /\ \A i \in inputs : told'[i] = <<tale>>
  BY ToldFirst DEF InputsInv
<1>2. ASSUME NEW i \in Inputs PROVE Delivery!Moves(StageOf(i), StageOf(i)')
  <2>1. CASE i \notin inputs
    BY <1>1, <2>1, Unmoved
  <2>2. CASE i \in inputs
    <3>1. told'[i] = <<tale>> /\ <<tale>> # <<>> /\ Len(<<tale>>) = 1 /\ <<tale>>[1] = tale
      BY <1>1, <2>2
    <3>2. ~Held(i)'
      BY <3>1 DEF InputsInv, HeldForOwner
    <3>3. StageOf(i)' = tale
      BY <3>1, <3>2 DEF StageOf
    <3>4. StageOf(i) = "held" \/ (StageOf(i) = "unsent" /\ tale = "returned")
      BY <2>2 DEF StageOf
    <3> QED  BY <3>3, <3>4 DEF Tales, Delivery!Moves
  <2> QED  BY <2>1, <2>2
<1> QED  BY <1>2

LEMMA SubmitMoves ==
  ASSUME InputsInv, InputsInv', NEW i \in Inputs, NEW s \in 0..current, Submit(i, s)
  PROVE  \A j \in Inputs : Delivery!Moves(StageOf(j), StageOf(j)')
<1>0. told[i] = <<>> /\ ~Held(i)
  BY DEF Submit
<1>1. CASE Takes(s)
  <2>1. /\ inbox # NoInbox /\ inbox' = [inbox EXCEPT !.queue = Append(@, i)] /\ told' = told
    BY <1>1 DEF Submit, Takes
  <2>2. TypeOK /\ Queue \in Seq(Inputs) /\ Queue = inbox.queue /\ inbox \in Inbox
    BY <2>1, QueueTypes DEF InputsInv
  <2>3. Append(Queue, i) \in Seq(Inputs) /\ inbox' = [inbox EXCEPT !.queue = Append(Queue, i)]
    BY <2>1, <2>2
  <2>4. Queue' = Append(Queue, i)
    BY <2>1, <2>2, <2>3, Requeued
  <2>5. ToSet(Append(Queue, i)) = ToSet(Queue) \cup {i}
    BY <2>2, AppendedLast
  <2>6. \A j \in Inputs : Held(j)' <=> Held(j) \/ j = i
    BY <2>4, <2>5 DEF Held
  <2>7. Delivery!Moves(StageOf(i), StageOf(i)')
    BY <1>0, <2>1, <2>6 DEF StageOf, Delivery!Moves
  <2> QED  BY <2>1, <2>6, <2>7, Unmoved
<1>2. CASE ~Takes(s)
  <2>1. Tell({i}, "returned") /\ inbox' = inbox
    BY <1>2 DEF Submit
  <2>2. /\ {i} \in SUBSET Inputs /\ "returned" \in Tales
        /\ \A j \in Inputs \ {i} : Held(j)' <=> Held(j)
    BY <2>1 DEF Tales, Held, Queue
  <2> QED  BY <1>0, <2>1, <2>2, ToldMoves
<1> QED  BY <1>1, <1>2

LEMMA CancelMoves ==
  ASSUME InputsInv, InputsInv', NEW i \in Inputs, NEW s \in 0..current, Cancel(i, s)
  PROVE  \A j \in Inputs : Delivery!Moves(StageOf(j), StageOf(j)')
<1>0. Held(i) /\ inbox # NoInbox /\ Tell({i}, "withdrawn") /\ TypeOK /\ HeldForOwner
  BY DEF Cancel, Takes, InputsInv
<1>1. inbox \in Inbox /\ Queue = inbox.queue /\ Queue \in Seq(Inputs)
  BY <1>0, QueueTypes
<1>2. PICK k \in DOMAIN Queue :
        Queue[k] = i /\ inbox' = [inbox EXCEPT !.queue = RemoveAt(Queue, k)]
  BY <1>1 DEF Cancel
<1>3. RemoveAt(Queue, k) \in Seq(Inputs) /\ ToSet(RemoveAt(Queue, k)) = ToSet(Queue) \ {i}
  <2>1. IsInjective(Queue)
    BY <1>0 DEF HeldForOwner
  <2> QED  BY <1>1, <1>2, <2>1, RemovalKeepsOthers
<1>4. Queue' = RemoveAt(Queue, k)
  BY <1>0, <1>2, <1>3, Requeued
<1>5. /\ {i} \in SUBSET Inputs /\ "withdrawn" \in Tales
      /\ \A j \in Inputs \ {i} : Held(j)' <=> Held(j)
      /\ \A j \in {i} : told[j] = <<>> /\ Held(j)
  BY <1>0, <1>3, <1>4 DEF Tales, Held, HeldForOwner
<1> QED  BY <1>0, <1>5, ToldMoves

(* The inbox is emptied, by an admission, its close or its successor. *)
LEMMA EmptiedMoves ==
  ASSUME InputsInv, InputsInv', NEW tale \in Tales, Tell(ToSet(Queue), tale)
  PROVE  \A i \in Inputs : Queue' = <<>> => Delivery!Moves(StageOf(i), StageOf(i)')
<1>1. ToSet(Queue) \in SUBSET Inputs
  BY QueueTypes DEF InputsInv
<1>2. \A i \in ToSet(Queue) : told[i] = <<>> /\ Held(i)
  BY <1>1 DEF InputsInv, HeldForOwner, Held
<1>3. Queue' = <<>> => \A i \in Inputs \ ToSet(Queue) : Held(i)' <=> Held(i)
  BY DEF Held, ToSet
<1> QED  BY <1>1, <1>2, <1>3, ToldMoves

LEMMA AdmitMoves ==
  ASSUME InputsInv, InputsInv', NEW r \in Rounds, IsMine(r), AdmitAll(r)
  PROVE  \A i \in Inputs : Delivery!Moves(StageOf(i), StageOf(i)')
<1>1. inbox # NoInbox /\ TypeOK
  BY DEF IsMine, InputsInv
<1>2. <<>> \in Seq(Inputs) /\ inbox' = [inbox EXCEPT !.queue = <<>>] /\ Queue = inbox.queue
  BY <1>1, QueueTypes DEF AdmitAll
<1>3. Queue' = <<>> /\ Tell(ToSet(Queue), "heard") /\ "heard" \in Tales
  BY <1>1, <1>2, Requeued DEF AdmitAll, Tales
<1> QED  BY <1>3, EmptiedMoves

LEMMA OpenInboxMoves ==
  ASSUME InputsInv, InputsInv', OpenInbox
  PROVE  \A i \in Inputs : Delivery!Moves(StageOf(i), StageOf(i)')
<1>1. /\ inbox' = [session |-> current, gen |-> gen[loop.round], queue |-> <<>>]
      /\ Tell(ToSet(Queue), "returned") /\ "returned" \in Tales
  BY DEF OpenInbox, Tales
<1>2. Queue' = <<>>
  <2>1. inbox'.queue = <<>>
    BY <1>1
  <2> QED  BY <2>1 DEF Queue
<1> QED  BY <1>1, <1>2, EmptiedMoves

LEMMA CloseInboxMoves ==
  ASSUME InputsInv, InputsInv', NEW r \in Rounds, CloseInbox(r)
  PROVE  \A i \in Inputs : Delivery!Moves(StageOf(i), StageOf(i)')
<1>1. CASE OpenedBy(r)
  <2>1. Queue' = <<>> /\ Tell(ToSet(Queue), "returned") /\ "returned" \in Tales
    BY <1>1 DEF CloseInbox, CloseWith, Queue, Tales
  <2> QED  BY <2>1, EmptiedMoves
<1>2. CASE ~OpenedBy(r)
  <2>1. inbox' = inbox /\ Tell({}, "returned")
    BY <1>2 DEF CloseInbox, CloseWith
  <2>2. \A i \in Inputs : told'[i] = told[i] /\ (Held(i)' <=> Held(i))
    BY <2>1 DEF Tell, Held, Queue
  <2> QED  BY <2>2, Unmoved
<1> QED  BY <1>1, <1>2

LEMMA ExitGateMoves ==
  ASSUME InputsInv, InputsInv', NEW r \in Rounds, ExitGate(r)
  PROVE  \A i \in Inputs : Delivery!Moves(StageOf(i), StageOf(i)')
<1>1. CASE IsMine(r) /\ AdmitAll(r)
  BY <1>1, AdmitMoves
<1>2. CASE Quietly
  BY <1>2, AllUnmoved DEF Quietly
<1>3. CASE ~Waiting(r) /\ inbox' = (IF IsMine(r) THEN NoInbox ELSE inbox) /\ told' = told
  <2>1. Queue' = Queue
    BY <1>3 DEF Waiting, IsMine, Queue
  <2> QED  BY <1>3, <2>1, Unmoved DEF Held
<1> QED  BY <1>1, <1>2, <1>3 DEF ExitGate, Waiting

LEMMA RefinementStep ==
  ASSUME InputsInv, InputsInv', [Next]_vars
  PROVE  \A i \in Inputs : Delivery!Moves(StageOf(i), StageOf(i)')
<1>1. ASSUME NEW r \in Rounds, Task(r) \/ Environment(r)
      PROVE  \A i \in Inputs : Delivery!Moves(StageOf(i), StageOf(i)')
  <2>1. CASE \/ Saved(r) \/ Interrupted(r) \/ Fail(r) \/ HookDenies(r) \/ CaptureInbox(r)
             \/ CheckCancel(r) \/ CallTools(r) \/ Answer(r)
    BY <2>1, AllUnmoved DEF Saved, Interrupted, Fail, HookDenies, CaptureInbox, CheckCancel,
                            CallTools, Answer, Quietly
  <2>2. CASE AdmitAtTop(r) \/ HardStop(r)
    BY <2>2, AllUnmoved, AdmitMoves DEF AdmitAtTop, HardStop, Quietly
  <2>3. CASE Finish(r)
    BY <2>3, AllUnmoved DEF Finish
  <2> QED  BY <1>1, <2>1, <2>2, <2>3, ExitGateMoves, CloseInboxMoves DEF Task, Environment
<1>2. CASE Prologue
  BY <1>2, OpenInboxMoves, AllUnmoved DEF Prologue, CancelPrevious
<1>3. CASE Requests
  <2>1. ASSUME NEW r \in Rounds, Begin(r)
        PROVE  \A i \in Inputs : Delivery!Moves(StageOf(i), StageOf(i)')
    BY <2>1, AllUnmoved DEF Begin
  <2>2. CASE CancelCurrent \/ Supersede \/ Repoint
    BY <2>2, AllUnmoved DEF CancelCurrent, Supersede, Repoint
  <2> QED  BY <1>3, <2>1, <2>2, SubmitMoves, CancelMoves DEF Requests
<1>4. CASE Quiescent \/ UNCHANGED vars
  BY <1>4, AllUnmoved DEF Quiescent, vars
<1> QED  BY <1>1, <1>2, <1>3, <1>4 DEF Next

(* The inbox keeps the harness's promise: what is sent is taken in or refused, *)
(* what was taken in leaves once, and nothing is said twice.                   *)
THEOREM InputsDelivered == Spec => DeliversInputs
<1>1. Init => Delivery!Init
  BY DEF Init, Delivery!Init, StageOf, Held, Queue, ToSet
<1>2. /\ InputsInv /\ InputsInv' /\ (Stage \in [Inputs -> Delivery!Stages])' /\ [Next]_vars
      => [Delivery!Next]_Stage
  <2> SUFFICES ASSUME InputsInv, InputsInv', Stage' \in [Inputs -> Delivery!Stages], [Next]_vars
               PROVE  Delivery!Next
    OBVIOUS
  <2>2. \A i \in Inputs : Delivery!Moves(Stage[i], Stage'[i])
    BY RefinementStep DEF Stage
  <2> QED  BY <2>2 DEF Delivery!Next, Stage
<1> QED  BY <1>1, <1>2, StageTypes, InputsInvariant, PTL DEF Spec, DeliversInputs, Delivery!Spec, Stage
=============================================================================
