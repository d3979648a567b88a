--------------------------- MODULE DurableSession ---------------------------
(***************************************************************************)
(* What a session store promises its callers: a session is a set of items  *)
(* for each of its fields; a restart finds, for each field, the value that *)
(* was last confirmed to a caller with some of the later changes made to   *)
(* it, in their order.                                                     *)
(* Writes are counted, so that nothing but a write can pass for one.       *)
(***************************************************************************)
EXTENDS Naturals

CONSTANTS Fields, Items

VARIABLES value, found, writes

state == <<value, found, writes>>

Values  == SUBSET Items
Changes == [kind : {"set", "add"}, value : Values]

Apply(c, v) == IF c.kind = "set" THEN c.value ELSE v \cup c.value

(* What may be left of a change: several items are added one by one. *)
Parts(c) == IF c.kind = "set" THEN {c} ELSE {[c EXCEPT !.value = w] : w \in SUBSET c.value}

(* The values that a restart may find once c has been made of these. *)
Later(c, values) == values \cup {Apply(d, v) : d \in Parts(c), v \in values}

Init ==
    /\ value \in [Fields -> Values]
    /\ found = [f \in Fields |-> {value[f]}] /\ writes = 0

Write(f) ==
    /\ \E c \in Changes :
        /\ value' = [value EXCEPT ![f] = Apply(c, @)]
        /\ found' = [found EXCEPT ![f] = Later(c, @)]
    /\ writes' = writes + 1

(* A caller that gets its answer at once. *)
WriteThrough(f) ==
    /\ \E c \in Changes : value' = [value EXCEPT ![f] = Apply(c, @)]
    /\ found' = [found EXCEPT ![f] = {value'[f]}]
    /\ writes' = writes + 1

(* The answers to callers; every answer stands for the latest value. *)
Confirm ==
    /\ \E done \in SUBSET Fields :
          found' = [f \in Fields |-> IF f \in done THEN {value[f]} ELSE found[f]]
    /\ UNCHANGED <<value, writes>>

Restart ==
    /\ value' \in [Fields -> Values]
    /\ \A f \in Fields : value'[f] \in found[f]
    /\ found' = [f \in Fields |-> {value'[f]}]
    /\ UNCHANGED writes

Next == Confirm \/ Restart \/ \E f \in Fields : Write(f) \/ WriteThrough(f)

Spec == Init /\ [][Next]_state
=============================================================================
