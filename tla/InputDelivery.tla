---------------------------- MODULE InputDelivery ----------------------------
(***************************************************************************)
(* What the harness promises about input sent to a round in progress: it   *)
(* is taken in or refused; what was taken in leaves once, into the         *)
(* conversation, back to its sender, or withdrawn by the sender; nothing   *)
(* is dropped and nothing is said twice.                                   *)
(***************************************************************************)
CONSTANT Inputs

VARIABLE stage

Stages == {"unsent", "held", "heard", "returned", "withdrawn"}

Init == stage = [i \in Inputs |-> "unsent"]

(* The moves of one input; one step may move several. *)
Moves(from, to) ==
    \/ from = to
    \/ from = "unsent" /\ to \in {"held", "returned"}
    \/ from = "held" /\ to \in {"heard", "returned", "withdrawn"}

Next ==
    /\ stage' \in [Inputs -> Stages]
    /\ \A i \in Inputs : Moves(stage[i], stage'[i])

Spec == Init /\ [][Next]_stage
=============================================================================
