------------------------ MODULE MCInteractiveRounds ------------------------
(* InteractiveRounds on small instances. *)
EXTENDS InteractiveRounds, TLC

(* Fresh rounds are interchangeable, and so are the resumes. *)
Symmetric == Permutations(Rounds \ Retries) \cup Permutations(Retries)
=============================================================================
