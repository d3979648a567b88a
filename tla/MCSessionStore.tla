--------------------------- MODULE MCSessionStore ---------------------------
(* SessionStore on small instances. *)
EXTENDS SessionStore, TLC

(* No mutator tells one item from another. *)
Symmetric == Permutations(Items)
=============================================================================
