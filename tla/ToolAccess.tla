----------------------------- MODULE ToolAccess -----------------------------
(***************************************************************************)
(* What a tool call declares to touch, and which declarations conflict     *)
(* (crates/neenee-contracts/src/tool_access.rs).  A path is the sequence   *)
(* of its components, the root the empty one: what normalising a path      *)
(* removes is not represented.                                             *)
(***************************************************************************)
EXTENDS Sequences, SequencesExt

Root == <<>>

Operations == {"read", "search", "write", "read_write"}

File(operation, path, recursive) ==
    [operation |-> operation, path |-> path, recursive |-> recursive]

(* ToolAccess::All: exclusive of everything. *)
All == File("all", Root, TRUE)

Writes(access) == access.operation \in {"write", "read_write"}

(* is_subtree.  The root plus a separator is no prefix of a path, so the root *)
(* has no subtree.                                                            *)
IsSubtree(parent, child) == parent # Root /\ IsStrictPrefix(parent, child)

Overlap(left, right) ==
    \/ left.path = right.path
    \/ left.recursive /\ IsSubtree(left.path, right.path)
    \/ right.recursive /\ IsSubtree(right.path, left.path)

(* access_conflict: without a writer nothing conflicts. *)
AccessConflict(left, right) ==
    \/ All \in {left, right}
    \/ (Writes(left) \/ Writes(right)) /\ Overlap(left, right)

(* conflicts: one pair is enough; a call that declares nothing never does. *)
Conflicts(accesses, others) == \E a \in accesses, b \in others : AccessConflict(a, b)
=============================================================================
