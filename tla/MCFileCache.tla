---------------------------- MODULE MCFileCache ----------------------------
(***************************************************************************)
(* Instances of FileCache: every path has the same home slot, the last one *)
(* of the table, so that probes collide and wrap around.                   *)
(***************************************************************************)
EXTENDS FileCache, TLC

LastSlot == [p \in Paths |-> CacheSlots - 1]
Symmetry == Permutations(Conns) \cup Permutations(Paths)
=============================================================================
