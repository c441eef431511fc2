---------------------------- MODULE MCCellManager ----------------------------
(* Instances of CellManager for TLC. *)
EXTENDS CellManager, TLC

\* Two definitions that share no allocation, and one that overlaps both.
MCDefs == {"first", "second", "both"}
MCUses == [d \in MCDefs |-> CASE d = "first" -> {"a1"}
                              [] d = "second" -> {"a2"}
                              [] d = "both" -> {"a1", "a2"}]
MCAllocs == {"a1", "a2"}

Symmetry == Permutations(Ids) \cup Permutations(Reqs)
=============================================================================
