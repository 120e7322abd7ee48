---------------------------- MODULE MCSelectTable ----------------------------
(***************************************************************************)
(* SelectTable for TLC: objects and connections are interchangeable, and   *)
(* what a master has selected itself matters only to OperatorHasSelected.  *)
(***************************************************************************)
EXTENDS SelectTable, TLC

Symmetry == Permutations(Connection) \cup Permutations(Ioa)

TableView == <<selectTable, executing, unused, sinceSelect, held>>

=============================================================================
