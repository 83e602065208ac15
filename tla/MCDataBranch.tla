---------------------------- MODULE MCDataBranch ----------------------------
(* Instances of DataBranch for TLC: a scheduled job and a laptop. *)
EXTENDS DataBranch

CONSTANTS ci, laptop

Symmetry == Permutations(Machine)
=============================================================================
