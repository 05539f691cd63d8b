----------------------------- MODULE MCAddConfig -----------------------------
(* Instances of AddConfig for TLC. *)
EXTENDS AddConfig, TLC

(* Calls that wait for the reload *)
Checked == SUBSET {"restart", "modify"}

(* Any of the arguments *)
AnyOptions == SUBSET {"restart", "modify", "unchecked"}

Symmetry == Permutations(Configs)
=============================================================================
