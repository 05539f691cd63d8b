---------------------------- MODULE MCShellPool ----------------------------
(* Instances of ShellPool for TLC. *)
EXTENDS ShellPool, TLC

(* No service of the repository's docker-compose files has a name that     *)
(* ends with the name of another one of the same file.                     *)
OwnName == [n \in Nodes |-> {n}]

(* Terminals are interchangeable *)
Symmetry == Permutations(Shells)
=============================================================================
