-------------------------- MODULE TerminalOwnership --------------------------
(***************************************************************************)
(* What the terminals of a Cluster promise their users, without locks,     *)
(* dictionaries or commands: a terminal belongs to at most one owner, it   *)
(* gets its owner when it is created, one at a time, and never passes      *)
(* from one owner to another.  Any number of them may be dropped at once.  *)
(***************************************************************************)
CONSTANTS Terminals, Owners, Nobody

VARIABLE owner

Init == owner = [s \in Terminals |-> Nobody]

Created(s) == owner[s] = Nobody /\ owner'[s] # Nobody

Next ==
    /\ owner' \in [Terminals -> Owners \cup {Nobody}]
    /\ \A s \in Terminals : owner'[s] \in {owner[s], Nobody} \/ Created(s)
    /\ \A s, r \in Terminals : Created(s) /\ Created(r) => s = r

Spec == Init /\ [][Next]_owner
=============================================================================
