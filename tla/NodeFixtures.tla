------------------------------ MODULE NodeFixtures ------------------------------
(***************************************************************************)
(* The steps that put something on a node for the time of a test and take  *)
(* it away in a finally: users, groups, files and variables of             *)
(* helpers/common.py, tables, users, roles, row policies and grants of     *)
(* rbac/helper/common.py.  A test nests them; an exception unwinds all of  *)
(* them.                                                                   *)
(*                                                                         *)
(* A step is a sequence of names of one kind.  Its set-up is inside the    *)
(* try, so its clean-up runs also when the set-up has failed half way.     *)
(***************************************************************************)
EXTENDS Naturals, Sequences, SequencesExt

CONSTANTS
    Steps,      \* the steps a test may take: [kind, names]
    Before,     \* what is on the node before: set of <<kind, name>>
    Default,    \* the group that delgroup names
    MaxFailures \* commands that fail

NodeFixturesAssumption ==
    /\ Steps \subseteq [kind  : {"user", "group", "file", "envs", "policy", "query"},
                       names : Seq(STRING)]
    /\ MaxFailures \in Nat

VARIABLES
    node,      \* what is on the node
    stack,     \* steps entered and not left, the last one first
    pc,        \* "test", "clean" or "over"
    failures,
    left       \* history: what a failed clean-up has left behind

vars == <<node, stack, pc, failures, left>>

Things(f) == {<<f.kind, f.names[i]>> : i \in DOMAIN f.names}

AllThings == UNION {Things(f) : f \in Steps}

TypeOK ==
    /\ node \subseteq Before \cup AllThings /\ left \subseteq AllThings
    /\ stack \in Seq(Steps)
    /\ pc \in {"test", "clean", "over"}
    /\ failures \in 0..MaxFailures

Init ==
    /\ node = Before /\ stack = << >> /\ pc = "test" /\ failures = 0 /\ left = {}

Fails == failures < MaxFailures /\ failures' = failures + 1

(***************************************************************************)
(* useradd, groupadd and CREATE ROW POLICY refuse a name that exists.  A   *)
(* file, a variable or CREATE ... OR REPLACE does not mind.                *)
(***************************************************************************)
Refused(f) == f.kind \in {"user", "group", "policy"} /\ Things(f) \cap node # {}

SetUp(f) ==
    /\ pc = "test" /\ f \notin Range(stack) /\ ~Refused(f)
    /\ node' = node \cup Things(f)
    /\ stack' = <<f>> \o stack
    /\ UNCHANGED <<pc, failures, left>>

(* The i-th command of the set-up raises *)
SetUpFails(f) ==
    /\ pc = "test" /\ f \notin Range(stack)
    /\ \E i \in 1..Len(f.names) :
          /\ node' = node \cup Things([f EXCEPT !.names = SubSeq(f.names, 1, i - 1)])
          /\ IF Refused(f) THEN i = 1 /\ UNCHANGED failures ELSE Fails
    /\ stack' = <<f>> \o stack
    /\ pc' = "clean"
    /\ UNCHANGED left

(* The test ends, with an exception or without *)
TestEnds == pc = "test" /\ pc' = "clean" /\ UNCHANGED <<node, stack, failures, left>>

(* add_group_on_node deletes the default group *)
Removed(f) == IF f.kind = "group" THEN {<<"group", Default>>} ELSE Things(f)

CleanUp ==
    /\ pc = "clean" /\ stack # << >>
    /\ node' = node \ Removed(Head(stack))
    /\ stack' = Tail(stack)
    /\ UNCHANGED <<pc, failures, left>>

(* Mistake: an exception in one clean-up ends the others *)
CleanUpStops ==
    /\ pc = "clean" /\ stack # << >>
    /\ Fails
    /\ left' = left \cup Things(Head(stack))
    /\ stack' = << >>
    /\ UNCHANGED <<node, pc>>

(* The i-th command raises: the names after it stay, the outer steps clean up *)
CleanUpFails ==
    /\ pc = "clean" /\ stack # << >>
    /\ Fails
    /\ LET f == Head(stack) IN
       \E i \in 1..Len(f.names) :
          /\ node' = node \ Things([f EXCEPT !.names = SubSeq(f.names, 1, i - 1)])
          /\ left' = left \cup Things([f EXCEPT !.names = SubSeq(f.names, i, Len(f.names))])
    /\ stack' = Tail(stack)
    /\ UNCHANGED pc

Over ==
    /\ pc \in {"clean", "over"} /\ stack = << >>
    /\ pc' = "over"
    /\ UNCHANGED <<node, stack, failures, left>>

Next ==
    \/ \E f \in Steps : SetUp(f) \/ SetUpFails(f)
    \/ TestEnds \/ CleanUp \/ CleanUpFails \/ Over

Spec == Init /\ [][Next]_vars

-----------------------------------------------------------------------------
(***************************************************************************)
(* However deep the steps are nested and whichever set-up or clean-up has  *)
(* failed, a test leaves nothing on the node but what its own failed       *)
(* clean-up could not take away: one failure does not cost the others.     *)
(***************************************************************************)
LeavesNothing == pc = "over" => node \subseteq Before \cup left
=============================================================================
