----------------------------- MODULE RegressionPool -----------------------------
(***************************************************************************)
(* The top level regression.py: loads the suites in order, hands each one  *)
(* to a pool of threads as it is loaded, and joins them in a finally.      *)
(*                                                                         *)
(* load raises when there is no such suite; a suite called without one of  *)
(* the arguments its regression requires ends with an error at once.  The  *)
(* pool is the one of testflows and is external.                           *)
(***************************************************************************)
EXTENDS Naturals, Sequences, FiniteSets

CONSTANTS
    Listed,    \* suites in the order of the file
    Existing,  \* suites the repository has
    Required,  \* arguments without a default of each suite's regression
    Passed,    \* args
    Skipped,   \* ffails
    PoolSize

ListedSuites == {Listed[i] : i \in DOMAIN Listed}

RegressionPoolAssumption ==
    /\ PoolSize \in Nat \ {0}
    /\ Listed \in Seq(STRING) /\ Existing \subseteq ListedSuites
    /\ \A i, j \in DOMAIN Listed : Listed[i] = Listed[j] => i = j

VARIABLES
    next,    \* index in Listed
    pc,
    suite,   \* what became of each suite
    raised   \* an exception is on its way through the finally

vars == <<next, pc, suite, raised>>

TypeOK ==
    /\ next \in 1..(Len(Listed) + 1)
    /\ pc \in {"submit", "join", "ended"} /\ raised \in BOOLEAN
    /\ suite \in [ListedSuites ->
                   {"listed", "queued", "running", "skipped", "error", "ran"}]

Running == {s \in ListedSuites : suite[s] = "running"}

Init ==
    /\ next = 1 /\ pc = "submit" /\ raised = FALSE
    /\ suite = [s \in ListedSuites |-> "listed"]

(* Feature(test=load(...), parallel=True, executor=pool) called with args *)
Submit ==
    /\ pc = "submit" /\ next <= Len(Listed)
    /\ Listed[next] \in Existing
    /\ suite' = [suite EXCEPT ![Listed[next]] =
                    IF Listed[next] \in Skipped THEN "skipped" ELSE "queued"]
    /\ next' = next + 1
    /\ UNCHANGED <<pc, raised>>

(* All suites are loaded, or load raises *)
LoadingEnds == next > Len(Listed) \/ Listed[next] \notin Existing

(* Mistake: no finally, the suites are joined only when all of them were loaded *)
NoFinally ==
    /\ pc = "submit" /\ LoadingEnds
    /\ raised' = (next <= Len(Listed))
    /\ pc' = IF raised' THEN "ended" ELSE "join"
    /\ UNCHANGED <<next, suite>>

Finally ==
    /\ pc = "submit" /\ LoadingEnds
    /\ raised' = (next <= Len(Listed))
    /\ pc' = "join"
    /\ UNCHANGED <<next, suite>>

Start(s) ==
    /\ suite[s] = "queued" /\ Cardinality(Running) < PoolSize
    /\ suite' = [suite EXCEPT ![s] = "running"]
    /\ UNCHANGED <<next, pc, raised>>

(* TypeError: missing required positional arguments, unless args has them all *)
Runs(s) ==
    /\ suite[s] = "running"
    /\ suite' = [suite EXCEPT ![s] = IF Required[s] \subseteq Passed THEN "ran" ELSE "error"]
    /\ UNCHANGED <<next, pc, raised>>

Join ==
    /\ pc = "join"
    /\ \A s \in ListedSuites : suite[s] \notin {"queued", "running"}
    /\ pc' = "ended"
    /\ UNCHANGED <<next, suite, raised>>

(* join looks again, or the program has ended *)
Idle == pc \in {"join", "ended"} /\ UNCHANGED vars

Work == \E s \in ListedSuites : Start(s) \/ Runs(s)

Program == Submit \/ Finally \/ Join

Next == Program \/ Work \/ Idle

Spec == Init /\ [][Next]_vars /\ WF_vars(Program) /\ WF_vars(Work)

-----------------------------------------------------------------------------
(***************************************************************************)
(* The program ends, also when a suite could not be loaded, provided every *)
(* suite does.                                                             *)
(***************************************************************************)
ProgramEnds == <>(pc = "ended")

(* What becomes of the i-th suite, whatever the others do *)
Fate(i) ==
    IF \E j \in 1..i : Listed[j] \notin Existing THEN "listed"
    ELSE IF Listed[i] \in Skipped THEN "skipped"
    ELSE IF Required[Listed[i]] \subseteq Passed THEN "ran" ELSE "error"

(***************************************************************************)
(* When the program ends no suite is queued or runs, and each has met its  *)
(* own fate, in whatever order the pool ran them: those before the first   *)
(* one that cannot be loaded are skipped, end with the error of a missing  *)
(* argument or have run, and those after it were never called.  The        *)
(* exception of load is passed on, not swallowed (the finally of           *)
(* regression.py).                                                         *)
(***************************************************************************)
EverySuiteIsOver ==
    pc = "ended" =>
        /\ \A i \in DOMAIN Listed : suite[Listed[i]] = Fate(i)
        /\ raised = (\E i \in DOMAIN Listed : Listed[i] \notin Existing)
=============================================================================
