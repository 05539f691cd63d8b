---------------------------- MODULE ServerLogWindow ----------------------------
(***************************************************************************)
(* instrument_clickhouse_server_log of helpers/common.py: remembers the    *)
(* size of the server's log, marks the beginning and the end of the test   *)
(* in it and dumps the part between the two sizes, while the server goes   *)
(* on writing.                                                             *)
(*                                                                         *)
(* A byte of the log is labelled with the time it was written: before the  *)
(* first size was taken, up to the second one, or later.                   *)
(***************************************************************************)
EXTENDS Integers, Sequences, FiniteSets

CONSTANT MaxLog  \* bytes of the log

ServerLogWindowAssumption == MaxLog \in Nat

VARIABLES
    log,
    pc, start_logsize, end_logsize,
    terminating,  \* test.terminating
    dump          \* what tail and head print

vars == <<log, pc, start_logsize, end_logsize, terminating, dump>>

Times == {"earlier", "test", "later"}

TypeOK ==
    /\ log \in Seq(Times) /\ Len(log) <= MaxLog /\ dump \in Seq(Times)
    /\ pc \in {"stat", "start", "test", "end", "end_stat", "dump", "over"}
    /\ start_logsize \in 0..MaxLog /\ end_logsize \in 0..MaxLog
    /\ terminating \in BOOLEAN

Init ==
    /\ log = << >> /\ pc = "stat"
    /\ start_logsize = 0 /\ end_logsize = 0
    /\ terminating = FALSE
    /\ dump = << >>

Now == CASE pc = "stat" -> "earlier"
         [] pc \in {"start", "test", "end", "end_stat"} -> "test"
         [] OTHER -> "later"

Writes ==
    /\ Len(log) < MaxLog
    /\ log' = Append(log, Now)

ServerWrites == Writes /\ UNCHANGED <<pc, start_logsize, end_logsize, terminating, dump>>

(* stat prints the size, or that there is no such file *)
StatStart ==
    /\ pc = "stat" /\ pc' = "start"
    /\ start_logsize' = Len(log)
    /\ UNCHANGED <<log, end_logsize, terminating, dump>>

StartMessage ==
    /\ pc = "start" /\ pc' = "test"
    /\ Writes
    /\ UNCHANGED <<start_logsize, end_logsize, terminating, dump>>

TestEnds ==
    /\ pc = "test"
    /\ terminating' \in BOOLEAN
    /\ pc' = IF terminating' THEN "over" ELSE "end"
    /\ UNCHANGED <<log, start_logsize, end_logsize, dump>>

EndMessage ==
    /\ pc = "end" /\ pc' = "end_stat"
    /\ Writes
    /\ UNCHANGED <<start_logsize, end_logsize, terminating, dump>>

(* Not dumped: the test has passed, or debug is off *)
StatEnd ==
    /\ pc = "end_stat" /\ pc' \in {"dump", "over"}
    /\ end_logsize' = Len(log)
    /\ UNCHANGED <<log, start_logsize, terminating, dump>>

(* tail -c +n prints from the n-th byte on, counted from 1, and all for 0 *)
TailC(s, n) == SubSeq(s, IF n = 0 THEN 1 ELSE n, Len(s))

HeadC(s, n) == SubSeq(s, 1, IF n < Len(s) THEN n ELSE Len(s))

(* Mistake: head of the second size instead of the difference *)
DumpToEnd ==
    /\ pc = "dump" /\ pc' = "over"
    /\ dump' = HeadC(TailC(log, start_logsize), end_logsize)
    /\ UNCHANGED <<log, start_logsize, end_logsize, terminating>>

Dump ==
    /\ pc = "dump" /\ pc' = "over"
    /\ dump' = HeadC(TailC(log, start_logsize), end_logsize - start_logsize)
    /\ UNCHANGED <<log, start_logsize, end_logsize, terminating>>

Over == pc = "over" /\ UNCHANGED vars

(* A message that the bound on the log leaves no room for *)
Full == Len(log) = MaxLog /\ pc \in {"start", "end"} /\ UNCHANGED vars

Next ==
    \/ ServerWrites \/ StatStart \/ StartMessage \/ TestEnds \/ EndMessage \/ StatEnd
    \/ Dump \/ Over \/ Full

Spec == Init /\ [][Next]_vars

-----------------------------------------------------------------------------
(* Where in a text the bytes of a time are *)
BytesOf(s, t) == {i \in DOMAIN s : s[i] = t}

(***************************************************************************)
(* A dump holds nothing written after the test, at most one byte from      *)
(* before it, and lacks at most the last byte of the test, whatever the    *)
(* server writes meanwhile (instrument_clickhouse_server_log).             *)
(***************************************************************************)
DumpIsOffByOneAtMost ==
    dump # << >> =>
        /\ BytesOf(dump, "later") = {}
        /\ Cardinality(BytesOf(dump, "earlier")) <= 1
        /\ Cardinality(BytesOf(dump, "test")) >= Cardinality(BytesOf(log, "test")) - 1
=============================================================================
