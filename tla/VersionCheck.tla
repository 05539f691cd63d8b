------------------------------ MODULE VersionCheck ------------------------------
(***************************************************************************)
(* Which version of ClickHouse a test believes to run on, and how it       *)
(* compares it: Cluster.__init__ reads the version off the tag of a docker *)
(* image, wait_clickhouse_healthy, which Cluster.up calls, asks the server *)
(* and either takes its answer or compares it, check_clickhouse_version    *)
(* (helpers/common.py) compares with the version asked for, and            *)
(* clickhouse_keeper/performance.py runs a list of binaries one after      *)
(* another, with several clusters for each.                                *)
(*                                                                         *)
(* A version is a sequence of parts; Word stands for a part that is not a  *)
(* number.  What follows a dash in a tag, as in 22.3.9.19-alpine, ends the *)
(* reading and is left out; a binary that is not an image has the tag      *)
(* <<Word>>.  The context of a step is taken to be that of its test, which *)
(* both places that assign the version rely on.                            *)
(***************************************************************************)
EXTENDS Integers, Sequences, SequencesExt

CONSTANTS
    Numbers,    \* values of a numeric part
    MaxParts,   \* numeric parts of a version
    MaxBinaries,
    Word, None

Numeric == UNION {[1..n -> Numbers] : n \in 1..MaxParts}

(* 22.3.9.19, 22.3.8.40.altinitystable *)
ServerVersions == Numeric \cup {Append(v, Word) : v \in Numeric}

(* and latest *)
Versions == ServerVersions \cup {<<Word>>}

VersionCheckAssumption ==
    /\ Numbers \subseteq Nat /\ MaxParts \in Nat \ {0} /\ MaxBinaries \in Nat \ {0}
    /\ Word \notin Nat /\ None \notin Versions

Binaries == [tag : Versions, server : ServerVersions]

VARIABLES
    option,    \* --clickhouse-version
    binary,    \* the one under test: its tag and what SELECT version() says
    left,      \* how many binaries are left in the list
    version,   \* context.clickhouse_version
    pc

vars == <<option, binary, left, version, pc>>

TypeOK ==
    /\ option \in Versions \cup {None} /\ binary \in Binaries \cup {None}
    /\ left \in 0..MaxBinaries /\ version \in Versions \cup {None}
    /\ pc \in {"binary", "cluster", "up", "test", "tests", "over"}
    /\ pc # "binary" => binary \in Binaries

-----------------------------------------------------------------------------
(***************************************************************************)
(* The digits and dots a tag begins with, unless they end in a dot: a word *)
(* after the last number leaves one.                                       *)
(***************************************************************************)
TagVersion(tag) == IF Word \in Range(tag) THEN None ELSE tag

(* Python's order of lists *)
Less(a, b) ==
    \E i \in 1..Len(b) :
        /\ \A j \in 1..(i - 1) : j <= Len(a) /\ a[j] = b[j]
        /\ i <= Len(a) => a[i] < b[i]

Compare(relation, a, b) ==
    CASE relation \in {"==", "=", ""} -> a = b
      [] relation = ">=" -> ~Less(a, b)
      [] relation = "<=" -> ~Less(b, a)
      [] relation = ">" -> Less(b, a)
      [] relation = "<" -> Less(a, b)

(* How many parts there are before the first that is not a number *)
NumericParts(v) ==
    CHOOSE n \in 0..Len(v) :
        (\A i \in 1..n : v[i] # Word) /\ (n < Len(v) => v[n + 1] = Word)

Cut(v, n) == SubSeq(v, 1, IF n < Len(v) THEN n ELSE Len(v))

(* Mistakes: ">" is tested before ">=", and a cut one part too short *)
CheckPrefix(relation, v, server) ==
    LET n == NumericParts(server) IN
    CASE server = None -> "False"
      [] server # None /\ (n = 0 \/ Word \in Range(Cut(v, n))) -> "ValueError"
      [] OTHER ->
           LET wrong == IF relation = ">=" THEN ">" ELSE relation IN
           IF Compare(wrong, Cut(server, n), Cut(v, n)) THEN "True" ELSE "False"

CheckCutShort(relation, v, server) ==
    LET n == NumericParts(server) - 1 IN
    CASE server = None -> "False"
      [] server # None /\ (n < 0 \/ Word \in Range(Cut(v, n))) -> "ValueError"
      [] OTHER -> IF Compare(relation, Cut(server, n), Cut(v, n)) THEN "True" ELSE "False"

(***************************************************************************)
(* check of check_clickhouse_version; both lists of parts must be numbers  *)
(* as far as they are compared                                             *)
(***************************************************************************)
Check(relation, v, server) ==
    LET n == NumericParts(server) IN
    CASE server = None -> "False"
      [] server # None /\ (n = 0 \/ Word \in Range(Cut(v, n))) -> "ValueError"
      [] OTHER -> IF Compare(relation, Cut(server, n), Cut(v, n)) THEN "True" ELSE "False"

-----------------------------------------------------------------------------
Init ==
    /\ option \in Versions \cup {None}
    /\ binary = None
    /\ left \in 1..MaxBinaries
    /\ version = option /\ pc = "binary"

(* Mistake: the version is set once, before the loop *)
BinaryKeepsVersion ==
    /\ pc = "binary" /\ left > 0
    /\ binary' \in Binaries
    /\ left' = left - 1 /\ pc' = "cluster"
    /\ UNCHANGED <<option, version>>

(* performance.py: for clickhouse_binary_path in clickhouse_binary_list *)
Binary ==
    /\ pc = "binary" /\ left > 0
    /\ binary' \in Binaries
    /\ version' = option
    /\ left' = left - 1 /\ pc' = "cluster"
    /\ UNCHANGED option

(* Cluster.__init__: an option is never overruled by a tag *)
CreateCluster ==
    /\ pc = "cluster"
    /\ version' = IF version = None THEN TagVersion(binary.tag) ELSE version
    /\ pc' = "up"
    /\ UNCHANGED <<option, binary, left>>

(* Mistake: the server is asked only when the version is not known *)
HealthyUnchecked ==
    /\ pc = "up"
    /\ version' = IF version = None THEN binary.server ELSE version
    /\ pc' = "test"
    /\ UNCHANGED <<option, binary, left>>

(***************************************************************************)
(* The end of wait_clickhouse_healthy: the first server gives the version  *)
(* when nobody else has, and must agree with it otherwise.                 *)
(***************************************************************************)
Healthy ==
    LET server == binary.server IN
    /\ pc = "up"
    /\ \/ version = None /\ version' = server /\ pc' = "test"
       \/ /\ version # None /\ version' = version
          /\ pc' = IF Check("=", server, version) = "True" THEN "test" ELSE "over"
    /\ UNCHANGED <<option, binary, left>>

(* A suite is skipped on an old version *)
Ask ==
    /\ pc = "test"
    /\ \E asked \in Numeric :
           pc' = IF Check("<", asked, version) = "False" THEN "tests" ELSE "over"
    /\ UNCHANGED <<option, binary, left, version>>

(* The tests of a cluster end: another cluster, another binary or the end *)
TestsEnd ==
    /\ pc = "tests"
    /\ pc' \in {"cluster", IF left > 0 THEN "binary" ELSE "over"}
    /\ UNCHANGED <<option, binary, left, version>>

Over == pc = "over" /\ UNCHANGED vars

Next == Binary \/ CreateCluster \/ Healthy \/ Ask \/ TestsEnd \/ Over

Spec == Init /\ [][Next]_vars

-----------------------------------------------------------------------------
(***************************************************************************)
(* The tests of a binary compare with the version the user gave, with its  *)
(* own tag or with its own server, in this order, and never with the       *)
(* version of the binary before (performance.py, Cluster.__init__,         *)
(* wait_clickhouse_healthy).                                               *)
(***************************************************************************)
VersionOfBinary ==
    pc \in {"test", "tests"} =>
        version = CASE option # None -> option
                    [] option = None /\ TagVersion(binary.tag) # None ->
                         TagVersion(binary.tag)
                    [] OTHER -> binary.server

(***************************************************************************)
(* Whoever gave the version, the tests run on a server of that version:    *)
(* its numeric parts are the first ones of what the server answers         *)
(* (wait_clickhouse_healthy).                                              *)
(***************************************************************************)
TestedVersionIsServers ==
    pc \in {"test", "tests"} =>
        LET n == NumericParts(version) IN
        n > 0 /\ IsPrefix(Cut(version, n), binary.server)

(***************************************************************************)
(* Exactly one of <, = and > holds, and >= and <= are the negations of <   *)
(* and >, however many parts the two versions have                         *)
(* (check_clickhouse_version).  A test is either skipped or run on it.     *)
(***************************************************************************)
Trichotomy ==
    pc = "test" =>
        \A asked \in Numeric :
            LET Holds(r) == Check(r, asked, version) = "True" IN
            /\ Holds(">=") = ~Holds("<") /\ Holds("<=") = ~Holds(">")
            /\ Holds("<") => ~Holds(">") /\ ~Holds("==")
            /\ Holds("==") = (Holds(">=") /\ Holds("<="))

(***************************************************************************)
(* What holds from a version on holds for every later one that names as    *)
(* many parts as asked for (check_clickhouse_version with ">=").           *)
(***************************************************************************)
Monotone ==
    pc = "test" =>
        \A asked, later \in Numeric :
            /\ NumericParts(version) >= Len(asked) /\ Len(later) >= Len(asked)
            /\ Less(Cut(version, NumericParts(version)), later)
            /\ Check(">=", asked, version) = "True"
            => Check(">=", asked, later) = "True"
=============================================================================
