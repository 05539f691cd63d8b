------------------------------ MODULE BinaryCache ------------------------------
(***************************************************************************)
(* How Cluster.__init__ (helpers/cluster.py) gets the clickhouse binary:   *)
(* by wget from a URL, with docker cp out of an image, or out of a deb     *)
(* package, which may have to be downloaded first.  The files have the     *)
(* same names in every suite of a program and in the next program, so a    *)
(* suite finds, uses and overwrites what another one wrote.                *)
(*                                                                         *)
(* A file is written in two steps: the command creates or truncates it and *)
(* ends later, with the whole file, with a failure, or not in time, in     *)
(* which case the terminal raises ExpectTimeoutError.                      *)
(***************************************************************************)
EXTENDS FiniteSets, Naturals

CONSTANTS
    Suites,
    Sources,   \* where the binary may come from
    AtOnce     \* suites in their __init__ or running at the same time

BinaryCacheAssumption ==
    /\ IsFiniteSet(Suites)
    /\ Sources \subseteq {"https", "docker", "deb", "https_deb"}
    /\ AtOnce \in Nat \ {0}

VARIABLES
    source,    \* of clickhouse_binary_path, the same for all suites
    download,  \* the file that wget writes: the binary, or the package
    bin,       \* the clickhouse binary out of an image or a package
    bridge,    \* the clickhouse-odbc-bridge binary
    missed,    \* history: nobody noticed that the last writer of the binary failed
    pc

vars == <<source, download, bin, bridge, missed, pc>>

Files == {"none", "partial", "whole"}

(* From the first command to the last *)
Getting == {"get", "wget", "get_binary", "writing", "get_bridge", "writing_bridge"}

(* Suites that are past their first step and have not ended *)
Active == {s \in Suites : pc[s] \notin {"todo", "done", "raised"}}

TypeOK ==
    /\ source \in Sources /\ missed \in BOOLEAN
    /\ download \in Files /\ bin \in Files /\ bridge \in Files
    /\ pc \in [Suites -> Getting \cup {"todo", "clean", "ready", "done", "raised"}]
    /\ Cardinality(Active) <= AtOnce

Init ==
    /\ source \in Sources
    /\ download = "none" /\ bin = "none" /\ bridge = "none" /\ missed = FALSE
    /\ pc = [s \in Suites |-> "todo"]

Goto(s, step) == pc' = [pc EXCEPT ![s] = step] /\ UNCHANGED source

-----------------------------------------------------------------------------
(***************************************************************************)
(* Without anything left to download: the package is unpacked when one of  *)
(* the two files is missing, the image is copied from every time.          *)
(***************************************************************************)
Downloaded ==
    IF source = "https" \/ (source # "docker" /\ bin # "none" /\ bridge # "none")
      THEN "ready" ELSE "get_binary"

(* A downloaded file is used when it exists *)
Look(s) ==
    /\ pc[s] = "todo"
    /\ Cardinality(Active) < AtOnce
    /\ Goto(s, IF source \in {"https", "https_deb"} /\ download = "none"
                 THEN "get" ELSE Downloaded)
    /\ UNCHANGED <<download, bin, bridge, missed>>

(* wget -O: the file is there from the beginning *)
Get(s) ==
    /\ pc[s] = "get"
    /\ Goto(s, "wget")
    /\ download' = "partial"
    /\ UNCHANGED <<bin, bridge, missed>>

Got(s) ==
    /\ pc[s] = "wget"
    /\ download' = "whole"
    /\ missed' = (missed /\ source # "https")
    /\ Goto(s, Downloaded)
    /\ UNCHANGED <<bin, bridge>>

(* docker cp, tar -O > : likewise *)
GetBinary(s) ==
    /\ pc[s] = "get_binary"
    /\ Goto(s, "writing")
    /\ bin' = "partial"
    /\ UNCHANGED <<download, bridge, missed>>

(* Nothing whole comes out of a part of a package *)
GotBinary(s) ==
    /\ pc[s] = "writing"
    /\ source = "https_deb" => download = "whole"
    /\ bin' = "whole" /\ missed' = FALSE
    /\ Goto(s, "get_bridge")
    /\ UNCHANGED <<download, bridge>>

GetBridge(s) ==
    /\ pc[s] = "get_bridge"
    /\ Goto(s, "writing_bridge")
    /\ bridge' = "partial"
    /\ UNCHANGED <<download, bin, missed>>

GotBridge(s) ==
    /\ pc[s] = "writing_bridge"
    /\ source = "https_deb" => download = "whole"
    /\ bridge' = "whole"
    /\ Goto(s, "ready")
    /\ UNCHANGED <<download, bin, missed>>

(* docker and ar, tar: the exit code is not looked at, and the file stays as it is *)
FailsUnnoticed(s) ==
    /\ pc[s] \in {"writing", "writing_bridge"}
    /\ Goto(s, IF pc[s] = "writing" THEN "get_bridge" ELSE "ready")
    /\ missed' = (missed \/ pc[s] = "writing")
    /\ UNCHANGED <<download, bin, bridge>>

(* Mistake: what wget has left is not removed *)
FailsAsItIs(s) ==
    /\ pc[s] \in Getting
    /\ Goto(s, "raised")
    /\ UNCHANGED <<download, bin, bridge, missed>>

(* wget fails, or a command does not end in time *)
Fails(s) ==
    /\ pc[s] \in Getting
    /\ Goto(s, IF pc[s] \in {"get", "wget"} THEN "clean" ELSE "raised")
    /\ UNCHANGED <<download, bin, bridge, missed>>

(* "except BaseException": os.remove of the file, and raise *)
Clean(s) ==
    /\ pc[s] = "clean"
    /\ download' = "none"
    /\ Goto(s, "raised")
    /\ UNCHANGED <<bin, bridge, missed>>

(* The program is killed: nothing is cleaned up, and the next one finds what is there *)
Killed(s) ==
    /\ pc[s] \in Getting \cup {"clean"}
    /\ Goto(s, "raised")
    /\ missed' = (missed \/ (source = "https" /\ download = "partial"))
    /\ UNCHANGED <<download, bin, bridge>>

(* The tests of the suite are over *)
Ends(s) ==
    pc[s] = "ready" /\ Goto(s, "done") /\ UNCHANGED <<download, bin, bridge, missed>>

Terminated == Active = {} /\ (\A s \in Suites : pc[s] # "todo") /\ UNCHANGED vars

Next ==
    \/ \E s \in Suites :
          \/ Look(s) \/ Get(s) \/ Got(s) \/ GetBinary(s) \/ GotBinary(s)
          \/ GetBridge(s) \/ GotBridge(s) \/ FailsUnnoticed(s)
          \/ Fails(s) \/ Clean(s) \/ Killed(s) \/ Ends(s)
    \/ Terminated

Spec == Init /\ [][Next]_vars

-----------------------------------------------------------------------------
(* What clickhouse_binary_path names in the end *)
Used == IF source = "https" THEN download ELSE bin

(***************************************************************************)
(* When suites come one after another, a suite whose Cluster has been      *)
(* created runs on a whole clickhouse binary, although every earlier suite *)
(* may have been interrupted at any point of its download or unpacking:    *)
(* what exists is whole, is removed, or is written again.  There are two   *)
(* excuses: a command of docker or tar that failed without being noticed,  *)
(* and a program killed while wget writes the binary.  A program killed    *)
(* while it unpacks is none: the bridge, unpacked last, is missing then.   *)
(***************************************************************************)
WholeUnlessMissed == \A s \in Suites : pc[s] = "ready" => Used = "whole" \/ missed
=============================================================================
