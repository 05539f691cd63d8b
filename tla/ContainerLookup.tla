---------------------------- MODULE ContainerLookup ----------------------------
(***************************************************************************)
(* node_container_id: asks docker-compose for the id of a container until  *)
(* there is one or the time is up, holding the lock of the cluster all the *)
(* while.  There are two versions of it: the one of helpers/cluster.py and *)
(* the one of ssl_keeper/helpers/cluster.py.                               *)
(*                                                                         *)
(* Time passes in seconds.  The command takes any time up to the time left *)
(* and then is cut off with ExpectTimeoutError.  Before it, a control      *)
(* terminal is opened if there is none, and that has a time of its own.    *)
(***************************************************************************)
EXTENDS Integers, FiniteSetsExt

CONSTANTS
    Timeout,
    ControlTimeout, Probe,  \* of control_shell: its timeout, and that of echo 1
    Horizon   \* the clock stops here, which no property below needs to pass

ContainerLookupAssumption ==
    /\ Timeout \in Nat \ {0} /\ ControlTimeout \in Nat /\ Probe \in Nat \ {0}
    /\ Horizon \in Nat /\ Horizon > ControlTimeout + Probe + Timeout + 1

VARIABLES
    now, left,  \* seconds since the call; the local variable timeout
    control,    \* there is a control terminal
    opening,    \* history: seconds spent in control_shell
    there,      \* the service has a container
    copy,       \* the version of ssl_keeper
    pc

vars == <<now, left, control, opening, there, copy, pc>>

(* with the id, with the two RuntimeErrors, with IOError *)
Endings == {"found", "raised", "no_shell", "broken"}

TypeOK ==
    /\ now \in 0..Horizon /\ left \in Int /\ left <= Timeout
    /\ control \in BOOLEAN /\ opening \in 0..(ControlTimeout + Probe)
    /\ there \in BOOLEAN /\ copy \in BOOLEAN
    /\ pc \in {"ask", "answered", "cut_off"} \cup Endings
    /\ pc = "ask" => left > 0

Init ==
    /\ now = 0 /\ left = Timeout
    /\ control \in BOOLEAN /\ opening = 0
    /\ there \in BOOLEAN /\ copy \in BOOLEAN
    /\ pc = "ask"

Later(seconds) == now' = Min({now + seconds, Horizon})

(* The container comes and goes: docker-compose is external *)
ContainerChanges ==
    /\ pc = "ask"
    /\ there' = ~there
    /\ UNCHANGED <<now, left, control, opening, copy, pc>>

(***************************************************************************)
(* control_shell: terminals are opened and probed until one answers.  Only *)
(* after a probe that failed is the time looked at, so the last one may    *)
(* begin at ControlTimeout.  The time left of the lookup is not looked at. *)
(***************************************************************************)
Opening(d, step) ==
    /\ pc = "ask" /\ ~control
    /\ Later(d) /\ opening' = opening + d
    /\ control' = (step = "ask") /\ pc' = step
    /\ UNCHANGED <<left, there, copy>>

ControlOpens == \E d \in 0..(ControlTimeout + Probe) : Opening(d, "ask")

ControlFails ==
    \E d \in (ControlTimeout + 1)..(ControlTimeout + Probe) : Opening(d, "no_shell")

(* IOError is not tried again *)
ControlBreaks == \E d \in 0..(ControlTimeout + Probe) : Opening(d, "broken")

Ask ==
    /\ pc = "ask" /\ control
    /\ \E d \in 0..left :
          /\ Later(d)
          /\ pc' = IF there THEN "found" ELSE "answered"
    /\ UNCHANGED <<left, control, opening, there, copy>>

(* close_control_shell() *)
CutOff ==
    /\ pc = "ask" /\ control
    /\ Later(left)
    /\ control' = FALSE
    /\ pc' = "cut_off"
    /\ UNCHANGED <<left, opening, there, copy>>

(* IOError: the control terminal has gone, and the lookup ends at once *)
Breaks ==
    /\ pc = "ask" /\ control
    /\ \E d \in 0..left : Later(d)
    /\ pc' = "broken"
    /\ UNCHANGED <<left, control, opening, there, copy>>

(* timeout = timeout - (time.time() - time_start), and a second of sleep if any is left *)
CountDown(sleep) ==
    /\ left' = left - now
    /\ pc' = IF left' <= 0 THEN "raised" ELSE "ask"
    /\ IF left' > 0 THEN Later(sleep) ELSE UNCHANGED now

(* Mistakes: no sleep, and time left that counts down only when a command was cut off *)
AgainAtOnce ==
    /\ pc \in {"answered", "cut_off"} /\ ~copy
    /\ CountDown(0)
    /\ UNCHANGED <<control, opening, there, copy>>

AgainOnCutOff ==
    /\ pc \in {"answered", "cut_off"} /\ ~copy
    /\ \/ pc = "cut_off" /\ CountDown(1)
       \/ pc = "answered" /\ pc' = "ask" /\ Later(1) /\ UNCHANGED left
    /\ UNCHANGED <<control, opening, there, copy>>

Again ==
    /\ pc \in {"answered", "cut_off"} /\ ~copy
    /\ CountDown(1)
    /\ UNCHANGED <<control, opening, there, copy>>

CopyAgain ==
    /\ pc \in {"answered", "cut_off"} /\ copy
    /\ \/ pc = "cut_off" /\ CountDown(0)
       \/ pc = "answered" /\ pc' = "ask" /\ UNCHANGED <<now, left>>
    /\ UNCHANGED <<control, opening, there, copy>>

Returned == pc \in Endings /\ UNCHANGED vars

Lookup == ControlOpens \/ ControlFails \/ Ask \/ CutOff \/ Again \/ CopyAgain

Next == Lookup \/ ControlBreaks \/ Breaks \/ ContainerChanges \/ Returned

Spec == Init /\ [][Next]_vars /\ WF_vars(Lookup)

-----------------------------------------------------------------------------
(***************************************************************************)
(* A lookup keeps its time.  In helpers the lock of the cluster is held    *)
(* for at most Timeout + 1 seconds and the time it takes to open a control *)
(* terminal: as the time left is reduced by all the time since the call in *)
(* every round, the rounds cannot add up to more, and as a command that is *)
(* cut off is the last one, a control terminal is opened at most once.     *)
(* The version of ssl_keeper does not give up on docker-compose before its *)
(* time is over (node_container_id).                                       *)
(***************************************************************************)
KeepsItsTime ==
    /\ opening <= ControlTimeout + Probe
    /\ IF copy THEN pc = "raised" => now >= Timeout
               ELSE now <= opening + Timeout + 1

(***************************************************************************)
(* A lookup of helpers ends, with the id, with RuntimeError("failed to get *)
(* docker container id"), with RuntimeError("failed to open control        *)
(* shell") or with IOError, whether there is a container or not.  The      *)
(* version of ssl_keeper does not: it counts a round only when the command *)
(* was cut off, and asks for ever when it is answered at once.             *)
(***************************************************************************)
LookupEnds == ~copy => <>(pc \in Endings)
=============================================================================
