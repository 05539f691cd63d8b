--------------------------- MODULE AddConfigProofs ---------------------------
(***************************************************************************)
(* Proofs about AddConfig for every number of configs, good and bad ones,  *)
(* with and without restarts of the server, when one thread makes the      *)
(* calls, each with its check, and no command raises.                      *)
(***************************************************************************)
EXTENDS AddConfig, TLAPS

OneThreadChecked ==
    /\ Parallel = FALSE
    /\ MaxFaults = 0
    /\ \A o \in Options : "unchecked" \notin o

(***************************************************************************)
(* The parts of the inductive invariant.                                   *)
(***************************************************************************)

(* One call at a time waits for the server, and each one with its check *)
AloneInv ==
    /\ \A c, d \in Configs : pc[c] \in Busy /\ pc[d] \in Busy => c = d
    /\ \A c \in Configs : "unchecked" \notin opts[c]

(* A reload under way has read the files as they are now: nobody edits     *)
(* them before it is over                                                  *)
ReloadInv ==
    /\ reloader # "idle" => server # "down" /\ reading = files
    /\ reloader = "saved" => known = files

(* Before a call edits the files, and when no call is under way, there is  *)
(* no reload that could still log a message                                *)
Before == {"tail", "edit", "stat", "start"}

QuietInv ==
    /\ (\A c \in Configs : pc[c] \notin Busy \ Before) => Quiet
    /\ \A c \in Configs : pc[c] \in {"stat", "start"} => server = "down"

(* A message heard is about the files as they are now *)
HeardInv ==
    \A c \in Configs :
        /\ heard[c] # "off" => pc[c] \in Following
        /\ heard[c] = "loaded" => loaded = files
        /\ heard[c] \in {"loaded", "error"} =>
              Quiet /\ server = "up" /\ pc[c] \notin Before
        /\ heard[c] = "off" => pc[c] \notin Following

(* A call that waits has edited its file, and the test runs in between *)
EditedInv ==
    \A c \in Configs :
        /\ pc[c] \in Busy \ {"tail", "edit"} => (c \in files <=> phase[c] = "add")
        /\ pc[c] = "body" => phase[c] = "add"

IInv ==
    /\ TypeOK /\ AloneInv /\ ReloadInv /\ QuietInv /\ HeardInv /\ EditedInv

-----------------------------------------------------------------------------
(* Every step keeps the types *)
LEMMA TypeNext ==
    ASSUME TypeOK, [Next]_vars
    PROVE  TypeOK'
<1>1. CASE ReadFiles
  BY <1>1, AddConfigAssumption DEF TypeOK, Busy, Following, ReadFiles, external
<1>2. CASE SavePreprocessed
  BY <1>2, AddConfigAssumption
     DEF TypeOK, Busy, Following, SavePreprocessed, external
<1>3. CASE Update
  BY <1>3, AddConfigAssumption DEF TypeOK, Busy, Following, Update, Log, external
<1>4. ASSUME NEW c \in Configs, NEW o \in Options, Call(c, o) PROVE TypeOK'
  BY <1>4, AddConfigAssumption DEF TypeOK, Busy, Following, Call, external
<1>5. ASSUME NEW c \in Configs, Tail(c) PROVE TypeOK'
  BY <1>5, AddConfigAssumption DEF TypeOK, Busy, Following, Tail, Goto, external
<1>6. ASSUME NEW c \in Configs, Edit(c) PROVE TypeOK'
  BY <1>6, AddConfigAssumption
     DEF TypeOK, Busy, Following, Edit, Edited, Yields, Goto, external
<1>7. ASSUME NEW c \in Configs, Preprocessed(c) PROVE TypeOK'
  BY <1>7, AddConfigAssumption
     DEF TypeOK, Busy, Following, Preprocessed, Goto, external
<1>8. ASSUME NEW c \in Configs, NotPreprocessed(c) PROVE TypeOK'
  BY <1>8, AddConfigAssumption
     DEF TypeOK, Busy, Following, NotPreprocessed, Leaves, external
<1>9. ASSUME NEW c \in Configs, Stop(c) PROVE TypeOK'
  BY <1>9, AddConfigAssumption DEF TypeOK, Busy, Following, Stop, Goto, external
<1>10. ASSUME NEW c \in Configs, StopOrStartRaises(c) PROVE TypeOK'
  BY <1>10, AddConfigAssumption
     DEF TypeOK, Busy, Following, StopOrStartRaises, Leaves, external
<1>11. ASSUME NEW c \in Configs, Stat(c) PROVE TypeOK'
  BY <1>11, AddConfigAssumption DEF TypeOK, Busy, Following, Stat, Goto, external
<1>12. ASSUME NEW c \in Configs, Start(c) PROVE TypeOK'
  BY <1>12, AddConfigAssumption DEF TypeOK, Busy, Following, Start, Goto, external
<1>13. ASSUME NEW c \in Configs, Healthy(c) PROVE TypeOK'
  BY <1>13, AddConfigAssumption
     DEF TypeOK, Busy, Following, Healthy, Goto, external
<1>14. ASSUME NEW c \in Configs, ExpectLoaded(c) PROVE TypeOK'
  BY <1>14, AddConfigAssumption
     DEF TypeOK, Busy, Following, ExpectLoaded, Yields, Leaves, external
<1>15. ASSUME NEW c \in Configs, ExpectError(c) PROVE TypeOK'
  BY <1>15, AddConfigAssumption
     DEF TypeOK, Busy, Following, ExpectError, Leaves, external
<1>16. ASSUME NEW c \in Configs, ExpectTimeout(c) PROVE TypeOK'
  BY <1>16, AddConfigAssumption
     DEF TypeOK, Busy, Following, ExpectTimeout, Leaves, external
<1>17. ASSUME NEW c \in Configs, Body(c) PROVE TypeOK'
  BY <1>17, AddConfigAssumption
     DEF TypeOK, Busy, Following, Body, Leaves, external
<1>18. ASSUME NEW c \in Configs, Fault(c) PROVE TypeOK'
  BY <1>18, AddConfigAssumption
     DEF TypeOK, Busy, Following, Fault, Leaves, Edited, external
<1>19. CASE UNCHANGED vars
  BY <1>19, AddConfigAssumption DEF TypeOK, Busy, Following, vars, external
<1> QED
  BY <1>1, <1>2, <1>3, <1>4, <1>5, <1>6, <1>7, <1>8, <1>9, <1>10, <1>11, <1>12,
     <1>13, <1>14, <1>15, <1>16, <1>17, <1>18, <1>19
     DEF Next, Reload, Step

(* A call begins, or ends its body, when no other waits for the server *)
LEMMA MoveAlone ==
    ASSUME OneThreadChecked, NEW c \in Configs, MayMove(c)
    PROVE  \A d \in Configs : pc[d] \notin Busy
BY DEF OneThreadChecked, MayMove

(* No command raises *)
LEMMA NoFault ==
    ASSUME OneThreadChecked, TypeOK, NEW c \in Configs
    PROVE  ~Fault(c)
BY DEF OneThreadChecked, TypeOK, Fault

(* Every step keeps the calls apart *)
LEMMA AloneNext ==
    ASSUME OneThreadChecked, TypeOK, AloneInv, [Next]_vars
    PROVE  AloneInv'
<1>1. CASE ReadFiles
  BY <1>1 DEF TypeOK, AloneInv, Busy, ReadFiles, external
<1>2. CASE SavePreprocessed
  BY <1>2 DEF TypeOK, AloneInv, Busy, SavePreprocessed, external
<1>3. CASE Update
  BY <1>3 DEF TypeOK, AloneInv, Busy, Update, Log, external
<1>4. ASSUME NEW c \in Configs, NEW o \in Options, Call(c, o) PROVE AloneInv'
  <2>1. \A d \in Configs : pc[d] \notin Busy BY <1>4, MoveAlone DEF Call
  <2>2. \A d \in Configs : d # c => pc'[d] \notin Busy
    BY <1>4, <2>1 DEF TypeOK, Call
  <2>3. opts' = [opts EXCEPT ![c] = o] BY <1>4 DEF Call
  <2>4. "unchecked" \notin o BY DEF OneThreadChecked
  <2> QED BY <2>2, <2>3, <2>4 DEF TypeOK, AloneInv
<1>5. ASSUME NEW c \in Configs, Tail(c) PROVE AloneInv'
  BY <1>5 DEF TypeOK, AloneInv, Busy, Tail, Goto, external
<1>6. ASSUME NEW c \in Configs, Edit(c) PROVE AloneInv'
  BY <1>6 DEF TypeOK, AloneInv, Busy, Edit, Edited, Yields, Goto, external
<1>7. ASSUME NEW c \in Configs, Preprocessed(c) PROVE AloneInv'
  BY <1>7 DEF TypeOK, AloneInv, Busy, Preprocessed, Goto, external
<1>8. ASSUME NEW c \in Configs, NotPreprocessed(c) PROVE AloneInv'
  BY <1>8 DEF TypeOK, AloneInv, Busy, NotPreprocessed, Leaves, external
<1>9. ASSUME NEW c \in Configs, Stop(c) PROVE AloneInv'
  BY <1>9 DEF TypeOK, AloneInv, Busy, Stop, Goto, external
<1>10. ASSUME NEW c \in Configs, StopOrStartRaises(c) PROVE AloneInv'
  BY <1>10 DEF TypeOK, AloneInv, Busy, StopOrStartRaises, Leaves, external
<1>11. ASSUME NEW c \in Configs, Stat(c) PROVE AloneInv'
  BY <1>11 DEF TypeOK, AloneInv, Busy, Stat, Goto, external
<1>12. ASSUME NEW c \in Configs, Start(c) PROVE AloneInv'
  BY <1>12 DEF TypeOK, AloneInv, Busy, Start, Goto, external
<1>13. ASSUME NEW c \in Configs, Healthy(c) PROVE AloneInv'
  BY <1>13 DEF TypeOK, AloneInv, Busy, Healthy, Goto, external
<1>14. ASSUME NEW c \in Configs, ExpectLoaded(c) PROVE AloneInv'
  BY <1>14 DEF TypeOK, AloneInv, Busy, ExpectLoaded, Yields, Leaves, external
<1>15. ASSUME NEW c \in Configs, ExpectError(c) PROVE AloneInv'
  BY <1>15 DEF TypeOK, AloneInv, Busy, ExpectError, Leaves, external
<1>16. ASSUME NEW c \in Configs, ExpectTimeout(c) PROVE AloneInv'
  BY <1>16 DEF TypeOK, AloneInv, Busy, ExpectTimeout, Leaves, external
<1>17. ASSUME NEW c \in Configs, Body(c) PROVE AloneInv'
  BY <1>17, MoveAlone DEF TypeOK, AloneInv, Busy, Body, Leaves, external
<1>18. ASSUME NEW c \in Configs, Fault(c) PROVE AloneInv'
  BY <1>18, NoFault DEF TypeOK, AloneInv, Busy, Fault, Leaves, Edited, external
<1>19. CASE UNCHANGED vars
  BY <1>19 DEF TypeOK, AloneInv, Busy, vars, external
<1> QED
  BY <1>1, <1>2, <1>3, <1>4, <1>5, <1>6, <1>7, <1>8, <1>9, <1>10, <1>11, <1>12,
     <1>13, <1>14, <1>15, <1>16, <1>17, <1>18, <1>19
     DEF Next, Reload, Step

(* The files are not edited while they are loaded *)
LEMMA ReloadNext ==
    ASSUME OneThreadChecked, IInv, [Next]_vars
    PROVE  ReloadInv'
<1>1. CASE ReadFiles
  BY <1>1
     DEF IInv, TypeOK, ReloadInv, QuietInv, AloneInv, Quiet, Busy, Before,
         ReadFiles, external
<1>2. CASE SavePreprocessed
  BY <1>2
     DEF IInv, TypeOK, ReloadInv, QuietInv, AloneInv, Quiet, Busy, Before,
         SavePreprocessed, external
<1>3. CASE Update
  BY <1>3
     DEF IInv, TypeOK, ReloadInv, QuietInv, AloneInv, Quiet, Busy, Before,
         Update, Log, external
<1>4. ASSUME NEW c \in Configs, NEW o \in Options, Call(c, o) PROVE ReloadInv'
  BY <1>4
     DEF IInv, TypeOK, ReloadInv, QuietInv, AloneInv, Quiet, Busy, Before, Call,
         external
<1>5. ASSUME NEW c \in Configs, Tail(c) PROVE ReloadInv'
  BY <1>5
     DEF IInv, TypeOK, ReloadInv, QuietInv, AloneInv, Quiet, Busy, Before, Tail,
         Goto, external
<1>6. ASSUME NEW c \in Configs, Edit(c) PROVE ReloadInv'
  BY <1>6
     DEF IInv, TypeOK, ReloadInv, QuietInv, AloneInv, Quiet, Busy, Before, Edit,
         Edited, Yields, Goto, external
<1>7. ASSUME NEW c \in Configs, Preprocessed(c) PROVE ReloadInv'
  BY <1>7
     DEF IInv, TypeOK, ReloadInv, QuietInv, AloneInv, Quiet, Busy, Before,
         Preprocessed, Goto, external
<1>8. ASSUME NEW c \in Configs, NotPreprocessed(c) PROVE ReloadInv'
  BY <1>8
     DEF IInv, TypeOK, ReloadInv, QuietInv, AloneInv, Quiet, Busy, Before,
         NotPreprocessed, Leaves, external
<1>9. ASSUME NEW c \in Configs, Stop(c) PROVE ReloadInv'
  BY <1>9
     DEF IInv, TypeOK, ReloadInv, QuietInv, AloneInv, Quiet, Busy, Before, Stop,
         Goto, external
<1>10. ASSUME NEW c \in Configs, StopOrStartRaises(c) PROVE ReloadInv'
  BY <1>10
     DEF IInv, TypeOK, ReloadInv, QuietInv, AloneInv, Quiet, Busy, Before,
         StopOrStartRaises, Leaves, external
<1>11. ASSUME NEW c \in Configs, Stat(c) PROVE ReloadInv'
  BY <1>11
     DEF IInv, TypeOK, ReloadInv, QuietInv, AloneInv, Quiet, Busy, Before, Stat,
         Goto, external
<1>12. ASSUME NEW c \in Configs, Start(c) PROVE ReloadInv'
  BY <1>12
     DEF IInv, TypeOK, ReloadInv, QuietInv, AloneInv, Quiet, Busy, Before,
         Start, Goto, external
<1>13. ASSUME NEW c \in Configs, Healthy(c) PROVE ReloadInv'
  BY <1>13
     DEF IInv, TypeOK, ReloadInv, QuietInv, AloneInv, Quiet, Busy, Before,
         Healthy, Goto, external
<1>14. ASSUME NEW c \in Configs, ExpectLoaded(c) PROVE ReloadInv'
  BY <1>14
     DEF IInv, TypeOK, ReloadInv, QuietInv, AloneInv, Quiet, Busy, Before,
         ExpectLoaded, Yields, Leaves, external
<1>15. ASSUME NEW c \in Configs, ExpectError(c) PROVE ReloadInv'
  BY <1>15
     DEF IInv, TypeOK, ReloadInv, QuietInv, AloneInv, Quiet, Busy, Before,
         ExpectError, Leaves, external
<1>16. ASSUME NEW c \in Configs, ExpectTimeout(c) PROVE ReloadInv'
  BY <1>16
     DEF IInv, TypeOK, ReloadInv, QuietInv, AloneInv, Quiet, Busy, Before,
         ExpectTimeout, Leaves, external
<1>17. ASSUME NEW c \in Configs, Body(c) PROVE ReloadInv'
  BY <1>17
     DEF IInv, TypeOK, ReloadInv, QuietInv, AloneInv, Quiet, Busy, Before, Body,
         Leaves, external
<1>18. ASSUME NEW c \in Configs, Fault(c) PROVE ReloadInv'
  BY <1>18, NoFault
     DEF IInv, TypeOK, ReloadInv, QuietInv, AloneInv, Quiet, Busy, Before,
         Fault, Leaves, Edited, external
<1>19. CASE UNCHANGED vars
  BY <1>19
     DEF IInv, TypeOK, ReloadInv, QuietInv, AloneInv, Quiet, Busy, Before, vars,
         external
<1> QED
  BY <1>1, <1>2, <1>3, <1>4, <1>5, <1>6, <1>7, <1>8, <1>9, <1>10, <1>11, <1>12,
     <1>13, <1>14, <1>15, <1>16, <1>17, <1>18, <1>19
     DEF Next, Reload, Step

(* A call leaves the server quiet *)
LEMMA QuietNext ==
    ASSUME OneThreadChecked, IInv, [Next]_vars
    PROVE  QuietInv'
<1>1. CASE ReadFiles
  BY <1>1
     DEF IInv, TypeOK, AloneInv, ReloadInv, QuietInv, HeardInv, Quiet, Busy,
         Before, Following, ReadFiles, external
<1>2. CASE SavePreprocessed
  BY <1>2
     DEF IInv, TypeOK, AloneInv, ReloadInv, QuietInv, HeardInv, Quiet, Busy,
         Before, Following, SavePreprocessed, external
<1>3. CASE Update
  BY <1>3
     DEF IInv, TypeOK, AloneInv, ReloadInv, QuietInv, HeardInv, Quiet, Busy,
         Before, Following, Update, Log, external
<1>4. ASSUME NEW c \in Configs, NEW o \in Options, Call(c, o) PROVE QuietInv'
  BY <1>4, MoveAlone
     DEF IInv, TypeOK, AloneInv, ReloadInv, QuietInv, HeardInv, Quiet, Busy,
         Before, Following, Call, external
<1>5. ASSUME NEW c \in Configs, Tail(c) PROVE QuietInv'
  BY <1>5
     DEF IInv, TypeOK, AloneInv, ReloadInv, QuietInv, HeardInv, Quiet, Busy,
         Before, Following, Tail, Goto, external
<1>6. ASSUME NEW c \in Configs, Edit(c) PROVE QuietInv'
  BY <1>6
     DEF IInv, TypeOK, AloneInv, ReloadInv, QuietInv, HeardInv, Quiet, Busy,
         Before, Following, Edit, Edited, Yields, Goto, external
<1>7. ASSUME NEW c \in Configs, Preprocessed(c) PROVE QuietInv'
  BY <1>7
     DEF IInv, TypeOK, AloneInv, ReloadInv, QuietInv, HeardInv, Quiet, Busy,
         Before, Following, Preprocessed, Goto, external
<1>8. ASSUME NEW c \in Configs, NotPreprocessed(c) PROVE QuietInv'
  BY <1>8
     DEF IInv, TypeOK, AloneInv, ReloadInv, QuietInv, HeardInv, Quiet, Busy,
         Before, Following, NotPreprocessed, Leaves, external
<1>9. ASSUME NEW c \in Configs, Stop(c) PROVE QuietInv'
  BY <1>9
     DEF IInv, TypeOK, AloneInv, ReloadInv, QuietInv, HeardInv, Quiet, Busy,
         Before, Following, Stop, Goto, external
<1>10. ASSUME NEW c \in Configs, StopOrStartRaises(c) PROVE QuietInv'
  BY <1>10
     DEF IInv, TypeOK, AloneInv, ReloadInv, QuietInv, HeardInv, Quiet, Busy,
         Before, Following, StopOrStartRaises, Leaves, external
<1>11. ASSUME NEW c \in Configs, Stat(c) PROVE QuietInv'
  BY <1>11
     DEF IInv, TypeOK, AloneInv, ReloadInv, QuietInv, HeardInv, Quiet, Busy,
         Before, Following, Stat, Goto, external
<1>12. ASSUME NEW c \in Configs, Start(c) PROVE QuietInv'
  BY <1>12
     DEF IInv, TypeOK, AloneInv, ReloadInv, QuietInv, HeardInv, Quiet, Busy,
         Before, Following, Start, Goto, external
<1>13. ASSUME NEW c \in Configs, Healthy(c) PROVE QuietInv'
  BY <1>13
     DEF IInv, TypeOK, AloneInv, ReloadInv, QuietInv, HeardInv, Quiet, Busy,
         Before, Following, Healthy, Goto, external
<1>14. ASSUME NEW c \in Configs, ExpectLoaded(c) PROVE QuietInv'
  BY <1>14
     DEF IInv, TypeOK, AloneInv, ReloadInv, QuietInv, HeardInv, Quiet, Busy,
         Before, Following, ExpectLoaded, Yields, Leaves, external
<1>15. ASSUME NEW c \in Configs, ExpectError(c) PROVE QuietInv'
  BY <1>15
     DEF IInv, TypeOK, AloneInv, ReloadInv, QuietInv, HeardInv, Quiet, Busy,
         Before, Following, ExpectError, Leaves, external
<1>16. ASSUME NEW c \in Configs, ExpectTimeout(c) PROVE QuietInv'
  BY <1>16
     DEF IInv, TypeOK, AloneInv, ReloadInv, QuietInv, HeardInv, Quiet, Busy,
         Before, Following, ExpectTimeout, Leaves, external
<1>17. ASSUME NEW c \in Configs, Body(c) PROVE QuietInv'
  BY <1>17, MoveAlone
     DEF IInv, TypeOK, AloneInv, ReloadInv, QuietInv, HeardInv, Quiet, Busy,
         Before, Following, Body, Leaves, external
<1>18. ASSUME NEW c \in Configs, Fault(c) PROVE QuietInv'
  BY <1>18, NoFault
     DEF IInv, TypeOK, AloneInv, ReloadInv, QuietInv, HeardInv, Quiet, Busy,
         Before, Following, Fault, Leaves, Edited, external
<1>19. CASE UNCHANGED vars
  BY <1>19
     DEF IInv, TypeOK, AloneInv, ReloadInv, QuietInv, HeardInv, Quiet, Busy,
         Before, Following, vars, external
<1> QED
  BY <1>1, <1>2, <1>3, <1>4, <1>5, <1>6, <1>7, <1>8, <1>9, <1>10, <1>11, <1>12,
     <1>13, <1>14, <1>15, <1>16, <1>17, <1>18, <1>19
     DEF Next, Reload, Step

(* A message is about the files as they are *)
LEMMA HeardNext ==
    ASSUME OneThreadChecked, IInv, [Next]_vars
    PROVE  HeardInv'
<1>1. CASE ReadFiles
  BY <1>1
     DEF IInv, TypeOK, AloneInv, ReloadInv, QuietInv, HeardInv, Quiet, Busy,
         Before, Following, ReadFiles, external
<1>2. CASE SavePreprocessed
  BY <1>2
     DEF IInv, TypeOK, AloneInv, ReloadInv, QuietInv, HeardInv, Quiet, Busy,
         Before, Following, SavePreprocessed, external
<1>3. CASE Update
  BY <1>3
     DEF IInv, TypeOK, AloneInv, ReloadInv, QuietInv, HeardInv, Quiet, Busy,
         Before, Following, Update, Log, external
<1>4. ASSUME NEW c \in Configs, NEW o \in Options, Call(c, o) PROVE HeardInv'
  BY <1>4, MoveAlone
     DEF IInv, TypeOK, AloneInv, ReloadInv, QuietInv, HeardInv, Quiet, Busy,
         Before, Following, Call, external
<1>5. ASSUME NEW c \in Configs, Tail(c) PROVE HeardInv'
  BY <1>5
     DEF IInv, TypeOK, AloneInv, ReloadInv, QuietInv, HeardInv, Quiet, Busy,
         Before, Following, Tail, Goto, external
<1>6. ASSUME NEW c \in Configs, Edit(c) PROVE HeardInv'
  BY <1>6
     DEF IInv, TypeOK, AloneInv, ReloadInv, QuietInv, HeardInv, Quiet, Busy,
         Before, Following, Edit, Edited, Yields, Goto, external
<1>7. ASSUME NEW c \in Configs, Preprocessed(c) PROVE HeardInv'
  BY <1>7
     DEF IInv, TypeOK, AloneInv, ReloadInv, QuietInv, HeardInv, Quiet, Busy,
         Before, Following, Preprocessed, Goto, external
<1>8. ASSUME NEW c \in Configs, NotPreprocessed(c) PROVE HeardInv'
  BY <1>8
     DEF IInv, TypeOK, AloneInv, ReloadInv, QuietInv, HeardInv, Quiet, Busy,
         Before, Following, NotPreprocessed, Leaves, external
<1>9. ASSUME NEW c \in Configs, Stop(c) PROVE HeardInv'
  BY <1>9
     DEF IInv, TypeOK, AloneInv, ReloadInv, QuietInv, HeardInv, Quiet, Busy,
         Before, Following, Stop, Goto, external
<1>10. ASSUME NEW c \in Configs, StopOrStartRaises(c) PROVE HeardInv'
  BY <1>10
     DEF IInv, TypeOK, AloneInv, ReloadInv, QuietInv, HeardInv, Quiet, Busy,
         Before, Following, StopOrStartRaises, Leaves, external
<1>11. ASSUME NEW c \in Configs, Stat(c) PROVE HeardInv'
  BY <1>11
     DEF IInv, TypeOK, AloneInv, ReloadInv, QuietInv, HeardInv, Quiet, Busy,
         Before, Following, Stat, Goto, external
<1>12. ASSUME NEW c \in Configs, Start(c) PROVE HeardInv'
  BY <1>12
     DEF IInv, TypeOK, AloneInv, ReloadInv, QuietInv, HeardInv, Quiet, Busy,
         Before, Following, Start, Goto, external
<1>13. ASSUME NEW c \in Configs, Healthy(c) PROVE HeardInv'
  BY <1>13
     DEF IInv, TypeOK, AloneInv, ReloadInv, QuietInv, HeardInv, Quiet, Busy,
         Before, Following, Healthy, Goto, external
<1>14. ASSUME NEW c \in Configs, ExpectLoaded(c) PROVE HeardInv'
  BY <1>14
     DEF IInv, TypeOK, AloneInv, ReloadInv, QuietInv, HeardInv, Quiet, Busy,
         Before, Following, ExpectLoaded, Yields, Leaves, external
<1>15. ASSUME NEW c \in Configs, ExpectError(c) PROVE HeardInv'
  BY <1>15
     DEF IInv, TypeOK, AloneInv, ReloadInv, QuietInv, HeardInv, Quiet, Busy,
         Before, Following, ExpectError, Leaves, external
<1>16. ASSUME NEW c \in Configs, ExpectTimeout(c) PROVE HeardInv'
  BY <1>16
     DEF IInv, TypeOK, AloneInv, ReloadInv, QuietInv, HeardInv, Quiet, Busy,
         Before, Following, ExpectTimeout, Leaves, external
<1>17. ASSUME NEW c \in Configs, Body(c) PROVE HeardInv'
  BY <1>17, MoveAlone
     DEF IInv, TypeOK, AloneInv, ReloadInv, QuietInv, HeardInv, Quiet, Busy,
         Before, Following, Body, Leaves, external
<1>18. ASSUME NEW c \in Configs, Fault(c) PROVE HeardInv'
  BY <1>18, NoFault
     DEF IInv, TypeOK, AloneInv, ReloadInv, QuietInv, HeardInv, Quiet, Busy,
         Before, Following, Fault, Leaves, Edited, external
<1>19. CASE UNCHANGED vars
  BY <1>19
     DEF IInv, TypeOK, AloneInv, ReloadInv, QuietInv, HeardInv, Quiet, Busy,
         Before, Following, vars, external
<1> QED
  BY <1>1, <1>2, <1>3, <1>4, <1>5, <1>6, <1>7, <1>8, <1>9, <1>10, <1>11, <1>12,
     <1>13, <1>14, <1>15, <1>16, <1>17, <1>18, <1>19
     DEF Next, Reload, Step

(* The file of a call that waits stays as it is *)
LEMMA EditedNext ==
    ASSUME OneThreadChecked, IInv, [Next]_vars
    PROVE  EditedInv'
<1>1. CASE ReadFiles
  BY <1>1 DEF IInv, TypeOK, AloneInv, EditedInv, Busy, ReadFiles, external
<1>2. CASE SavePreprocessed
  BY <1>2 DEF IInv, TypeOK, AloneInv, EditedInv, Busy, SavePreprocessed, external
<1>3. CASE Update
  BY <1>3 DEF IInv, TypeOK, AloneInv, EditedInv, Busy, Update, Log, external
<1>4. ASSUME NEW c \in Configs, NEW o \in Options, Call(c, o) PROVE EditedInv'
  BY <1>4, MoveAlone DEF IInv, TypeOK, AloneInv, EditedInv, Busy, Call, external
<1>5. ASSUME NEW c \in Configs, Tail(c) PROVE EditedInv'
  BY <1>5 DEF IInv, TypeOK, AloneInv, EditedInv, Busy, Tail, Goto, external
<1>6. ASSUME NEW c \in Configs, Edit(c) PROVE EditedInv'
  BY <1>6
     DEF IInv, TypeOK, AloneInv, EditedInv, Busy, Edit, Edited, Yields, Goto,
         external
<1>7. ASSUME NEW c \in Configs, Preprocessed(c) PROVE EditedInv'
  BY <1>7
     DEF IInv, TypeOK, AloneInv, EditedInv, Busy, Preprocessed, Goto, external
<1>8. ASSUME NEW c \in Configs, NotPreprocessed(c) PROVE EditedInv'
  BY <1>8
     DEF IInv, TypeOK, AloneInv, EditedInv, Busy, NotPreprocessed, Leaves,
         external
<1>9. ASSUME NEW c \in Configs, Stop(c) PROVE EditedInv'
  BY <1>9 DEF IInv, TypeOK, AloneInv, EditedInv, Busy, Stop, Goto, external
<1>10. ASSUME NEW c \in Configs, StopOrStartRaises(c) PROVE EditedInv'
  BY <1>10
     DEF IInv, TypeOK, AloneInv, EditedInv, Busy, StopOrStartRaises, Leaves,
         external
<1>11. ASSUME NEW c \in Configs, Stat(c) PROVE EditedInv'
  BY <1>11 DEF IInv, TypeOK, AloneInv, EditedInv, Busy, Stat, Goto, external
<1>12. ASSUME NEW c \in Configs, Start(c) PROVE EditedInv'
  BY <1>12 DEF IInv, TypeOK, AloneInv, EditedInv, Busy, Start, Goto, external
<1>13. ASSUME NEW c \in Configs, Healthy(c) PROVE EditedInv'
  BY <1>13 DEF IInv, TypeOK, AloneInv, EditedInv, Busy, Healthy, Goto, external
<1>14. ASSUME NEW c \in Configs, ExpectLoaded(c) PROVE EditedInv'
  BY <1>14
     DEF IInv, TypeOK, AloneInv, EditedInv, Busy, ExpectLoaded, Yields, Leaves,
         external
<1>15. ASSUME NEW c \in Configs, ExpectError(c) PROVE EditedInv'
  BY <1>15
     DEF IInv, TypeOK, AloneInv, EditedInv, Busy, ExpectError, Leaves, external
<1>16. ASSUME NEW c \in Configs, ExpectTimeout(c) PROVE EditedInv'
  BY <1>16
     DEF IInv, TypeOK, AloneInv, EditedInv, Busy, ExpectTimeout, Leaves,
         external
<1>17. ASSUME NEW c \in Configs, Body(c) PROVE EditedInv'
  BY <1>17, MoveAlone
     DEF IInv, TypeOK, AloneInv, EditedInv, Busy, Body, Leaves, external
<1>18. ASSUME NEW c \in Configs, Fault(c) PROVE EditedInv'
  BY <1>18, NoFault
     DEF IInv, TypeOK, AloneInv, EditedInv, Busy, Fault, Leaves, Edited,
         external
<1>19. CASE UNCHANGED vars
  BY <1>19 DEF IInv, TypeOK, AloneInv, EditedInv, Busy, vars, external
<1> QED
  BY <1>1, <1>2, <1>3, <1>4, <1>5, <1>6, <1>7, <1>8, <1>9, <1>10, <1>11, <1>12,
     <1>13, <1>14, <1>15, <1>16, <1>17, <1>18, <1>19
     DEF Next, Reload, Step

-----------------------------------------------------------------------------
(* The invariant holds of a server that has loaded what it started with *)
LEMMA InvInit == Init => IInv
BY AddConfigAssumption
   DEF Init, IInv, TypeOK, AloneInv, ReloadInv, QuietInv, HeardInv, EditedInv,
       Quiet, Busy, Following

(* Every step keeps the invariant *)
LEMMA InvNext ==
    ASSUME OneThreadChecked, IInv, [Next]_vars
    PROVE  IInv'
<1>1. TypeOK /\ AloneInv BY DEF IInv
<1>2. TypeOK' BY <1>1, TypeNext
<1>3. AloneInv' BY <1>1, AloneNext
<1> QED
  BY <1>2, <1>3, ReloadNext, QuietNext, HeardNext, EditedNext DEF IInv

(***************************************************************************)
(* One thread that makes its calls of add_config with their checks keeps   *)
(* the invariant: no message in the log is about an earlier reload.        *)
(***************************************************************************)
THEOREM Invariant ==
    ASSUME OneThreadChecked
    PROVE  Spec => []IInv
BY InvInit, InvNext, PTL DEF Spec

(***************************************************************************)
(* The variables keep their types, whoever calls; no tail of the log       *)
(* outlives the wait it was opened for.                                    *)
(***************************************************************************)
THEOREM TypeCorrect == Spec => []TypeOK
<1>1. Init => TypeOK BY InvInit DEF IInv
<1> QED BY <1>1, TypeNext, PTL DEF Spec

(* The last step of the wait finds the file loaded, or not any more *)
LEMMA LoadedStep ==
    ASSUME OneThreadChecked, IInv, [Next]_vars, NEW c \in Configs
    PROVE  /\ pc[c] # "body" /\ pc'[c] = "body" => c \in loaded'
           /\ pc[c] # "done" /\ pc'[c] = "done" /\ result'[c] = "ok"
                 /\ "modify" \notin opts[c]
              => c \notin loaded'
<1> DEFINE Goal ==
      /\ pc[c] # "body" /\ pc'[c] = "body" => c \in loaded'
      /\ pc[c] # "done" /\ pc'[c] = "done" /\ result'[c] = "ok"
            /\ "modify" \notin opts[c]
         => c \notin loaded'
<1> USE DEF IInv, TypeOK
<1>1. CASE Reload
  BY <1>1 DEF Reload, ReadFiles, SavePreprocessed, Update
<1>2. ASSUME NEW d \in Configs, NEW o \in Options, Call(d, o) PROVE Goal
  BY <1>2 DEF Call
<1>3. ASSUME NEW d \in Configs, Tail(d) PROVE Goal
  BY <1>3 DEF Tail, Goto
<1>4. ASSUME NEW d \in Configs, Edit(d) PROVE Goal
  BY <1>4 DEF Edit, Yields, Goto, AloneInv
<1>5. ASSUME NEW d \in Configs, Preprocessed(d) PROVE Goal
  BY <1>5 DEF Preprocessed, Goto
<1>6. ASSUME NEW d \in Configs, NotPreprocessed(d) PROVE Goal
  BY <1>6 DEF NotPreprocessed, Leaves
<1>7. ASSUME NEW d \in Configs, Stop(d) PROVE Goal
  BY <1>7 DEF Stop, Goto
<1>8. ASSUME NEW d \in Configs, StopOrStartRaises(d) PROVE Goal
  BY <1>8 DEF StopOrStartRaises, Leaves
<1>9. ASSUME NEW d \in Configs, Stat(d) PROVE Goal
  BY <1>9 DEF Stat, Goto
<1>10. ASSUME NEW d \in Configs, Start(d) PROVE Goal
  BY <1>10 DEF Start, Goto
<1>11. ASSUME NEW d \in Configs, Healthy(d) PROVE Goal
  BY <1>11 DEF Healthy, Goto
<1>12. ASSUME NEW d \in Configs, ExpectLoaded(d) PROVE Goal
  BY <1>12 DEF ExpectLoaded, Yields, Leaves, HeardInv, EditedInv, Busy, external
<1>13. ASSUME NEW d \in Configs, ExpectError(d) PROVE Goal
  BY <1>13 DEF ExpectError, Leaves
<1>14. ASSUME NEW d \in Configs, ExpectTimeout(d) PROVE Goal
  BY <1>14 DEF ExpectTimeout, Leaves
<1>15. ASSUME NEW d \in Configs, Body(d) PROVE Goal
  BY <1>15 DEF Body, Leaves, EditedInv
<1>16. ASSUME NEW d \in Configs, Fault(d) PROVE Goal
  BY <1>16, NoFault
<1>17. CASE UNCHANGED vars
  BY <1>17 DEF vars
<1> QED
  BY <1>1, <1>2, <1>3, <1>4, <1>5, <1>6, <1>7, <1>8, <1>9, <1>10, <1>11, <1>12,
     <1>13, <1>14, <1>15, <1>16, <1>17
     DEF Next, Step

(***************************************************************************)
(* The test runs with its config loaded.                                   *)
(***************************************************************************)
THEOREM ConfigIsLoaded ==
    ASSUME OneThreadChecked
    PROVE  Spec => LoadedOnYield
<1>1. IInv /\ [Next]_vars =>
        [\A c \in Configs :
           pc[c] # "body" /\ pc'[c] = "body" /\ "unchecked" \notin opts[c]
              => c \in loaded']_vars
  BY LoadedStep
<1> QED BY <1>1, Invariant, PTL DEF Spec, LoadedOnYield

(***************************************************************************)
(* The config is not loaded any more when add_config returns.              *)
(***************************************************************************)
THEOREM ConfigIsUnloaded ==
    ASSUME OneThreadChecked
    PROVE  Spec => UnloadedOnReturn
<1>1. IInv /\ [Next]_vars =>
        [\A c \in Configs :
           pc[c] # "done" /\ pc'[c] = "done" /\ result'[c] = "ok"
               /\ "modify" \notin opts[c]
              => c \notin loaded']_vars
  BY LoadedStep
<1> QED BY <1>1, Invariant, PTL DEF Spec, UnloadedOnReturn

-----------------------------------------------------------------------------
(***************************************************************************)
(* Why no call raises by itself.                                           *)
(***************************************************************************)

(* The server is down only between the stop and the start of a call *)
DownInv == server = "down" => \E c \in Configs : pc[c] \in {"stat", "start"}

(* A call that still waits for a message has a reload to wait for *)
AwaitedInv ==
    /\ preprocessed = known
    /\ \A c \in Configs :
          /\ heard[c] # "error"
          /\ heard[c] = "nothing" /\ pc[c] \in Following \ Before => ~Quiet

(* Every edit changes the files: what is added is new, what is removed is there *)
ChangesInv ==
    \A c \in Configs :
        /\ pc[c] = "idle" => c \notin files /\ phase[c] = "add"
        /\ pc[c] \in {"tail", "edit"} => (c \in files <=> phase[c] = "remove")
        /\ pc[c] = "body" => c \in files

CalmInv == IInv /\ DownInv /\ AwaitedInv /\ ChangesInv /\ NoFalseAlarm

(* None of the waits of a call fails *)
LEMMA NoneRaises ==
    ASSUME CalmInv, NEW c \in Configs
    PROVE  /\ ~NotPreprocessed(c) /\ ~StopOrStartRaises(c)
           /\ ~ExpectError(c) /\ ~ExpectTimeout(c)
<1>1. pc[c] \in {"pre", "stop", "healthy", "expect"} => server # "down"
  BY DEF CalmInv, IInv, AloneInv, DownInv, Busy
<1>2. ~NotPreprocessed(c)
  BY <1>1 DEF CalmInv, IInv, AwaitedInv, EditedInv, TypeOK, NotPreprocessed, Updated,
      Quiet, Busy
<1>3. ~StopOrStartRaises(c)
  BY <1>1 DEF CalmInv, IInv, QuietInv, StopOrStartRaises
<1>4. ~ExpectError(c) /\ ~ExpectTimeout(c)
  BY DEF CalmInv, AwaitedInv, ExpectError, ExpectTimeout, Following, Busy, Before
<1> QED BY <1>2, <1>3, <1>4

(* Every step keeps the server calm *)
LEMMA CalmNext ==
    ASSUME OneThreadChecked, Bad = {}, CalmInv, [Next]_vars
    PROVE  CalmInv'
<1>1. IInv' /\ IInv
  BY InvNext DEF CalmInv
<1> DEFINE Goal == DownInv' /\ AwaitedInv' /\ ChangesInv' /\ NoFalseAlarm'
<1>2. ASSUME ReadFiles PROVE Goal
  <2>1. DownInv'
    BY <1>2 DEF CalmInv, IInv, TypeOK, AloneInv, Busy, DownInv, QuietInv, ReadFiles,
        external
  <2>2. AwaitedInv'
    BY <1>2 DEF CalmInv, IInv, TypeOK, AloneInv, Busy, AwaitedInv, ChangesInv,
        ReloadInv, QuietInv, HeardInv, DownInv, Quiet, Following, Before, ReadFiles,
        external
  <2>3. ChangesInv'
    BY <1>2 DEF CalmInv, IInv, TypeOK, AloneInv, Busy, ChangesInv, EditedInv,
        NoFalseAlarm, ReadFiles, external
  <2>4. NoFalseAlarm'
    BY <1>2 DEF CalmInv, IInv, TypeOK, AloneInv, Busy, NoFalseAlarm, ReadFiles,
        external
  <2> QED BY <2>1, <2>2, <2>3, <2>4
<1>3. ASSUME SavePreprocessed PROVE Goal
  <2>1. DownInv'
    BY <1>3 DEF CalmInv, IInv, TypeOK, AloneInv, Busy, DownInv, QuietInv,
        SavePreprocessed, external
  <2>2. AwaitedInv'
    BY <1>3 DEF CalmInv, IInv, TypeOK, AloneInv, Busy, AwaitedInv, ChangesInv,
        ReloadInv, QuietInv, HeardInv, DownInv, Quiet, Following, Before,
        SavePreprocessed, external
  <2>3. ChangesInv'
    BY <1>3 DEF CalmInv, IInv, TypeOK, AloneInv, Busy, ChangesInv, EditedInv,
        NoFalseAlarm, SavePreprocessed, external
  <2>4. NoFalseAlarm'
    BY <1>3 DEF CalmInv, IInv, TypeOK, AloneInv, Busy, NoFalseAlarm, SavePreprocessed,
        external
  <2> QED BY <2>1, <2>2, <2>3, <2>4
<1>4. ASSUME Update PROVE Goal
  <2>1. DownInv'
    BY <1>4 DEF CalmInv, IInv, TypeOK, AloneInv, Busy, DownInv, QuietInv, Update, Log,
        external
  <2>2. AwaitedInv'
    BY <1>4 DEF CalmInv, IInv, TypeOK, AloneInv, Busy, AwaitedInv, ChangesInv,
        ReloadInv, QuietInv, HeardInv, DownInv, Quiet, Following, Before, Update, Log,
        external
  <2>3. ChangesInv'
    BY <1>4 DEF CalmInv, IInv, TypeOK, AloneInv, Busy, ChangesInv, EditedInv,
        NoFalseAlarm, Update, Log, external
  <2>4. NoFalseAlarm'
    BY <1>4 DEF CalmInv, IInv, TypeOK, AloneInv, Busy, NoFalseAlarm, Update, Log,
        external
  <2> QED BY <2>1, <2>2, <2>3, <2>4
<1>5. ASSUME NEW c \in Configs, NEW o \in Options, Call(c, o) PROVE Goal
  <2>1. DownInv'
    BY <1>5, MoveAlone DEF CalmInv, IInv, TypeOK, AloneInv, Busy, DownInv, QuietInv,
        Call, external
  <2>2. AwaitedInv'
    BY <1>5, MoveAlone DEF CalmInv, IInv, TypeOK, AloneInv, Busy, AwaitedInv,
        ChangesInv, ReloadInv, QuietInv, HeardInv, DownInv, Quiet, Following, Before,
        Call, external
  <2>3. ChangesInv'
    BY <1>5, MoveAlone DEF CalmInv, IInv, TypeOK, AloneInv, Busy, ChangesInv,
        EditedInv, NoFalseAlarm, Call, external
  <2>4. NoFalseAlarm'
    BY <1>5 DEF CalmInv, IInv, TypeOK, AloneInv, Busy, NoFalseAlarm, Call, external
  <2> QED BY <2>1, <2>2, <2>3, <2>4
<1>6. ASSUME NEW c \in Configs, Tail(c) PROVE Goal
  <2>1. DownInv'
    BY <1>6 DEF CalmInv, IInv, TypeOK, AloneInv, Busy, DownInv, QuietInv, Tail, Goto,
        external
  <2>2. AwaitedInv'
    BY <1>6 DEF CalmInv, IInv, TypeOK, AloneInv, Busy, AwaitedInv, ChangesInv,
        ReloadInv, QuietInv, HeardInv, DownInv, Quiet, Following, Before, Tail, Goto,
        external
  <2>3. ChangesInv'
    BY <1>6 DEF CalmInv, IInv, TypeOK, AloneInv, Busy, ChangesInv, EditedInv,
        NoFalseAlarm, Tail, Goto, external
  <2>4. NoFalseAlarm'
    BY <1>6 DEF CalmInv, IInv, TypeOK, AloneInv, Busy, NoFalseAlarm, Tail, Goto,
        external
  <2> QED BY <2>1, <2>2, <2>3, <2>4
<1>7. ASSUME NEW c \in Configs, Edit(c) PROVE Goal
  <2>1. DownInv'
    BY <1>7 DEF CalmInv, IInv, TypeOK, AloneInv, Busy, DownInv, QuietInv, Edit,
        Edited, Yields, Goto, external
  <2>2. AwaitedInv'
    BY <1>7 DEF CalmInv, IInv, TypeOK, AloneInv, Busy, AwaitedInv, ChangesInv,
        ReloadInv, QuietInv, HeardInv, DownInv, Quiet, Following, Before, Edit,
        Edited, Yields, Goto, external
  <2>3. ChangesInv'
    BY <1>7 DEF CalmInv, IInv, TypeOK, AloneInv, Busy, ChangesInv, EditedInv,
        NoFalseAlarm, Edit, Edited, Yields, Goto, external
  <2>4. NoFalseAlarm'
    BY <1>7 DEF CalmInv, IInv, TypeOK, AloneInv, Busy, NoFalseAlarm, Edit, Edited,
        Yields, Goto, external
  <2> QED BY <2>1, <2>2, <2>3, <2>4
<1>8. ASSUME NEW c \in Configs, Preprocessed(c) PROVE Goal
  <2>1. DownInv'
    BY <1>8 DEF CalmInv, IInv, TypeOK, AloneInv, Busy, DownInv, QuietInv,
        Preprocessed, Goto, external
  <2>2. AwaitedInv'
    BY <1>8 DEF CalmInv, IInv, TypeOK, AloneInv, Busy, AwaitedInv, ChangesInv,
        ReloadInv, QuietInv, HeardInv, DownInv, Quiet, Following, Before,
        Preprocessed, Goto, external
  <2>3. ChangesInv'
    BY <1>8 DEF CalmInv, IInv, TypeOK, AloneInv, Busy, ChangesInv, EditedInv,
        NoFalseAlarm, Preprocessed, Goto, external
  <2>4. NoFalseAlarm'
    BY <1>8 DEF CalmInv, IInv, TypeOK, AloneInv, Busy, NoFalseAlarm, Preprocessed,
        Goto, external
  <2> QED BY <2>1, <2>2, <2>3, <2>4
<1>9. ASSUME NEW c \in Configs, Stop(c) PROVE Goal
  <2>1. DownInv'
    BY <1>9 DEF CalmInv, IInv, TypeOK, AloneInv, Busy, DownInv, QuietInv, Stop, Goto,
        external
  <2>2. AwaitedInv'
    BY <1>9 DEF CalmInv, IInv, TypeOK, AloneInv, Busy, AwaitedInv, ChangesInv,
        ReloadInv, QuietInv, HeardInv, DownInv, Quiet, Following, Before, Stop, Goto,
        external
  <2>3. ChangesInv'
    BY <1>9 DEF CalmInv, IInv, TypeOK, AloneInv, Busy, ChangesInv, EditedInv,
        NoFalseAlarm, Stop, Goto, external
  <2>4. NoFalseAlarm'
    BY <1>9 DEF CalmInv, IInv, TypeOK, AloneInv, Busy, NoFalseAlarm, Stop, Goto,
        external
  <2> QED BY <2>1, <2>2, <2>3, <2>4
<1>10. ASSUME NEW c \in Configs, Stat(c) PROVE Goal
  <2>1. DownInv'
    BY <1>10 DEF CalmInv, IInv, TypeOK, AloneInv, Busy, DownInv, QuietInv, Stat, Goto,
        external
  <2>2. AwaitedInv'
    BY <1>10 DEF CalmInv, IInv, TypeOK, AloneInv, Busy, AwaitedInv, ChangesInv,
        ReloadInv, QuietInv, HeardInv, DownInv, Quiet, Following, Before, Stat, Goto,
        external
  <2>3. ChangesInv'
    BY <1>10 DEF CalmInv, IInv, TypeOK, AloneInv, Busy, ChangesInv, EditedInv,
        NoFalseAlarm, Stat, Goto, external
  <2>4. NoFalseAlarm'
    BY <1>10 DEF CalmInv, IInv, TypeOK, AloneInv, Busy, NoFalseAlarm, Stat, Goto,
        external
  <2> QED BY <2>1, <2>2, <2>3, <2>4
<1>11. ASSUME NEW c \in Configs, Start(c) PROVE Goal
  <2>1. DownInv'
    BY <1>11 DEF CalmInv, IInv, TypeOK, AloneInv, Busy, DownInv, QuietInv, Start,
        Goto, external
  <2>2. AwaitedInv'
    BY <1>11 DEF CalmInv, IInv, TypeOK, AloneInv, Busy, AwaitedInv, ChangesInv,
        ReloadInv, QuietInv, HeardInv, DownInv, Quiet, Following, Before, Start, Goto,
        external
  <2>3. ChangesInv'
    BY <1>11 DEF CalmInv, IInv, TypeOK, AloneInv, Busy, ChangesInv, EditedInv,
        NoFalseAlarm, Start, Goto, external
  <2>4. NoFalseAlarm'
    BY <1>11 DEF CalmInv, IInv, TypeOK, AloneInv, Busy, NoFalseAlarm, Start, Goto,
        external
  <2> QED BY <2>1, <2>2, <2>3, <2>4
<1>12. ASSUME NEW c \in Configs, Healthy(c) PROVE Goal
  <2>1. DownInv'
    BY <1>12 DEF CalmInv, IInv, TypeOK, AloneInv, Busy, DownInv, QuietInv, Healthy,
        Goto, external
  <2>2. AwaitedInv'
    BY <1>12 DEF CalmInv, IInv, TypeOK, AloneInv, Busy, AwaitedInv, ChangesInv,
        ReloadInv, QuietInv, HeardInv, DownInv, Quiet, Following, Before, Healthy,
        Goto, external
  <2>3. ChangesInv'
    BY <1>12 DEF CalmInv, IInv, TypeOK, AloneInv, Busy, ChangesInv, EditedInv,
        NoFalseAlarm, Healthy, Goto, external
  <2>4. NoFalseAlarm'
    BY <1>12 DEF CalmInv, IInv, TypeOK, AloneInv, Busy, NoFalseAlarm, Healthy, Goto,
        external
  <2> QED BY <2>1, <2>2, <2>3, <2>4
<1>13. ASSUME NEW c \in Configs, ExpectLoaded(c) PROVE Goal
  <2>1. DownInv'
    BY <1>13 DEF CalmInv, IInv, TypeOK, AloneInv, Busy, DownInv, QuietInv,
        ExpectLoaded, Yields, Leaves, external
  <2>2. AwaitedInv'
    BY <1>13 DEF CalmInv, IInv, TypeOK, AloneInv, Busy, AwaitedInv, ChangesInv,
        ReloadInv, QuietInv, HeardInv, DownInv, Quiet, Following, Before,
        ExpectLoaded, Yields, Leaves, external
  <2>3. ChangesInv'
    BY <1>13 DEF CalmInv, IInv, TypeOK, AloneInv, Busy, ChangesInv, EditedInv,
        NoFalseAlarm, ExpectLoaded, Yields, Leaves, external
  <2>4. NoFalseAlarm'
    BY <1>13 DEF CalmInv, IInv, TypeOK, AloneInv, Busy, NoFalseAlarm, ExpectLoaded,
        Yields, Leaves, external
  <2> QED BY <2>1, <2>2, <2>3, <2>4
<1>14. ASSUME NEW c \in Configs, Body(c) PROVE Goal
  <2>1. DownInv'
    BY <1>14, MoveAlone DEF CalmInv, IInv, TypeOK, AloneInv, Busy, DownInv, QuietInv,
        Body, Leaves, external
  <2>2. AwaitedInv'
    BY <1>14, MoveAlone DEF CalmInv, IInv, TypeOK, AloneInv, Busy, AwaitedInv,
        ChangesInv, ReloadInv, QuietInv, HeardInv, DownInv, Quiet, Following, Before,
        Body, Leaves, external
  <2>3. ChangesInv'
    BY <1>14, MoveAlone DEF CalmInv, IInv, TypeOK, AloneInv, Busy, ChangesInv,
        EditedInv, NoFalseAlarm, Body, Leaves, external
  <2>4. NoFalseAlarm'
    BY <1>14 DEF CalmInv, IInv, TypeOK, AloneInv, Busy, NoFalseAlarm, Body, Leaves,
        external
  <2> QED BY <2>1, <2>2, <2>3, <2>4
<1>15. ASSUME UNCHANGED vars PROVE Goal
  BY <1>15 DEF CalmInv, DownInv, AwaitedInv, ChangesInv, NoFalseAlarm, Quiet, vars,
      external
<1>16. Goal
  BY <1>2, <1>3, <1>4, <1>5, <1>6, <1>7, <1>8, <1>9, <1>10, <1>11, <1>12, <1>13,
      <1>14, <1>15, <1>1, NoneRaises, NoFault DEF Next, Reload, Step, CalmInv, IInv
<1> QED BY <1>1, <1>16 DEF CalmInv

(***************************************************************************)
(* For any number of good configs, nested in each other in any way, with   *)
(* restarts of the server or without: no call of add_config raises, when   *)
(* one thread makes the calls, each with its check, and no command fails.  *)
(***************************************************************************)
THEOREM NoAlarm ==
    ASSUME OneThreadChecked, Bad = {}
    PROVE  Spec => []NoFalseAlarm
<1>1. Init => CalmInv
  BY InvInit DEF Init, CalmInv, DownInv, AwaitedInv, ChangesInv, NoFalseAlarm
<1>2. CalmInv => NoFalseAlarm
  BY DEF CalmInv
<1> QED BY <1>1, <1>2, CalmNext, PTL DEF Spec
=============================================================================
