---------------------------- MODULE NodeQueryProofs ----------------------------
(***************************************************************************)
(* Proofs about NodeQuery for every number of retries.                     *)
(***************************************************************************)
EXTENDS NodeQuery, TLAPS

(***************************************************************************)
(* The parts of the inductive invariant.                                   *)
(***************************************************************************)
ScalarsOK ==
    /\ pc \in {"idle", "run", "look", "check"}
    /\ asked \in Calls /\ cur \in Calls
    /\ r \in [exitcode : {"none", "zero", "other"}, found : BOOLEAN]
    /\ slept \in {DefaultDelay, OtherDelay}
    /\ result \in {"none", "returned", "raised"}

(***************************************************************************)
(* Every attempt uses up one of the retries, and an attempt that was       *)
(* followed by another one had asked for it.                               *)
(***************************************************************************)
AnswersInv ==
    /\ answers \in Seq(Answers)
    /\ pc = "run" => Len(answers) + cur.retry_count = asked.retry_count
    /\ pc \in {"look", "check"} =>
          Len(answers) + cur.retry_count = asked.retry_count + 1
    /\ Len(answers) <= asked.retry_count + 1
    /\ pc = "run" => \A i \in 1..Len(answers) : answers[i] \in AsksForRetry
    /\ RepeatedOnRequest

(***************************************************************************)
(* What a retry passes on: the checks as they were asked for.  It forgets  *)
(* ignore_exception and hash_output, which makes the checks stricter only. *)
(***************************************************************************)
KeptInv ==
    /\ cur.kind = asked.kind /\ cur.no_checks = asked.no_checks
    /\ cur.exitcode = asked.exitcode /\ cur.message = asked.message
    /\ cur.ignore_exception => asked.ignore_exception
    /\ cur.hash_output => asked.hash_output

(***************************************************************************)
(* r is the result of the last run: a run that timed out has none, and an  *)
(* exit code of 0 is the client's unless diff was run.                     *)
(***************************************************************************)
ResultInv ==
    /\ pc # "idle" => result = "none"
    /\ pc = "look" => answer # "timeout"
    /\ pc \in {"look", "check"} /\ answer = "timeout" => r = Unassigned
    /\ pc \in {"look", "check"} /\ r.exitcode = "zero" /\ answer \in Exceptions =>
          cur.kind = "diff_query"

IInv == ScalarsOK /\ AnswersInv /\ KeptInv /\ ResultInv /\ CheckedAsAsked

-----------------------------------------------------------------------------
(***************************************************************************)
(* Facts about the arguments of a call.                                    *)
(***************************************************************************)
LEMMA CallFields ==
    ASSUME NEW a \in Calls
    PROVE  /\ a.retry_count \in Nat
           /\ a.retry_delay \in {DefaultDelay, OtherDelay}
           /\ a.hash_output \in BOOLEAN /\ a.no_checks \in BOOLEAN
           /\ a.ignore_exception \in BOOLEAN
           /\ a.retry_count > 0 => a \in Args
<1>1. MaxRetries \in Nat
  BY NodeQueryAssumption
<1>2. CASE a \in Args
  BY <1>1, <1>2 DEF Args
<1>3. CASE \E s \in BOOLEAN : a = Plain("hash_query", TRUE, s)
  BY <1>3 DEF Plain
<1>4. CASE \E s \in BOOLEAN : a = Plain("diff_query", FALSE, s)
  BY <1>4 DEF Plain
<1> QED BY <1>2, <1>3, <1>4 DEF Calls

LEMMA RetryFields ==
    ASSUME cur \in Calls, cur.retry_count > 0
    PROVE  /\ RetryArgs \in Calls
           /\ RetryArgs.retry_count = cur.retry_count - 1
           /\ RetryArgs.kind = cur.kind /\ RetryArgs.no_checks = cur.no_checks
           /\ RetryArgs.exitcode = cur.exitcode /\ RetryArgs.message = cur.message
           /\ RetryArgs.ignore_exception = FALSE /\ RetryArgs.hash_output = FALSE
<1>1. cur \in Args
  BY CallFields
<1>2. MaxRetries \in Nat
  BY NodeQueryAssumption
<1>3. cur.retry_count \in 0..MaxRetries
  BY <1>1 DEF Args
<1>4. cur.retry_count - 1 \in 0..MaxRetries
  BY <1>2, <1>3
<1>5. RetryArgs \in Args
  BY <1>1, <1>4 DEF RetryArgs, Args
<1>6. RetryArgs \in Calls
  BY <1>5 DEF Calls
<1> QED BY <1>1, <1>6 DEF RetryArgs, Args

(* The answer of the run that was made last *)
LEMMA LastAnswer ==
    ASSUME answers \in Seq(Answers), NEW a \in Answers, answers' = Append(answers, a)
    PROVE  answer' = a
BY DEF answer

LEMMA OneMore ==
    ASSUME NEW n \in Nat, NEW m, NEW a \in Nat, NEW b \in Nat, m = n + 1, n + a = b
    PROVE  m + a = b + 1 /\ m <= b + 1
OBVIOUS

-----------------------------------------------------------------------------
LEMMA InvInit == Init => IInv
<1> SUFFICES ASSUME Init PROVE IInv
  OBVIOUS
<1>1. asked \in Calls /\ cur = asked /\ answers = << >> /\ result = "none" /\ pc = "idle"
  BY DEF Init, Calls
<1>2. asked.retry_count \in Nat
  BY <1>1, CallFields
<1>3. ScalarsOK /\ KeptInv /\ ResultInv /\ CheckedAsAsked
  BY <1>1 DEF Init, ScalarsOK, KeptInv, ResultInv, CheckedAsAsked, Unassigned
<1>4. AnswersInv
  BY <1>1, <1>2 DEF AnswersInv, RepeatedOnRequest
<1> QED BY <1>3, <1>4 DEF IInv

(* A run adds its answer, whatever it is *)
LEMMA NextAnswer ==
    ASSUME IInv, NEW a \in Answers, answers' = Append(answers, a),
           pc = "run", pc' # "run", UNCHANGED <<asked, cur>>
    PROVE  AnswersInv'
<1>1. asked.retry_count \in Nat /\ cur.retry_count \in Nat
  BY CallFields DEF IInv, ScalarsOK
<1>2. answers \in Seq(Answers) /\ Len(answers) \in Nat
  BY DEF IInv, AnswersInv
<1>3. /\ answers' \in Seq(Answers) /\ Len(answers') = Len(answers) + 1
      /\ \A i \in 1..Len(answers) : answers'[i] = answers[i]
  BY <1>2
<1>4. Len(answers) + cur.retry_count = asked.retry_count
  BY DEF IInv, AnswersInv
<1>5. /\ Len(answers') + cur.retry_count = asked.retry_count + 1
      /\ Len(answers') <= asked.retry_count + 1
  BY <1>1, <1>2, <1>3, <1>4, OneMore
<1>6. \A i \in 1..(Len(answers') - 1) : answers'[i] \in AsksForRetry
  BY <1>2, <1>3 DEF IInv, AnswersInv
<1> QED BY <1>3, <1>5, <1>6 DEF AnswersInv, RepeatedOnRequest

LEMMA InvNext == IInv /\ [Next]_vars => IInv'
<1> SUFFICES ASSUME IInv, [Next]_vars PROVE IInv'
  OBVIOUS
<1>1. asked.retry_count \in Nat /\ cur.retry_count \in Nat
  BY CallFields DEF IInv, ScalarsOK
<1>2. answers \in Seq(Answers) /\ Len(answers) \in Nat
  BY DEF IInv, AnswersInv
<1>3. ASSUME NEW a \in Calls, Call(a) PROVE IInv'
  <2>1. a.retry_count \in Nat /\ a.retry_delay \in {DefaultDelay, OtherDelay}
    BY CallFields
  <2>2. ScalarsOK' /\ KeptInv' /\ ResultInv' /\ CheckedAsAsked'
    BY <1>3, <2>1 DEF Call, ScalarsOK, KeptInv, ResultInv, CheckedAsAsked, Unassigned
  <2>3. AnswersInv'
    BY <1>3, <2>1 DEF Call, AnswersInv, RepeatedOnRequest
  <2> QED BY <2>2, <2>3 DEF IInv
<1>4. ASSUME NEW a \in Answers, Run(a) PROVE IInv'
  <2>1. answer' = a
    BY <1>2, <1>4, LastAnswer DEF Run
  <2>2. PICK c \in ExitCodes(a), g \in Found(a) : r' = [exitcode |-> c, found |-> g]
    BY <1>4 DEF Run
  <2>3. /\ c \in {"zero", "other"} /\ g \in BOOLEAN
        /\ c = "zero" /\ a \in Exceptions => cur.kind = "diff_query"
    BY DEF ExitCodes, Found
  <2>4. ScalarsOK' /\ KeptInv' /\ ResultInv' /\ CheckedAsAsked'
    BY <1>4, <2>1, <2>2, <2>3
       DEF IInv, Run, ScalarsOK, KeptInv, ResultInv, CheckedAsAsked
  <2>5. AnswersInv'
    <3>1. answers' = Append(answers, a) /\ pc = "run" /\ pc' = "look" /\ UNCHANGED <<asked, cur>>
      BY <1>4 DEF Run
    <3> QED BY <3>1, NextAnswer
  <2> QED BY <2>4, <2>5 DEF IInv
<1>5. CASE RunTimeout
  <2>1. answer' = "timeout"
    BY <1>2, <1>5, LastAnswer DEF RunTimeout, Answers
  <2>2. ScalarsOK' /\ KeptInv' /\ ResultInv' /\ CheckedAsAsked'
    BY <1>5, <2>1 DEF IInv, RunTimeout, ScalarsOK, KeptInv, ResultInv, CheckedAsAsked,
        Unassigned, Exceptions
  <2>3. AnswersInv'
    <3>1. /\ answers' = Append(answers, "timeout") /\ pc = "run" /\ pc' # "run"
          /\ UNCHANGED <<asked, cur>>
      BY <1>5 DEF RunTimeout
    <3>2. "timeout" \in Answers
      BY DEF Answers
    <3> QED BY <3>1, <3>2, NextAnswer
  <2> QED BY <2>2, <2>3 DEF IInv
<1>6. CASE Retry
  <2>1. cur \in Calls /\ cur.retry_count > 0 /\ cur.retry_delay \in {DefaultDelay, OtherDelay}
    BY <1>6, CallFields DEF IInv, ScalarsOK, Retry
  <2>2. ScalarsOK' /\ KeptInv' /\ ResultInv' /\ CheckedAsAsked'
    BY <1>6, <2>1, RetryFields
       DEF IInv, Retry, ScalarsOK, KeptInv, ResultInv, CheckedAsAsked
  <2>3. answers[Len(answers)] \in AsksForRetry
    BY <1>6 DEF Retry, Shows, answer
  <2>4. \A i \in 1..Len(answers) : answers[i] \in AsksForRetry
    BY <1>2, <2>3 DEF IInv, AnswersInv, RepeatedOnRequest
  <2>5. AnswersInv'
    <3>1. /\ pc = "look" /\ pc' = "run" /\ UNCHANGED <<asked, answers>>
          /\ cur'.retry_count = cur.retry_count - 1
      BY <1>6, <2>1, RetryFields DEF Retry
    <3>2. Len(answers) + cur'.retry_count = asked.retry_count
      BY <1>1, <1>2, <3>1 DEF IInv, AnswersInv
    <3> QED BY <2>4, <3>1, <3>2 DEF IInv, AnswersInv, RepeatedOnRequest
  <2> QED BY <2>2, <2>5 DEF IInv
<1>7. CASE NoRetry
  BY <1>7 DEF IInv, NoRetry, ScalarsOK, AnswersInv, RepeatedOnRequest, KeptInv,
      ResultInv, CheckedAsAsked, answer
<1>8. CASE Check
  <2>1. ScalarsOK' /\ KeptInv' /\ ResultInv' /\ AnswersInv'
    BY <1>8 DEF IInv, Check, ScalarsOK, AnswersInv, RepeatedOnRequest, KeptInv, ResultInv
  <2>2. CheckedAsAsked'
    <3>1. UNCHANGED <<asked, answers, r>> /\ answer' = answer
      BY <1>8 DEF Check, answer
    <3>2. CASE result' # "returned"
      BY <3>2 DEF CheckedAsAsked
    <3>3. CASE result' = "returned"
      <4>1. r # Unassigned /\ Passes /\ pc = "check"
        BY <1>8, <3>3 DEF Check
      <4>2. /\ answer # "timeout"
            /\ r.exitcode = "zero" /\ answer \in Exceptions => asked.kind = "diff_query"
        BY <4>1 DEF IInv, ResultInv, KeptInv
      <4>3. ~asked.no_checks =>
              /\ asked.exitcode = "zero" => r.exitcode = "zero"
              /\ asked.message # "none" => r.found
              /\ asked.message # "exception" /\ ~asked.ignore_exception
                     /\ ~asked.hash_output
                   => answer \notin Exceptions
        BY <4>1 DEF IInv, KeptInv, Passes, Shows
      <4> QED BY <3>1, <4>2, <4>3 DEF CheckedAsAsked
    <3> QED BY <3>2, <3>3
  <2> QED BY <2>1, <2>2 DEF IInv
<1>9. CASE UNCHANGED vars
  BY <1>9 DEF vars, IInv, ScalarsOK, AnswersInv, RepeatedOnRequest, KeptInv,
      ResultInv, CheckedAsAsked, answer
<1> QED BY <1>3, <1>4, <1>5, <1>6, <1>7, <1>8, <1>9 DEF Next

LEMMA TypeFromInv == IInv => TypeOK
<1> SUFFICES ASSUME IInv PROVE TypeOK
  OBVIOUS
<1>1. asked.retry_count \in Nat
  BY CallFields DEF IInv, ScalarsOK
<1>2. answers \in [1..Len(answers) -> Answers] /\ Len(answers) \in Nat
  BY DEF IInv, AnswersInv
<1>3. Len(answers) \in 0..(asked.retry_count + 1)
  BY <1>1, <1>2 DEF IInv, AnswersInv
<1> QED BY <1>2, <1>3 DEF IInv, ScalarsOK, TypeOK

(***************************************************************************)
(* The attempts, the arguments and the result of a call of query stay in   *)
(* step.                                                                   *)
(***************************************************************************)
THEOREM Invariant == Spec => []IInv
BY InvInit, InvNext, PTL DEF Spec

(***************************************************************************)
(* A call makes at most retry_count retries, and its variables have their  *)
(* types.                                                                  *)
(***************************************************************************)
THEOREM TypeCorrect == Spec => []TypeOK
BY TypeFromInv, Invariant, PTL

(***************************************************************************)
(* query runs a statement again only after an output with one of           *)
(* MESSAGES_TO_RETRY.                                                      *)
(***************************************************************************)
THEOREM NoUncalledRetry == Spec => []RepeatedOnRequest
<1>1. IInv => RepeatedOnRequest
  BY DEF IInv, AnswersInv
<1> QED BY <1>1, Invariant, PTL

(***************************************************************************)
(* A call of query, hash_query or diff_query that returns had a result     *)
(* within its time, and the result of its last run passes the checks its   *)
(* caller asked for, the message included.                                 *)
(***************************************************************************)
THEOREM ChecksAreMade == Spec => []CheckedAsAsked
<1>1. IInv => CheckedAsAsked
  BY DEF IInv
<1> QED BY <1>1, Invariant, PTL
================================================================================
