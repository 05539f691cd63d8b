------------------------------- MODULE NodeQuery -------------------------------
(***************************************************************************)
(* ClickHouseNode.query, hash_query and diff_query of helpers/cluster.py:  *)
(* a statement is run by clickhouse client in a terminal, the output is    *)
(* searched for messages that ask for a retry, and the outcome is checked. *)
(*                                                                         *)
(* A retry is a call of query by itself that has to pass on every argument *)
(* of its own; cur holds the arguments of the call that is running, asked  *)
(* those of the caller.  The server is external.                           *)
(***************************************************************************)
EXTENDS Naturals, Sequences

CONSTANTS
    MaxRetries,    \* largest retry_count
    DefaultDelay, OtherDelay  \* values of retry_delay

ASSUME NodeQueryAssumption == MaxRetries \in Nat /\ DefaultDelay # OtherDelay

(***************************************************************************)
(* What a run of the client can come to: an answer, an exception, an       *)
(* exception with one of MESSAGES_TO_RETRY, an answer with such a message  *)
(* in a log line, and no end within the timeout.                           *)
(***************************************************************************)
Answers == {"clean", "exception", "retryable", "notice", "timeout"}

AsksForRetry == {"retryable", "notice"}

Exceptions == {"exception", "retryable"}

Args == [kind : {"query"}, retry_count : 0..MaxRetries,
         retry_delay : {DefaultDelay, OtherDelay},
         secure : BOOLEAN, ignore_exception : BOOLEAN, hash_output : BOOLEAN,
         exitcode : {"any", "zero"}, message : {"none", "text", "exception"},
         no_checks : BOOLEAN]

(* hash_query and diff_query: no retries, and the exit code must be 0 *)
Plain(k, hash, s) ==
    [kind |-> k, retry_count |-> 0, retry_delay |-> DefaultDelay, secure |-> s,
     ignore_exception |-> TRUE, hash_output |-> hash, exitcode |-> "zero",
     message |-> "none", no_checks |-> FALSE]

Calls == Args \cup {Plain("hash_query", TRUE, s) : s \in BOOLEAN}
              \cup {Plain("diff_query", FALSE, s) : s \in BOOLEAN}

(* The local variable r: the exit code of the command, and whether the     *)
(* expected message is in its output; Unassigned before there is any       *)
Unassigned == [exitcode |-> "none", found |-> FALSE]

VARIABLES pc, asked, cur,
    answers,  \* of the attempts made so far
    r,
    slept,    \* the retry_delay of the last time.sleep
    result

vars == <<pc, asked, cur, answers, r, slept, result>>

(* The call is bounded by its retry_count *)
TypeOK ==
    /\ pc \in {"idle", "run", "look", "check"}
    /\ asked \in Calls /\ cur \in Calls
    /\ answers \in UNION {[1..n -> Answers] : n \in 0..(asked.retry_count + 1)}
    /\ r \in [exitcode : {"none", "zero", "other"}, found : BOOLEAN]
    /\ slept \in {DefaultDelay, OtherDelay}
    /\ result \in {"none", "returned", "raised"}

Init ==
    /\ pc = "idle"
    /\ asked = Plain("hash_query", TRUE, FALSE) /\ cur = asked
    /\ answers = <<>>
    /\ r = Unassigned
    /\ slept = DefaultDelay
    /\ result = "none"

Call(a) ==
    /\ pc = "idle"
    /\ pc' = "run"
    /\ asked' = a /\ cur' = a
    /\ answers' = <<>>
    /\ r' = Unassigned
    /\ slept' = a.retry_delay
    /\ result' = "none"

(* The exit code of diff is not the one of the client: an exception looks  *)
(* like an empty answer                                                    *)
ExitCodes(a) ==
    IF cur.kind = "diff_query" THEN {"zero", "other"}
    ELSE {IF a \in Exceptions THEN "other" ELSE "zero"}

(* The output has the expected text or not; the text of an exception is    *)
(* only in the output of one, and not in a hash of it                      *)
Found(a) ==
    IF \/ cur.message = "text"
       \/ cur.message = "exception" /\ a \in Exceptions /\ ~cur.hash_output
      THEN BOOLEAN ELSE {FALSE}

(* The terminal runs the client *)
Run(a) ==
    /\ pc = "run" /\ a # "timeout"
    /\ answers' = Append(answers, a)
    /\ r' \in [exitcode : ExitCodes(a), found : Found(a)]
    /\ pc' = "look"
    /\ UNCHANGED <<asked, cur, slept, result>>

(* ExpectTimeoutError: the terminal is closed.  query raises it again; the *)
(* other two go on without a result.                                       *)
RunTimeout ==
    /\ pc = "run"
    /\ answers' = Append(answers, "timeout")
    /\ r' = Unassigned
    /\ IF cur.kind = "query" THEN pc' = "idle" /\ result' = "raised"
                             ELSE pc' = "check" /\ UNCHANGED result
    /\ UNCHANGED <<asked, cur, slept>>

answer == answers[Len(answers)]

(* The text of the output is the answer, or a hash of it *)
Shows(S) == answer \in S /\ ~cur.hash_output

(* The arguments of the recursive call, the others have their defaults *)
RetryArgs ==
    [cur EXCEPT !.retry_count = @ - 1,
                !.retry_delay = DefaultDelay,
                !.secure = FALSE,
                !.ignore_exception = FALSE,
                !.hash_output = FALSE]

(* Mistakes: the message is not passed on, an exception of any kind is retried *)
RetryWithoutChecks ==
    /\ pc = "look" /\ cur.retry_count > 0 /\ Shows(AsksForRetry)
    /\ cur' = [RetryArgs EXCEPT !.message = "none"]
    /\ slept' = cur.retry_delay
    /\ pc' = "run"
    /\ UNCHANGED <<asked, answers, r, result>>

RetryAnyException ==
    /\ pc = "look" /\ cur.retry_count > 0 /\ Shows(AsksForRetry \cup Exceptions)
    /\ cur' = RetryArgs
    /\ slept' = cur.retry_delay
    /\ pc' = "run"
    /\ UNCHANGED <<asked, answers, r, result>>

Retry ==
    /\ pc = "look" /\ cur.retry_count > 0 /\ Shows(AsksForRetry)
    /\ cur' = RetryArgs
    /\ slept' = cur.retry_delay
    /\ pc' = "run"
    /\ UNCHANGED <<asked, answers, r, result>>

NoRetry ==
    /\ pc = "look" /\ (cur.retry_count = 0 \/ ~Shows(AsksForRetry))
    /\ pc' = "check"
    /\ UNCHANGED <<asked, cur, answers, r, slept, result>>

(* exitcode, message, and an exception that was not expected *)
Passes ==
    \/ cur.no_checks
    \/ /\ cur.exitcode = "zero" => r.exitcode = "zero"
       /\ cur.message # "none" => r.found
       /\ cur.ignore_exception \/ cur.message = "exception" \/ ~Shows(Exceptions)

(* r.exitcode of an r without a value is an UnboundLocalError *)
Check ==
    /\ pc = "check"
    /\ result' = IF r # Unassigned /\ Passes THEN "returned" ELSE "raised"
    /\ pc' = "idle"
    /\ UNCHANGED <<asked, cur, answers, r, slept>>

Next ==
    \/ \E a \in Calls : Call(a)
    \/ \E a \in Answers : Run(a)
    \/ RunTimeout \/ Retry \/ NoRetry \/ Check

Spec == Init /\ [][Next]_vars

-----------------------------------------------------------------------------
(***************************************************************************)
(* A statement is run again only if the output of the run before had one   *)
(* of MESSAGES_TO_RETRY, so one that succeeded silently, failed for good   *)
(* or may still be running after a timeout is not run twice.               *)
(***************************************************************************)
RepeatedOnRequest == \A i \in 1..(Len(answers) - 1) : answers[i] \in AsksForRetry

(***************************************************************************)
(* A call of query, hash_query or diff_query that returns had a result,    *)
(* and the result of its last run passes the checks its caller asked for,  *)
(* however many retries lie between: the exit code, the message, and no    *)
(* exception unless one is expected or ignored.  The exit code of          *)
(* diff_query is the one of diff and says nothing of an exception.         *)
(***************************************************************************)
CheckedAsAsked ==
    result = "returned" =>
        /\ answer # "timeout"
        /\ ~asked.no_checks =>
              /\ asked.exitcode = "zero" =>
                    /\ r.exitcode = "zero"
                    /\ answer \in Exceptions => asked.kind = "diff_query"
              /\ asked.message # "none" => r.found
              /\ asked.message # "exception" /\ ~asked.ignore_exception
                     /\ ~asked.hash_output
                   => answer \notin Exceptions

(***************************************************************************)
(* "retry_delay: number of seconds to sleep before retry", "secure: use    *)
(* secure connection" and "hash_output: specifies whether the output of    *)
(* the executed command should be hashed" hold of every run of the call.   *)
(***************************************************************************)
ArgumentsAreKept ==
    /\ slept = asked.retry_delay
    /\ cur.secure = asked.secure
    /\ cur.hash_output = asked.hash_output
=============================================================================
