------------------------------- MODULE Egress -------------------------------
(***************************************************************************)
(* The end-to-end egress, src/messaging_universal/egress.rs, with its retry *)
(* policy (retry.rs) and dead-letter log (dlq.rs).  All messages go through *)
(* the app flow first; then each resulting envelope is a job: it is         *)
(* rendered, encoded and sent, again after a delay while the provider says  *)
(* that the failure is retryable, and is written to the log when the last   *)
(* attempt fails.                                                           *)
(***************************************************************************)
EXTENDS Integers, Sequences, FiniteSets

CONSTANTS MaxMessages,   \* at most so many messages arrive
          MaxOutputs,    \* at most so many envelopes come out of a flow
          RetryCounts,   \* values of --retries
          U32Max, W64,   \* the widths of u32 and u64
          BaseDelay, MaxDelay, Jitter,
          Backoffs,      \* backoff-ms values a provider may answer with
          DlqMayFail     \* the dead-letter log may be unwritable

U64Max == 2^W64 - 1

ASSUME EgressAssumption ==
    /\ MaxMessages \in Nat /\ MaxOutputs \in Nat
    /\ U32Max \in Nat \ {0} /\ W64 \in Nat \ {0}
    /\ RetryCounts \subseteq 0..U32Max
    /\ {BaseDelay, MaxDelay, Jitter} \cup Backoffs \subseteq 0..U64Max
    /\ DlqMayFail \in BOOLEAN

(* Arithmetic the provers do not know: powers of two are positive naturals. *)
ASSUME PowersOfTwo == \A n \in 0..W64 : 2^n \in Nat \ {0}

Lesser(a, b) == IF a <= b THEN a ELSE b

VARIABLES opt,        \* [send, dry_run, retries]
          left,       \* messages that still have to go through the app flow
          jobs,       \* the message each job comes from
          pc, cur,    \* the step, and the job it is for
          attempt,    \* of the current job
          result,     \* of run_end_to_end
          tries,      \* history: the answers to the current job's sends
          wait,       \* history: the current job's last delay
          delivered, dead \* jobs that were sent, that are in dlq.log

vars == <<opt, left, jobs, pc, cur, attempt, result, tries, wait, delivered, dead>>

Options == [send : BOOLEAN, dry_run : BOOLEAN, retries : RetryCounts]
Replies == {"ok", "retryable", "permanent"}
NoWait == [ms |-> 0, given |-> TRUE]

Init ==
    /\ opt \in Options
    /\ left \in 0..MaxMessages
    /\ jobs = <<>> /\ cur = 1 /\ attempt = 0
    /\ pc = "start" /\ result = "running"
    /\ tries = <<>> /\ wait = NoWait
    /\ delivered = {} /\ dead = {}

Sending == opt.send /\ ~opt.dry_run

End(r) == pc' = "ended" /\ result' = r

(* The pack, its manifest or its default flow may not be found. *)
Start ==
    /\ pc = "start"
    /\ \/ left = 0 /\ End("ok")
       \/ left > 0 /\ End("err")
       \/ left > 0 /\ pc' = "flow" /\ UNCHANGED result
    /\ UNCHANGED <<opt, left, jobs, cur, attempt, tries, wait, delivered, dead>>

(* A flow without outputs leaves the message itself to be sent. *)
Outputs(m, n) == [k \in 1..(IF n = 0 THEN 1 ELSE n) |-> m]

(* The flow of the next message; an error ends the run before any send.     *)
RunFlow ==
    /\ pc = "flow" /\ left > 0
    /\ \/ End("err") /\ UNCHANGED <<left, jobs>>
       \/ /\ \E n \in 0..MaxOutputs : jobs' = jobs \o Outputs(left, n)
          /\ left' = left - 1
          /\ UNCHANGED <<pc, result>>
    /\ UNCHANGED <<opt, cur, attempt, tries, wait, delivered, dead>>

(* Discovery and the runner host may fail. *)
StartJobs ==
    /\ pc = "flow" /\ left = 0
    /\ \/ End("err")
       \/ pc' = "render" /\ UNCHANGED result
    /\ UNCHANGED <<opt, left, jobs, cur, attempt, tries, wait, delivered, dead>>

-----------------------------------------------------------------------------
(* RetryPolicy and EgressJob. *)

SaturatingAdd(a, b, max) == Lesser(a + b, max)
SaturatingMul(a, b, max) == Lesser(a * b, max)

increment_attempt == SaturatingAdd(attempt, 1, U32Max)

max_attempts == SaturatingAdd(opt.retries, 1, U32Max)

backoff_ms(n) ==
    LET shift == Lesser(IF n > 0 THEN n - 1 ELSE 0, W64 - 1)
    IN Lesser(SaturatingMul(BaseDelay, 2^shift, U64Max), MaxDelay)

delay_with_jitter(n, jitter) == SaturatingAdd(backoff_ms(n), Lesser(jitter, Jitter), U64Max)

(* Mutant: one attempt more than there should be. *)
Bug_IsFinal(answer) == attempt > max_attempts \/ answer = "permanent"

(* job.attempt >= job.max_attempts || !node_error.retryable *)
IsFinal(answer) == attempt >= max_attempts \/ answer = "permanent"

-----------------------------------------------------------------------------
(* The job is done with: the next one, or the end. *)
FinishJob ==
    /\ cur' = cur + 1 /\ attempt' = 0 /\ tries' = <<>> /\ wait' = NoWait
    /\ \/ cur < Len(jobs) /\ pc' = "render" /\ UNCHANGED result
       \/ cur = Len(jobs) /\ End("ok")

(***************************************************************************)
(* An attempt starts with render_plan, whose error ends the run; encode has *)
(* a fallback.  A dry run is over here.                                     *)
(***************************************************************************)
Render ==
    /\ pc = "render" /\ cur <= Len(jobs)
    /\ \/ End("err") /\ attempt' = increment_attempt /\ UNCHANGED <<cur, tries, wait>>
       \/ Sending /\ pc' = "send" /\ attempt' = increment_attempt
          /\ UNCHANGED <<cur, tries, wait, result>>
       \/ ~Sending /\ FinishJob
    /\ UNCHANGED <<opt, left, jobs, delivered, dead>>

(* invoke_flow(send_payload) is an Err: the run ends. *)
SendCannotRun ==
    /\ pc = "send" /\ End("err")
    /\ UNCHANGED <<opt, left, jobs, cur, attempt, tries, wait, delivered, dead>>

SendSucceeds ==
    /\ pc = "send"
    /\ delivered' = delivered \cup {cur}
    /\ FinishJob
    /\ UNCHANGED <<opt, left, jobs, dead>>

(* Mutant: only errors that are not retryable are logged. *)
Bug_Logged(answer) == IF answer = "permanent" THEN {cur} ELSE {}

Logged(answer) == {cur}

SendFails ==
    /\ pc = "send"
    /\ \E answer \in {"retryable", "permanent"} :
         \/ /\ IsFinal(answer)
            /\ dead' = dead \cup Logged(answer)
            /\ FinishJob
         \/ /\ IsFinal(answer) /\ DlqMayFail
            /\ tries' = Append(tries, answer)
            /\ End("err")
            /\ UNCHANGED <<cur, attempt, wait, dead>>
         \/ /\ ~IsFinal(answer)
            /\ tries' = Append(tries, answer)
            /\ \/ \E ms \in Backoffs : wait' = [ms |-> ms, given |-> TRUE]
               \/ \E j \in 0..Jitter : wait' = [ms |-> delay_with_jitter(attempt, j), given |-> FALSE]
            /\ pc' = "render"
            /\ UNCHANGED <<cur, attempt, result, dead>>
    /\ UNCHANGED <<opt, left, jobs, delivered>>

Next == Start \/ RunFlow \/ StartJobs \/ Render \/ SendCannotRun \/ SendSucceeds \/ SendFails

Spec == Init /\ [][Next]_vars

-----------------------------------------------------------------------------
(* Every variable has its type: no count leaves its width. *)
TypeOK ==
    /\ opt \in Options /\ left \in 0..MaxMessages
    /\ jobs \in Seq(1..MaxMessages)
    /\ pc \in {"start", "flow", "render", "send", "ended"}
    /\ cur \in 1..(Len(jobs) + 1)
    /\ attempt \in 0..U32Max
    /\ result \in {"running", "ok", "err"}
    /\ tries \in Seq(Replies)
    /\ wait.ms \in 0..U64Max /\ wait.given \in BOOLEAN
    /\ delivered \subseteq 1..Len(jobs) /\ dead \subseteq 1..Len(jobs)

(***************************************************************************)
(* A run that reports success has accounted for every envelope: each was    *)
(* delivered or is in dlq.log, not both, or, in a dry run, neither.         *)
(***************************************************************************)
SentOrDeadLettered ==
    result = "ok" =>
      \A k \in DOMAIN jobs : IF Sending THEN (k \in delivered) # (k \in dead)
                                        ELSE k \notin delivered \cup dead

(***************************************************************************)
(* Retries are due: each send of a job but the first follows an answer that *)
(* allowed it, and there are at most --retries of them, even when the       *)
(* counts reach their width.                                                *)
(***************************************************************************)
RetriesAreDue ==
    /\ pc = "send" => Len(tries) <= opt.retries
    /\ pc = "send" => \A k \in DOMAIN tries : tries[k] = "retryable"

=============================================================================
