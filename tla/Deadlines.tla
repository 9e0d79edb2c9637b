------------------------------- MODULE Deadlines -------------------------------
(***************************************************************************)
(* How long the jobs of the provider take and how long their submit()s     *)
(* wait, in milliseconds: the deadlines that execute_safe_call() of        *)
(* src/src/core/ezo_provider_runtime.cpp and the refreshes of              *)
(* src/src/core/runtime_state.cpp compute, against the waits of the        *)
(* commands and the re-reads of read_command_response().                   *)
(*                                                                         *)
(* What the commands do to the probe is in EzoProviderRuntime; here a job  *)
(* is the number of commands it has still to exchange.  Time passes only   *)
(* while a command waits for its answer: the transfers themselves, about a *)
(* millisecond each, and the scheduling of threads take no time.           *)
(***************************************************************************)
EXTENDS Integers

CONSTANTS Families,      \* the EzoDeviceType of the device, of "Ph" and "Do"
          GenericWait,   \* wait of an EZO_COMMAND_GENERIC
          CalWait,       \* CalWait[type]: wait of an EZO_COMMAND_CALIBRATION
          ReadWait,      \* ReadWait[type]: wait of a reading
          timeout_ms,    \* hardware.timeout_ms
          query_latency, \* query_latency_ms(config)
          CallTimeout,   \* how long the runtime waits for a call
          Gaps           \* times by which two requests may be apart

ASSUME DeadlinesAssumption ==
  /\ Families \subseteq {"Ph", "Do"}
  /\ GenericWait \in Nat \ {0} /\ timeout_ms \in Nat
  /\ query_latency \in Nat \ {0} /\ CallTimeout \in Nat
  /\ CalWait \in [Families -> Nat \ {0}] /\ ReadWait \in [Families -> Nat \ {0}]
  /\ Gaps \subseteq Nat \ {0}

AtLeast(a, b) == IF a > b THEN a ELSE b    \* std::max
AtMost(a, b)  == IF a < b THEN a ELSE b

kResponseHeadroomMs == 1500
kPendingRereads     == 4
kPendingRereadMs    == 250

\* Compensation commands of a family: T, and for DO also S and P.
FieldCount(type) == IF type = "Do" THEN 3 ELSE 1

Functions == {"find", "set_led", "sleep", "calibrate", "clear_calibration",
              "set_compensation"}
-------------------------------------------------------------------------------
(* Deadlines.                                                              *)

CommandWait(type, fn) == IF fn = "calibrate" THEN CalWait[type] ELSE GenericWait

\* Seeded fault: the further commands of a job are not counted.
ExecDeadlineFlat(type, fn) ==
  AtLeast(timeout_ms, CommandWait(type, fn) + kResponseHeadroomMs)

\* The deadline of a control call.
ExecDeadline(type, fn) ==
  LET extra_commands == IF fn = "set_compensation" THEN 2
                        ELSE IF fn = "calibrate" /\ type = "Do" THEN 6 ELSE 0
  IN  AtLeast(timeout_ms, CommandWait(type, fn) + kResponseHeadroomMs
                            + extra_commands * GenericWait)

\* The deadline of a sample and of a calibration level.
QueryDeadline == AtLeast(timeout_ms, query_latency + 1500)

\* The deadline of a compensation check, of nine commands.
CheckDeadline == AtLeast(timeout_ms, 9 * query_latency + 1500)

Generic(n) == n * GenericWait    \* the waits of n commands

\* The waits fit into the deadlines of the queries: query_latency_ms() is no
\* shorter than the wait of a query, and a reading takes less than its headroom.
WaitsFit == /\ query_latency >= GenericWait
            /\ \A t \in Families : GenericWait + ReadWait[t] < query_latency + 1500

\* The waits of a request that nothing slows down, at most.
QuietWaits(t, fn) ==
  CASE fn = "read" -> (IF t = "Do" THEN GenericWait ELSE 0) + ReadWait[t]
                        + Generic(FieldCount(t) + 1)
    [] fn = "set_compensation" -> Generic(FieldCount(t)) + Generic(FieldCount(t) + 1)
    [] fn = "calibrate" -> CalWait[t] + GenericWait
                             + (IF t = "Do" THEN Generic(6) + Generic(FieldCount(t) + 1) ELSE 0)
    [] fn = "clear_calibration" -> Generic(2)
    [] OTHER -> GenericWait

\* Those of every request are within the runtime's call timeout.
QuietWaitsFit ==
  \A t \in Families, fn \in Functions \cup {"read"} : QuietWaits(t, fn) <= CallTimeout
-------------------------------------------------------------------------------
(* Jobs.  `todo' counts the commands left in the current pass, `later' is  *)
(* how many values a later pass will send.                                 *)

NoJob == [fn |-> "none", pass |-> "done", todo |-> 0, later |-> 0, sent |-> FALSE,
          rereads |-> 0, spent |-> 0, ok |-> TRUE]

Job(fn, pass, todo, later) ==
  [NoJob EXCEPT !.fn = fn, !.pass = pass, !.todo = todo, !.later = later]

\* A DO reading is preceded by the query of its outputs.
SampleJob(type) == IF type = "Do" THEN Job("sample", "outputs", 1, 0)
                                  ELSE Job("sample", "reading", 1, 0)
LevelJob == Job("level", "level", 1, 0)
CheckJob(type, set) == Job("check", "query", FieldCount(type), set)

\* execute_safe_call: set_compensation sends `values' values; a DO calibration
\* sends the three defaults, Cal, and then `values' values.
CallJob(type, fn, values) ==
  IF fn = "set_compensation" THEN Job(fn, "send", values, 0)
  ELSE IF fn = "calibrate" /\ type = "Do" THEN Job(fn, "defaults", 3, values)
  ELSE Job(fn, "command", 1, 0)

VARIABLES
  type,      \* the family of the device
  running,   \* the job on the bus
  begun,     \* the worker has found that the caller still waits, and runs it
  queued,    \* the job behind it, when its own caller has given up
  left,      \* until the answer of the current command is read
  stage,     \* what the handler waits for
  op,        \* the request being served: its function and its outcome
  patience,  \* until the submit() being waited for gives up
  request    \* history: time since the request, and whether anything slowed it

vars == <<type, running, begun, queued, left, stage, op, patience, request>>

\* Seeded fault: every command of a calibration waits as the calibration does.
WaitOfAll(j) ==
  CASE j.fn = "calibrate"   -> CalWait[type]
    [] j.pass = "reading"   -> ReadWait[type]
    [] OTHER                -> GenericWait

\* The time the current command of job j is given before its answer is read.
WaitOf(j) ==
  CASE j.pass = "command" -> CommandWait(type, j.fn)
    [] j.pass = "reading" -> ReadWait[type]
    [] OTHER              -> GenericWait

\* Answers that read_command_response() reads, and reads again; those of
\* queries are read once and that of sleep not at all.
Reread(j) == /\ j.pass \in {"send", "resend", "defaults", "restore", "command"}
             /\ j.fn # "sleep"

Done(j, ok) == [j EXCEPT !.pass = "done", !.todo = 0, !.sent = FALSE, !.ok = ok]

Pass(j, pass, n) ==
  IF n = 0 THEN Done(j, j.ok)
           ELSE [j EXCEPT !.pass = pass, !.todo = n, !.sent = FALSE, !.rereads = 0]

\* What follows when the current command went through.  After the first query a
\* check may find a value lost, if any is set.
Follows(j) ==
  IF j.todo > 1 THEN {[j EXCEPT !.todo = @ - 1, !.sent = FALSE, !.rereads = 0]}
  ELSE CASE j.pass = "outputs"  -> {Pass(j, "reading", 1)}
         [] j.pass = "query"    -> {Done(j, TRUE), Pass(j, "resend", j.later)}
         [] j.pass = "resend"   -> {Pass(j, "requery", FieldCount(type))}
         [] j.pass = "defaults" -> {Pass(j, "command", 1)}
         [] j.pass = "command"  -> {Pass(j, "restore", j.later)}
         [] OTHER               -> {Done(j, j.ok)}

\* What follows when a command cannot be sent, or its answer is an error.
FailsToSend(j) == CASE j.pass = "defaults" -> Pass([j EXCEPT !.ok = FALSE], "restore", j.later)
                    [] j.pass = "restore"  -> Done(j, j.ok)
                    [] OTHER               -> Done(j, FALSE)

FailsToAnswer(j) == IF j.pass = "command"
                      THEN Pass([j EXCEPT !.ok = FALSE], "restore", j.later)
                      ELSE FailsToSend(j)
-------------------------------------------------------------------------------
(* The worker.                                                             *)

Abandoned == stage = "idle" \/ queued # NoJob

\* The job on the bus goes on as j; an abandoned one that is done makes room.
GoOn(j) ==
  IF j.pass = "done" /\ Abandoned
    THEN running' = queued /\ queued' = NoJob /\ begun' = FALSE
    ELSE running' = j /\ UNCHANGED <<queued, begun>>

Begin ==
  /\ running.pass # "done" /\ ~begun
  /\ begun' = TRUE
  /\ UNCHANGED <<type, running, queued, left, stage, op, patience, request>>

Send ==
  /\ begun /\ running.pass # "done" /\ ~running.sent
  /\ \/ /\ running' = [running EXCEPT !.sent = TRUE]
        /\ left' = WaitOf(running)
        /\ UNCHANGED <<queued, begun>>
     \/ GoOn(FailsToSend(running)) /\ UNCHANGED left
  /\ UNCHANGED <<type, stage, op, patience, request>>

\* Seeded fault: one re-read too many.
ReadAnswerTooOften ==
  /\ running.sent /\ left = 0
  /\ \/ /\ \E j \in Follows(running) : GoOn(j)
        /\ request' = [request EXCEPT !.quiet = @ /\ running.pass # "resend"]
        /\ UNCHANGED left
     \/ /\ Reread(running) /\ running.rereads <= kPendingRereads
        /\ running' = [running EXCEPT !.rereads = @ + 1, !.spent = @ + kPendingRereadMs]
        /\ left' = kPendingRereadMs
        /\ request' = [request EXCEPT !.quiet = FALSE]
        /\ UNCHANGED <<queued, begun>>
     \/ /\ running.fn # "sleep"
        /\ GoOn(FailsToAnswer(running))
        /\ UNCHANGED <<left, request>>
  /\ UNCHANGED <<type, stage, op, patience>>

\* The answer is read: the command went through, the device is still busy with
\* it, or it failed.
ReadAnswer ==
  /\ running.sent /\ left = 0
  /\ \/ /\ \E j \in Follows(running) : GoOn(j)
        /\ request' = [request EXCEPT !.quiet = @ /\ running.pass # "resend"]
        /\ UNCHANGED left
     \/ /\ Reread(running) /\ running.rereads < kPendingRereads
        /\ running' = [running EXCEPT !.rereads = @ + 1, !.spent = @ + kPendingRereadMs]
        /\ left' = kPendingRereadMs
        /\ request' = [request EXCEPT !.quiet = FALSE]
        /\ UNCHANGED <<queued, begun>>
     \/ /\ running.fn # "sleep"
        /\ GoOn(FailsToAnswer(running))
        /\ UNCHANGED <<left, request>>
  /\ UNCHANGED <<type, stage, op, patience>>

\* Time passes: while the handler waits, until the answer is due or it gives up;
\* between requests, by any of the gaps.
Elapse ==
  /\ running.sent /\ left > 0
  /\ \E d \in IF stage = "idle" THEN {g \in Gaps : g <= left} ELSE {AtMost(left, patience)} :
       /\ d > 0
       /\ left' = left - d
       /\ IF stage = "idle"
            THEN UNCHANGED <<patience, request>>
            ELSE /\ patience' = patience - d
                 /\ request' = [request EXCEPT !.elapsed = @ + d]
  /\ UNCHANGED <<type, running, begun, queued, stage, op>>
-------------------------------------------------------------------------------
(* The handler.                                                            *)

\* submit() of job j, with `kept' still on the bus.
Submit(what, j, deadline, kept, keptBegun) ==
  /\ stage' = what /\ patience' = deadline
  /\ IF kept = NoJob THEN running' = j /\ queued' = NoJob /\ begun' = FALSE
                     ELSE running' = kept /\ queued' = j /\ begun' = keptBegun

Idle(kept, keptBegun) ==
  /\ stage' = "idle" /\ patience' = 0
  /\ running' = kept /\ queued' = NoJob /\ begun' = keptBegun

\* Whether the awaited job had the bus to itself from the start.
Free(kept) == kept = NoJob

NewRequest(fn) ==
  /\ stage = "idle"
  /\ op' = [fn |-> fn, ok |-> TRUE]
  /\ request' = [elapsed |-> 0, quiet |-> Free(running), free |-> Free(running)]
  /\ UNCHANGED <<type, left>>

Read == /\ NewRequest("read")
        /\ Submit("sample", SampleJob(type), QueryDeadline, running, begun)

Call(fn) ==
  /\ NewRequest(fn)
  /\ \E values \in IF fn = "set_compensation" THEN 1..FieldCount(type)
                   ELSE IF fn = "calibrate" THEN 0..FieldCount(type) ELSE {0} :
       Submit("exec", CallJob(type, fn, values), ExecDeadline(type, fn), running, begun)

TouchesCompensation == \/ op.fn = "set_compensation"
                       \/ op.fn = "calibrate" /\ type = "Do"

SubmitCheck(kept, keptBegun) ==
  /\ \E set \in 0..FieldCount(type) :
       Submit("check", CheckJob(type, set), CheckDeadline, kept, keptBegun)
  /\ request' = [request EXCEPT !.free = Free(kept)]

Conclude(ok, kept, keptBegun) ==
  IF ok /\ op.fn \in {"calibrate", "clear_calibration"}
    THEN /\ Submit("level", LevelJob, QueryDeadline, kept, keptBegun)
         /\ request' = [request EXCEPT !.free = Free(kept)]
    ELSE Idle(kept, keptBegun) /\ UNCHANGED request

\* Seeded fault: a failed check is submitted again.
AfterRetries(ok, kept, keptBegun) ==
  \/ /\ stage = "sample"
     /\ \/ ok /\ SubmitCheck(kept, keptBegun)
        \/ Idle(kept, keptBegun) /\ UNCHANGED request
     /\ UNCHANGED op
  \/ /\ stage = "exec"
     /\ op' = [op EXCEPT !.ok = ok]
     /\ IF TouchesCompensation THEN SubmitCheck(kept, keptBegun)
                               ELSE Conclude(ok, kept, keptBegun)
  \/ /\ stage = "check"
     /\ IF ~ok THEN SubmitCheck(kept, keptBegun)
        ELSE IF op.fn = "read" THEN Idle(kept, keptBegun) /\ UNCHANGED request
                               ELSE Conclude(op.ok, kept, keptBegun)
     /\ UNCHANGED op
  \/ stage = "level" /\ Idle(kept, keptBegun) /\ UNCHANGED <<op, request>>

\* What read() and call() do once submit() has returned.  A check is due after
\* some of the samples.
After(ok, kept, keptBegun) ==
  \/ /\ stage = "sample"
     /\ \/ ok /\ SubmitCheck(kept, keptBegun)
        \/ Idle(kept, keptBegun) /\ UNCHANGED request
     /\ UNCHANGED op
  \/ /\ stage = "exec"
     /\ op' = [op EXCEPT !.ok = ok]
     /\ IF TouchesCompensation THEN SubmitCheck(kept, keptBegun)
                               ELSE Conclude(ok, kept, keptBegun)
  \/ /\ stage = "check"
     /\ IF op.fn = "read" THEN Idle(kept, keptBegun) /\ UNCHANGED request
                          ELSE Conclude(op.ok, kept, keptBegun)
     /\ UNCHANGED op
  \/ stage = "level" /\ Idle(kept, keptBegun) /\ UNCHANGED <<op, request>>

\* submit() returns the status of its job.
Returns ==
  /\ stage # "idle" /\ queued = NoJob /\ running.pass = "done"
  /\ After(running.ok, NoJob, FALSE)
  /\ UNCHANGED <<type, left>>

\* submit() gives up.  A job that has begun runs on; one that has not is dropped.
GivesUp ==
  /\ stage # "idle" /\ patience = 0
  /\ \/ queued # NoJob /\ After(FALSE, running, begun)
     \/ /\ queued = NoJob /\ running.pass # "done"
        /\ IF begun THEN After(FALSE, running, TRUE) ELSE After(FALSE, NoJob, FALSE)
  /\ UNCHANGED <<type, left>>

Init ==
  /\ type \in Families
  /\ running = NoJob /\ queued = NoJob /\ begun = FALSE /\ left = 0
  /\ stage = "idle" /\ op = [fn |-> "read", ok |-> TRUE] /\ patience = 0
  /\ request = [elapsed |-> 0, quiet |-> FALSE, free |-> FALSE]

Worker == Begin \/ Send \/ ReadAnswer

Handler == Returns \/ GivesUp

Next == Worker \/ Elapse \/ Handler \/ Read \/ \E fn \in Functions : Call(fn)

Spec == Init /\ [][Next]_vars
-------------------------------------------------------------------------------
Passes == {"outputs", "reading", "level", "query", "resend", "requery", "send",
           "defaults", "command", "restore", "done"}

JobType == [fn : Functions \cup {"none", "sample", "level", "check"}, pass : Passes,
            todo : 0..3, later : 0..3, sent : BOOLEAN, rereads : 0..kPendingRereads,
            spent : Nat, ok : BOOLEAN]

TypeOK ==
  /\ type \in Families
  /\ running \in JobType /\ queued \in JobType
  /\ begun \in BOOLEAN /\ left \in Nat
  /\ stage \in {"idle", "sample", "exec", "check", "level"}
  /\ op \in [fn : Functions \cup {"read"}, ok : BOOLEAN]
  /\ patience \in Nat
  /\ request \in [elapsed : Nat, quiet : BOOLEAN, free : BOOLEAN]

\* A job that has the bus to itself misses its deadline only if the device kept
\* it waiting: its re-reads alone have used up the headroom.  So a job whose
\* commands are answered at the first read is never reported late, and neither
\* is a job of one command, however often it is read again.
LateHasCause ==
  /\ query_latency >= GenericWait
  /\ stage # "idle" /\ request.free /\ patience = 0 /\ running.pass # "done"
  => running.spent >= kResponseHeadroomMs

\* A request takes at most the deadlines of the submit()s it makes, whatever the
\* device does and whatever job is on the bus before it.
Allowed(fn) ==
  CASE fn = "read"              -> QueryDeadline + CheckDeadline
    [] fn = "set_compensation"  -> ExecDeadline(type, fn) + CheckDeadline
    [] fn = "calibrate"         -> ExecDeadline(type, fn) + QueryDeadline
                                     + (IF type = "Do" THEN CheckDeadline ELSE 0)
    [] fn = "clear_calibration" -> ExecDeadline(type, fn) + QueryDeadline
    [] OTHER                    -> ExecDeadline(type, fn)

RequestBounded == request.elapsed <= Allowed(op.fn)

\* A request that found the bus free, and whose device answered at the first
\* read and had lost nothing, ends within the runtime's call timeout, the read-
\* backs after it included.
QuietRequestInTime == request.quiet => request.elapsed <= CallTimeout
-------------------------------------------------------------------------------
(* A statement of the repository that the code does not keep.              *)

\* ezo_provider_runtime.cpp: "The deadline is at least the command's wait plus
\* the headroom, so a command the device runs is not reported as timed out".
RunCommandNotLate ==
  stage = "exec" /\ request.free /\ patience = 0 /\ left > 0 => running.pass = "done"
================================================================================
