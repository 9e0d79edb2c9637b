---------------------------- MODULE DeadlinesProofs ----------------------------
(***************************************************************************)
(* Proofs about Deadlines, for any waits of the commands and any settings  *)
(* of the configuration.                                                   *)
(***************************************************************************)
EXTENDS Deadlines, TLAPS
-------------------------------------------------------------------------------
(* The inductive invariant.                                                *)

\* The deadlines of the requests' submit()s up to and with the current one.
FirstDeadline == IF op.fn = "read" THEN QueryDeadline ELSE ExecDeadline(type, op.fn)

Within ==
  /\ stage = "idle" => patience = 0 /\ request.elapsed <= Allowed(op.fn)
  /\ stage \in {"sample", "exec"} => request.elapsed + patience <= FirstDeadline
  /\ stage = "check" => request.elapsed + patience <= FirstDeadline + CheckDeadline
  /\ stage = "level" => request.elapsed + patience <= Allowed(op.fn)

\* The request that the handler's place in the code belongs to.
Serves ==
  /\ stage = "sample" => op.fn = "read"
  /\ stage = "exec"   => op.fn \in Functions
  /\ stage = "check"  => op.fn = "read" \/ TouchesCompensation
  /\ stage = "level"  => op.fn \in {"calibrate", "clear_calibration"}

\* Passes of one command, and those of a reading, which is never read again.
JobOk(j) == /\ j.todo >= 1
            /\ j.pass \in {"outputs", "reading", "level", "command"} => j.todo = 1
            /\ j.pass \in {"outputs", "reading"} => j.spent = 0

\* The waits of the commands of job j after the current one, at most.
Rest(j) ==
  CASE j.pass = "outputs"  -> ReadWait[type]
    [] j.pass = "query"    -> Generic(j.todo - 1 + j.later + FieldCount(type))
    [] j.pass = "resend"   -> Generic(j.todo - 1 + FieldCount(type))
    [] j.pass = "defaults" -> Generic(j.todo - 1 + j.later) + CommandWait(type, j.fn)
    [] j.pass = "command"  -> Generic(j.later)
    [] j.pass \in {"requery", "send", "restore"} -> Generic(j.todo - 1)
    [] OTHER               -> 0

\* The same while nothing is sent again: the first value that is sent again may
\* yet be refused.
QuietRest(j) ==
  CASE j.pass = "query"  -> Generic(j.todo)
    [] j.pass = "resend" -> 0
    [] OTHER             -> Rest(j)

\* Time until the answer of the current command of j is read.
Waiting(j, l) == IF j.sent THEN l ELSE WaitOf(j)

\* The part of the deadline that no command of j needs.
Headroom(j) == IF j.pass \in {"outputs", "reading"} THEN 1 ELSE kResponseHeadroomMs

\* Job j, with l to go until its answer, has patience left for its commands and,
\* as long as the device does not keep it waiting, for the headroom.
Fits(j, l, p) == /\ JobOk(j)
                 /\ WaitsFit => p + j.spent >= Headroom(j) + Rest(j) + Waiting(j, l)

\* So has one that has the bus to itself.
Slack ==
  stage # "idle" /\ request.free =>
    /\ queued = NoJob
    /\ running.sent => running.pass # "done"
    /\ running.pass # "done" => Fits(running, left, patience)

\* The waits of the jobs that follow the one being waited for, when it is that
\* of stage s in a request for fn.
LaterOf(t, s, fn) ==
  CASE s = "sample" -> Generic(FieldCount(t) + 1)
    [] s = "exec" ->
         (IF fn = "set_compensation" \/ (fn = "calibrate" /\ t = "Do")
            THEN Generic(FieldCount(t) + 1) ELSE 0)
           + (IF fn \in {"calibrate", "clear_calibration"} THEN GenericWait ELSE 0)
    [] s = "check" -> IF fn = "calibrate" THEN GenericWait ELSE 0
    [] OTHER -> 0

\* What the current job still has to wait for then.
Cost(j, l) == IF j.pass = "done" THEN 0 ELSE QuietRest(j) + Waiting(j, l)

\* A request that nothing slowed down so far is within its waits.
Quick ==
  WaitsFit /\ request.quiet =>
    /\ stage # "idle" => request.free /\ running.spent = 0
    /\ request.elapsed + LaterOf(type, stage, op.fn)
         + (IF stage = "idle" THEN 0 ELSE Cost(running, left))
       <= QuietWaits(type, op.fn)

IInv == TypeOK /\ Within /\ Serves /\ Slack /\ Quick
-------------------------------------------------------------------------------
(* Types.                                                                  *)

\* The waits and the deadlines are times.
LEMMA Times ==
  ASSUME type \in Families
  PROVE  /\ GenericWait \in Nat \ {0} /\ timeout_ms \in Nat /\ query_latency \in Nat \ {0}
         /\ CalWait[type] \in Nat \ {0} /\ ReadWait[type] \in Nat \ {0} /\ type \in {"Ph", "Do"}
         /\ FieldCount(type) \in 1..3 /\ FieldCount(type) \in Nat
         /\ \A fn : CommandWait(type, fn) \in Nat \ {0}
         /\ \A fn : ExecDeadline(type, fn) \in Nat
         /\ QueryDeadline \in Nat /\ CheckDeadline \in Nat
<1>1. /\ GenericWait \in Nat \ {0} /\ timeout_ms \in Nat /\ query_latency \in Nat \ {0}
      /\ CalWait[type] \in Nat \ {0} /\ ReadWait[type] \in Nat \ {0} /\ type \in {"Ph", "Do"}
  BY DeadlinesAssumption DEF DeadlinesAssumption
<1>2. FieldCount(type) \in 1..3 /\ FieldCount(type) \in Nat
  BY DEF FieldCount
<1>3. \A fn : CommandWait(type, fn) \in Nat \ {0}
  BY <1>1 DEF CommandWait
<1>4. ASSUME NEW fn PROVE ExecDeadline(type, fn) \in Nat
  <2>1. CommandWait(type, fn) \in Nat
    BY <1>3
  <2>2. QED
    BY <1>1, <2>1 DEF ExecDeadline, AtLeast, kResponseHeadroomMs
<1>5. QueryDeadline \in Nat /\ CheckDeadline \in Nat
  BY <1>1 DEF QueryDeadline, CheckDeadline, AtLeast
<1>6. QED
  BY <1>1, <1>2, <1>3, <1>4, <1>5

\* The steps of a job keep its type.
LEMMA PassType ==
  ASSUME NEW j \in JobType, NEW p \in Passes, NEW n \in 0..3
  PROVE  Pass(j, p, n) \in JobType /\ \A b \in BOOLEAN : Done(j, b) \in JobType
<1>1. 0 \in 0..kPendingRereads /\ 0 \in 0..3 /\ "done" \in Passes
  BY DEF kPendingRereads, Passes
<1>2. ASSUME NEW b \in BOOLEAN PROVE Done(j, b) \in JobType
  BY <1>1 DEF Done, JobType
<1>3. CASE n = 0
  <2>1. j.ok \in BOOLEAN
    BY DEF JobType
  <2>2. QED
    BY <1>2, <1>3, <2>1 DEF Pass
<1>4. CASE n # 0
  <2>1. Pass(j, p, n) = [j EXCEPT !.pass = p, !.todo = n, !.sent = FALSE, !.rereads = 0]
    BY <1>4 DEF Pass
  <2>2. QED
    BY <1>1, <1>2, <2>1 DEF JobType
<1>5. QED
  BY <1>2, <1>3, <1>4

LEMMA JobTypes ==
  ASSUME type \in Families, NEW j \in JobType
  PROVE  /\ Follows(j) \subseteq JobType
         /\ FailsToSend(j) \in JobType /\ FailsToAnswer(j) \in JobType
         /\ WaitOf(j) \in Nat \ {0}
<1>1. j.later \in 0..3 /\ j.todo \in 0..3 /\ j.ok \in BOOLEAN /\ FieldCount(type) \in 0..3
  BY Times DEF JobType
<1>2. [j EXCEPT !.ok = FALSE] \in JobType
  BY DEF JobType
<1>3. FailsToSend(j) \in JobType /\ FailsToAnswer(j) \in JobType
  BY <1>1, <1>2, PassType DEF FailsToSend, FailsToAnswer, Passes
<1>4. j.todo > 1 => [j EXCEPT !.todo = @ - 1, !.sent = FALSE, !.rereads = 0] \in JobType
  <2>1. 0 \in 0..kPendingRereads /\ (j.todo > 1 => j.todo - 1 \in 0..3)
    BY <1>1 DEF kPendingRereads
  <2>2. QED
    BY <2>1 DEF JobType
<1>5. Follows(j) \subseteq JobType
  <2>1. CASE j.todo > 1
    BY <1>4, <2>1 DEF Follows
  <2>2. CASE ~(j.todo > 1)
    <3>1. \A i \in Follows(j) : \/ \E b \in BOOLEAN : i = Done(j, b)
                               \/ \E p \in Passes, n \in 0..3 : i = Pass(j, p, n)
      <4>1. 1 \in 0..3 /\ {"reading", "resend", "requery", "command", "restore"} \subseteq Passes
        BY DEF Passes
      <4>2. QED
        BY <1>1, <2>2, <4>1 DEF Follows
    <3>2. \A p \in Passes, n \in 0..3 : Pass(j, p, n) \in JobType
      BY PassType
    <3>3. \A b \in BOOLEAN : Done(j, b) \in JobType
      <4>1. "done" \in Passes /\ 0 \in 0..3
        BY DEF Passes
      <4>2. QED
        BY <4>1, PassType
    <3>4. QED
      BY <3>1, <3>2, <3>3
  <2>3. QED
    BY <2>1, <2>2
<1>6. WaitOf(j) \in Nat \ {0}
  BY Times DEF WaitOf
<1>7. QED
  BY <1>3, <1>5, <1>6

LEMMA NewJobTypes ==
  ASSUME type \in Families
  PROVE  /\ NoJob \in JobType /\ SampleJob(type) \in JobType /\ LevelJob \in JobType
         /\ \A set \in 0..FieldCount(type) : CheckJob(type, set) \in JobType
         /\ \A fn \in Functions, values \in 0..FieldCount(type) :
              CallJob(type, fn, values) \in JobType
<1>1. NoJob \in JobType
  BY DEF NoJob, JobType, Passes, kPendingRereads
<1>2. ASSUME NEW fn \in Functions \cup {"sample", "level", "check"}, NEW p \in Passes,
             NEW n \in 0..3, NEW m \in 0..3
      PROVE  Job(fn, p, n, m) \in JobType
  BY <1>1 DEF Job, NoJob, JobType, Passes, kPendingRereads
<1>3. FieldCount(type) \in 1..3
  BY Times
<1>4. SampleJob(type) \in JobType /\ LevelJob \in JobType
  BY <1>2 DEF SampleJob, LevelJob, Passes
<1>5. \A set \in 0..FieldCount(type) : CheckJob(type, set) \in JobType
  BY <1>2, <1>3 DEF CheckJob, Passes
<1>6. ASSUME NEW fn \in Functions, NEW values \in 0..FieldCount(type)
      PROVE  CallJob(type, fn, values) \in JobType
  <2>1. values \in 0..3
    BY <1>3
  <2>2. QED
    BY <1>2, <2>1 DEF CallJob, Passes
<1>7. QED
  BY <1>1, <1>4, <1>5, <1>6
-------------------------------------------------------------------------------
(* What the steps of a job cost.                                           *)

LEMMA GenericFacts ==
  /\ Generic(0) = 0 /\ Generic(1) = GenericWait
  /\ \A n \in Nat : Generic(n) \in Nat
  /\ \A m, n \in Nat : Generic(m + n) = Generic(m) + Generic(n)
<1>1. GenericWait \in Nat
  BY DeadlinesAssumption DEF DeadlinesAssumption
<1>2. Generic(0) = 0 /\ Generic(1) = GenericWait
  BY <1>1 DEF Generic
<1>3. ASSUME NEW n \in Nat PROVE Generic(n) \in Nat
  BY <1>1 DEF Generic
<1>4. ASSUME NEW m \in Nat, NEW n \in Nat PROVE Generic(m + n) = Generic(m) + Generic(n)
  BY <1>1 DEF Generic
<1>5. QED
  BY <1>2, <1>3, <1>4

\* A pass over n values costs n waits; the one before it has kept them in reserve.
LEMMA PassCost ==
  ASSUME type \in Families, NEW j \in JobType, j.pass # "done", JobOk(j), NEW n \in 0..3,
         NEW p \in {"resend", "requery", "restore"},
         NEW i, i = Pass(j, p, n), i.pass # "done"
  PROVE  /\ JobOk(i) /\ ~i.sent /\ i.spent = j.spent /\ i.pass = p /\ n > 0
         /\ Rest(i) + WaitOf(i) = Generic(n) + (IF p = "resend" THEN Generic(FieldCount(type)) ELSE 0)
         /\ p # "resend" => QuietRest(i) + WaitOf(i) = Generic(n)
         /\ p = "resend" => QuietRest(i) + WaitOf(i) = GenericWait
<1>1. n > 0 /\ i = [j EXCEPT !.pass = p, !.todo = n, !.sent = FALSE, !.rereads = 0]
  <2>1. CASE n = 0
    BY <2>1 DEF Pass, Done, JobType
  <2>2. CASE n # 0
    BY <2>2 DEF Pass
  <2>3. QED
    BY <2>1, <2>2
<1>2. i.pass = p /\ i.todo = n /\ ~i.sent /\ i.spent = j.spent
  BY <1>1 DEF JobType
<1>3. JobOk(i)
  BY <1>1, <1>2 DEF JobOk
<1>4. n - 1 \in Nat /\ Generic(n - 1) + GenericWait = Generic(n) /\ Generic(n - 1) \in Nat
      /\ GenericWait \in Nat /\ Generic(FieldCount(type)) \in Nat /\ FieldCount(type) \in Nat
      /\ Generic(n - 1 + FieldCount(type)) = Generic(n - 1) + Generic(FieldCount(type))
  <2>1. n - 1 \in Nat /\ n = (n - 1) + 1 /\ 1 \in Nat
    BY <1>1
  <2>2. GenericWait \in Nat /\ FieldCount(type) \in Nat
    BY Times
  <2>3. QED
    BY <2>1, <2>2, GenericFacts
<1>5. WaitOf(i) = GenericWait
  BY <1>2 DEF WaitOf
<1>6. CASE p = "resend"
  <2>1. Rest(i) = Generic(n - 1 + FieldCount(type)) /\ QuietRest(i) = 0
    BY <1>2, <1>6 DEF Rest, QuietRest
  <2>2. QED
    BY <1>1, <1>2, <1>3, <1>4, <1>5, <1>6, <2>1
<1>7. CASE p \in {"requery", "restore"}
  <2>1. Rest(i) = Generic(n - 1) /\ QuietRest(i) = Generic(n - 1)
    BY <1>2, <1>7 DEF Rest, QuietRest
  <2>2. QED
    BY <1>1, <1>2, <1>3, <1>4, <1>5, <1>7, <2>1
<1>8. QED
  BY <1>6, <1>7

\* Job i can follow j within what j had in reserve.
Onward(j, i, rest, quietRest) ==
  i.pass # "done" =>
    /\ JobOk(i) /\ ~i.sent /\ i.spent = j.spent /\ Headroom(i) = Headroom(j)
    /\ Rest(i) + WaitOf(i) <= rest
    /\ QuietRest(i) + WaitOf(i) <= quietRest

LEMMA RestTypes ==
  ASSUME type \in Families, NEW j \in JobType, JobOk(j)
  PROVE  /\ Rest(j) \in Nat /\ QuietRest(j) \in Nat /\ WaitOf(j) \in Nat /\ j.spent \in Nat
         /\ Headroom(j) \in Nat \ {0}
<1>1. j.todo - 1 \in Nat /\ j.todo \in Nat /\ j.later \in Nat /\ FieldCount(type) \in Nat
  BY Times DEF JobOk, JobType
<1>2. /\ Generic(j.todo - 1 + j.later + FieldCount(type)) \in Nat /\ Generic(j.todo) \in Nat
      /\ Generic(j.todo - 1 + FieldCount(type)) \in Nat /\ Generic(j.todo - 1 + j.later) \in Nat
      /\ Generic(j.later) \in Nat /\ Generic(j.todo - 1) \in Nat
  <2>1. /\ j.todo - 1 + j.later + FieldCount(type) \in Nat
        /\ j.todo - 1 + FieldCount(type) \in Nat /\ j.todo - 1 + j.later \in Nat
    BY <1>1
  <2>2. QED
    BY <1>1, <2>1, GenericFacts
<1>3. CommandWait(type, j.fn) \in Nat /\ ReadWait[type] \in Nat
  BY Times
<1>4. Rest(j) \in Nat
  BY <1>2, <1>3 DEF Rest
<1>5. QuietRest(j) \in Nat
  BY <1>2, <1>4 DEF QuietRest
<1>6. WaitOf(j) \in Nat
  BY JobTypes
<1>7. j.spent \in Nat /\ Headroom(j) \in Nat \ {0}
  BY DEF JobType, Headroom, kResponseHeadroomMs
<1>8. QED
  BY <1>4, <1>5, <1>6, <1>7

\* The next command of the same pass.
LEMMA NextCommandCost ==
  ASSUME type \in Families, NEW j \in JobType, j.pass # "done", JobOk(j), j.todo > 1,
         NEW i, i = [j EXCEPT !.todo = @ - 1, !.sent = FALSE, !.rereads = 0]
  PROVE  /\ j.pass # "resend" => Onward(j, i, Rest(j), QuietRest(j))
         /\ i.pass # "done" /\ JobOk(i) /\ ~i.sent /\ i.spent = j.spent /\ Headroom(i) = Headroom(j)
         /\ Rest(i) + WaitOf(i) <= Rest(j)
<1>1. /\ i.pass = j.pass /\ i.todo = j.todo - 1 /\ ~i.sent /\ i.spent = j.spent
      /\ i.later = j.later /\ i.fn = j.fn
  BY DEF JobType
<1>2. JobOk(i) /\ Headroom(i) = Headroom(j)
  BY <1>1 DEF JobOk, Headroom, JobType
<1>3. j.pass \in {"query", "resend", "requery", "send", "defaults", "restore"}
  BY DEF JobOk, JobType, Passes
<1>4. WaitOf(i) = GenericWait
  BY <1>1, <1>3 DEF WaitOf
<1>5. PICK n \in Nat : j.todo = n + 2
  <2>1. j.todo - 2 \in Nat /\ j.todo = (j.todo - 2) + 2
    BY DEF JobType
  <2>2. QED
    BY <2>1
<1>6. i.todo = n + 1 /\ i.todo - 1 = n /\ j.todo - 1 = n + 1
  BY <1>1, <1>5
<1>7. GenericWait \in Nat /\ FieldCount(type) \in Nat /\ j.later \in Nat
      /\ CommandWait(type, j.fn) \in Nat
  BY Times DEF JobType
<1>8. ASSUME NEW m \in Nat
      PROVE  Generic(n + 1 + m) = Generic(n + m) + GenericWait /\ Generic(n + m) \in Nat
  <2>1. n + m \in Nat /\ n + 1 + m = (n + m) + 1 /\ 1 \in Nat
    OBVIOUS
  <2>2. QED
    BY <2>1, GenericFacts
<1>9. CASE j.pass = "query"
  <2>1. /\ Rest(j) = Generic(n + 1 + j.later + FieldCount(type))
        /\ Rest(i) = Generic(n + j.later + FieldCount(type))
        /\ QuietRest(j) = Generic(n + 2) /\ QuietRest(i) = Generic(n + 1)
    BY <1>1, <1>5, <1>6, <1>9 DEF Rest, QuietRest
  <2>2. PICK m \in Nat : m = j.later + FieldCount(type)
    BY <1>7
  <2>3. n + 1 + j.later + FieldCount(type) = n + 1 + m /\ n + j.later + FieldCount(type) = n + m
    BY <1>7, <2>2
  <2>4. Generic(n + 2) = Generic(n + 1) + GenericWait /\ Generic(n + 1) \in Nat
    <3>1. n + 2 = n + 1 + 1
      OBVIOUS
    <3>2. QED
      BY <1>8, <3>1
  <2>5. Rest(i) + WaitOf(i) <= Rest(j) /\ QuietRest(i) + WaitOf(i) <= QuietRest(j)
    BY <1>4, <1>7, <1>8, <2>1, <2>3, <2>4
  <2>6. QED
    BY <1>1, <1>2, <1>9, <2>5 DEF Onward
<1>10. CASE j.pass = "resend"
  <2>1. /\ Rest(j) = Generic(n + 1 + FieldCount(type)) /\ Rest(i) = Generic(n + FieldCount(type))
    BY <1>1, <1>6, <1>10 DEF Rest
  <2>2. QED
    BY <1>1, <1>2, <1>4, <1>7, <1>8, <1>10, <2>1
<1>11. CASE j.pass = "defaults"
  <2>1. /\ Rest(j) = Generic(n + 1 + j.later) + CommandWait(type, j.fn)
        /\ Rest(i) = Generic(n + j.later) + CommandWait(type, j.fn)
        /\ QuietRest(j) = Rest(j) /\ QuietRest(i) = Rest(i)
    BY <1>1, <1>6, <1>11 DEF Rest, QuietRest
  <2>2. Rest(i) + WaitOf(i) <= Rest(j)
    BY <1>4, <1>7, <1>8, <2>1
  <2>3. QED
    BY <1>1, <1>2, <1>11, <2>1, <2>2 DEF Onward
<1>12. CASE j.pass \in {"requery", "send", "restore"}
  <2>1. /\ Rest(j) = Generic(n + 1) /\ Rest(i) = Generic(n)
        /\ QuietRest(j) = Rest(j) /\ QuietRest(i) = Rest(i)
    BY <1>1, <1>6, <1>12 DEF Rest, QuietRest
  <2>2. Generic(n + 1) = Generic(n) + GenericWait /\ Generic(n) \in Nat
    BY GenericFacts
  <2>3. Rest(i) + WaitOf(i) <= Rest(j)
    BY <1>4, <1>7, <2>1, <2>2
  <2>4. QED
    BY <1>1, <1>2, <1>12, <2>1, <2>3 DEF Onward
<1>13. QED
  BY <1>3, <1>9, <1>10, <1>11, <1>12

\* A command that went through.
LEMMA FollowsCost ==
  ASSUME type \in Families, NEW j \in JobType, j.pass # "done", JobOk(j), NEW i \in Follows(j)
  PROVE  IF j.pass = "resend"
           THEN i.pass # "done" => /\ JobOk(i) /\ ~i.sent /\ i.spent = j.spent
                                   /\ Headroom(i) = Headroom(j) /\ Rest(i) + WaitOf(i) <= Rest(j)
           ELSE Onward(j, i, Rest(j), QuietRest(j))
<1>1. CASE j.todo > 1
  <2>1. i = [j EXCEPT !.todo = @ - 1, !.sent = FALSE, !.rereads = 0]
    BY <1>1 DEF Follows
  <2>2. QED
    BY <1>1, <2>1, NextCommandCost
<1>2. CASE ~(j.todo > 1)
  <2>0. /\ j.todo = 1 /\ j.later \in 0..3 /\ j.later \in Nat /\ j.spent \in Nat
        /\ FieldCount(type) \in 0..3 /\ FieldCount(type) \in Nat
        /\ GenericWait \in Nat /\ CommandWait(type, j.fn) \in Nat /\ ReadWait[type] \in Nat
    BY <1>2, Times DEF JobOk, JobType
  <2>1. CASE i.pass = "done"
    BY <2>1 DEF Onward
  <2>2. CASE i.pass # "done" /\ j.pass = "outputs"
    <3>1. i = [j EXCEPT !.pass = "reading", !.todo = 1, !.sent = FALSE, !.rereads = 0]
      BY <1>2, <2>2 DEF Follows, Pass
    <3>2. i.pass = "reading" /\ i.todo = 1 /\ ~i.sent /\ i.spent = j.spent
      BY <3>1 DEF JobType
    <3>3. JobOk(i) /\ Headroom(i) = Headroom(j)
      BY <2>2, <3>2 DEF JobOk, Headroom
    <3>4. /\ Rest(i) = 0 /\ QuietRest(i) = 0 /\ WaitOf(i) = ReadWait[type]
          /\ Rest(j) = ReadWait[type] /\ QuietRest(j) = ReadWait[type]
      BY <2>2, <3>2 DEF Rest, QuietRest, WaitOf
    <3>5. QED
      BY <2>0, <2>2, <3>2, <3>3, <3>4 DEF Onward
  <2>3. CASE i.pass # "done" /\ j.pass = "query"
    <3>1. i = Pass(j, "resend", j.later)
      BY <1>2, <2>3 DEF Follows, Done, JobType
    <3>2. /\ JobOk(i) /\ ~i.sent /\ i.spent = j.spent /\ i.pass = "resend"
          /\ Rest(i) + WaitOf(i) = Generic(j.later) + Generic(FieldCount(type))
          /\ QuietRest(i) + WaitOf(i) = GenericWait
      BY <2>0, <2>3, <3>1, PassCost
    <3>3. /\ Rest(j) = Generic(j.todo - 1 + j.later + FieldCount(type))
          /\ QuietRest(j) = Generic(1)
      BY <2>0, <2>3 DEF Rest, QuietRest
    <3>4. j.todo - 1 + j.later + FieldCount(type) = j.later + FieldCount(type)
      BY <2>0
    <3>5. /\ Rest(j) = Generic(j.later) + Generic(FieldCount(type)) /\ QuietRest(j) = GenericWait
          /\ Rest(j) \in Nat
      BY <2>0, <3>3, <3>4, GenericFacts, RestTypes
    <3>6. Headroom(i) = Headroom(j)
      BY <2>3, <3>2 DEF Headroom
    <3>7. QED
      BY <2>0, <2>3, <3>2, <3>5, <3>6 DEF Onward
  <2>4. CASE i.pass # "done" /\ j.pass = "resend"
    <3>1. i = Pass(j, "requery", FieldCount(type))
      BY <1>2, <2>4 DEF Follows
    <3>2. /\ JobOk(i) /\ ~i.sent /\ i.spent = j.spent /\ i.pass = "requery"
          /\ Rest(i) + WaitOf(i) = Generic(FieldCount(type)) + 0
      BY <2>0, <2>4, <3>1, PassCost
    <3>3. Rest(j) = Generic(j.todo - 1 + FieldCount(type))
      BY <2>4 DEF Rest
    <3>4. j.todo - 1 + FieldCount(type) = FieldCount(type) /\ Generic(FieldCount(type)) \in Nat
      BY <2>0, GenericFacts
    <3>5. Headroom(i) = Headroom(j)
      BY <2>4, <3>2 DEF Headroom
    <3>6. QED
      BY <2>4, <3>2, <3>3, <3>4, <3>5
  <2>5. CASE i.pass # "done" /\ j.pass = "defaults"
    <3>1. i = [j EXCEPT !.pass = "command", !.todo = 1, !.sent = FALSE, !.rereads = 0]
      BY <1>2, <2>5 DEF Follows, Pass
    <3>2. /\ i.pass = "command" /\ i.todo = 1 /\ ~i.sent /\ i.spent = j.spent
          /\ i.later = j.later /\ i.fn = j.fn
      BY <3>1 DEF JobType
    <3>3. JobOk(i) /\ Headroom(i) = Headroom(j)
      BY <2>5, <3>2 DEF JobOk, Headroom
    <3>4. /\ Rest(i) = Generic(j.later) /\ QuietRest(i) = Rest(i)
          /\ WaitOf(i) = CommandWait(type, j.fn)
          /\ Rest(j) = Generic(j.todo - 1 + j.later) + CommandWait(type, j.fn)
          /\ QuietRest(j) = Rest(j)
      BY <2>5, <3>2 DEF Rest, QuietRest, WaitOf
    <3>5. Generic(j.later) \in Nat
      BY <2>0, GenericFacts
    <3>6. j.todo - 1 + j.later = j.later
      BY <2>0
    <3>7. QED
      BY <2>0, <2>5, <3>2, <3>3, <3>4, <3>5, <3>6 DEF Onward
  <2>6. CASE i.pass # "done" /\ j.pass = "command"
    <3>1. i = Pass(j, "restore", j.later)
      BY <1>2, <2>6 DEF Follows
    <3>2. /\ JobOk(i) /\ ~i.sent /\ i.spent = j.spent /\ i.pass = "restore"
          /\ Rest(i) + WaitOf(i) = Generic(j.later) + 0
          /\ QuietRest(i) + WaitOf(i) = Generic(j.later)
      BY <2>0, <2>6, <3>1, PassCost
    <3>3. Rest(j) = Generic(j.later) /\ QuietRest(j) = Rest(j) /\ Generic(j.later) \in Nat
      BY <2>0, <2>6, GenericFacts DEF Rest, QuietRest
    <3>4. Headroom(i) = Headroom(j)
      BY <2>6, <3>2 DEF Headroom
    <3>5. QED
      BY <2>6, <3>2, <3>3, <3>4 DEF Onward
  <2>7. CASE j.pass \notin {"outputs", "query", "resend", "defaults", "command"}
    <3>1. i = Done(j, j.ok)
      BY <1>2, <2>7 DEF Follows
    <3>2. i.pass = "done"
      BY <3>1 DEF Done, JobType
    <3>3. QED
      BY <2>7, <3>2 DEF Onward
  <2>8. QED
    BY <2>1, <2>2, <2>3, <2>4, <2>5, <2>6, <2>7
<1>3. QED
  BY <1>1, <1>2

\* A command that could not be sent, or whose answer is an error.
LEMMA FailsCost ==
  ASSUME type \in Families, NEW j \in JobType, j.pass # "done", JobOk(j)
  PROVE  /\ Onward(j, FailsToSend(j), Rest(j) + WaitOf(j), QuietRest(j) + WaitOf(j))
         /\ Onward(j, FailsToAnswer(j), Rest(j), QuietRest(j))
<1>1. /\ j.later \in 0..3 /\ j.later \in Nat /\ j.todo - 1 \in Nat /\ j.spent \in Nat
      /\ CommandWait(type, j.fn) \in Nat
      /\ Rest(j) \in Nat /\ QuietRest(j) \in Nat /\ WaitOf(j) \in Nat
  BY Times, RestTypes DEF JobOk, JobType
<1>2. PICK g : g = [j EXCEPT !.ok = FALSE]
  OBVIOUS
<1>3. /\ g \in JobType /\ g.pass = j.pass /\ g.todo = j.todo /\ g.later = j.later
      /\ g.spent = j.spent /\ JobOk(g)
  BY <1>2 DEF JobType, JobOk
<1>4. ASSUME j.pass \in {"defaults", "command"}
      PROVE  Onward(j, Pass(g, "restore", j.later), Rest(j), QuietRest(j))
  <2>1. PICK i : i = Pass(g, "restore", j.later)
    OBVIOUS
  <2> SUFFICES ASSUME i.pass # "done"
               PROVE  Onward(j, i, Rest(j), QuietRest(j))
    BY <2>1 DEF Onward
  <2>2. /\ JobOk(i) /\ ~i.sent /\ i.spent = j.spent /\ i.pass = "restore"
        /\ Rest(i) + WaitOf(i) = Generic(j.later) + 0
        /\ QuietRest(i) + WaitOf(i) = Generic(j.later)
    BY <1>1, <1>3, <1>4, <2>1, PassCost
  <2>3. Generic(j.later) \in Nat /\ Generic(j.later) <= Rest(j) /\ QuietRest(j) = Rest(j)
    <3>1. CASE j.pass = "command"
      BY <1>1, <3>1, GenericFacts DEF Rest, QuietRest
    <3>2. CASE j.pass = "defaults"
      <4>1. /\ Rest(j) = Generic(j.todo - 1 + j.later) + CommandWait(type, j.fn)
            /\ QuietRest(j) = Rest(j)
        BY <3>2 DEF Rest, QuietRest
      <4>2. /\ Generic(j.todo - 1 + j.later) = Generic(j.todo - 1) + Generic(j.later)
            /\ Generic(j.todo - 1) \in Nat /\ Generic(j.later) \in Nat
        BY <1>1, GenericFacts
      <4>3. QED
        BY <1>1, <4>1, <4>2
    <3>3. QED
      BY <1>4, <3>1, <3>2
  <2>4. Headroom(i) = Headroom(j)
    BY <1>4, <2>2 DEF Headroom
  <2>5. QED
    BY <1>1, <2>2, <2>3, <2>4 DEF Onward
<1>6. \A b \in BOOLEAN : Done(j, b).pass = "done"
  BY DEF Done, JobType
<1>7. j.ok \in BOOLEAN
  BY DEF JobType
<1>8. ASSUME NEW i \in JobType, Onward(j, i, Rest(j), QuietRest(j))
      PROVE  Onward(j, i, Rest(j) + WaitOf(j), QuietRest(j) + WaitOf(j))
  <2> SUFFICES ASSUME i.pass # "done"
               PROVE  Onward(j, i, Rest(j) + WaitOf(j), QuietRest(j) + WaitOf(j))
    BY DEF Onward
  <2>1. /\ JobOk(i) /\ ~i.sent /\ i.spent = j.spent /\ Headroom(i) = Headroom(j)
        /\ Rest(i) + WaitOf(i) <= Rest(j) /\ QuietRest(i) + WaitOf(i) <= QuietRest(j)
    BY <1>8 DEF Onward
  <2>2. Rest(i) \in Nat /\ QuietRest(i) \in Nat /\ WaitOf(i) \in Nat
    BY <2>1, RestTypes
  <2>3. QED
    BY <1>1, <2>1, <2>2 DEF Onward
<1>9. Pass(g, "restore", j.later) \in JobType
  <2>1. "restore" \in Passes
    BY DEF Passes
  <2>2. QED
    BY <1>1, <1>3, <2>1, PassType
<1>10. FailsToSend(j).pass # "done" =>
         j.pass = "defaults" /\ FailsToSend(j) = Pass(g, "restore", j.later)
  BY <1>2, <1>6, <1>7 DEF FailsToSend
<1>11. FailsToAnswer(j).pass # "done" =>
         j.pass \in {"defaults", "command"} /\ FailsToAnswer(j) = Pass(g, "restore", j.later)
  BY <1>2, <1>10 DEF FailsToAnswer
<1>12. Onward(j, FailsToAnswer(j), Rest(j), QuietRest(j))
  <2>1. CASE FailsToAnswer(j).pass = "done"
    BY <2>1 DEF Onward
  <2>2. CASE FailsToAnswer(j).pass # "done"
    BY <1>4, <1>11, <2>2
  <2>3. QED
    BY <2>1, <2>2
<1>13. Onward(j, FailsToSend(j), Rest(j) + WaitOf(j), QuietRest(j) + WaitOf(j))
  <2>1. CASE FailsToSend(j).pass = "done"
    BY <2>1 DEF Onward
  <2>2. CASE FailsToSend(j).pass # "done"
    BY <1>4, <1>8, <1>9, <1>10, <2>2
  <2>3. QED
    BY <2>1, <2>2
<1>14. QED
  BY <1>12, <1>13

-------------------------------------------------------------------------------
(* The jobs that are submitted.                                            *)

\* Job j, just made, fits into its deadline and needs at most `quiet' when nothing
\* slows it down.
Fresh(j, deadline, quiet) ==
  /\ j.pass # "done" /\ ~j.sent /\ j.spent = 0 /\ JobOk(j)
  /\ WaitsFit => deadline >= Headroom(j) + Rest(j) + WaitOf(j)
  /\ QuietRest(j) + WaitOf(j) <= quiet

LEMMA JobFields ==
  ASSUME NEW fn, NEW p, NEW n, NEW m, NEW j, j = Job(fn, p, n, m)
  PROVE  j.fn = fn /\ j.pass = p /\ j.todo = n /\ j.later = m /\ ~j.sent /\ j.spent = 0
BY DEF Job, NoJob

LEMMA FreshLevel ==
  ASSUME type \in Families
  PROVE  Fresh(LevelJob, QueryDeadline, GenericWait)
<1>1. PICK j : j = LevelJob
  OBVIOUS
<1>2. j.pass = "level" /\ j.todo = 1 /\ ~j.sent /\ j.spent = 0
  BY <1>1, JobFields DEF LevelJob
<1>3. JobOk(j) /\ Headroom(j) = 1500 /\ Rest(j) = 0 /\ QuietRest(j) = 0 /\ WaitOf(j) = GenericWait
  BY <1>2 DEF JobOk, Headroom, Rest, QuietRest, WaitOf, kResponseHeadroomMs
<1>4. GenericWait \in Nat /\ query_latency \in Nat /\ timeout_ms \in Nat
  BY Times
<1>5. WaitsFit => QueryDeadline >= 1500 + GenericWait
  BY <1>4 DEF WaitsFit, QueryDeadline, AtLeast
<1>6. QED
  BY <1>1, <1>2, <1>3, <1>4, <1>5 DEF Fresh

LEMMA FreshSample ==
  ASSUME type \in Families
  PROVE  Fresh(SampleJob(type), QueryDeadline,
               (IF type = "Do" THEN GenericWait ELSE 0) + ReadWait[type])
<1>1. PICK j : j = SampleJob(type)
  OBVIOUS
<1>2. GenericWait \in Nat /\ query_latency \in Nat /\ timeout_ms \in Nat /\ ReadWait[type] \in Nat
  BY Times
<1>3. WaitsFit => QueryDeadline >= 1 + GenericWait + ReadWait[type]
  BY <1>2 DEF WaitsFit, QueryDeadline, AtLeast
<1>4. CASE type = "Do"
  <2>1. j.pass = "outputs" /\ j.todo = 1 /\ ~j.sent /\ j.spent = 0
    BY <1>1, <1>4, JobFields DEF SampleJob
  <2>2. /\ JobOk(j) /\ Headroom(j) = 1 /\ Rest(j) = ReadWait[type]
        /\ QuietRest(j) = ReadWait[type] /\ WaitOf(j) = GenericWait
    BY <2>1 DEF JobOk, Headroom, Rest, QuietRest, WaitOf
  <2>3. QED
    BY <1>1, <1>2, <1>3, <1>4, <2>1, <2>2 DEF Fresh
<1>5. CASE type # "Do"
  <2>1. j.pass = "reading" /\ j.todo = 1 /\ ~j.sent /\ j.spent = 0
    BY <1>1, <1>5, JobFields DEF SampleJob
  <2>2. /\ JobOk(j) /\ Headroom(j) = 1 /\ Rest(j) = 0
        /\ QuietRest(j) = 0 /\ WaitOf(j) = ReadWait[type]
    BY <2>1 DEF JobOk, Headroom, Rest, QuietRest, WaitOf
  <2>3. WaitsFit => QueryDeadline >= Headroom(j) + Rest(j) + WaitOf(j)
    <3>1. QueryDeadline \in Nat
      BY Times
    <3>2. QED
      BY <1>2, <1>3, <2>2, <3>1
  <2>4. (IF type = "Do" THEN GenericWait ELSE 0) + ReadWait[type] = ReadWait[type]
    BY <1>2, <1>5
  <2>5. QED
    BY <1>1, <1>2, <2>1, <2>2, <2>3, <2>4 DEF Fresh
<1>6. QED
  BY <1>4, <1>5

LEMMA FreshCheck ==
  ASSUME type \in Families, NEW set \in 0..FieldCount(type)
  PROVE  Fresh(CheckJob(type, set), CheckDeadline, Generic(FieldCount(type) + 1))
<1>1. PICK j : j = CheckJob(type, set)
  OBVIOUS
<1>2. PICK f \in 1..3 : f = FieldCount(type)
  BY Times
<1>3. j.pass = "query" /\ j.todo = f /\ j.later = set /\ ~j.sent /\ j.spent = 0
  BY <1>1, <1>2, JobFields DEF CheckJob
<1>4. /\ JobOk(j) /\ Headroom(j) = 1500 /\ Rest(j) = Generic(f - 1 + set + f)
      /\ QuietRest(j) = Generic(f) /\ WaitOf(j) = GenericWait
  BY <1>2, <1>3 DEF JobOk, Headroom, Rest, QuietRest, WaitOf, kResponseHeadroomMs
<1>5. GenericWait \in Nat /\ query_latency \in Nat /\ timeout_ms \in Nat
  BY Times
<1>6. f \in Nat /\ set \in Nat /\ f - 1 + set + f \in Nat /\ 1 \in Nat
  BY <1>2
<1>7. QuietRest(j) + WaitOf(j) = Generic(f + 1) /\ Generic(f + 1) \in Nat
  BY <1>4, <1>6, GenericFacts
<1>8. WaitsFit => CheckDeadline >= 1500 + Rest(j) + GenericWait
  <2>1. PICK n \in 0..8 : n = f - 1 + set + f
    BY <1>2
  <2>2. Rest(j) = n * GenericWait
    BY <1>4, <2>1 DEF Generic
  <2>3. n \in 0..8 => n * GenericWait + GenericWait <= 9 * GenericWait
    BY <1>5
  <2>4. WaitsFit => 9 * GenericWait <= 9 * query_latency
    BY <1>5 DEF WaitsFit
  <2>5. CheckDeadline >= 9 * query_latency + 1500
    BY <1>5 DEF CheckDeadline, AtLeast
  <2>6. CheckDeadline \in Nat /\ Rest(j) \in Nat
    BY <1>4, <1>6, GenericFacts, Times
  <2>7. QED
    BY <1>5, <2>2, <2>3, <2>4, <2>5, <2>6
<1>9. QED
  BY <1>1, <1>2, <1>3, <1>4, <1>7, <1>8 DEF Fresh

\* The waits of a call's own job.
QuietCall(t, fn) ==
  CASE fn = "set_compensation" -> Generic(FieldCount(t))
    [] fn = "calibrate" -> CalWait[t] + (IF t = "Do" THEN Generic(6) ELSE 0)
    [] OTHER -> GenericWait

\* How many values a call may send.
Values(t, fn) == IF fn = "set_compensation" THEN 1..FieldCount(t)
                 ELSE IF fn = "calibrate" THEN 0..FieldCount(t) ELSE {0}

LEMMA FreshCall ==
  ASSUME type \in Families, NEW fn \in Functions, NEW values \in Values(type, fn)
  PROVE  Fresh(CallJob(type, fn, values), ExecDeadline(type, fn), QuietCall(type, fn))
<1>1. PICK j : j = CallJob(type, fn, values)
  OBVIOUS
<1>2. /\ GenericWait \in Nat /\ timeout_ms \in Nat /\ CalWait[type] \in Nat
      /\ CommandWait(type, fn) \in Nat /\ ExecDeadline(type, fn) \in Nat
      /\ FieldCount(type) \in 1..3
  BY Times
<1>3. CASE fn = "set_compensation"
  <2>1. PICK v \in 1..3 : v = values /\ v <= FieldCount(type)
    BY <1>2, <1>3 DEF Values
  <2>2. j.pass = "send" /\ j.todo = v /\ ~j.sent /\ j.spent = 0
    BY <1>1, <1>3, <2>1, JobFields DEF CallJob
  <2>3. /\ JobOk(j) /\ Headroom(j) = 1500 /\ Rest(j) = (v - 1) * GenericWait
        /\ QuietRest(j) = (v - 1) * GenericWait /\ WaitOf(j) = GenericWait
    BY <2>1, <2>2 DEF JobOk, Headroom, Rest, QuietRest, WaitOf, kResponseHeadroomMs, Generic
  <2>4. ExecDeadline(type, fn) >= 1500 + 3 * GenericWait
    BY <1>2, <1>3 DEF ExecDeadline, CommandWait, AtLeast, kResponseHeadroomMs
  <2>5. (v - 1) * GenericWait \in Nat /\ (v - 1) * GenericWait + GenericWait <= 3 * GenericWait
    BY <1>2, <2>1
  <2>6. (v - 1) * GenericWait + GenericWait <= Generic(FieldCount(type))
    <3>1. \A f \in 1..3 : v <= f => (v - 1) * GenericWait + GenericWait <= f * GenericWait
      BY <1>2, <2>1
    <3>2. QED
      BY <1>2, <2>1, <3>1 DEF Generic
  <2>7. QuietRest(j) + WaitOf(j) <= QuietCall(type, fn)
    BY <1>3, <2>3, <2>6 DEF QuietCall
  <2>8. ExecDeadline(type, fn) >= Headroom(j) + Rest(j) + WaitOf(j)
    BY <1>2, <2>3, <2>4, <2>5
  <2>9. QED
    BY <1>1, <2>2, <2>3, <2>7, <2>8 DEF Fresh
<1>4. CASE fn = "calibrate" /\ type = "Do"
  <2>1. PICK v \in 0..3 : v = values
    BY <1>4 DEF Values, FieldCount
  <2>2. j.fn = fn /\ j.pass = "defaults" /\ j.todo = 3 /\ j.later = v /\ ~j.sent /\ j.spent = 0
    BY <1>1, <1>4, <2>1, JobFields DEF CallJob
  <2>3. CommandWait(type, fn) = CalWait[type]
    BY <1>4 DEF CommandWait
  <2>4. /\ JobOk(j) /\ Headroom(j) = 1500 /\ Rest(j) = (2 + v) * GenericWait + CalWait[type]
        /\ QuietRest(j) = (2 + v) * GenericWait + CalWait[type] /\ WaitOf(j) = GenericWait
    BY <2>1, <2>2, <2>3 DEF JobOk, Headroom, Rest, QuietRest, WaitOf, kResponseHeadroomMs, Generic
  <2>5. ExecDeadline(type, fn) >= CalWait[type] + 1500 + 6 * GenericWait
    BY <1>2, <1>4, <2>3 DEF ExecDeadline, AtLeast, kResponseHeadroomMs
  <2>6. (2 + v) * GenericWait \in Nat /\ (2 + v) * GenericWait + GenericWait <= 6 * GenericWait
    BY <1>2, <2>1
  <2>7. QuietRest(j) + WaitOf(j) <= QuietCall(type, fn)
    BY <1>2, <1>4, <2>4, <2>6 DEF QuietCall, Generic
  <2>8. ExecDeadline(type, fn) >= Headroom(j) + Rest(j) + WaitOf(j)
    BY <1>2, <2>4, <2>5, <2>6
  <2>9. QED
    BY <1>1, <2>2, <2>4, <2>7, <2>8 DEF Fresh
<1>5. CASE fn # "set_compensation" /\ ~(fn = "calibrate" /\ type = "Do")
  <2>1. j.fn = fn /\ j.pass = "command" /\ j.todo = 1 /\ j.later = 0 /\ ~j.sent /\ j.spent = 0
    BY <1>1, <1>5, JobFields DEF CallJob
  <2>2. Generic(0) = 0
    BY GenericFacts
  <2>3. /\ JobOk(j) /\ Headroom(j) = 1500 /\ Rest(j) = 0 /\ QuietRest(j) = 0
        /\ WaitOf(j) = CommandWait(type, fn)
    BY <2>1, <2>2 DEF JobOk, Headroom, Rest, QuietRest, WaitOf, kResponseHeadroomMs
  <2>4. ExecDeadline(type, fn) >= CommandWait(type, fn) + 1500
    BY <1>2, <1>5 DEF ExecDeadline, AtLeast, kResponseHeadroomMs
  <2>5. CommandWait(type, fn) <= QuietCall(type, fn)
    BY <1>2, <1>5 DEF CommandWait, QuietCall
  <2>6. QED
    BY <1>1, <1>2, <2>1, <2>3, <2>4, <2>5 DEF Fresh
<1>6. QED
  BY <1>3, <1>4, <1>5

\* The waits of a request are those of its own job and of the jobs after it.
LEMMA QuietSums ==
  ASSUME type \in Families
  PROVE  /\ \A fn \in Functions :
              QuietCall(type, fn) + LaterOf(type, "exec", fn) = QuietWaits(type, fn)
         /\ (IF type = "Do" THEN GenericWait ELSE 0) + ReadWait[type]
              + LaterOf(type, "sample", "read") = QuietWaits(type, "read")
         /\ \A s, fn : LaterOf(type, s, fn) \in Nat
         /\ \A fn : QuietWaits(type, fn) \in Nat
<1>1. /\ GenericWait \in Nat /\ CalWait[type] \in Nat /\ ReadWait[type] \in Nat
      /\ FieldCount(type) \in Nat
  BY Times
<1>2. PICK a \in Nat : a = Generic(FieldCount(type))
  BY <1>1, GenericFacts
<1>3. PICK b \in Nat : b = Generic(FieldCount(type) + 1)
  BY <1>1, GenericFacts
<1>4. PICK c \in Nat : c = Generic(6)
  BY GenericFacts
<1>5. Generic(2) = GenericWait + GenericWait
  BY <1>1 DEF Generic
<1>6. ASSUME NEW fn \in Functions
      PROVE  QuietCall(type, fn) + LaterOf(type, "exec", fn) = QuietWaits(type, fn)
  <2>1. CASE fn = "set_compensation"
    BY <1>1, <1>2, <1>3, <2>1 DEF QuietCall, LaterOf, QuietWaits
  <2>2. CASE fn = "calibrate"
    <3>1. CASE type = "Do"
      BY <1>1, <1>3, <1>4, <2>2, <3>1 DEF QuietCall, LaterOf, QuietWaits
    <3>2. CASE type # "Do"
      BY <1>1, <2>2, <3>2 DEF QuietCall, LaterOf, QuietWaits
    <3>3. QED
      BY <3>1, <3>2
  <2>3. CASE fn \notin {"set_compensation", "calibrate"}
    BY <1>1, <1>5, <2>3 DEF QuietCall, LaterOf, QuietWaits, Functions
  <2>4. QED
    BY <2>1, <2>2, <2>3
<1>7. (IF type = "Do" THEN GenericWait ELSE 0) + ReadWait[type]
        + LaterOf(type, "sample", "read") = QuietWaits(type, "read")
  BY <1>1, <1>3 DEF LaterOf, QuietWaits
<1>8. ASSUME NEW s, NEW fn PROVE LaterOf(type, s, fn) \in Nat
  BY <1>1, <1>3 DEF LaterOf
<1>9. ASSUME NEW fn PROVE QuietWaits(type, fn) \in Nat
  BY <1>1, <1>2, <1>3, <1>4, <1>5 DEF QuietWaits
<1>10. QED
  BY <1>6, <1>7, <1>8, <1>9

-------------------------------------------------------------------------------
(* The invariant after a step.                                             *)

\* The parts of the invariant, of the values after a step.
SlackAt(st, free, q, j, l, p) ==
  st # "idle" /\ free =>
    /\ q = NoJob
    /\ j.sent => j.pass # "done"
    /\ j.pass # "done" => Fits(j, l, p)

QuickAt(st, r, fn, j, l) ==
  WaitsFit /\ r.quiet =>
    /\ st # "idle" => r.free /\ j.spent = 0
    /\ r.elapsed + LaterOf(type, st, fn) + (IF st = "idle" THEN 0 ELSE Cost(j, l))
       <= QuietWaits(type, fn)

WithinAt(st, p, e, fn) ==
  LET first == IF fn = "read" THEN QueryDeadline ELSE ExecDeadline(type, fn)
  IN  /\ st = "idle" => p = 0 /\ e <= Allowed(fn)
      /\ st \in {"sample", "exec"} => e + p <= first
      /\ st = "check" => e + p <= first + CheckDeadline
      /\ st = "level" => e + p <= Allowed(fn)

ServesAt(st, fn) ==
  /\ st = "sample" => fn = "read"
  /\ st = "exec"   => fn \in Functions
  /\ st = "check"  => fn = "read" \/ fn = "set_compensation" \/ (fn = "calibrate" /\ type = "Do")
  /\ st = "level"  => fn \in {"calibrate", "clear_calibration"}

LEMMA AtNow ==
  /\ Slack = SlackAt(stage, request.free, queued, running, left, patience)
  /\ Quick = QuickAt(stage, request, op.fn, running, left)
  /\ Within = WithinAt(stage, patience, request.elapsed, op.fn)
  /\ Serves = ServesAt(stage, op.fn)
BY DEF Slack, SlackAt, Quick, QuickAt, Within, WithinAt, FirstDeadline, Serves, ServesAt,
       TouchesCompensation

LEMMA AtNext ==
  ASSUME type' = type
  PROVE  /\ Slack' = SlackAt(stage', request'.free, queued', running', left', patience')
         /\ Quick' = QuickAt(stage', request', op'.fn, running', left')
         /\ Within' = WithinAt(stage', patience', request'.elapsed, op'.fn)
         /\ Serves' = ServesAt(stage', op'.fn)
<1>1. Slack' = SlackAt(stage', request'.free, queued', running', left', patience')
  BY DEF Slack, SlackAt, Fits, Rest, Waiting, WaitOf
<1>2. Quick' = QuickAt(stage', request', op'.fn, running', left')
  BY DEF Quick, QuickAt, Cost, QuietRest, Rest, Waiting, WaitOf
<1>3. Within' = WithinAt(stage', patience', request'.elapsed, op'.fn)
  BY DEF Within, WithinAt, FirstDeadline, Allowed
<1>4. Serves' = ServesAt(stage', op'.fn)
  BY DEF Serves, ServesAt, TouchesCompensation
<1>5. QED
  BY <1>1, <1>2, <1>3, <1>4

\* A job's steps neither wait nor have been kept waiting.
LEMMA StepKeeps ==
  ASSUME NEW j \in JobType
  PROVE  /\ \A i \in Follows(j) : ~i.sent /\ i.spent = j.spent
         /\ ~FailsToSend(j).sent /\ FailsToSend(j).spent = j.spent
         /\ ~FailsToAnswer(j).sent /\ FailsToAnswer(j).spent = j.spent
<1>1. ASSUME NEW b PROVE ~Done(j, b).sent /\ Done(j, b).spent = j.spent
  BY DEF Done, JobType
<1>2. ASSUME NEW p, NEW n PROVE ~Pass(j, p, n).sent /\ Pass(j, p, n).spent = j.spent
  BY <1>1 DEF Pass, JobType
<1>3. PICK g : g = [j EXCEPT !.ok = FALSE]
  OBVIOUS
<1>4. ASSUME NEW p, NEW n PROVE ~Pass(g, p, n).sent /\ Pass(g, p, n).spent = j.spent
  BY <1>3 DEF Pass, Done, JobType
<1>5. ~FailsToSend(j).sent /\ FailsToSend(j).spent = j.spent
  BY <1>1, <1>3, <1>4 DEF FailsToSend
<1>6. ~FailsToAnswer(j).sent /\ FailsToAnswer(j).spent = j.spent
  BY <1>3, <1>4, <1>5 DEF FailsToAnswer
<1>7. ASSUME NEW i \in Follows(j) PROVE ~i.sent /\ i.spent = j.spent
  <2>1. CASE j.todo > 1
    BY <2>1 DEF Follows, JobType
  <2>2. CASE ~(j.todo > 1)
    BY <1>1, <1>2, <2>2 DEF Follows
  <2>3. QED
    BY <2>1, <2>2
<1>8. QED
  BY <1>5, <1>6, <1>7

\* The job on the bus takes a step within what it had in reserve.
LEMMA JobGoesOn ==
  ASSUME IInv, UNCHANGED <<type, stage, op, patience, left>>, NEW j \in JobType, GoOn(j),
         ~j.sent, j.spent = running.spent,
         request' \in [elapsed : Nat, quiet : BOOLEAN, free : BOOLEAN],
         request'.elapsed = request.elapsed, request'.free = request.free,
         request'.quiet => request.quiet,
         stage # "idle" /\ request.free =>
           /\ running.pass # "done"
           /\ j.pass # "done" =>
                /\ JobOk(j) /\ Headroom(j) = Headroom(running)
                /\ Rest(j) + WaitOf(j) <= Rest(running) + Waiting(running, left)
                /\ request'.quiet =>
                     QuietRest(j) + WaitOf(j) <= QuietRest(running) + Waiting(running, left)
  PROVE  IInv'
<1>1. /\ type \in Families /\ running \in JobType /\ queued \in JobType /\ left \in Nat
      /\ patience \in Nat /\ begun \in BOOLEAN
      /\ request \in [elapsed : Nat, quiet : BOOLEAN, free : BOOLEAN]
      /\ op \in [fn : Functions \cup {"read"}, ok : BOOLEAN]
  BY DEF IInv, TypeOK
<1>2. TypeOK'
  <2>1. NoJob \in JobType
    BY <1>1, NewJobTypes
  <2>2. running' \in JobType /\ queued' \in JobType /\ begun' \in BOOLEAN
    BY <1>1, <2>1 DEF GoOn
  <2>3. QED
    BY <2>2 DEF IInv, TypeOK
<1>3. Within' /\ Serves'
  BY AtNow, AtNext DEF IInv
<1>4. CASE stage = "idle"
  <2>1. SlackAt(stage', request'.free, queued', running', left', patience')
    BY <1>4 DEF SlackAt
  <2>2. QuickAt(stage', request', op'.fn, running', left')
    BY <1>4, AtNow DEF IInv, QuickAt
  <2>3. QED
    BY <1>2, <1>3, <2>1, <2>2, AtNext DEF IInv
<1>5. CASE stage # "idle" /\ ~request.free
  <2>1. SlackAt(stage', request'.free, queued', running', left', patience')
    BY <1>5 DEF SlackAt
  <2>2. QuickAt(stage', request', op'.fn, running', left')
    BY <1>5, AtNow DEF IInv, QuickAt
  <2>3. QED
    BY <1>2, <1>3, <2>1, <2>2, AtNext DEF IInv
<1>6. CASE stage # "idle" /\ request.free
  <2>1. queued = NoJob /\ running.pass # "done" /\ Fits(running, left, patience)
    BY <1>6 DEF IInv, Slack
  <2>2. running' = j /\ queued' = NoJob
    BY <1>6, <2>1 DEF GoOn, Abandoned
  <2>3. JobOk(running) /\ Waiting(running, left) \in Nat /\ Rest(running) \in Nat
        /\ QuietRest(running) \in Nat /\ running.spent \in Nat /\ Headroom(running) \in Nat
    BY <1>1, <2>1, RestTypes DEF Fits, Waiting
  <2>4. ASSUME j.pass # "done" PROVE Fits(j, left', patience')
    <3>1. Waiting(j, left') = WaitOf(j)
      BY DEF Waiting
    <3>2. Rest(j) \in Nat /\ WaitOf(j) \in Nat
      BY <1>1, <1>6, <2>4, RestTypes
    <3>3. QED
      BY <1>1, <1>6, <2>1, <2>3, <2>4, <3>1, <3>2 DEF Fits
  <2>5. SlackAt(stage', request'.free, queued', running', left', patience')
    BY <2>2, <2>4 DEF SlackAt
  <2>6. QuickAt(stage', request', op'.fn, running', left')
    <3> SUFFICES ASSUME WaitsFit, request'.quiet
                 PROVE  /\ request'.free /\ j.spent = 0
                        /\ request'.elapsed + LaterOf(type, stage, op.fn) + Cost(j, left)
                             <= QuietWaits(type, op.fn)
      BY <1>6, <2>2 DEF QuickAt
    <3>1. /\ request.free /\ running.spent = 0
          /\ request.elapsed + LaterOf(type, stage, op.fn) + Cost(running, left)
               <= QuietWaits(type, op.fn)
      BY <1>6, AtNow DEF IInv, QuickAt
    <3>2. Cost(running, left) = QuietRest(running) + Waiting(running, left)
      BY <2>1 DEF Cost
    <3>3. Cost(j, left) \in Nat /\ Cost(j, left) <= Cost(running, left)
      <4>1. CASE j.pass = "done"
        BY <2>3, <3>2, <4>1 DEF Cost
      <4>2. CASE j.pass # "done"
        <5>1. Cost(j, left) = QuietRest(j) + WaitOf(j)
          BY <4>2 DEF Cost, Waiting
        <5>2. QuietRest(j) \in Nat /\ WaitOf(j) \in Nat
          BY <1>1, <1>6, <4>2, RestTypes
        <5>3. QED
          BY <1>6, <3>2, <4>2, <5>1, <5>2
      <4>3. QED
        BY <4>1, <4>2
    <3>4. LaterOf(type, stage, op.fn) \in Nat /\ request.elapsed \in Nat
      BY <1>1, QuietSums
    <3>5. Cost(running, left) \in Nat /\ QuietWaits(type, op.fn) \in Nat
      <4>1. QuietWaits(type, op.fn) \in Nat
        BY <1>1, QuietSums
      <4>2. QED
        BY <2>3, <3>2, <4>1
    <3>6. QED
      BY <3>1, <3>3, <3>4, <3>5
  <2>7. QED
    BY <1>2, <1>3, <2>5, <2>6, AtNext DEF IInv
<1>7. QED
  BY <1>4, <1>5, <1>6

LEMMA BeginStep ==
  ASSUME IInv, Begin
  PROVE  IInv'
<1>1. TypeOK'
  BY DEF IInv, TypeOK, Begin
<1>2. Within' /\ Serves' /\ Slack' /\ Quick'
  BY AtNow, AtNext DEF IInv, Begin
<1>3. QED
  BY <1>1, <1>2 DEF IInv

LEMMA SendStep ==
  ASSUME IInv, Send
  PROVE  IInv'
<1>1. /\ type \in Families /\ running \in JobType /\ left \in Nat /\ running.pass # "done"
      /\ ~running.sent /\ UNCHANGED <<type, stage, op, patience, request>>
      /\ request \in [elapsed : Nat, quiet : BOOLEAN, free : BOOLEAN]
  BY DEF IInv, TypeOK, Send
<1>2. Waiting(running, left) = WaitOf(running)
  BY <1>1 DEF Waiting
<1>3. CASE running' = [running EXCEPT !.sent = TRUE] /\ left' = WaitOf(running)
           /\ UNCHANGED <<queued, begun>>
  <2>1. PICK j \in JobType : j = running'
    BY <1>1, <1>3 DEF JobType
  <2>2. /\ j.fn = running.fn /\ j.pass = running.pass /\ j.todo = running.todo /\ j.sent
        /\ j.later = running.later /\ j.spent = running.spent
    BY <1>1, <1>3, <2>1 DEF JobType
  <2>3. TypeOK'
    <3>1. WaitOf(running) \in Nat
      BY <1>1, JobTypes
    <3>2. QED
      BY <1>1, <1>3, <2>1, <3>1 DEF IInv, TypeOK
  <2>4. Within' /\ Serves'
    BY <1>1, AtNow, AtNext DEF IInv
  <2>5. /\ Rest(j) = Rest(running) /\ QuietRest(j) = QuietRest(running)
        /\ Headroom(j) = Headroom(running) /\ (JobOk(running) => JobOk(j))
    BY <2>2 DEF Rest, QuietRest, Headroom, JobOk
  <2>6. Waiting(j, left') = Waiting(running, left)
    BY <1>2, <1>3, <2>2 DEF Waiting
  <2>7. SlackAt(stage', request'.free, queued', j, left', patience')
    BY <1>1, <1>3, <2>2, <2>5, <2>6, AtNow DEF IInv, SlackAt, Fits
  <2>8. QuickAt(stage', request', op'.fn, j, left')
    BY <1>1, <2>2, <2>5, <2>6, AtNow DEF IInv, QuickAt, Cost
  <2>9. QED
    BY <1>1, <2>1, <2>3, <2>4, <2>7, <2>8, AtNext DEF IInv
<1>4. CASE GoOn(FailsToSend(running)) /\ UNCHANGED left
  <2>1. PICK j \in JobType : j = FailsToSend(running)
    BY <1>1, JobTypes
  <2>2. ~j.sent /\ j.spent = running.spent
    BY <1>1, <2>1, StepKeeps
  <2>3. ASSUME stage # "idle" /\ request.free, j.pass # "done"
        PROVE  /\ JobOk(j) /\ Headroom(j) = Headroom(running)
               /\ Rest(j) + WaitOf(j) <= Rest(running) + Waiting(running, left)
               /\ QuietRest(j) + WaitOf(j) <= QuietRest(running) + Waiting(running, left)
    <3>1. JobOk(running)
      BY <1>1, <2>3 DEF IInv, Slack, Fits
    <3>2. Onward(running, j, Rest(running) + WaitOf(running), QuietRest(running) + WaitOf(running))
      BY <1>1, <2>1, <3>1, FailsCost
    <3>3. QED
      BY <1>2, <2>3, <3>2 DEF Onward
  <2>4. GoOn(j)
    BY <1>4, <2>1
  <2>5. UNCHANGED <<type, stage, op, patience, left>>
    BY <1>1, <1>4
  <2>6. QED
    BY <1>1, <2>2, <2>3, <2>4, <2>5, JobGoesOn
<1>5. QED
  BY <1>3, <1>4 DEF Send

LEMMA ReadAnswerStep ==
  ASSUME IInv, ReadAnswer
  PROVE  IInv'
<1>1. /\ type \in Families /\ running \in JobType /\ left = 0 /\ running.sent
      /\ UNCHANGED <<type, stage, op, patience>>
      /\ request \in [elapsed : Nat, quiet : BOOLEAN, free : BOOLEAN]
  BY DEF IInv, TypeOK, ReadAnswer
<1>2. Waiting(running, left) = 0
  BY <1>1 DEF Waiting
<1>3. stage # "idle" /\ request.free =>
        /\ running.pass # "done" /\ JobOk(running) /\ Rest(running) \in Nat
        /\ QuietRest(running) \in Nat
  BY <1>1, RestTypes DEF IInv, Slack, Fits
<1>4. ASSUME NEW j \in Follows(running), GoOn(j), UNCHANGED left,
             request' = [request EXCEPT !.quiet = @ /\ running.pass # "resend"]
      PROVE  IInv'
  <2>1. j \in JobType
    BY <1>1, JobTypes
  <2>2. ~j.sent /\ j.spent = running.spent
    BY <1>1, StepKeeps
  <2>3. /\ request' \in [elapsed : Nat, quiet : BOOLEAN, free : BOOLEAN]
        /\ request'.elapsed = request.elapsed /\ request'.free = request.free
        /\ request'.quiet => request.quiet /\ running.pass # "resend"
    BY <1>1, <1>4
  <2>4. ASSUME stage # "idle" /\ request.free, j.pass # "done"
        PROVE  /\ JobOk(j) /\ Headroom(j) = Headroom(running)
               /\ Rest(j) + WaitOf(j) <= Rest(running) + Waiting(running, left)
               /\ request'.quiet =>
                    QuietRest(j) + WaitOf(j) <= QuietRest(running) + Waiting(running, left)
    <3>1. IF running.pass = "resend"
            THEN j.pass # "done" => /\ JobOk(j) /\ ~j.sent /\ j.spent = running.spent
                                    /\ Headroom(j) = Headroom(running)
                                    /\ Rest(j) + WaitOf(j) <= Rest(running)
            ELSE Onward(running, j, Rest(running), QuietRest(running))
      BY <1>1, <1>3, <2>4, FollowsCost
    <3>2. Rest(running) + Waiting(running, left) = Rest(running)
          /\ QuietRest(running) + Waiting(running, left) = QuietRest(running)
      BY <1>2, <1>3, <2>4
    <3>3. QED
      BY <2>3, <2>4, <3>1, <3>2 DEF Onward
  <2>5. UNCHANGED <<type, stage, op, patience, left>>
    BY <1>1, <1>4
  <2>6. QED
    BY <1>3, <1>4, <2>1, <2>2, <2>3, <2>4, <2>5, JobGoesOn
<1>5. CASE /\ running.fn # "sleep" /\ GoOn(FailsToAnswer(running)) /\ UNCHANGED <<left, request>>
  <2>1. PICK j \in JobType : j = FailsToAnswer(running)
    BY <1>1, JobTypes
  <2>2. ~j.sent /\ j.spent = running.spent
    BY <1>1, <2>1, StepKeeps
  <2>3. ASSUME stage # "idle" /\ request.free, j.pass # "done"
        PROVE  /\ JobOk(j) /\ Headroom(j) = Headroom(running)
               /\ Rest(j) + WaitOf(j) <= Rest(running) + Waiting(running, left)
               /\ QuietRest(j) + WaitOf(j) <= QuietRest(running) + Waiting(running, left)
    <3>1. Onward(running, j, Rest(running), QuietRest(running))
      BY <1>1, <1>3, <2>1, <2>3, FailsCost
    <3>2. Rest(running) + Waiting(running, left) = Rest(running)
          /\ QuietRest(running) + Waiting(running, left) = QuietRest(running)
      BY <1>2, <1>3, <2>3
    <3>3. QED
      BY <2>3, <3>1, <3>2 DEF Onward
  <2>4. GoOn(j)
    BY <1>5, <2>1
  <2>5. UNCHANGED <<type, stage, op, patience, left>>
    BY <1>1, <1>5
  <2>6. QED
    BY <1>1, <1>3, <1>5, <2>2, <2>3, <2>4, <2>5, JobGoesOn
<1>6. CASE /\ Reread(running) /\ running.rereads < kPendingRereads
           /\ running' = [running EXCEPT !.rereads = @ + 1, !.spent = @ + kPendingRereadMs]
           /\ left' = kPendingRereadMs
           /\ request' = [request EXCEPT !.quiet = FALSE]
           /\ UNCHANGED <<queued, begun>>
  <2>1. running' \in JobType /\ running'.spent = running.spent + 250 /\ running.spent \in Nat
        /\ running'.fn = running.fn /\ running'.pass = running.pass /\ running'.todo = running.todo
        /\ running'.later = running.later /\ running'.sent
    <3>1. running.rereads \in 0..4 /\ running.spent \in Nat
      BY <1>1 DEF JobType, kPendingRereads
    <3>2. running.rereads + 1 \in 0..kPendingRereads /\ running.spent + kPendingRereadMs \in Nat
      BY <1>6, <3>1 DEF kPendingRereads, kPendingRereadMs
    <3>3. QED
      BY <1>1, <1>6, <3>1, <3>2 DEF JobType, kPendingRereadMs
  <2>2. PICK j \in JobType : j = running'
    BY <2>1
  <2>3. /\ request' \in [elapsed : Nat, quiet : BOOLEAN, free : BOOLEAN]
        /\ request'.elapsed = request.elapsed /\ request'.free = request.free /\ ~request'.quiet
    BY <1>1, <1>6
  <2>4. TypeOK'
    <3>1. left' \in Nat
      BY <1>6 DEF kPendingRereadMs
    <3>2. QED
      BY <1>1, <1>6, <2>1, <2>3, <3>1 DEF IInv, TypeOK
  <2>5. Within' /\ Serves'
    BY <1>1, <2>3, AtNow, AtNext DEF IInv
  <2>6. QuickAt(stage', request', op'.fn, running', left')
    BY <2>3 DEF QuickAt
  <2>7. j.pass \notin {"outputs", "reading"}
    BY <1>6, <2>1, <2>2 DEF Reread
  <2>8. /\ Rest(j) = Rest(running) /\ Headroom(j) = Headroom(running)
        /\ (JobOk(running) => JobOk(j))
    BY <2>1, <2>2, <2>7 DEF Rest, Headroom, JobOk
  <2>9. Waiting(j, left') = 250
    BY <1>6, <2>1, <2>2 DEF Waiting, kPendingRereadMs
  <2>10. ASSUME stage # "idle" /\ request.free PROVE Fits(j, left', patience')
    <3>1. Fits(running, left, patience)
      BY <1>3, <2>10 DEF IInv, Slack
    <3>2. patience \in Nat /\ Headroom(running) \in Nat /\ Rest(running) \in Nat
      BY <1>1, <1>3, <2>10, RestTypes DEF IInv, TypeOK
    <3>3. QED
      BY <1>1, <1>2, <2>1, <2>2, <2>8, <2>9, <3>1, <3>2 DEF Fits
  <2>11. SlackAt(stage', request'.free, queued', j, left', patience')
    BY <1>1, <1>3, <1>6, <2>1, <2>2, <2>3, <2>10 DEF SlackAt, IInv, Slack
  <2>12. QED
    BY <1>1, <2>2, <2>4, <2>5, <2>6, <2>11, AtNext DEF IInv
<1>7. QED
  BY <1>4, <1>5, <1>6 DEF ReadAnswer

LEMMA ElapseStep ==
  ASSUME IInv, Elapse
  PROVE  IInv'
<1>1. /\ type \in Families /\ running \in JobType /\ left \in Nat /\ running.sent /\ left > 0
      /\ patience \in Nat /\ UNCHANGED <<type, running, begun, queued, stage, op>>
      /\ request \in [elapsed : Nat, quiet : BOOLEAN, free : BOOLEAN]
  BY DEF IInv, TypeOK, Elapse
<1>2. CASE stage = "idle"
  <2>1. PICK d \in Nat : d <= left /\ left' = left - d /\ UNCHANGED <<patience, request>>
    BY <1>2, DeadlinesAssumption DEF Elapse, DeadlinesAssumption
  <2>2. left' \in Nat
    BY <1>1, <2>1
  <2>3. TypeOK'
    BY <1>1, <2>1, <2>2 DEF IInv, TypeOK
  <2>4. Within' /\ Serves'
    BY <1>1, <2>1, AtNow, AtNext DEF IInv
  <2>5. SlackAt(stage', request'.free, queued', running', left', patience')
    BY <1>1, <1>2 DEF SlackAt
  <2>6. QuickAt(stage', request', op'.fn, running', left')
    BY <1>1, <1>2, <2>1, AtNow DEF IInv, QuickAt
  <2>7. QED
    BY <1>1, <2>3, <2>4, <2>5, <2>6, AtNext DEF IInv
<1>3. CASE stage # "idle"
  <2>1. PICK d : /\ d = AtMost(left, patience) /\ left' = left - d /\ patience' = patience - d
                 /\ request' = [request EXCEPT !.elapsed = @ + d]
    BY <1>3 DEF Elapse
  <2>2. d \in Nat /\ left' \in Nat /\ patience' \in Nat
    BY <1>1, <2>1 DEF AtMost
  <2>3. /\ request' \in [elapsed : Nat, quiet : BOOLEAN, free : BOOLEAN]
        /\ request'.elapsed = request.elapsed + d /\ request'.free = request.free
        /\ request'.quiet = request.quiet /\ request.elapsed \in Nat
    BY <1>1, <2>1, <2>2
  <2>4. TypeOK'
    BY <1>1, <2>2, <2>3 DEF IInv, TypeOK
  <2>5. request'.elapsed + patience' = request.elapsed + patience
    BY <1>1, <2>1, <2>2, <2>3
  <2>6. WithinAt(stage', patience', request'.elapsed, op'.fn) /\ Serves'
    BY <1>1, <1>3, <2>5, AtNow, AtNext DEF IInv, WithinAt
  <2>7. Waiting(running, left') = left - d /\ Waiting(running, left) = left
    BY <1>1, <2>1 DEF Waiting
  <2>8. SlackAt(stage', request'.free, queued', running', left', patience')
    <3>1. ASSUME request.free PROVE Fits(running, left', patience')
      <4>1. Fits(running, left, patience)
        BY <1>1, <1>3, <3>1 DEF IInv, Slack
      <4>2. Rest(running) \in Nat /\ Headroom(running) \in Nat /\ running.spent \in Nat
        BY <1>1, <4>1, RestTypes DEF Fits
      <4>3. QED
        BY <1>1, <2>1, <2>2, <2>7, <4>1, <4>2 DEF Fits
    <3>2. QED
      BY <1>1, <1>3, <2>3, <3>1 DEF SlackAt, IInv, Slack
  <2>9. QuickAt(stage', request', op'.fn, running', left')
    <3> SUFFICES ASSUME WaitsFit, request.quiet
                 PROVE  /\ request.free /\ running.spent = 0
                        /\ request'.elapsed + LaterOf(type, stage, op.fn) + Cost(running, left')
                             <= QuietWaits(type, op.fn)
      BY <1>1, <1>3, <2>3 DEF QuickAt
    <3>1. /\ request.free /\ running.spent = 0
          /\ request.elapsed + LaterOf(type, stage, op.fn) + Cost(running, left)
               <= QuietWaits(type, op.fn)
      BY <1>3, AtNow DEF IInv, QuickAt
    <3>2. running.pass # "done" /\ JobOk(running)
      BY <1>1, <1>3, <3>1 DEF IInv, Slack, Fits
    <3>3. /\ Cost(running, left) = QuietRest(running) + left
          /\ Cost(running, left') = QuietRest(running) + (left - d)
          /\ QuietRest(running) \in Nat
      BY <1>1, <2>7, <3>2, RestTypes DEF Cost
    <3>4. LaterOf(type, stage, op.fn) \in Nat /\ QuietWaits(type, op.fn) \in Nat
      BY <1>1, QuietSums
    <3>5. QED
      BY <1>1, <2>2, <2>3, <3>1, <3>3, <3>4
  <2>10. QED
    BY <1>1, <2>4, <2>6, <2>8, <2>9, AtNext DEF IInv
<1>4. QED
  BY <1>2, <1>3
-------------------------------------------------------------------------------
(* The handler's steps.                                                    *)

\* A submit() of job j.  If the job has the bus to itself it starts with its whole
\* deadline, and a request that nothing slowed down has the waits for it.
LEMMA SubmitStep ==
  ASSUME type \in Families, UNCHANGED <<type, left>>, left \in Nat, NEW j \in JobType,
         NEW d \in Nat, NEW quiet \in Nat, Fresh(j, d, quiet),
         NEW what \in {"sample", "exec", "check", "level"},
         NEW kept \in JobType, NEW keptBegun \in BOOLEAN,
         Submit(what, j, d, kept, keptBegun),
         request' \in [elapsed : Nat, quiet : BOOLEAN, free : BOOLEAN],
         op' \in [fn : Functions \cup {"read"}, ok : BOOLEAN],
         request'.free => kept = NoJob,
         WithinAt(what, d, request'.elapsed, op'.fn), ServesAt(what, op'.fn),
         WaitsFit /\ request'.quiet =>
           request'.free /\ request'.elapsed + LaterOf(type, what, op'.fn) + quiet
                              <= QuietWaits(type, op'.fn)
  PROVE  IInv'
<1>1. NoJob \in JobType
  BY NewJobTypes
<1>2. stage' = what /\ patience' = d /\ running' \in JobType /\ queued' \in JobType
      /\ begun' \in BOOLEAN
  BY <1>1 DEF Submit
<1>3. TypeOK'
  BY <1>2 DEF TypeOK
<1>4. Within' /\ Serves'
  BY <1>2, AtNext
<1>5. kept = NoJob => running' = j /\ queued' = NoJob
  BY DEF Submit
<1>6. j.pass # "done" /\ ~j.sent /\ j.spent = 0 /\ JobOk(j) /\ Waiting(j, left') = WaitOf(j)
  BY DEF Fresh, Waiting
<1>7. Rest(j) \in Nat /\ QuietRest(j) \in Nat /\ WaitOf(j) \in Nat
  BY <1>6, RestTypes
<1>8. Fits(j, left', d)
  BY <1>6, <1>7 DEF Fits, Fresh
<1>9. SlackAt(stage', request'.free, queued', running', left', patience')
  BY <1>2, <1>5, <1>6, <1>8 DEF SlackAt
<1>10. QuickAt(stage', request', op'.fn, running', left')
  <2> SUFFICES ASSUME WaitsFit, request'.quiet
               PROVE  /\ request'.free /\ j.spent = 0
                      /\ request'.elapsed + LaterOf(type, what, op'.fn) + Cost(j, left')
                           <= QuietWaits(type, op'.fn)
    BY <1>2, <1>5 DEF QuickAt
  <2>1. Cost(j, left') \in Nat /\ Cost(j, left') <= quiet
    BY <1>6, <1>7 DEF Cost, Fresh
  <2>2. LaterOf(type, what, op'.fn) \in Nat /\ QuietWaits(type, op'.fn) \in Nat
        /\ request'.elapsed \in Nat
    BY QuietSums
  <2>3. QED
    BY <1>6, <2>1, <2>2
<1>11. QED
  BY <1>3, <1>4, <1>9, <1>10, AtNext DEF IInv

LEMMA IdleStep ==
  ASSUME type \in Families, UNCHANGED <<type, left>>, left \in Nat,
         NEW kept \in JobType, NEW keptBegun \in BOOLEAN, Idle(kept, keptBegun),
         request' \in [elapsed : Nat, quiet : BOOLEAN, free : BOOLEAN],
         op' \in [fn : Functions \cup {"read"}, ok : BOOLEAN],
         request'.elapsed <= Allowed(op'.fn),
         WaitsFit /\ request'.quiet => request'.elapsed <= QuietWaits(type, op'.fn)
  PROVE  IInv'
<1>1. NoJob \in JobType
  BY NewJobTypes
<1>2. stage' = "idle" /\ patience' = 0 /\ running' = kept /\ queued' = NoJob /\ begun' = keptBegun
  BY DEF Idle
<1>3. TypeOK'
  BY <1>1, <1>2 DEF TypeOK
<1>4. WithinAt(stage', patience', request'.elapsed, op'.fn) /\ ServesAt(stage', op'.fn)
  BY <1>2 DEF WithinAt, ServesAt
<1>5. SlackAt(stage', request'.free, queued', running', left', patience')
  BY <1>2 DEF SlackAt
<1>6. LaterOf(type, "idle", op'.fn) = 0
  BY DEF LaterOf
<1>7. QuickAt(stage', request', op'.fn, running', left')
  BY <1>2, <1>6 DEF QuickAt
<1>8. QED
  BY <1>3, <1>4, <1>5, <1>7, AtNext DEF IInv

\* The deadlines that a request may spend one after the other.
LEMMA AllowedSums ==
  ASSUME type \in Families
  PROVE  /\ Allowed("read") = QueryDeadline + CheckDeadline
         /\ \A fn \in Functions :
              /\ Allowed(fn) \in Nat /\ ExecDeadline(type, fn) <= Allowed(fn)
              /\ fn = "set_compensation" \/ (fn = "calibrate" /\ type = "Do") =>
                   ExecDeadline(type, fn) + CheckDeadline
                     + (IF fn = "calibrate" THEN QueryDeadline ELSE 0) <= Allowed(fn)
              /\ fn \in {"calibrate", "clear_calibration"} =>
                   ExecDeadline(type, fn) + QueryDeadline <= Allowed(fn)
<1>1. QueryDeadline \in Nat /\ CheckDeadline \in Nat /\ \A fn : ExecDeadline(type, fn) \in Nat
  BY Times
<1>2. Allowed("read") = QueryDeadline + CheckDeadline
  BY DEF Allowed
<1>3. ASSUME NEW fn \in Functions
      PROVE  /\ Allowed(fn) \in Nat /\ ExecDeadline(type, fn) <= Allowed(fn)
             /\ fn = "set_compensation" \/ (fn = "calibrate" /\ type = "Do") =>
                  ExecDeadline(type, fn) + CheckDeadline
                    + (IF fn = "calibrate" THEN QueryDeadline ELSE 0) <= Allowed(fn)
             /\ fn \in {"calibrate", "clear_calibration"} =>
                  ExecDeadline(type, fn) + QueryDeadline <= Allowed(fn)
  <2>1. PICK x \in Nat : x = ExecDeadline(type, fn)
    BY <1>1
  <2>2. CASE fn = "calibrate" /\ type = "Do"
    BY <1>1, <2>1, <2>2 DEF Allowed
  <2>3. CASE fn = "calibrate" /\ type # "Do"
    BY <1>1, <2>1, <2>3 DEF Allowed
  <2>4. CASE fn \in {"set_compensation", "clear_calibration"}
    BY <1>1, <2>1, <2>4 DEF Allowed
  <2>5. CASE fn \notin {"set_compensation", "calibrate", "clear_calibration"}
    BY <1>1, <2>1, <2>5 DEF Allowed, Functions
  <2>6. QED
    BY <2>2, <2>3, <2>4, <2>5
<1>4. QED
  BY <1>2, <1>3

LEMMA SubmitCheckStep ==
  ASSUME IInv, UNCHANGED <<type, left>>, NEW kept \in JobType, NEW keptBegun \in BOOLEAN,
         SubmitCheck(kept, keptBegun),
         op' \in [fn : Functions \cup {"read"}, ok : BOOLEAN], op'.fn = op.fn,
         request.elapsed <= FirstDeadline, op.fn = "read" \/ TouchesCompensation,
         WaitsFit /\ request.quiet =>
           kept = NoJob /\ request.elapsed + LaterOf(type, "check", op.fn)
                             + Generic(FieldCount(type) + 1) <= QuietWaits(type, op.fn)
  PROVE  IInv'
<1>1. /\ type \in Families /\ left \in Nat
      /\ request \in [elapsed : Nat, quiet : BOOLEAN, free : BOOLEAN]
  BY DEF IInv, TypeOK
<1>2. PICK set \in 0..FieldCount(type) :
        Submit("check", CheckJob(type, set), CheckDeadline, kept, keptBegun)
  BY DEF SubmitCheck
<1>3. /\ request' \in [elapsed : Nat, quiet : BOOLEAN, free : BOOLEAN]
      /\ request'.elapsed = request.elapsed /\ request'.quiet = request.quiet
      /\ request'.free = (kept = NoJob)
  BY <1>1 DEF SubmitCheck, Free
<1>4. CheckJob(type, set) \in JobType /\ CheckDeadline \in Nat
      /\ Generic(FieldCount(type) + 1) \in Nat /\ FirstDeadline \in Nat
  <2>1. FieldCount(type) + 1 \in Nat /\ CheckDeadline \in Nat /\ FirstDeadline \in Nat
    BY <1>1, Times DEF FirstDeadline
  <2>2. QED
    BY <1>1, <2>1, NewJobTypes, GenericFacts
<1>5. Fresh(CheckJob(type, set), CheckDeadline, Generic(FieldCount(type) + 1))
  BY <1>1, FreshCheck
<1>6. WithinAt("check", CheckDeadline, request'.elapsed, op'.fn)
  <2>1. request.elapsed + CheckDeadline <= FirstDeadline + CheckDeadline
    BY <1>1, <1>4
  <2>2. QED
    BY <1>3, <2>1 DEF WithinAt, FirstDeadline
<1>7. ServesAt("check", op'.fn)
  BY DEF ServesAt, TouchesCompensation
<1>8. WaitsFit /\ request'.quiet =>
        request'.free /\ request'.elapsed + LaterOf(type, "check", op'.fn)
                           + Generic(FieldCount(type) + 1) <= QuietWaits(type, op'.fn)
  BY <1>3
<1>9. "check" \in {"sample", "exec", "check", "level"}
  OBVIOUS
<1>10. request'.free => kept = NoJob
  BY <1>3
<1>11. QED
  BY <1>1, <1>2, <1>3, <1>4, <1>5, <1>6, <1>7, <1>8, <1>9, <1>10, SubmitStep

LEMMA ConcludeStep ==
  ASSUME IInv, UNCHANGED <<type, left>>, NEW ok, NEW kept \in JobType, NEW keptBegun \in BOOLEAN,
         Conclude(ok, kept, keptBegun),
         op' \in [fn : Functions \cup {"read"}, ok : BOOLEAN], op'.fn = op.fn,
         request.elapsed <= Allowed(op.fn),
         op.fn \in {"calibrate", "clear_calibration"} =>
           request.elapsed + QueryDeadline <= Allowed(op.fn),
         WaitsFit /\ request.quiet =>
           kept = NoJob /\ request.elapsed
                             + (IF op.fn \in {"calibrate", "clear_calibration"}
                                  THEN GenericWait ELSE 0) <= QuietWaits(type, op.fn)
  PROVE  IInv'
<1>1. /\ type \in Families /\ left \in Nat
      /\ request \in [elapsed : Nat, quiet : BOOLEAN, free : BOOLEAN]
  BY DEF IInv, TypeOK
<1>2. GenericWait \in Nat /\ QueryDeadline \in Nat /\ QuietWaits(type, op.fn) \in Nat
  BY <1>1, Times, QuietSums
<1>3. CASE ok /\ op.fn \in {"calibrate", "clear_calibration"}
  <2>1. Submit("level", LevelJob, QueryDeadline, kept, keptBegun)
    BY <1>3 DEF Conclude
  <2>2. /\ request' \in [elapsed : Nat, quiet : BOOLEAN, free : BOOLEAN]
        /\ request'.elapsed = request.elapsed /\ request'.quiet = request.quiet
        /\ request'.free = (kept = NoJob)
    BY <1>1, <1>3 DEF Conclude, Free
  <2>3. LevelJob \in JobType /\ Fresh(LevelJob, QueryDeadline, GenericWait)
    BY <1>1, NewJobTypes, FreshLevel
  <2>4. WithinAt("level", QueryDeadline, request'.elapsed, op'.fn) /\ ServesAt("level", op'.fn)
    BY <1>3, <2>2 DEF WithinAt, ServesAt
  <2>5. LaterOf(type, "level", op.fn) = 0
    BY DEF LaterOf
  <2>6. WaitsFit /\ request'.quiet =>
          request'.free /\ request'.elapsed + LaterOf(type, "level", op'.fn) + GenericWait
                             <= QuietWaits(type, op'.fn)
    BY <1>1, <1>2, <1>3, <2>2, <2>5
  <2>7. "level" \in {"sample", "exec", "check", "level"} /\ (request'.free => kept = NoJob)
    BY <2>2
  <2>8. QED
    BY <1>1, <1>2, <2>1, <2>2, <2>3, <2>4, <2>6, <2>7, SubmitStep
<1>4. CASE ~(ok /\ op.fn \in {"calibrate", "clear_calibration"})
  <2>1. Idle(kept, keptBegun) /\ request' = request
    BY <1>4 DEF Conclude
  <2>2. WaitsFit /\ request'.quiet => request'.elapsed <= QuietWaits(type, op'.fn)
    BY <1>1, <1>2, <2>1
  <2>3. request'.elapsed <= Allowed(op'.fn)
    BY <2>1
  <2>4. QED
    BY <1>1, <2>1, <2>2, <2>3, IdleStep
<1>5. QED
  BY <1>3, <1>4

\* What the handler does once its submit() is over.
LEMMA AfterStep ==
  ASSUME IInv, UNCHANGED <<type, left>>, NEW ok \in BOOLEAN, NEW kept \in JobType,
         NEW keptBegun \in BOOLEAN, After(ok, kept, keptBegun),
         WaitsFit /\ request.quiet =>
           kept = NoJob /\ request.elapsed + LaterOf(type, stage, op.fn) <= QuietWaits(type, op.fn)
  PROVE  IInv'
<1>1. /\ type \in Families /\ left \in Nat /\ patience \in Nat
      /\ request \in [elapsed : Nat, quiet : BOOLEAN, free : BOOLEAN]
      /\ op \in [fn : Functions \cup {"read"}, ok : BOOLEAN]
  BY DEF IInv, TypeOK
<1>2. /\ GenericWait \in Nat /\ QueryDeadline \in Nat /\ CheckDeadline \in Nat
      /\ FirstDeadline \in Nat /\ ExecDeadline(type, op.fn) \in Nat
      /\ request.elapsed \in Nat
  BY <1>1, Times DEF FirstDeadline
<1>3. LaterOf(type, stage, op.fn) \in Nat /\ QuietWaits(type, op.fn) \in Nat
      /\ Generic(FieldCount(type) + 1) \in Nat
  <2>1. FieldCount(type) + 1 \in Nat
    BY <1>1, Times
  <2>2. QED
    BY <1>1, <2>1, QuietSums, GenericFacts
<1>4. WaitsFit /\ request.quiet => kept = NoJob /\ request.elapsed <= QuietWaits(type, op.fn)
  BY <1>2, <1>3
<1>5. CASE /\ stage = "sample"
           /\ \/ ok /\ SubmitCheck(kept, keptBegun)
              \/ Idle(kept, keptBegun) /\ UNCHANGED request
           /\ UNCHANGED op
  <2>1. op.fn = "read" /\ request.elapsed + patience <= FirstDeadline
    BY <1>5 DEF IInv, Serves, Within
  <2>2. request.elapsed <= FirstDeadline /\ FirstDeadline = QueryDeadline
    BY <1>1, <1>2, <2>1 DEF FirstDeadline
  <2>3. CASE SubmitCheck(kept, keptBegun)
    <3>1. LaterOf(type, "check", op.fn) = 0
          /\ LaterOf(type, stage, op.fn) = Generic(FieldCount(type) + 1)
      BY <1>5, <2>1 DEF LaterOf
    <3>2. WaitsFit /\ request.quiet =>
            kept = NoJob /\ request.elapsed + LaterOf(type, "check", op.fn)
                              + Generic(FieldCount(type) + 1) <= QuietWaits(type, op.fn)
      BY <1>2, <1>3, <3>1
    <3>3. QED
      BY <1>1, <1>5, <2>1, <2>2, <2>3, <3>2, SubmitCheckStep
  <2>4. CASE Idle(kept, keptBegun) /\ UNCHANGED request
    <3>1. request.elapsed <= Allowed(op.fn)
      BY <1>1, <1>2, <2>1, <2>2, AllowedSums
    <3>2. QED
      BY <1>1, <1>4, <1>5, <2>4, <3>1, IdleStep
  <2>5. QED
    BY <1>5, <2>3, <2>4
<1>6. CASE /\ stage = "exec"
           /\ op' = [op EXCEPT !.ok = ok]
           /\ IF TouchesCompensation THEN SubmitCheck(kept, keptBegun)
                                     ELSE Conclude(ok, kept, keptBegun)
  <2>1. op.fn \in Functions /\ op.fn # "read" /\ request.elapsed + patience <= FirstDeadline
    BY <1>6 DEF IInv, Serves, Within, Functions
  <2>2. request.elapsed <= FirstDeadline /\ FirstDeadline = ExecDeadline(type, op.fn)
    BY <1>1, <1>2, <2>1 DEF FirstDeadline
  <2>3. op' \in [fn : Functions \cup {"read"}, ok : BOOLEAN] /\ op'.fn = op.fn
    BY <1>1, <1>6
  <2>4. CASE TouchesCompensation
    <3>1. LaterOf(type, stage, op.fn) = Generic(FieldCount(type) + 1)
                                          + LaterOf(type, "check", op.fn)
      BY <1>2, <1>3, <1>6, <2>4 DEF LaterOf, TouchesCompensation
    <3>2. LaterOf(type, "check", op.fn) \in Nat
      BY <1>1, QuietSums
    <3>3. WaitsFit /\ request.quiet =>
            kept = NoJob /\ request.elapsed + LaterOf(type, "check", op.fn)
                              + Generic(FieldCount(type) + 1) <= QuietWaits(type, op.fn)
      BY <1>2, <1>3, <3>1, <3>2
    <3>4. QED
      BY <1>6, <2>2, <2>3, <2>4, <3>3, SubmitCheckStep
  <2>5. CASE ~TouchesCompensation
    <3>1. LaterOf(type, stage, op.fn) = (IF op.fn \in {"calibrate", "clear_calibration"}
                                           THEN GenericWait ELSE 0)
      BY <1>2, <1>6, <2>5 DEF LaterOf, TouchesCompensation
    <3>2. /\ Allowed(op.fn) \in Nat /\ ExecDeadline(type, op.fn) <= Allowed(op.fn)
          /\ op.fn \in {"calibrate", "clear_calibration"} =>
               ExecDeadline(type, op.fn) + QueryDeadline <= Allowed(op.fn)
      BY <1>1, <2>1, AllowedSums
    <3>3. /\ request.elapsed <= Allowed(op.fn)
          /\ op.fn \in {"calibrate", "clear_calibration"} =>
               request.elapsed + QueryDeadline <= Allowed(op.fn)
      BY <1>2, <2>2, <3>2
    <3>4. Conclude(ok, kept, keptBegun)
      BY <1>6, <2>5
    <3>5. QED
      BY <2>3, <3>1, <3>3, <3>4, ConcludeStep
  <2>6. QED
    BY <2>4, <2>5
<1>7. CASE /\ stage = "check"
           /\ IF op.fn = "read" THEN Idle(kept, keptBegun) /\ UNCHANGED request
                                ELSE Conclude(op.ok, kept, keptBegun)
           /\ UNCHANGED op
  <2>1. op.fn = "read" \/ TouchesCompensation
    BY <1>7 DEF IInv, Serves
  <2>2. request.elapsed + patience <= FirstDeadline + CheckDeadline
    BY <1>7 DEF IInv, Within
  <2>3. request.elapsed <= FirstDeadline + CheckDeadline
    BY <1>1, <1>2, <2>2
  <2>4. CASE op.fn = "read"
    <3>1. request.elapsed <= Allowed(op.fn)
      BY <1>1, <2>3, <2>4, AllowedSums DEF FirstDeadline
    <3>2. Idle(kept, keptBegun) /\ UNCHANGED <<request, op>>
      BY <1>7, <2>4
    <3>3. QED
      BY <1>1, <1>4, <3>1, <3>2, IdleStep
  <2>5. CASE op.fn # "read"
    <3>1. op.fn \in Functions /\ FirstDeadline = ExecDeadline(type, op.fn)
      BY <1>1, <2>5 DEF FirstDeadline
    <3>2. Allowed(op.fn) \in Nat /\
            ExecDeadline(type, op.fn) + CheckDeadline
              + (IF op.fn = "calibrate" THEN QueryDeadline ELSE 0) <= Allowed(op.fn)
      BY <1>1, <2>1, <2>5, <3>1, AllowedSums DEF TouchesCompensation
    <3>3. request.elapsed + (IF op.fn = "calibrate" THEN QueryDeadline ELSE 0) <= Allowed(op.fn)
      BY <1>2, <2>3, <3>1, <3>2
    <3>4. op.fn # "clear_calibration"
      BY <2>1, <2>5 DEF TouchesCompensation
    <3>5. /\ request.elapsed <= Allowed(op.fn)
          /\ op.fn \in {"calibrate", "clear_calibration"} =>
               request.elapsed + QueryDeadline <= Allowed(op.fn)
      BY <1>2, <3>2, <3>3, <3>4
    <3>6. LaterOf(type, stage, op.fn) = (IF op.fn \in {"calibrate", "clear_calibration"}
                                           THEN GenericWait ELSE 0)
      BY <1>7, <3>4 DEF LaterOf
    <3>7. Conclude(op.ok, kept, keptBegun) /\ op' = op
      BY <1>7, <2>5
    <3>8. QED
      BY <1>1, <3>5, <3>6, <3>7, ConcludeStep
  <2>6. QED
    BY <2>4, <2>5
<1>8. CASE stage = "level" /\ Idle(kept, keptBegun) /\ UNCHANGED <<op, request>>
  <2>1. request.elapsed + patience <= Allowed(op.fn) /\ op.fn \in Functions
    BY <1>8 DEF IInv, Within, Serves, Functions
  <2>2. Allowed(op.fn) \in Nat
    BY <1>1, <2>1, AllowedSums
  <2>3. request.elapsed <= Allowed(op.fn)
    BY <1>1, <1>2, <2>1, <2>2
  <2>4. QED
    BY <1>1, <1>4, <1>8, <2>3, IdleStep
<1>9. QED
  BY <1>5, <1>6, <1>7, <1>8 DEF After

LEMMA ReturnsStep ==
  ASSUME IInv, Returns
  PROVE  IInv'
<1>1. /\ type \in Families /\ running \in JobType /\ running.ok \in BOOLEAN /\ NoJob \in JobType
      /\ request.elapsed \in Nat
  BY NewJobTypes DEF IInv, TypeOK, JobType
<1>2. UNCHANGED <<type, left>> /\ After(running.ok, NoJob, FALSE)
  BY DEF Returns
<1>3. WaitsFit /\ request.quiet =>
        request.elapsed + LaterOf(type, stage, op.fn) <= QuietWaits(type, op.fn)
  <2>1. Cost(running, left) = 0 /\ stage # "idle"
    BY DEF Cost, Returns
  <2>2. LaterOf(type, stage, op.fn) \in Nat /\ QuietWaits(type, op.fn) \in Nat
    BY <1>1, QuietSums
  <2>3. WaitsFit /\ request.quiet =>
          request.elapsed + LaterOf(type, stage, op.fn) + 0 <= QuietWaits(type, op.fn)
    BY <2>1, AtNow DEF IInv, QuickAt
  <2>4. QED
    BY <1>1, <2>2, <2>3
<1>4. QED
  BY <1>1, <1>2, <1>3, AfterStep

\* A quiet request does not give up: it has the headroom left.
LEMMA GivesUpStep ==
  ASSUME IInv, GivesUp
  PROVE  IInv'
<1>1. /\ type \in Families /\ running \in JobType /\ NoJob \in JobType /\ begun \in BOOLEAN
      /\ left \in Nat /\ patience = 0 /\ stage # "idle" /\ UNCHANGED <<type, left>>
  BY NewJobTypes DEF IInv, TypeOK, GivesUp
<1>2. ~(WaitsFit /\ request.quiet)
  <2> SUFFICES ASSUME WaitsFit, request.quiet PROVE FALSE
    OBVIOUS
  <2>1. request.free /\ running.spent = 0
    BY <1>1 DEF IInv, Quick
  <2>2. queued = NoJob
    BY <1>1, <2>1 DEF IInv, Slack
  <2>3. running.pass # "done"
    BY <2>2 DEF GivesUp
  <2>4. Fits(running, left, patience)
    BY <1>1, <2>1, <2>3 DEF IInv, Slack
  <2>5. /\ Rest(running) \in Nat /\ WaitOf(running) \in Nat /\ Headroom(running) \in Nat \ {0}
    BY <1>1, <2>4, RestTypes DEF Fits
  <2>6. Waiting(running, left) \in Nat
    BY <1>1, <2>5 DEF Waiting
  <2>7. QED
    BY <1>1, <2>1, <2>4, <2>5, <2>6 DEF Fits
<1>3. \E kept \in JobType, keptBegun \in BOOLEAN : After(FALSE, kept, keptBegun)
  BY <1>1 DEF GivesUp
<1>4. QED
  BY <1>1, <1>2, <1>3, AfterStep

LEMMA ReadStep ==
  ASSUME IInv, Read
  PROVE  IInv'
<1>1. /\ type \in Families /\ running \in JobType /\ begun \in BOOLEAN /\ left \in Nat
      /\ UNCHANGED <<type, left>>
  BY DEF IInv, TypeOK, Read, NewRequest
<1>2. /\ op' = [fn |-> "read", ok |-> TRUE]
      /\ request' = [elapsed |-> 0, quiet |-> (running = NoJob), free |-> (running = NoJob)]
  BY DEF Read, NewRequest, Free
<1>3. /\ op' \in [fn : Functions \cup {"read"}, ok : BOOLEAN] /\ op'.fn = "read"
      /\ request' \in [elapsed : Nat, quiet : BOOLEAN, free : BOOLEAN]
      /\ request'.elapsed = 0 /\ request'.free = (running = NoJob) /\ request'.quiet = request'.free
  BY <1>2
<1>4. PICK quiet \in Nat : quiet = (IF type = "Do" THEN GenericWait ELSE 0) + ReadWait[type]
  BY <1>1, Times
<1>5. SampleJob(type) \in JobType /\ Fresh(SampleJob(type), QueryDeadline, quiet)
  BY <1>1, <1>4, NewJobTypes, FreshSample
<1>6. QueryDeadline \in Nat /\ Submit("sample", SampleJob(type), QueryDeadline, running, begun)
  BY <1>1, Times DEF Read
<1>7. WithinAt("sample", QueryDeadline, request'.elapsed, op'.fn) /\ ServesAt("sample", op'.fn)
  BY <1>3, <1>6 DEF WithinAt, ServesAt
<1>8. request'.elapsed + LaterOf(type, "sample", op'.fn) + quiet <= QuietWaits(type, op'.fn)
  <2>1. /\ quiet + LaterOf(type, "sample", "read") = QuietWaits(type, "read")
        /\ LaterOf(type, "sample", "read") \in Nat /\ QuietWaits(type, "read") \in Nat
    BY <1>1, <1>4, QuietSums
  <2>2. QED
    BY <1>3, <1>4, <2>1
<1>9. "sample" \in {"sample", "exec", "check", "level"}
  OBVIOUS
<1>10. QED
  BY <1>1, <1>3, <1>4, <1>5, <1>6, <1>7, <1>8, <1>9, SubmitStep

LEMMA CallStep ==
  ASSUME IInv, NEW fn \in Functions, Call(fn)
  PROVE  IInv'
<1>1. /\ type \in Families /\ running \in JobType /\ begun \in BOOLEAN /\ left \in Nat
      /\ UNCHANGED <<type, left>>
  BY DEF IInv, TypeOK, Call, NewRequest
<1>2. /\ op' = [fn |-> fn, ok |-> TRUE]
      /\ request' = [elapsed |-> 0, quiet |-> (running = NoJob), free |-> (running = NoJob)]
  BY DEF Call, NewRequest, Free
<1>3. /\ op' \in [fn : Functions \cup {"read"}, ok : BOOLEAN] /\ op'.fn = fn
      /\ request' \in [elapsed : Nat, quiet : BOOLEAN, free : BOOLEAN]
      /\ request'.elapsed = 0 /\ request'.free = (running = NoJob) /\ request'.quiet = request'.free
  BY <1>2
<1>4. PICK values \in Values(type, fn) :
        Submit("exec", CallJob(type, fn, values), ExecDeadline(type, fn), running, begun)
  BY DEF Call, Values
<1>5. QuietCall(type, fn) \in Nat
  <2>1. FieldCount(type) \in Nat /\ GenericWait \in Nat /\ CalWait[type] \in Nat
    BY <1>1, Times
  <2>2. Generic(FieldCount(type)) \in Nat /\ Generic(6) \in Nat
    BY <2>1, GenericFacts
  <2>3. QED
    BY <2>1, <2>2 DEF QuietCall
<1>6. CallJob(type, fn, values) \in JobType
  <2>1. values \in 0..FieldCount(type)
    <3>1. FieldCount(type) \in 1..3
      BY <1>1, Times
    <3>2. QED
      BY <3>1 DEF Values
  <2>2. QED
    BY <1>1, <2>1, NewJobTypes
<1>7. Fresh(CallJob(type, fn, values), ExecDeadline(type, fn), QuietCall(type, fn))
  BY <1>1, FreshCall
<1>8. ExecDeadline(type, fn) \in Nat
  BY <1>1, Times
<1>9. WithinAt("exec", ExecDeadline(type, fn), request'.elapsed, op'.fn) /\ ServesAt("exec", op'.fn)
  BY <1>3, <1>8 DEF WithinAt, ServesAt, Functions
<1>10. request'.elapsed + LaterOf(type, "exec", op'.fn) + QuietCall(type, fn)
         <= QuietWaits(type, op'.fn)
  <2>1. /\ QuietCall(type, fn) + LaterOf(type, "exec", fn) = QuietWaits(type, fn)
        /\ LaterOf(type, "exec", fn) \in Nat /\ QuietWaits(type, fn) \in Nat
    BY <1>1, QuietSums
  <2>2. QED
    BY <1>3, <1>5, <2>1
<1>11. "exec" \in {"sample", "exec", "check", "level"}
  OBVIOUS
<1>12. QED
  BY <1>1, <1>3, <1>4, <1>5, <1>6, <1>7, <1>8, <1>9, <1>10, <1>11, SubmitStep
-------------------------------------------------------------------------------
(* The theorems.                                                           *)

LEMMA InvInit == Init => IInv
<1> SUFFICES ASSUME Init PROVE IInv
  OBVIOUS
<1>1. /\ type \in Families /\ running = NoJob /\ queued = NoJob /\ begun = FALSE /\ left = 0
      /\ stage = "idle" /\ op = [fn |-> "read", ok |-> TRUE] /\ patience = 0
      /\ request = [elapsed |-> 0, quiet |-> FALSE, free |-> FALSE]
  BY DEF Init
<1>2. NoJob \in JobType
  BY <1>1, NewJobTypes
<1>3. TypeOK
  BY <1>1, <1>2 DEF TypeOK
<1>4. Within
  <2>1. Allowed("read") = QueryDeadline + CheckDeadline /\ QueryDeadline \in Nat
        /\ CheckDeadline \in Nat
    BY <1>1, AllowedSums, Times
  <2>2. QED
    BY <1>1, <2>1 DEF Within
<1>5. Serves /\ Slack /\ Quick
  BY <1>1 DEF Serves, Slack, Quick
<1>6. QED
  BY <1>3, <1>4, <1>5 DEF IInv

LEMMA InvNext == IInv /\ [Next]_vars => IInv'
<1> SUFFICES ASSUME IInv, [Next]_vars PROVE IInv'
  OBVIOUS
<1>1. CASE Begin
  BY <1>1, BeginStep
<1>2. CASE Send
  BY <1>2, SendStep
<1>3. CASE ReadAnswer
  BY <1>3, ReadAnswerStep
<1>4. CASE Elapse
  BY <1>4, ElapseStep
<1>5. CASE Returns
  BY <1>5, ReturnsStep
<1>6. CASE GivesUp
  BY <1>6, GivesUpStep
<1>7. CASE Read
  BY <1>7, ReadStep
<1>8. CASE \E fn \in Functions : Call(fn)
  BY <1>8, CallStep
<1>9. CASE UNCHANGED vars
  <2>1. TypeOK'
    BY <1>9 DEF IInv, TypeOK, vars
  <2>2. Within' /\ Serves' /\ Slack' /\ Quick'
    BY <1>9, AtNow, AtNext DEF IInv, vars
  <2>3. QED
    BY <2>1, <2>2 DEF IInv
<1>10. QED
  BY <1>1, <1>2, <1>3, <1>4, <1>5, <1>6, <1>7, <1>8, <1>9 DEF Next, Worker, Handler

\* The invariant holds in every state that the jobs and the handler reach.
THEOREM Invariance == Spec => []IInv
BY InvInit, InvNext, PTL DEF Spec

\* Deadlines are kept in type: in particular the patience of a submit() and the
\* wait for an answer never go below zero.
THEOREM TypeCorrect == Spec => []TypeOK
<1>1. IInv => TypeOK
  BY DEF IInv
<1>2. QED
  BY <1>1, Invariance, PTL

\* read() and call() return within the deadlines of the submit()s they make, for
\* any waits and any timeout_ms, and whatever the device and an earlier job do.
THEOREM RequestIsBounded == Spec => []RequestBounded
<1>1. IInv => RequestBounded
  <2> SUFFICES ASSUME IInv PROVE RequestBounded
    OBVIOUS
  <2>1. /\ type \in Families /\ patience \in Nat /\ request.elapsed \in Nat
        /\ op.fn \in Functions \cup {"read"}
        /\ stage \in {"idle", "sample", "exec", "check", "level"}
    BY DEF IInv, TypeOK
  <2>2. /\ QueryDeadline \in Nat /\ CheckDeadline \in Nat /\ ExecDeadline(type, op.fn) \in Nat
    BY <2>1, Times
  <2>3. CASE op.fn = "read"
    <3>1. Allowed(op.fn) = QueryDeadline + CheckDeadline /\ FirstDeadline = QueryDeadline
      BY <2>1, <2>3, AllowedSums DEF FirstDeadline
    <3>2. QED
      BY <2>1, <2>2, <3>1 DEF IInv, Within, RequestBounded
  <2>4. CASE op.fn # "read"
    <3>1. FirstDeadline = ExecDeadline(type, op.fn) /\ op.fn \in Functions
      BY <2>1, <2>4 DEF FirstDeadline
    <3>2. Allowed(op.fn) \in Nat /\ ExecDeadline(type, op.fn) <= Allowed(op.fn)
      BY <2>1, <3>1, AllowedSums
    <3>3. stage = "check" => ExecDeadline(type, op.fn) + CheckDeadline <= Allowed(op.fn)
      <4>1. stage = "check" => ExecDeadline(type, op.fn) + CheckDeadline
              + (IF op.fn = "calibrate" THEN QueryDeadline ELSE 0) <= Allowed(op.fn)
        BY <2>1, <2>4, <3>1, AllowedSums DEF IInv, Serves, TouchesCompensation
      <4>2. QED
        BY <2>2, <3>2, <4>1
    <3>4. QED
      BY <2>1, <2>2, <3>1, <3>2, <3>3 DEF IInv, Within, RequestBounded
  <2>5. QED
    BY <2>3, <2>4
<1>2. QED
  BY <1>1, Invariance, PTL

\* A job that has the bus to itself is given up only after the device has kept it
\* waiting for the whole headroom, whatever its commands are, as long as the
\* configured latency covers a query and a reading fits into the headroom.
THEOREM LateForCause ==
  ASSUME WaitsFit
  PROVE  Spec => []LateHasCause
<1>1. IInv => LateHasCause
  <2> SUFFICES ASSUME IInv, stage # "idle", request.free, patience = 0, running.pass # "done"
               PROVE  running.spent >= kResponseHeadroomMs
    BY DEF LateHasCause
  <2>1. type \in Families /\ running \in JobType /\ left \in Nat
    BY DEF IInv, TypeOK
  <2>2. Fits(running, left, patience)
    BY DEF IInv, Slack
  <2>3. /\ Rest(running) \in Nat /\ WaitOf(running) \in Nat /\ running.spent \in Nat
        /\ Headroom(running) \in Nat \ {0}
    BY <2>1, <2>2, RestTypes DEF Fits
  <2>4. Waiting(running, left) \in Nat
    BY <2>1, <2>3 DEF Waiting
  <2>5. running.spent >= Headroom(running)
    BY <2>2, <2>3, <2>4 DEF Fits
  <2>6. running.pass \notin {"outputs", "reading"}
    BY <2>2, <2>3, <2>5 DEF Fits, JobOk
  <2>7. QED
    BY <2>5, <2>6 DEF Headroom
<1>2. QED
  BY <1>1, Invariance, PTL

\* Nothing but a busy bus, a device that is not ready or a lost value makes a
\* request exceed the runtime's timeout, if the waits of its commands add up to
\* no more than that.
THEOREM QuietInTime ==
  ASSUME WaitsFit, QuietWaitsFit
  PROVE  Spec => []QuietRequestInTime
<1>1. IInv => QuietRequestInTime
  <2> SUFFICES ASSUME IInv, request.quiet PROVE request.elapsed <= CallTimeout
    BY DEF QuietRequestInTime
  <2>1. /\ type \in Families /\ running \in JobType /\ left \in Nat /\ request.elapsed \in Nat
        /\ op.fn \in Functions \cup {"read"} /\ CallTimeout \in Nat
    BY DeadlinesAssumption DEF IInv, TypeOK, DeadlinesAssumption
  <2>2. /\ LaterOf(type, stage, op.fn) \in Nat /\ QuietWaits(type, op.fn) \in Nat
        /\ QuietWaits(type, op.fn) <= CallTimeout
    BY <2>1, QuietSums DEF QuietWaitsFit
  <2>3. (IF stage = "idle" THEN 0 ELSE Cost(running, left)) \in Nat
    <3>1. CASE stage = "idle" \/ running.pass = "done"
      BY <3>1 DEF Cost
    <3>2. CASE stage # "idle" /\ running.pass # "done"
      <4>1. request.free
        BY <3>2 DEF IInv, Quick
      <4>2. JobOk(running)
        BY <3>2, <4>1 DEF IInv, Slack, Fits
      <4>3. QuietRest(running) \in Nat /\ Waiting(running, left) \in Nat
        BY <2>1, <4>2, RestTypes DEF Waiting
      <4>4. QED
        BY <3>2, <4>3 DEF Cost
    <3>3. QED
      BY <3>1, <3>2
  <2>4. request.elapsed + LaterOf(type, stage, op.fn)
          + (IF stage = "idle" THEN 0 ELSE Cost(running, left)) <= QuietWaits(type, op.fn)
    BY DEF IInv, Quick
  <2>5. QED
    BY <2>1, <2>2, <2>3, <2>4
<1>2. QED
  BY <1>1, Invariance, PTL
================================================================================
