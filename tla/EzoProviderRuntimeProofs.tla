------------------------ MODULE EzoProviderRuntimeProofs ------------------------
(***************************************************************************)
(* Proofs about EzoProviderRuntime for any compensation fields, values and *)
(* levels, and any number of calls, faults and power cuts.                 *)
(***************************************************************************)
EXTENDS EzoProviderRuntime, SequenceTheorems, TLAPS
-------------------------------------------------------------------------------
(* The inductive invariant.                                                *)

CalFns     == {"calibrate", "clear_calibration"}
Senders    == {"check", "write", "do_cal"}     \* kinds of job that change `held'
Calibrators == {"do_cal", "ph_cal", "clear"}   \* ... and `level'

GhostOK == ghost \in [calm : BOOLEAN, clean : BOOLEAN, known : BOOLEAN,
                      before : [FieldSet -> Settings \cup {"ppt"}], resends : Nat]

\* The jobs on the bus: behind one that was abandoned while it ran, at most the
\* awaited one, which has not begun.
Shape ==
  /\ stage = "idle" => Len(line) <= 1
  /\ Len(line) = 2 => line[2].step = "new"
  /\ Len(line) = 2 \/ (stage = "idle" /\ Len(line) = 1) => line[1].step \notin {"new", "done"}

\* The steps of a job of each kind.
StepsOf(kind) ==
  CASE kind = "check"  -> {"new", "query", "resend", "requery", "done"}
    [] kind = "write"  -> {"new", "send", "done"}
    [] kind = "do_cal" -> {"new", "defaults", "command", "restore", "done"}
    [] OTHER           -> {"new", "command", "done"}

JobOk(j) ==
  /\ j.step \in StepsOf(j.kind)
  /\ j.kind = "do_cal" => j.vals = Defaults
  /\ j.reapplied => j.step \in {"requery", "done"}
  /\ j.step \in {"query", "requery"} => j.todo \subseteq FieldsOf(dev.type)
  /\ j.step \in {"send", "resend", "defaults"} => j.todo \subseteq Given(j.vals)
  /\ j.step = "restore" => j.todo \subseteq Given(j.restore)
  /\ \A f \in FieldSet \ FieldsOf(dev.type) : j.seen[f] = "none"

JobsOk == \A i \in 1..Len(line) : JobOk(line[i])

KindOf(fn) == CASE fn = "set_compensation"                 -> "write"
                [] fn = "calibrate" /\ dev.type = "Do"     -> "do_cal"
                [] fn = "calibrate" /\ dev.type = "Ph"     -> "ph_cal"
                [] fn = "clear_calibration"                -> "clear"
                [] OTHER                                   -> "control"

\* The awaited job is the one that the handler's place in the code submitted.
Awaits ==
  LET j == line[Len(line)]
  IN /\ stage = "sample" => j.kind = "sample" /\ op.fn \in {"boot", "read"}
     /\ stage = "level"  => j.kind = "level"
     /\ stage = "check"  => j.kind = "check" /\ j.vals = dev.set
     /\ stage = "exec"   => /\ op.fn \in Functions /\ j.kind = KindOf(op.fn)
                            /\ j.kind = "do_cal" => j.restore = op.restore

\* The slots of the sample show what was last read.
Shows == dev.shown.comp = dev.read /\ dev.shown.level = dev.level

\* A check that has run under power knows what it claims to know.
CheckKnows(j) ==
  /\ j.step \in {"query", "requery"} =>
       \A f \in FieldsOf(dev.type) \ j.todo : j.seen[f] = Reported(held[f])
  /\ j.step = "resend" => \A f \in Given(j.vals) \ j.todo : held[f] = j.vals[f]
  /\ j.step = "requery" => \A f \in Given(j.vals) : held[f] = j.vals[f]
  /\ j.step = "done" /\ j.status = "Ok" =>
       \A f \in FieldSet : /\ j.seen[f] \in {"none", held[f]}
                           /\ j.vals[f] \in {"none", held[f]}

\* What holds of the running job.
RunOk(j) ==
  /\ j.kind = "check" /\ ghost.calm => CheckKnows(j)
  /\ j.kind = "do_cal" /\ j.step = "defaults" =>
       \A f \in FieldSet \ j.todo : held[f] = Default
  /\ j.kind = "do_cal" /\ j.step = "command" => held = Defaults
  /\ j.kind = "level" /\ j.step = "done" /\ j.status = "Ok" => j.seenLevel = level

Running == Len(line) > 0 => RunOk(line[1])

\* No request that may change the compensation is between its job and its check.
Settled == stage # "check" /\ ~(stage = "exec" /\ TouchesCompensation)

\* What was read is what the probe holds, and no job is left that could change it.
Published ==
  Settled /\ dev.read # Nothing =>
    /\ \A i \in 1..Len(line) : line[i].kind \notin Senders
    /\ ghost.calm => \A f \in FieldSet : /\ dev.read[f] \in {"none", held[f]}
                                         /\ dev.set[f] \in {"none", held[f]}

NoCalibrator == \A i \in 1..Len(line) : line[i].kind \notin Calibrators

\* The same of the level, after a calibration that succeeded.
LevelKept ==
  /\ stage = "level" \/ op.fn = "boot" => NoCalibrator
  /\ stage = "check" /\ op.fn \in CalFns /\ op.ok => NoCalibrator
  /\ dev.lastCall.ok /\ dev.lastCall.fn \in CalFns /\ (stage = "idle" \/ op.fn \notin CalFns) =>
       NoCalibrator /\ dev.level \subseteq {level}

\* A DO calibration that has met no fault so far.
Undisturbed == op.fn = "calibrate" /\ dev.type = "Do" /\ ghost.clean

\* It has sent back the values to restore, or its job j is about to.
GaveBack(j) ==
  /\ stage # "exec" => \A f \in Given(op.restore) : held[f] = op.restore[f]
  /\ stage = "exec" /\ j.step = "restore" =>
       \A f \in Given(op.restore) \ j.todo : held[f] = op.restore[f]
  /\ stage = "exec" /\ j.step = "done" =>
       \A f \in Given(op.restore) : held[f] = op.restore[f]

GivesBack ==
  Undisturbed =>
    /\ stage = "idle" => line = <<>>
    /\ Len(line) < 2
    /\ \A f \in FieldSet :
         /\ dev.set[f] # "none" => op.restore[f] = dev.set[f]
         /\ dev.set[f] = "none" /\ op.restore[f] # "none" /\ ghost.known =>
              op.restore[f] = ghost.before[f]
    /\ GaveBack(line[1])

\* Each re-send that is counted, or that an awaited check will report, took place.
Counted ==
  dev.reapplied + (IF stage = "check" /\ line[Len(line)].reapplied THEN 1 ELSE 0) <= ghost.resends

IInv == /\ TypeOK /\ GhostOK /\ Shape /\ JobsOk /\ Awaits /\ Shows /\ Running
        /\ Published /\ LevelKept /\ GivesBack /\ Counted
-------------------------------------------------------------------------------
(* Facts about the operators.                                              *)

\* What the constants say about the fields.
LEMMA FieldFacts ==
  /\ Default \in Settings /\ "none" \notin Settings /\ "ppt" \notin Settings
  /\ Nothing \in Compensation /\ Defaults \in Compensation
  /\ Defaults \in [FieldSet -> Settings \cup {"ppt"}]
  /\ Given(Defaults) = FieldSet /\ Given(Nothing) = {}
  /\ \A t \in {"Ph", "Do"} : FieldsOf(t) \subseteq FieldSet
  /\ \A c \in Compensation : Given(c) \subseteq FieldSet
<1>1. Default \in Settings /\ "none" \notin Settings /\ "ppt" \notin Settings
  BY ProviderAssumption DEF ProviderAssumption
<1>2. Nothing \in Compensation /\ Defaults \in Compensation
  BY <1>1 DEF Nothing, Defaults, Compensation
<1>3. Defaults \in [FieldSet -> Settings \cup {"ppt"}]
  BY <1>1 DEF Defaults
<1>4. Given(Defaults) = FieldSet /\ Given(Nothing) = {}
  BY <1>1 DEF Given, Defaults, Nothing
<1>5. Head(Fields) \in FieldSet
  BY ProviderAssumption DEF ProviderAssumption, FieldSet, Range
<1>6. QED
  BY <1>1, <1>2, <1>3, <1>4, <1>5 DEF FieldsOf, Given

\* A job k that is job j further on.
Further(j, k) == /\ k \in JobType /\ k.step # "new"
                 /\ k.kind = j.kind /\ k.vals = j.vals /\ k.restore = j.restore

\* The worker puts back job k: it takes the place of the running one, or makes
\* room if it is done and nobody waits for it.
LEMMA PutLine ==
  ASSUME line \in Seq(JobType), Len(line) \in {1, 2}, NEW k \in JobType, Put(k)
  PROVE  /\ line' \in Seq(JobType)
         /\ \/ /\ k.step = "done" /\ Abandoned
               /\ Len(line') = Len(line) - 1 /\ (Len(line) = 2 => line'[1] = line[2])
            \/ /\ ~(k.step = "done" /\ Abandoned)
               /\ Len(line') = Len(line) /\ line'[1] = k
               /\ (Len(line) = 2 => line'[2] = line[2])
<1>1. CASE k.step = "done" /\ Abandoned
  BY <1>1 DEF Put
<1>2. CASE ~(k.step = "done" /\ Abandoned)
  BY <1>2 DEF Put
<1>3. QED
  BY <1>1, <1>2

\* The steps of a job keep it well formed and leave its values alone.
LEMMA DoneOk ==
  ASSUME dev.type \in {"Ph", "Do"}, NEW j \in JobType, JobOk(j), NEW s \in {"Ok", "Failed"}
  PROVE  Further(j, Done(j, s)) /\ JobOk(Done(j, s))
BY DEF Done, Further, JobOk, JobType, StepsOf

LEMMA RestoreOk ==
  ASSUME dev.type \in {"Ph", "Do"}, NEW j \in JobType, JobOk(j), NEW s \in {"Ok", "Failed"},
         j.kind = "do_cal", ~j.reapplied
  PROVE  Further(j, Restore(j, s)) /\ JobOk(Restore(j, s))
<1>1. CASE Given(j.restore) = {}
  BY <1>1, DoneOk DEF Restore
<1>2. CASE Given(j.restore) # {}
  <2>1. Given(j.restore) \subseteq FieldSet
    BY FieldFacts DEF JobType
  <2>2. QED
    BY <1>2, <2>1 DEF Restore, Further, JobOk, JobType, StepsOf
<1>3. QED
  BY <1>1, <1>2

LEMMA FirstStepOk ==
  ASSUME dev.type \in {"Ph", "Do"}, NEW j \in JobType, JobOk(j), j.step = "new"
  PROVE  /\ Further(j, FirstStep(j)) /\ JobOk(FirstStep(j)) /\ FirstStep(j).step # "done"
         /\ FirstStep(j).reapplied = j.reapplied
<1>1. Given(j.vals) \subseteq FieldSet /\ FieldsOf(dev.type) \subseteq FieldSet
  BY FieldFacts DEF JobType
<1>2. CASE j.kind = "check"
  BY <1>1, <1>2 DEF FirstStep, Further, JobOk, JobType, StepsOf
<1>3. CASE j.kind = "write"
  BY <1>1, <1>3 DEF FirstStep, Further, JobOk, JobType, StepsOf
<1>4. CASE j.kind = "do_cal"
  BY <1>1, <1>4 DEF FirstStep, Further, JobOk, JobType, StepsOf
<1>5. CASE j.kind \notin {"check", "write", "do_cal"}
  BY <1>1, <1>5 DEF FirstStep, Further, JobOk, JobType, StepsOf
<1>6. QED
  BY <1>2, <1>3, <1>4, <1>5

LEMMA NextPassOk ==
  ASSUME dev.type \in {"Ph", "Do"}, NEW j \in JobType, JobOk(j),
         j.step \in {"query", "requery", "send", "resend", "defaults", "restore"}, j.todo = {}
  PROVE  Further(j, NextPass(j)) /\ JobOk(NextPass(j))
<1>1. Given(j.vals) \subseteq FieldSet /\ FieldsOf(dev.type) \subseteq FieldSet
  BY FieldFacts DEF JobType
<1>2. CASE j.step = "query" /\ HoldsAll(j.vals, j.seen)
  BY <1>2, DoneOk DEF NextPass
<1>3. CASE j.step = "query" /\ ~HoldsAll(j.vals, j.seen)
  BY <1>1, <1>3 DEF NextPass, Further, JobOk, JobType, StepsOf
<1>4. CASE j.step = "resend"
  BY <1>1, <1>4 DEF NextPass, Further, JobOk, JobType, StepsOf
<1>5. CASE j.step = "defaults"
  BY <1>1, <1>5 DEF NextPass, Further, JobOk, JobType, StepsOf
<1>6. CASE j.step \in {"requery", "send", "restore"}
  <2>1. j.status \in {"Ok", "Failed"} /\ NextPass(j) = Done(j, j.status)
    BY <1>6 DEF NextPass, JobType
  <2>2. QED
    BY <2>1, DoneOk
<1>7. QED
  BY <1>2, <1>3, <1>4, <1>5, <1>6

LEMMA PopOk ==
  ASSUME dev.type \in {"Ph", "Do"}, NEW j \in JobType, JobOk(j), NEW f \in FieldSet,
         j.step \in {"query", "requery", "send", "resend", "defaults", "restore"}
  PROVE  Further(j, Pop(j, f)) /\ JobOk(Pop(j, f))
<1> DEFINE k == [j EXCEPT !.todo = @ \ {f}]
<1>1. /\ k \in JobType /\ JobOk(k) /\ k.todo = j.todo \ {f} /\ k.step = j.step
      /\ k.kind = j.kind /\ k.vals = j.vals /\ k.restore = j.restore
  BY DEF JobType, JobOk, StepsOf
<1>2. CASE k.todo = {}
  <2>1. Further(k, NextPass(k)) /\ JobOk(NextPass(k))
    BY <1>1, <1>2, NextPassOk
  <2>2. QED
    BY <1>1, <1>2, <2>1 DEF Pop, Further
<1>3. CASE k.todo # {}
  BY <1>1, <1>3 DEF Pop, Further
<1>4. QED
  BY <1>2, <1>3

LEMMA BrokenOk ==
  ASSUME dev.type \in {"Ph", "Do"}, NEW j \in JobType, JobOk(j), j.step # "new"
  PROVE  Further(j, Broken(j)) /\ JobOk(Broken(j))
<1>1. CASE j.step = "defaults"
  <2>1. j.kind = "do_cal" /\ ~j.reapplied
    BY <1>1 DEF JobOk, JobType, StepsOf
  <2>2. QED
    BY <1>1, <2>1, RestoreOk DEF Broken
<1>2. CASE j.step = "restore"
  <2>1. j.status \in {"Ok", "Failed"}
    BY DEF JobType
  <2>2. QED
    BY <1>2, <2>1, DoneOk DEF Broken
<1>3. CASE j.step \notin {"defaults", "restore"}
  BY <1>3, DoneOk DEF Broken
<1>4. QED
  BY <1>1, <1>2, <1>3

LEMMA AfterResponseOk ==
  ASSUME dev.type \in {"Ph", "Do"}, NEW j \in JobType, JobOk(j), j.step = "command",
         NEW s \in {"Ok", "Failed"}
  PROVE  Further(j, AfterResponse(j, s)) /\ JobOk(AfterResponse(j, s))
<1>1. ~j.reapplied
  BY DEF JobOk, JobType
<1>2. QED
  BY <1>1, DoneOk, RestoreOk DEF AfterResponse

\* A job just submitted.
LEMMA NewJobOk ==
  ASSUME dev.type \in Families,
         NEW kind \in {"sample", "level", "check", "write", "do_cal", "ph_cal", "clear",
                       "control"},
         NEW vals \in Compensation, NEW restore \in Compensation,
         kind = "do_cal" => vals = Defaults
  PROVE  /\ Job(kind, vals, restore) \in JobType /\ JobOk(Job(kind, vals, restore))
         /\ Job(kind, vals, restore).kind = kind /\ Job(kind, vals, restore).vals = vals
         /\ Job(kind, vals, restore).restore = restore
         /\ Job(kind, vals, restore).step = "new" /\ ~Job(kind, vals, restore).reapplied
<1>1. Nothing \in Compensation /\ \A f \in FieldSet : Nothing[f] = "none"
  BY FieldFacts DEF Nothing
<1>2. MaxLevel[dev.type] \in Nat
  BY ProviderAssumption DEF ProviderAssumption
<1>3. QED
  BY <1>1, <1>2 DEF Job, JobType, JobOk, StepsOf
-------------------------------------------------------------------------------
(* The initial states.                                                     *)

LEMMA InvInit == Init => IInv
<1> SUFFICES ASSUME NEW type \in Families, InitOf(type)
             PROVE  IInv
  BY DEF Init
<1>1. /\ dev.type = type /\ type \in Families /\ MaxLevel[type] \in Nat /\ MaxCalls[type] \in Nat
      /\ MaxFaults \in Nat /\ MaxCuts \in Nat /\ CheckEvery \in Nat \ {0, 1}
  BY ProviderAssumption DEF ProviderAssumption, InitOf
<1>2. SampleJob \in JobType /\ JobOk(SampleJob) /\ SampleJob.kind = "sample"
      /\ SampleJob.step = "new" /\ ~SampleJob.reapplied
  BY <1>1, FieldFacts, NewJobOk DEF SampleJob
<1>3. line \in Seq(JobType) /\ Len(line) = 1 /\ line[1] = SampleJob /\ stage = "sample"
  BY <1>2 DEF InitOf
<1>4. /\ held \in [FieldSet -> Settings \cup {"ppt"}] /\ level \in 0..MaxLevel[type]
      /\ op.fn = "boot" /\ op \in [fn : Functions \cup {"boot", "read"}, args : Compensation,
                                   restore : Compensation, ok : BOOLEAN]
  BY FieldFacts DEF InitOf, Request
<1>5. dev \in [type : Families, set : Compensation, read : Compensation, level : Levels,
              has_sample : BOOLEAN, last_read_ok : BOOLEAN,
              successes : 0..(CheckEvery - 1), reapplied : Nat,
              lastCall : [fn : Functions \cup {"none"}, ok : BOOLEAN],
              shown : [comp : Compensation, level : Levels]]
  BY <1>1, FieldFacts DEF InitOf, Levels
<1>6. TypeOK
  BY <1>1, <1>3, <1>4, <1>5 DEF TypeOK, InitOf
<1>7. GhostOK
  BY <1>4 DEF GhostOK, InitOf
<1>8. Shape /\ JobsOk /\ Awaits /\ Running
  BY <1>2, <1>3, <1>4 DEF Shape, JobsOk, Awaits, Running, RunOk
<1>9. Shows /\ Published /\ Counted
  BY <1>2, <1>3 DEF Shows, Published, Counted, InitOf
<1>10. LevelKept /\ GivesBack
  BY <1>2, <1>3, <1>4 DEF LevelKept, NoCalibrator, Calibrators, GivesBack, Undisturbed, InitOf, CalFns
<1>11. QED
  BY <1>6, <1>7, <1>8, <1>9, <1>10 DEF IInv
-------------------------------------------------------------------------------
(* The steps of the worker.                                                *)

\* What every step of the worker keeps: the running job moves on to k.
LEMMA WorkerFrame ==
  ASSUME IInv, Len(line) \in {1, 2}, NEW k, Further(line[1], k), JobOk(k), Put(k),
         UNCHANGED <<stage, op, dev>>,
         held' \in [FieldSet -> Settings \cup {"ppt"}], level' \in 0..MaxLevel[dev.type],
         budget' \in [calls : 0..MaxCalls[dev.type], faults : 0..MaxFaults, cuts : 0..MaxCuts]
  PROVE  /\ TypeOK' /\ Shape' /\ JobsOk' /\ Awaits' /\ Shows'
         /\ Len(line') <= Len(line)
         /\ \A i \in 1..Len(line') : \E m \in 1..Len(line) : line'[i].kind = line[m].kind
         /\ Len(line') > 0 => line'[1] = k \/ line'[1].step = "new"
         /\ stage # "idle" => \/ line'[Len(line')] = k /\ Len(line) = 1
                              \/ line'[Len(line')] = line[Len(line)] /\ Len(line) = 2
<1>1. /\ line \in Seq(JobType) /\ k \in JobType /\ k.step # "new" /\ k.kind = line[1].kind
      /\ k.vals = line[1].vals /\ k.restore = line[1].restore
  BY DEF IInv, TypeOK, Further
<1>2. /\ line' \in Seq(JobType)
      /\ \/ /\ k.step = "done" /\ Abandoned
            /\ Len(line') = Len(line) - 1 /\ (Len(line) = 2 => line'[1] = line[2])
         \/ /\ ~(k.step = "done" /\ Abandoned)
            /\ Len(line') = Len(line) /\ line'[1] = k
            /\ (Len(line) = 2 => line'[2] = line[2])
  BY <1>1, PutLine
<1>3. Shape /\ JobsOk /\ (Len(line) = 2 => line[2].step = "new" /\ stage # "idle")
  BY DEF IInv, Shape
<1>4. /\ Len(line') \in 0..2 /\ Len(line') <= Len(line) /\ (stage # "idle" => Len(line') > 0)
      /\ Len(line') = 1 => line'[1] = k \/ (Len(line) = 2 /\ line'[1] = line[2])
      /\ Len(line') = 2 => line'[1] = k /\ Len(line) = 2 /\ line'[2] = line[2]
  <2>1. CASE Len(line) = 1
    <3>1. CASE k.step = "done" /\ stage = "idle"
      <4>1. Len(line') = 0
        BY <1>2, <2>1, <3>1 DEF Abandoned
      <4>2. QED
        BY <2>1, <3>1, <4>1
    <3>2. CASE ~(k.step = "done" /\ stage = "idle")
      <4>1. Len(line') = 1 /\ line'[1] = k
        BY <1>2, <2>1, <3>2 DEF Abandoned
      <4>2. QED
        BY <2>1, <3>2, <4>1
    <3>3. QED
      BY <3>1, <3>2
  <2>2. CASE Len(line) = 2
    <3>1. CASE k.step = "done"
      <4>1. Len(line') = 1 /\ line'[1] = line[2]
        BY <1>2, <2>2, <3>1 DEF Abandoned
      <4>2. QED
        BY <2>2, <3>1, <4>1
    <3>2. CASE k.step # "done"
      <4>1. Len(line') = 2 /\ line'[1] = k /\ line'[2] = line[2]
        BY <1>2, <2>2, <3>2 DEF Abandoned
      <4>2. QED
        BY <2>2, <3>2, <4>1
    <3>3. QED
      BY <3>1, <3>2
  <2>3. QED
    BY <2>1, <2>2
<1>5. TypeOK'
  <2>1. JobType' = JobType /\ Levels' = Levels
    BY DEF JobType, Levels
  <2>2. stage' # "idle" => line' # <<>>
    BY <1>4
  <2>3. QED
    BY <1>2, <1>4, <2>1, <2>2 DEF IInv, TypeOK
<1>6. Shape'
  BY <1>1, <1>2, <1>3 DEF Shape, Abandoned
<1>7. \A i \in 1..Len(line') : line'[i] = k \/ (Len(line) = 2 /\ line'[i] = line[2])
  BY <1>4
<1>8. JobsOk'
  <2>1. \A j : JobOk(j)' <=> JobOk(j)
    BY DEF JobOk
  <2>2. \A i \in 1..Len(line') : JobOk(line'[i])
    BY <1>3, <1>7 DEF JobsOk
  <2>3. QED
    BY <2>1, <2>2 DEF JobsOk
<1>9. stage # "idle" => \/ line'[Len(line')] = k /\ Len(line) = 1
                        \/ line'[Len(line')] = line[Len(line)] /\ Len(line) = 2
  BY <1>2, <1>3 DEF Abandoned
<1>10. Awaits'
  BY <1>1, <1>9 DEF IInv, Awaits, KindOf
<1>11. QED
  BY <1>1, <1>2, <1>3, <1>4, <1>5, <1>6, <1>7, <1>8, <1>9, <1>10 DEF IInv, Shows

\* A step of the worker keeps the invariant when what it does to the probe is
\* what its job may do, and when it leaves the job's own invariants true.
LEMMA WorkerStep ==
  ASSUME IInv, Len(line) \in {1, 2}, NEW k, Further(line[1], k), JobOk(k), Put(k),
         UNCHANGED <<stage, op, dev>>,
         held' \in [FieldSet -> Settings \cup {"ppt"}], level' \in 0..MaxLevel[dev.type],
         budget' \in [calls : 0..MaxCalls[dev.type], faults : 0..MaxFaults, cuts : 0..MaxCuts],
         GhostOK',
         held' = held \/ line[1].kind \in Senders,
         ghost'.calm => ghost.calm \/ line[1].kind \in Senders,
         level' = level \/ line[1].kind \in Calibrators,
         ghost'.clean => ghost.clean,
         ghost'.known = ghost.known, ghost'.before = ghost.before,
         ghost'.resends >= ghost.resends,
         k.reapplied => line[1].reapplied \/ ghost'.resends = ghost.resends + 1,
         RunOk(k)', Undisturbed' => GaveBack(k)'
  PROVE  IInv'
<1> USE DEF IInv
<1>1. /\ TypeOK' /\ Shape' /\ JobsOk' /\ Awaits' /\ Shows'
      /\ Len(line') <= Len(line)
      /\ \A i \in 1..Len(line') : \E m \in 1..Len(line) : line'[i].kind = line[m].kind
      /\ Len(line') > 0 => line'[1] = k \/ line'[1].step = "new"
      /\ stage # "idle" => \/ line'[Len(line')] = k /\ Len(line) = 1
                           \/ line'[Len(line')] = line[Len(line)] /\ Len(line) = 2
  BY WorkerFrame
<1>2. Running'
  <2>1. ASSUME NEW j, j.step = "new" PROVE RunOk(j)'
    BY <2>1 DEF RunOk, CheckKnows
  <2>2. QED
    BY <1>1, <2>1 DEF Running
<1>3. Published'
  <2>1. CASE line[1].kind \in Senders
    <3>1. ~(Settled' /\ dev'.read # Nothing)
      BY <2>1 DEF Published, Settled, TouchesCompensation
    <3>2. QED
      BY <3>1 DEF Published, Nothing
  <2>2. CASE line[1].kind \notin Senders
    BY <1>1, <2>2 DEF Published, Settled, TouchesCompensation, Nothing
  <2>3. QED
    BY <2>1, <2>2
<1>4. LevelKept'
  <2>1. NoCalibrator => line[1].kind \notin Calibrators
    BY DEF NoCalibrator
  <2>2. NoCalibrator => NoCalibrator'
    BY <1>1 DEF NoCalibrator, Calibrators
  <2>3. QED
    BY <2>1, <2>2 DEF LevelKept
<1>5. GivesBack'
  <2> SUFFICES ASSUME Undisturbed'
               PROVE  GivesBack'
    BY DEF GivesBack
  <2>1. Undisturbed
    BY DEF Undisturbed
  <2>2. stage # "idle" /\ Len(line) = 1
    <3>1. line # <<>>
      OBVIOUS
    <3>2. QED
      BY <2>1, <3>1 DEF GivesBack
  <2>3. line'[1] = k /\ Len(line') = 1
    BY <1>1, <2>2 DEF TypeOK
  <2>4. QED
    BY <2>1, <2>2, <2>3 DEF GivesBack
<1>6. Counted'
  <2>1. dev.reapplied \in Nat /\ ghost.resends \in Nat /\ ghost'.resends \in Nat
    BY DEF TypeOK, GhostOK
  <2>2. CASE stage = "check"
    <3>1. CASE Len(line) = 1
      BY <1>1, <2>1, <2>2, <3>1 DEF Counted
    <3>2. CASE Len(line) = 2
      BY <1>1, <2>1, <2>2, <3>2 DEF Counted
    <3>3. QED
      BY <3>1, <3>2
  <2>3. CASE stage # "check"
    BY <2>1, <2>3 DEF Counted
  <2>4. QED
    BY <2>2, <2>3
<1>7. QED
  BY <1>1, <1>2, <1>3, <1>4, <1>5, <1>6

LEMMA FaultOk ==
  ASSUME IInv, Fault
  PROVE  /\ budget' \in [calls : 0..MaxCalls[dev.type], faults : 0..MaxFaults, cuts : 0..MaxCuts]
         /\ GhostOK' /\ ghost'.clean = FALSE /\ ghost'.calm = ghost.calm
         /\ ghost'.known = ghost.known /\ ghost'.before = ghost.before
         /\ ghost'.resends = ghost.resends
<1>1. /\ budget \in [calls : 0..MaxCalls[dev.type], faults : 0..MaxFaults, cuts : 0..MaxCuts]
      /\ ghost \in [calm : BOOLEAN, clean : BOOLEAN, known : BOOLEAN,
                    before : [FieldSet -> Settings \cup {"ppt"}], resends : Nat]
      /\ MaxFaults \in Nat
  BY ProviderAssumption DEF IInv, TypeOK, GhostOK, ProviderAssumption
<1>2. budget' \in [calls : 0..MaxCalls[dev.type], faults : 0..MaxFaults, cuts : 0..MaxCuts]
  <2>1. budget.faults - 1 \in 0..MaxFaults
    BY <1>1 DEF Fault
  <2>2. QED
    BY <1>1, <2>1 DEF Fault
<1>3. /\ GhostOK' /\ ghost'.clean = FALSE /\ ghost'.calm = ghost.calm
      /\ ghost'.known = ghost.known /\ ghost'.before = ghost.before
      /\ ghost'.resends = ghost.resends
  BY <1>1 DEF Fault, GhostOK
<1>4. QED
  BY <1>2, <1>3

\* The job at the head of the line, and what the invariant says of it.
LEMMA RunningJob ==
  ASSUME IInv, line # <<>>
  PROVE  /\ Len(line) \in {1, 2} /\ line[1] \in JobType /\ JobOk(line[1]) /\ RunOk(line[1])
         /\ dev.type \in {"Ph", "Do"} /\ dev.type \in Families
         /\ held \in [FieldSet -> Settings \cup {"ppt"}] /\ level \in 0..MaxLevel[dev.type]
         /\ MaxLevel[dev.type] \in Nat \ {0}
         /\ budget \in [calls : 0..MaxCalls[dev.type], faults : 0..MaxFaults, cuts : 0..MaxCuts]
         /\ ghost \in [calm : BOOLEAN, clean : BOOLEAN, known : BOOLEAN,
                       before : [FieldSet -> Settings \cup {"ppt"}], resends : Nat]
<1>1. line \in Seq(JobType) /\ Len(line) <= 2
  BY DEF IInv, TypeOK
<1>2. Len(line) \in {1, 2}
  <2>1. Len(line) \in Nat /\ (Len(line) = 0 => line = <<>>)
    BY <1>1
  <2>2. Len(line) <= 2 /\ Len(line) # 0
    BY <1>1, <2>1
  <2>3. \A n \in Nat : n <= 2 /\ n # 0 => n \in {1, 2}
    OBVIOUS
  <2>4. QED
    BY <2>1, <2>2, <2>3, Zenon
<1>3. line[1] \in JobType
  BY <1>1, <1>2
<1>4. JobOk(line[1]) /\ RunOk(line[1])
  BY <1>2 DEF IInv, JobsOk, Running
<1>5. dev.type \in {"Ph", "Do"} /\ dev.type \in Families /\ MaxLevel[dev.type] \in Nat \ {0}
  BY ProviderAssumption DEF IInv, TypeOK, ProviderAssumption
<1>6. QED
  BY <1>2, <1>3, <1>4, <1>5 DEF IInv, TypeOK, GhostOK

LEMMA BeginJobStep == IInv /\ BeginJob => IInv'
<1> SUFFICES ASSUME IInv, BeginJob
             PROVE  IInv'
  OBVIOUS
<1>1. PICK k : k = FirstStep(line[1])
  OBVIOUS
<1>2. line # <<>> /\ line[1].step = "new" /\ Put(k)
      /\ UNCHANGED <<held, level, stage, op, dev, budget>>
  BY <1>1 DEF BeginJob
<1>3. /\ Len(line) \in {1, 2} /\ line[1] \in JobType /\ JobOk(line[1])
      /\ dev.type \in {"Ph", "Do"}
  BY <1>2, RunningJob
<1>4. Further(line[1], k) /\ JobOk(k) /\ k.step # "done" /\ k.reapplied = line[1].reapplied
  BY <1>1, <1>2, <1>3, FirstStepOk
<1>5. /\ GhostOK' /\ (ghost'.calm => ghost.calm \/ line[1].kind = "check")
      /\ ghost'.clean = ghost.clean /\ ghost'.known = ghost.known
      /\ ghost'.before = ghost.before /\ ghost'.resends = ghost.resends
  BY <1>2, RunningJob DEF BeginJob, GhostOK
<1>6. RunOk(k)'
  <2>1. k.kind = "check" => k.step = "query" /\ k.todo = FieldsOf(dev.type)
    BY <1>1, <1>3 DEF FirstStep, JobType
  <2>2. k.kind = "do_cal" => k.step = "defaults" /\ k.todo = FieldSet
    BY <1>1, <1>3, FieldFacts DEF FirstStep, JobType, JobOk
  <2>3. QED
    BY <1>2, <1>4, <2>1, <2>2 DEF RunOk, CheckKnows
<1>7. Undisturbed' => GaveBack(k)'
  <2>1. k.step # "restore"
    BY <1>1, <1>2, <1>3 DEF FirstStep, JobType
  <2>2. stage # "exec" /\ Undisturbed => \A f \in Given(op.restore) : held[f] = op.restore[f]
    BY DEF IInv, GivesBack, GaveBack
  <2>3. QED
    BY <1>2, <1>4, <1>5, <2>1, <2>2 DEF GaveBack, Undisturbed, Given
<1>8. /\ held' \in [FieldSet -> Settings \cup {"ppt"}] /\ level' \in 0..MaxLevel[dev.type]
      /\ budget' \in [calls : 0..MaxCalls[dev.type], faults : 0..MaxFaults, cuts : 0..MaxCuts]
  BY <1>2, RunningJob
<1>9. ghost.resends \in Nat
  BY <1>2, RunningJob
<1>10. QED
  BY <1>2, <1>3, <1>4, <1>5, <1>6, <1>7, <1>8, <1>9, WorkerStep DEF Senders

\* What the end of a field, or of the pass that it was the last of, leads to.
LEMMA PopSteps ==
  ASSUME NEW j \in JobType, NEW f,
         j.step \in {"query", "requery", "send", "resend", "defaults", "restore"}
  PROVE  LET k == Pop(j, f)
         IN /\ k.seen = j.seen
            /\ j.todo \ {f} # {} => /\ k.step = j.step /\ k.todo = j.todo \ {f}
                                    /\ k.reapplied = j.reapplied
            /\ j.todo \ {f} = {} =>
                 /\ j.step = "query" =>
                      /\ k.step = IF HoldsAll(j.vals, j.seen) THEN "done" ELSE "resend"
                      /\ k.step = "resend" => k.todo = Given(j.vals)
                 /\ j.step = "resend" => k.step = "requery" /\ k.todo = FieldsOf(dev.type)
                 /\ j.step = "defaults" => k.step = "command"
                 /\ j.step \in {"requery", "send", "restore"} => k.step = "done"
                 /\ j.step # "resend" => k.reapplied = j.reapplied
<1> DEFINE i == [j EXCEPT !.todo = @ \ {f}]
<1>1. /\ i.todo = j.todo \ {f} /\ i.step = j.step /\ i.seen = j.seen /\ i.vals = j.vals
      /\ i.reapplied = j.reapplied
  BY DEF JobType
<1>2. CASE i.todo # {}
  BY <1>1, <1>2 DEF Pop
<1>3. CASE i.todo = {}
  <2>1. Pop(j, f) = NextPass(i) /\ j.todo \ {f} = {}
    BY <1>1, <1>3 DEF Pop
  <2> HIDE DEF i
  <2>2. i \in JobType
    BY DEF i, JobType
  <2>3. CASE j.step = "query" /\ HoldsAll(j.vals, j.seen)
    BY <1>1, <2>1, <2>2, <2>3 DEF NextPass, Done, JobType
  <2>4. CASE j.step = "query" /\ ~HoldsAll(j.vals, j.seen)
    BY <1>1, <2>1, <2>2, <2>4 DEF NextPass, JobType
  <2>5. CASE j.step = "resend"
    BY <1>1, <2>1, <2>2, <2>5 DEF NextPass, JobType
  <2>6. CASE j.step = "defaults"
    BY <1>1, <2>1, <2>2, <2>6 DEF NextPass, JobType
  <2>7. CASE j.step \in {"requery", "send", "restore"}
    BY <1>1, <2>1, <2>2, <2>7 DEF NextPass, Done, JobType
  <2>8. QED
    BY <2>3, <2>4, <2>5, <2>6, <2>7
<1>4. QED
  BY <1>2, <1>3

\* A command of the job that fails: what the worker does next, in any step.
LEMMA FailedCommand ==
  ASSUME IInv, line # <<>>, line[1].step # "new", NEW k, Further(line[1], k), JobOk(k), Put(k),
         Fault, UNCHANGED <<stage, op, dev>>,
         held' \in [FieldSet -> Settings \cup {"ppt"}], level' \in 0..MaxLevel[dev.type],
         held' = held \/ line[1].kind \in Senders,
         level' = level \/ line[1].kind \in Calibrators,
         k.reapplied = line[1].reapplied,
         k.step = "restore" \/ (k.step = "done" /\ (k.status = "Failed" \/ k.kind = "do_cal"))
  PROVE  IInv'
<1>1. Len(line) \in {1, 2} /\ ghost.resends \in Nat
  BY RunningJob
<1>2. /\ budget' \in [calls : 0..MaxCalls[dev.type], faults : 0..MaxFaults, cuts : 0..MaxCuts]
      /\ GhostOK' /\ ghost'.clean = FALSE /\ ghost'.calm = ghost.calm
      /\ ghost'.known = ghost.known /\ ghost'.before = ghost.before
      /\ ghost'.resends = ghost.resends
  BY FaultOk
<1>3. k.step = "restore" => k.kind = "do_cal"
  BY DEF JobOk, StepsOf, Further, JobType
<1>4. RunOk(k)'
  BY <1>3 DEF RunOk, CheckKnows
<1>5. ~Undisturbed'
  BY <1>2 DEF Undisturbed
<1>6. QED
  BY <1>1, <1>2, <1>4, <1>5, WorkerStep

\* An undisturbed DO calibration is alone on the bus.
LEMMA CalibratingJob ==
  ASSUME IInv, line # <<>>, Undisturbed
  PROVE  /\ stage # "idle" /\ Len(line) = 1
         /\ stage = "exec" => line[1].kind = "do_cal" /\ line[1].restore = op.restore
<1>1. Len(line) \in {1, 2}
  BY RunningJob
<1>2. Len(line) < 2 /\ stage # "idle"
  BY DEF IInv, GivesBack
<1>3. \A n \in {1, 2} : n < 2 => n = 1
  OBVIOUS
<1>4. Len(line) = 1
  BY <1>1, <1>2, <1>3, Zenon
<1>5. QED
  BY <1>2, <1>4 DEF IInv, Awaits, KindOf, Undisturbed

LEMMA QueryFieldStep == IInv /\ QueryField => IInv'
<1> SUFFICES ASSUME IInv, QueryField
             PROVE  IInv'
  OBVIOUS
<1>1. line # <<>> /\ line[1].step \in {"query", "requery"} /\ UNCHANGED <<held, level, stage, op, dev>>
  BY DEF QueryField
<1>2. PICK j : j = line[1]
  OBVIOUS
<1>3. /\ Len(line) \in {1, 2} /\ j \in JobType /\ JobOk(j) /\ RunOk(j)
      /\ dev.type \in {"Ph", "Do"} /\ held \in [FieldSet -> Settings \cup {"ppt"}]
      /\ level \in 0..MaxLevel[dev.type] /\ ghost.resends \in Nat
      /\ budget \in [calls : 0..MaxCalls[dev.type], faults : 0..MaxFaults, cuts : 0..MaxCuts]
  BY <1>1, <1>2, RunningJob
<1>4. j.kind = "check" /\ j.step \in {"query", "requery"}
  BY <1>1, <1>2, <1>3 DEF JobOk, StepsOf, JobType
<1>5. CASE Put(Broken(j)) /\ Fault
  <2>1. PICK k : k = Broken(j)
    OBVIOUS
  <2>2. Further(j, k) /\ JobOk(k)
    BY <1>3, <1>4, <2>1, BrokenOk
  <2>3. k = Done(j, "Failed")
    BY <1>4, <2>1 DEF Broken
  <2>4. k.step = "done" /\ k.status = "Failed" /\ k.reapplied = j.reapplied
    BY <1>3, <2>3 DEF Done, JobType
  <2>5. QED
    BY <1>1, <1>2, <1>3, <1>5, <2>1, <2>2, <2>4, FailedCommand
<1>6. ASSUME NEW f \in FieldSet, First(f, j.todo),
             Put(Pop([j EXCEPT !.seen[f] = Reported(held[f])], f)), UNCHANGED <<budget, ghost>>
      PROVE  IInv'
  <2>1. PICK i : i = [j EXCEPT !.seen[f] = Reported(held[f])]
    OBVIOUS
  <2>2. PICK k : k = Pop(i, f)
    OBVIOUS
  <2>3. f \in j.todo /\ f \in FieldsOf(dev.type) /\ Reported(held[f]) \in Settings \cup {"none"}
    BY <1>3, <1>4, <1>6 DEF First, JobOk, Reported
  <2>4. /\ i \in JobType /\ i.seen = [j.seen EXCEPT ![f] = Reported(held[f])]
        /\ i.step = j.step /\ i.todo = j.todo /\ i.kind = j.kind /\ i.vals = j.vals
        /\ i.restore = j.restore /\ i.reapplied = j.reapplied
    BY <1>3, <2>1, <2>3 DEF JobType, Compensation
  <2>5. JobOk(i)
    BY <1>3, <2>3, <2>4 DEF JobOk, JobType, Compensation
  <2>6. Further(j, k) /\ JobOk(k) /\ k.kind = "check" /\ k.vals = j.vals
    BY <1>3, <1>4, <2>2, <2>4, <2>5, PopOk DEF Further
  <2>7. /\ k.seen = i.seen
        /\ j.todo \ {f} # {} => k.step = j.step /\ k.todo = j.todo \ {f}
        /\ j.todo \ {f} = {} =>
             /\ j.step = "query" => \/ k.step = "done" /\ HoldsAll(j.vals, i.seen)
                                    \/ k.step = "resend" /\ k.todo = Given(j.vals)
             /\ j.step = "requery" => k.step = "done"
        /\ k.reapplied = j.reapplied
    BY <1>4, <2>2, <2>4, PopSteps
  <2>8. ASSUME ghost.calm PROVE CheckKnows(k)
    <3>1. \A g \in FieldsOf(dev.type) \ (j.todo \ {f}) : i.seen[g] = Reported(held[g])
      <4>1. CheckKnows(j)
        BY <1>3, <1>4, <2>8 DEF RunOk
      <4>2. FieldsOf(dev.type) \subseteq FieldSet /\ j.seen \in [FieldSet -> Settings \cup {"none"}]
        BY <1>3, FieldFacts DEF JobType, Compensation
      <4>3. QED
        BY <1>4, <2>4, <4>1, <4>2 DEF CheckKnows
    <3>2. j.step = "requery" => \A g \in Given(j.vals) : held[g] = j.vals[g]
      BY <1>3, <1>4, <2>8 DEF RunOk, CheckKnows
    <3>3. CASE j.todo \ {f} # {}
      BY <1>4, <2>6, <2>7, <3>1, <3>2, <3>3 DEF CheckKnows
    <3>4. CASE j.todo \ {f} = {}
      <4>1. \A g \in FieldSet : i.seen[g] \in {"none", held[g]}
        <5> SUFFICES ASSUME NEW g \in FieldSet
                     PROVE  i.seen[g] \in {"none", held[g]}
          OBVIOUS
        <5>1. CASE g \in FieldsOf(dev.type)
          BY <3>1, <3>4, <5>1 DEF Reported
        <5>2. CASE g \notin FieldsOf(dev.type)
          BY <2>5, <5>2 DEF JobOk
        <5>3. QED
          BY <5>1, <5>2
      <4>2. k.step = "done" => \A g \in FieldSet : j.vals[g] \in {"none", held[g]}
        <5>1. CASE j.step = "query"
          BY <2>7, <3>4, <4>1, <5>1 DEF HoldsAll
        <5>2. CASE j.step = "requery"
          BY <3>2, <5>2 DEF Given
        <5>3. QED
          BY <1>4, <5>1, <5>2
      <4>3. QED
        BY <1>4, <2>6, <2>7, <3>4, <4>1, <4>2 DEF CheckKnows
    <3>5. QED
      BY <3>3, <3>4
  <2>9. RunOk(k)'
    BY <1>1, <1>6, <2>6, <2>8 DEF RunOk, CheckKnows, Given, Reported
  <2>10. Undisturbed' => GaveBack(k)'
    <3>1. Undisturbed /\ stage = "exec" => FALSE
      BY <1>1, <1>2, <1>4, CalibratingJob
    <3>2. stage # "exec" /\ Undisturbed => \A g \in Given(op.restore) : held[g] = op.restore[g]
      BY DEF IInv, GivesBack, GaveBack
    <3>3. QED
      BY <1>1, <1>6, <3>1, <3>2 DEF GaveBack, Undisturbed, Given
  <2>11. GhostOK'
    BY <1>6 DEF IInv, GhostOK
  <2>12. QED
    BY <1>1, <1>2, <1>3, <1>6, <2>1, <2>2, <2>6, <2>7, <2>9, <2>10, <2>11, WorkerStep
<1>7. QED
  BY <1>2, <1>5, <1>6 DEF QueryField

LEMMA SendFieldStep == IInv /\ SendField => IInv'
<1> SUFFICES ASSUME IInv, SendField
             PROVE  IInv'
  OBVIOUS
<1>1. /\ line # <<>> /\ line[1].step \in {"send", "resend", "defaults", "restore"}
      /\ UNCHANGED <<level, stage, op, dev>>
  BY DEF SendField
<1>2. PICK j : j = line[1]
  OBVIOUS
<1>3. /\ Len(line) \in {1, 2} /\ j \in JobType /\ JobOk(j) /\ RunOk(j)
      /\ dev.type \in {"Ph", "Do"} /\ held \in [FieldSet -> Settings \cup {"ppt"}]
      /\ level \in 0..MaxLevel[dev.type] /\ ghost.resends \in Nat
      /\ budget \in [calls : 0..MaxCalls[dev.type], faults : 0..MaxFaults, cuts : 0..MaxCuts]
  BY <1>1, <1>2, RunningJob
<1>4. /\ j.step \in {"send", "resend", "defaults", "restore"}
      /\ j.step = "send" => j.kind = "write"
      /\ j.step = "resend" => j.kind = "check"
      /\ j.step \in {"defaults", "restore"} => j.kind = "do_cal"
  BY <1>1, <1>2, <1>3 DEF JobOk, StepsOf, JobType
<1>5. PICK f \in FieldSet :
        /\ First(f, j.todo)
        /\ \/ /\ held' = [held EXCEPT ![f] = Sent(j, f)]
              /\ Put(Pop(j, f))
              /\ ghost' = IF j.step = "resend" /\ j.todo = {f}
                            THEN [ghost EXCEPT !.resends = @ + 1] ELSE ghost
              /\ UNCHANGED budget
           \/ /\ held' \in {held, [held EXCEPT ![f] = Sent(j, f)]} /\ Put(Broken(j)) /\ Fault
  BY <1>2 DEF SendField
<1>6. f \in j.todo /\ Sent(j, f) \in Settings
  BY <1>3, <1>4, <1>5 DEF First, JobOk, Sent, Given, JobType, Compensation
<1>7. [held EXCEPT ![f] = Sent(j, f)] \in [FieldSet -> Settings \cup {"ppt"}]
  BY <1>3, <1>6
<1>8. CASE held' \in {held, [held EXCEPT ![f] = Sent(j, f)]} /\ Put(Broken(j)) /\ Fault
  <2>1. PICK k : k = Broken(j)
    OBVIOUS
  <2>2. Further(j, k) /\ JobOk(k)
    BY <1>3, <1>4, <2>1, BrokenOk
  <2>3. /\ k.reapplied = j.reapplied
        /\ k.step = "restore" \/ (k.step = "done" /\ (k.status = "Failed" \/ k.kind = "do_cal"))
    <3>1. CASE j.step = "defaults"
      BY <1>3, <1>4, <2>1, <3>1 DEF Broken, Restore, Done, JobType
    <3>2. CASE j.step = "restore"
      BY <1>3, <1>4, <2>1, <3>2 DEF Broken, Done, JobType
    <3>3. CASE j.step \in {"send", "resend"}
      BY <1>3, <1>4, <2>1, <3>3 DEF Broken, Done, JobType
    <3>4. QED
      BY <1>4, <3>1, <3>2, <3>3
  <2>4. held' \in [FieldSet -> Settings \cup {"ppt"}] /\ level' \in 0..MaxLevel[dev.type]
    BY <1>1, <1>3, <1>7, <1>8
  <2>5. line[1].kind \in Senders
    BY <1>2, <1>4 DEF Senders
  <2>6. QED
    BY <1>1, <1>2, <1>8, <2>1, <2>2, <2>3, <2>4, <2>5, FailedCommand
<1>9. CASE /\ held' = [held EXCEPT ![f] = Sent(j, f)] /\ Put(Pop(j, f)) /\ UNCHANGED budget
           /\ ghost' = IF j.step = "resend" /\ j.todo = {f}
                         THEN [ghost EXCEPT !.resends = @ + 1] ELSE ghost
  <2>1. PICK k : k = Pop(j, f)
    OBVIOUS
  <2>2. Further(j, k) /\ JobOk(k) /\ k.kind = j.kind /\ k.vals = j.vals
    BY <1>3, <1>4, <2>1, PopOk DEF Further
  <2>3. /\ j.todo \ {f} # {} => k.step = j.step /\ k.todo = j.todo \ {f} /\ k.reapplied = j.reapplied
        /\ j.todo \ {f} = {} =>
             /\ j.step = "resend" => k.step = "requery" /\ k.todo = FieldsOf(dev.type)
             /\ j.step = "defaults" => k.step = "command"
             /\ j.step \in {"send", "restore"} => k.step = "done"
             /\ j.step # "resend" => k.reapplied = j.reapplied
    BY <1>3, <1>4, <2>1, PopSteps
  <2>4. /\ GhostOK' /\ ghost'.calm = ghost.calm /\ ghost'.clean = ghost.clean
        /\ ghost'.known = ghost.known /\ ghost'.before = ghost.before
        /\ ghost'.resends \in Nat /\ ghost'.resends >= ghost.resends
        /\ j.step = "resend" /\ j.todo = {f} => ghost'.resends = ghost.resends + 1
    <3>1. ghost \in [calm : BOOLEAN, clean : BOOLEAN, known : BOOLEAN,
                     before : [FieldSet -> Settings \cup {"ppt"}], resends : Nat]
      BY <1>1, RunningJob
    <3>2. CASE j.step = "resend" /\ j.todo = {f}
      BY <1>9, <3>1, <3>2 DEF GhostOK
    <3>3. CASE ~(j.step = "resend" /\ j.todo = {f})
      BY <1>9, <3>1, <3>3 DEF GhostOK
    <3>4. QED
      BY <3>2, <3>3
  <2>5. k.reapplied => j.reapplied \/ ghost'.resends = ghost.resends + 1
    <3>1. j.todo \ {f} = {} => j.todo = {f}
      BY <1>6
    <3>2. QED
      BY <2>3, <2>4, <3>1
  <2>6. /\ held' \in [FieldSet -> Settings \cup {"ppt"}]
        /\ \A g \in FieldSet : held'[g] = IF g = f THEN Sent(j, f) ELSE held[g]
    BY <1>3, <1>7, <1>9
  <2>7. RunOk(k)'
    <3>1. CASE j.step = "send"
      BY <1>4, <2>2, <3>1 DEF RunOk
    <3>2. CASE j.step = "restore"
      BY <1>4, <2>2, <2>3, <3>2 DEF RunOk
    <3>3. CASE j.step = "defaults"
      <4>1. j.kind = "do_cal" /\ k.kind = "do_cal" /\ Sent(j, f) = Default
        BY <1>3, <1>4, <2>2, <3>3 DEF Sent, JobOk, Defaults
      <4>2. \A g \in FieldSet \ (j.todo \ {f}) : held'[g] = Default
        BY <1>3, <2>6, <3>3, <4>1 DEF RunOk
      <4>3. CASE j.todo \ {f} # {}
        BY <2>3, <3>3, <4>1, <4>2, <4>3 DEF RunOk
      <4>4. CASE j.todo \ {f} = {}
        <5>1. held' = Defaults
          BY <2>6, <4>2, <4>4 DEF Defaults
        <5>2. QED
          BY <2>3, <3>3, <4>1, <4>4, <5>1 DEF RunOk, Defaults
      <4>5. QED
        BY <4>3, <4>4
    <3>4. CASE j.step = "resend"
      <4>1. k.kind = "check" /\ Sent(j, f) = j.vals[f]
        BY <1>4, <2>2, <3>4 DEF Sent
      <4>2. ASSUME ghost.calm
            PROVE  \A g \in Given(j.vals) \ (j.todo \ {f}) : held'[g] = j.vals[g]
        BY <1>3, <1>4, <2>6, <3>4, <4>1, <4>2 DEF RunOk, CheckKnows, Given
      <4>3. CASE j.todo \ {f} # {}
        BY <1>1, <2>2, <2>3, <2>4, <3>4, <4>1, <4>2, <4>3 DEF RunOk, CheckKnows, Given
      <4>4. CASE j.todo \ {f} = {}
        BY <1>1, <2>2, <2>3, <2>4, <3>4, <4>1, <4>2, <4>4 DEF RunOk, CheckKnows, Given, FieldsOf
      <4>5. QED
        BY <4>3, <4>4
    <3>5. QED
      BY <1>4, <3>1, <3>2, <3>3, <3>4
  <2>8. Undisturbed' => GaveBack(k)'
    <3> SUFFICES ASSUME Undisturbed
                 PROVE  GaveBack(k)'
      BY <1>1, <2>4 DEF Undisturbed
    <3>1. Len(line) = 1 /\ stage # "idle"
      BY <1>1, CalibratingJob
    <3>2. CASE stage = "exec"
      <4>1. j.kind = "do_cal" /\ j.restore = op.restore
        BY <1>1, <1>2, <3>2, CalibratingJob
      <4>2. j.step \in {"defaults", "restore"}
        BY <1>4, <4>1
      <4>3. CASE j.step = "defaults"
        BY <1>1, <2>3, <3>2, <4>3 DEF GaveBack
      <4>4. CASE j.step = "restore"
        <5>1. \A g \in Given(op.restore) \ j.todo : held[g] = op.restore[g]
          BY <1>2, <3>2, <4>4 DEF IInv, GivesBack, GaveBack
        <5>2. \A g \in Given(op.restore) \ (j.todo \ {f}) : held'[g] = op.restore[g]
          BY <2>6, <4>1, <4>4, <5>1 DEF Sent, Given
        <5>3. QED
          BY <1>1, <2>3, <3>2, <4>4, <5>2 DEF GaveBack, Given
      <4>5. QED
        BY <4>2, <4>3, <4>4
    <3>3. CASE stage # "exec"
      <4>1. \A g \in Given(op.restore) : held[g] = op.restore[g]
        BY <3>3 DEF IInv, GivesBack, GaveBack
      <4>2. j.kind = "check" /\ j.vals = dev.set
        BY <1>2, <1>4, <3>1, <3>3 DEF IInv, Awaits, TypeOK
      <4>3. Sent(j, f) = dev.set[f] /\ dev.set[f] # "none"
        BY <1>3, <1>4, <1>6, <4>2 DEF Sent, JobOk, Given
      <4>4. op.restore[f] = dev.set[f]
        BY <4>3 DEF IInv, GivesBack
      <4>5. \A g \in Given(op.restore) : held'[g] = op.restore[g]
        BY <2>6, <4>1, <4>3, <4>4 DEF Given
      <4>6. QED
        BY <1>1, <3>3, <4>5 DEF GaveBack, Given
    <3>4. QED
      BY <3>2, <3>3
  <2>9. line[1].kind \in Senders
    BY <1>2, <1>4 DEF Senders
  <2>10. QED
    BY <1>1, <1>2, <1>3, <1>9, <2>1, <2>2, <2>4, <2>5, <2>6, <2>7, <2>8, <2>9, WorkerStep
<1>10. QED
  BY <1>5, <1>8, <1>9

LEMMA CommandStep == IInv /\ Command => IInv'
<1> SUFFICES ASSUME IInv, Command
             PROVE  IInv'
  OBVIOUS
<1>1. line # <<>> /\ line[1].step = "command" /\ UNCHANGED <<held, stage, op, dev>>
  BY DEF Command
<1>2. PICK j : j = line[1]
  OBVIOUS
<1>3. /\ Len(line) \in {1, 2} /\ j \in JobType /\ JobOk(j) /\ j.step = "command"
      /\ dev.type \in {"Ph", "Do"} /\ held \in [FieldSet -> Settings \cup {"ppt"}]
      /\ level \in 0..MaxLevel[dev.type] /\ ghost.resends \in Nat /\ MaxLevel[dev.type] \in Nat \ {0}
      /\ budget \in [calls : 0..MaxCalls[dev.type], faults : 0..MaxFaults, cuts : 0..MaxCuts]
  BY <1>1, <1>2, RunningJob
<1>4. j.kind \notin {"check", "write"} /\ ~j.reapplied
  BY <1>3 DEF JobOk, StepsOf, JobType
<1>5. ASSUME NEW l \in LevelsAfter(j.kind) \cup {level}
      PROVE  l \in 0..MaxLevel[dev.type] /\ (l = level \/ j.kind \in Calibrators)
  <2>1. CASE j.kind \in {"do_cal", "ph_cal"}
    BY <1>3, <1>5, <2>1 DEF LevelsAfter, Calibrators
  <2>2. CASE j.kind = "clear"
    BY <1>3, <1>5, <2>2 DEF LevelsAfter, Calibrators
  <2>3. CASE j.kind \notin {"do_cal", "ph_cal", "clear"}
    BY <1>3, <1>5, <2>3 DEF LevelsAfter
  <2>4. QED
    BY <2>1, <2>2, <2>3
<1>6. CASE /\ level' \in LevelsAfter(j.kind) \cup {level} /\ Fault
           /\ Put(AfterResponse(j, "Failed")) \/ Put(Done(j, "Failed"))
  <2>1. PICK k \in {AfterResponse(j, "Failed"), Done(j, "Failed")} : Put(k)
    BY <1>6
  <2>2. Further(j, k) /\ JobOk(k)
    BY <1>3, <2>1, AfterResponseOk, DoneOk
  <2>3. /\ k.reapplied = j.reapplied
        /\ k.step = "restore" \/ (k.step = "done" /\ k.status = "Failed")
    BY <1>3, <2>1 DEF AfterResponse, Restore, Done, JobType
  <2>4. /\ held' \in [FieldSet -> Settings \cup {"ppt"}] /\ level' \in 0..MaxLevel[dev.type]
        /\ level' = level \/ line[1].kind \in Calibrators
    BY <1>1, <1>2, <1>3, <1>5, <1>6
  <2>5. QED
    BY <1>1, <1>2, <1>6, <2>1, <2>2, <2>3, <2>4, FailedCommand
<1>7. CASE /\ level' \in LevelsAfter(j.kind) /\ UNCHANGED <<budget, ghost>>
           /\ Put(AfterResponse([j EXCEPT !.seenLevel = level], "Ok"))
  <2>1. PICK i : i = [j EXCEPT !.seenLevel = level]
    OBVIOUS
  <2>2. PICK k : k = AfterResponse(i, "Ok")
    OBVIOUS
  <2>3. /\ i \in JobType /\ i.step = "command" /\ i.kind = j.kind /\ i.vals = j.vals
        /\ i.restore = j.restore /\ i.reapplied = j.reapplied /\ i.seenLevel = level
        /\ i.seen = j.seen /\ i.todo = j.todo
    BY <1>3, <2>1 DEF JobType
  <2>4. JobOk(i)
    BY <1>3, <2>3 DEF JobOk
  <2>5. Further(j, k) /\ JobOk(k) /\ k.kind = j.kind /\ k.restore = j.restore
    BY <1>3, <2>2, <2>3, <2>4, AfterResponseOk DEF Further
  <2>6. /\ k.reapplied = j.reapplied /\ k.seenLevel = level
        /\ \/ k.step = "done" /\ (j.kind = "do_cal" => Given(j.restore) = {})
           \/ k.step = "restore" /\ j.kind = "do_cal" /\ k.todo = Given(j.restore)
    BY <2>2, <2>3 DEF AfterResponse, Restore, Done, JobType
  <2>7. j.kind = "level" => level' = level
    BY <1>7 DEF LevelsAfter
  <2>8. RunOk(k)'
    BY <1>4, <2>5, <2>6, <2>7 DEF RunOk
  <2>9. Undisturbed' => GaveBack(k)'
    <3> SUFFICES ASSUME Undisturbed
                 PROVE  GaveBack(k)'
      BY <1>1, <1>7 DEF Undisturbed
    <3>1. stage = "exec" => j.kind = "do_cal" /\ j.restore = op.restore
      BY <1>1, <1>2, CalibratingJob
    <3>2. stage # "exec" => \A f \in Given(op.restore) : held[f] = op.restore[f]
      BY DEF IInv, GivesBack, GaveBack
    <3>3. QED
      BY <1>1, <2>6, <3>1, <3>2 DEF GaveBack, Given
  <2>10. /\ held' \in [FieldSet -> Settings \cup {"ppt"}] /\ level' \in 0..MaxLevel[dev.type]
         /\ level' = level \/ line[1].kind \in Calibrators
         /\ budget' \in [calls : 0..MaxCalls[dev.type], faults : 0..MaxFaults, cuts : 0..MaxCuts]
         /\ GhostOK'
    BY <1>1, <1>2, <1>3, <1>5, <1>7 DEF IInv, GhostOK
  <2>11. QED
    BY <1>1, <1>2, <1>3, <1>7, <2>1, <2>2, <2>5, <2>6, <2>8, <2>9, <2>10, WorkerStep
<1>8. QED
  BY <1>2, <1>6, <1>7 DEF Command

LEMMA PowerCutStep == IInv /\ PowerCut => IInv'
<1> SUFFICES ASSUME IInv, PowerCut
             PROVE  IInv'
  OBVIOUS
<1> USE DEF IInv
<1>1. /\ held' = Defaults /\ UNCHANGED <<level, line, stage, op, dev>>
      /\ ghost' = [ghost EXCEPT !.calm = FALSE, !.clean = FALSE]
      /\ budget.cuts > 0 /\ budget' = [budget EXCEPT !.cuts = @ - 1]
  BY DEF PowerCut
<1>2. /\ budget' \in [calls : 0..MaxCalls[dev.type], faults : 0..MaxFaults, cuts : 0..MaxCuts]
  <2>1. /\ budget \in [calls : 0..MaxCalls[dev.type], faults : 0..MaxFaults, cuts : 0..MaxCuts]
        /\ MaxCuts \in Nat
    BY ProviderAssumption DEF TypeOK, ProviderAssumption
  <2>2. budget.cuts - 1 \in 0..MaxCuts
    BY <1>1, <2>1
  <2>3. QED
    BY <1>1, <2>1, <2>2
<1>3. GhostOK' /\ ~ghost'.calm /\ ~ghost'.clean /\ ghost'.resends = ghost.resends
  BY <1>1 DEF GhostOK
<1>4. TypeOK'
  BY <1>1, <1>2, FieldFacts DEF TypeOK, JobType, Levels
<1>5. Shape' /\ Awaits' /\ Shows' /\ LevelKept' /\ Counted'
  BY <1>1, <1>3 DEF Shape, Awaits, KindOf, Shows, LevelKept, NoCalibrator, Counted
<1>6. JobsOk'
  BY <1>1 DEF JobsOk, JobOk
<1>7. Running'
  BY <1>1, <1>3 DEF Running, RunOk, Defaults
<1>8. Published' /\ GivesBack'
  BY <1>1, <1>3 DEF Published, Settled, TouchesCompensation, Nothing, GivesBack, Undisturbed
<1>9. QED
  BY <1>2, <1>3, <1>4, <1>5, <1>6, <1>7, <1>8
-------------------------------------------------------------------------------
(* The steps of the handler.                                               *)

\* A deadline that passes is remembered, whether or not it counts as a fault.
LEMMA DeadlineOk ==
  ASSUME IInv, DeadlinePasses
  PROVE  /\ budget' \in [calls : 0..MaxCalls[dev.type], faults : 0..MaxFaults, cuts : 0..MaxCuts]
         /\ GhostOK' /\ ghost'.clean = FALSE /\ ghost'.calm = ghost.calm
         /\ ghost'.known = ghost.known /\ ghost'.before = ghost.before
         /\ ghost'.resends = ghost.resends
<1>1. CASE LateIsFault
  <2>1. Fault
    BY <1>1 DEF DeadlinePasses, Fault
  <2>2. QED
    BY <2>1, FaultOk
<1>2. CASE ~LateIsFault
  <2>1. UNCHANGED budget /\ ghost' = [ghost EXCEPT !.clean = FALSE]
    BY <1>2 DEF DeadlinePasses
  <2>2. QED
    BY <2>1 DEF IInv, TypeOK, GhostOK
<1>3. QED
  BY <1>1, <1>2

\* What the handler leaves on the bus: nothing, or the job that runs.
Left(rest) == \/ rest = <<>>
              \/ /\ Len(line) > 0 /\ Len(rest) = 1 /\ rest[1] = line[1]
                 /\ rest[1].step \notin {"new", "done"}

\* submit() returns with the outcome of the one job on the bus, or times out.
LEMMA ReturnsLeaves ==
  ASSUME IInv, NEW s, NEW rest, Returns(s, rest)
  PROVE  /\ rest \in Seq(JobType) /\ Left(rest) /\ Len(line) \in {1, 2}
         /\ \/ /\ Len(line) = 1 /\ rest = <<>> /\ line[1].step = "done"
               /\ s = line[1].status /\ s # "DeadlineExceeded" /\ UNCHANGED <<budget, ghost>>
            \/ s = "DeadlineExceeded" /\ ghost'.clean = FALSE
         /\ budget' \in [calls : 0..MaxCalls[dev.type], faults : 0..MaxFaults, cuts : 0..MaxCuts]
         /\ GhostOK' /\ ghost'.calm = ghost.calm /\ ghost'.known = ghost.known
         /\ ghost'.before = ghost.before /\ ghost'.resends = ghost.resends
         /\ ghost'.clean => ghost.clean
<1>1. stage # "idle" /\ line # <<>> /\ line \in Seq(JobType)
  BY DEF Returns, IInv, TypeOK
<1>2. Len(line) \in {1, 2} /\ line[1] \in JobType
  BY <1>1, RunningJob
<1>3. CASE Len(line) = 1
  <2>1. Front(line) = <<>>
    BY <1>1, <1>3 DEF Front
  <2>2. CASE line[1].step = "done"
    <3>1. s = line[1].status /\ rest = <<>> /\ UNCHANGED <<budget, ghost>>
      BY <1>3, <2>1, <2>2 DEF Returns
    <3>2. s # "DeadlineExceeded"
      BY <1>2, <3>1 DEF JobType
    <3>3. QED
      BY <1>2, <1>3, <2>2, <3>1, <3>2 DEF Left, IInv, TypeOK, GhostOK
  <2>3. CASE line[1].step # "done"
    <3>1. /\ s = "DeadlineExceeded" /\ DeadlinePasses
          /\ rest = IF line[1].step = "new" THEN <<>> ELSE line
      BY <1>3, <2>1, <2>3 DEF Returns
    <3>2. Left(rest) /\ rest \in Seq(JobType)
      BY <1>1, <1>3, <2>3, <3>1 DEF Left
    <3>3. QED
      BY <1>2, <3>1, <3>2, DeadlineOk
  <2>4. QED
    BY <2>2, <2>3
<1>4. CASE Len(line) = 2
  <2>1. line[2].step = "new" /\ line[1].step \notin {"new", "done"}
    BY <1>4 DEF IInv, Shape
  <2>2. /\ Front(line) \in Seq(JobType) /\ Len(Front(line)) = 1 /\ Front(line)[1] = line[1]
    BY <1>1, <1>4 DEF Front
  <2>3. s = "DeadlineExceeded" /\ DeadlinePasses /\ rest = Front(line)
    BY <1>4, <2>1 DEF Returns
  <2>4. Left(rest) /\ rest \in Seq(JobType)
    BY <1>4, <2>1, <2>2, <2>3 DEF Left
  <2>5. QED
    BY <1>2, <2>3, <2>4, DeadlineOk
<1>5. QED
  BY <1>2, <1>3, <1>4

\* The handler ends its request.
LEMMA AfterIdle ==
  ASSUME IInv, NEW rest \in Seq(JobType), Left(rest), Idle(rest),
         UNCHANGED <<held, level>>, ghost'.calm = ghost.calm, dev'.type = dev.type
  PROVE  /\ line' \in Seq(JobType) /\ JobType' = JobType /\ Levels' = Levels
         /\ Len(line') <= 1 /\ stage' = "idle"
         /\ Shape' /\ JobsOk' /\ Running'
         /\ \A i \in 1..Len(line') : Len(line) > 0 /\ line'[i] = line[1]
<1>1. line' = rest /\ stage' = "idle"
  BY DEF Idle
<1>2. JobType' = JobType /\ Levels' = Levels
  BY DEF JobType, Levels
<1>3. CASE rest = <<>>
  BY <1>1, <1>2, <1>3 DEF Shape, JobsOk, Running
<1>4. CASE /\ Len(line) > 0 /\ Len(rest) = 1 /\ rest[1] = line[1]
           /\ rest[1].step \notin {"new", "done"}
  <2>1. JobOk(line[1]) /\ RunOk(line[1])
    <3>1. line # <<>>
      BY <1>4
    <3>2. QED
      BY <3>1, RunningJob
  <2>2. PICK j : j = line[1]
    OBVIOUS
  <2>3. JobOk(j)' /\ RunOk(j)'
    BY <2>1, <2>2 DEF JobOk, RunOk, CheckKnows
  <2>4. line'[1] = j /\ Len(line') = 1
    BY <1>1, <1>4, <2>2
  <2>5. JobsOk' /\ Running'
    BY <2>3, <2>4 DEF JobsOk, Running
  <2>6. QED
    BY <1>1, <1>2, <1>4, <2>2, <2>4, <2>5 DEF Shape
<1>5. QED
  BY <1>3, <1>4 DEF Left

LEMMA AppendTwo ==
  ASSUME NEW S, NEW r \in Seq(S), Len(r) = 1, NEW e \in S
  PROVE  /\ Append(r, e) \in Seq(S) /\ Len(Append(r, e)) = 2
         /\ Append(r, e)[1] = r[1] /\ Append(r, e)[2] = e
<1>1. Append(r, e) \in Seq(S)
  BY AppendProperties
<1>2. Len(Append(r, e)) = Len(r) + 1
  BY AppendProperties
<1>3. \A i \in 1..Len(r) : Append(r, e)[i] = r[i]
  BY AppendProperties
<1>4. Append(r, e)[Len(r) + 1] = e
  BY AppendProperties
<1>5. QED
  BY <1>1, <1>2, <1>3, <1>4

\* The handler submits job j and waits for it.
LEMMA AfterWait ==
  ASSUME IInv, NEW rest \in Seq(JobType), Left(rest),
         NEW j \in JobType, JobOk(j), j.step = "new",
         NEW what \in {"sample", "exec", "check", "level"}, WaitFor(what, rest, j),
         UNCHANGED <<held, level>>, ghost'.calm = ghost.calm, dev'.type = dev.type
  PROVE  /\ line' \in Seq(JobType) /\ JobType' = JobType /\ Levels' = Levels
         /\ Len(line') \in {1, 2} /\ stage' = what /\ line' # <<>>
         /\ Shape' /\ JobsOk' /\ Running' /\ line'[Len(line')] = j
         /\ \A i \in 1..Len(line') : line'[i] = j \/ (Len(line) > 0 /\ line'[i] = line[1])
         /\ rest = <<>> => /\ Len(line') = 1 /\ Len(line') < 2 /\ line'[1] = j
                            /\ \A i \in 1..Len(line') : line'[i] = j
<1>1. line' = Append(rest, j) /\ stage' = what
  BY DEF WaitFor
<1>2. JobType' = JobType /\ Levels' = Levels
  BY DEF JobType, Levels
<1>3. JobOk(j)' /\ RunOk(j)'
  BY DEF JobOk, RunOk, CheckKnows
<1>4. CASE rest = <<>>
  <2>1. Len(line') = 1 /\ line'[1] = j /\ line' \in Seq(JobType) /\ line' # <<>>
    BY <1>1, <1>4
  <2>2. JobsOk' /\ Running'
    BY <1>3, <2>1 DEF JobsOk, Running
  <2>3. QED
    BY <1>1, <1>2, <1>4, <2>1, <2>2 DEF Shape
<1>5. CASE /\ Len(line) > 0 /\ Len(rest) = 1 /\ rest[1] = line[1]
           /\ rest[1].step \notin {"new", "done"}
  <2>1. JobOk(line[1]) /\ RunOk(line[1])
    <3>1. line # <<>>
      BY <1>5
    <3>2. QED
      BY <3>1, RunningJob
  <2>2. PICK i : i = line[1]
    OBVIOUS
  <2>3. JobOk(i)' /\ RunOk(i)'
    BY <2>1, <2>2 DEF JobOk, RunOk, CheckKnows
  <2>4. /\ Len(line') = 2 /\ line'[1] = i /\ line'[2] = j /\ line' \in Seq(JobType)
        /\ line' # <<>> /\ rest # <<>>
    <3>1. Len(rest) = 1 /\ rest[1] = i /\ rest # <<>>
      BY <1>5, <2>2
    <3>2. Len(line') = 2 /\ line'[1] = i /\ line'[2] = j /\ line' \in Seq(JobType)
      BY <1>1, <3>1, AppendTwo
    <3>3. QED
      BY <3>1, <3>2
  <2>5. JobsOk' /\ Running'
    BY <1>3, <2>3, <2>4 DEF JobsOk, Running
  <2>6. QED
    BY <1>1, <1>2, <1>5, <2>2, <2>4, <2>5 DEF Shape
<1>6. QED
  BY <1>4, <1>5 DEF Left

\* The ActiveDevice record, as the type invariant has it.
DevType == [type : Families, set : Compensation, read : Compensation, level : Levels,
            has_sample : BOOLEAN, last_read_ok : BOOLEAN,
            successes : 0..(CheckEvery - 1), reapplied : Nat,
            lastCall : [fn : Functions \cup {"none"}, ok : BOOLEAN],
            shown : [comp : Compensation, level : Levels]]

OpType == [fn : Functions \cup {"boot", "read"}, args : Compensation,
           restore : Compensation, ok : BOOLEAN]

\* The types after a step of the handler.
LEMMA HandlerTypes ==
  ASSUME IInv, held' = held, level' = level, dev'.type = dev.type, JobType' = JobType, Levels' = Levels,
         line' \in Seq(JobType), Len(line') <= 2,
         stage' \in {"idle", "sample", "exec", "check", "level"}, stage' # "idle" => line' # <<>>,
         op' \in OpType, dev' \in DevType,
         budget' \in [calls : 0..MaxCalls[dev.type], faults : 0..MaxFaults, cuts : 0..MaxCuts]
  PROVE  TypeOK'
BY DEF IInv, TypeOK, OpType, DevType

\* No job of the kinds of set K is on the bus after the handler submitted j.
LEMMA StillNone ==
  ASSUME NEW K, NEW j, j.kind \notin K,
         \A i \in 1..Len(line) : line[i].kind \notin K, Len(line) \in Nat,
         \A i \in 1..Len(line') : line'[i] = j \/ (Len(line) > 0 /\ line'[i] = line[1])
  PROVE  \A i \in 1..Len(line') : line'[i].kind \notin K
<1>1. Len(line) > 0 => line[1].kind \notin K
  OBVIOUS
<1>2. QED
  BY <1>1

LEMMA SampleReturnsStep == IInv /\ SampleReturns => IInv'
<1> SUFFICES ASSUME IInv, SampleReturns
             PROVE  IInv'
  OBVIOUS
<1> DEFINE n == (dev.successes + 1) % CheckEvery
           d == ShowComp(ShowLevel([dev EXCEPT !.has_sample = TRUE, !.last_read_ok = TRUE,
                                               !.successes = n]))
<1>1. PICK s, rest : /\ Returns(s, rest)
                     /\ dev' = IF s = "Ok" THEN d ELSE [dev EXCEPT !.last_read_ok = FALSE]
                     /\ IF s = "Ok" /\ n = 0 THEN WaitFor("check", rest, CheckJob(dev.set))
                        ELSE IF op.fn = "boot" THEN WaitFor("level", rest, LevelJob)
                        ELSE Idle(rest)
  BY DEF SampleReturns
<1>2. UNCHANGED <<held, level, op>> /\ stage = "sample" /\ op.fn \in {"boot", "read"}
  BY DEF SampleReturns, IInv, Awaits
<1>3. /\ rest \in Seq(JobType) /\ Left(rest) /\ Len(line) \in {1, 2}
      /\ budget' \in [calls : 0..MaxCalls[dev.type], faults : 0..MaxFaults, cuts : 0..MaxCuts]
      /\ GhostOK' /\ ghost'.calm = ghost.calm /\ ghost'.resends = ghost.resends
  BY <1>1, ReturnsLeaves
<1>4. dev \in DevType /\ op \in OpType /\ dev.type \in Families
  BY DEF IInv, TypeOK, DevType, OpType
<1>5. n \in 0..(CheckEvery - 1)
  BY <1>4, ProviderAssumption DEF ProviderAssumption, DevType
<1>6. /\ dev' \in DevType /\ dev'.type = dev.type /\ dev'.set = dev.set /\ dev'.read = dev.read
      /\ dev'.level = dev.level /\ dev'.lastCall = dev.lastCall /\ dev'.reapplied = dev.reapplied
      /\ Shows'
  <2> HIDE DEF n
  <2>1. Shows
    BY DEF IInv
  <2>2. CASE s = "Ok"
    BY <1>1, <1>4, <1>5, <2>1, <2>2 DEF DevType, ShowComp, ShowLevel, Shows
  <2>3. CASE s # "Ok"
    BY <1>1, <1>4, <2>1, <2>3 DEF DevType, Shows
  <2>4. QED
    BY <2>2, <2>3
<1>7. PICK j : j \in {CheckJob(dev.set), LevelJob}
               /\ (s = "Ok" /\ n = 0 => j = CheckJob(dev.set))
               /\ (~(s = "Ok" /\ n = 0) => j = LevelJob)
  BY Zenon
<1>8. /\ j \in JobType /\ JobOk(j) /\ j.step = "new" /\ ~j.reapplied /\ j.kind \notin Calibrators
      /\ j = CheckJob(dev.set) => j.kind = "check" /\ j.vals = dev.set
      /\ j = LevelJob => j.kind = "level"
  BY <1>4, <1>7, FieldFacts, NewJobOk DEF CheckJob, LevelJob, DevType, Calibrators
<1>9. /\ line' \in Seq(JobType) /\ JobType' = JobType /\ Levels' = Levels
      /\ Len(line') <= 2 /\ (stage' # "idle" => line' # <<>>)
      /\ Shape' /\ JobsOk' /\ Running'
      /\ \A i \in 1..Len(line') : line'[i] = j \/ (Len(line) > 0 /\ line'[i] = line[1])
      /\ \/ stage' = "idle" /\ j = LevelJob
         \/ stage' = "check" /\ line'[Len(line')] = j /\ j = CheckJob(dev.set)
         \/ stage' = "level" /\ line'[Len(line')] = j /\ j = LevelJob /\ op.fn = "boot"
  <2> HIDE DEF n
  <2>1. CASE s = "Ok" /\ n = 0
    <3>1. WaitFor("check", rest, j)
      BY <1>1, <1>7, <2>1
    <3>2. QED
      BY <1>2, <1>3, <1>6, <1>7, <1>8, <2>1, <3>1, AfterWait
  <2>2. CASE ~(s = "Ok" /\ n = 0) /\ op.fn = "boot"
    <3>1. WaitFor("level", rest, j)
      BY <1>1, <1>7, <2>2
    <3>2. QED
      BY <1>2, <1>3, <1>6, <1>7, <1>8, <2>2, <3>1, AfterWait
  <2>3. CASE ~(s = "Ok" /\ n = 0) /\ op.fn # "boot"
    <3>1. Idle(rest)
      BY <1>1, <2>3
    <3>2. QED
      BY <1>2, <1>3, <1>6, <1>7, <2>3, <3>1, AfterIdle
  <2>4. QED
    BY <2>1, <2>2, <2>3
<1>10. TypeOK'
  BY <1>2, <1>3, <1>4, <1>6, <1>9, HandlerTypes
<1>11. Awaits'
  BY <1>6, <1>8, <1>9 DEF Awaits
<1>12. Published'
  <2>1. Settled
    BY <1>2 DEF Settled
  <2>2. CASE stage' = "check"
    BY <2>2 DEF Published, Settled
  <2>3. CASE stage' # "check" /\ dev.read # Nothing
    <3>1. j.kind \notin Senders
      BY <1>8, <1>9, <2>3 DEF Senders
    <3>2. \A i \in 1..Len(line) : line[i].kind \notin Senders
      BY <2>1, <2>3 DEF IInv, Published
    <3>3. \A i \in 1..Len(line') : line'[i].kind \notin Senders
      BY <1>3, <1>9, <3>1, <3>2, StillNone
    <3>4. ghost.calm => \A f \in FieldSet : /\ dev.read[f] \in {"none", held[f]}
                                            /\ dev.set[f] \in {"none", held[f]}
      BY <2>1, <2>3 DEF IInv, Published
    <3>5. QED
      BY <1>2, <1>3, <1>6, <3>3, <3>4 DEF Published
  <2>4. CASE dev.read = Nothing
    BY <1>6, <2>4 DEF Published, Nothing
  <2>5. QED
    BY <2>2, <2>3, <2>4
<1>13. LevelKept'
  <2>1. NoCalibrator => NoCalibrator'
    BY <1>3, <1>8, <1>9, StillNone DEF NoCalibrator, Calibrators
  <2>2. QED
    BY <1>2, <1>6, <1>9, <2>1 DEF IInv, LevelKept, CalFns
<1>14. GivesBack'
  BY <1>2 DEF GivesBack, Undisturbed
<1>15. Counted'
  BY <1>3, <1>6, <1>8, <1>9 DEF IInv, Counted, GhostOK, DevType
<1>16. QED
  BY <1>3, <1>6, <1>9, <1>10, <1>11, <1>12, <1>13, <1>14, <1>15 DEF IInv

\* The end of a call: the level is read after a calibration that succeeded.
LEMMA ConcludeLine ==
  ASSUME IInv, NEW rest \in Seq(JobType), Left(rest), NEW d, NEW ok \in BOOLEAN,
         Conclude(d, ok, rest),
         UNCHANGED <<held, level>>, ghost'.calm = ghost.calm, dev'.type = dev.type
  PROVE  /\ line' \in Seq(JobType) /\ JobType' = JobType /\ Levels' = Levels
         /\ Len(line') <= 2 /\ (stage' # "idle" => line' # <<>>)
         /\ Shape' /\ JobsOk' /\ Running'
         /\ \A i \in 1..Len(line') : line'[i] = LevelJob \/ (Len(line) > 0 /\ line'[i] = line[1])
         /\ stage' = IF ok /\ op.fn \in CalFns THEN "level" ELSE "idle"
         /\ stage' = "level" => line'[Len(line')] = LevelJob
         /\ rest = <<>> => /\ Len(line') < 2 /\ (stage' = "idle" => line' = <<>>)
                            /\ \A i \in 1..Len(line') : line'[i] = LevelJob
         /\ LevelJob.kind = "level" /\ LevelJob.kind \notin Senders \cup Calibrators
<1>1. dev.type \in Families
  BY DEF IInv, TypeOK
<1>2. LevelJob \in JobType /\ JobOk(LevelJob) /\ LevelJob.step = "new" /\ LevelJob.kind = "level"
  BY <1>1, FieldFacts, NewJobOk DEF LevelJob
<1>3. LevelJob.kind \notin Senders \cup Calibrators
  BY <1>2 DEF Senders, Calibrators
<1>4. CASE ok /\ op.fn \in CalFns
  <2>1. WaitFor("level", rest, LevelJob)
    BY <1>4 DEF Conclude, CalFns
  <2>2. /\ line' \in Seq(JobType) /\ JobType' = JobType /\ Levels' = Levels
        /\ Len(line') \in {1, 2} /\ stage' = "level" /\ line' # <<>>
        /\ Shape' /\ JobsOk' /\ Running' /\ line'[Len(line')] = LevelJob
        /\ \A i \in 1..Len(line') : line'[i] = LevelJob \/ (Len(line) > 0 /\ line'[i] = line[1])
        /\ rest = <<>> => Len(line') < 2 /\ \A i \in 1..Len(line') : line'[i] = LevelJob
    BY <1>2, <2>1, AfterWait
  <2>3. QED
    BY <1>2, <1>3, <1>4, <2>2
<1>5. CASE ~(ok /\ op.fn \in CalFns)
  <2>1. Idle(rest)
    BY <1>5 DEF Conclude, CalFns
  <2>2. /\ line' \in Seq(JobType) /\ JobType' = JobType /\ Levels' = Levels
        /\ Len(line') <= 1 /\ stage' = "idle" /\ line' = rest
        /\ Shape' /\ JobsOk' /\ Running'
        /\ \A i \in 1..Len(line') : Len(line) > 0 /\ line'[i] = line[1]
    BY <2>1, AfterIdle DEF Idle
  <2>3. QED
    BY <1>2, <1>3, <1>5, <2>2
<1>6. QED
  BY <1>4, <1>5

LEMMA ExecReturnsStep == IInv /\ ExecReturns => IInv'
<1> SUFFICES ASSUME IInv, ExecReturns
             PROVE  IInv'
  OBVIOUS
<1>1. PICK s, rest :
        LET d == IF s = "Ok" /\ op.fn = "set_compensation"
                   THEN [dev EXCEPT !.set = Merge(@, op.args)] ELSE dev
        IN /\ Returns(s, rest)
           /\ op' = [op EXCEPT !.ok = (s = "Ok")]
           /\ IF TouchesCompensation
                THEN dev' = d /\ WaitFor("check", rest, CheckJob(d.set))
                ELSE Conclude(d, s = "Ok", rest)
  BY DEF ExecReturns
<1>2. PICK d : d = IF s = "Ok" /\ op.fn = "set_compensation"
                     THEN [dev EXCEPT !.set = Merge(@, op.args)] ELSE dev
  OBVIOUS
<1>3. UNCHANGED <<held, level>> /\ stage = "exec" /\ op.fn \in Functions
  BY DEF ExecReturns, IInv, Awaits
<1>4. /\ rest \in Seq(JobType) /\ Left(rest) /\ Len(line) \in {1, 2}
      /\ \/ /\ Len(line) = 1 /\ rest = <<>> /\ line[1].step = "done" /\ UNCHANGED <<budget, ghost>>
         \/ s = "DeadlineExceeded" /\ ghost'.clean = FALSE
      /\ budget' \in [calls : 0..MaxCalls[dev.type], faults : 0..MaxFaults, cuts : 0..MaxCuts]
      /\ GhostOK' /\ ghost'.calm = ghost.calm /\ ghost'.resends = ghost.resends
      /\ ghost'.known = ghost.known /\ ghost'.before = ghost.before
      /\ ghost'.clean => ghost.clean
  BY <1>1, ReturnsLeaves
<1>5. dev \in DevType /\ op \in OpType /\ dev.type \in Families /\ dev.type \in {"Ph", "Do"}
  BY ProviderAssumption DEF IInv, TypeOK, DevType, OpType, ProviderAssumption
<1>6. op' \in OpType /\ op'.fn = op.fn /\ op'.restore = op.restore /\ op'.ok = (s = "Ok")
  BY <1>1, <1>5 DEF OpType
<1>7. /\ d \in DevType /\ d.type = dev.type /\ d.read = dev.read /\ d.level = dev.level
      /\ d.lastCall = dev.lastCall /\ d.reapplied = dev.reapplied /\ d.shown = dev.shown
      /\ op.fn # "set_compensation" => d.set = dev.set
  <2>1. Merge(dev.set, op.args) \in Compensation
    BY <1>5 DEF Merge, Compensation, DevType, OpType
  <2>2. QED
    BY <1>2, <1>5, <2>1 DEF DevType
<1>8. CASE TouchesCompensation
  <2>1. dev' = d /\ WaitFor("check", rest, CheckJob(d.set))
    BY <1>1, <1>2, <1>8
  <2>2. PICK j : j = CheckJob(d.set)
    OBVIOUS
  <2>3. /\ j \in JobType /\ JobOk(j) /\ j.step = "new" /\ ~j.reapplied /\ j.kind = "check"
        /\ j.vals = d.set /\ j.kind \notin Calibrators
    BY <1>5, <1>7, <2>2, FieldFacts, NewJobOk DEF CheckJob, DevType, Calibrators
  <2>4. /\ line' \in Seq(JobType) /\ JobType' = JobType /\ Levels' = Levels
        /\ Len(line') \in {1, 2} /\ stage' = "check" /\ line' # <<>>
        /\ Shape' /\ JobsOk' /\ Running' /\ line'[Len(line')] = j
        /\ \A i \in 1..Len(line') : line'[i] = j \/ (Len(line) > 0 /\ line'[i] = line[1])
        /\ rest = <<>> => /\ Len(line') = 1 /\ Len(line') < 2 /\ line'[1] = j
                           /\ \A i \in 1..Len(line') : line'[i] = j
    BY <1>3, <1>4, <1>7, <2>1, <2>2, <2>3, AfterWait
  <2>5. TypeOK'
    BY <1>3, <1>4, <1>6, <1>7, <2>1, <2>4, HandlerTypes
  <2>6. Awaits' /\ Shows'
    BY <1>7, <2>1, <2>3, <2>4 DEF IInv, Awaits, Shows
  <2>7. Published'
    BY <2>4 DEF Published, Settled
  <2>8. LevelKept'
    <3>1. NoCalibrator => NoCalibrator'
      BY <1>4, <2>3, <2>4, StillNone DEF NoCalibrator
    <3>2. s = "Ok" => NoCalibrator'
      <4>1. s = "Ok" => rest = <<>>
        BY <1>4
      <4>2. s = "Ok" => \A i \in 1..Len(line') : line'[i] = j
        BY <2>4, <4>1
      <4>3. QED
        BY <2>3, <4>2 DEF NoCalibrator, Calibrators
    <3>3. dev'.lastCall = dev.lastCall /\ dev'.level = dev.level
      BY <1>7, <2>1
    <3>4. op.fn # "boot"
      BY <1>3 DEF Functions
    <3>5. QED
      BY <1>3, <1>6, <2>4, <3>1, <3>2, <3>3, <3>4 DEF IInv, LevelKept
  <2>9. GivesBack'
    <3> SUFFICES ASSUME Undisturbed'
                 PROVE  GivesBack'
      BY DEF GivesBack
    <3>1. Undisturbed /\ ghost'.clean
      BY <1>4, <1>6, <1>7, <2>1 DEF Undisturbed
    <3>2. Len(line) = 1 /\ rest = <<>> /\ line[1].step = "done" /\ UNCHANGED ghost
      BY <1>4, <3>1
    <3>3. \A f \in Given(op.restore) : held[f] = op.restore[f]
      BY <1>3, <3>1, <3>2 DEF IInv, GivesBack, GaveBack
    <3>4. dev'.set = dev.set
      BY <1>7, <2>1, <3>1 DEF Undisturbed
    <3>5. stage' = "check" /\ Len(line') < 2
      BY <2>4, <3>2
    <3>6. GaveBack(line[1])'
      BY <1>3, <1>6, <3>3, <3>5 DEF GaveBack, Given
    <3>7. QED
      BY <1>6, <3>1, <3>2, <3>4, <3>5, <3>6 DEF IInv, GivesBack
  <2>10. Counted'
    BY <1>4, <1>5, <1>7, <1>3, <2>1, <2>3, <2>4 DEF IInv, Counted, GhostOK, DevType
  <2>11. QED
    BY <1>4, <2>4, <2>5, <2>6, <2>7, <2>8, <2>9, <2>10 DEF IInv
<1>9. CASE ~TouchesCompensation
  <2>1. Conclude(d, s = "Ok", rest) /\ op.fn # "set_compensation" /\ d.set = dev.set
    BY <1>1, <1>2, <1>7, <1>9 DEF TouchesCompensation
  <2>2. dev' = [d EXCEPT !.lastCall = [fn |-> op.fn, ok |-> s = "Ok"]]
    BY <2>1 DEF Conclude
  <2>3. /\ dev' \in DevType /\ dev'.type = dev.type /\ dev'.set = dev.set /\ dev'.read = dev.read
        /\ dev'.level = dev.level /\ dev'.reapplied = dev.reapplied /\ dev'.shown = dev.shown
        /\ dev'.lastCall.fn = op.fn /\ dev'.lastCall.ok = (s = "Ok")
    BY <1>3, <1>7, <2>1, <2>2 DEF DevType
  <2>4. PICK ok : ok = (s = "Ok")
    OBVIOUS
  <2>5. /\ line' \in Seq(JobType) /\ JobType' = JobType /\ Levels' = Levels
        /\ Len(line') <= 2 /\ (stage' # "idle" => line' # <<>>)
        /\ Shape' /\ JobsOk' /\ Running'
        /\ \A i \in 1..Len(line') : line'[i] = LevelJob \/ (Len(line) > 0 /\ line'[i] = line[1])
        /\ stage' = IF ok /\ op.fn \in CalFns THEN "level" ELSE "idle"
        /\ stage' = "level" => line'[Len(line')] = LevelJob
        /\ rest = <<>> => Len(line') < 2 /\ (stage' = "idle" => line' = <<>>)
        /\ LevelJob.kind = "level" /\ LevelJob.kind \notin Senders \cup Calibrators
    <3>1. ok \in BOOLEAN /\ Conclude(d, ok, rest)
      BY <2>1, <2>4
    <3>2. QED
      BY <1>3, <1>4, <2>3, <3>1, ConcludeLine
  <2>6. TypeOK'
    BY <1>3, <1>4, <1>6, <2>3, <2>5, HandlerTypes
  <2>7. Awaits' /\ Shows'
    BY <2>3, <2>5 DEF IInv, Awaits, Shows
  <2>8. Published'
    <3>1. Settled
      BY <1>3, <1>9 DEF Settled
    <3>2. CASE dev.read = Nothing
      BY <2>3, <3>2 DEF Published, Nothing
    <3>3. CASE dev.read # Nothing
      <4>1. \A i \in 1..Len(line) : line[i].kind \notin Senders
        BY <3>1, <3>3 DEF IInv, Published
      <4>2. \A i \in 1..Len(line') : line'[i].kind \notin Senders
        BY <1>4, <2>5, <4>1, StillNone
      <4>3. ghost.calm => \A f \in FieldSet : /\ dev.read[f] \in {"none", held[f]}
                                              /\ dev.set[f] \in {"none", held[f]}
        BY <3>1, <3>3 DEF IInv, Published
      <4>4. QED
        BY <1>3, <1>4, <2>3, <4>2, <4>3 DEF Published
    <3>4. QED
      BY <3>2, <3>3
  <2>9. LevelKept'
    <3>1. stage' = "level" => NoCalibrator'
      <4>1. stage' = "level" => rest = <<>>
        BY <1>4, <2>4, <2>5
      <4>2. QED
        BY <1>4, <2>5, <4>1 DEF NoCalibrator
    <3>2. op.fn # "boot"
      BY <1>3 DEF Functions
    <3>3. QED
      BY <1>6, <2>3, <2>4, <2>5, <3>1, <3>2 DEF LevelKept
  <2>10. GivesBack'
    <3>1. ~Undisturbed'
      BY <1>6, <1>9, <2>3 DEF Undisturbed, TouchesCompensation
    <3>2. QED
      BY <3>1 DEF GivesBack
  <2>11. Counted'
    BY <1>3, <1>4, <1>5, <2>3, <2>5 DEF IInv, Counted, GhostOK, DevType
  <2>12. QED
    BY <1>4, <2>5, <2>6, <2>7, <2>8, <2>9, <2>10, <2>11 DEF IInv
<1>10. QED
  BY <1>8, <1>9

LEMMA CheckReturnsStep == IInv /\ CheckReturns => IInv'
<1> SUFFICES ASSUME IInv, CheckReturns
             PROVE  IInv'
  OBVIOUS
<1>1. PICK s \in {"Ok", "Failed", "DeadlineExceeded"}, rest \in {line, Front(line)},
           reapplied \in {FALSE, Last(line).reapplied} :
        LET d == ShowComp([dev EXCEPT
                   !.read = IF s = "Ok" THEN Last(line).seen ELSE Nothing,
                   !.reapplied = IF reapplied THEN @ + 1 ELSE @])
        IN /\ Returns(s, rest)
           /\ IF op.fn \in {"read", "boot"} THEN dev' = d /\ Idle(rest)
                                            ELSE Conclude(d, op.ok, rest)
  BY DEF CheckReturns
<1>2. UNCHANGED <<held, level, op>> /\ stage = "check"
  BY DEF CheckReturns
<1>3. /\ rest \in Seq(JobType) /\ Left(rest) /\ Len(line) \in {1, 2}
      /\ \/ /\ Len(line) = 1 /\ rest = <<>> /\ line[1].step = "done" /\ s = line[1].status
            /\ UNCHANGED ghost
         \/ s = "DeadlineExceeded" /\ ghost'.clean = FALSE
      /\ budget' \in [calls : 0..MaxCalls[dev.type], faults : 0..MaxFaults, cuts : 0..MaxCuts]
      /\ GhostOK' /\ ghost'.calm = ghost.calm /\ ghost'.resends = ghost.resends
      /\ ghost'.known = ghost.known /\ ghost'.before = ghost.before
      /\ ghost'.clean => ghost.clean
  BY <1>1, ReturnsLeaves
<1>4. dev \in DevType /\ op \in OpType /\ dev.type \in Families
  BY DEF IInv, TypeOK, DevType, OpType
<1>5. PICK j : j = line[Len(line)]
  OBVIOUS
<1>6. j \in JobType /\ j.kind = "check" /\ j.vals = dev.set
  <2>1. line \in Seq(JobType) /\ Awaits
    BY DEF IInv, TypeOK
  <2>2. line[Len(line)] \in JobType
    <3>1. \A n \in {1, 2} : n \in 1..n
      OBVIOUS
    <3>2. Len(line) \in 1..Len(line)
      BY <1>3, <3>1, Zenon
    <3>3. QED
      BY <2>1, <3>2, ElementOfSeq, Zenon
  <2>3. QED
    BY <1>2, <1>5, <2>1, <2>2 DEF Awaits
<1>7. PICK d : d = ShowComp([dev EXCEPT
                     !.read = IF s = "Ok" THEN j.seen ELSE Nothing,
                     !.reapplied = IF reapplied THEN @ + 1 ELSE @])
  OBVIOUS
<1>8. /\ reapplied \in {FALSE, j.reapplied}
      /\ IF op.fn \in {"read", "boot"} THEN dev' = d /\ Idle(rest)
                                       ELSE Conclude(d, op.ok, rest)
  BY <1>1, <1>5, <1>7 DEF Last
<1>9. /\ d \in DevType /\ d.type = dev.type /\ d.set = dev.set /\ d.level = dev.level
      /\ d.lastCall = dev.lastCall /\ d.shown.comp = d.read /\ d.shown.level = dev.shown.level
      /\ d.read = IF s = "Ok" THEN j.seen ELSE Nothing
      /\ d.reapplied = IF reapplied THEN dev.reapplied + 1 ELSE dev.reapplied
  <2>1. j.seen \in Compensation /\ Nothing \in Compensation
    BY <1>6, FieldFacts DEF JobType
  <2>2. PICK r \in Compensation : r = IF s = "Ok" THEN j.seen ELSE Nothing
    BY <2>1
  <2>3. dev.reapplied \in Nat /\ reapplied \in BOOLEAN
    BY <1>4, <1>6, <1>8 DEF DevType, JobType
  <2>4. PICK c \in Nat : c = IF reapplied THEN dev.reapplied + 1 ELSE dev.reapplied
    BY <2>3
  <2>5. d = [dev EXCEPT !.read = r, !.reapplied = c, !.shown.comp = r]
    BY <1>4, <1>7, <2>2, <2>4 DEF ShowComp, DevType
  <2>6. QED
    BY <1>4, <2>2, <2>4, <2>5 DEF DevType
<1>10. /\ dev' \in DevType /\ dev'.type = dev.type /\ dev'.set = dev.set /\ dev'.level = dev.level
       /\ dev'.shown = d.shown /\ dev'.read = d.read /\ dev'.reapplied = d.reapplied
       /\ op.fn \in {"read", "boot"} => dev'.lastCall = dev.lastCall
       /\ op.fn \notin {"read", "boot"} => dev'.lastCall = [fn |-> op.fn, ok |-> op.ok]
  <2>1. CASE op.fn \in {"read", "boot"}
    BY <1>8, <1>9, <2>1
  <2>2. CASE op.fn \notin {"read", "boot"}
    <3>1. dev' = [d EXCEPT !.lastCall = [fn |-> op.fn, ok |-> op.ok]]
      BY <1>8, <2>2 DEF Conclude
    <3>2. op.fn \in Functions /\ op.ok \in BOOLEAN
      BY <1>4, <2>2 DEF OpType
    <3>3. QED
      BY <1>9, <2>2, <3>1, <3>2 DEF DevType
  <2>3. QED
    BY <2>1, <2>2
<1>11. /\ line' \in Seq(JobType) /\ JobType' = JobType /\ Levels' = Levels
       /\ Len(line') <= 2 /\ (stage' # "idle" => line' # <<>>)
       /\ Shape' /\ JobsOk' /\ Running'
       /\ \A i \in 1..Len(line') : line'[i] = LevelJob \/ (Len(line) > 0 /\ line'[i] = line[1])
       /\ stage' = IF op.ok /\ op.fn \in CalFns THEN "level" ELSE "idle"
       /\ stage' = "level" => line'[Len(line')] = LevelJob
       /\ rest = <<>> => /\ Len(line') < 2 /\ (stage' = "idle" => line' = <<>>)
                          /\ \A i \in 1..Len(line') : line'[i] = LevelJob
       /\ LevelJob.kind = "level" /\ LevelJob.kind \notin Senders \cup Calibrators
  <2>1. CASE op.fn \in {"read", "boot"}
    <3>1. Idle(rest) /\ op.fn \notin CalFns
      BY <1>8, <2>1 DEF CalFns
    <3>2. LevelJob.kind = "level" /\ LevelJob.kind \notin Senders \cup Calibrators
      BY <1>4, FieldFacts, NewJobOk DEF LevelJob, Senders, Calibrators
    <3>3. /\ line' \in Seq(JobType) /\ JobType' = JobType /\ Levels' = Levels
          /\ Len(line') <= 1 /\ stage' = "idle" /\ line' = rest
          /\ Shape' /\ JobsOk' /\ Running'
          /\ \A i \in 1..Len(line') : Len(line) > 0 /\ line'[i] = line[1]
      BY <1>2, <1>3, <1>10, <3>1, AfterIdle DEF Idle
    <3>4. QED
      BY <3>1, <3>2, <3>3
  <2>2. CASE op.fn \notin {"read", "boot"}
    <3>1. op.ok \in BOOLEAN
      BY <1>4 DEF OpType
    <3>2. PICK ok \in BOOLEAN : ok = op.ok
      BY <3>1
    <3>3. Conclude(d, ok, rest)
      BY <1>8, <2>2, <3>2
    <3>4. QED
      BY <1>2, <1>3, <1>10, <3>2, <3>3, ConcludeLine
  <2>3. QED
    BY <2>1, <2>2
<1>12. TypeOK'
  BY <1>2, <1>3, <1>4, <1>10, <1>11, HandlerTypes
<1>13. Awaits' /\ Shows'
  BY <1>9, <1>10, <1>11 DEF IInv, Awaits, Shows
<1>14. Published'
  <2>1. CASE s # "Ok"
    BY <1>9, <1>10, <2>1 DEF Published, Nothing
  <2>2. CASE s = "Ok"
    <3>1. Len(line) = 1 /\ rest = <<>> /\ j.step = "done" /\ j.status = "Ok" /\ j = line[1]
      BY <1>3, <1>5, <2>2
    <3>2. \A i \in 1..Len(line') : line'[i].kind \notin Senders
      BY <1>11, <3>1
    <3>3. ghost.calm => CheckKnows(j)
      BY <1>6, <3>1 DEF IInv, Running, RunOk
    <3>4. ghost.calm => \A f \in FieldSet : /\ dev'.read[f] \in {"none", held[f]}
                                            /\ dev'.set[f] \in {"none", held[f]}
      BY <1>6, <1>9, <1>10, <2>2, <3>1, <3>3 DEF CheckKnows
    <3>5. QED
      BY <1>2, <1>3, <3>2, <3>4 DEF Published
  <2>3. QED
    BY <2>1, <2>2
<1>15. LevelKept'
  <2>1. NoCalibrator => NoCalibrator'
    BY <1>3, <1>11, StillNone DEF NoCalibrator
  <2>2. "boot" \notin CalFns /\ "read" \notin CalFns
    BY DEF CalFns
  <2>3. QED
    BY <1>2, <1>10, <1>11, <2>1, <2>2 DEF IInv, LevelKept
<1>16. GivesBack'
  <2> SUFFICES ASSUME Undisturbed'
               PROVE  GivesBack'
    BY DEF GivesBack
  <2>1. Undisturbed /\ ghost'.clean
    BY <1>2, <1>3, <1>10 DEF Undisturbed
  <2>2. rest = <<>> /\ UNCHANGED ghost
    BY <1>3, <2>1
  <2>3. Len(line') < 2 /\ (stage' = "idle" => line' = <<>>) /\ stage' # "exec"
    BY <1>11, <2>2
  <2>4. GaveBack(line[1])'
    BY <1>2, <2>1, <2>3 DEF IInv, GivesBack, GaveBack, Given
  <2>5. QED
    BY <1>2, <1>10, <2>1, <2>2, <2>3, <2>4 DEF IInv, GivesBack
<1>17. Counted'
  <2>1. dev.reapplied \in Nat /\ ghost.resends \in Nat
    BY <1>4 DEF DevType, IInv, GhostOK
  <2>2. dev.reapplied + (IF j.reapplied THEN 1 ELSE 0) <= ghost.resends
    BY <1>2, <1>5 DEF IInv, Counted
  <2>3. dev'.reapplied <= ghost'.resends
    <3>1. ghost'.resends = ghost.resends /\ dev'.reapplied = d.reapplied
      BY <1>3, <1>10
    <3>2. CASE reapplied
      <4>1. j.reapplied /\ d.reapplied = dev.reapplied + 1
        BY <1>8, <1>9, <3>2
      <4>2. QED
        BY <2>1, <2>2, <3>1, <4>1
    <3>3. CASE ~reapplied
      <4>1. d.reapplied = dev.reapplied
        BY <1>9, <3>3
      <4>2. QED
        BY <2>1, <2>2, <3>1, <4>1
    <3>4. QED
      BY <3>2, <3>3
  <2>4. dev'.reapplied \in Nat /\ stage' # "check"
    BY <1>9, <1>10, <1>11, <2>1
  <2>5. QED
    BY <2>3, <2>4 DEF Counted
<1>18. QED
  BY <1>3, <1>11, <1>12, <1>13, <1>14, <1>15, <1>16, <1>17 DEF IInv

LEMMA LevelReturnsStep == IInv /\ LevelReturns => IInv'
<1> SUFFICES ASSUME IInv, LevelReturns
             PROVE  IInv'
  OBVIOUS
<1>1. PICK s, rest :
        /\ Returns(s, rest)
        /\ dev' = ShowLevel([dev EXCEPT !.level = IF s = "Ok" THEN {Last(line).seenLevel} ELSE {}])
        /\ IF op.fn = "boot" THEN WaitFor("check", rest, CheckJob(dev.set)) ELSE Idle(rest)
  BY DEF LevelReturns
<1>2. UNCHANGED <<held, level, op>> /\ stage = "level"
  BY DEF LevelReturns
<1>3. /\ rest \in Seq(JobType) /\ Left(rest) /\ Len(line) \in {1, 2}
      /\ \/ /\ Len(line) = 1 /\ rest = <<>> /\ line[1].step = "done" /\ s = line[1].status
            /\ UNCHANGED ghost
         \/ s = "DeadlineExceeded" /\ ghost'.clean = FALSE
      /\ budget' \in [calls : 0..MaxCalls[dev.type], faults : 0..MaxFaults, cuts : 0..MaxCuts]
      /\ GhostOK' /\ ghost'.calm = ghost.calm /\ ghost'.resends = ghost.resends
      /\ ghost'.known = ghost.known /\ ghost'.before = ghost.before
      /\ ghost'.clean => ghost.clean
  BY <1>1, ReturnsLeaves
<1>4. dev \in DevType /\ op \in OpType /\ dev.type \in Families
  BY DEF IInv, TypeOK, DevType, OpType
<1>5. s = "Ok" => Last(line).seenLevel = level
  <2> SUFFICES ASSUME s = "Ok"
               PROVE  Last(line).seenLevel = level
    OBVIOUS
  <2>1. Len(line) = 1 /\ line[1].step = "done" /\ line[1].status = "Ok"
    BY <1>3
  <2>2. line[1].kind = "level" /\ RunOk(line[1])
    BY <1>2, <2>1 DEF IInv, Awaits, Running
  <2>3. QED
    BY <2>1, <2>2 DEF RunOk, Last
<1>6. PICK l \in SUBSET {level} : dev' = ShowLevel([dev EXCEPT !.level = l])
  BY <1>1, <1>5
<1>7. /\ dev' \in DevType /\ dev'.type = dev.type /\ dev'.set = dev.set /\ dev'.read = dev.read
      /\ dev'.level = l /\ dev'.lastCall = dev.lastCall /\ dev'.reapplied = dev.reapplied
      /\ dev'.shown.level = l /\ dev'.shown.comp = dev.shown.comp
  <2>1. l \in Levels
    <3>1. level \in 0..MaxLevel[dev.type]
      BY DEF IInv, TypeOK
    <3>2. QED
      BY <3>1 DEF Levels
  <2>2. QED
    BY <1>4, <1>6, <2>1 DEF ShowLevel, DevType
<1>8. PICK j : j = CheckJob(dev.set)
  OBVIOUS
<1>9. /\ j \in JobType /\ JobOk(j) /\ j.step = "new" /\ ~j.reapplied /\ j.kind \notin Calibrators
      /\ j.kind = "check" /\ j.vals = dev.set
  BY <1>4, <1>8, FieldFacts, NewJobOk DEF CheckJob, DevType, Calibrators
<1>10. /\ line' \in Seq(JobType) /\ JobType' = JobType /\ Levels' = Levels
       /\ Len(line') <= 2 /\ (stage' # "idle" => line' # <<>>)
       /\ Shape' /\ JobsOk' /\ Running'
       /\ \A i \in 1..Len(line') : \/ stage' = "check" /\ line'[i] = j
                                   \/ Len(line) > 0 /\ line'[i] = line[1]
       /\ \/ stage' = "idle" /\ op.fn # "boot" /\ line' = rest
          \/ stage' = "check" /\ line'[Len(line')] = j /\ op.fn = "boot"
  <2>1. CASE op.fn = "boot"
    <3>1. WaitFor("check", rest, j)
      BY <1>1, <1>8, <2>1
    <3>2. /\ line' \in Seq(JobType) /\ JobType' = JobType /\ Levels' = Levels
          /\ Len(line') \in {1, 2} /\ stage' = "check" /\ line' # <<>>
          /\ Shape' /\ JobsOk' /\ Running' /\ line'[Len(line')] = j
          /\ \A i \in 1..Len(line') : line'[i] = j \/ (Len(line) > 0 /\ line'[i] = line[1])
      BY <1>2, <1>3, <1>7, <1>9, <3>1, AfterWait
    <3>3. QED
      BY <2>1, <3>2
  <2>2. CASE op.fn # "boot"
    <3>1. Idle(rest)
      BY <1>1, <2>2
    <3>2. /\ line' \in Seq(JobType) /\ JobType' = JobType /\ Levels' = Levels
          /\ Len(line') <= 1 /\ stage' = "idle" /\ line' = rest
          /\ Shape' /\ JobsOk' /\ Running'
          /\ \A i \in 1..Len(line') : Len(line) > 0 /\ line'[i] = line[1]
      BY <1>2, <1>3, <1>7, <3>1, AfterIdle DEF Idle
    <3>3. QED
      BY <2>2, <3>2
  <2>3. QED
    BY <2>1, <2>2
<1>11. TypeOK'
  BY <1>2, <1>3, <1>4, <1>7, <1>10, HandlerTypes
<1>12. Awaits' /\ Shows'
  BY <1>7, <1>9, <1>10 DEF IInv, Awaits, Shows
<1>13. Published'
  <2>1. Settled
    BY <1>2 DEF Settled
  <2>2. CASE stage' = "check" \/ dev.read = Nothing
    BY <1>7, <2>2 DEF Published, Settled, Nothing
  <2>3. CASE stage' # "check" /\ dev.read # Nothing
    <3>1. \A i \in 1..Len(line) : line[i].kind \notin Senders
      BY <2>1, <2>3 DEF IInv, Published
    <3>2. Len(line) > 0 => line[1].kind \notin Senders
      BY <1>3, <3>1
    <3>3. \A i \in 1..Len(line') : line'[i].kind \notin Senders
      BY <1>10, <2>3, <3>2
    <3>4. ghost.calm => \A f \in FieldSet : /\ dev.read[f] \in {"none", held[f]}
                                            /\ dev.set[f] \in {"none", held[f]}
      BY <2>1, <2>3 DEF IInv, Published
    <3>5. QED
      BY <1>2, <1>3, <1>7, <3>3, <3>4 DEF Published
  <2>4. QED
    BY <2>2, <2>3
<1>14. LevelKept'
  <2>1. NoCalibrator
    BY <1>2 DEF IInv, LevelKept
  <2>2. \A i \in 1..Len(line') : line'[i] = j \/ (Len(line) > 0 /\ line'[i] = line[1])
    BY <1>10
  <2>3. NoCalibrator'
    BY <1>3, <1>9, <2>1, <2>2, StillNone DEF NoCalibrator
  <2>4. QED
    BY <1>2, <1>7, <2>3 DEF LevelKept
<1>15. GivesBack'
  <2> SUFFICES ASSUME Undisturbed'
               PROVE  GivesBack'
    BY DEF GivesBack
  <2>1. Undisturbed /\ ghost'.clean /\ op.fn # "boot"
    BY <1>2, <1>3, <1>7 DEF Undisturbed
  <2>2. rest = <<>> /\ UNCHANGED ghost
    BY <1>3, <2>1
  <2>3. line' = <<>> /\ stage' = "idle" /\ Len(line') < 2
    BY <1>10, <2>1, <2>2
  <2>4. GaveBack(line[1])'
    BY <1>2, <2>1, <2>3 DEF IInv, GivesBack, GaveBack, Given
  <2>5. QED
    BY <1>2, <1>7, <2>1, <2>2, <2>3, <2>4 DEF IInv, GivesBack
<1>16. Counted'
  BY <1>2, <1>3, <1>4, <1>7, <1>9, <1>10 DEF IInv, Counted, GhostOK, DevType
<1>17. QED
  BY <1>3, <1>10, <1>11, <1>12, <1>13, <1>14, <1>15, <1>16 DEF IInv

\* Between requests the bus holds at most a job that runs on abandoned.
LEMMA IdleLine ==
  ASSUME IInv, stage = "idle"
  PROVE  Left(line)
<1>1. CASE line = <<>>
  BY <1>1 DEF Left
<1>2. CASE line # <<>>
  <2>1. Len(line) \in {1, 2} /\ Len(line) <= 1
    BY <1>2, RunningJob DEF IInv, Shape
  <2>2. \A n \in {1, 2} : n <= 1 => n = 1 /\ n > 0
    OBVIOUS
  <2>3. Len(line) = 1 /\ Len(line) > 0
    BY <2>1, <2>2, Zenon
  <2>4. QED
    BY <2>3 DEF IInv, Shape, Left
<1>3. QED
  BY <1>1, <1>2

LEMMA ReadStep == IInv /\ Read => IInv'
<1> SUFFICES ASSUME IInv, Read
             PROVE  IInv'
  OBVIOUS
<1>1. /\ stage = "idle" /\ op' = Request("read", Nothing, Nothing)
      /\ WaitFor("sample", line, SampleJob) /\ UNCHANGED <<held, level, dev, budget>>
      /\ ghost' = [ghost EXCEPT !.before = Defaults, !.clean = FALSE, !.known = FALSE]
  BY DEF Read
<1>2. /\ dev \in DevType /\ dev.type \in Families /\ line \in Seq(JobType)
      /\ budget \in [calls : 0..MaxCalls[dev.type], faults : 0..MaxFaults, cuts : 0..MaxCuts]
  BY DEF IInv, TypeOK, DevType
<1>3. PICK j : j = SampleJob
  OBVIOUS
<1>4. /\ j \in JobType /\ JobOk(j) /\ j.step = "new" /\ j.kind = "sample"
      /\ j.kind \notin Senders /\ j.kind \notin Calibrators
  BY <1>2, <1>3, FieldFacts, NewJobOk DEF SampleJob, Senders, Calibrators
<1>5. Left(line)
  BY <1>1, IdleLine
<1>6. /\ line' \in Seq(JobType) /\ JobType' = JobType /\ Levels' = Levels
      /\ Len(line') \in {1, 2} /\ stage' = "sample" /\ line' # <<>>
      /\ Shape' /\ JobsOk' /\ Running' /\ line'[Len(line')] = j
      /\ \A i \in 1..Len(line') : line'[i] = j \/ (Len(line) > 0 /\ line'[i] = line[1])
  BY <1>1, <1>2, <1>3, <1>4, <1>5, AfterWait
<1>7. op' \in OpType /\ op'.fn = "read"
  BY <1>1, FieldFacts DEF Request, OpType
<1>8. Len(line') <= 2 /\ Len(line) \in Nat
  BY <1>2, <1>6
<1>9. TypeOK'
  BY <1>1, <1>2, <1>6, <1>7, <1>8, HandlerTypes
<1>10. /\ GhostOK' /\ ghost'.calm = ghost.calm /\ ghost'.resends = ghost.resends
       /\ ghost'.clean = FALSE
  <2>1. Defaults \in [FieldSet -> Settings \cup {"ppt"}]
    BY ProviderAssumption DEF ProviderAssumption, Defaults
  <2>2. QED
    BY <1>1, <2>1 DEF IInv, GhostOK
<1>11. Awaits' /\ Shows'
  BY <1>1, <1>4, <1>6, <1>7, <1>10 DEF IInv, Awaits, Shows
<1>12. Published'
  BY <1>1, <1>4, <1>6, <1>8, <1>10, StillNone DEF IInv, Published, Settled, Nothing
<1>13. LevelKept'
  <2>1. NoCalibrator => NoCalibrator'
    BY <1>4, <1>6, <1>8, StillNone DEF NoCalibrator
  <2>2. QED
    BY <1>1, <1>6, <1>7, <2>1 DEF IInv, LevelKept
<1>14. GivesBack' /\ Counted'
  BY <1>1, <1>6, <1>7, <1>10 DEF IInv, GivesBack, Undisturbed, Counted
<1>15. QED
  BY <1>6, <1>9, <1>10, <1>11, <1>12, <1>13, <1>14 DEF IInv

\* The job of a call.
LEMMA CallJobOk ==
  ASSUME dev.type \in Families, dev.type \in {"Ph", "Do"}, NEW fn \in Functions,
         NEW args \in Compensation, NEW restore \in Compensation
  PROVE  LET j == CallJob(fn, args, restore)
         IN /\ j \in JobType /\ JobOk(j) /\ j.step = "new" /\ j.kind = KindOf(fn)
            /\ j.kind = "do_cal" => j.restore = restore
<1>1. Nothing \in Compensation /\ Defaults \in Compensation
  BY FieldFacts
<1>2. CASE fn = "set_compensation"
  <2>1. CallJob(fn, args, restore) = Job("write", args, Nothing) /\ KindOf(fn) = "write"
    BY <1>2 DEF CallJob, KindOf
  <2>2. QED
    BY <1>1, <2>1, NewJobOk
<1>3. CASE fn = "calibrate" /\ dev.type = "Do"
  <2>1. CallJob(fn, args, restore) = Job("do_cal", Defaults, restore) /\ KindOf(fn) = "do_cal"
    BY <1>3 DEF CallJob, KindOf
  <2>2. QED
    BY <1>1, <2>1, NewJobOk
<1>4. CASE fn = "calibrate" /\ dev.type = "Ph"
  <2>1. CallJob(fn, args, restore) = Job("ph_cal", Nothing, Nothing) /\ KindOf(fn) = "ph_cal"
    BY <1>4 DEF CallJob, KindOf
  <2>2. QED
    BY <1>1, <2>1, NewJobOk
<1>5. CASE fn = "clear_calibration"
  <2>1. CallJob(fn, args, restore) = Job("clear", Nothing, Nothing) /\ KindOf(fn) = "clear"
    BY <1>5 DEF CallJob, KindOf
  <2>2. QED
    BY <1>1, <2>1, NewJobOk
<1>6. CASE fn = "find"
  <2>1. CallJob(fn, args, restore) = Job("control", Nothing, Nothing) /\ KindOf(fn) = "control"
    BY <1>6 DEF CallJob, KindOf
  <2>2. QED
    BY <1>1, <2>1, NewJobOk
<1>7. QED
  BY <1>2, <1>3, <1>4, <1>5, <1>6 DEF Functions

LEMMA CallStep ==
  ASSUME IInv, NEW fn \in Functions, NEW args \in Compensation, Call(fn, args)
  PROVE  IInv'
<1>1. PICK restore : restore = IF fn = "calibrate" /\ dev.type = "Do"
                                 THEN Merge(dev.read, dev.set) ELSE Nothing
  OBVIOUS
<1>2. /\ stage = "idle" /\ budget.calls > 0 /\ budget' = [budget EXCEPT !.calls = @ - 1]
      /\ op' = Request(fn, args, restore)
      /\ WaitFor("exec", line, CallJob(fn, args, restore))
      /\ ghost' = [ghost EXCEPT !.before = held, !.clean = (line = <<>>), !.known = ghost.calm]
      /\ UNCHANGED <<held, level, dev>>
  BY <1>1 DEF Call
<1>3. /\ dev \in DevType /\ dev.type \in Families /\ dev.type \in {"Ph", "Do"}
      /\ line \in Seq(JobType) /\ held \in [FieldSet -> Settings \cup {"ppt"}]
  BY ProviderAssumption DEF IInv, TypeOK, DevType, ProviderAssumption
<1>4. restore \in Compensation
  BY <1>1, <1>3, FieldFacts DEF Merge, Compensation, DevType
<1>5. PICK j : j = CallJob(fn, args, restore)
  OBVIOUS
<1>6. /\ j \in JobType /\ JobOk(j) /\ j.step = "new" /\ j.kind = KindOf(fn)
      /\ j.kind = "do_cal" => j.restore = restore
  BY <1>3, <1>4, <1>5, CallJobOk
<1>7. /\ budget' \in [calls : 0..MaxCalls[dev.type], faults : 0..MaxFaults, cuts : 0..MaxCuts]
  <2>1. /\ budget \in [calls : 0..MaxCalls[dev.type], faults : 0..MaxFaults, cuts : 0..MaxCuts]
        /\ MaxCalls[dev.type] \in Nat
    BY <1>3, ProviderAssumption DEF IInv, TypeOK, ProviderAssumption
  <2>2. budget.calls - 1 \in 0..MaxCalls[dev.type]
    BY <1>2, <2>1
  <2>3. QED
    BY <1>2, <2>1, <2>2
<1>8. /\ GhostOK' /\ ghost'.calm = ghost.calm /\ ghost'.clean = (line = <<>>)
      /\ ghost'.known = ghost.calm /\ ghost'.before = held /\ ghost'.resends = ghost.resends
  BY <1>2, <1>3 DEF IInv, GhostOK
<1>9. Left(line)
  BY <1>2, IdleLine
<1>10. /\ line' \in Seq(JobType) /\ JobType' = JobType /\ Levels' = Levels
       /\ Len(line') \in {1, 2} /\ stage' = "exec" /\ line' # <<>>
       /\ Shape' /\ JobsOk' /\ Running' /\ line'[Len(line')] = j
       /\ \A i \in 1..Len(line') : line'[i] = j \/ (Len(line) > 0 /\ line'[i] = line[1])
       /\ line = <<>> => Len(line') < 2 /\ line'[1] = j
  BY <1>2, <1>3, <1>5, <1>6, <1>8, <1>9, AfterWait
<1>11. op' \in OpType /\ op'.fn = fn /\ op'.restore = restore
  BY <1>2, <1>4 DEF Request, OpType
<1>12. Len(line') <= 2 /\ Len(line) \in Nat
  BY <1>3, <1>10
<1>13. TypeOK'
  BY <1>2, <1>3, <1>7, <1>10, <1>11, <1>12, HandlerTypes
<1>14. Awaits' /\ Shows'
  BY <1>2, <1>6, <1>10, <1>11 DEF IInv, Awaits, KindOf, Shows
<1>15. Published'
  <2>1. CASE fn = "set_compensation" \/ (fn = "calibrate" /\ dev.type = "Do")
    <3>1. ~Settled'
      BY <1>2, <1>10, <1>11, <2>1 DEF Settled, TouchesCompensation
    <3>2. QED
      BY <3>1 DEF Published
  <2>2. CASE ~(fn = "set_compensation" \/ (fn = "calibrate" /\ dev.type = "Do"))
    <3>1. j.kind \notin Senders
      <4>1. fn = "calibrate" => dev.type = "Ph" /\ KindOf(fn) = "ph_cal"
        BY <1>3, <2>2 DEF KindOf
      <4>2. fn = "clear_calibration" => KindOf(fn) = "clear"
        BY DEF KindOf
      <4>3. fn = "find" => KindOf(fn) = "control"
        BY DEF KindOf
      <4>4. fn \in {"find", "calibrate", "clear_calibration"}
        BY <2>2 DEF Functions
      <4>5. j.kind \in {"ph_cal", "clear", "control"}
        BY <1>6, <4>1, <4>2, <4>3, <4>4
      <4>6. QED
        BY <4>5 DEF Senders
    <3>2. QED
      BY <1>2, <1>8, <1>10, <1>12, <3>1, StillNone DEF IInv, Published, Settled, Nothing
  <2>3. QED
    BY <2>1, <2>2
<1>16. LevelKept'
  <2>1. CASE fn \in CalFns
    <3>1. fn # "boot"
      BY <2>1 DEF CalFns
    <3>2. QED
      BY <1>10, <1>11, <2>1, <3>1 DEF LevelKept
  <2>2. CASE fn \notin CalFns
    <3>1. j.kind \notin Calibrators /\ fn # "boot"
      BY <1>6, <2>2 DEF KindOf, Calibrators, CalFns, Functions
    <3>2. NoCalibrator => NoCalibrator'
      BY <1>10, <1>12, <3>1, StillNone DEF NoCalibrator
    <3>3. QED
      BY <1>2, <1>10, <1>11, <3>1, <3>2 DEF IInv, LevelKept
  <2>3. QED
    BY <2>1, <2>2
<1>17. GivesBack'
  <2> SUFFICES ASSUME Undisturbed'
               PROVE  GivesBack'
    BY DEF GivesBack
  <2>1. fn = "calibrate" /\ dev.type = "Do" /\ line = <<>> /\ restore = Merge(dev.read, dev.set)
    BY <1>1, <1>2, <1>8, <1>11 DEF Undisturbed
  <2>2. \A f \in FieldSet : restore[f] = IF dev.set[f] # "none" THEN dev.set[f] ELSE dev.read[f]
    BY <2>1 DEF Merge
  <2>3. ASSUME NEW f \in FieldSet, dev.set[f] = "none", restore[f] # "none", ghost.calm
        PROVE  restore[f] = held[f]
    <3>1. dev.read[f] # "none" /\ restore[f] = dev.read[f]
      BY <2>2, <2>3
    <3>2. dev.read # Nothing
      BY <3>1 DEF Nothing
    <3>3. Settled
      BY <1>2 DEF Settled
    <3>4. QED
      BY <2>3, <3>1, <3>2, <3>3 DEF IInv, Published
  <2>4. GaveBack(line[1])'
    <3>1. line'[1].step = "new"
      BY <1>6, <1>10, <2>1
    <3>2. QED
      BY <1>10, <3>1 DEF GaveBack
  <2>5. Len(line') < 2 /\ stage' = "exec"
    BY <1>10, <2>1
  <2>6. QED
    BY <1>2, <1>8, <1>11, <2>2, <2>3, <2>4, <2>5 DEF GivesBack
<1>18. Counted'
  BY <1>2, <1>8, <1>10 DEF IInv, Counted
<1>19. QED
  BY <1>8, <1>10, <1>13, <1>14, <1>15, <1>16, <1>17, <1>18 DEF IInv

LEMMA CallRefusedStep ==
  ASSUME IInv, NEW fn \in Functions, CallRefused(fn)
  PROVE  IInv'
<1> USE DEF IInv
<1>1. /\ stage = "idle" /\ budget.calls > 0 /\ budget' = [budget EXCEPT !.calls = @ - 1]
      /\ dev' = [dev EXCEPT !.lastCall = [fn |-> fn, ok |-> FALSE]]
      /\ UNCHANGED <<held, level, line, stage, op, ghost>>
  BY DEF CallRefused
<1>2. dev \in DevType /\ op \in OpType /\ line \in Seq(JobType) /\ Len(line) <= 2
  BY DEF TypeOK, DevType, OpType
<1>3. /\ dev' \in DevType /\ dev'.type = dev.type /\ dev'.set = dev.set /\ dev'.read = dev.read
      /\ dev'.level = dev.level /\ dev'.reapplied = dev.reapplied /\ dev'.shown = dev.shown
      /\ dev'.lastCall.ok = FALSE
  BY <1>1, <1>2 DEF DevType
<1>4. /\ budget' \in [calls : 0..MaxCalls[dev.type], faults : 0..MaxFaults, cuts : 0..MaxCuts]
  <2>1. /\ budget \in [calls : 0..MaxCalls[dev.type], faults : 0..MaxFaults, cuts : 0..MaxCuts]
        /\ MaxCalls[dev.type] \in Nat
    BY ProviderAssumption DEF TypeOK, ProviderAssumption
  <2>2. budget.calls - 1 \in 0..MaxCalls[dev.type]
    BY <1>1, <2>1
  <2>3. QED
    BY <1>1, <2>1, <2>2
<1>5. JobType' = JobType /\ Levels' = Levels
  BY <1>3 DEF JobType, Levels
<1>6. TypeOK'
  BY <1>1, <1>2, <1>3, <1>4, <1>5, HandlerTypes DEF TypeOK
<1>7. GhostOK' /\ Shape' /\ Awaits' /\ Shows' /\ Counted'
  BY <1>1, <1>3 DEF GhostOK, Shape, Awaits, Shows, Counted
<1>8. JobsOk' /\ Running'
  BY <1>1, <1>3 DEF JobsOk, JobOk, Running, RunOk, CheckKnows
<1>9. Published'
  BY <1>1, <1>3 DEF Published, Settled, Nothing
<1>10. LevelKept'
  BY <1>1, <1>3 DEF LevelKept, NoCalibrator
<1>11. GivesBack'
  BY <1>1, <1>3 DEF GivesBack, Undisturbed, GaveBack, Given
<1>12. QED
  BY <1>6, <1>7, <1>8, <1>9, <1>10, <1>11
-------------------------------------------------------------------------------
(* The theorems.                                                           *)

\* Every step of the provider, of its bus and of the probe keeps the invariant.
LEMMA InvNext == IInv /\ [Next]_vars => IInv'
<1> SUFFICES ASSUME IInv, [Next]_vars
             PROVE  IInv'
  OBVIOUS
<1>1. CASE Worker
  BY <1>1, BeginJobStep, QueryFieldStep, SendFieldStep, CommandStep DEF Worker
<1>2. CASE Handler
  BY <1>2, SampleReturnsStep, ExecReturnsStep, CheckReturnsStep, LevelReturnsStep DEF Handler
<1>3. CASE Read
  BY <1>3, ReadStep
<1>4. CASE Calls
  <2>1. CASE \E args \in CompensationArgs : Call("set_compensation", args)
    BY <2>1, CallStep DEF CompensationArgs, Functions
  <2>2. CASE \E fn \in Functions \ {"set_compensation"} : Call(fn, Nothing)
    BY <2>2, CallStep, FieldFacts
  <2>3. CASE \E fn \in Functions : CallRefused(fn)
    BY <2>3, CallRefusedStep
  <2>4. QED
    BY <1>4, <2>1, <2>2, <2>3 DEF Calls
<1>5. CASE PowerCut
  BY <1>5, PowerCutStep
<1>6. CASE UNCHANGED vars
  <2> USE <1>6 DEF vars, IInv
  <2>1. TypeOK' /\ GhostOK' /\ Shape'
    BY DEF TypeOK, GhostOK, Shape, JobType, Levels
  <2>2. JobsOk' /\ Awaits' /\ Shows'
    BY DEF JobsOk, JobOk, Awaits, KindOf, Shows
  <2>3. Running' /\ Published'
    BY DEF Running, RunOk, CheckKnows, Published, Settled, TouchesCompensation, Nothing
  <2>4. LevelKept' /\ GivesBack' /\ Counted'
    BY DEF LevelKept, NoCalibrator, GivesBack, Undisturbed, GaveBack, Given, Counted
  <2>5. QED
    BY <2>1, <2>2, <2>3, <2>4
<1>7. QED
  BY <1>1, <1>2, <1>3, <1>4, <1>5, <1>6 DEF Next

LEMMA Invariance == Spec => []IInv
<1>1. Init => IInv
  BY InvInit
<1>2. IInv /\ [Next]_vars => IInv'
  BY InvNext
<1>3. QED
  BY <1>1, <1>2, PTL DEF Spec

\* The state keeps its types: the bus never holds more than the job that runs
\* on after its deadline and the one the handler waits for, which is what lets
\* the handler look at one end of the line and the worker at the other.
THEOREM TypeCorrect == Spec => []TypeOK
<1>1. IInv => TypeOK
  BY DEF IInv
<1>2. QED
  BY <1>1, Invariance, PTL

\* check_compensation publishes only what the probe holds: between requests the
\* compensation signals are true or unavailable, whatever failed or timed out.
THEOREM CompensationIsTrue == Spec => []CompensationTrue
<1>1. IInv => CompensationTrue
  <2> SUFFICES ASSUME IInv, stage = "idle", ghost.calm, NEW f \in FieldSet
               PROVE  dev.shown.comp[f] \in {"none", held[f]}
    BY DEF CompensationTrue
  <2>1. dev.shown.comp = dev.read
    BY DEF IInv, Shows
  <2>2. CASE dev.read = Nothing
    BY <2>1, <2>2 DEF Nothing
  <2>3. CASE dev.read # Nothing
    BY <2>1, <2>3 DEF IInv, Published, Settled
  <2>4. QED
    BY <2>2, <2>3
<1>2. QED
  BY <1>1, Invariance, PTL

\* After a check that succeeded the probe holds every value that
\* set_compensation set.
THEOREM SetValuesAreHeld == Spec => []SetValuesHeld
<1>1. IInv => SetValuesHeld
  BY DEF SetValuesHeld, IInv, Published, Settled
<1>2. QED
  BY <1>1, Invariance, PTL

\* The DO Cal command reaches the probe at the default compensation only.
THEOREM CalibrationAtDefault == Spec => []CalibratesAtDefault
<1>1. IInv => CalibratesAtDefault
  <2> SUFFICES ASSUME IInv, line # <<>>, line[1].kind = "do_cal", line[1].step = "command"
               PROVE  held = Defaults
    BY DEF CalibratesAtDefault
  <2>1. QED
    BY RunningJob DEF RunOk
<1>2. QED
  BY <1>1, Invariance, PTL

\* After a calibration that succeeded the level signal is true or unavailable:
\* no calibration abandoned before it is left on the bus.
THEOREM LevelIsTrue == Spec => []LevelTrue
<1>1. IInv => LevelTrue
  BY DEF LevelTrue, IInv, LevelKept, Shows, CalFns
<1>2. QED
  BY <1>1, Invariance, PTL

\* A DO calibration that met no fault gives back the compensation it found.
THEOREM CalibrationRestores == Spec => []CalibrationGivesBack
<1>1. IInv => CalibrationGivesBack
  <2> SUFFICES ASSUME IInv, CalibratedCleanly, NEW f \in FieldSet
               PROVE  /\ dev.set[f] # "none" => held[f] = dev.set[f]
                      /\ dev.set[f] = "none" /\ op.restore[f] # "none" /\ ghost.known =>
                           held[f] = ghost.before[f]
    BY DEF CalibrationGivesBack
  <2>1. Undisturbed /\ stage = "idle"
    BY DEF CalibratedCleanly, Undisturbed
  <2>2. op.restore[f] # "none" => held[f] = op.restore[f]
    BY <2>1 DEF IInv, GivesBack, GaveBack, Given
  <2>3. QED
    BY <2>1, <2>2 DEF IInv, GivesBack
<1>2. QED
  BY <1>1, Invariance, PTL

\* compensation_reapplied_count counts no re-send that did not take place, also
\* when the outcome is read from under a check that timed out.
THEOREM ReappliesHappened == Spec => []NoPhantomReapply
<1>1. IInv => NoPhantomReapply
  BY DEF NoPhantomReapply, IInv, Counted, TypeOK, GhostOK
<1>2. QED
  BY <1>1, Invariance, PTL
================================================================================
