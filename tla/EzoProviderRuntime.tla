--------------------------- MODULE EzoProviderRuntime ---------------------------
(***************************************************************************)
(* One pH or DO probe as the provider controls it: the handler thread's    *)
(* read() and call() of src/src/core/ezo_provider_runtime.cpp, the         *)
(* per-device state of src/src/core/runtime_state.cpp that they update     *)
(* (the sample's slots, compensation_set, compensation_read,               *)
(* calibration_level) and the jobs that the executor's worker runs on the  *)
(* probe, one command at a time.                                           *)
(*                                                                         *)
(* The handler is the only thread that submits jobs and waits for each, so *)
(* by SerialBus the bus holds at most two of them: one whose submit()      *)
(* timed out while it ran, and behind it the one the handler waits for.    *)
(* A job is a record that says what is left of it; `todo' are the          *)
(* compensation fields its current pass has still to query or to send, in  *)
(* the order of Fields.                                                    *)
(***************************************************************************)
EXTENDS Naturals, Sequences, SequencesExt

CONSTANTS Families,    \* the EzoDeviceType a probe may have, of "Ph" and "Do"
          Fields,      \* compensation fields in the order of their commands
          Settings,    \* values a field can be set to
          Default,     \* the value a probe holds after a power cut
          MaxLevel,    \* highest calibration level of each family
          CheckEvery,  \* kCompensationCheckEvery
          MaxCalls,    \* bound on control calls, for each family
          MaxFaults,   \* bound on failed commands
          LateIsFault, \* a missed deadline counts as a fault; else any number may pass
          MaxCuts      \* bound on power cuts of the probe

FieldSet == Range(Fields)

ASSUME ProviderAssumption ==
  /\ Families \subseteq {"Ph", "Do"}
  /\ Fields \in Seq(STRING) /\ Fields # <<>>
  /\ Default \in Settings /\ "none" \notin Settings /\ "ppt" \notin Settings
  /\ MaxLevel \in [Families -> Nat \ {0}] /\ CheckEvery \in Nat \ {0, 1}
  /\ MaxCalls \in [Families -> Nat] /\ MaxFaults \in Nat /\ MaxCuts \in Nat
  /\ LateIsFault \in BOOLEAN

\* devices::Compensation: a value or std::nullopt per field.
Compensation == [FieldSet -> Settings \cup {"none"}]
Nothing == [f \in FieldSet |-> "none"]
Defaults == [f \in FieldSet |-> Default]

\* The fields that a family has commands for: pH only the first, the temperature.
FieldsOf(type) == IF type = "Ph" THEN {Head(Fields)} ELSE FieldSet

\* The fields of c that have a value: one that has none is not sent.
Given(c) == {f \in FieldSet : c[f] # "none"}

\* Field f is the first of S in the order of the commands.
First(f, S) == \E i \in DOMAIN Fields : /\ Fields[i] = f /\ f \in S
                                        /\ \A k \in 1..(i - 1) : Fields[k] \notin S

VARIABLES
  held,    \* held[f]: the value the probe compensates with; "ppt" is a
           \* salinity in a unit the provider cannot convert
  level,   \* the calibration level of the probe
  line,    \* jobs on the bus, the running one first
  stage,   \* what the handler waits for
  op,      \* the request the handler is serving
  dev,     \* the ActiveDevice record
  budget,  \* calls, faults and cuts left
  ghost    \* history the properties refer to; read by no guard

vars == <<held, level, line, stage, op, dev, budget, ghost>>
-------------------------------------------------------------------------------
(* Jobs.                                                                   *)

Job(kind, vals, restore) ==
  [kind |-> kind, step |-> "new", todo |-> {}, vals |-> vals,
   restore |-> restore, seen |-> Nothing, seenLevel |-> 0,
   reapplied |-> FALSE, status |-> "Ok"]

\* A reading or a level query is one command: its exchanges change nothing on the
\* probe, and the first that fails ends the job.
SampleJob == Job("sample", Nothing, Nothing)
LevelJob  == Job("level", Nothing, Nothing)
CheckJob(set) == Job("check", set, Nothing)

\* The job a control call submits: execute_safe_call.
CallJob(fn, args, restore) ==
  CASE fn = "set_compensation"                 -> Job("write", args, Nothing)
    [] fn = "calibrate" /\ dev.type = "Do"     -> Job("do_cal", Defaults, restore)
    [] fn = "calibrate" /\ dev.type = "Ph"     -> Job("ph_cal", Nothing, Nothing)
    [] fn = "clear_calibration"                -> Job("clear", Nothing, Nothing)
    [] OTHER                                   -> Job("control", Nothing, Nothing)

HoldsAll(set, seen) == \A f \in FieldSet : set[f] \in {"none", seen[f]}

Done(j, s) == [j EXCEPT !.step = "done", !.todo = {}, !.status = s]

\* The DO calibration sends the former values back, whatever the outcome s.
Restore(j, s) == IF Given(j.restore) = {}
                   THEN Done(j, s)
                   ELSE [j EXCEPT !.step = "restore", !.todo = Given(j.restore),
                                  !.status = s]

\* What the job does first.
FirstStep(j) ==
  CASE j.kind = "check"  -> [j EXCEPT !.step = "query", !.todo = FieldsOf(dev.type)]
    [] j.kind = "write"  -> [j EXCEPT !.step = "send", !.todo = Given(j.vals)]
    [] j.kind = "do_cal" -> [j EXCEPT !.step = "defaults", !.todo = Given(j.vals)]
    [] OTHER             -> [j EXCEPT !.step = "command"]

\* Seeded fault: the re-send is reported before it has gone through.
NextPassEarly(j) ==
  CASE j.step = "query" ->
         IF HoldsAll(j.vals, j.seen)
           THEN Done(j, "Ok")
           ELSE [j EXCEPT !.step = "resend", !.todo = Given(j.vals), !.reapplied = TRUE]
    [] j.step = "resend"   -> [j EXCEPT !.step = "requery", !.todo = FieldsOf(dev.type)]
    [] j.step = "defaults" -> [j EXCEPT !.step = "command"]
    [] OTHER               -> Done(j, j.status)

\* What the job does when its current pass over the fields is complete.
NextPass(j) ==
  CASE j.step = "query" ->
         IF HoldsAll(j.vals, j.seen)
           THEN Done(j, "Ok")
           ELSE [j EXCEPT !.step = "resend", !.todo = Given(j.vals)]
    [] j.step = "resend"   -> [j EXCEPT !.step = "requery", !.todo = FieldsOf(dev.type),
                                        !.reapplied = TRUE]
    [] j.step = "defaults" -> [j EXCEPT !.step = "command"]
    [] OTHER               -> Done(j, j.status)

\* Field f of the pass went through; a pass over a pH probe has only one.
Pop(j, f) == LET k == [j EXCEPT !.todo = @ \ {f}]
             IN  IF k.todo = {} THEN NextPass(k) ELSE k

\* Seeded fault: a refused default does not stop the calibration.
BrokenGoesOn(j) == CASE j.step = "defaults" -> [j EXCEPT !.step = "command", !.todo = {}]
                     [] j.step = "restore"  -> Done(j, j.status)
                     [] OTHER               -> Done(j, "Failed")

\* A command of the job failed.  A failed default is answered by sending the
\* former values; a failed restore is ignored and ends the pass.
Broken(j) == CASE j.step = "defaults" -> Restore(j, "Failed")
               [] j.step = "restore"  -> Done(j, j.status)
               [] OTHER               -> Done(j, "Failed")
-------------------------------------------------------------------------------
(* The worker.  A finished job leaves the bus; the one the handler waits   *)
(* for stays until submit() has returned its status.                       *)

Abandoned == stage = "idle" \/ Len(line) = 2

Put(j) == line' = IF j.step = "done" /\ Abandoned THEN Tail(line)
                                                  ELSE [line EXCEPT ![1] = j]

\* A command fails: on the bus, rejected, or unanswered after its re-reads.
Fault == /\ budget.faults > 0
         /\ budget' = [budget EXCEPT !.faults = @ - 1]
         /\ ghost' = [ghost EXCEPT !.clean = FALSE]

BeginJob ==
  /\ line # <<>> /\ line[1].step = "new"
  /\ Put(FirstStep(line[1]))
  /\ ghost' = IF line[1].kind = "check" THEN [ghost EXCEPT !.calm = TRUE] ELSE ghost
  /\ UNCHANGED <<held, level, stage, op, dev, budget>>

\* What a query makes of value v: a salinity in ppt is not a value.
Reported(v) == IF v = "ppt" THEN "none" ELSE v

\* T,? S,? and P,?: read_compensation.  The answer is kept only when the whole
\* pass succeeds.
QueryField ==
  /\ line # <<>> /\ line[1].step \in {"query", "requery"}
  /\ LET j == line[1]
     IN \/ /\ \E f \in FieldSet :
                /\ First(f, j.todo)
                /\ Put(Pop([j EXCEPT !.seen[f] = Reported(held[f])], f))
           /\ UNCHANGED <<budget, ghost>>
        \/ Put(Broken(j)) /\ Fault
  /\ UNCHANGED <<held, level, stage, op, dev>>

\* The value that the current pass sends for field f.
Sent(j, f) == IF j.step = "restore" THEN j.restore[f] ELSE j.vals[f]

\* T,n S,n,uS and P,n: write_compensation.  A command that reports an error
\* may or may not have been applied.
SendField ==
  /\ line # <<>> /\ line[1].step \in {"send", "resend", "defaults", "restore"}
  /\ \E f \in FieldSet :
       LET j == line[1]
           applied == [held EXCEPT ![f] = Sent(j, f)]
       IN /\ First(f, j.todo)
          /\ \/ /\ held' = applied
                /\ Put(Pop(j, f))
                /\ ghost' = IF j.step = "resend" /\ j.todo = {f}
                              THEN [ghost EXCEPT !.resends = @ + 1] ELSE ghost
                /\ UNCHANGED budget
             \/ held' \in {held, applied} /\ Put(Broken(j)) /\ Fault
  /\ UNCHANGED <<level, stage, op, dev>>

\* The levels the probe may report after the command: Cal moves it above 0,
\* Cal,clear to 0.
LevelsAfter(kind) == CASE kind \in {"do_cal", "ph_cal"} -> 1..MaxLevel[dev.type]
                       [] kind = "clear"                -> {0}
                       [] OTHER                         -> {level}

AfterResponse(j, s) == IF j.kind = "do_cal" THEN Restore(j, s) ELSE Done(j, s)

\* The one command of the job: a reading, Cal,? or a control command.  It is
\* answered; or its answer is an error; or sending it reports an error, and the
\* job ends there.  A command that reports an error may have been applied.
Command ==
  /\ line # <<>> /\ line[1].step = "command"
  /\ LET j == line[1]
     IN \/ /\ level' \in LevelsAfter(j.kind)
           /\ Put(AfterResponse([j EXCEPT !.seenLevel = level], "Ok"))
           /\ UNCHANGED <<budget, ghost>>
        \/ /\ level' \in LevelsAfter(j.kind) \cup {level}
           /\ Put(AfterResponse(j, "Failed")) \/ Put(Done(j, "Failed"))
           /\ Fault
  /\ UNCHANGED <<held, stage, op, dev>>

\* The probe loses power: it forgets its compensation and keeps its level.
PowerCut ==
  /\ budget.cuts > 0
  /\ budget' = [budget EXCEPT !.cuts = @ - 1]
  /\ held' = Defaults
  /\ ghost' = [ghost EXCEPT !.calm = FALSE, !.clean = FALSE]
  /\ UNCHANGED <<level, line, stage, op, dev>>
-------------------------------------------------------------------------------
(* The handler.                                                            *)

\* The deadline of a submit() may pass at any time, whatever the worker does.
DeadlinePasses ==
  /\ LateIsFault => budget.faults > 0
  /\ budget' = IF LateIsFault THEN [budget EXCEPT !.faults = @ - 1] ELSE budget
  /\ ghost' = [ghost EXCEPT !.clean = FALSE]

\* Seeded fault: a job abandoned before it began stays on the bus.
ReturnsKeeping(s, rest) ==
  /\ stage # "idle"
  /\ LET n == Len(line)
     IN \/ /\ line[n].step = "done"
           /\ s = line[n].status /\ rest = Front(line)
           /\ UNCHANGED <<budget, ghost>>
        \/ /\ line[n].step # "done"
           /\ s = "DeadlineExceeded" /\ rest = line
           /\ DeadlinePasses

\* submit() returns s and leaves `rest' on the bus: the job is done, or its
\* deadline passed, in which case it runs on unless it has not begun.
Returns(s, rest) ==
  /\ stage # "idle"
  /\ LET n == Len(line)
     IN \/ /\ line[n].step = "done"
           /\ s = line[n].status /\ rest = Front(line)
           /\ UNCHANGED <<budget, ghost>>
        \/ /\ line[n].step # "done"
           /\ s = "DeadlineExceeded"
           /\ rest = IF line[n].step = "new" THEN Front(line) ELSE line
           /\ DeadlinePasses

WaitFor(what, rest, j) == stage' = what /\ line' = Append(rest, j)

Idle(rest) == stage' = "idle" /\ line' = rest

\* apply_calibration_level and apply_compensation write the cached values into
\* the slots of the sample.
ShowLevel(d) == [d EXCEPT !.shown.level = d.level]
ShowComp(d)  == [d EXCEPT !.shown.comp = d.read]

\* remember_compensation: merge the values a call applied.
Merge(set, args) == [f \in FieldSet |-> IF args[f] # "none" THEN args[f] ELSE set[f]]

Request(fn, args, restore) ==
  [fn |-> fn, args |-> args, restore |-> restore, ok |-> TRUE]

\* read(): the sample is missing or too old, so it is refreshed.  The history of
\* the last call is of no more use and is dropped.
Read ==
  /\ stage = "idle"
  /\ op' = Request("read", Nothing, Nothing)
  /\ WaitFor("sample", line, SampleJob)
  /\ ghost' = [ghost EXCEPT !.before = Defaults, !.clean = FALSE, !.known = FALSE]
  /\ UNCHANGED <<held, level, dev, budget>>

\* Seeded fault: the periodic check is never due.
SampleReturnsUnchecked ==
  /\ stage = "sample"
  /\ \E s \in {"Ok", "Failed", "DeadlineExceeded"}, rest \in {line, Front(line)} :
       /\ Returns(s, rest)
       /\ dev' = IF s = "Ok"
                   THEN ShowComp(ShowLevel([dev EXCEPT !.has_sample = TRUE,
                                                       !.last_read_ok = TRUE]))
                   ELSE [dev EXCEPT !.last_read_ok = FALSE]
       /\ IF op.fn = "boot" THEN WaitFor("level", rest, LevelJob) ELSE Idle(rest)
  /\ UNCHANGED <<held, level, op>>

\* refresh_device_sample() after its job.
SampleReturns ==
  /\ stage = "sample"
  /\ \E s \in {"Ok", "Failed", "DeadlineExceeded"}, rest \in {line, Front(line)} :
       LET n == (dev.successes + 1) % CheckEvery
       IN /\ Returns(s, rest)
          /\ dev' = IF s = "Ok"
                      THEN ShowComp(ShowLevel([dev EXCEPT !.has_sample = TRUE,
                                                          !.last_read_ok = TRUE,
                                                          !.successes = n]))
                      ELSE [dev EXCEPT !.last_read_ok = FALSE]
          /\ IF s = "Ok" /\ n = 0 THEN WaitFor("check", rest, CheckJob(dev.set))
             ELSE IF op.fn = "boot" THEN WaitFor("level", rest, LevelJob)
             ELSE Idle(rest)
  /\ UNCHANGED <<held, level, op>>

\* Seeded fault: the calibration sends back only the values that were set.
CallForgetsHeld(fn, args) ==
  LET restore == IF fn = "calibrate" /\ dev.type = "Do" THEN dev.set ELSE Nothing
  IN /\ stage = "idle" /\ budget.calls > 0
     /\ budget' = [budget EXCEPT !.calls = @ - 1]
     /\ op' = [Request(fn, args, restore) EXCEPT
                 !.restore = IF fn = "calibrate" THEN Merge(dev.read, dev.set) ELSE @]
     /\ WaitFor("exec", line, CallJob(fn, args, restore))
     /\ ghost' = [ghost EXCEPT !.before = held, !.clean = (line = <<>>),
                               !.known = ghost.calm]
     /\ UNCHANGED <<held, level, dev>>

\* call() up to the submit of execute_safe_call.  A DO calibration takes along
\* the values to send back: those set, or else those last read.
Call(fn, args) ==
  LET restore == IF fn = "calibrate" /\ dev.type = "Do"
                   THEN Merge(dev.read, dev.set) ELSE Nothing
  IN /\ stage = "idle" /\ budget.calls > 0
     /\ budget' = [budget EXCEPT !.calls = @ - 1]
     /\ op' = Request(fn, args, restore)
     /\ WaitFor("exec", line, CallJob(fn, args, restore))
     /\ ghost' = [ghost EXCEPT !.before = held, !.clean = (line = <<>>),
                               !.known = ghost.calm]
     /\ UNCHANGED <<held, level, dev>>

\* call() with arguments that validate_call_args refuses.
CallRefused(fn) ==
  /\ stage = "idle" /\ budget.calls > 0
  /\ budget' = [budget EXCEPT !.calls = @ - 1]
  /\ dev' = [dev EXCEPT !.lastCall = [fn |-> fn, ok |-> FALSE]]
  /\ UNCHANGED <<held, level, line, stage, op, ghost>>

TouchesCompensation == \/ op.fn = "set_compensation"
                       \/ op.fn = "calibrate" /\ dev.type = "Do"

\* Seeded fault: the level is not read again after a calibration.
ConcludeUnread(d, ok, rest) ==
  /\ dev' = [d EXCEPT !.lastCall = [fn |-> op.fn, ok |-> ok]]
  /\ Idle(rest)

\* The end of call(): record_call_result, then read the level a successful
\* calibration changed.
Conclude(d, ok, rest) ==
  /\ dev' = [d EXCEPT !.lastCall = [fn |-> op.fn, ok |-> ok]]
  /\ IF ok /\ op.fn \in {"calibrate", "clear_calibration"}
       THEN WaitFor("level", rest, LevelJob)
       ELSE Idle(rest)

\* Seeded fault: the check after set_compensation uses the values set before.
ExecReturnsStale ==
  /\ stage = "exec"
  /\ \E s \in {"Ok", "Failed", "DeadlineExceeded"}, rest \in {line, Front(line)} :
       LET d == IF s = "Ok" /\ op.fn = "set_compensation"
                  THEN [dev EXCEPT !.set = Merge(@, op.args)] ELSE dev
       IN /\ Returns(s, rest)
          /\ op' = [op EXCEPT !.ok = (s = "Ok")]
          /\ IF TouchesCompensation
               THEN dev' = d /\ WaitFor("check", rest, CheckJob(dev.set))
               ELSE Conclude(d, s = "Ok", rest)
  /\ UNCHANGED <<held, level>>

\* execute_safe_call() after its job, and what call() does next.
ExecReturns ==
  /\ stage = "exec"
  /\ \E s \in {"Ok", "Failed", "DeadlineExceeded"}, rest \in {line, Front(line)} :
       LET d == IF s = "Ok" /\ op.fn = "set_compensation"
                  THEN [dev EXCEPT !.set = Merge(@, op.args)] ELSE dev
       IN /\ Returns(s, rest)
          /\ op' = [op EXCEPT !.ok = (s = "Ok")]
          /\ IF TouchesCompensation
               THEN dev' = d /\ WaitFor("check", rest, CheckJob(d.set))
               ELSE Conclude(d, s = "Ok", rest)
  /\ UNCHANGED <<held, level>>

\* Seeded fault: a failed check keeps the values read before.
CheckReturnsKeeping ==
  /\ stage = "check"
  /\ \E s \in {"Ok", "Failed", "DeadlineExceeded"}, rest \in {line, Front(line)},
        reapplied \in {FALSE, Last(line).reapplied} :
       LET d == ShowComp([dev EXCEPT
                  !.read = IF s = "Ok" THEN Last(line).seen ELSE @,
                  !.reapplied = IF reapplied THEN @ + 1 ELSE @])
       IN /\ Returns(s, rest)
          /\ s # "DeadlineExceeded" => reapplied = Last(line).reapplied
          /\ IF op.fn \in {"read", "boot"} THEN dev' = d /\ Idle(rest)
                                           ELSE Conclude(d, op.ok, rest)
  /\ UNCHANGED <<held, level, op>>

\* Seeded fault: a check that did not succeed is submitted again.
CheckReturnsRetrying ==
  /\ stage = "check"
  /\ \E s \in {"Ok", "Failed", "DeadlineExceeded"}, rest \in {line, Front(line)} :
       LET d == ShowComp([dev EXCEPT !.read = IF s = "Ok" THEN Last(line).seen ELSE Nothing])
       IN /\ Returns(s, rest)
          /\ IF s # "Ok" THEN dev' = d /\ WaitFor("check", rest, CheckJob(dev.set))
             ELSE IF op.fn \in {"read", "boot"} THEN dev' = d /\ Idle(rest)
             ELSE Conclude(d, op.ok, rest)
  /\ UNCHANGED <<held, level, op>>

\* check_compensation() after its job.  outcome->reapplied is read whatever the
\* status: after a timeout from under the running job, unsynchronized with it, so
\* that the read may miss a store already made.
CheckReturns ==
  /\ stage = "check"
  /\ \E s \in {"Ok", "Failed", "DeadlineExceeded"}, rest \in {line, Front(line)},
        reapplied \in {FALSE, Last(line).reapplied} :
       LET d == ShowComp([dev EXCEPT
                  !.read = IF s = "Ok" THEN Last(line).seen ELSE Nothing,
                  !.reapplied = IF reapplied THEN @ + 1 ELSE @])
       IN /\ Returns(s, rest)
          /\ s # "DeadlineExceeded" => reapplied = Last(line).reapplied
          /\ IF op.fn \in {"read", "boot"} THEN dev' = d /\ Idle(rest)
                                           ELSE Conclude(d, op.ok, rest)
  /\ UNCHANGED <<held, level, op>>

\* refresh_calibration_level() after its job.
LevelReturns ==
  /\ stage = "level"
  /\ \E s \in {"Ok", "Failed", "DeadlineExceeded"}, rest \in {line, Front(line)} :
       /\ Returns(s, rest)
       /\ dev' = ShowLevel([dev EXCEPT !.level = IF s = "Ok" THEN {Last(line).seenLevel}
                                                             ELSE {}])
       /\ IF op.fn = "boot" THEN WaitFor("check", rest, CheckJob(dev.set))
                            ELSE Idle(rest)
  /\ UNCHANGED <<held, level, op>>
-------------------------------------------------------------------------------
\* initialize() has bound the probe and reads it for the first time: a sample,
\* the level and the compensation.  The probe may hold anything.
InitOf(type) ==
  /\ held \in {h \in [FieldSet -> Settings \cup {"ppt"}] :
                 /\ \A f \in FieldSet : h[f] = "ppt" => f = "S"
                 /\ \A f \in FieldSet \ FieldsOf(type) : h[f] = Default}
  /\ level \in 0..MaxLevel[type]
  /\ line = <<SampleJob>>
  /\ stage = "sample"
  /\ op = Request("boot", Nothing, Nothing)
  /\ dev = [type |-> type, set |-> Nothing, read |-> Nothing, level |-> {},
            has_sample |-> FALSE, last_read_ok |-> FALSE, successes |-> 0,
            reapplied |-> 0, lastCall |-> [fn |-> "none", ok |-> TRUE],
            shown |-> [comp |-> Nothing, level |-> {}]]
  /\ budget = [calls |-> MaxCalls[type], faults |-> MaxFaults, cuts |-> MaxCuts]
  /\ ghost = [calm |-> FALSE, clean |-> FALSE, known |-> FALSE, before |-> held,
              resends |-> 0]

Init == \E type \in Families : InitOf(type)

\* set_compensation needs a temperature; the other fields of the family are
\* optional.
CompensationArgs ==
  {c \in Compensation : /\ c[Head(Fields)] # "none"
                        /\ Given(c) \subseteq FieldsOf(dev.type)}

Functions == {"find", "calibrate", "clear_calibration", "set_compensation"}

\* A call's arguments are refused, or are valid; the point and the reference of a
\* calibration do not matter to the state of the provider.
Calls == \/ \E args \in CompensationArgs : Call("set_compensation", args)
         \/ \E fn \in Functions \ {"set_compensation"} : Call(fn, Nothing)
         \/ \E fn \in Functions : CallRefused(fn)

Worker == BeginJob \/ QueryField \/ SendField \/ Command

Handler == SampleReturns \/ ExecReturns \/ CheckReturns \/ LevelReturns

Next == Worker \/ Handler \/ Read \/ Calls \/ PowerCut

Spec == Init /\ [][Next]_vars

(* The handler leaves no submit() unanswered, since each ends by its own   *)
(* deadline, and the runtime keeps polling.  Nothing is assumed of the     *)
(* worker: the bus may hang.  Calls, faults and power cuts may stop.       *)
FairSpec == Spec /\ WF_vars(Handler) /\ WF_vars(Read)

\* A submit() returns before its job is done.
Late == Handler /\ Last(line).step # "done"
-------------------------------------------------------------------------------
JobType ==
  [kind : {"sample", "level", "check", "write", "do_cal", "ph_cal", "clear", "control"},
   step : {"new", "command", "query", "resend", "requery", "send", "defaults",
           "restore", "done"},
   todo : SUBSET FieldSet, vals : Compensation, restore : Compensation,
   seen : Compensation, seenLevel : 0..MaxLevel[dev.type], reapplied : BOOLEAN,
   status : {"Ok", "Failed"}]

\* An optional level: empty while it is unknown.
Levels == SUBSET (0..MaxLevel[dev.type])

TypeOK ==
  /\ dev.type \in Families
  /\ held \in [FieldSet -> Settings \cup {"ppt"}]
  /\ level \in 0..MaxLevel[dev.type]
  /\ line \in Seq(JobType) /\ Len(line) <= 2
  /\ stage \in {"idle", "sample", "exec", "check", "level"}
  /\ stage # "idle" => line # <<>>
  /\ op \in [fn : Functions \cup {"boot", "read"}, args : Compensation,
             restore : Compensation, ok : BOOLEAN]
  /\ dev \in [type : Families, set : Compensation, read : Compensation, level : Levels,
              has_sample : BOOLEAN, last_read_ok : BOOLEAN,
              successes : 0..(CheckEvery - 1), reapplied : Nat,
              lastCall : [fn : Functions \cup {"none"}, ok : BOOLEAN],
              shown : [comp : Compensation, level : Levels]]
  /\ budget \in [calls : 0..MaxCalls[dev.type], faults : 0..MaxFaults, cuts : 0..MaxCuts]

\* Between requests the compensation signals show what the probe holds or are
\* unavailable, unless it lost power after the last check began: every request
\* that may have changed it, failed and abandoned ones too, was followed by a
\* check that either read it back or made it unknown.
CompensationTrue ==
  stage = "idle" /\ ghost.calm =>
    \A f \in FieldSet : dev.shown.comp[f] \in {"none", held[f]}

\* Between requests, if the last check succeeded and the probe has not lost
\* power since it began, the probe holds every value set through
\* set_compensation, also when a later call failed half way or timed out.
SetValuesHeld ==
  stage = "idle" /\ ghost.calm /\ dev.read # Nothing =>
    \A f \in FieldSet : dev.set[f] \in {"none", held[f]}

\* The DO Cal command reaches the probe only at the default compensation, with
\* every order of faults, power cuts and abandoned jobs before it.
CalibratesAtDefault ==
  line # <<>> =>
    (line[1].kind = "do_cal" /\ line[1].step = "command" => held = Defaults)

\* When the last call was a successful calibrate or clear_calibration, the
\* level signal shows the level of the probe or is unavailable; a calibration
\* that timed out before it cannot change the level behind its back.
LevelTrue ==
  /\ stage = "idle" /\ dev.lastCall.ok
  /\ dev.lastCall.fn \in {"calibrate", "clear_calibration"}
  => dev.shown.level \subseteq {level}

CalibratedCleanly == /\ stage = "idle" /\ op.fn = "calibrate" /\ op.ok
                     /\ dev.type = "Do" /\ ghost.clean

\* A DO calibration that met no fault leaves each field as it found it, or at
\* the value set, when the provider knew the field: it had been set, or the
\* last check read it and the probe has kept power since.
CalibrationGivesBack ==
  CalibratedCleanly =>
    \A f \in FieldSet :
      /\ dev.set[f] # "none" => held[f] = dev.set[f]
      /\ dev.set[f] = "none" /\ op.restore[f] # "none" /\ ghost.known =>
           held[f] = ghost.before[f]

\* compensation_reapplied_count never counts a re-send that did not happen.
NoPhantomReapply == dev.reapplied <= ghost.resends

\* Once faults, power cuts and calls have stopped, polling alone brings the
\* probe back to the values set, for good, provided that the worker keeps running
\* jobs and that from some time on they are done before their deadlines.
SetValuesReturn ==
  WF_vars(Worker) /\ <>[][~Late]_vars =>
    <>[](\A f \in FieldSet : dev.set[f] \in {"none", held[f]})

\* Every read() and call() ends, also on a bus that hangs for good in any job:
\* every submit() of the request ends by its own deadline, and a request submits
\* only finitely often, however its jobs end.
EveryRequestEnds == stage # "idle" ~> stage = "idle"
-------------------------------------------------------------------------------
(* Statements of the repository that the code does not keep.               *)

\* runtime_state.hpp: "a stale level is never reported after a calibration".
NeverStaleLevel ==
  stage = "idle" /\ line = <<>> => dev.shown.level \subseteq {level}

\* device-contracts-v1.md: DO calibrate "sends back the values set through
\* set_compensation, or else those the probe held before".
GivesBackWhatWasHeld ==
  CalibratedCleanly =>
    \A f \in FieldSet : held[f] = IF dev.set[f] # "none" THEN dev.set[f]
                                                         ELSE ghost.before[f]
================================================================================
