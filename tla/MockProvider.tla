------------------------------ MODULE MockProvider ------------------------------
(***************************************************************************)
(* The provider on its mock device, with the numbers: the arguments of a   *)
(* call are checked, the adapters of src/src/devices send them with so     *)
(* many decimals, the canned bus keeps them, and check_compensation() of   *)
(* src/src/core/runtime_state.cpp compares what it reads back with what    *)
(* was set, within its tolerances.                                         *)
(*                                                                         *)
(* The mock bus does not wait, fail in transit or miss deadlines, so a     *)
(* request is one step; faults, deadlines and interleavings are in         *)
(* EzoProviderRuntime.  Compensation values are in thousandths, -1 stands  *)
(* for std::nullopt.                                                       *)
(***************************************************************************)
EXTENDS CallArgs, CannedBus

CONSTANTS Configured,   \* set of device entries: [type, address]
          Queries,      \* mock:// queries, sequences of pairs
          ReadUnits,    \* last digits with which a probe may report T, S and P
          ArgValues,    \* values an argument of a call may have
          Calls,        \* calls that are made: [fn, args]
          CheckEvery,   \* kCompensationCheckEvery
          MaxCalls      \* bound on control calls

\* A probe reports temperature and pressure to one decimal at the coarsest and
\* salinity to a whole number.
LastDigits(f) == IF f = "S" THEN {1, 10, 100, 1000} ELSE {1, 10, 100}

\* What CannedOptions holds, with an error as the status of a canned answer.
Usable(o) ==
  /\ o.pending_reads \in Nat /\ o.calibration_level \in Nat /\ o.revert_after \in Nat
  /\ o.salinity_ppt \in BOOLEAN /\ o.start_temperature_c \in Int
  /\ o.status_code # 1

ASSUME MockAssumption ==
  /\ \A c \in Configured : c.type \in Families /\ c.address \in 0..127
  /\ \A u \in ReadUnits : u \in [Comp -> Nat] /\ \A f \in Comp : u[f] \in LastDigits(f)
  /\ \A query \in Queries : Usable(Parse(query))
  /\ \A c \in Calls : \A a \in DOMAIN c.args : c.args[a] \in ArgValues
  /\ \A v \in ArgValues : v.num \in Int /\ v.finite \in BOOLEAN /\ (v.type = "DOUBLE" \/ v.finite)
  /\ CheckEvery \in Nat \ {0, 1} /\ MaxCalls \in Nat

VARIABLES
  spec,      \* the DeviceSpec configured
  unit,      \* the digits this probe reports with
  options,   \* the CannedOptions of its bus
  canned,    \* the DeviceState of the canned bus
  active,    \* the device is among the active ones
  dev,       \* its ActiveDevice record
  answer,    \* the answer to the last call
  ghost      \* history: calls made, value resets, passes cut short, fields a
             \* calibration did not know, first values

vars == <<spec, unit, options, canned, active, dev, answer, ghost>>

Unset == -1
Nothing == [f \in Comp |-> Unset]
-------------------------------------------------------------------------------
(* The adapters.                                                           *)

\* T,n.nn  S,n.n,uS  P,n.nn
SetCommand(f, value) == Cmd(f, IF f = "S" THEN "uS" ELSE "set", Fixed(value, Decimals[f]))

Rereads == 5     \* kPendingRereads and the first read
Query(st, cmd)   == Exchange(options, st, cmd, 1)
Command(st, cmd) == Exchange(options, st, cmd, Rereads)

Took(x) == [st |-> x.st, ok |-> x.code = 1]

\* The value of f, if there is one and none before it was refused.
Sent(r, f, values) ==
  IF ~r.ok \/ values[f] = Unset THEN r ELSE Took(Command(r.st, SetCommand(f, values[f])))

\* write_compensation: the first value refused stops the rest.
WriteCompensation(st, values) ==
  LET t == Sent([st |-> st, ok |-> TRUE], "T", values)
  IN  IF spec.type = "Do" THEN Sent(Sent(t, "S", values), "P", values) ELSE t

\* What answer x to the query of f adds to reading r; a salinity in ppt is not
\* a value.
Gained(r, f, x) ==
  [st |-> x.st, ok |-> x.code = 1,
   values |-> [r.values EXCEPT ![f] = IF f = "S" /\ x.st.salinity_ppt THEN Unset
                                      ELSE Fixed(x.payload, unit[f])]]

Asked(r, f) == IF r.ok THEN Gained(r, f, Query(r.st, Cmd(f, "?", 0))) ELSE r

ReadCompensation(st) ==
  LET t == Asked([st |-> st, ok |-> TRUE, values |-> Nothing], "T")
  IN  IF spec.type = "Do" THEN Asked(Asked(t, "S"), "P") ELSE t

Reading(o) == IF o.code = 1 THEN Query(o.st, Cmd("r", NoText, 0)) ELSE o

\* A DO, EC or HUM reading is preceded by the query of its outputs.
ReadSample(st) ==
  Reading(IF spec.type \in {"Do", "Ec", "Hum"} THEN Query(st, Cmd("O", "?", 0))
                                               ELSE [st |-> st, code |-> 1, payload |-> 0])
-------------------------------------------------------------------------------
(* The checks of the runtime.                                              *)

Tolerance == [T |-> 60, S |-> 1000, P |-> 60]

Apart(a, b) == IF a > b THEN a - b ELSE b - a

\* Seeded fault: the values must agree to the last digit.
HoldsExact(f, set, read) == set = Unset \/ (read # Unset /\ set = read)

Holds(f, set, read) == set = Unset \/ (read # Unset /\ Apart(set, read) <= Tolerance[f])

HoldsAll(set, read) == \A f \in Comp : Holds(f, set[f], read[f])

Adjustable == spec.type \in {"Ph", "Do"}     \* adapters with compensation and levels

\* In what follows u is the device state and the device record, [st, dev].

\* The last reading of a check is published.
Published(d, reading) ==
  [st |-> reading.st,
   dev |-> [d EXCEPT !.read = IF reading.ok THEN reading.values ELSE Nothing]]

\* The values set were sent again.
Resent(d, sent) ==
  IF sent.ok THEN Published([d EXCEPT !.reapplied = @ + 1], ReadCompensation(sent.st))
             ELSE Published(d, sent)

\* Seeded fault: values that were lost are reported and not sent again.
ComparedOnly(d, first) == Published(d, first)

Compared(d, first) ==
  IF first.ok /\ ~HoldsAll(d.set, first.values)
    THEN Resent(d, WriteCompensation(first.st, d.set))
    ELSE Published(d, first)

\* check_compensation
Check(u) == IF Adjustable THEN Compared(u.dev, ReadCompensation(u.st)) ELSE u

Levelled(d, x) ==
  [st |-> x.st, dev |-> [d EXCEPT !.level = IF x.code = 1 THEN {x.payload} ELSE {}]]

\* refresh_calibration_level
RefreshLevel(u) == IF Adjustable THEN Levelled(u.dev, Query(u.st, Cmd("Cal", "?", 0))) ELSE u

\* Every so often a good sample is followed by a check.
Sampled(d, x) ==
  LET n == (d.successes + 1) % CheckEvery
      u == [st |-> x.st, dev |-> [d EXCEPT !.successes = n]]
  IN  IF x.code # 1 THEN [st |-> x.st, dev |-> d] ELSE IF n = 0 THEN Check(u) ELSE u

\* refresh_device_sample
Refresh(u) == Sampled(u.dev, ReadSample(u.st))
-------------------------------------------------------------------------------
(* Requests.                                                               *)

\* Lost values: how often a reading has reset the compensation.
Reverts(before, after) == IF /\ options.revert_after > 0
                             /\ before.readings < options.revert_after
                             /\ after.readings >= options.revert_after THEN 1 ELSE 0

Becomes(u, history) ==
  /\ canned' = u.st /\ dev' = u.dev
  /\ ghost' = [history EXCEPT !.reverts = @ + Reverts(canned, u.st)]

\* The identity i of what answers at the address decides; an active device is
\* then read for the first time.
Identified(i) ==
  LET u == [st |-> i.st, dev |-> [dev EXCEPT !.phase = "up"]]
  IN /\ active' = (i.code = 1 /\ i.payload = spec.type)
     /\ Becomes(IF active' THEN Check(RefreshLevel(Refresh(u))) ELSE u, ghost)

Initialize ==
  /\ dev.phase = "down"
  /\ Identified(Query(canned, Cmd("i", NoText, 0)))
  /\ UNCHANGED <<spec, unit, options, answer>>

\* read() of a sample that is too old.
Read ==
  /\ active
  /\ Becomes(Refresh([st |-> canned, dev |-> dev]), ghost)
  /\ UNCHANGED <<spec, unit, options, active, answer>>

\* The values of a set_compensation call.
Values(args) ==
  LET of(name) == IF name \in DOMAIN args THEN args[name].num ELSE Unset
  IN  [T |-> of("temperature_c"), S |-> of("salinity_us_cm"), P |-> of("pressure_kpa")]

Merge(old, new) == [f \in Comp |-> IF new[f] # Unset THEN new[f] ELSE old[f]]

\* The command of a calibrate, clear_calibration or control call.
ControlCommand(fn, args) ==
  CASE fn = "calibrate" /\ spec.type = "Ph" ->
         Cmd("Cal", args["point"].text, Fixed(args["reference_ph"].num, 10))
    [] fn = "calibrate"         -> Cmd("Cal", IF args["point"].text = "zero" THEN "0" ELSE NoText, 0)
    [] fn = "clear_calibration" -> Cmd("Cal", "clear", 0)
    [] OTHER                    -> Cmd(fn, NoText, 0)

\* A job that is over: how it ended, and whether it left every value it was to
\* send on the probe.
Job(st, ok, whole) == [st |-> st, ok |-> ok, whole |-> whole]

\* What a DO calibration sends back: the values set, else those last read.
Former == Merge(dev.read, dev.set)

\* Seeded fault: the former values are not sent back after a DO calibration.
RestoredNever(st, ok) == Job(st, ok, TRUE)

\* The end of a DO calibration.
Restored(st, ok) ==
  LET back == WriteCompensation(st, Former) IN Job(back.st, ok, back.ok)

Calibrated(x) == Restored(x.st, x.code = 1)

AtDefaults(defaults, cmd) ==
  IF defaults.ok THEN Calibrated(Command(defaults.st, cmd)) ELSE Restored(defaults.st, FALSE)

WroteAll(w) == Job(w.st, w.ok, w.ok)
Controlled(x) == Job(x.st, x.code = 1, TRUE)

CalibratesDo(fn) == fn = "calibrate" /\ spec.type = "Do"

\* The job of execute_safe_call: set_compensation's values; a DO calibration
\* between the defaults and the former values; or one command.  The answer of
\* sleep is not read.
Execute(fn, args) ==
  CASE fn = "set_compensation" -> WroteAll(WriteCompensation(canned, Values(args)))
    [] CalibratesDo(fn) ->
         AtDefaults(WriteCompensation(canned, DefaultsOf("Do")), ControlCommand(fn, args))
    [] fn = "sleep" -> Job(RecordCommand(options, canned, Cmd("sleep", NoText, 0)), TRUE, TRUE)
    [] OTHER -> Controlled(Command(canned, ControlCommand(fn, args)))

\* call() of an unknown device or function, or with arguments it refuses.
CallRefused(fn, args) ==
  /\ dev.phase = "up"
  /\ IF ~active \/ fn \notin DOMAIN FunctionSpecs(spec.type)
       THEN answer' = "NOT_FOUND"
       ELSE answer' \in Refusals(fn, spec.type, args)
  /\ UNCHANGED <<spec, unit, options, canned, active, dev, ghost>>

\* After the job: the values set are remembered, the compensation checked, the
\* level read, and the call answered.
Concludes(fn, args, x) ==
  LET setting == fn = "set_compensation"
      u == [st |-> x.st, dev |-> IF x.ok /\ setting THEN [dev EXCEPT !.set = Merge(@, Values(args))]
                                                    ELSE dev]
      c == IF setting \/ CalibratesDo(fn) THEN Check(u) ELSE u
  IN /\ Becomes(IF x.ok /\ fn \in {"calibrate", "clear_calibration"} THEN RefreshLevel(c) ELSE c,
                [ghost EXCEPT !.calls = @ + 1,
                              !.cut = @ + (IF x.whole THEN 0 ELSE 1),
                              !.unread = @ \cup {f \in Comp : CalibratesDo(fn) /\ Former[f] = Unset}])
     /\ answer' = IF x.ok THEN "OK" ELSE "FAILED"

\* call() that goes to the device.
Call(fn, args) ==
  /\ active /\ ghost.calls < MaxCalls
  /\ fn \in DOMAIN FunctionSpecs(spec.type) /\ Refusals(fn, spec.type, args) = {}
  /\ Concludes(fn, args, Execute(fn, args))
  /\ UNCHANGED <<spec, unit, options, active>>

Init ==
  /\ spec \in Configured /\ unit \in ReadUnits
  /\ \E query \in Queries : options = Parse(query)
  /\ canned = DeviceState(options, spec.address)
  /\ active = FALSE
  /\ dev = [phase |-> "down", set |-> Nothing, read |-> Nothing, level |-> {},
            successes |-> 0, reapplied |-> 0]
  /\ answer = "OK"
  /\ ghost = [calls |-> 0, reverts |-> 0, cut |-> 0, unread |-> {}, start |-> canned.comp]

Next == \/ Initialize \/ Read
        \/ \E c \in Calls : CallRefused(c.fn, c.args) \/ Call(c.fn, c.args)

Spec == Init /\ [][Next]_vars
-------------------------------------------------------------------------------
Optional == Nat \cup {Unset}

\* The levels a probe counts to, and the one it was started with.
Levels == 0..3 \cup {options.calibration_level}

TypeOK ==
  /\ canned.comp \in [Comp -> Nat] /\ canned.calibration_level \in Levels
  /\ canned.pending_left \in 0..options.pending_reads
  /\ answer \in {"OK", "FAILED", "NOT_FOUND", "INVALID_ARGUMENT", "OUT_OF_RANGE"}
  /\ active \in BOOLEAN /\ dev.phase \in {"down", "up"}
  /\ dev.set \in [Comp -> Optional] /\ dev.read \in [Comp -> Optional]
  /\ dev.level \in SUBSET Levels /\ dev.successes \in 0..(CheckEvery - 1)

\* The error of sending a value and of reading it back.
Rounding(f) == (Decimals[f] + unit[f]) \div 2

\* Whatever the arguments of a call, it is refused exactly when they do not
\* conform to the function the device declares, and as out of range only for a
\* number that is.  (Checked where a device starts: it does not change.)
ArgsAsDeclared ==
  dev.phase = "down" =>
    \A fn \in DOMAIN FunctionSpecs(spec.type) :
      LET declared == FunctionSpecs(spec.type)[fn]
      IN \A names \in SUBSET (DOMAIN declared \cup {"other"}) :
         \A args \in [names -> ArgValues] :
           LET refused == Refusals(fn, spec.type, args)
           IN /\ refused = {} <=> Conforms(declared, args)
              /\ "OUT_OF_RANGE" \in refused =>
                   \E a \in names \cap DOMAIN declared :
                     /\ args[a].type = "DOUBLE" /\ args[a].finite
                     /\ declared[a].type = "DOUBLE" /\ ~InBounds(declared[a], args[a])

\* Values that the probe still holds are never sent again because they read back
\* rounded: the re-sends are at most the times the values were really lost, to a
\* reset or to a pass of set_compensation or of a calibration that was cut short.
ResentOnlyWhenLost == dev.reapplied <= ghost.reverts + ghost.cut

\* When no sample was taken since the last good check, every value set is in
\* force up to its rounding, or was lost to one so close to it that the
\* tolerance cannot tell them apart.
SetMeansHeld ==
  dev.read # Nothing /\ dev.successes = 0 =>
    \A f \in Comp : dev.set[f] # Unset =>
      Apart(dev.set[f], canned.comp[f]) <= Tolerance[f] + Rounding(f)

\* A value nobody set does not drift: however often a DO calibration sends back
\* what it read, it stays within its rounding of what the probe first held, or
\* of the default once it was reset or a calibration did not know it.
NoDrift ==
  \A f \in Comp : dev.set[f] = Unset /\ ghost.cut = 0 =>
    \/ Apart(canned.comp[f], ghost.start[f]) <= Rounding(f)
    \/ /\ ghost.reverts > 0 \/ f \in ghost.unread
       /\ Apart(canned.comp[f], DefaultsOf(canned.family)[f]) <= Rounding(f)
================================================================================
