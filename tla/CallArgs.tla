-------------------------------- MODULE CallArgs --------------------------------
(***************************************************************************)
(* The functions a device declares, as build_capabilities() of             *)
(* src/src/core/runtime_state.cpp lists them, and the check of a call's    *)
(* arguments, validate_call_args() of                                      *)
(* src/src/core/ezo_provider_runtime.cpp.  The two are written twice in    *)
(* the code; here they are the declared FunctionSpecs and Refusals.        *)
(*                                                                         *)
(* A number is in thousandths of its unit.                                 *)
(***************************************************************************)
EXTENDS Integers

Families == {"Ph", "Orp", "Ec", "Do", "Rtd", "Hum"}

\* Argument values: a finite double, a double that is not finite, a string, a
\* bool.
Double(n) == [type |-> "DOUBLE", finite |-> TRUE, num |-> n, text |-> ""]
NotFinite == [type |-> "DOUBLE", finite |-> FALSE, num |-> 0, text |-> ""]
Text(s)   == [type |-> "STRING", finite |-> TRUE, num |-> 0, text |-> s]
Bool      == [type |-> "BOOL", finite |-> TRUE, num |-> 0, text |-> ""]

\* kMinTemperatureC .. kMaxPressureKpa, which both sides use.
Bounds == [temperature_c |-> [min |-> 0, max |-> 100000],
           salinity_us_cm |-> [min |-> 0, max |-> 100000000],
           pressure_kpa |-> [min |-> 10000, max |-> 300000]]
-------------------------------------------------------------------------------
(* What a device declares: for each function, its arguments.               *)

ArgSpec(type) == [type |-> type, required |-> TRUE, allowed |-> {}, min |-> 0, max |-> 0]
Choice(values) == [ArgSpec("STRING") EXCEPT !.allowed = values]
Number(b, required) == [ArgSpec("DOUBLE") EXCEPT !.min = b.min, !.max = b.max, !.required = required]
NoArgs == [a \in {} |-> ArgSpec("BOOL")]

SafeFunctionSpecs == [find |-> NoArgs, sleep |-> NoArgs,
                      set_led |-> [enabled |-> ArgSpec("BOOL")]]

CalibrationFunctionSpecs(type) ==
  [clear_calibration |-> NoArgs,
   calibrate |-> IF type = "Ph"
                   THEN [point |-> Choice({"mid", "low", "high"}),
                         reference_ph |-> Number([min |-> 0, max |-> 14000], TRUE)]
                   ELSE [point |-> Choice({"atmospheric", "zero"})]]

CompensationFunctionSpecs(type) ==
  [set_compensation |-> IF type = "Ph"
                          THEN [temperature_c |-> Number(Bounds.temperature_c, TRUE)]
                          ELSE [temperature_c |-> Number(Bounds.temperature_c, TRUE),
                                salinity_us_cm |-> Number(Bounds.salinity_us_cm, FALSE),
                                pressure_kpa |-> Number(Bounds.pressure_kpa, FALSE)]]

Join(f, g) == [x \in DOMAIN f \cup DOMAIN g |-> IF x \in DOMAIN f THEN f[x] ELSE g[x]]

FunctionSpecs(type) ==
  IF type \in {"Ph", "Do"}
    THEN Join(SafeFunctionSpecs, Join(CalibrationFunctionSpecs(type),
                                      CompensationFunctionSpecs(type)))
    ELSE SafeFunctionSpecs

\* What the declaration of an argument says of its value.
InBounds(spec, v) == v.num >= spec.min /\ v.num <= spec.max

ArgConforms(spec, v) ==
  /\ v.type = spec.type /\ v.finite
  /\ v.type = "DOUBLE" => InBounds(spec, v)
  /\ spec.allowed # {} => v.text \in spec.allowed

\* What the declaration of a function says of a call's arguments.
Conforms(spec, args) ==
  /\ DOMAIN args \subseteq DOMAIN spec
  /\ \A a \in DOMAIN spec : spec[a].required => a \in DOMAIN args
  /\ \A a \in DOMAIN args : ArgConforms(spec[a], args[a])
-------------------------------------------------------------------------------
(* What the provider checks: the set of the errors a call may be refused   *)
(* with, empty if it is accepted.  It has two elements where the order in  *)
(* which the arguments are looked at decides.                              *)

calibration_points(type) == CASE type = "Ph" -> {"mid", "low", "high"}
                              [] type = "Do" -> {"atmospheric", "zero"}
                              [] OTHER       -> {}

\* A number argument.
NumberRefusals(v, min, max) ==
  IF v.type # "DOUBLE" \/ ~v.finite THEN {"INVALID_ARGUMENT"}
  ELSE IF v.num < min \/ v.num > max THEN {"OUT_OF_RANGE"}
  ELSE {}

\* Seeded fault: a further argument of a DO calibration is let through.
CalibrateRefusalsOpen(type, args) ==
  IF \/ "point" \notin DOMAIN args
     \/ args["point"].type # "STRING"
     \/ args["point"].text \notin calibration_points(type)
    THEN {"INVALID_ARGUMENT"}
  ELSE IF type # "Ph" THEN {}
  ELSE IF DOMAIN args # {"point", "reference_ph"} THEN {"INVALID_ARGUMENT"}
  ELSE NumberRefusals(args["reference_ph"], 0, 14000)

CalibrateRefusals(type, args) ==
  IF \/ "point" \notin DOMAIN args
     \/ args["point"].type # "STRING"
     \/ args["point"].text \notin calibration_points(type)
    THEN {"INVALID_ARGUMENT"}
  ELSE IF type # "Ph"
    THEN IF DOMAIN args = {"point"} THEN {} ELSE {"INVALID_ARGUMENT"}
  ELSE IF DOMAIN args # {"point", "reference_ph"} THEN {"INVALID_ARGUMENT"}
  ELSE NumberRefusals(args["reference_ph"], 0, 14000)

\* The arguments are looked at one after the other; only then is a missing
\* temperature noticed.
CompensationRefusals(type, args) ==
  LET fields == IF type = "Do" THEN {"temperature_c", "salinity_us_cm", "pressure_kpa"}
                               ELSE {"temperature_c"}
      found == UNION {IF a \in fields THEN NumberRefusals(args[a], Bounds[a].min, Bounds[a].max)
                      ELSE {"INVALID_ARGUMENT"} : a \in DOMAIN args}
  IN  IF found # {} THEN found
      ELSE IF "temperature_c" \in DOMAIN args THEN {} ELSE {"INVALID_ARGUMENT"}

Refusals(fn, type, args) ==
  CASE fn \in {"find", "sleep", "clear_calibration"} ->
         IF DOMAIN args = {} THEN {} ELSE {"INVALID_ARGUMENT"}
    [] fn = "set_led" ->
         IF DOMAIN args = {"enabled"} /\ args["enabled"].type = "BOOL"
           THEN {} ELSE {"INVALID_ARGUMENT"}
    [] fn = "calibrate" -> CalibrateRefusals(type, args)
    [] fn = "set_compensation" -> CompensationRefusals(type, args)
    [] OTHER -> {"INVALID_ARGUMENT"}
================================================================================
