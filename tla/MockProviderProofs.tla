--------------------------- MODULE MockProviderProofs ---------------------------
(***************************************************************************)
(* Proofs about the arguments of calls: what build_capabilities() declares *)
(* and what validate_call_args() refuses agree, for every value of every   *)
(* argument.                                                               *)
(***************************************************************************)
EXTENDS MockProvider, TLAPS

\* A value of an argument.
Value(v) == v.num \in Int /\ v.finite \in BOOLEAN /\ (v.type = "DOUBLE" \/ v.finite)

\* The refusals of a call agree with the declaration of its function.
Agrees(declared, refused, args) ==
  /\ refused = {} <=> Conforms(declared, args)
  /\ "OUT_OF_RANGE" \in refused =>
       \E a \in DOMAIN args \cap DOMAIN declared :
         /\ args[a].type = "DOUBLE" /\ args[a].finite
         /\ declared[a].type = "DOUBLE" /\ ~InBounds(declared[a], args[a])

\* The functions of a device of any family.
LEMMA SafeFunctions ==
  /\ DOMAIN SafeFunctionSpecs = {"find", "sleep", "set_led"}
  /\ SafeFunctionSpecs["find"] = NoArgs /\ SafeFunctionSpecs["sleep"] = NoArgs
  /\ SafeFunctionSpecs["set_led"] = [enabled |-> ArgSpec("BOOL")]
  BY DEF SafeFunctionSpecs

\* Those of a device that can be calibrated.
LEMMA AdjustableFunctions ==
  ASSUME NEW type \in {"Ph", "Do"}
  PROVE  LET f == FunctionSpecs(type)
         IN /\ DOMAIN f = {"find", "sleep", "set_led", "clear_calibration", "calibrate",
                           "set_compensation"}
            /\ f["find"] = NoArgs /\ f["sleep"] = NoArgs /\ f["clear_calibration"] = NoArgs
            /\ f["set_led"] = [enabled |-> ArgSpec("BOOL")]
            /\ f["calibrate"] = CalibrationFunctionSpecs(type)["calibrate"]
            /\ f["set_compensation"] = CompensationFunctionSpecs(type)["set_compensation"]
<1> DEFINE safe == SafeFunctionSpecs
           cal == CalibrationFunctionSpecs(type)
           comp == CompensationFunctionSpecs(type)
           f == FunctionSpecs(type)
<1>1. f = Join(safe, Join(cal, comp))
  BY DEF FunctionSpecs
<1>2. /\ DOMAIN cal = {"clear_calibration", "calibrate"} /\ cal["clear_calibration"] = NoArgs
      /\ DOMAIN comp = {"set_compensation"}
  BY DEF CalibrationFunctionSpecs, CompensationFunctionSpecs
<1> HIDE DEF safe, cal, comp, f
<1>3. /\ DOMAIN Join(cal, comp) = {"clear_calibration", "calibrate", "set_compensation"}
      /\ Join(cal, comp)["clear_calibration"] = NoArgs
      /\ Join(cal, comp)["calibrate"] = cal["calibrate"]
      /\ Join(cal, comp)["set_compensation"] = comp["set_compensation"]
  BY <1>2 DEF Join
<1>4. /\ DOMAIN f = {"find", "sleep", "set_led", "clear_calibration", "calibrate", "set_compensation"}
      /\ f["find"] = NoArgs /\ f["sleep"] = NoArgs
      /\ f["set_led"] = [enabled |-> ArgSpec("BOOL")]
      /\ f["clear_calibration"] = NoArgs
      /\ f["calibrate"] = cal["calibrate"] /\ f["set_compensation"] = comp["set_compensation"]
  BY <1>1, <1>3, SafeFunctions DEF Join, safe
<1>5. QED
  BY <1>4 DEF f, cal, comp

\* A number argument is refused as its declaration says.
LEMMA NumberAgrees ==
  ASSUME NEW v, Value(v), NEW b, b.min \in Int, b.max \in Int, NEW required \in BOOLEAN
  PROVE  LET s == Number(b, required)
             r == NumberRefusals(v, b.min, b.max)
         IN /\ s.type = "DOUBLE" /\ s.required = required
            /\ r \subseteq {"INVALID_ARGUMENT", "OUT_OF_RANGE"}
            /\ r = {} <=> ArgConforms(s, v)
            /\ "OUT_OF_RANGE" \in r => v.type = "DOUBLE" /\ v.finite /\ ~InBounds(s, v)
<1> DEFINE s == Number(b, required)
           r == NumberRefusals(v, b.min, b.max)
<1>1. PICK plain : plain = ArgSpec("DOUBLE")
  OBVIOUS
<1>2. /\ s.type = "DOUBLE" /\ s.required = required /\ s.allowed = {}
      /\ s.min = b.min /\ s.max = b.max
  <2>1. plain = [type |-> "DOUBLE", required |-> TRUE, allowed |-> {}, min |-> 0, max |-> 0]
    BY <1>1 DEF ArgSpec
  <2>2. s = [plain EXCEPT !.min = b.min, !.max = b.max, !.required = required]
    BY <1>1 DEF Number
  <2>3. QED
    BY <2>1, <2>2
<1> HIDE DEF s
<1>3. CASE v.type # "DOUBLE" \/ ~v.finite
  <2>1. r = {"INVALID_ARGUMENT"}
    BY <1>3 DEF NumberRefusals
  <2>2. ~ArgConforms(s, v)
    BY <1>2, <1>3 DEF ArgConforms
  <2>3. QED
    BY <1>2, <2>1, <2>2 DEF s
<1>4. CASE v.type = "DOUBLE" /\ v.finite /\ (v.num < b.min \/ v.num > b.max)
  <2>1. r = {"OUT_OF_RANGE"}
    BY <1>4 DEF NumberRefusals
  <2>2. ~InBounds(s, v) /\ ~ArgConforms(s, v)
    BY <1>2, <1>4 DEF InBounds, ArgConforms, Value
  <2>3. QED
    BY <1>2, <1>4, <2>1, <2>2 DEF s
<1>5. CASE v.type = "DOUBLE" /\ v.finite /\ ~(v.num < b.min \/ v.num > b.max)
  <2>1. r = {}
    BY <1>5 DEF NumberRefusals
  <2>2. ArgConforms(s, v)
    BY <1>2, <1>5 DEF InBounds, ArgConforms, Value
  <2>3. QED
    BY <1>2, <2>1, <2>2 DEF s
<1>6. QED
  BY <1>3, <1>4, <1>5

\* A function without arguments.
LEMMA NoArgsAgrees ==
  ASSUME NEW fn \in {"find", "sleep", "clear_calibration"}, NEW type, NEW args
  PROVE  Agrees(NoArgs, Refusals(fn, type, args), args)
<1>1. DOMAIN NoArgs = {}
  BY DEF NoArgs
<1>2. Refusals(fn, type, args) = IF DOMAIN args = {} THEN {} ELSE {"INVALID_ARGUMENT"}
  BY DEF Refusals
<1>3. Conforms(NoArgs, args) <=> DOMAIN args = {}
  BY <1>1 DEF Conforms
<1>4. QED
  BY <1>2, <1>3 DEF Agrees

\* set_led
LEMMA SetLedAgrees ==
  ASSUME NEW type, NEW args, \A a \in DOMAIN args : Value(args[a])
  PROVE  Agrees([enabled |-> ArgSpec("BOOL")], Refusals("set_led", type, args), args)
<1> DEFINE d == [enabled |-> ArgSpec("BOOL")]
<1>1. /\ DOMAIN d = {"enabled"} /\ d["enabled"].type = "BOOL" /\ d["enabled"].required
      /\ d["enabled"].allowed = {}
  BY DEF ArgSpec
<1> HIDE DEF d
<1>2. Refusals("set_led", type, args) = IF DOMAIN args = {"enabled"} /\ args["enabled"].type = "BOOL"
                                          THEN {} ELSE {"INVALID_ARGUMENT"}
  BY DEF Refusals
<1>3. Conforms(d, args) <=> DOMAIN args = {"enabled"} /\ args["enabled"].type = "BOOL"
  BY <1>1 DEF Conforms, ArgConforms, Value
<1>4. QED
  BY <1>2, <1>3 DEF Agrees, d

\* A choice is declared as one of its values.
LEMMA ChoiceConforms ==
  ASSUME NEW values, values # {}, NEW v, Value(v)
  PROVE  /\ Choice(values).required /\ Choice(values).type = "STRING"
         /\ ArgConforms(Choice(values), v) <=> v.type = "STRING" /\ v.text \in values
<1>1. PICK plain : plain = ArgSpec("STRING")
  OBVIOUS
<1>2. plain = [type |-> "STRING", required |-> TRUE, allowed |-> {}, min |-> 0, max |-> 0]
  BY <1>1 DEF ArgSpec
<1>3. Choice(values) = [plain EXCEPT !.allowed = values]
  BY <1>1 DEF Choice
<1>4. /\ Choice(values).required /\ Choice(values).type = "STRING"
      /\ Choice(values).allowed = values
  BY <1>2, <1>3
<1>5. QED
  BY <1>4 DEF ArgConforms, Value

\* calibrate of a pH probe: a point and a reference value.
LEMMA CalibratePhAgrees ==
  ASSUME NEW args, \A a \in DOMAIN args : Value(args[a])
  PROVE  Agrees(CalibrationFunctionSpecs("Ph")["calibrate"], CalibrateRefusals("Ph", args), args)
<1> DEFINE points == {"mid", "low", "high"}
           ref == Number([min |-> 0, max |-> 14000], TRUE)
           d == CalibrationFunctionSpecs("Ph")["calibrate"]
           r == CalibrateRefusals("Ph", args)
           n == NumberRefusals(args["reference_ph"], 0, 14000)
<1>1. d = [point |-> Choice(points), reference_ph |-> ref]
  BY DEF CalibrationFunctionSpecs
<1> HIDE DEF d, ref
<1>2. DOMAIN d = {"point", "reference_ph"} /\ d["point"] = Choice(points) /\ d["reference_ph"] = ref
  BY <1>1
<1>3. calibration_points("Ph") = points
  BY DEF calibration_points
<1>4. /\ d["point"].required
      /\ "point" \in DOMAIN args =>
           (ArgConforms(d["point"], args["point"]) <=>
              args["point"].type = "STRING" /\ args["point"].text \in points)
  <2>1. PICK v : Value(v)
    <3>1. Value([type |-> "BOOL", finite |-> TRUE, num |-> 0])
      BY DEF Value
    <3>2. QED
      BY <3>1
  <2>2. Choice(points).required
    BY <2>1, ChoiceConforms
  <2>3. QED
    BY <1>2, <2>2, ChoiceConforms
<1>5. /\ d["reference_ph"].required
      /\ "reference_ph" \in DOMAIN args =>
           /\ n = {} <=> ArgConforms(d["reference_ph"], args["reference_ph"])
           /\ "OUT_OF_RANGE" \in n =>
                /\ args["reference_ph"].type = "DOUBLE" /\ args["reference_ph"].finite
                /\ d["reference_ph"].type = "DOUBLE"
                /\ ~InBounds(d["reference_ph"], args["reference_ph"])
  <2> DEFINE b == [min |-> 0, max |-> 14000]
  <2>0. PICK req \in BOOLEAN : req = TRUE
    OBVIOUS
  <2>1. b.min = 0 /\ b.max = 14000 /\ ref = Number(b, req)
    BY <2>0 DEF ref
  <2> HIDE DEF b
  <2>2. PICK w : Value(w)
    <3>1. Value([type |-> "BOOL", finite |-> TRUE, num |-> 0])
      BY DEF Value
    <3>2. QED
      BY <3>1
  <2>3. ref.required
    <3>1. b.min \in Int /\ b.max \in Int
      BY <2>1
    <3>2. ref.required = req
      BY <2>1, <2>2, <3>1, NumberAgrees
    <3>3. QED
      BY <2>0, <3>2
  <2>4. ASSUME "reference_ph" \in DOMAIN args
        PROVE  /\ n = {} <=> ArgConforms(ref, args["reference_ph"])
               /\ "OUT_OF_RANGE" \in n =>
                    /\ args["reference_ph"].type = "DOUBLE" /\ args["reference_ph"].finite
                    /\ ref.type = "DOUBLE" /\ ~InBounds(ref, args["reference_ph"])
    <3>1. Value(args["reference_ph"]) /\ b.min \in Int /\ b.max \in Int
      BY <2>1, <2>4
    <3>2. n = NumberRefusals(args["reference_ph"], b.min, b.max)
      BY <2>1
    <3>3. QED
      BY <2>1, <3>1, <3>2, NumberAgrees
  <2>5. QED
    BY <1>2, <2>3, <2>4
<1> HIDE DEF n
<1>6. CASE \/ "point" \notin DOMAIN args
           \/ args["point"].type # "STRING"
           \/ args["point"].text \notin points
  <2>1. r = {"INVALID_ARGUMENT"}
    BY <1>3, <1>6 DEF CalibrateRefusals
  <2>2. ~Conforms(d, args)
    BY <1>2, <1>4, <1>6 DEF Conforms
  <2>3. QED
    BY <2>1, <2>2 DEF Agrees, d
<1>7. CASE /\ "point" \in DOMAIN args /\ args["point"].type = "STRING"
           /\ args["point"].text \in points /\ DOMAIN args # {"point", "reference_ph"}
  <2>1. r = {"INVALID_ARGUMENT"}
    BY <1>3, <1>7 DEF CalibrateRefusals
  <2>2. ~Conforms(d, args)
    BY <1>2, <1>4, <1>5, <1>7 DEF Conforms
  <2>3. QED
    BY <2>1, <2>2 DEF Agrees, d
<1>8. CASE /\ "point" \in DOMAIN args /\ args["point"].type = "STRING"
           /\ args["point"].text \in points /\ DOMAIN args = {"point", "reference_ph"}
  <2>1. r = n
    BY <1>3, <1>8 DEF CalibrateRefusals, n
  <2>2. Conforms(d, args) <=> ArgConforms(d["reference_ph"], args["reference_ph"])
    BY <1>2, <1>4, <1>8 DEF Conforms
  <2>3. "reference_ph" \in DOMAIN args \cap DOMAIN d
    BY <1>2, <1>8
  <2> HIDE DEF r
  <2>4. Agrees(d, r, args)
    BY <1>5, <2>1, <2>2, <2>3 DEF Agrees
  <2>5. QED
    BY <2>4 DEF d, r
<1>9. QED
  BY <1>6, <1>7, <1>8

\* calibrate of a DO probe: a point and nothing else.
LEMMA CalibrateDoAgrees ==
  ASSUME NEW args, \A a \in DOMAIN args : Value(args[a])
  PROVE  Agrees(CalibrationFunctionSpecs("Do")["calibrate"], CalibrateRefusals("Do", args), args)
<1> DEFINE points == {"atmospheric", "zero"}
           d == CalibrationFunctionSpecs("Do")["calibrate"]
           r == CalibrateRefusals("Do", args)
<1>1. d = [point |-> Choice(points)]
  BY DEF CalibrationFunctionSpecs
<1>2. DOMAIN d = {"point"} /\ d["point"] = Choice(points)
  BY <1>1
<1>3. calibration_points("Do") = points
  BY DEF calibration_points
<1>4. r = IF /\ DOMAIN args = {"point"} /\ args["point"].type = "STRING"
             /\ args["point"].text \in points
            THEN {} ELSE {"INVALID_ARGUMENT"}
  BY <1>3 DEF CalibrateRefusals
<1> HIDE DEF d, r
<1>5. d["point"].required
  <2>1. Value([type |-> "BOOL", finite |-> TRUE, num |-> 0])
    BY DEF Value
  <2>2. QED
    BY <1>2, <2>1, ChoiceConforms
<1>6. Conforms(d, args) <=> /\ DOMAIN args = {"point"} /\ args["point"].type = "STRING"
                            /\ args["point"].text \in points
  <2>1. "point" \in DOMAIN args =>
          (ArgConforms(d["point"], args["point"]) <=>
             args["point"].type = "STRING" /\ args["point"].text \in points)
    BY <1>2, ChoiceConforms
  <2>2. QED
    BY <1>2, <1>5, <2>1 DEF Conforms
<1>7. Agrees(d, r, args)
  BY <1>4, <1>6 DEF Agrees
<1>8. QED
  BY <1>7 DEF d, r

\* What set_compensation declares.
LEMMA CompensationFields ==
  ASSUME NEW type \in {"Ph", "Do"}
  PROVE  LET d == CompensationFunctionSpecs(type)["set_compensation"]
         IN /\ DOMAIN d = IF type = "Do" THEN {"temperature_c", "salinity_us_cm", "pressure_kpa"}
                                         ELSE {"temperature_c"}
            /\ \A a \in DOMAIN d : /\ d[a] = Number(Bounds[a], a = "temperature_c")
                                   /\ Bounds[a].min \in Int /\ Bounds[a].max \in Int
<1>1. /\ Bounds["temperature_c"].min \in Int /\ Bounds["temperature_c"].max \in Int
      /\ Bounds["salinity_us_cm"].min \in Int /\ Bounds["salinity_us_cm"].max \in Int
      /\ Bounds["pressure_kpa"].min \in Int /\ Bounds["pressure_kpa"].max \in Int
  BY DEF Bounds
<1> DEFINE d == CompensationFunctionSpecs(type)["set_compensation"]
<1>2. CASE type = "Ph"
  <2>1. d = [temperature_c |-> Number(Bounds.temperature_c, TRUE)]
    BY <1>2 DEF CompensationFunctionSpecs
  <2>2. DOMAIN d = {"temperature_c"} /\ d["temperature_c"] = Number(Bounds["temperature_c"], TRUE)
    BY <2>1
  <2> HIDE DEF d
  <2>3. QED
    BY <1>1, <1>2, <2>2 DEF d
<1>3. CASE type = "Do"
  <2>1. d = [temperature_c |-> Number(Bounds.temperature_c, TRUE),
             salinity_us_cm |-> Number(Bounds.salinity_us_cm, FALSE),
             pressure_kpa |-> Number(Bounds.pressure_kpa, FALSE)]
    BY <1>3 DEF CompensationFunctionSpecs
  <2>2. /\ DOMAIN d = {"temperature_c", "salinity_us_cm", "pressure_kpa"}
        /\ d["temperature_c"] = Number(Bounds["temperature_c"], TRUE)
        /\ d["salinity_us_cm"] = Number(Bounds["salinity_us_cm"], FALSE)
        /\ d["pressure_kpa"] = Number(Bounds["pressure_kpa"], FALSE)
    BY <2>1
  <2> HIDE DEF d
  <2>3. QED
    BY <1>1, <1>3, <2>2 DEF d
<1>4. QED
  BY <1>2, <1>3

\* set_compensation, whatever the order its arguments are looked at in.
LEMMA CompensationAgrees ==
  ASSUME NEW type \in {"Ph", "Do"}, NEW args, \A a \in DOMAIN args : Value(args[a])
  PROVE  Agrees(CompensationFunctionSpecs(type)["set_compensation"],
                CompensationRefusals(type, args), args)
<1> DEFINE d == CompensationFunctionSpecs(type)["set_compensation"]
           r == CompensationRefusals(type, args)
           fields == IF type = "Do" THEN {"temperature_c", "salinity_us_cm", "pressure_kpa"}
                                    ELSE {"temperature_c"}
           of(a) == IF a \in fields THEN NumberRefusals(args[a], Bounds[a].min, Bounds[a].max)
                    ELSE {"INVALID_ARGUMENT"}
           found == UNION {of(a) : a \in DOMAIN args}
<1>1. r = IF found # {} THEN found
          ELSE IF "temperature_c" \in DOMAIN args THEN {} ELSE {"INVALID_ARGUMENT"}
  BY DEF CompensationRefusals
<1>2. /\ DOMAIN d = fields /\ "temperature_c" \in fields
      /\ \A a \in fields : /\ d[a] = Number(Bounds[a], a = "temperature_c")
                           /\ Bounds[a].min \in Int /\ Bounds[a].max \in Int
  BY CompensationFields
<1> HIDE DEF d, r, fields
<1>3. ASSUME NEW a \in DOMAIN args, a \in fields
      PROVE  /\ of(a) = {} <=> ArgConforms(d[a], args[a])
             /\ "OUT_OF_RANGE" \in of(a) => /\ args[a].type = "DOUBLE" /\ args[a].finite
                                            /\ d[a].type = "DOUBLE" /\ ~InBounds(d[a], args[a])
  <2>1. PICK req \in BOOLEAN : req = (a = "temperature_c")
    OBVIOUS
  <2>2. d[a] = Number(Bounds[a], req)
    BY <1>2, <1>3, <2>1
  <2>3. Value(args[a]) /\ Bounds[a].min \in Int /\ Bounds[a].max \in Int
    BY <1>2, <1>3
  <2>4. of(a) = NumberRefusals(args[a], Bounds[a].min, Bounds[a].max)
    BY <1>3
  <2>5. QED
    BY <2>2, <2>3, <2>4, NumberAgrees
<1>4. \A a \in fields : d[a].required <=> a = "temperature_c"
  <2> TAKE a \in fields
  <2>1. PICK req \in BOOLEAN : req = (a = "temperature_c")
    OBVIOUS
  <2>2. d[a] = Number(Bounds[a], req) /\ Bounds[a].min \in Int /\ Bounds[a].max \in Int
    BY <1>2, <2>1
  <2>3. Value([type |-> "BOOL", finite |-> TRUE, num |-> 0])
    BY DEF Value
  <2>4. d[a].required = req
    BY <2>2, <2>3, NumberAgrees
  <2>5. QED
    BY <2>1, <2>4
<1>5. \A a \in DOMAIN args \ fields : of(a) = {"INVALID_ARGUMENT"}
  OBVIOUS
<1> HIDE DEF of
<1>6. found = {} <=> \A a \in DOMAIN args : of(a) = {}
  OBVIOUS
<1>7. found = {} <=> DOMAIN args \subseteq fields /\ \A a \in DOMAIN args : ArgConforms(d[a], args[a])
  <2>1. CASE DOMAIN args \subseteq fields
    BY <1>3, <1>6, <2>1
  <2>2. CASE ~(DOMAIN args \subseteq fields)
    BY <1>5, <1>6, <2>2
  <2>3. QED
    BY <2>1, <2>2
<1>8. Conforms(d, args) <=> found = {} /\ "temperature_c" \in DOMAIN args
  BY <1>2, <1>4, <1>7 DEF Conforms
<1>9. r = {} <=> Conforms(d, args)
  BY <1>1, <1>8
<1>10. ASSUME "OUT_OF_RANGE" \in r
       PROVE  \E a \in DOMAIN args \cap DOMAIN d :
                /\ args[a].type = "DOUBLE" /\ args[a].finite
                /\ d[a].type = "DOUBLE" /\ ~InBounds(d[a], args[a])
  <2>1. "OUT_OF_RANGE" \in found
    BY <1>1, <1>10
  <2>2. PICK a \in DOMAIN args : "OUT_OF_RANGE" \in of(a)
    BY <2>1
  <2>3. a \in fields
    BY <1>5, <2>2
  <2>4. QED
    BY <1>2, <1>3, <2>2, <2>3
<1>11. Agrees(d, r, args)
  BY <1>9, <1>10 DEF Agrees
<1>12. QED
  BY <1>11 DEF d, r
-------------------------------------------------------------------------------
\* validate_call_args() refuses a call of a declared function exactly when its
\* arguments do not conform to the declaration of build_capabilities(), and as
\* out of range only for a number that is: for every family and function, and
\* for any arguments at all.
THEOREM RefusedAsDeclared ==
  ASSUME NEW type \in Families, NEW fn \in DOMAIN FunctionSpecs(type),
         NEW args, \A a \in DOMAIN args : Value(args[a])
  PROVE  Agrees(FunctionSpecs(type)[fn], Refusals(fn, type, args), args)
<1>1. fn = "calibrate" => Refusals(fn, type, args) = CalibrateRefusals(type, args)
  BY DEF Refusals
<1>2. fn = "set_compensation" => Refusals(fn, type, args) = CompensationRefusals(type, args)
  BY DEF Refusals
<1>3. CASE type \in {"Ph", "Do"}
  <2>1. CASE fn \in {"find", "sleep", "clear_calibration"}
    BY <1>3, <2>1, AdjustableFunctions, NoArgsAgrees
  <2>2. CASE fn = "set_led"
    BY <1>3, <2>2, AdjustableFunctions, SetLedAgrees
  <2>3. CASE fn = "calibrate"
    BY <1>1, <1>3, <2>3, AdjustableFunctions, CalibratePhAgrees, CalibrateDoAgrees
  <2>4. CASE fn = "set_compensation"
    BY <1>2, <1>3, <2>4, AdjustableFunctions, CompensationAgrees
  <2>5. QED
    BY <1>3, <2>1, <2>2, <2>3, <2>4, AdjustableFunctions
<1>4. CASE type \notin {"Ph", "Do"}
  <2>1. FunctionSpecs(type) = SafeFunctionSpecs
    BY <1>4 DEF FunctionSpecs
  <2>2. CASE fn \in {"find", "sleep"}
    BY <2>1, <2>2, SafeFunctions, NoArgsAgrees
  <2>3. CASE fn = "set_led"
    BY <2>1, <2>3, SafeFunctions, SetLedAgrees
  <2>4. QED
    BY <2>1, <2>2, <2>3, SafeFunctions
<1>5. QED
  BY <1>3, <1>4

\* The configuration of the device is settled before the first step.
LEMMA SpecSettled ==
  ASSUME [Next]_vars
  PROVE  spec' = spec
<1>1. Initialize \/ Read \/ UNCHANGED vars => spec' = spec
  BY DEF Initialize, Read, vars
<1>2. \A fn, args : CallRefused(fn, args) \/ Call(fn, args) => spec' = spec
  BY DEF CallRefused, Call
<1>3. QED
  BY <1>1, <1>2 DEF Next

\* The same as the property of the device that the provider serves.
THEOREM ArgumentsAsDeclared == Spec => []ArgsAsDeclared
<1> DEFINE Inv == spec \in Configured
<1>1. Init => Inv
  BY DEF Init
<1>2. Inv /\ [Next]_vars => Inv'
  BY SpecSettled
<1>3. Inv => ArgsAsDeclared
  <2> SUFFICES ASSUME Inv,
                      NEW fn \in DOMAIN FunctionSpecs(spec.type),
                      NEW names \in SUBSET (DOMAIN FunctionSpecs(spec.type)[fn] \cup {"other"}),
                      NEW args \in [names -> ArgValues]
               PROVE  LET declared == FunctionSpecs(spec.type)[fn]
                          refused == Refusals(fn, spec.type, args)
                      IN /\ refused = {} <=> Conforms(declared, args)
                         /\ "OUT_OF_RANGE" \in refused =>
                              \E a \in names \cap DOMAIN declared :
                                /\ args[a].type = "DOUBLE" /\ args[a].finite
                                /\ declared[a].type = "DOUBLE" /\ ~InBounds(declared[a], args[a])
    BY DEF ArgsAsDeclared
  <2>1. spec.type \in Families
    BY MockAssumption DEF MockAssumption
  <2>2. DOMAIN args = names /\ \A a \in DOMAIN args : Value(args[a])
    BY MockAssumption DEF MockAssumption, Value
  <2>3. Agrees(FunctionSpecs(spec.type)[fn], Refusals(fn, spec.type, args), args)
    BY <2>1, <2>2, RefusedAsDeclared
  <2>4. QED
    BY <2>2, <2>3 DEF Agrees
<1>4. QED
  BY <1>1, <1>2, <1>3, PTL DEF Spec
================================================================================
