---------------------------- MODULE MCMockProvider ----------------------------
(* MockProvider on a pH and a DO device, a conductivity device and one     *)
(* whose address belongs to another family, with values next to the        *)
(* bounds, to the defaults and to the middle between two printed digits.   *)
EXTENDS MockProvider

Entries == {[type |-> "Ph", address |-> 99], [type |-> "Do", address |-> 97],
            [type |-> "Ec", address |-> 100], [type |-> "Ph", address |-> 97]}

Pair(key, cmd, num) == [key |-> key, cmd |-> cmd, num |-> num]

MockQueries ==
  {<<>>,
   <<Pair("revert_after", NoCmd, 2), Pair("sleep_delays", NoCmd, 1)>>,
   <<Pair("revert_after", NoCmd, 3), Pair("temp", NoCmd, 20047)>>,
   <<Pair("status", Cmd("S", "uS", 5000100), 2), Pair("cal", NoCmd, 2)>>,
   <<Pair("status", Cmd("Cal", "", 0), 255), Pair("temp", NoCmd, 18333)>>,
   <<Pair("pending", Cmd("Cal", "", 0), 4), Pair("sal_unit", NoCmd, 1)>>,
   <<Pair("pending", Cmd("T", "set", 37000), 5), Pair("revert_after", NoCmd, 2)>>,
   <<Pair("pending", Cmd("S", "uS", 5000100), 5)>>,
   <<Pair("status", Cmd("P", "?", 0), 2), Pair("temp", NoCmd, 18333)>>}

\* As the canned bus prints, and as coarsely as the tolerances allow for.
Units == {Decimals, [T |-> 100, S |-> 1000, P |-> 100]}

Numbers == {-1, 0, 7000, 9999, 14001, 20055, 30000, 37004, 95256, 100000, 100001, 300001, 5000060}

MockValues == {Double(n) : n \in Numbers} \cup {NotFinite, Bool}
              \cup {Text(s) : s \in {"mid", "zero", "atmospheric", "37"}}

CallOf(fn, args) == [fn |-> fn, args |-> args]

\* One call per kind of job, sets of one, two and three values, and two that
\* are refused.
MockCalls ==
  {CallOf("find", NoArgs), CallOf("sleep", NoArgs), CallOf("clear_calibration", NoArgs),
   CallOf("set_led", [enabled |-> Bool]), CallOf("set_led", NoArgs),
   CallOf("calibrate", [point |-> Text("mid"), reference_ph |-> Double(7000)]),
   CallOf("calibrate", [point |-> Text("zero")]),
   CallOf("calibrate", [point |-> Text("atmospheric")]),
   CallOf("set_compensation", [temperature_c |-> Double(37004)]),
   CallOf("set_compensation", [temperature_c |-> Double(20055)]),
   CallOf("set_compensation", [temperature_c |-> Double(100001)]),
   CallOf("set_compensation", [temperature_c |-> Double(37004), salinity_us_cm |-> Double(5000060)]),
   CallOf("set_compensation", [temperature_c |-> Double(30000), salinity_us_cm |-> Double(0),
                               pressure_kpa |-> Double(95256)])}
================================================================================
