------------------------------- MODULE CannedBus -------------------------------
(***************************************************************************)
(* The mock device of src/src/i2c/ezo_canned_bus.cpp: a DeviceState per    *)
(* address, what a command written to it changes and what a read of its    *)
(* answer returns, under the options of the mock:// query.                 *)
(*                                                                         *)
(* A command is the pair of its verb and argument, with the number it      *)
(* carries in thousandths; the readings themselves are left out.           *)
(***************************************************************************)
EXTENDS Integers, Sequences, SequencesExt

NoText == ""
Cmd(verb, arg, num) == [verb |-> verb, arg |-> arg, num |-> num]
NoCmd == Cmd(NoText, NoText, 0)

Comp == {"T", "S", "P"}      \* temperature, salinity, pressure

\* snprintf("%.*f"): the nearest multiple of the last decimal.
Fixed(value, unit) == ((value + unit \div 2) \div unit) * unit

family_for_address(address) ==
  CASE address = 97  -> "Do"
    [] address = 98  -> "Orp"
    [] address = 99  -> "Ph"
    [] address = 100 -> "Ec"
    [] address = 102 -> "Rtd"
    [] address = 111 -> "Hum"
    [] OTHER         -> "Unknown"

CannedOptions == [status_command |-> NoCmd, status_code |-> 0,
                  pending_command |-> NoCmd, pending_reads |-> 0,
                  calibration_level |-> 0, revert_after |-> 0,
                  salinity_ppt |-> FALSE, start_temperature_c |-> 0]

\* CannedOptions::parse of the query's pairs: a later one wins, an unknown key
\* is ignored.
Parse(query) ==
  FoldLeft(LAMBDA o, p :
             CASE p.key = "status"  -> [o EXCEPT !.status_command = p.cmd, !.status_code = p.num]
               [] p.key = "pending" -> [o EXCEPT !.pending_command = p.cmd, !.pending_reads = p.num]
               [] p.key = "cal"          -> [o EXCEPT !.calibration_level = p.num]
               [] p.key = "revert_after" -> [o EXCEPT !.revert_after = p.num]
               [] p.key = "sal_unit"     -> [o EXCEPT !.salinity_ppt = (p.num = 1)]
               [] p.key = "temp"         -> [o EXCEPT !.start_temperature_c = p.num]
               [] OTHER                  -> o,
           CannedOptions, query)

\* reset_compensation: the datasheet's defaults.
DefaultsOf(family) == [T |-> IF family = "Do" THEN 20000 ELSE 25000, S |-> 0, P |-> 101300]

\* state_for: the state a device starts with.
DeviceState(o, address) ==
  LET family == family_for_address(address)
      d == DefaultsOf(family)
  IN [family |-> family, last_command |-> NoCmd, pending_left |-> 0,
      calibration_level |-> o.calibration_level,
      comp |-> IF o.start_temperature_c > 0 THEN [d EXCEPT !.T = o.start_temperature_c] ELSE d,
      salinity_ppt |-> o.salinity_ppt, readings |-> 0]

\* Seeded fault: a DO probe counts its points without an end.
LevelAfterUncapped(st, cmd) ==
  IF cmd.arg = "clear" THEN 0
  ELSE IF st.family = "Do" THEN st.calibration_level + 1
  ELSE st.calibration_level

\* The level Cal,? reports after a calibration command that was accepted.
LevelAfter(st, cmd) ==
  IF cmd.arg = "clear" THEN 0
  ELSE IF st.family = "Ph" THEN CASE cmd.arg = "mid"  -> 1
                                  [] cmd.arg = "low"  -> 2
                                  [] cmd.arg = "high" -> 3
                                  [] OTHER            -> st.calibration_level
  ELSE IF st.family = "Do" THEN IF st.calibration_level < 2 THEN st.calibration_level + 1 ELSE 2
  ELSE st.calibration_level

\* record_command: a command that will be answered with an error changes nothing.
RecordCommand(o, st, cmd) ==
  LET noted == [st EXCEPT !.last_command = cmd,
                          !.pending_left = IF cmd = o.pending_command THEN o.pending_reads ELSE 0]
  IN IF cmd = o.status_command THEN noted
     ELSE IF cmd.verb \in Comp /\ cmd.arg # "?"
       THEN [noted EXCEPT !.comp[cmd.verb] = cmd.num,
                          !.salinity_ppt = IF cmd.verb = "S" THEN cmd.arg = "ppt" ELSE @]
     ELSE IF cmd.verb = "Cal" /\ cmd.arg # "?"
       THEN [noted EXCEPT !.calibration_level = LevelAfter(st, cmd)]
     ELSE noted

\* The n-th reading takes the compensation back to the defaults.  The count
\* stops mattering behind n, where it is held.
AfterReading(o, st) ==
  IF o.revert_after = 0 \/ st.readings > o.revert_after THEN st
  ELSE [st EXCEPT !.readings = @ + 1,
                  !.comp = IF st.readings + 1 = o.revert_after THEN DefaultsOf(st.family) ELSE @]

Decimals == [T |-> 10, S |-> 100, P |-> 10]    \* printed: 2, 1 and 2 decimals

\* output_config_payload, as the number of values a reading then has.
Outputs(family) == CASE family = "Do"            -> 1
                     [] family \in {"Ec", "Hum"} -> 2
                     [] OTHER                    -> 0

\* response_payload, as the one value that matters of it.
Payload(st) ==
  LET cmd == st.last_command
  IN CASE cmd.verb = "i"                      -> st.family
       [] cmd.verb = "O"                      -> Outputs(st.family)
       [] cmd.verb = "Cal" /\ cmd.arg = "?"   -> st.calibration_level
       [] cmd.verb \in Comp /\ cmd.arg = "?"  -> Fixed(st.comp[cmd.verb], Decimals[cmd.verb])
       [] OTHER                               -> 0

\* answer_read: the device's next state and the frame it returns.
AnswerRead(o, st) ==
  IF st.last_command # NoCmd /\ st.last_command = o.status_command
    THEN [st |-> st, code |-> o.status_code, payload |-> 0]
  ELSE IF st.pending_left > 0
    THEN [st |-> [st EXCEPT !.pending_left = @ - 1], code |-> 254, payload |-> 0]
  ELSE [st |-> IF st.last_command.verb = "r" THEN AfterReading(o, st) ELSE st,
        code |-> 1, payload |-> Payload(st)]

\* A write, and then reads of the answer, up to `reads' of them as long as it is
\* still pending.
Exchange(o, st, cmd, reads) ==
  LET w == RecordCommand(o, st, cmd)
      skipped == IF w.pending_left < reads THEN w.pending_left ELSE reads - 1
  IN  AnswerRead(o, [w EXCEPT !.pending_left = @ - skipped])
================================================================================
