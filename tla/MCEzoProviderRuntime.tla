-------------------------- MODULE MCEzoProviderRuntime --------------------------
(* Instances of EzoProviderRuntime for TLC: the DO probe is given two of   *)
(* its three fields, since salinity and pressure differ only in that       *)
(* salinity may come in ppt; the pH probe, which has fewer commands, is    *)
(* given one call more.                                                    *)
EXTENDS EzoProviderRuntime

TwoFields == <<"T", "S">>
LevelOf == [Ph |-> 2, Do |-> 1]
MoreForPh == [Ph |-> 3, Do |-> 2]
OneCall == [Ph |-> 1, Do |-> 1]
================================================================================
