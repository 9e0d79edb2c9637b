----------------------------- MODULE MCSampleCache -----------------------------
(* Instances of SampleCache for TLC.                                       *)
EXTENDS SampleCache

BothWays == {-4, 4}
Backward == {-3}
================================================================================
