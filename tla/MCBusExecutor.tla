----------------------------- MODULE MCBusExecutor -----------------------------
(* BusExecutor with two callers, stopped and started again once.           *)
EXTENDS BusExecutor

CONSTANTS t1, t2

TwoTasks == {t1, t2}
================================================================================
