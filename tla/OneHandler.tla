------------------------------- MODULE OneHandler -------------------------------
(***************************************************************************)
(* BusExecutor under the one thread that uses it: main() of                *)
(* src/src/core/main.cpp calls initialize(), then the run loop of the SDK, *)
(* which handles one request at a time and calls shutdown() when it ends.  *)
(* So submit(), start() and stop() are never called while another call is  *)
(* in progress.  Jobs still outlive their callers' deadlines.              *)
(***************************************************************************)
EXTENDS BusExecutor

\* The thread is in no submit().
AtLeisure == \A t \in Tasks : caller[t] \in {"new", "returned"}

\* And in no stop() either: a handler makes its next call to the executor.
Submits(t) == AtLeisure /\ owner = "idle" /\ (SubmitRefused(t) \/ SubmitQueued(t))

Initializes == AtLeisure /\ Start

ShutsDown == AtLeisure /\ (StopIdle \/ StopBegin)

HandlerNext == \/ \E t \in Tasks : Submits(t) \/ CallerStep(t)
               \/ WorkerStep \/ SpuriousWake
               \/ Initializes \/ ShutsDown \/ StopStep

HandlerSpec == Init /\ [][HandlerNext]_vars
-------------------------------------------------------------------------------
OnBus   == {t \in Tasks : job[t] = "running"}
Behind  == {t \in Tasks : job[t] = "queued" /\ ~timedOut[t]}
Awaited == {t \in Tasks : caller[t] \in {"notify", "waiting", "expired"}}

JL == INSTANCE JobLine WITH onBus <- OnBus, behind <- Behind, awaited <- Awaited

\* However many abandoned tasks are still in the queue, a single handler finds
\* at most one job on the bus before its own, its own next, and a job that had
\* not begun when it gave up never begins.
ImplementsJobLine == JL!Spec

\* stop() runs when no request does, so that what it cancels was given up before:
\* no request is ever answered with Cancelled.
NeverCancelled == \A t \in Tasks : result[t] # "Cancelled"
================================================================================
