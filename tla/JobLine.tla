-------------------------------- MODULE JobLine --------------------------------
(***************************************************************************)
(* The bus as a single caller sees it: the `line` of EzoProviderRuntime    *)
(* and the `running` and `queued` of Deadlines.  At most one job has the   *)
(* bus and at most one stands behind it.  A caller that gives up takes its *)
(* job out of the line, unless the job has begun: then it runs on, and the *)
(* next one waits behind it.                                               *)
(***************************************************************************)
CONSTANTS Tasks

VARIABLES
  onBus,     \* the job that has the bus, as a set of at most one task
  behind,    \* the job that is to begin next, likewise
  awaited    \* the job the caller waits for, likewise

vars == <<onBus, behind, awaited>>

Init == onBus = {} /\ behind = {} /\ awaited = {}

Submit(t) == /\ awaited = {} /\ behind = {} /\ t \notin onBus
             /\ behind' = {t} /\ awaited' = {t}
             /\ UNCHANGED onBus

Begin == /\ onBus = {} /\ behind # {}
         /\ onBus' = behind /\ behind' = {}
         /\ UNCHANGED awaited

End == /\ onBus # {}
       /\ onBus' = {}
       /\ UNCHANGED <<behind, awaited>>

\* The job awaited is over.
Collect == /\ awaited # {} /\ awaited \cap (onBus \cup behind) = {}
           /\ awaited' = {}
           /\ UNCHANGED <<onBus, behind>>

GiveUp == /\ awaited # {}
          /\ awaited' = {} /\ behind' = {}
          /\ UNCHANGED onBus

Next == Begin \/ End \/ Collect \/ GiveUp \/ \E t \in Tasks : Submit(t)

Spec == Init /\ [][Next]_vars
================================================================================
