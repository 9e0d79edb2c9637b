--------------------------- MODULE BusExecutorProofs ---------------------------
(***************************************************************************)
(* Proofs about BusExecutor for any number of calls and restarts: type     *)
(* correctness, an inductive invariant, that stop() orphans no caller, and *)
(* that the executor implements SerialBus.                                 *)
(***************************************************************************)
EXTENDS BusExecutor, FiniteSetTheorems, TLAPS

Holding == {"taken", "skipped", "running", "ran", "count", "resolve"}

\* The queue holds each task once and, with the task the worker has taken but
\* not begun, exactly the jobs that are waiting to run.
QueueInv ==
  /\ \A i, j \in 1..Len(queue) : queue[i] = queue[j] => i = j
  /\ \A i \in 1..Len(queue) : job[queue[i]] = "queued" /\ queue[i] # wtask
  /\ \A t \in Tasks : job[t] = "queued" =>
        \/ wpc = "taken" /\ wtask = t
        \/ \E i \in 1..Len(queue) : queue[i] = t

\* What the worker's position says of the task in its hands.
WorkerInv ==
  /\ wpc \in Holding <=> wtask # NoTask
  /\ wpc = "taken" => job[wtask] = "queued"
  /\ wpc = "skipped" => job[wtask] = "dropped"
  /\ wpc = "running" => job[wtask] = "running"
  /\ wpc \in {"ran", "count", "resolve"} =>
        job[wtask] = wstatus /\ promise[wtask] = "none"
  /\ \A t \in Tasks : job[t] = "running" => wpc = "running" /\ wtask = t

\* A promise carries what became of the job, and is set as soon as that is
\* settled and the worker has let go of the task.
PromiseInv ==
  \A t \in Tasks :
    /\ job[t] = "dropped" <=> promise[t] = "Cancelled"
    /\ promise[t] \notin {"none", "Cancelled"} => promise[t] = job[t]
    /\ job[t] \in JobStatus /\ promise[t] = "none" =>
          wpc \in {"ran", "count", "resolve"} /\ wtask = t

\* Where a caller stands agrees with its job, its flag and its answer.
CallerInv ==
  \A t \in Tasks :
    /\ caller[t] = "new" <=> job[t] = "new"
    /\ job[t] = "refused" => caller[t] = "returned"
    /\ result[t] = "none" <=> caller[t] # "returned"
    /\ timedOut[t] => caller[t] \in {"marked", "returned"}
    /\ caller[t] = "marked" => timedOut[t]

\* The life of the executor: the worker exists while it runs, the bus is open
\* until the worker is gone, and stopping_ keeps the queue empty.
LifeInv ==
  /\ stopping <=> owner # "idle"
  /\ stopping => running
  /\ stopping \/ ~running => queue = <<>>
  /\ wpc = "none" <=> ~running \/ owner \in {"joined", "closed"}
  /\ wpc = "exited" => stopping
  /\ busOpen <=> running /\ owner # "closed"

IInv == TypeOK /\ QueueInv /\ WorkerInv /\ PromiseInv /\ CallerInv /\ LifeInv
-------------------------------------------------------------------------------
(* Type correctness.  The worker's invariant is needed to know that the    *)
(* task it resolves or marks is a task.                                    *)

\* Every variable starts with a value of its type.
LEMMA TypeInit == Init => TypeOK
<1> SUFFICES ASSUME Init PROVE TypeOK
  OBVIOUS
<1>1. metrics \in [Counters -> Nat]
  BY DEF Init
<1>2. queue \in Seq(Tasks)
  BY DEF Init
<1>3. deadline \in [Tasks -> BOOLEAN] /\ timedOut \in [Tasks -> BOOLEAN]
  BY DEF Init
<1>4. QED
  BY <1>1, <1>2, <1>3 DEF Init, TypeOK, JobStatus, Status

\* Every step of a caller, the worker or the owner keeps the types.
LEMMA TypeStep == WorkerInv /\ TypeOK /\ [Next]_vars => TypeOK'
<1> SUFFICES ASSUME WorkerInv, TypeOK, [Next]_vars PROVE TypeOK'
  OBVIOUS
<1> USE ExecutorAssumption DEF TypeOK, Status, callerVars, workerVars, ownerVars
<1>1. ASSUME NEW t \in Tasks, SubmitRefused(t) PROVE TypeOK'
  BY <1>1 DEF SubmitRefused, JobStatus
<1>2. ASSUME NEW t \in Tasks, SubmitQueued(t) PROVE TypeOK'
  <2>1. queue' \in Seq(Tasks) /\ Len(queue') \in Nat
    BY <1>2 DEF SubmitQueued
  <2>2. metrics["submitted"] \in Nat
    BY DEF Counters
  <2>3. metrics' \in [Counters -> Nat]
    BY <1>2, <2>1, <2>2 DEF SubmitQueued, Counters
  <2>4. QED
    BY <1>2, <2>1, <2>3 DEF SubmitQueued
<1>3. ASSUME NEW t \in Tasks, SubmitNotify(t) PROVE TypeOK'
  BY <1>3 DEF SubmitNotify
<1>4. ASSUME NEW t \in Tasks, WaitReady(t) PROVE TypeOK'
  BY <1>4 DEF WaitReady
<1>5. ASSUME NEW t \in Tasks, WaitExpired(t) PROVE TypeOK'
  BY <1>5 DEF WaitExpired
<1>6. ASSUME NEW t \in Tasks, MarkTimedOut(t) PROVE TypeOK'
  BY <1>6 DEF MarkTimedOut
<1>7. ASSUME NEW t \in Tasks, RecordTimeout(t) PROVE TypeOK'
  BY <1>7 DEF RecordTimeout, Counters
<1>8. CASE WorkerSleep
  BY <1>8 DEF WorkerSleep
<1>9. CASE WorkerExit
  BY <1>9 DEF WorkerExit
<1>10. CASE WorkerTake
  <2>1. queue' \in Seq(Tasks) /\ Len(queue') \in Nat /\ Head(queue) \in Tasks
    BY <1>10 DEF WorkerTake
  <2>2. metrics["started"] \in Nat
    BY DEF Counters
  <2>3. metrics' \in [Counters -> Nat]
    BY <1>10, <2>1, <2>2 DEF WorkerTake, Counters
  <2>4. QED
    BY <1>10, <2>1, <2>3 DEF WorkerTake
<1>11. CASE WorkerSkip
  BY <1>11 DEF WorkerSkip, SafeSetPromise, WorkerInv, Holding
<1>12. CASE WorkerCountSkip
  BY <1>12 DEF WorkerCountSkip, Counters
<1>13. CASE WorkerRun
  BY <1>13 DEF WorkerRun, WorkerInv, Holding
<1>14. CASE WorkerFinish
  BY <1>14 DEF WorkerFinish, WorkerInv, Holding
<1>15. CASE WorkerLoad
  BY <1>15 DEF WorkerLoad
<1>16. CASE WorkerCount
  BY <1>16 DEF WorkerCount, Counters
<1>17. CASE WorkerResolve
  BY <1>17 DEF WorkerResolve, SafeSetPromise
<1>18. CASE SpuriousWake
  BY <1>18 DEF SpuriousWake
<1>19. CASE Start
  <2>1. starts' \in Nat
    BY <1>19 DEF Start
  <2>2. QED
    BY <1>19, <2>1 DEF Start
<1>20. CASE StopIdle
  BY <1>20 DEF StopIdle
<1>21. CASE StopBegin
  BY <1>21 DEF StopBegin, Counters
<1>22. CASE StopNotify
  BY <1>22 DEF StopNotify
<1>23. CASE StopJoin
  BY <1>23 DEF StopJoin
<1>24. CASE StopClose
  BY <1>24 DEF StopClose
<1>25. CASE StopEnd
  BY <1>25 DEF StopEnd
<1>26. CASE UNCHANGED vars
  BY <1>26 DEF vars
<1>27. QED
  BY <1>1, <1>2, <1>3, <1>4, <1>5, <1>6, <1>7, <1>8, <1>9, <1>10,
     <1>11, <1>12, <1>13, <1>14, <1>15, <1>16, <1>17, <1>18, <1>19, <1>20,
     <1>21, <1>22, <1>23, <1>24, <1>25, <1>26
     DEF Next, CallerStep, WorkerStep, StopStep
-------------------------------------------------------------------------------
(* The inductive invariant.                                                *)

\* The invariant holds before the first start().
LEMMA InvInit == Init => IInv
  BY TypeInit, ExecutorAssumption
  DEF Init, IInv, QueueInv, WorkerInv, PromiseInv, CallerInv, LifeInv, Holding, JobStatus

\* Every step of a caller, the worker or the owner keeps the invariant.
LEMMA InvStep == IInv /\ [Next]_vars => IInv'
<1> SUFFICES ASSUME IInv, [Next]_vars PROVE IInv'
  OBVIOUS
<1>0. TypeOK'
  BY TypeStep DEF IInv
<1> USE ExecutorAssumption, <1>0
    DEF IInv, TypeOK, Status, JobStatus, callerVars, workerVars, ownerVars
<1> USE DEF QueueInv, WorkerInv, PromiseInv, CallerInv, LifeInv, Holding
<1>1. ASSUME NEW t \in Tasks, SubmitRefused(t) PROVE IInv'
  BY <1>1 DEF SubmitRefused
<1>2. ASSUME NEW t \in Tasks, SubmitQueued(t) PROVE IInv'
  <2>1. QueueInv'
    BY <1>2 DEF SubmitQueued
  <2>2. WorkerInv'
    BY <1>2 DEF SubmitQueued
  <2>3. PromiseInv'
    BY <1>2 DEF SubmitQueued
  <2>4. CallerInv'
    BY <1>2 DEF SubmitQueued
  <2>5. LifeInv'
    BY <1>2 DEF SubmitQueued
  <2>6. QED
    BY <2>1, <2>2, <2>3, <2>4, <2>5
<1>3. ASSUME NEW t \in Tasks, SubmitNotify(t) PROVE IInv'
  BY <1>3 DEF SubmitNotify
<1>4. ASSUME NEW t \in Tasks, WaitReady(t) PROVE IInv'
  BY <1>4 DEF WaitReady
<1>5. ASSUME NEW t \in Tasks, WaitExpired(t) PROVE IInv'
  BY <1>5 DEF WaitExpired
<1>6. ASSUME NEW t \in Tasks, MarkTimedOut(t) PROVE IInv'
  BY <1>6 DEF MarkTimedOut
<1>7. ASSUME NEW t \in Tasks, RecordTimeout(t) PROVE IInv'
  BY <1>7 DEF RecordTimeout
<1>8. CASE WorkerSleep
  BY <1>8 DEF WorkerSleep
<1>9. CASE WorkerExit
  BY <1>9 DEF WorkerExit
<1>10. CASE WorkerTake
  <2>1. QueueInv'
    <3>1. /\ Len(queue') = Len(queue) - 1
          /\ \A i \in 1..Len(queue') : queue'[i] = queue[i + 1] /\ i + 1 \in 1..Len(queue)
          /\ 1 \in 1..Len(queue) /\ wtask' = queue[1]
      BY <1>10 DEF WorkerTake
    <3>2. \A i \in 1..Len(queue) : i # 1 => i - 1 \in 1..Len(queue') /\ queue'[i - 1] = queue[i]
      <4> SUFFICES ASSUME NEW i \in 1..Len(queue), i # 1
                   PROVE  i - 1 \in 1..Len(queue') /\ queue'[i - 1] = queue[i]
        OBVIOUS
      <4>1. i - 1 \in 1..Len(queue') /\ (i - 1) + 1 = i
        BY <3>1
      <4>2. QED
        BY <3>1, <4>1
    <3>3. job' = job /\ wpc = "check" /\ wpc' = "taken"
      BY <1>10 DEF WorkerTake
    <3>4. \A i, j \in 1..Len(queue') : queue'[i] = queue'[j] => i = j
      BY <3>1 DEF QueueInv
    <3>5. \A i \in 1..Len(queue') : job'[queue'[i]] = "queued" /\ queue'[i] # wtask'
      <4> SUFFICES ASSUME NEW i \in 1..Len(queue')
                   PROVE  job'[queue'[i]] = "queued" /\ queue'[i] # wtask'
        OBVIOUS
      <4>1. queue'[i] = queue[i + 1] /\ i + 1 \in 1..Len(queue) /\ i + 1 # 1
        BY <3>1
      <4>2. QED
        BY <3>1, <3>3, <4>1 DEF QueueInv
    <3>6. ASSUME NEW t \in Tasks, job'[t] = "queued"
          PROVE  wtask' = t \/ \E i \in 1..Len(queue') : queue'[i] = t
      <4>1. PICK i \in 1..Len(queue) : queue[i] = t
        BY <3>3, <3>6 DEF QueueInv
      <4>2. CASE i = 1
        BY <3>1, <4>1, <4>2
      <4>3. CASE i # 1
        <5>1. i - 1 \in 1..Len(queue') /\ queue'[i - 1] = t
          BY <3>2, <4>1, <4>3
        <5>2. QED
          BY <5>1
      <4>4. QED
        BY <4>2, <4>3
    <3>7. QED
      BY <3>3, <3>4, <3>5, <3>6 DEF QueueInv
  <2>2. WorkerInv'
    BY <1>10 DEF WorkerTake
  <2>3. PromiseInv'
    BY <1>10 DEF WorkerTake
  <2>4. CallerInv'
    BY <1>10 DEF WorkerTake
  <2>5. LifeInv'
    BY <1>10 DEF WorkerTake
  <2>6. QED
    BY <2>1, <2>2, <2>3, <2>4, <2>5
<1>11. CASE WorkerSkip
  BY <1>11 DEF WorkerSkip, SafeSetPromise
<1>12. CASE WorkerCountSkip
  BY <1>12 DEF WorkerCountSkip
<1>13. CASE WorkerRun
  BY <1>13 DEF WorkerRun
<1>14. CASE WorkerFinish
  <2>1. QueueInv'
    BY <1>14 DEF WorkerFinish
  <2>2. WorkerInv'
    <3>1. wtask \in Tasks /\ job[wtask] = "running" /\ promise[wtask] = "none"
      BY <1>14 DEF WorkerFinish, WorkerInv, PromiseInv, Holding
    <3>2. PICK s \in JobStatus : wstatus' = s /\ job' = [job EXCEPT ![wtask] = s]
      BY <1>14 DEF WorkerFinish
    <3>3. QED
      BY <1>14, <3>1, <3>2 DEF WorkerFinish, WorkerInv, Holding
  <2>3. PromiseInv'
    BY <1>14 DEF WorkerFinish
  <2>4. CallerInv'
    BY <1>14 DEF WorkerFinish
  <2>5. LifeInv'
    BY <1>14 DEF WorkerFinish
  <2>6. QED
    BY <2>1, <2>2, <2>3, <2>4, <2>5
<1>15. CASE WorkerLoad
  BY <1>15 DEF WorkerLoad
<1>16. CASE WorkerCount
  BY <1>16 DEF WorkerCount
<1>17. CASE WorkerResolve
  BY <1>17 DEF WorkerResolve, SafeSetPromise
<1>18. CASE SpuriousWake
  BY <1>18 DEF SpuriousWake
<1>19. CASE Start
  BY <1>19 DEF Start
<1>20. CASE StopIdle
  BY <1>20 DEF StopIdle
<1>21. CASE StopBegin
  <2>1. QueueInv'
    BY <1>21 DEF StopBegin, InQueue
  <2>2. WorkerInv'
    BY <1>21 DEF StopBegin, InQueue
  <2>3. PromiseInv'
    <3>1. \A t \in Tasks : InQueue(t) => job[t] = "queued" /\ promise[t] = "none" /\ t # wtask
      <4> SUFFICES ASSUME NEW t \in Tasks, InQueue(t)
                   PROVE  job[t] = "queued" /\ promise[t] = "none" /\ t # wtask
        OBVIOUS
      <4>1. job[t] = "queued" /\ t # wtask
        BY DEF InQueue, QueueInv
      <4>2. QED
        BY <4>1 DEF PromiseInv
    <3>2. QED
      BY <1>21, <3>1 DEF StopBegin, PromiseInv
  <2>4. CallerInv'
    BY <1>21 DEF StopBegin, InQueue
  <2>5. LifeInv'
    BY <1>21 DEF StopBegin, InQueue
  <2>6. QED
    BY <2>1, <2>2, <2>3, <2>4, <2>5
<1>22. CASE StopNotify
  BY <1>22 DEF StopNotify
<1>23. CASE StopJoin
  BY <1>23 DEF StopJoin
<1>24. CASE StopClose
  BY <1>24 DEF StopClose
<1>25. CASE StopEnd
  BY <1>25 DEF StopEnd
<1>26. CASE UNCHANGED vars
  BY <1>26 DEF vars
<1>27. QED
  BY <1>1, <1>2, <1>3, <1>4, <1>5, <1>6, <1>7, <1>8, <1>9, <1>10,
     <1>11, <1>12, <1>13, <1>14, <1>15, <1>16, <1>17, <1>18, <1>19, <1>20,
     <1>21, <1>22, <1>23, <1>24, <1>25, <1>26
     DEF Next, CallerStep, WorkerStep, StopStep

\* The invariant holds in every reachable state.
THEOREM Invariant == Spec => []IInv
  BY InvInit, InvStep, PTL DEF Spec

\* Type correctness of the executor's state in every reachable state.
THEOREM TypeCorrect == Spec => []TypeOK
<1>1. IInv => TypeOK
  BY DEF IInv
<1>2. QED
  BY <1>1, Invariant, PTL

\* stop() leaves no submit() waiting for a worker that is gone: when no worker
\* runs, every caller still inside submit() finds its promise set.
THEOREM NoCallerOrphaned == Spec => []NoOrphanedCaller
<1>1. IInv => NoOrphanedCaller
  <2> SUFFICES ASSUME IInv, ~running, NEW t \in Tasks,
                      caller[t] \in {"notify", "waiting"}
               PROVE  promise[t] # "none"
    BY DEF NoOrphanedCaller
  <2>1. queue = <<>> /\ wpc = "none"
    BY DEF IInv, LifeInv
  <2>2. job[t] \notin {"new", "refused", "queued", "running"}
    BY <2>1 DEF IInv, CallerInv, QueueInv, WorkerInv
  <2>3. job[t] \in JobStatus \cup {"dropped"}
    BY <2>2 DEF IInv, TypeOK
  <2>4. QED
    BY <2>1, <2>3 DEF IInv, PromiseInv
<1>2. QED
  BY <1>1, Invariant, PTL
-------------------------------------------------------------------------------
(* The executor implements SerialBus.  Each step of the worker, a caller   *)
(* or the owner is one step of the abstract bus or changes nothing it can  *)
(* see.                                                                    *)

\* The initial state is an initial state of the abstract bus.
LEMMA RefinesInit == Init => SB!Init
  BY DEF Init, SB!Init

\* Every step maps to a step of the abstract bus or to a stutter.
LEMMA RefinesStep == IInv /\ [Next]_vars => [SB!Next]_SB!vars
<1> SUFFICES ASSUME IInv, [Next]_vars PROVE [SB!Next]_SB!vars
  OBVIOUS
<1> USE ExecutorAssumption
    DEF IInv, TypeOK, WorkerInv, Holding, callerVars, workerVars, ownerVars
<1>1. ASSUME NEW t \in Tasks, SubmitRefused(t) PROVE SB!Refuse(t)
  BY <1>1 DEF SubmitRefused, SB!Refuse, CallerInv
<1>2. ASSUME NEW t \in Tasks, SubmitQueued(t) PROVE SB!Admit(t)
  BY <1>2 DEF SubmitQueued, SB!Admit, CallerInv, LifeInv
<1>3. ASSUME NEW t \in Tasks, SubmitNotify(t) PROVE UNCHANGED SB!vars
  BY <1>3 DEF SubmitNotify, SB!vars
<1>4. ASSUME NEW t \in Tasks, WaitReady(t) PROVE SB!Answer(t)
  BY <1>4 DEF WaitReady, CallerInv, PromiseInv, SB!Answer, SB!Truth, SB!JobStatus, JobStatus, Status
<1>5. ASSUME NEW t \in Tasks, WaitExpired(t) PROVE UNCHANGED SB!vars
  BY <1>5 DEF WaitExpired, SB!vars
<1>6. ASSUME NEW t \in Tasks, MarkTimedOut(t) PROVE SB!GiveUp(t)
  BY <1>6 DEF MarkTimedOut, SB!GiveUp, CallerInv
<1>7. ASSUME NEW t \in Tasks, RecordTimeout(t) PROVE SB!Answer(t)
  BY <1>7 DEF RecordTimeout, CallerInv, PromiseInv, SB!Answer, SB!Truth, SB!JobStatus, JobStatus, Status
<1>8. ASSUME WorkerSleep PROVE UNCHANGED SB!vars
  BY <1>8 DEF WorkerSleep, SB!vars
<1>9. ASSUME WorkerExit PROVE UNCHANGED SB!vars
  BY <1>9 DEF WorkerExit, SB!vars
<1>10. ASSUME WorkerTake PROVE SB!Pick
  BY <1>10 DEF WorkerTake, SB!Pick
<1>11. ASSUME WorkerSkip PROVE SB!Skip
  BY <1>11 DEF WorkerSkip, SB!Skip
<1>12. ASSUME WorkerCountSkip PROVE UNCHANGED SB!vars
  BY <1>12 DEF WorkerCountSkip, SB!vars
<1>13. ASSUME WorkerRun PROVE SB!Begin
  BY <1>13 DEF WorkerRun, SB!Begin, LifeInv
<1>14. ASSUME WorkerFinish PROVE SB!Finish
  BY <1>14 DEF WorkerFinish, SB!Finish, JobStatus, SB!JobStatus
<1>15. ASSUME WorkerLoad PROVE UNCHANGED SB!vars
  BY <1>15 DEF WorkerLoad, SB!vars
<1>16. ASSUME WorkerCount PROVE UNCHANGED SB!vars
  BY <1>16 DEF WorkerCount, SB!vars
<1>17. ASSUME WorkerResolve PROVE UNCHANGED SB!vars
  BY <1>17 DEF WorkerResolve, SB!vars
<1>18. ASSUME SpuriousWake PROVE UNCHANGED SB!vars
  BY <1>18 DEF SpuriousWake, SB!vars
<1>19. ASSUME Start PROVE SB!Open
  BY <1>19 DEF Start, SB!Open, LifeInv
<1>20. ASSUME StopIdle PROVE SB!Close
  BY <1>20 DEF StopIdle, SB!Close, LifeInv
<1>21. ASSUME StopBegin PROVE SB!DropLine
  BY <1>21 DEF StopBegin, SB!DropLine, InQueue
<1>22. ASSUME StopNotify PROVE UNCHANGED SB!vars
  BY <1>22 DEF StopNotify, SB!vars
<1>23. ASSUME StopJoin PROVE UNCHANGED SB!vars
  BY <1>23 DEF StopJoin, SB!vars
<1>24. ASSUME StopClose PROVE SB!Close
  BY <1>24 DEF StopClose, SB!Close, LifeInv
<1>25. ASSUME StopEnd PROVE UNCHANGED SB!vars
  BY <1>25 DEF StopEnd, SB!vars
<1>26. CASE UNCHANGED vars
  BY <1>26 DEF vars, SB!vars
<1>27. QED
  BY <1>1, <1>2, <1>3, <1>4, <1>5, <1>6, <1>7, <1>8, <1>9, <1>10,
     <1>11, <1>12, <1>13, <1>14, <1>15, <1>16, <1>17, <1>18, <1>19, <1>20,
     <1>21, <1>22, <1>23, <1>24, <1>25, <1>26
     DEF Next, SB!Next, CallerStep, WorkerStep, StopStep

\* Jobs run one at a time, in the order of admission, on an open bus, never
\* once their caller has given up, and each call is told what became of its
\* job, for any number of calls and restarts.
THEOREM Refinement == Spec => ImplementsSerialBus
  BY RefinesInit, RefinesStep, Invariant, PTL DEF Spec, SB!Spec, ImplementsSerialBus

-------------------------------------------------------------------------------
(* The metrics.                                                            *)

Admitted == {t \in Tasks : job[t] \notin {"new", "refused"}}
Dropped  == {t \in Tasks : job[t] = "dropped"}
GaveUp   == {t \in Tasks : result[t] = "DeadlineExceeded"}

\* The task whose outcome the worker has yet to count, if it does.
Uncounted == IF wpc \in {"ran", "count"} THEN {wtask} ELSE {}

\* The jobs that ran and had their chance to be counted, and those of them that
\* were in time for their caller: these were counted.
Ran       == {t \in Tasks : job[t] \in JobStatus} \ Uncounted
InTime    == {t \in Ran : ~timedOut[t]}
OkInTime  == {t \in InTime : job[t] = "Ok"}

\* A call that was told of its deadline has marked its task, and no other call.
ToldInv ==
  \A t \in Tasks : /\ result[t] = "DeadlineExceeded" => timedOut[t]
                   /\ timedOut[t] /\ caller[t] = "returned" => result[t] = "DeadlineExceeded"
                   /\ result[t] = "Ok" => promise[t] = "Ok"

CountInv ==
  /\ metrics["queue_depth"] = Len(queue)
  /\ metrics["submitted"] = Cardinality(Admitted)
  /\ metrics["timed_out"] = Cardinality(GaveUp)
  /\ metrics["cancelled"] + (IF wpc = "skipped" THEN 1 ELSE 0) = Cardinality(Dropped)
  /\ metrics["succeeded"] >= Cardinality(OkInTime)
  /\ metrics["succeeded"] + metrics["failed"] >= Cardinality(InTime)
  /\ metrics["succeeded"] + metrics["failed"] <= Cardinality(Ran)

\* Sets of calls are finite.
LEMMA Counting ==
  ASSUME IsFiniteSet(Tasks)
  PROVE  /\ \A S \in SUBSET Tasks : IsFiniteSet(S) /\ Cardinality(S) \in Nat
         /\ \A S \in SUBSET Tasks : \A T \in SUBSET S : Cardinality(T) <= Cardinality(S)
         /\ \A S \in SUBSET Tasks : \A x \in Tasks \ S :
              Cardinality(S \cup {x}) = Cardinality(S) + 1
<1>1. ASSUME NEW S \in SUBSET Tasks PROVE IsFiniteSet(S) /\ Cardinality(S) \in Nat
  BY FS_Subset, FS_CardinalityType
<1>2. ASSUME NEW S \in SUBSET Tasks, NEW T \in SUBSET S PROVE Cardinality(T) <= Cardinality(S)
  BY <1>1, FS_Subset
<1>3. ASSUME NEW S \in SUBSET Tasks, NEW x \in Tasks \ S
      PROVE  Cardinality(S \cup {x}) = Cardinality(S) + 1
  BY <1>1, FS_AddElement
<1>4. QED
  BY <1>1, <1>2, <1>3

\* The queue has as many entries as there are calls in it.
LEMMA QueueCount ==
  ASSUME TypeOK, QueueInv
  PROVE  Cardinality({t \in Tasks : InQueue(t)}) = Len(queue)
<1>1. PICK n \in Nat : n = Len(queue) /\ DOMAIN queue = 1..n
  BY DEF TypeOK
<1>2. PICK f : f = [i \in 1..n |-> queue[i]]
  OBVIOUS
<1>3. PICK S : S = {t \in Tasks : InQueue(t)}
  OBVIOUS
<1>4. \A i \in 1..n : queue[i] \in Tasks
  BY <1>1 DEF TypeOK
<1>5. f \in [1..n -> S]
  BY <1>1, <1>2, <1>3, <1>4 DEF InQueue
<1>6. \A i, j \in 1..n : f[i] = f[j] => i = j
  BY <1>1, <1>2 DEF QueueInv
<1>7. \A t \in S : \E i \in 1..n : f[i] = t
  BY <1>1, <1>2, <1>3 DEF InQueue
<1>8. f \in Bijection(1..n, S)
  BY <1>5, <1>6, <1>7 DEF Bijection, Injection, Surjection, IsInjective
<1>9. ExistsBijection(1..n, S)
  BY <1>8 DEF ExistsBijection
<1>10. QED
  BY <1>1, <1>3, <1>9, FS_CountingElements

\* A step that counts nothing.
LEMMA CountSame ==
  ASSUME IsFiniteSet(Tasks), TypeOK, CountInv, metrics' = metrics, queue' = queue,
         Admitted' = Admitted, Dropped' = Dropped, GaveUp' = GaveUp,
         Ran \subseteq Ran', Ran' \subseteq Tasks,
         InTime' \subseteq InTime, OkInTime' \subseteq OkInTime,
         wpc' = "skipped" <=> wpc = "skipped"
  PROVE  CountInv'
<1>1. Ran \in SUBSET Tasks /\ InTime \in SUBSET Tasks /\ OkInTime \in SUBSET Tasks
  BY DEF Ran, InTime, OkInTime
<1>2. /\ Cardinality(Ran) <= Cardinality(Ran')
      /\ Cardinality(InTime') <= Cardinality(InTime)
      /\ Cardinality(OkInTime') <= Cardinality(OkInTime)
  BY <1>1, Counting
<1>3. /\ Cardinality(Ran) \in Nat /\ Cardinality(Ran') \in Nat
      /\ Cardinality(InTime') \in Nat /\ Cardinality(InTime) \in Nat
      /\ Cardinality(OkInTime') \in Nat /\ Cardinality(OkInTime) \in Nat
  <2>1. InTime' \in SUBSET Tasks /\ OkInTime' \in SUBSET Tasks
    BY <1>1
  <2>2. QED
    BY <1>1, <2>1, Counting
<1>4. metrics["succeeded"] \in Nat /\ metrics["failed"] \in Nat
  BY DEF TypeOK, Counters
<1>5. /\ metrics["succeeded"] >= Cardinality(OkInTime')
      /\ metrics["succeeded"] + metrics["failed"] >= Cardinality(InTime')
      /\ metrics["succeeded"] + metrics["failed"] <= Cardinality(Ran')
  BY <1>2, <1>3, <1>4 DEF CountInv
<1>6. QED
  BY <1>5 DEF CountInv

LEMMA ToldStep == IInv /\ ToldInv /\ [Next]_vars => ToldInv'
<1> SUFFICES ASSUME IInv, ToldInv, [Next]_vars PROVE ToldInv'
  OBVIOUS
<1> USE DEF IInv, TypeOK, CallerInv, PromiseInv, WorkerInv, ToldInv, callerVars, workerVars,
            ownerVars, Status, JobStatus
<1>1. ASSUME NEW t \in Tasks, SubmitRefused(t) PROVE ToldInv'
  BY <1>1 DEF SubmitRefused
<1>2. ASSUME NEW t \in Tasks, WaitReady(t) PROVE ToldInv'
  BY <1>2 DEF WaitReady
<1>3. ASSUME NEW t \in Tasks, MarkTimedOut(t) PROVE ToldInv'
  BY <1>3 DEF MarkTimedOut
<1>4. ASSUME NEW t \in Tasks, RecordTimeout(t) PROVE ToldInv'
  BY <1>4 DEF RecordTimeout
<1>5. ASSUME NEW t \in Tasks, SubmitQueued(t) \/ SubmitNotify(t) \/ WaitExpired(t) PROVE ToldInv'
  BY <1>5 DEF SubmitQueued, SubmitNotify, WaitExpired
<1>6. CASE WorkerSkip
  BY <1>6 DEF WorkerSkip, SafeSetPromise, Holding
<1>7. CASE WorkerResolve
  BY <1>7 DEF WorkerResolve, SafeSetPromise, Holding
<1>8. CASE StopBegin
  BY <1>8 DEF StopBegin
<1>9. CASE UNCHANGED <<caller, result, timedOut, promise>>
  BY <1>9
<1>10. QED
  BY <1>1, <1>2, <1>3, <1>4, <1>5, <1>6, <1>7, <1>8, <1>9
  DEF Next, CallerStep, WorkerStep, StopStep, vars, WorkerSleep, WorkerExit, WorkerTake,
      WorkerCountSkip, WorkerRun, WorkerFinish, WorkerLoad, WorkerCount, SpuriousWake, Start,
      StopIdle, StopNotify, StopJoin, StopClose, StopEnd

\* Every step keeps the counters and the calls they count together.
LEMMA CountStep ==
  ASSUME IsFiniteSet(Tasks), IInv, ToldInv, CountInv, [Next]_vars
  PROVE  CountInv'
<1> USE DEF callerVars, workerVars, ownerVars
<1>0. TypeOK /\ WorkerInv /\ CallerInv /\ QueueInv
  BY DEF IInv
<1>1. /\ Admitted \in SUBSET Tasks /\ Dropped \in SUBSET Tasks /\ GaveUp \in SUBSET Tasks
      /\ Ran \in SUBSET Tasks /\ InTime \in SUBSET Tasks /\ OkInTime \in SUBSET Tasks
      /\ Ran' \in SUBSET Tasks
  BY DEF Admitted, Dropped, GaveUp, Ran, InTime, OkInTime
<1>2. \A c \in Counters : metrics[c] \in Nat
  BY <1>0 DEF TypeOK
\* Nothing changes but where the threads are.
<1>3. ASSUME UNCHANGED <<metrics, queue, job, result, timedOut, Uncounted>>,
             wpc' = "skipped" <=> wpc = "skipped"
      PROVE  CountInv'
  <2>1. /\ Admitted' = Admitted /\ Dropped' = Dropped /\ GaveUp' = GaveUp /\ Ran' = Ran
        /\ InTime' = InTime /\ OkInTime' = OkInTime
    BY <1>3 DEF Admitted, Dropped, GaveUp, Ran, InTime, OkInTime
  <2>2. QED
    BY <1>0, <1>1, <1>3, <2>1, CountSame
<1>4. ASSUME NEW t \in Tasks, SubmitRefused(t) PROVE CountInv'
  <2>1. /\ job[t] = "new" /\ job' = [job EXCEPT ![t] = "refused"]
        /\ result' = [result EXCEPT ![t] = "Unavailable"] /\ result[t] = "none"
        /\ UNCHANGED <<timedOut, queue, metrics, wpc, wtask>>
    BY <1>0, <1>4 DEF SubmitRefused, CallerInv
  <2>2. Admitted' = Admitted /\ Dropped' = Dropped /\ GaveUp' = GaveUp
    BY <1>0, <2>1 DEF TypeOK, Admitted, Dropped, GaveUp
  <2>3. Uncounted' = Uncounted
    BY <2>1 DEF Uncounted
  <2>4. Ran' = Ran
    BY <1>0, <2>1, <2>3 DEF TypeOK, Ran, JobStatus
  <2>5. InTime' = InTime
    BY <2>1, <2>4 DEF InTime
  <2>6. OkInTime' = OkInTime
    BY <1>0, <2>1, <2>5 DEF TypeOK, OkInTime, InTime, Ran, JobStatus
  <2>7. QED
    BY <1>0, <1>1, <2>1, <2>2, <2>4, <2>5, <2>6, CountSame
<1>5. ASSUME NEW t \in Tasks, SubmitQueued(t) PROVE CountInv'
  <2>1. /\ job[t] = "new" /\ job' = [job EXCEPT ![t] = "queued"]
        /\ UNCHANGED <<result, timedOut, wpc, wtask>>
        /\ metrics' = [metrics EXCEPT !["submitted"] = @ + 1, !["queue_depth"] = Len(queue')]
    BY <1>0, <1>5 DEF SubmitQueued, CallerInv
  <2>2. Admitted' = Admitted \cup {t} /\ t \notin Admitted /\ Dropped' = Dropped
    BY <1>0, <2>1 DEF TypeOK, Admitted, Dropped
  <2>3. Uncounted' = Uncounted /\ GaveUp' = GaveUp
    BY <2>1 DEF Uncounted, GaveUp
  <2>4. Ran' = Ran
    BY <1>0, <2>1, <2>3 DEF TypeOK, Ran, JobStatus
  <2>5. InTime' = InTime
    BY <2>1, <2>4 DEF InTime
  <2>6. OkInTime' = OkInTime
    BY <1>0, <2>1, <2>5 DEF TypeOK, OkInTime, InTime, Ran, JobStatus
  <2>7. Cardinality(Admitted') = Cardinality(Admitted) + 1
    BY <1>1, <2>2, Counting
  <2>8. /\ metrics'["submitted"] = metrics["submitted"] + 1 /\ metrics'["queue_depth"] = Len(queue')
        /\ \A c \in {"timed_out", "cancelled", "succeeded", "failed"} : metrics'[c] = metrics[c]
    BY <1>0, <2>1 DEF TypeOK, Counters
  <2>9. QED
    BY <2>1, <2>2, <2>3, <2>4, <2>5, <2>6, <2>7, <2>8 DEF CountInv
<1>6. ASSUME NEW t \in Tasks, WaitReady(t) PROVE CountInv'
  <2>1. /\ UNCHANGED <<metrics, queue, job, timedOut, wpc, wtask>>
        /\ result' = [result EXCEPT ![t] = promise[t]] /\ result[t] = "none"
        /\ promise[t] # "DeadlineExceeded"
    BY <1>0, <1>6 DEF WaitReady, CallerInv, IInv, PromiseInv, TypeOK, JobStatus
  <2>2. GaveUp' = GaveUp
    BY <1>0, <2>1 DEF GaveUp, TypeOK
  <2>3. Admitted' = Admitted /\ Dropped' = Dropped /\ Uncounted' = Uncounted
    BY <2>1 DEF Admitted, Dropped, Uncounted
  <2>4. Ran' = Ran /\ InTime' = InTime /\ OkInTime' = OkInTime
    BY <2>1, <2>3 DEF Ran, InTime, OkInTime
  <2>5. QED
    BY <1>0, <1>1, <2>1, <2>2, <2>3, <2>4, CountSame
<1>7. ASSUME NEW t \in Tasks, MarkTimedOut(t) PROVE CountInv'
  <2>1. /\ UNCHANGED <<metrics, queue, job, result, wpc, wtask>>
        /\ timedOut' = [timedOut EXCEPT ![t] = TRUE]
    BY <1>7 DEF MarkTimedOut
  <2>2. Admitted' = Admitted /\ Dropped' = Dropped /\ GaveUp' = GaveUp /\ Uncounted' = Uncounted
    BY <2>1 DEF Admitted, Dropped, GaveUp, Uncounted
  <2>3. Ran' = Ran
    BY <2>1, <2>2 DEF Ran
  <2>4. InTime' \subseteq InTime
    BY <1>0, <2>1, <2>3 DEF InTime, TypeOK
  <2>5. OkInTime' \subseteq OkInTime
    BY <2>1, <2>4 DEF OkInTime
  <2>6. QED
    BY <1>0, <1>1, <2>1, <2>2, <2>3, <2>4, <2>5, CountSame
<1>8. ASSUME NEW t \in Tasks, RecordTimeout(t) PROVE CountInv'
  <2>1. /\ UNCHANGED <<queue, job, timedOut, wpc, wtask>>
        /\ result' = [result EXCEPT ![t] = "DeadlineExceeded"] /\ result[t] = "none"
        /\ metrics' = [metrics EXCEPT !["timed_out"] = @ + 1]
    BY <1>0, <1>8 DEF RecordTimeout, CallerInv
  <2>2. GaveUp' = GaveUp \cup {t} /\ t \notin GaveUp
    BY <1>0, <2>1 DEF GaveUp, TypeOK
  <2>3. Admitted' = Admitted /\ Dropped' = Dropped /\ Uncounted' = Uncounted
    BY <2>1 DEF Admitted, Dropped, Uncounted
  <2>4. Ran' = Ran /\ InTime' = InTime /\ OkInTime' = OkInTime
    BY <2>1, <2>3 DEF Ran, InTime, OkInTime
  <2>5. Cardinality(GaveUp') = Cardinality(GaveUp) + 1
    BY <1>1, <2>2, Counting
  <2>6. /\ metrics'["timed_out"] = metrics["timed_out"] + 1
        /\ \A c \in {"submitted", "queue_depth", "cancelled", "succeeded", "failed"} :
             metrics'[c] = metrics[c]
    BY <1>0, <2>1 DEF TypeOK, Counters
  <2>7. QED
    BY <2>1, <2>2, <2>3, <2>4, <2>5, <2>6 DEF CountInv
<1>9. CASE WorkerTake
  <2>1. /\ UNCHANGED <<job, timedOut, result>> /\ wpc = "check" /\ wpc' = "taken"
        /\ metrics' = [metrics EXCEPT !["started"] = @ + 1, !["queue_depth"] = Len(queue')]
    BY <1>9 DEF WorkerTake
  <2>2. Admitted' = Admitted /\ Dropped' = Dropped /\ GaveUp' = GaveUp /\ Uncounted' = Uncounted
    BY <2>1 DEF Admitted, Dropped, GaveUp, Uncounted
  <2>3. Ran' = Ran /\ InTime' = InTime /\ OkInTime' = OkInTime
    BY <2>1, <2>2 DEF Ran, InTime, OkInTime
  <2>4. /\ metrics'["queue_depth"] = Len(queue')
        /\ \A c \in {"submitted", "timed_out", "cancelled", "succeeded", "failed"} :
             metrics'[c] = metrics[c]
    BY <1>0, <2>1 DEF TypeOK, Counters
  <2>5. QED
    BY <2>1, <2>2, <2>3, <2>4 DEF CountInv
<1>10. CASE WorkerSkip
  <2>1. /\ UNCHANGED <<metrics, queue, timedOut, result>> /\ wpc = "taken" /\ wpc' = "skipped"
        /\ wtask \in Tasks /\ job[wtask] = "queued" /\ job' = [job EXCEPT ![wtask] = "dropped"]
    BY <1>0, <1>10 DEF WorkerSkip, WorkerInv, TypeOK, Holding
  <2>2. Admitted' = Admitted /\ GaveUp' = GaveUp
    BY <1>0, <2>1 DEF TypeOK, Admitted, GaveUp
  <2>3. Dropped' = Dropped \cup {wtask} /\ wtask \notin Dropped
    BY <1>0, <2>1 DEF TypeOK, Dropped
  <2>4. Uncounted' = Uncounted
    BY <2>1 DEF Uncounted
  <2>5. Ran' = Ran
    BY <1>0, <2>1, <2>4 DEF TypeOK, Ran, JobStatus
  <2>6. InTime' = InTime
    BY <2>1, <2>5 DEF InTime
  <2>7. OkInTime' = OkInTime
    BY <1>0, <2>1, <2>6 DEF TypeOK, OkInTime, InTime, Ran, JobStatus
  <2>8. Cardinality(Dropped') = Cardinality(Dropped) + 1
    BY <1>1, <2>1, <2>3, Counting
  <2>9. metrics["cancelled"] \in Nat
    BY <1>2 DEF Counters
  <2>10. QED
    BY <2>1, <2>2, <2>3, <2>5, <2>6, <2>7, <2>8, <2>9 DEF CountInv
<1>11. CASE WorkerCountSkip
  <2>1. /\ UNCHANGED <<job, queue, timedOut, result>> /\ wpc = "skipped" /\ wpc' = "check"
        /\ metrics' = [metrics EXCEPT !["cancelled"] = @ + 1]
    BY <1>11 DEF WorkerCountSkip
  <2>2. Admitted' = Admitted /\ Dropped' = Dropped /\ GaveUp' = GaveUp /\ Uncounted' = Uncounted
    BY <2>1 DEF Admitted, Dropped, GaveUp, Uncounted
  <2>3. Ran' = Ran /\ InTime' = InTime /\ OkInTime' = OkInTime
    BY <2>1, <2>2 DEF Ran, InTime, OkInTime
  <2>4. /\ metrics'["cancelled"] = metrics["cancelled"] + 1 /\ metrics["cancelled"] \in Nat
        /\ \A c \in {"submitted", "timed_out", "queue_depth", "succeeded", "failed"} :
             metrics'[c] = metrics[c]
    BY <1>0, <2>1 DEF TypeOK, Counters
  <2>5. QED
    BY <2>1, <2>2, <2>3, <2>4 DEF CountInv
<1>12. CASE WorkerRun \/ WorkerFinish
  <2>1. /\ UNCHANGED <<metrics, queue, timedOut, result, wtask>> /\ wpc \in {"taken", "running"}
        /\ wpc' \in {"running", "ran"} /\ wtask \in Tasks /\ job[wtask] \in {"queued", "running"}
        /\ \E s \in JobStatus \cup {"running"} :
             job' = [job EXCEPT ![wtask] = s] /\ (s \in JobStatus => wpc' = "ran")
    BY <1>0, <1>12 DEF WorkerRun, WorkerFinish, WorkerInv, TypeOK, Holding, JobStatus
  <2>2. PICK s \in JobStatus \cup {"running"} :
          job' = [job EXCEPT ![wtask] = s] /\ (s \in JobStatus => wpc' = "ran")
    BY <2>1
  <2>3. Admitted' = Admitted /\ Dropped' = Dropped /\ GaveUp' = GaveUp
    BY <1>0, <2>1, <2>2 DEF TypeOK, Admitted, Dropped, GaveUp, JobStatus
  <2>4. Uncounted = {} /\ (s \in JobStatus => Uncounted' = {wtask})
        /\ Uncounted' \subseteq {wtask}
    BY <2>1, <2>2 DEF Uncounted
  <2>5. Ran' = Ran
    BY <1>0, <2>1, <2>2, <2>4 DEF TypeOK, Ran, JobStatus
  <2>6. InTime' = InTime /\ wtask \notin InTime
    BY <2>1, <2>5 DEF InTime, Ran, JobStatus
  <2>7. OkInTime' = OkInTime
    BY <1>0, <1>1, <2>1, <2>2, <2>6 DEF TypeOK, OkInTime
  <2>8. QED
    BY <1>0, <1>1, <2>1, <2>3, <2>5, <2>6, <2>7, CountSame
<1>13. CASE WorkerLoad
  <2>1. /\ UNCHANGED <<metrics, queue, job, timedOut, result, wtask>> /\ wpc = "ran"
        /\ wpc' \in {"count", "resolve"} /\ (wpc' = "resolve" => timedOut[wtask])
        /\ wtask \in Tasks /\ timedOut[wtask] \in BOOLEAN
    BY <1>0, <1>13 DEF WorkerLoad, WorkerInv, TypeOK, Holding
  <2>2. Admitted' = Admitted /\ Dropped' = Dropped /\ GaveUp' = GaveUp
    BY <2>1 DEF Admitted, Dropped, GaveUp
  <2>3. Uncounted = {wtask} /\ (wpc' = "count" => Uncounted' = {wtask})
        /\ (wpc' = "resolve" => Uncounted' = {})
    BY <2>1 DEF Uncounted
  <2>4. Ran \subseteq Ran' /\ Ran' \subseteq Ran \cup {wtask} /\ (wpc' = "count" => Ran' = Ran)
    BY <2>1, <2>3 DEF Ran
  <2>5. InTime' = InTime
    BY <2>1, <2>4 DEF InTime
  <2>6. OkInTime' = OkInTime
    BY <2>1, <2>5 DEF OkInTime
  <2>7. QED
    BY <1>0, <1>1, <2>1, <2>2, <2>4, <2>5, <2>6, CountSame
<1>14. CASE WorkerCount
  <2>1. /\ UNCHANGED <<queue, job, timedOut, result, wtask>> /\ wpc = "count" /\ wpc' = "resolve"
        /\ wtask \in Tasks /\ job[wtask] = wstatus /\ wstatus \in JobStatus
        /\ metrics' = IF wstatus = "Ok" THEN [metrics EXCEPT !["succeeded"] = @ + 1]
                                        ELSE [metrics EXCEPT !["failed"] = @ + 1]
    BY <1>0, <1>14 DEF WorkerCount, WorkerInv, TypeOK, Holding
  <2>2. Admitted' = Admitted /\ Dropped' = Dropped /\ GaveUp' = GaveUp
    BY <2>1 DEF Admitted, Dropped, GaveUp
  <2>3. Uncounted = {wtask} /\ Uncounted' = {}
    BY <2>1 DEF Uncounted
  <2>4. Ran' = Ran \cup {wtask} /\ wtask \notin Ran
    BY <2>1, <2>3 DEF Ran
  <2>5. InTime' \subseteq InTime \cup {wtask} /\ wtask \notin InTime
    BY <2>1, <2>4 DEF InTime
  <2>6. /\ OkInTime' \subseteq OkInTime \cup {wtask} /\ wtask \notin OkInTime
        /\ wstatus # "Ok" => OkInTime' \subseteq OkInTime
    BY <2>1, <2>5 DEF OkInTime
  <2>7. /\ Cardinality(Ran') = Cardinality(Ran) + 1
        /\ Cardinality(InTime') <= Cardinality(InTime \cup {wtask})
        /\ Cardinality(InTime \cup {wtask}) = Cardinality(InTime) + 1
        /\ Cardinality(OkInTime') <= Cardinality(OkInTime \cup {wtask})
        /\ Cardinality(OkInTime \cup {wtask}) = Cardinality(OkInTime) + 1
        /\ wstatus # "Ok" => Cardinality(OkInTime') <= Cardinality(OkInTime)
    <3>1. InTime \cup {wtask} \in SUBSET Tasks /\ OkInTime \cup {wtask} \in SUBSET Tasks
      BY <1>1, <2>1
    <3>2. QED
      BY <1>1, <2>1, <2>4, <2>5, <2>6, <3>1, Counting
  <2>8. /\ Cardinality(Ran) \in Nat /\ Cardinality(InTime) \in Nat /\ Cardinality(OkInTime) \in Nat
        /\ Cardinality(InTime') \in Nat /\ Cardinality(OkInTime') \in Nat
    <3>1. InTime' \in SUBSET Tasks /\ OkInTime' \in SUBSET Tasks
      BY <1>1, <2>1, <2>5, <2>6
    <3>2. QED
      BY <1>1, <3>1, Counting
  <2>9. /\ metrics["succeeded"] \in Nat /\ metrics["failed"] \in Nat
        /\ \A c \in {"submitted", "timed_out", "cancelled", "queue_depth"} : metrics'[c] = metrics[c]
        /\ metrics'["succeeded"] = metrics["succeeded"] + (IF wstatus = "Ok" THEN 1 ELSE 0)
        /\ metrics'["failed"] = metrics["failed"] + (IF wstatus = "Ok" THEN 0 ELSE 1)
    BY <1>0, <2>1 DEF TypeOK, Counters
  <2>10. /\ metrics["succeeded"] >= Cardinality(OkInTime)
         /\ metrics["succeeded"] + metrics["failed"] >= Cardinality(InTime)
         /\ metrics["succeeded"] + metrics["failed"] <= Cardinality(Ran)
    BY DEF CountInv
  <2>11. /\ metrics'["succeeded"] >= Cardinality(OkInTime')
         /\ metrics'["succeeded"] + metrics'["failed"] >= Cardinality(InTime')
         /\ metrics'["succeeded"] + metrics'["failed"] <= Cardinality(Ran')
    BY <2>7, <2>8, <2>9, <2>10
  <2>12. QED
    BY <2>1, <2>2, <2>9, <2>11 DEF CountInv
<1>15. CASE StopBegin
  <2> DEFINE Q == {t \in Tasks : InQueue(t)}
  <2>1. /\ UNCHANGED <<timedOut, result, wpc, wtask>> /\ queue' = <<>>
        /\ job' = [t \in Tasks |-> IF InQueue(t) THEN "dropped" ELSE job[t]]
        /\ metrics' = [metrics EXCEPT !["queue_depth"] = 0, !["cancelled"] = @ + Len(queue)]
    BY <1>15 DEF StopBegin
  <2>2. \A t \in Q : job[t] = "queued"
    BY <1>0 DEF InQueue, QueueInv, TypeOK
  <2>3. Q \in SUBSET Tasks /\ \A t \in Tasks : job'[t] = IF t \in Q THEN "dropped" ELSE job[t]
    BY <2>1
  <2> HIDE DEF Q
  <2>4. Admitted' = Admitted /\ GaveUp' = GaveUp
    BY <2>1, <2>2, <2>3 DEF Admitted, GaveUp
  <2>5. Dropped' = Dropped \cup Q /\ Dropped \cap Q = {}
    BY <2>2, <2>3 DEF Dropped
  <2>6. Uncounted' = Uncounted
    BY <2>1 DEF Uncounted
  <2>7. Ran' = Ran
    BY <2>2, <2>3, <2>6 DEF Ran, JobStatus
  <2>8. InTime' = InTime
    BY <2>1, <2>7 DEF InTime
  <2>9. OkInTime' = OkInTime
    BY <1>1, <2>2, <2>3, <2>8 DEF OkInTime
  <2>10. Cardinality(Q) = Len(queue)
    BY <1>0, QueueCount DEF Q
  <2>11. Cardinality(Dropped') = Cardinality(Dropped) + Len(queue)
    <3>1. /\ IsFiniteSet(Dropped) /\ IsFiniteSet(Q) /\ Cardinality(Dropped) \in Nat
          /\ Cardinality(Q) \in Nat
      BY <1>1, <2>3, Counting
    <3>2. Cardinality(Dropped \cup Q)
            = Cardinality(Dropped) + Cardinality(Q) - Cardinality(Dropped \cap Q)
      BY <3>1, FS_Union
    <3>3. Cardinality(Dropped \cap Q) = 0
      BY <2>5, FS_EmptySet
    <3>4. QED
      BY <2>5, <2>10, <3>1, <3>2, <3>3
  <2>12. /\ metrics'["cancelled"] = metrics["cancelled"] + Len(queue)
         /\ metrics["cancelled"] \in Nat /\ metrics'["queue_depth"] = 0 /\ Len(queue) \in Nat
         /\ \A c \in {"submitted", "timed_out", "succeeded", "failed"} : metrics'[c] = metrics[c]
    BY <1>0, <2>1 DEF TypeOK, Counters
  <2>13. Cardinality(Dropped) \in Nat
    BY <1>1, Counting
  <2>14. metrics'["cancelled"] + (IF wpc = "skipped" THEN 1 ELSE 0) = Cardinality(Dropped')
    BY <2>11, <2>12, <2>13 DEF CountInv
  <2>15. Len(queue') = 0
    BY <2>1
  <2>16. QED
    BY <2>1, <2>4, <2>7, <2>8, <2>9, <2>12, <2>14, <2>15 DEF CountInv
\* The other steps.
<1>16. ASSUME NEW t \in Tasks, SubmitNotify(t) \/ WaitExpired(t) PROVE CountInv'
  BY <1>3, <1>16 DEF SubmitNotify, WaitExpired, Uncounted
<1>17. CASE WorkerSleep \/ WorkerExit \/ SpuriousWake
  BY <1>3, <1>17 DEF WorkerSleep, WorkerExit, SpuriousWake, Uncounted
<1>18. CASE WorkerResolve
  BY <1>3, <1>18 DEF WorkerResolve, Uncounted
<1>19. CASE Start
  <2>1. wpc = "none"
    BY <1>19 DEF Start, IInv, LifeInv
  <2>2. QED
    BY <1>3, <1>19, <2>1 DEF Start, Uncounted
<1>20. CASE StopIdle \/ StopStep
  BY <1>3, <1>20 DEF StopIdle, StopStep, StopNotify, StopJoin, StopClose, StopEnd, Uncounted
<1>21. CASE UNCHANGED vars
  BY <1>3, <1>21 DEF vars, Uncounted
<1>22. QED
  BY <1>4, <1>5, <1>6, <1>7, <1>8, <1>9, <1>10, <1>11, <1>12, <1>13, <1>14, <1>15, <1>16,
     <1>17, <1>18, <1>19, <1>20, <1>21
  DEF Next, CallerStep, WorkerStep

\* At rest the metrics account for every admitted call, for any number of calls:
\* no interleaving of a deadline with the end of its job or with stop() loses a
\* call from the books, or counts an outcome twice.
THEOREM BooksAreBalanced ==
  ASSUME IsFiniteSet(Tasks)
  PROVE  Spec => []BooksBalance
<1>1. Init => ToldInv /\ CountInv
  <2> SUFFICES ASSUME Init PROVE ToldInv /\ CountInv
    OBVIOUS
  <2>1. ToldInv
    BY DEF Init, ToldInv
  <2>2. Admitted = {} /\ Dropped = {} /\ GaveUp = {} /\ Ran = {} /\ InTime = {} /\ OkInTime = {}
    BY DEF Init, Admitted, Dropped, GaveUp, Ran, InTime, OkInTime, JobStatus
  <2>3. \A c \in Counters : metrics[c] = 0
    BY DEF Init
  <2>4. Len(queue) = 0 /\ wpc # "skipped" /\ Cardinality({}) = 0
    BY FS_EmptySet DEF Init
  <2>5. CountInv
    BY <2>2, <2>3, <2>4 DEF CountInv, Counters
  <2>6. QED
    BY <2>1, <2>5
<1>2. IInv /\ ToldInv /\ CountInv => BooksBalance
  <2> SUFFICES ASSUME IInv, ToldInv, CountInv PROVE BooksBalance
    OBVIOUS
  <2>1. TypeOK /\ QueueInv /\ WorkerInv /\ PromiseInv /\ CallerInv
    BY DEF IInv
  <2>2. CASE ~AtRest
    BY <2>2 DEF BooksBalance, CountInv
  <2>3. CASE AtRest
    <3>1. /\ queue = <<>> /\ wtask = NoTask /\ wpc \notin Holding
          /\ \A t \in Tasks : caller[t] \in {"new", "returned"}
      BY <2>1, <2>3 DEF AtRest, WorkerInv
    <3>2. Uncounted = {} /\ wpc # "skipped"
      BY <3>1 DEF Uncounted, Holding
    <3>3. /\ Admitted \in SUBSET Tasks /\ Dropped \in SUBSET Tasks /\ GaveUp \in SUBSET Tasks
          /\ Ran \in SUBSET Tasks /\ InTime \in SUBSET Tasks /\ OkInTime \in SUBSET Tasks
      BY DEF Admitted, Dropped, GaveUp, Ran, InTime, OkInTime
    <3>4. Admitted = Ran \cup Dropped
      <4>1. \A t \in Tasks : job[t] \notin {"queued", "running"}
        BY <2>1, <3>1 DEF QueueInv, WorkerInv, Holding
      <4>2. QED
        BY <2>1, <3>2, <4>1 DEF Admitted, Ran, Dropped, TypeOK, JobStatus
    <3>5. Ran \cap Dropped = {}
      BY DEF Ran, Dropped, JobStatus
    <3>6. Ran \subseteq InTime \cup GaveUp
      <4>1. \A t \in Tasks : timedOut[t] => t \in GaveUp
        BY <2>1, <3>1 DEF ToldInv, CallerInv, GaveUp
      <4>2. QED
        BY <3>3, <4>1 DEF InTime
    <3>7. PICK Oks \in SUBSET Tasks : Oks = {t \in Tasks : result[t] = "Ok"}
      OBVIOUS
    <3>8. Oks \subseteq OkInTime
      <4>1. ASSUME NEW t \in Oks PROVE t \in OkInTime
        <5>1. result[t] = "Ok" /\ promise[t] = "Ok" /\ t \in Tasks
          BY <3>7 DEF ToldInv
        <5>2. job[t] = "Ok" /\ caller[t] = "returned"
          BY <2>1, <5>1 DEF PromiseInv, CallerInv, TypeOK
        <5>3. ~timedOut[t]
          BY <5>1, <5>2 DEF ToldInv
        <5>4. QED
          BY <3>2, <5>1, <5>2, <5>3 DEF OkInTime, InTime, Ran, JobStatus
      <4>2. QED
        BY <4>1
    <3>9. /\ Cardinality(Ran) \in Nat /\ Cardinality(Dropped) \in Nat /\ Cardinality(InTime) \in Nat
          /\ Cardinality(GaveUp) \in Nat /\ Cardinality(OkInTime) \in Nat /\ Cardinality(Oks) \in Nat
          /\ Cardinality(Admitted) \in Nat
          /\ IsFiniteSet(Ran) /\ IsFiniteSet(Dropped) /\ IsFiniteSet(InTime) /\ IsFiniteSet(GaveUp)
      BY <3>3, Counting
    <3>10. Cardinality(Admitted) = Cardinality(Ran) + Cardinality(Dropped)
      <4>1. Cardinality(Ran \cup Dropped)
              = Cardinality(Ran) + Cardinality(Dropped) - Cardinality(Ran \cap Dropped)
        BY <3>9, FS_Union
      <4>2. Cardinality(Ran \cap Dropped) = 0
        BY <3>5, FS_EmptySet
      <4>3. QED
        BY <3>4, <3>9, <4>1, <4>2
    <3>11. Cardinality(Ran) <= Cardinality(InTime) + Cardinality(GaveUp)
      <4>1. InTime \cup GaveUp \in SUBSET Tasks /\ InTime \cap GaveUp \in SUBSET Tasks
        BY <3>3
      <4>2. Cardinality(InTime \cup GaveUp)
              = Cardinality(InTime) + Cardinality(GaveUp) - Cardinality(InTime \cap GaveUp)
        BY <3>9, FS_Union
      <4>3. /\ Cardinality(InTime \cap GaveUp) \in Nat /\ Cardinality(InTime \cup GaveUp) \in Nat
            /\ Cardinality(Ran) <= Cardinality(InTime \cup GaveUp)
        BY <3>6, <4>1, Counting
      <4>4. QED
        BY <3>9, <4>2, <4>3
    <3>12. Cardinality(Oks) <= Cardinality(OkInTime)
      BY <3>3, <3>8, Counting
    <3>13. \A c \in Counters : metrics[c] \in Nat
      BY <2>1 DEF TypeOK
    <3>14. /\ metrics["succeeded"] \in Nat /\ metrics["failed"] \in Nat
           /\ metrics["cancelled"] \in Nat /\ metrics["timed_out"] \in Nat
           /\ metrics["submitted"] \in Nat
      BY <3>13 DEF Counters
    <3>15. /\ metrics["submitted"] = Cardinality(Admitted)
           /\ metrics["timed_out"] = Cardinality(GaveUp)
           /\ metrics["cancelled"] = Cardinality(Dropped)
           /\ metrics["succeeded"] >= Cardinality(Oks)
      BY <3>2, <3>9, <3>12, <3>14 DEF CountInv
    <3>16. Settled <= metrics["submitted"]
      BY <3>9, <3>10, <3>14, <3>15 DEF CountInv, Settled
    <3>17. metrics["submitted"] <= Settled + metrics["timed_out"]
      BY <3>9, <3>10, <3>11, <3>14, <3>15 DEF CountInv, Settled
    <3>18. QED
      BY <3>7, <3>15, <3>16, <3>17 DEF BooksBalance, CountInv, Count, Admitted, GaveUp, Dropped
  <2>4. QED
    BY <2>2, <2>3
<1>3. IInv /\ ToldInv /\ CountInv /\ [Next]_vars => ToldInv' /\ CountInv'
  BY ToldStep, CountStep
<1>4. QED
  BY <1>1, <1>2, <1>3, Invariant, PTL DEF Spec
================================================================================
