------------------------------ MODULE BusExecutor ------------------------------
(***************************************************************************)
(* The serial job executor of src/src/i2c/bus_executor.cpp: one worker     *)
(* thread owns the I2C bus; any thread may submit() a job and wait for its *)
(* status, with or without a deadline; one owner thread start()s and       *)
(* stop()s the executor.                                                   *)
(*                                                                         *)
(* A task stands for one call of submit(): the Task object it allocates,   *)
(* its promise and the calling thread's progress through the call.  Every  *)
(* critical section under mutex_, every atomic load or store and every     *)
(* call on the condition variable or the promise is a step of its own.     *)
(***************************************************************************)
EXTENDS Naturals, Sequences, FiniteSets

CONSTANTS Tasks,      \* the calls of submit(), one Task object each
          NoTask,     \* the worker holds no task
          MaxStarts   \* bound on the number of times start() spawns a worker

ASSUME ExecutorAssumption == /\ NoTask \notin Tasks
                             /\ MaxStarts \in Nat

JobStatus == {"Ok", "InvalidArgument", "Unavailable", "Internal"}
Status    == JobStatus \cup {"DeadlineExceeded", "Cancelled"}

VARIABLES
  caller,     \* caller[t]: where the thread inside submit() is
  deadline,   \* deadline[t]: timeout.count() > 0
  result,     \* result[t]: what submit() returned
  timedOut,   \* timedOut[t]: Task::timed_out
  promise,    \* promise[t]: the value of Task::promise, "none" until set
  job,        \* job[t]: what has become of the job itself
  queue,      \* queue_
  wpc,        \* where the worker thread is in worker_loop()
  wtask,      \* the worker's local `task`
  wstatus,    \* the worker's local `status`
  owner,      \* where the owner thread is in stop()
  running,    \* running_
  stopping,   \* stopping_
  busOpen,    \* bus_ is open
  metrics,    \* metrics_, without the wording of last_error
  starts      \* workers spawned so far

callerVars == <<caller, deadline, result, timedOut>>
workerVars == <<wpc, wtask, wstatus>>
ownerVars  == <<owner, running, stopping, busOpen, starts>>
vars == <<callerVars, workerVars, ownerVars, promise, job, queue, metrics>>

Counters == {"submitted", "started", "succeeded", "failed", "timed_out",
             "cancelled", "queue_depth"}

TypeOK ==
  /\ caller \in [Tasks -> {"new", "notify", "waiting", "expired", "marked",
                           "returned"}]
  /\ deadline \in [Tasks -> BOOLEAN]
  /\ result \in [Tasks -> Status \cup {"none"}]
  /\ timedOut \in [Tasks -> BOOLEAN]
  /\ promise \in [Tasks -> Status \cup {"none"}]
  /\ job \in [Tasks -> JobStatus \cup {"new", "refused", "queued", "running",
                                       "dropped"}]
  /\ queue \in Seq(Tasks)
  /\ wpc \in {"none", "check", "asleep", "taken", "skipped", "running", "ran",
              "count", "resolve", "exited"}
  /\ wtask \in Tasks \cup {NoTask}
  /\ wstatus \in JobStatus
  /\ owner \in {"idle", "notify", "joining", "joined", "closed"}
  /\ running \in BOOLEAN
  /\ stopping \in BOOLEAN
  /\ busOpen \in BOOLEAN
  /\ metrics \in [Counters -> Nat]
  /\ starts \in Nat

Init ==
  /\ caller = [t \in Tasks |-> "new"]
  /\ deadline = [t \in Tasks |-> FALSE]
  /\ result = [t \in Tasks |-> "none"]
  /\ timedOut = [t \in Tasks |-> FALSE]
  /\ promise = [t \in Tasks |-> "none"]
  /\ job = [t \in Tasks |-> "new"]
  /\ queue = <<>>
  /\ wpc = "none" /\ wtask = NoTask /\ wstatus = "Ok"
  /\ owner = "idle"
  /\ running = FALSE /\ stopping = FALSE /\ busOpen = FALSE
  /\ metrics = [c \in Counters |-> 0]
  /\ starts = 0
-------------------------------------------------------------------------------
(* submit(), run by the calling thread.                                    *)

SubmitRefused(t) ==
  /\ caller[t] = "new"
  /\ ~running \/ stopping
  /\ caller' = [caller EXCEPT ![t] = "returned"]
  /\ result' = [result EXCEPT ![t] = "Unavailable"]
  /\ job' = [job EXCEPT ![t] = "refused"]
  /\ UNCHANGED <<deadline, timedOut, promise, queue, workerVars, ownerVars, metrics>>

SubmitQueued(t) ==
  /\ caller[t] = "new"
  /\ running /\ ~stopping
  /\ caller' = [caller EXCEPT ![t] = "notify"]
  /\ \E d \in BOOLEAN : deadline' = [deadline EXCEPT ![t] = d]
  /\ job' = [job EXCEPT ![t] = "queued"]
  /\ queue' = Append(queue, t)
  /\ metrics' = [metrics EXCEPT !["submitted"] = @ + 1,
                                !["queue_depth"] = Len(queue')]
  /\ UNCHANGED <<result, timedOut, promise, workerVars, ownerVars>>

\* Seeded fault: the queued task does not wake the worker.
SubmitNotifyLost(t) ==
  /\ caller[t] = "notify"
  /\ caller' = [caller EXCEPT ![t] = "waiting"]
  /\ UNCHANGED <<deadline, result, timedOut, workerVars, ownerVars, promise, job,
                 queue, metrics>>

\* cv_.notify_one(), after the lock is released.
SubmitNotify(t) ==
  /\ caller[t] = "notify"
  /\ caller' = [caller EXCEPT ![t] = "waiting"]
  /\ wpc' = IF wpc = "asleep" THEN "check" ELSE wpc
  /\ UNCHANGED <<deadline, result, timedOut, wtask, wstatus, ownerVars, promise,
                 job, queue, metrics>>

\* wait_for() finds the future ready, or get() returns.
WaitReady(t) ==
  /\ caller[t] = "waiting"
  /\ promise[t] # "none"
  /\ caller' = [caller EXCEPT ![t] = "returned"]
  /\ result' = [result EXCEPT ![t] = promise[t]]
  /\ UNCHANGED <<deadline, timedOut, workerVars, ownerVars, promise, job, queue, metrics>>

\* wait_for() returns without a value: the deadline has passed.
WaitExpired(t) ==
  /\ caller[t] = "waiting"
  /\ deadline[t]
  /\ promise[t] = "none"
  /\ caller' = [caller EXCEPT ![t] = "expired"]
  /\ UNCHANGED <<deadline, result, timedOut, workerVars, ownerVars, promise, job,
                 queue, metrics>>

\* task->timed_out.store(true)
MarkTimedOut(t) ==
  /\ caller[t] = "expired"
  /\ caller' = [caller EXCEPT ![t] = "marked"]
  /\ timedOut' = [timedOut EXCEPT ![t] = TRUE]
  /\ UNCHANGED <<deadline, result, workerVars, ownerVars, promise, job, queue, metrics>>

RecordTimeout(t) ==
  /\ caller[t] = "marked"
  /\ caller' = [caller EXCEPT ![t] = "returned"]
  /\ result' = [result EXCEPT ![t] = "DeadlineExceeded"]
  /\ metrics' = [metrics EXCEPT !["timed_out"] = @ + 1]
  /\ UNCHANGED <<deadline, timedOut, workerVars, ownerVars, promise, job, queue>>
-------------------------------------------------------------------------------
(* worker_loop(), run by the worker thread.                                *)

\* safe_set_promise(): a promise already satisfied keeps its value.
SafeSetPromise(t, s) ==
  promise' = [promise EXCEPT ![t] = IF @ = "none" THEN s ELSE @]

\* The predicate of cv_.wait is false: the worker sleeps until notified.
WorkerSleep ==
  /\ wpc = "check"
  /\ ~stopping /\ queue = <<>>
  /\ wpc' = "asleep"
  /\ UNCHANGED <<callerVars, wtask, wstatus, ownerVars, promise, job, queue, metrics>>

\* A condition variable may also wake without a notification.
SpuriousWake ==
  /\ wpc = "asleep"
  /\ wpc' = "check"
  /\ UNCHANGED <<callerVars, wtask, wstatus, ownerVars, promise, job, queue, metrics>>

WorkerExit ==
  /\ wpc = "check"
  /\ stopping /\ queue = <<>>
  /\ wpc' = "exited"
  /\ UNCHANGED <<callerVars, wtask, wstatus, ownerVars, promise, job, queue, metrics>>

\* Seeded fault: queue_depth is taken before the pop and off by two.
WorkerTakeDepthOff ==
  /\ wpc = "check"
  /\ queue # <<>>
  /\ wpc' = "taken"
  /\ wtask' = Head(queue)
  /\ queue' = Tail(queue)
  /\ metrics' = [metrics EXCEPT !["started"] = @ + 1,
                                !["queue_depth"] = Len(queue) - 2]
  /\ UNCHANGED <<callerVars, wstatus, ownerVars, promise, job>>

WorkerTake ==
  /\ wpc = "check"
  /\ queue # <<>>
  /\ wpc' = "taken"
  /\ wtask' = Head(queue)
  /\ queue' = Tail(queue)
  /\ metrics' = [metrics EXCEPT !["started"] = @ + 1,
                                !["queue_depth"] = Len(queue')]
  /\ UNCHANGED <<callerVars, wstatus, ownerVars, promise, job>>

\* The caller timed out before the job started: it is not run.
WorkerSkip ==
  /\ wpc = "taken"
  /\ timedOut[wtask]
  /\ wpc' = "skipped"
  /\ SafeSetPromise(wtask, "Cancelled")
  /\ job' = [job EXCEPT ![wtask] = "dropped"]
  /\ UNCHANGED <<callerVars, wtask, wstatus, ownerVars, queue, metrics>>

WorkerCountSkip ==
  /\ wpc = "skipped"
  /\ wpc' = "check"
  /\ wtask' = NoTask
  /\ metrics' = [metrics EXCEPT !["cancelled"] = @ + 1]
  /\ UNCHANGED <<callerVars, wstatus, ownerVars, promise, job, queue>>

\* Seeded fault: a job whose caller timed out is run all the same.
WorkerRunLate ==
  /\ wpc = "taken"
  /\ wpc' = "running"
  /\ job' = [job EXCEPT ![wtask] = "running"]
  /\ UNCHANGED <<callerVars, wtask, wstatus, ownerVars, promise, queue, metrics>>

\* task->job(*bus_) begins: from here to WorkerFinish the bus is in use.
WorkerRun ==
  /\ wpc = "taken"
  /\ ~timedOut[wtask]
  /\ wpc' = "running"
  /\ job' = [job EXCEPT ![wtask] = "running"]
  /\ UNCHANGED <<callerVars, wtask, wstatus, ownerVars, promise, queue, metrics>>

WorkerFinish ==
  /\ wpc = "running"
  /\ wpc' = "ran"
  /\ \E s \in JobStatus : /\ wstatus' = s
                          /\ job' = [job EXCEPT ![wtask] = s]
  /\ UNCHANGED <<callerVars, wtask, ownerVars, promise, queue, metrics>>

\* Seeded fault: the test of timed_out is inverted.
WorkerLoadInverted ==
  /\ wpc = "ran"
  /\ wpc' = IF timedOut[wtask] THEN "count" ELSE "resolve"
  /\ UNCHANGED <<callerVars, wtask, wstatus, ownerVars, promise, job, queue, metrics>>

\* The second load of timed_out decides whether the outcome is counted.
WorkerLoad ==
  /\ wpc = "ran"
  /\ wpc' = IF timedOut[wtask] THEN "resolve" ELSE "count"
  /\ UNCHANGED <<callerVars, wtask, wstatus, ownerVars, promise, job, queue, metrics>>

WorkerCount ==
  /\ wpc = "count"
  /\ wpc' = "resolve"
  /\ metrics' = IF wstatus = "Ok" THEN [metrics EXCEPT !["succeeded"] = @ + 1]
                                  ELSE [metrics EXCEPT !["failed"] = @ + 1]
  /\ UNCHANGED <<callerVars, wtask, wstatus, ownerVars, promise, job, queue>>

WorkerResolve ==
  /\ wpc = "resolve"
  /\ wpc' = "check"
  /\ wtask' = NoTask
  /\ SafeSetPromise(wtask, wstatus)
  /\ UNCHANGED <<callerVars, wstatus, ownerVars, job, queue, metrics>>
-------------------------------------------------------------------------------
(* start() and stop(), run by the thread that owns the executor.           *)

\* The bus opens and the worker is spawned.  A start() that finds the worker
\* running, or that cannot open the bus, changes none of this state.
Start ==
  /\ owner = "idle" /\ ~running
  /\ starts < MaxStarts
  /\ starts' = starts + 1
  /\ busOpen' = TRUE
  /\ stopping' = FALSE
  /\ running' = TRUE
  /\ wpc' = "check"
  /\ UNCHANGED <<callerVars, wtask, wstatus, owner, promise, job, queue, metrics>>

\* stop() with no worker: close the bus and return.
StopIdle ==
  /\ owner = "idle" /\ ~running
  /\ busOpen' = FALSE
  /\ UNCHANGED <<callerVars, workerVars, owner, running, stopping, starts,
                 promise, job, queue, metrics>>

InQueue(t) == \E i \in DOMAIN queue : queue[i] = t

\* Seeded fault: the queue is emptied and its promises are left alone.
StopBeginForgets ==
  /\ owner = "idle" /\ running
  /\ owner' = "notify"
  /\ stopping' = TRUE
  /\ queue' = <<>>
  /\ job' = [t \in Tasks |-> IF InQueue(t) THEN "dropped" ELSE job[t]]
  /\ metrics' = [metrics EXCEPT !["queue_depth"] = 0,
                                !["cancelled"] = @ + Len(queue)]
  /\ UNCHANGED <<callerVars, workerVars, running, busOpen, starts, promise>>

\* Take over the queue and cancel every task in it, under the lock.
StopBegin ==
  /\ owner = "idle" /\ running
  /\ owner' = "notify"
  /\ stopping' = TRUE
  /\ queue' = <<>>
  /\ promise' = [t \in Tasks |-> IF InQueue(t) /\ promise[t] = "none"
                                   THEN "Cancelled" ELSE promise[t]]
  /\ job' = [t \in Tasks |-> IF InQueue(t) THEN "dropped" ELSE job[t]]
  /\ metrics' = [metrics EXCEPT !["queue_depth"] = 0,
                                !["cancelled"] = @ + Len(queue)]
  /\ UNCHANGED <<callerVars, workerVars, running, busOpen, starts>>

\* Seeded fault: stop() does not wake the worker.
StopNotifyLost ==
  /\ owner = "notify"
  /\ owner' = "joining"
  /\ UNCHANGED <<callerVars, workerVars, running, stopping, busOpen, starts,
                 promise, job, queue, metrics>>

\* cv_.notify_all()
StopNotify ==
  /\ owner = "notify"
  /\ owner' = "joining"
  /\ wpc' = IF wpc = "asleep" THEN "check" ELSE wpc
  /\ UNCHANGED <<callerVars, wtask, wstatus, running, stopping, busOpen, starts,
                 promise, job, queue, metrics>>

StopJoin ==
  /\ owner = "joining"
  /\ wpc = "exited"
  /\ owner' = "joined"
  /\ wpc' = "none"
  /\ UNCHANGED <<callerVars, wtask, wstatus, running, stopping, busOpen, starts,
                 promise, job, queue, metrics>>

StopClose ==
  /\ owner = "joined"
  /\ owner' = "closed"
  /\ busOpen' = FALSE
  /\ UNCHANGED <<callerVars, workerVars, running, stopping, starts, promise, job,
                 queue, metrics>>

StopEnd ==
  /\ owner = "closed"
  /\ owner' = "idle"
  /\ running' = FALSE
  /\ stopping' = FALSE
  /\ UNCHANGED <<callerVars, workerVars, busOpen, starts, promise, job, queue, metrics>>
-------------------------------------------------------------------------------
CallerStep(t) == \/ SubmitNotify(t) \/ WaitReady(t) \/ WaitExpired(t)
                 \/ MarkTimedOut(t) \/ RecordTimeout(t)

WorkerStep == \/ WorkerSleep \/ WorkerExit \/ WorkerTake \/ WorkerSkip
              \/ WorkerCountSkip \/ WorkerRun \/ WorkerFinish \/ WorkerLoad
              \/ WorkerCount \/ WorkerResolve

StopStep == StopNotify \/ StopJoin \/ StopClose \/ StopEnd

Next == \/ \E t \in Tasks : SubmitRefused(t) \/ SubmitQueued(t) \/ CallerStep(t)
        \/ WorkerStep \/ SpuriousWake
        \/ Start \/ StopIdle \/ StopBegin \/ StopStep

(* Each thread that is inside a call keeps running: the worker, which      *)
(* includes that a job ends, the callers and the owner inside stop().  No  *)
(* one is obliged to call submit(), start() or stop().                     *)
Fairness == /\ WF_vars(WorkerStep)
            /\ \A t \in Tasks : WF_vars(CallerStep(t))
            /\ WF_vars(StopStep)

Spec == Init /\ [][Next]_vars

FairSpec == Spec /\ Fairness
-------------------------------------------------------------------------------
(* What the executor promises its callers.                                 *)

SB == INSTANCE SerialBus
        WITH next   <- IF wpc = "taken" THEN wtask ELSE NoTask,
             onBus  <- IF wpc = "running" THEN wtask ELSE NoTask,
             line   <- queue,
             open   <- busOpen,
             fate   <- job,
             gaveUp <- timedOut,
             answer <- result

\* The executor implements the abstract serial bus: jobs run one at a time in
\* the order in which they were admitted, only on an open bus, never after
\* their caller gave up, and each call is told what became of its job.
ImplementsSerialBus == SB!Spec

\* Once stop() has returned, every submit() that was admitted has an answer to
\* collect: stop() cancels the queued tasks and joins the worker, which
\* resolves the one it holds, so that a caller without a deadline is not left
\* waiting for a worker that no longer exists.
NoOrphanedCaller ==
  ~running => \A t \in Tasks :
                caller[t] \in {"notify", "waiting"} => promise[t] # "none"

Count(S) == Cardinality(S)

AtRest == /\ \A t \in Tasks : caller[t] \in {"new", "returned"}
          /\ queue = <<>> /\ wtask = NoTask

Settled == metrics["succeeded"] + metrics["failed"] + metrics["cancelled"]

\* At rest the metrics account for every admitted call: each was counted as
\* succeeded, failed, cancelled or timed out; a call is counted twice only when
\* the deadline raced the end of its job or cancelled it before it started; and
\* the timed_out and cancelled counters agree with what callers and jobs saw.
BooksBalance ==
  /\ metrics["queue_depth"] = Len(queue)
  /\ AtRest =>
       /\ metrics["submitted"] = Count({t \in Tasks : job[t] \notin {"new", "refused"}})
       /\ metrics["timed_out"] = Count({t \in Tasks : result[t] = "DeadlineExceeded"})
       /\ metrics["cancelled"] = Count({t \in Tasks : job[t] = "dropped"})
       /\ metrics["succeeded"] >= Count({t \in Tasks : result[t] = "Ok"})
       /\ Settled <= metrics["submitted"]
       /\ metrics["submitted"] <= Settled + metrics["timed_out"]

\* Every submit() returns: a queued task wakes the worker, a job that ends
\* resolves its promise, and stop() abandons no one.
EveryCallReturns ==
  \A t \in Tasks : caller[t] = "notify" ~> caller[t] = "returned"

\* stop() returns: the worker, asleep or busy, sees stopping_ and exits.
StopReturns == owner = "notify" ~> owner = "idle"
================================================================================
