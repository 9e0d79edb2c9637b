---------------------------- MODULE OneHandlerProofs ----------------------------
(***************************************************************************)
(* Proofs about the executor under a single handler, for any number of     *)
(* calls and restarts: the handler sees the bus as JobLine describes it,   *)
(* which is how EzoProviderRuntime and Deadlines model it, and is never    *)
(* told that its job was cancelled.                                        *)
(*                                                                         *)
(* Every step of the handler is a step of BusExecutor, whose invariant     *)
(* IInv is therefore at hand.                                              *)
(***************************************************************************)
EXTENDS OneHandler, BusExecutorProofs

\* One call at a time, and none while the executor is being stopped.
Alone == /\ \A s, t \in Tasks : caller[s] \notin {"new", "returned"}
                                /\ caller[t] \notin {"new", "returned"} => s = t
         /\ owner # "idle" => AtLeisure

\* A job that has not ended when its call returns, and one that was cancelled,
\* belong to a caller that gave up.
GivenUp == \A t \in Tasks :
             /\ caller[t] = "returned" /\ job[t] \in {"queued", "running"} => timedOut[t]
             /\ promise[t] = "Cancelled" => timedOut[t]

HInv == IInv /\ Alone /\ GivenUp /\ NeverCancelled
-------------------------------------------------------------------------------
\* The handler uses the executor as any caller may.
LEMMA HandlerStep == [HandlerNext]_vars => [Next]_vars
  BY DEF HandlerNext, Submits, Initializes, ShutsDown, Next

\* At first nothing was submitted.
LEMMA HandlerInit == Init => HInv
<1>1. Init => Alone /\ GivenUp /\ NeverCancelled
  BY DEF Init, Alone, AtLeisure, GivenUp, NeverCancelled
<1>2. QED
  BY <1>1, InvInit DEF HInv

\* Calls come one after the other.
LEMMA AloneStep == IInv /\ Alone /\ [HandlerNext]_vars => Alone'
<1> SUFFICES ASSUME IInv, Alone, [HandlerNext]_vars PROVE Alone'
  OBVIOUS
<1>t. caller \in [Tasks -> {"new", "notify", "waiting", "expired", "marked", "returned"}]
  BY DEF IInv, TypeOK
<1>1. ASSUME NEW t \in Tasks, Submits(t) PROVE Alone'
  BY <1>t, <1>1 DEF Alone, AtLeisure, Submits, SubmitRefused, SubmitQueued, ownerVars
<1>2. ASSUME NEW t \in Tasks, CallerStep(t) PROVE Alone'
  <2>1. /\ caller[t] \notin {"new", "returned"} /\ owner' = owner
        /\ \E pc \in {"waiting", "expired", "marked", "returned"} :
             caller' = [caller EXCEPT ![t] = pc]
    BY <1>2 DEF CallerStep, SubmitNotify, WaitReady, WaitExpired, MarkTimedOut, RecordTimeout,
                ownerVars
  <2>2. QED
    BY <1>t, <2>1 DEF Alone, AtLeisure
<1>3. CASE WorkerStep \/ SpuriousWake
  <2>1. caller' = caller /\ owner' = owner
    BY <1>3 DEF WorkerStep, SpuriousWake, WorkerSleep, WorkerExit, WorkerTake, WorkerSkip,
                WorkerCountSkip, WorkerRun, WorkerFinish, WorkerLoad, WorkerCount, WorkerResolve,
                callerVars, ownerVars
  <2>2. QED
    BY <2>1 DEF Alone, AtLeisure
<1>4. CASE Initializes \/ ShutsDown
  <2>1. AtLeisure /\ caller' = caller
    BY <1>4 DEF Initializes, ShutsDown, Start, StopIdle, StopBegin, callerVars
  <2>2. QED
    BY <2>1 DEF Alone, AtLeisure
<1>5. CASE StopStep
  <2>1. owner # "idle" /\ caller' = caller
    BY <1>5 DEF StopStep, StopNotify, StopJoin, StopClose, StopEnd, callerVars
  <2>2. QED
    BY <2>1 DEF Alone, AtLeisure
<1>6. CASE UNCHANGED vars
  BY <1>6 DEF Alone, AtLeisure, vars, callerVars, ownerVars
<1>7. QED
  BY <1>1, <1>2, <1>3, <1>4, <1>5, <1>6 DEF HandlerNext

\* What a call leaves behind was given up, and stop() cancels only that.
LEMMA GivenUpStep ==
  HInv /\ [HandlerNext]_vars => GivenUp' /\ NeverCancelled'
<1> SUFFICES ASSUME HInv, [HandlerNext]_vars PROVE GivenUp' /\ NeverCancelled'
  OBVIOUS
<1>t. TypeOK /\ GivenUp /\ NeverCancelled /\ CallerInv /\ PromiseInv /\ WorkerInv /\ QueueInv
  BY DEF HInv, IInv
<1>1. ASSUME NEW t \in Tasks, Submits(t) PROVE GivenUp' /\ NeverCancelled'
  <2>1. CASE SubmitRefused(t)
    BY <1>t, <2>1 DEF TypeOK, SubmitRefused, GivenUp, NeverCancelled
  <2>2. CASE SubmitQueued(t)
    BY <1>t, <2>2 DEF TypeOK, SubmitQueued, GivenUp, NeverCancelled
  <2>3. QED
    BY <1>1, <2>1, <2>2 DEF Submits
<1>2. ASSUME NEW t \in Tasks, CallerStep(t) PROVE GivenUp' /\ NeverCancelled'
  <2>1. CASE SubmitNotify(t)
    BY <1>t, <2>1 DEF TypeOK, SubmitNotify, GivenUp, NeverCancelled
  <2>2. CASE WaitReady(t)
    <3>1. ~timedOut[t] /\ promise[t] # "Cancelled"
      BY <1>t, <2>2 DEF WaitReady, CallerInv, GivenUp
    <3>2. job[t] \notin {"queued", "running"}
      BY <1>t, <2>2, <3>1 DEF WaitReady, PromiseInv, TypeOK, Status, JobStatus
    <3>3. QED
      BY <1>t, <2>2, <3>1, <3>2 DEF TypeOK, WaitReady, GivenUp, NeverCancelled
  <2>3. CASE WaitExpired(t)
    BY <1>t, <2>3 DEF TypeOK, WaitExpired, GivenUp, NeverCancelled
  <2>4. CASE MarkTimedOut(t)
    BY <1>t, <2>4 DEF TypeOK, MarkTimedOut, GivenUp, NeverCancelled
  <2>5. CASE RecordTimeout(t)
    BY <1>t, <2>5 DEF TypeOK, RecordTimeout, GivenUp, NeverCancelled, CallerInv
  <2>6. QED
    BY <1>2, <2>1, <2>2, <2>3, <2>4, <2>5 DEF CallerStep
<1>3. CASE WorkerStep
  <2>1. CASE WorkerSkip
    <3>1. wtask \in Tasks /\ timedOut[wtask]
      BY <1>t, <2>1 DEF WorkerSkip, TypeOK, WorkerInv, Holding
    <3>2. QED
      BY <1>t, <2>1, <3>1 DEF TypeOK, WorkerSkip, SafeSetPromise, GivenUp, NeverCancelled,
                              callerVars
  <2>2. CASE WorkerRun
    <3>1. wtask \in Tasks /\ job[wtask] = "queued" /\ ~timedOut[wtask]
      BY <1>t, <2>2 DEF WorkerRun, TypeOK, WorkerInv, Holding
    <3>2. QED
      BY <1>t, <2>2, <3>1 DEF TypeOK, WorkerRun, GivenUp, NeverCancelled, callerVars
  <2>3. CASE WorkerFinish
    BY <1>t, <2>3 DEF TypeOK, WorkerFinish, GivenUp, NeverCancelled, callerVars, JobStatus
  <2>4. CASE WorkerResolve
    BY <1>t, <2>4 DEF TypeOK, WorkerResolve, SafeSetPromise, GivenUp, NeverCancelled, callerVars,
                      JobStatus
  <2>5. CASE \/ WorkerSleep \/ WorkerExit \/ WorkerTake \/ WorkerCountSkip \/ WorkerLoad
             \/ WorkerCount
    BY <1>t, <2>5 DEF WorkerSleep, WorkerExit, WorkerTake, WorkerCountSkip, WorkerLoad,
                      WorkerCount, GivenUp, NeverCancelled, callerVars
  <2>6. QED
    BY <1>3, <2>1, <2>2, <2>3, <2>4, <2>5 DEF WorkerStep
<1>4. CASE ShutsDown
  <2>1. CASE StopBegin
    <3>1. \A t \in Tasks : InQueue(t) => job[t] = "queued"
      BY <1>t DEF InQueue, QueueInv, TypeOK
    <3>2. \A t \in Tasks : InQueue(t) => timedOut[t]
      BY <1>t, <1>4, <3>1 DEF ShutsDown, AtLeisure, CallerInv, GivenUp
    <3>3. QED
      BY <1>t, <2>1, <3>2 DEF StopBegin, GivenUp, NeverCancelled, callerVars, TypeOK
  <2>2. CASE StopIdle
    BY <1>t, <2>2 DEF StopIdle, GivenUp, NeverCancelled, callerVars
  <2>3. QED
    BY <1>4, <2>1, <2>2 DEF ShutsDown
<1>5. CASE Initializes \/ StopStep \/ SpuriousWake
  BY <1>t, <1>5 DEF Initializes, Start, StopStep, StopNotify, StopJoin, StopClose, StopEnd,
                    SpuriousWake, GivenUp, NeverCancelled, callerVars
<1>6. CASE UNCHANGED vars
  BY <1>t, <1>6 DEF GivenUp, NeverCancelled, vars, callerVars
<1>7. QED
  BY <1>1, <1>2, <1>3, <1>4, <1>5, <1>6 DEF HandlerNext

\* The invariant holds in every state that a single handler reaches.
LEMMA HandlerInvariant == HandlerSpec => []HInv
<1>1. HInv /\ [HandlerNext]_vars => HInv'
  BY InvStep, HandlerStep, AloneStep, GivenUpStep DEF HInv
<1>2. QED
  BY <1>1, HandlerInit, PTL DEF HandlerSpec

\* No request is answered with Cancelled, which submit() returns for a task that
\* stop() took out of the queue.
THEOREM HandlerNotCancelled == HandlerSpec => []NeverCancelled
<1>1. HInv => NeverCancelled
  BY DEF HInv
<1>2. QED
  BY <1>1, HandlerInvariant, PTL
-------------------------------------------------------------------------------
(* The refinement of JobLine.                                              *)

\* At leisure, every job left in the queue was given up.
LEMMA NoneBehind == HInv /\ AtLeisure => Behind = {} /\ Awaited = {}
  BY DEF HInv, IInv, CallerInv, GivenUp, AtLeisure, Behind, Awaited

\* The handler waits for one job at most, and for the one behind, if any.
LEMMA OneAwaited ==
  ASSUME HInv, NEW t \in Tasks, caller[t] \notin {"new", "returned"}
  PROVE  /\ Behind \subseteq {t}
         /\ caller[t] \in {"notify", "waiting", "expired"} => Awaited = {t}
         /\ caller[t] = "marked" => Awaited = {} /\ Behind = {}
<1>1. \A s \in Tasks : s # t => caller[s] \in {"new", "returned"}
  BY DEF HInv, Alone
<1>2. QED
  BY <1>1 DEF HInv, IInv, CallerInv, GivenUp, Behind, Awaited

\* What the worker is about to begin is the one job that was not given up.
LEMMA NextIsBehind ==
  ASSUME HInv, NEW t \in Behind
  PROVE  Behind = {t}
<1>1. t \in Tasks /\ caller[t] \notin {"new", "returned"}
  BY DEF Behind, HInv, IInv, CallerInv, GivenUp
<1>2. QED
  BY <1>1, OneAwaited

\* A submission, a job's beginning or end, an answer and a give-up are steps of the
\* line; every other step of the executor, StopBegin included, leaves it alone.
LEMMA LineStep == HInv /\ [HandlerNext]_vars => [JL!Next]_JL!vars
<1> SUFFICES ASSUME HInv, [HandlerNext]_vars PROVE [JL!Next]_JL!vars
  OBVIOUS
<1> DEFINE Seen == <<job, timedOut, caller>>
           Same == OnBus' = OnBus /\ Behind' = Behind /\ Awaited' = Awaited
<1>t. TypeOK /\ CallerInv /\ PromiseInv /\ WorkerInv /\ QueueInv
  BY DEF HInv, IInv
<1>s. Same => [JL!Next]_JL!vars
  BY DEF JL!vars
<1>u. UNCHANGED Seen => Same
  BY DEF OnBus, Behind, Awaited
<1> HIDE DEF Same
<1>1. ASSUME NEW t \in Tasks, Submits(t) PROVE [JL!Next]_JL!vars
  <2>1. CASE SubmitRefused(t)
    <3>1. Same
      BY <1>t, <2>1 DEF Same, SubmitRefused, OnBus, Behind, Awaited, TypeOK, CallerInv
    <3>2. QED
      BY <3>1, <1>s
  <2>2. CASE SubmitQueued(t)
    <3>1. Behind = {} /\ Awaited = {}
      BY <1>1, NoneBehind DEF Submits
    <3>2. job[t] = "new" /\ ~timedOut[t]
      BY <1>t, <2>2 DEF SubmitQueued, CallerInv
    <3>3. /\ \A s \in Tasks : /\ job'[s] = (IF s = t THEN "queued" ELSE job[s])
                              /\ caller'[s] = (IF s = t THEN "notify" ELSE caller[s])
          /\ timedOut' = timedOut
      BY <1>t, <2>2 DEF SubmitQueued, TypeOK
    <3>4. t \notin OnBus /\ OnBus' = OnBus
      BY <3>2, <3>3 DEF OnBus
    <3>5. Behind' = {t} /\ Awaited' = {t}
      BY <3>1, <3>2, <3>3 DEF Behind, Awaited
    <3>6. JL!Submit(t)
      BY <3>1, <3>4, <3>5 DEF JL!Submit
    <3>7. QED
      BY <3>6 DEF JL!Next
  <2>3. QED
    BY <1>1, <2>1, <2>2 DEF Submits
<1>2. ASSUME NEW t \in Tasks, CallerStep(t) PROVE [JL!Next]_JL!vars
  <2>1. CASE SubmitNotify(t) \/ WaitExpired(t) \/ RecordTimeout(t)
    <3>1. Same
      BY <1>t, <2>1 DEF Same, SubmitNotify, WaitExpired, RecordTimeout, OnBus, Behind, Awaited,
                        TypeOK
    <3>2. QED
      BY <3>1, <1>s
  <2>2. CASE WaitReady(t)
    <3>1. Awaited = {t}
      BY <2>2, OneAwaited DEF WaitReady
    <3>2. job[t] \notin {"queued", "running"}
      BY <1>t, <2>2 DEF WaitReady, PromiseInv, TypeOK, Status, JobStatus
    <3>3. Awaited \cap (OnBus \cup Behind) = {}
      BY <3>1, <3>2 DEF OnBus, Behind
    <3>4. OnBus' = OnBus /\ Behind' = Behind
      BY <2>2 DEF WaitReady, OnBus, Behind
    <3>5. Awaited' = {}
      <4>1. \A s \in Tasks : caller'[s] = (IF s = t THEN "returned" ELSE caller[s])
        BY <1>t, <2>2 DEF WaitReady, TypeOK
      <4>2. QED
        BY <3>1, <4>1 DEF Awaited
    <3>6. JL!Collect
      BY <3>1, <3>3, <3>4, <3>5 DEF JL!Collect
    <3>7. QED
      BY <3>6 DEF JL!Next
  <2>3. CASE MarkTimedOut(t)
    <3>1. Awaited = {t} /\ Behind \subseteq {t}
      BY <2>3, OneAwaited DEF MarkTimedOut
    <3>2. /\ \A s \in Tasks : /\ caller'[s] = (IF s = t THEN "marked" ELSE caller[s])
                              /\ timedOut'[s] = (IF s = t THEN TRUE ELSE timedOut[s])
          /\ job' = job
      BY <1>t, <2>3 DEF MarkTimedOut, TypeOK
    <3>3. Awaited' = {} /\ Behind' = {} /\ OnBus' = OnBus
      BY <3>1, <3>2 DEF Awaited, Behind, OnBus
    <3>4. JL!GiveUp
      BY <3>1, <3>3 DEF JL!GiveUp
    <3>5. QED
      BY <3>4 DEF JL!Next
  <2>4. QED
    BY <1>2, <2>1, <2>2, <2>3 DEF CallerStep
<1>3. CASE WorkerStep
  <2>1. CASE WorkerSkip
    <3>1. wtask \in Tasks /\ timedOut[wtask] /\ job[wtask] = "queued"
      BY <1>t, <2>1 DEF WorkerSkip, TypeOK, WorkerInv, Holding
    <3>2. Same
      BY <1>t, <2>1, <3>1 DEF Same, TypeOK, WorkerSkip, OnBus, Behind, Awaited, callerVars
    <3>3. QED
      BY <3>2, <1>s
  <2>2. CASE WorkerRun
    <3>1. wtask \in Tasks /\ job[wtask] = "queued" /\ ~timedOut[wtask]
      BY <1>t, <2>2 DEF WorkerRun, TypeOK, WorkerInv, Holding
    <3>2. OnBus = {}
      BY <1>t, <2>2 DEF WorkerRun, WorkerInv, OnBus
    <3>3. wtask \in Behind
      BY <3>1 DEF Behind
    <3>4. Behind = {wtask}
      BY <3>3, NextIsBehind
    <3>5. /\ \A s \in Tasks : job'[s] = (IF s = wtask THEN "running" ELSE job[s])
          /\ timedOut' = timedOut /\ caller' = caller
      BY <1>t, <2>2 DEF WorkerRun, TypeOK, callerVars
    <3>6. OnBus' = {wtask}
      BY <3>1, <3>2, <3>5 DEF OnBus
    <3>7. Behind' = {} /\ Awaited' = Awaited
      BY <3>4, <3>5 DEF Behind, Awaited
    <3>8. JL!Begin
      BY <3>2, <3>4, <3>6, <3>7 DEF JL!Begin
    <3>9. QED
      BY <3>8 DEF JL!Next
  <2>3. CASE WorkerFinish
    <3>1. wtask \in Tasks /\ wtask \in OnBus
      BY <1>t, <2>3 DEF WorkerFinish, TypeOK, WorkerInv, Holding, OnBus
    <3>2. /\ job'[wtask] \in JobStatus
          /\ \A s \in Tasks : s # wtask => job'[s] = job[s] /\ job[s] # "running"
          /\ timedOut' = timedOut /\ caller' = caller
      BY <1>t, <2>3, <3>1 DEF WorkerFinish, TypeOK, WorkerInv, callerVars
    <3>3. OnBus' = {}
      BY <3>2 DEF OnBus, JobStatus
    <3>4. Behind' = Behind /\ Awaited' = Awaited
      BY <3>1, <3>2 DEF Behind, Awaited, OnBus, JobStatus
    <3>5. JL!End
      BY <3>1, <3>3, <3>4 DEF JL!End
    <3>6. QED
      BY <3>5 DEF JL!Next
  <2>4. CASE \/ WorkerSleep \/ WorkerExit \/ WorkerTake \/ WorkerCountSkip \/ WorkerLoad
             \/ WorkerCount \/ WorkerResolve
    BY <2>4, <1>s, <1>u DEF WorkerSleep, WorkerExit, WorkerTake, WorkerCountSkip, WorkerLoad,
                            WorkerCount, WorkerResolve, callerVars
  <2>5. QED
    BY <1>3, <2>1, <2>2, <2>3, <2>4 DEF WorkerStep
<1>4. CASE ShutsDown
  <2>1. CASE StopBegin
    <3>1. Behind = {} /\ AtLeisure
      BY <1>4, NoneBehind DEF ShutsDown
    <3>2. /\ \A t \in Tasks : job'[t] = (IF InQueue(t) THEN "dropped" ELSE job[t])
          /\ timedOut' = timedOut /\ caller' = caller
      BY <2>1 DEF StopBegin, callerVars
    <3>3. \A t \in Tasks : InQueue(t) => job[t] = "queued"
      BY <1>t DEF InQueue, QueueInv, TypeOK
    <3>4. Same
      BY <3>1, <3>2, <3>3 DEF Same, OnBus, Behind, Awaited
    <3>5. QED
      BY <3>4, <1>s
  <2>2. CASE StopIdle
    BY <2>2, <1>s, <1>u DEF StopIdle, callerVars
  <2>3. QED
    BY <1>4, <2>1, <2>2 DEF ShutsDown
<1>5. CASE Initializes \/ StopStep \/ SpuriousWake
  BY <1>5, <1>s, <1>u DEF Initializes, Start, StopStep, StopNotify, StopJoin, StopClose, StopEnd,
                          SpuriousWake, callerVars
<1>6. CASE UNCHANGED vars
  BY <1>6, <1>s, <1>u DEF vars, callerVars
<1>7. QED
  BY <1>1, <1>2, <1>3, <1>4, <1>5, <1>6 DEF HandlerNext

\* What a single handler sees of the executor is a line of two: the job on the bus
\* and its own, whatever the queue still holds of jobs given up.
THEOREM LineRefinement == HandlerSpec => ImplementsJobLine
<1>1. Init => JL!Init
  BY DEF Init, JL!Init, OnBus, Behind, Awaited
<1>2. QED
  BY <1>1, LineStep, HandlerInvariant, PTL DEF HandlerSpec, ImplementsJobLine, JL!Spec
================================================================================
