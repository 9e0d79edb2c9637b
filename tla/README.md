# Verification of anolis-provider-ezo

TLA+ models of the provider for Atlas Scientific EZO probes on a shared I2C
bus, checked with TLC; every safety property that holds is also proved with TLAPS. Source
paths below are relative to the repository (`src/core/...`); `PROJECT.json`
maps every definition to the lines it models.

## The system

| Component | State | Operations | Interacts with | Hard part | Right when |
|---|---|---|---|---|---|
| Bus executor (`src/i2c/bus_executor.*`) | queue, task promises and `timed_out` flags, `running_`, `stopping_`, metrics | `start`, `stop`, `submit`, worker loop | everyone submits jobs; one worker runs them on the bus | threads, caller-side deadlines, lost wakeups, stop with work pending | jobs run one at a time in order, never late, and every caller gets the true answer |
| Control calls and compensation (`src/core/ezo_provider_runtime.cpp`, `src/core/runtime_state.cpp`, pH and DO adapters) | per device: `compensation_set`, `compensation_read`, `calibration_level`, the sample's slots, last call | `read`, `call`, `refresh_device_sample`, `refresh_calibration_level`, `check_compensation` | jobs on the executor; state on the probe that a power cut erases | jobs that outlive their deadline, multi-command jobs failing half way, power cuts | what is published is what the probe holds; a DO calibration happens at the defaults |
| Sample cache and health (same files) | `DeviceSampleCache` | refresh, reuse, quality, cadence warning | polled by the runtime | two clocks, one of which may be stepped; integer width | health and warning tell what really happened |
| Startup and shutdown (`src/core/main.cpp`, `src/core/runtime_state.cpp`) | `g_state`, `g_executor` | `main`, `initialize`, `shutdown`, `reset` | configuration, executor, host check, probes | a slow probe holds the bus for the next one; a check and a start judge the same file | every configured device is accounted for; startup ends; the checks foretell it |
| Reports (`readiness`, `device_health`, `provider_health`) | none | format a snapshot | SDK | – | – |
| Argument validation (`validate_call_args`) | none | accept or refuse a call | `call` | declared in one place, checked in another | accepts what the declared functions accept |
| Device adapters (`src/devices/`) | none | the commands of one family | EZO C driver | re-reads of a busy probe, decimals sent and read | an error is reported as one |
| Mock bus (`src/i2c/ezo_canned_bus.*`) | canned answers, compensation | answers commands | stands in for a probe | options that combine | behaves as a probe |
| Configuration (`src/config/`) | none | load, validate | `main` | 64-bit numbers narrowed to `int` | what was written is what runs; ids and addresses are unique |
| Logging, driver bridge | none | – | SDK run loop | – | – |

The SDK's run loop calls the runtime from a single thread, the *handler*. It
takes one request at a time, submits jobs to the executor and waits for each,
up to a deadline. The executor's *worker* thread runs the jobs. A deadline
stops the caller from waiting, never the job. So a job may change the probe
after its call has been reported as failed.

## Modules

### SerialBus and BusExecutor

`SerialBus` states what the class comment of `bus_executor.hpp` promises: one
job on the bus at a time, in order of admission, only on an open bus, none
begun after its caller gave up, and each caller told the truth. `BusExecutor`
is the code. A task is one call of `submit()` with its `Task` object. Each
critical section, atomic load or store, notification, wait and promise
operation is a step. The callers, the worker and the owner thread interleave
freely; the condition variable may wake spuriously; a job may end with any
status it can return.

| State | Code |
|---|---|
| `caller[t]`, `deadline[t]`, `result[t]` | the thread inside `submit()` |
| `timedOut[t]`, `promise[t]` | `Task::timed_out`, `Task::promise` |
| `queue`, `running`, `stopping`, `metrics` | the members of the same name |
| `wpc`, `wtask`, `wstatus` | `worker_loop()` and its locals |
| `owner` | the thread inside `stop()` |
| `job[t]` | history: what happened to the job itself |

A `start()` that fails to open the bus changes no modelled state, and one that
finds the worker running does nothing.

### JobLine and OneHandler

`OneHandler` is `BusExecutor` under the one thread of `main()` that uses it: a
call to the executor begins only when the one before it has returned, and
`shutdown()` runs after the loop (the comment on the hook in `main.cpp`). `JobLine` is
what that thread sees: at most one job has the bus, at most one stands behind
it, and giving up takes a job out of the line unless it has begun. `OneHandler`
implements it, and no call of the handler is ever answered with `Cancelled`;
both are proved rather than run. The queue itself may hold any number of tasks
given up.

### EzoProviderRuntime

One pH or DO probe under the handler and the worker. As `JobLine` says, the
bus holds at most two jobs of a single handler: one whose deadline passed while
it ran and, behind it, the one awaited; a job abandoned before it began is
skipped. `line` holds them. One device is enough, because devices share only
the bus and a foreign job is, for this device, a delay, and any wait may time
out here: `DeadlinePasses` needs nothing of the worker. With `LateIsFault` each
missed deadline uses up one of the run's faults, which keeps the safety run
finite enough; without it any number of them may pass, as in the liveness run.
The theorems hold for both.

A job is a record of what is left to do, advanced one command at a time
(`QueryField`, `SendField`, `Command`). The fields a pass has still to send or
to query are a set; the next is always the first of them in the order of
`Fields`. A command that reports an error may or
may not have been applied. `held` and `level` are the probe's own state;
`PowerCut` resets `held` between any two commands. `dev` is the `ActiveDevice`
record; `op` and `stage` are the handler's position in `read()` or `call()`.
`Init` is the moment the first reads of `initialize()` begin, with a probe that
holds anything, so it also covers a restart of the provider. `ghost` is history
for the properties and no guard reads it; a `Read` drops what it kept about the
last call.

Values are symbolic; tolerances and rounding are in `MockProvider`, durations in
`Deadlines`. The number of successful samples is kept modulo `CheckEvery`, which
the code uses in no other way. The `find` call stands for `find`, `set_led` and `sleep`,
which touch neither compensation nor level. Reading `outcome->reapplied` after
a timeout is unsynchronized in the code, so the model lets the read miss a
store already made.

### Deadlines

The same requests in milliseconds. A job is the number of commands left in its
current pass, with the wait of each command and up to four re-reads of 250 ms
of a busy one; a `submit()` waits for its deadline. Time passes while a command
waits for its answer (`Elapse`); the transfers, about a millisecond each, and
the scheduling of threads take no time. `running` and `queued` are the `line` of
EzoProviderRuntime. `request` is history.

### CallArgs, CannedBus and MockProvider

The provider on its mock device, with numbers in thousandths. `CallArgs` holds
the functions that `build_capabilities` declares and what `validate_call_args`
refuses of them. `CannedBus` is the `DeviceState` of the mock bus and its answer
to each command, with the options of a `mock://` query: canned status codes,
pending answers, values that revert after so many readings. Its delays are left
out.
`MockProvider` puts both under the handler. The mock neither waits nor fails in
transit, so a request is one step, in which a pass sends or asks one field after the
other and stops at the first that is refused. `unit` is the last digit with
which a probe reports a value, as fine as the mock prints or as coarse as the
comment on the tolerances says probes do (`LastDigits`). `ghost` is history: how often a
reading reset the values (`reverts`), how many passes of a call left some value
unsent (`cut`), and which fields a calibration found neither set nor read
(`unread`).

### SampleCache

The cached sample on two clocks: `Tick` moves both, `StepClock` only the system
clock. Reads go to the bus or reuse the cache by age; a refresh succeeds or
fails. A success stamps the sample. If it is the `CheckEvery`-th of a probe with
compensation, `read()` then waits for `check_compensation` (`stage` is "check"),
and time passes up to that job's deadline before `CheckReturns` answers with the
sample, whatever became of the check; any other success is answered at once. On a
healthy DO probe the three queries of a check take about 900 ms, three times the
reuse window, so one answer in 24 carries a sample that old with quality OK.
`ReplyYoung` says that it is the only such answer. `history` records every
refresh for the properties.

`stale_after_ms` is the code's formula with the width of `int` as a constant.
The schema caps `sample_interval_ms` at a day (`config_schema.cpp`, lines 49 to
51), of which the triple fits an `int`, and `ConfigAsWritten` of `startup` shows that
loading keeps the cap. The clamp in `stale_after_ms` is thus only the backstop, as
its comment says, for a value set in code; the run sets such a value.

### ProviderConfig and Startup

`ProviderConfig` is the schema, its validation and `load_config`, on a file
given as the mapping that YAML parses to. `Startup` is `main()`, one process
after another: the command line, the two check modes with their exit codes, and
serving. `initialize()` then goes device by device: host check, executor start,
identity probes, publication, first reads. A device answers as configured, as
another product, not at all, or correctly but possibly too late; on a mock bus
the answer is that of `CannedBus`. A probe that misses its deadline leaves its
job on the bus (`hung`). Between two processes the file, the host and the wiring
may change; `seen` is history of what processes made of one file and host.

### MC modules

The `MC` modules hold the values of constants that a cfg cannot write. Operators
marked "Seeded fault" are not part of any specification: each is a plausible
bug in the code, and the property it goes with fails when it takes the place of
the definition that follows it.

## Runs

| Run | Checks | Shows |
|---|---|---|
| `executor` | `TypeOK`, `NoOrphanedCaller`, `BooksBalance`, `ImplementsSerialBus`, `EveryCallReturns`, `StopReturns` | the executor keeps its promise in every interleaving, `stop()` abandons nobody, the metrics add up at rest, no wakeup is lost |
| `provider_safety` | `TypeOK`, `CompensationTrue`, `SetValuesHeld`, `CalibratesAtDefault`, `LevelTrue`, `CalibrationGivesBack`, `NoPhantomReapply` | what is published about a pH or DO probe is true and a calibration is safe |
| `provider_liveness` | `SetValuesReturn`, `EveryRequestEnds` | every request ends by its submits' own deadlines, also when the bus hangs for good; polling alone restores the values set, once jobs are done in time |
| `deadlines` | `TypeOK`, `LateHasCause`, `RequestBounded`, `QuietRequestInTime` | a job that has the bus is late only through re-reads that used up the headroom; a request ends within its deadlines, and on a quiet device within the runtime's 5 s |
| `mock_provider` | `TypeOK`, `ArgsAsDeclared`, `ResentOnlyWhenLost`, `SetMeansHeld`, `NoDrift` | a call is refused exactly when it breaks the declaration; rounding neither looks like a loss nor hides one; calibrations do not move the compensation |
| `sample_cache` | `TypeOK`, `HealthTrue`, `WarnedIffLagging`, `OnTimeIsOk`, `ReplyYoung` | health and warning agree with the history of refreshes; an OK answer is younger than a transaction, or a check held it up and it is younger than the check's deadline |
| `startup` | `TypeOK`, `InventoryComplete`, `OneDevicePerName`, `ExcludedForCause`, `ReadyMeansServed`, `ConfigAsWritten`, `ChecksForetell`, `StartupEnds` | every device is accounted for once, ids and addresses are unambiguous, numbers survive loading, the checks foretell the start, startup ends |

Five more runs show where the repository's words and its code differ.

| Run | The statement | What the code does |
|---|---|---|
| `provider_stale_level` | `runtime_state.hpp`: "a stale level is never reported after a calibration" | a calibration that took effect but was reported as failed returns before the level is read again |
| `provider_give_back` | `docs/device-contracts-v1.md`: sends back "those the probe held before" | a salinity held in ppt is unknown to the provider and stays at the default |
| `deadlines_headroom` | `ezo_provider_runtime.cpp`: "a command the device runs is not reported as timed out" | a call of several commands has one headroom of 1500 ms for all of them; two busy commands use it up while the job runs on |
| `sample_cache_clock` | `CHANGELOG.md`: `STATE_STALE` when the sample is older than its window | the age is taken on the system clock; a backward step hides it |
| `startup_open_fails` | `docs/architecture-and-bus-safety.md`: unreachable devices are excluded with diagnostics | if the bus does not open, devices are neither active nor excluded |

### Bounds

* Executor: two callers, so that one can run while the other is queued, gives up
  or is refused, and two starts, so that a second life of the executor meets the
  leftovers of the first. The proofs cover any number of both.
* Provider: a call to abandon and a call to disturb (`MaxCalls` is 2 for DO and
  3 for pH), two faults, so that a timeout can be followed by a failed check,
  and one power cut. DO levels are 0 and 1, pH levels 0
  to 2: points are only counted, so two are enough to take one for another. DO
  has two of its three fields: salinity, which may come in ppt, and temperature; pressure
  behaves as temperature. `CheckEvery` is 2 rather than 24, which makes the
  periodic check more frequent, never different. Liveness has one call, one failed
  command, one power cut and no bound on missed deadlines.
* Deadlines: no bound on requests; the waits are those of the EZO driver and the
  default configuration. Requests are multiples of 50 ms apart, which divides
  every wait.
* Mock provider: devices of pH, DO and EC and one whose address belongs to
  another family; three calls; argument values on both sides of each declared
  bound, next to the defaults, and half way between two printed digits. Queries
  refuse or hold up a command in the middle of a pass, a calibration, and a
  read-back, so that passes are cut short and fields stay unknown.
* Sample cache: a streak of 2, five refreshes, and ticks coarse enough that
  ages fall on both sides of the reuse window and of the freshness bound.
  `IntMax` is 7, so that three times the cadence of 3 does not fit and the clamp
  is at work. Every second success is checked, and the check's deadline of 8 is
  longer than the reuse window (2) and the freshness bound (7), so that answers it
  held up come out both OK and stale. `sample_cache_clock` is a probe without
  compensation.
* Startup: three devices, so that a healthy one can stand before, between and
  behind bad ones; a file for each rule of the schema that it breaks. Processes
  are not bounded. `LargestInt` stands for 2147483647, which TLC's own integers
  cannot exceed.

The sample cache's runs do not check for deadlock: bounded time ends their
behaviours.

### Fairness

* Worker of the executor: a job ends. The commands of a job are finite and the
  driver's transactions return; the thread is never blocked by another lock
  holder.
* Handler of EzoProviderRuntime: each `submit()` returns, because all of them have a
  deadline. `EveryRequestEnds` rests on this alone and assumes nothing of the
  worker, which may stop in the middle of any job.
* `SetValuesReturn` carries its two further assumptions in its statement: the
  worker keeps running jobs, and from some time on no deadline is missed. No
  value can return to a probe that the bus does not reach. `LateHasCause` is the
  reason to expect the second: a job is late only behind another one or through
  re-reads that use up its headroom.
* Callers and the owner inside `stop()` keep running; nobody is obliged to make
  a call.
* The runtime keeps polling (`Read`), as `SetValuesReturn` needs: the provider
  has no thread of its own and samples on demand.
* `initialize()` runs on: each of its waits has a deadline.

Faults, power cuts, calls and clock steps are never obliged to happen or to
stop, other than by their bounds.

## Proofs

`BusExecutorProofs` proves, for any set of tasks and any number of restarts
(assuming only that `NoTask` is not a task and the bound on starts is a natural
number):

* `TypeCorrect`: `Spec => []TypeOK`;
* `NoCallerOrphaned`: `Spec => []NoOrphanedCaller`;
* `Refinement`: `Spec => ImplementsSerialBus`;
* `BooksAreBalanced`: `Spec => []BooksBalance`, if the set of tasks is finite,
  which a process's calls are.

The first three rest on one inductive invariant, `IInv`. `NoOrphanedCaller` is not
inductive as it stands: that `stop()` leaves no one behind depends on where
each admitted task is. `IInv` therefore says where the worker may be for each
value of `running`, `stopping` and `owner`; that the queue holds each admitted
task once; that an admitted task without an answer is in the queue or in the
worker's hands; and how a task's promise and result follow from what happened
to its job. `InvStep` shows it preserved action by action. The refinement maps
each step of the code to a step of `SerialBus` or to a stutter. The counters need
two more invariants. `CountInv` says of which set of calls each counter is the
number, or between which two it lies: a job that ends while its caller gives up
may or may not be counted. `ToldInv` ties what a caller was told to the mark
on its task. TLC checked both before they were proved.

`OneHandlerProofs` proves, for any number of calls and restarts,
`LineRefinement` (`HandlerSpec => ImplementsJobLine`) and `HandlerNotCancelled`
(`HandlerSpec => []NeverCancelled`). A step of the handler is a step of the
executor, so `IInv` above holds; `HInv` adds `Alone`, one call at a time and none
during `stop()`, and `GivenUp`, a job that has not ended when its call returns
belongs to a caller that gave up. Without the latter the tasks left in the queue
could not be told from the one awaited.

`SampleCacheProofs` proves, for every cadence, latency, streak, tick and set of
clock steps that `CacheAssumption` allows:

* `BoundCovers`: the freshness bound cannot wrap and covers every cadence, and
  `OnTimeStaysOk`: `Spec => []OnTimeIsOk`, what that means for a device;
* `TypeCorrect`: `Spec => []TypeOK`, including that the streak stops at the
  warning;
* `HealthIsTrue`: `Spec => []HealthTrue`;
* `WarnedWhenLagging`: `Spec => []WarnedIffLagging`;
* `RepliesAreYoung`: `Spec => ReplyYoung`, also for every deadline of the check and
  every number of samples between two checks.

Their invariant `IInv` ties the cache to the history of refreshes: there is a
sample when some refresh succeeded, its steady stamp is that of the last
success, `last_read_ok` is the outcome of the last refresh, and without a clock
step both clocks give the sample the same age. Without the last part nothing
would relate the age that the code measures to the time that has passed. Its
part `Checking` says of a check under way that it is due and has not passed its
deadline, which bounds the age of the answer that waits for it. For the warning, `StreakInv` adds that until it is given the counter is the length
of the streak of late samples that the history ends with.

`EzoProviderRuntimeProofs` proves every safety property of `provider_safety`,
for any values, fields, levels, period of the check and number of calls, faults
and power cuts: `TypeCorrect`, `CompensationIsTrue`, `SetValuesAreHeld`,
`CalibrationAtDefault`, `LevelIsTrue`, `CalibrationRestores` and
`ReappliesHappened`. None of the properties is inductive: each speaks of the
moment between two requests, and what is true then depends on the jobs that an
earlier request left on the bus. `IInv` says

* `Shape`, `JobsOk`, `Awaits`: how many jobs there are, which steps and fields
  each can be at, and that the last is the one the handler waits for;
* `Running`: what the job on the bus knows. A check that has run under power
  has seen what the probe holds in the fields it is done with; a calibration
  has put the fields it is done with to the default;
* `Published`: what was read is what the probe holds, and no job that sends
  compensation is left. This is the heart of it: a job that was given up on is
  still on the bus, but the check that follows every such request runs behind
  it;
* `LevelKept`: the same of the level and of jobs that calibrate;
* `GivesBack`, `Counted`, `Shows`: what a calibration restores, that re-sends
  counted took place, and that the signals show what was read.

`DeadlinesProofs` proves, for every wait, timeout and gap between requests:

* `TypeCorrect`: `Spec => []TypeOK`;
* `RequestIsBounded`: `Spec => []RequestBounded`;
* `LateForCause`: `Spec => []LateHasCause`, if `WaitsFit`: the latency of the
  configuration is at least the wait of a query, and a reading takes less than
  its headroom;
* `QuietInTime`: `Spec => []QuietRequestInTime`, if also `QuietWaitsFit`: the
  waits of each request add up to no more than the call timeout.

`MCDeadlines` assumes `WaitsFit` and `QuietWaitsFit`, so TLC evaluates both on
the waits of the EZO driver; the longest request, a DO calibration, has 4600 ms
of waits at most. The invariant: `Within`, elapsed time plus the deadline being
waited for is within the deadlines so far; `Slack`, a job with the bus to itself
has, with the time its re-reads took, patience for the commands to come and the
headroom; `Quick`, a request that nothing slowed down has at most the waits that
the rest of its commands leave it.

`StartupProofs` proves every safety property of `startup`, for any files, number
of devices, command lines, answers and width of `int` that holds a day in
milliseconds: `TypeCorrect`, `LoadedAsWritten`, `NamesMeanOne`,
`InventoryIsComplete`, `ExclusionsHaveCause`, `ReadyIsServed` and
`ChecksTellTrue`. Of a file it assumes only that its `devices` are a sequence.
The invariant: `Loaded`, a running process has the configuration of the file;
`Inventory`, the devices probed so far are dealt out to the active and the
excluded ones, in order (`Dealt`, with its lemmas on appending a device);
`Causes`, a hung job belongs to a device already probed whose answer is late;
`Progress`, how far the first reads are; `Foretold`, what the exit of each
check says of the file and the host.

`MockProviderProofs` proves `RefusedAsDeclared`, that `validate_call_args` refuses
a call exactly when it breaks the declaration of `build_capabilities`, for
every family, function, set of arguments and value, and from it
`ArgumentsAsDeclared`: `Spec => []ArgsAsDeclared`.

`MockValuesProofs` proves the rest of `mock_provider`, for any calls, argument
values, devices and queries: `TypeCorrect`, `ResentForLoss`
(`Spec => []ResentOnlyWhenLost`), `SetValuesInForce` (`Spec => []SetMeansHeld`) and
`ValuesDoNotDrift` (`Spec => []NoDrift`). `MockAssumption` asks that a probe report
T and P to at least one decimal and S to at least a whole number, as the comment
on the tolerances says, and that a query parse to usable options; TLC evaluates
it on the run's queries. The arithmetic is in two lemmas: `FixedMultiples`, printing is to
the nearest multiple and idempotent, and `TwoRoundings`, a value sent and read
back is within `Rounding` of itself and is printed again as it was read. Above
them stand one lemma per command, pass, check and request. None of the
properties is inductive; `IInv` adds

* `Books`: each value set is on the probe as it was sent, or there is one more
  loss than there are re-sends. The number of re-sends alone says nothing about
  whether the next one is due;
* `Anchored`: what the probe holds and what was last read come from the first
  value or the default by the same one rounding, so that the next give-back
  does not add another;
* `Steady`: after a check, what was read is near both what was set and what
  the probe holds.

Proving these showed that two properties had been stated too strongly, in ways
the former queries of the run did not reach. A DO calibration does not give back
a field that no check could read, so that field stays at the default without
any reset: hence `unread` in `NoDrift`. And a give-back that stops at a refused
command loses a value that is then rightly sent again: hence `cut` in
`ResentOnlyWhenLost`. The run now has queries that do both.

Only model-checked: liveness (`EveryCallReturns`, `StopReturns`,
`SetValuesReturn`, `EveryRequestEnds`, `StartupEnds`), which is beyond the prover.
Two operators are folds, of which nothing can be proved without induction over
data: what the command line asks for (`Scan`), where the theorems on `Startup`
hold whatever it yields, and the options of a query (`Parse`), of which the
theorems on `MockProvider` use only that they are usable.

## What the deadlines mean in practice

`LateHasCause` assumes that `query_delay_us` is at least the 300 ms of a generic
command. With a shorter one (`config/conformance.yaml` has 100 ms) the check of
a DO probe that re-sends takes 2700 ms of waits and has 2400 ms, so it is late
on a healthy device. A DO calibration may wait up to 4.6 s for the calibration,
4.2 s for the check and 1.8 s for the level, 10.6 s in all, against the
runtime's 5 s for a call; on a quiet device it takes 4.3 s.

## Not modelled

* The driver bridge: it has no state; its one effect, that every transport error
  becomes one error, is the command that reports an error.
* The logger, and the messages, metrics and timestamps of the reports: they
  format state that other components change.
* The no-op bus of platforms without I2C, which has no state, and the SDK's
  fault injection on the mock bus.
* The Linux bus, the EZO driver, the SDK: outside the repository. They appear
  as the outcomes a command or `open()` may have, as the single handler thread,
  and as `Quality`.
* Names, descriptors, and the values of readings, for which the provider has no
  rule of its own: they are parsed by the driver and passed on.
* Durations outside `Deadlines`: there a wait may time out at any moment, which
  covers every choice of deadlines.
* The composition of EzoProviderRuntime with BusExecutor in one specification:
  `OneHandler` shows that the executor gives a handler the line that
  EzoProviderRuntime and Deadlines start from, but their `line`, `running` and
  `queued` are not themselves mapped to `JobLine`. A step there often collects
  one job and submits the next, which are two steps of `JobLine`.
