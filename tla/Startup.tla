-------------------------------- MODULE Startup --------------------------------
(***************************************************************************)
(* main() of src/src/core/main.cpp and initialize() and shutdown() of      *)
(* src/src/core/runtime_state.cpp: the command line, the configuration,    *)
(* the host check, the start of the executor, the identity probe of each   *)
(* configured device in turn, the publication of the active and excluded   *)
(* devices and the first reads.  One process runs after the other; between *)
(* two of them the file, the host and the wiring may change.               *)
(*                                                                         *)
(* A probe has a deadline and its job cannot be interrupted: a probe that  *)
(* times out leaves its job on the bus, and the next one waits behind it.  *)
(***************************************************************************)
EXTENDS ProviderConfig, SequencesExt

CONSTANTS CommandLines,  \* sequences of arguments
          Path,          \* the path of the configuration file
          Files,         \* what the file may hold
          MockPaths,     \* bus paths that begin with mock://
          Addresses,     \* addresses at which something may answer
          Answers        \* what may answer: [product, late]

ASSUME StartupAssumption ==
  /\ MockPaths \subseteq Texts
  /\ \A a \in Answers : a.late \in BOOLEAN
  /\ \A f \in Files : DevicesOf(f) \in Seq(Range(DevicesOf(f)))    \* a YAML sequence

Canned == INSTANCE CannedBus

VARIABLES
  phase,     \* "down", or in initialize(): "starting", "probing", "reading"; "up"
  file,      \* what the configuration file holds
  host,      \* the host meets the requirements of an I2C bus
  world,     \* world[a]: what answers at address a
  config,    \* the configuration loaded
  todo,      \* devices not probed yet, or not read for the first time yet
  state,     \* g_state, or the RuntimeState being built
  executor,  \* "none", "local" to initialize(), or "global": g_executor
  hung,      \* the job of a probe or read that timed out still has the bus
  late,      \* devices whose probe was given up on
  seen       \* what processes made of this file and host: exit of a check, or
             \* how far initialize() came

environment == <<file, host, world>>
process == <<config, todo, state, executor, hung, late>>
vars == <<phase, environment, process, seen>>

Blank == [active |-> <<>>, excluded |-> <<>>, ready |-> FALSE,
          executor_running |-> FALSE, tried |-> {}]

Unseen == [check_config |-> -1, check_host |-> -1, serve |-> "none"]

NoConfig == [bus_path |-> EmptyText, devices |-> <<>>]

Init == /\ phase = "down"
        /\ file \in Files /\ host \in BOOLEAN /\ world \in [Addresses -> Answers]
        /\ config = NoConfig /\ todo = <<>> /\ state = Blank
        /\ executor = "none" /\ hung = FALSE /\ late = {} /\ seen = Unseen
-------------------------------------------------------------------------------
(* main.                                                                   *)

\* The loop over the arguments: an option takes the next argument as its path,
\* whatever that is; the last path wins.
Scan(argv) ==
  FoldLeft(LAMBDA m, arg :
             IF m.exit # -1 THEN m
             ELSE IF m.option # "" THEN [m EXCEPT !.option = "", !.path = arg,
                                                  !.given = @ \cup {m.option}]
             ELSE IF arg \in {"--version", "--config-schema"} THEN [m EXCEPT !.exit = 0]
             ELSE IF arg \in {"--check-config", "--check-host", "--config"}
               THEN [m EXCEPT !.option = arg]
             ELSE [m EXCEPT !.exit = 1],
           [exit |-> -1, option |-> "", path |-> "", given |-> {}], argv)

\* What the command line asks for; an option without a path, or no option, gets
\* the usage.  --check-host wins over --check-config.
Request(argv) ==
  LET m == Scan(argv)
  IN CASE m.exit # -1                         -> "exit"
       [] m.option # "" \/ m.path = ""        -> "usage"
       [] "--check-host" \in m.given          -> "check_host"
       [] "--check-config" \in m.given        -> "check_config"
       [] OTHER                               -> "serve"

FileAt(path) == IF path = Path THEN file ELSE Unreadable

Mock(path) == path \in MockPaths

\* check_host: a mock bus needs nothing of the host.
HostMet(path) == Mock(path) \/ host

\* reset() at the start of main.
Fresh == config' = NoConfig /\ todo' = <<>> /\ state' = Blank /\ late' = {}
         /\ UNCHANGED <<executor, hung>>

\* --version, --config-schema or a command line it does not understand.
Informs(argv) ==
  /\ phase = "down" /\ Request(argv) \in {"exit", "usage"}
  /\ Fresh /\ UNCHANGED <<phase, environment, seen>>

\* Exit 2 if the host could not be checked, 1 if something is unmet.
CheckHost(argv) ==
  /\ phase = "down" /\ Request(argv) = "check_host"
  /\ LET root == FileAt(Scan(argv).path)
         exit == IF ~Valid(root) THEN 2
                 ELSE IF HostMet(load_config(root).bus_path) THEN 0 ELSE 1
     IN seen' = IF Scan(argv).path = Path THEN [seen EXCEPT !.check_host = exit] ELSE seen
  /\ Fresh /\ UNCHANGED <<phase, environment>>

\* Seeded fault: a file that parses is called valid.
CheckConfigParses(argv) ==
  /\ phase = "down" /\ Request(argv) = "check_config"
  /\ LET exit == IF FileAt(Scan(argv).path) # Unreadable THEN 0 ELSE 1
     IN seen' = IF Scan(argv).path = Path THEN [seen EXCEPT !.check_config = exit] ELSE seen
  /\ Fresh /\ UNCHANGED <<phase, environment>>

CheckConfig(argv) ==
  /\ phase = "down" /\ Request(argv) = "check_config"
  /\ LET exit == IF Valid(FileAt(Scan(argv).path)) THEN 0 ELSE 1
     IN seen' = IF Scan(argv).path = Path THEN [seen EXCEPT !.check_config = exit] ELSE seen
  /\ Fresh /\ UNCHANGED <<phase, environment>>

ServeRefused(argv) ==
  /\ phase = "down" /\ Request(argv) = "serve" /\ ~Valid(FileAt(Scan(argv).path))
  /\ seen' = IF Scan(argv).path = Path THEN [seen EXCEPT !.serve = "refused"] ELSE seen
  /\ Fresh /\ UNCHANGED <<phase, environment>>

Serve(argv) ==
  /\ phase = "down" /\ Request(argv) = "serve" /\ Valid(FileAt(Scan(argv).path))
  /\ phase' = "starting"
  /\ config' = load_config(FileAt(Scan(argv).path))
  /\ todo' = <<>> /\ state' = Blank /\ late' = {}
  /\ UNCHANGED <<executor, hung, environment, seen>>
-------------------------------------------------------------------------------
(* initialize.                                                             *)

Came(stage) == seen' = [seen EXCEPT !.serve = stage]

\* An unmet host requirement excludes every device; the bus is not touched.
HostUnmet ==
  /\ phase = "starting" /\ ~HostMet(config.bus_path)
  /\ phase' = "up"
  /\ state' = [state EXCEPT !.excluded = config.devices]
  /\ Came("unmet")
  /\ UNCHANGED <<environment, config, todo, executor, hung, late>>

\* The bus does not open, which a mock bus never does: the state is published
\* without any device.
ExecutorFails ==
  /\ phase = "starting" /\ HostMet(config.bus_path) /\ ~Mock(config.bus_path)
  /\ phase' = "up"
  /\ Came("started")
  /\ UNCHANGED <<environment, config, todo, state, executor, hung, late>>

ExecutorStarts ==
  /\ phase = "starting" /\ HostMet(config.bus_path)
  /\ phase' = "probing" /\ todo' = config.devices
  /\ state' = [state EXCEPT !.executor_running = TRUE]
  /\ executor' = "local"
  /\ Came("started")
  /\ UNCHANGED <<environment, config, hung, late>>

\* What answers at the address of a device, on the configured bus.
AnswerOf(d) == IF Mock(config.bus_path)
                 THEN [product |-> Canned!family_for_address(d.address), late |-> FALSE]
                 ELSE world[d.address]

Matches(d) == AnswerOf(d).product = d.type

\* Seeded fault: the reason is recorded without its device.
ExcludeUnnamed(d) == state' = [state EXCEPT !.excluded = Append(@, NoConfig)]

Exclude(d) == state' = [state EXCEPT !.excluded = Append(@, d)]

\* Seeded fault: the product is not compared with the configured one.
ProbeAnsweredUnchecked ==
  /\ phase = "probing" /\ todo # <<>> /\ ~hung
  /\ LET d == Head(todo)
     IN IF AnswerOf(d).product # "none"
          THEN state' = [state EXCEPT !.active = Append(@, d)]
          ELSE Exclude(d)
  /\ todo' = Tail(todo)
  /\ UNCHANGED <<phase, environment, config, executor, hung, late, seen>>

\* Seeded fault: one device that does not match condemns the ones behind it.
ProbeAnsweredTogether ==
  /\ phase = "probing" /\ todo # <<>> /\ ~hung
  /\ IF Matches(Head(todo)) /\ state.excluded = <<>>
       THEN state' = [state EXCEPT !.active = Append(@, Head(todo))]
       ELSE Exclude(Head(todo))
  /\ todo' = Tail(todo)
  /\ UNCHANGED <<phase, environment, config, executor, hung, late, seen>>

\* The probe's job ran and its answer came in time.
ProbeAnswered ==
  /\ phase = "probing" /\ todo # <<>> /\ ~hung
  /\ LET d == Head(todo)
     IN IF Matches(d)
          THEN state' = [state EXCEPT !.active = Append(@, d)]
          ELSE Exclude(d)
  /\ todo' = Tail(todo)
  /\ UNCHANGED <<phase, environment, config, executor, hung, late, seen>>

\* Seeded fault: a timed-out probe ends the loop, as if the bus were lost.
ProbeTimedOutAborts ==
  /\ phase = "probing" /\ todo # <<>>
  /\ hung \/ AnswerOf(Head(todo)).late
  /\ Exclude(Head(todo))
  /\ todo' = <<>>
  /\ hung' = TRUE
  /\ late' = late \cup {Head(todo).id}
  /\ UNCHANGED <<phase, environment, config, executor, seen>>

\* Seeded fault: the probe is tried again for as long as it times out.
ProbeTimedOutRetries ==
  /\ phase = "probing" /\ todo # <<>>
  /\ hung \/ AnswerOf(Head(todo)).late
  /\ hung' = TRUE
  /\ late' = late \cup {Head(todo).id}
  /\ UNCHANGED <<phase, environment, config, todo, state, executor, seen>>

\* The deadline passed: while the job ran on, or behind an earlier one, in
\* which case the worker will skip it.
ProbeTimedOut ==
  /\ phase = "probing" /\ todo # <<>>
  /\ hung \/ AnswerOf(Head(todo)).late
  /\ Exclude(Head(todo))
  /\ todo' = Tail(todo)
  /\ hung' = TRUE
  /\ late' = late \cup {Head(todo).id}
  /\ UNCHANGED <<phase, environment, config, executor, seen>>

\* The job that outlived its deadline ends.
JobEnds == /\ hung /\ hung' = FALSE
           /\ UNCHANGED <<phase, environment, config, todo, state, executor, late, seen>>

\* The state and the executor become visible to the handlers.
Publish ==
  /\ phase = "probing" /\ todo = <<>>
  /\ phase' = "reading"
  /\ todo' = state.active
  /\ state' = [state EXCEPT !.ready = (state.active # <<>>)]
  /\ executor' = "global"
  /\ UNCHANGED <<environment, config, hung, late, seen>>

\* The first sample, level and compensation of an active device.  A failure is
\* logged and does not take the device back; a job may outlive its deadline.
FirstReads ==
  /\ phase = "reading" /\ todo # <<>>
  /\ todo' = Tail(todo)
  /\ state' = [state EXCEPT !.tried = @ \cup {Head(todo).id}]
  /\ hung' \in {hung, hung \/ AnswerOf(Head(todo)).late}
  /\ UNCHANGED <<phase, environment, config, executor, late, seen>>

Initialized ==
  /\ phase = "reading" /\ todo = <<>>
  /\ phase' = "up"
  /\ UNCHANGED <<environment, process, seen>>

\* shutdown(): the executor is taken out of reach, then stop() joins its
\* worker, which first ends the job it runs.
Shutdown ==
  /\ phase = "up" /\ ~hung
  /\ phase' = "down"
  /\ executor' = "none"
  /\ state' = [state EXCEPT !.executor_running = FALSE]
  /\ UNCHANGED <<environment, config, todo, hung, late, seen>>
-------------------------------------------------------------------------------
\* Between two processes a device is plugged in, removed, replaced or hangs, the
\* file is edited, or the host is repaired or breaks.
Rewire == /\ phase = "down"
          /\ \E a \in Addresses, answer \in Answers : world' = [world EXCEPT ![a] = answer]
          /\ UNCHANGED <<phase, file, host, process, seen>>

EditOrRepair == /\ phase = "down"
                /\ \/ file' \in Files /\ UNCHANGED host
                   \/ host' \in BOOLEAN /\ UNCHANGED file
                /\ seen' = Unseen
                /\ UNCHANGED <<phase, world, process>>

Main == \E argv \in CommandLines :
          Informs(argv) \/ CheckHost(argv) \/ CheckConfig(argv) \/ ServeRefused(argv) \/ Serve(argv)

Initialize == HostUnmet \/ ExecutorFails \/ ExecutorStarts \/ ProbeAnswered \/ ProbeTimedOut
              \/ Publish \/ FirstReads \/ Initialized

Next == Main \/ Initialize \/ JobEnds \/ Shutdown \/ Rewire \/ EditOrRepair

Spec == Init /\ [][Next]_vars

(* initialize() runs on once it was called: each probe and read returns,   *)
(* at the latest at its deadline.                                          *)
FairSpec == Spec /\ WF_vars(Initialize)
-------------------------------------------------------------------------------
(* What the handlers report once main() serves.                            *)

Ids(devices) == {devices[i].id : i \in DOMAIN devices}

list_device_ids == [i \in DOMAIN state.active |-> state.active[i].id]

readiness == [ready |-> state.ready, configured |-> Len(config.devices),
              successful |-> Ids(state.active), failed |-> Ids(state.excluded)]

provider_health == IF state.executor_running THEN "OK" ELSE "DEGRADED"
-------------------------------------------------------------------------------
DeviceSpecs == [id : Identifiers, address : 8..119, label : Texts,
                type : {"Ph", "Orp", "Ec", "Do", "Rtd", "Hum"}]

TypeOK ==
  /\ phase \in {"down", "starting", "probing", "reading", "up"}
  /\ file \in Files /\ host \in BOOLEAN /\ world \in [Addresses -> Answers]
  /\ config.bus_path \in Texts /\ config.devices \in Seq(DeviceSpecs)
  /\ todo \in Seq(DeviceSpecs)
  /\ state \in [active : Seq(DeviceSpecs), excluded : Seq(DeviceSpecs), ready : BOOLEAN,
                executor_running : BOOLEAN, tried : SUBSET Identifiers]
  /\ executor \in {"none", "local", "global"}
  /\ hung \in BOOLEAN /\ late \subseteq Identifiers
  /\ seen \in [check_config : {-1, 0, 1}, check_host : {-1, 0, 1, 2},
               serve : {"none", "refused", "unmet", "started"}]

Serving == phase = "up"

\* s is made of configured devices, each at most once, in their order.
Keeps(s) ==
  /\ Range(s) \subseteq Range(config.devices)
  /\ \A i, j \in DOMAIN s : \A p, q \in DOMAIN config.devices :
       i < j /\ s[i] = config.devices[p] /\ s[j] = config.devices[q] => p < q

\* While the executor runs, the published inventory accounts for every device
\* of the configuration exactly once, as active or as excluded, each list in
\* the order of the configuration.
InventoryComplete ==
  phase \in {"reading", "up"} /\ executor = "global" =>
    /\ readiness.successful \cup readiness.failed = Ids(config.devices)
    /\ readiness.successful \cap readiness.failed = {}
    /\ Keeps(state.active) /\ Keeps(state.excluded)

\* An id or an address means one device: no two devices of the inventory share
\* either, so a handler that looks one up by its id, and a job that talks to an
\* address, has the right one.
OneDevicePerName ==
  LET all == state.active \o state.excluded
  IN \A i, j \in DOMAIN all : all[i].id = all[j].id \/ all[i].address = all[j].address => i = j

\* One bad device hides a healthy one only by holding the bus: a device that
\* answers as configured is excluded only behind one whose probe timed out.
ExcludedForCause ==
  executor = "global" =>
    LET devices == config.devices
    IN \A i \in DOMAIN devices :
         Matches(devices[i]) /\ ~AnswerOf(devices[i]).late /\ devices[i].id \in readiness.failed =>
           \E j \in 1..(i - 1) : devices[j].id \in late /\ AnswerOf(devices[j]).late

\* A provider that says it is ready has something to serve and the executor to
\* serve it: every active device has answered as configured and has been read
\* once before the first request.
ReadyMeansServed ==
  Serving =>
    /\ readiness.ready <=> list_device_ids # <<>>
    /\ readiness.ready => provider_health = "OK" /\ executor = "global"
    /\ \A i \in DOMAIN state.active : Matches(state.active[i])
    /\ state.tried = readiness.successful

\* The numbers of the file survive the narrowing to int, and each device of the
\* file is there.
ConfigAsWritten ==
  phase = "starting" =>
    /\ \A k \in DOMAIN file["hardware"] : config[k] = file["hardware"][k]
    /\ Len(config.devices) = Len(DevicesOf(file))

\* The checks tell what serving does: for the same file and host, a file that
\* --check-config accepts is served and one that it refuses is not, and
\* --check-host says whether initialize() will find the host wanting.
ChecksForetell ==
  seen.serve # "none" =>
    /\ seen.check_config # -1 => (seen.check_config = 0 <=> seen.serve # "refused")
    /\ seen.check_host # -1 =>
         seen.check_host = CASE seen.serve = "started" -> 0
                             [] seen.serve = "unmet"   -> 1
                             [] seen.serve = "refused" -> 2

\* Once called, initialize() ends, even if a job on the bus never does.
StartupEnds == phase = "starting" ~> phase = "up"

\* docs/architecture-and-bus-safety.md: "type mismatch or unreachable devices
\* are excluded with diagnostics".
EveryDeviceAccounted ==
  Serving => readiness.successful \cup readiness.failed = Ids(config.devices)
================================================================================
