------------------------------ MODULE SampleCache ------------------------------
(***************************************************************************)
(* The cached sample of one device: when read() goes to the bus, what      *)
(* quality and health it reports, and when refresh_device_sample() warns   *)
(* that the declared cadence is wrong (src/src/core/runtime_state.cpp and  *)
(* ezo_provider_runtime.cpp).                                              *)
(*                                                                         *)
(* There are two clocks.  The sample is stamped on both; its age is        *)
(* measured on the system clock, which may be stepped, and the gap between *)
(* two samples on the steady one.                                          *)
(*                                                                         *)
(* Every CheckEvery-th sample of a probe with compensation is followed by  *)
(* a compensation check on the bus, after the sample is stamped and before *)
(* read() answers.                                                         *)
(***************************************************************************)
EXTENDS Integers, Sequences

CONSTANTS QueryDelay,      \* hardware.query_delay_us / 1000
          SampleInterval,  \* hardware.sample_interval_ms
          MinLatency,      \* kMinQueryLatencyMs
          MinInterval,     \* kMinSampleIntervalMs
          MinStaleAfter,   \* kMinStaleAfterMs
          IntMax,          \* the largest int
          LagStreak,       \* kCadenceLagStreak
          Compensated,     \* the adapter has compensation commands: pH and DO
          CheckEvery,      \* kCompensationCheckEvery
          CheckDeadline,   \* the submit deadline of check_compensation's job
          TickSize,        \* the time between two looks at the clocks
          MaxTime,         \* bound on the steady clock
          MaxReads,        \* bound on refreshes
          Steps            \* sizes of the steps the system clock may take

ASSUME CacheAssumption ==
  /\ IntMax \in Nat /\ MinStaleAfter \in 1..IntMax
  /\ MinLatency \in 1..IntMax /\ MinInterval \in 1..IntMax
  /\ QueryDelay \in Int /\ QueryDelay <= IntMax
  /\ SampleInterval \in Int /\ SampleInterval <= IntMax
  /\ LagStreak \in Nat \ {0} /\ TickSize \in Nat \ {0} /\ MaxTime \in Nat /\ MaxReads \in Nat
  /\ Compensated \in BOOLEAN /\ CheckEvery \in Nat \ {0} /\ CheckDeadline \in Nat
  /\ Steps \subseteq Int

AtLeast(a, b) == IF a >= b THEN a ELSE b

query_latency_ms == AtLeast(QueryDelay, MinLatency)

sample_interval_ms(interval) == AtLeast(interval, MinInterval)

\* int32 arithmetic: the value n wraps into IntMin..IntMax.
Wrap(n) == ((n + IntMax + 1) % (2 * (IntMax + 1))) - (IntMax + 1)

\* Seeded fault: the product is taken at int width, as before ezo#114.
stale_after_ms_narrow(interval) ==
  AtLeast(Wrap(3 * sample_interval_ms(interval)), MinStaleAfter)

\* Three refresh intervals, at 64 bits, clamped to an int.
stale_after_ms(interval) ==
  LET bound == AtLeast(3 * sample_interval_ms(interval), MinStaleAfter)
  IN  IF bound <= IntMax THEN bound ELSE IntMax

StaleAfter == stale_after_ms(SampleInterval)

VARIABLES
  wall,     \* system_clock
  steady,   \* steady_clock
  cache,    \* DeviceSampleCache, but for its success_count
  successes,\* success_count
  stage,    \* "idle", or "refresh" or "check" while the handler waits for a job
  reply,    \* what the last read() answered, and the sample's true age then
  history,  \* every refresh so far: whether it succeeded and when it ended
  stepped   \* the system clock was stepped since the sample was taken

vars == <<wall, steady, cache, successes, stage, reply, history, stepped>>

Init ==
  /\ wall = 0 /\ steady = 0
  /\ cache = [has_sample |-> FALSE, last_read_ok |-> FALSE, sampled_at |-> 0,
              sampled_at_steady |-> 0, lagging |-> 0, warned |-> FALSE]
  /\ successes = 0
  /\ stage = "idle"
  /\ reply = [quality |-> "NONE", age |-> 0]
  /\ history = <<>>
  /\ stepped = FALSE

\* Time passes, but not beyond the deadline of a check that is under way.
Tick ==
  /\ steady + TickSize <= MaxTime
  /\ stage = "check" => steady + TickSize <= cache.sampled_at_steady + CheckDeadline
  /\ steady' = steady + TickSize /\ wall' = wall + TickSize
  /\ UNCHANGED <<cache, successes, stage, reply, history, stepped>>

\* NTP steps the system clock.
StepClock ==
  /\ \E d \in Steps : wall' = wall + d
  /\ ~stepped /\ stepped' = TRUE
  /\ UNCHANGED <<steady, cache, successes, stage, reply, history>>

Age(c) == wall - c.sampled_at

\* sdk::quality_from for a signal that has a value.
Quality(c) == CASE ~c.last_read_ok     -> "FAULT"
                [] c.last_read_ok /\ Age(c) > StaleAfter -> "STALE"
                [] OTHER               -> "OK"

\* The values of read(), from the cache as it stands.
Serve(c, now) ==
  reply' = IF c.has_sample
             THEN [quality |-> Quality(c), age |-> now - c.sampled_at_steady]
             ELSE [quality |-> "NONE", age |-> 0]

\* Seeded fault: the reuse window is sized from the cadence.
NeedsRefreshSeldom == ~cache.has_sample \/ Age(cache) > StaleAfter

NeedsRefresh == ~cache.has_sample \/ Age(cache) > query_latency_ms

ReadCached ==
  /\ stage = "idle" /\ ~NeedsRefresh
  /\ Serve(cache, steady)
  /\ UNCHANGED <<wall, steady, cache, successes, stage, history, stepped>>

ReadRefresh ==
  /\ stage = "idle" /\ NeedsRefresh
  /\ Len(history) < MaxReads
  /\ stage' = "refresh"
  /\ UNCHANGED <<wall, steady, cache, successes, reply, history, stepped>>

\* Seeded fault: the gap between two samples is measured on the system clock.
LagWall(c) ==
  LET over == wall - c.sampled_at > StaleAfter
      n    == IF over THEN c.lagging + 1 ELSE 0
  IN  IF c.has_sample /\ c.last_read_ok /\ ~c.warned
        THEN [c EXCEPT !.lagging = n, !.warned = over /\ n >= LagStreak]
        ELSE c

\* Seeded fault: a compliant gap takes one off the streak, also off an empty one.
LagDecays(c) ==
  LET over == steady - c.sampled_at_steady > StaleAfter
      n    == IF over THEN c.lagging + 1 ELSE c.lagging - 1
  IN  IF c.has_sample /\ c.last_read_ok /\ ~c.warned
        THEN [c EXCEPT !.lagging = n, !.warned = over /\ n >= LagStreak]
        ELSE c

\* The cadence check of a successful refresh: only a gap between two
\* consecutive successes counts, and only until the warning is given.
Lag(c) ==
  LET over == steady - c.sampled_at_steady > StaleAfter
      n    == IF over THEN c.lagging + 1 ELSE 0
  IN  IF c.has_sample /\ c.last_read_ok /\ ~c.warned
        THEN [c EXCEPT !.lagging = n, !.warned = over /\ n >= LagStreak]
        ELSE c

\* check_compensation goes to the bus: the probe has compensation and this is
\* the n-th success.
CheckDue(n) == Compensated /\ n % CheckEvery = 0

\* The job succeeded.  The sample is stamped; read() answers at once, or after
\* the check that is due.
RefreshOk ==
  LET c == [Lag(cache) EXCEPT !.has_sample = TRUE, !.last_read_ok = TRUE,
                              !.sampled_at = wall, !.sampled_at_steady = steady]
  IN /\ stage = "refresh"
     /\ cache' = c
     /\ successes' = successes + 1
     /\ IF CheckDue(successes + 1) THEN stage' = "check" /\ UNCHANGED reply
                                   ELSE stage' = "idle" /\ Serve(c, steady)
     /\ history' = Append(history, [ok |-> TRUE, at |-> steady])
     /\ stepped' = FALSE
     /\ UNCHANGED <<wall, steady>>

\* The check ended or its deadline passed.  Either way the refresh succeeded and
\* read() answers with the sample, which has aged meanwhile.
CheckReturns ==
  /\ stage = "check" /\ stage' = "idle"
  /\ Serve(cache, steady)
  /\ UNCHANGED <<wall, steady, cache, successes, history, stepped>>

\* Seeded fault: a failed refresh forgets to say so.
RefreshFailedSilently ==
  LET c == [cache EXCEPT !.lagging = 0]
  IN /\ stage = "refresh" /\ stage' = "idle"
     /\ cache' = c
     /\ Serve(c, steady)
     /\ history' = Append(history, [ok |-> FALSE, at |-> steady])
     /\ UNCHANGED <<wall, steady, successes, stepped>>

\* The job failed or its deadline passed.  The sample stays, marked.
RefreshFailed ==
  LET c == [cache EXCEPT !.last_read_ok = FALSE, !.lagging = 0]
  IN /\ stage = "refresh" /\ stage' = "idle"
     /\ cache' = c
     /\ Serve(c, steady)
     /\ history' = Append(history, [ok |-> FALSE, at |-> steady])
     /\ UNCHANGED <<wall, steady, successes, stepped>>

Next == \/ Tick \/ StepClock \/ ReadCached \/ ReadRefresh
        \/ RefreshOk \/ RefreshFailed \/ CheckReturns

Spec == Init /\ [][Next]_vars

\* device_health(): the state of an active device.
Health == CASE ~cache.has_sample -> "UNREACHABLE"
            [] cache.has_sample /\ ~cache.last_read_ok -> "FAULT"
            [] cache.has_sample /\ cache.last_read_ok /\ Age(cache) > StaleAfter -> "STALE"
            [] OTHER -> "OK"
-------------------------------------------------------------------------------
TypeOK ==
  /\ wall \in Int /\ steady \in 0..MaxTime
  /\ cache \in [has_sample : BOOLEAN, last_read_ok : BOOLEAN, sampled_at : Int,
                sampled_at_steady : 0..MaxTime, lagging : 0..LagStreak,
                warned : BOOLEAN]
  /\ successes \in Nat
  /\ stage \in {"idle", "refresh", "check"}
  /\ reply \in [quality : {"NONE", "OK", "STALE", "FAULT"}, age : 0..MaxTime]
  /\ history \in Seq([ok : BOOLEAN, at : 0..MaxTime])
  /\ stepped \in BOOLEAN

Refreshes == DOMAIN history
LastOk == {i \in Refreshes : history[i].ok /\ \A j \in Refreshes : j > i => ~history[j].ok}

\* What the health of the device is, told from the refreshes that took place
\* and the true time that has passed since.
TrueHealth ==
  IF LastOk = {} THEN "UNREACHABLE"
  ELSE IF ~history[Len(history)].ok THEN "FAULT"
  ELSE IF \E i \in LastOk : steady - history[i].at > StaleAfter THEN "STALE"
  ELSE "OK"

\* As long as the system clock has not been stepped since the last sample,
\* device_health() reports what has really happened, however reads, failures
\* and idle times followed each other.
HealthTrue == ~stepped => Health = TrueHealth

\* A window of LagStreak gaps, each between two refreshes that succeeded one
\* right after the other, all longer than the freshness bound.
LaggedFrom(i) ==
  /\ i + LagStreak \in Refreshes
  /\ \A k \in i..(i + LagStreak) : history[k].ok
  /\ \A k \in i..(i + LagStreak - 1) : history[k + 1].at - history[k].at > StaleAfter

\* The cadence warning is given exactly when the samples have really lagged
\* LagStreak times running: a clock step, a failed read or a single slow cycle
\* neither raises nor hides it.
WarnedIffLagging == cache.warned <=> \E i \in Refreshes : LaggedFrom(i)

\* Without a clock step, an answer of quality OK never carries a sample older than
\* one transaction, with one exception: the read that took every CheckEvery-th
\* sample of a probe with compensation answers after the check, and its sample is
\* then as old as the check took, at most the check's deadline.  A sample that aged
\* so is not served again from the cache.
ReplyYoung ==
  [][~stepped /\ reply' # reply /\ reply'.quality = "OK" =>
       \/ reply'.age <= query_latency_ms
       \/ /\ stage = "check" /\ CheckDue(successes)
          /\ reply'.age <= CheckDeadline]_vars

\* For every declared cadence that an int can hold, the freshness bound is an
\* int no shorter than the cadence.
BoundCoversCadence ==
  \A i \in (-(IntMax + 1))..IntMax : stale_after_ms(i) \in sample_interval_ms(i)..IntMax

\* A device whose last refresh succeeded no longer ago than the declared cadence
\* is reported OK, also at a cadence whose triple does not fit an int: a healthy
\* device polled on time never flaps to STALE.
OnTimeIsOk ==
  /\ ~stepped /\ cache.has_sample /\ cache.last_read_ok
  /\ steady - cache.sampled_at_steady <= sample_interval_ms(SampleInterval)
  => Health = "OK"

\* CHANGELOG.md: device_health reports "`STATE_STALE` when the cached sample is
\* older than its freshness window".
StaleWhenOld == Health = "OK" => steady - cache.sampled_at_steady <= StaleAfter
================================================================================
