--------------------------- MODULE SampleCacheProofs ---------------------------
(***************************************************************************)
(* Proofs about SampleCache for every cadence, latency, tick and step of   *)
(* the system clock: the freshness bound covers the cadence, and health is *)
(* true to the history of refreshes.                                       *)
(***************************************************************************)
EXTENDS SampleCache, TLAPS

\* The freshness bound fits an int and is no shorter than the cadence, for
\* every cadence an int can hold: stale_after_ms cannot wrap.
THEOREM BoundCovers == BoundCoversCadence
  BY CacheAssumption DEF CacheAssumption, BoundCoversCadence, stale_after_ms,
                         sample_interval_ms, AtLeast
-------------------------------------------------------------------------------
(* The inductive invariant.                                                *)

\* The streak stays below the one that gives the warning, and the sample was
\* taken in the past.
Bounds == /\ ~cache.warned => cache.lagging < LagStreak
          /\ cache.sampled_at_steady <= steady

\* The cache is what the refreshes so far have made it.
CacheTellsHistory ==
  /\ cache.has_sample <=> LastOk # {}
  /\ cache.last_read_ok <=> history # <<>> /\ history[Len(history)].ok
  /\ \A i \in LastOk : history[i].at = cache.sampled_at_steady

\* Without a step of the system clock both clocks give the sample's age.
ClocksAgree == ~stepped /\ cache.has_sample =>
                 wall - cache.sampled_at = steady - cache.sampled_at_steady

\* A check under way is due, follows a sample and has not passed its deadline.
Checking == stage = "check" => /\ CheckDue(successes) /\ cache.has_sample
                               /\ steady <= cache.sampled_at_steady + CheckDeadline

IInv == TypeOK /\ Bounds /\ CacheTellsHistory /\ ClocksAgree /\ Checking

\* The freshness bound is a number.
LEMMA StaleAfterInt == StaleAfter \in Int /\ query_latency_ms \in Int
  BY CacheAssumption DEF CacheAssumption, StaleAfter, stale_after_ms,
                         sample_interval_ms, query_latency_ms, AtLeast

\* The cache before the first refresh tells an empty history.
LEMMA InvInit == Init => IInv
<1> SUFFICES ASSUME Init PROVE IInv
  OBVIOUS
<1>1. TypeOK /\ Bounds
  <2>1. MaxTime \in Nat /\ LagStreak \in Nat \ {0}
    BY CacheAssumption DEF CacheAssumption
  <2>2. history \in Seq([ok : BOOLEAN, at : 0..MaxTime])
    BY DEF Init
  <2>3. cache \in [has_sample : BOOLEAN, last_read_ok : BOOLEAN, sampled_at : Int,
                   sampled_at_steady : 0..MaxTime, lagging : 0..LagStreak,
                   warned : BOOLEAN]
    BY <2>1 DEF Init
  <2>4. reply \in [quality : {"NONE", "OK", "STALE", "FAULT"}, age : 0..MaxTime]
    BY <2>1 DEF Init
  <2>5. /\ wall \in Int /\ steady \in 0..MaxTime /\ successes \in Nat
        /\ stage \in {"idle", "refresh", "check"}
    BY <2>1 DEF Init
  <2>6. stepped \in BOOLEAN
    BY Zenon DEF Init
  <2>7. cache.lagging = 0 /\ cache.sampled_at_steady = 0 /\ steady = 0
    BY DEF Init
  <2>8. cache.lagging < LagStreak /\ cache.sampled_at_steady <= steady
    BY <2>1, <2>7
  <2>9. TypeOK
    BY <2>2, <2>3, <2>4, <2>5, <2>6, Zenon DEF TypeOK
  <2>10. QED
    BY <2>8, <2>9 DEF Bounds
<1>2. Refreshes = {} /\ LastOk = {}
  BY DEF Init, Refreshes, LastOk
<1>3. CacheTellsHistory
  BY <1>2 DEF Init, CacheTellsHistory
<1>4. ClocksAgree /\ Checking
  BY DEF Init, ClocksAgree, Checking
<1>5. QED
  BY <1>1, <1>3, <1>4 DEF IInv

\* What one more refresh does to the last success: a success becomes it, a
\* failure leaves it where it was.
LEMMA LastOkAppend ==
  ASSUME TypeOK, NEW r \in [ok : BOOLEAN, at : 0..MaxTime],
         history' = Append(history, r)
  PROVE  /\ Len(history') = Len(history) + 1 /\ history'[Len(history')] = r
         /\ \A i \in Refreshes : history'[i] = history[i]
         /\ Refreshes' = Refreshes \cup {Len(history) + 1}
         /\ LastOk' = IF r.ok THEN {Len(history) + 1} ELSE LastOk
<1>1. history \in Seq([ok : BOOLEAN, at : 0..MaxTime])
  BY DEF TypeOK
<1>2. /\ Len(history') = Len(history) + 1 /\ history'[Len(history')] = r
      /\ \A i \in 1..Len(history) : history'[i] = history[i]
  BY <1>1
<1>3. Refreshes = 1..Len(history) /\ Len(history) \in Nat
  BY <1>1 DEF Refreshes
<1>4. history' \in Seq([ok : BOOLEAN, at : 0..MaxTime])
  BY <1>1
<1>5. Refreshes' = 1..(Len(history) + 1)
  BY <1>2, <1>4 DEF Refreshes
<1>6. Refreshes' = Refreshes \cup {Len(history) + 1}
  BY <1>3, <1>5
<1>7. CASE r.ok
  <2>1. ASSUME NEW i \in LastOk' PROVE i = Len(history) + 1
    BY <1>2, <1>3, <1>5, <1>7, <2>1 DEF LastOk
  <2>2. Len(history) + 1 \in LastOk'
    BY <1>2, <1>3, <1>5, <1>7 DEF LastOk
  <2>3. QED
    BY <1>2, <1>3, <1>6, <1>7, <2>1, <2>2
<1>8. CASE ~r.ok
  <2>1. LastOk' \subseteq LastOk
    <3> SUFFICES ASSUME NEW i \in LastOk' PROVE i \in LastOk
      OBVIOUS
    <3>1. i \in Refreshes' /\ history'[i].ok
          /\ \A j \in Refreshes' : j > i => ~history'[j].ok
      BY DEF LastOk
    <3>2. i \in Refreshes
      BY <1>2, <1>6, <1>8, <3>1
    <3>3. QED
      BY <1>2, <1>3, <1>6, <3>1, <3>2 DEF LastOk
  <2>2. LastOk \subseteq LastOk'
    <3> SUFFICES ASSUME NEW i \in LastOk PROVE i \in LastOk'
      OBVIOUS
    <3>1. i \in Refreshes /\ history[i].ok
          /\ \A j \in Refreshes : j > i => ~history[j].ok
      BY DEF LastOk
    <3>2. ASSUME NEW j \in Refreshes', j > i PROVE ~history'[j].ok
      BY <1>2, <1>3, <1>6, <1>8, <3>1, <3>2
    <3>3. QED
      BY <1>2, <1>3, <1>6, <3>1, <3>2 DEF LastOk
  <2>3. QED
    BY <1>2, <1>3, <1>6, <1>8, <2>1, <2>2
<1>9. QED
  BY <1>7, <1>8

\* A refresh that succeeds or fails keeps the invariant; so does everything else.
LEMMA InvStep == IInv /\ [Next]_vars => IInv'
<1> SUFFICES ASSUME IInv, [Next]_vars PROVE IInv'
  OBVIOUS
<1>0. TypeOK /\ Bounds /\ CacheTellsHistory /\ ClocksAgree /\ Checking
  BY DEF IInv
<1>a. /\ MaxTime \in Nat /\ LagStreak \in Nat \ {0} /\ TickSize \in Nat \ {0}
      /\ Steps \subseteq Int /\ StaleAfter \in Int /\ query_latency_ms \in Int
      /\ CheckDeadline \in Nat
  BY CacheAssumption, StaleAfterInt DEF CacheAssumption
<1> DEFINE CacheType == [has_sample : BOOLEAN, last_read_ok : BOOLEAN, sampled_at : Int,
                         sampled_at_steady : 0..MaxTime, lagging : 0..LagStreak,
                         warned : BOOLEAN]
           ReplyType == [quality : {"NONE", "OK", "STALE", "FAULT"}, age : 0..MaxTime]
           Same == CacheTellsHistory'
<1>t. /\ wall \in Int /\ steady \in 0..MaxTime /\ cache \in CacheType
      /\ successes \in Nat /\ stage \in {"idle", "refresh", "check"} /\ reply \in ReplyType
      /\ history \in Seq([ok : BOOLEAN, at : 0..MaxTime]) /\ stepped \in BOOLEAN
  BY <1>0 DEF TypeOK
\* A reply served from a cache that is not newer than the clock is well typed.
<1>s. ASSUME NEW c \in CacheType, c.sampled_at_steady <= steady, Serve(c, steady)
      PROVE  reply' \in ReplyType
  <2>1. Quality(c) \in {"NONE", "OK", "STALE", "FAULT"}
    BY DEF Quality
  <2>2. steady - c.sampled_at_steady \in 0..MaxTime
    BY <1>a, <1>t, <1>s
  <2>3. QED
    BY <1>a, <1>s, <2>1, <2>2 DEF Serve
\* The history and the cache are left alone.
<1>u. ASSUME UNCHANGED <<cache, history>> PROVE Same
  BY <1>0, <1>u DEF CacheTellsHistory, Refreshes, LastOk
<1>1. CASE Tick
  <2>1. TypeOK' /\ Bounds'
    BY <1>0, <1>1, <1>a, <1>t DEF Tick, TypeOK, Bounds
  <2>2. ClocksAgree'
    <3>1. UNCHANGED <<cache, stepped>>
      BY <1>1 DEF Tick
    <3>2. wall' - cache.sampled_at = steady' - cache.sampled_at_steady
            <=> wall - cache.sampled_at = steady - cache.sampled_at_steady
      <4>1. /\ wall' = wall + TickSize /\ steady' = steady + TickSize
            /\ TickSize \in Int /\ wall \in Int /\ steady \in Int
        BY <1>1, <1>a, <1>t DEF Tick
      <4>2. cache.sampled_at \in Int /\ cache.sampled_at_steady \in Int
        BY <1>t
      <4>3. QED
        BY <4>1, <4>2
    <3>3. ~stepped /\ cache.has_sample =>
            wall' - cache.sampled_at = steady' - cache.sampled_at_steady
      BY <1>0, <3>2, Zenon DEF ClocksAgree
    <3>4. QED
      BY <3>1, <3>3 DEF ClocksAgree
  <2>3. Checking'
    BY <1>0, <1>1, <1>a, <1>t DEF Tick, Checking, CheckDue
  <2>4. QED
    BY <1>1, <1>u, <2>1, <2>2, <2>3 DEF Tick, IInv
<1>2. CASE StepClock
  <2>1. TypeOK' /\ Bounds'
    BY <1>0, <1>2, <1>a, <1>t DEF StepClock, TypeOK, Bounds
  <2>2. ClocksAgree' /\ Checking'
    BY <1>0, <1>2 DEF StepClock, ClocksAgree, Checking, CheckDue
  <2>3. QED
    BY <1>2, <1>u, <2>1, <2>2 DEF StepClock, IInv
<1>3. CASE ReadCached
  <2>1. reply' \in ReplyType
    BY <1>0, <1>3, <1>s, <1>t DEF ReadCached, Bounds
  <2>2. TypeOK' /\ Bounds' /\ ClocksAgree' /\ Checking'
    BY <1>0, <1>3, <1>t, <2>1 DEF ReadCached, TypeOK, Bounds, ClocksAgree, Checking
  <2>3. QED
    BY <1>3, <1>u, <2>2 DEF ReadCached, IInv
<1>4. CASE ReadRefresh
  <2>1. TypeOK' /\ Bounds' /\ ClocksAgree' /\ Checking'
    BY <1>0, <1>4, <1>t DEF ReadRefresh, TypeOK, Bounds, ClocksAgree, Checking
  <2>2. QED
    BY <1>4, <1>u, <2>1 DEF ReadRefresh, IInv
<1>5. CASE RefreshOk
  <2> DEFINE r == [ok |-> TRUE, at |-> steady]
  <2>1. r \in [ok : BOOLEAN, at : 0..MaxTime] /\ history' = Append(history, r)
    BY <1>5, <1>t DEF RefreshOk
  <2>2. /\ Lag(cache) \in CacheType
        /\ ~Lag(cache).warned => Lag(cache).lagging < LagStreak
    <3> DEFINE over == steady - cache.sampled_at_steady > StaleAfter
               n == IF over THEN cache.lagging + 1 ELSE 0
               w == over /\ n >= LagStreak
    <3>1. CASE cache.has_sample /\ cache.last_read_ok /\ ~cache.warned
      <4>1. Lag(cache) = [cache EXCEPT !.lagging = n, !.warned = w]
        BY <3>1 DEF Lag
      <4>2. cache.lagging \in 0..LagStreak /\ cache.lagging < LagStreak
        BY <1>0, <1>t, <3>1 DEF Bounds
      <4>3. n \in 0..LagStreak /\ (~w => n < LagStreak) /\ w \in BOOLEAN
        BY <1>a, <4>2
      <4> HIDE DEF n, w
      <4>4. [cache EXCEPT !.lagging = n, !.warned = w] \in CacheType
        BY <1>t, <4>3
      <4>5. Lag(cache).lagging = n /\ Lag(cache).warned = w
        BY <1>t, <4>1
      <4>6. QED
        BY <4>1, <4>3, <4>4, <4>5
    <3>2. CASE ~(cache.has_sample /\ cache.last_read_ok /\ ~cache.warned)
      <4>1. Lag(cache) = cache
        BY <3>2 DEF Lag
      <4>2. QED
        BY <1>0, <1>t, <4>1 DEF Bounds
    <3>3. QED
      BY <3>1, <3>2
  <2>3. /\ cache' = [Lag(cache) EXCEPT !.has_sample = TRUE, !.last_read_ok = TRUE,
                                       !.sampled_at = wall, !.sampled_at_steady = steady]
        /\ UNCHANGED <<wall, steady>> /\ successes' = successes + 1 /\ stepped' = FALSE
        /\ \/ stage' = "check" /\ UNCHANGED reply /\ CheckDue(successes + 1)
           \/ stage' = "idle" /\ Serve(cache', steady)
    BY <1>5 DEF RefreshOk
  <2>4. /\ cache' \in CacheType
        /\ cache'.has_sample /\ cache'.last_read_ok
        /\ cache'.sampled_at = wall /\ cache'.sampled_at_steady = steady
        /\ ~cache'.warned => cache'.lagging < LagStreak
    BY <1>t, <2>2, <2>3
  <2>5. reply' \in ReplyType
    <3>1. cache'.sampled_at_steady <= steady
      BY <1>t, <2>4
    <3>2. QED
      BY <1>s, <1>t, <2>3, <2>4, <3>1
  <2>6. TypeOK'
    <3>1. history' \in Seq([ok : BOOLEAN, at : 0..MaxTime])
      BY <1>t, <2>1
    <3>2. wall' \in Int /\ steady' \in 0..MaxTime /\ successes' \in Nat
      BY <1>t, <2>3
    <3>3. QED
      BY <2>3, <2>4, <2>5, <3>1, <3>2 DEF TypeOK
  <2>7. Bounds' /\ ClocksAgree' /\ Checking'
    <3>1. Bounds' /\ ClocksAgree'
      BY <1>t, <2>3, <2>4 DEF Bounds, ClocksAgree
    <3>2. steady' <= cache'.sampled_at_steady + CheckDeadline
      BY <1>a, <1>t, <2>3, <2>4
    <3>3. QED
      BY <2>3, <2>4, <3>1, <3>2 DEF Checking, CheckDue
  <2>8. CacheTellsHistory'
    <3>1. /\ Len(history') = Len(history) + 1 /\ history'[Len(history')] = r
          /\ Refreshes' = Refreshes \cup {Len(history) + 1}
          /\ LastOk' = {Len(history) + 1}
      BY <1>0, <2>1, LastOkAppend
    <3>2. history' # <<>>
      BY <1>t, <2>1
    <3>3. QED
      BY <2>4, <3>1, <3>2 DEF CacheTellsHistory
  <2>9. QED
    BY <2>6, <2>7, <2>8 DEF IInv
<1>6. CASE RefreshFailed
  <2> DEFINE r == [ok |-> FALSE, at |-> steady]
  <2>1. r \in [ok : BOOLEAN, at : 0..MaxTime] /\ history' = Append(history, r)
    BY <1>6, <1>t DEF RefreshFailed
  <2>2. /\ cache' = [cache EXCEPT !.last_read_ok = FALSE, !.lagging = 0]
        /\ UNCHANGED <<wall, steady, successes, stepped>>
        /\ stage' = "idle" /\ Serve(cache', steady)
    BY <1>6 DEF RefreshFailed
  <2>3. /\ cache' \in CacheType
        /\ cache'.has_sample = cache.has_sample /\ ~cache'.last_read_ok
        /\ cache'.sampled_at = cache.sampled_at
        /\ cache'.sampled_at_steady = cache.sampled_at_steady
        /\ cache'.lagging = 0
    <3>1. 0 \in 0..LagStreak
      BY <1>a
    <3>2. cache' \in CacheType
      BY <1>t, <2>2, <3>1
    <3>3. cache'.last_read_ok = FALSE /\ cache'.has_sample = cache.has_sample
      BY <1>t, <2>2
    <3>4. /\ cache'.sampled_at = cache.sampled_at
          /\ cache'.sampled_at_steady = cache.sampled_at_steady
          /\ cache'.lagging = 0
      BY <1>t, <2>2
    <3>5. QED
      BY <3>2, <3>3, <3>4
  <2>4. reply' \in ReplyType
    BY <1>0, <1>s, <1>t, <2>2, <2>3 DEF Bounds
  <2>5. TypeOK'
    BY <1>t, <2>1, <2>2, <2>3, <2>4 DEF TypeOK
  <2>6. Bounds' /\ ClocksAgree' /\ Checking'
    BY <1>0, <1>a, <1>t, <2>2, <2>3 DEF Bounds, ClocksAgree, Checking
  <2>7. CacheTellsHistory'
    <3>1. /\ Len(history') = Len(history) + 1 /\ history'[Len(history')] = r
          /\ \A i \in Refreshes : history'[i] = history[i]
          /\ Refreshes' = Refreshes \cup {Len(history) + 1}
          /\ LastOk' = LastOk
      BY <1>0, <2>1, LastOkAppend
    <3>2. LastOk \subseteq Refreshes
      BY DEF LastOk
    <3>3. cache'.has_sample <=> LastOk' # {}
      BY <1>0, <2>3, <3>1 DEF CacheTellsHistory
    <3>4. \A i \in LastOk' : history'[i].at = cache'.sampled_at_steady
      BY <1>0, <2>3, <3>1, <3>2 DEF CacheTellsHistory
    <3>5. QED
      BY <2>3, <3>1, <3>3, <3>4 DEF CacheTellsHistory
  <2>8. QED
    BY <2>5, <2>6, <2>7 DEF IInv
<1>7. CASE CheckReturns
  <2>1. reply' \in ReplyType
    BY <1>0, <1>7, <1>s, <1>t DEF CheckReturns, Bounds
  <2>2. TypeOK' /\ Bounds' /\ ClocksAgree' /\ Checking'
    BY <1>0, <1>7, <1>t, <2>1 DEF CheckReturns, TypeOK, Bounds, ClocksAgree, Checking
  <2>3. QED
    BY <1>7, <1>u, <2>2 DEF CheckReturns, IInv
<1>8. CASE UNCHANGED vars
  <2>1. TypeOK' /\ Bounds' /\ ClocksAgree' /\ Checking'
    BY <1>0, <1>8 DEF vars, TypeOK, Bounds, ClocksAgree, Checking, CheckDue
  <2>2. QED
    BY <1>8, <1>u, <2>1 DEF vars, IInv
<1>9. QED
  BY <1>1, <1>2, <1>3, <1>4, <1>5, <1>6, <1>7, <1>8 DEF Next

\* The invariant holds in every reachable state.
THEOREM Invariant == Spec => []IInv
  BY InvInit, InvStep, PTL DEF Spec

\* Type correctness of the cache in every reachable state; in particular the
\* streak never passes the length that gives the warning.
THEOREM TypeCorrect == Spec => []TypeOK
<1>1. IInv => TypeOK
  BY DEF IInv
<1>2. QED
  BY <1>1, Invariant, PTL

\* device_health() reports what has really happened to the device, as long as
\* the system clock has not been stepped since the last sample.
THEOREM HealthIsTrue == Spec => []HealthTrue
<1>1. IInv => HealthTrue
  <2> SUFFICES ASSUME IInv, ~stepped PROVE Health = TrueHealth
    BY DEF HealthTrue
  <2>0. TypeOK /\ CacheTellsHistory /\ ClocksAgree /\ StaleAfter \in Int
    BY StaleAfterInt DEF IInv
  <2>1. CASE ~cache.has_sample
    <3>1. LastOk = {}
      BY <2>0, <2>1 DEF CacheTellsHistory, LastOk
    <3>2. QED
      BY <2>1, <3>1 DEF Health, TrueHealth
  <2>2. CASE cache.has_sample
    <3>1. PICK i \in LastOk : TRUE
      BY <2>0, <2>2 DEF CacheTellsHistory
    <3>2. history # <<>>
      BY <2>0, <3>1 DEF TypeOK, Refreshes, LastOk
    <3>3. LastOk # {}
      BY <3>1
    <3>4. CASE ~cache.last_read_ok
      BY <2>0, <2>2, <3>2, <3>3, <3>4 DEF CacheTellsHistory, Health, TrueHealth
    <3>5. CASE cache.last_read_ok
      <4>1. history[Len(history)].ok
        BY <2>0, <3>5 DEF CacheTellsHistory
      <4>2. (\E k \in LastOk : steady - history[k].at > StaleAfter)
              <=> Age(cache) > StaleAfter
        BY <2>0, <2>2, <3>3 DEF CacheTellsHistory, ClocksAgree, Age, TypeOK
      <4>3. QED
        BY <2>2, <3>3, <3>5, <4>1, <4>2 DEF Health, TrueHealth
    <3>6. QED
      BY <3>4, <3>5
  <2>3. QED
    BY <2>1, <2>2
<1>2. QED
  BY <1>1, Invariant, PTL

\* A healthy device polled at its cadence is never reported stale, whatever the
\* cadence: the age that device_health() measures stays within the bound.
THEOREM OnTimeStaysOk == Spec => []OnTimeIsOk
<1>1. IInv => OnTimeIsOk
  <2> SUFFICES ASSUME IInv, ~stepped, cache.has_sample, cache.last_read_ok,
                      steady - cache.sampled_at_steady <= sample_interval_ms(SampleInterval)
               PROVE  Health = "OK"
    BY DEF OnTimeIsOk
  <2>1. /\ sample_interval_ms(SampleInterval) \in Int /\ StaleAfter \in Int
        /\ sample_interval_ms(SampleInterval) <= StaleAfter
    BY CacheAssumption DEF CacheAssumption, StaleAfter, stale_after_ms,
                           sample_interval_ms, AtLeast
  <2>2. wall - cache.sampled_at = steady - cache.sampled_at_steady
    BY DEF IInv, ClocksAgree
  <2>3. steady - cache.sampled_at_steady \in Int
    BY DEF IInv, TypeOK
  <2>4. ~(Age(cache) > StaleAfter)
    BY <2>1, <2>2, <2>3 DEF Age
  <2>5. QED
    BY <2>4 DEF Health
<1>2. QED
  BY <1>1, Invariant, PTL
-------------------------------------------------------------------------------
\* A reply of quality OK comes from a refresh that has just succeeded, from a
\* cached sample within the reuse window, or from a check that has just ended.
LEMMA YoungStep ==
  IInv /\ [Next]_vars =>
    (~stepped /\ reply' # reply /\ reply'.quality = "OK" =>
       \/ reply'.age <= query_latency_ms
       \/ /\ stage = "check" /\ CheckDue(successes)
          /\ reply'.age <= CheckDeadline)
<1> SUFFICES ASSUME IInv, [Next]_vars, ~stepped, reply' # reply, reply'.quality = "OK"
             PROVE  \/ reply'.age <= query_latency_ms
                    \/ /\ stage = "check" /\ CheckDue(successes)
                       /\ reply'.age <= CheckDeadline
  OBVIOUS
<1>0. TypeOK /\ CacheTellsHistory /\ ClocksAgree /\ Checking
  BY DEF IInv
<1>a. query_latency_ms \in Int /\ query_latency_ms >= 1 /\ CheckDeadline \in Nat
  BY CacheAssumption DEF CacheAssumption, query_latency_ms, AtLeast
<1>t. /\ wall \in Int /\ steady \in Int
      /\ cache.sampled_at \in Int /\ cache.sampled_at_steady \in Int
  BY <1>0 DEF TypeOK
<1>1. CASE ReadCached
  <2>1. cache.has_sample /\ ~(Age(cache) > query_latency_ms)
    BY <1>1 DEF ReadCached, NeedsRefresh
  <2>2. wall - cache.sampled_at = steady - cache.sampled_at_steady
    BY <1>0, <2>1 DEF ClocksAgree
  <2>3. reply'.age = steady - cache.sampled_at_steady
    BY <1>1, <2>1 DEF ReadCached, Serve
  <2>4. QED
    BY <1>a, <1>t, <2>1, <2>2, <2>3 DEF Age
<1>2. CASE RefreshOk
  <2> DEFINE c == [Lag(cache) EXCEPT !.has_sample = TRUE, !.last_read_ok = TRUE,
                                     !.sampled_at = wall, !.sampled_at_steady = steady]
  <2>1. Serve(c, steady)
    BY <1>2 DEF RefreshOk, vars
  <2>2. DOMAIN Lag(cache) = DOMAIN cache
    BY <1>0 DEF Lag, TypeOK
  <2>3. c.has_sample /\ c.sampled_at_steady = steady
    BY <1>0, <2>2 DEF TypeOK
  <2>4. reply'.age = steady - steady
    BY <2>1, <2>3 DEF Serve
  <2>5. QED
    BY <1>a, <1>t, <2>4
<1>3. CASE RefreshFailed
  <2> DEFINE c == [cache EXCEPT !.last_read_ok = FALSE, !.lagging = 0]
  <2>1. Serve(c, steady)
    BY <1>3 DEF RefreshFailed
  <2>2. ~c.last_read_ok
    BY <1>0 DEF TypeOK
  <2> HIDE DEF c
  <2>3. Quality(c) = "FAULT"
    BY <2>2 DEF Quality
  <2>4. reply'.quality \in {"FAULT", "NONE"}
    BY <2>1, <2>3 DEF Serve
  <2>5. QED
    BY <2>4
<1>4. CASE CheckReturns
  <2>1. stage = "check" /\ CheckDue(successes) /\ cache.has_sample
        /\ steady <= cache.sampled_at_steady + CheckDeadline
    BY <1>0, <1>4 DEF CheckReturns, Checking
  <2>2. reply'.age = steady - cache.sampled_at_steady
    BY <1>4, <2>1 DEF CheckReturns, Serve
  <2>3. QED
    BY <1>a, <1>t, <2>1, <2>2
<1>5. CASE Tick \/ StepClock \/ ReadRefresh \/ UNCHANGED vars
  BY <1>5 DEF Tick, StepClock, ReadRefresh, vars
<1>6. QED
  BY <1>1, <1>2, <1>3, <1>4, <1>5 DEF Next

\* Without a clock step, an answer of quality OK carries a sample no older than one
\* transaction, or it is the answer of the read that took the sample and then ran
\* the compensation check due, and the sample is no older than the check's deadline;
\* for every latency, deadline and number of samples between two checks.
THEOREM RepliesAreYoung == Spec => ReplyYoung
  BY Invariant, YoungStep, PTL DEF Spec, ReplyYoung

-------------------------------------------------------------------------------
(* The cadence warning.                                                    *)

Refresh == [ok : BOOLEAN, at : 0..MaxTime]

\* LaggedFrom(i), of history h.
LagsIn(h, i) ==
  /\ i + LagStreak \in DOMAIN h
  /\ \A k \in i..(i + LagStreak) : h[k].ok
  /\ \A k \in i..(i + LagStreak - 1) : h[k + 1].at - h[k].at > StaleAfter

\* The last gaps of h, `lag' of them and no more, were too long.
EndsLagging(h, lag) ==
  LET n == Len(h)
  IN  /\ lag < n
      /\ \A k \in (n - lag)..n : h[k].ok
      /\ \A k \in (n - lag)..(n - 1) : h[k + 1].at - h[k].at > StaleAfter
      /\ n - lag > 1 /\ h[n - lag - 1].ok => ~(h[n - lag].at - h[n - lag - 1].at > StaleAfter)

\* Until the warning is given, the counter is the length of that streak.
StreakInv ==
  /\ WarnedIffLagging
  /\ ~cache.warned => IF cache.last_read_ok THEN EndsLagging(history, cache.lagging)
                                            ELSE cache.lagging = 0

\* What one more refresh does to the windows: those that were there stay, and one
\* that was not ends with it.
LEMMA WindowAppend ==
  ASSUME NEW h \in Seq(Refresh), NEW r \in Refresh, NEW g, g = Append(h, r)
  PROVE  /\ \A i \in DOMAIN h : LagsIn(h, i) => i \in DOMAIN g /\ LagsIn(g, i)
         /\ \A i \in DOMAIN g : LagsIn(g, i) =>
              \/ i \in DOMAIN h /\ LagsIn(h, i)
              \/ /\ i = Len(h) + 1 - LagStreak /\ i \in 1..Len(h) /\ r.ok
                 /\ \A k \in i..Len(h) : h[k].ok
                 /\ \A k \in i..(Len(h) - 1) : h[k + 1].at - h[k].at > StaleAfter
                 /\ r.at - h[Len(h)].at > StaleAfter
<1>1. LagStreak \in Nat \ {0}
  BY CacheAssumption DEF CacheAssumption
<1>2. PICK n \in Nat : n = Len(h) /\ DOMAIN h = 1..n
  OBVIOUS
<1>3. Len(g) = n + 1 /\ DOMAIN g = 1..(n + 1) /\ g[n + 1] = r
  BY <1>2
<1>4. \A i \in 1..n : g[i] = h[i]
  BY <1>2
<1>5. ASSUME NEW i \in DOMAIN h, LagsIn(h, i) PROVE i \in DOMAIN g /\ LagsIn(g, i)
  <2>1. i \in 1..n /\ i + LagStreak \in 1..n
    BY <1>2, <1>5 DEF LagsIn
  <2>2. \A k \in i..(i + LagStreak) : k \in 1..n
    BY <1>1, <2>1
  <2>3. \A k \in i..(i + LagStreak - 1) : k \in 1..n /\ k + 1 \in 1..n
    BY <1>1, <2>1
  <2>4. \A k \in i..(i + LagStreak) : g[k].ok
    BY <1>4, <1>5, <2>2 DEF LagsIn
  <2>5. \A k \in i..(i + LagStreak - 1) : g[k + 1].at - g[k].at > StaleAfter
    BY <1>4, <1>5, <2>3 DEF LagsIn
  <2>6. i \in DOMAIN g /\ i + LagStreak \in DOMAIN g
    <3>1. 1..n \subseteq 1..(n + 1)
      OBVIOUS
    <3>2. QED
      BY <1>3, <2>1, <3>1, Zenon
  <2>7. QED
    BY <2>4, <2>5, <2>6, Zenon DEF LagsIn
<1>6. ASSUME NEW i \in DOMAIN g, LagsIn(g, i)
      PROVE  \/ i \in DOMAIN h /\ LagsIn(h, i)
             \/ /\ i = Len(h) + 1 - LagStreak /\ i \in 1..Len(h) /\ r.ok
                /\ \A k \in i..Len(h) : h[k].ok
                /\ \A k \in i..(Len(h) - 1) : h[k + 1].at - h[k].at > StaleAfter
                /\ r.at - h[Len(h)].at > StaleAfter
  <2>1. /\ i \in 1..(n + 1) /\ i + LagStreak \in 1..(n + 1)
        /\ \A k \in i..(i + LagStreak) : g[k].ok
        /\ \A k \in i..(i + LagStreak - 1) : g[k + 1].at - g[k].at > StaleAfter
    BY <1>3, <1>6 DEF LagsIn
  <2>2. i \in 1..n
    BY <1>1, <2>1
  <2>3. CASE i + LagStreak <= n
    <3>1. \A k \in i..(i + LagStreak) : k \in 1..n
      BY <1>1, <2>1, <2>3
    <3>2. \A k \in i..(i + LagStreak - 1) : k \in 1..n /\ k + 1 \in 1..n
      BY <1>1, <2>1, <2>3
    <3>3. \A k \in i..(i + LagStreak) : h[k].ok
      BY <1>4, <2>1, <3>1
    <3>4. \A k \in i..(i + LagStreak - 1) : h[k + 1].at - h[k].at > StaleAfter
      BY <1>4, <2>1, <3>2
    <3>5. i + LagStreak \in 1..n
      BY <1>1, <2>1, <2>3
    <3>6. QED
      BY <1>2, <2>2, <3>3, <3>4, <3>5 DEF LagsIn
  <2>4. CASE ~(i + LagStreak <= n)
    <3>1. i + LagStreak = n + 1 /\ i = n + 1 - LagStreak /\ i + LagStreak - 1 = n
      <4>1. i \in Nat /\ i + LagStreak \in 1..(n + 1)
        BY <2>1
      <4>2. \A a, b \in Nat : a + b \in 1..(n + 1) /\ ~(a + b <= n)
                               => a + b = n + 1 /\ a = n + 1 - b /\ a + b - 1 = n
        OBVIOUS
      <4>3. QED
        BY <1>1, <2>4, <4>1, <4>2, Zenon
    <3>2. /\ \A k \in i..(n + 1) : g[k].ok
          /\ \A k \in i..n : g[k + 1].at - g[k].at > StaleAfter
      BY <2>1, <3>1
    <3>3. \A k \in i..n : k \in 1..n /\ k \in i..(n + 1)
      BY <2>2
    <3>4. \A k \in i..(n - 1) : k \in 1..n /\ k + 1 \in 1..n /\ k \in i..n
      BY <2>2
    <3>5. n + 1 \in i..(n + 1) /\ n \in i..n /\ n \in 1..n
      BY <2>2
    <3>6. r.ok /\ r.at - h[n].at > StaleAfter
      BY <1>3, <1>4, <3>2, <3>5
    <3>7. \A k \in i..n : h[k].ok
      BY <1>4, <3>2, <3>3
    <3>8. \A k \in i..(n - 1) : h[k + 1].at - h[k].at > StaleAfter
      BY <1>4, <3>2, <3>4
    <3>9. QED
      BY <1>2, <2>2, <3>1, <3>6, <3>7, <3>8
  <2>5. QED
    BY <2>3, <2>4
<1>7. QED
  BY <1>5, <1>6

\* A gap that is too long makes the streak one longer, any other ends it.
LEMMA StreakAppend ==
  ASSUME NEW h \in Seq(Refresh), NEW r \in Refresh, NEW g, g = Append(h, r), r.ok
  PROVE  /\ \A lag \in Nat : EndsLagging(h, lag) /\ r.at - h[Len(h)].at > StaleAfter
                               => EndsLagging(g, lag + 1)
         /\ h = <<>> \/ ~h[Len(h)].ok \/ ~(r.at - h[Len(h)].at > StaleAfter) => EndsLagging(g, 0)
<1>2. PICK n \in Nat : n = Len(h) /\ DOMAIN h = 1..n
  OBVIOUS
<1>3. Len(g) = n + 1 /\ DOMAIN g = 1..(n + 1) /\ g[n + 1] = r
  BY <1>2
<1>4. \A i \in 1..n : g[i] = h[i]
  BY <1>2
<1>5. ASSUME NEW lag \in Nat, EndsLagging(h, lag), r.at - h[n].at > StaleAfter
      PROVE  EndsLagging(g, lag + 1)
  <2>1. /\ lag < n
        /\ \A k \in (n - lag)..n : h[k].ok
        /\ \A k \in (n - lag)..(n - 1) : h[k + 1].at - h[k].at > StaleAfter
        /\ n - lag > 1 /\ h[n - lag - 1].ok => ~(h[n - lag].at - h[n - lag - 1].at > StaleAfter)
    BY <1>2, <1>5 DEF EndsLagging
  <2>2. PICK m \in 1..n : m = n - lag
    BY <2>1
  <2>3. n + 1 - (lag + 1) = m /\ n + 1 - 1 = n
    BY <2>2
  <2>4. ASSUME NEW k \in m..(n + 1) PROVE g[k].ok
    <3>1. (k \in m..n /\ k \in 1..n) \/ k = n + 1
      BY <2>2
    <3>2. QED
      BY <1>3, <1>4, <2>1, <2>2, <3>1
  <2>5. ASSUME NEW k \in m..n PROVE g[k + 1].at - g[k].at > StaleAfter
    <3>1. CASE k = n
      <4>1. n \in 1..n
        BY <2>2
      <4>2. QED
        BY <1>3, <1>4, <1>5, <3>1, <4>1
    <3>2. CASE k # n
      <4>1. k \in m..(n - 1) /\ k \in 1..n /\ k + 1 \in 1..n
        BY <2>2, <3>2
      <4>2. QED
        BY <1>4, <2>1, <2>2, <4>1
    <3>3. QED
      BY <3>1, <3>2
  <2>6. ASSUME m > 1, g[m - 1].ok PROVE ~(g[m].at - g[m - 1].at > StaleAfter)
    <3>1. m - 1 \in 1..n
      BY <2>2, <2>6
    <3>2. QED
      BY <1>4, <2>1, <2>2, <2>6, <3>1
  <2>7. lag + 1 < n + 1
    BY <2>1
  <2>8. QED
    BY <1>3, <2>3, <2>4, <2>5, <2>6, <2>7 DEF EndsLagging
<1>6. ASSUME h = <<>> \/ ~h[n].ok \/ ~(r.at - h[n].at > StaleAfter) PROVE EndsLagging(g, 0)
  <2>1. n + 1 - 0 = n + 1 /\ n + 1 - 0 - 1 = n /\ 0 < n + 1
    OBVIOUS
  <2>2. \A k \in (n + 1)..(n + 1) : k = n + 1
    OBVIOUS
  <2>3. \A k \in (n + 1)..(n + 1 - 1) : FALSE
    OBVIOUS
  <2>4. ASSUME n + 1 > 1, g[n].ok PROVE ~(g[n + 1].at - g[n].at > StaleAfter)
    <3>1. n \in 1..n /\ h # <<>>
      BY <1>2, <2>4
    <3>2. QED
      BY <1>3, <1>4, <1>6, <2>4, <3>1
  <2>5. QED
    BY <1>3, <2>1, <2>2, <2>3, <2>4 DEF EndsLagging
<1>7. QED
  BY <1>2, <1>5, <1>6

LEMMA WarnedIs ==
  /\ WarnedIffLagging = (cache.warned <=> \E i \in DOMAIN history : LagsIn(history, i))
  /\ WarnedIffLagging' = (cache'.warned <=> \E i \in DOMAIN history' : LagsIn(history', i))
BY DEF WarnedIffLagging, LaggedFrom, LagsIn, Refreshes

\* A refresh that succeeds counts its gap and warns when the streak is complete.
LEMMA StreakOk ==
  ASSUME IInv, StreakInv, RefreshOk
  PROVE  StreakInv'
<1>1. /\ history \in Seq(Refresh) /\ steady \in 0..MaxTime /\ LagStreak \in Nat \ {0}
      /\ cache \in [has_sample : BOOLEAN, last_read_ok : BOOLEAN, sampled_at : Int,
                    sampled_at_steady : 0..MaxTime, lagging : 0..LagStreak, warned : BOOLEAN]
  BY CacheAssumption DEF IInv, TypeOK, Refresh, CacheAssumption
<1>2. PICK r \in Refresh : r = [ok |-> TRUE, at |-> steady]
  BY <1>1 DEF Refresh
<1>3. PICK h \in Seq(Refresh) : h = history
  BY <1>1
<1>4. PICK n \in Nat : n = Len(h) /\ DOMAIN h = 1..n
  OBVIOUS
<1>5. PICK g : g = history' /\ g = Append(h, r)
  BY <1>2, <1>3 DEF RefreshOk
<1>6. r.ok /\ r.at = steady
  BY <1>2
<1>7. /\ \A i \in DOMAIN h : LagsIn(h, i) => i \in DOMAIN g /\ LagsIn(g, i)
      /\ \A i \in DOMAIN g : LagsIn(g, i) =>
           \/ i \in DOMAIN h /\ LagsIn(h, i)
           \/ /\ i = n + 1 - LagStreak /\ i \in 1..n
              /\ \A k \in i..n : h[k].ok
              /\ \A k \in i..(n - 1) : h[k + 1].at - h[k].at > StaleAfter
              /\ r.at - h[n].at > StaleAfter
  BY <1>4, <1>5, WindowAppend
<1>8. cache.last_read_ok <=> h # <<>> /\ h[n].ok
  BY <1>3, <1>4 DEF IInv, CacheTellsHistory
<1>9. cache.last_read_ok => cache.has_sample /\ h[n].at = cache.sampled_at_steady
  <2>1. SUFFICES ASSUME cache.last_read_ok
                 PROVE  cache.has_sample /\ h[n].at = cache.sampled_at_steady
    OBVIOUS
  <2>2. n \in 1..n /\ \A j \in 1..n : ~(j > n)
    BY <1>4, <1>8, <2>1
  <2>3. n \in LastOk
    BY <1>3, <1>4, <1>8, <2>1, <2>2 DEF LastOk, Refreshes
  <2>4. QED
    BY <1>3, <2>3 DEF IInv, CacheTellsHistory
<1>10. PICK d \in [has_sample : BOOLEAN, last_read_ok : BOOLEAN, sampled_at : Int,
                   sampled_at_steady : 0..MaxTime, lagging : Int, warned : BOOLEAN] :
         /\ d = Lag(cache) /\ cache'.warned = d.warned /\ cache'.lagging = d.lagging
         /\ cache'.last_read_ok
  <2>1. Lag(cache) \in [has_sample : BOOLEAN, last_read_ok : BOOLEAN, sampled_at : Int,
                        sampled_at_steady : 0..MaxTime, lagging : Int, warned : BOOLEAN]
    <3> DEFINE over == steady - cache.sampled_at_steady > StaleAfter
               m == IF over THEN cache.lagging + 1 ELSE 0
               w == over /\ m >= LagStreak
    <3>1. m \in Int /\ w \in BOOLEAN /\ cache.lagging \in Int
      BY <1>1
    <3>2. Lag(cache) = IF cache.has_sample /\ cache.last_read_ok /\ ~cache.warned
                         THEN [cache EXCEPT !.lagging = m, !.warned = w] ELSE cache
      BY DEF Lag
    <3> HIDE DEF m, w
    <3>3. QED
      BY <1>1, <3>1, <3>2
  <2>2. QED
    BY <2>1 DEF RefreshOk
<1>11. (cache.warned <=> \E i \in DOMAIN h : LagsIn(h, i))
  BY <1>3, WarnedIs DEF StreakInv
<1>12. CASE cache.warned
  <2>1. cache'.warned
    BY <1>10, <1>12 DEF Lag
  <2>2. \E i \in DOMAIN g : LagsIn(g, i)
    BY <1>7, <1>11, <1>12
  <2>3. QED
    BY <1>5, <2>1, <2>2, WarnedIs DEF StreakInv
<1>13. CASE ~cache.warned /\ ~cache.last_read_ok
  <2>1. cache'.lagging = 0 /\ ~cache'.warned
    BY <1>10, <1>13 DEF Lag, StreakInv
  <2>2. ASSUME NEW i \in DOMAIN g, LagsIn(g, i) PROVE FALSE
    <3>1. i \in 1..n /\ \A k \in i..n : h[k].ok
      BY <1>7, <1>11, <1>13, <2>2
    <3>2. n \in i..n /\ h # <<>>
      BY <1>4, <3>1
    <3>3. QED
      BY <1>8, <1>13, <3>1, <3>2
  <2>3. EndsLagging(g, 0)
    BY <1>4, <1>5, <1>6, <1>8, <1>13, StreakAppend
  <2>4. QED
    BY <1>5, <1>10, <2>1, <2>2, <2>3, WarnedIs DEF StreakInv
<1>14. CASE ~cache.warned /\ cache.last_read_ok
  <2>1. PICK lag \in Nat : lag = cache.lagging /\ lag < LagStreak
    BY <1>1, <1>14 DEF IInv, Bounds
  <2>2. EndsLagging(h, lag) /\ n = Len(h)
    BY <1>3, <1>4, <1>14, <2>1 DEF StreakInv
  <2>3. /\ lag < n
        /\ \A k \in (n - lag)..n : h[k].ok
        /\ \A k \in (n - lag)..(n - 1) : h[k + 1].at - h[k].at > StaleAfter
        /\ n - lag > 1 /\ h[n - lag - 1].ok => ~(h[n - lag].at - h[n - lag - 1].at > StaleAfter)
    BY <2>2 DEF EndsLagging
  <2>4. CASE ~(r.at - h[n].at > StaleAfter)
    <3>1. cache'.lagging = 0 /\ ~cache'.warned
      BY <1>1, <1>6, <1>9, <1>10, <1>14, <2>4 DEF Lag
    <3>2. \A i \in DOMAIN g : ~LagsIn(g, i)
      BY <1>7, <1>11, <1>14, <2>4
    <3>3. EndsLagging(g, 0)
      BY <1>4, <1>5, <1>6, <2>4, StreakAppend
    <3>4. QED
      BY <1>5, <1>10, <3>1, <3>2, <3>3, WarnedIs DEF StreakInv
  <2>5. CASE r.at - h[n].at > StaleAfter
    <3>1. cache'.lagging = lag + 1 /\ cache'.warned = (lag + 1 >= LagStreak)
      BY <1>1, <1>6, <1>9, <1>10, <1>14, <2>1, <2>5 DEF Lag
    <3>2. EndsLagging(g, lag + 1)
      BY <1>4, <1>5, <1>6, <2>2, <2>5, StreakAppend
    <3>3. PICK m \in 1..n : m = n - lag
      BY <2>3
    <3>4. CASE lag + 1 >= LagStreak
      <4>1. lag + 1 = LagStreak
        BY <1>1, <2>1, <3>4
      <4>2. /\ m \in DOMAIN g /\ m + LagStreak \in DOMAIN g /\ Len(g) = n + 1
            /\ m + LagStreak = n + 1 /\ m + LagStreak - 1 = n
        <5>1. DOMAIN g = 1..(n + 1) /\ Len(g) = n + 1
          BY <1>4, <1>5
        <5>2. m + LagStreak = n + 1 /\ m + LagStreak - 1 = n
          BY <3>3, <4>1
        <5>3. m \in 1..(n + 1) /\ n + 1 \in 1..(n + 1)
          OBVIOUS
        <5>4. QED
          BY <5>1, <5>2, <5>3
      <4>3. n + 1 - (lag + 1) = m /\ n + 1 - 1 = n
        BY <3>3
      <4>4. LagsIn(g, m)
        BY <3>2, <4>2, <4>3 DEF LagsIn, EndsLagging
      <4>5. QED
        BY <1>5, <3>1, <3>4, <4>2, <4>4, WarnedIs DEF StreakInv
    <3>5. CASE ~(lag + 1 >= LagStreak)
      <4>1. ASSUME NEW i \in DOMAIN g, LagsIn(g, i) PROVE FALSE
        <5>1. /\ i = n + 1 - LagStreak /\ i \in 1..n
              /\ \A k \in i..n : h[k].ok
              /\ \A k \in i..(n - 1) : h[k + 1].at - h[k].at > StaleAfter
          BY <1>7, <1>11, <1>14, <4>1
        <5>2. m - 1 \in i..n /\ m - 1 \in i..(n - 1) /\ m > 1 /\ m - 1 + 1 = m
          <6>1. \A a, b, c \in Nat : ~(a + 1 >= b) /\ c = n + 1 - b => n - a - 1 >= c
            OBVIOUS
          <6>2. m - 1 >= i
            BY <1>1, <3>3, <3>5, <5>1, <6>1
          <6>3. QED
            BY <3>3, <5>1, <6>2
        <5>3. h[m - 1].ok /\ h[m].at - h[m - 1].at > StaleAfter
          BY <5>1, <5>2
        <5>4. QED
          BY <2>3, <3>3, <5>2, <5>3
      <4>2. QED
        BY <1>5, <1>10, <3>1, <3>2, <3>5, <4>1, WarnedIs DEF StreakInv
    <3>6. QED
      BY <3>4, <3>5
  <2>6. QED
    BY <2>4, <2>5
<1>15. QED
  BY <1>1, <1>12, <1>13, <1>14

\* A refresh that fails ends the streak, and takes no warning back.
LEMMA StreakFailed ==
  ASSUME IInv, StreakInv, RefreshFailed
  PROVE  StreakInv'
<1>1. /\ history \in Seq(Refresh) /\ steady \in 0..MaxTime
      /\ cache \in [has_sample : BOOLEAN, last_read_ok : BOOLEAN, sampled_at : Int,
                    sampled_at_steady : 0..MaxTime, lagging : 0..LagStreak, warned : BOOLEAN]
  BY DEF IInv, TypeOK, Refresh
<1>2. PICK r \in Refresh : r = [ok |-> FALSE, at |-> steady]
  BY <1>1 DEF Refresh
<1>3. PICK h \in Seq(Refresh) : h = history
  BY <1>1
<1>4. PICK g : g = history' /\ g = Append(h, r)
  BY <1>2, <1>3 DEF RefreshFailed
<1>5. /\ \A i \in DOMAIN h : LagsIn(h, i) => i \in DOMAIN g /\ LagsIn(g, i)
      /\ \A i \in DOMAIN g : LagsIn(g, i) => (i \in DOMAIN h /\ LagsIn(h, i)) \/ r.ok
  BY <1>4, WindowAppend
<1>6. ~r.ok
  BY <1>2
<1>7. cache'.warned = cache.warned /\ cache'.lagging = 0 /\ ~cache'.last_read_ok
  BY <1>1 DEF RefreshFailed
<1>8. cache.warned <=> \E i \in DOMAIN h : LagsIn(h, i)
  BY <1>3, WarnedIs DEF StreakInv
<1>9. cache'.warned <=> \E i \in DOMAIN g : LagsIn(g, i)
  BY <1>5, <1>6, <1>7, <1>8
<1>10. QED
  BY <1>4, <1>7, <1>9, WarnedIs DEF StreakInv

\* The cadence warning is given exactly when LagStreak gaps running were too long,
\* for every cadence and every length of the streak, whatever the system clock did.
THEOREM WarnedWhenLagging == Spec => []WarnedIffLagging
<1>1. Init => StreakInv
  <2> SUFFICES ASSUME Init PROVE StreakInv
    OBVIOUS
  <2>1. ~cache.warned /\ ~cache.last_read_ok /\ cache.lagging = 0 /\ history = <<>>
    BY DEF Init
  <2>2. ~\E i \in DOMAIN history : LagsIn(history, i)
    BY <2>1
  <2>3. QED
    BY <2>1, <2>2, WarnedIs DEF StreakInv
<1>2. IInv /\ StreakInv /\ [Next]_vars => StreakInv'
  <2> SUFFICES ASSUME IInv, StreakInv, [Next]_vars PROVE StreakInv'
    OBVIOUS
  <2>1. CASE UNCHANGED <<cache, history>>
    BY <2>1, WarnedIs DEF StreakInv
  <2>2. CASE RefreshOk
    BY <2>2, StreakOk
  <2>3. CASE RefreshFailed
    BY <2>3, StreakFailed
  <2>4. QED
    BY <2>1, <2>2, <2>3 DEF Next, vars, Tick, StepClock, ReadCached, ReadRefresh,
                               CheckReturns
<1>3. StreakInv => WarnedIffLagging
  BY DEF StreakInv
<1>4. QED
  BY <1>1, <1>2, <1>3, Invariant, PTL DEF Spec
================================================================================
