---------------------------- MODULE MockValuesProofs ----------------------------
(***************************************************************************)
(* Proofs about the compensation values of the provider on its mock        *)
(* device: what one command does to the probe, what the passes of the      *)
(* adapters over the fields do, what check_compensation() makes of it, and *)
(* what remains true of every request and every call.                      *)
(*                                                                         *)
(* The inductive invariant keeps accounts: every value set is on the probe *)
(* as it was sent, or one loss is not yet answered by a re-send (Books);   *)
(* every value that nobody set, and every one read, is one rounding away   *)
(* from where it came from (Anchored); and after a check what was set is   *)
(* near what the probe holds (Steady).                                     *)
(*                                                                         *)
(* Records are described by their DOMAIN and their fields, and the         *)
(* descriptions are kept closed wherever a lemma is cited.                 *)
(***************************************************************************)
EXTENDS MockProviderProofs

\* A DeviceState of the canned bus.
Device(st) ==
  /\ DOMAIN st = {"family", "last_command", "pending_left", "calibration_level", "comp",
                  "salinity_ppt", "readings"}
  /\ st.pending_left \in 0..options.pending_reads /\ st.calibration_level \in Levels
  /\ st.comp \in [Comp -> Nat] /\ st.salinity_ppt \in BOOLEAN /\ st.readings \in Nat

\* The device, its options and its digits are among those configured.
Fit == Usable(options) /\ spec \in Configured /\ unit \in ReadUnits

\* As far as compensation goes nothing happened.
Kept(st, t) == /\ Device(t) /\ t.comp = st.comp /\ t.salinity_ppt = st.salinity_ppt
               /\ t.readings = st.readings /\ t.family = st.family

\* A value sent and read back.
Rounded(f, v) == Fixed(Fixed(v, Decimals[f]), unit[f])

\* Printing with a last digit d is to the nearest multiple of d, once and for all.
LEMMA FixedMultiples ==
  ASSUME NEW v \in Int, NEW d \in {1, 10, 100, 1000}
  PROVE  /\ Fixed(v, d) \in Int
         /\ Fixed(Fixed(v, d), d) = Fixed(v, d)
         /\ Apart(v, Fixed(v, d)) <= d \div 2
         /\ v >= 0 => Fixed(v, d) >= 0
  BY DEF Fixed, Apart

\* Rounding to one last digit and then to another, the coarser one wins.
LEMMA TwoRoundings ==
  ASSUME NEW v \in Int, NEW d \in {10, 100}, NEW u \in {1, 10, 100, 1000}
  PROVE  /\ Apart(v, Fixed(Fixed(v, d), u)) <= (d + u) \div 2
         /\ Fixed(Fixed(Fixed(v, d), u), d) = Fixed(Fixed(v, d), u)
<1>1. CASE d = 10 /\ u = 1
  BY <1>1 DEF Fixed, Apart
<1>2. CASE d = 10 /\ u = 10
  BY <1>2 DEF Fixed, Apart
<1>3. CASE d = 10 /\ u = 100
  BY <1>3 DEF Fixed, Apart
<1>4. CASE d = 10 /\ u = 1000
  BY <1>4 DEF Fixed, Apart
<1>5. CASE d = 100 /\ u = 1
  BY <1>5 DEF Fixed, Apart
<1>6. CASE d = 100 /\ u = 10
  BY <1>6 DEF Fixed, Apart
<1>7. CASE d = 100 /\ u = 100
  BY <1>7 DEF Fixed, Apart
<1>8. CASE d = 100 /\ u = 1000
  BY <1>8 DEF Fixed, Apart
<1>9. QED
  BY <1>1, <1>2, <1>3, <1>4, <1>5, <1>6, <1>7, <1>8

\* Sending a value and reading it back: an error within the tolerance of the
\* check, and the same again however often it is repeated.
LEMMA RoundedFacts ==
  ASSUME Fit, NEW f \in Comp, NEW v \in Int
  PROVE  /\ Rounded(f, v) \in Int
         /\ Apart(v, Rounded(f, v)) <= Rounding(f)
         /\ Rounding(f) \in Nat /\ Rounding(f) <= Tolerance[f] /\ Tolerance[f] \in Nat
         /\ v >= 0 => Rounded(f, v) >= 0
         /\ Fixed(v, Decimals[f]) \in Int /\ (v >= 0 => Fixed(v, Decimals[f]) >= 0)
         /\ Fixed(Rounded(f, v), Decimals[f]) = Rounded(f, v)
         /\ Rounded(f, Rounded(f, v)) = Rounded(f, v)
         /\ Rounded(f, Fixed(v, Decimals[f])) = Rounded(f, v)
<1>1. unit[f] \in IF f = "S" THEN {1, 10, 100, 1000} ELSE {1, 10, 100}
  BY MockAssumption DEF MockAssumption, Fit, LastDigits
<1>2. /\ Decimals[f] = IF f = "S" THEN 100 ELSE 10
      /\ Tolerance[f] = IF f = "S" THEN 1000 ELSE 60
  BY DEF Decimals, Tolerance, Comp
<1>3. Rounding(f) \in Nat /\ Rounding(f) <= Tolerance[f] /\ Tolerance[f] \in Nat
  BY <1>1, <1>2 DEF Rounding
<1> DEFINE d == Decimals[f]
           u == unit[f]
<1>4. d \in {10, 100} /\ d \in {1, 10, 100, 1000} /\ u \in {1, 10, 100, 1000}
  BY <1>1, <1>2
<1>5. Rounding(f) = (d + u) \div 2
  BY DEF Rounding
<1> HIDE DEF d, u
<1>6. PICK w \in Int : w = Fixed(v, d) /\ Fixed(w, d) = w /\ (v >= 0 => w >= 0)
  BY <1>4, FixedMultiples
<1>7. PICK r \in Int : r = Fixed(w, u) /\ Fixed(r, u) = r /\ (w >= 0 => r >= 0)
  BY <1>4, FixedMultiples
<1>8. Apart(v, r) <= (d + u) \div 2 /\ Fixed(r, d) = r
  BY <1>4, <1>6, <1>7, TwoRoundings
<1>9. QED
  BY <1>3, <1>5, <1>6, <1>7, <1>8 DEF Rounded, d, u
-------------------------------------------------------------------------------
(* What one command does to the probe.                                     *)

\* Commands for a value are not the empty one a probe starts with.
LEMMA NotNoText == \A f \in Comp : f # NoText
  BY Zenon DEF Comp, NoText

\* A command as the adapters write them: a value is a natural number.
Sendable(cmd) == cmd.verb \in Comp => cmd.num \in Nat

\* Calibration does not count beyond the levels there are.
LEMMA LevelAfterInLevels ==
  ASSUME Fit, NEW st, Device(st), NEW cmd
  PROVE  LevelAfter(st, cmd) \in Levels
<1>1. st.calibration_level \in Levels /\ options.calibration_level \in Nat
  BY DEF Device, Fit, Usable
<1>2. 0 \in Levels /\ 1 \in Levels /\ 2 \in Levels /\ 3 \in Levels
  BY DEF Levels
<1>3. st.calibration_level \in Nat
  BY <1>1 DEF Levels
<1>4. st.calibration_level < 2 => st.calibration_level + 1 \in Levels
  BY <1>3 DEF Levels
<1>5. QED
  BY <1>1, <1>2, <1>4 DEF LevelAfter

\* Whether the command sets a compensation value.
Sets(cmd) == cmd # options.status_command /\ cmd.verb \in Comp /\ cmd.arg # "?"

\* What record_command makes of state st.
Recorded(st, cmd, w) ==
  /\ Device(w) /\ w.last_command = cmd
  /\ w.family = st.family /\ w.readings = st.readings
  /\ ~Sets(cmd) => w.comp = st.comp /\ w.salinity_ppt = st.salinity_ppt
  /\ Sets(cmd) => /\ w.comp = [st.comp EXCEPT ![cmd.verb] = cmd.num]
                  /\ w.salinity_ppt = IF cmd.verb = "S" THEN cmd.arg = "ppt"
                                      ELSE st.salinity_ppt

\* record_command keeps a DeviceState one, and touches only the value it sets.
LEMMA RecordFacts ==
  ASSUME Fit, NEW st, Device(st), NEW cmd, Sendable(cmd)
  PROVE  Recorded(st, cmd, RecordCommand(options, st, cmd))
<1> DEFINE left == IF cmd = options.pending_command THEN options.pending_reads ELSE 0
           noted == [st EXCEPT !.last_command = cmd, !.pending_left = left]
           w == RecordCommand(options, st, cmd)
<1>1. left \in 0..options.pending_reads
  BY DEF Fit, Usable
<1> HIDE DEF left
<1>2. /\ Device(noted) /\ noted.last_command = cmd /\ noted.family = st.family
      /\ noted.readings = st.readings /\ noted.comp = st.comp
      /\ noted.salinity_ppt = st.salinity_ppt
  BY <1>1 DEF Device, Sendable
<1> HIDE DEF noted
<1>3. CASE Sets(cmd)
  <2>1. PICK ppt \in BOOLEAN : ppt = IF cmd.verb = "S" THEN cmd.arg = "ppt" ELSE st.salinity_ppt
    BY DEF Device
  <2>2. PICK comp \in [Comp -> Nat] : comp = [st.comp EXCEPT ![cmd.verb] = cmd.num]
    BY <1>3 DEF Device, Sendable, Sets
  <2>3. w = [noted EXCEPT !.comp = comp, !.salinity_ppt = ppt]
    BY <1>2, <1>3, <2>1, <2>2 DEF RecordCommand, Sets, noted, left
  <2>4. Device(w) /\ w.comp = comp /\ w.salinity_ppt = ppt /\ w.last_command = cmd
        /\ w.family = noted.family /\ w.readings = noted.readings
    BY <1>2, <2>3 DEF Device
  <2>5. QED
    BY <1>2, <1>3, <2>1, <2>2, <2>4 DEF Recorded
<1>4. CASE ~Sets(cmd)
  <2>1. PICK level \in Levels : level = LevelAfter(st, cmd)
    BY LevelAfterInLevels
  <2>2. w = noted \/ w = [noted EXCEPT !.calibration_level = level]
    BY <1>4, <2>1 DEF RecordCommand, Sets, noted, left
  <2>3. Device([noted EXCEPT !.calibration_level = level])
    BY <1>2 DEF Device
  <2>4. QED
    BY <1>2, <1>4, <2>2, <2>3 DEF Recorded, Device
<1>5. QED
  BY <1>3, <1>4

\* An exchange: its last read finds the probe w as the command left it, but for
\* the reads it was still busy at.
LEMMA ExchangeFacts ==
  ASSUME Fit, NEW st, Device(st), NEW cmd, Sendable(cmd), NEW reads \in Nat \ {0}
  PROVE  LET x == Exchange(options, st, cmd, reads)
             w == RecordCommand(options, st, cmd)
         IN \E n \in 0..options.pending_reads :
              LET t == [w EXCEPT !.pending_left = n]
              IN /\ x.code = 1 => /\ cmd = NoCmd \/ cmd # options.status_command
                                  /\ x.payload = Payload(t)
                                  /\ x.st = IF cmd.verb = "r" THEN AfterReading(options, t) ELSE t
                 /\ x.code # 1 => x.st = t
<1> DEFINE w == RecordCommand(options, st, cmd)
           skipped == IF w.pending_left < reads THEN w.pending_left ELSE reads - 1
           left == w.pending_left - skipped
           t == [w EXCEPT !.pending_left = left]
           x == Exchange(options, st, cmd, reads)
<1>0. Recorded(st, cmd, w)
  BY RecordFacts
<1>1. Device(w) /\ w.last_command = cmd
  BY <1>0 DEF Recorded
<1> HIDE DEF w
<1>2. left \in 0..options.pending_reads /\ options.pending_reads \in Nat
  BY <1>1 DEF Device, Fit, Usable
<1>3. x = AnswerRead(options, t)
  BY DEF Exchange, w
<1>4. t.last_command = cmd /\ t.pending_left = left
  BY <1>1 DEF Device
<1> HIDE DEF left, x
<1>5. CASE cmd # NoCmd /\ cmd = options.status_command
  <2>1. x = [st |-> t, code |-> options.status_code, payload |-> 0]
    BY <1>3, <1>4, <1>5 DEF AnswerRead
  <2>2. x.st = t /\ x.code # 1
    BY <2>1 DEF Fit, Usable
  <2>3. QED
    BY <1>2, <2>2 DEF w, x
<1>6. CASE ~(cmd # NoCmd /\ cmd = options.status_command) /\ left > 0
  <2>1. x = [st |-> [t EXCEPT !.pending_left = left - 1], code |-> 254, payload |-> 0]
    BY <1>3, <1>4, <1>6 DEF AnswerRead
  <2>2. [t EXCEPT !.pending_left = left - 1] = [w EXCEPT !.pending_left = left - 1]
    BY <1>1 DEF Device
  <2>3. x.st = [w EXCEPT !.pending_left = left - 1] /\ x.code # 1
    BY <2>1, <2>2
  <2>4. left - 1 \in 0..options.pending_reads
    BY <1>2, <1>6
  <2>5. QED
    BY <2>3, <2>4 DEF w, x
<1>7. CASE ~(cmd # NoCmd /\ cmd = options.status_command) /\ ~(left > 0)
  <2>1. x = [st |-> IF cmd.verb = "r" THEN AfterReading(options, t) ELSE t,
             code |-> 1, payload |-> Payload(t)]
    BY <1>3, <1>4, <1>7 DEF AnswerRead
  <2>2. /\ x.st = IF cmd.verb = "r" THEN AfterReading(options, t) ELSE t
        /\ x.code = 1 /\ x.payload = Payload(t)
    BY <2>1
  <2>3. QED
    BY <1>2, <1>7, <2>2 DEF w, x
<1>8. QED
  BY <1>5, <1>6, <1>7

\* A command that sets nothing and reads no sample.
LEMMA PlainExchange ==
  ASSUME Fit, NEW st, Device(st), NEW cmd, Sendable(cmd), ~Sets(cmd), cmd.verb # "r",
         NEW reads \in Nat \ {0}
  PROVE  Kept(st, Exchange(options, st, cmd, reads).st)
<1> DEFINE x == Exchange(options, st, cmd, reads)
           w == RecordCommand(options, st, cmd)
<1>1. PICK n \in 0..options.pending_reads : x.st = [w EXCEPT !.pending_left = n]
  BY ExchangeFacts
<1>2. Recorded(st, cmd, w)
  BY RecordFacts
<1> HIDE DEF x, w
<1>3. Kept(st, x.st)
  BY <1>1, <1>2 DEF Kept, Device, Recorded
<1>4. QED
  BY <1>3 DEF x

\* The query of a value.
LEMMA QueryExchange ==
  ASSUME Fit, NEW st, Device(st), NEW f \in Comp
  PROVE  LET x == Query(st, Cmd(f, "?", 0))
         IN /\ Kept(st, x.st)
            /\ x.code = 1 => x.payload = Fixed(st.comp[f], Decimals[f])
<1> DEFINE cmd == Cmd(f, "?", 0)
           x == Query(st, cmd)
           w == RecordCommand(options, st, cmd)
<1>1. /\ cmd.verb = f /\ cmd.arg = "?" /\ cmd.num = 0
      /\ f # "r" /\ f \notin {"i", "O", "Cal"}
  BY DEF Cmd, Comp
<1> HIDE DEF cmd
<1>2. Sendable(cmd) /\ ~Sets(cmd) /\ x = Exchange(options, st, cmd, 1)
  BY <1>1 DEF Sendable, Sets, Query
<1> HIDE DEF x
<1>3. Kept(st, x.st)
  BY <1>1, <1>2, PlainExchange
<1>4. ASSUME x.code = 1 PROVE x.payload = Fixed(st.comp[f], Decimals[f])
  <2>1. PICK n \in 0..options.pending_reads : x.payload = Payload([w EXCEPT !.pending_left = n])
    BY <1>2, <1>4, ExchangeFacts
  <2>0. Recorded(st, cmd, w)
    BY <1>2, RecordFacts
  <2>2. Device(w) /\ w.last_command = cmd /\ w.comp = st.comp
    BY <1>2, <2>0 DEF Recorded
  <2> HIDE DEF w
  <2> DEFINE t == [w EXCEPT !.pending_left = n]
  <2>3. t.last_command = cmd /\ t.comp = st.comp
    BY <2>2 DEF Device
  <2> HIDE DEF t
  <2>4. Payload(t) = Fixed(st.comp[f], Decimals[f])
    BY <1>1, <2>3 DEF Payload
  <2>5. QED
    BY <2>1, <2>4 DEF t
<1>5. QED
  BY <1>3, <1>4 DEF x, cmd

\* A value sent: it is held if the probe said so, and otherwise may be.
LEMMA SetExchange ==
  ASSUME Fit, NEW st, Device(st), NEW f \in Comp, NEW v \in Nat
  PROVE  LET x == Command(st, SetCommand(f, v))
             taken == [st.comp EXCEPT ![f] = Fixed(v, Decimals[f])]
         IN /\ Device(x.st) /\ x.st.family = st.family /\ x.st.readings = st.readings
            /\ x.st.comp \in {st.comp, taken}
            /\ x.st.salinity_ppt => st.salinity_ppt
            /\ x.code = 1 => x.st.comp = taken /\ (f = "S" => ~x.st.salinity_ppt)
<1> DEFINE cmd == SetCommand(f, v)
           x == Command(st, cmd)
           w == RecordCommand(options, st, cmd)
           num == Fixed(v, Decimals[f])
           taken == [st.comp EXCEPT ![f] = num]
<1>1. num \in Nat
  BY RoundedFacts
<1> HIDE DEF num
<1>2. cmd = [verb |-> f, arg |-> IF f = "S" THEN "uS" ELSE "set", num |-> num]
  BY DEF SetCommand, Cmd, num
<1>3. /\ cmd.verb = f /\ cmd.num = num /\ cmd.arg # "?" /\ cmd.arg # "ppt"
      /\ f # "r"
  BY <1>1, <1>2 DEF Comp
<1>4. cmd # NoCmd
  BY <1>3, NotNoText DEF NoCmd, Cmd
<1> HIDE DEF cmd
<1>5. Sendable(cmd) /\ x = Exchange(options, st, cmd, Rereads) /\ Rereads \in Nat \ {0}
  BY <1>1, <1>3 DEF Sendable, Command, Rereads
<1> HIDE DEF x
<1>6. PICK n \in 0..options.pending_reads :
        /\ x.st = [w EXCEPT !.pending_left = n]
        /\ x.code = 1 => cmd # options.status_command
  BY <1>3, <1>4, <1>5, ExchangeFacts
<1>7. /\ Device(w) /\ w.family = st.family /\ w.readings = st.readings
      /\ w.comp = IF cmd # options.status_command THEN taken ELSE st.comp
      /\ w.salinity_ppt => st.salinity_ppt
      /\ f = "S" /\ cmd # options.status_command => ~w.salinity_ppt
  <2>0. Recorded(st, cmd, w)
    BY <1>5, RecordFacts
  <2>1. Sets(cmd) <=> cmd # options.status_command
    BY <1>3 DEF Sets
  <2>2. CASE Sets(cmd)
    BY <1>3, <2>0, <2>1, <2>2 DEF Recorded
  <2>3. CASE ~Sets(cmd)
    BY <1>3, <2>0, <2>1, <2>3 DEF Recorded
  <2>4. QED
    BY <2>2, <2>3
<1> HIDE DEF w, taken
<1>8. /\ Device(x.st) /\ x.st.family = w.family /\ x.st.readings = w.readings
      /\ x.st.comp = w.comp /\ x.st.salinity_ppt = w.salinity_ppt
  BY <1>6, <1>7 DEF Device
<1>9. QED
  BY <1>6, <1>7, <1>8 DEF x, cmd, taken, num

\* The resets so far.
Gone(st) == IF options.revert_after > 0 /\ st.readings >= options.revert_after THEN 1 ELSE 0

\* A sample: the reading may be the one that resets the compensation.
Aged(st, t) ==
  /\ Device(t) /\ t.family = st.family /\ t.salinity_ppt = st.salinity_ppt
  /\ t.readings >= st.readings
  /\ \/ t.comp = st.comp
     \/ t.comp = DefaultsOf(st.family) /\ Gone(st) = 0 /\ Gone(t) = 1

\* The n-th reading resets, the others do not.
LEMMA AfterReadingAges ==
  ASSUME Fit, NEW st, Device(st)
  PROVE  Aged(st, AfterReading(options, st))
<1> DEFINE t == AfterReading(options, st)
           reset == st.readings + 1 = options.revert_after
<1>1. st.readings \in Nat /\ options.revert_after \in Nat
  BY DEF Device, Fit, Usable
<1>2. CASE options.revert_after = 0 \/ st.readings > options.revert_after
  <2>1. t = st
    BY <1>2 DEF AfterReading
  <2>2. QED
    BY <1>1, <2>1 DEF Aged
<1>3. CASE ~(options.revert_after = 0 \/ st.readings > options.revert_after)
  <2>1. DefaultsOf(st.family) \in [Comp -> Nat]
    BY DEF DefaultsOf, Comp
  <2>2. PICK comp \in [Comp -> Nat] : comp = IF reset THEN DefaultsOf(st.family) ELSE st.comp
    BY <2>1 DEF Device
  <2>3. t = [st EXCEPT !.readings = st.readings + 1, !.comp = comp]
    BY <1>3, <2>2 DEF AfterReading, Device
  <2> HIDE DEF t
  <2>4. /\ Device(t) /\ t.family = st.family /\ t.salinity_ppt = st.salinity_ppt
        /\ t.readings = st.readings + 1 /\ t.comp = comp
    BY <1>1, <2>3 DEF Device
  <2>5. reset => Gone(st) = 0 /\ Gone(t) = 1
    BY <1>1, <1>3, <2>4 DEF Gone
  <2>6. Aged(st, t)
    BY <1>1, <2>2, <2>4, <2>5 DEF Aged
  <2>7. QED
    BY <2>6 DEF t
<1>4. QED
  BY <1>2, <1>3

\* R: a reading that fails changes no value.
LEMMA ReadingExchange ==
  ASSUME Fit, NEW st, Device(st)
  PROVE  LET x == Query(st, Cmd("r", NoText, 0))
         IN Aged(st, x.st) /\ (x.code # 1 => Kept(st, x.st))
<1> DEFINE cmd == Cmd("r", NoText, 0)
           x == Query(st, cmd)
           w == RecordCommand(options, st, cmd)
<1>1. cmd.verb = "r" /\ "r" \notin Comp
  BY DEF Cmd, Comp
<1> HIDE DEF cmd
<1>2. Sendable(cmd) /\ ~Sets(cmd) /\ x = Exchange(options, st, cmd, 1)
  BY <1>1 DEF Sendable, Sets, Query
<1> HIDE DEF x
<1>3. PICK n \in 0..options.pending_reads :
        LET t == [w EXCEPT !.pending_left = n]
        IN x.st = IF x.code = 1 THEN AfterReading(options, t) ELSE t
  BY <1>1, <1>2, ExchangeFacts
<1> DEFINE t == [w EXCEPT !.pending_left = n]
<1>4. Recorded(st, cmd, w)
  BY <1>2, RecordFacts
<1> HIDE DEF w
<1>5. Kept(st, t)
  BY <1>2, <1>4 DEF Kept, Device, Recorded
<1>6. x.st = IF x.code = 1 THEN AfterReading(options, t) ELSE t
  BY <1>3
<1> HIDE DEF t
<1>7. Aged(t, AfterReading(options, t)) /\ Gone(t) = Gone(st)
  BY <1>5, AfterReadingAges DEF Kept, Gone
<1>8. Aged(st, x.st) /\ (x.code # 1 => Kept(st, x.st))
  <2>1. CASE x.code = 1
    BY <1>5, <1>6, <1>7, <2>1 DEF Aged, Kept
  <2>2. CASE x.code # 1
    <3>1. x.st = t /\ t.readings >= st.readings
      BY <1>5, <1>6, <2>2 DEF Kept, Device
    <3>2. QED
      BY <1>5, <3>1 DEF Kept, Aged
  <2>3. QED
    BY <2>1, <2>2
<1>9. QED
  BY <1>8 DEF x, cmd
-------------------------------------------------------------------------------
(* The passes of the adapters over the fields.                             *)

\* The fields an adapter sends and queries.
Fields == IF spec.type = "Do" THEN {"T", "S", "P"} ELSE {"T"}

\* Of state st, r is what sending the values of the fields in F leads to.
Wrote(st, values, F, r) ==
  /\ r.ok \in BOOLEAN /\ Device(r.st)
  /\ r.st.family = st.family /\ r.st.readings = st.readings
  /\ r.st.salinity_ppt => st.salinity_ppt
  /\ \A f \in Comp : \/ r.st.comp[f] = st.comp[f]
                     \/ /\ f \in F /\ values[f] # Unset
                        /\ r.st.comp[f] = Fixed(values[f], Decimals[f])
  /\ r.ok => \A f \in F : values[f] # Unset =>
               /\ r.st.comp[f] = Fixed(values[f], Decimals[f])
               /\ f = "S" => ~r.st.salinity_ppt

\* One more field of write_compensation.
LEMMA SentFacts ==
  ASSUME Fit, NEW st, NEW values \in [Comp -> Optional], NEW F \in SUBSET Comp,
         NEW r, Wrote(st, values, F, r), NEW f \in Comp \ F
  PROVE  Wrote(st, values, F \cup {f}, Sent(r, f, values))
<1>1. CASE ~r.ok \/ values[f] = Unset
  <2>1. Sent(r, f, values) = r
    BY <1>1 DEF Sent
  <2>2. Wrote(st, values, F \cup {f}, r)
    BY <1>1 DEF Wrote
  <2>3. QED
    BY <2>1, <2>2
<1>2. CASE ~(~r.ok \/ values[f] = Unset)
  <2> DEFINE v == values[f]
             x == Command(r.st, SetCommand(f, v))
             taken == [r.st.comp EXCEPT ![f] = Fixed(v, Decimals[f])]
             s == Sent(r, f, values)
  <2>1. v \in Nat
    BY <1>2 DEF Optional
  <2> HIDE DEF v
  <2>2. /\ Device(x.st) /\ x.st.family = r.st.family /\ x.st.readings = r.st.readings
        /\ x.st.comp \in {r.st.comp, taken}
        /\ x.st.salinity_ppt => r.st.salinity_ppt
        /\ x.code = 1 => x.st.comp = taken /\ (f = "S" => ~x.st.salinity_ppt)
    BY <2>1, SetExchange DEF Wrote
  <2>3. s = Took(x)
    BY <1>2 DEF Sent, v
  <2>4. s.st = x.st /\ s.ok = (x.code = 1)
    BY <2>3 DEF Took
  <2> HIDE DEF x, s
  <2>5. r.st.comp \in [Comp -> Nat] /\ r.ok
    BY <1>2 DEF Wrote, Device
  <2>6. /\ taken[f] = Fixed(v, Decimals[f])
        /\ \A g \in Comp \ {f} : taken[g] = r.st.comp[g]
    BY <2>5
  <2> HIDE DEF taken
  <2>7. v # Unset
    BY <1>2 DEF v
  <2>8. \A g \in Comp : \/ s.st.comp[g] = st.comp[g]
                        \/ /\ g \in F \cup {f} /\ values[g] # Unset
                           /\ s.st.comp[g] = Fixed(values[g], Decimals[g])
    BY <2>2, <2>4, <2>6, <2>7 DEF Wrote, v
  <2>9. ASSUME s.ok, NEW g \in F \cup {f}, values[g] # Unset
        PROVE  s.st.comp[g] = Fixed(values[g], Decimals[g]) /\ (g = "S" => ~s.st.salinity_ppt)
    <3>1. CASE g = f
      BY <2>2, <2>4, <2>6, <2>9, <3>1 DEF v
    <3>2. CASE g # f
      BY <2>2, <2>4, <2>5, <2>6, <2>9, <3>2 DEF Wrote
    <3>3. QED
      BY <3>1, <3>2
  <2>10. Wrote(st, values, F \cup {f}, s)
    BY <2>2, <2>4, <2>8, <2>9 DEF Wrote
  <2>11. QED
    BY <2>10 DEF s
<1>3. QED
  BY <1>1, <1>2

\* write_compensation: what was refused stops the rest, what was taken is held.
LEMMA WriteFacts ==
  ASSUME Fit, NEW st, Device(st), NEW values \in [Comp -> Optional]
  PROVE  Wrote(st, values, Fields, WriteCompensation(st, values))
<1> DEFINE r == [st |-> st, ok |-> TRUE]
           t == Sent(r, "T", values)
           s == Sent(t, "S", values)
           p == Sent(s, "P", values)
<1>1. Wrote(st, values, {}, r)
  <2>1. r.st = st /\ r.ok
    OBVIOUS
  <2> HIDE DEF r
  <2>2. PICK ok \in BOOLEAN : ok = r.ok
    BY <2>1
  <2>3. QED
    BY <2>1, <2>2 DEF Wrote
<1> HIDE DEF r
<1>2. Wrote(st, values, {} \cup {"T"}, t)
  BY <1>1, SentFacts DEF Comp
<1>3. Wrote(st, values, {"T"}, t)
  BY <1>2
<1> HIDE DEF t
<1>4. Wrote(st, values, {"T"} \cup {"S"}, s)
  BY <1>3, SentFacts DEF Comp
<1>5. Wrote(st, values, {"T", "S"}, s)
  <2>1. {"T"} \cup {"S"} = {"T", "S"}
    OBVIOUS
  <2>2. QED
    BY <1>4, <2>1
<1> HIDE DEF s
<1>6. Wrote(st, values, {"T", "S"} \cup {"P"}, p)
  BY <1>5, SentFacts DEF Comp
<1>7. Wrote(st, values, {"T", "S", "P"}, p)
  <2>1. {"T", "S"} \cup {"P"} = {"T", "S", "P"}
    OBVIOUS
  <2>2. QED
    BY <1>6, <2>1
<1> HIDE DEF p
<1>8. WriteCompensation(st, values) = IF spec.type = "Do" THEN p ELSE t
  BY DEF WriteCompensation, p, s, t, r
<1>9. QED
  BY <1>3, <1>7, <1>8 DEF Fields

\* What a probe reports of a field; a salinity in ppt is no value.
Seen(st, f) == IF f = "S" /\ st.salinity_ppt THEN Unset ELSE Rounded(f, st.comp[f])

\* What a probe reports is a natural number or nothing.
LEMMA SeenOptional ==
  ASSUME Fit, NEW st, Device(st), NEW f \in Comp
  PROVE  Seen(st, f) \in Optional
<1>1. st.comp[f] \in Int /\ st.comp[f] >= 0
  BY DEF Device
<1>2. Rounded(f, st.comp[f]) \in Nat
  BY <1>1, RoundedFacts
<1>3. QED
  BY <1>2 DEF Seen, Optional

\* Of state st, r is what querying the fields in F leads to.
HasRead(st, F, r) ==
  /\ r.ok \in BOOLEAN /\ Kept(st, r.st)
  /\ r.ok => r.values = [f \in Comp |-> IF f \in F THEN Seen(st, f) ELSE Unset]

\* One more field of read_compensation.
LEMMA AskedFacts ==
  ASSUME Fit, NEW st, Device(st), NEW F \in SUBSET Comp, NEW r, HasRead(st, F, r),
         NEW f \in Comp \ F
  PROVE  HasRead(st, F \cup {f}, Asked(r, f))
<1>1. CASE ~r.ok
  <2>1. Asked(r, f) = r
    BY <1>1 DEF Asked
  <2>2. QED
    BY <1>1, <2>1 DEF HasRead
<1>2. CASE r.ok
  <2> DEFINE x == Query(r.st, Cmd(f, "?", 0))
             a == Asked(r, f)
  <2>1. Kept(st, r.st) /\ Device(r.st)
    BY DEF HasRead, Kept
  <2>2. Kept(r.st, x.st) /\ (x.code = 1 => x.payload = Fixed(r.st.comp[f], Decimals[f]))
    BY <2>1, QueryExchange
  <2>3. a = Gained(r, f, x)
    BY <1>2 DEF Asked
  <2> HIDE DEF x, a
  <2>4. PICK got : got = IF f = "S" /\ x.st.salinity_ppt THEN Unset ELSE Fixed(x.payload, unit[f])
    OBVIOUS
  <2>5. /\ a.st = x.st /\ a.ok = (x.code = 1) /\ a.values = [r.values EXCEPT ![f] = got]
    BY <2>3, <2>4 DEF Gained
  <2>6. Kept(st, a.st)
    BY <2>1, <2>2, <2>5 DEF Kept
  <2>7. ASSUME x.code = 1 PROVE got = Seen(st, f)
    BY <2>1, <2>2, <2>4, <2>7 DEF Kept, Seen, Rounded
  <2>8. r.values = [g \in Comp |-> IF g \in F THEN Seen(st, g) ELSE Unset]
    BY <1>2 DEF HasRead
  <2>9. ASSUME a.ok
        PROVE  a.values = [g \in Comp |-> IF g \in F \cup {f} THEN Seen(st, g) ELSE Unset]
    BY <2>5, <2>7, <2>8, <2>9
  <2>10. HasRead(st, F \cup {f}, a)
    BY <2>5, <2>6, <2>9 DEF HasRead
  <2>11. QED
    BY <2>10 DEF a
<1>3. QED
  BY <1>1, <1>2 DEF HasRead

\* read_compensation.
LEMMA ReadFacts ==
  ASSUME Fit, NEW st, Device(st)
  PROVE  HasRead(st, Fields, ReadCompensation(st))
<1> DEFINE r == [st |-> st, ok |-> TRUE, values |-> Nothing]
           t == Asked(r, "T")
           s == Asked(t, "S")
           p == Asked(s, "P")
<1>1. HasRead(st, {}, r)
  <2>1. r.st = st /\ r.ok /\ r.values = Nothing
    OBVIOUS
  <2> HIDE DEF r
  <2>2. PICK ok \in BOOLEAN : ok = r.ok
    BY <2>1
  <2>3. r.values = [f \in Comp |-> IF f \in {} THEN Seen(st, f) ELSE Unset]
    BY <2>1 DEF Nothing
  <2>4. QED
    BY <2>1, <2>2, <2>3 DEF HasRead, Kept
<1> HIDE DEF r
<1>2. HasRead(st, {} \cup {"T"}, t)
  BY <1>1, AskedFacts DEF Comp
<1>3. HasRead(st, {"T"}, t)
  BY <1>2
<1> HIDE DEF t
<1>4. HasRead(st, {"T"} \cup {"S"}, s)
  BY <1>3, AskedFacts DEF Comp
<1>5. HasRead(st, {"T", "S"}, s)
  <2>1. {"T"} \cup {"S"} = {"T", "S"}
    OBVIOUS
  <2>2. QED
    BY <1>4, <2>1
<1> HIDE DEF s
<1>6. HasRead(st, {"T", "S"} \cup {"P"}, p)
  BY <1>5, AskedFacts DEF Comp
<1>7. HasRead(st, {"T", "S", "P"}, p)
  <2>1. {"T", "S"} \cup {"P"} = {"T", "S", "P"}
    OBVIOUS
  <2>2. QED
    BY <1>6, <2>1
<1> HIDE DEF p
<1>8. ReadCompensation(st) = IF spec.type = "Do" THEN p ELSE t
  BY DEF ReadCompensation, p, s, t, r
<1>9. QED
  BY <1>3, <1>7, <1>8 DEF Fields
-------------------------------------------------------------------------------
(* The invariant, of a state st of the probe, the record d of the device    *)
(* and the history g.                                                       *)

\* An ActiveDevice; only what its adapter can send is ever set.
Entry(d) ==
  /\ DOMAIN d = {"phase", "set", "read", "level", "successes", "reapplied"}
  /\ d.phase \in {"down", "up"} /\ d.level \in SUBSET Levels
  /\ d.set \in [Comp -> Optional] /\ d.read \in [Comp -> Optional]
  /\ d.successes \in 0..(CheckEvery - 1) /\ d.reapplied \in Nat
  /\ \A f \in Comp : d.set[f] # Unset => Adjustable /\ f \in Fields

\* Every value set is on the probe, as it was sent.
Held(st, d) ==
  \A f \in Comp : d.set[f] # Unset =>
    st.comp[f] = Fixed(d.set[f], Decimals[f]) /\ (f = "S" => ~st.salinity_ppt)

\* A loss that no re-send has answered yet is still owed one.
Books(st, d, cut) == d.reapplied + (IF Held(st, d) THEN 0 ELSE 1) <= Gone(st) + cut

\* Every value set is in force, up to the tolerance and the rounding.
Near(st, d) ==
  \A f \in Comp : d.set[f] # Unset =>
    Apart(d.set[f], st.comp[f]) <= Tolerance[f] + Rounding(f)

\* Where a value that nobody set may have come from.
Origins(st, g, f) ==
  {g.start[f]} \cup {v \in {DefaultsOf(st.family)[f]} : Gone(st) = 1 \/ f \in g.unread}

\* As long as no pass was cut short, such a value is there as it came, or rounded.
Anchored(st, d, g) ==
  g.cut = 0 => \A f \in Comp : d.set[f] = Unset =>
    /\ \E v \in Origins(st, g, f) : st.comp[f] = v \/ st.comp[f] = Rounded(f, v)
    /\ d.read[f] # Unset => \E v \in Origins(st, g, f) : d.read[f] = Rounded(f, v)

\* The part of the invariant that every request keeps.
Good(st, d, g) ==
  /\ Device(st) /\ Entry(d) /\ g.cut \in Nat /\ g.start \in [Comp -> Nat]
  /\ Books(st, d, g.cut) /\ Anchored(st, d, g)

\* A value comes from a natural number.
LEMMA OriginsNat ==
  ASSUME NEW st, NEW g, g.start \in [Comp -> Nat], NEW f \in Comp
  PROVE  Origins(st, g, f) \subseteq Nat
<1>1. DefaultsOf(st.family)[f] \in Nat
  BY DEF DefaultsOf, Comp
<1>2. QED
  BY <1>1 DEF Origins

\* Values that the probe holds read back as held.
LEMMA HeldReadsBack ==
  ASSUME Fit, NEW st, Device(st), NEW d, Entry(d), Held(st, d),
         NEW r, HasRead(st, Fields, r), r.ok
  PROVE  HoldsAll(d.set, r.values)
<1> SUFFICES ASSUME NEW f \in Comp, d.set[f] # Unset
             PROVE  r.values[f] # Unset /\ Apart(d.set[f], r.values[f]) <= Tolerance[f]
  BY DEF HoldsAll, Holds
<1> DEFINE v == d.set[f]
<1>1. v \in Nat /\ f \in Fields
  BY DEF Entry, Optional
<1>2. st.comp[f] = Fixed(v, Decimals[f]) /\ (f = "S" => ~st.salinity_ppt)
  BY DEF Held
<1>3. r.values[f] = Rounded(f, st.comp[f])
  BY <1>1, <1>2 DEF HasRead, Seen
<1> HIDE DEF v
<1>4. /\ r.values[f] = Rounded(f, v) /\ Rounded(f, v) \in Int /\ Rounded(f, v) >= 0
      /\ Apart(v, Rounded(f, v)) <= Rounding(f)
      /\ Rounding(f) \in Nat /\ Rounding(f) <= Tolerance[f] /\ Tolerance[f] \in Nat
  BY <1>1, <1>2, <1>3, RoundedFacts
<1>5. Apart(v, Rounded(f, v)) \in Int
  BY <1>1, <1>4 DEF Apart
<1>6. Apart(v, r.values[f]) <= Tolerance[f] /\ r.values[f] # Unset
  BY <1>4, <1>5 DEF Unset
<1>7. QED
  BY <1>6 DEF v

\* What was read is near what is held.
LEMMA ReadIsNear ==
  ASSUME Fit, NEW st, Device(st), NEW d, Entry(d),
         NEW r, HasRead(st, Fields, r), r.ok, HoldsAll(d.set, r.values)
  PROVE  Near(st, d)
<1> SUFFICES ASSUME NEW f \in Comp, d.set[f] # Unset
             PROVE  Apart(d.set[f], st.comp[f]) <= Tolerance[f] + Rounding(f)
  BY DEF Near
<1> DEFINE v == d.set[f]
           c == st.comp[f]
           b == r.values[f]
<1>1. v \in Nat /\ f \in Fields /\ c \in Nat
  BY DEF Entry, Optional, Device
<1>2. b # Unset /\ Apart(v, b) <= Tolerance[f]
  BY DEF HoldsAll, Holds
<1>3. b = Rounded(f, c)
  BY <1>1, <1>2 DEF HasRead, Seen
<1> HIDE DEF v, c, b
<1>4. /\ b \in Int /\ Apart(c, b) <= Rounding(f)
      /\ Rounding(f) \in Nat /\ Tolerance[f] \in Nat
  BY <1>1, <1>3, RoundedFacts
<1>5. Apart(v, c) <= Tolerance[f] + Rounding(f)
  BY <1>1, <1>2, <1>4 DEF Apart
<1>6. QED
  BY <1>5 DEF v, c

\* Values just sent are held, and so near.
LEMMA HeldIsNear ==
  ASSUME Fit, NEW st, Device(st), NEW d, Entry(d), Held(st, d)
  PROVE  Near(st, d)
<1> SUFFICES ASSUME NEW f \in Comp, d.set[f] # Unset
             PROVE  Apart(d.set[f], st.comp[f]) <= Tolerance[f] + Rounding(f)
  BY DEF Near
<1> DEFINE v == d.set[f]
           c == st.comp[f]
<1>1. v \in Nat /\ c \in Nat /\ c = Fixed(v, Decimals[f])
  BY DEF Entry, Optional, Device, Held
<1> HIDE DEF v, c
<1>2. /\ Decimals[f] \in {1, 10, 100, 1000} /\ Decimals[f] \div 2 <= Tolerance[f]
      /\ Tolerance[f] \in Nat
  BY DEF Decimals, Tolerance, Comp
<1>3. Apart(v, c) <= Decimals[f] \div 2 /\ Apart(v, c) \in Int
  BY <1>1, <1>2, FixedMultiples DEF Apart
<1>4. Rounding(f) \in Nat
  BY RoundedFacts
<1>5. Decimals[f] \div 2 \in Int
  BY <1>2
<1>6. Apart(v, c) <= Tolerance[f] + Rounding(f)
  BY <1>2, <1>3, <1>4, <1>5
<1>7. QED
  BY <1>6 DEF v, c
-------------------------------------------------------------------------------
(* The requests of the runtime.                                            *)

\* Publishing what was read, with or without a re-send before it.
LEMMA PublishFacts ==
  ASSUME Fit, NEW st, NEW d, NEW g, Good(st, d, g),
         NEW r, HasRead(st, Fields, r), Adjustable
  PROVE  LET v == Published(d, r)
         IN /\ Good(v.st, v.dev, g)
            /\ v.st.readings = st.readings /\ v.st.family = st.family
            /\ v.dev.set = d.set /\ v.dev.successes = d.successes
            /\ v.dev.read # Nothing => r.ok
            /\ Near(v.st, v.dev) <=> Near(st, d)
<1> DEFINE v == Published(d, r)
           read == IF r.ok THEN r.values ELSE Nothing
<1>1. v = [st |-> r.st, dev |-> [d EXCEPT !.read = read]]
  BY DEF Published
<1>2. Device(st) /\ Entry(d) /\ Kept(st, r.st) /\ Device(r.st)
  BY DEF Good, HasRead, Kept
<1>3. /\ read \in [Comp -> Optional]
      /\ \A f \in Comp : read[f] # Unset => read[f] = Rounded(f, st.comp[f])
      /\ read # Nothing => r.ok
  <2>1. CASE r.ok
    <3>1. read = [f \in Comp |-> IF f \in Fields THEN Seen(st, f) ELSE Unset]
      BY <2>1 DEF HasRead
    <3> HIDE DEF read
    <3>2. \A f \in Comp : Seen(st, f) \in Optional /\ Unset \in Optional
      BY <1>2, SeenOptional DEF Optional
    <3>3. QED
      BY <2>1, <3>1, <3>2 DEF Seen
  <2>2. CASE ~r.ok
    BY <2>2 DEF Nothing, Optional
  <2>3. QED
    BY <2>1, <2>2 DEF HasRead
<1> HIDE DEF read
<1>4. /\ v.st = r.st /\ Entry(v.dev) /\ v.dev.set = d.set /\ v.dev.read = read
      /\ v.dev.successes = d.successes /\ v.dev.reapplied = d.reapplied
  BY <1>1, <1>2, <1>3 DEF Entry
<1> HIDE DEF v
<1>5. Gone(v.st) = Gone(st) /\ (Held(v.st, v.dev) <=> Held(st, d))
  BY <1>2, <1>4 DEF Gone, Held, Kept
<1>6. Books(v.st, v.dev, g.cut)
  BY <1>4, <1>5 DEF Good, Books
<1>7. Anchored(v.st, v.dev, g)
  <2> SUFFICES ASSUME g.cut = 0, NEW f \in Comp, d.set[f] = Unset
               PROVE  /\ \E w \in Origins(st, g, f) : st.comp[f] = w \/ st.comp[f] = Rounded(f, w)
                      /\ read[f] # Unset => \E w \in Origins(st, g, f) : read[f] = Rounded(f, w)
    BY <1>2, <1>4, <1>5 DEF Anchored, Origins, Kept
  <2>1. PICK w \in Origins(st, g, f) : st.comp[f] = w \/ st.comp[f] = Rounded(f, w)
    BY DEF Good, Anchored
  <2>2. w \in Nat
    BY OriginsNat DEF Good
  <2>3. Rounded(f, st.comp[f]) = Rounded(f, w)
    BY <2>1, <2>2, RoundedFacts
  <2>4. QED
    BY <1>3, <2>1, <2>3
<1>8. Near(v.st, v.dev) <=> Near(st, d)
  BY <1>2, <1>4 DEF Near, Kept
<1>9. Good(v.st, v.dev, g)
  BY <1>2, <1>4, <1>6, <1>7 DEF Good
<1>10. QED
  BY <1>2, <1>3, <1>4, <1>8, <1>9 DEF v, Kept

\* The values of the set fields are sent: the others stay as they are.
LEMMA ResendAnchored ==
  ASSUME NEW st, NEW d, NEW g, Good(st, d, g), NEW first, Kept(st, first),
         NEW sent, Wrote(first, d.set, Fields, sent),
         NEW e, e.set = d.set, e.read = d.read \/ e.read = Nothing
  PROVE  Anchored(sent.st, e, g)
<1>1. Gone(sent.st) = Gone(st) /\ sent.st.family = st.family
  BY DEF Wrote, Kept, Gone
<1>2. \A f \in Comp : d.set[f] = Unset => sent.st.comp[f] = st.comp[f]
  BY DEF Wrote, Kept
<1>3. \A f \in Comp : Origins(sent.st, g, f) = Origins(st, g, f)
  BY <1>1 DEF Origins
<1>4. \A f \in Comp : e.read[f] # Unset => e.read[f] = d.read[f]
  BY DEF Nothing
<1>5. QED
  BY <1>2, <1>3, <1>4 DEF Good, Anchored

\* What a check leaves behind.
Checked(u, g, v) ==
  /\ Good(v.st, v.dev, g)
  /\ v.st.readings = u.st.readings /\ v.st.family = u.st.family
  /\ v.dev.set = u.dev.set /\ v.dev.successes = u.dev.successes
  /\ v.dev.read # Nothing => Near(v.st, v.dev)

\* check_compensation: a re-send is one that was owed, and what is published is
\* near the values set.
LEMMA CheckFacts ==
  ASSUME Fit, NEW u, NEW g, Good(u.st, u.dev, g)
  PROVE  Checked(u, g, Check(u))
<1> DEFINE st == u.st
           d == u.dev
           first == ReadCompensation(st)
           lost == first.ok /\ ~HoldsAll(d.set, first.values)
           v == Check(u)
<1>1. Device(st) /\ Entry(d)
  BY DEF Good
<1>2. CASE ~Adjustable
  <2>1. v = u
    BY <1>2 DEF Check
  <2>2. Near(u.st, u.dev)
    BY <1>1, <1>2 DEF Entry, Near
  <2>3. QED
    BY <2>1, <2>2 DEF Checked
<1>3. CASE Adjustable /\ ~lost
  <2>1. v = Published(d, first)
    BY <1>3 DEF Check, Compared
  <2>2. HasRead(st, Fields, first)
    BY <1>1, ReadFacts
  <2> HIDE DEF first
  <2>3. /\ Good(v.st, v.dev, g)
        /\ v.st.readings = st.readings /\ v.st.family = st.family
        /\ v.dev.set = d.set /\ v.dev.successes = d.successes
        /\ v.dev.read # Nothing => first.ok
        /\ Near(v.st, v.dev) <=> Near(st, d)
    BY <1>3, <2>1, <2>2, PublishFacts
  <2>4. first.ok => Near(st, d)
    BY <1>1, <1>3, <2>2, ReadIsNear
  <2>5. QED
    BY <2>3, <2>4 DEF Checked
<1>4. CASE Adjustable /\ lost
  <2> DEFINE sent == WriteCompensation(first.st, d.set)
             e == [d EXCEPT !.reapplied = d.reapplied + 1]
             again == ReadCompensation(sent.st)
  <2>1. v = IF sent.ok THEN Published(e, again) ELSE Published(d, sent)
    BY <1>4 DEF Check, Compared, Resent
  <2>2. HasRead(st, Fields, first) /\ Kept(st, first.st) /\ Device(first.st)
    <3>1. HasRead(st, Fields, first)
      BY <1>1, ReadFacts
    <3>2. QED
      BY <3>1 DEF HasRead, Kept
  <2>3. ~Held(st, d)
    BY <1>1, <1>4, <2>2, HeldReadsBack
  <2>4. d.reapplied + 1 <= Gone(st) + g.cut
    BY <2>3 DEF Good, Books
  <2> HIDE DEF first, lost
  <2>5. Wrote(first.st, d.set, Fields, sent)
    BY <1>1, <2>2, WriteFacts DEF Entry
  <2> HIDE DEF sent
  <2>6. /\ Device(sent.st) /\ sent.st.family = st.family /\ sent.st.readings = st.readings
        /\ Gone(sent.st) = Gone(st)
    BY <2>2, <2>5 DEF Wrote, Kept, Gone
  <2>7. Gone(st) \in Nat /\ g.cut \in Nat /\ d.reapplied \in Nat
    BY <1>1 DEF Gone, Good, Entry
  <2>8. CASE sent.ok
    <3>1. /\ Entry(e) /\ e.set = d.set /\ e.read = d.read /\ e.reapplied = d.reapplied + 1
          /\ e.successes = d.successes
      BY <1>1 DEF Entry
    <3> HIDE DEF e
    <3>2. Held(sent.st, e)
      BY <1>1, <2>5, <2>8, <3>1 DEF Held, Wrote, Entry
    <3>3. Books(sent.st, e, g.cut)
      BY <2>4, <2>6, <2>7, <3>1, <3>2 DEF Books
    <3>4. Anchored(sent.st, e, g)
      BY <2>2, <2>5, <3>1, ResendAnchored
    <3>5. Good(sent.st, e, g)
      BY <2>6, <3>1, <3>3, <3>4 DEF Good
    <3>6. HasRead(sent.st, Fields, again)
      BY <2>6, ReadFacts
    <3> HIDE DEF again, v
    <3>7. v = Published(e, again)
      BY <2>1, <2>8
    <3>8. /\ Good(v.st, v.dev, g)
          /\ v.st.readings = sent.st.readings /\ v.st.family = sent.st.family
          /\ v.dev.set = e.set /\ v.dev.successes = e.successes
          /\ Near(v.st, v.dev) <=> Near(sent.st, e)
      BY <1>4, <3>5, <3>6, <3>7, PublishFacts
    <3>9. Near(sent.st, e)
      BY <2>6, <3>1, <3>2, HeldIsNear
    <3>10. Checked(u, g, v)
      BY <2>6, <3>1, <3>8, <3>9 DEF Checked
    <3>11. QED
      BY <3>10 DEF v
  <2>9. CASE ~sent.ok
    <3> DEFINE n == [d EXCEPT !.read = Nothing]
    <3>1. v = [st |-> sent.st, dev |-> n]
      BY <2>1, <2>9 DEF Published
    <3>2. Nothing \in [Comp -> Optional]
      BY DEF Nothing, Optional
    <3>3. /\ Entry(n) /\ n.set = d.set /\ n.read = Nothing /\ n.reapplied = d.reapplied
          /\ n.successes = d.successes
      BY <1>1, <3>2 DEF Entry
    <3> HIDE DEF n, v
    <3>4. v.st = sent.st /\ v.dev = n
      BY <3>1
    <3>5. Books(sent.st, n, g.cut)
      BY <2>4, <2>6, <2>7, <3>3 DEF Books
    <3>6. Anchored(sent.st, n, g)
      BY <2>2, <2>5, <3>3, ResendAnchored
    <3>7. Good(sent.st, n, g)
      BY <2>6, <3>3, <3>5, <3>6 DEF Good
    <3>8. Checked(u, g, v)
      BY <2>6, <3>3, <3>4, <3>7 DEF Checked
    <3>9. QED
      BY <3>8 DEF v
  <2>10. QED
    BY <2>5, <2>8, <2>9 DEF Wrote
<1>5. QED
  BY <1>2, <1>3, <1>4

\* The probe is as it was and of the record only the level, or the phase, is new.
LEMMA GoodKept ==
  ASSUME NEW st, NEW d, NEW g, Good(st, d, g), NEW t, Kept(st, t), NEW e, Entry(e),
         e.set = d.set, e.read = d.read, e.reapplied = d.reapplied
  PROVE  Good(t, e, g) /\ (Near(st, d) => Near(t, e))
<1>1. Device(t) /\ t.comp = st.comp /\ t.salinity_ppt = st.salinity_ppt /\ t.family = st.family
      /\ Gone(t) = Gone(st)
  BY DEF Kept, Gone
<1>2. Held(t, e) <=> Held(st, d)
  BY <1>1 DEF Held
<1>3. Books(t, e, g.cut)
  BY <1>1, <1>2 DEF Good, Books
<1>4. \A f \in Comp : Origins(t, g, f) = Origins(st, g, f)
  BY <1>1 DEF Origins
<1>5. Anchored(t, e, g)
  BY <1>1, <1>4 DEF Good, Anchored
<1>6. Near(st, d) => Near(t, e)
  BY <1>1 DEF Near
<1>7. QED
  BY <1>1, <1>3, <1>5, <1>6 DEF Good

\* refresh_calibration_level
LEMMA LevelFacts ==
  ASSUME Fit, NEW u, NEW g, Good(u.st, u.dev, g)
  PROVE  LET v == RefreshLevel(u)
         IN /\ Good(v.st, v.dev, g) /\ (Near(u.st, u.dev) => Near(v.st, v.dev))
            /\ v.st.readings = u.st.readings /\ v.st.family = u.st.family
            /\ v.dev.read = u.dev.read /\ v.dev.successes = u.dev.successes
<1> DEFINE cmd == Cmd("Cal", "?", 0)
           x == Query(u.st, cmd)
           w == RecordCommand(options, u.st, cmd)
           v == RefreshLevel(u)
           level == IF x.code = 1 THEN {x.payload} ELSE {}
           e == [u.dev EXCEPT !.level = level]
<1>1. CASE ~Adjustable
  <2>1. v = u
    BY <1>1 DEF RefreshLevel
  <2>2. QED
    BY <2>1
<1>2. CASE Adjustable
  <2>1. Device(u.st) /\ Entry(u.dev)
    BY DEF Good
  <2>2. cmd.verb = "Cal" /\ cmd.arg = "?" /\ "Cal" \notin Comp
    BY DEF Cmd, Comp
  <2> HIDE DEF cmd
  <2>3. Sendable(cmd) /\ ~Sets(cmd) /\ x = Exchange(options, u.st, cmd, 1)
    BY <2>2 DEF Sendable, Sets, Query
  <2>4. v = [st |-> x.st, dev |-> e]
    BY <1>2 DEF RefreshLevel, Levelled, cmd
  <2> HIDE DEF x
  <2>5. Kept(u.st, x.st)
    BY <2>1, <2>2, <2>3, PlainExchange
  <2>6. level \in SUBSET Levels
    <3>1. CASE x.code # 1
      BY <3>1
    <3>2. CASE x.code = 1
      <4>1. PICK n \in 0..options.pending_reads : x.payload = Payload([w EXCEPT !.pending_left = n])
        BY <2>1, <2>3, <3>2, ExchangeFacts
      <4>2. Recorded(u.st, cmd, w)
        BY <2>1, <2>3, RecordFacts
      <4> HIDE DEF w
      <4> DEFINE t == [w EXCEPT !.pending_left = n]
      <4>3. t.last_command = cmd /\ t.calibration_level \in Levels
        BY <4>2 DEF Recorded, Device
      <4> HIDE DEF t
      <4>4. Payload(t) = t.calibration_level
        BY <2>2, <4>3 DEF Payload
      <4>5. QED
        BY <3>2, <4>1, <4>3, <4>4 DEF t
    <3>3. QED
      BY <3>1, <3>2
  <2> HIDE DEF level
  <2>7. /\ Entry(e) /\ e.set = u.dev.set /\ e.read = u.dev.read /\ e.reapplied = u.dev.reapplied
        /\ e.successes = u.dev.successes
    BY <2>1, <2>6 DEF Entry
  <2> HIDE DEF e
  <2>8. Good(x.st, e, g) /\ (Near(u.st, u.dev) => Near(x.st, e))
    BY <2>5, <2>7, GoodKept
  <2>9. x.st.readings = u.st.readings /\ x.st.family = u.st.family
    BY <2>5 DEF Kept
  <2> HIDE DEF v
  <2>10. v.st = x.st /\ v.dev = e
    BY <2>4
  <2>11. QED
    BY <2>7, <2>8, <2>9, <2>10 DEF v
<1>3. QED
  BY <1>1, <1>2

\* A query and then a reading is a reading.
LEMMA KeptThenAged ==
  ASSUME Fit, NEW st, NEW o, Kept(st, o), NEW t, Aged(o, t)
  PROVE  Aged(st, t)
  BY DEF Kept, Aged, Gone

\* A query is a reading that resets nothing.
LEMMA KeptIsAged ==
  ASSUME NEW st, Device(st), NEW t, Kept(st, t)
  PROVE  Aged(st, t)
  BY DEF Kept, Aged, Device

\* read_sample: only a reading that succeeds counts.
LEMMA SampleFacts ==
  ASSUME Fit, NEW st, Device(st)
  PROVE  LET x == ReadSample(st)
         IN Aged(st, x.st) /\ (x.code # 1 => Kept(st, x.st))
<1> DEFINE cmd == Cmd("O", "?", 0)
           q == Query(st, cmd)
           n == [st |-> st, code |-> 1, payload |-> 0]
           o == IF spec.type \in {"Do", "Ec", "Hum"} THEN q ELSE n
           x == ReadSample(st)
           y == Query(o.st, Cmd("r", NoText, 0))
<1>1. cmd.verb = "O" /\ "O" \notin Comp
  BY DEF Cmd, Comp
<1> HIDE DEF cmd
<1>2. Sendable(cmd) /\ ~Sets(cmd) /\ q = Exchange(options, st, cmd, 1)
  BY <1>1 DEF Sendable, Sets, Query
<1>3. Kept(st, q.st)
  BY <1>1, <1>2, PlainExchange
<1>4. n.st = st /\ Kept(st, st)
  BY DEF Kept
<1>5. x = IF o.code = 1 THEN y ELSE o
  BY DEF ReadSample, Reading, cmd
<1> HIDE DEF q, n, x
<1>6. Kept(st, o.st) /\ Device(o.st)
  BY <1>3, <1>4 DEF Kept
<1> HIDE DEF o
<1>7. Aged(o.st, y.st) /\ (y.code # 1 => Kept(o.st, y.st))
  BY <1>6, ReadingExchange
<1> HIDE DEF y
<1>8. Aged(st, y.st) /\ (y.code # 1 => Kept(st, y.st))
  BY <1>6, <1>7, KeptThenAged DEF Kept
<1>9. Aged(st, o.st)
  BY <1>6, KeptIsAged
<1>10. QED
  BY <1>5, <1>6, <1>8, <1>9 DEF x

\* A reset is a loss, and puts values to their defaults.
LEMMA GoodAged ==
  ASSUME Fit, NEW st, NEW d, NEW g, Good(st, d, g), NEW t, Aged(st, t), NEW e, Entry(e),
         e.set = d.set, e.read = d.read, e.reapplied = d.reapplied
  PROVE  Good(t, e, g)
<1>1. /\ Device(st) /\ Device(t) /\ t.family = st.family /\ t.salinity_ppt = st.salinity_ppt
      /\ t.readings >= st.readings /\ st.readings \in Nat /\ t.readings \in Nat
      /\ options.revert_after \in Nat
  BY DEF Good, Aged, Device, Fit, Usable
<1>2. Gone(st) \in {0, 1} /\ Gone(t) \in {0, 1} /\ Gone(t) >= Gone(st)
  BY <1>1 DEF Gone
<1>3. d.reapplied \in Nat /\ g.cut \in Nat
  BY DEF Good, Entry
<1>4. \A f \in Comp : Origins(st, g, f) \subseteq Origins(t, g, f)
  BY <1>1, <1>2 DEF Origins
<1>5. CASE t.comp = st.comp
  <2>1. Held(t, e) <=> Held(st, d)
    BY <1>1, <1>5 DEF Held
  <2>2. Books(t, e, g.cut)
    BY <1>2, <1>3, <2>1 DEF Good, Books
  <2>3. Anchored(t, e, g)
    BY <1>4, <1>5 DEF Good, Anchored
  <2>4. QED
    BY <1>1, <2>2, <2>3 DEF Good
<1>6. CASE t.comp = DefaultsOf(st.family) /\ Gone(st) = 0 /\ Gone(t) = 1
  <2>1. Books(t, e, g.cut)
    BY <1>3, <1>6 DEF Good, Books
  <2>2. \A f \in Comp : t.comp[f] \in Origins(t, g, f)
    BY <1>1, <1>6 DEF Origins
  <2>3. Anchored(t, e, g)
    BY <1>4, <2>2 DEF Good, Anchored
  <2>4. QED
    BY <1>1, <2>1, <2>3 DEF Good
<1>7. QED
  BY <1>5, <1>6 DEF Aged

\* The part that a check establishes and the next good sample may end.
Steady(st, d) == d.read # Nothing /\ d.successes = 0 => Near(st, d)

\* What a request leaves behind.
Served(u, g, v) ==
  /\ Good(v.st, v.dev, g) /\ Steady(v.st, v.dev)
  /\ v.st.readings >= u.st.readings /\ v.st.family = u.st.family

\* refresh_device_sample, with the check that every so often follows.
LEMMA RefreshFacts ==
  ASSUME Fit, NEW u, NEW g, Good(u.st, u.dev, g), Steady(u.st, u.dev)
  PROVE  Served(u, g, Refresh(u))
<1> DEFINE st == u.st
           d == u.dev
           x == ReadSample(st)
           n == (d.successes + 1) % CheckEvery
           e == [d EXCEPT !.successes = n]
           w == [st |-> x.st, dev |-> e]
           v == Refresh(u)
<1>1. Device(st) /\ Entry(d)
  BY DEF Good
<1>2. Aged(st, x.st) /\ (x.code # 1 => Kept(st, x.st))
  BY <1>1, SampleFacts
<1>3. v = IF x.code # 1 THEN [st |-> x.st, dev |-> d] ELSE IF n = 0 THEN Check(w) ELSE w
  BY DEF Refresh, Sampled
<1> HIDE DEF x
<1>4. n \in 0..(CheckEvery - 1)
  BY <1>1, MockAssumption DEF Entry, MockAssumption
<1> HIDE DEF n
<1>5. /\ Entry(e) /\ e.set = d.set /\ e.read = d.read /\ e.reapplied = d.reapplied
      /\ e.successes = n
  BY <1>1, <1>4 DEF Entry
<1> HIDE DEF e
<1>6. w.st = x.st /\ w.dev = e
  OBVIOUS
<1>7. x.st.readings >= st.readings /\ x.st.family = st.family
  BY <1>2 DEF Aged
<1> HIDE DEF v
<1>8. CASE x.code # 1
  <2>1. v = [st |-> x.st, dev |-> d]
    BY <1>3, <1>8
  <2>2. v.st = x.st /\ v.dev = d
    BY <2>1
  <2>3. Good(x.st, d, g) /\ (Near(st, d) => Near(x.st, d))
    BY <1>1, <1>2, <1>8, GoodKept
  <2>4. Served(u, g, v)
    BY <1>7, <2>2, <2>3 DEF Served, Steady
  <2>5. QED
    BY <2>4 DEF v
<1>9. CASE x.code = 1 /\ n # 0
  <2>1. v = w
    BY <1>3, <1>9
  <2>2. Good(x.st, e, g)
    BY <1>2, <1>5, GoodAged
  <2>3. Served(u, g, v)
    BY <1>5, <1>6, <1>7, <1>9, <2>1, <2>2 DEF Served, Steady
  <2>4. QED
    BY <2>3 DEF v
<1>10. CASE x.code = 1 /\ n = 0
  <2>1. v = Check(w)
    BY <1>3, <1>10
  <2>2. Good(w.st, w.dev, g)
    BY <1>2, <1>5, <1>6, GoodAged
  <2> HIDE DEF w
  <2>3. Checked(w, g, v)
    BY <2>1, <2>2, CheckFacts
  <2>4. Served(u, g, v)
    BY <1>5, <1>6, <1>7, <2>3 DEF Served, Steady, Checked
  <2>5. QED
    BY <2>4 DEF v
<1>11. QED
  BY <1>8, <1>9, <1>10
-------------------------------------------------------------------------------
(* The jobs of a call.                                                     *)

\* The history h goes on from g.
Grown(g, h) == /\ h.cut \in Nat /\ h.cut >= g.cut
               /\ g.unread \subseteq h.unread /\ h.start = g.start

\* A history that goes on leaves the invariant as it is.
LEMMA GoodGrown ==
  ASSUME NEW st, NEW d, NEW g, Good(st, d, g), NEW h, Grown(g, h)
  PROVE  Good(st, d, h)
<1>1. \A f \in Comp : Origins(st, g, f) \subseteq Origins(st, h, f)
  BY DEF Origins, Grown
<1>2. g.cut \in Nat /\ h.cut \in Nat /\ h.cut >= g.cut /\ d.reapplied \in Nat
  BY DEF Good, Grown, Entry
<1>3. Books(st, d, h.cut)
  <2>1. Gone(st) \in Nat
    BY DEF Gone
  <2>2. QED
    BY <1>2, <2>1 DEF Good, Books
<1>4. h.cut = 0 => g.cut = 0
  BY <1>2
<1>5. Anchored(st, d, h)
  BY <1>1, <1>4 DEF Good, Anchored
<1>6. QED
  BY <1>3, <1>5 DEF Good, Grown

\* The values of a call that is not refused: what the adapter can send, in range.
LEMMA ValuesFacts ==
  ASSUME Fit, NEW args, \A a \in DOMAIN args : Value(args[a]),
         "set_compensation" \in DOMAIN FunctionSpecs(spec.type),
         Refusals("set_compensation", spec.type, args) = {}
  PROVE  /\ Adjustable /\ Values(args) \in [Comp -> Optional]
         /\ \A f \in Comp : Values(args)[f] # Unset => f \in Fields
<1> DEFINE type == spec.type
           d == CompensationFunctionSpecs(type)["set_compensation"]
           names == IF type = "Do" THEN {"temperature_c", "salinity_us_cm", "pressure_kpa"}
                                   ELSE {"temperature_c"}
           of(name) == IF name \in DOMAIN args THEN args[name].num ELSE Unset
<1>1. type \in Families
  BY MockAssumption DEF MockAssumption, Fit
<1>2. type \in {"Ph", "Do"}
  <2>1. CASE type \notin {"Ph", "Do"}
    <3>1. FunctionSpecs(type) = SafeFunctionSpecs
      BY <2>1 DEF FunctionSpecs
    <3>2. QED
      BY <3>1, SafeFunctions
  <2>2. QED
    BY <2>1
<1>3. Agrees(d, CompensationRefusals(type, args), args)
  BY <1>2, CompensationAgrees
<1>4. Refusals("set_compensation", type, args) = CompensationRefusals(type, args)
  BY DEF Refusals
<1>5. Conforms(d, args)
  BY <1>3, <1>4 DEF Agrees
<1>6. /\ DOMAIN d = names
      /\ \A a \in names : d[a] = Number(Bounds[a], a = "temperature_c")
  BY <1>2, CompensationFields
<1> HIDE DEF d
<1>7. \A a \in names : d[a].type = "DOUBLE" /\ d[a].min \in Nat
  <2> SUFFICES ASSUME NEW a \in names PROVE d[a].type = "DOUBLE" /\ d[a].min \in Nat
    OBVIOUS
  <2>1. Bounds[a].min \in Nat
    BY DEF Bounds
  <2>2. PICK plain : plain = ArgSpec("DOUBLE")
    OBVIOUS
  <2>3. plain = [type |-> "DOUBLE", required |-> TRUE, allowed |-> {}, min |-> 0, max |-> 0]
    BY <2>2 DEF ArgSpec
  <2>4. PICK req : req = (a = "temperature_c")
    OBVIOUS
  <2>5. d[a] = [plain EXCEPT !.min = Bounds[a].min, !.max = Bounds[a].max, !.required = req]
    BY <1>6, <2>2, <2>4 DEF Number
  <2>6. QED
    BY <2>1, <2>3, <2>5
<1>8. \A a \in DOMAIN args : a \in names /\ args[a].num \in Nat
  <2> SUFFICES ASSUME NEW a \in DOMAIN args PROVE a \in names /\ args[a].num \in Nat
    OBVIOUS
  <2>1. a \in names /\ ArgConforms(d[a], args[a])
    BY <1>5, <1>6 DEF Conforms
  <2>2. args[a].type = "DOUBLE" /\ InBounds(d[a], args[a]) /\ args[a].num \in Int
    BY <1>7, <2>1 DEF ArgConforms, Value
  <2>3. QED
    BY <1>7, <2>1, <2>2 DEF InBounds
<1>9. \A name : of(name) \in Optional /\ (of(name) # Unset => name \in names)
  BY <1>8 DEF Optional
<1>10. Values(args) = [T |-> of("temperature_c"), S |-> of("salinity_us_cm"),
                       P |-> of("pressure_kpa")]
  BY DEF Values
<1> HIDE DEF of
<1>11. Values(args) \in [Comp -> Optional]
  BY <1>9, <1>10 DEF Comp
<1>12. \A f \in Comp : Values(args)[f] # Unset => f \in Fields
  BY <1>9, <1>10 DEF Comp, Fields
<1>13. QED
  BY <1>2, <1>11, <1>12 DEF Adjustable

\* set_compensation: its values are held if it succeeds; if not, a pass was cut.
LEMMA SetFacts ==
  ASSUME Fit, NEW st, NEW d, NEW g, Good(st, d, g), NEW h, Grown(g, h), Adjustable,
         NEW values \in [Comp -> Optional], \A f \in Comp : values[f] # Unset => f \in Fields,
         NEW w, Wrote(st, values, Fields, w), ~w.ok => h.cut > g.cut,
         NEW e, e = IF w.ok THEN [d EXCEPT !.set = Merge(d.set, values)] ELSE d
  PROVE  Good(w.st, e, h)
<1>1. Device(w.st) /\ w.st.family = st.family /\ Gone(w.st) = Gone(st) /\ Entry(d)
  BY DEF Wrote, Gone, Good
<1>2. g.cut \in Nat /\ h.cut \in Nat /\ h.cut >= g.cut /\ d.reapplied \in Nat /\ Gone(st) \in Nat
  BY <1>1 DEF Good, Grown, Entry, Gone
<1>3. CASE ~w.ok
  <2>1. e = d /\ h.cut >= g.cut + 1
    BY <1>2, <1>3
  <2>2. Books(w.st, d, h.cut)
    BY <1>1, <1>2, <2>1 DEF Good, Books
  <2>3. Anchored(w.st, d, h)
    BY <1>2, <2>1 DEF Anchored
  <2>4. QED
    BY <1>1, <2>1, <2>2, <2>3 DEF Good, Grown
<1>4. CASE w.ok
  <2> DEFINE set == Merge(d.set, values)
  <2>1. /\ set \in [Comp -> Optional]
        /\ \A f \in Comp : set[f] = IF values[f] # Unset THEN values[f] ELSE d.set[f]
    BY <1>1 DEF Merge, Entry
  <2> HIDE DEF set
  <2>2. /\ Entry(e) /\ e.set = set /\ e.read = d.read /\ e.reapplied = d.reapplied
    <3>1. e = [d EXCEPT !.set = set]
      BY <1>4 DEF set
    <3>2. QED
      BY <1>1, <2>1, <3>1 DEF Entry
  <2>3. Held(st, d) => Held(w.st, e)
    BY <1>4, <2>1, <2>2 DEF Held, Wrote
  <2>4. Books(w.st, e, h.cut)
    BY <1>1, <1>2, <2>2, <2>3 DEF Good, Books
  <2>5. \A f \in Comp : e.set[f] = Unset => d.set[f] = Unset /\ w.st.comp[f] = st.comp[f]
    BY <2>1, <2>2 DEF Wrote
  <2>6. \A f \in Comp : Origins(st, g, f) \subseteq Origins(w.st, h, f)
    BY <1>1 DEF Origins, Grown
  <2>7. h.cut = 0 => g.cut = 0
    BY <1>2
  <2>8. Anchored(w.st, e, h)
    BY <2>2, <2>5, <2>6, <2>7 DEF Good, Anchored
  <2>9. QED
    BY <1>1, <2>2, <2>4, <2>8 DEF Good, Grown
<1>5. QED
  BY <1>3, <1>4

\* The fields a calibration does not know are on record.
Noted(former, h) == \A f \in Comp : former[f] = Unset => f \in h.unread

\* The passes of a DO calibration: the defaults to w, the calibration to t, and
\* the former values back to b.
Passes(st, former, w, t, b) ==
  /\ Wrote(st, DefaultsOf("Do"), Fields, w) /\ Kept(w.st, t)
  /\ Wrote(t, former, Fields, b)

\* A DO calibration: what was held or read before comes back; a value that was
\* not known is left as it was or at the default.
LEMMA CalibrationFacts ==
  ASSUME Fit, NEW st, NEW d, NEW g, Good(st, d, g), NEW h, Grown(g, h),
         spec.type = "Do", st.family = "Do",
         NEW former, former = Merge(d.read, d.set), Noted(former, h),
         NEW w, NEW t, NEW b, Passes(st, former, w, t, b), ~b.ok => h.cut > g.cut
  PROVE  Good(b.st, d, h) /\ b.st.readings = st.readings /\ b.st.family = st.family
<1> DEFINE defaults == DefaultsOf("Do")
<1>0. Wrote(st, defaults, Fields, w) /\ Kept(w.st, t) /\ Wrote(t, former, Fields, b)
  BY DEF Passes
<1>1. /\ Device(b.st) /\ b.st.family = st.family /\ b.st.readings = st.readings
      /\ Gone(b.st) = Gone(st) /\ Entry(d)
  BY <1>0 DEF Wrote, Kept, Gone, Good
<1>2. g.cut \in Nat /\ h.cut \in Nat /\ h.cut >= g.cut /\ d.reapplied \in Nat /\ Gone(st) \in Nat
  BY <1>1 DEF Good, Grown, Entry, Gone
<1>3. CASE ~b.ok
  <2>1. h.cut >= g.cut + 1
    BY <1>2, <1>3
  <2>2. Books(b.st, d, h.cut)
    BY <1>1, <1>2, <2>1 DEF Good, Books
  <2>3. Anchored(b.st, d, h)
    BY <1>2, <2>1 DEF Anchored
  <2>4. QED
    BY <1>1, <2>2, <2>3 DEF Good, Grown
<1>4. CASE b.ok
  <2>1. \A f \in Comp : former[f] = IF d.set[f] # Unset THEN d.set[f] ELSE d.read[f]
    BY DEF Merge
  <2>2. Comp = Fields
    BY DEF Comp, Fields
  <2>3. \A f \in Comp : former[f] # Unset =>
          b.st.comp[f] = Fixed(former[f], Decimals[f]) /\ (f = "S" => ~b.st.salinity_ppt)
    BY <1>0, <1>4, <2>2 DEF Wrote
  <2>4. Held(b.st, d)
    BY <2>1, <2>3 DEF Held
  <2>5. Books(b.st, d, h.cut)
    <3>1. d.reapplied <= Gone(st) + g.cut
      BY <1>2 DEF Good, Books
    <3>2. QED
      BY <1>1, <1>2, <2>4, <3>1 DEF Books
  <2>6. \A f \in Comp : Fixed(defaults[f], Decimals[f]) = defaults[f]
    BY DEF DefaultsOf, Decimals, Comp, Fixed
  <2>7. \A f \in Comp : former[f] = Unset =>
          b.st.comp[f] = st.comp[f] \/ b.st.comp[f] = defaults[f]
    <3> SUFFICES ASSUME NEW f \in Comp, former[f] = Unset
                 PROVE  b.st.comp[f] = st.comp[f] \/ b.st.comp[f] = defaults[f]
      OBVIOUS
    <3>1. b.st.comp[f] = t.comp[f]
      BY <1>0 DEF Wrote
    <3>2. t.comp[f] = w.st.comp[f]
      BY <1>0 DEF Kept
    <3>3. w.st.comp[f] = st.comp[f] \/ w.st.comp[f] = Fixed(defaults[f], Decimals[f])
      BY <1>0 DEF Wrote
    <3>4. QED
      BY <2>6, <3>1, <3>2, <3>3
  <2>8. \A f \in Comp : Origins(st, g, f) \subseteq Origins(b.st, h, f)
    BY <1>1 DEF Origins, Grown
  <2>9. Anchored(b.st, d, h)
    <3> SUFFICES ASSUME h.cut = 0, NEW f \in Comp, d.set[f] = Unset
                 PROVE  /\ \E v \in Origins(b.st, h, f) :
                             b.st.comp[f] = v \/ b.st.comp[f] = Rounded(f, v)
                        /\ d.read[f] # Unset =>
                             \E v \in Origins(b.st, h, f) : d.read[f] = Rounded(f, v)
      BY DEF Anchored
    <3>0. g.cut = 0
      BY <1>2
    <3>1. /\ \E v \in Origins(st, g, f) : st.comp[f] = v \/ st.comp[f] = Rounded(f, v)
          /\ d.read[f] # Unset => \E v \in Origins(st, g, f) : d.read[f] = Rounded(f, v)
      BY <3>0 DEF Good, Anchored
    <3>2. CASE d.read[f] = Unset
      <4>1. former[f] = Unset
        BY <2>1, <3>2
      <4>2. f \in h.unread
        BY <4>1 DEF Noted
      <4>3. defaults[f] \in Origins(b.st, h, f)
        BY <1>1, <4>2 DEF Origins
      <4>4. QED
        BY <2>7, <2>8, <3>1, <3>2, <4>1, <4>3
    <3>3. CASE d.read[f] # Unset
      <4>1. PICK v \in Origins(st, g, f) : d.read[f] = Rounded(f, v)
        BY <3>1, <3>3
      <4>2. v \in Nat
        BY OriginsNat DEF Good
      <4>3. b.st.comp[f] = Fixed(Rounded(f, v), Decimals[f])
        BY <2>1, <2>3, <3>3, <4>1
      <4>4. b.st.comp[f] = Rounded(f, v)
        BY <4>2, <4>3, RoundedFacts
      <4>5. QED
        BY <2>8, <4>1, <4>4
    <3>4. QED
      BY <3>2, <3>3
  <2>10. QED
    BY <1>1, <2>5, <2>9 DEF Good, Grown
<1>5. QED
  BY <1>0, <1>3, <1>4 DEF Wrote

\* What the job x of a call leaves behind, with record d and history h.
Worked(x, d, h) ==
  /\ x.ok \in BOOLEAN /\ Good(x.st, d, h)
  /\ x.st.readings = canned.readings /\ x.st.family = canned.family

\* The job of set_compensation.
LEMMA SettingWorks ==
  ASSUME Fit, Good(canned, dev, ghost), NEW args, \A a \in DOMAIN args : Value(args[a]),
         "set_compensation" \in DOMAIN FunctionSpecs(spec.type),
         Refusals("set_compensation", spec.type, args) = {},
         NEW x, x = Execute("set_compensation", args),
         NEW h, Grown(ghost, h), ~x.whole => h.cut > ghost.cut,
         NEW e, e = IF x.ok THEN [dev EXCEPT !.set = Merge(dev.set, Values(args))] ELSE dev
  PROVE  Worked(x, e, h)
<1> DEFINE w == WriteCompensation(canned, Values(args))
<1>1. /\ Adjustable /\ Values(args) \in [Comp -> Optional]
      /\ \A f \in Comp : Values(args)[f] # Unset => f \in Fields
  BY ValuesFacts
<1>2. Device(canned) /\ Entry(dev)
  BY DEF Good
<1>3. Wrote(canned, Values(args), Fields, w)
  BY <1>1, <1>2, WriteFacts
<1>4. x = Job(w.st, w.ok, w.ok)
  BY DEF Execute, WroteAll, CalibratesDo
<1> HIDE DEF w
<1>5. x.st = w.st /\ x.ok = w.ok /\ x.whole = w.ok
  BY <1>4 DEF Job
<1>6. Good(w.st, e, h)
  BY <1>1, <1>3, <1>5, SetFacts
<1>7. QED
  BY <1>3, <1>5, <1>6 DEF Worked, Wrote

\* The job of a DO calibration.
LEMMA CalibratingWorks ==
  ASSUME Fit, Good(canned, dev, ghost), canned.family = spec.type, NEW args,
         NEW fn, CalibratesDo(fn), NEW x, x = Execute(fn, args),
         NEW h, Grown(ghost, h), ~x.whole => h.cut > ghost.cut,
         Noted(Former, h)
  PROVE  Worked(x, dev, h)
<1> DEFINE w == WriteCompensation(canned, DefaultsOf("Do"))
           cmd == ControlCommand(fn, args)
           y == Command(w.st, cmd)
           ok == IF w.ok THEN y.code = 1 ELSE FALSE
           t == IF w.ok THEN y.st ELSE w.st
           b == WriteCompensation(t, Former)
<1>1. Device(canned) /\ Entry(dev) /\ fn = "calibrate" /\ spec.type = "Do"
  BY DEF Good, CalibratesDo
<1>2. DefaultsOf("Do") \in [Comp -> Optional]
  BY DEF DefaultsOf, Comp, Optional
<1>3. Wrote(canned, DefaultsOf("Do"), Fields, w)
  BY <1>1, <1>2, WriteFacts
<1>4. x = Job(b.st, ok, b.ok)
  BY <1>1 DEF Execute, AtDefaults, Calibrated, Restored, CalibratesDo
<1> HIDE DEF w
<1>5. cmd.verb = "Cal" /\ "Cal" \notin Comp
  BY <1>1 DEF ControlCommand, Cmd, Comp
<1> HIDE DEF cmd
<1>6. Sendable(cmd) /\ ~Sets(cmd) /\ y = Exchange(options, w.st, cmd, Rereads)
      /\ Rereads \in Nat \ {0} /\ Device(w.st)
  BY <1>3, <1>5 DEF Sendable, Sets, Command, Rereads, Wrote
<1> HIDE DEF y
<1>7. Kept(w.st, y.st) /\ Kept(w.st, w.st)
  <2>1. Kept(w.st, y.st)
    BY <1>5, <1>6, PlainExchange
  <2>2. QED
    BY <1>6, <2>1 DEF Kept
<1>8. Kept(w.st, t) /\ Device(t) /\ ok \in BOOLEAN
  BY <1>3, <1>7 DEF Kept, Wrote
<1> HIDE DEF t, ok
<1>9. Former \in [Comp -> Optional] /\ Former = Merge(dev.read, dev.set)
  BY <1>1 DEF Former, Merge, Entry
<1>10. Wrote(t, Former, Fields, b)
  BY <1>8, <1>9, WriteFacts
<1> HIDE DEF b
<1>11. x.st = b.st /\ x.ok = ok /\ x.whole = b.ok
  BY <1>4 DEF Job
<1>12. Good(b.st, dev, h) /\ b.st.readings = canned.readings /\ b.st.family = canned.family
  <2>1. canned.family = "Do" /\ spec.type = "Do" /\ (~b.ok => h.cut > ghost.cut)
    BY <1>1, <1>11
  <2>2. Passes(canned, Former, w, t, b)
    BY <1>3, <1>8, <1>10 DEF Passes
  <2>3. QED
    BY <1>9, <2>1, <2>2, CalibrationFacts
<1>13. QED
  BY <1>8, <1>11, <1>12 DEF Worked

\* Any other job is one command that sets nothing.
LEMMA ControlWorks ==
  ASSUME Fit, Good(canned, dev, ghost), NEW args,
         NEW fn \in DOMAIN FunctionSpecs(spec.type), fn # "set_compensation", ~CalibratesDo(fn),
         NEW x, x = Execute(fn, args), NEW h, Grown(ghost, h)
  PROVE  Worked(x, dev, h) /\ (Near(canned, dev) => Near(x.st, dev))
<1> DEFINE cmd == ControlCommand(fn, args)
           y == Command(canned, cmd)
           z == Cmd("sleep", NoText, 0)
           t == RecordCommand(options, canned, z)
<1>1. Device(canned) /\ Entry(dev)
  BY DEF Good
<1>2. spec.type \in Families
  BY MockAssumption DEF MockAssumption, Fit
<1>3. fn \in {"find", "sleep", "set_led", "clear_calibration", "calibrate"}
  <2>1. CASE spec.type \in {"Ph", "Do"}
    BY <2>1, AdjustableFunctions
  <2>2. CASE spec.type \notin {"Ph", "Do"}
    <3>1. FunctionSpecs(spec.type) = SafeFunctionSpecs
      BY <2>2 DEF FunctionSpecs
    <3>2. QED
      BY <3>1, SafeFunctions
  <2>3. QED
    BY <2>1, <2>2
<1>4. x.ok \in BOOLEAN /\ Kept(canned, x.st)
  <2>1. CASE fn = "sleep"
    <3>1. x = Job(t, TRUE, TRUE)
      BY <2>1 DEF Execute, CalibratesDo
    <3>2. z.verb = "sleep" /\ "sleep" \notin Comp
      BY DEF Cmd, Comp
    <3> HIDE DEF z
    <3>3. Sendable(z) /\ ~Sets(z)
      BY <3>2 DEF Sendable, Sets
    <3>4. Recorded(canned, z, t)
      BY <1>1, <3>3, RecordFacts
    <3> HIDE DEF t
    <3>5. x.st = t /\ x.ok = TRUE
      BY <3>1 DEF Job
    <3>6. QED
      BY <3>3, <3>4, <3>5 DEF Recorded, Kept
  <2>2. CASE fn # "sleep"
    <3>1. x = Job(y.st, y.code = 1, TRUE)
      BY <2>2 DEF Execute, Controlled
    <3>2. cmd.verb \in {"Cal", "find", "set_led"}
      BY <1>3, <2>2 DEF ControlCommand, Cmd
    <3>3. cmd.verb \notin Comp /\ cmd.verb # "r"
      BY <3>2 DEF Comp
    <3> HIDE DEF cmd
    <3>4. Sendable(cmd) /\ ~Sets(cmd) /\ y = Exchange(options, canned, cmd, Rereads)
          /\ Rereads \in Nat \ {0}
      BY <3>3 DEF Sendable, Sets, Command, Rereads
    <3> HIDE DEF y
    <3>5. Kept(canned, y.st)
      BY <1>1, <3>3, <3>4, PlainExchange
    <3>6. x.st = y.st /\ x.ok = (y.code = 1)
      BY <3>1 DEF Job
    <3>7. QED
      BY <3>5, <3>6
  <2>3. QED
    BY <2>1, <2>2
<1>5. Good(x.st, dev, ghost) /\ (Near(canned, dev) => Near(x.st, dev))
  BY <1>1, <1>4, GoodKept
<1>6. Good(x.st, dev, h)
  BY <1>5, GoodGrown
<1>7. QED
  BY <1>4, <1>5, <1>6 DEF Worked, Kept

\* A call that goes to the device, whatever its function.
LEMMA CallServed ==
  ASSUME Fit, Good(canned, dev, ghost), Steady(canned, dev), canned.family = spec.type,
         NEW fn \in DOMAIN FunctionSpecs(spec.type),
         NEW args, \A a \in DOMAIN args : Value(args[a]), Refusals(fn, spec.type, args) = {},
         NEW x, x = Execute(fn, args),
         NEW h, Grown(ghost, h), ~x.whole => h.cut > ghost.cut,
         CalibratesDo(fn) => Noted(Former, h),
         NEW e, e = IF x.ok /\ fn = "set_compensation"
                      THEN [dev EXCEPT !.set = Merge(dev.set, Values(args))] ELSE dev,
         NEW u, u = [st |-> x.st, dev |-> e],
         NEW c, c = IF fn = "set_compensation" \/ CalibratesDo(fn) THEN Check(u) ELSE u,
         NEW v, v = IF x.ok /\ fn \in {"calibrate", "clear_calibration"} THEN RefreshLevel(c) ELSE c
  PROVE  x.ok \in BOOLEAN /\ Served([st |-> canned, dev |-> dev], h, v)
<1>1. u.st = x.st /\ u.dev = e
  OBVIOUS
<1>2. /\ Worked(x, e, h)
      /\ \/ fn = "set_compensation" \/ CalibratesDo(fn)
         \/ e = dev /\ (Near(canned, dev) => Near(x.st, e))
  <2>1. CASE fn = "set_compensation"
    <3>1. /\ "set_compensation" \in DOMAIN FunctionSpecs(spec.type)
          /\ Refusals("set_compensation", spec.type, args) = {}
          /\ x = Execute("set_compensation", args)
          /\ e = IF x.ok THEN [dev EXCEPT !.set = Merge(dev.set, Values(args))] ELSE dev
      BY <2>1
    <3>2. Worked(x, e, h)
      BY <3>1, SettingWorks
    <3>3. QED
      BY <2>1, <3>2
  <2>2. CASE CalibratesDo(fn)
    <3>1. e = dev
      BY <2>2 DEF CalibratesDo
    <3>2. Noted(Former, h)
      BY <2>2
    <3>3. Worked(x, dev, h)
      BY <2>2, <3>2, CalibratingWorks
    <3>4. QED
      BY <2>2, <3>1, <3>3
  <2>3. CASE fn # "set_compensation" /\ ~CalibratesDo(fn)
    <3>1. e = dev
      BY <2>3
    <3>2. QED
      BY <2>3, <3>1, ControlWorks
  <2>4. QED
    BY <2>1, <2>2, <2>3
<1>3. /\ Good(u.st, u.dev, h) /\ x.ok \in BOOLEAN /\ u.st.readings = canned.readings
      /\ u.st.family = canned.family
  BY <1>1, <1>2 DEF Worked
<1>4. /\ Good(c.st, c.dev, h) /\ Steady(c.st, c.dev) /\ c.st.readings = canned.readings
      /\ c.st.family = canned.family
  <2>1. CASE fn = "set_compensation" \/ CalibratesDo(fn)
    <3>1. Checked(u, h, c)
      BY <1>3, <2>1, CheckFacts
    <3>2. QED
      BY <1>3, <3>1 DEF Checked, Steady
  <2>2. CASE ~(fn = "set_compensation" \/ CalibratesDo(fn))
    <3>1. c = u /\ e = dev /\ (Near(canned, dev) => Near(x.st, e))
      BY <1>2, <2>2
    <3>2. QED
      BY <1>1, <1>3, <3>1 DEF Steady
  <2>3. QED
    BY <2>1, <2>2
<1>5. /\ Good(v.st, v.dev, h) /\ Steady(v.st, v.dev) /\ v.st.readings = canned.readings
      /\ v.st.family = canned.family
  <2> DEFINE w == RefreshLevel(c)
  <2>1. /\ Good(w.st, w.dev, h) /\ (Near(c.st, c.dev) => Near(w.st, w.dev))
        /\ w.st.readings = c.st.readings /\ w.st.family = c.st.family
        /\ w.dev.read = c.dev.read /\ w.dev.successes = c.dev.successes
    BY <1>4, LevelFacts
  <2>2. v = w \/ v = c
    OBVIOUS
  <2> HIDE DEF w
  <2>3. QED
    BY <1>4, <2>1, <2>2 DEF Steady
<1>6. canned.readings \in Nat
  BY DEF Good, Device
<1> DEFINE before == [st |-> canned, dev |-> dev]
<1>7. before.st = canned /\ before.dev = dev
  OBVIOUS
<1> HIDE DEF before
<1>8. Served(before, h, v)
  BY <1>5, <1>6, <1>7 DEF Served
<1>9. QED
  BY <1>3, <1>8 DEF before
-------------------------------------------------------------------------------
(* The inductive invariant.                                                *)

\* What a call may be answered with.
Answers == {"OK", "FAILED", "NOT_FOUND", "INVALID_ARGUMENT", "OUT_OF_RANGE"}

\* The history is whole, and has counted the reset there may have been.
Historied == /\ DOMAIN ghost = {"calls", "reverts", "cut", "unread", "start"}
             /\ ghost.reverts = Gone(canned)

\* The invariant.  A device is active only if the probe is of its family, so that
\* its defaults are the ones a calibration sends.
IInv ==
  /\ Fit /\ Good(canned, dev, ghost) /\ Steady(canned, dev) /\ Historied
  /\ active \in BOOLEAN /\ answer \in Answers
  /\ active => canned.family = spec.type

\* What is said of a state and a record is said of them in the next state too:
\* what it rests on does not change.
LEMMA GoodStays ==
  ASSUME NEW st, NEW d, NEW g, Good(st, d, g), UNCHANGED <<spec, unit, options>>
  PROVE  Good(st, d, g)'
<1>1. Device(st)' /\ Entry(d)'
  BY DEF Good, Device, Entry, Levels, Adjustable, Fields
<1>2. /\ Gone(st)' = Gone(st)
      /\ \A f \in Comp : Origins(st, g, f)' = Origins(st, g, f)
      /\ \A f \in Comp : \A v : Rounded(f, v)' = Rounded(f, v)
  BY DEF Gone, Origins, Rounded
<1>3. Books(st, d, g.cut)' /\ Anchored(st, d, g)'
  BY <1>2 DEF Good, Books, Anchored, Held
<1>4. QED
  BY <1>1, <1>3 DEF Good

\* The same of the values set.
LEMMA SteadyStays ==
  ASSUME NEW st, NEW d, Steady(st, d), UNCHANGED <<spec, unit, options>>
  PROVE  Steady(st, d)'
  BY DEF Steady, Near, Rounding

\* A request that was served takes the invariant with it.
LEMMA ServedStep ==
  ASSUME IInv, NEW u, NEW h, Grown(ghost, h), DOMAIN h = DOMAIN ghost, h.reverts = ghost.reverts,
         Served([st |-> canned, dev |-> dev], h, u), Becomes(u, h),
         UNCHANGED <<spec, unit, options>>,
         active' \in BOOLEAN, active' => canned.family = spec.type, answer' \in Answers
  PROVE  IInv'
<1> DEFINE before == [st |-> canned, dev |-> dev]
<1>1. before.st = canned /\ before.dev = dev
  OBVIOUS
<1>2. /\ Good(u.st, u.dev, h) /\ Steady(u.st, u.dev)
      /\ u.st.readings >= canned.readings /\ u.st.family = canned.family
  BY <1>1 DEF Served
<1>3. PICK n : n = Reverts(canned, u.st)
  OBVIOUS
<1>4. PICK g : g = [h EXCEPT !.reverts = h.reverts + n]
  OBVIOUS
<1>5. canned' = u.st /\ dev' = u.dev /\ ghost' = g
  BY <1>3, <1>4 DEF Becomes
<1>6. /\ DOMAIN g = {"calls", "reverts", "cut", "unread", "start"}
      /\ g.cut = h.cut /\ g.unread = h.unread /\ g.start = h.start /\ g.reverts = h.reverts + n
  BY <1>4 DEF IInv, Historied
<1>7. Good(u.st, u.dev, g)
  <2>1. Grown(h, g)
    BY <1>2, <1>6 DEF Grown, Good
  <2>2. QED
    BY <1>2, <2>1, GoodGrown
<1>8. Good(u.st, u.dev, g)' /\ Steady(u.st, u.dev)'
  BY <1>2, <1>7, GoodStays, SteadyStays
<1>9. Good(canned, dev, ghost)' /\ Steady(canned, dev)'
  BY <1>5, <1>8
<1>10. g.reverts = Gone(u.st)
  <2>1. canned.readings \in Nat /\ u.st.readings \in Nat /\ options.revert_after \in Nat
    BY <1>2 DEF IInv, Good, Device, Fit, Usable
  <2>2. h.reverts = Gone(canned)
    BY DEF IInv, Historied
  <2>3. QED
    BY <1>2, <1>3, <1>6, <2>1, <2>2 DEF Gone, Reverts
<1>11. Gone(canned)' = Gone(u.st)
  BY <1>5 DEF Gone
<1>12. Historied'
  BY <1>5, <1>6, <1>10, <1>11 DEF Historied
<1>13. Fit'
  BY DEF IInv, Fit
<1>14. (active => canned.family = spec.type)'
  BY <1>2, <1>5
<1>15. QED
  BY <1>9, <1>12, <1>13, <1>14 DEF IInv, Answers

\* A step that touches neither the probe nor its record.
LEMMA IdleStep ==
  ASSUME IInv, UNCHANGED <<spec, unit, options, canned, active, dev, ghost>>, answer' \in Answers
  PROVE  IInv'
<1>1. PICK st, d, g : st = canned /\ d = dev /\ g = ghost
  OBVIOUS
<1>2. Good(st, d, g)' /\ Steady(st, d)'
  BY <1>1, GoodStays, SteadyStays DEF IInv
<1>3. Good(canned, dev, ghost)' /\ Steady(canned, dev)'
  BY <1>1, <1>2
<1>4. Historied' /\ Fit'
  BY DEF IInv, Historied, Gone, Fit
<1>5. QED
  BY <1>3, <1>4 DEF IInv, Answers

\* A probe as state_for makes it, and a device nobody has called yet.
LEMMA InitHolds == Init => IInv
<1> SUFFICES ASSUME Init PROVE IInv
  OBVIOUS
<1>1. PICK query \in Queries : options = Parse(query)
  BY DEF Init
<1>2. Fit /\ Usable(options)
  BY <1>1, MockAssumption DEF MockAssumption, Init, Fit
<1>3. /\ options.calibration_level \in Nat /\ options.pending_reads \in Nat
      /\ options.revert_after \in Nat /\ options.salinity_ppt \in BOOLEAN
      /\ options.start_temperature_c \in Int
  BY <1>2 DEF Usable
<1> DEFINE family == family_for_address(spec.address)
           d == DefaultsOf(family)
<1>4. d \in [Comp -> Nat]
  BY DEF DefaultsOf, Comp
<1> HIDE DEF family, d
<1>5. PICK comp \in [Comp -> Nat] :
        comp = IF options.start_temperature_c > 0
                 THEN [d EXCEPT !.T = options.start_temperature_c] ELSE d
  <2>1. options.start_temperature_c > 0 =>
          [d EXCEPT !.T = options.start_temperature_c] \in [Comp -> Nat]
    BY <1>3, <1>4 DEF Comp
  <2>2. QED
    BY <1>4, <2>1
<1>6. PICK ppt \in BOOLEAN : ppt = options.salinity_ppt
  BY <1>3
<1>7. canned = [family |-> family, last_command |-> NoCmd, pending_left |-> 0,
                calibration_level |-> options.calibration_level, comp |-> comp,
                salinity_ppt |-> ppt, readings |-> 0]
  BY <1>5, <1>6 DEF Init, DeviceState, family, d
<1>8. Device(canned) /\ canned.readings = 0 /\ canned.comp = comp
  BY <1>3, <1>7 DEF Device, Levels
<1>9. Gone(canned) = 0
  BY <1>3, <1>8 DEF Gone
<1>10. /\ dev = [phase |-> "down", set |-> Nothing, read |-> Nothing, level |-> {},
                successes |-> 0, reapplied |-> 0]
       /\ ghost = [calls |-> 0, reverts |-> 0, cut |-> 0, unread |-> {}, start |-> canned.comp]
       /\ active = FALSE /\ answer = "OK"
  BY DEF Init
<1>11. /\ dev.set = Nothing /\ dev.read = Nothing /\ dev.reapplied = 0
       /\ ghost.reverts = 0 /\ ghost.cut = 0 /\ ghost.start = comp /\ ghost.unread = {}
       /\ DOMAIN ghost = {"calls", "reverts", "cut", "unread", "start"}
  BY <1>8, <1>10
<1>12. /\ Nothing \in [Comp -> Optional] /\ \A f \in Comp : Nothing[f] = Unset
       /\ CheckEvery \in Nat \ {0}
  BY MockAssumption DEF Nothing, Optional, MockAssumption
<1>13. Entry(dev)
  BY <1>10, <1>12 DEF Entry
<1>14. Held(canned, dev) /\ Near(canned, dev)
  BY <1>11, <1>12 DEF Held, Near
<1>15. Books(canned, dev, ghost.cut)
  BY <1>9, <1>11, <1>14 DEF Books
<1>16. Anchored(canned, dev, ghost)
  <2>1. \A f \in Comp : comp[f] \in Origins(canned, ghost, f)
    BY <1>11 DEF Origins
  <2>2. QED
    BY <1>8, <1>11, <1>12, <2>1 DEF Anchored
<1>17. Good(canned, dev, ghost)
  BY <1>8, <1>11, <1>13, <1>15, <1>16 DEF Good
<1>18. QED
  BY <1>2, <1>9, <1>10, <1>11, <1>14, <1>17 DEF IInv, Steady, Historied, Answers

\* A refusal is one of two answers.
LEMMA RefusalsKnown ==
  ASSUME NEW fn, NEW type, NEW args
  PROVE  Refusals(fn, type, args) \subseteq {"INVALID_ARGUMENT", "OUT_OF_RANGE"}
<1>1. \A v, min, max : NumberRefusals(v, min, max) \subseteq {"INVALID_ARGUMENT", "OUT_OF_RANGE"}
  BY DEF NumberRefusals
<1>2. CompensationRefusals(type, args) \subseteq {"INVALID_ARGUMENT", "OUT_OF_RANGE"}
  BY <1>1 DEF CompensationRefusals
<1>3. CalibrateRefusals(type, args) \subseteq {"INVALID_ARGUMENT", "OUT_OF_RANGE"}
  BY <1>1 DEF CalibrateRefusals
<1>4. \/ Refusals(fn, type, args) \in {{}, {"INVALID_ARGUMENT"}}
      \/ Refusals(fn, type, args) = CalibrateRefusals(type, args)
      \/ Refusals(fn, type, args) = CompensationRefusals(type, args)
  BY DEF Refusals
<1>5. QED
  BY <1>2, <1>3, <1>4

\* The first reading of a device, with what follows it.
LEMMA InitializeStep ==
  ASSUME IInv, Initialize
  PROVE  IInv'
<1>1. PICK cmd : cmd = Cmd("i", NoText, 0)
  OBVIOUS
<1>2. PICK i : i = Query(canned, cmd)
  OBVIOUS
<1>3. cmd.verb = "i" /\ "i" \notin Comp
  BY <1>1 DEF Cmd, Comp
<1>4. Device(canned) /\ Entry(dev) /\ Good(canned, dev, ghost) /\ Fit /\ Steady(canned, dev)
  BY DEF IInv, Good
<1>5. Sendable(cmd) /\ ~Sets(cmd) /\ i = Exchange(options, canned, cmd, 1)
  BY <1>2, <1>3 DEF Sendable, Sets, Query
<1>6. Kept(canned, i.st)
  BY <1>3, <1>4, <1>5, PlainExchange
<1>7. i.code = 1 => i.payload = canned.family
  <2> SUFFICES ASSUME i.code = 1 PROVE i.payload = canned.family
    OBVIOUS
  <2> DEFINE w == RecordCommand(options, canned, cmd)
  <2>1. PICK n \in 0..options.pending_reads : i.payload = Payload([w EXCEPT !.pending_left = n])
    BY <1>4, <1>5, ExchangeFacts
  <2>2. Recorded(canned, cmd, w)
    BY <1>4, <1>5, RecordFacts
  <2> HIDE DEF w
  <2> DEFINE t == [w EXCEPT !.pending_left = n]
  <2>3. t.last_command = cmd /\ t.family = canned.family
    BY <2>2 DEF Recorded, Device
  <2> HIDE DEF t
  <2>4. Payload(t) = t.family
    BY <1>3, <2>3 DEF Payload
  <2>5. QED
    BY <2>1, <2>3, <2>4 DEF t
<1>8. PICK e : e = [dev EXCEPT !.phase = "up"]
  OBVIOUS
<1>9. /\ Entry(e) /\ e.set = dev.set /\ e.read = dev.read /\ e.reapplied = dev.reapplied
      /\ e.successes = dev.successes
  BY <1>4, <1>8 DEF Entry
<1>10. PICK u : u = [st |-> i.st, dev |-> e]
  OBVIOUS
<1>11. u.st = i.st /\ u.dev = e
  BY <1>10
<1>12. Good(u.st, u.dev, ghost) /\ Steady(u.st, u.dev)
  <2>1. Good(i.st, e, ghost) /\ (Near(canned, dev) => Near(i.st, e))
    BY <1>4, <1>6, <1>9, GoodKept
  <2>2. QED
    BY <1>4, <1>9, <1>11, <2>1 DEF Steady
<1>13. u.st.readings = canned.readings /\ u.st.family = canned.family /\ canned.readings \in Nat
  BY <1>4, <1>6, <1>11 DEF Kept, Device
<1>14. PICK r : r = Refresh(u)
  OBVIOUS
<1>15. PICK l : l = RefreshLevel(r)
  OBVIOUS
<1>16. PICK v : v = Check(l)
  OBVIOUS
<1>17. Served(u, ghost, r)
  BY <1>4, <1>12, <1>14, RefreshFacts
<1>18. Good(l.st, l.dev, ghost) /\ l.st.readings = r.st.readings /\ l.st.family = r.st.family
  BY <1>4, <1>15, <1>17, LevelFacts DEF Served
<1>19. Checked(l, ghost, v)
  BY <1>4, <1>16, <1>18, CheckFacts
<1>20. PICK before : before = [st |-> canned, dev |-> dev]
  OBVIOUS
<1>21. before.st = canned /\ before.dev = dev
  BY <1>20
<1>22. Served(before, ghost, v)
  BY <1>13, <1>17, <1>18, <1>19, <1>21 DEF Served, Checked, Steady
<1>23. Served(before, ghost, u)
  BY <1>12, <1>13, <1>21 DEF Served
<1>24. /\ active' = (i.code = 1 /\ i.payload = spec.type)
       /\ Becomes(IF active' THEN v ELSE u, ghost)
       /\ UNCHANGED <<spec, unit, options, answer>>
  BY <1>1, <1>2, <1>8, <1>10, <1>14, <1>15, <1>16 DEF Initialize, Identified
<1>25. active' \in BOOLEAN /\ (active' => canned.family = spec.type) /\ answer' \in Answers
  BY <1>7, <1>24 DEF IInv
<1>26. PICK n : n = (IF active' THEN v ELSE u) /\ Becomes(n, ghost) /\ Served(before, ghost, n)
  BY <1>22, <1>23, <1>24
<1>27. Grown(ghost, ghost)
  BY <1>4 DEF Grown, Good
<1>28. QED
  BY <1>20, <1>24, <1>25, <1>26, <1>27, ServedStep

\* read() of a sample that is too old.
LEMMA ReadStep ==
  ASSUME IInv, Read
  PROVE  IInv'
<1>1. PICK u : u = [st |-> canned, dev |-> dev]
  OBVIOUS
<1>2. PICK v : v = Refresh(u)
  OBVIOUS
<1>3. u.st = canned /\ u.dev = dev
  BY <1>1
<1>4. Served(u, ghost, v)
  BY <1>2, <1>3, RefreshFacts DEF IInv
<1>5. Becomes(v, ghost) /\ UNCHANGED <<spec, unit, options, active, answer>>
  BY <1>1, <1>2 DEF Read
<1>6. Grown(ghost, ghost)
  BY DEF IInv, Grown, Good
<1>7. QED
  BY <1>1, <1>4, <1>5, <1>6, ServedStep DEF IInv

\* call() that is answered without a job.
LEMMA CallRefusedStep ==
  ASSUME IInv, NEW fn, NEW args, CallRefused(fn, args)
  PROVE  IInv'
<1>1. UNCHANGED <<spec, unit, options, canned, active, dev, ghost>>
  BY DEF CallRefused
<1>2. answer' = "NOT_FOUND" \/ answer' \in Refusals(fn, spec.type, args)
  BY DEF CallRefused
<1>3. answer' \in Answers
  BY <1>2, RefusalsKnown DEF Answers
<1>4. QED
  BY <1>1, <1>3, IdleStep

\* call() that goes to the device.
LEMMA CallStep ==
  ASSUME IInv, NEW c0 \in Calls, Call(c0.fn, c0.args)
  PROVE  IInv'
<1>1. PICK fn, args : fn = c0.fn /\ args = c0.args
  OBVIOUS
<1>2. PICK x : x = Execute(fn, args)
  OBVIOUS
<1>3. PICK cut, new :
        /\ cut = ghost.cut + (IF x.whole THEN 0 ELSE 1)
        /\ new = {f \in Comp : CalibratesDo(fn) /\ Former[f] = Unset}
  OBVIOUS
<1>4. PICK h : h = [ghost EXCEPT !.calls = ghost.calls + 1, !.cut = cut,
                                 !.unread = ghost.unread \cup new]
  OBVIOUS
<1>5. PICK e : e = IF x.ok /\ fn = "set_compensation"
                     THEN [dev EXCEPT !.set = Merge(dev.set, Values(args))] ELSE dev
  OBVIOUS
<1>6. PICK u : u = [st |-> x.st, dev |-> e]
  OBVIOUS
<1>7. PICK c : c = IF fn = "set_compensation" \/ CalibratesDo(fn) THEN Check(u) ELSE u
  OBVIOUS
<1>8. PICK v : v = IF x.ok /\ fn \in {"calibrate", "clear_calibration"}
                     THEN RefreshLevel(c) ELSE c
  OBVIOUS
<1>9. /\ active /\ fn \in DOMAIN FunctionSpecs(spec.type) /\ Refusals(fn, spec.type, args) = {}
      /\ Becomes(v, h) /\ answer' = (IF x.ok THEN "OK" ELSE "FAILED")
      /\ UNCHANGED <<spec, unit, options, active>>
  BY <1>1, <1>2, <1>3, <1>4, <1>5, <1>6, <1>7, <1>8 DEF Call, Concludes
<1>10. /\ Fit /\ Good(canned, dev, ghost) /\ Steady(canned, dev) /\ ghost.cut \in Nat
       /\ DOMAIN ghost = {"calls", "reverts", "cut", "unread", "start"}
       /\ canned.family = spec.type
  BY <1>9 DEF IInv, Good, Historied
<1>11. /\ DOMAIN h = DOMAIN ghost /\ h.reverts = ghost.reverts /\ h.start = ghost.start
       /\ h.cut = cut /\ h.unread = ghost.unread \cup new
  BY <1>4, <1>10
<1>12. Grown(ghost, h) /\ (~x.whole => h.cut > ghost.cut)
  BY <1>3, <1>10, <1>11 DEF Grown
<1>13. CalibratesDo(fn) => Noted(Former, h)
  BY <1>3, <1>11 DEF Noted
<1>14. \A a \in DOMAIN args : Value(args[a])
  BY <1>1, MockAssumption DEF MockAssumption, Value
<1>15. PICK before : before = [st |-> canned, dev |-> dev]
  OBVIOUS
<1>16. Served(before, h, v)
  BY <1>2, <1>5, <1>6, <1>7, <1>8, <1>9, <1>10, <1>12, <1>13, <1>14, <1>15, CallServed
<1>17. answer' \in Answers /\ active' \in BOOLEAN /\ (active' => canned.family = spec.type)
  BY <1>9, <1>10 DEF Answers, IInv
<1>18. QED
  BY <1>9, <1>11, <1>12, <1>15, <1>16, <1>17, ServedStep

\* The invariant is inductive.
LEMMA NextHolds == IInv /\ [Next]_vars => IInv'
<1> SUFFICES ASSUME IInv, [Next]_vars PROVE IInv'
  OBVIOUS
<1>1. ASSUME NEW c \in Calls, CallRefused(c.fn, c.args) \/ Call(c.fn, c.args) PROVE IInv'
  BY <1>1, CallRefusedStep, CallStep
<1>2. UNCHANGED vars => IInv'
  BY IdleStep DEF vars, IInv
<1>3. QED
  BY <1>1, <1>2, InitializeStep, ReadStep DEF Next

\* It holds in every state.
LEMMA Invariant == Spec => []IInv
  BY InitHolds, NextHolds, PTL DEF Spec
-------------------------------------------------------------------------------
(* What the invariant gives.                                               *)

\* Whatever the options of the mock bus, the digits of the probe and the calls,
\* the values on the probe, those set, those read, the level and the count to
\* the next check stay within their types; a DO probe's level stays capped.
THEOREM TypeCorrect == Spec => []TypeOK
<1>1. IInv => TypeOK
  BY DEF IInv, Good, Device, Entry, Answers, TypeOK
<1>2. QED
  BY <1>1, Invariant, PTL

\* check_compensation never sends values again that the probe still holds: each
\* re-send is accounted for by a reset or by a pass that was cut short.
THEOREM ResentForLoss == Spec => []ResentOnlyWhenLost
<1>1. IInv => ResentOnlyWhenLost
  <2> SUFFICES ASSUME IInv PROVE dev.reapplied <= ghost.reverts + ghost.cut
    BY DEF ResentOnlyWhenLost
  <2>1. Books(canned, dev, ghost.cut) /\ ghost.reverts = Gone(canned)
    BY DEF IInv, Good, Historied
  <2>2. dev.reapplied \in Nat /\ ghost.cut \in Nat /\ Gone(canned) \in Nat
    BY DEF IInv, Good, Entry, Gone
  <2>3. QED
    BY <2>1, <2>2 DEF Books
<1>2. QED
  BY <1>1, Invariant, PTL

\* Right after a check that could read the probe, what was set is in force, up
\* to the rounding of sending and reading and the tolerance of the comparison.
THEOREM SetValuesInForce == Spec => []SetMeansHeld
<1>1. IInv => SetMeansHeld
  BY DEF IInv, Steady, Near, SetMeansHeld
<1>2. QED
  BY <1>1, Invariant, PTL

\* However often DO calibrations send back what was read, rounded each time, a
\* value that nobody set stays within one rounding of where it came from.
THEOREM ValuesDoNotDrift == Spec => []NoDrift
<1>1. IInv => NoDrift
  <2> SUFFICES ASSUME IInv, NEW f \in Comp, dev.set[f] = Unset, ghost.cut = 0
               PROVE  \/ Apart(canned.comp[f], ghost.start[f]) <= Rounding(f)
                      \/ /\ ghost.reverts > 0 \/ f \in ghost.unread
                         /\ Apart(canned.comp[f], DefaultsOf(canned.family)[f]) <= Rounding(f)
    BY DEF NoDrift
  <2>1. /\ Fit /\ ghost.start \in [Comp -> Nat] /\ Anchored(canned, dev, ghost)
        /\ ghost.reverts = Gone(canned)
    BY DEF IInv, Good, Historied
  <2>2. PICK v \in Origins(canned, ghost, f) :
          canned.comp[f] = v \/ canned.comp[f] = Rounded(f, v)
    BY <2>1 DEF Anchored
  <2>3. v \in Nat
    BY <2>1, <2>2, OriginsNat
  <2>4. Apart(v, Rounded(f, v)) <= Rounding(f) /\ Rounded(f, v) \in Int /\ Rounding(f) \in Nat
    BY <2>1, <2>3, RoundedFacts
  <2>5. Apart(canned.comp[f], v) <= Rounding(f)
    BY <2>2, <2>3, <2>4 DEF Apart
  <2>6. \/ v = ghost.start[f]
        \/ v = DefaultsOf(canned.family)[f] /\ (Gone(canned) = 1 \/ f \in ghost.unread)
    BY <2>2 DEF Origins
  <2>7. QED
    BY <2>1, <2>5, <2>6
<1>2. QED
  BY <1>1, Invariant, PTL
================================================================================
