----------------------------- MODULE StartupProofs -----------------------------
(***************************************************************************)
(* Proofs about Startup, for every set of files, command lines, addresses  *)
(* and answers: what is loaded, what becomes of each configured device,    *)
(* and what the checks of the command line are worth.                      *)
(***************************************************************************)
EXTENDS Startup, TLAPS

\* No two devices of ds share an id or an address.
Unique(ds) ==
  \A i, j \in DOMAIN ds : ds[i].id = ds[j].id \/ ds[i].address = ds[j].address => i = j

\* s is made of the first n devices of ds, in their order.
Drawn(s, ds, n) ==
  /\ \A i \in DOMAIN s : \E p \in 1..n : s[i] = ds[p]
  /\ \A i, j \in DOMAIN s : \A p, q \in DOMAIN ds :
       i < j /\ s[i] = ds[p] /\ s[j] = ds[q] => p < q

\* The first n devices of ds are dealt out to a and x.
Dealt(a, x, ds, n) ==
  /\ n \in 0..Len(ds)
  /\ Drawn(a, ds, n) /\ Drawn(x, ds, n)
  /\ \A p \in 1..n : (\E i \in DOMAIN a : a[i] = ds[p]) \/ (\E i \in DOMAIN x : x[i] = ds[p])
  /\ \A i \in DOMAIN a, j \in DOMAIN x : a[i].id # x[j].id

\* s is what remains of ds.
Remains(s, ds) == /\ Len(s) <= Len(ds)
                  /\ \A i \in DOMAIN s : s[i] = ds[Len(ds) - Len(s) + i]

\* How many devices were probed.
Probed == Len(config.devices) - Len(todo)

\* Ids of the devices read for the first time.
WasRead == {state.active[i].id : i \in 1..(Len(state.active) - Len(todo))}

\* A running process has the configuration of the file, and no configuration
\* names two devices alike.
Loaded == /\ phase # "down" => Valid(file) /\ config = load_config(file)
          /\ Unique(config.devices)

\* Where the executor is, and what initialize() has reached, in each phase.
Progress ==
  /\ phase = "down"     => executor = "none" /\ ~hung
  /\ phase = "starting" => executor = "none" /\ ~hung /\ state = Blank
  /\ phase = "probing"  => /\ executor = "local" /\ Remains(todo, config.devices)
                           /\ state.executor_running /\ state.tried = {}
  /\ phase = "reading"  => /\ executor = "global" /\ Remains(todo, state.active)
                           /\ state.executor_running /\ state.tried = WasRead
                           /\ state.ready <=> state.active # <<>>
  /\ phase = "up"       => /\ state.ready <=> state.active # <<>>
                           /\ state.ready => state.executor_running /\ executor = "global"
                           /\ state.tried = Ids(state.active)

\* The devices probed so far, or all of them, are active or excluded.
Inventory ==
  /\ \E n \in Nat : Dealt(state.active, state.excluded, config.devices, n)
  /\ phase = "probing"   => Dealt(state.active, state.excluded, config.devices, Probed)
  /\ executor = "global" => Dealt(state.active, state.excluded, config.devices, Len(config.devices))
  /\ phase # "down"      => \A i \in DOMAIN state.active : Matches(state.active[i])

\* Some device before the p-th holds or has held the bus.
Blocked(p) == \E j \in 1..(p - 1) :
                config.devices[j].id \in late /\ AnswerOf(config.devices[j]).late

\* The first n devices are excluded for a cause.
Caused(n) ==
  \A p \in 1..n :
    LET d == config.devices[p]
    IN Matches(d) /\ ~AnswerOf(d).late /\ d.id \in Ids(state.excluded) => Blocked(p)

Causes == /\ phase = "probing"   => Caused(Probed) /\ (hung => Blocked(Probed + 1))
          /\ executor = "global" => Caused(Len(config.devices))

\* What the processes that ran on this file and host found.
Foretold ==
  /\ seen.check_config # -1 => (seen.check_config = 0 <=> Valid(file))
  /\ seen.check_host # -1 =>
       seen.check_host = IF ~Valid(file) THEN 2
                         ELSE IF HostMet(load_config(file).bus_path) THEN 0 ELSE 1
  /\ seen.serve = "refused" => ~Valid(file)
  /\ seen.serve = "unmet"   => Valid(file) /\ ~HostMet(load_config(file).bus_path)
  /\ seen.serve = "started" => Valid(file) /\ HostMet(load_config(file).bus_path)

IInv == TypeOK /\ Loaded /\ Progress /\ Inventory /\ Causes /\ Foretold
-------------------------------------------------------------------------------
(* The configuration.                                                      *)

\* A number within int survives the cast.
LEMMA NarrowKeeps ==
  ASSUME NEW n \in 0..MaxInt
  PROVE  Narrow(n) = n
<1> DEFINE width == 2 * (MaxInt + 1)
           shifted == n + MaxInt + 1
<1>1. MaxInt \in Nat
  BY ConfigAssumption DEF ConfigAssumption
<1>2. shifted \in Nat /\ width \in Nat \ {0} /\ shifted < width
  BY <1>1
<1>3. \A a, b \in Nat : a < b => a % b = a
  OBVIOUS
<1> HIDE DEF width, shifted
<1>4. shifted % width = shifted
  BY <1>2, <1>3
<1>5. QED
  BY <1>1, <1>4 DEF Narrow, shifted, width

\* What the schema says of the hardware section and of a device.
LEMMA SchemaFacts ==
  /\ DOMAIN Schema = {"provider", "hardware", "discovery"}
  /\ DOMAIN Schema["hardware"] = {"bus_path", "query_delay_us", "sample_interval_ms",
                                  "timeout_ms", "retry_count"}
  /\ Schema["hardware"]["bus_path"].required
  /\ Schema["hardware"]["bus_path"].values = NonEmpty
  /\ \A k \in DOMAIN Schema["hardware"] \ {"bus_path"} :
       Schema["hardware"][k].values \subseteq 0..MaxInt
<1>1. MaxInt \in Nat /\ MaxInt >= Day /\ Day \in Nat
  BY ConfigAssumption DEF ConfigAssumption, Day
<1>2. DOMAIN Schema = {"provider", "hardware", "discovery"}
  BY DEF Schema
<1> DEFINE h == Schema["hardware"]
<1>3. h = [bus_path           |-> Required(NonEmpty),
           query_delay_us     |-> Optional(1..MaxInt),
           sample_interval_ms |-> Optional(1..Day),
           timeout_ms         |-> Optional(1..MaxInt),
           retry_count        |-> Optional(0..MaxInt)]
  BY DEF Schema
<1> HIDE DEF h
<1>4. DOMAIN h = {"bus_path", "query_delay_us", "sample_interval_ms", "timeout_ms", "retry_count"}
  BY <1>3
<1>5. h["bus_path"].required /\ h["bus_path"].values = NonEmpty
  BY <1>3 DEF Required
<1>6. ASSUME NEW k \in DOMAIN h \ {"bus_path"}
      PROVE  h[k].values \subseteq 0..MaxInt
  <2>1. /\ h["query_delay_us"].values = 1..MaxInt
        /\ h["sample_interval_ms"].values = 1..Day
        /\ h["timeout_ms"].values = 1..MaxInt
        /\ h["retry_count"].values = 0..MaxInt
    BY <1>3 DEF Optional
  <2>2. 1..MaxInt \subseteq 0..MaxInt /\ 1..Day \subseteq 0..MaxInt
    BY <1>1
  <2>3. QED
    BY <1>4, <1>6, <2>1, <2>2
<1>7. QED
  BY <1>2, <1>4, <1>5, <1>6 DEF h

LEMMA DeviceFacts ==
  ASSUME NEW node, Fits(DeviceSchema, node)
  PROVE  DeviceSpec(node) \in DeviceSpecs
<1>1. DeviceSchema = [id      |-> Required(Identifiers),
                      type    |-> Required(Types),
                      label   |-> Optional(NonEmpty),
                      address |-> Required(8..119)]
  BY DEF DeviceSchema
<1>2. /\ DOMAIN DeviceSchema = {"id", "type", "label", "address"}
      /\ DeviceSchema["id"].required /\ DeviceSchema["type"].required
      /\ DeviceSchema["address"].required
      /\ DeviceSchema["id"].values = Identifiers /\ DeviceSchema["type"].values = Types
      /\ DeviceSchema["label"].values = NonEmpty /\ DeviceSchema["address"].values = 8..119
  BY <1>1 DEF Required, Optional
<1>3. /\ node["id"] \in Identifiers /\ node["type"] \in Types /\ node["address"] \in 8..119
      /\ "label" \in DOMAIN node => node["label"] \in NonEmpty
  BY <1>2 DEF Fits
<1>4. Identifiers \subseteq Texts /\ NonEmpty \subseteq Texts
  BY ConfigAssumption DEF ConfigAssumption, NonEmpty
<1>5. Get(node, "label", node["id"]) \in Texts
  BY <1>3, <1>4 DEF Get
<1>6. parse_device_type(node["type"]) \in {"Ph", "Orp", "Ec", "Do", "Rtd", "Hum"}
  BY <1>3 DEF parse_device_type, Types
<1>7. QED
  BY <1>3, <1>5, <1>6 DEF DeviceSpec, DeviceSpecs

\* load_config of a valid file: the devices of the file, each with a name and an
\* address of its own, and its numbers as they are written.
LEMMA LoadFacts ==
  ASSUME NEW f \in Files, Valid(f)
  PROVE  /\ load_config(f).bus_path \in Texts
         /\ load_config(f).devices \in Seq(DeviceSpecs)
         /\ Len(load_config(f).devices) = Len(DevicesOf(f))
         /\ Unique(load_config(f).devices)
         /\ \A k \in DOMAIN f["hardware"] : load_config(f)[k] = f["hardware"][k]
<1> DEFINE c == load_config(f)
           hw == f["hardware"]
           ds == DevicesOf(f)
<1>1. ds \in Seq(Range(ds))
  BY StartupAssumption DEF StartupAssumption
<1>2. c.devices = [i \in DOMAIN ds |-> DeviceSpec(ds[i])]
  BY DEF load_config
<1>3. /\ c.bus_path = hw["bus_path"]
      /\ c["query_delay_us"] = Narrow(Get(hw, "query_delay_us", 300000))
      /\ c["sample_interval_ms"] = Narrow(Get(hw, "sample_interval_ms", 2500))
      /\ c["timeout_ms"] = Narrow(Get(hw, "timeout_ms", 300))
      /\ c["retry_count"] = Narrow(Get(hw, "retry_count", 2))
  BY DEF load_config
<1>4. /\ \A i \in DOMAIN ds : Fits(DeviceSchema, ds[i])
      /\ \A i, j \in DOMAIN ds :
           ds[i]["id"] = ds[j]["id"] \/ ds[i]["address"] = ds[j]["address"] => i = j
  BY DEF Valid
<1>5. Fits(Schema["hardware"], hw)
  BY SchemaFacts DEF Valid
<1> HIDE DEF c, hw, ds
<1>6. DOMAIN ds = 1..Len(ds) /\ Len(ds) \in Nat
  BY <1>1
<1>7. \A i \in 1..Len(ds) : DeviceSpec(ds[i]) \in DeviceSpecs
  BY <1>4, <1>6, DeviceFacts
<1>8. c.devices \in Seq(DeviceSpecs) /\ Len(c.devices) = Len(ds)
  BY <1>2, <1>6, <1>7
<1>9. Unique(c.devices)
  <2>1. \A i \in DOMAIN ds : c.devices[i].id = ds[i]["id"] /\ c.devices[i].address = ds[i]["address"]
    BY <1>2 DEF DeviceSpec
  <2>2. DOMAIN c.devices = DOMAIN ds
    BY <1>2
  <2>3. QED
    BY <1>4, <2>1, <2>2 DEF Unique
<1>10. hw["bus_path"] \in Texts
  <2>1. "bus_path" \in DOMAIN hw
    BY <1>5, SchemaFacts DEF Fits
  <2>2. hw["bus_path"] \in NonEmpty
    BY <1>5, <2>1, SchemaFacts DEF Fits
  <2>3. QED
    BY <2>2 DEF NonEmpty
<1>11. ASSUME NEW k \in DOMAIN hw PROVE c[k] = hw[k]
  <2>1. CASE k = "bus_path"
    BY <1>3, <2>1
  <2>2. CASE k # "bus_path"
    <3>1. hw[k] \in Schema["hardware"][k].values /\ k \in DOMAIN Schema["hardware"] \ {"bus_path"}
      BY <1>5, <1>11, <2>2 DEF Fits
    <3>2. hw[k] \in 0..MaxInt
      BY <3>1, SchemaFacts
    <3>3. Narrow(hw[k]) = hw[k]
      BY <3>2, NarrowKeeps
    <3>4. k \in {"query_delay_us", "sample_interval_ms", "timeout_ms", "retry_count"}
      BY <3>1, SchemaFacts
    <3>5. c[k] = Narrow(hw[k])
      BY <1>3, <1>11, <3>4 DEF Get
    <3>6. QED
      BY <3>3, <3>5
  <2>3. QED
    BY <2>1, <2>2
<1>12. QED
  BY <1>3, <1>8, <1>9, <1>10, <1>11 DEF c, hw, ds
-------------------------------------------------------------------------------
(* Dealing out the devices.                                                *)

\* Before the first probe nothing is dealt.
LEMMA DealtNone ==
  ASSUME NEW S, NEW ds \in Seq(S)
  PROVE  Dealt(<<>>, <<>>, ds, 0)
  BY DEF Dealt, Drawn

\* The two hands are alike.
LEMMA DealtSwap ==
  ASSUME NEW a, NEW x, NEW ds, NEW n, Dealt(a, x, ds, n)
  PROVE  Dealt(x, a, ds, n)
  BY DEF Dealt

\* All devices in one hand.
LEMMA DealtAll ==
  ASSUME NEW S, NEW ds \in Seq(S), Unique(ds)
  PROVE  Dealt(<<>>, ds, ds, Len(ds))
<1>1. DOMAIN ds = 1..Len(ds) /\ Len(ds) \in Nat
  OBVIOUS
<1>2. \A i, p \in DOMAIN ds : ds[i] = ds[p] => i = p
  BY DEF Unique
<1>3. Drawn(ds, ds, Len(ds))
  BY <1>1, <1>2 DEF Drawn
<1>4. QED
  BY <1>1, <1>3 DEF Dealt, Drawn

\* The next device is drawn.
LEMMA DrawNext ==
  ASSUME NEW S, NEW ds \in Seq(S), Unique(ds), NEW s \in Seq(S),
         NEW n \in Nat, n < Len(ds), Drawn(s, ds, n)
  PROVE  Drawn(s, ds, n + 1) /\ Drawn(Append(s, ds[n + 1]), ds, n + 1)
<1> DEFINE t == Append(s, ds[n + 1])
<1>1. /\ DOMAIN ds = 1..Len(ds) /\ Len(ds) \in Nat /\ ds[n + 1] \in S
      /\ DOMAIN s = 1..Len(s) /\ Len(s) \in Nat
  OBVIOUS
<1>2. /\ DOMAIN t = 1..(Len(s) + 1) /\ t[Len(s) + 1] = ds[n + 1]
      /\ \A i \in DOMAIN s : t[i] = s[i]
  BY <1>1
<1>3. \A i, p \in DOMAIN ds : ds[i] = ds[p] => i = p
  BY DEF Unique
<1>4. \A i \in DOMAIN s : \E p \in 1..n : s[i] = ds[p]
  BY DEF Drawn
<1>5. \A i, j \in DOMAIN s : \A p, q \in DOMAIN ds : i < j /\ s[i] = ds[p] /\ s[j] = ds[q] => p < q
  BY DEF Drawn
<1> HIDE DEF t
<1>6. Drawn(s, ds, n + 1)
  <2>1. \A i \in DOMAIN s : \E p \in 1..(n + 1) : s[i] = ds[p]
    BY <1>4
  <2>2. QED
    BY <1>5, <2>1 DEF Drawn
<1>7. \A i \in DOMAIN t : \E p \in 1..(n + 1) : t[i] = ds[p]
  <2> TAKE i \in DOMAIN t
  <2>1. CASE i \in DOMAIN s
    BY <1>2, <1>4, <2>1
  <2>2. CASE i = Len(s) + 1
    <3>1. n + 1 \in 1..(n + 1)
      OBVIOUS
    <3>2. QED
      BY <1>2, <2>2, <3>1
  <2>3. QED
    BY <1>1, <1>2, <2>1, <2>2
<1>8. ASSUME NEW i \in DOMAIN t, NEW j \in DOMAIN t, NEW p \in DOMAIN ds, NEW q \in DOMAIN ds,
             i < j, t[i] = ds[p], t[j] = ds[q]
      PROVE  p < q
  <2>1. i \in DOMAIN s /\ t[i] = s[i]
    BY <1>1, <1>2, <1>8
  <2>2. CASE j \in DOMAIN s
    BY <1>2, <1>5, <1>8, <2>1, <2>2
  <2>3. CASE j = Len(s) + 1
    <3>1. q = n + 1
      BY <1>1, <1>2, <1>3, <1>8, <2>3
    <3>2. PICK k \in 1..n : s[i] = ds[k]
      BY <1>4, <2>1
    <3>3. k \in DOMAIN ds /\ ds[k] = ds[p]
      BY <1>1, <1>8, <2>1, <3>2
    <3>4. p = k
      BY <1>3, <3>3
    <3>5. QED
      BY <3>1, <3>2, <3>4
  <2>4. QED
    BY <1>1, <1>2, <2>2, <2>3
<1>9. QED
  BY <1>6, <1>7, <1>8 DEF Drawn, t

\* The next device is dealt to the first hand.
LEMMA DealNext ==
  ASSUME NEW S, NEW ds \in Seq(S), Unique(ds), NEW a \in Seq(S), NEW x \in Seq(S),
         NEW n \in Nat, n < Len(ds), Dealt(a, x, ds, n)
  PROVE  Dealt(Append(a, ds[n + 1]), x, ds, n + 1)
<1> DEFINE t == Append(a, ds[n + 1])
<1>1. Drawn(t, ds, n + 1) /\ Drawn(x, ds, n + 1)
  BY DrawNext DEF Dealt
<1>2. /\ DOMAIN ds = 1..Len(ds) /\ Len(ds) \in Nat /\ ds[n + 1] \in S
      /\ DOMAIN a = 1..Len(a) /\ Len(a) \in Nat
  OBVIOUS
<1>3. /\ DOMAIN t = 1..(Len(a) + 1) /\ t[Len(a) + 1] = ds[n + 1]
      /\ \A i \in DOMAIN a : t[i] = a[i] /\ i \in DOMAIN t
  BY <1>2
<1> HIDE DEF t
<1>4. ASSUME NEW p \in 1..(n + 1)
      PROVE  (\E i \in DOMAIN t : t[i] = ds[p]) \/ (\E i \in DOMAIN x : x[i] = ds[p])
  <2>1. CASE p = n + 1
    <3>1. Len(a) + 1 \in DOMAIN t
      BY <1>2, <1>3
    <3>2. QED
      BY <1>3, <2>1, <3>1
  <2>2. CASE p \in 1..n
    BY <1>3, <2>2 DEF Dealt
  <2>3. QED
    BY <2>1, <2>2
<1>5. ASSUME NEW i \in DOMAIN t, NEW j \in DOMAIN x
      PROVE  t[i].id # x[j].id
  <2>1. CASE i \in DOMAIN a
    BY <1>3, <2>1 DEF Dealt
  <2>2. CASE i = Len(a) + 1
    <3>1. PICK p \in 1..n : x[j] = ds[p]
      BY DEF Dealt, Drawn
    <3>2. p \in DOMAIN ds /\ n + 1 \in DOMAIN ds /\ p # n + 1
      BY <1>2
    <3>3. ds[p].id # ds[n + 1].id
      BY <3>2 DEF Unique
    <3>4. QED
      BY <1>3, <2>2, <3>1, <3>3
  <2>3. QED
    BY <1>2, <1>3, <2>1, <2>2
<1>6. n + 1 \in 0..Len(ds)
  BY <1>2
<1>7. QED
  BY <1>1, <1>4, <1>5, <1>6 DEF Dealt, t

\* What is drawn has names of its own.
LEMMA DrawnNames ==
  ASSUME NEW S, NEW ds \in Seq(S), Unique(ds), NEW s \in Seq(S), NEW n \in 0..Len(ds),
         Drawn(s, ds, n)
  PROVE  (\A i \in DOMAIN s : \E p \in DOMAIN ds : s[i] = ds[p]) /\ Unique(s)
<1>1. DOMAIN s = 1..Len(s) /\ Len(s) \in Nat /\ 1..n \subseteq DOMAIN ds
  OBVIOUS
<1>2. \A i \in DOMAIN s : \E p \in 1..n : s[i] = ds[p]
  BY DEF Drawn
<1>3. \A i, j \in DOMAIN s : \A p, q \in DOMAIN ds : i < j /\ s[i] = ds[p] /\ s[j] = ds[q] => p < q
  BY DEF Drawn
<1>4. ASSUME NEW i \in DOMAIN s, NEW j \in DOMAIN s,
             s[i].id = s[j].id \/ s[i].address = s[j].address
      PROVE  i = j
  <2>1. PICK p \in 1..n : s[i] = ds[p]
    BY <1>2
  <2>2. PICK q \in 1..n : s[j] = ds[q]
    BY <1>2
  <2>3. p \in DOMAIN ds /\ q \in DOMAIN ds
    BY <1>1
  <2>4. p = q
    BY <1>4, <2>1, <2>2, <2>3 DEF Unique
  <2>5. ~(i < j) /\ ~(j < i)
    BY <1>3, <2>1, <2>2, <2>3, <2>4
  <2>6. QED
    BY <1>1, <2>5
<1>5. QED
  BY <1>1, <1>2, <1>4 DEF Unique

\* Dealt out devices keep their names to themselves.
LEMMA DealtNames ==
  ASSUME NEW S, NEW ds \in Seq(S), Unique(ds), NEW a \in Seq(S), NEW x \in Seq(S),
         NEW n, Dealt(a, x, ds, n)
  PROVE  Unique(a \o x)
<1> DEFINE all == a \o x
<1>1. /\ DOMAIN ds = 1..Len(ds) /\ Len(ds) \in Nat /\ n \in 0..Len(ds)
      /\ DOMAIN a = 1..Len(a) /\ Len(a) \in Nat /\ DOMAIN x = 1..Len(x) /\ Len(x) \in Nat
  BY DEF Dealt
<1>2. /\ DOMAIN all = 1..(Len(a) + Len(x))
      /\ \A i \in DOMAIN a : all[i] = a[i]
      /\ \A i \in DOMAIN all \ DOMAIN a : i - Len(a) \in DOMAIN x /\ all[i] = x[i - Len(a)]
  BY <1>1
<1> HIDE DEF all
<1>3. (\A i \in DOMAIN a : \E p \in DOMAIN ds : a[i] = ds[p]) /\ Unique(a)
  BY <1>1, DrawnNames DEF Dealt
<1>4. (\A i \in DOMAIN x : \E p \in DOMAIN ds : x[i] = ds[p]) /\ Unique(x)
  BY <1>1, DrawnNames DEF Dealt
<1>5. \A i \in DOMAIN a, j \in DOMAIN x : a[i].id # x[j].id /\ a[i].address # x[j].address
  <2> TAKE i \in DOMAIN a, j \in DOMAIN x
  <2>1. PICK p \in DOMAIN ds : a[i] = ds[p]
    BY <1>3
  <2>2. PICK q \in DOMAIN ds : x[j] = ds[q]
    BY <1>4
  <2>3. a[i].id # x[j].id
    BY DEF Dealt
  <2>4. p # q
    BY <2>1, <2>2, <2>3
  <2>5. QED
    BY <2>1, <2>2, <2>3, <2>4 DEF Unique
<1>6. ASSUME NEW i \in DOMAIN all, NEW j \in DOMAIN all,
             all[i].id = all[j].id \/ all[i].address = all[j].address
      PROVE  i = j
  <2>1. CASE i \in DOMAIN a /\ j \in DOMAIN a
    BY <1>2, <1>3, <1>6, <2>1 DEF Unique
  <2>2. CASE i \notin DOMAIN a /\ j \notin DOMAIN a
    <3>1. i - Len(a) = j - Len(a)
      BY <1>2, <1>4, <1>6, <2>2 DEF Unique
    <3>2. QED
      BY <1>1, <1>2, <3>1
  <2>3. CASE i \in DOMAIN a /\ j \notin DOMAIN a
    BY <1>2, <1>5, <1>6, <2>3
  <2>4. CASE i \notin DOMAIN a /\ j \in DOMAIN a
    BY <1>2, <1>5, <1>6, <2>4
  <2>5. QED
    BY <2>1, <2>2, <2>3, <2>4
<1>7. QED
  BY <1>6 DEF Unique, all

\* The next of the devices that remain, and those that remain after it.
LEMMA RemainsNext ==
  ASSUME NEW S, NEW ds \in Seq(S), NEW s \in Seq(S), s # <<>>, Remains(s, ds)
  PROVE  /\ Tail(s) \in Seq(S) /\ Remains(Tail(s), ds)
         /\ Len(ds) - Len(s) \in Nat /\ Len(ds) - Len(s) < Len(ds)
         /\ Len(ds) - Len(Tail(s)) = Len(ds) - Len(s) + 1
         /\ Head(s) = ds[Len(ds) - Len(s) + 1] /\ Head(s) \in S
<1>1. /\ Len(ds) \in Nat /\ Len(s) \in Nat \ {0} /\ DOMAIN s = 1..Len(s)
      /\ Head(s) = s[1] /\ Head(s) \in S /\ Tail(s) \in Seq(S) /\ Len(Tail(s)) = Len(s) - 1
      /\ DOMAIN Tail(s) = 1..(Len(s) - 1)
      /\ \A i \in 1..(Len(s) - 1) : Tail(s)[i] = s[i + 1]
  OBVIOUS
<1>2. Len(s) <= Len(ds) /\ \A i \in DOMAIN s : s[i] = ds[Len(ds) - Len(s) + i]
  BY DEF Remains
<1>3. \A i \in DOMAIN Tail(s) : Tail(s)[i] = ds[Len(ds) - Len(Tail(s)) + i]
  <2> TAKE i \in DOMAIN Tail(s)
  <2>1. i + 1 \in DOMAIN s /\ Tail(s)[i] = s[i + 1]
    BY <1>1
  <2>2. s[i + 1] = ds[Len(ds) - Len(s) + (i + 1)]
    BY <1>2, <2>1
  <2>3. Len(ds) - Len(s) + (i + 1) = Len(ds) - Len(Tail(s)) + i
    BY <1>1
  <2>4. QED
    BY <2>1, <2>2, <2>3
<1>4. QED
  BY <1>1, <1>2, <1>3 DEF Remains
-------------------------------------------------------------------------------
(* The invariant.                                                          *)

\* The configuration and the state of a process that has not begun.
LEMMA Nothing ==
  /\ NoConfig.bus_path \in Texts /\ NoConfig.devices = <<>>
  /\ <<>> \in Seq(DeviceSpecs)
  /\ Blank \in [active : Seq(DeviceSpecs), excluded : Seq(DeviceSpecs), ready : BOOLEAN,
                executor_running : BOOLEAN, tried : SUBSET Identifiers]
  /\ Blank.active = <<>> /\ Blank.excluded = <<>> /\ Unique(<<>>)
  /\ Unseen \in [check_config : {-1, 0, 1}, check_host : {-1, 0, 1, 2},
                 serve : {"none", "refused", "unmet", "started"}]
<1>1. NoConfig.bus_path \in Texts /\ NoConfig.devices = <<>>
  BY ConfigAssumption DEF ConfigAssumption, NoConfig
<1>2. <<>> \in Seq(DeviceSpecs)
  OBVIOUS
<1>3. Unique(<<>>)
  BY DEF Unique
<1>4. Unseen \in [check_config : {-1, 0, 1}, check_host : {-1, 0, 1, 2},
                  serve : {"none", "refused", "unmet", "started"}]
  BY DEF Unseen
<1>5. QED
  BY <1>1, <1>2, <1>3, <1>4 DEF Blank

LEMMA InvInit == Init => IInv
<1> SUFFICES ASSUME Init PROVE IInv
  OBVIOUS
<1> USE DEF Init
<1>1. TypeOK
  BY Nothing DEF TypeOK
<1>2. Loaded
  BY Nothing DEF Loaded
<1>3. Progress
  BY DEF Progress
<1>4. Inventory
  <2>1. Dealt(<<>>, <<>>, config.devices, 0)
    BY Nothing, DealtNone
  <2>2. QED
    BY Nothing, <2>1 DEF Inventory
<1>5. Causes
  BY DEF Causes
<1>6. Foretold
  BY DEF Foretold, Unseen
<1>7. QED
  BY <1>1, <1>2, <1>3, <1>4, <1>5, <1>6 DEF IInv

\* A process that ends without serving leaves nothing but what it was seen to do.
LEMMA FreshStep ==
  ASSUME IInv, phase = "down", phase' = "down", Fresh, UNCHANGED environment,
         seen' \in [check_config : {-1, 0, 1}, check_host : {-1, 0, 1, 2},
                    serve : {"none", "refused", "unmet", "started"}],
         Foretold'
  PROVE  IInv'
<1> USE DEF Fresh, environment
<1>1. TypeOK'
  BY Nothing DEF IInv, TypeOK
<1>2. Loaded'
  BY Nothing DEF Loaded
<1>3. Progress'
  BY DEF IInv, Progress
<1>4. Inventory'
  <2>1. Dealt(<<>>, <<>>, config'.devices, 0)
    BY Nothing, DealtNone
  <2>2. executor' = "none"
    BY DEF IInv, Progress
  <2>3. QED
    BY Nothing, <2>1, <2>2 DEF Inventory
<1>5. Causes'
  BY DEF IInv, Progress, Causes
<1>6. QED
  BY <1>1, <1>2, <1>3, <1>4, <1>5 DEF IInv

\* Foretold survives when the file, the host and what was seen stay.
LEMMA ForetoldStays ==
  ASSUME Foretold, UNCHANGED <<file, host, seen>>
  PROVE  Foretold'
  BY DEF Foretold, HostMet, Mock

LEMMA InformsStep ==
  ASSUME IInv, NEW argv \in CommandLines, Informs(argv)
  PROVE  IInv'
<1>1. Foretold'
  BY ForetoldStays DEF IInv, Informs, environment
<1>2. QED
  BY <1>1, FreshStep DEF IInv, TypeOK, Informs

LEMMA CheckHostStep ==
  ASSUME IInv, NEW argv \in CommandLines, CheckHost(argv)
  PROVE  IInv'
<1> DEFINE exit == IF ~Valid(file) THEN 2
                   ELSE IF HostMet(load_config(file).bus_path) THEN 0 ELSE 1
<1>1. UNCHANGED <<file, host>> /\ phase = "down" /\ phase' = "down" /\ Fresh /\ UNCHANGED environment
  BY DEF CheckHost, environment
<1>2. CASE Scan(argv).path = Path
  <2>1. seen' = [seen EXCEPT !.check_host = exit]
    BY <1>2 DEF CheckHost, FileAt
  <2>2. exit \in {0, 1, 2}
    OBVIOUS
  <2>3. /\ seen'.check_host = exit /\ seen'.check_config = seen.check_config
        /\ seen'.serve = seen.serve
        /\ seen' \in [check_config : {-1, 0, 1}, check_host : {-1, 0, 1, 2},
                      serve : {"none", "refused", "unmet", "started"}]
    <3> HIDE DEF exit
    <3> QED
      BY <2>1, <2>2 DEF IInv, TypeOK
  <2>4. Foretold'
    BY <1>1, <2>3 DEF IInv, Foretold, HostMet, Mock
  <2>5. QED
    BY <1>1, <2>3, <2>4, FreshStep
<1>3. CASE Scan(argv).path # Path
  <2>1. seen' = seen
    BY <1>3 DEF CheckHost
  <2>2. QED
    BY <1>1, <2>1, ForetoldStays, FreshStep DEF IInv, TypeOK
<1>4. QED
  BY <1>2, <1>3

LEMMA CheckConfigStep ==
  ASSUME IInv, NEW argv \in CommandLines, CheckConfig(argv)
  PROVE  IInv'
<1> DEFINE exit == IF Valid(file) THEN 0 ELSE 1
<1>1. UNCHANGED <<file, host>> /\ phase = "down" /\ phase' = "down" /\ Fresh /\ UNCHANGED environment
  BY DEF CheckConfig, environment
<1>2. CASE Scan(argv).path = Path
  <2>1. seen' = [seen EXCEPT !.check_config = exit]
    BY <1>2 DEF CheckConfig, FileAt
  <2>2. exit \in {0, 1}
    OBVIOUS
  <2>3. /\ seen'.check_config = exit /\ seen'.check_host = seen.check_host
        /\ seen'.serve = seen.serve
        /\ seen' \in [check_config : {-1, 0, 1}, check_host : {-1, 0, 1, 2},
                      serve : {"none", "refused", "unmet", "started"}]
    <3> HIDE DEF exit
    <3> QED
      BY <2>1, <2>2 DEF IInv, TypeOK
  <2>4. Foretold'
    BY <1>1, <2>3 DEF IInv, Foretold, HostMet, Mock
  <2>5. QED
    BY <1>1, <2>3, <2>4, FreshStep
<1>3. CASE Scan(argv).path # Path
  <2>1. seen' = seen
    BY <1>3 DEF CheckConfig
  <2>2. QED
    BY <1>1, <2>1, ForetoldStays, FreshStep DEF IInv, TypeOK
<1>4. QED
  BY <1>2, <1>3

LEMMA ServeRefusedStep ==
  ASSUME IInv, NEW argv \in CommandLines, ServeRefused(argv)
  PROVE  IInv'
<1>1. UNCHANGED <<file, host>> /\ phase = "down" /\ phase' = "down" /\ Fresh /\ UNCHANGED environment
  BY DEF ServeRefused, environment
<1>2. CASE Scan(argv).path = Path
  <2>1. seen' = [seen EXCEPT !.serve = "refused"] /\ ~Valid(file)
    BY <1>2 DEF ServeRefused, FileAt
  <2>2. /\ seen'.check_config = seen.check_config /\ seen'.check_host = seen.check_host
        /\ seen'.serve = "refused"
        /\ seen' \in [check_config : {-1, 0, 1}, check_host : {-1, 0, 1, 2},
                      serve : {"none", "refused", "unmet", "started"}]
    BY <2>1 DEF IInv, TypeOK
  <2>3. Foretold'
    BY <1>1, <2>1, <2>2 DEF IInv, Foretold, HostMet, Mock
  <2>4. QED
    BY <1>1, <2>2, <2>3, FreshStep
<1>3. CASE Scan(argv).path # Path
  <2>1. seen' = seen
    BY <1>3 DEF ServeRefused
  <2>2. QED
    BY <1>1, <2>1, ForetoldStays, FreshStep DEF IInv, TypeOK
<1>4. QED
  BY <1>2, <1>3

LEMMA ServeStep ==
  ASSUME IInv, NEW argv \in CommandLines, Serve(argv)
  PROVE  IInv'
<1>1. ~Valid(Unreadable)
  BY DEF Valid, Unreadable
<1>2. FileAt(Scan(argv).path) = file /\ Valid(file)
  BY <1>1 DEF Serve, FileAt
<1>3. /\ phase = "down" /\ phase' = "starting" /\ config' = load_config(file)
      /\ todo' = <<>> /\ state' = Blank /\ late' = {}
      /\ UNCHANGED <<executor, hung, file, host, world, seen>>
  BY <1>2 DEF Serve, environment
<1>4. file \in Files /\ executor = "none" /\ ~hung
  BY <1>3 DEF IInv, TypeOK, Progress
<1>5. /\ config'.bus_path \in Texts /\ config'.devices \in Seq(DeviceSpecs)
      /\ Unique(config'.devices)
  BY <1>2, <1>3, <1>4, LoadFacts
<1>6. TypeOK'
  BY <1>3, <1>5, Nothing DEF IInv, TypeOK
<1>7. Loaded'
  BY <1>2, <1>3, <1>5 DEF Loaded
<1>8. Progress'
  BY <1>3, <1>4 DEF Progress
<1>9. Inventory'
  <2>1. Dealt(<<>>, <<>>, config'.devices, 0)
    BY <1>5, DealtNone
  <2>2. QED
    BY <1>3, <1>4, <2>1, Nothing DEF Inventory
<1>10. Causes'
  BY <1>3, <1>4 DEF Causes
<1>11. Foretold'
  BY <1>3, ForetoldStays DEF IInv
<1>12. QED
  BY <1>6, <1>7, <1>8, <1>9, <1>10, <1>11 DEF IInv

\* What the host check or the start of the executor is recorded as.
LEMMA CameStep ==
  ASSUME IInv, NEW stage \in {"unmet", "started"}, phase = "starting", Came(stage),
         UNCHANGED <<file, host>>,
         stage = "unmet" <=> ~HostMet(config.bus_path)
  PROVE  /\ Foretold'
         /\ seen' \in [check_config : {-1, 0, 1}, check_host : {-1, 0, 1, 2},
                       serve : {"none", "refused", "unmet", "started"}]
<1>1. /\ seen'.check_config = seen.check_config /\ seen'.check_host = seen.check_host
      /\ seen'.serve = stage
      /\ seen' \in [check_config : {-1, 0, 1}, check_host : {-1, 0, 1, 2},
                    serve : {"none", "refused", "unmet", "started"}]
  BY DEF IInv, TypeOK, Came
<1>2. Valid(file) /\ config = load_config(file)
  BY DEF IInv, Loaded
<1>3. Foretold'
  BY <1>1, <1>2 DEF IInv, Foretold, HostMet, Mock
<1>4. QED
  BY <1>1, <1>3

LEMMA HostUnmetStep ==
  ASSUME IInv, HostUnmet
  PROVE  IInv'
<1>1. /\ phase = "starting" /\ phase' = "up" /\ state' = [state EXCEPT !.excluded = config.devices]
      /\ UNCHANGED <<file, host, world, config, todo, executor, hung, late>>
      /\ executor = "none" /\ state = Blank
  BY DEF HostUnmet, environment, IInv, Progress
<1>2. /\ state'.active = <<>> /\ state'.excluded = config.devices /\ state'.ready = FALSE
      /\ state'.tried = {}
  BY <1>1 DEF Blank
<1>3. Foretold' /\ seen' \in [check_config : {-1, 0, 1}, check_host : {-1, 0, 1, 2},
                              serve : {"none", "refused", "unmet", "started"}]
  BY <1>1, CameStep DEF HostUnmet
<1>4. config.devices \in Seq(DeviceSpecs) /\ Unique(config.devices)
  BY DEF IInv, TypeOK, Loaded
<1>5. TypeOK'
  BY <1>1, <1>3, <1>4 DEF IInv, TypeOK
<1>6. Loaded'
  BY <1>1 DEF IInv, Loaded
<1>7. Progress'
  BY <1>1, <1>2 DEF Progress, Ids
<1>8. Inventory'
  <2>1. Dealt(<<>>, config.devices, config.devices, Len(config.devices))
    BY <1>4, DealtAll
  <2>2. Len(config.devices) \in Nat
    BY <1>4
  <2>3. \E n \in Nat : Dealt(state.active, state.excluded, config.devices, n)'
    BY <1>1, <1>2, <2>1, <2>2
  <2>4. QED
    BY <1>1, <1>2, <2>3 DEF Inventory
<1>9. Causes'
  BY <1>1 DEF Causes
<1>10. QED
  BY <1>3, <1>5, <1>6, <1>7, <1>8, <1>9 DEF IInv

LEMMA ExecutorFailsStep ==
  ASSUME IInv, ExecutorFails
  PROVE  IInv'
<1>1. /\ phase = "starting" /\ phase' = "up" /\ executor = "none" /\ state = Blank
      /\ UNCHANGED <<file, host, world, config, todo, state, executor, hung, late>>
  BY DEF ExecutorFails, environment, IInv, Progress
<1>2. state.active = <<>> /\ state.ready = FALSE /\ state.tried = {}
  BY <1>1 DEF Blank
<1>3. Foretold' /\ seen' \in [check_config : {-1, 0, 1}, check_host : {-1, 0, 1, 2},
                              serve : {"none", "refused", "unmet", "started"}]
  BY <1>1, CameStep DEF ExecutorFails
<1>4. TypeOK'
  BY <1>1, <1>3 DEF IInv, TypeOK
<1>5. Loaded'
  BY <1>1 DEF IInv, Loaded
<1>6. Progress'
  BY <1>1, <1>2 DEF Progress, Ids
<1>7. Inventory'
  BY <1>1, <1>2 DEF IInv, Inventory
<1>8. Causes'
  BY <1>1 DEF Causes
<1>9. QED
  BY <1>3, <1>4, <1>5, <1>6, <1>7, <1>8 DEF IInv

LEMMA ExecutorStartsStep ==
  ASSUME IInv, ExecutorStarts
  PROVE  IInv'
<1>1. /\ phase = "starting" /\ phase' = "probing" /\ todo' = config.devices
      /\ state' = [state EXCEPT !.executor_running = TRUE] /\ executor' = "local"
      /\ UNCHANGED <<file, host, world, config, hung, late>>
      /\ ~hung /\ state = Blank
  BY DEF ExecutorStarts, environment, IInv, Progress
<1>2. /\ state'.active = <<>> /\ state'.excluded = <<>> /\ state'.executor_running
      /\ state'.tried = {}
  BY <1>1 DEF Blank
<1>3. Foretold' /\ seen' \in [check_config : {-1, 0, 1}, check_host : {-1, 0, 1, 2},
                              serve : {"none", "refused", "unmet", "started"}]
  BY <1>1, CameStep DEF ExecutorStarts
<1>4. config.devices \in Seq(DeviceSpecs) /\ Len(config.devices) \in Nat
  BY DEF IInv, TypeOK
<1>5. TypeOK'
  BY <1>1, <1>3, <1>4 DEF IInv, TypeOK
<1>6. Loaded'
  BY <1>1 DEF IInv, Loaded
<1>7. Progress'
  <2>1. Remains(config.devices, config.devices)
    BY <1>4 DEF Remains
  <2>2. QED
    BY <1>1, <1>2, <2>1 DEF Progress
<1>8. Probed' = 0
  BY <1>1, <1>4 DEF Probed
<1>9. Inventory'
  <2>1. Dealt(<<>>, <<>>, config.devices, 0)
    BY <1>4, DealtNone
  <2>2. QED
    BY <1>1, <1>2, <1>8, <2>1 DEF Inventory
<1>10. Causes'
  BY <1>1, <1>8 DEF Causes, Caused
<1>11. QED
  BY <1>3, <1>5, <1>6, <1>7, <1>9, <1>10 DEF IInv

\* A probe deals the next device to one of the hands.
LEMMA ProbeStep ==
  ASSUME IInv, phase = "probing", phase' = "probing", todo # <<>>, todo' = Tail(todo),
         UNCHANGED <<file, host, world, config, executor, seen>>,
         hung' \in BOOLEAN, late' \subseteq Identifiers, late \subseteq late',
         \/ /\ state' = [state EXCEPT !.active = Append(@, Head(todo))]
            /\ Matches(Head(todo)) /\ UNCHANGED <<hung, late>>
         \/ /\ state' = [state EXCEPT !.excluded = Append(@, Head(todo))]
            /\ ~Matches(Head(todo)) \/ AnswerOf(Head(todo)).late \/ hung,
         hung' => hung \/ (Head(todo).id \in late' /\ AnswerOf(Head(todo)).late)
  PROVE  IInv'
<1> DEFINE ds == config.devices
           d == Head(todo)
<1>0. PICK n : n = Probed
  OBVIOUS
<1>1. /\ ds \in Seq(DeviceSpecs) /\ todo \in Seq(DeviceSpecs) /\ Unique(ds)
      /\ state.active \in Seq(DeviceSpecs) /\ state.excluded \in Seq(DeviceSpecs)
      /\ Remains(todo, ds) /\ Dealt(state.active, state.excluded, ds, n)
      /\ executor = "local"
  BY <1>0 DEF IInv, TypeOK, Loaded, Progress, Inventory
<1>2. /\ n \in Nat /\ n < Len(ds) /\ d = ds[n + 1] /\ d \in DeviceSpecs
      /\ todo' \in Seq(DeviceSpecs) /\ Remains(todo', ds) /\ Probed' = n + 1
  BY <1>0, <1>1, RemainsNext DEF Probed
<1>3. /\ state'.executor_running = state.executor_running /\ state'.tried = state.tried
      /\ state' \in [active : Seq(DeviceSpecs), excluded : Seq(DeviceSpecs), ready : BOOLEAN,
                     executor_running : BOOLEAN, tried : SUBSET Identifiers]
      /\ \/ /\ state'.active = Append(state.active, d) /\ state'.excluded = state.excluded
            /\ Matches(d)
         \/ /\ state'.active = state.active /\ state'.excluded = Append(state.excluded, d)
            /\ ~Matches(d) \/ AnswerOf(d).late \/ hung
  <2> DEFINE States == [active : Seq(DeviceSpecs), excluded : Seq(DeviceSpecs), ready : BOOLEAN,
                        executor_running : BOOLEAN, tried : SUBSET Identifiers]
  <2>1. state \in States
    BY DEF IInv, TypeOK
  <2>2. Append(state.active, d) \in Seq(DeviceSpecs) /\ Append(state.excluded, d) \in Seq(DeviceSpecs)
    BY <1>1, <1>2
  <2>3. CASE state' = [state EXCEPT !.active = Append(@, d)] /\ Matches(d)
    <3>1. /\ state' \in States /\ state'.executor_running = state.executor_running
          /\ state'.tried = state.tried
          /\ state'.active = Append(state.active, d) /\ state'.excluded = state.excluded
      BY <2>1, <2>2, <2>3
    <3>2. QED
      BY <2>3, <3>1
  <2>4. CASE /\ state' = [state EXCEPT !.excluded = Append(@, d)]
             /\ ~Matches(d) \/ AnswerOf(d).late \/ hung
    <3>1. /\ state' \in States /\ state'.executor_running = state.executor_running
          /\ state'.tried = state.tried
          /\ state'.active = state.active /\ state'.excluded = Append(state.excluded, d)
      BY <2>1, <2>2, <2>4
    <3>2. QED
      BY <2>4, <3>1
  <2>5. QED
    BY <2>3, <2>4
<1>4. ds' = ds
  OBVIOUS
<1> HIDE DEF ds, d
<1>5. TypeOK'
  BY <1>2, <1>3 DEF IInv, TypeOK
<1>6. Loaded'
  BY DEF IInv, Loaded
<1>7. Progress'
  BY <1>2, <1>3 DEF IInv, Progress, ds
<1>8. Dealt(state'.active, state'.excluded, ds, n + 1)
  <2>1. CASE state'.active = Append(state.active, d) /\ state'.excluded = state.excluded
    BY <1>1, <1>2, <2>1, DealNext
  <2>2. CASE state'.active = state.active /\ state'.excluded = Append(state.excluded, d)
    <3>1. Dealt(state.excluded, state.active, ds, n)
      BY <1>1, DealtSwap
    <3>2. Dealt(Append(state.excluded, d), state.active, ds, n + 1)
      BY <1>1, <1>2, <3>1, DealNext
    <3>3. QED
      BY <2>2, <3>2, DealtSwap
  <2>3. QED
    BY <1>3, <2>1, <2>2
<1>9. \A i \in DOMAIN state'.active : Matches(state'.active[i])
  <2>1. \A i \in DOMAIN state.active : Matches(state.active[i])
    BY DEF IInv, Inventory
  <2>2. CASE state'.active = state.active
    BY <2>1, <2>2
  <2>3. CASE state'.active = Append(state.active, d) /\ Matches(d)
    <3> TAKE i \in DOMAIN state'.active
    <3>1. \/ i \in DOMAIN state.active /\ state'.active[i] = state.active[i]
          \/ state'.active[i] = d
      BY <1>1, <1>2, <2>3
    <3>2. QED
      BY <2>1, <2>3, <3>1
  <2>4. QED
    BY <1>3, <2>2, <2>3
<1>10. Inventory'
  <2>1. (\A i \in DOMAIN state.active : Matches(state.active[i]))'
    BY <1>9 DEF Matches, AnswerOf, Mock
  <2>2. n + 1 \in Nat
    BY <1>2
  <2>3. QED
    BY <1>1, <1>2, <1>4, <1>8, <2>1, <2>2 DEF Inventory, ds
<1>11. Caused(n)  /\ (hung => Blocked(n + 1))
  BY <1>0 DEF IInv, Causes
<1>12. \A p \in 1..(n + 1) : Blocked(p) => Blocked(p)'
  BY DEF Blocked, AnswerOf, Mock
<1>13. hung' => Blocked(n + 2)'
  <2> SUFFICES ASSUME hung'
               PROVE  \E j \in 1..(n + 1) : ds[j].id \in late' /\ AnswerOf(ds[j]).late
    BY <1>2 DEF Blocked, AnswerOf, Mock, ds
  <2>1. CASE hung
    <3>1. PICK j \in 1..n : ds[j].id \in late /\ AnswerOf(ds[j]).late
      BY <1>2, <1>11, <2>1 DEF Blocked, ds
    <3>2. QED
      BY <1>2, <3>1
  <2>2. CASE d.id \in late' /\ AnswerOf(d).late
    BY <1>2, <2>2
  <2>3. QED
    BY <2>1, <2>2 DEF d
<1>14. Caused(n + 1)'
  <2> SUFFICES ASSUME NEW p \in 1..(n + 1), Matches(ds[p]), ~AnswerOf(ds[p]).late,
                      ds[p].id \in Ids(state'.excluded)
               PROVE  Blocked(p)
    BY <1>4, <1>12 DEF Caused, Matches, AnswerOf, Mock, ds
  <2>1. PICK i \in DOMAIN state'.excluded : ds[p].id = state'.excluded[i].id
    BY DEF Ids
  <2>2. CASE i \in DOMAIN state.excluded /\ state'.excluded[i] = state.excluded[i]
    <3>1. ds[p].id \in Ids(state.excluded)
      BY <2>1, <2>2 DEF Ids
    <3>2. PICK q \in 1..n : state.excluded[i] = ds[q]
      BY <1>1, <2>2 DEF Dealt, Drawn
    <3>3. p = q
      <4>1. p \in DOMAIN ds /\ q \in DOMAIN ds
        BY <1>1, <1>2
      <4>2. QED
        BY <1>1, <2>1, <2>2, <3>2, <4>1 DEF Unique
    <3>4. QED
      BY <1>11, <3>1, <3>2, <3>3 DEF Caused, ds
  <2>3. CASE state'.excluded[i] = d /\ (~Matches(d) \/ AnswerOf(d).late \/ hung)
    <3>1. p \in DOMAIN ds /\ n + 1 \in DOMAIN ds
      BY <1>1, <1>2
    <3>2. p = n + 1
      BY <1>1, <1>2, <2>1, <2>3, <3>1 DEF Unique
    <3>3. hung
      BY <1>2, <2>3, <3>2
    <3>4. QED
      BY <1>11, <3>2, <3>3
  <2>4. CASE state'.excluded = state.excluded
    BY <2>1, <2>2, <2>4
  <2>5. CASE state'.excluded = Append(state.excluded, d) /\ (~Matches(d) \/ AnswerOf(d).late \/ hung)
    <3>1. \/ i \in DOMAIN state.excluded /\ state'.excluded[i] = state.excluded[i]
          \/ state'.excluded[i] = d
      BY <1>1, <1>2, <2>1, <2>5
    <3>2. QED
      BY <2>2, <2>3, <2>5, <3>1
  <2>6. QED
    BY <1>3, <2>4, <2>5
<1>15. Causes'
  <2>1. n + 1 + 1 = n + 2
    BY <1>2
  <2>2. QED
    BY <1>1, <1>2, <1>13, <1>14, <2>1 DEF Causes
<1>16. Foretold'
  BY ForetoldStays DEF IInv
<1>17. QED
  BY <1>5, <1>6, <1>7, <1>10, <1>15, <1>16 DEF IInv

LEMMA ProbeAnsweredStep ==
  ASSUME IInv, ProbeAnswered
  PROVE  IInv'
<1>1. /\ phase = "probing" /\ phase' = "probing" /\ todo # <<>> /\ todo' = Tail(todo)
      /\ UNCHANGED <<file, host, world, config, executor, seen, hung, late>>
      /\ hung \in BOOLEAN /\ late \subseteq Identifiers
  BY DEF ProbeAnswered, environment, IInv, TypeOK
<1>2. \/ state' = [state EXCEPT !.active = Append(@, Head(todo))] /\ Matches(Head(todo))
      \/ state' = [state EXCEPT !.excluded = Append(@, Head(todo))] /\ ~Matches(Head(todo))
  BY DEF ProbeAnswered, Exclude
<1>3. QED
  BY <1>1, <1>2, ProbeStep

LEMMA ProbeTimedOutStep ==
  ASSUME IInv, ProbeTimedOut
  PROVE  IInv'
<1>1. /\ phase = "probing" /\ phase' = "probing" /\ todo # <<>> /\ todo' = Tail(todo)
      /\ UNCHANGED <<file, host, world, config, executor, seen>>
      /\ hung' = TRUE /\ late' = late \cup {Head(todo).id}
      /\ state' = [state EXCEPT !.excluded = Append(@, Head(todo))]
      /\ hung \/ AnswerOf(Head(todo)).late
  BY DEF ProbeTimedOut, environment, Exclude
<1>2. late' \subseteq Identifiers
  <2>1. Head(todo) \in DeviceSpecs
    BY <1>1 DEF IInv, TypeOK
  <2>2. Head(todo).id \in Identifiers
    BY <2>1 DEF DeviceSpecs
  <2>3. QED
    BY <1>1, <2>2 DEF IInv, TypeOK
<1>3. QED
  BY <1>1, <1>2, ProbeStep

\* The bus coming free disturbs nothing.
LEMMA JobEndsStep ==
  ASSUME IInv, JobEnds
  PROVE  IInv'
<1>1. /\ hung' = FALSE
      /\ UNCHANGED <<phase, file, host, world, config, todo, state, executor, late, seen>>
  BY DEF JobEnds, environment
<1>2. TypeOK'
  <2>1. hung' \in BOOLEAN
    BY <1>1
  <2>2. QED
    BY <1>1, <2>1 DEF IInv, TypeOK
<1>3. Loaded'
  BY <1>1 DEF IInv, Loaded
<1>4. Progress'
  BY <1>1 DEF IInv, Progress, WasRead
<1>5. Inventory'
  BY <1>1 DEF IInv, Inventory, Probed, Matches, AnswerOf, Mock
<1>6. Causes'
  BY <1>1 DEF IInv, Causes, Caused, Blocked, Probed, Matches, AnswerOf, Mock
<1>7. Foretold'
  BY <1>1, ForetoldStays DEF IInv
<1>8. QED
  BY <1>2, <1>3, <1>4, <1>5, <1>6, <1>7 DEF IInv

LEMMA PublishStep ==
  ASSUME IInv, Publish
  PROVE  IInv'
<1>1. /\ phase = "probing" /\ todo = <<>> /\ phase' = "reading" /\ todo' = state.active
      /\ state' = [state EXCEPT !.ready = (state.active # <<>>)] /\ executor' = "global"
      /\ UNCHANGED <<file, host, world, config, hung, late, seen>>
  BY DEF Publish, environment
<1>0. PICK r \in BOOLEAN : r = (state.active # <<>>)
  OBVIOUS
<1>2. /\ state'.active = state.active /\ state'.excluded = state.excluded
      /\ state'.ready = r /\ state'.tried = state.tried
      /\ state'.executor_running = state.executor_running
      /\ state' \in [active : Seq(DeviceSpecs), excluded : Seq(DeviceSpecs), ready : BOOLEAN,
                     executor_running : BOOLEAN, tried : SUBSET Identifiers]
      /\ state.active \in Seq(DeviceSpecs) /\ Len(state.active) \in Nat
  <2>1. state' = [state EXCEPT !.ready = r]
    BY <1>0, <1>1
  <2>2. state \in [active : Seq(DeviceSpecs), excluded : Seq(DeviceSpecs), ready : BOOLEAN,
                   executor_running : BOOLEAN, tried : SUBSET Identifiers]
    BY DEF IInv, TypeOK
  <2>3. state' \in [active : Seq(DeviceSpecs), excluded : Seq(DeviceSpecs), ready : BOOLEAN,
                    executor_running : BOOLEAN, tried : SUBSET Identifiers]
    BY <2>1, <2>2
  <2>4. state.active \in Seq(DeviceSpecs) /\ Len(state.active) \in Nat
    BY <2>2
  <2>5. QED
    BY <2>1, <2>2, <2>3, <2>4
<1>3. Probed = Len(config.devices)
  BY <1>1 DEF IInv, TypeOK, Probed
<1>4. TypeOK'
  BY <1>1, <1>2 DEF IInv, TypeOK
<1>5. Loaded'
  BY <1>1 DEF IInv, Loaded
<1>6. Progress'
  <2>1. Remains(state.active, state.active)
    BY <1>2 DEF Remains
  <2>2. WasRead' = {} /\ state.tried = {} /\ state.executor_running
    BY <1>1, <1>2 DEF IInv, Progress, WasRead
  <2>3. state'.ready <=> state'.active # <<>>
    BY <1>0, <1>2
  <2>4. QED
    BY <1>1, <1>2, <2>1, <2>2, <2>3 DEF Progress
<1>7. Inventory'
  BY <1>1, <1>2, <1>3 DEF IInv, Inventory, Matches, AnswerOf, Mock
<1>8. Causes'
  BY <1>1, <1>2, <1>3 DEF IInv, Causes, Caused, Blocked, Matches, AnswerOf, Mock
<1>9. Foretold'
  BY <1>1, ForetoldStays DEF IInv
<1>10. QED
  BY <1>4, <1>5, <1>6, <1>7, <1>8, <1>9 DEF IInv

LEMMA FirstReadsStep ==
  ASSUME IInv, FirstReads
  PROVE  IInv'
<1>1. /\ phase = "reading" /\ phase' = "reading" /\ todo # <<>> /\ todo' = Tail(todo)
      /\ state' = [state EXCEPT !.tried = @ \cup {Head(todo).id}]
      /\ hung' \in {hung, hung \/ AnswerOf(Head(todo)).late}
      /\ UNCHANGED <<file, host, world, config, executor, late, seen>>
  BY DEF FirstReads, environment
<1>2. hung' \in BOOLEAN
  BY <1>1 DEF IInv, TypeOK
<1>3. /\ todo \in Seq(DeviceSpecs) /\ state.active \in Seq(DeviceSpecs)
      /\ Remains(todo, state.active)
  BY <1>1 DEF IInv, TypeOK, Progress
<1>4. PICK m : m = Len(state.active) - Len(todo)
  OBVIOUS
<1>5. /\ m \in Nat /\ m < Len(state.active) /\ Head(todo) = state.active[m + 1]
      /\ Head(todo) \in DeviceSpecs /\ todo' \in Seq(DeviceSpecs)
      /\ Remains(todo', state.active) /\ Len(state.active) - Len(todo') = m + 1
  BY <1>1, <1>3, <1>4, RemainsNext
<1>6. Head(todo).id \in Identifiers
  BY <1>5 DEF DeviceSpecs
<1>7. /\ state'.active = state.active /\ state'.excluded = state.excluded
      /\ state'.ready = state.ready /\ state'.tried = state.tried \cup {Head(todo).id}
      /\ state'.executor_running = state.executor_running
      /\ state' \in [active : Seq(DeviceSpecs), excluded : Seq(DeviceSpecs), ready : BOOLEAN,
                     executor_running : BOOLEAN, tried : SUBSET Identifiers]
  BY <1>1, <1>6 DEF IInv, TypeOK
<1>8. TypeOK'
  BY <1>1, <1>2, <1>5, <1>7 DEF IInv, TypeOK
<1>9. Loaded'
  BY <1>1 DEF IInv, Loaded
<1>10. Progress'
  <2>1. WasRead' = WasRead \cup {Head(todo).id}
    <3>1. WasRead = {state.active[i].id : i \in 1..m}
      BY <1>4 DEF WasRead
    <3>2. WasRead' = {state.active[i].id : i \in 1..(m + 1)}
      BY <1>5, <1>7 DEF WasRead
    <3>3. 1..(m + 1) = (1..m) \cup {m + 1}
      BY <1>5
    <3>4. QED
      BY <1>5, <3>1, <3>2, <3>3
  <2>2. QED
    BY <1>1, <1>5, <1>7, <2>1 DEF IInv, Progress
<1>11. Inventory'
  BY <1>1, <1>7 DEF IInv, Inventory, Matches, AnswerOf, Mock
<1>12. Causes'
  BY <1>1, <1>7 DEF IInv, Causes, Caused, Blocked, Matches, AnswerOf, Mock
<1>13. Foretold'
  BY <1>1, ForetoldStays DEF IInv
<1>14. QED
  BY <1>8, <1>9, <1>10, <1>11, <1>12, <1>13 DEF IInv

LEMMA InitializedStep ==
  ASSUME IInv, Initialized
  PROVE  IInv'
<1>1. /\ phase = "reading" /\ phase' = "up" /\ todo = <<>>
      /\ UNCHANGED <<file, host, world, config, todo, state, executor, hung, late, seen>>
  BY DEF Initialized, environment, process
<1>2. TypeOK'
  BY <1>1 DEF IInv, TypeOK
<1>3. Loaded'
  BY <1>1 DEF IInv, Loaded
<1>4. Progress'
  <2>1. WasRead = Ids(state.active)
    <3>1. Len(todo) = 0 /\ DOMAIN state.active = 1..Len(state.active) /\ Len(state.active) \in Nat
      BY <1>1 DEF IInv, TypeOK
    <3>2. QED
      BY <3>1 DEF WasRead, Ids
  <2>2. QED
    BY <1>1, <2>1 DEF IInv, Progress
<1>5. Inventory'
  BY <1>1 DEF IInv, Inventory, Matches, AnswerOf, Mock
<1>6. Causes'
  BY <1>1 DEF IInv, Causes, Caused, Blocked, Matches, AnswerOf, Mock
<1>7. Foretold'
  BY <1>1, ForetoldStays DEF IInv
<1>8. QED
  BY <1>2, <1>3, <1>4, <1>5, <1>6, <1>7 DEF IInv

LEMMA ShutdownStep ==
  ASSUME IInv, Shutdown
  PROVE  IInv'
<1>1. /\ phase = "up" /\ ~hung /\ phase' = "down" /\ executor' = "none"
      /\ state' = [state EXCEPT !.executor_running = FALSE]
      /\ UNCHANGED <<file, host, world, config, todo, hung, late, seen>>
  BY DEF Shutdown, environment
<1>2. /\ state'.active = state.active /\ state'.excluded = state.excluded
      /\ state' \in [active : Seq(DeviceSpecs), excluded : Seq(DeviceSpecs), ready : BOOLEAN,
                     executor_running : BOOLEAN, tried : SUBSET Identifiers]
  BY <1>1 DEF IInv, TypeOK
<1>3. TypeOK'
  BY <1>1, <1>2 DEF IInv, TypeOK
<1>4. Loaded'
  BY <1>1 DEF IInv, Loaded
<1>5. Progress'
  BY <1>1 DEF Progress
<1>6. Inventory'
  BY <1>1, <1>2 DEF IInv, Inventory
<1>7. Causes'
  BY <1>1 DEF Causes
<1>8. Foretold'
  BY <1>1, ForetoldStays DEF IInv
<1>9. QED
  BY <1>3, <1>4, <1>5, <1>6, <1>7, <1>8 DEF IInv

\* Between two processes the wiring, the file or the host changes.
LEMMA WorldStep ==
  ASSUME IInv, phase = "down", UNCHANGED <<phase, process>>,
         file' \in Files, host' \in BOOLEAN, world' \in [Addresses -> Answers],
         seen' \in [check_config : {-1, 0, 1}, check_host : {-1, 0, 1, 2},
                    serve : {"none", "refused", "unmet", "started"}],
         Foretold'
  PROVE  IInv'
<1>1. UNCHANGED <<config, todo, state, executor, hung, late>>
  BY DEF process
<1>2. TypeOK'
  BY <1>1 DEF IInv, TypeOK
<1>3. Loaded'
  BY <1>1 DEF IInv, Loaded
<1>4. Progress'
  BY <1>1 DEF IInv, Progress
<1>5. executor = "none"
  BY DEF IInv, Progress
<1>6. Inventory'
  BY <1>1, <1>5 DEF IInv, Inventory
<1>7. Causes'
  BY <1>1, <1>5 DEF Causes
<1>8. QED
  BY <1>2, <1>3, <1>4, <1>6, <1>7 DEF IInv

LEMMA RewireStep ==
  ASSUME IInv, Rewire
  PROVE  IInv'
<1>1. Foretold'
  BY ForetoldStays DEF IInv, Rewire
<1>2. world' \in [Addresses -> Answers]
  BY DEF IInv, TypeOK, Rewire
<1>3. QED
  BY <1>1, <1>2, WorldStep DEF IInv, TypeOK, Rewire

LEMMA EditOrRepairStep ==
  ASSUME IInv, EditOrRepair
  PROVE  IInv'
<1>1. seen' = Unseen
  BY DEF EditOrRepair
<1>2. Foretold'
  BY <1>1 DEF Foretold, Unseen
<1>3. file' \in Files /\ host' \in BOOLEAN
  BY DEF IInv, TypeOK, EditOrRepair
<1>4. QED
  BY <1>1, <1>2, <1>3, Nothing, WorldStep DEF IInv, TypeOK, EditOrRepair

LEMMA InvNext == IInv /\ [Next]_vars => IInv'
<1> SUFFICES ASSUME IInv, [Next]_vars PROVE IInv'
  OBVIOUS
<1>1. CASE Main
  BY <1>1, InformsStep, CheckHostStep, CheckConfigStep, ServeRefusedStep, ServeStep DEF Main
<1>2. CASE Initialize
  BY <1>2, HostUnmetStep, ExecutorFailsStep, ExecutorStartsStep, ProbeAnsweredStep,
     ProbeTimedOutStep, PublishStep, FirstReadsStep, InitializedStep DEF Initialize
<1>3. CASE JobEnds \/ Shutdown \/ Rewire \/ EditOrRepair
  BY <1>3, JobEndsStep, ShutdownStep, RewireStep, EditOrRepairStep
<1>4. CASE UNCHANGED vars
  <2>1. UNCHANGED <<phase, file, host, world, config, todo, state, executor, hung, late, seen>>
    BY <1>4 DEF vars, environment, process
  <2>2. TypeOK' /\ Loaded'
    BY <2>1 DEF IInv, TypeOK, Loaded
  <2>3. Progress'
    BY <2>1 DEF IInv, Progress, WasRead
  <2>4. Inventory'
    BY <2>1 DEF IInv, Inventory, Probed, Matches, AnswerOf, Mock
  <2>5. Causes'
    BY <2>1 DEF IInv, Causes, Caused, Blocked, Probed, Matches, AnswerOf, Mock
  <2>6. Foretold'
    BY <2>1, ForetoldStays DEF IInv
  <2>7. QED
    BY <2>2, <2>3, <2>4, <2>5, <2>6 DEF IInv
<1>5. QED
  BY <1>1, <1>2, <1>3, <1>4 DEF Next
-------------------------------------------------------------------------------
(* The theorems.                                                           *)

\* The inductive invariant holds of main() and initialize().
THEOREM Invariance == Spec => []IInv
  BY InvInit, InvNext, PTL DEF Spec

\* main() and initialize() keep their state well typed.
THEOREM TypeCorrect == Spec => []TypeOK
<1>1. IInv => TypeOK
  BY DEF IInv
<1>2. QED
  BY <1>1, Invariance, PTL

\* load_config() of a file that validates changes none of its numbers and
\* loses none of its devices.
THEOREM LoadedAsWritten == Spec => []ConfigAsWritten
<1>1. IInv => ConfigAsWritten
  <2> SUFFICES ASSUME IInv, phase = "starting"
               PROVE  /\ \A k \in DOMAIN file["hardware"] : config[k] = file["hardware"][k]
                      /\ Len(config.devices) = Len(DevicesOf(file))
    BY DEF ConfigAsWritten
  <2>1. file \in Files /\ Valid(file) /\ config = load_config(file)
    BY DEF IInv, TypeOK, Loaded
  <2>2. QED
    BY <2>1, LoadFacts
<1>2. QED
  BY <1>1, Invariance, PTL

\* An id or an address of the inventory means one device.
THEOREM NamesMeanOne == Spec => []OneDevicePerName
<1>1. IInv => OneDevicePerName
  <2> SUFFICES ASSUME IInv PROVE OneDevicePerName
    OBVIOUS
  <2>1. /\ config.devices \in Seq(DeviceSpecs) /\ Unique(config.devices)
        /\ state.active \in Seq(DeviceSpecs) /\ state.excluded \in Seq(DeviceSpecs)
    BY DEF IInv, TypeOK, Loaded
  <2>2. PICK n \in Nat : Dealt(state.active, state.excluded, config.devices, n)
    BY DEF IInv, Inventory
  <2>3. Unique(state.active \o state.excluded)
    BY <2>1, <2>2, DealtNames
  <2>4. QED
    BY <2>3 DEF OneDevicePerName, Unique
<1>2. QED
  BY <1>1, Invariance, PTL

\* The inventory that initialize() publishes accounts for every configured
\* device once, in the order of the file.
THEOREM InventoryIsComplete == Spec => []InventoryComplete
<1>1. IInv => InventoryComplete
  <2> SUFFICES ASSUME IInv, executor = "global"
               PROVE  /\ Ids(state.active) \cup Ids(state.excluded) = Ids(config.devices)
                      /\ Ids(state.active) \cap Ids(state.excluded) = {}
                      /\ Keeps(state.active) /\ Keeps(state.excluded)
    BY DEF InventoryComplete, readiness
  <2> DEFINE a == state.active
             x == state.excluded
             ds == config.devices
  <2>1. /\ ds \in Seq(DeviceSpecs) /\ a \in Seq(DeviceSpecs) /\ x \in Seq(DeviceSpecs)
        /\ Dealt(a, x, ds, Len(ds))
    BY DEF IInv, TypeOK, Inventory
  <2>2. \A s \in Seq(DeviceSpecs) : Keeps(s) <=> (/\ Range(s) \subseteq Range(ds)
          /\ \A i, j \in DOMAIN s : \A p, q \in DOMAIN ds :
               i < j /\ s[i] = ds[p] /\ s[j] = ds[q] => p < q)
    BY DEF Keeps
  <2> HIDE DEF a, x, ds
  <2>3. DOMAIN ds = 1..Len(ds)
    BY <2>1
  <2>4. /\ \A i \in DOMAIN a : \E p \in DOMAIN ds : a[i] = ds[p]
        /\ \A i \in DOMAIN x : \E p \in DOMAIN ds : x[i] = ds[p]
    BY <2>1, <2>3 DEF Dealt, Drawn
  <2>5. \A p \in DOMAIN ds : (\E i \in DOMAIN a : a[i] = ds[p]) \/ (\E i \in DOMAIN x : x[i] = ds[p])
    BY <2>1, <2>3 DEF Dealt
  <2>6. Ids(a) \cup Ids(x) = Ids(ds)
    BY <2>4, <2>5 DEF Ids
  <2>7. Ids(a) \cap Ids(x) = {}
    BY <2>1 DEF Ids, Dealt
  <2>8. Range(a) \subseteq Range(ds) /\ Range(x) \subseteq Range(ds)
    BY <2>4 DEF Range
  <2>9. Keeps(a) /\ Keeps(x)
    BY <2>1, <2>2, <2>8 DEF Dealt, Drawn
  <2>10. QED
    BY <2>6, <2>7, <2>9 DEF a, x, ds
<1>2. QED
  BY <1>1, Invariance, PTL

\* initialize() excludes a device that answers as configured only behind one
\* whose probe timed out.
THEOREM ExclusionsHaveCause == Spec => []ExcludedForCause
<1>1. IInv => ExcludedForCause
  <2> SUFFICES ASSUME IInv, executor = "global",
                      NEW i \in DOMAIN config.devices,
                      Matches(config.devices[i]), ~AnswerOf(config.devices[i]).late,
                      config.devices[i].id \in Ids(state.excluded)
               PROVE  Blocked(i)
    BY DEF ExcludedForCause, Blocked, readiness
  <2>1. i \in 1..Len(config.devices)
    BY DEF IInv, TypeOK
  <2>2. QED
    BY <2>1 DEF IInv, Causes, Caused
<1>2. QED
  BY <1>1, Invariance, PTL

\* A provider that says it is ready has devices that answered as configured,
\* each read once, and the executor to serve them.
THEOREM ReadyIsServed == Spec => []ReadyMeansServed
<1>1. IInv => ReadyMeansServed
  <2> SUFFICES ASSUME IInv, phase = "up" PROVE ReadyMeansServed
    BY DEF ReadyMeansServed, Serving
  <2>1. /\ state.ready <=> state.active # <<>>
        /\ state.ready => state.executor_running /\ executor = "global"
        /\ state.tried = Ids(state.active)
    BY DEF IInv, Progress
  <2>2. \A i \in DOMAIN state.active : Matches(state.active[i])
    BY DEF IInv, Inventory
  <2>3. list_device_ids # <<>> <=> state.active # <<>>
    <3>1. state.active \in Seq(DeviceSpecs)
      BY DEF IInv, TypeOK
    <3>2. DOMAIN list_device_ids = DOMAIN state.active
      BY DEF list_device_ids
    <3>3. list_device_ids \in Seq({state.active[i].id : i \in DOMAIN state.active})
      BY <3>1 DEF list_device_ids
    <3>4. QED
      BY <3>1, <3>2, <3>3
  <2>4. /\ readiness.ready = state.ready /\ readiness.successful = Ids(state.active)
    BY DEF readiness
  <2>5. state.executor_running => provider_health = "OK"
    BY DEF provider_health
  <2>6. QED
    BY <2>1, <2>2, <2>3, <2>4, <2>5 DEF ReadyMeansServed
<1>2. QED
  BY <1>1, Invariance, PTL

\* --check-config and --check-host tell what serving the same file on the same
\* host does.
THEOREM ChecksTellTrue == Spec => []ChecksForetell
<1>1. IInv => ChecksForetell
  <2> SUFFICES ASSUME IInv, seen.serve # "none"
               PROVE  /\ seen.check_config # -1 => (seen.check_config = 0 <=> seen.serve # "refused")
                      /\ seen.check_host # -1 =>
                           seen.check_host = CASE seen.serve = "started" -> 0
                                               [] seen.serve = "unmet"   -> 1
                                               [] seen.serve = "refused" -> 2
    BY DEF ChecksForetell
  <2>1. seen.serve \in {"refused", "unmet", "started"}
    BY DEF IInv, TypeOK
  <2>2. CASE seen.serve = "refused"
    BY <2>2 DEF IInv, Foretold
  <2>3. CASE seen.serve = "unmet"
    BY <2>3 DEF IInv, Foretold
  <2>4. CASE seen.serve = "started"
    BY <2>4 DEF IInv, Foretold
  <2>5. QED
    BY <2>1, <2>2, <2>3, <2>4
<1>2. QED
  BY <1>1, Invariance, PTL
================================================================================
