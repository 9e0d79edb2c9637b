---------------------------- MODULE ProviderConfig ----------------------------
(***************************************************************************)
(* The configuration file: the schema of src/src/config/config_schema.cpp, *)
(* its validation and load_config() of src/src/config/provider_config.cpp. *)
(*                                                                         *)
(* A YAML mapping is a function from its keys to their values; a file that *)
(* cannot be read or parsed is the empty mapping, which is not valid       *)
(* either.  How a scalar is resolved to a string or a number is the SDK's. *)
(***************************************************************************)
EXTENDS Integers, Sequences

CONSTANTS Texts,        \* strings of a file
          Identifiers,  \* those that match kIdentifierPattern
          MaxInt        \* the largest int

EmptyText == ""
NonEmpty  == Texts \ {EmptyText}
Day       == 86400000      \* in milliseconds, the longest sampling interval

ASSUME ConfigAssumption == /\ EmptyText \in Texts /\ Identifiers \subseteq NonEmpty
                           /\ MaxInt \in Nat /\ MaxInt >= Day

Unreadable == [k \in {} |-> ""]
-------------------------------------------------------------------------------
(* The schema: which keys a section may have, which it must have, and the  *)
(* values of each.                                                         *)

Required(values) == [required |-> TRUE, values |-> values]
Optional(values) == [required |-> FALSE, values |-> values]

Types == {"ph", "do", "ec", "orp", "rtd", "hum"}

\* Seeded fault: a timeout has no largest value.
SchemaUnbounded ==
  [provider  |-> [name |-> Optional(Identifiers)],
   hardware  |-> [bus_path           |-> Required(NonEmpty),
                  query_delay_us     |-> Optional(1..MaxInt),
                  sample_interval_ms |-> Optional(1..Day),
                  timeout_ms         |-> Optional(Nat \ {0}),
                  retry_count        |-> Optional(0..MaxInt)],
   discovery |-> [mode |-> Required({"manual"})]]

Schema ==
  [provider  |-> [name |-> Optional(Identifiers)],
   hardware  |-> [bus_path           |-> Required(NonEmpty),
                  query_delay_us     |-> Optional(1..MaxInt),
                  sample_interval_ms |-> Optional(1..Day),
                  timeout_ms         |-> Optional(1..MaxInt),
                  retry_count        |-> Optional(0..MaxInt)],
   discovery |-> [mode |-> Required({"manual"})]]

DeviceSchema == [id      |-> Required(Identifiers),
                 type    |-> Required(Types),
                 label   |-> Optional(NonEmpty),
                 address |-> Required(8..119)]

\* Every object is closed: a key it does not declare is an error.
Fits(schema, node) ==
  /\ DOMAIN node \subseteq DOMAIN schema
  /\ \A k \in DOMAIN schema : schema[k].required => k \in DOMAIN node
  /\ \A k \in DOMAIN node : node[k] \in schema[k].values

DevicesOf(root) == IF "devices" \in DOMAIN root THEN root["devices"] ELSE <<>>

\* Seeded fault: devices are not compared with each other.
ValidAlone(root) ==
  /\ DOMAIN root \subseteq DOMAIN Schema \cup {"devices"}
  /\ {"hardware", "discovery"} \subseteq DOMAIN root
  /\ \A s \in DOMAIN root \cap DOMAIN Schema : Fits(Schema[s], root[s])
  /\ \A i \in DOMAIN DevicesOf(root) : Fits(DeviceSchema, DevicesOf(root)[i])

\* validate() reports no error: the sections and devices fit, and no two devices
\* have the same id or address.
Valid(root) ==
  /\ DOMAIN root \subseteq DOMAIN Schema \cup {"devices"}
  /\ {"hardware", "discovery"} \subseteq DOMAIN root
  /\ \A s \in DOMAIN root \cap DOMAIN Schema : Fits(Schema[s], root[s])
  /\ LET devices == DevicesOf(root)
     IN /\ \A i \in DOMAIN devices : Fits(DeviceSchema, devices[i])
        /\ \A i, j \in DOMAIN devices :
             devices[i]["id"] = devices[j]["id"] \/ devices[i]["address"] = devices[j]["address"]
               => i = j
-------------------------------------------------------------------------------
(* load_config of a valid file.                                            *)

\* static_cast<int> of an int64.
Narrow(n) == ((n + MaxInt + 1) % (2 * (MaxInt + 1))) - (MaxInt + 1)

Get(node, key, default) == IF key \in DOMAIN node THEN node[key] ELSE default

parse_device_type(text) == CASE text = "ph"  -> "Ph"
                             [] text = "orp" -> "Orp"
                             [] text = "ec"  -> "Ec"
                             [] text = "do"  -> "Do"
                             [] text = "rtd" -> "Rtd"
                             [] text = "hum" -> "Hum"

\* A device without a label is called by its id.
DeviceSpec(node) == [id      |-> node["id"],
                     type    |-> parse_device_type(node["type"]),
                     label   |-> Get(node, "label", node["id"]),
                     address |-> node["address"]]

load_config(root) ==
  LET hardware == root["hardware"]
      devices  == DevicesOf(root)
  IN [provider_name      |-> IF "provider" \in DOMAIN root
                               THEN Get(root["provider"], "name", "anolis-provider-ezo")
                               ELSE "anolis-provider-ezo",
      bus_path           |-> hardware["bus_path"],
      query_delay_us     |-> Narrow(Get(hardware, "query_delay_us", 300000)),
      sample_interval_ms |-> Narrow(Get(hardware, "sample_interval_ms", 2500)),
      timeout_ms         |-> Narrow(Get(hardware, "timeout_ms", 300)),
      retry_count        |-> Narrow(Get(hardware, "retry_count", 2)),
      devices            |-> [i \in DOMAIN devices |-> DeviceSpec(devices[i])]]
================================================================================
