------------------------------- MODULE MCStartup -------------------------------
(* Startup with three devices on a real bus or one that answers as a mock, *)
(* and files that break one rule of the schema each.                       *)
EXTENDS Startup

Words == {"", "a", "b", "c", "two words", "/dev/i2c-1", "mock://bench", "anolis-provider-ezo"}
Names == {"a", "b", "c", "anolis-provider-ezo"}
LargestInt == 100000000

Device(id, type, address) == [id |-> id, type |-> type, address |-> address]

Bus(path) == [bus_path |-> path]

Root(hardware, devices) ==
  [hardware |-> hardware, discovery |-> [mode |-> "manual"], devices |-> devices]

Bench == <<Device("a", "ph", 99), Device("b", "do", 97), Device("c", "ph", 8)>>

Real == Root(Bus("/dev/i2c-1"), Bench)

Good == {Real, Root(Bus("mock://bench"), Bench),
         Root([bus_path |-> "/dev/i2c-1", timeout_ms |-> LargestInt, retry_count |-> 0], <<>>)}

Bad == {Unreadable,
        Root(Bus(""), Bench),
        Root([bus_path |-> "/dev/i2c-1", timeout_ms |-> LargestInt + 1], Bench),
        Root([bus_path |-> "/dev/i2c-1", sample_interval_ms |-> 86400001], Bench),
        Root([bus_path |-> "/dev/i2c-1", query_delay_us |-> 0], Bench),
        [Real EXCEPT !.discovery.mode = "a"],
        [Real EXCEPT !.devices[2].address = 99],
        [Real EXCEPT !.devices[3].id = "a"],
        [Real EXCEPT !.devices[3].address = 7],
        [Real EXCEPT !.devices[1].id = "two words"],
        [hardware |-> Bus("/dev/i2c-1"), discovery |-> [mode |-> "manual"], other |-> <<>>],
        [discovery |-> [mode |-> "manual"]]}

AllFiles == Good \cup Bad

Lines == {<<"--config", "ezo.yaml">>, <<"--config", "--check-host">>, <<"--config">>,
          <<"--check-config", "ezo.yaml">>, <<"--check-config", "--version">>,
          <<"--check-config", "a.yaml", "--check-host", "ezo.yaml">>,
          <<"--check-host", "a.yaml">>, <<"--version", "--config">>, <<"serve">>, <<>>}

Three == {8, 97, 99}

\* Nothing, a pH circuit, a DO circuit, or a pH circuit that may be late.
Circuits == {[product |-> "none", late |-> FALSE], [product |-> "Ph", late |-> FALSE],
             [product |-> "Do", late |-> FALSE], [product |-> "Ph", late |-> TRUE]}
================================================================================
