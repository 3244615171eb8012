------------------------------- MODULE MCNode -------------------------------
(* Three nodes: one for BLE that sleeps by itself, one for NAN, and one     *)
(* with a station whose SSID has length 0.  The setting that changes is the *)
(* SSID, and an erased flash is a node with no settings.                    *)
EXTENDS Node

Setting(type, value) == [type |-> type, value |-> value]

SomeSettings ==
    LET new == [k \in Keys |-> Unset]
    IN  {[new EXCEPT !["sble"] = Setting("i32", "1"), !["lsleep"] = Setting("i32", "1")],
         [new EXCEPT !["wifi"] = Setting("i32", "4")],
         [new EXCEPT !["wifi"] = Setting("i32", "1"), !["ssid"] = Setting("str", "empty")]}

SomeInputs ==
    {[key |-> "ssid", type |-> "str", value |-> "net"],
     [key |-> "ssid", type |-> "blob", value |-> "net"],
     [key |-> "ssid", type |-> "blob", value |-> "nohex"],
     [key |-> "ssid", type |-> "i32", value |-> "huge"]}

=============================================================================
