------------------------- MODULE MCDeviceRegistry -------------------------
(* Small commands for DeviceRegistry. *)
EXTENDS DeviceRegistry

EU == <<1, 1>>
US == <<1, 2>>

SomeLabels == {{EU}, {US}}
\* A selector without a value, and one each.
SomeSelectors == {<<1, 0>>, EU}
\* Only the name 2 has the text of a selector in it.
SomeLike == {<<EU, 2>>}

SomeRegistrations ==
    {[name |-> 3, version |-> 1, labels |-> {EU}],
     [name |-> 2, version |-> 1, labels |-> {US}],
     [name |-> 0, version |-> 1, labels |-> {EU}]}

SomeEdits ==
    {[name |-> 2, version |-> 2, labels |-> Absent],
     [name |-> Absent, version |-> Absent, labels |-> {US}],
     [name |-> 0, version |-> Absent, labels |-> Absent]}

SomeHeartbeats ==
    {[version |-> Absent, configuration |-> Absent, time |-> 0],
     [version |-> 0, configuration |-> "c1", time |-> 2]}

SomePolicies == {[stale |-> s, offline |-> o] : s \in 1..2, o \in 1..2}

===========================================================================
