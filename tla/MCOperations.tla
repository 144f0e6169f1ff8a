--------------------------- MODULE MCOperations ---------------------------
(* Instances of Operations for TLC.                                         *)
EXTENDS Operations

\* r1, r2 with another Compose file, r3 with the first one again, and r4 with a
\* migration on top of r3.
Heads == <<0, 0, 0, 1>>
Packages == <<1, 2, 1, 1>>

Plan(limits) == [t \in Tools |-> IF t \in DOMAIN limits THEN limits[t] ELSE 0]
Bundles == Plan([contract |-> 3])
Deployments == Plan([deploy |-> 1, contract |-> 1])
SchemaRelease == Plan([wallet |-> 2, deploy |-> 1])
SchemaAfterBundle == Plan([wallet |-> 1, contract |-> 1])
Settings == Plan([telegram |-> 2, deploy |-> 1])
SettingsThenSchema == Plan([telegram |-> 1, wallet |-> 1])
AllPlans == {Bundles, Deployments, SchemaRelease, SchemaAfterBundle, Settings, SettingsThenSchema}
===========================================================================
