------------------------------ MODULE MCCases ------------------------------
(* Instances of Cases for TLC.                                              *)
EXTENDS Cases

CONSTANTS x, y, z, a1, a2, m1

TwoAssignments == {x, y}
ThreeAssignments == {x, y, z}
OneAssignment == {x}
TwoAdmins == {a1, a2}
OneAdmin == {a1}
NoneOrCreator == {{}, {"creator"}}
OneModerator == {m1}
SomeCodes == {"partial_payment", "full_refund", "fraud"}
TwoCodes == {"partial_payment", "fraud"}
=============================================================================
