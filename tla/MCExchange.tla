----------------------------- MODULE MCExchange -----------------------------
(* Instances of Exchange for TLC.                                           *)
EXTENDS ExchangeEscrow, TLC

CONSTANTS p1, p2, p3

Nobody == {}
TwoPerformers == {p1, p2}
ThreePerformers == {p1, p2, p3}
PerformerSymmetry == Permutations(Performers)

OneSlot == {1}
TwoSlots == {2}
OneOrTwoSlots == {1, 2}
OddReward == {3}
OneOrThree == {1, 3}

AllCodes == ResolutionCodes
CoveredCodes == ResolutionCodes \ {"cancel_without_fault"}
=============================================================================
