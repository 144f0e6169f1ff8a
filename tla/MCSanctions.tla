---------------------------- MODULE MCSanctions ----------------------------
(* Instances of Sanctions for TLC.                                          *)
EXTENDS Sanctions

CONSTANTS m1, m2

OneModerator == {m1}
TwoModerators == {m1, m2}
=============================================================================
