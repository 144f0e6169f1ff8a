---------------------------- MODULE MCMembership ----------------------------
(* Instances of Admission for TLC.                                          *)
EXTENDS Admission

CONSTANTS o, s, a, b, g, p

Everybody == {o, s, a, b}
Newcomers == {a, b}
OnlyA == {a}
OnlyS == {s}
OnlyOwner == {o}
Nobodies == {}
OneGeneral == {g}
OnePersonal == {p}
UsedOnce == [i \in {g} |-> 1]
UsedTwice == [i \in {g} |-> 2]
WebOnly == {"web"}
AllHandlers == {"start", "continue", "web"}
Offered == {{"member_invitation"}}
=============================================================================
