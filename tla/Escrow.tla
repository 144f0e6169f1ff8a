------------------------------- MODULE Escrow -------------------------------
(***************************************************************************)
(* What the exchange promises about money, without tasks, slots, windows   *)
(* or requests: a creator funds a reserve; every party is settled at most  *)
(* once, for exactly one price taken from the reserve, split between the   *)
(* party and the creator; what no party can claim returns to the creator.  *)
(* A covered escrow pays nothing that it does not hold.                    *)
(***************************************************************************)
EXTENDS Integers, FiniteSets

CONSTANTS
  Parties,  \* those who may be settled once each
  Covered   \* the reserve is never overdrawn

VARIABLES
  reserve,  \* credits held
  price,    \* what settling one party takes out of the reserve
  settled,  \* parties whose outcome is final
  share     \* party -> credits paid to it

escrowVars == <<reserve, price, settled, share>>

Init ==
  /\ reserve = 0
  /\ price = 0
  /\ settled = {}
  /\ share = [p \in Parties |-> 0]

\* The creator reserves, or changes price and reserve before anyone is settled.
Fund ==
  /\ settled = {}
  /\ reserve' \in Nat /\ price' \in Nat
  /\ UNCHANGED <<settled, share>>

\* Settle a set of parties, and return unclaimed credits to the creator.
Settle ==
  /\ settled \subseteq settled'
  /\ \A p \in Parties :
       IF p \in settled' \ settled
       THEN share'[p] \in {0, (price + 1) \div 2, price}
       ELSE share'[p] = share[p]
  /\ reserve' \in Int
  /\ reserve' <= reserve - price * Cardinality(settled' \ settled)
  /\ Covered => reserve' >= 0
  /\ UNCHANGED price

Next == Fund \/ Settle

Spec == Init /\ [][Next]_escrowVars
=============================================================================
