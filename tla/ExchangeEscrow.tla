--------------------------- MODULE ExchangeEscrow ---------------------------
(* The exchange lifecycle implements the escrow.                            *)
EXTENDS Exchange

Settled == {p \in Performers : EntriesOf(p) # {}}
Shares == [p \in Performers |->
             CreditSum({e \in EntriesOf(p) : e.member = p})]

Settlement == INSTANCE Escrow WITH
  Parties <- Performers, Covered <- TRUE,
  reserve <- Held, price <- reward, settled <- Settled, share <- Shares

Accounts == INSTANCE Escrow WITH
  Parties <- Performers, Covered <- FALSE,
  reserve <- Held, price <- reward, settled <- Settled, share <- Shares

\* Each step of the lifecycle settles parties, releases reserve or leaves the
\* escrow alone, and never pays what it does not hold.
ImplementsEscrow == Settlement!Spec

\* The same, except that the reserve may be overdrawn: who is paid, how often and
\* how much is what the escrow says on every path.
KeepsAccounts == Accounts!Spec
=============================================================================
