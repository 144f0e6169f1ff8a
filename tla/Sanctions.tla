----------------------------- MODULE Sanctions -----------------------------
(***************************************************************************)
(* Sanctions of one member and the account status they produce             *)
(* (infrastructure/db/moderation.py, get_member in database.py).           *)
(*                                                                         *)
(* A suspension or a ban overwrites members.status and remembers the value *)
(* it found.  Nothing runs when a suspension elapses: whoever next loads   *)
(* the member (get_member) computes the effective status and stores it,    *)
(* without the sanction gate and without a row lock.  revoke_sanction      *)
(* loads the sanction before it takes the gate, and its later SELECT ...   *)
(* FOR UPDATE returns the object already in the session, with the values   *)
(* first loaded.  These two reads are the steps the code does not protect; *)
(* every other handler is one action.                                      *)
(***************************************************************************)
EXTENDS Integers, FiniteSets, FiniteSetsExt

CONSTANTS
  MaxSanctions,  \* bound: sanctions issued to the member
  Moderators,    \* staff whose revocations may run concurrently
  StaleReads     \* others may commit between a load and the write based on it

ASSUME SanctionsAssumption ==
  /\ MaxSanctions \in Nat
  /\ IsFiniteSet(Moderators)
  /\ StaleReads \in BOOLEAN

Ids == 1..MaxSanctions      \* in the order of starts_at

Kinds == {"restriction", "suspension", "ban"}
BlockedStatuses == {"suspended", "banned"}
MemberStatuses == {"active", "paused"} \cup BlockedStatuses

\* applied_status; "none" for a sanction that leaves the account alone.
AppliedStatus(kind) == CASE kind = "suspension" -> "suspended"
                         [] kind = "ban"        -> "banned"
                         [] OTHER               -> "none"

VARIABLES
  status,     \* members.status
  sanctions,  \* member_sanctions: id -> [kind, state, previous]
  elapsed,    \* ids whose ends_at has passed
  reader,     \* sanction an open get_member transaction expires, 0: none
  revoking    \* moderator -> sanction and state its revocation loaded

sanctionVars == <<status, sanctions, elapsed, reader, revoking>>

NoSanction == [kind |-> "none", state |-> "none", previous |-> "none"]
NotRevoking == [id |-> 0, seen |-> "none"]

-----------------------------------------------------------------------------
Issued == {i \in Ids : sanctions[i].kind # "none"}

\* Active sanctions whose term has not run out.
InForce == {i \in Issued : sanctions[i].state = "active" /\ i \notin elapsed}

StatusSanctions == {i \in Issued : AppliedStatus(sanctions[i].kind) # "none"}

\* Suspensions that have elapsed and that nobody has marked yet.
Lapsed == {i \in Issued : /\ sanctions[i].kind = "suspension"
                          /\ sanctions[i].state = "active"
                          /\ i \in elapsed}

Suspended == \E i \in InForce : sanctions[i].kind = "suspension"

\* Mutant: an elapsed suspension is released although another one runs.
ReleasableIgnoringOthers == IF status = "suspended" THEN Lapsed ELSE {}

\* Elapsed suspensions a load of the member may release.
Releasable == IF status # "suspended" \/ Suspended THEN {} ELSE Lapsed

\* effective_member_status.
EffectiveStatus ==
  IF Releasable = {} THEN status ELSE sanctions[Max(Releasable)].previous

\* No transaction is between one of its loads and its commit.
Undisturbed == \/ StaleReads
               \/ reader = 0 /\ \A m \in Moderators : revoking[m] = NotRevoking

SanctionsInit ==
  /\ status = "active"
  /\ sanctions = [i \in Ids |-> NoSanction]
  /\ elapsed = {}
  /\ reader = 0
  /\ revoking = [m \in Moderators |-> NotRevoking]

-----------------------------------------------------------------------------
\* change_member: an administrator pauses or resumes the account, on the
\* stored status of the locked row.
ChangeStatus ==
  /\ Undisturbed
  /\ \/ status = "active" /\ status' = "paused"
     \/ status = "paused" /\ status' = "active"
  /\ UNCHANGED <<sanctions, elapsed, reader, revoking>>

\* previous_status: the stored status, not the effective one.
RecordedStatus(kind) == IF AppliedStatus(kind) = "none" THEN "none" ELSE status

\* issue_sanction, under the sanction gate and the row lock of the target.
IssueSanction(kind) ==
  LET id == Cardinality(Issued) + 1
  IN /\ Undisturbed
     /\ id \in Ids
     /\ sanctions' = [sanctions EXCEPT ![id] =
                        [kind |-> kind, state |-> "active",
                         previous |-> RecordedStatus(kind)]]
     /\ status' = IF AppliedStatus(kind) = "none" THEN status
                  ELSE AppliedStatus(kind)
     /\ UNCHANGED <<elapsed, reader, revoking>>

\* ends_at passes; a ban has none.
Elapse(i) ==
  /\ Undisturbed
  /\ i \in Issued \ elapsed
  /\ sanctions[i].kind # "ban"
  /\ elapsed' = elapsed \cup {i}
  /\ UNCHANGED <<status, sanctions, reader, revoking>>

\* revoke_sanction, before the gate: the sanction row enters the session.
LoadForRevocation(m, i) ==
  /\ Undisturbed
  /\ revoking[m] = NotRevoking
  /\ i \in Issued
  /\ revoking' = [revoking EXCEPT ![m] = [id |-> i, seen |-> sanctions[i].state]]
  /\ UNCHANGED <<status, sanctions, elapsed, reader>>

\* Mutant: revocation leaves the status to the next entry.
UnrestoredStatus(i) == status

\* _restore_status: back to the recorded status, unless the member's status is
\* another sanction's, or another one still holds.
RestoredStatus(i) ==
  IF /\ AppliedStatus(sanctions[i].kind) = status
     /\ (InForce \cap StatusSanctions) \ {i} = {}
  THEN sanctions[i].previous ELSE status

\* model.state == "active", on the object loaded before the gate.
StillActive(m) == revoking[m].seen = "active"

\* revoke_sanction, under the gate.
Revoke(m) ==
  LET i == revoking[m].id
  IN /\ StillActive(m)
     /\ sanctions' = [sanctions EXCEPT ![i].state = "revoked"]
     /\ status' = RestoredStatus(i)
     /\ revoking' = [revoking EXCEPT ![m] = NotRevoking]
     /\ UNCHANGED <<elapsed, reader>>

\* A refused, unneeded or broken-off revocation leaves nothing.
LeaveRevocation(m) ==
  /\ revoking[m] # NotRevoking
  /\ revoking' = [revoking EXCEPT ![m] = NotRevoking]
  /\ UNCHANGED <<status, sanctions, elapsed, reader>>

\* get_member: the two SELECTs of effective_member_status find a suspension
\* to expire.
LoadMember ==
  /\ Undisturbed
  /\ reader = 0
  /\ Releasable # {}
  /\ reader' = Max(Releasable)
  /\ UNCHANGED <<status, sanctions, elapsed, revoking>>

\* The flush of that transaction writes the columns it changed, whatever the
\* rows hold by now, and the transaction commits.
Materialize ==
  /\ reader # 0
  /\ sanctions' = [sanctions EXCEPT ![reader].state = "expired"]
  /\ status' = IF sanctions[reader].previous = "suspended" THEN status
               ELSE sanctions[reader].previous
  /\ reader' = 0
  /\ UNCHANGED <<elapsed, revoking>>

\* The caller refuses the member after all, and rolls back.
RollBackRead ==
  /\ reader # 0
  /\ reader' = 0
  /\ UNCHANGED <<status, sanctions, elapsed, revoking>>

\* ensure_action_allowed and the check of the stored status that follows: the
\* member acts (accepts or creates a task), and an elapsed suspension expires.
Act ==
  /\ Undisturbed
  /\ Releasable # {}
  /\ EffectiveStatus = "active"
  /\ ~\E i \in InForce : sanctions[i].kind = "restriction"
  /\ sanctions' = [sanctions EXCEPT ![Max(Releasable)].state = "expired"]
  /\ status' = EffectiveStatus
  /\ UNCHANGED <<elapsed, reader, revoking>>

-----------------------------------------------------------------------------
ModeratorNext(m) ==
  \/ \E i \in Ids : LoadForRevocation(m, i)
  \/ Revoke(m) \/ LeaveRevocation(m)

SanctionsNext ==
  \/ ChangeStatus
  \/ \E kind \in Kinds : IssueSanction(kind)
  \/ \E i \in Ids : Elapse(i)
  \/ \E m \in Moderators : ModeratorNext(m)
  \/ LoadMember \/ Materialize \/ RollBackRead
  \/ Act

SanctionsSpec == SanctionsInit /\ [][SanctionsNext]_sanctionVars

(* Members keep coming back, and some of the transactions that load them    *)
(* commit: process_start stores a receipt whatever the status is.           *)
SanctionsFairness == SF_sanctionVars(LoadMember) /\ SF_sanctionVars(Materialize)
                     /\ \A m \in Moderators : WF_sanctionVars(Revoke(m) \/ LeaveRevocation(m))

FairSanctionsSpec == SanctionsSpec /\ SanctionsFairness

-----------------------------------------------------------------------------
Suspensions == {i \in Issued : sanctions[i].kind = "suspension"}
SanctionStates == {"active", "revoked", "expired"}
SanctionRows ==
  {row \in [kind : Kinds, state : SanctionStates, previous : MemberStatuses \cup {"none"}] :
     (row.previous = "none") = (AppliedStatus(row.kind) = "none")}

\* Every variable stays within its declared values; a sanction that blocks the
\* account remembers a status to return to.
SanctionsTypeOK ==
  /\ status \in MemberStatuses
  /\ sanctions \in [Ids -> SanctionRows \cup {NoSanction}]
  /\ elapsed \subseteq Issued
  /\ reader \in {0} \cup Suspensions
  /\ revoking \in [Moderators -> [id : Issued, seen : SanctionStates] \cup {NotRevoking}]

\* While a suspension is in force the account stays blocked, whatever other
\* sanctions are issued, elapse or are revoked meanwhile (08_MODERATION: a
\* suspension is a temporary stop of the account).
SuspensionHolds == Suspended => EffectiveStatus \in BlockedStatuses

\* While a ban is in force the account stays blocked (08_MODERATION: a ban
\* excludes the member and has no end).
BanHolds ==
  (\E i \in InForce : sanctions[i].kind = "ban")
    => EffectiveStatus \in BlockedStatuses

\* One kind of step can open the account under a running suspension: the write of
\* a get_member whose load was overtaken.  No sanction issued or revoked on
\* however old a row, no term that ends and no action of the member does.
OnlyOvertakenLoadsLift ==
  [][SuspensionHolds /\ ~SuspensionHolds'
       => reader # 0 /\ reader \notin Releasable /\ reader' = 0]_sanctionVars

\* No suspension or ban was issued on top of another one.
Unlayered ==
  \A i \in StatusSanctions : sanctions[i].previous \notin BlockedStatuses

\* No sanction keeps the member from using the account.
Unheld == InForce \cap StatusSanctions = {}

\* Once nothing holds the member any more, the next entry sees a free account
\* (08_MODERATION: an elapsed suspension blocks neither reading nor acting).
FreeAccountIsNotBlocked == Unheld => EffectiveStatus \notin BlockedStatuses

\* If from some moment on no sanction holds the member, the account is
\* eventually usable again for good (every sanction can be undone).
AccessRestored == <>[]Unheld => <>[](EffectiveStatus \notin BlockedStatuses)

\* That is so as long as no sanction is issued on top of another one.
UnlayeredAccessRestored == []Unlayered => AccessRestored
=============================================================================
