------------------------------- MODULE Cases -------------------------------
(***************************************************************************)
(* Moderation of one pair of members: disputes and fraud cases of their    *)
(* assignments, appeals, and the alerts about too many payouts between     *)
(* them (db/moderation.py, application/moderation.py).                     *)
(*                                                                         *)
(* Every case command waits for the gate of its assignment and then reads  *)
(* the case under a row lock, so it is one action; what is old is what the *)
(* moderator was shown, on his screen or in a preview.  review_alert is    *)
(* two: it holds the alert it read before the gate of the pair, and SELECT *)
(* ... FOR UPDATE returns that object as first read.  Only the resolution  *)
(* of a dispute is reachable from the Mini App; the others are called by   *)
(* tests.                                                                  *)
(***************************************************************************)
EXTENDS Integers, FiniteSets, Sequences, FiniteSetsExt

CONSTANTS
  Assignments,   \* assignments between the two members of the pair
  Disputable,    \* bound: those the creator may reject
  Admins, Moderators,
  Related,       \* staff who invited or sanctioned one of the two
  Previewers,    \* bound: staff who use the preview of the bot
  Reviewers,     \* bound: admins who review alerts
  Penalised,     \* bound: sets of members a review penalises
  Codes,         \* bound: resolution codes used
  Credits,       \* reward of a slot
  Threshold      \* payouts of the pair that need no alert

ASSUME CasesAssumption ==
  /\ IsFiniteSet(Assignments) /\ Disputable \subseteq Assignments
  /\ Related \cup Previewers \subseteq Admins \cup Moderators
  /\ Reviewers \subseteq Admins
  /\ Penalised \subseteq SUBSET {"creator", "performer"}
  /\ Admins \cap Moderators = {}
  /\ Codes \subseteq {"full_payment", "partial_payment", "full_refund", "creator_abuse",
                      "cancel_without_fault", "performer_no_show", "fraud"}
  /\ Credits \in Nat \ {0} /\ Threshold \in Nat \ {0}

Staff == Admins \cup Moderators
Parties == {"creator", "performer"}
Outcomes == {"legitimate", "monitor", "penalty_recommended"}

VARIABLES
  status,       \* assignment -> its status
  entries,      \* assignment -> its rows of the ledger
  reliability,  \* assignment -> root event (version 0) and corrections
  old,          \* assignments whose last payout left the window
  case,         \* assignment -> its moderation case
  draft,        \* staff -> the preview he may confirm
  screen,       \* staff -> the case the Mini App shows him
  counting,     \* payout transactions that hold the gate of the pair
  alerts,       \* episodes, oldest first
  review        \* reviewer -> alert as his screen has read it

money == <<status, entries, reliability, old>>
vars == <<money, case, draft, screen, counting, alerts, review>>

AssignmentStatuses == {"submitted", "rejected_pending_dispute", "disputed", "approved",
                       "partially_approved", "rejected", "no_show", "cancelled"}

NoCase == [type |-> "none", status |-> "none", revision |-> 0, by |-> <<>>]
NoView == [a |-> "none", case |-> NoCase]
NoDraft == [a |-> "none", case |-> NoCase, code |-> "none", confirmed |-> FALSE]
NoReview == [alert |-> 0, outcome |-> "none"]

-----------------------------------------------------------------------------
\* _RESOLUTION_EFFECTS
StatusOf(code) == CASE code \in {"full_payment", "creator_abuse"} -> "approved"
                    [] code = "partial_payment"                   -> "partially_approved"
                    [] code \in {"full_refund", "fraud"}          -> "rejected"
                    [] code = "performer_no_show"                 -> "no_show"
                    [] code = "cancel_without_fault"              -> "cancelled"

Half == (Credits + 1) \div 2

\* A row of the ledger: by is the decision that wrote it, of the one it undoes.
Row(kind, by, credit) == [kind |-> kind, by |-> by, of |-> <<>>, credit |-> credit]

\* What a slot that ends with this status pays, to performer and creator.
PaidFor(after, by) ==
  CASE after = "approved" -> {Row("payout", by, Credits)}
    [] after = "partially_approved" ->
         {Row("payout", by, Half)}
         \cup (IF Half < Credits THEN {Row("refund", by, Credits - Half)} ELSE {})
    [] OTHER -> {Row("refund", by, Credits)}

Reversals(rows, by) ==
  {[kind |-> "reversal", by |-> by, of |-> <<r.kind, r.by>>, credit |-> 0 - r.credit] : r \in rows}

Standing(rows) ==
  {r \in rows : r.kind # "reversal" /\ ~\E q \in rows : q.of = <<r.kind, r.by>>}

Payouts(rows) == {r \in Standing(rows) : r.kind = "payout"}

\* Mutant: an appeal leaves the rows of the first decision alone.
UnappealedRows(a, version) == {}

\* resolve_case, version 2: the rows of the previous resolution that are not
\* reversals themselves.
AppealedRows(a, version) ==
  IF version = 2 THEN {r \in entries[a] : r.by = "v1" /\ r.kind # "reversal"} ELSE {}

\* _apply_resolution_economy
ResolutionRows(a, type, code, version) ==
  IF type = "fraud_review" /\ version = 1
  THEN Reversals({r \in entries[a] : r.kind = "payout"}, "v1")
  ELSE PaidFor(StatusOf(code), IF version = 1 THEN "v1" ELSE "v2")
       \cup Reversals(AppealedRows(a, version), "v2")

\* reliability: the newest correction, or the root event.
EffectiveOutcome(a) ==
  (CHOOSE f \in reliability[a] : \A g \in reliability[a] : g.version <= f.version).outcome

\* The paid, unreversed assignments of the last days.
Interactions(rows, left) == {a \in Assignments \ left : Payouts(rows[a]) # {}}

OpenAlerts == {i \in DOMAIN alerts : alerts[i].state = "open"}

NewAlert(n) == [state |-> "open", outcome |-> "none", count |-> n, penalised |-> {}]

Crossed(n) == n > Threshold

\* recompute_interaction_alert with n interactions.
Recomputed(n) ==
  IF OpenAlerts # {}
  THEN [i \in DOMAIN alerts |->
          IF i \notin OpenAlerts THEN alerts[i]
          ELSE IF Crossed(n) THEN [alerts[i] EXCEPT !.count = n]
          ELSE [alerts[i] EXCEPT !.count = n, !.state = "closed", !.outcome = "rearmed"]]
  ELSE LET latest == Len(alerts)
           known == [i \in DOMAIN alerts |->
                       IF i = latest /\ alerts[i].outcome = "rearmed"
                       THEN [alerts[i] EXCEPT !.count = n] ELSE alerts[i]]
       IN IF Crossed(n) /\ (latest > 0 => ~Crossed(known[latest].count))
          THEN Append(known, NewAlert(n))
          ELSE known

\* Mutant: payouts of the pair are counted without a gate.
PairUngated == TRUE

\* acquire_pair_gate: one transaction at a time counts and commits.
PairGateFree == counting = {}

Init ==
  /\ status = [a \in Assignments |-> "submitted"]
  /\ entries = [a \in Assignments |-> {}]
  /\ reliability = [a \in Assignments |-> {}]
  /\ old = {} /\ counting = {} /\ alerts = <<>>
  /\ case = [a \in Assignments |-> NoCase]
  /\ draft = [s \in Staff |-> NoDraft]
  /\ screen = [s \in Staff |-> NoView]
  /\ review = [s \in Reviewers |-> NoReview]

-----------------------------------------------------------------------------
\* decide and finalize_review: the payout is written, and counted under the
\* gate of the pair together with what was committed before.
BeginPayout(a, after) ==
  /\ PairGateFree
  /\ status[a] = "submitted"
  /\ \A p \in counting : p.a # a
  /\ counting' = counting \cup
       {[a |-> a, status |-> after,
         count |-> Cardinality(Interactions(
                     [entries EXCEPT ![a] = PaidFor(after, "review")], old))]}
  /\ UNCHANGED <<money, case, draft, screen, alerts, review>>

CommitPayout(p) ==
  /\ p \in counting
  /\ counting' = counting \ {p}
  /\ status' = [status EXCEPT ![p.a] = p.status]
  /\ entries' = [entries EXCEPT ![p.a] = PaidFor(p.status, "review")]
  /\ reliability' = [reliability EXCEPT ![p.a] = {[version |-> 0, outcome |-> p.status]}]
  /\ alerts' = Recomputed(p.count)
  /\ UNCHANGED <<old, case, draft, screen, review>>

\* Seven days pass; nothing is computed then.
LeaveWindow(a) ==
  /\ a \notin old /\ Payouts(entries[a]) # {}
  /\ old' = old \cup {a}
  /\ UNCHANGED <<status, entries, reliability, case, draft, screen, counting, alerts, review>>

\* AssignmentService.decide with a rejection, and dispute with its case.
RejectResult(a) ==
  /\ a \in Disputable /\ status[a] = "submitted"
  /\ \A p \in counting : p.a # a
  /\ status' = [status EXCEPT ![a] = "rejected_pending_dispute"]
  /\ UNCHANGED <<entries, reliability, old, case, draft, screen, counting, alerts, review>>

OpenDispute(a) ==
  /\ status[a] = "rejected_pending_dispute"
  /\ status' = [status EXCEPT ![a] = "disputed"]
  /\ case' = [case EXCEPT ![a] = [NoCase EXCEPT !.type = "dispute", !.status = "open"]]
  /\ UNCHANGED <<entries, reliability, old, draft, screen, counting, alerts, review>>

\* open_fraud_case
OpenFraudCase(s, a) ==
  /\ s \in Admins
  /\ status[a] \in {"approved", "partially_approved"}
  /\ case[a] = NoCase
  /\ case' = [case EXCEPT ![a] = [NoCase EXCEPT !.type = "fraud_review", !.status = "open"]]
  /\ UNCHANGED <<money, draft, screen, counting, alerts, review>>

-----------------------------------------------------------------------------
\* The version the decision would have, 0 when none is awaited.
Version(c) == CASE c.status = "open" -> 1 [] c.status = "appealed" -> 2 [] OTHER -> 0

\* The conditions resolve_case takes from the case.
MayResolve(s, c, code) ==
  /\ Version(c) # 0
  /\ (Version(c) = 2 \/ c.type = "fraud_review" \/ code = "fraud") => s \in Admins
  /\ (c.type = "fraud_review" /\ Version(c) = 1) => code = "fraud"
  /\ s \notin Related
  /\ Version(c) = 2 => s # c.by[1]

\* preview_resolution; another preview replaces the card in the chat.  Bound:
\* only previews the author could confirm at this moment, one confirmed each.
Preview(s, a, code) ==
  /\ MayResolve(s, case[a], code)
  /\ ~draft[s].confirmed
  /\ draft' = [draft EXCEPT ![s] = [a |-> a, case |-> case[a], code |-> code,
                                    confirmed |-> FALSE]]
  /\ UNCHANGED <<money, case, screen, counting, alerts, review>>

\* The Mini App lists the open disputes a moderator may decide.
Show(s, a) ==
  /\ case[a].type = "dispute" /\ case[a].status = "open" /\ s \notin Related
  /\ screen' = [screen EXCEPT ![s] = [a |-> a, case |-> case[a]]]
  /\ UNCHANGED <<money, case, draft, counting, alerts, review>>

\* Mutant: a decision does not name the revision it was made for.
RevisionUnchecked(a, seen) == TRUE

\* The revision a decision carries is still that of the case.
RevisionIsCurrent(a, seen) == case[a].revision = seen.revision

\* resolve_case under the gates: the decision, its rows, the reliability and
\* the alert commit together.
ResolveCase(s, a, seen, code) ==
  LET version == Version(case[a])
      rows == [entries EXCEPT ![a] = @ \cup ResolutionRows(a, case[a].type, code, version)]
      paid == StatusOf(code) \in {"approved", "partially_approved"}
      left == IF paid THEN old \ {a} ELSE old
  IN /\ PairGateFree
     /\ RevisionIsCurrent(a, seen)
     /\ MayResolve(s, case[a], code)
     /\ entries' = rows
     /\ status' = [status EXCEPT ![a] = StatusOf(code)]
     /\ reliability' = [reliability EXCEPT ![a] = @ \cup
          {[version |-> IF version = 1 /\ case[a].type = "dispute" THEN 0 ELSE version,
            outcome |-> StatusOf(code)]}]
     /\ old' = left
     /\ case' = [case EXCEPT ![a].status = "resolved", ![a].revision = @ + 1,
                             ![a].by = Append(@, s)]
     /\ alerts' = Recomputed(Cardinality(Interactions(rows, left)))
     /\ UNCHANGED <<counting, review>>

\* resolve with initial_dispute_only, from the screen.
ResolveShown(s, code) ==
  LET view == screen[s] IN
  /\ view # NoView
  /\ case[view.a].type = "dispute" /\ case[view.a].status = "open"
  /\ ResolveCase(s, view.a, view.case, code)
  /\ screen' = [screen EXCEPT ![s] = NoView]
  /\ UNCHANGED draft

\* confirm_resolution; a second confirmation returns the case unchanged.
Confirm(s) ==
  LET d == draft[s] IN
  /\ d # NoDraft /\ ~d.confirmed
  /\ ResolveCase(s, d.a, d.case, d.code)
  /\ draft' = [draft EXCEPT ![s].confirmed = TRUE]
  /\ UNCHANGED screen

\* request_appeal: one per case, by the key of dispute_appeals; a resolution of
\* version 2 cannot be appealed.
Appeal(a) ==
  /\ case[a].status = "resolved" /\ Len(case[a].by) = 1
  /\ case' = [case EXCEPT ![a].status = "appealed", ![a].revision = @ + 1]
  /\ UNCHANGED <<money, draft, screen, counting, alerts, review>>

-----------------------------------------------------------------------------
\* review_alert: the alert is read, and penalties are prepared, before the gate.
ReadAlert(s, i, outcome) ==
  /\ review[s] = NoReview
  /\ i \in OpenAlerts
  /\ review' = [review EXCEPT ![s] = [alert |-> i, outcome |-> outcome]]
  /\ UNCHANGED <<money, case, draft, screen, counting, alerts>>

\* The alert still looks open; a penalty already posted under the key of the
\* alert and member is replayed.
CloseAlert(s, members) ==
  LET i == review[s].alert IN
  /\ review[s] # NoReview
  /\ PairGateFree
  /\ members # {} => review[s].outcome = "penalty_recommended"
  /\ alerts' = [alerts EXCEPT ![i].state = "closed", ![i].outcome = review[s].outcome,
                              ![i].penalised = @ \cup members]
  /\ review' = [review EXCEPT ![s] = NoReview]
  /\ UNCHANGED <<money, case, draft, screen, counting>>

Next ==
  \/ \E a \in Assignments :
       \/ \E after \in {"approved", "partially_approved"} : BeginPayout(a, after)
       \/ LeaveWindow(a) \/ RejectResult(a) \/ OpenDispute(a) \/ Appeal(a)
       \/ \E s \in Admins : OpenFraudCase(s, a)
       \/ \E s \in Staff : Show(s, a)
       \/ \E s \in Previewers, code \in Codes : Preview(s, a, code)
  \/ \E p \in counting : CommitPayout(p)
  \/ \E s \in Staff :
       \/ \E code \in Codes : ResolveShown(s, code)
       \/ Confirm(s)
  \/ \E s \in Reviewers :
       \/ \E i \in DOMAIN alerts, outcome \in Outcomes : ReadAlert(s, i, outcome)
       \/ \E members \in Penalised : CloseAlert(s, members)

Spec == Init /\ [][Next]_vars

-----------------------------------------------------------------------------
\* Every variable stays within its declared values.
TypeOK ==
  /\ status \in [Assignments -> AssignmentStatuses]
  /\ old \subseteq Assignments
  /\ \A a \in Assignments :
       /\ case[a].type \in {"none", "dispute", "fraud_review"}
       /\ case[a].status \in {"none", "open", "resolved", "appealed"}
       /\ case[a].revision \in 0..3 /\ case[a].by \in Seq(Staff)
       /\ \A r \in entries[a] : r.kind \in {"payout", "refund", "reversal"}
  /\ \A i \in DOMAIN alerts :
       /\ alerts[i].state \in {"open", "closed"}
       /\ alerts[i].outcome \in Outcomes \cup {"none", "rearmed"}
       /\ alerts[i].penalised \subseteq Parties

Ended == {"approved", "partially_approved", "rejected", "no_show", "cancelled"}

\* After reviews, resolutions and appeals, whatever was confirmed late or by two
\* moderators, status, ledger and reliability of an assignment tell the same and last outcome: the performer keeps one payout or none, and
\* a dispute leaves the slot paid out or returned exactly once (08_MODERATION,
\* 8: the rows of the first resolution are reversed and the new ones applied).
OneOutcomeStands ==
  \A a \in Assignments :
    status[a] \in Ended =>
      /\ EffectiveOutcome(a) = status[a]
      /\ {r.credit : r \in Payouts(entries[a])} =
           CASE status[a] = "approved"           -> {Credits}
             [] status[a] = "partially_approved" -> {Half}
             [] OTHER                            -> {}
      /\ case[a].type # "fraud_review" =>
           MapThenSumSet(LAMBDA r : r.credit, Standing(entries[a])) = Credits

\* Nobody decides a case in a state other than the one he was shown, on the
\* screen or in a preview, nor an appeal of himself (08_MODERATION, 5).
DecidedAsSeen ==
  [][\A a \in Assignments :
       LET n == Len(case'[a].by)
           s == case'[a].by[n]
       IN n > Len(case[a].by) =>
            /\ \E seen \in {[a |-> screen[s].a, case |-> screen[s].case],
                            [a |-> draft[s].a, case |-> draft[s].case]} :
                 seen = [a |-> a, case |-> case[a]]
            /\ n = 2 => s # case[a].by[1] /\ s \in Admins]_vars

\* Two payouts that commit together cannot both miss the threshold: a pair over
\* it has had an alert (02_DOMAIN_RULES, 9).
CrossingIsAlerted ==
  Crossed(Cardinality(Interactions(entries, old))) => alerts # <<>>

\* Each new crossing after the count fell back opens an episode (02_DOMAIN_RULES,
\* 9: a new episode once the counter sank to the threshold and crossed it again).
EveryCrossingIsAlerted ==
  [][~Crossed(Cardinality(Interactions(entries, old)))
     /\ Crossed(Cardinality(Interactions(entries', old')))
       => \E i \in DOMAIN alerts' : alerts'[i].state = "open"]_vars

\* Only the outcome penalty_recommended comes with penalties (08_MODERATION, 4).
PenaltyIsRecommended ==
  \A i \in DOMAIN alerts :
    alerts[i].penalised # {} => alerts[i].outcome = "penalty_recommended"

\* A slot never pays out more than its reward, to both parties together
\* (08_MODERATION, 8).
SlotPaysOneReward ==
  \A a \in Assignments :
    MapThenSumSet(LAMBDA r : r.credit, Standing(entries[a])) <= Credits
=============================================================================
