------------------------------ MODULE Exchange ------------------------------
(***************************************************************************)
(* The exchange lifecycle of one member task: publication with a credit    *)
(* reserve, acceptance of slots, submission, review, dispute, negotiated   *)
(* cancellation and deadline settlement (application/tasks.py,             *)
(* application/assignments.py, infrastructure/db/task_cancellations.py).   *)
(*                                                                         *)
(* Every handler runs in one PostgreSQL transaction under the advisory     *)
(* gate of the task, so a handler is one action.  What is NOT atomic in    *)
(* the code is split: the creator's direct cancellation reads the task     *)
(* before it takes the gate, and the worker lists due tasks in one         *)
(* transaction and finalizes each of them in another.                      *)
(*                                                                         *)
(* uq_assignments_task_performer allows one assignment per performer and   *)
(* task, so an assignment is named by its performer.                       *)
(***************************************************************************)
EXTENDS Integers, FiniteSets, FiniteSetsExt

CONSTANTS
  Performers,     \* members who may take a slot
  Creator,        \* the member who publishes the task
  Responders,     \* performers whose client answers cancellation requests
  SlotChoices,    \* values of performer_slots a creator may choose
  RewardChoices,  \* values of credit_reward_per_performer
  StartCredits,   \* the creator's balance before publication
  Codes,          \* resolution codes moderators use
  AcceptRace,     \* an accept may start before, and commit after, others
  Finalizers,     \* something calls finalize_review and finalize_rejection
  MaxEdits        \* bound: edits of the published task

ResolutionCodes == {"full_payment", "partial_payment", "full_refund",
                    "cancel_without_fault", "performer_no_show",
                    "creator_abuse", "fraud"}

ASSUME ExchangeAssumption ==
  /\ IsFiniteSet(Performers)
  /\ Creator \notin Performers
  /\ Responders \subseteq Performers
  /\ SlotChoices \subseteq Nat \ {0}
  /\ RewardChoices \subseteq Nat \ {0}
  /\ StartCredits \in Nat
  /\ Codes \subseteq ResolutionCodes
  /\ AcceptRace \in BOOLEAN
  /\ Finalizers \in BOOLEAN
  /\ MaxEdits \in Nat

ActiveStatuses == {"accepted", "submitted", "rejected_pending_dispute",
                   "disputed"}
PaidStatuses == {"approved", "partially_approved"}
FinalStatuses == PaidStatuses \cup {"rejected", "no_show", "cancelled"}
\* "none": the performer never accepted the task
AssignmentStatuses == {"none"} \cup ActiveStatuses \cup FinalStatuses

\* "draft": not published yet
TaskStatuses == {"draft", "published", "closed_for_new_performers", "settling",
                 "expired", "partially_completed", "completed", "cancelled"}
RequestStatuses == {"none", "pending", "completed", "obsolete"}
ResponseStatuses == {"none", "pending", "accepted", "declined", "obsolete"}

VARIABLES
  taskStatus,    \* tasks.status
  slots,         \* tasks.performer_slots
  reward,        \* tasks.credit_reward_per_performer
  reservedTotal, \* tasks.reserved_credit_total
  assignment,    \* performer -> [status, slot, order of acceptance]
  window,        \* performer -> state of the running review/dispute window
  request,       \* status of the task's cancellation request
  response,      \* performer -> status of the response to that request
  declineEvent,  \* outbox holds "task_cancel_request:<id>:declined"
  ledger,        \* account_transactions of this task
  pastDeadline,  \* the clock has reached tasks.deadline_at
  due,           \* the worker's current batch contains the task
  cancelRead     \* reserved total read by a running cancel(), 0 when none runs

taskVars == <<taskStatus, slots, reward, reservedTotal>>
requestVars == <<request, response, declineEvent>>
vars == <<taskStatus, slots, reward, reservedTotal, assignment, window,
          request, response, declineEvent, ledger, pastDeadline, due,
          cancelRead>>

-----------------------------------------------------------------------------
(* Ledger entries and the reads the handlers make of the assignment table.  *)

\* One account transaction.  <<op, of, n>> is its idempotency key.
Entry(op, of, n, member, credit) ==
  [op |-> op, of |-> of, n |-> n, member |-> member, credit |-> credit]

TaskEntry(op, credit) == Entry(op, Creator, 0, Creator, credit)
Refund(op, p, credit) == Entry(op, p, 0, Creator, credit)
Reward(op, p, credit) == Entry(op, p, 0, p, credit)

SameKey(e, f) == e.op = f.op /\ e.of = f.of /\ e.n = f.n

CreditSum(entries) == MapThenSumSet(LAMBDA e : e.credit, entries)

Balance(m) == (IF m = Creator THEN StartCredits ELSE 0)
              + CreditSum({e \in ledger : e.member = m})

\* Credits reserved for the task and not yet paid out or returned.
Held == 0 - CreditSum(ledger)

\* prepare_batch + apply: a batch whose keys are all new is written, an
\* identical stored batch is a replay, anything else is an idempotency
\* conflict and rolls the transaction back.
ApplyBatch(batch) ==
  \/ /\ \A e \in batch, f \in ledger : ~SameKey(e, f)
     /\ \A e \in batch : Balance(e.member) + e.credit >= 0
     /\ ledger' = ledger \cup batch
  \/ /\ batch \subseteq ledger
     /\ UNCHANGED ledger

Accepted(a) == {p \in Performers : a[p].status # "none"}

\* The newest assignment of every slot that was ever taken.
Latest(a) == {p \in Accepted(a) :
                ~\E q \in Accepted(a) : /\ a[q].slot = a[p].slot
                                        /\ a[q].order > a[p].order}

LatestActive(a) == {p \in Latest(a) : a[p].status \in ActiveStatuses}
LatestOccupied(a) == {p \in Latest(a) : a[p].status # "cancelled"}

\* Mutant: a disputed assignment no longer occupies its slot.
FreeSlotsIgnoringDisputes ==
  {s \in 1..slots : ~\E p \in Accepted(assignment) :
                        /\ assignment[p].slot = s
                        /\ assignment[p].status \notin {"cancelled", "disputed"}}

\* Slots no stored, non-cancelled assignment occupies.
FreeSlots == {s \in 1..slots :
                ~\E p \in Accepted(assignment) :
                    /\ assignment[p].slot = s
                    /\ assignment[p].status # "cancelled"}

\* Mutant: a closed task with work left goes back to the catalog.
OngoingStatusReopening(current, past) ==
  IF past THEN "settling" ELSE "published"

\* The status of a task that still has active or open slots.
OngoingStatus(current, past) ==
  IF past THEN "settling"
  ELSE IF current = "closed_for_new_performers" THEN current ELSE "published"

\* derive_task_status over the newest assignment of every slot.
DeriveTaskStatus(current, a, past) ==
  LET latest == Latest(a)
      open   == /\ current = "published"
                /\ ~past
                /\ Cardinality({a[p].slot : p \in latest}) < slots
      paid   == Cardinality({p \in latest : a[p].status \in PaidStatuses})
  IN IF LatestActive(a) # {} \/ open THEN OngoingStatus(current, past)
     ELSE IF paid = slots THEN "completed"
     ELSE IF paid \in 1..(slots - 1) THEN "partially_completed"
     ELSE "expired"

PartialReward == (reward + 1) \div 2

\* Mutant: work has started, but the question to the performers stays open.
ObsoleteRequestForgotten == UNCHANGED <<request, response>>

\* obsolete_pending_request: every unanswered response becomes obsolete.
ObsoleteRequest ==
  IF request = "pending"
  THEN /\ request' = "obsolete"
       /\ response' = [q \in Performers |->
                         IF response[q] = "pending" THEN "obsolete"
                                                    ELSE response[q]]
  ELSE UNCHANGED <<request, response>>

SetStatus(p, s) == [assignment EXCEPT ![p].status = s]

-----------------------------------------------------------------------------
Init ==
  /\ taskStatus = "draft"
  /\ slots = 0 /\ reward = 0 /\ reservedTotal = 0
  /\ assignment = [p \in Performers |->
                     [status |-> "none", slot |-> 0, order |-> 0]]
  /\ window = [p \in Performers |-> "none"]
  /\ request = "none"
  /\ response = [p \in Performers |-> "none"]
  /\ declineEvent = FALSE
  /\ ledger = {}
  /\ pastDeadline = FALSE
  /\ due = FALSE
  /\ cancelRead = 0

(* Creator operations.  They hold the creator's identity gate, so none of   *)
(* them runs while a cancel() is between its read and its commit.           *)

\* Mutant: the creator's operations do not share a gate.
CreatorUngated == cancelRead >= 0

CreatorGateFree == cancelRead = 0

\* publish: reserve reward * slots and store the task snapshot.
Publish(n, r) ==
  /\ taskStatus = "draft"
  /\ CreatorGateFree
  /\ ApplyBatch({TaskEntry("task_publish:reserve", 0 - n * r)})
  /\ taskStatus' = "published"
  /\ slots' = n /\ reward' = r /\ reservedTotal' = n * r
  /\ UNCHANGED <<assignment, window, requestVars, pastDeadline, due, cancelRead>>

\* edit_published.  The service only asks that no assignment be occupied; the
\* snapshot trigger refuses the change once any assignment row exists.
EditPublished(n, r) ==
  LET edit  == 1 + Cardinality({e \in ledger : e.op \in
                                  {"task_edit:reserve", "task_edit:refund"}})
      delta == n * r - reservedTotal
      op    == IF delta > 0 THEN "task_edit:reserve" ELSE "task_edit:refund"
  IN /\ CreatorGateFree
     /\ taskStatus = "published"
     /\ ~pastDeadline
     /\ Accepted(assignment) = {}
     /\ <<n, r>> # <<slots, reward>>
     /\ edit \in 1..MaxEdits
     /\ ApplyBatch(IF delta = 0 THEN {}
                   ELSE {Entry(op, Creator, edit, Creator, 0 - delta)})
     /\ slots' = n /\ reward' = r /\ reservedTotal' = n * r
     /\ UNCHANGED <<taskStatus, assignment, window, requestVars, pastDeadline,
                    due, cancelRead>>

\* cancel, first half: under the identity gate, before the task gate, the
\* reserved total is read into the command.
BeginCancel ==
  /\ CreatorGateFree
  /\ taskStatus # "draft"
  /\ cancelRead' = reservedTotal
  /\ UNCHANGED <<taskVars, assignment, window, requestVars, ledger,
                 pastDeadline, due>>

\* cancel, second half: checks under the task gate, refund of the total read.
FinishCancel ==
  /\ cancelRead # 0
  /\ taskStatus = "published"
  /\ ~pastDeadline
  /\ \A p \in Performers : assignment[p].status \in {"none", "cancelled"}
  /\ ApplyBatch({TaskEntry("task_cancel:refund", cancelRead)})
  /\ taskStatus' = "cancelled"
  /\ cancelRead' = 0
  /\ UNCHANGED <<slots, reward, reservedTotal, assignment, window, requestVars,
                 pastDeadline, due>>

\* A refused check, a lost connection or a crash rolls the cancel back.
AbortCancel ==
  /\ cancelRead # 0
  /\ cancelRead' = 0
  /\ UNCHANGED <<taskVars, assignment, window, requestVars, ledger,
                 pastDeadline, due>>

-----------------------------------------------------------------------------
(* Performer operations.                                                    *)

\* accept.  accepted_at is the start of the transaction (server default
\* now()), taken before the gates: with AcceptRace the new row may sort before
\* rows committed while this transaction waited.
Accept(p) ==
  LET count == Cardinality(Accepted(assignment))
  IN /\ taskStatus = "published"
     /\ request # "pending"
     /\ assignment[p].status = "none"
     /\ ~pastDeadline
     /\ \E s \in FreeSlots,
           k \in (IF AcceptRace THEN 1 ELSE count + 1)..(count + 1) :
          /\ \A t \in FreeSlots : s <= t
          /\ assignment' =
            [q \in Performers |->
               IF q = p THEN [status |-> "accepted", slot |-> s, order |-> k]
               ELSE IF assignment[q].order >= k
                    THEN [assignment[q] EXCEPT !.order = @ + 1]
                    ELSE assignment[q]]
     /\ UNCHANGED <<taskVars, window, requestVars, ledger, pastDeadline, due,
                    cancelRead>>

\* submit and confirm_submission_draft: the 72-hour review window opens, and a
\* pending cancellation request is obsolete for everybody.
Submit(p) ==
  /\ assignment[p].status = "accepted"
  /\ ~pastDeadline
  /\ ObsoleteRequest
  /\ assignment' = SetStatus(p, "submitted")
  /\ window' = [window EXCEPT ![p] = "open"]
  /\ UNCHANGED <<taskVars, declineEvent, ledger, pastDeadline, due, cancelRead>>

\* AssignmentService.cancel: frees the slot; in a closed task the last active
\* performer's cancellation also refunds that slot and cancels the task.
CancelAssignment(p) ==
  LET after  == SetStatus(p, "cancelled")
      closes == /\ taskStatus = "closed_for_new_performers"
                /\ LatestActive(after) = {}
  IN /\ assignment[p].status = "accepted"
     /\ ObsoleteRequest
     /\ assignment' = after
     /\ ApplyBatch(IF closes THEN {Refund("task_cancel:refund", p, reward)}
                             ELSE {})
     /\ taskStatus' = IF closes THEN "cancelled" ELSE taskStatus
     /\ UNCHANGED <<slots, reward, reservedTotal, window, declineEvent,
                    pastDeadline, due, cancelRead>>

\* dispute: only inside the 24-hour window; opens the moderation case.
Dispute(p) ==
  /\ assignment[p].status = "rejected_pending_dispute"
  /\ window[p] = "open"
  /\ assignment' = SetStatus(p, "disputed")
  /\ window' = [window EXCEPT ![p] = "none"]
  /\ UNCHANGED <<taskVars, requestVars, ledger, pastDeadline, due, cancelRead>>

\* respond_cancellation after the deadline obsoletes the request.
RespondLate(p) ==
  /\ p \in Responders
  /\ request = "pending" /\ response[p] = "pending"
  /\ taskStatus \in {"published", "closed_for_new_performers"}
  /\ pastDeadline
  /\ ObsoleteRequest
  /\ UNCHANGED <<taskVars, assignment, window, declineEvent, ledger,
                 pastDeadline, due, cancelRead>>

\* answer_response, then the request completes once nobody is pending.
Answer(p, answer) ==
  /\ p \in Responders
  /\ request = "pending" /\ response[p] = "pending"
  /\ taskStatus \in {"published", "closed_for_new_performers"}
  /\ ~pastDeadline
  /\ response' = [response EXCEPT ![p] = answer]
  /\ request' = IF \E q \in Performers \ {p} : response[q] = "pending"
                THEN request ELSE "completed"

\* Declining writes the outbox row of the REQUEST, whose key is unique: the
\* second decliner's transaction fails.
Decline(p) ==
  /\ Answer(p, "declined")
  /\ ~declineEvent
  /\ declineEvent' = TRUE
  /\ UNCHANGED <<taskVars, assignment, window, ledger, pastDeadline, due,
                 cancelRead>>

Consent(p) ==
  LET after == IF assignment[p].status = "accepted"
               THEN SetStatus(p, "cancelled") ELSE assignment
  IN /\ Answer(p, "accepted")
     /\ assignment' = after
     /\ ApplyBatch({Refund("task_cancel:refund", p, reward)})
     /\ taskStatus' = IF LatestActive(after) = {} THEN "cancelled"
                                                 ELSE taskStatus
     /\ UNCHANGED <<slots, reward, reservedTotal, window, declineEvent,
                    pastDeadline, due, cancelRead>>

-----------------------------------------------------------------------------
(* Creator operations on a running task.                                    *)

\* Mutant: the aggregate is derived from the history read before the decision.
AggregateOfStaleHistory(after) ==
  taskStatus' = DeriveTaskStatus(taskStatus, assignment, pastDeadline)

\* _update_task_aggregate: derived from the history this transaction leaves.
Aggregate(after) ==
  taskStatus' = DeriveTaskStatus(taskStatus, after, pastDeadline)

\* Mutant: the part of the reward the performer did not earn is forgotten.
ReviewPayoutWithoutRemainder(p, outcome) ==
  IF outcome = "approved"
  THEN {Reward("approved:reward", p, reward)}
  ELSE {Reward("partially_approved:reward", p, PartialReward),
        Refund("partially_approved:refund", p, 0)}

ReviewPayout(p, outcome) ==
  IF outcome = "approved"
  THEN {Reward("approved:reward", p, reward)}
  ELSE {Reward("partially_approved:reward", p, PartialReward),
        Refund("partially_approved:refund", p, reward - PartialReward)}

\* decide full or partial: pays the performer, returns the remainder.
Approve(p, outcome) ==
  LET after == SetStatus(p, outcome)
  IN /\ CreatorGateFree
     /\ assignment[p].status = "submitted"
     /\ window[p] = "open"
     /\ outcome = "partially_approved" => reward >= 2
     /\ ApplyBatch(ReviewPayout(p, outcome))
     /\ assignment' = after
     /\ window' = [window EXCEPT ![p] = "none"]
     /\ Aggregate(after)
     /\ UNCHANGED <<slots, reward, reservedTotal, requestVars, pastDeadline,
                    due, cancelRead>>

\* decide reject: no money moves, the 24-hour dispute window opens.
Reject(p) ==
  /\ CreatorGateFree
  /\ assignment[p].status = "submitted"
  /\ window[p] = "open"
  /\ assignment' = SetStatus(p, "rejected_pending_dispute")
  /\ UNCHANGED <<taskVars, window, requestVars, ledger, pastDeadline, due,
                 cancelRead>>

\* free_slots = max(0, performer_slots - len(occupied))
UnoccupiedCount ==
  LET occupied == Cardinality(LatestOccupied(assignment))
  IN IF occupied < slots THEN slots - occupied ELSE 0

\* The status and deadline checks of request_cancellation.
MayRequestCancellation ==
  /\ CreatorGateFree
  /\ \/ taskStatus = "published"
     \/ taskStatus = "partially_completed" /\ UnoccupiedCount > 0
  /\ ~pastDeadline

\* request_cancellation with no occupied slot: the task is cancelled at once.
CancelUnclaimed ==
  /\ MayRequestCancellation
  /\ LatestOccupied(assignment) = {}
  /\ ApplyBatch({TaskEntry("task_cancel:refund", reservedTotal)})
  /\ taskStatus' = "cancelled"
  /\ UNCHANGED <<slots, reward, reservedTotal, assignment, window, requestVars,
                 pastDeadline, due, cancelRead>>

\* request_cancellation otherwise: free slots are refunded, intake closes, and
\* the performers who have not submitted are asked for consent.
RequestCancellation ==
  LET asked == {p \in LatestActive(assignment) :
                  assignment[p].status = "accepted"}
  IN /\ MayRequestCancellation
     /\ LatestOccupied(assignment) # {}
     /\ request # "pending"
     /\ ApplyBatch(IF UnoccupiedCount = 0 THEN {}
                   ELSE {TaskEntry("task_close:refund",
                                   UnoccupiedCount * reward)})
     /\ taskStatus' = "closed_for_new_performers"
     /\ IF asked = {} THEN UNCHANGED requestVars
        ELSE /\ request' = "pending"
             /\ response' = [p \in Performers |->
                               IF p \in asked THEN "pending" ELSE "none"]
             /\ declineEvent' = FALSE
     /\ UNCHANGED <<slots, reward, reservedTotal, assignment, window,
                    pastDeadline, due, cancelRead>>
-----------------------------------------------------------------------------
(* Moderation: the first resolution of a dispute case.                      *)

ResolvedStatus(code) ==
  CASE code \in {"full_payment", "creator_abuse"} -> "approved"
    [] code = "partial_payment"      -> "partially_approved"
    [] code \in {"full_refund", "fraud"} -> "rejected"
    [] code = "performer_no_show"    -> "no_show"
    [] code = "cancel_without_fault" -> "cancelled"

ResolutionPayout(p, code) ==
  CASE code \in {"full_payment", "creator_abuse"} ->
         {Reward("case:full", p, reward)}
    [] code = "partial_payment" ->
         {Reward("case:partial", p, PartialReward)}
         \cup (IF PartialReward = reward THEN {}
               ELSE {Refund("case:remainder", p, reward - PartialReward)})
    [] OTHER -> {Refund("case:refund", p, reward)}

\* resolve_case on an open dispute: payout, outcome and task aggregate commit
\* together.
ResolveDispute(p, code) ==
  LET after == SetStatus(p, ResolvedStatus(code))
  IN /\ assignment[p].status = "disputed"
     /\ ApplyBatch(ResolutionPayout(p, code))
     /\ assignment' = after
     /\ Aggregate(after)
     /\ UNCHANGED <<slots, reward, reservedTotal, window, requestVars,
                    pastDeadline, due, cancelRead>>

-----------------------------------------------------------------------------
(* Time-driven settlement.                                                  *)

ReviewOverdue(p) ==
  assignment[p].status = "submitted" /\ window[p] = "closed"

MayFinalizeReview(p) == Finalizers /\ ReviewOverdue(p)

\* finalize_review: the silent creator's submission is approved in full.
FinalizeReview(p) ==
  LET after == SetStatus(p, "approved")
  IN /\ MayFinalizeReview(p)
     /\ ApplyBatch({Reward("approved:reward", p, reward)})
     /\ assignment' = after
     /\ window' = [window EXCEPT ![p] = "none"]
     /\ Aggregate(after)
     /\ UNCHANGED <<slots, reward, reservedTotal, requestVars, pastDeadline,
                    due, cancelRead>>

\* finalize_rejection: an undisputed rejection returns the slot's reward.
FinalizeRejection(p) ==
  LET after == SetStatus(p, "rejected")
  IN /\ Finalizers
     /\ assignment[p].status = "rejected_pending_dispute"
     /\ window[p] = "closed"
     /\ ApplyBatch({Refund("rejected:refund", p, reward)})
     /\ assignment' = after
     /\ window' = [window EXCEPT ![p] = "none"]
     /\ Aggregate(after)
     /\ UNCHANGED <<slots, reward, reservedTotal, requestVars, pastDeadline,
                    due, cancelRead>>

\* Mutant: the due query knows only the catalog status.
OpenStatusesWithoutClosed == {"published"}

OpenStatuses == {"published", "closed_for_new_performers"}

\* Mutant: a settling task is never listed again.
IsDueWhenOpen == pastDeadline /\ taskStatus \in OpenStatuses

\* What due_task_ids selects.
IsDue ==
  /\ pastDeadline
  /\ \/ taskStatus \in OpenStatuses
     \/ /\ taskStatus = "settling"
        /\ \E p \in Performers : assignment[p].status = "accepted"

\* due_task_ids: read in its own transaction, before any gate.
WorkerList ==
  /\ ~due
  /\ IsDue
  /\ due' = TRUE
  /\ UNCHANGED <<taskVars, assignment, window, requestVars, ledger,
                 pastDeadline, cancelRead>>

\* Mutant: everything that was not paid counts as a no-show.
UnpaidAssignments ==
  {p \in Accepted(assignment) : assignment[p].status \in {"accepted", "cancelled"}}

LateAssignments == {p \in Performers : assignment[p].status = "accepted"}

\* Slots whose reserve the deadline returns: only a task still in the catalog.
UnfilledSlots ==
  IF taskStatus = "published"
  THEN slots - Cardinality(LatestOccupied(assignment)) ELSE 0

\* finalize_deadline looks at the clock but not at the task status it finds.
FinalizeDeadline ==
  LET late  == LateAssignments
      after == [p \in Performers |->
                  IF p \in late THEN [assignment[p] EXCEPT !.status = "no_show"]
                                ELSE assignment[p]]
  IN /\ due
     /\ pastDeadline
     /\ ObsoleteRequest
     /\ ApplyBatch({Refund("no_show:refund", p, reward) : p \in late} \cup
                   (IF UnfilledSlots = 0 THEN {}
                    ELSE {TaskEntry("unfilled:refund",
                                    UnfilledSlots * reward)}))
     /\ assignment' = after
     /\ Aggregate(after)
     /\ due' = FALSE
     /\ UNCHANGED <<slots, reward, reservedTotal, window, declineEvent,
                    pastDeadline, cancelRead>>

\* The worker process dies, or its tick fails, between listing and finalizing.
WorkerCrash ==
  /\ due
  /\ due' = FALSE
  /\ UNCHANGED <<taskVars, assignment, window, requestVars, ledger,
                 pastDeadline, cancelRead>>

DeadlinePasses ==
  /\ taskStatus # "draft"
  /\ ~pastDeadline
  /\ pastDeadline' = TRUE
  /\ UNCHANGED <<taskVars, assignment, window, requestVars, ledger, due,
                 cancelRead>>

\* 72 hours after submission, or 24 hours after rejection.
WindowCloses(p) ==
  /\ window[p] = "open"
  /\ window' = [window EXCEPT ![p] = "closed"]
  /\ UNCHANGED <<taskVars, assignment, requestVars, ledger, pastDeadline, due,
                 cancelRead>>

-----------------------------------------------------------------------------
CreatorNext ==
  \/ \E n \in SlotChoices, r \in RewardChoices :
       Publish(n, r) \/ EditPublished(n, r)
  \/ BeginCancel \/ FinishCancel \/ AbortCancel
  \/ CancelUnclaimed \/ RequestCancellation
  \/ \E p \in Performers :
       \/ \E outcome \in PaidStatuses : Approve(p, outcome)
       \/ Reject(p)

PerformerNext(p) ==
  \/ Accept(p) \/ Submit(p) \/ CancelAssignment(p) \/ Dispute(p)
  \/ RespondLate(p) \/ Decline(p) \/ Consent(p)

WorkerNext == WorkerList \/ FinalizeDeadline \/ WorkerCrash

TimedNext(p) == FinalizeReview(p) \/ FinalizeRejection(p) \/ WindowCloses(p)

Next ==
  \/ CreatorNext
  \/ WorkerNext
  \/ DeadlinePasses
  \/ \E p \in Performers :
       \/ PerformerNext(p)
       \/ TimedNext(p)
       \/ \E code \in Codes : ResolveDispute(p, code)

Spec == Init /\ [][Next]_vars

(* The worker polls forever; a crash loses one batch but does not recur     *)
(* forever between listing and finalizing.  Time passes.  Nobody else is    *)
(* ever obliged to act: neither members nor moderators nor a caller of the  *)
(* review finalizers, which the deployment does not have.                   *)
Fairness ==
  /\ WF_vars(WorkerList)
  /\ SF_vars(FinalizeDeadline)
  /\ WF_vars(DeadlinePasses)
  /\ \A p \in Performers : WF_vars(WindowCloses(p))

FairSpec == Spec /\ Fairness
-----------------------------------------------------------------------------
(* Properties.                                                              *)

Members == Performers \cup {Creator}
AssignmentRows == [status : AssignmentStatuses, slot : Nat, order : Nat]
LedgerOps == {"task_publish:reserve", "task_edit:reserve", "task_edit:refund",
              "task_cancel:refund", "task_close:refund", "unfilled:refund",
              "approved:reward", "partially_approved:reward",
              "partially_approved:refund", "rejected:refund", "no_show:refund",
              "case:full", "case:partial", "case:remainder", "case:refund"}
LedgerRows == [op : LedgerOps, of : Members, n : Nat, member : Members,
               credit : Int]

\* Every variable stays within its declared values, columns of tasks, assignments
\* and cancellation requests included.
TypeOK ==
  /\ taskStatus \in TaskStatuses
  /\ slots \in Nat /\ reward \in Nat /\ reservedTotal \in Nat
  /\ assignment \in [Performers -> AssignmentRows]
  /\ window \in [Performers -> {"none", "open", "closed"}]
  /\ request \in RequestStatuses
  /\ response \in [Performers -> ResponseStatuses]
  /\ declineEvent \in BOOLEAN
  /\ ledger \subseteq LedgerRows
  /\ pastDeadline \in BOOLEAN
  /\ due \in BOOLEAN
  /\ cancelRead \in Nat

EntriesOf(p) == {e \in ledger : e.of = p}

\* The sets of ledger operations each assignment status stands for.
OutcomeOps(status) ==
  CASE status = "approved" -> {{"approved:reward"}, {"case:full"}}
    [] status = "partially_approved" ->
         {{"partially_approved:reward", "partially_approved:refund"},
          {"case:partial", "case:remainder"}, {"case:partial"}}
    [] status = "rejected"  -> {{"rejected:refund"}, {"case:refund"}}
    [] status = "no_show"   -> {{"no_show:refund"}, {"case:refund"}}
    [] status = "cancelled" -> {{}, {"task_cancel:refund"}, {"case:refund"}}
    [] OTHER -> {{}}

\* The ledger and the assignment table never disagree: whatever order decide,
\* dispute resolution, consent, performer cancellation and the deadline worker
\* run in, an assignment carries exactly the postings of its own outcome, so
\* it is settled at most once and by one path only.
SettledAsDecided ==
  \A p \in Performers :
    {e.op : e \in EntriesOf(p)} \in OutcomeOps(assignment[p].status)

\* The reserve still held covers every assignment that may yet be paid and
\* every slot that may yet be accepted (02_DOMAIN_RULES: a reward is paid out
\* of the reserve of its slot).
ReserveCoversObligations ==
  Held >= reward * (Cardinality(LatestActive(assignment))
                    + (IF taskStatus = "published" THEN UnoccupiedCount ELSE 0))

TerminalStatuses == {"expired", "partially_completed", "completed", "cancelled"}

\* No member is paid out of another task's credits: a task never returns and
\* pays more than was reserved for it (02_DOMAIN_RULES: a payment to a performer
\* is taken from the reserve of the slot).
NeverOverdrawn == Held >= 0

\* A task that has reached a terminal status holds no credits any more.
TerminalReserveReleased == taskStatus \in TerminalStatuses => Held = 0

\* Assignments that ended without payment and took their reward out of the
\* reserve, so that the slot they leave is free and has none.
CancelledAndRefunded ==
  {p \in Performers : assignment[p].status = "cancelled" /\ EntriesOf(p) # {}}

\* What the assignments in progress and the free slots are worth, less the slots
\* given back with their reward.
SlotsWorth ==
  reward * (Cardinality({p \in Performers :
                           assignment[p].status \in ActiveStatuses})
            + Cardinality(FreeSlots) - Cardinality(CancelledAndRefunded))

\* On every path, cancellations by consent or without fault and overtaking
\* acceptances included, a task in the catalog holds exactly that, so what it
\* lacks is the reward of the slots given back and nothing else; once it has
\* left the catalog it never holds more than that.
CatalogReserve ==
  /\ taskStatus = "published" => Held = SlotsWorth
  /\ Held <= SlotsWorth

\* A performer who is still asked for consent has neither submitted nor lost
\* the assignment: accept's unconditional refund relies on it.
AskedOnlyWhileAccepted ==
  \A p \in Performers : request = "pending" /\ response[p] = "pending"
                          => assignment[p].status = "accepted"

\* Every performer who is asked can still refuse: the outbox key that a refusal
\* writes is unused.
RefusalStaysPossible ==
  request = "pending" /\ (\E p \in Performers : response[p] = "pending")
    => ~declineEvent

\* A settling task waits for somebody.
SettlingHasActive == taskStatus = "settling" => LatestActive(assignment) # {}

\* With one slot, on every path, a task that ends has returned its whole reserve
\* and one that settles waits for somebody, so no credits stay where no later
\* operation looks (with more slots, see the README).
SoleSlotSettles == slots = 1 => TerminalReserveReleased /\ SettlingHasActive

\* No step changes the outcome of a finished assignment.
OutcomeIsFinal ==
  [][\A p \in Performers : assignment[p].status \in FinalStatuses
        => assignment'[p].status = assignment[p].status]_vars

\* Once intake is closed no settlement derives the task back to "published".
IntakeNeverReopens ==
  [][taskStatus \notin {"draft", "published"} => taskStatus' # "published"]_vars

\* A cancelled task stays cancelled.
CancelledIsFinal ==
  [][taskStatus = "cancelled" => taskStatus' = "cancelled"]_vars

\* After the deadline the worker takes every task out of the open statuses.
DeadlineSettles ==
  pastDeadline ~> taskStatus \notin {"published", "closed_for_new_performers"}

\* A request for cancellation does not stay open for ever: somebody answers, an
\* event makes it obsolete, or the worker does at the deadline, although answers,
\* submissions and the creator's decisions move the task on meanwhile.
RequestEnds == request = "pending" ~> request # "pending"

\* A creator's silence does not freeze a submitted result.  False as deployed.
ReviewSettles ==
  \A p \in Performers : assignment[p].status = "submitted"
                          ~> assignment[p].status # "submitted"
=============================================================================
