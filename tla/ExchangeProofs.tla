--------------------------- MODULE ExchangeProofs ---------------------------
(* Theorems about the exchange lifecycle, for any sets of performers, slots,*)
(* rewards and resolution codes.  The first part is about decisions and the *)
(* intake; the second about credits: what a task holds, and that the        *)
(* lifecycle keeps the accounts of the escrow.                              *)
EXTENDS ExchangeEscrow, Sums, FiniteSetTheorems, TLAPS

(* A posting of the model is a ledger row.                                  *)
LEMMA EntryType ==
  ASSUME NEW op \in LedgerOps, NEW of \in Members, NEW n \in Nat,
         NEW m \in Members, NEW c \in Int
  PROVE  Entry(op, of, n, m, c) \in LedgerRows
BY DEF Entry, LedgerRows

(* Applying a batch of well-typed rows keeps the ledger well typed.         *)
LEMMA BatchType ==
  ASSUME NEW B, B \subseteq LedgerRows, ledger \subseteq LedgerRows, ApplyBatch(B)
  PROVE  ledger' \subseteq LedgerRows
BY DEF ApplyBatch

(* Counting the newest assignments of the slots gives a number.             *)
LEMMA CountType ==
  /\ Cardinality(Accepted(assignment)) \in Nat
  /\ Cardinality(LatestOccupied(assignment)) \in Nat
  /\ Cardinality(Latest(assignment)) \in Nat
<1>1. IsFiniteSet(Performers)
  BY ExchangeAssumption
<1>2. /\ Accepted(assignment) \subseteq Performers
      /\ LatestOccupied(assignment) \subseteq Performers
      /\ Latest(assignment) \subseteq Performers
  BY DEF Accepted, Latest, LatestOccupied
<1> QED
  BY <1>1, <1>2, FS_Subset, FS_CardinalityType

(* Both branches of a batch leave exactly the old rows and the batch's.     *)
LEMMA Postings ==
  ASSUME NEW B, ApplyBatch(B)
  PROVE  ledger' = ledger \cup B
BY DEF ApplyBatch

(* Setting one status keeps the assignment table well typed.                *)
LEMMA SetStatusType ==
  ASSUME assignment \in [Performers -> AssignmentRows], NEW p \in Performers,
         NEW s \in AssignmentStatuses
  PROVE  /\ SetStatus(p, s) \in [Performers -> AssignmentRows]
         /\ SetStatus(p, s)[p].status = s
         /\ \A q \in Performers \ {p} : SetStatus(p, s)[q] = assignment[q]
<1>1. assignment[p] \in AssignmentRows
  OBVIOUS
<1>2. [assignment[p] EXCEPT !.status = s] \in AssignmentRows
  BY <1>1 DEF AssignmentRows
<1> QED
  BY <1>1, <1>2 DEF SetStatus, AssignmentRows

(* The derived aggregate is a task status.                                  *)
LEMMA AggregateType ==
  ASSUME taskStatus \in TaskStatuses, NEW after, Aggregate(after)
  PROVE  taskStatus' \in TaskStatuses
BY DEF Aggregate, DeriveTaskStatus, OngoingStatus, TaskStatuses

(* Closing a request keeps its table well typed.                            *)
LEMMA ObsoleteType ==
  ASSUME request \in RequestStatuses,
         response \in [Performers -> ResponseStatuses], ObsoleteRequest
  PROVE  /\ request' \in RequestStatuses
         /\ response' \in [Performers -> ResponseStatuses]
         /\ request' # "pending"
<1>1. \A q \in Performers : response[q] \in ResponseStatuses
  OBVIOUS
<1> QED
  BY <1>1 DEF ObsoleteRequest, RequestStatuses, ResponseStatuses

(* Half a reward, rounded up, is a number.                                  *)
LEMMA PartialRewardType ==
  ASSUME reward \in Nat
  PROVE  PartialReward \in Nat
BY DEF PartialReward

-----------------------------------------------------------------------------
(* TypeOK is inductive: one step per action.                                *)

(* A draft without assignments is well typed.                               *)
LEMMA TypeInit == Init => TypeOK
<1> SUFFICES ASSUME Init PROVE TypeOK
  OBVIOUS
<1>1. [status |-> "none", slot |-> 0, order |-> 0] \in AssignmentRows
  BY DEF AssignmentRows, AssignmentStatuses
<1>2. assignment \in [Performers -> AssignmentRows]
  BY <1>1 DEF Init
<1> QED
  BY <1>2 DEF Init, TypeOK, TaskStatuses, RequestStatuses, ResponseStatuses

(* Every action keeps every variable within its declared values.            *)
LEMMA TypeStep == TypeOK /\ [Next]_vars => TypeOK'
<1> SUFFICES ASSUME TypeOK, [Next]_vars PROVE TypeOK'
  OBVIOUS
<1> USE DEF TypeOK
<1>a. /\ Creator \in Members
      /\ Performers \subseteq Members
      /\ SlotChoices \subseteq Nat /\ RewardChoices \subseteq Nat
  BY ExchangeAssumption DEF Members
<1>1. ASSUME NEW n \in SlotChoices, NEW r \in RewardChoices, Publish(n, r)
      PROVE  TypeOK'
  <2>1. n \in Nat /\ r \in Nat /\ n * r \in Nat /\ 0 - n * r \in Int
    BY <1>a
  <2>2. {TaskEntry("task_publish:reserve", 0 - n * r)} \subseteq LedgerRows
    BY <2>1, <1>a, EntryType DEF LedgerOps, TaskEntry
  <2>3. ledger' \subseteq LedgerRows
    BY <2>2, <1>1, BatchType DEF Publish
  <2> QED
    BY <2>1, <2>3, <1>1 DEF Publish, requestVars, TaskStatuses
<1>2. ASSUME NEW n \in SlotChoices, NEW r \in RewardChoices,
             EditPublished(n, r)
      PROVE  TypeOK'
  <2> DEFINE edit == 1 + Cardinality({e \in ledger : e.op \in
                           {"task_edit:reserve", "task_edit:refund"}})
             delta == n * r - reservedTotal
             op == IF delta > 0 THEN "task_edit:reserve"
                                ELSE "task_edit:refund"
             B == IF delta = 0 THEN {}
                  ELSE {Entry(op, Creator, edit, Creator, 0 - delta)}
  <2>1. n \in Nat /\ r \in Nat /\ n * r \in Nat /\ 0 - delta \in Int
    BY <1>a
  <2>2. ApplyBatch(B)
    BY <1>2 DEF EditPublished
  <2>3. edit \in Nat
    BY <1>2, ExchangeAssumption DEF EditPublished
  <2>4. B \subseteq LedgerRows
    <3>1. op \in LedgerOps
      BY DEF LedgerOps
    <3>2. Entry(op, Creator, edit, Creator, 0 - delta) \in LedgerRows
      BY <2>1, <2>3, <3>1, <1>a, EntryType
    <3> QED BY <3>2
  <2>5. ledger' \subseteq LedgerRows
    BY <2>2, <2>4, BatchType
  <2> QED
    BY <2>1, <2>5, <1>2 DEF EditPublished, requestVars
<1>3. ASSUME BeginCancel \/ AbortCancel PROVE TypeOK'
  BY <1>3 DEF BeginCancel, AbortCancel, taskVars, requestVars
<1>4. ASSUME FinishCancel PROVE TypeOK'
  <2>1. {TaskEntry("task_cancel:refund", cancelRead)} \subseteq LedgerRows
    BY <1>a, EntryType DEF LedgerOps, TaskEntry
  <2>2. ledger' \subseteq LedgerRows
    BY <2>1, <1>4, BatchType DEF FinishCancel
  <2> QED
    BY <2>2, <1>4 DEF FinishCancel, requestVars, TaskStatuses
<1>5. ASSUME NEW p \in Performers, Accept(p) PROVE TypeOK'
  <2>1. PICK s \in FreeSlots,
             k \in (IF AcceptRace THEN 1 ELSE Cardinality(Accepted(assignment)) + 1)
                    ..(Cardinality(Accepted(assignment)) + 1) :
          assignment' =
            [q \in Performers |->
               IF q = p THEN [status |-> "accepted", slot |-> s, order |-> k]
               ELSE IF assignment[q].order >= k
                    THEN [assignment[q] EXCEPT !.order = @ + 1]
                    ELSE assignment[q]]
    BY <1>5 DEF Accept
  <2>2. s \in Nat
    BY DEF FreeSlots
  <2>3. k \in Nat
    BY CountType, ExchangeAssumption
  <2>4. \A q \in Performers : [assignment[q] EXCEPT !.order = @ + 1] \in AssignmentRows
    BY DEF AssignmentRows
  <2>5. [status |-> "accepted", slot |-> s, order |-> k] \in AssignmentRows
    BY <2>2, <2>3 DEF AssignmentRows, AssignmentStatuses, ActiveStatuses
  <2>6. assignment' \in [Performers -> AssignmentRows]
    BY <2>1, <2>4, <2>5
  <2> QED
    BY <2>6, <1>5 DEF Accept, taskVars, requestVars
<1>6. ASSUME NEW p \in Performers, Submit(p) PROVE TypeOK'
  <2>1. assignment' \in [Performers -> AssignmentRows]
    BY <1>6, SetStatusType
       DEF Submit, AssignmentStatuses, ActiveStatuses
  <2> QED
    BY <2>1, <1>6, ObsoleteType DEF Submit, taskVars
<1>7. ASSUME NEW p \in Performers, CancelAssignment(p) PROVE TypeOK'
  <2>1. assignment' \in [Performers -> AssignmentRows]
    BY <1>7, SetStatusType
       DEF CancelAssignment, AssignmentStatuses, FinalStatuses
  <2>2. Refund("task_cancel:refund", p, reward) \in LedgerRows
    BY <1>a, EntryType DEF LedgerOps, Refund
  <2>3. ledger' \subseteq LedgerRows
    BY <2>2, <1>7, BatchType DEF CancelAssignment
  <2>4. taskStatus' \in TaskStatuses
    BY <1>7 DEF CancelAssignment, TaskStatuses
  <2> QED
    BY <2>1, <2>3, <2>4, <1>7, ObsoleteType DEF CancelAssignment
<1>8. ASSUME NEW p \in Performers, Dispute(p) PROVE TypeOK'
  <2>1. assignment' \in [Performers -> AssignmentRows]
    BY <1>8, SetStatusType
       DEF Dispute, AssignmentStatuses, ActiveStatuses
  <2> QED
    BY <2>1, <1>8 DEF Dispute, taskVars, requestVars
<1>9. ASSUME NEW p \in Performers, RespondLate(p) PROVE TypeOK'
  BY <1>9, ObsoleteType DEF RespondLate, taskVars
<1>10. ASSUME NEW p \in Performers, Decline(p) PROVE TypeOK'
  BY <1>10 DEF Decline, Answer, taskVars, RequestStatuses, ResponseStatuses
<1>11. ASSUME NEW p \in Performers, Consent(p) PROVE TypeOK'
  <2>1. assignment' \in [Performers -> AssignmentRows]
    BY <1>11, SetStatusType
       DEF Consent, AssignmentStatuses, FinalStatuses
  <2>2. {Refund("task_cancel:refund", p, reward)} \subseteq LedgerRows
    BY <1>a, EntryType DEF LedgerOps, Refund
  <2>3. ledger' \subseteq LedgerRows
    BY <2>2, <1>11, BatchType DEF Consent
  <2>4. taskStatus' \in TaskStatuses
    BY <1>11 DEF Consent, TaskStatuses
  <2> QED
    BY <2>1, <2>3, <2>4, <1>11
       DEF Consent, Answer, RequestStatuses, ResponseStatuses
<1>12. ASSUME NEW p \in Performers, NEW outcome \in PaidStatuses,
              Approve(p, outcome)
       PROVE  TypeOK'
  <2>1. assignment' \in [Performers -> AssignmentRows]
    BY <1>12, SetStatusType
       DEF Approve, AssignmentStatuses, FinalStatuses
  <2>2. PartialReward \in Nat /\ reward - PartialReward \in Int
    BY PartialRewardType
  <2>3. ReviewPayout(p, outcome) \subseteq LedgerRows
    BY <1>a, <2>2, EntryType DEF LedgerOps, ReviewPayout, Reward, Refund
  <2>4. ledger' \subseteq LedgerRows
    BY <2>3, <1>12, BatchType DEF Approve
  <2> QED
    BY <2>1, <2>4, <1>12, AggregateType DEF Approve, requestVars
<1>13. ASSUME NEW p \in Performers, Reject(p) PROVE TypeOK'
  <2>1. assignment' \in [Performers -> AssignmentRows]
    BY <1>13, SetStatusType
       DEF Reject, AssignmentStatuses, ActiveStatuses
  <2> QED
    BY <2>1, <1>13 DEF Reject, taskVars, requestVars
<1>14. ASSUME CancelUnclaimed PROVE TypeOK'
  <2>1. {TaskEntry("task_cancel:refund", reservedTotal)} \subseteq LedgerRows
    BY <1>a, EntryType DEF LedgerOps, TaskEntry
  <2>2. ledger' \subseteq LedgerRows
    BY <2>1, <1>14, BatchType DEF CancelUnclaimed
  <2> QED
    BY <2>2, <1>14 DEF CancelUnclaimed, requestVars, TaskStatuses
<1>15. ASSUME RequestCancellation PROVE TypeOK'
  <2>1. UnoccupiedCount \in Nat
    BY CountType DEF UnoccupiedCount
  <2>2. UnoccupiedCount * reward \in Int
    BY <2>1
  <2>3. TaskEntry("task_close:refund", UnoccupiedCount * reward) \in LedgerRows
    BY <2>2, <1>a, EntryType DEF LedgerOps, TaskEntry
  <2>4. ledger' \subseteq LedgerRows
    BY <2>3, <1>15, BatchType DEF RequestCancellation
  <2>5. /\ request' \in RequestStatuses
        /\ response' \in [Performers -> ResponseStatuses]
        /\ declineEvent' \in BOOLEAN
    BY <1>15 DEF RequestCancellation, requestVars, RequestStatuses,
                 ResponseStatuses
  <2> QED
    BY <2>4, <2>5, <1>15 DEF RequestCancellation, TaskStatuses
<1>16. ASSUME NEW p \in Performers, NEW code \in Codes, ResolveDispute(p, code)
       PROVE  TypeOK'
  <2>1. code \in ResolutionCodes
    BY ExchangeAssumption
  <2>2. ResolvedStatus(code) \in AssignmentStatuses
    BY <2>1 DEF ResolvedStatus, ResolutionCodes, AssignmentStatuses,
                FinalStatuses, PaidStatuses
  <2>3. assignment' \in [Performers -> AssignmentRows]
    BY <2>2, <1>16, SetStatusType DEF ResolveDispute
  <2>4. PartialReward \in Nat /\ reward - PartialReward \in Int
    BY PartialRewardType
  <2>5. ResolutionPayout(p, code) \subseteq LedgerRows
    <3>1. /\ Reward("case:full", p, reward) \in LedgerRows
          /\ Reward("case:partial", p, PartialReward) \in LedgerRows
          /\ Refund("case:remainder", p, reward - PartialReward) \in LedgerRows
          /\ Refund("case:refund", p, reward) \in LedgerRows
      BY <1>a, <2>4, EntryType DEF LedgerOps, Reward, Refund
    <3> QED
      BY <2>1, <3>1 DEF ResolutionPayout, ResolutionCodes
  <2>6. ledger' \subseteq LedgerRows
    BY <2>5, <1>16, BatchType DEF ResolveDispute
  <2> QED
    BY <2>3, <2>6, <1>16, AggregateType DEF ResolveDispute, requestVars
<1>17. ASSUME NEW p \in Performers, FinalizeReview(p) PROVE TypeOK'
  <2>1. assignment' \in [Performers -> AssignmentRows]
    BY <1>17, SetStatusType
       DEF FinalizeReview, AssignmentStatuses, FinalStatuses,
           PaidStatuses
  <2>2. {Reward("approved:reward", p, reward)} \subseteq LedgerRows
    BY <1>a, EntryType DEF LedgerOps, Reward
  <2>3. ledger' \subseteq LedgerRows
    BY <2>2, <1>17, BatchType DEF FinalizeReview
  <2> QED
    BY <2>1, <2>3, <1>17, AggregateType DEF FinalizeReview, requestVars
<1>18. ASSUME NEW p \in Performers, FinalizeRejection(p) PROVE TypeOK'
  <2>1. assignment' \in [Performers -> AssignmentRows]
    BY <1>18, SetStatusType
       DEF FinalizeRejection, AssignmentStatuses, FinalStatuses
  <2>2. {Refund("rejected:refund", p, reward)} \subseteq LedgerRows
    BY <1>a, EntryType DEF LedgerOps, Refund
  <2>3. ledger' \subseteq LedgerRows
    BY <2>2, <1>18, BatchType DEF FinalizeRejection
  <2> QED
    BY <2>1, <2>3, <1>18, AggregateType DEF FinalizeRejection, requestVars
<1>19. ASSUME FinalizeDeadline PROVE TypeOK'
  <2> DEFINE unfilled == TaskEntry("unfilled:refund", UnfilledSlots * reward)
             B == {Refund("no_show:refund", p, reward) : p \in LateAssignments}
                  \cup (IF UnfilledSlots = 0 THEN {} ELSE {unfilled})
  <2>1. UnfilledSlots \in Int
    BY CountType DEF UnfilledSlots
  <2>2. UnfilledSlots * reward \in Int
    BY <2>1
  <2>3. unfilled \in LedgerRows
    BY <2>2, <1>a, EntryType DEF LedgerOps, TaskEntry
  <2>4. \A p \in LateAssignments : Refund("no_show:refund", p, reward) \in LedgerRows
    BY <1>a, EntryType DEF LedgerOps, Refund, LateAssignments
  <2>5. B \subseteq LedgerRows
    BY <2>3, <2>4
  <2>6. ApplyBatch(B)
    BY <1>19 DEF FinalizeDeadline
  <2>7. ledger' \subseteq LedgerRows
    BY <2>5, <2>6, BatchType
  <2>8. assignment' \in [Performers -> AssignmentRows]
    <3>1. "no_show" \in AssignmentStatuses
      BY DEF AssignmentStatuses, FinalStatuses
    <3>2. \A p \in Performers :
            [assignment[p] EXCEPT !.status = "no_show"] \in AssignmentRows
      BY <3>1 DEF AssignmentRows
    <3> QED
      BY <3>2, <1>19 DEF FinalizeDeadline
  <2> QED
    BY <2>7, <2>8, <1>19, AggregateType, ObsoleteType DEF FinalizeDeadline
<1>20. ASSUME WorkerList \/ WorkerCrash \/ DeadlinePasses PROVE TypeOK'
  BY <1>20 DEF WorkerList, WorkerCrash, DeadlinePasses, taskVars, requestVars
<1>21. ASSUME NEW p \in Performers, WindowCloses(p) PROVE TypeOK'
  BY <1>21 DEF WindowCloses, taskVars, requestVars
<1>22. ASSUME UNCHANGED vars PROVE TypeOK'
  BY <1>22 DEF vars
<1> QED
  BY <1>1, <1>2, <1>3, <1>4, <1>5, <1>6, <1>7, <1>8, <1>9, <1>10, <1>11, <1>12,
     <1>13, <1>14, <1>15, <1>16, <1>17, <1>18, <1>19, <1>20, <1>21, <1>22
     DEF Next, CreatorNext, PerformerNext, WorkerNext, TimedNext

(* Every reachable state is well typed.                                     *)
THEOREM TypeCorrect == Spec => []TypeOK
BY TypeInit, TypeStep, PTL DEF Spec
-----------------------------------------------------------------------------
(* The ledger agrees with the assignment table.                             *)

Unsettled == {"none"} \cup ActiveStatuses

IInv == TypeOK /\ SettledAsDecided /\ AskedOnlyWhileAccepted

(* Work in progress stands for no posting at all.                           *)
LEMMA UnsettledOps ==
  ASSUME NEW s \in Unsettled
  PROVE  OutcomeOps(s) = {{}}
BY DEF Unsettled, ActiveStatuses, OutcomeOps

(* A batch adds to a performer's postings exactly its rows about them.      *)
LEMMA OpsAfterBatch ==
  ASSUME NEW B, ApplyBatch(B), NEW p
  PROVE  {e.op : e \in EntriesOf(p)}' =
           {e.op : e \in EntriesOf(p)} \cup {b.op : b \in {x \in B : x.of = p}}
<1>1. ledger' = ledger \cup B
  BY Postings
<1> QED
  BY <1>1 DEF EntriesOf

(* A step that posts nothing about performers and moves statuses only       *)
(* within the unsettled ones keeps the agreement.                           *)
LEMMA QuietStep ==
  ASSUME SettledAsDecided, NEW B, ApplyBatch(B),
         \A b \in B : b.of \notin Performers,
         \A q \in Performers :
           \/ assignment'[q].status = assignment[q].status
           \/ /\ assignment[q].status \in Unsettled
              /\ assignment'[q].status \in Unsettled
  PROVE  SettledAsDecided'
<1> SUFFICES ASSUME NEW q \in Performers
             PROVE  {e.op : e \in EntriesOf(q)}'
                      \in OutcomeOps(assignment'[q].status)
  BY DEF SettledAsDecided, OutcomeOps
<1>1. {b.op : b \in {x \in B : x.of = q}} = {}
  OBVIOUS
<1>2. {e.op : e \in EntriesOf(q)}' = {e.op : e \in EntriesOf(q)}
  BY <1>1, OpsAfterBatch
<1>3. {e.op : e \in EntriesOf(q)} \in OutcomeOps(assignment[q].status)
  BY DEF SettledAsDecided
<1>4. OutcomeOps(assignment[q].status) = OutcomeOps(assignment'[q].status)
  BY UnsettledOps
<1> QED
  BY <1>2, <1>3, <1>4

(* A step that leaves the ledger alone is quiet with an empty batch.        *)
LEMMA IdleBatch ==
  ASSUME UNCHANGED ledger PROVE ApplyBatch({})
BY DEF ApplyBatch

(* A step that gives one unsettled assignment an outcome and posts that     *)
(* outcome's rows, all about it, keeps the agreement.                       *)
LEMMA OutcomeStep ==
  ASSUME TypeOK, SettledAsDecided, NEW p \in Performers,
         assignment[p].status \in Unsettled,
         NEW s \in AssignmentStatuses, assignment' = SetStatus(p, s),
         NEW B, ApplyBatch(B), \A b \in B : b.of = p,
         {b.op : b \in B} \in OutcomeOps(s)
  PROVE  SettledAsDecided'
<1> SUFFICES ASSUME NEW q \in Performers
             PROVE  {e.op : e \in EntriesOf(q)}'
                      \in OutcomeOps(assignment'[q].status)
  BY DEF SettledAsDecided, OutcomeOps
<1>1. {e.op : e \in EntriesOf(q)} \in OutcomeOps(assignment[q].status)
  BY DEF SettledAsDecided
<1>2. CASE q = p
  <2>1. {e.op : e \in EntriesOf(p)} = {}
    BY <1>1, <1>2, UnsettledOps
  <2>2. {b.op : b \in {x \in B : x.of = p}} = {b.op : b \in B}
    OBVIOUS
  <2>5. {e.op : e \in EntriesOf(p)}' =
          {e.op : e \in EntriesOf(p)} \cup {b.op : b \in {x \in B : x.of = p}}
    BY OpsAfterBatch
  <2>3. {e.op : e \in EntriesOf(p)}' = {b.op : b \in B}
    BY <2>1, <2>2, <2>5
  <2>4. assignment'[p].status = s
    BY SetStatusType DEF TypeOK
  <2> QED
    BY <1>2, <2>3, <2>4
<1>3. CASE q # p
  <2>1. {b.op : b \in {x \in B : x.of = q}} = {}
    BY <1>3
  <2>2. {e.op : e \in EntriesOf(q)}' = {e.op : e \in EntriesOf(q)}
    BY <2>1, OpsAfterBatch
  <2>3. assignment'[q] = assignment[q]
    BY <1>3, SetStatusType DEF TypeOK
  <2> QED
    BY <1>1, <2>2, <2>3
<1> QED
  BY <1>2, <1>3

(* A performer who is asked for consent keeps the accepted assignment: each *)
(* step either closes the request or touches other assignments.             *)
LEMMA AskedStep == IInv /\ [Next]_vars => AskedOnlyWhileAccepted'
<1> SUFFICES ASSUME IInv, [Next]_vars PROVE AskedOnlyWhileAccepted'
  OBVIOUS
<1> USE DEF IInv, AskedOnlyWhileAccepted
<1>1. ASSUME request' # "pending" PROVE AskedOnlyWhileAccepted'
  BY <1>1
<1>2. ASSUME UNCHANGED <<assignment, request, response>>
      PROVE  AskedOnlyWhileAccepted'
  BY <1>2
<1>3. ASSUME UNCHANGED <<request, response>>, NEW p \in Performers,
             assignment[p].status # "accepted",
             \A q \in Performers \ {p} :
                assignment'[q].status = assignment[q].status
      PROVE  AskedOnlyWhileAccepted'
  BY <1>3
<1>4. ASSUME NEW p \in Performers, Accept(p) PROVE AskedOnlyWhileAccepted'
  BY <1>4, <1>1 DEF Accept, requestVars
<1>5. ASSUME NEW p \in Performers, Submit(p) \/ CancelAssignment(p) \/ RespondLate(p)
      PROVE  AskedOnlyWhileAccepted'
  BY <1>5, <1>1, ObsoleteType
     DEF Submit, CancelAssignment, RespondLate, TypeOK
<1>6. ASSUME NEW p \in Performers, Dispute(p) \/ Reject(p)
      PROVE  AskedOnlyWhileAccepted'
  BY <1>6, <1>3, SetStatusType
     DEF Dispute, Reject, requestVars, TypeOK, AssignmentStatuses, ActiveStatuses
<1>7. ASSUME NEW p \in Performers, Decline(p) PROVE AskedOnlyWhileAccepted'
  BY <1>7 DEF Decline, Answer, TypeOK
<1>8. ASSUME NEW p \in Performers, Consent(p) PROVE AskedOnlyWhileAccepted'
  <2>1. \A q \in Performers \ {p} : assignment'[q] = assignment[q]
    BY <1>8, SetStatusType
       DEF Consent, TypeOK, AssignmentStatuses, FinalStatuses
  <2> QED
    BY <1>8, <2>1 DEF Consent, Answer, TypeOK
<1>9. ASSUME NEW p \in Performers, NEW outcome \in PaidStatuses,
             Approve(p, outcome)
      PROVE  AskedOnlyWhileAccepted'
  BY <1>9, <1>3, SetStatusType
     DEF Approve, requestVars, TypeOK, AssignmentStatuses, FinalStatuses
<1>10. ASSUME RequestCancellation PROVE AskedOnlyWhileAccepted'
  BY <1>10 DEF RequestCancellation, requestVars, TypeOK
<1>11. ASSUME NEW p \in Performers, NEW code \in Codes, ResolveDispute(p, code)
       PROVE  AskedOnlyWhileAccepted'
  <2>1. ResolvedStatus(code) \in AssignmentStatuses
    BY ExchangeAssumption
       DEF ResolvedStatus, ResolutionCodes, AssignmentStatuses, FinalStatuses,
           PaidStatuses
  <2> QED
    BY <2>1, <1>11, <1>3, SetStatusType DEF ResolveDispute, requestVars, TypeOK
<1>12. ASSUME NEW p \in Performers, FinalizeReview(p) \/ FinalizeRejection(p)
       PROVE  AskedOnlyWhileAccepted'
  BY <1>12, <1>3, SetStatusType
     DEF FinalizeReview, MayFinalizeReview, ReviewOverdue, FinalizeRejection,
         requestVars, TypeOK, AssignmentStatuses, FinalStatuses, PaidStatuses
<1>13. ASSUME FinalizeDeadline PROVE AskedOnlyWhileAccepted'
  BY <1>13, <1>1, ObsoleteType DEF FinalizeDeadline, TypeOK
<1> QED
  BY <1>2, <1>4, <1>5, <1>6, <1>7, <1>8, <1>9, <1>10, <1>11, <1>12, <1>13
     DEF Next, CreatorNext, PerformerNext, WorkerNext, TimedNext, vars,
         Publish, EditPublished, BeginCancel, FinishCancel, AbortCancel,
         CancelUnclaimed, WorkerList, WorkerCrash, DeadlinePasses,
         WindowCloses, requestVars, taskVars

(* Every step keeps the agreement of ledger and assignment table.           *)
LEMMA SettledStep == IInv /\ [Next]_vars => SettledAsDecided'
<1> SUFFICES ASSUME IInv, [Next]_vars PROVE SettledAsDecided'
  OBVIOUS
<1> USE DEF IInv
<1>a. Creator \notin Performers
  BY ExchangeAssumption
<1>b. /\ \A s \in ActiveStatuses : s \in AssignmentStatuses /\ s \in Unsettled
      /\ \A s \in FinalStatuses : s \in AssignmentStatuses
      /\ \A s \in PaidStatuses : s \in AssignmentStatuses
  BY DEF AssignmentStatuses, Unsettled, FinalStatuses
<1>c. /\ "none" \in Unsettled
      /\ {"accepted", "submitted", "rejected_pending_dispute", "disputed"}
           = ActiveStatuses
      /\ {"approved", "partially_approved", "rejected", "no_show", "cancelled"}
           = FinalStatuses
  BY DEF Unsettled, ActiveStatuses, FinalStatuses, PaidStatuses
<1>1. ASSUME UNCHANGED <<assignment, ledger>> PROVE SettledAsDecided'
  BY <1>1, IdleBatch, QuietStep
<1>2. ASSUME NEW B, ApplyBatch(B), UNCHANGED assignment,
             \A b \in B : b.of = Creator
      PROVE  SettledAsDecided'
  BY <1>2, <1>a, QuietStep
<1>3. ASSUME NEW n \in SlotChoices, NEW r \in RewardChoices,
             Publish(n, r) \/ EditPublished(n, r)
      PROVE  SettledAsDecided'
  <2>1. PICK B : ApplyBatch(B) /\ \A b \in B : b.of = Creator
    BY <1>3 DEF Publish, EditPublished, TaskEntry, Entry
  <2>2. UNCHANGED assignment
    BY <1>3 DEF Publish, EditPublished
  <2> QED
    BY <2>1, <2>2, <1>2
<1>4. ASSUME FinishCancel \/ CancelUnclaimed \/ RequestCancellation
      PROVE  SettledAsDecided'
  <2>1. PICK B : ApplyBatch(B) /\ \A b \in B : b.of = Creator
    BY <1>4 DEF FinishCancel, CancelUnclaimed, RequestCancellation, TaskEntry,
                Entry
  <2>2. UNCHANGED assignment
    BY <1>4 DEF FinishCancel, CancelUnclaimed, RequestCancellation
  <2> QED
    BY <2>1, <2>2, <1>2
<1>5. ASSUME NEW p \in Performers, NEW s \in Unsettled, UNCHANGED ledger,
             assignment[p].status \in Unsettled,
             assignment'[p].status = s,
             \A q \in Performers \ {p} :
               assignment'[q].status = assignment[q].status
      PROVE  SettledAsDecided'
  BY <1>5, IdleBatch, QuietStep
<1>6. ASSUME NEW p \in Performers, Accept(p) PROVE SettledAsDecided'
  <2>1. /\ assignment[p].status = "none"
        /\ assignment'[p].status = "accepted"
        /\ UNCHANGED ledger
    BY <1>6 DEF Accept
  <2>2. \A q \in Performers \ {p} :
          assignment'[q].status = assignment[q].status
    <3>1. \A q \in Performers, k \in Int :
            [assignment[q] EXCEPT !.order = @ + 1].status = assignment[q].status
      BY DEF TypeOK, AssignmentRows
    <3> QED
      BY <1>6, <3>1 DEF Accept
  <2> QED
    BY <2>1, <2>2, <1>5, <1>b, <1>c
<1>7. ASSUME NEW p \in Performers, Submit(p) \/ Dispute(p) \/ Reject(p)
      PROVE  SettledAsDecided'
  <2>1. PICK s \in ActiveStatuses : assignment' = SetStatus(p, s)
    BY <1>7, <1>c DEF Submit, Dispute, Reject
  <2>2. assignment[p].status \in Unsettled /\ UNCHANGED ledger
    BY <1>7, <1>b, <1>c DEF Submit, Dispute, Reject
  <2> QED
    BY <2>1, <2>2, <1>5, <1>b, SetStatusType DEF TypeOK
<1>8. ASSUME NEW p \in Performers, CancelAssignment(p) PROVE SettledAsDecided'
  <2>1. PICK B : /\ ApplyBatch(B)
                 /\ \/ B = {}
                    \/ B = {Refund("task_cancel:refund", p, reward)}
    BY <1>8 DEF CancelAssignment
  <2>2. /\ \A b \in B : b.of = p
        /\ {b.op : b \in B} \in {{}, {"task_cancel:refund"}}
    BY <2>1 DEF Refund, Entry
  <2>3. {b.op : b \in B} \in OutcomeOps("cancelled")
    BY <2>2 DEF OutcomeOps
  <2>4. /\ assignment[p].status \in Unsettled
        /\ assignment' = SetStatus(p, "cancelled")
    BY <1>8, <1>b, <1>c DEF CancelAssignment
  <2> QED
    BY <2>1, <2>2, <2>3, <2>4, <1>b, <1>c, OutcomeStep
<1>9. ASSUME NEW p \in Performers, Consent(p) PROVE SettledAsDecided'
  <2> DEFINE B == {Refund("task_cancel:refund", p, reward)}
  <2>1. assignment[p].status = "accepted"
    BY <1>9 DEF AskedOnlyWhileAccepted, Consent, Answer
  <2>2. ApplyBatch(B) /\ assignment' = SetStatus(p, "cancelled")
    BY <1>9, <2>1 DEF Consent
  <2>3. (\A b \in B : b.of = p) /\ {b.op : b \in B} = {"task_cancel:refund"}
    BY DEF Refund, Entry
  <2>4. {b.op : b \in B} \in OutcomeOps("cancelled")
    BY <2>3 DEF OutcomeOps
  <2> HIDE DEF B
  <2> QED
    BY <2>1, <2>2, <2>3, <2>4, <1>b, <1>c, OutcomeStep
<1>10. ASSUME NEW p \in Performers, NEW outcome \in PaidStatuses,
              Approve(p, outcome)
       PROVE  SettledAsDecided'
  <2> DEFINE B == ReviewPayout(p, outcome)
  <2>1. /\ assignment[p].status \in Unsettled
        /\ assignment' = SetStatus(p, outcome)
        /\ ApplyBatch(B)
    BY <1>10, <1>b, <1>c DEF Approve
  <2>2. \A b \in B : b.of = p
    BY DEF ReviewPayout, Reward, Refund, Entry
  <2>3. {b.op : b \in B} \in OutcomeOps(outcome)
    <3>1. CASE outcome = "approved"
      <4>1. {b.op : b \in B} = {"approved:reward"}
        BY <3>1 DEF ReviewPayout, Reward, Entry
      <4> QED
        BY <3>1, <4>1 DEF OutcomeOps
    <3>2. CASE outcome = "partially_approved"
      <4>1. {b.op : b \in B} =
              {"partially_approved:reward", "partially_approved:refund"}
        BY <3>2 DEF ReviewPayout, Reward, Refund, Entry
      <4> QED
        BY <3>2, <4>1 DEF OutcomeOps
    <3> QED
      BY <3>1, <3>2 DEF PaidStatuses
  <2> HIDE DEF B
  <2> QED
    BY <2>1, <2>2, <2>3, <1>b, OutcomeStep
<1>11. ASSUME NEW p \in Performers, NEW code \in Codes, ResolveDispute(p, code)
       PROVE  SettledAsDecided'
  <2> DEFINE B == ResolutionPayout(p, code)
             s == ResolvedStatus(code)
  <2>1. /\ assignment[p].status \in Unsettled
        /\ assignment' = SetStatus(p, s)
        /\ ApplyBatch(B)
    BY <1>11, <1>b, <1>c DEF ResolveDispute
  <2>2. code \in ResolutionCodes
    BY ExchangeAssumption
  <2>3. \A b \in B : b.of = p
    BY <2>2 DEF ResolutionPayout, ResolutionCodes, Reward, Refund, Entry
  <2>4. s \in FinalStatuses /\ {b.op : b \in B} \in OutcomeOps(s)
    <3>1. CASE code \in {"full_payment", "creator_abuse"}
      <4>1. B = {Reward("case:full", p, reward)} /\ s = "approved"
        BY <3>1 DEF ResolutionPayout, ResolvedStatus
      <4>2. {b.op : b \in B} = {"case:full"}
        BY <4>1 DEF Reward, Entry
      <4> QED
        BY <4>1, <4>2, <1>c DEF OutcomeOps
    <3>2. CASE code = "partial_payment"
      <4> DEFINE paid == Reward("case:partial", p, PartialReward)
                 rest == Refund("case:remainder", p, reward - PartialReward)
      <4>1. s = "partially_approved" /\ (B = {paid, rest} \/ B = {paid})
        BY <3>2 DEF ResolutionPayout, ResolvedStatus
      <4>2. paid.op = "case:partial" /\ rest.op = "case:remainder"
        BY DEF Reward, Refund, Entry
      <4> HIDE DEF paid, rest, B, s
      <4>3. {b.op : b \in B} \in {{"case:partial", "case:remainder"},
                                  {"case:partial"}}
        BY <4>1, <4>2
      <4> QED
        BY <4>1, <4>3, <1>c DEF OutcomeOps
    <3>3. CASE code \in {"full_refund", "fraud", "performer_no_show",
                         "cancel_without_fault"}
      <4>1. B = {Refund("case:refund", p, reward)}
        BY <3>3 DEF ResolutionPayout
      <4>2. s \in {"rejected", "no_show", "cancelled"}
        BY <3>3 DEF ResolvedStatus
      <4>3. {b.op : b \in B} = {"case:refund"}
        BY <4>1 DEF Refund, Entry
      <4> QED
        BY <4>2, <4>3, <1>c DEF OutcomeOps
    <3> QED
      BY <2>2, <3>1, <3>2, <3>3 DEF ResolutionCodes
  <2> HIDE DEF B, s
  <2> QED
    BY <2>1, <2>3, <2>4, <1>b, OutcomeStep
<1>12. ASSUME NEW p \in Performers, FinalizeReview(p) PROVE SettledAsDecided'
  <2> DEFINE B == {Reward("approved:reward", p, reward)}
  <2>1. /\ assignment[p].status \in Unsettled
        /\ assignment' = SetStatus(p, "approved")
        /\ ApplyBatch(B)
    BY <1>12, <1>b, <1>c DEF FinalizeReview, MayFinalizeReview, ReviewOverdue
  <2>2. (\A b \in B : b.of = p) /\ {b.op : b \in B} = {"approved:reward"}
    BY DEF Reward, Entry
  <2>3. {b.op : b \in B} \in OutcomeOps("approved")
    BY <2>2 DEF OutcomeOps
  <2> HIDE DEF B
  <2> QED
    BY <2>1, <2>2, <2>3, <1>b, <1>c, OutcomeStep
<1>13. ASSUME NEW p \in Performers, FinalizeRejection(p) PROVE SettledAsDecided'
  <2> DEFINE B == {Refund("rejected:refund", p, reward)}
  <2>1. /\ assignment[p].status \in Unsettled
        /\ assignment' = SetStatus(p, "rejected")
        /\ ApplyBatch(B)
    BY <1>13, <1>b, <1>c DEF FinalizeRejection
  <2>2. (\A b \in B : b.of = p) /\ {b.op : b \in B} = {"rejected:refund"}
    BY DEF Refund, Entry
  <2>3. {b.op : b \in B} \in OutcomeOps("rejected")
    BY <2>2 DEF OutcomeOps
  <2> HIDE DEF B
  <2> QED
    BY <2>1, <2>2, <2>3, <1>b, <1>c, OutcomeStep
<1>14. ASSUME FinalizeDeadline PROVE SettledAsDecided'
  <2> DEFINE N == {Refund("no_show:refund", p, reward) : p \in LateAssignments}
             U == IF UnfilledSlots = 0 THEN {}
                  ELSE {TaskEntry("unfilled:refund", UnfilledSlots * reward)}
             B == N \cup U
  <2>1. ApplyBatch(B)
    BY <1>14 DEF FinalizeDeadline
  <2>2. \A b \in U : b.of = Creator
    BY DEF TaskEntry, Entry
  <2>3. \A b \in N : \E p \in LateAssignments :
          b.of = p /\ b.op = "no_show:refund"
    BY DEF Refund, Entry
  <2> SUFFICES ASSUME NEW q \in Performers
               PROVE  {e.op : e \in EntriesOf(q)}'
                        \in OutcomeOps(assignment'[q].status)
    BY DEF SettledAsDecided, OutcomeOps
  <2>4. {e.op : e \in EntriesOf(q)} \in OutcomeOps(assignment[q].status)
    BY DEF SettledAsDecided
  <2>5. {e.op : e \in EntriesOf(q)}' =
          {e.op : e \in EntriesOf(q)} \cup {b.op : b \in {x \in B : x.of = q}}
    <3> HIDE DEF B
    <3> QED
      BY <2>1, OpsAfterBatch
  <2>6. CASE q \in LateAssignments
    <3>1. Refund("no_show:refund", q, reward) \in N
      BY <2>6
    <3>2. /\ Refund("no_show:refund", q, reward).of = q
          /\ Refund("no_show:refund", q, reward).op = "no_show:refund"
      BY DEF Refund, Entry
    <3>3. \A x \in B : x.of = q => x.op = "no_show:refund"
      BY <2>2, <2>3, <1>a
    <3>4. {b.op : b \in {x \in B : x.of = q}} = {"no_show:refund"}
      <4> HIDE DEF N, U
      <4> QED
        BY <3>1, <3>2, <3>3
    <3>5. {e.op : e \in EntriesOf(q)} = {}
      BY <2>4, <2>6, <1>b, <1>c, UnsettledOps DEF LateAssignments
    <3>6. assignment'[q].status = "no_show"
      BY <1>14, <2>6 DEF FinalizeDeadline, TypeOK, AssignmentRows
    <3>7. {e.op : e \in EntriesOf(q)}' = {"no_show:refund"}
      BY <2>5, <3>4, <3>5
    <3> QED
      BY <3>6, <3>7 DEF OutcomeOps
  <2>7. CASE q \notin LateAssignments
    <3>1. \A x \in B : x.of # q
      BY <2>2, <2>3, <2>7, <1>a
    <3>2. {b.op : b \in {x \in B : x.of = q}} = {}
      BY <3>1
    <3>3. assignment'[q] = assignment[q]
      BY <1>14, <2>7 DEF FinalizeDeadline
    <3> QED
      BY <2>4, <2>5, <3>2, <3>3
  <2> QED
    BY <2>6, <2>7
<1>15. ASSUME NEW p \in Performers,
              RespondLate(p) \/ Decline(p) \/ WindowCloses(p)
       PROVE  UNCHANGED <<assignment, ledger>>
  BY <1>15 DEF RespondLate, Decline, WindowCloses
<1>16. ASSUME BeginCancel \/ AbortCancel \/ WorkerList \/ WorkerCrash
              \/ DeadlinePasses
       PROVE  UNCHANGED <<assignment, ledger>>
  BY <1>16 DEF BeginCancel, AbortCancel, WorkerList, WorkerCrash, DeadlinePasses
<1>17. ASSUME UNCHANGED vars PROVE SettledAsDecided'
  BY <1>1, <1>17 DEF vars
<1> QED
  BY <1>1, <1>3, <1>4, <1>6, <1>7, <1>8, <1>9, <1>10, <1>11, <1>12, <1>13,
     <1>14, <1>15, <1>16, <1>17
     DEF Next, CreatorNext, PerformerNext, WorkerNext, TimedNext

(* The initial state is in agreement: nothing accepted, nothing posted.     *)
LEMMA IInvInit == Init => IInv
<1> SUFFICES ASSUME Init PROVE IInv
  OBVIOUS
<1>1. \A p \in Performers : EntriesOf(p) = {} /\ assignment[p].status = "none"
  BY DEF Init, EntriesOf
<1>2. "none" \in Unsettled
  BY DEF Unsettled
<1>3. SettledAsDecided
  BY <1>1, <1>2, UnsettledOps DEF SettledAsDecided
<1> QED
  BY <1>3, TypeInit DEF IInv, Init, AskedOnlyWhileAccepted

(* The invariant is inductive.                                             *)
LEMMA IInvStep == IInv /\ [Next]_vars => IInv'
BY TypeStep, SettledStep, AskedStep DEF IInv

(* Whatever the interleaving, every assignment carries exactly the postings *)
(* of its outcome: it is settled at most once and by one path only.         *)
THEOREM SettledOnce == Spec => []SettledAsDecided
<1>1. IInv => SettledAsDecided
  BY DEF IInv
<1> QED
  BY <1>1, IInvInit, IInvStep, PTL DEF Spec

(* Only performers who hold an accepted assignment are asked for consent.   *)
THEOREM Consents == Spec => []AskedOnlyWhileAccepted
<1>1. IInv => AskedOnlyWhileAccepted
  BY DEF IInv
<1> QED
  BY <1>1, IInvInit, IInvStep, PTL DEF Spec
-----------------------------------------------------------------------------
(* An outcome, once given, is never changed by a later step.                *)

\* One step of OutcomeIsFinal.
OutcomesKept ==
  \A p \in Performers : assignment[p].status \in FinalStatuses
                          => assignment'[p].status = assignment[p].status

(* No action touches the status of a finished assignment.                  *)
LEMMA FinalStep == TypeOK /\ [Next]_vars => OutcomesKept
<1> SUFFICES ASSUME TypeOK, [Next]_vars PROVE OutcomesKept
  OBVIOUS
<1>a. \A s \in {"none", "accepted", "submitted", "rejected_pending_dispute",
                "disputed"} : s \notin FinalStatuses
  BY DEF FinalStatuses, PaidStatuses
<1>b. /\ \A s \in FinalStatuses : s \in AssignmentStatuses
      /\ \A s \in ActiveStatuses : s \in AssignmentStatuses
      /\ \A s \in PaidStatuses : s \in FinalStatuses
  BY DEF AssignmentStatuses, FinalStatuses
<1>c. /\ {"accepted", "submitted", "rejected_pending_dispute", "disputed"}
           = ActiveStatuses
      /\ {"approved", "partially_approved", "rejected", "no_show", "cancelled"}
           = FinalStatuses
  BY DEF ActiveStatuses, FinalStatuses, PaidStatuses
<1>1. ASSUME UNCHANGED assignment PROVE OutcomesKept
  BY <1>1 DEF OutcomesKept
<1>2. ASSUME NEW p \in Performers, assignment[p].status \notin FinalStatuses,
             NEW s \in AssignmentStatuses, assignment' = SetStatus(p, s)
      PROVE  OutcomesKept
  BY <1>2, SetStatusType DEF OutcomesKept, TypeOK
<1>3. ASSUME NEW p \in Performers, Accept(p) PROVE OutcomesKept
  <2>1. \A q \in Performers :
          [assignment[q] EXCEPT !.order = @ + 1].status = assignment[q].status
    BY DEF TypeOK, AssignmentRows
  <2> QED
    BY <1>3, <2>1, <1>a DEF Accept, OutcomesKept
<1>4. ASSUME NEW p \in Performers, Submit(p) \/ Dispute(p) \/ Reject(p)
      PROVE  OutcomesKept
  <2>1. PICK s \in ActiveStatuses : assignment' = SetStatus(p, s)
    BY <1>4, <1>c DEF Submit, Dispute, Reject
  <2> QED
    BY <2>1, <1>4, <1>a, <1>b, <1>2 DEF Submit, Dispute, Reject
<1>5. ASSUME NEW p \in Performers, CancelAssignment(p) \/ Consent(p)
      PROVE  OutcomesKept
  BY <1>5, <1>1, <1>2, <1>a, <1>b, <1>c DEF CancelAssignment, Consent
<1>6. ASSUME NEW p \in Performers, NEW outcome \in PaidStatuses,
             Approve(p, outcome)
      PROVE  OutcomesKept
  BY <1>6, <1>2, <1>a, <1>b DEF Approve
<1>7. ASSUME NEW p \in Performers, NEW code \in Codes, ResolveDispute(p, code)
      PROVE  OutcomesKept
  <2>1. ResolvedStatus(code) \in FinalStatuses
    BY ExchangeAssumption, <1>c DEF ResolvedStatus, ResolutionCodes
  <2> QED
    BY <2>1, <1>7, <1>2, <1>a, <1>b DEF ResolveDispute
<1>8. ASSUME NEW p \in Performers, FinalizeReview(p) \/ FinalizeRejection(p)
      PROVE  OutcomesKept
  BY <1>8, <1>2, <1>a, <1>b, <1>c
     DEF FinalizeReview, MayFinalizeReview, ReviewOverdue, FinalizeRejection
<1>9. ASSUME FinalizeDeadline PROVE OutcomesKept
  BY <1>9, <1>a DEF FinalizeDeadline, LateAssignments, OutcomesKept
<1>10. ASSUME NEW p \in Performers,
              RespondLate(p) \/ Decline(p) \/ WindowCloses(p)
       PROVE  UNCHANGED assignment
  BY <1>10 DEF RespondLate, Decline, WindowCloses
<1>11. ASSUME NEW n \in SlotChoices, NEW r \in RewardChoices,
              Publish(n, r) \/ EditPublished(n, r)
       PROVE  UNCHANGED assignment
  BY <1>11 DEF Publish, EditPublished
<1>12. ASSUME \/ BeginCancel \/ FinishCancel \/ AbortCancel \/ CancelUnclaimed
              \/ RequestCancellation \/ WorkerList \/ WorkerCrash
              \/ DeadlinePasses \/ UNCHANGED vars
       PROVE  UNCHANGED assignment
  BY <1>12 DEF BeginCancel, FinishCancel, AbortCancel, CancelUnclaimed,
               RequestCancellation, WorkerList, WorkerCrash, DeadlinePasses, vars
<1> QED
  BY <1>1, <1>3, <1>4, <1>5, <1>6, <1>7, <1>8, <1>9, <1>10, <1>11, <1>12
     DEF Next, CreatorNext, PerformerNext, WorkerNext, TimedNext

(* No decision, refund, cancellation or deadline overwrites an outcome.     *)
THEOREM Finality == Spec => OutcomeIsFinal
<1>1. TypeOK /\ [Next]_vars => [OutcomesKept]_vars
  BY FinalStep
<1> QED
  BY <1>1, TypeInit, TypeStep, PTL DEF Spec, OutcomeIsFinal, OutcomesKept
-----------------------------------------------------------------------------
(* The newest assignments of the slots.                                     *)

(* A status change moves nobody between slots.                              *)
LEMMA LatestKept ==
  ASSUME TypeOK, NEW p \in Performers, NEW s \in AssignmentStatuses,
         assignment[p].status # "none", s # "none"
  PROVE  Latest(SetStatus(p, s)) = Latest(assignment)
<1> DEFINE after == SetStatus(p, s)
<1>1. \A q \in Performers : /\ after[q].slot = assignment[q].slot
                            /\ after[q].order = assignment[q].order
                            /\ after[q].status # "none"
                                 <=> assignment[q].status # "none"
  BY SetStatusType DEF TypeOK, AssignmentRows, SetStatus
<1>2. Accepted(after) = Accepted(assignment)
  BY <1>1 DEF Accepted
<1>3. Accepted(assignment) \subseteq Performers
  BY DEF Accepted
<1> HIDE DEF after
<1>4. Latest(after) = Latest(assignment)
  BY <1>1, <1>2, <1>3 DEF Latest
<1> QED
  BY <1>4 DEF after

(* It starts no work either: the active newest assignments stay or shrink.  *)
LEMMA ActiveShrinks ==
  ASSUME TypeOK, NEW p \in Performers, NEW s \in AssignmentStatuses,
         assignment[p].status # "none", s # "none",
         s \in ActiveStatuses => assignment[p].status \in ActiveStatuses
  PROVE  LatestActive(SetStatus(p, s)) \subseteq LatestActive(assignment)
<1>1. \A q \in Latest(assignment) : q \in Performers
  BY DEF Latest, Accepted
<1>2. \A q \in Performers :
        SetStatus(p, s)[q].status \in ActiveStatuses
          => assignment[q].status \in ActiveStatuses
  BY SetStatusType DEF TypeOK
<1> QED
  BY LatestKept, <1>1, <1>2 DEF LatestActive

-----------------------------------------------------------------------------
(* Intake never reopens.                                                    *)

Intake == {"draft", "published", "closed_for_new_performers"}

\* Before the deadline a task leaves the catalog only when nobody works on it.
LeftIsIdle == ~pastDeadline /\ taskStatus \notin Intake
                => LatestActive(assignment) = {}

\* One step of IntakeNeverReopens.
IntakeKept == taskStatus \notin {"draft", "published"} => taskStatus' # "published"

(* An aggregate over work that is only a part of the work before it takes a *)
(* task out of the catalog when nobody works on it, and never puts it back. *)
LEMMA AggregateStep ==
  ASSUME LeftIsIdle, NEW after, assignment' = after, Aggregate(after),
         taskStatus # "draft", UNCHANGED pastDeadline,
         LatestActive(after) \subseteq LatestActive(assignment)
  PROVE  LeftIsIdle' /\ IntakeKept
<1> DEFINE open == /\ taskStatus = "published" /\ ~pastDeadline
                   /\ Cardinality({after[p].slot : p \in Latest(after)}) < slots
<1>1. CASE LatestActive(after) # {}
  <2>1. taskStatus' = OngoingStatus(taskStatus, pastDeadline)
    BY <1>1 DEF Aggregate, DeriveTaskStatus
  <2>2. pastDeadline \/ taskStatus \in Intake
    BY <1>1 DEF LeftIsIdle
  <2> QED
    BY <2>1, <2>2 DEF OngoingStatus, LeftIsIdle, IntakeKept, Intake
<1>2. CASE LatestActive(after) = {} /\ open
  <2>1. taskStatus' = "published"
    BY <1>2 DEF Aggregate, DeriveTaskStatus, OngoingStatus
  <2> QED
    BY <1>2, <2>1 DEF LeftIsIdle, IntakeKept, Intake
<1>3. CASE LatestActive(after) = {} /\ ~open
  <2>1. taskStatus' \in {"completed", "partially_completed", "expired"}
    BY <1>3 DEF Aggregate, DeriveTaskStatus
  <2> QED
    BY <1>3, <2>1 DEF LeftIsIdle, IntakeKept
<1> QED
  BY <1>1, <1>2, <1>3

(* An assignment exists only once the task was published.                   *)
DraftIsUntouched ==
  taskStatus = "draft" => \A p \in Performers : assignment[p].status = "none"

IntakeInv == TypeOK /\ DraftIsUntouched /\ LeftIsIdle

(* A task that is in the catalog, or whose deadline has passed, after the   *)
(* step satisfies LeftIsIdle trivially.                                     *)
LEMMA IntakeStep == IntakeInv /\ [Next]_vars
                      => DraftIsUntouched' /\ LeftIsIdle' /\ IntakeKept
<1> DEFINE Goal == DraftIsUntouched' /\ LeftIsIdle' /\ IntakeKept
<1> SUFFICES ASSUME IntakeInv, [Next]_vars PROVE Goal
  OBVIOUS
<1>u. TypeOK /\ DraftIsUntouched /\ LeftIsIdle
  BY DEF IntakeInv
<1>a. /\ {"accepted", "submitted", "rejected_pending_dispute", "disputed"}
           = ActiveStatuses
      /\ {"approved", "partially_approved", "rejected", "no_show", "cancelled"}
           = FinalStatuses
      /\ "none" \notin ActiveStatuses /\ "cancelled" \notin ActiveStatuses
      /\ "none" \notin FinalStatuses
      /\ \A s \in FinalStatuses : s \notin ActiveStatuses
  BY DEF ActiveStatuses, FinalStatuses, PaidStatuses
<1>b. /\ \A s \in ActiveStatuses \cup FinalStatuses : s \in AssignmentStatuses
      /\ \A s \in PaidStatuses : s \in FinalStatuses
  BY DEF AssignmentStatuses, FinalStatuses
<1>c. \A p \in Performers : assignment[p].status # "none" => taskStatus # "draft"
  BY <1>u DEF DraftIsUntouched
\* A step that leaves the task's status alone and adds no active work.
<1>1. ASSUME UNCHANGED taskStatus, UNCHANGED pastDeadline,
             LatestActive(assignment') \subseteq LatestActive(assignment),
             taskStatus # "draft" \/ UNCHANGED assignment
      PROVE  Goal
  <2>1. LatestActive(assignment)' = LatestActive(assignment')
    BY DEF LatestActive, Latest, Accepted
  <2> QED
    BY <1>1, <1>u, <2>1 DEF LeftIsIdle, DraftIsUntouched, IntakeKept
\* A step that leaves or puts the task in a status of the catalog.
<1>2. ASSUME taskStatus' \in Intake, taskStatus' # "draft",
             taskStatus' = "published" => taskStatus \in {"draft", "published"}
      PROVE  Goal
  BY <1>2 DEF LeftIsIdle, DraftIsUntouched, IntakeKept
\* A step that cancels a task nobody works on.
<1>3. ASSUME taskStatus' = "cancelled", LatestActive(assignment') = {}
      PROVE  Goal
  <2>1. LatestActive(assignment)' = LatestActive(assignment')
    BY DEF LatestActive, Latest, Accepted
  <2> QED
    BY <1>3, <2>1 DEF LeftIsIdle, DraftIsUntouched, IntakeKept
\* A status change of one assignment followed by the aggregate.
<1>4. ASSUME NEW p \in Performers, NEW s \in FinalStatuses,
             assignment[p].status \in ActiveStatuses,
             assignment' = SetStatus(p, s), Aggregate(SetStatus(p, s)),
             UNCHANGED pastDeadline
      PROVE  Goal
  <2>1. s \in AssignmentStatuses /\ s # "none" /\ s \notin ActiveStatuses
        /\ assignment[p].status # "none" /\ taskStatus # "draft"
    BY <1>4, <1>a, <1>b, <1>c
  <2>2. LatestActive(SetStatus(p, s)) \subseteq LatestActive(assignment)
    BY <2>1, <1>u, ActiveShrinks
  <2>3. LeftIsIdle' /\ IntakeKept
    BY <2>1, <2>2, <1>4, <1>u, AggregateStep
  <2>4. taskStatus' # "draft"
    BY <1>4 DEF Aggregate, DeriveTaskStatus, OngoingStatus
  <2> QED
    BY <2>3, <2>4 DEF DraftIsUntouched
<1>5. ASSUME NEW n \in SlotChoices, NEW r \in RewardChoices,
             Publish(n, r) \/ EditPublished(n, r)
      PROVE  Goal
  BY <1>5, <1>2 DEF Publish, EditPublished, Intake
<1>6. ASSUME \/ BeginCancel \/ AbortCancel \/ WorkerList \/ WorkerCrash
             \/ UNCHANGED vars
             \/ \E p \in Performers : Decline(p) \/ WindowCloses(p)
      PROVE  Goal
  BY <1>6, <1>1 DEF BeginCancel, AbortCancel, WorkerList, WorkerCrash, vars,
                    Decline, WindowCloses, taskVars
<1>7. ASSUME FinishCancel PROVE Goal
  <2>1. LatestActive(assignment') = {}
    BY <1>7, <1>a DEF FinishCancel, LatestActive, Latest, Accepted
  <2> QED
    BY <2>1, <1>7, <1>3 DEF FinishCancel
<1>8. ASSUME CancelUnclaimed PROVE Goal
  <2>1. LatestActive(assignment') = {}
    BY <1>8, <1>a DEF CancelUnclaimed, LatestActive, LatestOccupied
  <2> QED
    BY <2>1, <1>8, <1>3 DEF CancelUnclaimed
<1>9. ASSUME RequestCancellation PROVE Goal
  BY <1>9, <1>2 DEF RequestCancellation, Intake
<1>10. ASSUME DeadlinePasses PROVE Goal
  BY <1>10, <1>u DEF DeadlinePasses, taskVars, LeftIsIdle, DraftIsUntouched,
                     IntakeKept
<1>11. ASSUME NEW p \in Performers, Accept(p) PROVE Goal
  BY <1>11, <1>2 DEF Accept, taskVars, Intake
<1>12. ASSUME NEW p \in Performers, Submit(p) \/ Dispute(p) \/ Reject(p)
       PROVE  Goal
  <2>1. PICK s \in ActiveStatuses : assignment' = SetStatus(p, s)
    BY <1>12, <1>a DEF Submit, Dispute, Reject
  <2>2. assignment[p].status \in ActiveStatuses
    BY <1>12, <1>a DEF Submit, Dispute, Reject
  <2>3. LatestActive(SetStatus(p, s)) \subseteq LatestActive(assignment)
    BY <2>2, <1>a, <1>b, <1>u, ActiveShrinks
  <2>4. UNCHANGED <<taskStatus, pastDeadline>>
    BY <1>12 DEF Submit, Dispute, Reject, taskVars
  <2> QED
    BY <2>1, <2>2, <2>3, <2>4, <1>1, <1>a, <1>c
<1>13. ASSUME NEW p \in Performers, CancelAssignment(p) PROVE Goal
  <2>1. assignment[p].status = "accepted"
        /\ assignment' = SetStatus(p, "cancelled") /\ UNCHANGED pastDeadline
    BY <1>13 DEF CancelAssignment
  <2>2. LatestActive(SetStatus(p, "cancelled")) \subseteq LatestActive(assignment)
    BY <2>1, <1>a, <1>b, <1>u, ActiveShrinks
  <2>3. \/ UNCHANGED taskStatus
        \/ taskStatus' = "cancelled" /\ LatestActive(SetStatus(p, "cancelled")) = {}
    BY <1>13 DEF CancelAssignment
  <2>4. taskStatus # "draft"
    BY <2>1, <1>c
  <2> QED
    BY <2>1, <2>2, <2>3, <2>4, <1>1, <1>3
<1>14. ASSUME NEW p \in Performers, Consent(p) PROVE Goal
  <2>1. taskStatus \in {"published", "closed_for_new_performers"}
    BY <1>14 DEF Consent, Answer
  <2>2. \/ UNCHANGED taskStatus
        \/ taskStatus' = "cancelled" /\ LatestActive(assignment') = {}
    BY <1>14 DEF Consent
  <2> QED
    BY <2>1, <2>2, <1>2, <1>3 DEF Intake
<1>15. ASSUME NEW p \in Performers, RespondLate(p) PROVE Goal
  BY <1>15, <1>2 DEF RespondLate, taskVars, Intake
<1>16. ASSUME NEW p \in Performers, NEW outcome \in PaidStatuses,
              Approve(p, outcome)
       PROVE  Goal
  BY <1>16, <1>4, <1>a, <1>b DEF Approve
<1>17. ASSUME NEW p \in Performers, NEW code \in Codes, ResolveDispute(p, code)
       PROVE  Goal
  <2>1. ResolvedStatus(code) \in FinalStatuses
    BY ExchangeAssumption, <1>a DEF ResolvedStatus, ResolutionCodes
  <2> QED
    BY <2>1, <1>17, <1>4, <1>a DEF ResolveDispute
<1>18. ASSUME NEW p \in Performers, FinalizeReview(p) \/ FinalizeRejection(p)
       PROVE  Goal
  BY <1>18, <1>4, <1>a
     DEF FinalizeReview, MayFinalizeReview, ReviewOverdue, FinalizeRejection
<1>19. ASSUME FinalizeDeadline PROVE Goal
  <2>1. pastDeadline /\ pastDeadline'
    BY <1>19 DEF FinalizeDeadline
  <2>2. taskStatus' \notin {"draft", "published"}
    BY <1>19 DEF FinalizeDeadline, Aggregate, DeriveTaskStatus, OngoingStatus
  <2> QED
    BY <2>1, <2>2 DEF LeftIsIdle, DraftIsUntouched, IntakeKept
<1> QED
  BY <1>5, <1>6, <1>7, <1>8, <1>9, <1>10, <1>11, <1>12, <1>13, <1>14, <1>15,
     <1>16, <1>17, <1>18, <1>19
     DEF Next, CreatorNext, PerformerNext, WorkerNext, TimedNext

(* The catalog is entered once: no settlement, late consent, moderation     *)
(* decision or deadline brings a closed task back to new performers.        *)
THEOREM IntakeCloses == Spec => IntakeNeverReopens
<1>1. Init => IntakeInv
  BY TypeInit DEF IntakeInv, Init, DraftIsUntouched, LeftIsIdle, Intake
<1>2. IntakeInv /\ [Next]_vars => IntakeInv'
  BY TypeStep, IntakeStep DEF IntakeInv
<1>3. IntakeInv /\ [Next]_vars => [IntakeKept]_vars
  BY IntakeStep
<1> QED
  BY <1>1, <1>2, <1>3, PTL DEF Spec, IntakeNeverReopens, IntakeKept
-----------------------------------------------------------------------------
(* The books of a task, on every path.                                      *)

Outside == {"none", "cancelled"}

\* Who holds a slot, and whose work there is over.
Occupants(a) == {p \in Performers : a[p].status \notin Outside}
Working(a) == {p \in Performers : a[p].status \in ActiveStatuses}
Done(a) == Occupants(a) \ Working(a)

EditOps == {"task_edit:reserve", "task_edit:refund"}
EditRows == {e \in ledger : e.op \in EditOps}
FundOps == {"task_publish:reserve"} \cup EditOps

\* Nothing is booked, and no deadline runs, before publication.
DraftIsEmpty ==
  taskStatus = "draft" =>
    ledger = {} /\ Accepted(assignment) = {} /\ ~pastDeadline

\* The columns agree with each other and with what a running cancel() read.
ColumnsAgree ==
  /\ reservedTotal = slots * reward
  /\ cancelRead \in {0, reservedTotal}

\* Edits are numbered in the order in which they were booked.
EditsAreCounted == \A e \in EditRows : e.n <= Cardinality(EditRows)

\* While the task is in the catalog nothing went back to the creator as such.
OnlyFunded ==
  taskStatus = "published" =>
    \A e \in ledger : e.of = Creator => e.op \in FundOps

\* Nobody ever accepted: the whole reserve is there.
WholeWhileUnclaimed ==
  taskStatus = "published" /\ Accepted(assignment) = {} => Held = slots * reward

\* One holder per slot of the task.
SlotsAreSingle ==
  /\ \A p \in Occupants(assignment) : assignment[p].slot \in 1..slots
  /\ \A p, q \in Occupants(assignment) :
       assignment[p].slot = assignment[q].slot => p = q

\* A partly completed task has somebody who was paid.
PartIsPaid ==
  taskStatus = "partially_completed" =>
    \E p \in Latest(assignment) : assignment[p].status \in PaidStatuses

Books ==
  /\ IsFiniteSet(ledger)
  /\ DraftIsEmpty
  /\ ColumnsAgree
  /\ EditsAreCounted
  /\ OnlyFunded
  /\ WholeWhileUnclaimed
  /\ SlotsAreSingle
  /\ PartIsPaid

BooksInv == IInv /\ IntakeInv /\ Books

-----------------------------------------------------------------------------
(* What a set of postings adds up to.                                       *)

\* The recursion by which CreditSum is computed.
IsCreditSum(g, S) ==
  g = [s \in SUBSET S |->
         IF s = {} THEN 0 ELSE Picked(s).credit + g[s \ {Picked(s)}]]

\* Finitely many postings of whole credits.
IsBatch(B) == IsFiniteSet(B) /\ \A e \in B : e.credit \in Int

LEMMA CreditUnfolded ==
  ASSUME NEW S
  PROVE  CreditSum(S) = (CHOOSE g : IsCreditSum(g, S))[S]
BY Zenon DEF CreditSum, MapThenSumSet, MapThenFoldSet, IsCreditSum, Picked

(* The sum of the postings is the sum of the function that gives each its   *)
(* credits.                                                                 *)
LEMMA CreditIsTotal ==
  ASSUME NEW S, IsFiniteSet(S)
  PROVE  CreditSum(S) = Total([e \in S |-> e.credit], S)
<1> DEFINE f == [e \in S |-> e.credit]
           c == CHOOSE g : IsCreditSum(g, S)
<1>1. \A g : IsCreditSum(g, S) <=> IsSum(g, f, S)
  <2> TAKE g
  <2>1. \A s \in SUBSET S : s # {} => f[Picked(s)] = Picked(s).credit
    BY DEF Picked
  <2>2. [s \in SUBSET S |->
           IF s = {} THEN 0 ELSE Picked(s).credit + g[s \ {Picked(s)}]]
         = [s \in SUBSET S |->
              IF s = {} THEN 0 ELSE f[Picked(s)] + g[s \ {Picked(s)}]]
    BY <2>1
  <2> QED
    BY <2>2 DEF IsCreditSum, IsSum
<1> HIDE DEF f
<1>2. \E g : IsCreditSum(g, S)
  BY <1>1, SumsExist
<1>3. IsSum(c, f, S)
  BY <1>1, <1>2
<1> HIDE DEF c
<1>4. Total(f, S) = c[S]
  BY <1>3, TotalIsSum
<1> QED
  BY <1>4, CreditUnfolded DEF c, f

LEMMA CreditType ==
  ASSUME NEW S, IsBatch(S)
  PROVE  CreditSum(S) \in Int
<1> DEFINE f == [e \in S |-> e.credit]
<1>1. \A e \in S : f[e] \in Int
  BY DEF IsBatch
<1> HIDE DEF f
<1>2. Total(f, S) \in Int
  BY <1>1, TotalType DEF IsBatch
<1> QED
  BY <1>2, CreditIsTotal DEF IsBatch, f

LEMMA CreditEmpty == CreditSum({}) = 0
BY CreditIsTotal, TotalEmpty, FS_EmptySet

(* Postings that are not in the ledger yet add what they say.               *)
LEMMA CreditUnion ==
  ASSUME NEW A, NEW B, IsBatch(A), IsBatch(B), A \cap B = {}
  PROVE  /\ IsBatch(A \cup B)
         /\ CreditSum(A \cup B) = CreditSum(A) + CreditSum(B)
<1> DEFINE f == [e \in A \cup B |-> e.credit]
           a == [e \in A |-> e.credit]
           b == [e \in B |-> e.credit]
<1>1. IsFiniteSet(A) /\ IsFiniteSet(B) /\ IsFiniteSet(A \cup B)
  BY FS_Union DEF IsBatch
<1>2. /\ \A e \in A \cup B : f[e] \in Int
      /\ \A e \in A : f[e] = a[e]
      /\ \A e \in B : f[e] = b[e]
  BY DEF IsBatch
<1>3. IsBatch(A \cup B)
  BY <1>1 DEF IsBatch
<1>4. /\ CreditSum(A \cup B) = Total(f, A \cup B)
      /\ CreditSum(A) = Total(a, A)
      /\ CreditSum(B) = Total(b, B)
  BY <1>1, CreditIsTotal
<1> HIDE DEF f, a, b
<1>5. Total(f, A \cup B) = Total(f, A) + Total(f, B)
  BY <1>1, <1>2, TotalUnion
<1>6. Total(f, A) = Total(a, A) /\ Total(f, B) = Total(b, B)
  BY <1>1, <1>2, TotalAgrees
<1> QED
  BY <1>3, <1>4, <1>5, <1>6

LEMMA CreditOne ==
  ASSUME NEW e, e.credit \in Int
  PROVE  IsBatch({e}) /\ CreditSum({e}) = e.credit
<1> DEFINE f == [x \in {e} |-> x.credit]
<1>1. IsFiniteSet({e}) /\ IsFiniteSet({}) /\ {e} = {} \cup {e}
  BY FS_Singleton, FS_EmptySet
<1>2. f[e] = e.credit /\ \A x \in {} \cup {e} : f[x] \in Int
  OBVIOUS
<1>3. CreditSum({e}) = Total(f, {e})
  BY <1>1, CreditIsTotal
<1> HIDE DEF f
<1>4. Total(f, {} \cup {e}) = Total(f, {}) + f[e]
  BY <1>1, <1>2, TotalAdd
<1>5. Total(f, {}) = 0
  BY TotalEmpty
<1>6. IsBatch({e})
  BY <1>1 DEF IsBatch
<1> QED
  BY <1>1, <1>2, <1>3, <1>4, <1>5, <1>6

LEMMA CreditTwo ==
  ASSUME NEW d, NEW e, d # e, d.credit \in Int, e.credit \in Int
  PROVE  IsBatch({d, e}) /\ CreditSum({d, e}) = d.credit + e.credit
<1>1. {d} \cap {e} = {} /\ {d, e} = {d} \cup {e}
  OBVIOUS
<1>2. IsBatch({d} \cup {e})
      /\ CreditSum({d} \cup {e}) = CreditSum({d}) + CreditSum({e})
  BY <1>1, CreditOne, CreditUnion
<1> QED
  BY <1>1, <1>2, CreditOne

(* The same posting about each of a set of parties.                         *)
LEMMA CreditEach ==
  ASSUME NEW P, IsFiniteSet(P), NEW row, NEW c \in Int,
         \A p \in P : row[p].credit = c /\ row[p].of = p
  PROVE  /\ IsBatch({row[p] : p \in P})
         /\ CreditSum({row[p] : p \in P}) = c * Cardinality(P)
<1> DEFINE R == {row[p] : p \in P}
           g == [p \in P |-> row[p]]
           f == [e \in R |-> e.credit]
<1>1. g \in [P -> R] /\ \A p, q \in P : g[p] = g[q] => p = q
  OBVIOUS
<1>2. \A e \in R : \E p \in P : g[p] = e
  OBVIOUS
<1>3. g \in Bijection(P, R)
  BY <1>1, <1>2 DEF Bijection, Injection, Surjection, IsInjective
<1>4. IsFiniteSet(R) /\ Cardinality(R) = Cardinality(P)
  BY <1>3, FS_Bijection DEF ExistsBijection
<1>5. \A e \in R : e.credit \in Int /\ f[e] = c
  OBVIOUS
<1>6. IsBatch(R)
  BY <1>4, <1>5 DEF IsBatch
<1> HIDE DEF f
<1>7. Total(f, R) = c * Cardinality(R)
  BY <1>4, <1>5, TotalConstant
<1>8. CreditSum(R) = Total(f, R)
  BY <1>4, CreditIsTotal DEF f
<1> QED
  BY <1>4, <1>6, <1>7, <1>8

-----------------------------------------------------------------------------
(* Batches.                                                                 *)

(* A batch with a row the ledger does not hold is written, and the reserve  *)
(* shrinks by what it adds up to.                                           *)
LEMMA FreshBatch ==
  ASSUME TypeOK, IsFiniteSet(ledger), NEW B, IsBatch(B), ApplyBatch(B),
         ~(B \subseteq ledger)
  PROVE  /\ IsFiniteSet(ledger') /\ ledger' = ledger \cup B
         /\ Held \in Int /\ Held' = Held - CreditSum(B)
         /\ \A e \in B, f \in ledger : ~SameKey(e, f)
<1>1. \A e \in B, f \in ledger : ~SameKey(e, f)
  BY DEF ApplyBatch
<1>2. B \cap ledger = {} /\ ledger' = ledger \cup B
  BY <1>1, Postings DEF SameKey
<1>3. IsBatch(ledger)
  BY DEF IsBatch, TypeOK, LedgerRows
<1>4. /\ IsBatch(ledger \cup B)
      /\ CreditSum(ledger \cup B) = CreditSum(ledger) + CreditSum(B)
  BY <1>2, <1>3, CreditUnion
<1>5. CreditSum(ledger) \in Int /\ CreditSum(B) \in Int
  BY <1>3, CreditType
<1>6. CreditSum(ledger') = CreditSum(ledger) + CreditSum(B)
  BY <1>2, <1>4
<1>7. Held' = 0 - CreditSum(ledger')
  BY DEF Held
<1>8. Held = 0 - CreditSum(ledger)
  BY DEF Held
<1>9. Held' = Held - CreditSum(B)
  BY <1>5, <1>6, <1>7, <1>8
<1> QED
  BY <1>1, <1>2, <1>4, <1>5, <1>8, <1>9 DEF IsBatch

LEMMA HeldType ==
  ASSUME TypeOK, IsFiniteSet(ledger)
  PROVE  Held \in Int
<1>1. IsBatch(ledger)
  BY DEF IsBatch, TypeOK, LedgerRows
<1> QED
  BY <1>1, CreditType DEF Held

\* What settles one party: one reward, split between party and creator.
IsPayout(p, B) ==
  /\ IsBatch(B) /\ B # {}
  /\ \A b \in B : b.of = p /\ b.op \notin EditOps
  /\ CreditSum(B) = reward
  /\ CreditSum({b \in B : b.member = p}) \in {0, PartialReward, reward}

(* Work in progress has no postings, so its payout is written.              *)
LEMMA PayoutStep ==
  ASSUME IInv, IsFiniteSet(ledger), NEW p \in Performers,
         assignment[p].status \in Unsettled,
         NEW B, IsPayout(p, B), ApplyBatch(B)
  PROVE  /\ IsFiniteSet(ledger') /\ ledger' = ledger \cup B
         /\ Held \in Int /\ Held' = Held - reward
         /\ EntriesOf(p) = {} /\ EntriesOf(p)' = B
         /\ \A q \in (Performers \ {p}) \cup {Creator} :
              EntriesOf(q)' = EntriesOf(q)
         /\ EditRows' = EditRows
<1>1. {e.op : e \in EntriesOf(p)} = {}
  BY UnsettledOps DEF IInv, SettledAsDecided
<1>2. EntriesOf(p) = {}
  BY <1>1
<1>3. ~(B \subseteq ledger)
  BY <1>2 DEF IsPayout, EntriesOf
<1>4. /\ IsFiniteSet(ledger') /\ ledger' = ledger \cup B
      /\ Held \in Int /\ Held' = Held - reward
  BY <1>3, FreshBatch DEF IsPayout, IInv
<1>5. p # Creator
  BY ExchangeAssumption
<1>6. EntriesOf(p)' = B
  BY <1>2, <1>4 DEF EntriesOf, IsPayout
<1>7. \A q \in (Performers \ {p}) \cup {Creator} : EntriesOf(q)' = EntriesOf(q)
  BY <1>4, <1>5 DEF EntriesOf, IsPayout
<1>8. EditRows' = EditRows
  BY <1>4 DEF EditRows, IsPayout
<1> QED
  BY <1>2, <1>4, <1>6, <1>7, <1>8

(* A single posting of the whole reward is a payout, whoever gets it.       *)
LEMMA OnePayout ==
  ASSUME TypeOK, NEW p \in Performers, NEW op, op \notin EditOps,
         NEW m \in {p, Creator}
  PROVE  IsPayout(p, {Entry(op, p, 0, m, reward)})
<1> DEFINE e == Entry(op, p, 0, m, reward)
<1>1. /\ e.credit = reward /\ e.of = p /\ e.op = op /\ e.member = m
  BY DEF Entry
<1>2. reward \in Int
  BY DEF TypeOK
<1> HIDE DEF e
<1>3. IsBatch({e}) /\ CreditSum({e}) = reward
  BY <1>1, <1>2, CreditOne
<1>4. CreditSum({b \in {e} : b.member = p}) \in {0, reward}
  <2>1. CASE m = p
    <3>1. {b \in {e} : b.member = p} = {e}
      BY <1>1, <2>1
    <3> QED
      BY <3>1, <1>3
  <2>2. CASE m # p
    <3>1. {b \in {e} : b.member = p} = {}
      BY <1>1, <2>2
    <3> QED
      BY <3>1, CreditEmpty
  <2> QED
    BY <2>1, <2>2
<1>5. IsPayout(p, {e})
  BY <1>1, <1>3, <1>4 DEF IsPayout
<1> QED
  BY <1>5 DEF e

(* So are half of it for the performer and the rest for the creator.        *)
LEMMA SplitPayout ==
  ASSUME TypeOK, NEW p \in Performers, NEW op, NEW rest, op # rest,
         op \notin EditOps, rest \notin EditOps
  PROVE  IsPayout(p, {Reward(op, p, PartialReward),
                      Refund(rest, p, reward - PartialReward)})
<1> DEFINE d == Reward(op, p, PartialReward)
           e == Refund(rest, p, reward - PartialReward)
<1>1. /\ d.credit = PartialReward /\ d.of = p /\ d.op = op /\ d.member = p
      /\ e.credit = reward - PartialReward /\ e.of = p /\ e.op = rest
      /\ e.member = Creator
  BY DEF Reward, Refund, Entry
<1>2. reward \in Int /\ PartialReward \in Int /\ Creator # p /\ d # e
  BY <1>1, PartialRewardType, ExchangeAssumption DEF TypeOK
<1> HIDE DEF d, e
<1>3. IsBatch({d, e}) /\ CreditSum({d, e}) = d.credit + e.credit
  BY <1>1, <1>2, CreditTwo
<1>4. {b \in {d, e} : b.member = p} = {d} /\ CreditSum({d}) = PartialReward
  BY <1>1, <1>2, CreditOne
<1>5. CreditSum({d, e}) = reward
  BY <1>1, <1>2, <1>3
<1>6. IsPayout(p, {d, e})
  BY <1>1, <1>3, <1>4, <1>5 DEF IsPayout
<1> QED
  BY <1>6 DEF d, e

(* Every decision of a creator, a moderator or a timer is a payout.         *)
LEMMA DecisionsArePayouts ==
  ASSUME TypeOK, NEW p \in Performers
  PROVE  /\ \A outcome \in PaidStatuses : IsPayout(p, ReviewPayout(p, outcome))
         /\ \A code \in ResolutionCodes : IsPayout(p, ResolutionPayout(p, code))
         /\ IsPayout(p, {Reward("approved:reward", p, reward)})
         /\ IsPayout(p, {Refund("rejected:refund", p, reward)})
         /\ IsPayout(p, {Refund("task_cancel:refund", p, reward)})
<1>1. /\ IsPayout(p, {Reward("approved:reward", p, reward)})
      /\ IsPayout(p, {Refund("rejected:refund", p, reward)})
      /\ IsPayout(p, {Refund("task_cancel:refund", p, reward)})
      /\ IsPayout(p, {Reward("case:full", p, reward)})
      /\ IsPayout(p, {Refund("case:refund", p, reward)})
  BY OnePayout DEF Reward, Refund, EditOps
<1>2. ASSUME NEW outcome \in PaidStatuses
      PROVE  IsPayout(p, ReviewPayout(p, outcome))
  BY <1>1, SplitPayout DEF ReviewPayout, EditOps
<1>3. ASSUME NEW code \in ResolutionCodes
      PROVE  IsPayout(p, ResolutionPayout(p, code))
  <2>1. CASE code \in {"full_payment", "creator_abuse"}
    BY <1>1, <2>1 DEF ResolutionPayout
  <2>2. CASE code = "partial_payment"
    <3> DEFINE d == Reward("case:partial", p, PartialReward)
               e == Refund("case:remainder", p, reward - PartialReward)
    <3>1. ResolutionPayout(p, code)
            = {d} \cup (IF PartialReward = reward THEN {} ELSE {e})
      BY <2>2 DEF ResolutionPayout
    <3>2. CASE PartialReward = reward
      <4>1. IsPayout(p, {Reward("case:partial", p, reward)})
        BY OnePayout DEF Reward, EditOps
      <4> QED
        BY <3>1, <3>2, <4>1
    <3>3. CASE PartialReward # reward
      <4>1. IsPayout(p, {d, e})
        BY SplitPayout DEF EditOps
      <4>2. ResolutionPayout(p, code) = {d, e}
        BY <3>1, <3>3
      <4> QED
        BY <4>1, <4>2
    <3> QED
      BY <3>2, <3>3
  <2>3. CASE code \notin {"full_payment", "creator_abuse", "partial_payment"}
    BY <1>1, <2>3 DEF ResolutionPayout
  <2> QED
    BY <2>1, <2>2, <2>3
<1> QED
  BY <1>1, <1>2, <1>3

-----------------------------------------------------------------------------
(* What a step may do to the credits: one form per kind of step.            *)

Columns == <<slots, reward, reservedTotal>>

\* The postings about performers other than those of a set stay.
OthersKept(P) ==
  \A q \in Performers \ P : EntriesOf(q)' = EntriesOf(q)

\* Nothing that the books speak of changes; time may pass.
Rests ==
  /\ UNCHANGED <<taskStatus, Columns, assignment, ledger>>
  /\ IF taskStatus = "draft" THEN UNCHANGED pastDeadline
     ELSE pastDeadline => pastDeadline'

\* The creator publishes or edits a task nobody has accepted.
Funds ==
  /\ taskStatus \in {"draft", "published"} /\ taskStatus' = "published"
  /\ Accepted(assignment) = {} /\ UNCHANGED <<assignment, pastDeadline>>
  /\ slots' \in SlotChoices /\ reward' \in RewardChoices
  /\ reservedTotal' = slots' * reward' /\ cancelRead' = 0
  /\ IsFiniteSet(ledger') /\ Held' = reservedTotal'
  /\ \A e \in ledger' \ ledger : e.of = Creator /\ e.op \in FundOps
  /\ ledger \subseteq ledger'
  /\ EditsAreCounted' /\ OthersKept({})

\* A performer takes a free slot.
Joins(p) ==
  /\ UNCHANGED <<taskStatus, Columns, ledger, pastDeadline>>
  /\ taskStatus = "published" /\ assignment[p].status = "none"
  /\ assignment'[p].status = "accepted" /\ assignment'[p].slot \in FreeSlots
  /\ \A q \in Performers \ {p} : /\ assignment'[q].status = assignment[q].status
                                 /\ assignment'[q].slot = assignment[q].slot

\* Work in progress goes on.
Moves(p, s) ==
  /\ UNCHANGED <<taskStatus, Columns, ledger, pastDeadline>>
  /\ assignment[p].status \in ActiveStatuses
  /\ s \in ActiveStatuses \ {"accepted"} /\ assignment' = SetStatus(p, s)

\* A performer gives the slot back and nothing is booked.
Leaves(p) ==
  /\ UNCHANGED <<taskStatus, Columns, ledger, pastDeadline>>
  /\ assignment[p].status = "accepted"
  /\ assignment' = SetStatus(p, "cancelled")

\* One reward leaves the reserve for one party.
Settles(p, s) ==
  /\ UNCHANGED <<Columns, pastDeadline>>
  /\ assignment[p].status \in ActiveStatuses /\ s \in FinalStatuses
  /\ assignment' = SetStatus(p, s)
  /\ IsFiniteSet(ledger') /\ Held' = Held - reward
  /\ EntriesOf(p) = {} /\ EntriesOf(p)' # {}
  /\ CreditSum({e \in EntriesOf(p)' : e.member = p})
       \in {0, PartialReward, reward}
  /\ OthersKept({p}) /\ EntriesOf(Creator)' = EntriesOf(Creator)
  /\ EditRows' = EditRows

\* A decision settles; the aggregate follows.
Decides(p, s) ==
  /\ Settles(p, s) /\ Aggregate(assignment')

\* The last performer of a closed task gives the slot back, or somebody consents.
GivesUp(p) ==
  /\ Settles(p, "cancelled") /\ assignment[p].status = "accepted"
  /\ taskStatus \in OpenStatuses
  /\ taskStatus' = IF LatestActive(assignment') = {} THEN "cancelled"
                                                     ELSE taskStatus

\* The creator takes an unclaimed task back.
Withdraws ==
  /\ UNCHANGED <<Columns, assignment, pastDeadline>>
  /\ taskStatus = "published" /\ taskStatus' = "cancelled"
  /\ LatestOccupied(assignment) = {}
  /\ IsFiniteSet(ledger') /\ Held' = Held - reservedTotal
  /\ OthersKept({}) /\ EditRows' = EditRows

\* The creator closes the intake and gets the unoccupied slots back, once.
Closes ==
  /\ UNCHANGED <<Columns, assignment, pastDeadline>>
  /\ taskStatus \in {"published", "partially_completed"} /\ ~pastDeadline
  /\ taskStatus' = "closed_for_new_performers"
  /\ LatestOccupied(assignment) # {}
  /\ \/ UNCHANGED ledger
     \/ /\ IsFiniteSet(ledger') /\ Held' = Held - UnoccupiedCount * reward
        /\ OthersKept({}) /\ EditRows' = EditRows

\* The deadline settles the late performers and returns the unfilled slots.
Lapses ==
  /\ UNCHANGED Columns /\ pastDeadline /\ pastDeadline'
  /\ taskStatus # "draft"
  /\ assignment' = [p \in Performers |->
                      IF p \in LateAssignments
                      THEN [assignment[p] EXCEPT !.status = "no_show"]
                      ELSE assignment[p]]
  /\ Aggregate(assignment')
  /\ IsFiniteSet(ledger') /\ EditRows' = EditRows
  /\ Held' = Held - reward * Cardinality(LateAssignments)
                  - UnfilledSlots * reward
  /\ \A p \in LateAssignments :
       /\ EntriesOf(p) = {} /\ EntriesOf(p)' # {}
       /\ {e \in EntriesOf(p)' : e.member = p} = {}
  /\ OthersKept(LateAssignments)

StepForm ==
  \/ Rests
  \/ Funds
  \/ \E p \in Performers :
       \/ Joins(p) \/ Leaves(p) \/ GivesUp(p)
       \/ \E s \in ActiveStatuses : Moves(p, s)
       \/ \E s \in FinalStatuses : Decides(p, s)
  \/ Withdraws
  \/ Closes
  \/ Lapses

(* Publication and edits book the difference between the new reserve and    *)
(* the old one, under a number no earlier edit has.                         *)
LEMMA FundsStep ==
  ASSUME BooksInv, NEW n \in SlotChoices, NEW r \in RewardChoices,
         Publish(n, r) \/ EditPublished(n, r)
  PROVE  Funds
<1>u. /\ IInv /\ TypeOK /\ IsFiniteSet(ledger) /\ DraftIsEmpty /\ ColumnsAgree
      /\ EditsAreCounted /\ WholeWhileUnclaimed
  BY DEF BooksInv, Books, IInv
<1>a. /\ n \in Nat /\ r \in Nat /\ n * r \in Nat /\ reservedTotal \in Nat
      /\ Creator \notin Performers
  BY <1>u, ExchangeAssumption DEF TypeOK
<1>b. cancelRead' = 0
  BY DEF Publish, EditPublished, CreatorGateFree
<1>1. CASE Publish(n, r)
  <2> DEFINE e == TaskEntry("task_publish:reserve", 0 - n * r)
  <2>1. /\ taskStatus = "draft" /\ ApplyBatch({e}) /\ ledger = {}
        /\ Accepted(assignment) = {}
    BY <1>1, <1>u DEF Publish, DraftIsEmpty
  <2>2. /\ e.credit = 0 - n * r /\ e.of = Creator /\ e.op = "task_publish:reserve"
    BY DEF TaskEntry, Entry
  <2> HIDE DEF e
  <2>3. IsBatch({e}) /\ CreditSum({e}) = 0 - n * r
    BY <2>2, <1>a, CreditOne
  <2>4. /\ IsFiniteSet(ledger') /\ ledger' = ledger \cup {e}
        /\ Held' = Held - CreditSum({e})
    BY <2>1, <2>3, <1>u, FreshBatch
  <2>5. Held = 0
    BY <2>1, CreditEmpty DEF Held
  <2>6. Held' = n * r
    BY <2>3, <2>4, <2>5, <1>a
  <2>7. EditRows' = {}
    BY <2>1, <2>2, <2>4 DEF EditRows, EditOps
  <2>8. EditsAreCounted'
    BY <2>7 DEF EditsAreCounted
  <2>9. OthersKept({})
    BY <2>2, <2>4, <1>a DEF OthersKept, EntriesOf
  <2> QED
    BY <1>1, <1>a, <1>b, <2>1, <2>2, <2>4, <2>6, <2>8, <2>9
       DEF Publish, Funds, FundOps
<1>2. CASE EditPublished(n, r)
  <2> DEFINE edit  == 1 + Cardinality(EditRows)
             delta == n * r - reservedTotal
             op    == IF delta > 0 THEN "task_edit:reserve" ELSE "task_edit:refund"
             e     == Entry(op, Creator, edit, Creator, 0 - delta)
  <2>1. /\ taskStatus = "published" /\ taskStatus' = "published"
        /\ Accepted(assignment) = {}
        /\ ApplyBatch(IF delta = 0 THEN {} ELSE {e})
    BY <1>2 DEF EditPublished, EditRows, EditOps
  <2>2. /\ e.credit = 0 - delta /\ e.of = Creator /\ e.op = op /\ e.n = edit
    BY DEF Entry
  <2>3. op \in EditOps
    BY DEF EditOps
  <2>4. Held = reservedTotal
    BY <2>1, <1>u DEF WholeWhileUnclaimed, ColumnsAgree
  <2>5. /\ IsFiniteSet(EditRows) /\ Cardinality(EditRows) \in Nat
        /\ edit \in Nat
    <3>1. EditRows \subseteq ledger
      BY DEF EditRows
    <3>2. IsFiniteSet(EditRows) /\ Cardinality(EditRows) \in Nat
      BY <3>1, <1>u, FS_Subset, FS_CardinalityType
    <3> QED
      BY <3>2
  <2>6. \A f \in EditRows : f.n < edit
    BY <2>5, <1>u DEF EditsAreCounted, EditRows, TypeOK, LedgerRows
  <2>7. CASE delta = 0
    <3>1. ledger' = ledger
      BY <2>1, <2>7 DEF ApplyBatch
    <3>2. Held' = Held
      BY <3>1 DEF Held
    <3>3. EditsAreCounted' /\ OthersKept({})
      BY <3>1, <1>u DEF EditsAreCounted, EditRows, OthersKept, EntriesOf
    <3>4. Held' = n * r
      BY <3>2, <2>4, <2>7, <1>a
    <3> HIDE DEF e, op, delta, edit
    <3> QED
      BY <1>2, <1>a, <1>b, <1>u, <2>1, <3>1, <3>3, <3>4 DEF EditPublished, Funds
  <2>8. CASE delta # 0
    <3>1. delta \in Int
      BY <1>a
    <3> HIDE DEF delta, op, edit
    <3>2. e \notin ledger
      BY <2>2, <2>3, <2>5, <2>6 DEF EditRows
    <3> HIDE DEF e
    <3>3. IsBatch({e}) /\ CreditSum({e}) = 0 - delta
      BY <2>2, <3>1, CreditOne
    <3>4. ApplyBatch({e})
      BY <2>1, <2>8
    <3>5. /\ IsFiniteSet(ledger') /\ ledger' = ledger \cup {e}
          /\ Held' = Held - CreditSum({e})
      BY <3>2, <3>3, <3>4, <1>u, FreshBatch
    <3>6. Held' = n * r
      BY <3>3, <3>5, <2>4, <1>a DEF delta
    <3>7. EditRows' = EditRows \cup {e}
      BY <3>5, <2>2, <2>3 DEF EditRows
    <3>8. Cardinality(EditRows') = edit
      <4>1. e \notin EditRows
        BY <3>2 DEF EditRows
      <4> QED
        BY <3>7, <4>1, <2>5, FS_AddElement DEF edit
    <3>9. EditsAreCounted'
      <4>1. \A f \in EditRows \cup {e} : f.n <= edit
        BY <2>2, <2>5, <2>6, <1>u DEF EditsAreCounted, EditRows, TypeOK, LedgerRows
      <4>2. Cardinality(EditRows)' = edit
        BY <3>8
      <4> QED
        BY <4>1, <4>2, <3>7 DEF EditsAreCounted
    <3>10. OthersKept({})
      BY <3>5, <2>2, <1>a DEF OthersKept, EntriesOf
    <3>11. \A f \in ledger' \ ledger : f.of = Creator /\ f.op \in FundOps
      BY <3>5, <2>2, <2>3 DEF FundOps
    <3>12. ledger \subseteq ledger'
      BY <3>5
    <3> QED
      BY <1>2, <1>a, <1>b, <2>1, <3>5, <3>6, <3>9, <3>10, <3>11, <3>12
         DEF EditPublished, Funds
  <2> QED
    BY <2>7, <2>8
<1> QED
  BY <1>1, <1>2

(* A payout for work in progress settles it.                                *)
LEMMA SettlesStep ==
  ASSUME BooksInv, NEW p \in Performers, assignment[p].status \in ActiveStatuses,
         NEW s \in FinalStatuses, assignment' = SetStatus(p, s),
         NEW B, IsPayout(p, B), ApplyBatch(B),
         UNCHANGED <<Columns, pastDeadline>>
  PROVE  Settles(p, s)
<1>1. IInv /\ IsFiniteSet(ledger) /\ assignment[p].status \in Unsettled
  BY DEF BooksInv, Books, Unsettled
<1>2. /\ IsFiniteSet(ledger') /\ Held' = Held - reward
      /\ EntriesOf(p) = {} /\ EntriesOf(p)' = B
      /\ \A q \in (Performers \ {p}) \cup {Creator} :
           EntriesOf(q)' = EntriesOf(q)
      /\ EditRows' = EditRows
  BY <1>1, PayoutStep
<1>3. /\ EntriesOf(p)' # {}
      /\ CreditSum({e \in EntriesOf(p)' : e.member = p})
           \in {0, PartialReward, reward}
  BY <1>2 DEF IsPayout
<1> QED
  BY <1>2, <1>3 DEF Settles, OthersKept

(* A refund to the creator of a task that never got one is written.         *)
LEMMA TaskRefundStep ==
  ASSUME TypeOK, IsFiniteSet(ledger), NEW op, op \notin EditOps, NEW c \in Int,
         ApplyBatch({TaskEntry(op, c)}), TaskEntry(op, c) \notin ledger
  PROVE  /\ IsFiniteSet(ledger') /\ Held' = Held - c
         /\ OthersKept({}) /\ EditRows' = EditRows
         /\ TaskEntry(op, c) \in ledger'
         /\ \A f \in ledger : ~SameKey(TaskEntry(op, c), f)
<1> DEFINE e == TaskEntry(op, c)
<1>1. e.credit = c /\ e.of = Creator /\ e.op = op
  BY DEF TaskEntry, Entry
<1>2. Creator \notin Performers /\ e \notin ledger /\ ApplyBatch({e})
  BY ExchangeAssumption
<1> HIDE DEF e
<1>3. IsBatch({e}) /\ CreditSum({e}) = c
  BY <1>1, CreditOne
<1>4. /\ IsFiniteSet(ledger') /\ ledger' = ledger \cup {e}
      /\ Held' = Held - CreditSum({e})
      /\ \A f \in ledger : ~SameKey(e, f)
  BY <1>2, <1>3, FreshBatch
<1>5. OthersKept({}) /\ EditRows' = EditRows
  BY <1>1, <1>2, <1>4 DEF OthersKept, EntriesOf, EditRows
<1>6. /\ IsFiniteSet(ledger') /\ Held' = Held - c
      /\ OthersKept({}) /\ EditRows' = EditRows
      /\ e \in ledger' /\ \A f \in ledger : ~SameKey(e, f)
  BY <1>3, <1>4, <1>5
<1> QED
  BY <1>6 DEF e

LEMMA WithdrawsStep ==
  ASSUME BooksInv, FinishCancel \/ CancelUnclaimed
  PROVE  Withdraws
<1>u. /\ TypeOK /\ IsFiniteSet(ledger) /\ ColumnsAgree /\ OnlyFunded /\ PartIsPaid
  BY DEF BooksInv, Books, IInv
<1>1. /\ UNCHANGED <<Columns, assignment, pastDeadline>> /\ taskStatus' = "cancelled"
      /\ ApplyBatch({TaskEntry("task_cancel:refund", reservedTotal)})
  BY <1>u DEF FinishCancel, CancelUnclaimed, ColumnsAgree, Columns
<1>2. LatestOccupied(assignment) = {}
  BY DEF FinishCancel, CancelUnclaimed, LatestOccupied, Latest, Accepted
<1>3. taskStatus = "published"
  <2>1. CASE FinishCancel
    BY <2>1 DEF FinishCancel
  <2>2. CASE CancelUnclaimed
    BY <2>2, <1>2, <1>u
       DEF CancelUnclaimed, MayRequestCancellation, PartIsPaid, LatestOccupied,
           PaidStatuses
  <2> QED
    BY <2>1, <2>2
<1>4. TaskEntry("task_cancel:refund", reservedTotal) \notin ledger
  BY <1>3, <1>u DEF OnlyFunded, TaskEntry, Entry, FundOps, EditOps
<1>5. reservedTotal \in Int /\ "task_cancel:refund" \notin EditOps
  BY <1>u DEF TypeOK, EditOps
<1>6. /\ IsFiniteSet(ledger') /\ Held' = Held - reservedTotal
      /\ OthersKept({}) /\ EditRows' = EditRows
  BY <1>1, <1>4, <1>5, <1>u, TaskRefundStep
<1> QED
  BY <1>1, <1>2, <1>3, <1>6 DEF Withdraws

LEMMA UnoccupiedType ==
  ASSUME TypeOK
  PROVE  UnoccupiedCount \in Nat
BY CountType DEF UnoccupiedCount, TypeOK

LEMMA ClosesStep ==
  ASSUME BooksInv, RequestCancellation
  PROVE  Closes
<1> DEFINE c == UnoccupiedCount * reward
           e == TaskEntry("task_close:refund", c)
<1>u. TypeOK /\ IsFiniteSet(ledger)
  BY DEF BooksInv, Books, IInv
<1>1. /\ UNCHANGED <<Columns, assignment, pastDeadline>>
      /\ taskStatus \in {"published", "partially_completed"} /\ ~pastDeadline
      /\ taskStatus' = "closed_for_new_performers"
      /\ LatestOccupied(assignment) # {}
      /\ ApplyBatch(IF UnoccupiedCount = 0 THEN {} ELSE {e})
  BY DEF RequestCancellation, MayRequestCancellation, Columns
<1>2. c \in Int
  BY <1>u, UnoccupiedType DEF TypeOK
<1>4. CASE UnoccupiedCount = 0
  <2>1. UNCHANGED ledger
    BY <1>1, <1>4 DEF ApplyBatch
  <2> QED
    BY <1>1, <1>4, <2>1 DEF Closes
<1>5. CASE UnoccupiedCount # 0 /\ e \in ledger
  <2>1. UNCHANGED ledger
    <3>1. SameKey(e, e)
      BY DEF SameKey
    <3> QED
      BY <1>1, <1>5, <3>1 DEF ApplyBatch
  <2> QED
    BY <1>1, <2>1 DEF Closes
<1>6. CASE UnoccupiedCount # 0 /\ e \notin ledger
  <2>1. "task_close:refund" \notin EditOps /\ ApplyBatch({e})
    BY <1>1, <1>6 DEF EditOps
  <2> HIDE DEF c
  <2>2. /\ IsFiniteSet(ledger') /\ Held' = Held - c
        /\ OthersKept({}) /\ EditRows' = EditRows
    BY <2>1, <1>2, <1>6, <1>u, TaskRefundStep
  <2> HIDE DEF e
  <2> QED
    BY <1>1, <1>6, <2>2 DEF Closes, c
<1> QED
  BY <1>4, <1>5, <1>6

(* The deadline posts one refund for each late performer and one for the    *)
(* slots nobody took.                                                       *)
LEMMA LapsesStep ==
  ASSUME BooksInv, FinalizeDeadline, taskStatus # "draft"
  PROVE  Lapses
<1> DEFINE late == LateAssignments
           row == [p \in late |-> Refund("no_show:refund", p, reward)]
           R == {row[p] : p \in late}
           free == UnfilledSlots * reward
           u == TaskEntry("unfilled:refund", free)
           U == IF UnfilledSlots = 0 THEN {} ELSE {u}
           B == R \cup U
<1>u. /\ IInv /\ TypeOK /\ IsFiniteSet(ledger) /\ OnlyFunded /\ SettledAsDecided
  BY DEF BooksInv, Books, IInv
<1>a. /\ late \subseteq Performers /\ Creator \notin Performers
      /\ reward \in Int /\ UnfilledSlots \in Int /\ free \in Int
      /\ \A p \in late : assignment[p].status = "accepted"
  <2>1. UnfilledSlots \in Int
    BY CountType, <1>u DEF UnfilledSlots, TypeOK
  <2> QED
    BY <2>1, <1>u, ExchangeAssumption DEF LateAssignments, TypeOK
<1>b. IsFiniteSet(late) /\ Cardinality(late) \in Nat
  BY <1>a, ExchangeAssumption, FS_Subset, FS_CardinalityType
<1>c. \A p \in late : /\ row[p].credit = reward /\ row[p].of = p
                      /\ row[p].op = "no_show:refund" /\ row[p].member = Creator
  BY DEF Refund, Entry
<1>d. /\ u.credit = free /\ u.of = Creator /\ u.op = "unfilled:refund"
  BY DEF TaskEntry, Entry
<1>e. ApplyBatch(B)
  <2>1. R = {Refund("no_show:refund", p, reward) : p \in LateAssignments}
    OBVIOUS
  <2> QED
    BY <2>1 DEF FinalizeDeadline
<1> HIDE DEF late, row, u, free
<1>1. IsBatch(R) /\ CreditSum(R) = reward * Cardinality(late)
  BY <1>a, <1>b, <1>c, CreditEach
<1>2. IsBatch(U) /\ CreditSum(U) = free
  <2>1. CASE UnfilledSlots = 0
    <3>1. U = {} /\ free = 0
      BY <2>1, <1>a DEF free
    <3>2. IsBatch({})
      BY FS_EmptySet DEF IsBatch
    <3> QED
      BY <3>1, <3>2, CreditEmpty
  <2>2. CASE UnfilledSlots # 0
    BY <2>2, <1>a, <1>d, CreditOne
  <2> QED
    BY <2>1, <2>2
<1>3. /\ \A e \in R : e.of \in late /\ e.op = "no_show:refund" /\ e.member = Creator
      /\ \A e \in U : e.of = Creator /\ e.op = "unfilled:refund"
      /\ \A e \in U : taskStatus = "published"
  BY <1>c, <1>d DEF UnfilledSlots
<1>4. R \cap U = {}
  BY <1>3, <1>a
<1> HIDE DEF U
<1>5. IsBatch(B) /\ CreditSum(B) = reward * Cardinality(late) + free
  BY <1>1, <1>2, <1>4, CreditUnion
<1>6. \A p \in late : EntriesOf(p) = {}
  <2> SUFFICES ASSUME NEW p \in late
               PROVE  EntriesOf(p) = {}
    OBVIOUS
  <2>1. OutcomeOps(assignment[p].status) = {{}}
    BY <1>a, UnsettledOps DEF Unsettled, ActiveStatuses
  <2>2. {e.op : e \in EntriesOf(p)} = {}
    BY <2>1, <1>a, <1>u DEF SettledAsDecided
  <2> QED
    BY <2>2
<1>7. \A e \in B : e \notin ledger
  <2>1. \A e \in R : e \notin ledger
    BY <1>3, <1>6 DEF EntriesOf
  <2>2. \A e \in U : e \notin ledger
    BY <1>3, <1>u DEF OnlyFunded, FundOps, EditOps
  <2> QED
    BY <2>1, <2>2
<1>8. ledger' = ledger \cup B
  BY <1>e, Postings
<1>9. /\ IsFiniteSet(ledger')
      /\ Held' = Held - reward * Cardinality(late) - free
  <2>1. CASE B = {}
    <3>1. ledger' = ledger
      BY <1>8, <2>1
    <3>2. Held' = Held /\ Held \in Int
      BY <3>1, <1>u, HeldType DEF Held
    <3>3. reward * Cardinality(late) + free = 0
      BY <2>1, <1>5, CreditEmpty
    <3> QED
      BY <3>1, <3>2, <3>3, <1>a, <1>b, <1>u
  <2>2. CASE B # {}
    <3>1. ~(B \subseteq ledger)
      BY <2>2, <1>7
    <3>2. IsFiniteSet(ledger') /\ Held \in Int /\ Held' = Held - CreditSum(B)
      BY <3>1, <1>5, <1>e, <1>u, FreshBatch
    <3> QED
      BY <3>2, <1>5, <1>a, <1>b
  <2> QED
    BY <2>1, <2>2
<1>10. EditRows' = EditRows
  BY <1>8, <1>3 DEF EditRows, EditOps
<1>11. OthersKept(late)
  BY <1>8, <1>3, <1>a DEF OthersKept, EntriesOf
<1>12. \A p \in late : /\ EntriesOf(p)' # {}
                       /\ {e \in EntriesOf(p)' : e.member = p} = {}
  <2> SUFFICES ASSUME NEW p \in late
               PROVE  /\ EntriesOf(p)' # {}
                      /\ {e \in EntriesOf(p)' : e.member = p} = {}
    OBVIOUS
  <2>1. row[p] \in B
    OBVIOUS
  <2>2. row[p] \in EntriesOf(p)'
    BY <2>1, <1>8, <1>c DEF EntriesOf
  <2>3. \A e \in EntriesOf(p)' : e \in B
    BY <1>6, <1>8 DEF EntriesOf
  <2>4. \A e \in EntriesOf(p)' : e.member # p
    BY <2>3, <1>3, <1>a DEF EntriesOf
  <2> QED
    BY <2>2, <2>4
<1>13. /\ UNCHANGED Columns /\ pastDeadline /\ pastDeadline'
       /\ assignment' = [p \in Performers |->
                           IF p \in late
                           THEN [assignment[p] EXCEPT !.status = "no_show"]
                           ELSE assignment[p]]
       /\ Aggregate(assignment')
  BY DEF FinalizeDeadline, Columns, late
<1> HIDE DEF B, R
<1> QED
  BY <1>6, <1>9, <1>10, <1>11, <1>12, <1>13 DEF Lapses, late, free

(* A batch of nothing leaves the ledger alone.                              *)
LEMMA EmptyBatch ==
  ASSUME ApplyBatch({})
  PROVE  UNCHANGED ledger
BY DEF ApplyBatch

LEMMA JoinsStep ==
  ASSUME BooksInv, NEW p \in Performers, Accept(p)
  PROVE  Joins(p)
<1>1. PICK s \in FreeSlots, k \in Int :
        assignment' =
          [q \in Performers |->
             IF q = p THEN [status |-> "accepted", slot |-> s, order |-> k]
             ELSE IF assignment[q].order >= k
                  THEN [assignment[q] EXCEPT !.order = @ + 1]
                  ELSE assignment[q]]
  <2>1. (IF AcceptRace THEN 1 ELSE Cardinality(Accepted(assignment)) + 1)
          ..(Cardinality(Accepted(assignment)) + 1) \subseteq Int
    BY CountType
  <2> QED
    BY <2>1 DEF Accept
<1>2. \A q \in Performers : assignment[q] \in AssignmentRows
  BY DEF BooksInv, IInv, TypeOK
<1>3. \A q \in Performers :
        /\ [assignment[q] EXCEPT !.order = @ + 1].status = assignment[q].status
        /\ [assignment[q] EXCEPT !.order = @ + 1].slot = assignment[q].slot
  BY <1>2 DEF AssignmentRows
<1>4. \A q \in Performers \ {p} : /\ assignment'[q].status = assignment[q].status
                                  /\ assignment'[q].slot = assignment[q].slot
  BY <1>1, <1>3
<1>5. assignment'[p].status = "accepted" /\ assignment'[p].slot \in FreeSlots
  BY <1>1
<1>6. /\ UNCHANGED <<taskStatus, Columns, ledger, pastDeadline>>
      /\ taskStatus = "published" /\ assignment[p].status = "none"
  BY DEF Accept, taskVars, Columns
<1> QED
  BY <1>4, <1>5, <1>6 DEF Joins

LEMMA GivesUpStep ==
  ASSUME BooksInv, NEW p \in Performers, CancelAssignment(p) \/ Consent(p)
  PROVE  Leaves(p) \/ GivesUp(p)
<1> DEFINE after == SetStatus(p, "cancelled")
           B == {Refund("task_cancel:refund", p, reward)}
<1>u. IInv /\ TypeOK /\ AskedOnlyWhileAccepted
  BY DEF BooksInv, IInv
<1>a. IsPayout(p, B)
  BY <1>u, DecisionsArePayouts
<1>b. "accepted" \in ActiveStatuses /\ "cancelled" \in FinalStatuses
  BY DEF ActiveStatuses, FinalStatuses
<1>1. ASSUME assignment[p].status = "accepted", assignment' = after, ApplyBatch(B),
             UNCHANGED <<Columns, pastDeadline>>
      PROVE  Settles(p, "cancelled")
  <2> HIDE DEF B
  <2> QED
    BY <1>1, <1>a, <1>b, SettlesStep
<1>2. CASE CancelAssignment(p)
  <2> DEFINE closes == /\ taskStatus = "closed_for_new_performers"
                       /\ LatestActive(after) = {}
  <2>1. /\ assignment[p].status = "accepted" /\ assignment' = after
        /\ ApplyBatch(IF closes THEN B ELSE {})
        /\ taskStatus' = IF closes THEN "cancelled" ELSE taskStatus
        /\ UNCHANGED <<Columns, pastDeadline>>
    BY <1>2 DEF CancelAssignment, Columns
  <2> HIDE DEF after, B
  <2>2. CASE closes
    <3>1. Settles(p, "cancelled")
      BY <1>1, <2>1, <2>2
    <3> QED
      BY <2>1, <2>2, <3>1 DEF GivesUp, OpenStatuses
  <2>3. CASE ~closes
    <3>1. UNCHANGED ledger
      BY <2>1, <2>3, EmptyBatch
    <3> QED
      BY <2>1, <2>3, <3>1 DEF Leaves, after, Columns
  <2> QED
    BY <2>2, <2>3
<1>3. CASE Consent(p)
  <2>1. assignment[p].status = "accepted"
    BY <1>3, <1>u DEF Consent, Answer, AskedOnlyWhileAccepted
  <2>2. /\ assignment' = after /\ ApplyBatch(B)
        /\ taskStatus' = IF LatestActive(assignment') = {} THEN "cancelled"
                                                          ELSE taskStatus
        /\ UNCHANGED <<Columns, pastDeadline>>
        /\ p \in Responders /\ taskStatus \in OpenStatuses
    BY <1>3, <2>1 DEF Consent, Answer, Columns, OpenStatuses
  <2>3. Settles(p, "cancelled")
    BY <1>1, <2>1, <2>2
  <2> QED
    BY <2>1, <2>2, <2>3 DEF GivesUp
<1> QED
  BY <1>2, <1>3

LEMMA DecidesStep ==
  ASSUME BooksInv, NEW p \in Performers,
         \/ \E outcome \in PaidStatuses : Approve(p, outcome)
         \/ \E code \in Codes : ResolveDispute(p, code)
         \/ FinalizeReview(p) \/ FinalizeRejection(p)
  PROVE  \E s \in FinalStatuses : Decides(p, s)
<1>u. TypeOK
  BY DEF BooksInv, IInv
<1>a. /\ {"submitted", "rejected_pending_dispute", "disputed"} \subseteq ActiveStatuses
      /\ PaidStatuses \subseteq FinalStatuses /\ "cancelled" \notin PaidStatuses
      /\ {"approved", "rejected"} \subseteq FinalStatuses
  BY DEF ActiveStatuses, FinalStatuses, PaidStatuses
<1>1. ASSUME NEW s \in FinalStatuses, NEW B, IsPayout(p, B), ApplyBatch(B),
             assignment[p].status \in ActiveStatuses,
             assignment' = SetStatus(p, s), Aggregate(SetStatus(p, s)),
             UNCHANGED <<Columns, pastDeadline>>,
             s = "cancelled" => "cancel_without_fault" \in Codes
      PROVE  Decides(p, s)
  <2>1. Settles(p, s)
    BY <1>1, SettlesStep
  <2> QED
    BY <1>1, <2>1 DEF Decides
<1>2. ASSUME NEW outcome \in PaidStatuses, Approve(p, outcome)
      PROVE  Decides(p, outcome)
  <2>1. IsPayout(p, ReviewPayout(p, outcome))
    BY <1>u, DecisionsArePayouts
  <2>2. /\ ApplyBatch(ReviewPayout(p, outcome))
        /\ assignment[p].status \in ActiveStatuses
        /\ assignment' = SetStatus(p, outcome) /\ Aggregate(SetStatus(p, outcome))
        /\ UNCHANGED <<Columns, pastDeadline>>
    BY <1>2, <1>a DEF Approve, Columns
  <2> QED
    BY <1>1, <1>a, <2>1, <2>2
<1>3. ASSUME NEW code \in Codes, ResolveDispute(p, code)
      PROVE  Decides(p, ResolvedStatus(code))
  <2>1. code \in ResolutionCodes
    BY ExchangeAssumption
  <2>2. IsPayout(p, ResolutionPayout(p, code))
    BY <2>1, <1>u, DecisionsArePayouts
  <2>3. /\ ResolvedStatus(code) \in FinalStatuses
        /\ ResolvedStatus(code) = "cancelled" => code = "cancel_without_fault"
    BY <2>1 DEF ResolvedStatus, ResolutionCodes, FinalStatuses, PaidStatuses
  <2>4. /\ ApplyBatch(ResolutionPayout(p, code))
        /\ assignment[p].status \in ActiveStatuses
        /\ assignment' = SetStatus(p, ResolvedStatus(code))
        /\ Aggregate(SetStatus(p, ResolvedStatus(code)))
        /\ UNCHANGED <<Columns, pastDeadline>>
    BY <1>3, <1>a DEF ResolveDispute, Columns
  <2> QED
    BY <1>1, <2>2, <2>3, <2>4
<1>4. ASSUME FinalizeReview(p) PROVE Decides(p, "approved")
  <2> DEFINE B == {Reward("approved:reward", p, reward)}
  <2>1. IsPayout(p, B)
    BY <1>u, DecisionsArePayouts
  <2>2. /\ ApplyBatch(B)
        /\ assignment[p].status \in ActiveStatuses
        /\ assignment' = SetStatus(p, "approved") /\ Aggregate(SetStatus(p, "approved"))
        /\ UNCHANGED <<Columns, pastDeadline>>
    BY <1>4, <1>a DEF FinalizeReview, MayFinalizeReview, ReviewOverdue, Columns
  <2> HIDE DEF B
  <2> QED
    BY <1>1, <1>a, <2>1, <2>2
<1>5. ASSUME FinalizeRejection(p) PROVE Decides(p, "rejected")
  <2> DEFINE B == {Refund("rejected:refund", p, reward)}
  <2>1. IsPayout(p, B)
    BY <1>u, DecisionsArePayouts
  <2>2. /\ ApplyBatch(B)
        /\ assignment[p].status \in ActiveStatuses
        /\ assignment' = SetStatus(p, "rejected") /\ Aggregate(SetStatus(p, "rejected"))
        /\ UNCHANGED <<Columns, pastDeadline>>
    BY <1>5, <1>a DEF FinalizeRejection, Columns
  <2> HIDE DEF B
  <2> QED
    BY <1>1, <1>a, <2>1, <2>2
<1>6. \A code \in Codes : ResolvedStatus(code) \in FinalStatuses
  BY ExchangeAssumption
     DEF ResolvedStatus, ResolutionCodes, FinalStatuses, PaidStatuses
<1> QED
  BY <1>2, <1>3, <1>4, <1>5, <1>6, <1>a

(* Every step of the lifecycle has one of the forms.                        *)
LEMMA StepForms == BooksInv /\ [Next]_vars => StepForm
<1> SUFFICES ASSUME BooksInv, [Next]_vars PROVE StepForm
  OBVIOUS
<1> USE DEF StepForm
<1>1. ASSUME \/ BeginCancel \/ AbortCancel \/ WorkerList \/ WorkerCrash
             \/ DeadlinePasses \/ UNCHANGED vars
             \/ \E p \in Performers : RespondLate(p) \/ Decline(p) \/ WindowCloses(p)
      PROVE  Rests
  BY <1>1 DEF Rests, Columns, BeginCancel, AbortCancel, WorkerList, WorkerCrash,
              DeadlinePasses, vars, RespondLate, Decline, WindowCloses, taskVars
<1>2. ASSUME NEW n \in SlotChoices, NEW r \in RewardChoices,
             Publish(n, r) \/ EditPublished(n, r)
      PROVE  StepForm
  BY <1>2, FundsStep
<1>3. ASSUME FinishCancel \/ CancelUnclaimed PROVE StepForm
  BY <1>3, WithdrawsStep
<1>4. ASSUME RequestCancellation PROVE StepForm
  BY <1>4, ClosesStep
<1>5. ASSUME NEW p \in Performers, Accept(p) PROVE StepForm
  BY <1>5, JoinsStep
<1>6. ASSUME NEW p \in Performers, Submit(p) \/ Dispute(p) \/ Reject(p)
      PROVE  StepForm
  <2>1. {"accepted", "submitted", "rejected_pending_dispute", "disputed"}
          = ActiveStatuses
    BY DEF ActiveStatuses
  <2>2. PICK s \in ActiveStatuses \ {"accepted"} : assignment' = SetStatus(p, s)
    BY <1>6, <2>1 DEF Submit, Dispute, Reject
  <2>3. /\ assignment[p].status \in ActiveStatuses
        /\ UNCHANGED <<taskStatus, Columns, ledger, pastDeadline>>
    BY <1>6, <2>1 DEF Submit, Dispute, Reject, taskVars, Columns
  <2>4. Moves(p, s)
    BY <2>2, <2>3 DEF Moves
  <2> QED
    BY <2>4
<1>7. ASSUME NEW p \in Performers, CancelAssignment(p) \/ Consent(p)
      PROVE  StepForm
  BY <1>7, GivesUpStep
<1>8. ASSUME NEW p \in Performers,
             \/ \E outcome \in PaidStatuses : Approve(p, outcome)
             \/ \E code \in Codes : ResolveDispute(p, code)
             \/ FinalizeReview(p) \/ FinalizeRejection(p)
      PROVE  StepForm
  BY <1>8, DecidesStep
<1>9. ASSUME FinalizeDeadline PROVE StepForm
  <2>1. taskStatus # "draft"
    BY <1>9 DEF BooksInv, Books, DraftIsEmpty, FinalizeDeadline
  <2> QED
    BY <1>9, <2>1, LapsesStep
<1> QED
  BY <1>1, <1>2, <1>3, <1>4, <1>5, <1>6, <1>7, <1>8, <1>9
     DEF Next, CreatorNext, PerformerNext, WorkerNext, TimedNext

-----------------------------------------------------------------------------
(* The books are kept on every path.                                        *)

StatusFacts ==
  /\ ActiveStatuses \cup FinalStatuses \subseteq AssignmentStatuses
  /\ "none" \notin ActiveStatuses \cup FinalStatuses
  /\ "cancelled" \notin ActiveStatuses /\ ActiveStatuses \cap FinalStatuses = {}
  /\ "accepted" \in ActiveStatuses /\ "cancelled" \in FinalStatuses
  /\ "no_show" \in FinalStatuses

LEMMA StatusesAre == StatusFacts
BY DEF StatusFacts, ActiveStatuses, FinalStatuses, PaidStatuses, AssignmentStatuses

(* What a change of one assignment in progress does to who holds a slot.    *)
LEMMA StatusChange ==
  ASSUME TypeOK, NEW p \in Performers, assignment[p].status \in ActiveStatuses,
         NEW s \in ActiveStatuses \cup FinalStatuses, assignment' = SetStatus(p, s)
  PROVE  /\ p \in Working(assignment) /\ p \in Accepted(assignment')
         /\ assignment'[p].status = s
         /\ \A q \in Performers \ {p} : assignment'[q].status = assignment[q].status
         /\ \A q \in Performers : assignment'[q].slot = assignment[q].slot
         /\ Occupants(assignment') =
              IF s = "cancelled" THEN Occupants(assignment) \ {p}
                                 ELSE Occupants(assignment)
         /\ Working(assignment') =
              IF s \in ActiveStatuses THEN Working(assignment)
                                      ELSE Working(assignment) \ {p}
         /\ Latest(assignment') = Latest(assignment)
<1>a. StatusFacts
  BY StatusesAre
<1>b. s \in AssignmentStatuses /\ s # "none" /\ assignment[p].status # "none"
      /\ assignment[p].status # "cancelled"
  BY <1>a DEF StatusFacts
<1>1. /\ assignment'[p].status = s
      /\ \A q \in Performers \ {p} : assignment'[q] = assignment[q]
  BY <1>b, SetStatusType DEF TypeOK
<1>2. \A q \in Performers : assignment'[q].slot = assignment[q].slot
  <2>1. assignment[p] \in AssignmentRows
    BY DEF TypeOK
  <2>2. [assignment[p] EXCEPT !.status = s].slot = assignment[p].slot
    BY <2>1 DEF AssignmentRows
  <2>3. assignment'[p] = [assignment[p] EXCEPT !.status = s]
    BY DEF SetStatus, TypeOK
  <2> QED
    BY <1>1, <2>2, <2>3
<1>3. p \in Working(assignment) /\ p \in Accepted(assignment')
  BY <1>1, <1>b DEF Working, Accepted
<1>4. Occupants(assignment') =
        IF s = "cancelled" THEN Occupants(assignment) \ {p}
                           ELSE Occupants(assignment)
  BY <1>1, <1>b DEF Occupants, Outside
<1>5. Working(assignment') =
        IF s \in ActiveStatuses THEN Working(assignment)
                                ELSE Working(assignment) \ {p}
  BY <1>1, <1>b DEF Working
<1>6. Latest(assignment') = Latest(assignment)
  BY <1>b, LatestKept
<1> QED
  BY <1>1, <1>2, <1>3, <1>4, <1>5, <1>6

(* What the deadline does to it.                                            *)
LEMMA LapseChange ==
  ASSUME TypeOK, Lapses
  PROVE  /\ \A q \in Performers : assignment'[q].slot = assignment[q].slot
         /\ \A q \in LateAssignments : assignment'[q].status = "no_show"
         /\ \A q \in Performers \ LateAssignments : assignment'[q] = assignment[q]
         /\ Occupants(assignment') = Occupants(assignment)
         /\ Working(assignment') = Working(assignment) \ LateAssignments
         /\ LateAssignments \subseteq Working(assignment)
<1>a. StatusFacts
  BY StatusesAre
<1>1. \A q \in Performers : assignment[q] \in AssignmentRows
  BY DEF TypeOK
<1>2. \A q \in Performers :
        /\ [assignment[q] EXCEPT !.status = "no_show"].slot = assignment[q].slot
        /\ [assignment[q] EXCEPT !.status = "no_show"].status = "no_show"
  BY <1>1 DEF AssignmentRows
<1>3. LateAssignments \subseteq Performers
  BY DEF LateAssignments
<1>4. /\ \A q \in Performers : assignment'[q].slot = assignment[q].slot
      /\ \A q \in LateAssignments : assignment'[q].status = "no_show"
      /\ \A q \in Performers \ LateAssignments : assignment'[q] = assignment[q]
  BY <1>2, <1>3 DEF Lapses
<1>5. \A q \in LateAssignments : assignment[q].status = "accepted"
  BY DEF LateAssignments
<1>6. Occupants(assignment') = Occupants(assignment)
  BY <1>3, <1>4, <1>5 DEF Occupants, Outside
<1>7. Working(assignment') = Working(assignment) \ LateAssignments
  BY <1>3, <1>4, <1>a DEF Working, StatusFacts
<1>8. LateAssignments \subseteq Working(assignment)
  BY <1>3, <1>5, <1>a DEF Working, StatusFacts
<1> QED
  BY <1>4, <1>6, <1>7, <1>8

(* The aggregate says "partially_completed" only of a history with a paid   *)
(* assignment, and never "draft" or "cancelled".                            *)
LEMMA AggregateFacts ==
  ASSUME NEW a, NEW cur, NEW past,
         NEW st, st = DeriveTaskStatus(cur, a, past)
  PROVE  /\ st \notin {"draft", "cancelled"}
         /\ st = "published" => ~past
         /\ st = "settling" => past /\ LatestActive(a) # {}
         /\ LatestActive(a) # {} => st = OngoingStatus(cur, past)
         /\ st \in TerminalStatuses => LatestActive(a) = {}
         /\ st = "partially_completed" =>
              \E p \in Latest(a) : a[p].status \in PaidStatuses
<1> DEFINE paid == {p \in Latest(a) : a[p].status \in PaidStatuses}
           open == /\ cur = "published" /\ ~past
                   /\ Cardinality({a[p].slot : p \in Latest(a)}) < slots
<1>1. st = IF LatestActive(a) # {} \/ open THEN OngoingStatus(cur, past)
           ELSE IF Cardinality(paid) = slots THEN "completed"
           ELSE IF Cardinality(paid) \in 1..(slots - 1) THEN "partially_completed"
           ELSE "expired"
  BY DEF DeriveTaskStatus
<1> HIDE DEF paid
<1>2. OngoingStatus(cur, past) = IF past THEN "settling"
        ELSE IF cur = "closed_for_new_performers" THEN cur ELSE "published"
  BY DEF OngoingStatus
<1>3. st = "partially_completed" => paid # {}
  <2>1. ASSUME st = "partially_completed" PROVE Cardinality(paid) \in 1..(slots - 1)
    BY <1>1, <1>2, <2>1
  <2>2. Cardinality({}) = 0
    BY FS_EmptySet
  <2> QED
    BY <2>1, <2>2
<1>4. paid # {} => \E p \in Latest(a) : a[p].status \in PaidStatuses
  BY DEF paid
<1> QED
  BY <1>1, <1>2, <1>3, <1>4 DEF TerminalStatuses

(* A running cancel() holds the reserve it read, or none runs.              *)
LEMMA ReadStep ==
  ASSUME [Next]_vars
  PROVE  cancelRead' \in {0, cancelRead, reservedTotal}
BY DEF Next, CreatorNext, PerformerNext, WorkerNext, TimedNext, vars, Publish,
       EditPublished, BeginCancel, FinishCancel, AbortCancel, CancelUnclaimed,
       RequestCancellation, Approve, Reject, Accept, Submit, CancelAssignment,
       Dispute, RespondLate, Decline, Consent, WorkerList, FinalizeDeadline,
       WorkerCrash, DeadlinePasses, FinalizeReview, FinalizeRejection,
       WindowCloses, ResolveDispute

(* Slots stay single when nobody gets one.                                  *)
LEMMA SlotsStay ==
  ASSUME SlotsAreSingle, UNCHANGED slots,
         Occupants(assignment') \subseteq Occupants(assignment),
         \A q \in Performers : assignment'[q].slot = assignment[q].slot
  PROVE  SlotsAreSingle'
<1>1. Occupants(assignment)' = Occupants(assignment')
  BY DEF Occupants
<1>2. Occupants(assignment) \subseteq Performers
  BY DEF Occupants
<1> QED
  BY <1>1, <1>2 DEF SlotsAreSingle

(* A step that leaves columns and ledger alone and keeps the task in its    *)
(* status keeps the books, when some assignment exists after it.            *)
LEMMA QuietBooks ==
  ASSUME Books, UNCHANGED <<taskStatus, Columns, ledger>>, ColumnsAgree',
         taskStatus # "draft", Accepted(assignment') # {}, SlotsAreSingle',
         taskStatus = "partially_completed" =>
           \E p \in Latest(assignment') : assignment'[p].status \in PaidStatuses
  PROVE  Books'
<1>1. IsFiniteSet(ledger)' /\ EditsAreCounted' /\ OnlyFunded'
  BY DEF Books, EditsAreCounted, EditRows, OnlyFunded
<1>2. Accepted(assignment)' # {}
  BY DEF Accepted
<1>3. DraftIsEmpty' /\ WholeWhileUnclaimed'
  BY <1>2 DEF DraftIsEmpty, WholeWhileUnclaimed
<1>4. PartIsPaid'
  <2>1. Latest(assignment)' = Latest(assignment')
    BY DEF Latest, Accepted
  <2> QED
    BY <2>1 DEF PartIsPaid
<1> QED
  BY <1>1, <1>3, <1>4 DEF Books

LEMMA BooksStep == BooksInv /\ [Next]_vars => Books'
<1> SUFFICES ASSUME BooksInv, [Next]_vars PROVE Books'
  OBVIOUS
<1>u. /\ TypeOK /\ Books /\ IntakeInv /\ IInv
  BY DEF BooksInv, IInv
<1>v. /\ IsFiniteSet(ledger) /\ DraftIsEmpty /\ ColumnsAgree /\ EditsAreCounted
      /\ OnlyFunded /\ WholeWhileUnclaimed /\ SlotsAreSingle /\ PartIsPaid
  BY <1>u DEF Books
<1>a. StatusFacts
  BY StatusesAre
<1>b. IntakeKept
  BY <1>u, IntakeStep
<1>c. /\ Accepted(assignment)' = Accepted(assignment')
      /\ Occupants(assignment)' = Occupants(assignment')
      /\ Latest(assignment)' = Latest(assignment')
  BY DEF Accepted, Occupants, Latest
<1>d. ASSUME UNCHANGED Columns PROVE ColumnsAgree'
  BY <1>d, <1>v, ReadStep DEF ColumnsAgree, Columns
<1>e. ASSUME EditRows' = EditRows PROVE EditsAreCounted'
  BY <1>e, <1>v DEF EditsAreCounted
<1>f. StepForm
  BY StepForms
<1>1. CASE Rests
  <2>1. ColumnsAgree'
    BY <1>1, <1>d DEF Rests
  <2>2. IsFiniteSet(ledger)' /\ EditsAreCounted' /\ OnlyFunded' /\ DraftIsEmpty'
    BY <1>1, <1>v DEF Rests, EditsAreCounted, EditRows, OnlyFunded, DraftIsEmpty
  <2>3. WholeWhileUnclaimed' /\ PartIsPaid'
    BY <1>1, <1>v DEF Rests, WholeWhileUnclaimed, PartIsPaid, Held, Columns
  <2>4. SlotsAreSingle'
    BY <1>1, <1>v DEF Rests, SlotsAreSingle, Columns
  <2> QED
    BY <2>1, <2>2, <2>3, <2>4 DEF Books
<1>2. CASE Funds
  <2>1. /\ IsFiniteSet(ledger)' /\ EditsAreCounted' /\ DraftIsEmpty'
        /\ ColumnsAgree'
    BY <1>2 DEF Funds, DraftIsEmpty, ColumnsAgree
  <2>2. OnlyFunded'
    <3>1. \A e \in ledger : e.of = Creator => e.op \in FundOps
      BY <1>2, <1>v DEF Funds, DraftIsEmpty, OnlyFunded
    <3> QED
      BY <1>2, <3>1 DEF Funds, OnlyFunded
  <2>3. WholeWhileUnclaimed'
    BY <1>2 DEF Funds, WholeWhileUnclaimed
  <2>4. SlotsAreSingle'
    <3>1. Occupants(assignment') = {}
      BY <1>2 DEF Funds, Occupants, Outside, Accepted
    <3> QED
      BY <3>1, <1>c DEF SlotsAreSingle
  <2>5. PartIsPaid'
    BY <1>2 DEF Funds, PartIsPaid
  <2> QED
    BY <2>1, <2>2, <2>3, <2>4, <2>5 DEF Books
<1>3. ASSUME NEW p \in Performers, Joins(p) PROVE Books'
  <2>1. p \in Accepted(assignment')
    BY <1>3 DEF Joins, Accepted
  <2>2. Occupants(assignment') = Occupants(assignment) \cup {p}
    BY <1>3 DEF Joins, Occupants, Outside
  <2>3. \A q \in Occupants(assignment) \ {p} :
          /\ assignment'[q].slot = assignment[q].slot
          /\ assignment[q].slot # assignment'[p].slot
    BY <1>3 DEF Joins, Occupants, Outside, FreeSlots, Accepted
  <2>4. assignment'[p].slot \in 1..slots /\ UNCHANGED slots
    BY <1>3 DEF Joins, FreeSlots, Columns
  <2>5. p \notin Occupants(assignment)
    BY <1>3 DEF Joins, Occupants, Outside
  <2>6. SlotsAreSingle'
    BY <2>2, <2>3, <2>4, <2>5, <1>c, <1>v DEF SlotsAreSingle
  <2>7. ColumnsAgree'
    BY <1>3, <1>d DEF Joins
  <2> QED
    BY <2>1, <2>6, <2>7, <1>3, <1>u, QuietBooks DEF Joins
<1>4. ASSUME NEW p \in Performers, assignment[p].status \in ActiveStatuses
      PROVE  taskStatus # "draft"
  BY <1>4, <1>v, <1>a DEF DraftIsEmpty, Accepted, StatusFacts
<1>5. ASSUME NEW p \in Performers, assignment[p].status \in ActiveStatuses,
             NEW s \in ActiveStatuses \cup FinalStatuses, assignment' = SetStatus(p, s),
             UNCHANGED Columns
      PROVE  /\ SlotsAreSingle' /\ ColumnsAgree' /\ Accepted(assignment') # {}
             /\ taskStatus = "partially_completed" =>
                  \E q \in Latest(assignment') : assignment'[q].status \in PaidStatuses
  <2>1. /\ p \in Accepted(assignment')
        /\ \A q \in Performers \ {p} : assignment'[q].status = assignment[q].status
        /\ \A q \in Performers : assignment'[q].slot = assignment[q].slot
        /\ Occupants(assignment') \subseteq Occupants(assignment)
        /\ Latest(assignment') = Latest(assignment)
    BY <1>5, <1>u, StatusChange
  <2>2. SlotsAreSingle'
    BY <2>1, <1>5, <1>v, SlotsStay DEF Columns
  <2>3. ASSUME taskStatus = "partially_completed"
        PROVE  \E q \in Latest(assignment') : assignment'[q].status \in PaidStatuses
    <3>1. PICK q \in Latest(assignment) : assignment[q].status \in PaidStatuses
      BY <2>3, <1>v DEF PartIsPaid
    <3>2. q # p /\ q \in Performers
      BY <3>1, <1>5 DEF PaidStatuses, ActiveStatuses, Latest, Accepted
    <3> QED
      BY <2>1, <3>1, <3>2
  <2> QED
    BY <2>1, <2>2, <2>3, <1>5, <1>d
<1>6. ASSUME NEW p \in Performers, NEW s \in ActiveStatuses, Moves(p, s)
      PROVE  Books'
  BY <1>6, <1>4, <1>5, <1>u, QuietBooks DEF Moves
<1>7. ASSUME NEW p \in Performers, Leaves(p) PROVE Books'
  BY <1>7, <1>4, <1>5, <1>u, <1>a, QuietBooks DEF Leaves, StatusFacts
<1>8. ASSUME NEW p \in Performers, NEW s \in FinalStatuses, Settles(p, s),
             taskStatus' # "draft",
             taskStatus' = "partially_completed" =>
               \E q \in Latest(assignment') : assignment'[q].status \in PaidStatuses
      PROVE  Books'
  <2>1. /\ SlotsAreSingle' /\ ColumnsAgree' /\ Accepted(assignment') # {}
        /\ taskStatus # "draft"
    BY <1>8, <1>4, <1>5 DEF Settles
  <2>2. IsFiniteSet(ledger)' /\ EditsAreCounted' /\ DraftIsEmpty'
    BY <1>8, <1>e DEF Settles, DraftIsEmpty
  <2>3. OnlyFunded'
    <3>1. EntriesOf(Creator)' = EntriesOf(Creator)
      BY <1>8 DEF Settles
    <3>2. taskStatus' = "published" => taskStatus = "published"
      BY <2>1, <1>b DEF IntakeKept
    <3> QED
      BY <3>1, <3>2, <1>v DEF OnlyFunded, EntriesOf
  <2>4. WholeWhileUnclaimed' /\ PartIsPaid'
    BY <2>1, <1>c, <1>8 DEF WholeWhileUnclaimed, PartIsPaid
  <2> QED
    BY <2>1, <2>2, <2>3, <2>4 DEF Books
<1>9. ASSUME NEW p \in Performers, NEW s \in FinalStatuses, Decides(p, s)
      PROVE  Books'
  <2>1. taskStatus' = DeriveTaskStatus(taskStatus, assignment', pastDeadline)
    BY <1>9 DEF Decides, Aggregate
  <2> QED
    BY <2>1, <1>8, <1>9, AggregateFacts DEF Decides
<1>10. ASSUME NEW p \in Performers, GivesUp(p) PROVE Books'
  <2>1. taskStatus' \in {"cancelled", "published", "closed_for_new_performers"}
    BY <1>10 DEF GivesUp, OpenStatuses
  <2> QED
    BY <2>1, <1>8, <1>10, <1>a DEF GivesUp, StatusFacts
<1>11. CASE Withdraws
  <2>1. /\ IsFiniteSet(ledger)' /\ EditsAreCounted' /\ ColumnsAgree'
    BY <1>11, <1>d, <1>e DEF Withdraws
  <2>2. SlotsAreSingle'
    BY <1>11, <1>v DEF Withdraws, SlotsAreSingle, Columns
  <2>3. DraftIsEmpty' /\ OnlyFunded' /\ WholeWhileUnclaimed' /\ PartIsPaid'
    BY <1>11 DEF Withdraws, DraftIsEmpty, OnlyFunded, WholeWhileUnclaimed, PartIsPaid
  <2> QED
    BY <2>1, <2>2, <2>3 DEF Books
<1>12. CASE Closes
  <2>1. /\ IsFiniteSet(ledger)' /\ EditsAreCounted' /\ ColumnsAgree'
    BY <1>12, <1>d, <1>e, <1>v DEF Closes, EditRows
  <2>2. SlotsAreSingle'
    BY <1>12, <1>v DEF Closes, SlotsAreSingle, Columns
  <2>3. DraftIsEmpty' /\ OnlyFunded' /\ WholeWhileUnclaimed' /\ PartIsPaid'
    BY <1>12 DEF Closes, DraftIsEmpty, OnlyFunded, WholeWhileUnclaimed, PartIsPaid
  <2> QED
    BY <2>1, <2>2, <2>3 DEF Books
<1>13. CASE Lapses
  <2>1. /\ IsFiniteSet(ledger)' /\ EditsAreCounted' /\ ColumnsAgree'
    BY <1>13, <1>d, <1>e DEF Lapses
  <2>2. SlotsAreSingle'
    BY <1>13, <1>u, <1>v, LapseChange, SlotsStay DEF Lapses, Columns
  <2>3. taskStatus' = DeriveTaskStatus(taskStatus, assignment', pastDeadline)
    BY <1>13 DEF Lapses, Aggregate
  <2>4. /\ taskStatus' \notin {"draft", "published"}
        /\ taskStatus' = "partially_completed" =>
             \E q \in Latest(assignment') : assignment'[q].status \in PaidStatuses
    BY <2>3, <1>13, AggregateFacts DEF Lapses
  <2>5. DraftIsEmpty' /\ OnlyFunded' /\ WholeWhileUnclaimed' /\ PartIsPaid'
    BY <2>4, <1>c DEF DraftIsEmpty, OnlyFunded, WholeWhileUnclaimed, PartIsPaid
  <2> QED
    BY <2>1, <2>2, <2>5 DEF Books
<1> QED
  BY <1>f, <1>1, <1>2, <1>3, <1>6, <1>7, <1>9, <1>10, <1>11, <1>12, <1>13 DEF StepForm

-----------------------------------------------------------------------------
(* How many hold a slot, and how many of them are done.                     *)

LEMMA Distributes ==
  ASSUME NEW r \in Int, NEW a \in Int, NEW b \in Int
  PROVE  /\ r * (a - b) = r * a - r * b /\ r * (a + b) = r * a + r * b
         /\ r * a \in Int /\ r * 0 = 0 /\ r * 1 = r /\ a * r = r * a
OBVIOUS

LEMMA Multiplies ==
  ASSUME NEW a \in Nat, NEW b \in Nat
  PROVE  a * b \in Nat
OBVIOUS

(* Each holder has a slot of his own, so there are no more than slots.      *)
LEMMA Counts ==
  ASSUME TypeOK, SlotsAreSingle
  PROVE  /\ IsFiniteSet(Occupants(assignment)) /\ IsFiniteSet(Working(assignment))
         /\ IsFiniteSet(Done(assignment))
         /\ Cardinality(Occupants(assignment)) \in Nat
         /\ Cardinality(Working(assignment)) \in Nat
         /\ Cardinality(Done(assignment)) \in Nat
         /\ Cardinality(Working(assignment)) + Cardinality(Done(assignment))
              = Cardinality(Occupants(assignment))
         /\ Cardinality(Occupants(assignment)) <= slots
<1> DEFINE O == Occupants(assignment)
           W == Working(assignment)
           g == [p \in O |-> assignment[p].slot]
<1>1. W \subseteq O /\ O \subseteq Performers
  BY StatusesAre DEF Working, Occupants, Outside, StatusFacts
<1>2. IsFiniteSet(O) /\ IsFiniteSet(W) /\ IsFiniteSet(O \ W)
  <2>1. IsFiniteSet(O)
    BY <1>1, ExchangeAssumption, FS_Subset
  <2> HIDE DEF O, W
  <2> QED
    BY <2>1, <1>1, FS_Subset
<1>3. slots \in Nat
  BY DEF TypeOK
<1>4. g \in [O -> 1..slots] /\ \A p, q \in O : g[p] = g[q] => p = q
  BY DEF SlotsAreSingle
<1> HIDE DEF g, O, W
<1>5. g \in Injection(O, 1..slots)
  BY <1>4 DEF Injection, IsInjective
<1>6. IsFiniteSet(1..slots) /\ Cardinality(1..slots) = slots
  <2>1. Cardinality(1..slots) = IF 1 > slots THEN 0 ELSE slots - 1 + 1
    BY <1>3, FS_Interval
  <2> QED
    BY <2>1, <1>3, FS_Interval
<1>7. Cardinality(O) <= slots
  BY <1>5, <1>6, FS_Injection
<1>8. Cardinality(O \ W) = Cardinality(O) - Cardinality(W)
  <2>1. O \cap W = W
    BY <1>1
  <2>2. Cardinality(O \ W) = Cardinality(O) - Cardinality(O \cap W)
    BY <1>2, FS_Difference
  <2> QED
    BY <2>1, <2>2
<1>9. /\ Cardinality(O) \in Nat /\ Cardinality(W) \in Nat
      /\ Cardinality(O \ W) \in Nat
  BY <1>2, FS_CardinalityType
<1>10. Done(assignment) = O \ W
  BY DEF Done, O, W
<1>11. Cardinality(W) + Cardinality(O \ W) = Cardinality(O)
  BY <1>8, <1>9
<1> QED
  BY <1>2, <1>7, <1>9, <1>10, <1>11 DEF O, W

(* The unfilled slots are never fewer than none.                            *)
LEMMA UnfilledType ==
  ASSUME TypeOK, SlotsAreSingle
  PROVE  UnfilledSlots \in Nat
<1> DEFINE O == Occupants(assignment)
           L == LatestOccupied(assignment)
<1>1. /\ IsFiniteSet(O) /\ Cardinality(O) \in Nat /\ Cardinality(O) <= slots
      /\ slots \in Nat
  BY Counts DEF TypeOK
<1>2. L \subseteq O
  BY DEF LatestOccupied, Latest, Accepted, Occupants, Outside
<1> HIDE DEF O, L
<1>3. IsFiniteSet(L) /\ Cardinality(L) <= Cardinality(O)
  BY <1>1, <1>2, FS_Subset
<1>4. Cardinality(L) \in Nat
  BY <1>3, FS_CardinalityType
<1> QED
  BY <1>1, <1>3, <1>4 DEF UnfilledSlots, L

(* Every slot of the task has a holder or is free.                          *)
LEMMA FreeCount ==
  ASSUME TypeOK, SlotsAreSingle
  PROVE  Cardinality(FreeSlots) = slots - Cardinality(Occupants(assignment))
<1> DEFINE O == Occupants(assignment)
           T == {assignment[p].slot : p \in O}
           g == [p \in O |-> assignment[p].slot]
<1>1. IsFiniteSet(O) /\ Cardinality(O) \in Nat /\ slots \in Nat
  BY Counts DEF TypeOK
<1>2. /\ g \in [O -> T] /\ T \subseteq 1..slots
      /\ \A p, q \in O : g[p] = g[q] => p = q
      /\ \A t \in T : \E p \in O : g[p] = t
  BY DEF SlotsAreSingle
<1>3. FreeSlots = (1..slots) \ T
  BY DEF FreeSlots, Accepted, Occupants, Outside
<1> HIDE DEF g, O, T
<1>4. g \in Bijection(O, T)
  BY <1>2 DEF Bijection, Injection, Surjection, IsInjective
<1>5. IsFiniteSet(T) /\ Cardinality(T) = Cardinality(O)
  BY <1>1, <1>4, FS_Bijection DEF ExistsBijection
<1>6. IsFiniteSet(1..slots) /\ Cardinality(1..slots) = slots
  <2>1. Cardinality(1..slots) = IF 1 > slots THEN 0 ELSE slots - 1 + 1
    BY <1>1, FS_Interval
  <2> QED
    BY <2>1, <1>1, FS_Interval
<1>7. (1..slots) \cap T = T
  BY <1>2
<1>8. Cardinality((1..slots) \ T) = Cardinality(1..slots) - Cardinality((1..slots) \cap T)
  BY <1>6, FS_Difference
<1> QED
  BY <1>3, <1>5, <1>6, <1>7, <1>8 DEF O

LEMMA BooksInit == Init => BooksInv
<1> SUFFICES ASSUME Init PROVE BooksInv
  OBVIOUS
<1>1. IInv
  BY IInvInit
<1>2. IntakeInv
  BY TypeInit DEF IntakeInv, Init, DraftIsUntouched, LeftIsIdle, Intake
<1>3. \A p \in Performers : assignment[p].status = "none"
  BY DEF Init
<1>4. Accepted(assignment) = {} /\ Occupants(assignment) = {}
  BY <1>3 DEF Accepted, Occupants, Outside
<1>5. IsFiniteSet(ledger) /\ DraftIsEmpty /\ ColumnsAgree /\ EditsAreCounted
  BY <1>4, FS_EmptySet DEF Init, DraftIsEmpty, ColumnsAgree, EditsAreCounted, EditRows
<1>6. OnlyFunded /\ WholeWhileUnclaimed /\ SlotsAreSingle /\ PartIsPaid
  BY <1>4 DEF Init, OnlyFunded, WholeWhileUnclaimed, SlotsAreSingle, PartIsPaid
<1> QED
  BY <1>1, <1>2, <1>5, <1>6 DEF BooksInv, Books

LEMMA BooksInvStep == BooksInv /\ [Next]_vars => BooksInv'
BY IInvStep, TypeStep, IntakeStep, BooksStep DEF BooksInv, IntakeInv

(* Whoever never finished has no posting.                                   *)
LEMMA NothingBooked ==
  ASSUME IInv, NEW p \in Performers, assignment[p].status \in Unsettled
  PROVE  EntriesOf(p) = {}
<1>1. {e.op : e \in EntriesOf(p)} = {}
  BY UnsettledOps DEF IInv, SettledAsDecided
<1> QED
  BY <1>1

-----------------------------------------------------------------------------
(* What a task holds, on every path.                                        *)

\* In the catalog the reward of every party not yet settled; never more.
ReserveKept ==
  LET unsettled == reward * (slots - Cardinality(Settled))
  IN /\ taskStatus = "published" => Held = unsettled
     /\ Held <= unsettled

ReserveInv == BooksInv /\ ReserveKept

LEMMA SettledType == IsFiniteSet(Settled) /\ Cardinality(Settled) \in Nat
<1>1. IsFiniteSet(Settled)
  <2>1. Settled \subseteq Performers
    BY DEF Settled
  <2> QED
    BY <2>1, ExchangeAssumption, FS_Subset
<1> QED
  BY <1>1, FS_CardinalityType

(* Parties are settled once, so each settlement is counted.                 *)
LEMMA SettledGrows ==
  ASSUME NEW P \in SUBSET Performers, OthersKept(P),
         \A p \in P : EntriesOf(p) = {} /\ EntriesOf(p)' # {}
  PROVE  Cardinality(Settled') = Cardinality(Settled) + Cardinality(P)
<1>1. Settled' = Settled \cup P /\ Settled \cap P = {}
  BY DEF Settled, OthersKept
<1>2. IsFiniteSet(P) /\ Cardinality(P) \in Nat
  BY ExchangeAssumption, FS_Subset, FS_CardinalityType
<1>3. Cardinality(Settled \cup P)
        = Cardinality(Settled) + Cardinality(P) - Cardinality(Settled \cap P)
  BY <1>2, SettledType, FS_Union
<1>4. Cardinality({}) = 0
  BY FS_EmptySet
<1>5. Cardinality(Settled \cap P) = 0
  BY <1>1, <1>4
<1>6. Cardinality(Settled') = Cardinality(Settled \cup P)
  BY <1>1
<1>7. Cardinality(Settled) \in Nat
  BY SettledType
<1> QED
  BY <1>2, <1>3, <1>5, <1>6, <1>7

(* A step that settles k parties and returns c credits more.                *)
LEMMA ReserveAfter ==
  ASSUME ReserveInv, UNCHANGED Columns, NEW k \in Nat, NEW c \in Nat,
         Cardinality(Settled') = Cardinality(Settled) + k,
         Held' = Held - reward * k - c,
         taskStatus' = "published" => taskStatus = "published" /\ c = 0
  PROVE  ReserveKept'
<1> DEFINE n == Cardinality(Settled)
<1>1. /\ TypeOK /\ Held \in Int /\ reward \in Nat /\ slots \in Nat
      /\ UNCHANGED <<slots, reward>>
  BY HeldType DEF ReserveInv, BooksInv, Books, IInv, TypeOK, Columns
<1>2. n \in Nat /\ Cardinality(Settled)' = n + k
  BY SettledType DEF Settled
<1>3. /\ Held <= reward * (slots - n)
      /\ taskStatus = "published" => Held = reward * (slots - n)
  BY DEF ReserveInv, ReserveKept
<1> HIDE DEF n
<1>4. /\ reward * ((slots - n) - k) = reward * (slots - n) - reward * k
      /\ reward * (slots - n) \in Int /\ reward * k \in Int
      /\ (slots - n) - k = slots - (n + k)
  BY <1>1, <1>2, Distributes
<1>5. /\ Held' <= reward' * (slots' - (n + k))
      /\ taskStatus' = "published" => Held' = reward' * (slots' - (n + k))
  BY <1>1, <1>3, <1>4
<1> QED
  BY <1>2, <1>5 DEF ReserveKept

LEMMA ReserveStep == ReserveInv /\ [Next]_vars => ReserveKept'
<1> SUFFICES ASSUME ReserveInv, [Next]_vars PROVE ReserveKept'
  OBVIOUS
<1>u. /\ TypeOK /\ IInv /\ BooksInv /\ Held \in Int /\ reward \in Nat
      /\ slots \in Nat /\ SlotsAreSingle /\ DraftIsEmpty
  BY HeldType DEF ReserveInv, BooksInv, Books, IInv, TypeOK
<1>f. StepForm
  BY <1>u, StepForms
<1>a. StatusFacts
  BY StatusesAre
<1>b. IntakeKept
  BY <1>u, IntakeStep DEF BooksInv
<1>1. ASSUME UNCHANGED <<taskStatus, Columns, ledger>> PROVE ReserveKept'
  <2>1. UNCHANGED <<Held, Settled, slots, reward>>
    BY <1>1 DEF Held, Settled, EntriesOf, Columns
  <2> QED
    BY <1>1, <2>1 DEF ReserveInv, ReserveKept
<1>2. CASE Funds
  <2>1. \A p \in Performers : assignment[p].status \in Unsettled
    BY <1>2 DEF Funds, Accepted, Unsettled
  <2>2. \A p \in Performers : EntriesOf(p)' = {}
    BY <1>2, <2>1, <1>u, NothingBooked DEF Funds, OthersKept
  <2>3. Settled' = {} /\ Cardinality(Settled)' = 0
    BY <2>2, FS_EmptySet DEF Settled
  <2>4. /\ slots' \in Nat /\ reward' \in Nat /\ Held' = slots' * reward'
    BY <1>2, ExchangeAssumption DEF Funds
  <2>5. Held' = reward' * (slots' - 0)
    BY <2>4, Distributes
  <2> QED
    BY <2>3, <2>4, <2>5 DEF ReserveKept
<1>3. ASSUME NEW p \in Performers, NEW s \in FinalStatuses, Settles(p, s)
      PROVE  ReserveKept'
  <2>1. /\ UNCHANGED Columns /\ OthersKept({p}) /\ Held' = Held - reward
        /\ EntriesOf(p) = {} /\ EntriesOf(p)' # {}
        /\ assignment[p].status \in ActiveStatuses
    BY <1>3 DEF Settles
  <2>2. taskStatus # "draft"
    BY <2>1, <1>u, <1>a DEF DraftIsEmpty, Accepted, StatusFacts
  <2>3. taskStatus' = "published" => taskStatus = "published" /\ 0 = 0
    BY <2>2, <1>b DEF IntakeKept
  <2>4. Cardinality(Settled') = Cardinality(Settled) + 1
    BY <2>1, SettledGrows, FS_Singleton
  <2>5. Held' = Held - reward * 1 - 0
    BY <2>1, <1>u
  <2> QED
    BY <2>1, <2>3, <2>4, <2>5, ReserveAfter
<1>4. ASSUME UNCHANGED Columns, OthersKept({}), NEW c \in Nat, Held' = Held - c,
             taskStatus' # "published"
      PROVE  ReserveKept'
  <2>1. Cardinality(Settled') = Cardinality(Settled) + 0
    BY <1>4, SettledGrows, SettledType, FS_EmptySet
  <2>2. Held' = Held - reward * 0 - c
    BY <1>4, <1>u
  <2> QED
    BY <1>4, <2>1, <2>2, ReserveAfter
<1>5. CASE Withdraws
  <2>1. reservedTotal \in Nat
    BY <1>u DEF TypeOK
  <2> QED
    BY <1>4, <1>5, <2>1 DEF Withdraws
<1>6. CASE Closes
  <2>1. UnoccupiedCount * reward \in Nat
    <3>1. UnoccupiedCount \in Nat
      BY <1>u, UnoccupiedType
    <3> QED
      BY <3>1, <1>u
  <2>2. CASE UNCHANGED ledger
    <3>1. UNCHANGED <<Held, Settled, slots, reward>>
      BY <1>6, <2>2 DEF Closes, Held, Settled, EntriesOf, Columns
    <3> QED
      BY <1>6, <3>1 DEF Closes, ReserveInv, ReserveKept
  <2>3. CASE OthersKept({}) /\ Held' = Held - UnoccupiedCount * reward
    BY <1>4, <1>6, <2>1, <2>3 DEF Closes
  <2> QED
    BY <1>6, <2>2, <2>3 DEF Closes
<1>7. CASE Lapses
  <2> DEFINE k == Cardinality(LateAssignments)
             c == UnfilledSlots * reward
  <2>1. /\ UNCHANGED Columns /\ OthersKept(LateAssignments) /\ Held' = Held - reward * k - c
        /\ \A p \in LateAssignments : EntriesOf(p) = {} /\ EntriesOf(p)' # {}
        /\ taskStatus' = DeriveTaskStatus(taskStatus, assignment', pastDeadline)
        /\ pastDeadline
    BY <1>7 DEF Lapses, Aggregate
  <2>2. LateAssignments \in SUBSET Performers
    BY DEF LateAssignments
  <2>3. k \in Nat
    BY <2>2, ExchangeAssumption, FS_Subset, FS_CardinalityType
  <2>4. c \in Nat
    <3>1. UnfilledSlots \in Nat
      BY <1>u, UnfilledType
    <3> QED
      BY <3>1, <1>u
  <2>5. taskStatus' # "published"
    BY <2>1, AggregateFacts
  <2>6. Cardinality(Settled') = Cardinality(Settled) + k
    BY <2>1, <2>2, SettledGrows
  <2> HIDE DEF k, c
  <2> QED
    BY <2>1, <2>3, <2>4, <2>5, <2>6, ReserveAfter
<1>8. ASSUME NEW p \in Performers, Joins(p) \/ Leaves(p) PROVE ReserveKept'
  BY <1>1, <1>8 DEF Joins, Leaves
<1>9. ASSUME NEW p \in Performers, NEW s \in ActiveStatuses, Moves(p, s)
      PROVE  ReserveKept'
  BY <1>1, <1>9 DEF Moves
<1>10. CASE Rests
  BY <1>1, <1>10 DEF Rests
<1>11. ASSUME NEW p \in Performers, GivesUp(p) PROVE ReserveKept'
  BY <1>3, <1>11, <1>a DEF GivesUp, StatusFacts
<1>12. ASSUME NEW p \in Performers, NEW s \in FinalStatuses, Decides(p, s)
       PROVE  ReserveKept'
  BY <1>3, <1>12 DEF Decides
<1> QED
  BY <1>f, <1>2, <1>5, <1>6, <1>7, <1>8, <1>9, <1>10, <1>11, <1>12 DEF StepForm

(* Those settled are the ones whose work is done and those cancelled with a *)
(* refund, so the two ways to count what is funded agree.                   *)
LEMMA ReserveSays == ReserveInv => CatalogReserve
<1> SUFFICES ASSUME ReserveInv PROVE CatalogReserve
  OBVIOUS
<1> DEFINE w == Cardinality(Working(assignment))
           d == Cardinality(Done(assignment))
           o == Cardinality(Occupants(assignment))
           r == Cardinality(CancelledAndRefunded)
           n == Cardinality(Settled)
<1>u. /\ TypeOK /\ IInv /\ reward \in Nat /\ slots \in Nat /\ SlotsAreSingle
  BY DEF ReserveInv, BooksInv, Books, IInv, TypeOK
<1>a. StatusFacts
  BY StatusesAre
<1>1. w \in Nat /\ d \in Nat /\ o \in Nat /\ w + d = o /\ IsFiniteSet(Done(assignment))
  BY <1>u, Counts
<1>2. Cardinality(FreeSlots) = slots - o
  BY <1>u, FreeCount
<1>3. IsFiniteSet(CancelledAndRefunded) /\ r \in Nat
  <2>1. CancelledAndRefunded \subseteq Performers
    BY DEF CancelledAndRefunded
  <2>2. IsFiniteSet(CancelledAndRefunded)
    BY <2>1, ExchangeAssumption, FS_Subset
  <2> QED
    BY <2>2, FS_CardinalityType
<1>4. /\ Settled = Done(assignment) \cup CancelledAndRefunded
      /\ Done(assignment) \cap CancelledAndRefunded = {}
  <2>1. ASSUME NEW p \in Performers, assignment[p].status \in Unsettled
        PROVE  p \notin Settled /\ p \notin Done(assignment) /\ p \notin CancelledAndRefunded
    <3>1. EntriesOf(p) = {}
      BY <2>1, <1>u, NothingBooked
    <3> QED
      BY <3>1, <2>1 DEF Settled, CancelledAndRefunded, Done, Occupants, Outside,
                       Working, Unsettled
  <2>2. ASSUME NEW p \in Performers, assignment[p].status = "cancelled"
        PROVE  p \in Settled <=> p \in CancelledAndRefunded
    BY <2>2 DEF Settled, CancelledAndRefunded
  <2>3. ASSUME NEW p \in Performers,
               assignment[p].status \in FinalStatuses \ {"cancelled"}
        PROVE  EntriesOf(p) # {} /\ p \in Done(assignment)
    <3>1. {e.op : e \in EntriesOf(p)} \in OutcomeOps(assignment[p].status)
      BY <1>u DEF IInv, SettledAsDecided
    <3>2. {} \notin OutcomeOps(assignment[p].status)
      BY <2>3 DEF OutcomeOps, FinalStatuses, PaidStatuses
    <3>3. p \in Done(assignment)
      BY <2>3, <1>a DEF Done, Occupants, Working, Outside, StatusFacts
    <3> QED
      BY <3>1, <3>2, <3>3
  <2>4. \A p \in Performers : \/ assignment[p].status \in Unsettled
                              \/ assignment[p].status = "cancelled"
                              \/ assignment[p].status \in FinalStatuses \ {"cancelled"}
    BY <1>u DEF TypeOK, AssignmentRows, AssignmentStatuses, Unsettled
  <2>5. /\ Settled \subseteq Performers /\ CancelledAndRefunded \subseteq Performers
        /\ Done(assignment) \subseteq Performers
        /\ \A p \in Done(assignment) : assignment[p].status # "cancelled"
        /\ \A p \in CancelledAndRefunded : assignment[p].status = "cancelled"
        /\ CancelledAndRefunded \subseteq Settled
    BY DEF Settled, CancelledAndRefunded, Done, Occupants, Outside
  <2>6. \A p \in Performers : EntriesOf(p) # {} => p \in Settled
    BY DEF Settled
  <2> QED
    BY <2>1, <2>2, <2>3, <2>4, <2>5, <2>6
<1>5. n = d + r
  <2>1. n = d + r - Cardinality(Done(assignment) \cap CancelledAndRefunded)
    BY <1>1, <1>3, <1>4, FS_Union
  <2>2. Cardinality({}) = 0
    BY FS_EmptySet
  <2>3. Cardinality(Done(assignment) \cap CancelledAndRefunded) = 0
    BY <2>2, <1>4
  <2> HIDE DEF n, d, r
  <2> QED
    BY <2>1, <2>3, <1>1, <1>3
<1>6. SlotsWorth = reward * (w + (slots - o) - r)
  BY <1>2 DEF SlotsWorth, Working
<1> HIDE DEF w, d, o, r, n
<1>7. w + (slots - o) - r = slots - n
  BY <1>1, <1>3, <1>5, <1>u DEF r
<1>8. SlotsWorth = reward * (slots - Cardinality(Settled))
  BY <1>6, <1>7 DEF n
<1> QED
  BY <1>8 DEF ReserveInv, ReserveKept, CatalogReserve

(* For all performers, slots, rewards and resolution codes, consents,       *)
(* cancellations without fault and overtaking acceptances included: a task  *)
(* in the catalog holds the rewards of its active assignments and its free  *)
(* slots less those of the assignments cancelled with a refund, and a task  *)
(* that left the catalog holds no more than that.                           *)
THEOREM CatalogIsFunded == Spec => []CatalogReserve
<1>1. Init => ReserveInv
  <2> SUFFICES ASSUME Init PROVE ReserveInv
    OBVIOUS
  <2>1. \A p \in Performers : EntriesOf(p) = {}
    BY DEF Init, EntriesOf
  <2>2. Settled = {} /\ Cardinality(Settled) = 0
    BY <2>1, FS_EmptySet DEF Settled
  <2>3. Held = 0 /\ reward = 0 /\ slots = 0 /\ taskStatus = "draft"
    BY CreditEmpty DEF Init, Held
  <2> QED
    BY <2>2, <2>3, BooksInit DEF ReserveInv, ReserveKept
<1>2. ReserveInv /\ [Next]_vars => ReserveInv'
  BY BooksInvStep, ReserveStep DEF ReserveInv
<1> QED
  BY <1>1, <1>2, ReserveSays, PTL DEF Spec

-----------------------------------------------------------------------------
(* The lifecycle keeps the accounts of the escrow.                          *)

(* Counting is the same operator under both names.                          *)
LEMMA SameCount == \A S : Accounts!Cardinality(S) = Cardinality(S)
BY Zenon DEF Accounts!Cardinality, Cardinality

LEMMA EscrowInit == Init => Accounts!Init
<1> SUFFICES ASSUME Init PROVE Accounts!Init
  OBVIOUS
<1>1. \A p \in Performers : /\ EntriesOf(p) = {}
                            /\ {e \in EntriesOf(p) : e.member = p} = {}
  BY DEF Init, EntriesOf
<1>2. Held = 0 /\ reward = 0
  BY CreditEmpty DEF Init, Held
<1>3. [p \in Performers |-> CreditSum({e \in EntriesOf(p) : e.member = p})]
        = [p \in Performers |-> 0]
  BY <1>1, CreditEmpty
<1>4. Settled = {} /\ Shares = [p \in Performers |-> 0]
  BY <1>1, <1>3 DEF Settled, Shares
<1> QED
  BY <1>2, <1>4 DEF Accounts!Init

(* Settling a set of parties, none of them settled before, and returning    *)
(* the rest of what leaves the reserve to the creator, is a step of the     *)
(* escrow.                                                                  *)
LEMMA SettleStep ==
  ASSUME NEW P \in SUBSET Performers, OthersKept(P), UNCHANGED reward,
         \A p \in P : /\ EntriesOf(p) = {} /\ EntriesOf(p)' # {}
                      /\ CreditSum({e \in EntriesOf(p)' : e.member = p})
                           \in {0, PartialReward, reward},
         Held' \in Int, Held' <= Held - reward * Cardinality(P)
  PROVE  Accounts!Settle
<1>1. Settled' = Settled \cup P
  BY DEF Settled, OthersKept
<1>2. Settled \subseteq Settled' /\ Settled' \ Settled = P
  BY <1>1 DEF Settled
<1>3. \A p \in Performers :
        IF p \in Settled' \ Settled
        THEN Shares'[p] \in {0, (reward + 1) \div 2, reward}
        ELSE Shares'[p] = Shares[p]
  <2> SUFFICES ASSUME NEW p \in Performers
               PROVE  IF p \in P THEN Shares'[p] \in {0, (reward + 1) \div 2, reward}
                      ELSE Shares'[p] = Shares[p]
    BY <1>2
  <2>1. /\ Shares'[p] = CreditSum({e \in EntriesOf(p)' : e.member = p})
        /\ Shares[p] = CreditSum({e \in EntriesOf(p) : e.member = p})
    BY DEF Shares
  <2>2. CASE p \in P
    BY <2>1, <2>2 DEF PartialReward
  <2>3. CASE p \notin P
    BY <2>1, <2>3 DEF OthersKept
  <2> QED
    BY <2>2, <2>3
<1>4. Held' <= Held - reward * Cardinality(Settled' \ Settled)
  BY <1>2
<1>5. UNCHANGED reward
  OBVIOUS
<1>6. Accounts!Settle <=>
        /\ Settled \subseteq Settled'
        /\ \A p \in Performers :
             IF p \in Settled' \ Settled
             THEN Shares'[p] \in {0, (reward + 1) \div 2, reward}
             ELSE Shares'[p] = Shares[p]
        /\ Held' \in Int
        /\ Held' <= Held - reward * Accounts!Cardinality(Settled' \ Settled)
        /\ UNCHANGED reward
  BY Zenon DEF Accounts!Settle, Settled, Shares
<1> QED
  BY <1>2, <1>3, <1>4, <1>5, <1>6, SameCount

(* Returning credits to the creator is a step of the escrow too.            *)
LEMMA ReturnStep ==
  ASSUME OthersKept({}), UNCHANGED reward, reward \in Nat, Held \in Int,
         Held' \in Int, Held' <= Held
  PROVE  Accounts!Settle
<1>1. Cardinality({}) = 0 /\ reward * 0 = 0
  BY FS_EmptySet
<1>2. Held' <= Held - reward * Cardinality({})
  BY <1>1
<1> QED
  BY <1>2, SettleStep

(* What touches neither the ledger nor the reward leaves the escrow alone.  *)
LEMMA EscrowKept ==
  ASSUME UNCHANGED <<reward, ledger>>
  PROVE  UNCHANGED Accounts!escrowVars
<1>1. UNCHANGED <<Held, reward>> /\ \A p \in Performers : EntriesOf(p)' = EntriesOf(p)
  BY DEF Held, EntriesOf
<1>2. Settled' = Settled /\ Shares' = Shares
  BY <1>1 DEF Settled, Shares
<1>3. Accounts!escrowVars = <<Held, reward, Settled, Shares>>
  BY Zenon DEF Accounts!escrowVars, Settled, Shares
<1>4. Accounts!escrowVars' = <<Held', reward', Settled', Shares'>>
  BY Zenon DEF Accounts!escrowVars, Settled, Shares
<1> QED
  BY <1>1, <1>2, <1>3, <1>4

(* Funding is what the escrow allows while nobody is settled.               *)
LEMMA FundIsStep ==
  ASSUME Settled = {}, OthersKept({}), Held' \in Nat, reward' \in Nat
  PROVE  Accounts!Fund
<1>1. Settled' = Settled /\ Shares' = Shares
  BY DEF OthersKept, Settled, Shares
<1>2. Accounts!Fund <=> /\ Settled = {}
                          /\ Held' \in Nat /\ reward' \in Nat
                          /\ Settled' = Settled /\ Shares' = Shares
  BY Zenon DEF Accounts!Fund, Settled, Shares
<1> QED
  BY <1>1, <1>2

(* Every step of the lifecycle is one of the escrow, or leaves it alone.    *)
LEMMA EscrowStep ==
  BooksInv /\ BooksInv' /\ [Next]_vars
    => [Accounts!Next]_(Accounts!escrowVars)
<1> SUFFICES ASSUME BooksInv, BooksInv', [Next]_vars
             PROVE  Accounts!Next \/ UNCHANGED Accounts!escrowVars
  BY Zenon
<1>u. /\ TypeOK /\ IInv /\ Held \in Int /\ reward \in Nat /\ slots \in Nat
      /\ SlotsAreSingle
  BY HeldType DEF BooksInv, Books, IInv, TypeOK
<1>f. StepForm
  BY <1>u, StepForms
<1>a. StatusFacts
  BY StatusesAre
<1>h. Held' \in Int
  <2>1. TypeOK' /\ IsFiniteSet(ledger')
    BY DEF BooksInv, Books, IInv
  <2>2. IsBatch(ledger')
    BY <2>1 DEF IsBatch, TypeOK, LedgerRows
  <2> QED
    BY <2>2, CreditType DEF Held
<1>n. (Accounts!Fund => Accounts!Next) /\ (Accounts!Settle => Accounts!Next)
  BY Zenon DEF Accounts!Next
<1>1. ASSUME UNCHANGED <<Columns, ledger>> PROVE UNCHANGED Accounts!escrowVars
  BY <1>1, EscrowKept DEF Columns
<1>2. CASE Funds
  <2>1. \A p \in Performers : assignment[p].status \in Unsettled
    BY <1>2 DEF Funds, Accepted, Unsettled
  <2>2. Settled = {}
    BY <2>1, <1>u, NothingBooked DEF Settled
  <2>3. OthersKept({}) /\ reward' \in Nat /\ Held' \in Nat
    <3>1. slots' \in Nat /\ reward' \in Nat /\ Held' = slots' * reward'
      BY <1>2, ExchangeAssumption DEF Funds
    <3>2. slots' * reward' \in Nat
      BY <3>1, Multiplies
    <3> QED
      BY <1>2, <3>1, <3>2 DEF Funds
  <2> QED
    BY <2>2, <2>3, <1>n, FundIsStep
<1>3. ASSUME NEW p \in Performers, NEW s, Settles(p, s) PROVE Accounts!Next
  <2>1. /\ UNCHANGED reward /\ OthersKept({p}) /\ Held' = Held - reward
        /\ EntriesOf(p) = {} /\ EntriesOf(p)' # {}
        /\ CreditSum({e \in EntriesOf(p)' : e.member = p})
             \in {0, PartialReward, reward}
    BY <1>3 DEF Settles, Columns
  <2>2. Cardinality({p}) = 1 /\ reward * 1 = reward
    <3>1. Cardinality({p}) = 1
      BY FS_Singleton
    <3> QED
      BY <3>1, <1>u
  <2>3. Held' \in Int /\ Held' <= Held - reward * Cardinality({p})
    BY <2>1, <2>2, <1>h, <1>u
  <2>4. {p} \in SUBSET Performers
    OBVIOUS
  <2>5. Accounts!Settle
    BY <2>1, <2>3, <2>4, SettleStep
  <2> QED
    BY <2>5, <1>n
<1>4. ASSUME OthersKept({}), UNCHANGED Columns, NEW c \in Nat, Held' = Held - c
      PROVE  Accounts!Next
  <2>1. Held' <= Held /\ UNCHANGED reward
    BY <1>4, <1>u DEF Columns
  <2>2. Accounts!Settle
    BY <2>1, <1>4, <1>u, <1>h, ReturnStep
  <2> QED
    BY <2>2, <1>n
<1>5. CASE Withdraws
  <2>1. reservedTotal \in Nat
    BY <1>u DEF TypeOK
  <2> QED
    BY <1>4, <1>5, <2>1 DEF Withdraws
<1>6. CASE Closes
  <2>1. UnoccupiedCount * reward \in Nat
    <3>1. UnoccupiedCount \in Nat
      BY <1>u, UnoccupiedType
    <3> QED
      BY <3>1, <1>u
  <2>2. CASE UNCHANGED ledger
    BY <1>1, <1>6, <2>2 DEF Closes
  <2>3. CASE OthersKept({}) /\ Held' = Held - UnoccupiedCount * reward
    BY <1>4, <1>6, <2>1, <2>3 DEF Closes
  <2> QED
    BY <1>6, <2>2, <2>3 DEF Closes
<1>7. CASE Lapses
  <2>1. /\ UNCHANGED reward /\ OthersKept(LateAssignments)
        /\ Held' = Held - reward * Cardinality(LateAssignments)
                        - UnfilledSlots * reward
        /\ \A p \in LateAssignments :
             /\ EntriesOf(p) = {} /\ EntriesOf(p)' # {}
             /\ {e \in EntriesOf(p)' : e.member = p} = {}
    BY <1>7 DEF Lapses, Columns
  <2>2. LateAssignments \in SUBSET Performers
    BY DEF LateAssignments
  <2>3. Cardinality(LateAssignments) \in Nat
    BY <2>2, ExchangeAssumption, FS_Subset, FS_CardinalityType
  <2>4. UnfilledSlots * reward \in Nat
    <3>1. UnfilledSlots \in Nat
      BY <1>u, UnfilledType
    <3> QED
      BY <3>1, <1>u
  <2>5. reward * Cardinality(LateAssignments) \in Int
    BY <2>3, <1>u
  <2>6. Held' \in Int /\ Held' <= Held - reward * Cardinality(LateAssignments)
    BY <2>1, <2>4, <2>5, <1>u, <1>h
  <2>7. \A p \in LateAssignments :
          CreditSum({e \in EntriesOf(p)' : e.member = p}) \in {0, PartialReward, reward}
    BY <2>1, CreditEmpty
  <2>8. Accounts!Settle
    BY <2>1, <2>2, <2>6, <2>7, SettleStep
  <2> QED
    BY <2>8, <1>n
<1>8. ASSUME NEW p \in Performers, Joins(p) \/ Leaves(p)
      PROVE  UNCHANGED Accounts!escrowVars
  BY <1>1, <1>8 DEF Joins, Leaves
<1>9. ASSUME NEW p \in Performers, NEW s \in ActiveStatuses, Moves(p, s)
      PROVE  UNCHANGED Accounts!escrowVars
  BY <1>1, <1>9 DEF Moves
<1>10. CASE Rests
  BY <1>1, <1>10 DEF Rests
<1>11. ASSUME NEW p \in Performers, GivesUp(p) PROVE Accounts!Next
  BY <1>3, <1>11 DEF GivesUp
<1>12. ASSUME NEW p \in Performers, NEW s \in FinalStatuses, Decides(p, s)
       PROVE  Accounts!Next
  BY <1>3, <1>12 DEF Decides
<1> QED
  BY <1>f, <1>2, <1>5, <1>6, <1>7, <1>8, <1>9, <1>10, <1>11, <1>12 DEF StepForm

(* On every path the lifecycle keeps the accounts of the escrow: each of    *)
(* its steps settles parties, each once in the life of the task, takes one  *)
(* reward out of the reserve for each of them and pays the party all, the   *)
(* rounded half or nothing of it, or returns credits to the creator, or     *)
(* leaves the money alone.  That the reserve suffices is not claimed: it    *)
(* need not (see CatalogReserve).                                           *)
THEOREM Refinement == Spec => KeepsAccounts
BY BooksInit, BooksInvStep, EscrowInit, EscrowStep, PTL
   DEF Spec, KeepsAccounts, Accounts!Spec
=============================================================================
