--------------------------- MODULE DeliveryProofs ---------------------------
(* Theorems about the outbox and the delivery of notifications, for any     *)
(* workers, events, reminders, tags and bounds.                             *)
EXTENDS Delivery, TLAPS

(* Workers in the half of the tick that claims and sends notifications.     *)
Sending == {"notes", "send", "mark"}

(* Claims of the announcement somebody still works on, stale ones included. *)
PostClaims(w) == {c \in worker[w].claims : c.row = Post}

(* The message of this claim may have left.                                 *)
Left(w, c) ==
  worker[w].pc = "mark" /\ worker[w].outcome \in {"ok", "lost"} /\ c \in worker[w].hand

(* Revisions that have not been observed have no outbox row.                *)
FutureIsEmpty == \A r \in Revisions : r > revision => outbox[r] = NoRow

(* A worker sends for one of its claims at a time.                          *)
OneInHand ==
  \A w \in Workers : worker[w].pc \in {"send", "mark"} =>
                       \E c \in worker[w].claims : worker[w].hand = {c}

(* A leased notification counts an attempt.                                 *)
LeasedIsAttempted == \A n \in Notes : note[n].status = "processing" => note[n].attempts > 0

(* At most one claim of the announcement is being worked on.                *)
OneClaim ==
  \A v, w \in Workers : worker[v].pc \in Sending /\ worker[w].pc \in Sending =>
    \A c \in PostClaims(v), d \in PostClaims(w) : v = w /\ c = d

(* The announcement has not left as long as its claim has not sent it.      *)
UnsentIsUndelivered ==
  \A w \in Workers : worker[w].pc \in Sending =>
    \A c \in PostClaims(w) : Left(w, c) \/ delivered[Post] = 0

(* An announcement that may still be claimed has not left, and nobody is    *)
(* about to send it.                                                        *)
Open == note[Post].status = "pending" \/ note[Post].attempts = 0
OpenIsUndelivered ==
  Open =>
    /\ delivered[Post] = 0
    /\ \A w \in Workers : worker[w].pc \in Sending => PostClaims(w) = {}

(* The inductive invariant behind AnnouncedAtMostOnce.                      *)
AnnouncementInv ==
  /\ OneInHand /\ LeasedIsAttempted
  /\ OneClaim /\ UnsentIsUndelivered /\ OpenIsUndelivered
  /\ AnnouncedAtMostOnce
-----------------------------------------------------------------------------
(* What the operations on a row leave.                                      *)

(* Leaving processing clears the lease and keeps the count of attempts.     *)
LEMMA FinishedRow ==
  ASSUME NEW statuses, NEW row \in Rows(statuses),
         NEW s \in statuses, s # "processing"
  PROVE  /\ Finished(row, s) \in Rows(statuses)
         /\ Finished(row, s).status = s
         /\ Finished(row, s).attempts = row.attempts
BY DEF Finished, Rows

(* A row that is taken up again is pending, or has failed for good.         *)
LEMMA RetriedRow ==
  ASSUME NEW statuses, NEW row \in Rows(statuses), NEW permanent \in BOOLEAN,
         {"pending", "failed"} \subseteq statuses
  PROVE  /\ Retried(row, permanent) \in Rows(statuses)
         /\ Retried(row, permanent).status \in {"pending", "failed"}
         /\ permanent => Retried(row, permanent).status = "failed"
         /\ Retried(row, permanent).attempts = row.attempts
<1>1. CASE permanent
  BY <1>1, FinishedRow DEF Retried
<1>2. CASE ~permanent
  <2>1. CASE Exhausted(row)
    BY <1>2, <2>1, FinishedRow DEF Retried
  <2>2. CASE ~Exhausted(row)
    BY <1>2, <2>2, FinishedRow DEF Retried
  <2> QED
    BY <2>1, <2>2
<1> QED
  BY <1>1, <1>2

(* A claim leases the row and counts the attempt.                           *)
LEMMA LeasedRow ==
  ASSUME NEW statuses, NEW row \in Rows(statuses), "processing" \in statuses
  PROVE  /\ Leased(row) \in Rows(statuses)
         /\ Leased(row).status = "processing"
         /\ NextAttempt(row) \in Nat \ {0}
         /\ Leased(row).attempts = NextAttempt(row)
<1>1. MaxAttempts \in Nat /\ MaxCrashes \in Nat /\ MaxOverruns \in Nat
  BY DeliveryAssumption
<1>2. row.attempts \in Nat
  BY DEF Rows
<1>3. NextAttempt(row) \in Nat \ {0}
  BY <1>1, <1>2 DEF NextAttempt
<1> QED
  BY <1>3 DEF Leased, Rows

(* A new row is pending and has not been attempted.                         *)
LEMMA NewRowType ==
  ASSUME NEW statuses, NEW due \in BOOLEAN, {"none", "pending"} \subseteq statuses
  PROVE  /\ NoRow \in Rows(statuses)
         /\ NewRow(due) \in Rows(statuses)
         /\ NewRow(due).status = "pending" /\ NewRow(due).attempts = 0
BY DEF NewRow, NoRow, Rows

(* The due date is no part of a row's state.                                *)
LEMMA DueRow ==
  ASSUME NEW statuses, NEW row \in Rows(statuses)
  PROVE  /\ [row EXCEPT !.due = TRUE] \in Rows(statuses)
         /\ [row EXCEPT !.due = TRUE].status = row.status
         /\ [row EXCEPT !.due = TRUE].attempts = row.attempts
BY DEF Rows

(* What a claim of notifications does to the rows and the worker, once the  *)
(* batch S and those of it that may be sent are fixed.                      *)
ClaimedNotes(w, S, sendable) ==
  /\ sendable \subseteq S
  /\ \A n \in sendable : ~Uncertain(n) /\ IsCurrent(n)
  /\ note' = [n \in Notes |-> IF n \in sendable THEN Leased(note[n])
                              ELSE IF n \in S THEN Finished(note[n], "failed")
                              ELSE note[n]]
  /\ worker' = [worker EXCEPT ![w].pc = "notes",
                  ![w].claims = {ClaimOf(n, note) : n \in sendable}]

LEMMA NotesClaimed ==
  ASSUME TypeOK, NEW w \in Workers, ClaimNotes(w)
  PROVE  \E S \in Batches(note), sendable \in SUBSET Notes : ClaimedNotes(w, S, sendable)
<1> DEFINE sendableOf(S) == {n \in S : ~Uncertain(n) /\ IsCurrent(n)}
<1>1. PICK S \in Batches(note) :
        /\ note' = [n \in Notes |-> IF n \in sendableOf(S) THEN Leased(note[n])
                                    ELSE IF n \in S THEN Finished(note[n], "failed")
                                    ELSE note[n]]
        /\ worker' = [worker EXCEPT ![w].pc = "notes",
                        ![w].claims = {ClaimOf(n, note) : n \in sendableOf(S)}]
  BY DEF ClaimNotes
<1>2. sendableOf(S) \in SUBSET Notes
  BY DEF Batches, Claimable, TypeOK
<1>3. ClaimedNotes(w, S, sendableOf(S))
  BY <1>1 DEF ClaimedNotes
<1> HIDE DEF sendableOf
<1> QED
  BY <1>2, <1>3

(* A failure after which the notification is given up.                      *)
Lasting(w, c) == \/ worker[w].outcome = "refused"
                 \/ worker[w].outcome = "lost" /\ c.row = Post

(* What the end of a sending does under the claim c in hand.                *)
MarkedNotes(w, c) ==
  /\ \/ ~Holds(c, note) /\ note' = note
     \/ /\ Holds(c, note)
        /\ worker[w].outcome = "ok"
        /\ note' = [note EXCEPT ![c.row] = Finished(note[c.row], "sent")]
     \/ /\ Holds(c, note)
        /\ worker[w].outcome # "ok"
        /\ note' = [note EXCEPT ![c.row] = Retried(note[c.row], Lasting(w, c))]
  /\ worker' = [worker EXCEPT ![w].pc = "notes", ![w].claims = @ \ {c},
                              ![w].hand = {}, ![w].outcome = "none"]

LEMMA NotesMarked ==
  ASSUME NEW w \in Workers, Mark(w)
  PROVE  \E c \in worker[w].hand : MarkedNotes(w, c)
<1>1. PICK c \in worker[w].hand :
        /\ note' = IF ~MayMark(c, note) THEN note
                   ELSE [note EXCEPT ![c.row] =
                           IF worker[w].outcome = "ok" THEN Finished(@, "sent")
                           ELSE Retried(@, Lasting(w, c))]
        /\ worker' = [worker EXCEPT ![w].pc = "notes", ![w].claims = @ \ {c},
                                    ![w].hand = {}, ![w].outcome = "none"]
  BY DEF Mark, Lasting
<1>2. MarkedNotes(w, c)
  BY <1>1 DEF MarkedNotes, MayMark
<1> QED
  BY <1>2

-----------------------------------------------------------------------------
(* TypeOK is inductive.                                                     *)

(* Empty tables and idle workers are well typed.                            *)
LEMMA TypeInit == Init => TypeOK
<1> SUFFICES ASSUME Init PROVE TypeOK
  OBVIOUS
<1>1. NoRow \in Rows(OutboxStatuses) /\ NoRow \in Rows(NoteStatuses)
  BY NewRowType DEF OutboxStatuses, NoteStatuses
<1> QED
  BY <1>1, DeliveryAssumption DEF Init, TypeOK, Waiting, WorkerStates

(* Every action keeps every variable within its declared values.            *)
LEMMA TypeStep == TypeOK /\ [Next]_vars => TypeOK'
<1> SUFFICES ASSUME TypeOK, [Next]_vars PROVE TypeOK'
  OBVIOUS
<1> USE DEF TypeOK
<1>a. /\ {"none", "pending", "processing", "materialized", "failed"} \subseteq OutboxStatuses
      /\ {"none", "pending", "processing", "sent", "failed"} \subseteq NoteStatuses
  BY DEF OutboxStatuses, NoteStatuses
<1>b. /\ \A r \in OutboxRows : outbox[r] \in Rows(OutboxStatuses)
      /\ \A n \in Notes : note[n] \in Rows(NoteStatuses)
  OBVIOUS
<1>c. /\ \A due \in BOOLEAN : NewRow(due) \in Rows(OutboxStatuses)
      /\ \A due \in BOOLEAN : NewRow(due) \in Rows(NoteStatuses)
  BY <1>a, NewRowType
<1>d. MaxRevisions \in Nat /\ MaxCrashes \in Nat /\ MaxOverruns \in Nat
  BY DeliveryAssumption
<1>e. Revisions \subseteq OutboxRows /\ Events \subseteq OutboxRows /\ Events \subseteq Notes
      /\ Post \in Notes /\ Reminders \subseteq Notes
  BY DEF OutboxRows, Notes
<1>1. ASSUME NEW e \in Events, Emit(e) PROVE TypeOK'
  BY <1>1, <1>c, <1>e DEF Emit, domain, counters
<1>2. ASSUME NEW t \in Tags \cup {NoTag}, Observe(t) PROVE TypeOK'
  <2>1. outbox' \in [OutboxRows -> Rows(OutboxStatuses)]
    BY <1>2, <1>c DEF Observe
  <2>2. /\ tag' \in Tags \cup {NoTag} /\ revision' \in 0..MaxRevisions
        /\ UNCHANGED <<note, carried, current, worker, delivered, crashes, overruns>>
    BY <1>2, <1>d DEF Observe, counters
  <2> QED
    BY <2>1, <2>2
<1>3. ASSUME NEW n \in Notes, Reconsider(n) PROVE TypeOK'
  BY <1>3 DEF Reconsider, queues, counters
<1>4. ASSUME NEW r \in OutboxRows, OutboxDue(r) PROVE TypeOK'
  <2>1. outbox' = [outbox EXCEPT ![r] = [outbox[r] EXCEPT !.due = TRUE]]
    BY <1>4 DEF OutboxDue
  <2>2. outbox' \in [OutboxRows -> Rows(OutboxStatuses)]
    BY <2>1, <1>b, DueRow
  <2>3. overruns' \in 0..MaxOverruns
    BY <1>4, <1>d DEF OutboxDue
  <2> QED
    BY <2>2, <2>3, <1>4 DEF OutboxDue, domain
<1>5. ASSUME NEW n \in Notes, NoteDue(n) PROVE TypeOK'
  <2>1. note' = [note EXCEPT ![n] = [note[n] EXCEPT !.due = TRUE]]
    BY <1>5 DEF NoteDue
  <2>2. note' \in [Notes -> Rows(NoteStatuses)]
    BY <2>1, <1>b, DueRow
  <2>3. overruns' \in 0..MaxOverruns
    BY <1>5, <1>d DEF NoteDue
  <2> QED
    BY <2>2, <2>3, <1>5 DEF NoteDue, domain
<1>6. ASSUME NEW w \in Workers, StageReminders(w) PROVE TypeOK'
  <2>1. Finished(NoRow, "failed") \in Rows(NoteStatuses)
    BY <1>a, NewRowType, FinishedRow
  <2>2. note' \in [Notes -> Rows(NoteStatuses)]
    BY <2>1, <1>6, <1>b, <1>c DEF StageReminders
  <2> QED
    BY <2>2, <1>6 DEF StageReminders, WorkerStates, domain, counters
<1>7. ASSUME NEW w \in Workers, ClaimOutbox(w) PROVE TypeOK'
  <2>1. PICK S \in Batches(outbox) :
          /\ outbox' = [r \in OutboxRows |->
                          IF r \in S THEN Leased(outbox[r]) ELSE outbox[r]]
          /\ worker' = [worker EXCEPT ![w].pc = "events",
                          ![w].claims = {ClaimOf(r, outbox) : r \in S}]
    BY <1>7 DEF ClaimOutbox
  <2>2. S \subseteq OutboxRows
    BY <2>1 DEF Batches, Claimable
  <2>3. \A r \in OutboxRows : Leased(outbox[r]) \in Rows(OutboxStatuses)
                               /\ NextAttempt(outbox[r]) \in Nat
    BY <1>a, <1>b, LeasedRow
  <2>4. outbox' \in [OutboxRows -> Rows(OutboxStatuses)]
    BY <2>1, <2>3, <1>b
  <2>5. {ClaimOf(r, outbox) : r \in S} \in SUBSET Claims
    BY <2>2, <2>3 DEF ClaimOf, Claims
  <2>6. worker' \in [Workers -> WorkerStates]
    BY <2>1, <2>5 DEF WorkerStates
  <2> QED
    BY <2>4, <2>6, <1>7 DEF ClaimOutbox, domain, counters
<1>8. ASSUME NEW w \in Workers, NEW c \in worker[w].claims, Materialize(w, c)
      PROVE  TypeOK'
  <2>1. outbox' \in [OutboxRows -> Rows(OutboxStatuses)]
    <3>1. outbox' = [outbox EXCEPT ![c.row] = Finished(outbox[c.row], "materialized")]
      BY <1>8 DEF Materialize
    <3>2. \A r \in OutboxRows : Finished(outbox[r], "materialized") \in Rows(OutboxStatuses)
      BY <1>a, <1>b, FinishedRow
    <3> QED
      BY <3>1, <3>2
  <2>2. note' \in [Notes -> Rows(NoteStatuses)] /\ carried' \in Tags \cup {NoTag}
    BY <1>8, <1>c DEF Materialize
  <2> QED
    BY <2>1, <2>2, <1>8 DEF Materialize, Drop, WorkerStates, domain, counters
<1>9. ASSUME NEW w \in Workers, NEW c \in worker[w].claims, FailOutbox(w, c)
      PROVE  TypeOK'
  <2>1. outbox' \in [OutboxRows -> Rows(OutboxStatuses)]
    <3>1. \/ outbox' = [outbox EXCEPT ![c.row] = Retried(outbox[c.row], FALSE)]
          \/ outbox' = outbox
      BY <1>9 DEF FailOutbox
    <3>2. \A r \in OutboxRows : Retried(outbox[r], FALSE) \in Rows(OutboxStatuses)
      BY <1>a, <1>b, RetriedRow
    <3> QED
      BY <3>1, <3>2, ZenonT(30)
  <2> QED
    BY <2>1, <1>9 DEF FailOutbox, Drop, WorkerStates, domain, counters
<1>10. ASSUME NEW w \in Workers, ClaimNotes(w) PROVE TypeOK'
  <2>1. PICK S \in Batches(note), sendable \in SUBSET Notes :
          ClaimedNotes(w, S, sendable)
    BY <1>10, NotesClaimed
  <2>2. S \subseteq Notes
    BY DEF Batches, Claimable
  <2>3. \A n \in Notes : /\ Leased(note[n]) \in Rows(NoteStatuses)
                         /\ Finished(note[n], "failed") \in Rows(NoteStatuses)
                         /\ NextAttempt(note[n]) \in Nat
    BY <1>a, <1>b, LeasedRow, FinishedRow
  <2>4. note' \in [Notes -> Rows(NoteStatuses)]
    BY <2>1, <2>3, <1>b DEF ClaimedNotes
  <2>5. {ClaimOf(n, note) : n \in sendable} \in SUBSET Claims
    BY <2>1, <2>2, <2>3 DEF ClaimOf, Claims
  <2>6. worker' \in [Workers -> WorkerStates]
    BY <2>1, <2>5 DEF ClaimedNotes, WorkerStates
  <2> QED
    BY <2>4, <2>6, <1>10 DEF ClaimNotes, domain, counters
<1>11. ASSUME NEW w \in Workers, NEW c \in worker[w].claims, Recheck(w, c)
       PROVE  TypeOK'
  BY <1>11 DEF Recheck, WorkerStates, queues, domain, counters
<1>12. ASSUME NEW w \in Workers, Send(w) PROVE TypeOK'
  <2>0. PICK outcome \in {"ok", "lost", "limited", "refused"}, c \in worker[w].hand :
          /\ worker' = [worker EXCEPT ![w].pc = "mark", ![w].outcome = outcome]
          /\ \/ delivered' = [delivered EXCEPT ![c.row] = @ + 1]
             \/ delivered' = delivered
    BY <1>12 DEF Send
  <2>1. worker' \in [Workers -> WorkerStates]
    BY <2>0 DEF WorkerStates
  <2>2. delivered' \in [Notes -> Nat]
    BY <2>0
  <2> QED
    BY <2>1, <2>2, <1>12 DEF Send, queues, domain, counters
<1>13. ASSUME NEW w \in Workers, Mark(w) PROVE TypeOK'
  <2>1. PICK c \in worker[w].hand : MarkedNotes(w, c)
    BY <1>13, NotesMarked
  <2>2. \A n \in Notes : /\ Finished(note[n], "sent") \in Rows(NoteStatuses)
                         /\ Retried(note[n], Lasting(w, c)) \in Rows(NoteStatuses)
    BY <1>a, <1>b, FinishedRow, RetriedRow DEF Lasting
  <2>3. note' \in [Notes -> Rows(NoteStatuses)]
    BY <2>1, <2>2 DEF MarkedNotes
  <2>4. worker' \in [Workers -> WorkerStates]
    BY <2>1 DEF MarkedNotes, WorkerStates
  <2> QED
    BY <2>3, <2>4, <1>13 DEF Mark, domain, counters
<1>14. ASSUME NEW w \in Workers, EndTick(w) PROVE TypeOK'
  BY <1>14 DEF EndTick, Waiting, WorkerStates, queues, domain, counters
<1>15. ASSUME NEW w \in Workers, Crash(w) PROVE TypeOK'
  BY <1>15, <1>d DEF Crash, Waiting, WorkerStates, queues, domain
<1>16. CASE UNCHANGED vars
  BY <1>16, SMTT(30) DEF vars, queues, domain, counters
<1> QED
  BY <1>1, <1>2, <1>3, <1>4, <1>5, <1>6, <1>7, <1>8, <1>9, <1>10, <1>11, <1>12,
     <1>13, <1>14, <1>15, <1>16 DEF Next, TimePasses, Tick
-----------------------------------------------------------------------------
(* Nothing that has been attempted and closed is reopened.                  *)

(* Only an observation fills the outbox row of a revision.                  *)
LEMMA FutureStep == TypeOK /\ FutureIsEmpty /\ [Next]_vars => FutureIsEmpty'
<1> SUFFICES ASSUME TypeOK, FutureIsEmpty, [Next]_vars,
                    NEW r \in Revisions, r > revision'
             PROVE  outbox'[r] = NoRow
  BY DEF FutureIsEmpty
<1>a. MaxRevisions \in Nat
  BY DeliveryAssumption
<1>b. r \in OutboxRows /\ r \in Nat /\ revision \in Nat
  BY <1>a DEF OutboxRows, Revisions, TypeOK
<1>c. revision' = revision \/ revision' = revision + 1
  BY ZenonT(30) DEF Next, vars, queues, domain, counters, Emit, Observe, Reconsider, TimePasses, OutboxDue,
         NoteDue, Tick, StageReminders, ClaimOutbox, Materialize, FailOutbox,
         ClaimNotes, Recheck, Send, Mark, EndTick, Crash
<1>d. outbox[r] = NoRow
  BY <1>b, <1>c DEF FutureIsEmpty
<1>e. outbox[r].status = "none"
  BY <1>d DEF NoRow
<1> USE DEF TypeOK
<1>1. ASSUME NEW e \in Events, Emit(e) PROVE outbox'[r] = NoRow
  <2>1. r # e
    BY DeliveryAssumption
  <2> QED
    BY <1>1, <2>1, <1>b, <1>d DEF Emit
<1>2. ASSUME NEW t \in Tags \cup {NoTag}, Observe(t) PROVE outbox'[r] = NoRow
  <2>1. r # revision + 1
    BY <1>2, <1>b DEF Observe
  <2> QED
    BY <1>2, <2>1, <1>b, <1>d DEF Observe
<1>3. ASSUME NEW q \in OutboxRows, OutboxDue(q) PROVE outbox'[r] = NoRow
  BY <1>3, <1>b, <1>d, <1>e DEF OutboxDue
<1>4. ASSUME NEW w \in Workers, ClaimOutbox(w) PROVE outbox'[r] = NoRow
  <2>1. PICK S \in Batches(outbox) :
          outbox' = [q \in OutboxRows |-> IF q \in S THEN Leased(outbox[q]) ELSE outbox[q]]
    BY <1>4 DEF ClaimOutbox
  <2>2. r \notin S
    BY <1>e DEF Batches, Claimable
  <2> QED
    BY <2>1, <2>2, <1>b, <1>d
<1>5. ASSUME NEW w \in Workers, NEW c \in worker[w].claims,
             Materialize(w, c) \/ FailOutbox(w, c)
      PROVE  outbox'[r] = NoRow
  <2>1. outbox' = outbox \/ c.row # r
    BY <1>5, <1>e DEF Materialize, FailOutbox, Holds
  <2>2. \/ outbox' = outbox
        \/ \E row : outbox' = [outbox EXCEPT ![c.row] = row]
    BY <1>5 DEF Materialize, FailOutbox
  <2> QED
    BY <2>1, <2>2, <1>b, <1>d
<1>6. CASE UNCHANGED outbox
  BY <1>6, <1>d
<1> QED
  BY <1>1, <1>2, <1>3, <1>4, <1>5, <1>6
     DEF Next, vars, queues, TimePasses, Tick, Reconsider, NoteDue, StageReminders,
         ClaimNotes, Recheck, Send, Mark, EndTick, Crash

(* What a step may do to a row of the outbox that is closed: nothing.       *)
LEMMA OutboxStaysClosed ==
  ASSUME TypeOK, FutureIsEmpty, [Next]_vars, NEW r \in OutboxRows,
         outbox[r].status \in {"materialized", "failed"}
  PROVE  outbox'[r].status = outbox[r].status
<1> USE DEF TypeOK
<1>a. MaxRevisions \in Nat
  BY DeliveryAssumption
<1>b. outbox[r] # NoRow
  BY DEF NoRow
<1>1. ASSUME NEW e \in Events, Emit(e) PROVE outbox'[r] = outbox[r]
  BY <1>1, <1>b DEF Emit
<1>2. ASSUME NEW t \in Tags \cup {NoTag}, Observe(t) PROVE outbox'[r] = outbox[r]
  <2>1. revision + 1 \in Revisions /\ revision + 1 > revision
    BY <1>2, <1>a DEF Observe, Revisions
  <2>2. r # revision + 1
    BY <2>1, <1>b DEF FutureIsEmpty
  <2> QED
    BY <1>2, <2>2 DEF Observe
<1>3. ASSUME NEW q \in OutboxRows, OutboxDue(q) PROVE outbox'[r] = outbox[r]
  BY <1>3 DEF OutboxDue
<1>4. ASSUME NEW w \in Workers, ClaimOutbox(w) PROVE outbox'[r] = outbox[r]
  <2>1. PICK S \in Batches(outbox) :
          outbox' = [q \in OutboxRows |-> IF q \in S THEN Leased(outbox[q]) ELSE outbox[q]]
    BY <1>4 DEF ClaimOutbox
  <2>2. r \notin S
    BY DEF Batches, Claimable
  <2> QED
    BY <2>1, <2>2
<1>5. ASSUME NEW w \in Workers, NEW c \in worker[w].claims,
             Materialize(w, c) \/ FailOutbox(w, c)
      PROVE  outbox'[r] = outbox[r]
  <2>1. outbox' = outbox \/ c.row # r
    BY <1>5 DEF Materialize, FailOutbox, Holds
  <2>2. \/ outbox' = outbox
        \/ \E row : outbox' = [outbox EXCEPT ![c.row] = row]
    BY <1>5 DEF Materialize, FailOutbox
  <2> QED
    BY <2>1, <2>2
<1>6. CASE UNCHANGED outbox
  BY <1>6
<1> QED
  BY <1>1, <1>2, <1>3, <1>4, <1>5, <1>6
     DEF Next, vars, queues, TimePasses, Tick, Reconsider, NoteDue, StageReminders,
         ClaimNotes, Recheck, Send, Mark, EndTick, Crash

(* Nor does a step reopen a notification that was attempted and is closed.  *)
LEMMA NoteStaysClosed ==
  ASSUME TypeOK, [Next]_vars, NEW n \in Notes,
         note[n].status \in {"sent", "failed"}, note[n].attempts > 0
  PROVE  note'[n].status = note[n].status
<1> USE DEF TypeOK
<1>b. note[n] # NoRow /\ ~Refreshable(note[n])
  <2>1. note[n].attempts # 0
    BY DEF Rows
  <2> QED
    BY <2>1 DEF NoRow, Refreshable
<1>1. ASSUME NEW m \in Notes, NoteDue(m) PROVE note'[n] = note[n]
  BY <1>1 DEF NoteDue
<1>2. ASSUME NEW w \in Workers, StageReminders(w) PROVE note'[n] = note[n]
  BY <1>2, <1>b DEF StageReminders
<1>3. ASSUME NEW w \in Workers, NEW c \in worker[w].claims, Materialize(w, c)
      PROVE  note'[n] = note[n]
  BY <1>3, <1>b DEF Materialize
<1>4. ASSUME NEW w \in Workers, ClaimNotes(w) PROVE note'[n] = note[n]
  <2>1. PICK S \in Batches(note), sendable \in SUBSET Notes : ClaimedNotes(w, S, sendable)
    BY <1>4, NotesClaimed
  <2>2. n \notin S
    BY DEF Batches, Claimable
  <2> QED
    BY <2>1, <2>2 DEF ClaimedNotes
<1>5. ASSUME NEW w \in Workers, Mark(w) PROVE note'[n] = note[n]
  <2>1. PICK c \in worker[w].hand : MarkedNotes(w, c)
    BY <1>5, NotesMarked
  <2>2. ~Holds(c, note) \/ c.row # n
    BY DEF Holds
  <2> QED
    BY <2>1, <2>2 DEF MarkedNotes
<1>6. CASE UNCHANGED note
  BY <1>6
<1> QED
  BY <1>1, <1>2, <1>3, <1>4, <1>5, <1>6
     DEF Next, vars, queues, TimePasses, Tick, Emit, Observe, Reconsider, OutboxDue,
         ClaimOutbox, FailOutbox, Recheck, Send, EndTick, Crash
-----------------------------------------------------------------------------
(* The announcement arrives at most once.                                   *)

(* A worker takes one claim in hand, and marks it before it takes another.  *)
LEMMA HandStep == TypeOK /\ OneInHand /\ [Next]_vars => OneInHand'
<1> SUFFICES ASSUME TypeOK, OneInHand, [Next]_vars,
                    NEW v \in Workers, worker'[v].pc \in {"send", "mark"}
             PROVE  \E c \in worker'[v].claims : worker'[v].hand = {c}
  BY DEF OneInHand
<1> USE DEF TypeOK, WorkerStates
<1>a. worker[v].pc \in {"send", "mark"} => \E c \in worker[v].claims : worker[v].hand = {c}
  BY DEF OneInHand
<1>1. ASSUME NEW w \in Workers, NEW c \in worker[w].claims, Recheck(w, c)
      PROVE  \E d \in worker'[v].claims : worker'[v].hand = {d}
  BY <1>1, <1>a DEF Recheck
<1>2. ASSUME NEW w \in Workers, Send(w)
      PROVE  \E d \in worker'[v].claims : worker'[v].hand = {d}
  BY <1>2, <1>a DEF Send
<1>3. ASSUME NEW w \in Workers, NEW c \in worker[w].claims,
             Materialize(w, c) \/ FailOutbox(w, c)
      PROVE  \E d \in worker'[v].claims : worker'[v].hand = {d}
  <2>1. worker' = [worker EXCEPT ![w].claims = @ \ {c}] /\ worker[w].pc = "events"
    BY <1>3 DEF Materialize, FailOutbox, Drop
  <2> QED
    BY <2>1, <1>a
<1>4. ASSUME NEW w \in Workers,
             \/ StageReminders(w) \/ ClaimOutbox(w) \/ ClaimNotes(w)
             \/ Mark(w) \/ EndTick(w) \/ Crash(w)
      PROVE  \E d \in worker'[v].claims : worker'[v].hand = {d}
  <2>1. \A u \in Workers : u # w => worker'[u] = worker[u]
    BY <1>4 DEF StageReminders, ClaimOutbox, ClaimNotes, Mark, EndTick, Crash
  <2>2. worker'[w].pc \in {"idle", "claim", "events", "notes"}
    <3>1. CASE StageReminders(w) \/ ClaimOutbox(w)
      BY <3>1 DEF StageReminders, ClaimOutbox
    <3>2. CASE ClaimNotes(w)
      BY <3>2 DEF ClaimNotes
    <3>4. CASE Mark(w)
      <4>1. PICK c \in worker[w].hand : MarkedNotes(w, c)
        BY <3>4, NotesMarked
      <4> QED
        BY <4>1 DEF MarkedNotes
    <3>3. CASE EndTick(w) \/ Crash(w)
      <4>1. worker'[w] = Waiting
        BY <3>3 DEF EndTick, Crash
      <4> QED
        BY <4>1 DEF Waiting
    <3> QED
      BY <1>4, <3>1, <3>2, <3>3, <3>4
  <2> QED
    BY <2>1, <2>2, <1>a
<1>5. CASE UNCHANGED worker
  BY <1>5, <1>a, SMTT(30)
<1> QED
  BY <1>1, <1>2, <1>3, <1>4, <1>5
     DEF Next, vars, TimePasses, Tick, Emit, Observe, Reconsider, OutboxDue, NoteDue

(* No step forgets the attempt under which a row is leased.                 *)
LEMMA LeasedStep == TypeOK /\ LeasedIsAttempted /\ [Next]_vars => LeasedIsAttempted'
<1> SUFFICES ASSUME TypeOK, LeasedIsAttempted, [Next]_vars,
                    NEW n \in Notes, note'[n].status = "processing"
             PROVE  note'[n].attempts > 0
  BY DEF LeasedIsAttempted
<1> USE DEF TypeOK
<1>a. note[n] \in Rows(NoteStatuses) /\ (note[n].status = "processing" => note[n].attempts > 0)
  BY DEF LeasedIsAttempted
<1>b. {"none", "pending", "processing", "sent", "failed"} \subseteq NoteStatuses
  BY DEF NoteStatuses
<1>1. ASSUME NEW m \in Notes, NoteDue(m) PROVE note'[n].attempts > 0
  <2>1. note' = [note EXCEPT ![m] = [note[m] EXCEPT !.due = TRUE]]
    BY <1>1 DEF NoteDue
  <2> QED
    BY <2>1, <1>a, DueRow
<1>2. ASSUME NEW w \in Workers, StageReminders(w) PROVE note'[n].attempts > 0
  <2>1. note'[n] \in {note[n], Finished(NoRow, "failed"), NewRow(FALSE)}
    BY <1>2 DEF StageReminders
  <2>2. Finished(NoRow, "failed").status = "failed"
    BY DEF Finished, NoRow
  <2>3. NewRow(FALSE).status = "pending"
    BY <1>b, NewRowType
  <2> QED
    BY <2>1, <2>2, <2>3, <1>a
<1>3. ASSUME NEW w \in Workers, NEW c \in worker[w].claims, Materialize(w, c)
      PROVE  note'[n].attempts > 0
  <2>1. note'[n] \in {note[n], NewRow(FALSE)}
    BY <1>3 DEF Materialize
  <2>2. NewRow(FALSE).status = "pending"
    BY <1>b, NewRowType
  <2> QED
    BY <2>1, <2>2, <1>a
<1>4. ASSUME NEW w \in Workers, ClaimNotes(w) PROVE note'[n].attempts > 0
  <2>1. PICK S \in Batches(note), sendable \in SUBSET Notes : ClaimedNotes(w, S, sendable)
    BY <1>4, NotesClaimed
  <2>2. note'[n] \in {note[n], Leased(note[n]), Finished(note[n], "failed")}
    BY <2>1 DEF ClaimedNotes
  <2>3. Leased(note[n]).attempts > 0
    BY <1>a, <1>b, LeasedRow
  <2>4. Finished(note[n], "failed").status = "failed"
    BY <1>a, <1>b, FinishedRow
  <2> QED
    BY <2>2, <2>3, <2>4, <1>a
<1>5. ASSUME NEW w \in Workers, Mark(w) PROVE note'[n].attempts > 0
  <2>1. PICK c \in worker[w].hand : MarkedNotes(w, c)
    BY <1>5, NotesMarked
  <2>2. Finished(note[n], "sent").status = "sent"
    BY <1>a, <1>b, FinishedRow
  <2>3. Retried(note[n], Lasting(w, c)).status # "processing"
    <3>1. Lasting(w, c) \in BOOLEAN
      BY DEF Lasting
    <3> QED
      BY <3>1, <1>a, <1>b, RetriedRow
  <2>4. note'[n] \in {note[n], Finished(note[n], "sent"), Retried(note[n], Lasting(w, c))}
    BY <2>1 DEF MarkedNotes
  <2> QED
    BY <2>4, <2>2, <2>3, <1>a
<1>6. CASE UNCHANGED note
  BY <1>6, <1>a
<1> QED
  BY <1>1, <1>2, <1>3, <1>4, <1>5, <1>6
     DEF Next, vars, queues, TimePasses, Tick, Emit, Observe, Reconsider, OutboxDue,
         ClaimOutbox, FailOutbox, Recheck, Send, EndTick, Crash
(* A step under which no claim of the announcement appears, none that may   *)
(* have sent it forgets so, and the row is not opened, changes nothing.     *)
LEMMA FewerClaims ==
  ASSUME AnnouncementInv, OneInHand', LeasedIsAttempted',
         delivered'[Post] = delivered[Post], Open' => Open,
         \A w \in Workers : worker'[w].pc \in Sending =>
           /\ worker[w].pc \in Sending
           /\ PostClaims(w)' \subseteq PostClaims(w)
           /\ \A c \in PostClaims(w)' : Left(w, c) => Left(w, c)'
  PROVE  AnnouncementInv'
<1> USE DEF AnnouncementInv
<1>1. OneClaim'
  BY DEF OneClaim
<1>2. UnsentIsUndelivered'
  BY DEF UnsentIsUndelivered
<1>3. OpenIsUndelivered'
  BY DEF OpenIsUndelivered
<1>4. AnnouncedAtMostOnce'
  BY DEF AnnouncedAtMostOnce
<1> QED
  BY <1>1, <1>2, <1>3, <1>4

(* A worker takes the announcement only when nobody else works on it.       *)
LEMMA ClaimedAlone ==
  ASSUME TypeOK, AnnouncementInv, OneInHand', LeasedIsAttempted',
         NEW w \in Workers, ClaimNotes(w)
  PROVE  AnnouncementInv'
<1> USE DEF TypeOK, AnnouncementInv
<1>1. PICK S \in Batches(note), sendable \in SUBSET Notes : ClaimedNotes(w, S, sendable)
  BY NotesClaimed
<1>2. /\ worker[w].pc = "events" /\ worker'[w].pc = "notes"
      /\ worker'[w].claims = {ClaimOf(n, note) : n \in sendable}
      /\ \A v \in Workers : v # w => worker'[v] = worker[v]
      /\ delivered' = delivered
  BY <1>1 DEF ClaimNotes, ClaimedNotes, WorkerStates
<1>3. Post \in Notes /\ note[Post] \in Rows(NoteStatuses)
  BY DEF Notes
<1>4. {"none", "pending", "processing", "sent", "failed"} \subseteq NoteStatuses
  BY DEF NoteStatuses
<1>5. CASE Post \in sendable
  <2>1. note[Post].status = "pending"
    BY <1>1, <1>5 DEF ClaimedNotes, Batches, Claimable, Uncertain
  <2>2. /\ delivered[Post] = 0
        /\ \A v \in Workers : worker[v].pc \in Sending => PostClaims(v) = {}
    BY <2>1 DEF OpenIsUndelivered, Open
  <2>3. PostClaims(w)' = {ClaimOf(Post, note)}
    BY <1>2, <1>5 DEF PostClaims, ClaimOf
  <2>4. \A v \in Workers : v # w /\ worker'[v].pc \in Sending => PostClaims(v)' = {}
    BY <2>2, <1>2 DEF PostClaims
  <2>5. note'[Post] = Leased(note[Post])
    BY <1>1, <1>3, <1>5 DEF ClaimedNotes
  <2>6. note'[Post].status = "processing" /\ note'[Post].attempts \in Nat \ {0}
    BY <2>5, <1>3, <1>4, LeasedRow
  <2>7. OneClaim'
    BY <2>3, <2>4 DEF OneClaim
  <2>8. UnsentIsUndelivered'
    BY <2>2, <1>2 DEF UnsentIsUndelivered
  <2>9. OpenIsUndelivered'
    BY <2>6 DEF OpenIsUndelivered, Open
  <2> QED
    BY <2>2, <2>7, <2>8, <2>9, <1>2 DEF AnnouncedAtMostOnce
<1>6. CASE Post \notin sendable
  <2>1. PostClaims(w)' = {}
    BY <1>2, <1>6 DEF PostClaims, ClaimOf
  <2>2. \A v \in Workers : worker'[v].pc \in Sending =>
          v = w \/ (worker[v].pc \in Sending /\ PostClaims(v)' = PostClaims(v)
                      /\ \A c : Left(v, c)' = Left(v, c))
    BY <1>2 DEF PostClaims, Left
  <2>3. Open' => Open
    <3>1. CASE Post \in S
      <4>1. note'[Post] = Finished(note[Post], "failed")
        BY <1>1, <1>3, <1>6, <3>1 DEF ClaimedNotes
      <4>2. note'[Post].status = "failed" /\ note'[Post].attempts = note[Post].attempts
        BY <4>1, <1>3, <1>4, FinishedRow
      <4> QED
        BY <4>2 DEF Open
    <3>2. CASE Post \notin S
      BY <1>1, <1>3, <1>6, <3>2 DEF ClaimedNotes, Open
    <3> QED
      BY <3>1, <3>2
  <2>4. OneClaim'
    BY <2>1, <2>2 DEF OneClaim
  <2>5. UnsentIsUndelivered'
    BY <2>1, <2>2, <1>2 DEF UnsentIsUndelivered
  <2>6. OpenIsUndelivered'
    BY <2>1, <2>2, <2>3, <1>2 DEF OpenIsUndelivered
  <2> QED
    BY <2>4, <2>5, <2>6, <1>2 DEF AnnouncedAtMostOnce
<1> QED
  BY <1>5, <1>6

(* A sending adds to what has been delivered only when nothing was.         *)
LEMMA SentOnce ==
  ASSUME TypeOK, AnnouncementInv, OneInHand', LeasedIsAttempted',
         NEW w \in Workers, Send(w)
  PROVE  AnnouncementInv'
<1> USE DEF TypeOK, AnnouncementInv
<1>1. PICK outcome \in {"ok", "lost", "limited", "refused"}, arrives \in BOOLEAN,
           c \in worker[w].hand :
        /\ outcome # "lost" => arrives = (outcome = "ok")
        /\ worker' = [worker EXCEPT ![w].pc = "mark", ![w].outcome = outcome]
        /\ delivered' = IF arrives THEN [delivered EXCEPT ![c.row] = @ + 1]
                        ELSE delivered
  BY DEF Send
<1>2. /\ worker[w].pc = "send" /\ worker'[w].pc = "mark" /\ worker'[w].outcome = outcome
      /\ worker'[w].claims = worker[w].claims /\ worker'[w].hand = worker[w].hand
      /\ \A v \in Workers : v # w => worker'[v] = worker[v]
      /\ note' = note
  BY <1>1 DEF Send, WorkerStates, queues
<1>3. c \in worker[w].claims /\ worker[w].hand = {c}
  BY <1>2 DEF OneInHand
<1>4. CASE arrives /\ c.row = Post
  <2>1. c \in PostClaims(w) /\ ~Left(w, c)
    BY <1>2, <1>3, <1>4 DEF PostClaims, Left
  <2>2. delivered[Post] = 0
    BY <2>1, <1>2 DEF UnsentIsUndelivered, Sending
  <2>3. delivered'[Post] = 1
    BY <2>2, <1>1, <1>4 DEF Notes
  <2>4. Left(w, c)'
    BY <1>1, <1>2, <1>3, <1>4 DEF Left
  <2>5. \A v \in Workers : /\ PostClaims(v)' = PostClaims(v)
                           /\ (worker'[v].pc \in Sending) = (worker[v].pc \in Sending)
    BY <1>2 DEF PostClaims, Sending
  <2>6. OneClaim'
    BY <2>5 DEF OneClaim
  <2>7. UnsentIsUndelivered'
    BY <2>1, <2>4, <2>5, <1>2 DEF UnsentIsUndelivered, OneClaim, Sending
  <2>8. ~Open
    BY <2>1, <1>2 DEF OpenIsUndelivered, Sending
  <2>9. OpenIsUndelivered'
    BY <2>8, <1>2 DEF OpenIsUndelivered, Open
  <2> QED
    BY <2>3, <2>6, <2>7, <2>9 DEF AnnouncedAtMostOnce
<1>5. CASE ~(arrives /\ c.row = Post)
  <2>1. delivered'[Post] = delivered[Post]
    BY <1>1, <1>5 DEF Notes
  <2>2. \A v \in Workers : /\ PostClaims(v)' = PostClaims(v)
                           /\ (worker'[v].pc \in Sending) = (worker[v].pc \in Sending)
                           /\ \A d : Left(v, d) => Left(v, d)'
    BY <1>2 DEF PostClaims, Sending, Left
  <2>3. Open' = Open
    BY <1>2 DEF Open
  <2> QED
    BY <2>1, <2>2, <2>3, FewerClaims
<1> QED
  BY <1>4, <1>5

(* Marking gives the announcement back only when it has not been sent.      *)
LEMMA MarkedOnce ==
  ASSUME TypeOK, AnnouncementInv, OneInHand', LeasedIsAttempted',
         NEW w \in Workers, Mark(w)
  PROVE  AnnouncementInv'
<1> USE DEF TypeOK, AnnouncementInv
<1>1. PICK c \in worker[w].hand : MarkedNotes(w, c)
  BY NotesMarked
<1>2. /\ worker[w].pc = "mark" /\ worker'[w].pc = "notes"
      /\ worker'[w].claims = worker[w].claims \ {c}
      /\ \A v \in Workers : v # w => worker'[v] = worker[v]
      /\ delivered' = delivered
  BY <1>1 DEF Mark, MarkedNotes, WorkerStates
<1>3. c \in worker[w].claims /\ worker[w].hand = {c}
  BY <1>2 DEF OneInHand
<1>4. Post \in Notes /\ note[Post] \in Rows(NoteStatuses)
  BY DEF Notes
<1>5. {"none", "pending", "processing", "sent", "failed"} \subseteq NoteStatuses
  BY DEF NoteStatuses
<1>6. \A v \in Workers : worker'[v].pc \in Sending =>
        /\ worker[v].pc \in Sending
        /\ PostClaims(v)' \subseteq PostClaims(v)
        /\ \A d \in PostClaims(v)' : Left(v, d) => Left(v, d)'
  BY <1>2, <1>3 DEF PostClaims, Sending, Left
<1>7. CASE Open' => Open
  BY <1>2, <1>6, <1>7, FewerClaims
<1>8. CASE Open' /\ ~Open
  <2>1. c.row = Post /\ note' # note
    BY <1>1, <1>4, <1>8 DEF MarkedNotes, Open
  <2>2. worker[w].outcome # "ok"
    <3>1. SUFFICES ASSUME worker[w].outcome = "ok" PROVE FALSE
      OBVIOUS
    <3>2. note'[Post] = Finished(note[Post], "sent")
      BY <3>1, <2>1, <1>1, <1>4 DEF MarkedNotes
    <3>3. note'[Post].status = "sent" /\ note'[Post].attempts = note[Post].attempts
      BY <3>2, <1>4, <1>5, FinishedRow
    <3> QED
      BY <3>3, <1>8 DEF Open
  <2>3. Lasting(w, c) \in BOOLEAN
    BY DEF Lasting
  <2>4. note'[Post] = Retried(note[Post], Lasting(w, c))
    BY <2>1, <2>2, <1>1, <1>4 DEF MarkedNotes
  <2>5. ~Lasting(w, c)
    <3>1. SUFFICES ASSUME Lasting(w, c) PROVE FALSE
      OBVIOUS
    <3>2. note'[Post] = Finished(note[Post], "failed")
      BY <3>1, <2>4 DEF Retried
    <3>3. note'[Post].status = "failed" /\ note'[Post].attempts = note[Post].attempts
      BY <3>2, <1>4, <1>5, FinishedRow
    <3> QED
      BY <3>3, <1>8 DEF Open
  <2>6. worker[w].outcome \notin {"ok", "lost"}
    BY <2>1, <2>2, <2>5 DEF Lasting
  <2>7. c \in PostClaims(w) /\ ~Left(w, c)
    BY <2>1, <2>6, <1>3 DEF PostClaims, Left
  <2>8. delivered[Post] = 0
    BY <2>7, <1>2 DEF UnsentIsUndelivered, Sending
  <2>9. \A v \in Workers : worker'[v].pc \in Sending => PostClaims(v)' = {}
    <3> SUFFICES ASSUME NEW v \in Workers, worker'[v].pc \in Sending,
                        NEW d \in PostClaims(v)'
                 PROVE  FALSE
      OBVIOUS
    <3>1. worker[v].pc \in Sending /\ d \in PostClaims(v)
      BY <1>6
    <3>2. v = w /\ d = c
      BY <3>1, <2>7, <1>2 DEF OneClaim, Sending
    <3> QED
      BY <3>2, <1>2 DEF PostClaims
  <2>10. OneClaim' /\ UnsentIsUndelivered' /\ OpenIsUndelivered'
    BY <2>8, <2>9, <1>2 DEF OneClaim, UnsentIsUndelivered, OpenIsUndelivered
  <2> QED
    BY <2>10, <1>2 DEF AnnouncedAtMostOnce
<1> QED
  BY <1>7, <1>8

(* AnnouncementInv is inductive.                                            *)
LEMMA AnnouncementStep == TypeOK /\ AnnouncementInv /\ [Next]_vars => AnnouncementInv'
<1> SUFFICES ASSUME TypeOK, AnnouncementInv, [Next]_vars PROVE AnnouncementInv'
  OBVIOUS
<1> USE DEF TypeOK
<1>a. OneInHand' /\ LeasedIsAttempted'
  BY HandStep, LeasedStep DEF AnnouncementInv
<1>b. Post \in Notes /\ note[Post] \in Rows(NoteStatuses)
  BY DEF Notes
<1>1. CASE UNCHANGED <<note, worker, delivered>>
  <2>1. \A w \in Workers : PostClaims(w)' = PostClaims(w) /\ \A c : Left(w, c)' = Left(w, c)
    BY <1>1 DEF PostClaims, Left
  <2>2. Open' = Open
    BY <1>1 DEF Open
  <2> QED
    BY <2>1, <2>2, <1>1, <1>a, FewerClaims
<1>2. ASSUME NEW n \in Notes, NoteDue(n) PROVE AnnouncementInv'
  <2>1. note' = [note EXCEPT ![n] = [note[n] EXCEPT !.due = TRUE]]
          /\ UNCHANGED <<worker, delivered>>
    BY <1>2 DEF NoteDue
  <2>2. note'[Post].status = note[Post].status /\ note'[Post].attempts = note[Post].attempts
    BY <2>1, <1>b, DueRow
  <2>3. Open' = Open
    BY <2>2 DEF Open
  <2>4. \A w \in Workers : PostClaims(w)' = PostClaims(w) /\ \A c : Left(w, c)' = Left(w, c)
    BY <2>1 DEF PostClaims, Left
  <2> QED
    BY <2>1, <2>3, <2>4, <1>a, FewerClaims
<1>3. ASSUME NEW w \in Workers, Open' => Open, UNCHANGED delivered,
             worker'[w].pc \notin {"notes", "send", "mark"},
             \A v \in Workers : v # w => worker'[v] = worker[v]
      PROVE  AnnouncementInv'
  <2>1. \A v \in Workers : worker'[v].pc \in Sending =>
          /\ worker[v].pc \in Sending /\ PostClaims(v)' = PostClaims(v)
          /\ \A c : Left(v, c)' = Left(v, c)
    BY <1>3 DEF Sending, PostClaims, Left
  <2> QED
    BY <2>1, <1>3, <1>a, FewerClaims
<1>4. ASSUME NEW w \in Workers, StageReminders(w) PROVE AnnouncementInv'
  <2>1. note'[Post] = note[Post]
    BY <1>4, <1>b, DeliveryAssumption DEF StageReminders
  <2>2. Open' = Open
    BY <2>1 DEF Open
  <2>3. worker'[w].pc = "claim" /\ UNCHANGED delivered
          /\ \A v \in Workers : v # w => worker'[v] = worker[v]
    BY <1>4 DEF StageReminders, WorkerStates
  <2> QED
    BY <2>2, <2>3, <1>3
<1>5. ASSUME NEW w \in Workers, ClaimOutbox(w) PROVE AnnouncementInv'
  <2>1. worker'[w].pc = "events" /\ UNCHANGED <<note, delivered>>
          /\ \A v \in Workers : v # w => worker'[v] = worker[v]
    BY <1>5 DEF ClaimOutbox, WorkerStates
  <2>2. Open' = Open
    BY <2>1 DEF Open
  <2> QED
    BY <2>1, <2>2, <1>3
<1>6. ASSUME NEW w \in Workers, NEW c \in worker[w].claims,
             Materialize(w, c) \/ FailOutbox(w, c)
      PROVE  AnnouncementInv'
  <2>1. worker'[w].pc = "events" /\ UNCHANGED delivered
          /\ \A v \in Workers : v # w => worker'[v] = worker[v]
    BY <1>6 DEF Materialize, FailOutbox, Drop, WorkerStates
  <2>2. Open' => Open
    <3>1. note'[Post] = note[Post] \/ Refreshable(note[Post]) \/ note[Post] = NoRow
      BY <1>6, <1>b DEF Materialize, FailOutbox
    <3> QED
      BY <3>1 DEF Open, Refreshable, NoRow
  <2> QED
    BY <2>1, <2>2, <1>3
<1>7. ASSUME NEW w \in Workers, EndTick(w) \/ Crash(w) PROVE AnnouncementInv'
  <2>1. worker'[w] = Waiting /\ UNCHANGED <<note, delivered>>
          /\ \A v \in Workers : v # w => worker'[v] = worker[v]
    BY <1>7 DEF EndTick, Crash, queues
  <2>2. Open' = Open
    BY <2>1 DEF Open
  <2>3. worker'[w].pc = "idle"
    BY <2>1 DEF Waiting
  <2> QED
    BY <2>1, <2>2, <2>3, <1>3
<1>8. ASSUME NEW w \in Workers, NEW c \in worker[w].claims, Recheck(w, c)
      PROVE  AnnouncementInv'
  <2>1. /\ worker[w].pc = "notes" /\ worker'[w].pc \in Sending
        /\ worker'[w].claims = worker[w].claims
        /\ UNCHANGED <<note, delivered>>
        /\ \A v \in Workers : v # w => worker'[v] = worker[v]
    BY <1>8 DEF Recheck, WorkerStates, Sending, queues
  <2>2. Open' = Open
    BY <2>1 DEF Open
  <2>3. \A v \in Workers : worker'[v].pc \in Sending =>
          /\ worker[v].pc \in Sending /\ PostClaims(v)' = PostClaims(v)
          /\ \A d : Left(v, d) => Left(v, d)'
    BY <2>1 DEF Sending, PostClaims, Left
  <2> QED
    BY <2>1, <2>2, <2>3, <1>a, FewerClaims
<1>9. ASSUME NEW w \in Workers, ClaimNotes(w) \/ Send(w) \/ Mark(w) PROVE AnnouncementInv'
  BY <1>9, <1>a, ClaimedAlone, SentOnce, MarkedOnce
<1> QED
  BY <1>1, <1>2, <1>4, <1>5, <1>6, <1>7, <1>8, <1>9
     DEF Next, vars, queues, TimePasses, Tick, Emit, Observe, Reconsider, OutboxDue

-----------------------------------------------------------------------------
(* Every reachable state is well typed: the rows, the leases and what the   *)
(* workers hold of them (claim_outbox_batch, claim_delivery_batch).         *)
THEOREM TypeCorrect == Spec => []TypeOK
BY TypeInit, TypeStep, PTL DEF Spec

(* Once materialized or given up, an outbox event stays so, and so does a   *)
(* notification that was attempted and is sent or given up: every write of  *)
(* a worker is conditional on the lease of the row in processing            *)
(* (_locked_delivery), and an edit of the post refreshes only a row nobody  *)
(* attempted (materialize_activity).                                        *)
THEOREM Closure == Spec => ClosedStaysClosed
<1>1. Init => FutureIsEmpty
  BY DEF Init, FutureIsEmpty, OutboxRows
<1>2. TypeOK /\ FutureIsEmpty /\ [Next]_vars =>
        [/\ \A r \in OutboxRows : outbox[r].status \in {"materialized", "failed"}
               => outbox'[r].status = outbox[r].status
         /\ \A n \in Notes : note[n].status \in {"sent", "failed"} /\ note[n].attempts > 0
               => note'[n].status = note[n].status]_vars
  BY OutboxStaysClosed, NoteStaysClosed
<1> QED
  BY <1>1, <1>2, TypeCorrect, FutureStep, PTL DEF Spec, ClosedStaysClosed

(* Whatever crashes, lost answers, overrun leases and edits happen on the   *)
(* way, and however many workers there are, at most one message of an       *)
(* announcement reaches its recipient (Uncertain in claim_delivery_batch,   *)
(* the permanent failure of a lost answer in deliver).                      *)
THEOREM Announcement == Spec => []AnnouncedAtMostOnce
<1>1. Init => AnnouncementInv
  <2> SUFFICES ASSUME Init PROVE AnnouncementInv
    OBVIOUS
  <2>1. Post \in Notes
    BY DEF Notes
  <2>2. \A w \in Workers : worker[w].pc = "idle"
    BY DEF Init, Waiting
  <2>3. delivered[Post] = 0 /\ \A n \in Notes : note[n].status = "none"
    BY <2>1 DEF Init, NoRow
  <2> QED
    BY <2>1, <2>2, <2>3 DEF AnnouncementInv, OneInHand, LeasedIsAttempted, OneClaim,
       UnsentIsUndelivered, OpenIsUndelivered, AnnouncedAtMostOnce, Sending
<1>2. AnnouncementInv => AnnouncedAtMostOnce
  BY DEF AnnouncementInv
<1> QED
  BY <1>1, <1>2, TypeCorrect, AnnouncementStep, PTL DEF Spec
=============================================================================
