------------------------------ MODULE Delivery ------------------------------
(***************************************************************************)
(* The outbox and the delivery of notifications                            *)
(* (infrastructure/outbox/postgres.py, application/notifications.py,       *)
(* infrastructure/outbox/telegram.py, activity_publications.py).           *)
(*                                                                         *)
(* Handlers insert outbox events.  A worker's tick stages reminders,       *)
(* claims due events under a lease and turns each into addressable         *)
(* notifications, then claims due notifications and sends them one after   *)
(* another.  Each claim and each completion is one short transaction;      *)
(* the message itself leaves outside of any.  A worker may die between any *)
(* two steps, and its lease may run out while it is still working.         *)
(*                                                                         *)
(* Recipients do not interact, so an event has one recipient and names its *)
(* notification.  The lease token is named by the attempt it was drawn     *)
(* for.  The order of a batch (next_attempt_at) is left open.              *)
(***************************************************************************)
EXTENDS Integers, FiniteSets

CONSTANTS
  Workers,      \* worker processes, an old and a new one during a release
  Events,       \* outbox events of task, assignment and wallet handlers
  Reminders,    \* reminders the domain state calls for
  Post,         \* an administrator's tagged message in the community chat
  Tags,         \* categories the post may carry
  Invalid,      \* rows whose recipient's time zone may be invalid for a while
  Poison,       \* events whose materialization raises an unclassified error
  Wavering,     \* notifications whose eligibility changes
  MaxAttempts,  \* RetryPolicy.maximum_attempts
  BatchSize,    \* worker_batch_size
  MaxRevisions, \* bound: revisions of the post
  MaxCrashes,   \* bound: deaths of workers
  MaxOverruns   \* bound: leases that run out under a living worker

Revisions == 1..MaxRevisions
OutboxRows == Events \cup Revisions
Notes == Events \cup Reminders \cup {Post}
NoTag == "none"

ASSUME DeliveryAssumption ==
  /\ IsFiniteSet(Workers) /\ IsFiniteSet(Events) /\ IsFiniteSet(Reminders)
  /\ Post \notin Events \cup Reminders
  /\ Events \cap (Reminders \cup Revisions) = {}
  /\ Invalid \subseteq Events \cup Reminders /\ Poison \subseteq Events
  /\ Wavering \subseteq Notes
  /\ NoTag \notin Tags
  /\ {MaxAttempts, BatchSize} \subseteq Nat \ {0}
  /\ {MaxRevisions, MaxCrashes, MaxOverruns} \subseteq Nat

VARIABLES
  outbox,    \* outbox_events: row -> [status, attempts, lease, due]
  note,      \* notifications: row -> the same
  carried,   \* tag in the payload of the post's notification
  tag,       \* tag the post carries
  revision,  \* activity_publications.revision
  current,   \* notifications the domain state and the subscription ask for
  worker,    \* worker -> [pc, claims, hand, outcome]
  delivered, \* notification -> messages that reached Telegram
  crashes,   \* deaths so far
  overruns   \* overrun leases so far

vars == <<outbox, note, carried, tag, revision, current, worker, delivered,
          crashes, overruns>>
queues == <<outbox, note, carried>>
domain == <<tag, revision, current>>
counters == <<crashes, overruns>>

\* lease: the attempt whose token the row carries, 0 for none.  due: the row's
\* next_attempt_at or, in processing, its lease_expires_at has come.
NoRow == [status |-> "none", attempts |-> 0, lease |-> 0, due |-> FALSE]
NewRow(due) == [NoRow EXCEPT !.status = "pending", !.due = due]
Waiting == [pc |-> "idle", claims |-> {}, hand |-> {}, outcome |-> "none"]

-----------------------------------------------------------------------------
\* Mutant: a row whose worker died is nobody's.
OnlyPending(table) ==
  {r \in DOMAIN table : table[r].status = "pending" /\ table[r].due}

\* Rows a claim may take.
Claimable(table) ==
  {r \in DOMAIN table : table[r].status \in {"pending", "processing"}
                          /\ table[r].due}

\* LIMIT, FOR UPDATE SKIP LOCKED.
Batches(table) ==
  {S \in SUBSET Claimable(table) :
     Cardinality(S) = IF Cardinality(Claimable(table)) < BatchSize
                      THEN Cardinality(Claimable(table)) ELSE BatchSize}

\* attempt_count after a claim.  Bound: the model stops counting where only
\* Poison gets.
NextAttempt(row) ==
  IF row.attempts > MaxAttempts + MaxCrashes + MaxOverruns THEN row.attempts
  ELSE row.attempts + 1

\* A claim counts the attempt, draws a token and leases the row.
Leased(row) ==
  [row EXCEPT !.status = "processing", !.attempts = NextAttempt(row),
              !.lease = NextAttempt(row), !.due = FALSE]

ClaimOf(r, table) == [row |-> r, lease |-> NextAttempt(table[r])]

\* The row is in processing under the token of this claim.
Holds(claim, table) ==
  table[claim.row].status = "processing" /\ table[claim.row].lease = claim.lease

\* A row leaves processing, and its lease is cleared.
Finished(row, status) == [row EXCEPT !.status = status, !.lease = 0, !.due = FALSE]

Exhausted(row) == row.attempts >= MaxAttempts

\* fail_outbox, mark_delivery_failed: retry later or give up.
Retried(row, permanent) ==
  Finished(row, IF permanent \/ Exhausted(row) THEN "failed" ELSE "pending")

\* _notification_is_current, activity_is_current.
IsCurrent(n) == n \in current /\ (n = Post => tag # NoTag /\ tag = carried)

-----------------------------------------------------------------------------
Init ==
  /\ outbox = [r \in OutboxRows |-> NoRow]
  /\ note = [n \in Notes |-> NoRow]
  /\ carried = NoTag /\ tag = NoTag /\ revision = 0
  /\ current = Notes
  /\ worker = [w \in Workers |-> Waiting]
  /\ delivered = [n \in Notes |-> 0]
  /\ crashes = 0 /\ overruns = 0

\* A handler commits its event.
Emit(e) ==
  /\ outbox[e] = NoRow
  /\ outbox' = [outbox EXCEPT ![e] = NewRow(TRUE)]
  /\ UNCHANGED <<note, carried, domain, worker, delivered, counters>>

\* observe: the author publishes the post or edits its tag.
Observe(t) ==
  /\ t # tag
  /\ revision < MaxRevisions
  /\ tag' = t
  /\ revision' = revision + 1
  /\ outbox' = IF t = NoTag THEN outbox
               ELSE [outbox EXCEPT ![revision + 1] = NewRow(TRUE)]
  /\ UNCHANGED <<note, carried, current, worker, delivered, counters>>

\* The recipient unsubscribes or is suspended, or the matter is decided; a
\* suspension may also end.
Reconsider(n) ==
  /\ n \in Wavering
  /\ current' = IF n \in current THEN current \ {n} ELSE current \cup {n}
  /\ UNCHANGED <<queues, tag, revision, worker, delivered, counters>>

\* Does the worker still work on the claim under which the row is leased?
InWork(r, table, pcs) ==
  \E w \in Workers : worker[w].pc \in pcs
                       /\ \E c \in worker[w].claims : c.row = r /\ Holds(c, table)

\* next_attempt_at comes, or a lease runs out.
OutboxDue(r) ==
  /\ outbox[r].status \in {"pending", "processing"} /\ ~outbox[r].due
  /\ outbox' = [outbox EXCEPT ![r].due = TRUE]
  /\ IF InWork(r, outbox, {"events"})
     THEN overruns < MaxOverruns /\ overruns' = overruns + 1
     ELSE UNCHANGED overruns
  /\ UNCHANGED <<note, carried, domain, worker, delivered, crashes>>

NoteDue(n) ==
  /\ note[n].status \in {"pending", "processing"} /\ ~note[n].due
  /\ note' = [note EXCEPT ![n].due = TRUE]
  /\ IF InWork(n, note, {"notes", "send", "mark"})
     THEN overruns < MaxOverruns /\ overruns' = overruns + 1
     ELSE UNCHANGED overruns
  /\ UNCHANGED <<outbox, carried, domain, worker, delivered, crashes>>

-----------------------------------------------------------------------------
\* schedule_reminders, idempotent by deduplication_key; without a time zone a
\* reminder is stored as failed.
StageReminders(w) ==
  /\ worker[w] = Waiting
  /\ \E unscheduled \in SUBSET (Invalid \cap Reminders) :
       note' = [n \in Notes |->
                  IF n \notin Reminders \cap current \/ note[n] # NoRow THEN note[n]
                  ELSE IF n \in unscheduled THEN Finished(NoRow, "failed")
                  ELSE NewRow(FALSE)]
  /\ worker' = [worker EXCEPT ![w].pc = "claim"]
  /\ UNCHANGED <<outbox, carried, domain, delivered, counters>>

ClaimOutbox(w) ==
  /\ worker[w].pc = "claim"
  /\ \E S \in Batches(outbox) :
       /\ outbox' = [r \in OutboxRows |->
                       IF r \in S THEN Leased(outbox[r]) ELSE outbox[r]]
       /\ worker' = [worker EXCEPT ![w].pc = "events",
                       ![w].claims = {ClaimOf(r, outbox) : r \in S}]
  /\ UNCHANGED <<note, carried, domain, delivered, counters>>

Drop(w, c) == worker' = [worker EXCEPT ![w].claims = @ \ {c}]

\* The upsert of materialize_activity: an attempted delivery is not revived.
Refreshable(row) ==
  row.status \in {"none", "pending", "failed"} /\ row.attempts = 0

\* materialize: the event's notification and the end of its lease, at once.
Materialize(w, c) ==
  /\ worker[w].pc = "events"
  /\ c \in worker[w].claims
  /\ Holds(c, outbox)
  /\ c.row \notin Poison
  /\ outbox' = [outbox EXCEPT ![c.row] = Finished(@, "materialized")]
  /\ IF c.row \in Revisions
     THEN IF tag # NoTag /\ Post \in current /\ Refreshable(note[Post])
          THEN /\ note' = [note EXCEPT ![Post] = NewRow(FALSE)]
               /\ carried' = tag
          ELSE UNCHANGED <<note, carried>>
     ELSE /\ note' = IF note[c.row] = NoRow /\ c.row \in current
                     THEN [note EXCEPT ![c.row] = NewRow(FALSE)] ELSE note
          /\ UNCHANGED carried
  /\ Drop(w, c)
  /\ UNCHANGED <<domain, delivered, counters>>

\* materialize raises NotificationProcessingError, or the lease is another's.
FailOutbox(w, c) ==
  /\ worker[w].pc = "events"
  /\ c \in worker[w].claims
  /\ \/ /\ Holds(c, outbox)
        /\ c.row \in Invalid
        /\ outbox' = [outbox EXCEPT ![c.row] = Retried(@, FALSE)]
     \/ ~Holds(c, outbox) /\ UNCHANGED outbox
  /\ Drop(w, c)
  /\ UNCHANGED <<note, carried, domain, delivered, counters>>

-----------------------------------------------------------------------------
\* Mutant: an announcement whose lease ran out is simply sent again.
NeverUncertain(n) == FALSE

\* An expired lease may follow a successful send: an announcement is not
\* repeated.
Uncertain(n) == n = Post /\ note[n].status = "processing"

ClaimNotes(w) ==
  /\ worker[w].pc = "events"
  /\ worker[w].claims = {}
  /\ \E S \in Batches(note) :
       LET sendable == {n \in S : ~Uncertain(n) /\ IsCurrent(n)}
       IN /\ note' = [n \in Notes |-> IF n \in sendable THEN Leased(note[n])
                                      ELSE IF n \in S THEN Finished(note[n], "failed")
                                      ELSE note[n]]
          /\ worker' = [worker EXCEPT ![w].pc = "notes",
                          ![w].claims = {ClaimOf(n, note) : n \in sendable}]
  /\ UNCHANGED <<outbox, carried, domain, delivered, counters>>

\* allow_delivery looks at row and recipient again, though not at the token or at
\* the matter of a reminder; Telegram may not say whether the recipient is in the
\* chat ("limited": try again later).
Recheck(w, c) ==
  /\ worker[w].pc = "notes"
  /\ c \in worker[w].claims
  /\ \/ /\ note[c.row].status = "processing"
        /\ IsCurrent(c.row) \/ c.row \in Reminders
        /\ \E next \in {<<"send", "none">>, <<"mark", "limited">>} :
             worker' = [worker EXCEPT ![w].pc = next[1], ![w].outcome = next[2],
                                      ![w].hand = {c}]
     \/ /\ note[c.row].status # "processing" \/ ~IsCurrent(c.row)
        /\ worker' = [worker EXCEPT ![w].pc = "mark", ![w].outcome = "refused",
                                    ![w].hand = {c}]
  /\ UNCHANGED <<queues, domain, delivered, counters>>

\* The Bot API call: "lost" stands for a network or server error, after which
\* the message may have arrived.
Send(w) ==
  /\ worker[w].pc = "send"
  /\ \E outcome \in {"ok", "lost", "limited", "refused"},
        arrives \in BOOLEAN, c \in worker[w].hand :
       /\ outcome # "lost" => arrives = (outcome = "ok")
       /\ worker' = [worker EXCEPT ![w].pc = "mark", ![w].outcome = outcome]
       /\ delivered' = IF arrives THEN [delivered EXCEPT ![c.row] = @ + 1]
                       ELSE delivered
  /\ UNCHANGED <<queues, domain, counters>>

\* Mutant: completion does not look at the lease.
AnyHolder(claim, table) == TRUE

\* _locked_delivery.
MayMark(claim, table) == Holds(claim, table)

\* mark_sent, mark_delivery_failed.
Mark(w) ==
  /\ worker[w].pc = "mark"
  /\ \E c \in worker[w].hand :
       LET permanent == \/ worker[w].outcome = "refused"
                        \/ worker[w].outcome = "lost" /\ c.row = Post
       IN /\ note' = IF ~MayMark(c, note) THEN note
                     ELSE [note EXCEPT ![c.row] =
                             IF worker[w].outcome = "ok" THEN Finished(@, "sent")
                             ELSE Retried(@, permanent)]
          /\ worker' = [worker EXCEPT ![w].pc = "notes", ![w].claims = @ \ {c},
                                      ![w].hand = {}, ![w].outcome = "none"]
  /\ UNCHANGED <<outbox, carried, domain, delivered, counters>>

EndTick(w) ==
  /\ worker[w].pc = "notes"
  /\ worker[w].claims = {}
  /\ worker' = [worker EXCEPT ![w] = Waiting]
  /\ UNCHANGED <<queues, domain, delivered, counters>>

\* materialize raises anything but NotificationProcessingError.
Doomed(w) == /\ worker[w].pc = "events"
             /\ \E c \in worker[w].claims : c.row \in Poison /\ Holds(c, outbox)

\* The process ends, by itself or by an exception nobody catches, and restarts.
Crash(w) ==
  /\ worker[w] # Waiting
  /\ Doomed(w) \/ crashes < MaxCrashes
  /\ crashes' = IF crashes < MaxCrashes THEN crashes + 1 ELSE crashes
  /\ worker' = [worker EXCEPT ![w] = Waiting]
  /\ UNCHANGED <<queues, domain, delivered, overruns>>

-----------------------------------------------------------------------------
Tick(w) ==
  \/ StageReminders(w) \/ ClaimOutbox(w)
  \/ \E c \in worker[w].claims :
       Materialize(w, c) \/ FailOutbox(w, c) \/ Recheck(w, c)
  \/ ClaimNotes(w) \/ Send(w) \/ Mark(w) \/ EndTick(w)

TimePasses == (\E r \in OutboxRows : OutboxDue(r)) \/ (\E n \in Notes : NoteDue(n))

Next ==
  \/ \E e \in Events : Emit(e)
  \/ \E t \in Tags \cup {NoTag} : Observe(t)
  \/ \E n \in Notes : Reconsider(n)
  \/ TimePasses
  \/ \E w \in Workers : Tick(w) \/ Crash(w)

Spec == Init /\ [][Next]_vars

(* The worker loops and is restarted when it dies (compose.production.yaml:  *)
(* unless-stopped); time passes.                                            *)
Fairness ==
  /\ \A w \in Workers : WF_vars(Tick(w) \/ Crash(w))
  /\ \A r \in OutboxRows : WF_vars(OutboxDue(r))
  /\ \A n \in Notes : WF_vars(NoteDue(n))

FairSpec == Spec /\ Fairness

-----------------------------------------------------------------------------
\* A row has a lease just while it is in processing.
Rows(statuses) ==
  {row \in [status : statuses, attempts : Nat, lease : Nat, due : BOOLEAN] :
     (row.lease # 0) = (row.status = "processing")}
OutboxStatuses == {"none", "pending", "processing", "materialized", "failed"}
NoteStatuses == {"none", "pending", "processing", "sent", "failed"}
Claims == [row : OutboxRows \cup Notes, lease : Nat]
WorkerStates == [pc : {"idle", "claim", "events", "notes", "send", "mark"},
                 claims : SUBSET Claims, hand : SUBSET Claims,
                 outcome : {"none", "ok", "lost", "limited", "refused"}]

\* Every variable stays within its declared values.
TypeOK ==
  /\ outbox \in [OutboxRows -> Rows(OutboxStatuses)]
  /\ note \in [Notes -> Rows(NoteStatuses)]
  /\ carried \in Tags \cup {NoTag} /\ tag \in Tags \cup {NoTag}
  /\ revision \in 0..MaxRevisions
  /\ current \subseteq Notes
  /\ worker \in [Workers -> WorkerStates]
  /\ delivered \in [Notes -> Nat]
  /\ crashes \in 0..MaxCrashes /\ overruns \in 0..MaxOverruns

\* An announcement reaches its recipient at most once, whatever crashes, lost
\* responses, overrun leases, retries and edits of the post happen on the way
\* (activity-subscriptions-release.md: an uncertain result is not repeated).
AnnouncedAtMostOnce == delivered[Post] <= 1

\* What has been attempted and closed stays closed: neither a late worker nor an
\* edit of the post brings it back, so a message recorded as sent is not sent
\* again by the queue.
ClosedStaysClosed ==
  [][/\ \A r \in OutboxRows : outbox[r].status \in {"materialized", "failed"}
          => outbox'[r].status = outbox[r].status
     /\ \A n \in Notes : note[n].status \in {"sent", "failed"} /\ note[n].attempts > 0
          => note'[n].status = note[n].status]_vars

\* Every event becomes notifications or is given up after bounded attempts
\* (06_DATA_MODEL: a poison event is failed after five unsuccessful attempts).
OutboxSettles ==
  \A r \in OutboxRows : outbox[r].status = "pending"
                          ~> outbox[r].status \in {"materialized", "failed"}

\* So does every event, and every notification is sent or given up, although
\* the worker may die with either in its hands.
EverythingSettles ==
  /\ OutboxSettles
  /\ \A n \in Notes : note[n].status = "pending" ~> note[n].status \in {"sent", "failed"}
=============================================================================
