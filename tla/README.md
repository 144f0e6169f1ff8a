# Verification of community_bot

TLA+ models of the runtime under `src/community_bot/` and of the release tools
under `ops/`, the configurations that model-check them with TLC, and theorems
about them checked by TLAPS.

```
tlc -workers 2 -config exchange_settlement.cfg MCExchange.tla
tlapm ExchangeProofs.tla
```

Each module names the code it models; `PROJECT.json` maps definitions to lines.

## 1. The system

`community_bot` lets the members of a Telegram community exchange work for
credits. A web process serves the Mini App and Telegram updates, a worker process
settles deadlines and delivers notifications, and both share one PostgreSQL
database. There is no other shared state: every interaction is a transaction, an
advisory lock ("gate"), a row lock, a unique constraint or a row another process
will poll. The layers are `transport` → `application` (services, one unit of work
per command) → `domain` (pure rules) and `infrastructure/db` (SQL). The scripts
under `ops/` install releases, exchange containers and migrate the database on one
host while members use it.

### Inventory

| Component | State it keeps | Operations | Interacts with | Hard behaviour | What makes it correct |
|---|---|---|---|---|---|
| Task exchange (`application/tasks.py`, `assignments.py`, `db/assignments.py`, `task_cancellations.py`) | tasks, assignments, cancellation requests and responses, disputes | publish, edit, accept, submit, decide, dispute, cancel, request/answer cancellation, finalize review, rejection, deadline | ledger (reserve, payout, refund), moderation (dispute), worker (deadline), outbox | five paths may settle one assignment; requests for a result arrive late and twice; reads before the gate; the worker's two transactions; slots are reused | one settlement per assignment, worth one reward; the reserve covers what may still be paid; terminal means released; nothing waits for ever |
| Drafts and publication (`application/tasks.py`, `db/tasks.py`) | drafts, published terms | the Mini App's form, the bot's form step by step, previews, templates, approval of a community task, publish, edit a published task | catalog, roles, conversation row, ledger (reserve) | a preview is old when it is confirmed; rights and versions change under a command that waits; two clients fill in one draft | what is published is what its creator saw, by somebody who may |
| Catalog, cities, templates (`application/catalog.py`, `db/catalog.py`) | templates and their versions, categories | publish, retire and restore versions, activate categories | drafts | a version in force while a draft refers to it | a published version never changes |
| Economy ledger (`db/economy.py`, `domain/economy.py`) | `account_transactions`, cached balances, experience and levels | prepare/apply a batch, reversal, replay | every component that moves credits | lock order of keys and members, replays, two batches per transaction | sums add up, no lost update, no constraint met, no deadlock, replays are answered |
| Product configuration (`bootstrap/product_config.py`, `db/economy.py`) | versions, activations, the level of every member | ingest, activate, first bootstrap | ledger, registration, readiness | an activation passes over all members while batches and registrations run | every level is one of the active version |
| Wallet (`application/wallet.py`, `credit_grants.py`) | transfer receipts | transfer, history, grant | ledger, outbox | threshold read while rewards are reversed; repeats after a lost reply | entitlement holds at commit; a repeat never pays twice |
| Sanctions and effective status (`db/moderation.py`, `get_member`) | `member_sanctions`, `members.status` | issue, revoke, elapse on read | every handler that asks for an active member | overlapping sanctions restore remembered statuses; reads write without a lock | a running suspension or ban blocks; an ended one does not |
| Moderation cases (`db/moderation.py`) | cases, resolutions, appeals, fraud cases, alerts | open, preview, confirm, resolve, appeal, review | exchange, ledger, reliability | decisions made on old screens; reversal and second payout in one transaction; payouts counted while others commit | one effective resolution; money and status follow it; no crossing is missed |
| Reputation (`application/reputation.py`, `db/reputation.py`) | karma votes, rulings, signals, the vote's form | begin, value, comment, confirm, exclude and restore a vote | conversation row, exchange, moderation | raters commit together; a vote is revised while it is judged | a burst raises a signal; an exclusion falls on what was judged |
| Registration and membership (`application/registration.py`, `db/registration.py`, `membership.py`, `community_preferences.py`) | applications, invitations, admission mode, presence in the chat | start, answer, step back, submit, approve, reject, reopen, chat member updates, onboarding | roles, ledger (starting credits), Telegram | moderators compete; a decision waits while everything changes; chat events late, repeated, reordered | one account, one application, one grant; the account agrees with the chat |
| Members and roles (`domain/members.py`, `administration.py`, `initial_admin.py`) | `members`: status, role, rights | bootstrap, appoint, change rights, demote | everything that asks for a right | rights change under waiting commands | only who manages may grant, never more than he has |
| Conversations (`db/conversations.py`) | one row per identity: who owns its free text | claim, save, clear | drafts, karma, profile, registration | four owners of one row | nobody writes into another's form |
| Notification delivery (`infrastructure/outbox`, `application/notifications.py`, `activity_publications.py`) | `outbox_events`, `notifications`, `activity_publications` | stage, claim, materialize, remind, send, mark, observe | every component that emits events; Telegram | leases, late workers, lost responses, edited posts, poison events | announcements at most once; everything is settled; closed rows stay closed |
| Worker (`worker/entrypoint.py`) | none | deadlines, then notifications, then heartbeat, in a loop | exchange, delivery | one exception ends the process | polling goes on |
| Operations (`ops/`) | `active.json`, proofs, dumps, cutover receipts, Telegram receipts, containers, installed directories, schema | activate and roll back bundles, cutovers, deployments, the Compose change, the Telegram activation, backups | host, database, web and worker containers | killed at any step; two lock files; what was copied before the migration is restored after it | no write is lost; whoever serves finds his schema; a way back exists until writing is opened |
| Web API, Mini App, bot menus, statistics, avatars, settings, test runs, migrations | — | — | — | input, output and rendering; the commands they send are above | — |

## 2. Plan

Modules in the order of what matters most. `+` is done.

1. `+ Exchange`: the lifecycle of a task, its slots and its credits. `+ Escrow`: what it
   promises about money. `+ ExchangeEscrow`: the refinement. `+ ExchangeProofs`.
2. `+ Sanctions`: overlapping sanctions and the status they produce. `+ AccessProofs`.
3. `+ Ledger`: batches lock by lock, transfers, reversals, repeats, and the product
   configuration whose levels batches and activations write.
4. `+ Delivery`: outbox, leases, announcements.
5. `+ Roles`, `+ Admission`: who becomes a member, stays one, and who decides it.
6. `+ Cases`: fraud cases, resolutions, appeals, alerts.
7. `+ Conversations`, `+ Catalog`, `+ Publication`, `+ Karma`, `+ Submission`, composed in
   `+ Drafting`.
8. `+ Host`, `+ ReleaseContract`, `+ WalletCutover`, `+ DevDeploy`,
   `+ TelegramActivation`, composed in `+ Operations`.
9. `+ LedgerProofs`, on `+ Sums`: what the locks of a batch protect, that the history adds up, that
   ordered locks never wait in a circle, and that levels are current.
10. `+ DeliveryProofs`, `+ AccessProofs` (also of `Admission`), `+ DraftingProofs`: announcements, members,
   and what is published, voted and submitted.
11. `+ CasesProofs`: one outcome per assignment, decisions as seen, alerts. `+ OperationsProofs`: what the
   operator's tools keep, killed at any step.
12. An abstract ledger (`ApplyBatch` of `Exchange` as one step) that `Ledger` implements;
   the review of a community task in `Exchange`; the worker's loop over both its halves.

Composition: `ExchangeEscrow` instantiates `Escrow` over `Exchange`. `Admission` extends
`Roles`. `Conversations` extends `Roles`, `Catalog` and `Karma` extend `Conversations`,
`Submission` extends `Conversations`, `Publication` extends `Catalog`, and `Drafting` puts them on one conversation row.
`ReleaseContract`, `WalletCutover` and `TelegramActivation` extend `Host`, `DevDeploy` extends
`ReleaseContract`, and `Operations` interleaves all of them on one host.

## 3. The models

Common conventions. A handler that runs in one transaction under a gate is one
action. Where the code reads before the gate, uses two transactions, or calls the
outside world, the handler is split at that point. Text, listing queries, formatting
and logging are left out. An operator marked `Mutant:` is the same definition with a
plausible mistake; nothing uses it except the check that the property named with it in
`PROJECT.json` would notice the mistake.

`SELECT ... FOR UPDATE` on a row the session has already loaded returns the object as it was
first read (SQLAlchemy's identity map without `populate_existing`). Handlers that lock late
are therefore modelled with the values they read first: `cancelRead` in `Exchange`,
`revoking` in `Sanctions`, the review in `Cases`, `judging` in `Karma`.

### Exchange

One task of a member, any number of performers and slots. `taskStatus`, `slots`,
`reward`, `reservedTotal` are columns of `tasks`; `assignment[p]` is the row of performer
`p` (a unique constraint allows one per task), `order` its place by `accepted_at`;
`window[p]` the 72-hour review or 24-hour dispute window; `request`, `response`,
`declineEvent` the cancellation request; `ledger` the rows of `account_transactions` about
this task, a row's key being `<<op, of, n>>`; `due` the worker's list between its two
transactions; `cancelRead` the reserve `tasks.cancel` read before it waited for the gate.

| Action | Code |
|---|---|
| `Publish`, `EditPublished` | `TaskService.publish`, `edit_published` |
| `BeginCancel`, `FinishCancel`, `AbortCancel` | `TaskService.cancel`, split where it waits for the task gate |
| `CancelUnclaimed`, `RequestCancellation` | `request_cancellation` |
| `Decline`, `Consent`, `RespondLate` | `respond_cancellation` |
| `Accept`, `Submit`, `CancelAssignment`, `Dispute` | the performer's operations in `AssignmentService` |
| `Approve`, `Reject` | `AssignmentService.decide` |
| `ResolveDispute` | `resolve_case`, first resolution |
| `FinalizeReview`, `FinalizeRejection` | the review finalizers |
| `WorkerList`, `FinalizeDeadline`, `WorkerCrash` | `due_task_ids`, `finalize_deadline` |
| `DeadlinePasses`, `WindowCloses` | the clock |

Three constants isolate interactions that the code allows and that break something, so
that the other properties can still be checked:
`AcceptRace` (the order of `accepted_at` may differ from that of commits), `Codes` (the
resolution code `cancel_without_fault`), `Responders` (performers whose client answers a
request). `Finalizers` says whether anything calls the review finalizers. As deployed
`Finalizers` is `FALSE`, no transport calls `respond_cancellation` or `tasks.cancel`, and
of the resolutions of a dispute only the first is exposed; the rest are public operations
of the services, with tests, and are modelled.

`Escrow` is the abstract specification: a reserve, a price, parties settled at most once
for one price, and if it is `Covered`, never out of more than is held. `ExchangeEscrow` maps the reserve to minus
the sum of the task's ledger rows and a settled party to a performer with postings, once covered (`ImplementsEscrow`)
and once not (`KeepsAccounts`, which holds on every path).

### Sanctions

One member. `IssueSanction`, `LoadForRevocation` + `Revoke` or `LeaveRevocation`
(`revoke_sanction` loads the row before the gate), `LoadMember` + `Materialize` or `RollBackRead` (`get_member`
expires an elapsed suspension without gate or lock), `Act` (`ensure_action_allowed`),
`ChangeStatus` (pause, resume), `Elapse` (the clock). `StaleReads` lets others commit
between a load and the write based on it. Of two revocations of one sanction that both loaded it before the gate the second
works on the old row too and revokes again (`db/moderation.py:748`); `Revoke` does so in the model, and no property claims otherwise.

### Ledger

Sessions run requests of one or more phases. A phase with commands is a batch, and its steps
are those of `prepare_batch` and `apply`: resolve reversals, one key lock after the other,
read the stored rows, one member row after the other, check, stage, commit. A phase without
commands locks members, inserts one (a registration), or activates a version of the product
configuration: it takes the configuration gate, reads which members there are, locks them
one after the other and gives each the level of the new version. `session[s].scope` is that
list of members, read before the locks. `levelled` is the level cached in a member's row with
the version it was computed under. `Refuse` is every
exception the checks raise, `Abort` a lost connection or a crash; a request may be repeated
also while its first attempt runs. `MCLedger` gives the requests: a transfer, the same
keys with another amount, a transfer back, two reversals of the same reward (one of which
pays again in a second batch), a publication that locks its author's row first, a registration with
its starting grant, the first activation and two later ones. `Mixes` says which of them are asked
together. No route or job calls `ProductConfigService.activate` after the first bootstrap; it is a public
operation with tests.

### Delivery

`outbox` and `note` are the two tables: status, attempts, the token (named by the attempt
it was drawn for) and whether the row is due. A worker's tick is `StageReminders`,
`ClaimOutbox`, `Materialize`/`FailOutbox` per event, `ClaimNotes`, then per message
`Recheck`, `Send`, `Mark`, `EndTick`: each a transaction or a call outside of any. `Observe`
publishes or edits a tagged post, `Reconsider` changes whether a recipient is eligible,
`OutboxDue`/`NoteDue` are the clock and the end of leases, also under a living worker. The
message of `Send` may arrive although the call failed. An event has one recipient: recipients do not
interact, and one row of `notifications` belongs to one event and recipient.

### Roles and Admission

`account[m]` is the row of a member: status, role, rights and who appointed him;
`bootstrapped` the audit marker of the first administrator. `Appoint`, `UpdatePermissions`,
`Demote` and `Bootstrap` lock actor and target and judge both as they are then. `change_member`
has no caller outside the tests and is left out.

`Admission` adds `application[m]` (status, the step of the form, the fields answered, the version),
`invitation`, `redeemed`, the admission `mode`, the starting `credits`, and for the chat `inChat`
(where the user is), `notices` (chat member updates under way), `answer` (an answer of
`getChatMember` a handler is about to use), `onboarding`. `click` is the moderation command in flight.

| Action | Code |
|---|---|
| `Start`, `AnswerStep`, `StepBack`, `Submit`, `Reopen` | the registration commands of `RegistrationService` |
| `BeginDecision`, `Decide`, `EndDecision` | `moderate_for_actor`: checked, decided under locks, repeated with its key |
| `AdmitAtOnce`, `ApproveApplication` | simplified admission; an approval with its grant and event in one transaction |
| `CreateInvitation`, `RevokeInvitation`, `InvitationExpires`, `SetPolicy` | invitations and the admission mode |
| `Move`, `Deliver` | the user joins or leaves; `record_chat_membership`, late, repeated, in any order |
| `AskTelegram`, `UseAnswer` | `/start`, the onboarding button and the web session, split around `getChatMember` |

`Handlers` bounds which of the handlers ask, `Answering` who fills in the form, `Movers` who moves.

### Cases

The assignments of one pair of members: `status`, the resolution's rows in `entries`, the `case` with
its revision and deciders, `alerts`, `screen[s]` (what a moderator was shown last) and `draft[s]` (his
preview). `BeginPayout`/`CommitPayout` are a payout and its commit, between which others count:
the gate of the pair serializes them. `Preview`, `Confirm`, `ResolveShown` name the revision shown.
`Appeal` and a second `ResolveCase` reverse the rows of the first. `ReadAlert`/`CloseAlert` are
`review_alert`, split at the gate of the pair. Only the resolution of a dispute has a route; the others
are called by tests.

### Drafting: Conversations, Catalog, Publication, Karma, Submission

`flow[m]` is the one conversation row of a member: task forms, karma votes and the profile edit own it in
turn (`Conversations`). `versions` and `offered` are the catalog. `Publication` has `draft`, `task` (the
published terms, those agreed, those of whom took it), `reserve` (its ledger rows), `screen` (the preview shown last) and `sending`
(a publish command between its first reads and its locks: `PublishBegins`, then `Publish`,
`RequestApproval`, `PublishRepeats` or `PublishEndsUnchanged`). `Advance` is the bot's form
(`_advance_freeform`, `_advance_template`), `SaveWeb` the Mini App's, which also reopens a draft that is published already,
beside its task. `Karma` has the votes, the rulings
on them, the signals, the `form` in a rater's tab, and `confirming` (a confirmation between its flush and its commit).
`Drafting` joins them: a confirmation that holds rows makes others wait
(`ConversationsAreHeld`, `MembersAreHeld`).

`left` bounds how many commands of each kind an instance issues, and a behaviour begins with one of several
`Budgets`, each of which gives its commands to one story: answering the bot's questions and editing, a
template whose version and reviewer change, the Mini App against the clock and demotions, votes, rulings, all owners of the
conversation row, and results sent from two sheets.

`Submission` is the result of one assignment between the sheet of the Mini App (`showSubmissionActionSheet`) and the server.
`sheet[s]` is what the sheet holds: the `draft` of the last answer, the `input`, whether the button is `enabled`, the operation
`keys`. `requests` are those not served yet, `awaited` those somebody still waits for. `PressButton` saves a changed text or confirms
an unchanged one, `Answered` confirms a saved draft at once, `Failed` keeps the keys after a network error and drops them after
a refusal. `Serve`, `Replay` and `Refuse` are the three routes: served first, answered from the receipt, refused. `progress` leaves
`accepted` by the confirmation or by `EndAssignment`; what the confirmation does to the task is `Exchange!Submit`. No Telegram handler
calls these commands any more, so their branches for the bot's conversation, `begin_dispute` and `cancel_text_flow` are left out.

### Operations: Host, ReleaseContract, WalletCutover, DevDeploy, TelegramActivation

`Host` is what all tools share: the containers `app`, the database `base` (its migration head, how many business writes
it holds, the legacy queue), the installed directories `package`, the `images`, `shared/.env`, `main`, and the
process under `dev-deploy.lock`. Heads 0 and 1 stand for the pair a cutover joins: 0021 → 0022 in the contract,
0033 → … → 0040 in the wallet cutover.

| Module | Code | State |
|---|---|---|
| `ReleaseContract` | `release_contract.py`, the dumps of `backup_postgres.py` | `active` (`active.json`), `proof`, `op` (the process under `operations.lock`) |
| `WalletCutover` | `wallet_cutover.py` | `receipts` with their phase, `copies` (recovery databases) |
| `DevDeploy` | `deploy_dev.py`, `deploy_compose_change.py` | `asked`, `previous`, `saved` |
| `TelegramActivation` | `telegram_activation.py` | `telegram` (the receipt), `site` (the installed nginx file), `route` (the loaded one), `webhook`, `staged` |

Every step a script makes is an action of its own; any step may fail and any process be killed between two.
The job of a cutover goes `forward` or `backward` through the steps of its script (`Script(way)`), with the receipt it has in
memory; the job of the Telegram activation has the configuration it aims at, `new` or, when it restores, `old`.
The scripts that handle errors (`WalletCutover`, `DevDeploy`, `TelegramActivation`) go on with their rollback after
a failure and with nothing after a kill. `Write` is a member's command while a container serves without maintenance.
`OneFamily` says that the tools of the two lock files are not used at the same time, `FinishFirst`
that an interrupted cutover is recovered before another tool starts. Both are the operator's discipline: the code
enforces neither, because a lock ends with its process and the two families know nothing of each other (see the counterexamples).

The signatures, hashes and file permissions the tools verify are abstracted to whether a directory still has
the content it was installed with. `deploy_dev.py` also has a branch that migrates; its caller never reaches it, because
the tool refuses an image whose head differs from the live one.

## 4. The runs

| Run | Instance | States | What it shows |
|---|---|---|---|
| `exchange_settlement` | 2 performers, 1–2 slots, rewards 1 and 3, all codes, races, one edit | 307 905 (symmetric) | whatever interleaves, an assignment's postings are those of its outcome (`SettledAsDecided`), outcomes are final, consent is asked only of those who hold the slot, and a task in the catalog lacks no more than the reward of the slots given back with it (`CatalogReserve`) |
| `exchange_reserve` | 3 performers, 1–2 slots, reward 3, without `cancel_without_fault`, late answers and accept races | 66 025 (symmetric) | the reserve covers everyone who may be paid and every open slot; intake never reopens; the lifecycle implements `Escrow` without overdraft |
| `exchange_ends` | 2 performers, 1–2 slots, all codes, finalizers allowed but not owed | 42 733 | overdue tasks leave the open statuses, a request for cancellation ends (`RequestEnds`); with one slot terminal means released and settling means somebody is awaited (`SoleSlotSettles`) |
| `sanctions` | 3 sanctions of any kind, one moderator, loads not overtaken | 39 822 | a running suspension blocks (`SuspensionHolds`); without overlaps the account is usable again |
| `ledger` | 2 connections, 4 members of whom one registers, 10 requests in 6 mixes, 2 versions of the configuration | 50 942 | balances add up, no unique constraint is met, a transfer stays entitled, levels are those of the active version, no circle of waiting, repeats are answered |
| `delivery` | 2 workers, a reminder, a post edited between 2 tags, 2 attempts, one overrun lease | 1 462 240 | an announcement arrives at most once, closed rows stay closed |
| `delivery_ends` | 1 worker, an event, a post, a crash | 35 402 | every event and notification is settled |
| `membership` | owner, staff, 2 applicants, a general and a personal invitation, 2 versions of an application, a move | 613 396 | account, application, conversation and grant agree, a form that looks complete is, invitations keep their limits, only active staff decides, once |
| `presence` | one member, 3 moves, all three handlers that ask Telegram | 123 805 | the account agrees with the chat in the end |
| `cases` | 2 assignments of a pair, 3 staff, codes `partial_payment` and `fraud` | 290 964 | one outcome stands in status, ledger and reliability; nobody decides what he was not shown; a pair over the threshold has had an alert |
| `drafting` | owner, creator, reviewer, 2 drafts, 2 sheets with 2 texts, 8 budgets | 918 854 (symmetric) | what is published is what its creator saw, by somebody who may, also after a save reopened the draft; previews are consistent; bursts raise signals; exclusions fall on what was judged; a result is recorded once, with the text whose revision was confirmed |
| `operations` | 4 releases, one with a migration, one with another Compose file, 6 plans of up to 3 processes, one write | 2 105 100 | the schema moves only on a durable proof and back only to it (`DatabaseMovesAsProven`), the Telegram entry is whole; and, if the operator keeps the two rules `OneFamily` and `FinishFirst`, no write is lost, whoever serves finds his schema, a way back exists until writing is opened |

`TypeOK` of `Exchange`, `Delivery` and `Admission`, `SanctionsTypeOK` of `Sanctions` and `WorkOK` of `Ledger` (the shape of its transactions) are proved
(section 5); `TypeOK` of `Cases` holds on the instance of its run. No run lists a type invariant.

Why these bounds are enough. Settlement conflicts are between paths to one
assignment; two performers with one slot give reuse of the slot, with two slots
the aggregate of a mixed task; a third performer gives the reuse of a slot
while another is busy. Reward 3 has an odd half, reward 1 has no remainder.
Three sanctions are the least number in which an older one outlives a newer one
twice. Two connections suffice for lost updates, collisions and every circle of
two; what more of them do is the subject of `LedgerProofs`. Each mix of the ledger brings together requests that meet in keys or
members: both directions of a transfer with a reversal and a publication, two reversals of one row, one key with two amounts, a
registration next to a transfer, the first activation next to a second and a payment, two activations next to a transfer. Two attempts distinguish retry from
exhaustion; a second worker and one overrun lease give every order of two holders of a row. In
`delivery` crashes are off because a worker whose lease is overrun and that takes no
further step is a dead one.

In `membership` the second applicant competes for the same invitations; two versions are one submission, a rejection and one
resubmission. In `presence` three moves let an event be two behind the chat. Two assignments are the least pair of payouts that
cross the threshold (1 here, so that the second crosses it; the code's number needs more of the same), and two admins and a moderator
are a first decider, an independent second and a spectator with an old screen. In `drafting` a burst is 2 votes instead of 3,
sizes are the smallest and the largest, the rewards one that fits each; the budget `Questions` lets the bot's
form be filled in once and edited, `Templates` approved twice under one change of the catalog and one of
the roles, `MiniApp` save four times and publish twice. In `Sending` five requests are an opening, two saves
and their confirmations, of which the first may arrive last, or two openings, two saves and a repetition; `Leaving` lets the performer go in between. In `operations` the four releases are: a first one, one with another
Compose file, one with the first file again, one with a migration; each plan is a pair of tools that share something (or three
bundle operations), and one write distinguishes a database before and after it.

`CHECK_DEADLOCK FALSE` is set where the system may really stop: a settled task whose deadline has
passed has nothing left to do, a member may run out of sanctions, applicants of moves, a draft's commands of their budget, the host of
processes to start (bounds), and a pair of members of assignments.

Counters and their bounds: `MaxEdits`, `MaxSanctions`, `MaxRevisions`, `MaxCrashes`,
`MaxOverruns`, `MaxMoves`, `MaxVersions`, `MaxReceipts`, `MaxWrites`, `LastRelease`, `Budgets`, `Plans`, `Mixes`;
`NextAttempt` stops counting above every attempt a row can reach without `Poison`.

### Fairness

*Exchange*: the worker polls in an endless loop and is restarted when it dies
(`restart: unless-stopped`), so listing is weakly and finalizing a listed task strongly
fair; the clock advances. Members, moderators and whoever might call the review finalizers owe
nothing: no liveness property needs one. `DeadlineSettles` and `RequestEnds` hold likewise with `Finalizers = FALSE`, as deployed
(73 153 states), and with `AcceptRace = TRUE` (81 897 states). *Sanctions*: a blocked member comes back again
and again, and some of those transactions commit. *Delivery*: the worker process takes steps, restarts included;
`next_attempt_at` and leases come to an end. The number of crashes is bounded, with `Poison` excepted. *Admission*: Telegram delivers every update in
the end (it repeats a webhook that was not acknowledged), a handler that has asked goes on, and whoever may write `/start`
does so again and again: a departed member who never returns is told by the update, one whose arrival was lost behind a late departure
is put right by his next `/start`. The other modules state safety only and assume no fairness.

### Counterexamples kept beside the runs

TLC reports a violation for each of these configurations. They show what the constants above exclude.

| Configuration | Property | What happens |
|---|---|---|
| `exchange_review_frozen.cfg` | `ReviewSettles` | as deployed, nothing calls `finalize_review` |
| `exchange_freed_slot.cfg` | `NeverOverdrawn` | `cancel_without_fault` refunds a slot; it is taken and paid again |
| `sanctions_ban_lifted.cfg` | `BanHolds` | without any race an elapsed suspension restores the status before a ban |
| `sanctions_stale_read.cfg` | `BanHolds` | `get_member` overwrites a ban issued since it read (`database.py:1395`) |
| `delivery_poison.cfg` | `OutboxSettles` | an exception that is not a `NotificationProcessingError` ends the tick and the process; the event is taken up again for ever and never becomes `failed` (`application/notifications.py:170`), although `docs/mvp/06_DATA_MODEL.md:288-289` promises it after five attempts. Rows are claimed oldest first, so whatever is claimed together with it and after it waits too |
| `cases_fraud_appeal.cfg` | `SlotPaysOneReward` | a fraud case of a partly paid review reverses the payout only; its appeal pays and refunds a whole reward next to the refund of the review |
| `cases_rearm.cfg` | `EveryCrossingIsAlerted` | once the only episode of a pair was reviewed or re-armed, no later crossing opens another (`db/moderation.py:1429`) |
| `drafting_stale_tab.cfg` | `VotedAsShown` | a second tab begins the vote anew; the first tab's answers fit its revisions |
| `operations_recover_late.cfg` | `NoWriteIsLost` | a cutover is killed in phase `migrating`, which frees the lock; a deployment of the target is dispatched by hand (`release.yml` is a `workflow_dispatch`), which nothing on the host prevents, and it serves without maintenance; a write; `recover` swaps the copy made before it in. `docs/WALLET_CUTOVER.md:25` says that a second deployment is excluded |

More of them come from the runs' configurations by changing constants:

| From | Constants | Property violated |
|---|---|---|
| `exchange_freed_slot.cfg` | `Codes <- CoveredCodes`, two performers who answer | `NeverOverdrawn`: a consent refunds a slot, a later `request_cancellation` counts it as free (`application/tasks.py:1767`) |
| the same | `Codes <- CoveredCodes`, `AcceptRace = TRUE`, one slot, nobody answers, 3 credits | `NeverOverdrawn`: `accepted_at` is the start of the transaction (`models.py:856`), so the history of a slot ends with a cancelled row although the slot is taken |
| the same | `Codes <- CoveredCodes`, two performers who answer | `RefusalStaysPossible`: two refusals of one request share a unique outbox key (`application/tasks.py:1896`) |
| the same | `Codes <- CoveredCodes`, one slot, nobody answers | `CancelledIsFinal`: `finalize_deadline` does not look at the task's status (`application/assignments.py:1379`) |
| the same | `Codes <- CoveredCodes`, two performers, nobody answers | `SettlingHasActive`: a performer's cancellation in a settling task derives no status (`application/assignments.py:889`); `TerminalReserveReleased`: a terminal task keeps the reserve of such a slot |
| `drafting.cfg` | `Sending == Budget([result \|-> 6])` | `SubmittedAsTyped`: a save whose answer was lost is repeated after another save and answered with the draft as it is now (`_draft_replay`); the sheet confirms that text although it shows another |
| `sanctions.cfg` | `MaxSanctions = 2` | `AccessRestored`: two overlapping sanctions revoked in the order of issue leave the account blocked; `FreeAccountIsNotBlocked`: two suspensions have elapsed, the next entry releases only one |
| `ledger.cfg` | `Mixes <- Corrections` | `NoWaitCycle`: an appeal and a transfer wait for each other: `resolve_case` of version 2 locks two batches (`db/moderation.py:436`) |
| `ledger.cfg` | `Mixes <- Community` | `NoWaitCycle`: publishing a community task locks the creator before it sorts creator and reviewer (`application/tasks.py:1281`) |
| `ledger.cfg` | `Mixes <- Registrations` | `LevelsAreCurrent`: an activation has read the members when a registration under the version before commits: the newcomer keeps its level. `docs/mvp/02_DOMAIN_RULES.md:162` and `06_DATA_MODEL.md:489` want every level recomputed; readiness then reports `product_config_incomplete` (`health.py:83`–`134`) until his next batch |
| `membership.cfg` | `Answering <- Nobodies`, `Movers <- OnlyOwner`, `Handlers <- AllHandlers`, `MaxMoves = 2` | `OwnerIsUnique`: the owner leaves the chat, somebody else is bootstrapped, and the owner becomes active again; the code looks for an active administrator only at the bootstrap |
| `cases.cfg` | `Reviewers <- TwoAdmins`, and `{}` for `Disputable`, `Moderators`, `Previewers`, `Codes` | `PenaltyIsRecommended`: two admins close one alert; the second goes on with the row he loaded before the gate (`db/moderation.py:788`) |
| `operations.cfg` | `OneFamily = FALSE` | `NoWriteIsLost`, `SchemaIsServed`, `RecoveryIsPossible`: the two lock files do not exclude each other |
| `operations.cfg` | `FinishFirst = FALSE` | besides `NoWriteIsLost` (above) also `RecoveryIsPossible` |
| `operations.cfg` | `MaxReceipts = 2`, `HeadOf <- <<0, 0, 1, 1>>`, `PackageOf <- <<1, 1, 1, 1>>`, one plan of 2 cutovers of the wallet, 2 of the contract, 1 deployment | the second clause of `RecoveryIsPossible` without `Opened = {}`: a cutover of the wallet has opened writing, and the pending cutover of the contract finds the schema migrated; its proof does not hold what was written since, and there is no way back any more |

## 5. The theorems

Each theorem holds for every value of the module's constants that its `ASSUME` allows (any finite sets of members,
performers, workers, connections or requests, any prices, thresholds and bounds), where the runs try a few.
`PROJECT.json` lists them with what each states. A further hypothesis is named in the table; each of them excludes a
set of requests that breaks the property, and a counterexample of section 4 shows that the theorem without it is false.

| Module | Theorems | Inductive invariant | Hypothesis |
|---|---|---|---|
| `ExchangeProofs` | `TypeCorrect`, `SettledOnce` (`SettledAsDecided`), `Consents` (`AskedOnlyWhileAccepted`), `Finality` (`OutcomeIsFinal`), `IntakeCloses` (`IntakeNeverReopens`) | `IInv`, `IntakeInv` | none |
| | `CatalogIsFunded` (`CatalogReserve`), `Refinement` (`KeepsAccounts`) | `BooksInv`, `ReserveInv` | none |
| `AccessProofs` | `SanctionsTypeCorrect` | `SanctionsTypeOK /\ InOrder` | none |
| | `Suspension` (`OnlyOvertakenLoadsLift`) | the same | none |
| | `TypeCorrect`, `Admissions` (`AdmittedOnce`), `Previews` (`PreviewIsComplete`), `Limits` (`InvitationLimits`), `Decisions` (`DecisionIsWarranted`) | `AdmissionInv` | none |
| `LedgerProofs` | `WellFormed` (`WorkOK`), `Collisions` (`NoCollision`), `Entitlement` (`TransferStaysEntitled`), `Repeats` (`StoredIsNeverRefused`) | `LedgerInv` | none |
| | `History` (`HistoryAddsUp`) | `HistoryInv` | none |
| | `WaitingEnds` (`NoWaitCycle`) | `OrderInv` | `OneLockOrder(rank)` for some `rank` |
| | `CurrentLevels` (`LevelsAreCurrent`) | `LevelInv` | `JoinsApart` |
| `CasesProofs` | `OutcomeStands` (`OneOutcomeStands`), `Crossings` (`CrossingIsAlerted`), `Decisions` (`DecidedAsSeen`) | `CasesInv` | none |
| `DeliveryProofs` | `TypeCorrect`, `Closure` (`ClosedStaysClosed`), `Announcement` (`AnnouncedAtMostOnce`) | `TypeOK`, `AnnouncementInv` | none |
| `DraftingProofs` | `Negatives` (`NegativesAreSignalled`), `Exclusions` (`ExclusionIsForWhatWasJudged`) | `KarmaInv` | none |
| | `Submissions` (`SubmittedAsConfirmed`) | `SubmissionInv` | none |
| | `Agreements` (`TaskIsAsAgreed`), `ConsistentPreviews` (`PreviewIsConsistent`), `Warrants` (`PublicationIsWarranted`) | `PublicationInv` | none |
| `OperationsProofs` | `TypeCorrect` (`TypeInv`), `DatabaseMovesOnlyAsProven` (`DatabaseMovesAsProven`), `OpeningIsFinal`, `TelegramNeverStaysMixed` (`TelegramIsWhole`) | `Inv` | none |

`Sums` holds the lemmas about sums that the ledgers need.

### Why the invariants are what they are

*Settlement.* `SettledAsDecided` alone is not inductive: a consent refunds the performer's slot whether
or not it still finds an accepted assignment, so the proof needs that only performers
with an accepted assignment are asked (`IInv`). That in turn holds because everything that ends the
accepted state closes the request (`obsolete_pending_request`), or is the answer itself. The
argument has three kinds of step: those that post nothing about a
performer and keep every status among the unsettled ones (`QuietStep`), those that give one unsettled assignment
an outcome and post that outcome's rows (`OutcomeStep`), and the deadline, which does the latter
to a set of assignments at once.

*Intake.* `LeftIsIdle` says that before the deadline a task leaves the catalog and its closed state only when nobody
works on it any more, so that no later settlement derives its status again.

*Credits.* `Books` is what the rows of a task agree on, on every path: edits are numbered as booked, while the task is in the catalog
its creator got nothing back, while nobody has accepted the whole reserve is there. Every step has one of a few forms
(`StepForm`): somebody joins, moves on, leaves, is decided; a set is settled; the task is funded, closed or lapses; each with the rows it books. `ReserveInv`
adds what these forms keep, consents, `cancel_without_fault` and overtaking acceptances included: in the catalog the reserve is exactly a reward for everyone
at work and every free slot, less one for every slot given back with its reward, and later it is no more than that.
For the refinement (`KeepsAccounts`) the same forms are abstract steps with the same rows. What is *not* proved is that the reserve is never overdrawn: that is
false on the paths of `exchange_freed_slot.cfg`; `exchange_reserve` checks it where these paths are excluded.

*Sanctions.* `OnlyOvertakenLoadsLift` names the one step that can open an account under a running suspension: the write of a `get_member` whose
load was overtaken (`database.py:1395`), which PostgreSQL at read committed does not exclude. The proof goes through the other steps: whoever is issued a suspension is blocked by it, a revocation, on however old a row, restores a remembered status
only when no other suspension or ban is in force (`RestoredStatus`), and an entry releases an elapsed suspension only when no other runs (`Releasable`).
`InOrder` says that sanctions are numbered as issued.

*Ledger.* `LedgerInv` says what a transaction may rely on from its locks: the keys it found free are held or unbooked (`KeysHeld`, `FreshIsNew`), the rows it
judged are locked (`RowsHeld`), what it staged is still new (`StagedIsHeld`), a source it is about to reverse stays as read (`SourcesStayIntact`),
and whoever inserts a member holds the identity gate. `HistoryInv` adds the books: the rows a transaction has staged continue the cached balances
of the members it has locked, whatever others commit meanwhile.
`OrderInv` says which locks a transaction holds: all those of the phases behind it, and of the present phase the smallest. The hypothesis
`OneLockOrder(rank)` is about the requests alone, not about their runs: one ranking of all keys and rows above which every phase waits, as ADR-0006
asks of the handlers. Whoever waits then waits for something above all he holds, so along a chain of waiting transactions the rank grows and the
chain ends. `LevelInv` adds the levels: what a transaction has staged for a member is the level of the experience it reads (`RaisedAsRead`), an
activation about to commit holds every member (`Switches`, `ScopeIsEveryone`), so no batch holds a level of the version before, and who is being
inserted is granted something under the version of that moment (`InsertedIsGranted`). `JoinsApart` excludes that registrations and activations are
asked together. `MCLedger` has TLC evaluate that the everyday mixes meet both hypotheses (`EverydayFollows`), with the ranking that all of them
follow; `Corrections`, `Community` and `Registrations` of section 4 do not, and there the properties fail.

*Cases.* Status, case, ledger rows and reliability events of an assignment are together in one of seven situations (`Story`): undecided, in
dispute, reviewed, confiscated by a fraud case, reconsidered after it, judged, judged again on appeal. In each the rows are known up to the codes, and
what still stands of them is computed once per situation (`StandingReview`, `StandingReconsidered`, `StandingRejudged`); a decision leads from one situation to the next
(`DecisionStory`). What was shown of a case is the case at a revision, and at one revision there is one case (`ViewsAreOld`). A payout that is about to commit
has counted at least what its own rows make (`CountHolds`): it is alone under the gate of the pair, and meanwhile payouts can only leave the window.

*Delivery.* At most one claim of the announcement is worked on (`OneClaim`), and while its row may still be claimed nothing has been
delivered and nobody is about to send it (`OpenIsUndelivered`); both hold because a lease that ends on an announcement closes the row instead of reopening it.

*Admission.* The rows of one member agree (`MemberInv`), a step changes one member's rows, and a user without an account has no other row.
`FormStands` says which answers each step of the form has behind it, which is what resuming relies on.

*Drafting.* What was shown of a draft, vote or result carries the revision it was read at; no revision shown is newer than the stored one, and at one
revision there is one content (`WasRead`, `Shows`). Confirmations of votes hold the rows of rater and target, so the votes they counted are
still those when they commit (`LocksHold`, `Confirmed`). The rows of a draft are consistent with its step (`DraftStands`) whatever path led there.

*Operations.* Nothing is assumed of the operator: both families of tools run side by side, any process is killed anywhere, and whatever was interrupted is left
alone. What a step of migration or rollback relies on is therefore what its own process and the durable files say. A pending cutover of the contract joins the two heads
and has written its proof before it migrates (`CutoverStands`). A receipt that says so has a dump of the old schema with all the writes it counted, and its copy is that dump or
was swapped in (`Recoverable`); nobody but the process under the lock changes a receipt, so what it has in memory is what is saved, as far as a recovery needs it (`Saved`). Where
a process stands tells what it has written (`ForwardStands`, `BackwardStands`); where the Telegram tool stands tells which of the four places already agree
(`TelegramStands`), because the tools of the other family recreate containers with the settings they find. `OpeningIsFinal` says that a receipt that announced
the opening of writing is never taken for reversible again. That no write is lost, that whoever serves finds his schema, and that a way back exists need the operator's discipline and are
model-checked under it; without either half of it they fail (section 4).

### Sums and induction

The provers cannot instantiate the library's induction theorems, which take a predicate. `Sums` states induction over the subsets
of a finite set with a *set* of good subsets (`SubsetInduction`), and proves it from the least cardinality; a property is used
as the set of the subsets that have it. From that follow the facts about `MapThenSumSet` used in `ExchangeProofs`, `LedgerProofs`,
`CasesProofs` and `DraftingProofs`: a sum does not depend on the order of its elements, one element more adds its value, disjoint parts add up.

### Assumptions

`ExchangeAssumption`, `SanctionsAssumption`, `DeliveryAssumption` and so on say that constants have their types. Three say more.
`LedgerAssumption` gives requests the shape that `prepare_batch`, `activate` and `start` give them: an activation locks everyone under its gate and ends its
request, a registration inserts one newcomer under its gate and grants him something later, a reversal names a source.
`OpeningAssumption` (`Ledger`): the rows that are there at the beginning leave no balance negative, as the column's check demands.
`PublicationAssumption`: `Nothing` is no value of a field, and what the Mini App sends (`Forms`) passed its schema.

### Only model-checked

- Liveness (`DeadlineSettles`, `RequestEnds`, `UnlayeredAccessRestored`, `EverythingSettles`, `PresenceSettles`): fairness and `ENABLED` are
  out of the provers' reach.
- What holds only if something the code allows is excluded: `ReserveCoversObligations` and `ImplementsEscrow` (without the codes, answers and accept
  orders of section 4), `SoleSlotSettles` (`AcceptRace = FALSE`), `SuspensionHolds` (`StaleReads = FALSE`), `NoWriteIsLost`, `SchemaIsServed` and `RecoveryIsPossible`
  (`OneFamily` and `FinishFirst`). What is proved next to them holds without any such exclusion. `KeepsAccounts`, `OnlyOvertakenLoadsLift` with stale reads and two moderators
  (938 650 states), and the properties of `operations` that are proved, with both constants `FALSE` (5 196 580 states), were model-checked as well.

## 6. What is not modelled

- The review of a community task by its reviewer, the limit of active tasks, categories and text edits of published
  tasks; history paging and the receipts of grants in the wallet; warnings among the sanctions; onboarding texts, subscriptions and quiet hours.
- The common loop of deadlines and notifications: a deadline that keeps raising
  keeps notifications from being sent. Each half is modelled with a worker of its own.
- Recipient selection and texts of notifications, and the clock arithmetic of delivery windows.
- The row lock on the source of a reversal, whose holder already holds the row of the
  source's member.
- The receipt of a web publication for which `_web_publication_replay` (`application/tasks.py:2588`) compares a creator that is
  `NULL` for a community task: repeated publications of the modelled drafts are found by their draft.
- Of the operator's tools: time limits, exit codes, hashes, permissions; a `.telegram-stage` file of the settings or of the route left by a kill, which blocks every later
  activation and restoration, is modelled (`staged`), its removal by hand is not; an `up` that recreates only one container is modelled (`RecreateAppPartly`, `UndoDeployPartly`, `StartPartly`); a Compose change killed between the replacement of the file and
  the restart is modelled, its later repair by hand is not. The directory that a rejected first activation leaves, and dumps of
  other databases in the backup directory, are left out.
- The web API, the Mini App's rendering, bot menus, statistics, avatars, settings, logs and test runs: input and output. Migrations:
  the constraints they end with are in the modules as unique keys and guards.
