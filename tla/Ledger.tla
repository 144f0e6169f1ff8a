------------------------------- MODULE Ledger -------------------------------
(***************************************************************************)
(* The economy ledger under concurrent transactions                        *)
(* (infrastructure/db/economy.py, application/wallet.py), and the product   *)
(* configuration whose levels it gives to members.                         *)
(*                                                                         *)
(* A request runs one or more phases in one transaction.  A phase is a     *)
(* batch of economy commands: it resolves the commands, takes the advisory *)
(* locks of their idempotency keys one after another, reads the rows       *)
(* stored under these keys, locks the members one after another, checks,   *)
(* and applies.  A phase without commands locks member rows, inserts a new *)
(* member, or activates a version of the product configuration and gives   *)
(* every member a level under it.  Other transactions run between any two  *)
(* of these steps, any of them may break off, and a client may repeat a    *)
(* request, also while its first attempt is still running.                 *)
(*                                                                         *)
(* Keys and members are numbered in the order in which the code sorts      *)
(* their locks.  The row lock on the source of a reversal is left out:     *)
(* whoever takes it already holds the row of the source's member.          *)
(***************************************************************************)
EXTENDS Integers, Sequences, FiniteSets, FiniteSetsExt, SequencesExt

CONSTANTS
  Members,    \* member ids
  Sessions,   \* database connections that run economy transactions
  Mixes,      \* sets of requests asked together, with the activations before
  Phases,     \* request -> sequence of phases
  Opening,    \* commands booked before the modelled requests
  Threshold,  \* TRANSFER_THRESHOLD
  Levels,     \* version -> sequence of experience_required
  Leavers,    \* members whose account may become inactive and come back
  Newcomers   \* members who are not registered yet

(* A command: reverses is the key of the row a reversal undoes, 0 for other *)
(* kinds (member and credit of a reversal are those _resolve_commands takes *)
(* from its source); actor is 0 when the system acts.                       *)
CommandFields == {"key", "kind", "member", "credit", "actor", "reverses"}

(* What a phase does besides: also are members it locks, gates further      *)
(* advisory locks, everyone is whether it locks all members, joins are the  *)
(* members it inserts, activates is an activation in a sequence, or empty;  *)
(* founds is whether the request is made only when nothing is active.       *)
Plain == [commands |-> <<>>, also |-> {}, gates |-> {}, everyone |-> FALSE,
          joins |-> {}, activates |-> <<>>, founds |-> FALSE]
Batch(commands) == [Plain EXCEPT !.commands = commands]

\* Two advisory locks that are not idempotency keys.
ConfigGate == 1001
IdentityGate == 1002

\* prepare, activate: lock everyone, then ingest, switch the version, and read
\* and level everyone again.
Activation(id, version, admin, founds) ==
  LET locks == [Plain EXCEPT !.also = {admin}, !.gates = {ConfigGate},
                             !.everyone = TRUE, !.founds = founds]
  IN <<locks, [locks EXCEPT !.activates = <<[id |-> id, version |-> version]>>]>>

\* start in simplified mode: insert the member, then book the starting grant.
Registration(member, grant) ==
  <<[Plain EXCEPT !.gates = {IdentityGate}, !.joins = {member}], Batch(<<grant>>)>>

RewardKinds == {"task_reward_earned", "partial_task_reward",
                "community_task_reward"}
ReversalKinds == {"fraud_reversal", "resolution_reversal"}
TransferKinds == {"transfer_sent", "transfer_received"}

\* The experience the levels of a version require, first to last.
IsLevelScale(scale) ==
  /\ scale[1] = 0
  /\ \A n \in 2..Len(scale) : scale[n - 1] < scale[n]

Requests == UNION {x.asked : x \in Mixes}

\* Every command that was or may be booked.
AllPhases == UNION {Range(Phases[r]) : r \in Requests}
AllCommands == Range(Opening) \cup UNION {Range(p.commands) : p \in AllPhases}

\* A reversal has a source, and names the source's member.
SourcesNamed ==
  /\ \A c \in Range(Opening) : c.reverses # 0 =>
       \E d \in Range(Opening) :
         d.key = c.reverses /\ d.kind \notin TransferKinds \cup ReversalKinds
  /\ \A c, d \in AllCommands :
       c.reverses # 0 /\ c.reverses = d.reverses => c.member = d.member

IsSeq(q) == q \in Seq(Range(q))

IsCommand(c) ==
  /\ DOMAIN c = CommandFields
  /\ c.key \in Nat \ {0} /\ c.credit \in Int
  /\ c.member \in Members /\ c.actor \in Members \cup {0}

\* A phase that activates or inserts a member holds the gate of its kind and
\* books nothing; an activation locks everyone.
IsPhase(p) ==
  /\ DOMAIN p = DOMAIN Plain
  /\ IsSeq(p.commands) /\ IsSeq(p.activates)
  /\ p.also \subseteq Members /\ p.gates \subseteq {ConfigGate, IdentityGate}
  /\ p.everyone \in BOOLEAN
  /\ p.activates # <<>> =>
       /\ Len(p.activates) = 1
       /\ \A a \in Range(p.activates) : a.version \in Nat \ {0}
       /\ ConfigGate \in p.gates /\ p.everyone /\ p.commands = <<>>
  /\ p.joins # {} => /\ \E m \in Newcomers : p.joins = {m}
                     /\ IdentityGate \in p.gates
                     /\ p.commands = <<>> /\ p.activates = <<>>

\* An activation ends its request, and a member who is inserted is then granted
\* the first credits.
IsRequest(phases) ==
  /\ IsSeq(phases) /\ phases # <<>>
  /\ \A i \in 1..Len(phases) :
       /\ phases[i].activates # <<>> => i = Len(phases)
       /\ \A m \in phases[i].joins : \E j \in (i + 1)..Len(phases) :
            \E c \in Range(phases[j].commands) : c.member = m

ASSUME LedgerAssumption ==
  /\ IsFiniteSet(Members) /\ Members \subseteq Nat \ {0}
  /\ IsFiniteSet(Sessions) /\ 0 \notin Sessions
  /\ Leavers \cup Newcomers \subseteq Members
  /\ Threshold \in Nat
  /\ \A v \in DOMAIN Levels : IsLevelScale(Levels[v])
  /\ IsSeq(Opening)
  /\ \A c \in AllCommands : IsCommand(c)
  /\ SourcesNamed
  /\ \A x \in Mixes : IsSeq(x.opened)
  /\ \A c \in Range(Opening) : c.member \notin Newcomers
  /\ \A r \in Requests : IsRequest(Phases[r])
  /\ \A p \in AllPhases : IsPhase(p)

VARIABLES
  ledger,   \* account_transactions in commit order: [command, after]
  balance,  \* members.credit_balance_cached
  away,     \* members whose status is not active
  members,  \* members whose row is committed
  activations, \* product_config_activations in commit order: [id, version]
  levelled, \* members: [version, level], version 0: level_config_version_id NULL
  asked,    \* what clients may ask for
  session,  \* session -> [pc, request, phase, replay, scope]
  staged,   \* session -> rows flushed and not yet committed
  raised,   \* session -> levelled as it will be committed, or Untouched
  keyLock,  \* key -> session that holds its advisory lock, 0: free
  rowLock   \* member -> session that holds its row, 0: free

config == <<members, activations, levelled, asked>>
books == <<ledger, balance, config>>
work == <<staged, raised>>
vars == <<books, away, session, work, keyLock, rowLock>>

Free == 0
Idle == [pc |-> "idle", request |-> "none", phase |-> 0, replay |-> FALSE,
         scope |-> {}]
NoLevel == [version |-> 0, level |-> 1]
Untouched == [version |-> 0, level |-> 0]
NoRaise == [m \in Members |-> Untouched]

KeysOf(p) == {c.key : c \in Range(p.commands)} \cup p.gates
Keys == UNION {KeysOf(p) : p \in AllPhases}

-----------------------------------------------------------------------------
Booked == {row.command : row \in Range(ledger)}
BookedKeys == {c.key : c \in Booked}

\* Credits of the first n commands of a sequence that concern member m.
SumFor(commands, m, n) ==
  MapThenSumSet(LAMBDA i : commands[i].credit,
                {i \in 1..n : commands[i].member = m})

\* The history before left no balance negative, as the column's check demands.
ASSUME OpeningAssumption ==
  \A m \in Members : SumFor(Opening, m, Len(Opening)) >= 0

\* Task rewards of a member among these commands, net of their reversals: the
\* credits earned, and the experience, which the same rows carry.
EarnedIn(commands, m) ==
  MapThenSumSet(LAMBDA c : c.credit,
    {c \in commands :
       /\ c.member = m
       /\ \/ c.kind \in RewardKinds
          \/ \E d \in commands : d.key = c.reverses /\ d.kind \in RewardKinds})

\* summary.
Earned(m) == EarnedIn(Booked, m)

-----------------------------------------------------------------------------
Phase(s) == Phases[session[s].request][session[s].phase]
Commands(s) == Phase(s).commands
CommandSet(s) == Range(Commands(s))
Transfers(s) == {c \in CommandSet(s) : c.kind = "transfer_sent"}
Recipients(s) == {c.member : c \in {d \in CommandSet(s) :
                                      d.kind = "transfer_received"}}

\* What the transaction of s reads: committed rows and its own.
Visible(s) == Booked \cup {row.command : row \in Range(staged[s])}

\* Mutant: a batch takes no advisory locks.
NoKeysToLock(s) == {}

KeysToLock(s) == KeysOf(Phase(s))

\* Mutant: only the acting member's row is locked.
OnlyActorToLock(s) ==
  ({c.actor : c \in CommandSet(s)} \cup session[s].scope) \ {0}

\* Mutant: an activation locks its administrator only.
NotEveryoneToLock(s) ==
  ({c.member : c \in CommandSet(s)} \cup {c.actor : c \in CommandSet(s)}
     \cup Phase(s).also) \ {0}

\* Members of the commands, their actors and additional_member_ids.
Named(p) ==
  ({c.member : c \in Range(p.commands)} \cup {c.actor : c \in Range(p.commands)}
     \cup p.also) \ {0}

\* _lock_member_models; lock_all_members.
MembersToLock(s) == Named(Phase(s)) \cup session[s].scope

MissingKeys(s) == {k \in KeysToLock(s) : keyLock[k] # s}
MissingRows(s) == {m \in MembersToLock(s) : rowLock[m] # s}

\* Mutant: rows are locked as the commands name them, the actor first.
ActorFirst(s) ==
  LET actors == {c.actor : c \in CommandSet(s)} \cap MissingRows(s)
  IN Min(IF actors = {} THEN MissingRows(s) ELSE actors)

\* ORDER BY id FOR UPDATE: the smallest id that is not yet held.
NextRow(s) == Min(MissingRows(s))

NextKey(s) == Min(MissingKeys(s))

-----------------------------------------------------------------------------
\* _get_active_snapshot: the version the pointer names, 0: none.
Active == IF activations = <<>> THEN 0 ELSE Last(activations).version

Versions == {a.version : a \in Range(activations)}

\* The activation was made before, with the same payload.
Repeated(s) == Range(Phase(s).activates) \cap Range(activations) # {}

\* ingest_product_config_locked and the lookup of the activation: a new version
\* exceeds every stored one, an id is not used twice.
Activatable(s) ==
  \/ Repeated(s)
  \/ \A a \in Range(Phase(s).activates) :
       /\ \A b \in Range(activations) : b.id # a.id
       /\ a.version \in Versions \/ \A v \in Versions : a.version > v

\* apply: rewards carry experience and need a configuration.
Payable(s) == Active # 0 \/ \A c \in CommandSet(s) : c.kind \notin RewardKinds

\* resolve_level: the last level whose requirement is met.
ResolveLevel(version, experience) ==
  [version |-> version,
   level |-> Max({n \in 1..Len(Levels[version]) : Levels[version][n] <= experience})]

\* _apply_member_caches: the level of a member after the batch of s.
LevelAfter(s, m) ==
  IF Active = 0 THEN raised[s][m]
  ELSE ResolveLevel(Active, EarnedIn(Visible(s) \cup CommandSet(s), m))

\* The levels a phase leaves: those of the members of a batch, and for a version
\* that is not active yet those of everyone it read.
Raised(s) ==
  LET targets == {a.version : a \in Range(Phase(s).activates)} \ {Active}
  IN [m \in Members |->
        IF \E c \in CommandSet(s) : c.member = m THEN LevelAfter(s, m)
        ELSE IF m \in session[s].scope /\ targets # {}
             THEN ResolveLevel(Max(targets), EarnedIn(Visible(s), m))
             ELSE raised[s][m]]

-----------------------------------------------------------------------------
\* _resolve_commands: every reversed row exists and may be reversed.
Resolvable(s) ==
  \A c \in CommandSet(s) : c.reverses # 0 =>
    \E d \in Visible(s) :
      d.key = c.reverses /\ d.kind \notin TransferKinds \cup ReversalKinds

\* Commands of s whose key is already in the ledger.
Stored(s) == {c \in CommandSet(s) : c.key \in {d.key : d \in Visible(s)}}

\* _replay_batch: no row is stored, or each one with the same payload.
Consistent(s) ==
  \/ Stored(s) = {}
  \/ Stored(s) = CommandSet(s) /\ CommandSet(s) \subseteq Visible(s)

\* _lock_and_validate_reversal_sources: no source is reversed yet, nor twice by
\* the batch.
SourcesIntact(s) ==
  \A c \in CommandSet(s) : c.reverses # 0 =>
    \A d \in Visible(s) \cup (CommandSet(s) \ {c}) : d.reverses # c.reverses

\* Mutant: the transfer is not refused below the threshold.
EntitledWithoutThreshold(s) ==
  Transfers(s) # {} => Recipients(s) \cap away = {}

\* WalletService.transfer, for a transfer without receipt.
Entitled(s) ==
  Transfers(s) # {} =>
    /\ Recipients(s) \cap away = {}
    /\ \A c \in Transfers(s) : Earned(c.member) >= Threshold

SenderActive(s) == \A c \in Transfers(s) : c.member \notin away

\* _authorize_administrative_commands.
ActorsActive(s) ==
  LET actors == {c.actor : c \in CommandSet(s)}
                  \cup (IF Phase(s).activates = <<>> THEN {} ELSE Phase(s).also)
  IN actors \cap away = {}

\* Mutant: the checks of a new transfer come before its receipt is looked up.
AllowedBeforeReceipt(s) ==
  /\ SenderActive(s) /\ Entitled(s)
  /\ ~session[s].replay => SourcesIntact(s) /\ ActorsActive(s)

\* What the transaction checks under its locks, before it books anything.
Allowed(s) ==
  /\ SenderActive(s)
  /\ ~session[s].replay => /\ SourcesIntact(s) /\ ActorsActive(s)
                           /\ Entitled(s) /\ Activatable(s)

\* The balance of m in the transaction of s.
BalanceIn(s, m) ==
  LET own == [i \in 1..Len(staged[s]) |-> staged[s][i].command]
  IN balance[m] + SumFor(own, m, Len(own))

\* _stage_economy_batch: running totals, in the order of the commands.
TotalAfter(s, i) ==
  LET m == Commands(s)[i].member
  IN BalanceIn(s, m) + SumFor(Commands(s), m, i)

Affordable(s) == \A i \in 1..Len(Commands(s)) : TotalAfter(s, i) >= 0

Rows(s) == [i \in 1..Len(Commands(s)) |->
              [command |-> Commands(s)[i], after |-> TotalAfter(s, i)]]

\* The cached balance a commit leaves: balance_after of the last row booked.
CachedAfter(s, m) ==
  LET mine == {i \in 1..Len(staged[s]) : staged[s][i].command.member = m}
  IN IF mine = {} THEN balance[m] ELSE staged[s][Max(mine)].after

-----------------------------------------------------------------------------
Init ==
  /\ ledger = [i \in 1..Len(Opening) |->
                 [command |-> Opening[i],
                  after |-> SumFor(Opening, Opening[i].member, i)]]
  /\ balance = [m \in Members |-> SumFor(Opening, m, Len(Opening))]
  /\ away = {}
  /\ members = Members \ Newcomers
  /\ \E x \in Mixes : asked = x.asked /\ activations = x.opened
  /\ levelled = [m \in Members |-> IF m \in Newcomers \/ Active = 0 THEN NoLevel
                              ELSE ResolveLevel(Active, EarnedIn(Range(Opening), m))]
  /\ session = [s \in Sessions |-> Idle]
  /\ staged = [s \in Sessions |-> <<>>]
  /\ raised = [s \in Sessions |-> NoRaise]
  /\ keyLock = [k \in Keys |-> Free]
  /\ rowLock = [m \in Members |-> Free]

GoTo(s, pc) == session' = [session EXCEPT ![s].pc = pc]

\* The transaction ends; the database releases all its locks.
EndTransaction(s) ==
  /\ session' = [session EXCEPT ![s] = Idle]
  /\ staged' = [staged EXCEPT ![s] = <<>>]
  /\ raised' = [raised EXCEPT ![s] = NoRaise]
  /\ keyLock' = [k \in Keys |-> IF keyLock[k] = s THEN Free ELSE keyLock[k]]
  /\ rowLock' = [m \in Members |-> IF rowLock[m] = s THEN Free ELSE rowLock[m]]

\* Members whom the phases of r from the i-th to before the j-th insert.
Joined(r, i, j) == UNION {Phases[r][k].joins : k \in i..(j - 1)}

\* product_config_cli asks only when it finds nothing active.  A request names
\* members that are registered, or that it registers itself: one that names an
\* unknown member fails without a trace.
MayBegin(r) ==
  /\ Phases[r][1].founds => Active = 0
  /\ \A j \in 1..Len(Phases[r]) :
       Named(Phases[r][j]) \subseteq members \cup Joined(r, 1, j)

Begin(s, r) ==
  /\ session[s] = Idle
  /\ MayBegin(r)
  /\ session' = [session EXCEPT ![s] =
       [Idle EXCEPT !.pc = "resolve", !.request = r, !.phase = 1]]
  /\ UNCHANGED <<books, away, work, keyLock, rowLock>>

Resolve(s) ==
  /\ session[s].pc = "resolve"
  /\ Resolvable(s)
  /\ GoTo(s, "keys")
  /\ UNCHANGED <<books, away, work, keyLock, rowLock>>

\* pg_advisory_xact_lock.
LockKey(s) ==
  /\ session[s].pc = "keys"
  /\ MissingKeys(s) # {}
  /\ keyLock[NextKey(s)] = Free
  /\ keyLock' = [keyLock EXCEPT ![NextKey(s)] = s]
  /\ UNCHANGED <<books, away, session, work, rowLock>>

\* lock_all_members: the rows committed when it starts.
Scope(s) == IF Phase(s).everyone THEN members ELSE {}

\* _stored_by_key and _replay_batch; lock_all_members and an activation read the
\* members committed by now, a registration whether its member exists.
ReadStored(s) ==
  /\ session[s].pc = "keys"
  /\ MissingKeys(s) = {}
  /\ Consistent(s)
  /\ session' = [session EXCEPT ![s].pc = "members",
                                ![s].replay = \/ Stored(s) # {}
                                              \/ Phase(s).joins \cap members # {}
                                              \/ Repeated(s),
                                ![s].scope = Scope(s)]
  /\ UNCHANGED <<books, away, work, keyLock, rowLock>>

\* _lock_member_models, lock_members.
LockMember(s) ==
  /\ session[s].pc = "members"
  /\ MissingRows(s) # {}
  /\ rowLock[NextRow(s)] = Free
  /\ rowLock' = [rowLock EXCEPT ![NextRow(s)] = s]
  /\ UNCHANGED <<books, away, session, work, keyLock>>

\* The end of prepare_batch and the service's own checks.
Prepare(s) ==
  /\ session[s].pc = "members"
  /\ MissingRows(s) = {}
  /\ Allowed(s)
  /\ GoTo(s, "prepared")
  /\ UNCHANGED <<books, away, work, keyLock, rowLock>>

\* apply: stage the rows and levels, or return what is stored.  An inserted
\* member's row is its transaction's until it commits.
Apply(s) ==
  /\ session[s].pc = "prepared"
  /\ session[s].replay \/ (Affordable(s) /\ Payable(s))
  /\ GoTo(s, "applied")
  /\ IF session[s].replay
     THEN UNCHANGED <<work, rowLock>>
     ELSE /\ staged' = [staged EXCEPT ![s] = @ \o Rows(s)]
          /\ raised' = [raised EXCEPT ![s] = Raised(s)]
          /\ rowLock' = [m \in Members |->
                           IF m \in Phase(s).joins THEN s ELSE rowLock[m]]
  /\ UNCHANGED <<books, away, keyLock>>

\* The transaction goes on with the next batch and keeps its locks.
NextPhase(s) ==
  /\ session[s].pc = "applied"
  /\ session[s].phase < Len(Phases[session[s].request])
  /\ session' = [session EXCEPT ![s].pc = "resolve", ![s].phase = @ + 1,
                                ![s].replay = FALSE, ![s].scope = {}]
  /\ UNCHANGED <<books, away, work, keyLock, rowLock>>

Commit(s) ==
  /\ session[s].pc = "applied"
  /\ session[s].phase = Len(Phases[session[s].request])
  /\ ledger' = ledger \o staged[s]
  /\ balance' = [m \in Members |-> CachedAfter(s, m)]
  /\ members' = members \cup {m \in Newcomers : rowLock[m] = s}
  /\ levelled' = [m \in Members |->
                    IF raised[s][m] = Untouched THEN levelled[m] ELSE raised[s][m]]
  /\ activations' = IF session[s].replay THEN activations
                    ELSE activations \o Phase(s).activates
  /\ EndTransaction(s)
  /\ UNCHANGED <<away, asked>>

\* The code raises, and the transaction rolls back.
Refuse(s) ==
  /\ \/ session[s].pc = "resolve" /\ ~Resolvable(s)
     \/ session[s].pc = "keys" /\ MissingKeys(s) = {} /\ ~Consistent(s)
     \/ session[s].pc = "members" /\ MissingRows(s) = {} /\ ~Allowed(s)
     \/ /\ session[s].pc = "prepared" /\ ~session[s].replay
        /\ ~(Affordable(s) /\ Payable(s))
  /\ EndTransaction(s)
  /\ UNCHANGED <<books, away>>

\* A timeout, a lost connection or a crash rolls the transaction back.
Abort(s) ==
  /\ session[s] # Idle
  /\ EndTransaction(s)
  /\ UNCHANGED <<books, away>>

\* Elsewhere an account is paused, suspended or restored, under its row lock.
ChangeStatus(m) ==
  /\ m \in Leavers
  /\ rowLock[m] = Free
  /\ away' = IF m \in away THEN away \ {m} ELSE away \cup {m}
  /\ UNCHANGED <<books, session, work, keyLock, rowLock>>

Next ==
  \/ \E s \in Sessions :
       \/ \E r \in asked : Begin(s, r)
       \/ Resolve(s) \/ LockKey(s) \/ ReadStored(s) \/ LockMember(s)
       \/ Prepare(s) \/ Apply(s) \/ NextPhase(s)
       \/ Commit(s) \/ Refuse(s) \/ Abort(s)
  \/ \E m \in Members : ChangeStatus(m)

Spec == Init /\ [][Next]_vars

-----------------------------------------------------------------------------
SessionStates ==
  [pc : {"idle", "resolve", "keys", "members", "prepared", "applied"},
   request : Requests \cup {"none"}, phase : Nat, replay : BOOLEAN,
   scope : SUBSET Members]

\* The transactions, their locks and rows, and the ledger as a sequence.
WorkOK ==
  /\ members \subseteq Members /\ asked \subseteq Requests
  /\ session \in [Sessions -> SessionStates]
  /\ \A s \in Sessions : session[s] # Idle =>
       /\ session[s].pc # "idle" /\ session[s].request \in Requests
       /\ session[s].phase \in 1..Len(Phases[session[s].request])
  /\ keyLock \in [Keys -> Sessions \cup {Free}]
  /\ rowLock \in [Members -> Sessions \cup {Free}]
  /\ DOMAIN staged = Sessions
  /\ IsSeq(ledger) /\ IsSeq(activations)
  /\ \A s \in Sessions : IsSeq(staged[s])

\* Every variable stays within its declared values.
TypeOK ==
  /\ WorkOK
  /\ levelled \in [Members -> [version : Nat, level : Nat]]
  /\ raised \in [Sessions -> [Members -> [version : Nat, level : Nat]]]
  /\ \A i \in 1..Len(ledger) :
       ledger[i].command \in AllCommands /\ ledger[i].after \in Nat
  /\ balance \in [Members -> Nat]
  /\ away \subseteq Leavers

\* The cached balance of a member is the sum of the member's ledger rows, and
\* every row's balance_after is the sum up to it, in commit order: concurrent
\* transactions lose no update (02_DOMAIN_RULES: the ledger explains every
\* balance).  No balance is ever negative.
HistoryAddsUp ==
  LET booked == [i \in 1..Len(ledger) |-> ledger[i].command]
  IN /\ \A m \in Members : /\ balance[m] = SumFor(booked, m, Len(ledger))
                           /\ balance[m] >= 0
     /\ \A i \in 1..Len(ledger) :
          ledger[i].after = SumFor(booked, ledger[i].command.member, i)

\* A transaction about to book new rows never meets a unique constraint of the
\* ledger: since it read, nobody has booked one of its keys or reversed one of
\* its sources.
NoCollision ==
  \A s \in Sessions :
    session[s].pc = "prepared" /\ ~session[s].replay =>
      \A c \in CommandSet(s) : /\ c.key \notin BookedKeys
                               /\ \A d \in Booked : c.reverses = 0
                                                      \/ d.reverses # c.reverses

\* Until a new transfer commits, its sender has earned the threshold and both
\* sides are active: no reversal of a reward and no suspension slips in between
\* the check and the commit (02_DOMAIN_RULES, transfers).
TransferStaysEntitled ==
  \A s \in Sessions :
    session[s].pc \in {"prepared", "applied"} /\ ~session[s].replay =>
      \A c \in Transfers(s) : /\ Earned(c.member) >= Threshold
                              /\ ({c.member} \cup Recipients(s)) \cap away = {}

PhasesOf(s) == Range(Phases[session[s].request])

\* Everything the request of s asks for is stored.
IsStored(s) == \A p \in PhasesOf(s) : /\ Range(p.commands) \subseteq Booked
                                      /\ Range(p.activates) \subseteq Range(activations)
                                      /\ p.joins \subseteq members

\* A request whose rows are all stored is answered from them when it is
\* repeated, whatever has been earned, spent, reversed or activated since; only
\* a sender who is no longer active is turned away.
StoredIsNeverRefused ==
  [][\A s \in Sessions : Refuse(s) /\ IsStored(s) => ~SenderActive(s)]_vars

\* Members are not registered and versions not activated at the same time.
JoinsApart ==
  \A x \in Mixes :
    \/ \A r \in x.asked : \A p \in Range(Phases[r]) : p.joins = {}
    \/ \A r \in x.asked : \A p \in Range(Phases[r]) : p.activates = <<>>

\* readiness_report: members whose level is not one of the active version.
Stale == {m \in members : levelled[m].version # Active}

\* Once a configuration is active, every member has the level that version gives
\* for the experience in the ledger: no batch that read the earlier version
\* commits after the activation has passed over its members, and no activation
\* computes from an experience that a batch is changing (06_DATA_MODEL: the
\* backfill after an activation).
LevelsAreCurrent ==
  Active # 0 => /\ Stale = {}
                /\ \A m \in members :
                     levelled[m] = ResolveLevel(Active, Earned(m))

\* The keys the phases of a request before the j-th lock, the members they lock
\* for certain, and those they lock if they are registered by then.
KeysBefore(r, j) == UNION {KeysOf(Phases[r][i]) : i \in 1..(j - 1)}
Certain(p) == Named(p) \cup (IF p.everyone THEN Members \ Newcomers ELSE {})
Possible(p) == Named(p) \cup (IF p.everyone THEN Members ELSE {})
CertainBefore(r, j) == UNION {Certain(Phases[r][i]) : i \in 1..(j - 1)}
PossibleBefore(r, j) == UNION {Possible(Phases[r][i]) : i \in 1..(j - 1)}

(* Every request takes its locks in the order of one ranking of all keys    *)
(* and rows (ADR-0006): what a phase has to wait for ranks above all that   *)
(* the request may hold by then.  The code sorts the locks of one phase;    *)
(* the order of the phases is the handler's own.                            *)
Follows(r, rank) ==
  \A j \in 1..Len(Phases[r]) : LET p == Phases[r][j] IN
    /\ \A k \in KeysOf(p) \ KeysBefore(r, j) :
         /\ \A m \in PossibleBefore(r, j) : rank.row[m] < rank.key[k]
         /\ \A h \in KeysBefore(r, j) \cup {h \in KeysOf(p) : h < k} :
              rank.key[h] < rank.key[k]
    /\ \A m \in Possible(p) \ CertainBefore(r, j) :
         /\ \A k \in KeysBefore(r, j) \cup KeysOf(p) : rank.key[k] < rank.row[m]
         /\ \A h \in (PossibleBefore(r, j) \cup {h \in Possible(p) : h < m}) \ {m} :
              rank.row[h] < rank.row[m]

OneLockOrder(rank) ==
  /\ rank.key \in [Keys -> Nat] /\ rank.row \in [Members -> Nat]
  /\ \A r \in Requests : Follows(r, rank)

WaitsFor(s, t) ==
  \/ session[s].pc = "keys" /\ MissingKeys(s) # {} /\ keyLock[NextKey(s)] = t
  \/ session[s].pc = "members" /\ MissingRows(s) # {} /\ rowLock[NextRow(s)] = t

\* Transactions never wait for each other in a circle (ADR-0006: one order of
\* advisory locks and rows for all handlers).
NoWaitCycle ==
  \A T \in (SUBSET Sessions) \ {{}} : \E s \in T : \A t \in T : ~WaitsFor(s, t)
=============================================================================
