---------------------------- MODULE Operations ----------------------------
(***************************************************************************)
(* The operator's tools on one host. release_contract.py and the backups   *)
(* exclude each other by operations.lock, the other tools by               *)
(* dev-deploy.lock; nothing excludes the two families. Any process may be  *)
(* killed at any step while members go on writing.                          *)
(***************************************************************************)
EXTENDS DevDeploy, WalletCutover, TelegramActivation

CONSTANTS
  OneFamily,    \* the two families of tools are never used at the same time
  FinishFirst,  \* an interrupted cutover is recovered before anything else runs
  Plans         \* bound: each says how many processes of every tool are started

Tools == {"contract", "deploy", "wallet", "telegram"}

ASSUME OperationsAssumption ==
  /\ OneFamily \in BOOLEAN /\ FinishFirst \in BOOLEAN
  /\ Plans \subseteq [Tools -> Nat]

VARIABLE left  \* processes of each tool that may still be started

vars == <<hostVars, contractVars, deployVars, walletVars, telegramVars, left>>

Init ==
  /\ HostInit /\ ContractInit /\ DeployInit /\ WalletInit /\ TelegramInit
  /\ left \in Plans

Unfinished == {i \in ReceiptIds : receipts[i].phase \in Reversible}

\* Wallet cutovers that opened writing.
Opened == {i \in ReceiptIds : receipts[i].phase \in {"writers_enabled", "ready"}}

\* Tools that were interrupted half-way and have to be run again.
Interrupted ==
  {t \in Tools : CASE t = "contract" -> active.kind = "cutover"
                   [] t = "wallet" -> Unfinished # {}
                   [] t = "telegram" -> telegram.phase = "activating"
                   [] OTHER -> FALSE}

Started ==
  {t \in Tools : \/ t = "contract" /\ op = NoOp /\ op' # NoOp
                 \/ dev = Free /\ dev'.tool = t}

\* What the operator's discipline and the plan leave of the starts.
StartsInOrder ==
  /\ \A t \in Started :
       /\ left[t] > 0
       /\ OneFamily => dev = Free /\ op = NoOp
       /\ FinishFirst => /\ Interrupted \subseteq {t}
                         /\ t = "wallet" /\ Unfinished # {} => dev'.id \in Unfinished
  /\ left' = [t \in Tools |-> left[t] - IF t \in Started THEN 1 ELSE 0]

\* Every dump in the backup directory grows a week old.
WeekPasses ==
  /\ FinishFirst => Interrupted = {}
  /\ proof' = [r \in Releases |-> [proof[r] EXCEPT !.dump = Aged(@)]]
  /\ DumpsAre(Aged)
  /\ UNCHANGED <<main, base, written, app, package, images, env, active, op, deployVars,
                 copies, telegramVars>>

\* backup_postgres.py under the shared lock: its own dump is not used by any
\* tool; the old ones it removes are.
BackUp ==
  /\ Selectable
  /\ proof' = [r \in Releases |-> [proof[r] EXCEPT !.dump = Pruned(@)]]
  /\ DumpsAre(Pruned)
  /\ UNCHANGED <<main, base, written, app, package, images, env, active, op, deployVars,
                 copies, telegramVars>>

\* What is asked or prepared belongs to a process the plan still has.
ContractStep == ContractNext /\ UNCHANGED <<deployVars, walletVars, telegramVars>>
DeployStep == /\ DeployNext /\ UNCHANGED <<walletVars, telegramVars>>
              /\ asked' \subseteq asked \/ Cardinality(asked) < left["deploy"]
WalletStep == /\ WalletNext /\ UNCHANGED <<contractVars, deployVars, telegramVars>>
              /\ <<receipts, images>>' # <<receipts, images>> =>
                   dev.tool = "wallet" \/ left["wallet"] > 0
TelegramStep == /\ TelegramNext /\ UNCHANGED <<contractVars, deployVars, walletVars>>
                /\ telegram' # telegram => dev.tool = "telegram" \/ left["telegram"] > 0
HostStep == HostNext /\ UNCHANGED <<contractVars, deployVars, walletVars, telegramVars>>

Next ==
  /\ ContractStep \/ DeployStep \/ WalletStep \/ TelegramStep \/ HostStep \/ WeekPasses \/ BackUp
  /\ StartsInOrder

Spec == Init /\ [][Next]_vars

\* A write that was acknowledged is in the database the services use, whatever
\* tool failed or was killed, and whatever was restored in its place.
NoWriteIsLost == base.rows = written

\* No process serves members with a schema its image was not built for.
SchemaIsServed == \A s \in Serving : HeadOf[app[s].release] = base.head

\* From the migration on until writing is opened the untouched state before
\* the cutover can be restored: from the verified copy of the receipt, or, until
\* the first container of the target runs, from the dump the proof names (when
\* the migration was this cutover's own and not an opened wallet cutover's).
RecoveryIsPossible ==
  /\ \A i \in Unfinished :
       base.head = SchemaTo =>
         /\ receipts[i].verified /\ receipts[i].dump.kept
         /\ copies[i] = [head |-> SchemaFrom, rows |-> written, queue |-> TRUE]
  /\ active.status = "pending" /\ active.kind = "cutover" /\ base.head = CutoverTo
       /\ Opened = {} /\ (\A s \in Services : app[s].release # active.current) =>
         /\ ProofHolds(active.current, active.previous)
         /\ proof[active.current].dump.rows = written

\* The receipt i names a rehearsed copy of the database frozen before its migration.
RecoveryOf(i) ==
  /\ receipts[i].verified /\ receipts[i].dump.head = SchemaFrom
  /\ receipts[i].dump.rows = receipts[i].rows
  /\ copies[i] = Restored(receipts[i].dump)

\* What allows a migration: a saved receipt that a kill leaves recoverable, or a
\* pending cutover with the proof of its source.
MigrationIsProven ==
  \/ /\ dev.tool = "wallet" /\ receipts[dev.id].phase = "migrating" /\ RecoveryOf(dev.id)
  \/ /\ active.status = "pending" /\ active.kind = "cutover"
     /\ proof[active.current].source = active.previous
     /\ proof[active.current].dump.head = CutoverFrom

\* What allows to take the database back: a receipt that never announced writing.
RollbackIsProven ==
  /\ dev.tool = "wallet" /\ receipts[dev.id].phase \in Reversible
  /\ RecoveryOf(dev.id) /\ WritersAreStopped

\* With whatever tools running side by side and killed: the schema moves only
\* after the proof of a way back is durable, and goes back only to that proof,
\* by a cutover that never announced that it opens writing.
DatabaseMovesAsProven ==
  [][base'.head # base.head =>
       \/ base' = Upgraded(base) /\ MigrationIsProven
       \/ base' = Restored(receipts[dev.id].dump) /\ RollbackIsProven]_vars

\* Once an activation is finished, settings, route and webhook belong together,
\* and the running containers have these settings.
TelegramIsWhole ==
  \A v \in {"old", "new"} :
    telegram.phase = (IF v = "new" THEN "ready" ELSE "rolled_back") =>
      /\ env = v /\ site = v /\ route = v /\ webhook = v
      /\ \A s \in Services : app[s].up => app[s].env = v
=============================================================================
