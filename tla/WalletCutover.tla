--------------------------- MODULE WalletCutover ---------------------------
(***************************************************************************)
(* ops/wallet_cutover.py: a schema release under dev-deploy.lock. prepare  *)
(* measures the running package and writes a receipt; apply stops the      *)
(* writers, proves a restore, migrates, checks under maintenance and opens *)
(* writing; every phase is saved in the receipt before the step it allows. *)
(* An error before writing is opened runs the rollback; a killed process   *)
(* leaves the receipt, from which recover goes on.                          *)
(***************************************************************************)
EXTENDS Host

CONSTANT MaxReceipts  \* bound: prepared receipts

ReceiptIds == 1 .. MaxReceipts

VARIABLES
  receipts,  \* the receipts as saved, by number
  copies     \* the recovery database each receipt names

walletVars == <<receipts, copies>>

NoReceipt == [phase |-> "none", before |-> None, target |-> None, dir |-> None,
              config |-> None, rows |-> 0, verified |-> FALSE, dump |-> NoDump]
\* No database of that name, as before the restore and after the swap: the head
\* is one that no snapshot asks for.
NoCopy == [head |-> 2, rows |-> 0, queue |-> FALSE]

SchemaFrom == 0
SchemaTo == 1

\* The web container names the package; a change of Compose is another release.
MayPrepare(target) ==
  LET web == app["web"] IN
  /\ target = main
  /\ web.release # None /\ package[web.dir] = PackageOf[target]
  /\ app["worker"].dir = web.dir /\ app["worker"].release = web.release
  /\ base.head = SchemaFrom
  /\ Ready(web.release, FALSE)

\* The image is built and tagged before its head is checked; only the head of
\* the transition gets a receipt.
Prepare(i) ==
  /\ dev = Free
  /\ receipts[i].phase = "none" /\ \A j \in 1 .. i - 1 : receipts[j].phase # "none"
  /\ MayPrepare(main)
  /\ images' = images \union {main}
  /\ IF HeadOf[main] = SchemaTo
     THEN receipts' = [receipts EXCEPT ![i] =
            [NoReceipt EXCEPT !.phase = "prepared", !.before = app["web"].release,
                              !.target = main, !.dir = app["web"].dir,
                              !.config = package[app["web"].dir]]]
     ELSE UNCHANGED receipts
  /\ UNCHANGED <<main, base, written, app, package, env, dev, copies>>

\* validate_source: nothing measured has drifted. The services need not run.
NotDrifted(i) ==
  /\ package[receipts[i].dir] = receipts[i].config
  /\ base.head = SchemaFrom
  /\ \A s \in Services : app[s].dir = receipts[i].dir /\ app[s].release = receipts[i].before

\* Mutant: writing is announced once the opened target is verified.
ForwardAnnouncedLate ==
  <<"stop", "backup", "freeze", "restore", "migrating", "migrate", "snapshot",
    "maintain", "check", "start", "verify", "writers_enabled", "ready">>

\* Mutant: the phase is saved after the step it announces.
ForwardMigratesFirst ==
  <<"stop", "backup", "freeze", "restore", "migrate", "migrating", "snapshot",
    "maintain", "check", "writers_enabled", "start", "verify", "ready">>

\* execute: effects in order, and between them the phases it saves, which a
\* step has as its name.
Forward == <<"stop", "backup", "freeze", "restore", "migrating", "migrate", "snapshot",
             "maintain", "check", "writers_enabled", "start", "verify", "ready">>
Backward == <<"rolling_back", "stop", "swap", "start_old", "verify_old", "rolled_back">>

WritingOpens == CHOOSE k \in DOMAIN Forward : Forward[k] = "writers_enabled"

\* The process: which way it goes, its next step, and the receipt in memory.
Job(i, receipt, way, step) ==
  [tool |-> "wallet", id |-> i, way |-> way, step |-> step, mem |-> receipt,
   retried |-> FALSE]
Script(way) == IF way = "forward" THEN Forward ELSE Backward
Running(step) == dev.tool = "wallet" /\ Script(dev.way)[dev.step] = step
Continue == dev' = [dev EXCEPT !.step = @ + 1]

Apply(i) ==
  /\ dev = Free
  /\ receipts[i].phase = "prepared"
  /\ NotDrifted(i)
  /\ LET stopping == [receipts[i] EXCEPT !.phase = "stopping"] IN
     /\ receipts' = [receipts EXCEPT ![i] = stopping]
     /\ dev' = Job(i, stopping, "forward", 1)
  /\ UNCHANGED <<main, base, written, app, package, images, env, copies>>

Save(phase) ==
  /\ Running(phase)
  /\ LET saved == [dev.mem EXCEPT !.phase = phase] IN
     /\ receipts' = [receipts EXCEPT ![dev.id] = saved]
     /\ dev' = IF dev.step = Len(Script(dev.way)) THEN Free
               ELSE [dev EXCEPT !.step = @ + 1, !.mem = saved]
  /\ UNCHANGED <<main, base, written, app, package, images, env, copies>>

StopWriters ==
  /\ Running("stop")
  /\ app' = Stopped(Services)
  /\ Continue
  /\ UNCHANGED <<main, base, written, package, images, env, walletVars>>

WritersAreStopped == \A s \in Services : ~app[s].up

\* backup_restore: no writer runs, the fingerprint is taken, then the dump.
Freeze ==
  /\ Running("freeze")
  /\ WritersAreStopped
  /\ dev' = [dev EXCEPT !.step = @ + 1,
                         !.mem = [@ EXCEPT !.rows = base.rows, !.dump = Dump(base)]]
  /\ UNCHANGED <<main, base, written, app, package, images, env, walletVars>>

\* check_snapshot: the exact schema and the frozen economic data.
Snapshot(d, head) == d.head = head /\ d.rows = dev.mem.rows

\* Mutant: the rehearsal runs on the copy that is kept.
AfterRehearsalInPlace(copy) == Downgraded(Upgraded(copy))

\* The migration is rehearsed there and back on a clone; what the restored
\* copy is afterwards.
AfterRehearsal(copy) == copy

\* The restored copy is verified in memory; the next save makes that durable.
RestoreAndRehearse ==
  /\ Running("restore")
  /\ LET copy == Restored(dev.mem.dump) IN
     /\ Snapshot(copy, SchemaFrom)
     /\ Snapshot(Upgraded(copy), SchemaTo)
     /\ Snapshot(Downgraded(Upgraded(copy)), SchemaFrom)
     /\ copies' = [copies EXCEPT ![dev.id] = AfterRehearsal(copy)]
  /\ dev' = [dev EXCEPT !.step = @ + 1, !.mem = [@ EXCEPT !.verified = TRUE]]
  /\ UNCHANGED <<main, base, written, app, package, images, env, receipts>>

Migrate ==
  /\ Running("migrate")
  /\ base' = Upgraded(base)
  /\ Continue
  /\ UNCHANGED <<main, written, app, package, images, env, walletVars>>

CheckLive ==
  /\ Running("snapshot")
  /\ Snapshot(base, SchemaTo)
  /\ Continue
  /\ UNCHANGED <<main, base, written, app, package, images, env, walletVars>>

\* compose up recreates both services; an interrupted one only some of them.
Start(step, r, m) ==
  /\ Running(step)
  /\ app' = Recreated(Services, Container(r, dev.mem.dir, m, FALSE))
  /\ Continue
  /\ UNCHANGED <<main, base, written, package, images, env, walletVars>>
StartPartly(step, r, m) ==
  /\ Running(step)
  /\ \E s \in Services : app' = Recreated({s}, Container(r, dev.mem.dir, m, FALSE))
  /\ UNCHANGED <<main, base, written, package, images, env, dev, walletVars>>

StartSome ==
  \/ Start("maintain", dev.mem.target, TRUE) \/ StartPartly("maintain", dev.mem.target, TRUE)
  \/ Start("start", dev.mem.target, FALSE) \/ StartPartly("start", dev.mem.target, FALSE)
  \/ Start("start_old", dev.mem.before, FALSE) \/ StartPartly("start_old", dev.mem.before, FALSE)

Verified ==
  /\ \/ Running("check") /\ Ready(dev.mem.target, TRUE) /\ Snapshot(base, SchemaTo)
     \/ Running("verify") /\ Ready(dev.mem.target, FALSE)
     \/ Running("verify_old") /\ Ready(dev.mem.before, FALSE)
  /\ Continue
  /\ UNCHANGED <<main, base, written, app, package, images, env, walletVars>>

\* The dump of a receipt, also in the memory of the process, is one file.
DumpsAre(F(_)) ==
  /\ receipts' = [i \in ReceiptIds |-> [receipts[i] EXCEPT !.dump = F(@)]]
  /\ dev' = IF dev.tool = "wallet" THEN [dev EXCEPT !.mem.dump = F(@)] ELSE dev

\* Host.rollback: the failed database is kept under another name and the
\* verified copy takes its place, unless the schema never changed.
Swapped == IF base.head = SchemaFrom THEN base ELSE copies[dev.id]
MaySwap ==
  base.head # SchemaFrom =>
    WritersAreStopped /\ dev.mem.verified /\ dev.mem.dump.kept /\ Snapshot(copies[dev.id], SchemaFrom)

Swap ==
  /\ Running("swap")
  /\ MaySwap
  /\ base' = Swapped
  /\ copies' = [copies EXCEPT ![dev.id] = IF base.head = SchemaFrom THEN @ ELSE NoCopy]
  /\ Continue
  /\ UNCHANGED <<main, written, app, package, images, env, receipts>>

\* A step raises. Until writing is opened that starts the rollback; activate
\* repeats its start once; a failing rollback ends the process.
StepFails ==
  /\ dev.tool = "wallet"
  /\ CASE dev.way = "forward" /\ dev.step < WritingOpens ->
            dev' = [dev EXCEPT !.way = "backward", !.step = 1]
       [] dev.way = "forward" /\ dev.step >= WritingOpens
          /\ (Running("start") \/ Running("verify")) /\ ~dev.retried ->
            dev' = [dev EXCEPT !.step = WritingOpens + 1, !.retried = TRUE]
       [] OTHER -> dev' = Free
  /\ UNCHANGED <<main, base, written, app, package, images, env, walletVars>>

\* The session or the host dies.
Killed ==
  /\ dev.tool = "wallet"
  /\ dev' = Free
  /\ UNCHANGED <<main, base, written, app, package, images, env, walletVars>>

Reversible == {"stopping", "backup", "migrating", "rolling_back"}

Recover(i) ==
  /\ dev = Free
  /\ \/ /\ receipts[i].phase = "writers_enabled"
        /\ dev' = Job(i, receipts[i], "forward", WritingOpens + 1)
     \/ /\ receipts[i].phase \in Reversible
        /\ dev' = Job(i, receipts[i], "backward", 2)
  /\ UNCHANGED <<main, base, written, app, package, images, env, walletVars>>

WalletNext ==
  \/ \E i \in ReceiptIds : Prepare(i) \/ Apply(i) \/ Recover(i)
  \/ \E p \in {"backup", "migrating", "writers_enabled", "ready", "rolling_back", "rolled_back"} :
       Save(p)
  \/ StopWriters \/ Freeze \/ RestoreAndRehearse \/ Migrate \/ CheckLive
  \/ StartSome \/ Verified \/ Swap \/ StepFails \/ Killed

WalletInit ==
  /\ receipts = [i \in ReceiptIds |-> NoReceipt]
  /\ copies = [i \in ReceiptIds |-> NoCopy]
=============================================================================
