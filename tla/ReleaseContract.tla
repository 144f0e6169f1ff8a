-------------------------- MODULE ReleaseContract --------------------------
(***************************************************************************)
(* ops/release_contract.py: activate, rollback and the one cutover of      *)
(* reviewed bundles under an exclusive lock of operations.lock, with        *)
(* active.json as the durable state. No step has a handler: an error, like *)
(* a lost session, ends the process where it is, and only an exact rerun   *)
(* goes on. The dump of backup_postgres.py prunes old dumps.                *)
(***************************************************************************)
EXTENDS Host

\* The migration heads cutover_0021_to_0022 joins.
CutoverFrom == 0
CutoverTo == 1

VARIABLES
  active,  \* active.json
  proof,   \* target -> its cutover proof and the dump the proof names
  op       \* the process that holds operations.lock

contractVars == <<active, proof, op>>

NoState == [status |-> "none", kind |-> "none", current |-> None, previous |-> None]
NoProof == [source |-> None, dump |-> NoDump]
NoOp == [kind |-> "none", step |-> "none", live |-> 0, old |-> None]

Pending(kind, target, previous) ==
  [status |-> "pending", kind |-> kind, current |-> target, previous |-> previous]
ReadyState == [active EXCEPT !.status = "ready", !.kind = "none"]

\* A release directory is the manifest and package of its digest: changed
\* files no longer match it.
Intact(r) == package[r] = PackageOf[r]
Installed(r) == [package EXCEPT ![r] = IF @ = None THEN PackageOf[r] ELSE @]
IntactOnceInstalled(r) == package[r] \in {None, PackageOf[r]}

\* Mutant: the heads of the images alone.
PreflightOfImages(r) == active # NoState => Intact(active.current) /\ HeadOf[active.current] = HeadOf[r]

\* Target, current release, image and live database share one head.
Preflight(r) ==
  /\ HeadOf[r] = base.head
  /\ active # NoState => Intact(active.current) /\ HeadOf[active.current] = HeadOf[r]

\* No state: the first activation wants an empty host.
FirstIsClean(r) ==
  /\ \A x \in Releases \ {r} : package[x] = None
  /\ \A s \in Services : ~app[s].up

\* A pending operation admits only its own rerun, a ready state only a later run.
MayActivate(r) ==
  /\ IntactOnceInstalled(r)
  /\ CASE active.status = "none" -> FirstIsClean(r)
       [] active.status = "pending" -> active.kind = "activate" /\ active.current = r
       [] active.status = "ready" -> r > active.current
  /\ Preflight(r)

Previous == IF active.status = "pending" THEN active.previous ELSE active.current

\* The bundle is installed before anything is checked; process mutation starts
\* after the pending state is durable.
Activate(r) ==
  /\ op = NoOp
  /\ package' = Installed(r)
  /\ IF MayActivate(r)
     THEN /\ active' = Pending("activate", r, Previous)
          /\ op' = [kind |-> "activate", step |-> "stop_old", live |-> base.head, old |-> Previous]
     ELSE /\ package[r] = None
          /\ UNCHANGED <<active, op>>
  /\ UNCHANGED <<main, base, written, app, images, env, dev, proof>>

RollbackTarget == IF active.status = "pending" THEN active.current ELSE active.previous
MayRollback ==
  /\ CASE active.status = "pending" -> active.kind = "rollback" /\ active.previous = None
       [] active.status = "ready" -> active.previous # None
       [] OTHER -> FALSE
  /\ Intact(RollbackTarget)
  /\ active.status = "ready" =>
       Intact(active.current) /\ HeadOf[active.current] = HeadOf[RollbackTarget]
  /\ Preflight(RollbackTarget)

\* The previous release is consumed.
Rollback ==
  /\ op = NoOp
  /\ MayRollback
  /\ active' = Pending("rollback", RollbackTarget, None)
  /\ op' = [kind |-> "rollback", step |-> "stop_old", live |-> base.head, old |-> active.current]
  /\ UNCHANGED <<hostVars, proof>>

CutoverSource == IF active.status = "pending" THEN active.previous ELSE active.current
MayCutover(r) ==
  /\ active.status = "pending" => /\ active.kind = "cutover" /\ active.current = r
                                  /\ active.previous # None
  /\ active.status # "none" /\ CutoverSource # r
  /\ IntactOnceInstalled(r) /\ Intact(CutoverSource)
  /\ r > CutoverSource
  /\ HeadOf[CutoverSource] = CutoverFrom /\ HeadOf[r] = CutoverTo
  /\ base.head \in {CutoverFrom, CutoverTo}

Cutover(r) ==
  /\ op = NoOp
  /\ package' = Installed(r)
  /\ IF MayCutover(r)
     THEN /\ active' = Pending("cutover", r, CutoverSource)
          /\ op' = [kind |-> "cutover", step |-> "stop_all", live |-> base.head,
                    old |-> CutoverSource]
     ELSE /\ package[r] = None
          /\ UNCHANGED <<active, op>>
  /\ UNCHANGED <<main, base, written, app, images, env, dev, proof>>

\* The dump is restored into the drill database, which has to show the head of
\* the source image, as the live database does.
DrillPasses(dump, r) ==
  /\ base.head = HeadOf[r]
  /\ Restored(dump).head = HeadOf[r]

\* The proof of an earlier, interrupted run of this very cutover.
ProofHolds(target, source) == proof[target].source = source /\ proof[target].dump.kept

At(step, next) == op.step = step /\ op' = [op EXCEPT !.step = next]

StopOldWeb ==
  /\ At("stop_old", "worker")
  /\ \A r \in {op.old} \ {None, active.current} : Intact(r)
  /\ app' = IF op.old # None THEN Stopped({"web"}) ELSE app
  /\ UNCHANGED <<main, base, written, package, images, env, dev, active, proof>>

StopAll ==
  /\ At("stop_all", IF op.live = CutoverFrom THEN "prove" ELSE "verify")
  /\ app' = Stopped(Services)
  /\ UNCHANGED <<main, base, written, package, images, env, dev, active, proof>>

CreateProof ==
  /\ At("prove", "migrate")
  /\ DrillPasses(Dump(base), op.old)
  /\ proof' = [proof EXCEPT ![active.current] = [source |-> op.old, dump |-> Dump(base)]]
  /\ UNCHANGED <<hostVars, active>>

VerifyProof ==
  /\ At("verify", "head")
  /\ ProofHolds(active.current, op.old)
  /\ UNCHANGED <<hostVars, active, proof>>

MigrateLive ==
  /\ At("migrate", "head")
  /\ base' = Upgraded(base)
  /\ UNCHANGED <<main, written, app, package, images, env, dev, active, proof>>

RequireHead ==
  /\ At("head", "worker")
  /\ base.head = CutoverTo
  /\ UNCHANGED <<hostVars, active, proof>>

RunService(s, next) ==
  /\ At(s, next)
  /\ app' = Recreated({s}, Container(active.current, active.current, FALSE, FALSE))
  /\ UNCHANGED <<main, base, written, package, images, env, dev, active, proof>>

\* _ready asks Compose for running and healthy, then the state becomes ready.
Lifecycle ==
  \/ RunService("worker", "web")
  \/ RunService("web", "ready")
  \/ /\ op.step = "ready"
     /\ Healthy
     /\ active' = ReadyState
     /\ op' = NoOp
     /\ UNCHANGED <<hostVars, proof>>

\* A failing command or check, a closed session, a reboot.
OperationEnds ==
  /\ op # NoOp
  /\ op' = NoOp
  /\ UNCHANGED <<hostVars, active, proof>>

\* selected_release: a shared lock, and a ready state only.
Selectable == op = NoOp /\ active.status = "ready"

ContractNext ==
  \/ \E r \in Releases : Activate(r) \/ Cutover(r)
  \/ Rollback
  \/ StopOldWeb \/ StopAll \/ CreateProof \/ VerifyProof \/ MigrateLive \/ RequireHead
  \/ Lifecycle \/ OperationEnds

ContractInit ==
  /\ proof = [r \in Releases |-> NoProof]
  /\ op = NoOp
  /\ \/ /\ active = NoState
        /\ app = [s \in Services |-> Absent]
        /\ package = [r \in Releases |-> None]
        /\ images = {}
     \/ /\ active = [status |-> "ready", kind |-> "none", current |-> 1, previous |-> None]
        /\ app = [s \in Services |-> [release |-> 1, dir |-> 1, maintenance |-> FALSE,
                                      tagged |-> TRUE, env |-> "old", up |-> TRUE]]
        /\ package = [r \in Releases |-> IF r = 1 THEN PackageOf[1] ELSE None]
        /\ images = {1}
=============================================================================
