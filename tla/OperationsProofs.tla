-------------------------- MODULE OperationsProofs --------------------------
(***************************************************************************)
(* Theorems about the operator's tools for any releases, receipts, writes  *)
(* and plans, with the two families of tools side by side and whatever was *)
(* interrupted left alone: nothing is assumed of the operator.             *)
(***************************************************************************)
EXTENDS Operations, TLAPS

-----------------------------------------------------------------------------
(* Types.                                                                   *)

Places == 0 .. LastRelease
Settings == {"old", "new"}
Phases == {"none", "prepared", "stopping", "backup", "migrating", "rolling_back",
           "writers_enabled", "ready", "rolled_back"}

Databases == [head : 0 .. 1, rows : Nat, queue : BOOLEAN]
Copies == Databases \cup {NoCopy}
Dumps == [head : 0 .. 1, rows : Nat, queue : BOOLEAN, kept : BOOLEAN, aged : BOOLEAN]
Containers == [release : Places, dir : Nat, maintenance : BOOLEAN, tagged : BOOLEAN,
               env : Settings, up : BOOLEAN]
ProofRows == [source : Places, dump : Dumps]
ActiveRows == [status : {"none", "pending", "ready"},
               kind : {"none", "activate", "rollback", "cutover"},
               current : Places, previous : Places]
OpRows == [kind : {"none", "activate", "rollback", "cutover"},
           step : {"none", "stop_old", "stop_all", "prove", "migrate", "verify", "head",
                   "worker", "web", "ready"},
           live : 0 .. 1, old : Places]
ReceiptRows == [phase : Phases, before : Places, target : Places, dir : Nat, config : Nat,
                rows : Nat, verified : BOOLEAN, dump : Dumps]

WalletJobs == [tool : {"wallet"}, id : ReceiptIds, way : {"forward", "backward"}, step : Nat,
               mem : ReceiptRows, retried : BOOLEAN]
TelegramJobs == [tool : {"telegram"}, aim : Settings, step : Nat]

\* The package a deployment keeps is of no matter here.
DeployJobs(old) ==
  [tool : {"deploy"}, step : {"keep", "replace", "worker", "web", "prove", "undo", "prove_old"},
   target : Places, before : Places, dir : Nat, old : {old}, live : 0 .. 1]
TelegramRows(config) ==
  [phase : {"none", "prepared", "activating", "ready", "rolled_back"}, release : Places,
   dir : Nat, config : {config}]

HostRows ==
  /\ main \in Releases /\ base \in Databases /\ written \in Nat
  /\ app \in [Services -> Containers] /\ env \in Settings
JobRows == dev = Free \/ dev \in WalletJobs \/ dev \in TelegramJobs \/ dev \in DeployJobs(dev.old)
ContractRows == proof \in [Releases -> ProofRows] /\ active \in ActiveRows /\ op \in OpRows
DeployRows == previous \in Places /\ \A a \in asked : a.dir \in Nat
WalletRows == receipts \in [ReceiptIds -> ReceiptRows] /\ copies \in [ReceiptIds -> Copies]
TelegramRow == telegram \in TelegramRows(telegram.config)

TypeInv == HostRows /\ JobRows /\ ContractRows /\ DeployRows /\ WalletRows /\ TelegramRow

-----------------------------------------------------------------------------
(* The inductive invariant.                                                 *)

\* A pending cutover joins the two heads, and its process has written the proof
\* before it migrates.
CutoverStands ==
  /\ active.status # "none" => active.current \in Releases
  /\ op.step # "none" => active.status = "pending"
  /\ active.kind = "cutover" =>
       /\ active.status = "pending"
       /\ active.previous \in Releases /\ HeadOf[active.previous] = CutoverFrom
  /\ op.step \in {"stop_all", "prove", "migrate", "verify", "head"} => op.kind = "cutover"
  /\ op.kind = "cutover" => active.kind = "cutover" /\ op.old = active.previous
  /\ op.step = "migrate" => /\ proof[active.current].source = active.previous
                            /\ proof[active.current].dump.head = CutoverFrom

\* What a receipt that says so has proved; its copy may have been swapped in.
Recoverable(r, i) ==
  /\ r.dump.head = SchemaFrom /\ r.dump.rows = r.rows
  /\ copies[i] = Restored(r.dump) \/ copies[i] = NoCopy

ReceiptsStand ==
  \A i \in ReceiptIds :
    /\ receipts[i].phase \in {"none", "prepared"} => ~receipts[i].verified
    /\ receipts[i].verified => Recoverable(receipts[i], i)

\* The saved receipt is the one in memory, as far as a recovery needs it.
Saved(r, m) ==
  /\ r.verified = m.verified /\ r.rows = m.rows /\ r.dump.rows = m.dump.rows
  /\ r.dump.head = m.dump.head /\ Restored(r.dump) = Restored(m.dump)

ForwardStands ==
  /\ dev.step \in 1 .. 13
  /\ dev.step <= 4 => ~dev.mem.verified
  /\ dev.step <= 5 => ~receipts[dev.id].verified
  /\ dev.step = 4 => dev.mem.dump.rows = dev.mem.rows
  /\ dev.step \in 5 .. 6 => dev.mem.verified /\ copies[dev.id] = Restored(dev.mem.dump)
  /\ dev.step \in 6 .. 10 => Saved(receipts[dev.id], dev.mem)
  /\ dev.step = 6 => receipts[dev.id].phase = "migrating"
  /\ dev.step <= 10 => receipts[dev.id].phase \in {"stopping", "backup", "migrating"}
  /\ dev.step >= 11 => receipts[dev.id].phase = "writers_enabled"

BackwardStands ==
  /\ dev.step \in 1 .. 6
  /\ receipts[dev.id].phase \in Reversible
  /\ dev.step >= 2 => Saved(receipts[dev.id], dev.mem)

WalletStands ==
  dev.tool = "wallet" =>
    /\ dev.mem.verified => Recoverable(dev.mem, dev.id)
    /\ dev.way = "forward" => ForwardStands
    /\ dev.way = "backward" => BackwardStands

\* How far a job has brought the settings it aims at.
TelegramStands ==
  dev.tool = "telegram" =>
    /\ telegram.phase = "activating"
    /\ dev.step \in 1 .. 9
    /\ dev.step >= 3 => env = dev.aim
    /\ dev.step >= 4 => \A s \in Services : app[s].up => app[s].env = dev.aim
    /\ dev.step >= 7 => site = dev.aim
    /\ dev.step >= 8 => route = dev.aim
    /\ dev.step >= 9 => webhook = dev.aim

Inv == TypeInv /\ CutoverStands /\ ReceiptsStand /\ WalletStands /\ TelegramStands /\ TelegramIsWhole

\* The three claims about a step.
MovesAsProven ==
  base'.head # base.head =>
    \/ base' = Upgraded(base) /\ MigrationIsProven
    \/ base' = Restored(receipts[dev.id].dump) /\ RollbackIsProven
StaysOpened == Opened \subseteq Opened'
Step == Inv' /\ MovesAsProven /\ StaysOpened

-----------------------------------------------------------------------------
(* Records, scripts and containers.                                         *)

LEMMA ReleasePlaces ==
  /\ None \in Places /\ \A r \in Releases : r \in Places /\ HeadOf[r] \in 0 .. 1
  /\ \A p \in Places : p # None => p \in Releases
  /\ 1 \in Releases
BY HostAssumption DEF None, Places, Releases

LEMMA OpRow ==
  ASSUME NEW o \in OpRows, NEW next
  PROVE  /\ [o EXCEPT !.step = next].kind = o.kind /\ [o EXCEPT !.step = next].live = o.live
         /\ [o EXCEPT !.step = next].old = o.old /\ [o EXCEPT !.step = next].step = next
         /\ next \in {"none", "stop_old", "stop_all", "prove", "migrate", "verify", "head",
                      "worker", "web", "ready"} => [o EXCEPT !.step = next] \in OpRows
BY DEF OpRows

LEMMA DeployRow ==
  ASSUME NEW old, NEW d \in DeployJobs(old), NEW next
  PROVE  LET e == [d EXCEPT !.step = next] IN
         /\ e.tool = "deploy" /\ e.target = d.target /\ e.dir = d.dir /\ e.old = d.old
         /\ next \in {"keep", "replace", "worker", "web", "prove", "undo", "prove_old"} =>
              e \in DeployJobs(e.old)
BY DEF DeployJobs

LEMMA DatabaseRow ==
  ASSUME NEW d \in Databases
  PROVE  /\ Upgraded(d) \in Databases
         /\ Dump(d) \in Dumps /\ Dump(d).head = d.head /\ Dump(d).rows = d.rows
         /\ [d EXCEPT !.rows = @ + 1] \in Databases /\ [d EXCEPT !.rows = @ + 1].head = d.head
<1>1. \A h \in 0 .. 1, q \in BOOLEAN : [d EXCEPT !.head = h, !.queue = q] \in Databases
  BY DEF Databases
<1>2. Upgraded(d) \in Databases
  <2>1. 1 \in 0 .. 1 /\ FALSE \in BOOLEAN
    OBVIOUS
  <2> QED
    BY <1>1, <2>1, Zenon DEF Upgraded
<1>3. Dump(d) \in Dumps /\ Dump(d).head = d.head /\ Dump(d).rows = d.rows
  BY DEF Dump, Databases, Dumps
<1>4. d.rows + 1 \in Nat
  BY DEF Databases
<1>5. \A n \in Nat : [d EXCEPT !.rows = n] \in Databases /\ [d EXCEPT !.rows = n].head = d.head
  BY DEF Databases
<1> QED
  BY <1>2, <1>3, <1>4, <1>5

LEMMA DumpRow ==
  ASSUME NEW d \in Dumps
  PROVE  /\ Restored(d) \in Databases /\ Restored(d).head = d.head /\ Restored(d).rows = d.rows
         /\ Aged(d) \in Dumps /\ Aged(d).head = d.head /\ Aged(d).rows = d.rows
         /\ Restored(Aged(d)) = Restored(d)
         /\ Pruned(d) \in Dumps /\ Pruned(d).head = d.head /\ Pruned(d).rows = d.rows
         /\ Restored(Pruned(d)) = Restored(d)
BY DEF Restored, Aged, Pruned, Databases, Dumps

LEMMA CopyRow ==
  /\ NoCopy.head # SchemaFrom
  /\ \A c \in Copies : c.head = SchemaFrom => c \in Databases
BY DEF NoCopy, SchemaFrom, Copies

\* Which index of a script carries which step.
LEMMA ForwardScript ==
  /\ WritingOpens = 10 /\ Len(Forward) = 13
  /\ Forward[1] = "stop" /\ Forward[2] = "backup" /\ Forward[3] = "freeze"
  /\ Forward[4] = "restore" /\ Forward[5] = "migrating" /\ Forward[6] = "migrate"
  /\ Forward[7] = "snapshot" /\ Forward[8] = "maintain" /\ Forward[9] = "check"
  /\ Forward[10] = "writers_enabled" /\ Forward[11] = "start" /\ Forward[12] = "verify"
  /\ Forward[13] = "ready"
<1>1. /\ Len(Forward) = 13 /\ DOMAIN Forward = 1 .. 13
      /\ Forward[1] = "stop" /\ Forward[2] = "backup" /\ Forward[3] = "freeze"
      /\ Forward[4] = "restore" /\ Forward[5] = "migrating" /\ Forward[6] = "migrate"
      /\ Forward[7] = "snapshot" /\ Forward[8] = "maintain" /\ Forward[9] = "check"
      /\ Forward[10] = "writers_enabled" /\ Forward[11] = "start" /\ Forward[12] = "verify"
      /\ Forward[13] = "ready"
  BY DEF Forward
<1>2. \A k \in DOMAIN Forward : Forward[k] = "writers_enabled" <=> k = 10
  BY <1>1
<1>3. WritingOpens = 10
  BY <1>1, <1>2 DEF WritingOpens
<1> QED
  BY <1>1, <1>3

LEMMA BackwardScript ==
  /\ Len(Backward) = 6
  /\ Backward[1] = "rolling_back" /\ Backward[2] = "stop" /\ Backward[3] = "swap"
  /\ Backward[4] = "start_old" /\ Backward[5] = "verify_old" /\ Backward[6] = "rolled_back"
BY DEF Backward

LEMMA TelegramScripts ==
  ASSUME NEW aim
  PROVE  LET script == IF aim = "new" THEN Activation ELSE Restoration IN
         /\ script[1] = "stage_env" /\ script[2] = "env" /\ script[3] = "up"
         /\ script[4] = "verify" /\ script[5] = "stage_site" /\ script[6] = "site"
         /\ script[7] = "reload" /\ script[8] = "webhook" /\ script[9] = "save"
BY DEF Activation, Restoration

\* A container that is up after a step has the settings of the host, or those it
\* had before.
SettingsKept ==
  \A s \in Services :
    app'[s].up => app'[s].env = env \/ (app[s].up /\ app'[s].env = app[s].env)

LEMMA Stops ==
  ASSUME app \in [Services -> Containers], NEW S \in SUBSET Services, app' = Stopped(S)
  PROVE  app' \in [Services -> Containers] /\ SettingsKept
<1>1. ASSUME NEW s \in Services
      PROVE  LET c == [app[s] EXCEPT !.up = @ /\ s \notin S] IN
             /\ c \in Containers /\ c.env = app[s].env /\ c.up = (app[s].up /\ s \notin S)
  BY DEF Containers
<1> QED
  BY <1>1 DEF Stopped, SettingsKept

LEMMA ContainerRow ==
  ASSUME env \in Settings, NEW r \in Places, NEW d \in Nat, NEW m \in BOOLEAN,
         NEW tagged \in BOOLEAN, NEW c, c = Container(r, d, m, tagged)
  PROVE  /\ c \in Containers
         /\ c.release = r /\ c.maintenance = m /\ c.env = env /\ c.up
BY DEF Container, Containers

LEMMA Recreates ==
  ASSUME HostRows, NEW S \in SUBSET Services, NEW r \in Places, NEW d \in Nat, NEW m \in BOOLEAN,
         NEW tagged \in BOOLEAN, app' = Recreated(S, Container(r, d, m, tagged))
  PROVE  /\ app' \in [Services -> Containers] /\ SettingsKept
         /\ \A s \in S : app'[s].env = env
<1>1. PICK c : c = Container(r, d, m, tagged)
  OBVIOUS
<1>2. c \in Containers /\ c.env = env
  BY <1>1, ContainerRow DEF HostRows
<1>3. app' = [s \in Services |-> IF s \in S THEN c ELSE app[s]]
  BY <1>1 DEF Recreated
<1> QED
  BY <1>2, <1>3 DEF SettingsKept, HostRows

LEMMA Kinds ==
  /\ Free.tool = "none" /\ NoOp.kind = "none" /\ NoOp.step = "none"
  /\ \A d \in WalletJobs : d.tool = "wallet"
  /\ \A d \in TelegramJobs : d.tool = "telegram"
  /\ \A old : \A d \in DeployJobs(old) : d.tool = "deploy"
BY DEF Free, NoOp, WalletJobs, TelegramJobs, DeployJobs

-----------------------------------------------------------------------------
(* What a step leaves alone.                                                *)

LEMMA Frames ==
  ASSUME Inv
  PROVE  /\ UNCHANGED dev => JobRows'
         /\ UNCHANGED <<proof, active, op>> => ContractRows' /\ CutoverStands'
         /\ UNCHANGED <<previous, asked>> => DeployRows'
         /\ UNCHANGED <<receipts, copies>> => WalletRows' /\ ReceiptsStand'
         /\ UNCHANGED receipts => StaysOpened
         /\ UNCHANGED telegram => TelegramRow'
         /\ UNCHANGED <<dev, receipts, copies>> \/ dev'.tool # "wallet" => WalletStands'
         /\ UNCHANGED base => MovesAsProven
<1>1. UNCHANGED <<receipts, copies>> => WalletRows' /\ ReceiptsStand'
  BY DEF Inv, TypeInv, WalletRows, ReceiptsStand, Recoverable
<1>2. UNCHANGED <<dev, receipts, copies>> \/ dev'.tool # "wallet" => WalletStands'
  BY DEF Inv, WalletStands, ForwardStands, BackwardStands, Recoverable
<1>3. UNCHANGED <<proof, active, op>> => ContractRows' /\ CutoverStands'
  BY DEF Inv, TypeInv, ContractRows, CutoverStands
<1>4. UNCHANGED receipts => StaysOpened
  BY DEF StaysOpened, Opened
<1>5. UNCHANGED base => MovesAsProven
  BY DEF MovesAsProven
<1> QED
  BY <1>1, <1>2, <1>3, <1>4, <1>5 DEF Inv, TypeInv, JobRows, DeployRows, TelegramRow

\* Any tool but the activation itself leaves what the activation relies on.
LEMMA TelegramFrame ==
  ASSUME Inv, SettingsKept \/ UNCHANGED app, UNCHANGED <<env, telegramVars>>,
         UNCHANGED dev \/ dev'.tool # "telegram"
  PROVE  TelegramStands' /\ TelegramIsWhole'
<1>1. UNCHANGED <<env, telegram, site, route, webhook>>
  BY DEF telegramVars
<1>2. \A s \in Services :
        app'[s].up => app'[s].env = env \/ (app[s].up /\ app'[s].env = app[s].env)
  BY DEF SettingsKept
<1>3. TelegramIsWhole'
  BY <1>1, <1>2 DEF Inv, TelegramIsWhole
<1>4. TelegramStands'
  BY <1>1, <1>2 DEF Inv, TelegramStands
<1> QED
  BY <1>3, <1>4

-----------------------------------------------------------------------------
(* release_contract.py.                                                     *)

LEMMA ContractFrame ==
  ASSUME Inv, UNCHANGED <<main, written, env, dev>>,
         UNCHANGED <<deployVars, walletVars, telegramVars>>,
         base' \in Databases, app' \in [Services -> Containers],
         SettingsKept \/ UNCHANGED app,
         ContractRows', CutoverStands', MovesAsProven
  PROVE  Step
<1>1. UNCHANGED <<previous, asked, receipts, copies, telegram>>
  BY DEF deployVars, walletVars, telegramVars
<1>2. HostRows'
  BY DEF Inv, TypeInv, HostRows
<1>3. TelegramStands' /\ TelegramIsWhole'
  BY TelegramFrame
<1> QED
  BY <1>1, <1>2, <1>3, Frames DEF Inv, TypeInv, Step

\* A step that leaves the host alone.
LEMMA ContractOnly ==
  ASSUME Inv, UNCHANGED <<main, base, written, env, dev, app>>,
         UNCHANGED <<deployVars, walletVars, telegramVars>>, ContractRows', CutoverStands'
  PROVE  Step
BY ContractFrame, Frames DEF Inv, TypeInv, HostRows

LEMMA Contracts ==
  ASSUME Inv
  PROVE  /\ proof \in [Releases -> ProofRows] /\ active \in ActiveRows /\ op \in OpRows
         /\ base \in Databases /\ base.head \in 0 .. 1 /\ app \in [Services -> Containers]
         /\ HostRows /\ CutoverStands
BY DEF Inv, TypeInv, ContractRows, HostRows, Databases

\* A run begins.
LEMMA ContractBegins ==
  ASSUME Inv, NEW kind \in {"activate", "rollback", "cutover"},
         NEW r \in Releases, NEW p \in Places, NEW step \in {"stop_old", "stop_all"},
         NEW old \in Places,
         active' = Pending(kind, r, p),
         op' = [kind |-> kind, step |-> step, live |-> base.head, old |-> old],
         kind # "cutover" => step = "stop_old",
         kind = "cutover" => p \in Releases /\ HeadOf[p] = CutoverFrom /\ old = p,
         UNCHANGED <<main, base, written, env, dev, app, proof>>,
         UNCHANGED <<deployVars, walletVars, telegramVars>>
  PROVE  Step
<1>1. /\ active'.status = "pending" /\ active'.kind = kind /\ active'.current = r
      /\ active'.previous = p /\ active' \in ActiveRows
  BY ReleasePlaces DEF Pending, ActiveRows
<1>2. op'.kind = kind /\ op'.step = step /\ op'.old = old /\ op' \in OpRows
  BY Contracts DEF OpRows
<1>3. ContractRows'
  BY <1>1, <1>2, Contracts DEF ContractRows
<1>4. CutoverStands'
  BY <1>1, <1>2 DEF CutoverStands
<1> QED
  BY <1>3, <1>4, ContractOnly

LEMMA ActivateStep ==
  ASSUME Inv, NEW r \in Releases, Activate(r), UNCHANGED <<deployVars, walletVars, telegramVars>>
  PROVE  Step
<1>1. UNCHANGED <<main, base, written, env, dev, app, proof>>
  BY DEF Activate
<1>2. CASE MayActivate(r)
  <2>1. Previous \in Places
    BY Contracts, ReleasePlaces DEF Previous, ActiveRows
  <2>2. /\ active' = Pending("activate", r, Previous)
        /\ op' = [kind |-> "activate", step |-> "stop_old", live |-> base.head, old |-> Previous]
    BY <1>2 DEF Activate
  <2> QED
    BY <1>1, <2>1, <2>2, ContractBegins
<1>3. CASE ~MayActivate(r)
  BY <1>1, <1>3, ContractOnly, Frames DEF Activate
<1> QED
  BY <1>2, <1>3

LEMMA RollbackStep ==
  ASSUME Inv, Rollback, UNCHANGED <<deployVars, walletVars, telegramVars>>
  PROVE  Step
<1>1. RollbackTarget \in Releases /\ None \in Places /\ active.current \in Places
  <2>1. active \in ActiveRows /\ CutoverStands
    BY Contracts
  <2>2. CASE active.status = "pending"
    BY <2>1, <2>2, ReleasePlaces DEF RollbackTarget, CutoverStands, ActiveRows
  <2>3. CASE active.status = "ready" /\ active.previous # None
    BY <2>1, <2>3, ReleasePlaces DEF RollbackTarget, ActiveRows
  <2> QED
    BY <2>2, <2>3 DEF Rollback, MayRollback
<1>2. /\ active' = Pending("rollback", RollbackTarget, None)
      /\ op' = [kind |-> "rollback", step |-> "stop_old", live |-> base.head, old |-> active.current]
      /\ UNCHANGED <<main, base, written, env, dev, app, proof>>
  BY DEF Rollback, hostVars
<1> QED
  BY <1>1, <1>2, ContractBegins

LEMMA CutoverStep ==
  ASSUME Inv, NEW r \in Releases, Cutover(r), UNCHANGED <<deployVars, walletVars, telegramVars>>
  PROVE  Step
<1>1. UNCHANGED <<main, base, written, env, dev, app, proof>>
  BY DEF Cutover
<1>2. CASE MayCutover(r)
  <2>1. active \in ActiveRows /\ CutoverStands
    BY Contracts
  <2>2. CutoverSource \in Places /\ HeadOf[CutoverSource] = CutoverFrom
    BY <1>2, <2>1 DEF MayCutover, CutoverSource, ActiveRows
  <2>3. CutoverSource # None
    BY <1>2, <2>1, ReleasePlaces DEF MayCutover, CutoverSource, CutoverStands, Releases, None
  <2>4. CutoverSource \in Releases
    BY <2>2, <2>3, ReleasePlaces
  <2>5. /\ active' = Pending("cutover", r, CutoverSource)
        /\ op' = [kind |-> "cutover", step |-> "stop_all", live |-> base.head, old |-> CutoverSource]
    BY <1>2 DEF Cutover
  <2> QED
    BY <1>1, <2>2, <2>4, <2>5, ContractBegins
<1>3. CASE ~MayCutover(r)
  BY <1>1, <1>3, ContractOnly, Frames DEF Cutover
<1> QED
  BY <1>2, <1>3

\* A run goes on to the next step.
LEMMA Advances ==
  ASSUME Inv, NEW here, NEW next, At(here, next), here # "none",
         next \in {"prove", "verify", "migrate", "head", "worker", "web", "ready"}
  PROVE  /\ op.step = here /\ op.step # "none" /\ op'.step = next /\ op' \in OpRows
         /\ op'.kind = op.kind /\ op'.old = op.old
BY Contracts, OpRow DEF At

\* The process of a cutover keeps its kind, its source and, unless it is about
\* to migrate, owes nothing else.
LEMMA GoesOn ==
  ASSUME Inv, op.step # "none", UNCHANGED <<active, proof>>, op' \in OpRows, op'.kind = op.kind,
         op'.old = op.old,
         op'.step \in {"worker", "web", "ready"}
         \/ (op'.step \in {"prove", "verify", "head"} /\ op.kind = "cutover")
  PROVE  ContractRows' /\ CutoverStands'
BY Contracts DEF ContractRows, CutoverStands

LEMMA StopStep ==
  ASSUME Inv, StopOldWeb \/ StopAll, UNCHANGED <<deployVars, walletVars, telegramVars>>
  PROVE  Step
<1>1. UNCHANGED <<main, base, written, env, dev, active, proof>>
  BY DEF StopOldWeb, StopAll
<1>2. PICK here, next : /\ At(here, next)
                        /\ \/ here = "stop_old" /\ next = "worker"
                           \/ here = "stop_all" /\ next \in {"prove", "verify"}
  BY DEF StopOldWeb, StopAll
<1>3. /\ op.step = here /\ op'.step = next /\ op' \in OpRows
      /\ op'.kind = op.kind /\ op'.old = op.old
  BY <1>2, Advances
<1>4. ContractRows' /\ CutoverStands'
  BY <1>1, <1>2, <1>3, GoesOn, Contracts DEF CutoverStands
<1>5. \/ app' = app
      \/ \E S \in SUBSET Services : app' = Stopped(S)
  BY DEF StopOldWeb, StopAll, Services
<1>6. app' \in [Services -> Containers] /\ (SettingsKept \/ UNCHANGED app)
  BY <1>5, Contracts, Stops
<1> QED
  BY <1>1, <1>4, <1>6, ContractFrame, Contracts, Frames

LEMMA CreateProofStep ==
  ASSUME Inv, CreateProof, UNCHANGED <<deployVars, walletVars, telegramVars>>
  PROVE  Step
<1>1. /\ UNCHANGED <<main, base, written, env, dev, active, app>>
      /\ At("prove", "migrate") /\ DrillPasses(Dump(base), op.old)
      /\ proof' = [proof EXCEPT ![active.current] = [source |-> op.old, dump |-> Dump(base)]]
  BY DEF CreateProof, hostVars
<1>2. /\ op.step = "prove" /\ op'.step = "migrate" /\ op' \in OpRows
      /\ op'.kind = op.kind /\ op'.old = op.old
  BY <1>1, Advances
<1>3. /\ op.kind = "cutover" /\ active.kind = "cutover" /\ op.old = active.previous
      /\ active.current \in Releases /\ HeadOf[op.old] = CutoverFrom
  BY <1>2, Contracts DEF CutoverStands
<1>4. PICK d : d = Dump(base)
  OBVIOUS
<1>5. d \in Dumps
  BY <1>4, Contracts, DatabaseRow
<1>6. d.head = CutoverFrom
  BY <1>1, <1>3, <1>4 DEF DrillPasses, Restored
<1>7. op.old \in Places /\ [source |-> op.old, dump |-> d] \in ProofRows
  BY <1>5, Contracts DEF OpRows, ProofRows
<1>8. /\ proof' \in [Releases -> ProofRows]
      /\ proof'[active.current] = [source |-> op.old, dump |-> d]
  BY <1>1, <1>3, <1>4, <1>7, Contracts
<1>9. ContractRows' /\ CutoverStands'
  BY <1>1, <1>2, <1>3, <1>6, <1>8, Contracts DEF ContractRows, CutoverStands
<1> QED
  BY <1>1, <1>9, ContractOnly

LEMMA MigrateLiveStep ==
  ASSUME Inv, MigrateLive, UNCHANGED <<deployVars, walletVars, telegramVars>>
  PROVE  Step
<1>1. /\ UNCHANGED <<main, written, env, dev, active, app, proof>>
      /\ At("migrate", "head") /\ base' = Upgraded(base)
  BY DEF MigrateLive
<1>2. /\ op.step = "migrate" /\ op'.step = "head" /\ op' \in OpRows
      /\ op'.kind = op.kind /\ op'.old = op.old
  BY <1>1, Advances
<1>3. op.kind = "cutover" /\ CutoverStands
  BY <1>2, Contracts DEF CutoverStands
<1>4. ContractRows' /\ CutoverStands'
  BY <1>1, <1>2, <1>3, GoesOn
<1>5. MigrationIsProven
  BY <1>2, <1>3 DEF CutoverStands, MigrationIsProven
<1>6. base' \in Databases /\ MovesAsProven
  BY <1>1, <1>5, Contracts, DatabaseRow DEF MovesAsProven
<1> QED
  BY <1>1, <1>4, <1>6, ContractFrame, Contracts

LEMMA ContractCheck ==
  ASSUME Inv, VerifyProof \/ RequireHead, UNCHANGED <<deployVars, walletVars, telegramVars>>
  PROVE  Step
<1>1. UNCHANGED <<main, base, written, env, dev, active, app, proof>>
  BY DEF VerifyProof, RequireHead, hostVars
<1>2. PICK here, next : /\ At(here, next)
                        /\ \/ here = "verify" /\ next = "head"
                           \/ here = "head" /\ next = "worker"
  BY DEF VerifyProof, RequireHead
<1>3. /\ op.step = here /\ op'.step = next /\ op' \in OpRows
      /\ op'.kind = op.kind /\ op'.old = op.old
  BY <1>2, Advances
<1>4. ContractRows' /\ CutoverStands'
  BY <1>1, <1>2, <1>3, GoesOn, Contracts DEF CutoverStands
<1> QED
  BY <1>1, <1>4, ContractOnly

LEMMA RunServiceStep ==
  ASSUME Inv, NEW s \in Services, NEW next \in {"web", "ready"}, RunService(s, next),
         UNCHANGED <<deployVars, walletVars, telegramVars>>
  PROVE  Step
<1>1. /\ UNCHANGED <<main, base, written, env, dev, active, proof>> /\ At(s, next)
      /\ app' = Recreated({s}, Container(active.current, active.current, FALSE, FALSE))
  BY DEF RunService
<1>2. s # "none"
  BY DEF Services
<1>3. ContractRows' /\ CutoverStands'
  BY <1>1, <1>2, Advances, GoesOn
<1>4. active.current \in Places /\ active.current \in Nat /\ FALSE \in BOOLEAN
  BY Contracts DEF ActiveRows, Places
<1>5. app' \in [Services -> Containers] /\ SettingsKept
  <2>1. {s} \in SUBSET Services
    OBVIOUS
  <2> QED
    BY <1>1, <1>4, <2>1, Recreates, Contracts
<1> QED
  BY <1>1, <1>3, <1>5, ContractFrame, Contracts, Frames

\* The last step, or the end of the process anywhere.
LEMMA OperationStops ==
  ASSUME Inv, op' = NoOp, UNCHANGED <<hostVars, proof>>, active' = active \/ active' = ReadyState,
         op.step = "ready" \/ active' = active, UNCHANGED <<deployVars, walletVars, telegramVars>>
  PROVE  Step
<1>1. op' \in OpRows /\ op'.kind = "none" /\ op'.step = "none"
  BY ReleasePlaces DEF NoOp, OpRows
<1>2. \/ active' = active
      \/ /\ active' \in ActiveRows /\ active'.kind = "none" /\ active'.current = active.current
         /\ active'.current \in Releases
  BY Contracts DEF ReadyState, ActiveRows, CutoverStands
<1>3. ContractRows' /\ CutoverStands'
  BY <1>1, <1>2, Contracts DEF ContractRows, CutoverStands
<1> QED
  BY <1>3, ContractOnly DEF hostVars

LEMMA ContractSteps ==
  ASSUME Inv, ContractStep
  PROVE  Step
<1>1. ContractNext /\ UNCHANGED <<deployVars, walletVars, telegramVars>>
  BY DEF ContractStep
<1>2. CASE \E r \in Releases : Activate(r) \/ Cutover(r)
  BY <1>1, <1>2, ActivateStep, CutoverStep
<1>3. CASE Rollback
  BY <1>1, <1>3, RollbackStep
<1>4. CASE StopOldWeb \/ StopAll \/ CreateProof \/ MigrateLive \/ VerifyProof \/ RequireHead
  BY <1>1, <1>4, StopStep, CreateProofStep, MigrateLiveStep, ContractCheck
<1>5. CASE Lifecycle
  BY <1>1, <1>5, RunServiceStep, OperationStops DEF Lifecycle, Services
<1>6. CASE OperationEnds
  BY <1>1, <1>6, OperationStops DEF OperationEnds
<1> QED
  BY <1>1, <1>2, <1>3, <1>4, <1>5, <1>6 DEF ContractNext

-----------------------------------------------------------------------------
(* deploy_dev.py and deploy_compose_change.py.                              *)

LEMMA DeployFrame ==
  ASSUME Inv, UNCHANGED <<main, base, written, env>>,
         UNCHANGED <<contractVars, walletVars, telegramVars>>,
         app' \in [Services -> Containers], SettingsKept \/ UNCHANGED app,
         JobRows', UNCHANGED dev \/ dev'.tool \in {"none", "deploy"}, DeployRows'
  PROVE  Step
<1>1. UNCHANGED <<proof, active, op, receipts, copies, telegram>>
  BY DEF contractVars, walletVars, telegramVars
<1>2. HostRows'
  BY DEF Inv, TypeInv, HostRows
<1>3. TelegramStands' /\ TelegramIsWhole'
  BY TelegramFrame
<1> QED
  BY <1>1, <1>2, <1>3, Frames DEF Inv, TypeInv, Step

LEMMA Deploys ==
  ASSUME Inv
  PROVE  /\ main \in Releases /\ app \in [Services -> Containers] /\ base.head \in 0 .. 1
         /\ app["web"].release \in Places /\ app["web"].dir \in Nat
         /\ previous \in Places /\ \A a \in asked : a.dir \in Nat
         /\ dev.tool = "deploy" => dev \in DeployJobs(dev.old) /\ dev.target \in Places /\ dev.dir \in Nat
         /\ HostRows
<1>1. "web" \in Services
  BY DEF Services
<1>2. app["web"].release \in Places /\ app["web"].dir \in Nat
  BY <1>1 DEF Inv, TypeInv, HostRows, Containers
<1>3. dev.tool = "deploy" => dev \in DeployJobs(dev.old)
  BY Kinds DEF Inv, TypeInv, JobRows
<1>4. dev \in DeployJobs(dev.old) => dev.target \in Places /\ dev.dir \in Nat
  BY DEF DeployJobs
<1> QED
  BY <1>2, <1>3, <1>4 DEF Inv, TypeInv, HostRows, DeployRows, Databases

\* A deployment begins.
LEMMA DeployBegins ==
  ASSUME Inv, NEW target \in Releases, NEW before \in Places, NEW dir \in Nat, NEW old,
         NEW step \in {"keep", "worker"}, dev' = DeployJob(step, target, before, dir, old),
         previous' = before, asked' \subseteq asked, UNCHANGED <<main, base, written, app, env>>,
         UNCHANGED <<contractVars, walletVars, telegramVars>>
  PROVE  Step
<1>1. dev'.tool = "deploy" /\ dev' \in DeployJobs(dev'.old)
  BY Deploys, ReleasePlaces DEF DeployJob, DeployJobs
<1>2. DeployRows' /\ JobRows'
  BY <1>1, Deploys DEF DeployRows, JobRows
<1> QED
  BY <1>1, <1>2, DeployFrame, Deploys

\* Nothing but the images and what is asked changes.
LEMMA DeployRefused ==
  ASSUME Inv, UNCHANGED <<main, base, written, app, env, dev, previous>>,
         \A a \in asked' : a.dir \in Nat, UNCHANGED <<contractVars, walletVars, telegramVars>>
  PROVE  Step
<1>1. DeployRows' /\ JobRows'
  BY Deploys, Frames DEF DeployRows
<1> QED
  BY <1>1, DeployFrame, Deploys

LEMMA DeployStarts ==
  ASSUME Inv, AskDeploy \/ BeginDeploy \/ BeginComposeChange,
         UNCHANGED <<walletVars, telegramVars>>
  PROVE  Step
<1>1. CASE AskDeploy
  <2>1. active.current \in Nat
    BY Contracts DEF ActiveRows, Places
  <2>2. \A a \in asked' : a.dir \in Nat
    BY <1>1, <2>1, Deploys DEF AskDeploy
  <2> QED
    BY <1>1, <2>2, DeployRefused DEF AskDeploy, hostVars
<1>2. CASE BeginDeploy
  <2>1. PICK a \in asked :
          /\ asked' = asked \ {a}
          /\ UNCHANGED <<main, base, written, app, package, env, contractVars, saved>>
          /\ IF MayBuild(a.sha) /\ MayDeploy(a.sha)
             THEN /\ dev' = DeployJob("worker", a.sha, app["web"].release, a.dir, None)
                  /\ previous' = app["web"].release
             ELSE UNCHANGED <<dev, previous>>
    BY <1>2 DEF BeginDeploy
  <2>2. CASE MayBuild(a.sha) /\ MayDeploy(a.sha)
    <3>1. a.sha \in Releases /\ a.dir \in Nat
      BY <2>2, Deploys DEF MayBuild
    <3> QED
      BY <2>1, <2>2, <3>1, DeployBegins, Deploys
  <2>3. CASE ~(MayBuild(a.sha) /\ MayDeploy(a.sha))
    BY <2>1, <2>3, DeployRefused, Deploys
  <2> QED
    BY <2>2, <2>3
<1>3. CASE BeginComposeChange
  <2>1. UNCHANGED <<main, base, written, app, env, contractVars, asked>>
    BY <1>3 DEF BeginComposeChange
  <2>2. CASE MayChangeCompose(main)
    <3>1. PICK old : old = package[app["web"].dir]
      OBVIOUS
    <3>2. dev' = DeployJob("keep", main, app["web"].release, app["web"].dir, old)
          /\ previous' = app["web"].release
      BY <1>3, <2>2, <3>1 DEF BeginComposeChange
    <3> QED
      BY <2>1, <3>2, DeployBegins, Deploys
  <2>3. CASE ~MayChangeCompose(main)
    BY <1>3, <2>1, <2>3, DeployRefused, Deploys DEF BeginComposeChange
  <2> QED
    BY <2>2, <2>3
<1> QED
  BY <1>1, <1>2, <1>3

\* The job goes on or ends; containers it recreates get the settings of the host.
LEMMA DeployGoesOn ==
  ASSUME Inv, dev.tool = "deploy",
         NEW next \in {"keep", "replace", "worker", "web", "prove", "undo", "prove_old"},
         dev' \in {dev, Free, [dev EXCEPT !.step = next]},
         UNCHANGED <<main, base, written, env, asked, previous>>,
         UNCHANGED <<contractVars, walletVars, telegramVars>>,
         \/ UNCHANGED app
         \/ \E S \in SUBSET Services, r \in Places, tagged \in BOOLEAN :
              app' = Recreated(S, Container(r, dev.dir, FALSE, tagged))
  PROVE  Step
<1>1. JobRows' /\ dev'.tool \in {"none", "deploy"}
  <2>1. PICK old : dev \in DeployJobs(old)
    BY Deploys
  <2>2. PICK e : e = [dev EXCEPT !.step = next]
    OBVIOUS
  <2>3. e.tool = "deploy" /\ e \in DeployJobs(e.old)
    BY <2>1, <2>2, DeployRow
  <2>4. dev' = dev \/ dev' = Free \/ dev' = e
    BY <2>2
  <2> QED
    BY <2>3, <2>4, Deploys, Kinds DEF JobRows
<1>2. app' \in [Services -> Containers] /\ (SettingsKept \/ UNCHANGED app)
  <2>1. FALSE \in BOOLEAN /\ dev.dir \in Nat
    BY Deploys
  <2> QED
    BY <2>1, Deploys, Recreates
<1>3. DeployRows'
  BY Frames
<1> QED
  BY <1>1, <1>2, <1>3, DeployFrame

LEMMA DeploySteps ==
  ASSUME Inv, DeployStep
  PROVE  Step
<1>1. DeployNext /\ UNCHANGED <<walletVars, telegramVars>>
  BY DEF DeployStep
<1>2. CASE AskDeploy \/ BeginDeploy \/ BeginComposeChange
  BY <1>1, <1>2, DeployStarts
<1>3. CASE KeepCompose \/ ReplaceCompose
  BY <1>1, <1>3, DeployGoesOn DEF KeepCompose, ReplaceCompose, InDeploy, deployVars
<1>4. CASE DeployService("worker", "web") \/ DeployService("web", "prove")
  <2>1. PICK s \in Services, next \in {"web", "prove"} : DeployService(s, next)
    BY <1>4 DEF Services
  <2>2. /\ dev.tool = "deploy" /\ dev' = [dev EXCEPT !.step = next]
        /\ app' = Recreated({s}, Container(dev.target, dev.dir, FALSE, TRUE))
        /\ UNCHANGED <<main, base, written, env, contractVars, asked, previous>>
    BY <2>1 DEF DeployService, InDeploy, deployVars
  <2>3. \E S \in SUBSET Services, r \in Places, tagged \in BOOLEAN :
          app' = Recreated(S, Container(r, dev.dir, FALSE, tagged))
    <3>1. {s} \in SUBSET Services /\ TRUE \in BOOLEAN /\ dev.target \in Places
      BY <2>2, Deploys
    <3> QED
      BY <2>2, <3>1, Zenon
  <2> QED
    BY <1>1, <2>2, <2>3, DeployGoesOn
<1>5. CASE DeploySucceeds \/ DeployEnds \/ DeployFails
  BY <1>1, <1>5, DeployGoesOn DEF DeploySucceeds, DeployEnds, DeployFails, deployVars
<1>6. CASE UndoDeploy \/ UndoDeployPartly
  <2>1. PICK S \in SUBSET Services :
          /\ dev.tool = "deploy" /\ (UNCHANGED dev \/ dev' = [dev EXCEPT !.step = "prove_old"])
          /\ app' = Recreated(S, Container(previous, dev.dir, FALSE, FALSE))
          /\ UNCHANGED <<main, base, written, env, contractVars, asked, previous>>
    BY <1>6 DEF UndoDeploy, UndoDeployPartly, InDeploy, deployVars
  <2>2. \E T \in SUBSET Services, r \in Places, tagged \in BOOLEAN :
          app' = Recreated(T, Container(r, dev.dir, FALSE, tagged))
    <3>1. FALSE \in BOOLEAN /\ previous \in Places
      BY Deploys
    <3> QED
      BY <2>1, <3>1, Zenon
  <2> QED
    BY <1>1, <2>1, <2>2, DeployGoesOn
<1> QED
  BY <1>1, <1>2, <1>3, <1>4, <1>5, <1>6 DEF DeployNext

-----------------------------------------------------------------------------
(* telegram_activation.py.                                                  *)

LEMMA TelegramJobRow ==
  /\ \A aim \in Settings : /\ TelegramJob(aim) \in TelegramJobs /\ TelegramJob(aim).tool = "telegram"
                           /\ TelegramJob(aim).aim = aim /\ TelegramJob(aim).step = 1
  /\ \A d \in TelegramJobs : LET e == [d EXCEPT !.step = @ + 1] IN
       e \in TelegramJobs /\ e.tool = "telegram" /\ e.aim = d.aim /\ e.step = d.step + 1
BY DEF TelegramJob, TelegramJobs

LEMMA ReceiptPhase ==
  ASSUME NEW config, NEW t \in TelegramRows(config),
         NEW p \in {"none", "prepared", "activating", "ready", "rolled_back"}
  PROVE  LET u == [t EXCEPT !.phase = p] IN u \in TelegramRows(u.config) /\ u.phase = p
BY DEF TelegramRows

LEMMA Telegrams ==
  ASSUME Inv
  PROVE  /\ HostRows /\ TelegramIsWhole /\ telegram \in TelegramRows(telegram.config)
         /\ telegram.release \in Places /\ telegram.dir \in Nat
         /\ dev.tool = "telegram" =>
              /\ dev \in TelegramJobs /\ dev.aim \in Settings /\ dev.step \in 1 .. 9
              /\ telegram.phase = "activating" /\ TelegramStands
<1>1. telegram \in TelegramRows(telegram.config) /\ HostRows /\ TelegramIsWhole /\ TelegramStands
  BY DEF Inv, TypeInv, TelegramRow
<1>2. telegram.release \in Places /\ telegram.dir \in Nat
  BY <1>1 DEF TelegramRows
<1>3. dev.tool = "telegram" => dev \in TelegramJobs
  BY Kinds DEF Inv, TypeInv, JobRows
<1>4. dev \in TelegramJobs => dev.aim \in Settings
  BY DEF TelegramJobs
<1> QED
  BY <1>1, <1>2, <1>3, <1>4 DEF TelegramStands

\* The index of the script at which a step is done.
LEMMA TelegramAt ==
  ASSUME Inv, NEW step, Doing(step)
  PROVE  /\ dev.tool = "telegram"
         /\ step = "stage_env" => dev.step = 1
         /\ step = "env" => dev.step = 2
         /\ step = "up" => dev.step = 3
         /\ step = "verify" => dev.step = 4
         /\ step = "stage_site" => dev.step = 5
         /\ step = "site" => dev.step = 6
         /\ step = "reload" => dev.step = 7
         /\ step = "webhook" => dev.step = 8
         /\ step = "save" => dev.step = 9
<1>1. PICK script : script = IF dev.aim = "new" THEN Activation ELSE Restoration
  OBVIOUS
<1>2. dev.tool = "telegram" /\ script[dev.step] = step
  BY <1>1 DEF Doing
<1>3. dev.step \in 1 .. 9
  BY <1>2, Telegrams
<1>4. /\ script[1] = "stage_env" /\ script[2] = "env" /\ script[3] = "up"
      /\ script[4] = "verify" /\ script[5] = "stage_site" /\ script[6] = "site"
      /\ script[7] = "reload" /\ script[8] = "webhook" /\ script[9] = "save"
  BY <1>1, TelegramScripts
<1>5. \/ dev.step = 1 \/ dev.step = 2 \/ dev.step = 3 \/ dev.step = 4 \/ dev.step = 5
      \/ dev.step = 6 \/ dev.step = 7 \/ dev.step = 8 \/ dev.step = 9
  BY <1>3
<1> QED
  BY <1>2, <1>4, <1>5

\* What is left to prove of a step of this tool.
LEMMA TelegramChanges ==
  ASSUME Inv, UNCHANGED <<main, base, written>>,
         UNCHANGED <<contractVars, deployVars, walletVars>>,
         app' \in [Services -> Containers], env' \in Settings,
         dev' \in TelegramJobs \cup {Free}, TelegramRow', TelegramStands', TelegramIsWhole'
  PROVE  Step
<1>1. UNCHANGED <<proof, active, op, receipts, copies, previous, asked>>
  BY DEF contractVars, deployVars, walletVars
<1>2. HostRows' /\ JobRows'
  BY Telegrams DEF HostRows, JobRows
<1>3. dev'.tool # "wallet"
  BY Kinds
<1> QED
  BY <1>1, <1>2, <1>3, Frames DEF Inv, TypeInv, Step

\* A step of the activation or of the restoration keeps the receipt activating:
\* the job ends or turns back,
LEMMA TelegramTurns ==
  ASSUME Inv, dev.tool = "telegram", UNCHANGED <<main, base, written, telegram, app, env>>,
         UNCHANGED <<contractVars, deployVars, walletVars>>, dev' = Free \/ dev' = TelegramJob("old")
  PROVE  Step
<1>1. telegram'.phase = "activating" /\ TelegramIsWhole' /\ TelegramRow'
  BY Telegrams DEF TelegramIsWhole, TelegramRow
<1>2. dev' = Free \/ (dev' \in TelegramJobs /\ dev'.step = 1)
  BY TelegramJobRow DEF Settings
<1>3. TelegramStands'
  BY <1>1, <1>2, Kinds DEF TelegramStands
<1>4. app' \in [Services -> Containers] /\ env' \in Settings
  BY Telegrams DEF HostRows
<1> QED
  BY <1>1, <1>2, <1>3, <1>4, TelegramChanges

\* or it goes on, and what the next step relies on is done.
LEMMA TelegramGoesOn ==
  ASSUME Inv, dev.tool = "telegram", UNCHANGED <<main, base, written, telegram>>,
         UNCHANGED <<contractVars, deployVars, walletVars>>,
         app' \in [Services -> Containers], env' \in Settings,
         dev' = [dev EXCEPT !.step = @ + 1], dev.step \in 1 .. 8,
         dev.step >= 2 => env' = dev.aim,
         dev.step >= 3 => \A s \in Services : app'[s].up => app'[s].env = dev.aim,
         dev.step >= 6 => site' = dev.aim,
         dev.step >= 7 => route' = dev.aim,
         dev.step >= 8 => webhook' = dev.aim
  PROVE  Step
<1>1. telegram'.phase = "activating" /\ TelegramIsWhole' /\ TelegramRow'
  BY Telegrams DEF TelegramIsWhole, TelegramRow
<1>2. dev' \in TelegramJobs /\ dev'.step = dev.step + 1 /\ dev'.aim = dev.aim
  BY TelegramJobRow, Telegrams
<1>3. TelegramStands'
  BY <1>1, <1>2 DEF TelegramStands
<1> QED
  BY <1>1, <1>2, <1>3, TelegramChanges

LEMMA TelegramStarts ==
  ASSUME Inv, PrepareTelegram \/ ApplyTelegram \/ RecoverTelegram,
         UNCHANGED <<contractVars, deployVars, walletVars>>
  PROVE  Step
<1>1. /\ UNCHANGED <<main, base, written, app, env, site, route, webhook>> /\ dev = Free
  BY DEF PrepareTelegram, ApplyTelegram, RecoverTelegram, hostVars, telegramVars
<1>2. app' \in [Services -> Containers] /\ env' \in Settings
  BY <1>1, Telegrams DEF HostRows
<1>3. CASE PrepareTelegram
  <2>1. PICK config : telegram' = [phase |-> "prepared", release |-> app["web"].release,
                                   dir |-> app["web"].dir, config |-> config]
    BY <1>3 DEF PrepareTelegram
  <2>2. telegram'.phase = "prepared" /\ TelegramRow'
    BY <2>1, Deploys DEF TelegramRow, TelegramRows
  <2>3. dev' = Free
    BY <1>1, <1>3 DEF PrepareTelegram, hostVars
  <2>4. TelegramStands' /\ TelegramIsWhole'
    BY <2>2, <2>3, Kinds DEF TelegramStands, TelegramIsWhole
  <2> QED
    BY <1>1, <1>2, <2>2, <2>3, <2>4, TelegramChanges
<1>4. CASE ApplyTelegram \/ RecoverTelegram
  <2>1. dev' = TelegramJob("new") \/ dev' = TelegramJob("old")
    BY <1>4 DEF ApplyTelegram, RecoverTelegram
  <2>2. dev' \in TelegramJobs /\ dev'.step = 1
    BY <2>1, TelegramJobRow DEF Settings
  <2>3. telegram'.phase = "activating" /\ TelegramRow'
    <3>1. CASE ApplyTelegram
      BY <3>1, ReceiptPhase, Telegrams DEF ApplyTelegram, TelegramRow
    <3>2. CASE RecoverTelegram
      BY <3>2, Telegrams DEF RecoverTelegram, TelegramRow, telegramVars
    <3> QED
      BY <1>4, <3>1, <3>2
  <2>4. TelegramStands' /\ TelegramIsWhole'
    BY <2>2, <2>3 DEF TelegramStands, TelegramIsWhole
  <2> QED
    BY <1>1, <1>2, <2>2, <2>3, <2>4, TelegramChanges
<1> QED
  BY <1>3, <1>4

\* Files and route are replaced.
LEMMA TelegramFiles ==
  ASSUME Inv, UNCHANGED <<contractVars, deployVars, walletVars>>,
         \/ StageFile("stage_env", "env") \/ StageFile("stage_site", "site")
         \/ ReplaceEnv \/ ReplaceSite \/ ReloadEdge \/ SetWebhook \/ VerifyApp
  PROVE  Step
<1>1. UNCHANGED <<main, base, written, telegram, app>>
  BY DEF StageFile, ReplaceEnv, ReplaceSite, ReloadEdge, SetWebhook, VerifyApp, telegramVars
<1>2. PICK step : InTelegram(step) /\ step \in {"stage_env", "env", "verify", "stage_site", "site",
                                               "reload", "webhook"}
  BY DEF StageFile, ReplaceEnv, ReplaceSite, ReloadEdge, SetWebhook, VerifyApp
<1>3. dev.tool = "telegram" /\ dev' = [dev EXCEPT !.step = @ + 1] /\ Doing(step)
  BY <1>2, TelegramAt DEF InTelegram
<1>4. dev.step \in 1 .. 8 /\ dev.step # 3
  BY <1>2, <1>3, TelegramAt
<1>5. /\ env' \in Settings
      /\ dev.step >= 2 => env' = dev.aim
      /\ dev.step >= 6 => site' = dev.aim
      /\ dev.step >= 7 => route' = dev.aim
      /\ dev.step >= 8 => webhook' = dev.aim
  <2>1. HostRows /\ TelegramStands /\ dev.aim \in Settings
    BY <1>3, Telegrams
  <2>2. CASE \/ StageFile("stage_env", "env") \/ StageFile("stage_site", "site") \/ VerifyApp
    <3>1. UNCHANGED <<env, site, route, webhook>>
      BY <2>2 DEF StageFile, VerifyApp, telegramVars
    <3>2. dev.step \in {1, 4, 5}
      BY <2>2, TelegramAt DEF StageFile, VerifyApp, InTelegram
    <3> QED
      BY <1>3, <2>1, <3>1, <3>2 DEF TelegramStands, HostRows
  <2>3. CASE ReplaceEnv
    <3>1. dev.step = 2 /\ env' = dev.aim
      BY <2>3, TelegramAt DEF ReplaceEnv, InTelegram
    <3> QED
      BY <2>1, <3>1
  <2>4. CASE ReplaceSite
    <3>1. dev.step = 6 /\ site' = dev.aim /\ UNCHANGED env
      BY <2>4, TelegramAt DEF ReplaceSite, InTelegram
    <3> QED
      BY <1>3, <2>1, <3>1 DEF TelegramStands, HostRows
  <2>5. CASE ReloadEdge
    <3>1. dev.step = 7 /\ route' = site /\ UNCHANGED <<env, site>>
      BY <2>5, TelegramAt DEF ReloadEdge, InTelegram
    <3> QED
      BY <1>3, <2>1, <3>1 DEF TelegramStands, HostRows
  <2>6. CASE SetWebhook
    <3>1. dev.step = 8 /\ webhook' = dev.aim /\ UNCHANGED <<env, site, route>>
      BY <2>6, TelegramAt DEF SetWebhook, InTelegram
    <3> QED
      BY <1>3, <2>1, <3>1 DEF TelegramStands, HostRows
  <2> QED
    BY <2>2, <2>3, <2>4, <2>5, <2>6
<1>6. /\ app' \in [Services -> Containers]
      /\ dev.step >= 3 => \A s \in Services : app'[s].up => app'[s].env = dev.aim
  BY <1>1, <1>3, <1>4, Telegrams DEF TelegramStands, HostRows
<1> QED
  BY <1>1, <1>3, <1>4, <1>5, <1>6, TelegramGoesOn

LEMMA RecreateAppStep ==
  ASSUME Inv, RecreateApp \/ RecreateAppPartly, UNCHANGED <<contractVars, deployVars, walletVars>>
  PROVE  Step
<1>1. /\ UNCHANGED <<main, base, written, telegram, env, site, route, webhook>> /\ Doing("up")
  BY DEF RecreateApp, RecreateAppPartly, InTelegram, telegramVars
<1>2. dev.tool = "telegram" /\ dev.step = 3 /\ env = dev.aim
  BY <1>1, TelegramAt, Telegrams DEF TelegramStands
<1>3. PICK S \in SUBSET Services :
        /\ app' = Recreated(S, Container(telegram.release, telegram.dir, FALSE, FALSE))
        /\ dev' = dev \/ (dev' = [dev EXCEPT !.step = @ + 1] /\ S = Services)
  BY DEF RecreateApp, RecreateAppPartly, InTelegram, RestartedBy
<1>4. app' \in [Services -> Containers] /\ \A s \in S : app'[s].env = env
  <2>1. FALSE \in BOOLEAN
    OBVIOUS
  <2> QED
    BY <1>3, <2>1, Recreates, Telegrams
<1>5. env' \in Settings
  BY <1>1, Telegrams DEF HostRows
<1>6. CASE dev' = dev
  <2>1. TelegramStands' /\ TelegramIsWhole' /\ TelegramRow'
    BY <1>1, <1>2, <1>6, Telegrams DEF TelegramStands, TelegramIsWhole, TelegramRow
  <2> QED
    BY <1>1, <1>2, <1>4, <1>5, <1>6, <2>1, TelegramChanges, Telegrams
<1>7. CASE dev' = [dev EXCEPT !.step = @ + 1] /\ S = Services
  BY <1>1, <1>2, <1>4, <1>5, <1>7, TelegramGoesOn
<1> QED
  BY <1>3, <1>6, <1>7

LEMMA SaveTelegramStep ==
  ASSUME Inv, SaveTelegram, UNCHANGED <<contractVars, deployVars, walletVars>>
  PROVE  Step
<1>1. UNCHANGED <<main, base, written, app, env, site, route, webhook>> /\ Doing("save") /\ dev' = Free
  BY DEF SaveTelegram
<1>2. dev.tool = "telegram" /\ dev.step = 9
  BY <1>1, TelegramAt
<1>3. PICK p : p = IF dev.aim = "new" THEN "ready" ELSE "rolled_back"
  OBVIOUS
<1>4. telegram' = [telegram EXCEPT !.phase = p]
  BY <1>3 DEF SaveTelegram
<1>5. telegram'.phase = p /\ TelegramRow'
  <2>1. p \in {"none", "prepared", "activating", "ready", "rolled_back"}
    BY <1>3
  <2>2. PICK u : u = [telegram EXCEPT !.phase = p]
    OBVIOUS
  <2>3. PICK config : telegram \in TelegramRows(config)
    BY Telegrams
  <2>4. u \in TelegramRows(u.config) /\ u.phase = p
    BY <2>1, <2>2, <2>3 DEF TelegramRows
  <2> QED
    BY <1>4, <2>2, <2>4 DEF TelegramRow
<1>6. /\ dev.aim \in Settings /\ env = dev.aim /\ site = dev.aim /\ route = dev.aim /\ webhook = dev.aim
      /\ \A s \in Services : app[s].up => app[s].env = dev.aim
  BY <1>2, Telegrams DEF TelegramStands
<1>7. TelegramIsWhole'
  BY <1>1, <1>3, <1>5, <1>6 DEF TelegramIsWhole, Settings
<1>8. TelegramStands'
  BY <1>1, Kinds DEF TelegramStands
<1>9. app' \in [Services -> Containers] /\ env' \in Settings
  BY <1>1, Telegrams DEF HostRows
<1> QED
  BY <1>1, <1>5, <1>7, <1>8, <1>9, TelegramChanges

LEMMA TelegramSteps ==
  ASSUME Inv, TelegramStep
  PROVE  Step
<1>1. TelegramNext /\ UNCHANGED <<contractVars, deployVars, walletVars>>
  BY DEF TelegramStep
<1>2. CASE PrepareTelegram \/ ApplyTelegram \/ RecoverTelegram
  BY <1>1, <1>2, TelegramStarts
<1>3. CASE \/ StageFile("stage_env", "env") \/ StageFile("stage_site", "site")
           \/ ReplaceEnv \/ ReplaceSite \/ ReloadEdge \/ SetWebhook \/ VerifyApp
  BY <1>1, <1>3, TelegramFiles
<1>4. CASE RecreateApp \/ RecreateAppPartly
  BY <1>1, <1>4, RecreateAppStep
<1>5. CASE SaveTelegram
  BY <1>1, <1>5, SaveTelegramStep
<1>6. CASE WebhookUnverified \/ TelegramFails \/ TelegramKilled
  <2>1. /\ dev.tool = "telegram" /\ (dev' = Free \/ dev' = TelegramJob("old"))
        /\ UNCHANGED <<main, base, written, app, env, telegram>>
    BY <1>6, TelegramAt DEF WebhookUnverified, TelegramFails, TelegramKilled, telegramVars
  <2> QED
    BY <1>1, <2>1, TelegramTurns
<1> QED
  BY <1>1, <1>2, <1>3, <1>4, <1>5, <1>6 DEF TelegramNext

-----------------------------------------------------------------------------
(* Members, merges and the backups.                                         *)

LEMMA HostSteps ==
  ASSUME Inv, HostStep
  PROVE  Step
<1>1. HostNext /\ UNCHANGED <<contractVars, deployVars, walletVars, telegramVars>>
  BY DEF HostStep
<1>2. /\ UNCHANGED <<app, env, dev>> /\ main' \in Releases /\ base' \in Databases
      /\ written' \in Nat /\ base'.head = base.head
  <2>1. HostRows /\ main \in Releases /\ base \in Databases /\ written \in Nat
    BY DEF Inv, TypeInv, HostRows
  <2>2. CASE Write
    <3>1. PICK e : e = [base EXCEPT !.rows = @ + 1]
      OBVIOUS
    <3>2. e \in Databases /\ e.head = base.head
      BY <2>1, <3>1, DatabaseRow, Zenon
    <3> QED
      BY <2>1, <2>2, <3>1, <3>2 DEF Write
  <2>3. CASE Merge
    BY <2>1, <2>3, HostAssumption DEF Merge, Releases
  <2> QED
    BY <1>1, <2>2, <2>3 DEF HostNext
<1>3. UNCHANGED <<proof, active, op, previous, asked, receipts, copies, telegram>>
  BY <1>1 DEF contractVars, deployVars, walletVars, telegramVars
<1>4. HostRows'
  BY <1>2 DEF Inv, TypeInv, HostRows
<1>5. TelegramStands' /\ TelegramIsWhole'
  BY <1>1, <1>2, TelegramFrame
<1>6. MovesAsProven
  BY <1>2 DEF MovesAsProven
<1> QED
  BY <1>2, <1>3, <1>4, <1>5, <1>6, Frames DEF Inv, TypeInv, Step

\* A receipt whose dump is another one of the same content.
LEMMA RedumpedRow ==
  ASSUME NEW r \in ReceiptRows, NEW u \in Dumps, u.head = r.dump.head, u.rows = r.dump.rows,
         Restored(u) = Restored(r.dump)
  PROVE  LET e == [r EXCEPT !.dump = u] IN
         e \in ReceiptRows /\ e.phase = r.phase /\ Saved(e, r)
<1>1. LET e == [r EXCEPT !.dump = u] IN
      /\ e \in ReceiptRows /\ e.phase = r.phase /\ e.verified = r.verified /\ e.rows = r.rows
      /\ e.dump = u
  BY DEF ReceiptRows
<1> QED
  BY <1>1, Zenon DEF Saved

LEMMA RedumpedJob ==
  ASSUME NEW d \in WalletJobs, NEW u \in Dumps
  PROVE  LET e == [d EXCEPT !.mem.dump = u] IN
         /\ e \in WalletJobs /\ e.id = d.id /\ e.way = d.way /\ e.step = d.step
         /\ e.mem = [d.mem EXCEPT !.dump = u]
BY DEF WalletJobs, ReceiptRows

\* What the other steps rely on does not depend on whether a dump is kept.
LEMMA DumpsFrame ==
  ASSUME Inv, UNCHANGED <<main, base, written, app, env, active, op, copies>>,
         UNCHANGED <<deployVars, telegramVars>>,
         proof' \in [Releases -> ProofRows],
         \A r \in Releases : proof'[r].source = proof[r].source
                             /\ proof'[r].dump.head = proof[r].dump.head,
         receipts' \in [ReceiptIds -> ReceiptRows],
         \A i \in ReceiptIds : receipts'[i].phase = receipts[i].phase
                               /\ Saved(receipts'[i], receipts[i]),
         dev.tool # "wallet" => dev' = dev,
         dev.tool = "wallet" =>
           /\ dev' \in WalletJobs /\ dev'.id = dev.id /\ dev'.way = dev.way
           /\ dev'.step = dev.step /\ Saved(dev'.mem, dev.mem)
  PROVE  Step
<1>1. UNCHANGED <<previous, asked, telegram>>
  BY DEF deployVars, telegramVars
<1>2. HostRows' /\ WalletRows'
  BY DEF Inv, TypeInv, HostRows, WalletRows
<1>3. ContractRows' /\ CutoverStands'
  <2>1. active.current \in Releases \/ active.status = "none"
    BY DEF Inv, CutoverStands
  <2> QED
    BY <2>1 DEF Inv, TypeInv, ContractRows, CutoverStands
<1>4. JobRows' /\ (dev'.tool = "telegram" => dev' = dev)
  BY Kinds DEF Inv, TypeInv, JobRows
<1>5. TelegramStands' /\ TelegramIsWhole'
  <2>1. UNCHANGED dev \/ dev'.tool # "telegram"
    BY <1>4
  <2> QED
    BY <2>1, TelegramFrame
<1>6. \A i \in ReceiptIds : Recoverable(receipts[i], i) => Recoverable(receipts[i], i)'
  BY DEF Recoverable, Saved
<1>7. ReceiptsStand'
  BY <1>6 DEF Inv, ReceiptsStand, Saved, Recoverable
<1>8. WalletStands'
  <2>1. SUFFICES ASSUME dev'.tool = "wallet"
                 PROVE  WalletStands'
    BY DEF WalletStands
  <2>2. /\ dev.tool = "wallet" /\ dev'.id = dev.id /\ dev'.way = dev.way
        /\ dev'.step = dev.step /\ Saved(dev'.mem, dev.mem) /\ dev.id \in ReceiptIds
    BY <2>1, Kinds DEF WalletJobs
  <2>3. receipts'[dev.id].phase = receipts[dev.id].phase /\ Saved(receipts'[dev.id], receipts[dev.id])
    BY <2>2
  <2>4. dev.way = "forward" => ForwardStands'
    BY <2>2, <2>3 DEF Inv, WalletStands, ForwardStands, Saved
  <2>5. dev.way = "backward" => BackwardStands'
    BY <2>2, <2>3 DEF Inv, WalletStands, BackwardStands, Saved
  <2>6. dev'.mem.verified => Recoverable(dev.mem, dev.id)'
    BY <2>2 DEF Inv, WalletStands, Recoverable, Saved
  <2> QED
    BY <2>2, <2>4, <2>5, <2>6 DEF WalletStands
<1>9. StaysOpened /\ MovesAsProven
  BY DEF StaysOpened, Opened, MovesAsProven
<1>10. DeployRows' /\ TelegramRow'
  BY <1>1, Frames
<1> QED
  BY <1>2, <1>3, <1>4, <1>5, <1>7, <1>8, <1>9, <1>10 DEF Inv, TypeInv, Step

\* What becomes of the dumps in the directory is the same for all that name one.
LEMMA DumpsChange ==
  ASSUME Inv, NEW f \in [Dumps -> Dumps],
         \A u \in Dumps : f[u].head = u.head /\ f[u].rows = u.rows /\ Restored(f[u]) = Restored(u),
         UNCHANGED <<main, base, written, app, env, active, op, copies>>,
         UNCHANGED <<deployVars, telegramVars>>,
         proof' = [r \in Releases |-> [proof[r] EXCEPT !.dump = f[proof[r].dump]]],
         receipts' = [i \in ReceiptIds |-> [receipts[i] EXCEPT !.dump = f[receipts[i].dump]]],
         dev' = IF dev.tool = "wallet" THEN [dev EXCEPT !.mem.dump = f[dev.mem.dump]] ELSE dev
  PROVE  Step
<1>1. /\ proof \in [Releases -> ProofRows] /\ receipts \in [ReceiptIds -> ReceiptRows]
      /\ dev.tool = "wallet" => dev \in WalletJobs
  BY Kinds DEF Inv, TypeInv, ContractRows, WalletRows, JobRows
<1>2. ASSUME NEW r \in Releases
      PROVE  /\ proof'[r] \in ProofRows /\ proof'[r].source = proof[r].source
             /\ proof'[r].dump.head = proof[r].dump.head
  <2>1. proof[r].dump \in Dumps
    BY <1>1 DEF ProofRows
  <2>2. \A u \in Dumps : LET e == [proof[r] EXCEPT !.dump = u] IN
          e \in ProofRows /\ e.source = proof[r].source /\ e.dump = u
    BY <1>1 DEF ProofRows
  <2> QED
    BY <2>1, <2>2
<1>3. ASSUME NEW i \in ReceiptIds
      PROVE  /\ receipts'[i] \in ReceiptRows /\ receipts'[i].phase = receipts[i].phase
             /\ Saved(receipts'[i], receipts[i])
  <2>1. receipts[i] \in ReceiptRows /\ receipts[i].dump \in Dumps
    BY <1>1 DEF ReceiptRows
  <2> QED
    BY <2>1, RedumpedRow
<1>4. ASSUME dev.tool = "wallet"
      PROVE  /\ dev' \in WalletJobs /\ dev'.id = dev.id /\ dev'.way = dev.way
             /\ dev'.step = dev.step /\ Saved(dev'.mem, dev.mem)
  <2>1. dev \in WalletJobs /\ dev.mem \in ReceiptRows /\ dev.mem.dump \in Dumps
    BY <1>1, <1>4 DEF WalletJobs, ReceiptRows
  <2>2. PICK u \in Dumps : u = f[dev.mem.dump]
    BY <2>1
  <2>3. dev' = [dev EXCEPT !.mem.dump = u]
    BY <1>4, <2>2
  <2>4. Saved([dev.mem EXCEPT !.dump = u], dev.mem)
    <3>1. u.head = dev.mem.dump.head /\ u.rows = dev.mem.dump.rows /\ Restored(u) = Restored(dev.mem.dump)
      BY <2>1, <2>2
    <3> QED
      BY <2>1, <3>1, RedumpedRow, Zenon
  <2>5. PICK e : e = [dev EXCEPT !.mem.dump = u]
    OBVIOUS
  <2>6. /\ e \in WalletJobs /\ e.id = dev.id /\ e.way = dev.way /\ e.step = dev.step
        /\ e.mem = [dev.mem EXCEPT !.dump = u]
    BY <2>1, <2>5, RedumpedJob, Zenon
  <2> QED
    BY <2>3, <2>4, <2>5, <2>6, Zenon
<1>5. proof' \in [Releases -> ProofRows] /\ receipts' \in [ReceiptIds -> ReceiptRows]
  BY <1>2, <1>3
<1> QED
  BY <1>2, <1>3, <1>4, <1>5, DumpsFrame

LEMMA DumpSteps ==
  ASSUME Inv, WeekPasses \/ BackUp
  PROVE  Step
<1>1. /\ \A r \in Releases : proof[r].dump \in Dumps
      /\ \A i \in ReceiptIds : receipts[i].dump \in Dumps
      /\ dev.tool = "wallet" => dev.mem.dump \in Dumps
  BY Kinds DEF Inv, TypeInv, ContractRows, WalletRows, JobRows, ProofRows, WalletJobs, ReceiptRows
<1>2. CASE WeekPasses
  <2>1. PICK f : f = [u \in Dumps |-> Aged(u)]
    OBVIOUS
  <2>2. f \in [Dumps -> Dumps] /\ \A u \in Dumps : f[u] = Aged(u)
    BY <2>1, DumpRow
  <2>3. /\ proof' = [r \in Releases |-> [proof[r] EXCEPT !.dump = f[proof[r].dump]]]
        /\ receipts' = [i \in ReceiptIds |-> [receipts[i] EXCEPT !.dump = f[receipts[i].dump]]]
        /\ dev' = IF dev.tool = "wallet" THEN [dev EXCEPT !.mem.dump = f[dev.mem.dump]] ELSE dev
    <3>1. proof' = [r \in Releases |-> [proof[r] EXCEPT !.dump = f[proof[r].dump]]]
      BY <1>1, <1>2, <2>2 DEF WeekPasses
    <3>2. receipts' = [i \in ReceiptIds |-> [receipts[i] EXCEPT !.dump = f[receipts[i].dump]]]
      BY <1>1, <1>2, <2>2 DEF WeekPasses, DumpsAre
    <3>3. dev' = IF dev.tool = "wallet" THEN [dev EXCEPT !.mem.dump = f[dev.mem.dump]] ELSE dev
      BY <1>1, <1>2, <2>2 DEF WeekPasses, DumpsAre
    <3> QED
      BY <3>1, <3>2, <3>3
  <2>4. \A u \in Dumps : f[u].head = u.head /\ f[u].rows = u.rows /\ Restored(f[u]) = Restored(u)
    BY <2>2, DumpRow
  <2>5. /\ UNCHANGED <<main, base, written, app, env, active, op, copies>>
        /\ UNCHANGED <<deployVars, telegramVars>>
    BY <1>2 DEF WeekPasses
  <2> QED
    BY <2>2, <2>3, <2>4, <2>5, DumpsChange, Zenon
<1>3. CASE BackUp
  <2>1. PICK f : f = [u \in Dumps |-> Pruned(u)]
    OBVIOUS
  <2>2. f \in [Dumps -> Dumps] /\ \A u \in Dumps : f[u] = Pruned(u)
    BY <2>1, DumpRow
  <2>3. /\ proof' = [r \in Releases |-> [proof[r] EXCEPT !.dump = f[proof[r].dump]]]
        /\ receipts' = [i \in ReceiptIds |-> [receipts[i] EXCEPT !.dump = f[receipts[i].dump]]]
        /\ dev' = IF dev.tool = "wallet" THEN [dev EXCEPT !.mem.dump = f[dev.mem.dump]] ELSE dev
    <3>1. proof' = [r \in Releases |-> [proof[r] EXCEPT !.dump = f[proof[r].dump]]]
      BY <1>1, <1>3, <2>2 DEF BackUp
    <3>2. receipts' = [i \in ReceiptIds |-> [receipts[i] EXCEPT !.dump = f[receipts[i].dump]]]
      BY <1>1, <1>3, <2>2 DEF BackUp, DumpsAre
    <3>3. dev' = IF dev.tool = "wallet" THEN [dev EXCEPT !.mem.dump = f[dev.mem.dump]] ELSE dev
      BY <1>1, <1>3, <2>2 DEF BackUp, DumpsAre
    <3> QED
      BY <3>1, <3>2, <3>3
  <2>4. \A u \in Dumps : f[u].head = u.head /\ f[u].rows = u.rows /\ Restored(f[u]) = Restored(u)
    BY <2>2, DumpRow
  <2>5. /\ UNCHANGED <<main, base, written, app, env, active, op, copies>>
        /\ UNCHANGED <<deployVars, telegramVars>>
    BY <1>3 DEF BackUp
  <2> QED
    BY <2>2, <2>3, <2>4, <2>5, DumpsChange, Zenon
<1> QED
  BY <1>2, <1>3

-----------------------------------------------------------------------------
(* wallet_cutover.py.                                                       *)

LEMMA WalletJobRow ==
  ASSUME NEW d \in WalletJobs
  PROVE  /\ \A r \in ReceiptRows : LET e == [d EXCEPT !.step = @ + 1, !.mem = r] IN
              /\ e \in WalletJobs /\ e.id = d.id /\ e.way = d.way /\ e.step = d.step + 1 /\ e.mem = r
         /\ LET e == [d EXCEPT !.step = @ + 1] IN
              /\ e \in WalletJobs /\ e.id = d.id /\ e.way = d.way /\ e.step = d.step + 1
              /\ e.mem = d.mem
         /\ LET e == [d EXCEPT !.way = "backward", !.step = 1] IN
              e \in WalletJobs /\ e.id = d.id /\ e.way = "backward" /\ e.step = 1 /\ e.mem = d.mem
         /\ \A t \in BOOLEAN : LET e == [d EXCEPT !.step = 11, !.retried = t] IN
              e \in WalletJobs /\ e.id = d.id /\ e.way = d.way /\ e.step = 11 /\ e.mem = d.mem
<1>1. d.step + 1 \in Nat
  BY DEF WalletJobs
<1>2. \A n \in Nat : LET e == [d EXCEPT !.step = n] IN
        e \in WalletJobs /\ e.id = d.id /\ e.way = d.way /\ e.step = n /\ e.mem = d.mem
  BY DEF WalletJobs
<1>3. \A n \in Nat : \A r \in ReceiptRows : LET e == [d EXCEPT !.step = n, !.mem = r] IN
        e \in WalletJobs /\ e.id = d.id /\ e.way = d.way /\ e.step = n /\ e.mem = r
  BY DEF WalletJobs
<1>4. LET e == [d EXCEPT !.way = "backward", !.step = 1] IN
        e \in WalletJobs /\ e.id = d.id /\ e.way = "backward" /\ e.step = 1 /\ e.mem = d.mem
  BY DEF WalletJobs
<1>5. \A n \in Nat, t \in BOOLEAN : LET e == [d EXCEPT !.step = n, !.retried = t] IN
        e \in WalletJobs /\ e.id = d.id /\ e.way = d.way /\ e.step = n /\ e.mem = d.mem
  BY DEF WalletJobs
<1> QED
  BY <1>1, <1>2, <1>3, <1>4, <1>5

LEMMA JobRow ==
  ASSUME NEW i \in ReceiptIds, NEW r \in ReceiptRows, NEW way \in {"forward", "backward"},
         NEW k \in Nat
  PROVE  /\ Job(i, r, way, k) \in WalletJobs /\ Job(i, r, way, k).id = i
         /\ Job(i, r, way, k).way = way /\ Job(i, r, way, k).step = k /\ Job(i, r, way, k).mem = r
BY DEF Job, WalletJobs

LEMMA Wallets ==
  ASSUME Inv
  PROVE  /\ HostRows /\ base \in Databases /\ app \in [Services -> Containers]
         /\ receipts \in [ReceiptIds -> ReceiptRows] /\ copies \in [ReceiptIds -> Copies]
         /\ ReceiptsStand /\ WalletStands
         /\ dev.tool = "wallet" =>
              /\ dev \in WalletJobs /\ dev.id \in ReceiptIds /\ dev.mem \in ReceiptRows
              /\ dev.way \in {"forward", "backward"} /\ dev.mem.dir \in Nat
              /\ dev.mem.target \in Places /\ dev.mem.before \in Places
              /\ dev.mem.dump \in Dumps
              /\ dev.mem.verified => Recoverable(dev.mem, dev.id)
              /\ dev.way = "forward" => ForwardStands
              /\ dev.way = "backward" => BackwardStands
<1>1. dev.tool = "wallet" => dev \in WalletJobs
  BY Kinds DEF Inv, TypeInv, JobRows
<1>2. dev \in WalletJobs => /\ dev.id \in ReceiptIds /\ dev.mem \in ReceiptRows
                            /\ dev.way \in {"forward", "backward"}
  BY DEF WalletJobs
<1>3. dev.mem \in ReceiptRows => /\ dev.mem.dir \in Nat /\ dev.mem.target \in Places
                                 /\ dev.mem.before \in Places /\ dev.mem.dump \in Dumps
  BY DEF ReceiptRows
<1> QED
  BY <1>1, <1>2, <1>3 DEF Inv, TypeInv, HostRows, WalletRows, WalletStands

LEMMA JobAdvances ==
  ASSUME Inv, dev.tool = "wallet", dev' = [dev EXCEPT !.step = @ + 1]
  PROVE  /\ dev' \in WalletJobs /\ dev'.id = dev.id /\ dev'.way = dev.way
         /\ dev'.step = dev.step + 1 /\ dev'.mem = dev.mem
<1>1. dev \in WalletJobs
  BY Wallets
<1> QED
  BY <1>1, WalletJobRow

LEMMA JobChanges ==
  ASSUME Inv, dev.tool = "wallet", NEW r \in ReceiptRows,
         dev' = [dev EXCEPT !.step = @ + 1, !.mem = r]
  PROVE  /\ dev' \in WalletJobs /\ dev'.id = dev.id /\ dev'.way = dev.way
         /\ dev'.step = dev.step + 1 /\ dev'.mem = r
<1>1. dev \in WalletJobs
  BY Wallets
<1> QED
  BY <1>1, WalletJobRow

\* Which way and at which index a step runs.
LEMMA WalletAt ==
  ASSUME Inv, NEW step, Running(step)
  PROVE  /\ dev.tool = "wallet"
         /\ \/ /\ dev.way = "forward"
               /\ \/ step = "stop" /\ dev.step = 1
                  \/ step = "backup" /\ dev.step = 2
                  \/ step = "freeze" /\ dev.step = 3
                  \/ step = "restore" /\ dev.step = 4
                  \/ step = "migrating" /\ dev.step = 5
                  \/ step = "migrate" /\ dev.step = 6
                  \/ step = "snapshot" /\ dev.step = 7
                  \/ step = "maintain" /\ dev.step = 8
                  \/ step = "check" /\ dev.step = 9
                  \/ step = "writers_enabled" /\ dev.step = 10
                  \/ step = "start" /\ dev.step = 11
                  \/ step = "verify" /\ dev.step = 12
                  \/ step = "ready" /\ dev.step = 13
            \/ /\ dev.way = "backward"
               /\ \/ step = "rolling_back" /\ dev.step = 1
                  \/ step = "stop" /\ dev.step = 2
                  \/ step = "swap" /\ dev.step = 3
                  \/ step = "start_old" /\ dev.step = 4
                  \/ step = "verify_old" /\ dev.step = 5
                  \/ step = "rolled_back" /\ dev.step = 6
<1>1. dev.tool = "wallet" /\ Script(dev.way)[dev.step] = step
  BY DEF Running
<1>2. CASE dev.way = "forward"
  <2>1. dev.step \in 1 .. 13
    BY <1>1, <1>2, Wallets DEF ForwardStands
  <2>2. Forward[dev.step] = step
    BY <1>1, <1>2 DEF Script
  <2>3. \/ dev.step = 1 \/ dev.step = 2 \/ dev.step = 3 \/ dev.step = 4 \/ dev.step = 5
        \/ dev.step = 6 \/ dev.step = 7 \/ dev.step = 8 \/ dev.step = 9 \/ dev.step = 10
        \/ dev.step = 11 \/ dev.step = 12 \/ dev.step = 13
    BY <2>1
  <2> QED
    BY <1>1, <1>2, <2>2, <2>3, ForwardScript
<1>3. CASE dev.way = "backward"
  <2>1. dev.step \in 1 .. 6
    BY <1>1, <1>3, Wallets DEF BackwardStands
  <2>2. Backward[dev.step] = step
    BY <1>1, <1>3 DEF Script
  <2>3. \/ dev.step = 1 \/ dev.step = 2 \/ dev.step = 3 \/ dev.step = 4 \/ dev.step = 5
        \/ dev.step = 6
    BY <2>1
  <2> QED
    BY <1>1, <1>3, <2>2, <2>3, BackwardScript
<1> QED
  BY <1>1, <1>2, <1>3, Wallets

\* What is left to prove of a step of this tool.
LEMMA WalletFrame ==
  ASSUME Inv, UNCHANGED <<main, written, env>>,
         UNCHANGED <<contractVars, deployVars, telegramVars>>,
         base' \in Databases, app' \in [Services -> Containers], SettingsKept \/ UNCHANGED app,
         dev' \in WalletJobs \cup {Free, dev}, dev'.tool # "telegram",
         WalletRows', ReceiptsStand', WalletStands', MovesAsProven, StaysOpened
  PROVE  Step
<1>1. UNCHANGED <<proof, active, op, previous, asked, telegram>>
  BY DEF contractVars, deployVars, telegramVars
<1>2. HostRows' /\ JobRows'
  BY DEF Inv, TypeInv, HostRows, JobRows
<1>3. TelegramStands' /\ TelegramIsWhole'
  BY TelegramFrame
<1> QED
  BY <1>1, <1>2, <1>3, Frames DEF Inv, TypeInv, Step

\* The job ends, or goes on or back, and nothing is saved.
LEMMA WalletTurns ==
  ASSUME Inv, dev.tool = "wallet", UNCHANGED <<main, base, written, env, receipts, copies>>,
         UNCHANGED <<contractVars, deployVars, telegramVars>>,
         app' \in [Services -> Containers], SettingsKept \/ UNCHANGED app,
         \/ dev' = dev \/ dev' = Free
         \/ /\ dev' \in WalletJobs /\ dev'.id = dev.id /\ dev'.mem = dev.mem
            /\ dev'.way = "forward" => ForwardStands'
            /\ dev'.way = "backward" => BackwardStands'
  PROVE  Step
<1>1. WalletStands'
  <2>1. CASE dev' = dev \/ dev' = Free
    BY <2>1, Frames, Kinds
  <2>2. CASE /\ dev' \in WalletJobs /\ dev'.id = dev.id /\ dev'.mem = dev.mem
             /\ dev'.way = "forward" => ForwardStands'
             /\ dev'.way = "backward" => BackwardStands'
    BY <2>2, Wallets DEF WalletStands, Recoverable
  <2> QED
    BY <2>1, <2>2
<1>2. dev' \in WalletJobs \cup {Free, dev} /\ dev'.tool # "telegram"
  BY Kinds
<1>3. MovesAsProven /\ StaysOpened /\ WalletRows' /\ ReceiptsStand'
  BY Frames
<1> QED
  BY <1>1, <1>2, <1>3, Wallets, WalletFrame

\* The next step relies on no more than this one did.
LEMMA WalletGoesOn ==
  ASSUME Inv, dev.tool = "wallet", UNCHANGED <<main, base, written, env, receipts, copies>>,
         UNCHANGED <<contractVars, deployVars, telegramVars>>,
         app' \in [Services -> Containers], SettingsKept \/ UNCHANGED app,
         dev' = [dev EXCEPT !.step = @ + 1],
         dev.way = "forward" => dev.step \in {1, 7, 8, 9, 11, 12},
         dev.way = "backward" => dev.step \in {2, 4, 5}
  PROVE  Step
<1>1. /\ dev' \in WalletJobs /\ dev'.id = dev.id /\ dev'.way = dev.way /\ dev'.step = dev.step + 1
      /\ dev'.mem = dev.mem
  BY JobAdvances
<1>2. ASSUME dev.way = "forward" PROVE ForwardStands'
  BY <1>1, <1>2, Wallets DEF ForwardStands, Saved
<1>3. ASSUME dev.way = "backward" PROVE BackwardStands'
  BY <1>1, <1>3, Wallets DEF BackwardStands, Saved
<1> QED
  BY <1>1, <1>2, <1>3, WalletTurns

\* A step that stops or starts containers, or only looks at them.
LEMMA WalletChecks ==
  ASSUME Inv, StopWriters \/ CheckLive \/ Verified,
         UNCHANGED <<contractVars, deployVars, telegramVars>>
  PROVE  Step
<1>1. /\ UNCHANGED <<main, base, written, env, receipts, copies>>
      /\ dev' = [dev EXCEPT !.step = @ + 1]
  BY DEF StopWriters, CheckLive, Verified, Continue, walletVars
<1>2. /\ dev.tool = "wallet"
      /\ dev.way = "forward" => dev.step \in {1, 7, 8, 9, 11, 12}
      /\ dev.way = "backward" => dev.step \in {2, 4, 5}
  <2>1. PICK step \in {"stop", "snapshot", "check", "verify", "verify_old"} : Running(step)
    BY DEF StopWriters, CheckLive, Verified
  <2> QED
    BY <2>1, WalletAt
<1>3. app' \in [Services -> Containers] /\ (SettingsKept \/ UNCHANGED app)
  <2>1. CASE StopWriters
    BY <2>1, Stops, Wallets DEF StopWriters
  <2>2. CASE CheckLive \/ Verified
    BY <2>2, Wallets DEF CheckLive, Verified
  <2> QED
    BY <2>1, <2>2
<1> QED
  BY <1>1, <1>2, <1>3, WalletGoesOn

LEMMA StartSomeStep ==
  ASSUME Inv, StartSome, UNCHANGED <<contractVars, deployVars, telegramVars>>
  PROVE  Step
<1>1. PICK step \in {"maintain", "start", "start_old"},
           r \in {dev.mem.target, dev.mem.before}, m \in BOOLEAN :
        Start(step, r, m) \/ StartPartly(step, r, m)
  BY DEF StartSome
<1>2. /\ dev.tool = "wallet"
      /\ dev.way = "forward" => dev.step \in {1, 7, 8, 9, 11, 12}
      /\ dev.way = "backward" => dev.step \in {2, 4, 5}
  BY <1>1, WalletAt DEF Start, StartPartly
<1>3. PICK S \in SUBSET Services : app' = Recreated(S, Container(r, dev.mem.dir, m, FALSE))
  BY <1>1 DEF Start, StartPartly
<1>4. app' \in [Services -> Containers] /\ SettingsKept
  <2>1. FALSE \in BOOLEAN /\ r \in Places /\ dev.mem.dir \in Nat
    BY <1>1, <1>2, Wallets
  <2> QED
    BY <1>3, <2>1, Wallets, Recreates
<1>5. /\ UNCHANGED <<main, base, written, env, receipts, copies>>
      /\ dev' = dev \/ dev' = [dev EXCEPT !.step = @ + 1]
  BY <1>1 DEF Start, StartPartly, Continue, walletVars
<1> QED
  BY <1>2, <1>4, <1>5, WalletGoesOn, WalletTurns

LEMMA WalletStopsStep ==
  ASSUME Inv, StepFails \/ Killed, UNCHANGED <<contractVars, deployVars, telegramVars>>
  PROVE  Step
<1>1. dev.tool = "wallet" /\ UNCHANGED <<main, base, written, env, app, receipts, copies>>
  BY DEF StepFails, Killed, walletVars
<1>2. /\ dev \in WalletJobs /\ dev.way \in {"forward", "backward"} /\ WritingOpens = 10
      /\ dev.way = "forward" => ForwardStands
  BY <1>1, Wallets, ForwardScript
<1>3. \/ dev' = Free
      \/ dev.way = "forward" /\ dev.step < 10 /\ dev' = [dev EXCEPT !.way = "backward", !.step = 1]
      \/ dev.way = "forward" /\ dev.step >= 10 /\ (Running("start") \/ Running("verify"))
         /\ dev' = [dev EXCEPT !.step = 11, !.retried = TRUE]
  BY <1>1, <1>2 DEF StepFails, Killed
<1>4. CASE dev.way = "forward" /\ dev.step < 10 /\ dev' = [dev EXCEPT !.way = "backward", !.step = 1]
  <2>1. dev' \in WalletJobs /\ dev'.id = dev.id /\ dev'.way = "backward" /\ dev'.step = 1 /\ dev'.mem = dev.mem
    BY <1>2, <1>4, WalletJobRow
  <2>2. BackwardStands'
    BY <1>1, <1>2, <1>4, <2>1 DEF ForwardStands, BackwardStands, Reversible
  <2> QED
    BY <1>1, <2>1, <2>2, Wallets, WalletTurns
<1>5. CASE dev.way = "forward" /\ dev.step >= 10 /\ (Running("start") \/ Running("verify"))
           /\ dev' = [dev EXCEPT !.step = 11, !.retried = TRUE]
  <2>1. PICK t \in BOOLEAN : dev' = [dev EXCEPT !.step = 11, !.retried = t]
    BY <1>5
  <2>2. dev' \in WalletJobs /\ dev'.id = dev.id /\ dev'.way = dev.way /\ dev'.step = 11 /\ dev'.mem = dev.mem
    BY <1>2, <2>1, WalletJobRow
  <2>3. dev.step \in {11, 12}
    BY <1>5, WalletAt
  <2>4. ForwardStands'
    BY <1>1, <1>2, <1>5, <2>2, <2>3 DEF ForwardStands
  <2> QED
    BY <1>1, <1>5, <2>2, <2>4, Wallets, WalletTurns
<1> QED
  BY <1>1, <1>3, <1>4, <1>5, Wallets, WalletTurns

LEMMA FreezeStep ==
  ASSUME Inv, Freeze, UNCHANGED <<contractVars, deployVars, telegramVars>>
  PROVE  Step
<1>1. UNCHANGED <<main, base, written, env, app, receipts, copies>>
  BY DEF Freeze, walletVars
<1>2. dev.tool = "wallet" /\ dev.way = "forward" /\ dev.step = 3
  BY WalletAt DEF Freeze
<1>3. PICK r : r = [dev.mem EXCEPT !.rows = base.rows, !.dump = Dump(base)]
  OBVIOUS
<1>4. /\ r \in ReceiptRows /\ r.rows = base.rows /\ r.dump.rows = base.rows
      /\ r.verified = dev.mem.verified
  <2>1. Dump(base) \in Dumps /\ Dump(base).rows = base.rows /\ base.rows \in Nat
    BY Wallets, DatabaseRow DEF Databases
  <2>2. dev.mem \in ReceiptRows
    BY <1>2, Wallets
  <2> QED
    BY <1>3, <2>1, <2>2 DEF ReceiptRows
<1>5. dev' = [dev EXCEPT !.step = @ + 1, !.mem = r]
  BY <1>3 DEF Freeze
<1>6. dev' \in WalletJobs /\ dev'.id = dev.id /\ dev'.way = dev.way /\ dev'.step = 4 /\ dev'.mem = r
  <2>1. /\ dev' \in WalletJobs /\ dev'.id = dev.id /\ dev'.way = dev.way
        /\ dev'.step = dev.step + 1 /\ dev'.mem = r
    BY <1>2, <1>4, <1>5, JobChanges, Zenon
  <2> QED
    BY <1>2, <2>1
<1>7. WalletStands'
  BY <1>1, <1>2, <1>4, <1>6, Wallets DEF WalletStands, ForwardStands
<1>8. MovesAsProven /\ StaysOpened /\ WalletRows' /\ ReceiptsStand' /\ dev'.tool # "telegram"
  BY <1>1, <1>6, Frames, Kinds
<1> QED
  BY <1>1, <1>6, <1>7, <1>8, Wallets, WalletFrame

LEMMA RestoreStep ==
  ASSUME Inv, RestoreAndRehearse, UNCHANGED <<contractVars, deployVars, telegramVars>>
  PROVE  Step
<1>1. UNCHANGED <<main, base, written, env, app, receipts>>
  BY DEF RestoreAndRehearse
<1>2. dev.tool = "wallet" /\ dev.way = "forward" /\ dev.step = 4
  BY WalletAt DEF RestoreAndRehearse
<1>3. PICK r : r = [dev.mem EXCEPT !.verified = TRUE]
  OBVIOUS
<1>4. r \in ReceiptRows /\ r.rows = dev.mem.rows /\ r.dump = dev.mem.dump /\ r.verified = TRUE
  <2>1. dev.mem \in ReceiptRows
    BY <1>2, Wallets
  <2> QED
    BY <1>3, <2>1 DEF ReceiptRows
<1>5. dev' = [dev EXCEPT !.step = @ + 1, !.mem = r]
  BY <1>3 DEF RestoreAndRehearse
<1>6. dev' \in WalletJobs /\ dev'.id = dev.id /\ dev'.way = dev.way /\ dev'.step = 5 /\ dev'.mem = r
  <2>1. /\ dev' \in WalletJobs /\ dev'.id = dev.id /\ dev'.way = dev.way
        /\ dev'.step = dev.step + 1 /\ dev'.mem = r
    BY <1>2, <1>4, <1>5, JobChanges, Zenon
  <2> QED
    BY <1>2, <2>1
<1>7. /\ copies' = [copies EXCEPT ![dev.id] = Restored(dev.mem.dump)]
      /\ Restored(dev.mem.dump).head = SchemaFrom /\ Restored(dev.mem.dump).rows = dev.mem.rows
  BY DEF RestoreAndRehearse, AfterRehearsal, Snapshot
<1>8. /\ dev.mem.dump.head = SchemaFrom /\ dev.mem.dump.rows = dev.mem.rows
      /\ Restored(dev.mem.dump) \in Copies
  BY <1>2, <1>7, Wallets, DumpRow DEF Copies
<1>9. /\ copies' \in [ReceiptIds -> Copies] /\ copies'[dev.id] = Restored(dev.mem.dump)
      /\ \A i \in ReceiptIds : i # dev.id => copies'[i] = copies[i]
  BY <1>2, <1>7, <1>8, Wallets
<1>10. WalletRows'
  BY <1>1, <1>9, Wallets DEF WalletRows
<1>11. ~receipts[dev.id].verified
  BY <1>2, Wallets DEF ForwardStands
<1>12. ReceiptsStand'
  BY <1>1, <1>9, <1>11, Wallets DEF ReceiptsStand, Recoverable
<1>13. Recoverable(dev.mem, dev.id)'
  BY <1>4, <1>6, <1>8, <1>9 DEF Recoverable
<1>14. ForwardStands'
  BY <1>1, <1>2, <1>4, <1>6, <1>9, <1>11, Wallets DEF ForwardStands
<1>15. WalletStands'
  BY <1>2, <1>6, <1>13, <1>14 DEF WalletStands
<1>16. MovesAsProven /\ StaysOpened /\ dev'.tool # "telegram"
  BY <1>1, <1>6, Frames, Kinds
<1> QED
  BY <1>1, <1>6, <1>10, <1>12, <1>15, <1>16, Wallets, WalletFrame

\* What a saved receipt says stands when the step it allows is taken.
LEMMA RecoveryStands ==
  ASSUME Inv, dev.tool = "wallet", Saved(receipts[dev.id], dev.mem), dev.mem.verified,
         copies[dev.id] = Restored(dev.mem.dump)
  PROVE  RecoveryOf(dev.id)
BY Wallets DEF RecoveryOf, Saved, Recoverable

LEMMA MigrateStep ==
  ASSUME Inv, Migrate, UNCHANGED <<contractVars, deployVars, telegramVars>>
  PROVE  Step
<1>1. /\ UNCHANGED <<main, written, env, app, receipts, copies>> /\ base' = Upgraded(base)
      /\ dev' = [dev EXCEPT !.step = @ + 1]
  BY DEF Migrate, Continue, walletVars
<1>2. dev.tool = "wallet" /\ dev.way = "forward" /\ dev.step = 6
  BY WalletAt DEF Migrate
<1>3. ForwardStands
  BY <1>2, Wallets
<1>4. /\ dev.mem.verified /\ copies[dev.id] = Restored(dev.mem.dump)
      /\ Saved(receipts[dev.id], dev.mem) /\ receipts[dev.id].phase = "migrating"
  BY <1>2, <1>3 DEF ForwardStands
<1>5. MovesAsProven
  BY <1>1, <1>2, <1>4, RecoveryStands DEF MovesAsProven, MigrationIsProven
<1>6. dev' \in WalletJobs /\ dev'.id = dev.id /\ dev'.way = dev.way /\ dev'.step = 7 /\ dev'.mem = dev.mem
  <2>1. /\ dev' \in WalletJobs /\ dev'.id = dev.id /\ dev'.way = dev.way
        /\ dev'.step = dev.step + 1 /\ dev'.mem = dev.mem
    BY <1>1, <1>2, JobAdvances, Zenon
  <2> QED
    BY <1>2, <2>1
<1>7. ForwardStands'
  BY <1>1, <1>2, <1>3, <1>6 DEF ForwardStands, Saved
<1>8. WalletStands'
  BY <1>1, <1>2, <1>6, <1>7, Wallets DEF WalletStands, Recoverable
<1>9. StaysOpened /\ WalletRows' /\ ReceiptsStand' /\ dev'.tool # "telegram" /\ base' \in Databases
  BY <1>1, <1>6, Frames, Kinds, Wallets, DatabaseRow
<1> QED
  BY <1>1, <1>5, <1>6, <1>8, <1>9, Wallets, WalletFrame

LEMMA SwapStep ==
  ASSUME Inv, Swap, UNCHANGED <<contractVars, deployVars, telegramVars>>
  PROVE  Step
<1>1. /\ UNCHANGED <<main, written, env, app, receipts>> /\ dev' = [dev EXCEPT !.step = @ + 1]
      /\ MaySwap
  BY DEF Swap, Continue
<1>2. dev.tool = "wallet" /\ dev.way = "backward" /\ dev.step = 3
  BY WalletAt DEF Swap
<1>3. /\ dev' \in WalletJobs /\ dev'.id = dev.id /\ dev'.way = dev.way /\ dev'.step = 4
      /\ dev'.mem = dev.mem
  <2>1. /\ dev' \in WalletJobs /\ dev'.id = dev.id /\ dev'.way = dev.way
        /\ dev'.step = dev.step + 1 /\ dev'.mem = dev.mem
    BY <1>1, <1>2, JobAdvances, Zenon
  <2> QED
    BY <1>2, <2>1
<1>4. Saved(receipts[dev.id], dev.mem) /\ receipts[dev.id].phase \in Reversible
  BY <1>2, Wallets DEF BackwardStands
<1>5. CASE base.head = SchemaFrom
  <2>1. UNCHANGED <<base, copies>>
    BY <1>2, <1>5, Wallets DEF Swap, Swapped
  <2>2. BackwardStands'
    BY <1>1, <1>3, <1>4 DEF BackwardStands, Saved
  <2> QED
    BY <1>1, <1>2, <1>3, <2>1, <2>2, Wallets, WalletTurns
<1>6. CASE base.head # SchemaFrom
  <2>1. /\ base' = copies[dev.id] /\ copies' = [copies EXCEPT ![dev.id] = NoCopy]
        /\ WritersAreStopped /\ dev.mem.verified /\ copies[dev.id].head = SchemaFrom
    BY <1>1, <1>6 DEF Swap, Swapped, MaySwap, Snapshot
  <2>2. base' \in Databases /\ copies[dev.id] = Restored(dev.mem.dump)
    BY <1>2, <2>1, Wallets, CopyRow DEF Recoverable
  <2>3. MovesAsProven
    <3>1. RecoveryOf(dev.id) /\ Restored(receipts[dev.id].dump) = Restored(dev.mem.dump)
      BY <1>2, <1>4, <2>1, <2>2, RecoveryStands DEF Saved
    <3> QED
      BY <1>2, <1>4, <2>1, <2>2, <3>1 DEF MovesAsProven, RollbackIsProven
  <2>4. /\ copies' \in [ReceiptIds -> Copies] /\ copies'[dev.id] = NoCopy
        /\ \A i \in ReceiptIds : i # dev.id => copies'[i] = copies[i]
    BY <1>2, <2>1, Wallets DEF Copies
  <2>5. WalletRows' /\ ReceiptsStand'
    BY <1>1, <2>4, Wallets DEF WalletRows, ReceiptsStand, Recoverable
  <2>6. WalletStands'
    BY <1>1, <1>2, <1>3, <1>4, <2>4, Wallets DEF WalletStands, BackwardStands, Saved, Recoverable
  <2>7. StaysOpened /\ dev'.tool # "telegram"
    BY <1>1, <1>3, Frames, Kinds
  <2> QED
    BY <1>1, <1>3, <2>2, <2>3, <2>5, <2>6, <2>7, Wallets, WalletFrame
<1> QED
  BY <1>5, <1>6

\* One receipt is saved.
LEMMA Saves ==
  ASSUME Inv, NEW i \in ReceiptIds, NEW r \in ReceiptRows, receipts' = [receipts EXCEPT ![i] = r],
         UNCHANGED <<main, base, written, env, app, copies>>,
         UNCHANGED <<contractVars, deployVars, telegramVars>>,
         r.phase \in {"none", "prepared"} => ~r.verified,
         r.verified => Recoverable(r, i),
         receipts[i].phase \in {"writers_enabled", "ready"} => r.phase = "ready",
         dev' \in WalletJobs \cup {Free, dev}, dev'.tool # "telegram", WalletStands'
  PROVE  Step
<1>1. /\ receipts' \in [ReceiptIds -> ReceiptRows] /\ receipts'[i] = r
      /\ \A j \in ReceiptIds : j # i => receipts'[j] = receipts[j]
  BY Wallets
<1>2. WalletRows'
  BY <1>1, Wallets DEF WalletRows
<1>3. ReceiptsStand'
  BY <1>1, Wallets DEF ReceiptsStand, Recoverable
<1>4. StaysOpened
  BY <1>1 DEF StaysOpened, Opened
<1>5. MovesAsProven
  BY Frames
<1> QED
  BY <1>2, <1>3, <1>4, <1>5, Wallets, WalletFrame

LEMMA PhaseRow ==
  ASSUME NEW m \in ReceiptRows, NEW p \in Phases
  PROVE  LET r == [m EXCEPT !.phase = p] IN
         /\ r \in ReceiptRows /\ r.phase = p /\ r.verified = m.verified /\ r.rows = m.rows
         /\ r.dump = m.dump
BY DEF ReceiptRows

LEMMA SaveStep ==
  ASSUME Inv, UNCHANGED <<contractVars, deployVars, telegramVars>>,
         NEW p \in {"backup", "migrating", "writers_enabled", "ready", "rolling_back", "rolled_back"},
         Save(p)
  PROVE  Step
<1>1. UNCHANGED <<main, base, written, env, app, copies>> /\ dev.tool = "wallet"
  BY DEF Save, Running
<1>2. \/ dev.way = "forward" /\ \/ p = "backup" /\ dev.step = 2
                                \/ p = "migrating" /\ dev.step = 5
                                \/ p = "writers_enabled" /\ dev.step = 10
                                \/ p = "ready" /\ dev.step = 13
      \/ dev.way = "backward" /\ \/ p = "rolling_back" /\ dev.step = 1
                                 \/ p = "rolled_back" /\ dev.step = 6
  <2>1. Running(p)
    BY DEF Save
  <2> QED
    BY <2>1, WalletAt
<1>3. PICK r : r = [dev.mem EXCEPT !.phase = p]
  OBVIOUS
<1>4. /\ r \in ReceiptRows /\ r.phase = p /\ r.verified = dev.mem.verified
      /\ r.rows = dev.mem.rows /\ r.dump = dev.mem.dump
  <2>1. dev.mem \in ReceiptRows
    BY <1>1, Wallets
  <2>2. p \in Phases
    BY DEF Phases
  <2> QED
    BY <1>3, <2>1, <2>2, PhaseRow
<1>5. receipts' = [receipts EXCEPT ![dev.id] = r] /\ receipts'[dev.id] = r
  BY <1>1, <1>3, Wallets DEF Save
<1>6. dev' = IF p \in {"ready", "rolled_back"} THEN Free ELSE [dev EXCEPT !.step = @ + 1, !.mem = r]
  <2>1. PICK next : next = [dev EXCEPT !.step = @ + 1, !.mem = r]
    OBVIOUS
  <2>2. dev' = IF dev.step = Len(Script(dev.way)) THEN Free ELSE next
    BY <1>3, <2>1 DEF Save
  <2>3. dev.step = Len(Script(dev.way)) <=> p \in {"ready", "rolled_back"}
    BY <1>2, ForwardScript, BackwardScript DEF Script
  <2> QED
    BY <2>1, <2>2, <2>3, Zenon
<1>7. /\ dev.way = "forward" => ForwardStands
      /\ dev.way = "backward" => BackwardStands
      /\ dev.mem.verified => Recoverable(dev.mem, dev.id)
  BY <1>1, Wallets
<1>8. WalletStands' /\ dev' \in WalletJobs \cup {Free, dev} /\ dev'.tool # "telegram"
  <2>1. CASE p \in {"ready", "rolled_back"}
    <3>1. dev' = Free
      BY <1>6, <2>1
    <3> QED
      BY <3>1, Kinds DEF WalletStands
  <2>2. CASE p \notin {"ready", "rolled_back"}
    <3>1. dev' = [dev EXCEPT !.step = @ + 1, !.mem = r]
      BY <1>6, <2>2, Zenon
    <3>2. /\ dev' \in WalletJobs /\ dev'.id = dev.id /\ dev'.way = dev.way
          /\ dev'.step = dev.step + 1 /\ dev'.mem = r
      BY <1>1, <1>4, <3>1, JobChanges, Zenon
    <3>3. dev.way = "forward" => ForwardStands'
      BY <1>1, <1>2, <1>4, <1>5, <1>7, <2>2, <3>2 DEF ForwardStands, Saved
    <3>4. dev.way = "backward" => BackwardStands'
      BY <1>1, <1>2, <1>4, <1>5, <1>7, <2>2, <3>2 DEF BackwardStands, Saved, Reversible
    <3>5. dev'.mem.verified => Recoverable(dev.mem, dev.id)'
      BY <1>1, <1>4, <1>7, <3>2 DEF Recoverable
    <3> QED
      BY <3>2, <3>3, <3>4, <3>5, Kinds DEF WalletStands
  <2> QED
    BY <2>1, <2>2
<1>9. receipts[dev.id].phase \in {"writers_enabled", "ready"} => r.phase = "ready"
  <2>1. p # "ready" => receipts[dev.id].phase \notin {"writers_enabled", "ready"}
    BY <1>2, <1>7 DEF ForwardStands, BackwardStands, Reversible
  <2> QED
    BY <1>4, <2>1
<1>10. /\ r.verified => Recoverable(r, dev.id) 
       /\ r.phase \in {"none", "prepared"} => ~r.verified
  BY <1>4, <1>7 DEF Recoverable
<1> QED
  BY <1>1, <1>4, <1>5, <1>8, <1>9, <1>10, Wallets, Saves

LEMMA PrepareStep ==
  ASSUME Inv, NEW i \in ReceiptIds, Prepare(i), UNCHANGED <<contractVars, deployVars, telegramVars>>
  PROVE  Step
<1>1. /\ UNCHANGED <<main, base, written, env, app, copies, dev>> /\ dev = Free
      /\ receipts[i].phase = "none"
  BY DEF Prepare
<1>2. WalletStands' /\ dev'.tool # "telegram"
  BY <1>1, Kinds DEF WalletStands
<1>3. CASE HeadOf[main] = SchemaTo
  <2>1. PICK r : r = [NoReceipt EXCEPT !.phase = "prepared", !.before = app["web"].release,
                                       !.target = main, !.dir = app["web"].dir,
                                       !.config = package[app["web"].dir]]
    OBVIOUS
  <2>2. receipts' = [receipts EXCEPT ![i] = r]
    BY <1>3, <2>1 DEF Prepare
  <2>3. main \in Places /\ app["web"].release \in Places /\ app["web"].dir \in Nat
    BY Deploys, ReleasePlaces
  <2>4. package[app["web"].dir] \in Nat
    <3>1. main \in Releases /\ package[app["web"].dir] = PackageOf[main]
      BY Deploys DEF Prepare, MayPrepare
    <3> QED
      BY <3>1, HostAssumption
  <2>5. NoReceipt \in ReceiptRows /\ NoReceipt.verified = FALSE
    BY ReleasePlaces DEF NoReceipt, NoDump, ReceiptRows, Dumps, Phases, None
  <2>6. r \in ReceiptRows /\ r.verified = FALSE /\ r.phase = "prepared"
    BY <2>1, <2>3, <2>4, <2>5 DEF ReceiptRows, Phases
  <2> QED
    BY <1>1, <1>2, <2>2, <2>6, Saves
<1>4. CASE HeadOf[main] # SchemaTo
  <2>1. UNCHANGED receipts
    BY <1>4 DEF Prepare
  <2>2. MovesAsProven /\ StaysOpened /\ WalletRows' /\ ReceiptsStand'
    BY <1>1, <2>1, Frames
  <2> QED
    BY <1>1, <1>2, <2>2, Wallets, WalletFrame
<1> QED
  BY <1>3, <1>4

LEMMA ApplyStep ==
  ASSUME Inv, NEW i \in ReceiptIds, Apply(i), UNCHANGED <<contractVars, deployVars, telegramVars>>
  PROVE  Step
<1>1. /\ UNCHANGED <<main, base, written, env, app, copies>> /\ receipts[i].phase = "prepared"
  BY DEF Apply
<1>2. PICK r : r = [receipts[i] EXCEPT !.phase = "stopping"]
  OBVIOUS
<1>3. receipts' = [receipts EXCEPT ![i] = r] /\ dev' = Job(i, r, "forward", 1)
  BY <1>2 DEF Apply
<1>4. ~receipts[i].verified
  BY <1>1, Wallets DEF ReceiptsStand
<1>5. r \in ReceiptRows /\ r.phase = "stopping" /\ ~r.verified
  <2>1. receipts[i] \in ReceiptRows /\ "stopping" \in Phases
    BY Wallets DEF Phases
  <2> QED
    BY <1>2, <1>4, <2>1, PhaseRow, Zenon
<1>6. /\ dev' \in WalletJobs /\ dev'.id = i /\ dev'.way = "forward" /\ dev'.step = 1 /\ dev'.mem = r
  BY <1>3, <1>5, JobRow
<1>7. receipts'[i] = r
  BY <1>3, Wallets
<1>8. WalletStands'
  BY <1>5, <1>6, <1>7 DEF WalletStands, ForwardStands
<1>9. dev'.tool # "telegram"
  BY <1>6, Kinds
<1> QED
  BY <1>1, <1>3, <1>5, <1>6, <1>8, <1>9, Saves

LEMMA RecoverStep ==
  ASSUME Inv, NEW i \in ReceiptIds, Recover(i), UNCHANGED <<contractVars, deployVars, telegramVars>>
  PROVE  Step
<1>1. UNCHANGED <<main, base, written, env, app, receipts, copies>>
  BY DEF Recover, walletVars
<1>2. receipts[i] \in ReceiptRows /\ (receipts[i].verified => Recoverable(receipts[i], i))
  BY Wallets DEF ReceiptsStand
<1>3. WalletStands' /\ dev' \in WalletJobs
  <2>1. CASE receipts[i].phase = "writers_enabled" /\ dev' = Job(i, receipts[i], "forward", WritingOpens + 1)
    <3>1. dev' = Job(i, receipts[i], "forward", 11)
      BY <2>1, ForwardScript
    <3>2. /\ dev' \in WalletJobs /\ dev'.id = i /\ dev'.way = "forward" /\ dev'.step = 11
          /\ dev'.mem = receipts[i]
      BY <1>2, <3>1, JobRow
    <3> QED
      BY <1>1, <1>2, <2>1, <3>2 DEF WalletStands, ForwardStands, Recoverable
  <2>2. CASE receipts[i].phase \in Reversible /\ dev' = Job(i, receipts[i], "backward", 2)
    <3>1. /\ dev' \in WalletJobs /\ dev'.id = i /\ dev'.way = "backward" /\ dev'.step = 2
          /\ dev'.mem = receipts[i]
      BY <1>2, <2>2, JobRow
    <3> QED
      BY <1>1, <1>2, <2>2, <3>1 DEF WalletStands, BackwardStands, Recoverable, Saved
  <2> QED
    BY <2>1, <2>2 DEF Recover
<1>4. MovesAsProven /\ StaysOpened /\ WalletRows' /\ ReceiptsStand' /\ dev'.tool # "telegram"
  BY <1>1, <1>3, Frames, Kinds
<1> QED
  BY <1>1, <1>3, <1>4, Wallets, WalletFrame

LEMMA WalletSteps ==
  ASSUME Inv, WalletStep
  PROVE  Step
<1>1. WalletNext /\ UNCHANGED <<contractVars, deployVars, telegramVars>>
  BY DEF WalletStep
<1>2. CASE \E i \in ReceiptIds : Prepare(i) \/ Apply(i) \/ Recover(i)
  BY <1>1, <1>2, PrepareStep, ApplyStep, RecoverStep
<1>3. CASE \E p \in {"backup", "migrating", "writers_enabled", "ready", "rolling_back",
                     "rolled_back"} : Save(p)
  BY <1>1, <1>3, SaveStep
<1>4. CASE StopWriters \/ CheckLive \/ Verified \/ StartSome \/ StepFails \/ Killed
  BY <1>1, <1>4, WalletChecks, StartSomeStep, WalletStopsStep
<1>5. CASE Freeze \/ RestoreAndRehearse \/ Migrate \/ Swap
  BY <1>1, <1>5, FreezeStep, RestoreStep, MigrateStep, SwapStep
<1> QED
  BY <1>1, <1>2, <1>3, <1>4, <1>5 DEF WalletNext

-----------------------------------------------------------------------------
(* The invariant, and what it says of the tools.                            *)

LEMMA InitHolds ==
  ASSUME Init
  PROVE  Inv
<1>1. HeadOf[1] \in 0 .. 1 /\ 1 \in Releases /\ None \in Places /\ 1 \in Places
  BY ReleasePlaces
<1>2. /\ dev = Free /\ op = NoOp /\ asked = {} /\ previous = None
      /\ main = 1 /\ base = [head |-> HeadOf[1], rows |-> 0, queue |-> TRUE]
      /\ written = 0 /\ env = "old" /\ telegram = NotPrepared
  BY DEF Init, HostInit, ContractInit, DeployInit, TelegramInit
<1>3. NoDump \in Dumps /\ NoCopy \in Copies /\ "none" \in Phases
  BY DEF NoDump, Dumps, Copies, Phases
<1>4. NoReceipt \in ReceiptRows /\ NoReceipt.verified = FALSE
  BY <1>1, <1>3 DEF NoReceipt, ReceiptRows, None
<1>5. WalletRows /\ ReceiptsStand
  BY <1>3, <1>4 DEF Init, WalletInit, WalletRows, ReceiptsStand
<1>6. proof \in [Releases -> ProofRows]
  BY <1>1, <1>3 DEF Init, ContractInit, NoProof, ProofRows
<1>7. /\ active \in ActiveRows /\ active.kind = "none"
      /\ active.status = "none" \/ active.current = 1
      /\ app \in [Services -> Containers]
  <2>1. CASE active = NoState /\ app = [s \in Services |-> Absent]
    <3>1. Absent \in Containers
      BY <1>1 DEF Absent, Containers, Settings, None
    <3>2. NoState \in ActiveRows /\ NoState.kind = "none" /\ NoState.status = "none"
      BY <1>1 DEF NoState, ActiveRows
    <3> QED
      BY <2>1, <3>1, <3>2
  <2>2. CASE /\ active = [status |-> "ready", kind |-> "none", current |-> 1, previous |-> None]
             /\ app = [s \in Services |-> [release |-> 1, dir |-> 1, maintenance |-> FALSE,
                                           tagged |-> TRUE, env |-> "old", up |-> TRUE]]
    <3>1. PICK c : c = [release |-> 1, dir |-> 1, maintenance |-> FALSE,
                        tagged |-> TRUE, env |-> "old", up |-> TRUE]
      OBVIOUS
    <3>2. c \in Containers
      BY <1>1, <3>1 DEF Containers, Settings
    <3>3. active \in ActiveRows /\ active.kind = "none" /\ active.current = 1
      BY <1>1, <2>2 DEF ActiveRows
    <3>4. app = [s \in Services |-> c]
      BY <2>2, <3>1
    <3> QED
      BY <3>2, <3>3, <3>4
  <2> QED
    BY <2>1, <2>2 DEF Init, ContractInit
<1>8. op \in OpRows /\ op.kind = "none" /\ op.step = "none"
  BY <1>1, <1>2, Kinds DEF NoOp, OpRows
<1>9. telegram.phase = "none" /\ TelegramRow
  BY <1>1, <1>2 DEF NotPrepared, TelegramRow, TelegramRows, None
<1>10. base \in Databases
  BY <1>1, <1>2 DEF Databases
<1>11. HostRows /\ JobRows /\ ContractRows /\ DeployRows
  BY <1>1, <1>2, <1>6, <1>7, <1>8, <1>10 DEF HostRows, JobRows, ContractRows, DeployRows, Settings
<1>12. CutoverStands
  BY <1>1, <1>7, <1>8 DEF CutoverStands
<1>13. WalletStands /\ TelegramStands /\ TelegramIsWhole
  BY <1>2, <1>9, Kinds DEF WalletStands, TelegramStands, TelegramIsWhole
<1> QED
  BY <1>5, <1>9, <1>11, <1>12, <1>13 DEF Inv, TypeInv

LEMMA StutterStep ==
  ASSUME Inv, UNCHANGED vars
  PROVE  Step
<1>1. /\ UNCHANGED <<main, base, written, app, env, dev, proof, active, op, previous, asked,
                     receipts, copies, telegram>>
      /\ UNCHANGED telegramVars
  BY DEF vars, hostVars, contractVars, deployVars, walletVars, telegramVars
<1>2. HostRows' /\ TelegramStands' /\ TelegramIsWhole'
  BY <1>1, TelegramFrame DEF Inv, TypeInv, HostRows
<1> QED
  BY <1>1, <1>2, Frames DEF Inv, TypeInv, Step

LEMMA NextStep ==
  ASSUME Inv, [Next]_vars
  PROVE  Step
BY ContractSteps, DeploySteps, WalletSteps, TelegramSteps, HostSteps, DumpSteps, StutterStep DEF Next

LEMMA Invariance == Spec => []Inv
<1>1. Init => Inv
  BY InitHolds
<1>2. Inv /\ [Next]_vars => Inv'
  BY NextStep DEF Step
<1> QED
  BY <1>1, <1>2, PTL DEF Spec

\* The rows of the host, the bundle state, the receipts and the processes keep
\* their forms under every tool, run side by side or killed anywhere.
THEOREM TypeCorrect == Spec => []TypeInv
<1>1. Inv => TypeInv
  BY DEF Inv
<1> QED
  BY <1>1, Invariance, PTL

\* Whatever tools run side by side or were killed half-way, the schema of the
\* live database is moved only once the way back is durable, and it is taken
\* back only to that proof, with no writer running, by a cutover whose receipt
\* never announced that writing opens.
THEOREM DatabaseMovesOnlyAsProven == Spec => DatabaseMovesAsProven
<1>1. Inv /\ [Next]_vars =>
        [base'.head # base.head =>
           \/ base' = Upgraded(base) /\ MigrationIsProven
           \/ base' = Restored(receipts[dev.id].dump) /\ RollbackIsProven]_vars
  BY NextStep DEF Step, MovesAsProven
<1> QED
  BY <1>1, Invariance, PTL DEF Spec, DatabaseMovesAsProven

\* A cutover that once announced writing is never taken for reversible again:
\* no recovery, retry or rollback moves its receipt back.
THEOREM OpeningIsFinal == Spec => [][Opened \subseteq Opened']_vars
<1>1. Inv /\ [Next]_vars => [Opened \subseteq Opened']_vars
  BY NextStep DEF Step, StaysOpened
<1> QED
  BY <1>1, Invariance, PTL DEF Spec

\* A finished activation of Telegram, or its restoration, never leaves a mixture
\* of old and new settings, route, webhook and containers, whatever the other
\* tools do to the containers meanwhile.
THEOREM TelegramNeverStaysMixed == Spec => []TelegramIsWhole
<1>1. Inv => TelegramIsWhole
  BY DEF Inv
<1> QED
  BY <1>1, Invariance, PTL

=============================================================================
