----------------------------- MODULE DevDeploy -----------------------------
(***************************************************************************)
(* The two deployments without a migration that hold dev-deploy.lock:      *)
(* ops/deploy_dev.py, run for a SHA of main by a workflow that is          *)
(* dispatched by hand, keeps the package; ops/deploy_compose_change.py     *)
(* replaces the Compose file of the active package in place. Both restore  *)
(* the previous image on an error, neither when the process is killed.     *)
(***************************************************************************)
EXTENDS ReleaseContract

VARIABLES
  asked,    \* deployments dispatched: the SHA and the package read before the lock
  previous, \* the release community-bot-dev:previous is tagged to
  saved     \* <<directory, target>> of the Compose copies kept for a rollback

deployVars == <<asked, previous, saved>>

DeployJob(step, target, before, dir, old) ==
  [tool |-> "deploy", step |-> step, target |-> target, before |-> before, dir |-> dir,
   old |-> old, live |-> base.head]

\* main() of deploy_dev reads active.json before it waits for the lock.
AskDeploy ==
  /\ active # NoState
  /\ asked' = asked \union {[sha |-> main, dir |-> active.current]}
  /\ UNCHANGED <<hostVars, contractVars, previous, saved>>

\* The SHA is still main and the Compose file stays: its image is built. It
\* then has to ship the live schema, and the running release to have its tag.
MayBuild(sha) ==
  LET before == app["web"].release IN
  sha = main /\ before # None /\ PackageOf[sha] = PackageOf[before]
MayDeploy(sha) ==
  LET before == app["web"].release IN
  HeadOf[sha] = HeadOf[before] /\ HeadOf[sha] = base.head /\ before \in images'

BeginDeploy ==
  \E a \in asked :
    /\ dev = Free
    /\ asked' = asked \ {a}
    /\ images' = IF MayBuild(a.sha) THEN images \union {a.sha} ELSE images
    /\ IF MayBuild(a.sha) /\ MayDeploy(a.sha)
       THEN /\ dev' = DeployJob("worker", a.sha, app["web"].release, a.dir, None)
            /\ previous' = app["web"].release
       ELSE UNCHANGED <<dev, previous>>
    /\ UNCHANGED <<main, base, written, app, package, env, contractVars, saved>>

\* prepare and deploy --apply: the Compose file of the running package. The
\* image is built before the head and the name of the running image are checked.
MayBuildChange(target) ==
  LET web == app["web"] IN
  web.release # None /\ HeadOf[target] = HeadOf[web.release] /\ <<web.dir, target>> \notin saved
MayChangeCompose(target) == HeadOf[target] = base.head /\ app["web"].tagged

BeginComposeChange ==
  /\ dev = Free
  /\ MayBuildChange(main)
  /\ images' = images \union {main}
  /\ IF MayChangeCompose(main)
     THEN /\ dev' = DeployJob("keep", main, app["web"].release, app["web"].dir,
                             package[app["web"].dir])
          /\ previous' = app["web"].release
     ELSE UNCHANGED <<dev, previous>>
  /\ UNCHANGED <<main, base, written, app, package, env, contractVars, asked, saved>>

InDeploy(step, next) ==
  dev.tool = "deploy" /\ dev.step = step /\ dev' = [dev EXCEPT !.step = next]

\* exclusive_backup, then durable_replace: an error here has no handler.
KeepCompose ==
  /\ InDeploy("keep", "replace")
  /\ saved' = saved \union {<<dev.dir, dev.target>>}
  /\ UNCHANGED <<main, base, written, app, package, images, env, contractVars, asked, previous>>
ReplaceCompose ==
  /\ InDeploy("replace", "worker")
  /\ package' = [package EXCEPT ![dev.dir] = PackageOf[dev.target]]
  /\ UNCHANGED <<main, base, written, app, images, env, contractVars, deployVars>>

DeployService(s, next) ==
  /\ InDeploy(s, next)
  /\ app' = Recreated({s}, Container(dev.target, dev.dir, FALSE, TRUE))
  /\ UNCHANGED <<main, base, written, package, images, env, contractVars, deployVars>>

\* prove waits for healthy containers of exactly this release; deploy_dev
\* looks at the web container alone.
Proved(r) == IF dev.old = None
             THEN app["web"].up /\ app["web"].release = r /\ HeadOf[r] = base.head
             ELSE Ready(r, FALSE)

DeploySucceeds ==
  /\ dev.tool = "deploy" /\ dev.step = "prove" /\ Proved(dev.target)
  /\ dev' = Free
  /\ UNCHANGED <<main, base, written, app, package, images, env, contractVars, deployVars>>

\* The handler of an error: the old package first, then the old image; after
\* a forward migration deploy_dev leaves the image alone.
DeployFails ==
  /\ dev.tool = "deploy" /\ dev.step \in {"worker", "web", "prove"}
  /\ package' = IF dev.old = None THEN package ELSE [package EXCEPT ![dev.dir] = dev.old]
  /\ dev' = IF dev.old = None /\ base.head # dev.live THEN Free ELSE [dev EXCEPT !.step = "undo"]
  /\ UNCHANGED <<main, base, written, app, images, env, contractVars, deployVars>>

\* One compose up recreates both services; an interrupted one some of them.
UndoDeploy ==
  /\ InDeploy("undo", "prove_old")
  /\ app' = Recreated(Services, Container(previous, dev.dir, FALSE, FALSE))
  /\ UNCHANGED <<main, base, written, package, images, env, contractVars, deployVars>>
UndoDeployPartly ==
  /\ dev.tool = "deploy" /\ dev.step = "undo"
  /\ \E s \in Services : app' = Recreated({s}, Container(previous, dev.dir, FALSE, FALSE))
  /\ UNCHANGED <<main, base, written, package, images, env, dev, contractVars, deployVars>>

\* The end of the handler, an error in it or before it, or a killed process.
DeployEnds ==
  /\ dev.tool = "deploy"
  /\ dev' = Free
  /\ UNCHANGED <<main, base, written, app, package, images, env, contractVars, deployVars>>

DeployNext ==
  \/ AskDeploy \/ BeginDeploy \/ BeginComposeChange
  \/ KeepCompose \/ ReplaceCompose
  \/ DeployService("worker", "web") \/ DeployService("web", "prove")
  \/ DeploySucceeds \/ DeployFails \/ UndoDeploy \/ UndoDeployPartly \/ DeployEnds

DeployInit == asked = {} /\ previous = None /\ saved = {}
=============================================================================
