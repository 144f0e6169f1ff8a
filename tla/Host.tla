-------------------------------- MODULE Host --------------------------------
(***************************************************************************)
(* The production host the operator scripts of ops/ work on: one database, *)
(* the worker and the web container, the directories of installed          *)
(* releases, the main branch, and the process that holds dev-deploy.lock.  *)
(* Compose, Docker, pg_dump and Alembic are modelled from how the scripts  *)
(* use them. Time is left out: what waits for a deadline may fail.          *)
(***************************************************************************)
EXTENDS Naturals, FiniteSets, Sequences

CONSTANTS
  LastRelease,  \* bound: releases 1 .. LastRelease, in the order of main
  HeadOf,       \* release -> the migration head its image ships, 0 or 1
  PackageOf,    \* release -> the content of its compose.production.yaml
  MaxWrites     \* bound: business writes

Releases == 1 .. LastRelease
Services == {"worker", "web"}
None == 0

ASSUME HostAssumption ==
  /\ LastRelease \in Nat \ {0} /\ MaxWrites \in Nat
  /\ HeadOf \in [Releases -> 0 .. 1] /\ PackageOf \in [Releases -> Nat \ {0}]
  /\ \A r, s \in Releases : r <= s => HeadOf[r] <= HeadOf[s]

VARIABLES
  main,     \* the release at the head of the main branch
  base,     \* the database the services use: head, business rows, old queue
  written,  \* how many business writes were ever acknowledged
  app,      \* service -> its container: release, directory, settings, up
  package,  \* release -> content of its installed directory, None if absent
  images,   \* releases whose image is tagged community-bot:<sha> on the host
  env,      \* which Telegram settings shared/.env holds, "old" or "new"
  dev       \* the process under dev-deploy.lock

hostVars == <<main, base, written, app, package, images, env, dev>>

Free == [tool |-> "none"]

\* One service container as docker inspect and the labels of Compose show it.
\* tagged: started as community-bot:<sha>, not by its digest or as :previous.
Absent == [release |-> None, dir |-> None, maintenance |-> FALSE, tagged |-> FALSE,
           env |-> "old", up |-> FALSE]
Container(r, d, m, tagged) ==
  [release |-> r, dir |-> d, maintenance |-> m, tagged |-> tagged, env |-> env, up |-> TRUE]

\* docker compose up -d --no-deps --force-recreate, docker compose stop.
Recreated(S, container) == [s \in Services |-> IF s \in S THEN container ELSE app[s]]
Stopped(S) == [s \in Services |-> [app[s] EXCEPT !.up = @ /\ s \notin S]]

\* Both containers run against the schema their image was built for.
Healthy == \A s \in Services : app[s].up /\ HeadOf[app[s].release] = base.head
\* /readyz and the labels: exactly the runtime r, in the mode m.
Ready(r, m) ==
  Healthy /\ \A s \in Services : app[s].release = r /\ app[s].maintenance = m

\* A process with RELEASE_MAINTENANCE answers 503 and only beats its heart.
Serving == {s \in Services : app[s].up /\ ~app[s].maintenance}

\* alembic upgrade in one transaction; a migration retires legacy queued
\* events, which no downgrade brings back.
Upgraded(d) == [d EXCEPT !.head = 1, !.queue = FALSE]
Downgraded(d) == [d EXCEPT !.head = 0]

NoDump == [head |-> 0, rows |-> 0, queue |-> FALSE, kept |-> FALSE, aged |-> FALSE]
\* pg_dump: one snapshot, made durable before it gets its final name.
Dump(d) == [head |-> d.head, rows |-> d.rows, queue |-> d.queue, kept |-> TRUE, aged |-> FALSE]
\* pg_restore of a dump into an empty database.
Restored(dump) == [head |-> dump.head, rows |-> dump.rows, queue |-> dump.queue]
\* prune_old_backups: every *.dump of the directory older than seven days.
Pruned(dump) == IF dump.aged THEN [dump EXCEPT !.kept = FALSE] ELSE dump
Aged(dump) == [dump EXCEPT !.aged = @ \/ dump.kept]

HostInit ==
  /\ main = 1
  /\ base = [head |-> HeadOf[1], rows |-> 0, queue |-> TRUE]
  /\ written = 0
  /\ env = "old"
  /\ dev = Free

\* A member's command or a deadline of the worker is committed.
Write ==
  /\ Serving # {} /\ written < MaxWrites
  /\ base' = [base EXCEPT !.rows = @ + 1]
  /\ written' = written + 1
  /\ UNCHANGED <<main, app, package, images, env, dev>>

\* A pull request is merged.
Merge ==
  /\ main < LastRelease
  /\ main' = main + 1
  /\ UNCHANGED <<base, written, app, package, images, env, dev>>

HostNext == Write \/ Merge
=============================================================================
