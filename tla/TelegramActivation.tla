------------------------- MODULE TelegramActivation -------------------------
(***************************************************************************)
(* ops/telegram_activation.py: new Telegram settings in shared/.env, the   *)
(* webhook route of nginx and the webhook of the bot change together on an *)
(* unchanged runtime, under dev-deploy.lock. An error restores all three; a *)
(* killed process leaves the receipt activating, and recover restores. The  *)
(* host modelled had no webhook and no secret before.                       *)
(***************************************************************************)
EXTENDS Host

VARIABLES
  telegram,  \* the phase of the prepared receipt and what it measured
  site,      \* which nginx file is installed, "old" or "new"
  route,     \* which nginx file is loaded
  webhook,   \* "new" once Telegram sends updates with the new secret, else "old"
  staged     \* the files, "env" and "site", whose .telegram-stage exists

telegramVars == <<telegram, site, route, webhook, staged>>

NotPrepared == [phase |-> "none", release |-> None, dir |-> None, config |-> None]

\* The head the tool is written for.
ExpectedHead == 0

\* validate: the exact runtime, package, environment and schema.
Unchanged(t) ==
  /\ env = "old" /\ webhook = "old" /\ base.head = ExpectedHead
  /\ package[t.dir] = t.config
  /\ \A s \in Services : app[s].release = t.release /\ app[s].dir = t.dir

PrepareTelegram ==
  /\ dev = Free
  /\ telegram.phase = "none"
  /\ app["web"].release # None /\ Ready(app["web"].release, FALSE)
  /\ app["worker"].dir = app["web"].dir /\ base.head = ExpectedHead
  /\ telegram' = [phase |-> "prepared", release |-> app["web"].release, dir |-> app["web"].dir,
                  config |-> package[app["web"].dir]]
  /\ UNCHANGED <<hostVars, site, route, webhook, staged>>

\* Mutant: the containers are left as they are.
RestorationWithoutRestart ==
  <<"stage_env", "env", "verify", "stage_site", "site", "reload", "webhook", "save">>

\* What apply does, and what restore does after an error or a kill; edge is the
\* three steps up to the reload.
Activation ==
  <<"stage_env", "env", "up", "verify", "stage_site", "site", "reload", "webhook", "save">>
Restoration ==
  <<"stage_env", "env", "up", "verify", "stage_site", "site", "reload", "webhook", "save">>

\* The process: the settings it brings, and its next step.
TelegramJob(aim) == [tool |-> "telegram", aim |-> aim, step |-> 1]
Doing(step) ==
  dev.tool = "telegram" /\ (IF dev.aim = "new" THEN Activation ELSE Restoration)[dev.step] = step
InTelegram(step) == Doing(step) /\ dev' = [dev EXCEPT !.step = @ + 1]

ApplyTelegram ==
  /\ dev = Free
  /\ telegram.phase = "prepared" /\ Unchanged(telegram)
  /\ telegram' = [telegram EXCEPT !.phase = "activating"]
  /\ dev' = TelegramJob("new")
  /\ UNCHANGED <<main, base, written, app, package, images, env, site, route, webhook, staged>>

\* replace_file, for .env and for the nginx file: the stage must not exist, and
\* only a rename removes it.
StageFile(step, file) ==
  /\ InTelegram(step)
  /\ file \notin staged
  /\ staged' = staged \union {file}
  /\ UNCHANGED <<main, base, written, app, package, images, env, telegram, site, route, webhook>>

ReplaceEnv ==
  /\ InTelegram("env")
  /\ staged' = staged \ {"env"} /\ env' = dev.aim
  /\ UNCHANGED <<main, base, written, app, package, images, telegram, site, route, webhook>>

\* compose up recreates both services; an interrupted one only some of them.
RestartedBy == Container(telegram.release, telegram.dir, FALSE, FALSE)
RecreateApp ==
  /\ InTelegram("up")
  /\ app' = Recreated(Services, RestartedBy)
  /\ UNCHANGED <<main, base, written, package, images, env, telegramVars>>
RecreateAppPartly ==
  /\ Doing("up")
  /\ \E s \in Services : app' = Recreated({s}, RestartedBy)
  /\ UNCHANGED <<main, base, written, package, images, env, dev, telegramVars>>

VerifyApp ==
  /\ InTelegram("verify")
  /\ Ready(telegram.release, FALSE)
  /\ UNCHANGED <<main, base, written, app, package, images, env, telegramVars>>

ReplaceSite ==
  /\ InTelegram("site")
  /\ staged' = staged \ {"site"} /\ site' = dev.aim
  /\ UNCHANGED <<main, base, written, app, package, images, env, telegram, route, webhook>>

\* nginx -t and -s reload: the installed file is loaded.
ReloadEdge ==
  /\ InTelegram("reload")
  /\ route' = site
  /\ UNCHANGED <<main, base, written, app, package, images, env, telegram, site, webhook, staged>>

\* The running web container sets the webhook with its own secret, of which a
\* container with the old settings has none, or removes it again. Commands and
\* ingress are verified afterwards, which may fail.
MaySetWebhook(v) == v = "new" => app["web"].env = "new"
SetWebhook ==
  /\ InTelegram("webhook")
  /\ MaySetWebhook(dev.aim)
  /\ webhook' = dev.aim
  /\ UNCHANGED <<main, base, written, app, package, images, env, telegram, site, route, staged>>

WebhookUnverified ==
  /\ Doing("webhook") /\ dev.aim = "new"
  /\ MaySetWebhook("new")
  /\ webhook' = "new"
  /\ dev' = TelegramJob("old")
  /\ UNCHANGED <<main, base, written, app, package, images, env, telegram, site, route, staged>>

SaveTelegram ==
  /\ Doing("save")
  /\ telegram' = [telegram EXCEPT !.phase = IF dev.aim = "new" THEN "ready" ELSE "rolled_back"]
  /\ dev' = Free
  /\ UNCHANGED <<main, base, written, app, package, images, env, site, route, webhook, staged>>

\* An error of the activation restores; an error of the restoration, or of the
\* last save, ends the process.
TelegramFails ==
  /\ dev.tool = "telegram"
  /\ dev' = IF dev.aim = "new" /\ ~Doing("save") THEN TelegramJob("old") ELSE Free
  /\ UNCHANGED <<main, base, written, app, package, images, env, telegramVars>>

TelegramKilled ==
  /\ dev.tool = "telegram"
  /\ dev' = Free
  /\ UNCHANGED <<main, base, written, app, package, images, env, telegramVars>>

RecoverTelegram ==
  /\ dev = Free
  /\ telegram.phase = "activating"
  /\ dev' = TelegramJob("old")
  /\ UNCHANGED <<main, base, written, app, package, images, env, telegramVars>>

TelegramNext ==
  \/ PrepareTelegram \/ ApplyTelegram \/ RecoverTelegram
  \/ StageFile("stage_env", "env") \/ ReplaceEnv
  \/ RecreateApp \/ RecreateAppPartly \/ VerifyApp
  \/ StageFile("stage_site", "site") \/ ReplaceSite \/ ReloadEdge
  \/ SetWebhook \/ WebhookUnverified \/ SaveTelegram
  \/ TelegramFails \/ TelegramKilled

TelegramInit ==
  /\ telegram = NotPrepared
  /\ site = "old" /\ route = "old" /\ webhook = "old" /\ staged = {}
=============================================================================
