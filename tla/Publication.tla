---------------------------- MODULE Publication ----------------------------
(***************************************************************************)
(* From the draft of a task to the published task (application/tasks.py,   *)
(* db/tasks.py): the form of the Mini App, the step by step form of the    *)
(* bot, the request and the confirmation of a community task, publication  *)
(* with its reserve, and the edit of a task nobody has taken.              *)
(*                                                                         *)
(* The identity gate of a creator serializes his own commands, the command *)
(* gate of a draft its publication, the catalog gate the templates.  Every *)
(* handler but publish therefore reads and writes in one action.  publish  *)
(* judges the draft and the actor it read first, waits for the gates and   *)
(* for the rows, and judges again: it is two.  The Mini App reaches the    *)
(* free form only; the operations of the bot form, of templates and of the *)
(* confirmation are called by tests.                                       *)
(***************************************************************************)
EXTENDS Catalog, FiniteSetsExt

CONSTANTS
  Drafts,      \* bound: 1..n, drafts in the order they are created
  Creators,    \* bound: members who draft
  Sizes,       \* bound: time sizes used
  Rewards,     \* bound: rewards offered
  MaxSlots,    \* bound: performers of a task
  Forms,       \* bound: forms the Mini App sends
  Wallet       \* credits of every creator

Kinds == {"solo", "group"}
TimeSizes == {"xs", "s", "m", "l", "xl"}

ASSUME PublicationAssumption ==
  /\ IsFiniteSet(Drafts) /\ Drafts \subseteq Nat \ {0}
  /\ Creators \subseteq Members
  /\ Sizes \subseteq TimeSizes /\ Rewards \subseteq Nat \ {0}
  /\ MaxSlots \in Nat \ {0} /\ Wallet \in Nat
  /\ Nothing \notin Categories \cup Kinds \cup TimeSizes \cup Nat
  /\ Forms \subseteq [kind : Kinds, category : Categories, size : TimeSizes,
                     reward : Nat \ {0}, slots : Nat \ {0}]

VARIABLES
  draft,     \* draft -> its row
  task,      \* draft -> the task published from it
  reserve,   \* reserve rows of the ledger: [key, draft, amount]
  screen,    \* member -> the preview he was shown last: [draft, rev, terms]
  sending    \* member -> his publish command that waits for gates and rows

publicationVars == <<draft, task, reserve, screen, sending>>

\* Answers the model does not tell apart: given or not.
PlainSteps == {"title", "description", "criteria", "materials", "deadline", "format"}
TemplateInputs == {"input", "deadline", "format", "materials"}

NoDraft == [owner |-> Nobody, template |-> 0, origin |-> "member", step |-> "absent",
            rev |-> 0, current |-> FALSE, kind |-> Nothing, category |-> Nothing,
            size |-> Nothing, reward |-> 0, slots |-> 0, given |-> {}, late |-> FALSE,
            reviewer |-> Nobody, requested |-> FALSE]

NoTask == [origin |-> Nothing, terms |-> Nothing, agreed |-> Nothing, taken |-> Nothing,
           by |-> Nobody, rev |-> 0]
Idle == [draft |-> 0, rev |-> 0, terms |-> Nothing, web |-> FALSE]
Blank == [draft |-> 0, rev |-> 0, terms |-> Nothing]

PublicationInit ==
  /\ draft = [d \in Drafts |-> NoDraft]
  /\ task = [d \in Drafts |-> NoTask]
  /\ reserve = {}
  /\ screen = [m \in Members |-> Blank]
  /\ sending = [m \in Members |-> Idle]

-----------------------------------------------------------------------------
(* What a form may say (domain/tasks.py). *)

RewardOptions == [xs |-> 1 .. 2, s |-> 2 .. 4, m |-> 4 .. 7, l |-> 6 .. 10]

\* validate_freeform_reward; the community pays at most 10.
FitsSize(size, reward) == IF size = "xl" THEN reward > 10 ELSE reward \in RewardOptions[size]
CommunityMaxReward == 10

\* validate_freeform_slots
FitsKind(kind, slots) == IF kind = "solo" THEN slots = 1 ELSE slots > 1

HasCompleteFreeformValues(d) ==
  /\ d.template = 0
  /\ Nothing \notin {d.kind, d.category, d.size}
  /\ d.reward # 0 /\ d.slots # 0
  /\ d.given = PlainSteps

HasCompleteTemplateValues(d) ==
  /\ d.template # 0
  /\ d.given = TemplateInputs
  /\ d.slots # 0

OriginOf(category) == IF category = "community" THEN "community" ELSE "member"

\* _validate_freeform_publishable, after the category was read for actor m.
FreeformPublishable(m, d) ==
  /\ HasCompleteFreeformValues(d)
  /\ ~d.late
  /\ MayFile(m, d.category)
  /\ OriginOf(d.category) = d.origin
  /\ FitsKind(d.kind, d.slots) /\ FitsSize(d.size, d.reward)
  /\ d.origin = "community" => d.reward <= CommunityMaxReward

\* template_for_creation and _validate_publishable
TemplatePublishable(d) ==
  /\ HasCompleteTemplateValues(d)
  /\ ~d.late
  /\ Publishable(d.template)
  /\ d.slots <= versions[d.template].maximum

Validated(m, d) == IF d.template = 0 THEN FreeformPublishable(m, d) ELSE TemplatePublishable(d)

\* What a preview shows and a task promises.
Terms(d) == [kind |-> d.kind, category |-> d.category, size |-> d.size, slots |-> d.slots,
             reward |-> IF d.template = 0 THEN d.reward ELSE versions[d.template].reward]

Promised(terms) == terms.reward * terms.slots
ReserveOf(d) == IF d.origin = "community" THEN 0 ELSE Promised(Terms(d))
HeldFor(d) == MapThenSumSet(LAMBDA r : r.amount, {r \in reserve : r.draft = d})
Affordable(m, amount) ==
  MapThenSumSet(LAMBDA r : r.amount, {r \in reserve : draft[r.draft].owner = m}) + amount <= Wallet

-----------------------------------------------------------------------------
(* Rows and who may touch them. *)

DraftExists(d) == draft[d].step \notin {"absent", "deleted"}

\* The row is stored, and no publication has closed it.
Unfinished(d) == DraftExists(d) /\ draft[d].step # "published"

\* Under the identity gate of m: no publication of his is on its way.
MayDraft(m) == m \in Creators /\ IsActive(m) /\ sending[m] = Idle

MayChange(m, d) == MayDraft(m) /\ Unfinished(d) /\ draft[d].owner = m

\* get_current_task_draft: a unique index allows one per creator.
CurrentOf(m) == {d \in Drafts : Unfinished(d) /\ draft[d].owner = m /\ draft[d].current}

SaveDraft(d, row) == draft' = [draft EXCEPT ![d] = [row EXCEPT !.rev = draft[d].rev + 1]]

Unselected(m) == [d \in Drafts |-> IF draft[d].owner = m
                                   THEN [draft[d] EXCEPT !.current = FALSE] ELSE draft[d]]

\* create_task_draft
Created(m, d, template, origin) ==
  [Unselected(m) EXCEPT ![d] = [NoDraft EXCEPT
     !.owner = m, !.template = template, !.origin = origin, !.current = TRUE,
     !.step = IF template = 0 THEN "kind" ELSE "input"]]

NextDraft(d) == draft[d].step = "absent" /\ \A e \in Drafts : e < d => draft[e].step # "absent"

-----------------------------------------------------------------------------
(* The form of the Mini App. *)

\* start: the free-form draft at hand is resumed, else one is created; its
\* format is saved at once, which does not count as a revision.
StartWeb(m) ==
  /\ Spend("web")
  /\ MayDraft(m)
  /\ \A d \in CurrentOf(m) : draft[d].template # 0
  /\ \E d \in Drafts : /\ NextDraft(d)
                       /\ draft' = [Created(m, d, 0, "member") EXCEPT ![d].given = {"format"}]
  /\ UNCHANGED <<task, reserve, screen, sending, flow, account, catalogVars>>

\* start_new puts the shown draft aside, which stays what it was.
StartAnew(m) ==
  /\ Spend("web")
  /\ screen[m].draft # 0
  /\ LET old == screen[m].draft IN
       /\ MayChange(m, old)
       /\ draft[old].template = 0
       /\ draft[old].current /\ draft[old].rev = screen[m].rev
  /\ \E d \in Drafts : /\ NextDraft(d)
                       /\ draft' = [Created(m, d, 0, "member") EXCEPT ![d].given = {"format"}]
  /\ UNCHANGED <<task, reserve, screen, sending, flow, account, catalogVars>>

Filled(d, form) ==
  [draft[d] EXCEPT !.kind = form.kind, !.category = form.category, !.size = form.size,
     !.reward = form.reward, !.slots = form.slots, !.given = PlainSteps, !.late = FALSE,
     !.origin = OriginOf(form.category), !.reviewer = Nobody, !.requested = FALSE,
     !.step = "preview"]

\* _category_for_actor and _categories_for_actor
MayChoose(m, category) ==
  /\ MayFile(m, category)
  /\ category = "community" => Holds(m, "community_task_create")

\* save_web takes the whole form, from any step, at one exact revision.  It
\* does not ask whether the draft was published: a form kept open in a second
\* client reopens it, beside its task.
SaveWeb(m, d, form) ==
  /\ Spend("web")
  /\ MayDraft(m) /\ DraftExists(d) /\ draft[d].owner = m
  /\ draft[d].template = 0
  /\ MayChoose(m, form.category)
  /\ FreeformPublishable(m, Filled(d, form))
  /\ SaveDraft(d, Filled(d, form))
  /\ UNCHANGED <<task, reserve, screen, sending, flow, account, catalogVars>>

Shown(d) == [draft |-> d, rev |-> draft[d].rev, terms |-> Terms(draft[d])]

\* web_state and preview
LookAtDraft(m, d) ==
  /\ draft[d].step = "preview"
  /\ draft[d].owner = m /\ IsActive(m)
  /\ screen' = [screen EXCEPT ![m] = Shown(d)]
  /\ UNCHANGED <<draft, task, reserve, sending, flow, left, account, catalogVars>>

\* pending_community_publications
LookAtRequest(a, d) ==
  /\ draft[d].step = "preview"
  /\ IsActive(a) /\ IsSuperadministrator(a)
  /\ draft[d].origin = "community" /\ draft[d].requested
  /\ screen' = [screen EXCEPT ![a] = Shown(d)]
  /\ UNCHANGED <<draft, task, reserve, sending, flow, left, account, catalogVars>>

-----------------------------------------------------------------------------
(* The form of the bot, one question after the other. *)

FollowingStep == [title |-> "description", description |-> "criteria",
                  criteria |-> "materials", materials |-> "deadline",
                  deadline |-> "format", format |-> "preview"]
FollowingInput == [input |-> "deadline", deadline |-> "format", format |-> "materials",
                   materials |-> "slots"]

FreeformAnswers(m, d) ==
  CASE d.step = "kind" -> Kinds
    [] d.step = "category" -> {c \in Categories : MayFile(m, c)}
    [] d.step = "size" -> Sizes
    [] d.step = "slots" -> {n \in 1 .. MaxSlots : FitsKind(d.kind, n)}
    [] d.step = "reward" -> {r \in Rewards : FitsSize(d.size, r)}
    [] d.step \in PlainSteps -> {"given"}
    [] OTHER -> {}

\* Mutant: an edited size returns to the preview like any other answer.
AfterSizeAtOnce(d) == IF HasCompleteFreeformValues(d) THEN "preview"
                      ELSE IF d.kind = "group" THEN "slots" ELSE "reward"

\* Another size asks for its reward, even when one is given.
AfterSize(d) == IF ~HasCompleteFreeformValues(d) /\ d.kind = "group" THEN "slots" ELSE "reward"

\* _advance_freeform_draft: a draft that was complete returns to its preview,
\* except where the answer leaves another one open.
AdvancedFreeform(d, value) ==
  LET onward(step) == IF HasCompleteFreeformValues(d) THEN "preview" ELSE step IN
  CASE d.step = "kind" ->
         [d EXCEPT !.kind = value,
                   !.slots = IF value = "solo" THEN 1 ELSE IF @ < 2 THEN 2 ELSE @,
                   !.step = IF HasCompleteFreeformValues(d) /\ d.kind = "solo" /\ value = "group"
                            THEN "slots" ELSE onward("category")]
    [] d.step = "category" -> [d EXCEPT !.category = value, !.step = onward("size")]
    [] d.step = "size" ->
         [d EXCEPT !.size = value,
                   !.reward = IF HasCompleteFreeformValues(d) THEN @ ELSE 0,
                   !.step = AfterSize(d)]
    [] d.step = "slots" -> [d EXCEPT !.slots = value, !.step = onward("reward")]
    [] d.step = "reward" -> [d EXCEPT !.reward = value, !.step = onward("title")]
    [] OTHER -> [d EXCEPT !.given = @ \cup {d.step}, !.step = onward(FollowingStep[d.step]),
                          !.late = @ /\ d.step # "deadline"]

\* _advance_draft: the slots are entered once and confirmed by the preview.
AdvancedTemplate(d, value) ==
  LET onward(step) == IF HasCompleteTemplateValues(d) THEN "preview" ELSE step IN
  IF d.step = "slots"
  THEN IF value = Nothing THEN [d EXCEPT !.step = "preview"]
       ELSE [d EXCEPT !.slots = value, !.step = onward("slots")]
  ELSE [d EXCEPT !.given = @ \cup {d.step}, !.step = onward(FollowingInput[d.step]),
                 !.late = @ /\ d.step # "deadline"]

TemplateAnswers(d) ==
  IF d.step = "slots"
  THEN 1 .. versions[d.template].maximum \cup (IF d.slots = 0 THEN {} ELSE {Nothing})
  ELSE IF d.step \in TemplateInputs THEN {"given"} ELSE {}

\* Every command of the bot ends by claiming the conversation.
Claims(m, d) ==
  /\ MayClaim(m, "task")
  /\ flow' = Claimed(m, "task", draft'[d].step, d, draft'[d].rev)

StartBot(m) ==
  /\ Spend("bot")
  /\ MayDraft(m)
  /\ IF CurrentOf(m) # {}
     THEN draft' = draft /\ \A d \in CurrentOf(m) : Claims(m, d)
     ELSE \E d \in Drafts : /\ NextDraft(d)
                            /\ draft' = Created(m, d, 0, "member")
                            /\ Claims(m, d)
  /\ UNCHANGED <<task, reserve, screen, sending, account, catalogVars>>

StartFromTemplate(m, origin) ==
  /\ Spend("bot")
  /\ MayDraft(m)
  /\ Publishable(Len(versions))
  /\ origin = "community" => Holds(m, "community_task_create")
  /\ \E d \in Drafts : /\ NextDraft(d)
                       /\ draft' = Created(m, d, Len(versions), origin)
                       /\ Claims(m, d)
  /\ UNCHANGED <<task, reserve, screen, sending, account, catalogVars>>

Advance(m, d) ==
  /\ Spend("answer")
  /\ MayChange(m, d)
  /\ \/ /\ draft[d].template = 0
        /\ \E v \in FreeformAnswers(m, draft[d]) : SaveDraft(d, AdvancedFreeform(draft[d], v))
     \/ /\ draft[d].template # 0
        /\ \E v \in TemplateAnswers(draft[d]) : SaveDraft(d, AdvancedTemplate(draft[d], v))
  /\ Claims(m, d)
  /\ UNCHANGED <<task, reserve, screen, sending, account, catalogVars>>

EditableSteps(d) ==
  IF d.template # 0 THEN TemplateInputs \cup {"slots"}
  ELSE {"kind", "category", "size", "reward"} \cup PlainSteps
       \cup (IF d.kind = "group" THEN {"slots"} ELSE {})

\* edit_draft_step: a request for approval stays.
EditDraftStep(m, d, step) ==
  /\ Spend("bot")
  /\ MayChange(m, d)
  /\ draft[d].step = "preview"
  /\ step \in EditableSteps(draft[d])
  /\ SaveDraft(d, [draft[d] EXCEPT !.step = step])
  /\ Claims(m, d)
  /\ UNCHANGED <<task, reserve, screen, sending, account, catalogVars>>

AdjustDraftSlots(m, d, delta) ==
  /\ Spend("bot")
  /\ MayChange(m, d)
  /\ draft[d].step = "slots" /\ draft[d].template = 0 /\ draft[d].kind = "group"
  /\ draft[d].slots + delta <= MaxSlots
  /\ SaveDraft(d, [draft[d] EXCEPT !.slots = IF @ + delta < 2 THEN 2 ELSE @ + delta])
  /\ Claims(m, d)
  /\ UNCHANGED <<task, reserve, screen, sending, account, catalogVars>>

SelectCommunityReviewer(m, r) ==
  /\ Spend("bot")
  /\ MayDraft(m)
  /\ m \in ActiveAdministrators /\ r \in ActiveAdministrators \ {m}
  /\ \E d \in CurrentOf(m) :
       /\ draft[d].origin = "community"
       /\ SaveDraft(d, [draft[d] EXCEPT !.reviewer = r])
       /\ Claims(m, d)
  /\ UNCHANGED <<task, reserve, screen, sending, account, catalogVars>>

Resume(m, d) ==
  /\ Spend("bot")
  /\ MayChange(m, d)
  /\ draft' = [Unselected(m) EXCEPT ![d].current = TRUE]
  /\ Claims(m, d)
  /\ UNCHANGED <<task, reserve, screen, sending, account, catalogVars>>

CancelDraft(m, d) ==
  /\ Spend("bot")
  /\ MayChange(m, d)
  /\ draft' = [draft EXCEPT ![d] = [NoDraft EXCEPT !.step = "deleted", !.owner = m]]
  /\ flow' = Cleared(m, "task", d)
  /\ UNCHANGED <<task, reserve, screen, sending, account, catalogVars>>

-----------------------------------------------------------------------------
(* Publication. *)

\* publish up to its gates: the draft and the actor as first read.
PublishBegins(m, web) ==
  LET d == screen[m].draft IN
  /\ Spend("publish")
  /\ d # 0
  /\ MayDraft(m) /\ draft[d].owner = m
  /\ web => draft[d].template = 0
  /\ draft[d].origin = "community" => Holds(m, "community_task_create")
  /\ IF draft[d].template = 0 THEN FreeformPublishable(m, draft[d])
     ELSE draft[d].slots # 0 /\ (draft[d].origin = "community" => draft[d].reviewer # Nobody)
  /\ sending' = [sending EXCEPT ![m] = [draft |-> d, rev |-> screen[m].rev,
                                        terms |-> screen[m].terms, web |-> web]]
  /\ UNCHANGED <<draft, task, reserve, screen, flow, account, catalogVars>>

\* Mutant: the right judged before the gates is judged again as a role only.
LockedRoles(m, d) ==
  /\ IsActive(m)
  /\ draft[d].origin = "member" => Affordable(m, ReserveOf(draft[d]))
  /\ draft[d].origin = "community" => m \in ActiveAdministrators

\* The rows of creator and reviewer, locked and judged again; a member's
\* credits are locked by the batch that will reserve them.
LockedRights(m, d) ==
  /\ IsActive(m)
  /\ CASE draft[d].origin = "member" -> Affordable(m, ReserveOf(draft[d]))
       [] draft[d].origin # "member" /\ draft[d].template # 0 ->
            /\ m \in ActiveAdministrators
            /\ draft[d].reviewer \in ActiveAdministrators \ {m}
       [] OTHER -> Holds(m, "community_task_create")

\* Mutant: any preview of the draft will do.
AtPreview(d, rev) == draft[d].step = "preview"

\* _expect: this step and this very revision.
AtRevision(d, rev) == draft[d].step = "preview" /\ draft[d].rev = rev

Pending(m, d) ==
  draft[d].origin = "community" /\ draft[d].requested /\ ~IsSuperadministrator(m)

MayPublish(m, d, rev) ==
  /\ task[d] = NoTask
  /\ LockedRights(m, d)
  /\ ~Pending(m, d)
  /\ AtRevision(d, rev)
  /\ Validated(m, draft[d])

NeedsApproval(m, d) ==
  draft[d].origin = "community" /\ draft[d].template # 0 /\ ~IsSuperadministrator(m)

\* The ledger writes one row per key; the key belongs to the draft.
ReserveKey(m, d) == <<"publish", d>>

WithReserve(key, d, amount) ==
  IF amount = 0 \/ \E r \in reserve : r.key = key THEN reserve
  ELSE reserve \cup {[key |-> key, draft |-> d, amount |-> amount]}

\* insert_published_task; agreed remembers what was shown to the one who
\* published.
TaskOf(d, by, shown) ==
  [NoTask EXCEPT !.origin = draft[d].origin, !.terms = Terms(draft[d]),
                 !.agreed = shown, !.by = by]

\* _publish_locked_draft
Publishes(by, d, shown) ==
  /\ task' = [task EXCEPT ![d] = TaskOf(d, by, shown)]
  /\ SaveDraft(d, [draft[d] EXCEPT !.step = "published", !.current = FALSE])

RequestApproval(m) ==
  LET d == sending[m].draft IN
  /\ sending[m] # Idle
  /\ MayPublish(m, d, sending[m].rev) /\ NeedsApproval(m, d)
  /\ SaveDraft(d, [draft[d] EXCEPT !.requested = TRUE])
  /\ Claims(m, d)
  /\ sending' = [sending EXCEPT ![m] = Idle]
  /\ UNCHANGED <<task, reserve, screen, left, account, catalogVars>>

Publish(m) ==
  LET d == sending[m].draft IN
  /\ sending[m] # Idle
  /\ MayPublish(m, d, sending[m].rev) /\ ~NeedsApproval(m, d)
  /\ Publishes(m, d, sending[m].terms)
  /\ reserve' = WithReserve(ReserveKey(m, d), d, ReserveOf(draft[d]))
  /\ flow' = IF sending[m].web THEN flow ELSE Cleared(m, "task", d)
  /\ sending' = [sending EXCEPT ![m] = Idle]
  /\ UNCHANGED <<screen, left, account, catalogVars>>

\* A repeated command finds the task, and its draft as the publication left it:
\* the batch is applied again and the ledger knows its key.
PublishRepeats(m) ==
  LET d == sending[m].draft IN
  /\ sending[m] # Idle
  /\ task[d] # NoTask /\ draft[d].step = "published"
  /\ IF draft[d].origin = "community" THEN draft[d].rev > sending[m].rev
     ELSE draft[d].rev = sending[m].rev + 1
  /\ LockedRights(m, d)
  /\ reserve' = WithReserve(ReserveKey(m, d), d, ReserveOf(draft[d]))
  /\ sending' = [sending EXCEPT ![m] = Idle]
  /\ UNCHANGED <<draft, task, screen, flow, left, account, catalogVars>>

\* Refused, told that the request is pending, or that a draft which was saved
\* again is no longer the one of its task.
PublishEndsUnchanged(m) ==
  LET d == sending[m].draft IN
  /\ sending[m] # Idle
  /\ ~MayPublish(m, d, sending[m].rev) \/ (NeedsApproval(m, d) /\ ~MayClaim(m, "task"))
  /\ sending' = [sending EXCEPT ![m] = Idle]
  /\ UNCHANGED <<draft, task, reserve, screen, flow, left, account, catalogVars>>

\* confirm_community_publication holds the gates of the approver and of the
\* draft, not the one of the creator.
ConfirmCommunityPublication(a) ==
  LET d == screen[a].draft IN
  /\ Spend("publish")
  /\ d # 0
  /\ IsActive(a) /\ IsSuperadministrator(a)
  /\ draft[d].origin = "community" /\ draft[d].template # 0
  /\ task[d] = NoTask
  /\ AtRevision(d, screen[a].rev)
  /\ draft[d].requested
  /\ draft[d].owner \in ActiveAdministrators
  /\ draft[d].reviewer \in ActiveAdministrators \ {draft[d].owner}
  /\ TemplatePublishable(draft[d])
  /\ Publishes(a, d, screen[a].terms)
  /\ flow' = Cleared(draft[d].owner, "task", d)
  /\ UNCHANGED <<reserve, screen, sending, account, catalogVars>>

-----------------------------------------------------------------------------
(* The published task, until somebody takes it. *)

\* AssignmentService.accept, as far as the edit sees it.
TaskIsTaken(d) ==
  /\ task[d] # NoTask /\ task[d].taken = Nothing
  /\ task' = [task EXCEPT ![d].taken = task[d].terms]
  /\ UNCHANGED <<draft, reserve, screen, sending, flow, left, account, catalogVars>>

\* AssignmentService.cancel: a cancelled assignment leaves the task editable.
TaskIsFreed(d) ==
  /\ task[d].taken # Nothing
  /\ task' = [task EXCEPT ![d].taken = Nothing]
  /\ UNCHANGED <<draft, reserve, screen, sending, flow, left, account, catalogVars>>

\* _require_editable_member_task
Editable(m, d) ==
  /\ task[d] # NoTask /\ task[d].taken = Nothing
  /\ draft[d].owner = m /\ task[d].origin = "member" /\ draft[d].template = 0

\* save_published_task
Edited(d, terms) == [task EXCEPT ![d].terms = terms, ![d].agreed = terms, ![d].rev = @ + 1]

\* edit_published: the reserve follows by one row of its own.  The command
\* names the updated_at it was shown, which any edit replaces.
EditPublished(m, d, form) ==
  LET terms == Terms(Filled(d, form))
      change == Promised(terms) - Promised(task[d].terms) IN
  /\ Spend("web")
  /\ MayDraft(m)
  /\ Editable(m, d)
  /\ FreeformPublishable(m, [Filled(d, form) EXCEPT !.origin = "member"])
  /\ Affordable(m, change)
  /\ task' = Edited(d, terms)
  /\ reserve' = WithReserve(<<"edit", d, task[d].rev>>, d, change)
  /\ UNCHANGED <<draft, screen, sending, flow, account, catalogVars>>

\* Time passes the deadline a draft names.
DeadlinePasses(d) ==
  /\ Spend("clock")
  /\ Unfinished(d) /\ "deadline" \in draft[d].given
  /\ draft' = [draft EXCEPT ![d].late = TRUE]
  /\ UNCHANGED <<task, reserve, screen, sending, flow, account, catalogVars>>

PublicationNext ==
  \/ \E m \in Creators :
       \/ StartWeb(m) \/ StartAnew(m) \/ StartBot(m)
       \/ \E web \in BOOLEAN : PublishBegins(m, web)
       \/ RequestApproval(m) \/ Publish(m) \/ PublishRepeats(m) \/ PublishEndsUnchanged(m)
       \/ \E origin \in {"member", "community"} : StartFromTemplate(m, origin)
       \/ \E r \in Members : SelectCommunityReviewer(m, r)
       \/ \E d \in Drafts :
            \/ Advance(m, d) \/ Resume(m, d) \/ CancelDraft(m, d)
            \/ \E delta \in {-1, 1} : AdjustDraftSlots(m, d, delta)
            \/ \E step \in DOMAIN FollowingStep \cup {"kind", "category", "size", "reward",
                                                      "slots", "input"} :
                 EditDraftStep(m, d, step)
            \/ \E form \in Forms : SaveWeb(m, d, form) \/ EditPublished(m, d, form)
  \/ \E m \in Members :
       \/ ConfirmCommunityPublication(m)
       \/ \E d \in Drafts : LookAtDraft(m, d) \/ LookAtRequest(m, d)
  \/ \E d \in Drafts : TaskIsTaken(d) \/ TaskIsFreed(d) \/ DeadlinePasses(d)

-----------------------------------------------------------------------------
(* What should hold. *)

\* A task promises what was shown to the one who published it, even if the
\* draft changed between his preview and the command or is saved again after
\* it; the reserve of a member's task is exactly what it may pay, after
\* repeated commands and edits too; and nobody who took it finds other terms
\* later.
TaskIsAsAgreed ==
  \A d \in Drafts : task[d] # NoTask =>
    /\ task[d].terms = task[d].agreed
    /\ task[d].taken \in {Nothing, task[d].terms}
    /\ task[d].origin = "member" => HeldFor(d) = Promised(task[d].terms)

\* Whatever step a draft came from, its preview shows a complete form whose
\* performers fit its kind and whose reward fits its size or its template.
PreviewIsConsistent ==
  \A d \in Drafts : draft[d].step = "preview" =>
    IF draft[d].template = 0
    THEN /\ HasCompleteFreeformValues(draft[d])
         /\ FitsKind(draft[d].kind, draft[d].slots)
         /\ FitsSize(draft[d].size, draft[d].reward)
    ELSE /\ HasCompleteTemplateValues(draft[d])
         /\ draft[d].slots <= versions[draft[d].template].maximum

\* At the moment a task is published its author is active, whoever speaks for
\* the community still has the right to, a template is the version in force,
\* and a task of the community from a template has an independent reviewer and
\* the owner's consent, however the rights changed since the command was sent.
PublicationIsWarranted ==
  [][\A d \in Drafts : (task[d] = NoTask /\ task'[d] # NoTask) =>
       /\ IsActive(draft[d].owner)
       /\ draft[d].template # 0 => Publishable(draft[d].template)
       /\ draft[d].origin = "community" =>
            IF draft[d].template = 0 THEN Holds(task'[d].by, "community_task_create")
            ELSE /\ IsSuperadministrator(task'[d].by)
                 /\ draft[d].reviewer \in ActiveAdministrators \ {draft[d].owner}]_task
=============================================================================
