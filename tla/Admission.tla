----------------------------- MODULE Admission -----------------------------
(***************************************************************************)
(* How a Telegram user becomes a member and stops being one: invitations,  *)
(* the registration form, its moderation, the simplified admission and the *)
(* presence in the community chat (application and db registration.py,     *)
(* community_preferences.py, telegram_updates.py, web.py).                 *)
(*                                                                         *)
(* Registration commands hold the lock of the identity and are one action. *)
(* What the code cannot lock is Telegram: chat events are delivered late,  *)
(* again and in any order, and an answer of getChatMember is used after    *)
(* the user may have moved.  A moderation command is checked in one        *)
(* transaction, decided in another and repeated with its key.              *)
(* Sanctions of members are modelled in Sanctions.                         *)
(***************************************************************************)
EXTENDS Roles

CONSTANTS
  Owner, Staff,  \* the identity to bootstrap, and an early member
  Applicants,    \* members who are not in the community at first
  Answering,     \* bound: applicants who fill in the form and are reviewed
  Movers,        \* bound: members who use the bot, leave and join the chat
  General,       \* invitations for anybody, made by earlier releases
  Personal,      \* invitations for one username, valid once
  NoInvitation,
  MaxUses,       \* general invitation -> number of uses
  MaxMoves,      \* bound: moves in and out of the chat
  Handlers,      \* bound: handlers of movers that ask Telegram
  MaxVersions,   \* bound: submissions of one application
  LegacyDrafts   \* applicants whose draft an earlier release may have begun

ASSUME AdmissionAssumption ==
  /\ Applicants \subseteq Members \ {Owner, Staff}
  /\ Answering \subseteq Applicants
  /\ Movers \subseteq Members
  /\ LegacyDrafts \subseteq Applicants
  /\ General \cap Personal = {} /\ NoInvitation \notin General \cup Personal
  /\ MaxUses \in [General -> Nat \ {0}]
  /\ Handlers \subseteq {"start", "continue", "web"}
  /\ MaxMoves \in Nat /\ MaxVersions \in Nat

Invitations == General \cup Personal

\* RegistrationStep; "none" without a conversation.
Steps == {"consent", "display_name", "city", "timezone", "short_bio",
          "current_goal", "help_categories", "skill_tags", "availability",
          "preview", "submitted"}
ApplicationStatuses == {"draft", "submitted", "approved", "rejected"}

\* _REQUIRED_PROFILE_FIELDS and the consent, named by their steps.
RequiredFields == {"display_name", "city", "timezone"}
Fields == {"consent"} \cup RequiredFields

VARIABLES
  application,  \* member -> [status, step, answered, version]
  invitation,   \* invitation -> [for, uses, revoked, expired]
  redeemed,     \* member -> invitation
  mode,         \* registration policy
  credits,      \* member -> starting grants in the ledger
  announced,    \* members with a registration.approved event
  click,        \* the moderation command in flight or repeated
  inChat,       \* members of the community chat
  notices,      \* chat_member updates Telegram has to deliver
  onboarding,   \* member -> bot_onboarding.state
  answer,       \* getChatMember's answer a handler holds
  moves

registration == <<application, redeemed, credits, announced>>
admin == <<invitation, mode, click>>
chat == <<inChat, notices, moves>>
vars == <<account, bootstrapped, registration, admin, chat, onboarding, answer>>

NoApplication == [status |-> "none", step |-> "none", answered |-> {}, version |-> 0]
NoClick == [by |-> Nobody, member |-> Nobody, decision |-> "none", done |-> FALSE]
NoAnswer == [handler |-> "none", member |-> Nobody, joined |-> FALSE, was |-> "absent"]

-----------------------------------------------------------------------------
\* Mutant: an answer to the city question leaves the timezone to its own step.
AnsweredByCityAlone(step) == {step} \cap Fields

\* Fields one answer stores: the city brings its timezone along.
AnsweredBy(step) == IF step = "city" THEN {"city", "timezone"}
                    ELSE {step} \cap Fields

\* _STEP_FLOW, with the jump over the timezone that answer makes.
NextStep(step) == CASE step = "consent"         -> "display_name"
                    [] step = "display_name"    -> "city"
                    [] step = "city"            -> "short_bio"
                    [] step = "timezone"        -> "short_bio"
                    [] step = "short_bio"       -> "skill_tags"
                    [] step = "current_goal"    -> "help_categories"
                    [] step = "help_categories" -> "skill_tags"
                    [] step = "skill_tags"      -> "preview"
                    [] step = "availability"    -> "preview"
AnswerableSteps == Steps \ {"preview", "submitted"}

\* _PREVIOUS_REGISTRATION_STEP
PreviousStep(step) == CASE step = "display_name" -> "consent"
                        [] step = "city"         -> "display_name"
                        [] step = "short_bio"    -> "city"
                        [] step = "skill_tags"   -> "short_bio"
                        [] step = "preview"      -> "skill_tags"
RewindableSteps == {"display_name", "city", "short_bio", "skill_tags", "preview"}

\* The conversation still expects the step the request was made for.
Current(m, step) == application[m].step = step

\* Mutant: the revocation is checked before the wait for Telegram only.
UsableOnceRevoked(i, m) ==
  /\ ~invitation[i].expired
  /\ invitation[i].uses < IF i \in General THEN MaxUses[i] ELSE 1
  /\ i \in Personal => invitation[i].for = m

\* _validated_invitation, on the locked row.
Usable(i, m) ==
  /\ ~invitation[i].revoked /\ ~invitation[i].expired
  /\ invitation[i].uses < IF i \in General THEN MaxUses[i] ELSE 1
  /\ i \in Personal => invitation[i].for = m

\* require_registration_moderator; no command makes moderators.
MayModerate(a) == a \in ActiveAdministrators

\* Mutant: a grant is posted whatever the ledger holds.
PostedAgain(m) == credits[m] + 1

\* The starting grant has one idempotency key per member.
Posted(m) == IF credits[m] = 0 THEN 1 ELSE credits[m]

\* What an earlier release may have left: the steps since removed, with every
\* answer that came before them.
LegacyApplications ==
  {[status |-> "draft", step |-> "timezone",
    answered |-> {"consent", "display_name", "city"}, version |-> 0]} \cup
  {[status |-> "draft", step |-> step, answered |-> Fields, version |-> 0] :
     step \in {"current_goal", "help_categories", "availability"}}

Init ==
  /\ \E legacy \in SUBSET LegacyDrafts :
       /\ account = [m \in Members |-> IF m = Staff THEN Participant("active")
                                       ELSE IF m \in legacy THEN Participant("pending")
                                       ELSE Absent]
       /\ application \in {f \in [Members -> LegacyApplications \cup {NoApplication,
                             [NoApplication EXCEPT !.status = "approved"]}] :
                             \A m \in Members :
                               IF m \in legacy THEN f[m] \in LegacyApplications
                               ELSE f[m] = [NoApplication EXCEPT !.status =
                                      IF m = Staff THEN "approved" ELSE "none"]}
       /\ \E i \in General :
            /\ redeemed = [m \in Members |-> IF m \in legacy THEN i ELSE NoInvitation]
            /\ Cardinality(legacy) <= MaxUses[i]
            /\ invitation = [j \in Invitations |->
                 [for |-> Nobody, revoked |-> FALSE, expired |-> FALSE,
                  uses |-> IF j = i THEN Cardinality(legacy) ELSE 0]]
  /\ mode \in {"standard", "simplified"}
  /\ credits = [m \in Members |-> IF m = Staff THEN 1 ELSE 0]
  /\ bootstrapped = {} /\ announced = {} /\ click = NoClick
  /\ inChat = Members /\ notices = {} /\ moves = 0
  /\ onboarding = [m \in Members |-> "none"]
  /\ answer = NoAnswer

-----------------------------------------------------------------------------
\* Administrators change roles, and the owner the admission mode.
Administer == /\ RolesNext
              /\ UNCHANGED <<registration, admin, chat, onboarding, answer>>

SetPolicy(a) ==
  /\ IsActive(a) /\ IsSuperadministrator(a)
  /\ mode' = IF mode = "standard" THEN "simplified" ELSE "standard"
  /\ UNCHANGED <<account, bootstrapped, registration, invitation, click, chat,
                 onboarding, answer>>

\* The row of a personal invitation; m owns the username it names.
IssuedTo(i, m) == [invitation EXCEPT ![i].for = m]

\* create_invitation, as web.py calls it.
CreateInvitation(a, i, m) ==
  /\ Holds(a, "member_invitation")
  /\ i \in Personal /\ invitation[i].for = Nobody
  /\ invitation' = IssuedTo(i, m)
  /\ UNCHANGED <<account, bootstrapped, registration, mode, click, chat,
                 onboarding, answer>>

Revocable(i) == ~invitation[i].revoked /\ invitation[i].uses = 0

\* revoke_invitation
RevokeInvitation(a, i) ==
  /\ Holds(a, "member_invitation")
  /\ i \in General \/ invitation[i].for # Nobody
  /\ Revocable(i)
  /\ invitation' = [invitation EXCEPT ![i].revoked = TRUE]
  /\ UNCHANGED <<account, bootstrapped, registration, mode, click, chat,
                 onboarding, answer>>

\* Seven days pass; a general invitation has no end.
InvitationExpires(i) ==
  /\ i \in Personal /\ invitation[i].for # Nobody
  /\ ~invitation[i].expired /\ ~invitation[i].revoked
  /\ invitation' = [invitation EXCEPT ![i].expired = TRUE]
  /\ UNCHANGED <<account, bootstrapped, registration, mode, click, chat,
                 onboarding, answer>>

-----------------------------------------------------------------------------
\* create_simplified_registration and the grant of the same transaction.
AdmitAtOnce(m) ==
  /\ account' = [account EXCEPT ![m] = Participant("active")]
  /\ application' = [application EXCEPT ![m].status = "approved"]
  /\ credits' = [credits EXCEPT ![m] = Posted(m)]
  /\ UNCHANGED <<redeemed, announced, invitation>>

\* create_pending_registration
AdmitToForm(m, i) ==
  /\ account' = [account EXCEPT ![m] = Participant("pending")]
  /\ application' = [application EXCEPT ![m].status = "draft", ![m].step = "consent"]
  /\ redeemed' = [redeemed EXCEPT ![m] = i]
  /\ invitation' = [invitation EXCEPT ![i].uses = @ + 1]
  /\ UNCHANGED <<credits, announced>>

\* RegistrationService.start of a user whose presence was confirmed; a known
\* user and one without a usable invitation change nothing here.
Start(m, i) ==
  \/ account[m].status = "absent" /\ mode = "simplified" /\ AdmitAtOnce(m)
  \/ /\ account[m].status = "absent" /\ mode = "standard"
     /\ i # NoInvitation /\ Usable(i, m)
     /\ AdmitToForm(m, i)
  \/ /\ \/ account[m].status # "absent"
        \/ mode = "standard" /\ i \notin {j \in Invitations : Usable(j, m)}
     /\ UNCHANGED <<account, registration, invitation>>

\* What the store makes of an answer, a step back, a submission and a restart.
SavedAnswer(m, step) ==
  [application EXCEPT ![m].status = "draft", ![m].step = NextStep(step),
                      ![m].answered = @ \cup AnsweredBy(step)]
Rewound(m) == [application EXCEPT ![m].step = PreviousStep(@)]
SubmittedForReview(m) ==
  [application EXCEPT ![m].status = "submitted", ![m].step = "submitted", ![m].version = @ + 1]
Restarted(m) == [application EXCEPT ![m].status = "draft", ![m].step = "display_name"]

\* decide_registration: an approval ends the conversation.
Decided(m, decision) ==
  [application EXCEPT ![m] = IF decision = "approve"
                             THEN [NoApplication EXCEPT !.status = "approved"]
                             ELSE [@ EXCEPT !.status = "rejected", !.step = "preview"]]

\* RegistrationService.answer, for the step the form showed.
AnswerStep(m, step) ==
  /\ Current(m, step)
  /\ application[m].status \in {"draft", "rejected"}
  /\ application' = SavedAnswer(m, step)
  /\ UNCHANGED <<account, bootstrapped, redeemed, credits, announced, admin, chat,
                 onboarding, answer>>

\* RegistrationService.back
StepBack(m) ==
  /\ application[m].status = "draft"
  /\ application[m].step \in RewindableSteps
  /\ application' = Rewound(m)
  /\ UNCHANGED <<account, bootstrapped, redeemed, credits, announced, admin, chat,
                 onboarding, answer>>

\* An approval, with the grant and the event of the same transaction.
ApproveApplication(m) ==
  /\ account' = [account EXCEPT ![m].status = "active"]
  /\ application' = Decided(m, "approve")
  /\ credits' = [credits EXCEPT ![m] = Posted(m)]
  /\ announced' = announced \cup {m}

\* RegistrationService.submit: a personal invitation decides at once, with the
\* authority of whoever wrote it.
Submit(m) ==
  /\ application[m].status \in {"draft", "rejected"}
  /\ Current(m, "preview")
  /\ RequiredFields \subseteq application[m].answered
  /\ \/ redeemed[m] \in Personal /\ ApproveApplication(m)
     \/ /\ redeemed[m] \in General
        /\ application[m].version < MaxVersions
        /\ application' = SubmittedForReview(m)
        /\ UNCHANGED <<account, credits, announced>>
  /\ UNCHANGED <<bootstrapped, redeemed, admin, chat, onboarding, answer>>

\* RegistrationService.reopen_rejected, as web.py calls it (restart).
Reopen(m) ==
  /\ application[m].status = "rejected"
  /\ application' = Restarted(m)
  /\ UNCHANGED <<account, bootstrapped, redeemed, credits, announced, admin, chat,
                 onboarding, answer>>

-----------------------------------------------------------------------------
\* moderate_for_actor, first transaction: the actor may moderate.
BeginDecision(a, m, decision) ==
  /\ click = NoClick
  /\ MayModerate(a)
  /\ account[m].status # "absent"
  /\ click' = [by |-> a, member |-> m, decision |-> decision, done |-> FALSE]
  /\ UNCHANGED <<account, bootstrapped, registration, invitation, mode, chat,
                 onboarding, answer>>

\* Mutant: the check of the first transaction is enough.
AuthorizedBefore == TRUE

\* require_registration_moderator again, on the locked row.
Authorized == MayModerate(click.by)

\* No receipt of this update is stored.
Unanswered == click # NoClick /\ ~click.done

\* No later decision changes an account that is known already.
Settled(m) == account[m].status = "active" \/ application[m].status = "approved"

\* RegistrationService._approve
Approve(m) ==
  \/ /\ Settled(m)
     /\ credits' = [credits EXCEPT ![m] = Posted(m)]
     /\ UNCHANGED <<account, application, announced>>
  \/ /\ ~Settled(m)
     /\ application[m].status = "submitted"
     /\ ApproveApplication(m)

\* RegistrationService._reject
Reject(m) ==
  /\ ~Settled(m)
  /\ application[m].status \in {"submitted", "rejected"}
  /\ application' = IF application[m].status = "rejected" THEN application
                    ELSE Decided(m, "reject")
  /\ UNCHANGED <<account, credits, announced>>

\* The second transaction; a repeat of what was answered changes nothing.
Decide ==
  /\ Unanswered
  /\ Authorized
  /\ IF click.decision = "approve" THEN Approve(click.member) ELSE Reject(click.member)
  /\ click' = [click EXCEPT !.done = TRUE]
  /\ UNCHANGED <<bootstrapped, redeemed, invitation, mode, chat, onboarding, answer>>

\* Refused, or no longer repeated.
EndDecision ==
  /\ click # NoClick
  /\ click' = NoClick
  /\ UNCHANGED <<account, bootstrapped, registration, invitation, mode, chat,
                 onboarding, answer>>

-----------------------------------------------------------------------------
\* The user joins or leaves the chat; Telegram will report it.
Move(m) ==
  /\ moves < MaxMoves
  /\ moves' = moves + 1
  /\ inChat' = IF m \in inChat THEN inChat \ {m} ELSE inChat \cup {m}
  /\ notices' = notices \cup {[member |-> m, joined |-> m \notin inChat]}
  /\ UNCHANGED <<account, bootstrapped, registration, admin, onboarding, answer>>

\* Mutant: a departed member stays departed.
PresentNever(m) == account[m].status

\* The status record_chat_membership gives to a member who is present.
Present(m) == IF account[m].status = "left" THEN "active" ELSE account[m].status

\* record_chat_membership(joined=False)
RecordDeparture(m) ==
  LET departs == account[m].status = "active"
  IN /\ account' = [account EXCEPT ![m].status = IF departs THEN "left" ELSE @]
     /\ onboarding' = [onboarding EXCEPT ![m] = IF departs THEN "waiting" ELSE @]

\* record_chat_membership(joined=True)
RecordArrival(m) ==
  /\ account' = [account EXCEPT ![m].status = Present(m)]
  /\ onboarding' = [onboarding EXCEPT ![m] =
                      IF account[m].status = "left" THEN "waiting" ELSE @]

\* _private_command("/onboarding") of a user whose presence was confirmed: the
\* member is restored or admitted, and sees the last step of the onboarding.
Enter(m) ==
  \/ /\ account[m].status \in {"active", "left"}
     /\ account' = [account EXCEPT ![m].status = Present(m)]
     /\ onboarding' = [onboarding EXCEPT ![m] =
          IF Present(m) = "active" /\ (@ = "waiting" \/ account[m].status = "left")
          THEN "completed" ELSE @]
     /\ UNCHANGED <<registration, invitation>>
  \/ /\ account[m].status \in {"absent", "pending"}
     /\ Start(m, NoInvitation)
     /\ onboarding' = [onboarding EXCEPT ![m] =
          IF @ = "waiting" /\ account'[m].status = "active" THEN "completed" ELSE @]

\* _chat_membership; an answer lost on its way makes Telegram repeat it.
Deliver(n, lost) ==
  /\ n \in notices
  /\ notices' = IF lost THEN notices ELSE notices \ {n}
  /\ \/ /\ ~n.joined
        /\ RecordDeparture(n.member)
        /\ UNCHANGED <<registration, invitation>>
     \/ /\ n.joined
        /\ account[n.member].status = "left" \/ onboarding[n.member] = "waiting"
        /\ Enter(n.member)
     \/ /\ n.joined
        /\ account[n.member].status # "left" /\ onboarding[n.member] # "waiting"
        /\ UNCHANGED <<account, registration, invitation, onboarding>>
  /\ UNCHANGED <<bootstrapped, mode, click, inChat, moves, answer>>

\* /start of somebody unknown.
BeginOnboarding(m) ==
  /\ account[m].status = "absent" /\ onboarding[m] = "none"
  /\ onboarding' = [onboarding EXCEPT ![m] = "waiting"]
  /\ UNCHANGED <<account, bootstrapped, registration, admin, chat, answer>>

\* A handler reads the member and asks Telegram.  Bound: one at a time.
AskTelegram(m, handler) ==
  /\ answer = NoAnswer
  /\ handler = "start" => account[m].status \in {"active", "left"}
  /\ answer' = [handler |-> handler, member |-> m, joined |-> m \in inChat,
                was |-> account[m].status]
  /\ UNCHANGED <<account, bootstrapped, registration, admin, chat, onboarding>>

\* _returning_start, with what it read before and Telegram's answer.
ReturningStart ==
  LET m == answer.member
  IN /\ answer.handler = "start"
     /\ \/ ~answer.joined /\ RecordDeparture(m)
        \/ /\ answer.joined
           /\ answer.was = "left" \/ onboarding[m] = "waiting"
           /\ RecordArrival(m)
        \/ /\ answer.joined
           /\ answer.was # "left" /\ onboarding[m] # "waiting"
           /\ UNCHANGED <<account, onboarding>>
     /\ answer' = NoAnswer
     /\ UNCHANGED <<bootstrapped, registration, admin, chat>>

\* _callback: "I have joined, check" and "continue".
ContinueOnboarding ==
  /\ answer.handler = "continue"
  /\ \/ answer.joined /\ Enter(answer.member)
     \/ ~answer.joined /\ UNCHANGED <<account, registration, invitation, onboarding>>
  /\ answer' = NoAnswer
  /\ UNCHANGED <<bootstrapped, mode, click, chat>>

\* authenticate: with or without an invitation, which start checks again.
AuthenticateWeb(i) ==
  /\ answer.handler = "web"
  /\ \/ answer.joined /\ Start(answer.member, i)
     \/ ~answer.joined /\ UNCHANGED <<account, registration, invitation>>
  /\ answer' = NoAnswer
  /\ UNCHANGED <<bootstrapped, mode, click, chat, onboarding>>

\* The same for a user who never leaves the chat: Telegram's answer is true
\* whenever it is used.
AuthenticateResident(m, i) ==
  /\ m \in inChat
  /\ Start(m, i)
  /\ UNCHANGED <<bootstrapped, mode, click, chat, onboarding, answer>>

UseAnswer ==
  \/ ReturningStart \/ ContinueOnboarding
  \/ \E i \in Invitations \cup {NoInvitation} : AuthenticateWeb(i)

-----------------------------------------------------------------------------
AdministrationNext ==
  \/ Administer
  \/ \E a \in Members :
       \/ SetPolicy(a)
       \/ \E i \in Personal, m \in Applicants : CreateInvitation(a, i, m)
       \/ \E i \in Invitations : RevokeInvitation(a, i)
       \/ \E m \in Answering, decision \in {"approve", "reject"} : BeginDecision(a, m, decision)
  \/ \E i \in Personal : InvitationExpires(i)
  \/ Decide \/ EndDecision

ApplicantNext(m) ==
  \/ \E step \in AnswerableSteps : AnswerStep(m, step)
  \/ StepBack(m) \/ Submit(m) \/ Reopen(m)

PresenceNext ==
  \/ \E m \in Movers :
       \/ Move(m) \/ BeginOnboarding(m)
       \/ \E handler \in Handlers : AskTelegram(m, handler)
  \/ \E m \in Applicants \ Movers, i \in Invitations \cup {NoInvitation} :
       AuthenticateResident(m, i)
  \/ \E n \in notices, lost \in BOOLEAN : Deliver(n, lost)
  \/ UseAnswer

Next == AdministrationNext \/ (\E m \in Answering : ApplicantNext(m)) \/ PresenceNext

Spec == Init /\ [][Next]_vars

(* Telegram's requests and the handlers they start come to an end, and a    *)
(* member of the chat, or a former one, keeps coming back with /start.      *)
Fairness ==
  /\ WF_vars(UseAnswer)
  /\ \A m \in Movers :
       /\ SF_vars(AskTelegram(m, "start"))
       /\ \A joined \in BOOLEAN : WF_vars(Deliver([member |-> m, joined |-> joined], FALSE))

FairSpec == Spec /\ Fairness

-----------------------------------------------------------------------------
\* Every variable stays within its declared values.
TypeOK ==
  /\ RolesTypeOK
  /\ application \in [Members -> [status : ApplicationStatuses \cup {"none"},
                                  step : Steps \cup {"none"},
                                  answered : SUBSET Fields, version : 0..MaxVersions]]
  /\ invitation \in [Invitations -> [for : Members \cup {Nobody}, uses : Nat,
                                    revoked : BOOLEAN, expired : BOOLEAN]]
  /\ redeemed \in [Members -> Invitations \cup {NoInvitation}]
  /\ mode \in {"standard", "simplified"}
  /\ credits \in [Members -> Nat]
  /\ announced \subseteq Members
  /\ click \in {NoClick} \cup [by : Members, member : Members,
                              decision : {"approve", "reject"}, done : BOOLEAN]
  /\ inChat \subseteq Members
  /\ notices \subseteq [member : Members, joined : BOOLEAN]
  /\ onboarding \in [Members -> {"none", "waiting", "completed"}]
  /\ answer \in {NoAnswer} \cup [handler : Handlers, member : Members,
                                joined : BOOLEAN, was : AccountStatuses]
  /\ moves \in 0..MaxMoves

\* Whatever the order of starts, submissions, decisions, repeats, departures
\* and returns, an account, its application, its conversation and its starting
\* grant agree (ADR 0022: active status and grant in one transaction; user
\* flows: coming back makes neither a new account nor a second grant).
AdmittedOnce ==
  \A m \in Members :
    IF m \in bootstrapped
    THEN application[m] = NoApplication /\ credits[m] <= 1
    ELSE /\ application[m].status = "none" <=> account[m].status = "absent"
         /\ application[m].status = "approved" <=> account[m].status \in {"active", "left"}
         /\ application[m].step = "none" <=> account[m].status # "pending"
         /\ credits[m] = IF application[m].status = "approved" THEN 1 ELSE 0
         /\ m \in announced => application[m].status = "approved"

\* Whoever reaches the preview or has submitted answered every required
\* question, whatever was answered late, twice, rewound or begun in an earlier
\* release: submit never has to refuse a form that looks complete.
PreviewIsComplete ==
  \A m \in Members :
    application[m].step \in {"preview", "submitted"}
      => application[m].answered = Fields

\* No invitation admits more members than it may, nor another one than it
\* names, nor anybody once revoked, however entries and revocations overlap.
InvitationLimits ==
  \A i \in Invitations :
    LET admitted == {m \in Members : redeemed[m] = i}
    IN /\ invitation[i].uses = Cardinality(admitted)
       /\ invitation[i].uses <= IF i \in General THEN MaxUses[i] ELSE 1
       /\ i \in Personal => admitted \subseteq {invitation[i].for}
       /\ invitation[i].revoked => admitted = {}

\* A submitted application is decided only by a request that was not answered
\* before, of somebody who is active staff at that moment, whatever happened
\* to his rights or to the application since the request was made.
DecisionIsWarranted ==
  [][\A m \in Members :
       application[m].status = "submitted" /\ application'[m].status # "submitted"
         => /\ click.member = m /\ ~click.done
            /\ click.by \in ActiveAdministrators]_vars

\* Once a member stays in the chat or outside, the account agrees in the end,
\* although events come late, repeated and out of order.
PresenceSettles ==
  \A m \in Movers :
    <>[](account[m].status \in {"active", "left"}
           => (account[m].status = "active" <=> m \in inChat))

\* There is one superadministrator at most (01_PRODUCT_REQUIREMENTS).
OwnerIsUnique ==
  Cardinality({m \in ActiveAdministrators : IsSuperadministrator(m)}) <= 1
=============================================================================
