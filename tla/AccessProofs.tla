---------------------------- MODULE AccessProofs ----------------------------
(***************************************************************************)
(* Theorems about who may act: Admission, for every finite set of members, *)
(* every set of invitations with their limits and every bound, and         *)
(* Sanctions, for any number of sanctions of a member and any staff.       *)
(*                                                                         *)
(* What makes the rows of a member agree is proved member by member: a     *)
(* step changes the rows of one member, or what it changes does not matter *)
(* here, and whoever is unknown has neither an application nor an          *)
(* invitation, so that whoever enters starts from nothing.                 *)
(***************************************************************************)
EXTENDS Admission, Sanctions, FiniteSetTheorems, TLAPS

AccountRows == [status : AccountStatuses, role : Ranks, rights : SUBSET Rights,
                by : Members \cup {Nobody}]
ApplicationRows == [status : ApplicationStatuses \cup {"none"},
                    step : Steps \cup {"none"},
                    answered : SUBSET Fields, version : 0..MaxVersions]

\* What was answered before a step is shown.
Needed(step) ==
  IF step \in {"none", "consent"} THEN {}
  ELSE IF step = "display_name" THEN {"consent"}
  ELSE IF step = "city" THEN {"consent", "display_name"}
  ELSE IF step = "timezone" THEN {"consent", "display_name", "city"}
  ELSE Fields

\* The rows of a member agree: AdmittedOnce for one member.
Agrees(m) ==
  IF m \in bootstrapped
  THEN application[m] = NoApplication /\ credits[m] <= 1
  ELSE /\ application[m].status = "none" <=> account[m].status = "absent"
       /\ application[m].status = "approved" <=> account[m].status \in {"active", "left"}
       /\ application[m].step = "none" <=> account[m].status # "pending"
       /\ credits[m] = IF application[m].status = "approved" THEN 1 ELSE 0
       /\ m \in announced => application[m].status = "approved"

\* Nothing is known of a user without an account.
Unknown(m) ==
  account[m].status = "absent"
    => application[m] = NoApplication /\ redeemed[m] = NoInvitation /\ m \notin bootstrapped

\* The conversation stands where the answers and the status let it stand.
FormStands(m) ==
  /\ Needed(application[m].step) \subseteq application[m].answered
  /\ application[m].status = "submitted" => application[m].step = "submitted"
  /\ application[m].status = "rejected" => application[m].step = "preview"

MemberInv(m) == Agrees(m) /\ Unknown(m) /\ FormStands(m)

AdmissionInv ==
  /\ TypeOK
  /\ \A m \in Members : MemberInv(m)
  /\ InvitationLimits

-----------------------------------------------------------------------------
(* The kinds of step.                                                       *)

\* Nobody's rows change but for departures, returns and roles.
StatusKept ==
  /\ account' \in [Members -> AccountRows]
  /\ \A m \in Members :
       account'[m].status = account[m].status
         \/ {account[m].status, account'[m].status} \subseteq {"active", "left"}

\* An invitation is issued, revoked or expires.
InvitationManaged ==
  \E i \in Invitations :
    \/ /\ i \in Personal /\ invitation[i].for = Nobody
       /\ \E m \in Members : invitation' = IssuedTo(i, m)
    \/ Revocable(i) /\ invitation' = [invitation EXCEPT ![i].revoked = TRUE]
    \/ invitation' = [invitation EXCEPT ![i].expired = TRUE]

Quiet ==
  /\ UNCHANGED <<registration, bootstrapped>>
  /\ StatusKept
  /\ invitation' = invitation \/ InvitationManaged

Founds(m) == Bootstrap(m) /\ UNCHANGED <<registration, invitation>>

Enters(m) ==
  /\ account[m].status = "absent"
  /\ \/ AdmitAtOnce(m)
     \/ \E i \in Invitations : Usable(i, m) /\ AdmitToForm(m, i)
  /\ UNCHANGED bootstrapped

\* A form is filled in, submitted, rejected or begun again.
FormMoves(m) ==
  /\ \/ \E step \in AnswerableSteps :
          /\ application[m].status \in {"draft", "rejected"}
          /\ application[m].step = step
          /\ application' = SavedAnswer(m, step)
     \/ /\ application[m].status = "draft" /\ application[m].step \in RewindableSteps
        /\ application' = Rewound(m)
     \/ /\ application[m].status \in {"draft", "rejected"}
        /\ application[m].step = "preview"
        /\ application[m].version < MaxVersions
        /\ application' = SubmittedForReview(m)
     \/ application[m].status = "rejected" /\ application' = Restarted(m)
  /\ UNCHANGED <<account, bootstrapped, redeemed, credits, announced, invitation>>

Rejects(m) ==
  /\ application[m].status = "submitted"
  /\ application' = Decided(m, "reject")
  /\ UNCHANGED <<account, bootstrapped, redeemed, credits, announced, invitation>>

Approves(m) ==
  /\ application[m].status \in {"draft", "rejected", "submitted"}
  /\ ApproveApplication(m)
  /\ UNCHANGED <<bootstrapped, redeemed, invitation>>

\* A settled application is approved again.
Repeats(m) ==
  /\ Settled(m)
  /\ credits' = [credits EXCEPT ![m] = Posted(m)]
  /\ UNCHANGED <<account, application, announced, bootstrapped, redeemed, invitation>>

StepOf(m) == Founds(m) \/ Enters(m) \/ FormMoves(m) \/ Rejects(m) \/ Approves(m) \/ Repeats(m)

(* The rows a type invariant gives, by the name of their set.               *)
LEMMA RowTypes ==
  ASSUME TypeOK
  PROVE  /\ account \in [Members -> AccountRows]
         /\ application \in [Members -> ApplicationRows]
         /\ redeemed \in [Members -> Invitations \cup {NoInvitation}]
         /\ credits \in [Members -> Nat]
BY DEF TypeOK, RolesTypeOK, AccountRows, ApplicationRows

(* Rows of the accounts keep their type, whoever writes them.               *)
LEMMA AccountTyped ==
  ASSUME TypeOK, NEW m \in Members,
         \/ \E by \in Members, rights \in SUBSET Rights :
              account' = [account EXCEPT ![m].role = "administrator",
                                         ![m].rights = rights, ![m].by = by]
         \/ \E rights \in RightSets :
              account' = [account EXCEPT ![m].rights = (@ \ PublicRights) \cup rights]
         \/ account' = [account EXCEPT ![m].role = "member",
                                       ![m].rights = {}, ![m].by = Nobody]
         \/ account' = [account EXCEPT ![m] = OwnerAccount]
         \/ \E new \in AccountStatuses :
              \/ account' = [account EXCEPT ![m] = Participant(new)]
              \/ account' = [account EXCEPT ![m].status = new]
         \/ account' = account
  PROVE  account' \in [Members -> AccountRows]
<1>0. account \in [Members -> AccountRows]
  BY RowTypes
<1>r. \A rights \in RightSets : rights \subseteq Rights
  BY RolesAssumption DEF Rights
<1>1. ASSUME NEW by \in Members, NEW rights \in SUBSET Rights,
             account' = [account EXCEPT ![m].role = "administrator",
                                        ![m].rights = rights, ![m].by = by]
      PROVE  account' \in [Members -> AccountRows]
  <2> DEFINE one == [account EXCEPT ![m].role = "administrator"]
             two == [one EXCEPT ![m].rights = rights]
             three == [two EXCEPT ![m].by = by]
  <2>1. one \in [Members -> AccountRows]
    BY <1>0 DEF AccountRows, Ranks
  <2>2. two \in [Members -> AccountRows]
    <3> HIDE DEF one
    <3> QED
      BY <2>1 DEF AccountRows
  <2>3. three \in [Members -> AccountRows]
    <3> HIDE DEF two
    <3> QED
      BY <2>2 DEF AccountRows
  <2>4. account' = three
    BY <1>1, Zenon
  <2> QED
    BY <2>3, <2>4
<1>2. ASSUME NEW rights \in RightSets,
             account' = [account EXCEPT ![m].rights = (@ \ PublicRights) \cup rights]
      PROVE  account' \in [Members -> AccountRows]
  <2>1. (account[m].rights \ PublicRights) \cup rights \in SUBSET Rights
    BY <1>0, <1>r DEF AccountRows
  <2> QED
    BY <1>0, <1>2, <2>1 DEF AccountRows
<1>3. CASE account' = [account EXCEPT ![m].role = "member",
                                      ![m].rights = {}, ![m].by = Nobody]
  <2> DEFINE one == [account EXCEPT ![m].role = "member"]
             two == [one EXCEPT ![m].rights = {}]
             three == [two EXCEPT ![m].by = Nobody]
  <2>1. one \in [Members -> AccountRows]
    BY <1>0 DEF AccountRows, Ranks
  <2>2. two \in [Members -> AccountRows]
    <3> HIDE DEF one
    <3> QED
      BY <2>1 DEF AccountRows
  <2>3. three \in [Members -> AccountRows]
    <3> HIDE DEF two
    <3> QED
      BY <2>2 DEF AccountRows
  <2>4. account' = three
    BY <1>3, Zenon
  <2> QED
    BY <2>3, <2>4
<1>4. CASE account' = [account EXCEPT ![m] = OwnerAccount]
  <2>1. OwnerAccount \in AccountRows
    BY DEF OwnerAccount, AccountRows, Ranks, AccountStatuses, OwnerRights, Rights, PublicRights
  <2> QED
    BY <1>0, <1>4, <2>1
<1>5. ASSUME NEW new \in AccountStatuses,
             account' = [account EXCEPT ![m] = Participant(new)]
      PROVE  account' \in [Members -> AccountRows]
  <2>1. Participant(new) \in AccountRows
    BY DEF Participant, Absent, AccountRows, Ranks
  <2> QED
    BY <1>0, <1>5, <2>1
<1>6. ASSUME NEW new \in AccountStatuses,
             account' = [account EXCEPT ![m].status = new]
      PROVE  account' \in [Members -> AccountRows]
  BY <1>0, <1>6 DEF AccountRows
<1>7. CASE account' = account
  BY <1>0, <1>7
<1> QED
  BY <1>1, <1>2, <1>3, <1>4, <1>5, <1>6, <1>7

LEMMA RolesTyped ==
  ASSUME TypeOK, RolesNext
  PROVE  account' \in [Members -> AccountRows] /\ bootstrapped' \subseteq Members
<1>0. bootstrapped \subseteq Members /\ Appointable \subseteq Members
      /\ \A rights \in RightSets : rights \subseteq Rights
  BY RolesAssumption DEF TypeOK, RolesTypeOK, Rights
<1>1. ASSUME NEW a \in Members, NEW m \in Appointable, NEW rights \in RightSets,
             Appoint(a, m, rights)
      PROVE  account' \in [Members -> AccountRows] /\ bootstrapped' \subseteq Members
  <2>1. /\ account' = [account EXCEPT ![m].role = "administrator",
                                       ![m].rights = rights, ![m].by = a]
        /\ bootstrapped' = bootstrapped
    BY <1>1 DEF Appoint
  <2> QED
    BY <1>0, <2>1, AccountTyped
<1>2. ASSUME NEW a \in Members, NEW m \in Appointable, NEW rights \in RightSets,
             UpdatePermissions(a, m, rights)
      PROVE  account' \in [Members -> AccountRows] /\ bootstrapped' \subseteq Members
  <2>1. /\ account' = [account EXCEPT ![m].rights = (@ \ PublicRights) \cup rights]
        /\ bootstrapped' = bootstrapped
    BY <1>2 DEF UpdatePermissions
  <2> QED
    BY <1>0, <2>1, AccountTyped
<1>3. ASSUME NEW a \in Members, NEW m \in Appointable, Demote(a, m)
      PROVE  account' \in [Members -> AccountRows] /\ bootstrapped' \subseteq Members
  <2>1. /\ account' = [account EXCEPT ![m].role = "member",
                                       ![m].rights = {}, ![m].by = Nobody]
        /\ bootstrapped' = bootstrapped
    BY <1>3 DEF Demote
  <2> QED
    BY <1>0, <2>1, AccountTyped
<1>4. ASSUME NEW m \in Members, Bootstrap(m)
      PROVE  account' \in [Members -> AccountRows] /\ bootstrapped' \subseteq Members
  <2>1. /\ account' = [account EXCEPT ![m] = OwnerAccount]
        /\ bootstrapped' = bootstrapped \cup {m}
    BY <1>4 DEF Bootstrap
  <2> QED
    BY <1>0, <2>1, AccountTyped
<1> QED
  BY <1>1, <1>2, <1>3, <1>4 DEF RolesNext

(* A start admits somebody unknown or changes nothing.                      *)
LEMMA StartForms ==
  ASSUME NEW m \in Members, NEW i \in Invitations \cup {NoInvitation}, Start(m, i),
         UNCHANGED bootstrapped
  PROVE  Enters(m) \/ UNCHANGED <<account, bootstrapped, registration, invitation>>
<1>1. CASE account[m].status = "absent" /\ mode = "simplified" /\ AdmitAtOnce(m)
  BY <1>1 DEF Enters
<1>2. CASE /\ account[m].status = "absent" /\ mode = "standard"
           /\ i # NoInvitation /\ Usable(i, m)
           /\ AdmitToForm(m, i)
  BY <1>2 DEF Enters
<1> QED
  BY <1>1, <1>2 DEF Start

(* Entering after a confirmed presence is a start or a return.              *)
LEMMA EnterForms ==
  ASSUME TypeOK, NEW m \in Members, Enter(m), UNCHANGED bootstrapped
  PROVE  Enters(m) \/ Quiet
<1>1. CASE Start(m, NoInvitation)
  <2>1. CASE Enters(m)
    BY <2>1
  <2>2. CASE UNCHANGED <<account, bootstrapped, registration, invitation>>
    BY <2>2, RowTypes DEF Quiet, StatusKept
  <2> QED
    BY <1>1, <2>1, <2>2, StartForms
<1>2. CASE /\ account[m].status \in {"active", "left"}
           /\ account' = [account EXCEPT ![m].status = Present(m)]
           /\ UNCHANGED <<registration, invitation>>
  <2>1. account \in [Members -> AccountRows]
    BY DEF TypeOK, RolesTypeOK, AccountRows
  <2>2. Present(m) \in AccountStatuses
    BY <1>2 DEF Present, AccountStatuses
  <2>3. account' \in [Members -> AccountRows]
    BY <1>2, <2>2, AccountTyped
  <2>4. StatusKept
    BY <1>2, <2>1, <2>3 DEF StatusKept, Present, AccountRows
  <2> QED
    BY <1>2, <2>4 DEF Quiet
<1> QED
  BY <1>1, <1>2 DEF Enter

(* An administrator's command is the bootstrap or leaves every status.      *)
LEMMA AdministerForms ==
  ASSUME TypeOK, Administer
  PROVE  Quiet \/ \E m \in Members : Founds(m)
<1>0. account \in [Members -> AccountRows]
  BY DEF TypeOK, RolesTypeOK, AccountRows
<1>1. UNCHANGED <<registration, invitation>>
  BY DEF Administer, admin
<1>2. ASSUME NEW a \in Members, NEW m \in Appointable,
             \/ \E rights \in RightSets : Appoint(a, m, rights) \/ UpdatePermissions(a, m, rights)
             \/ Demote(a, m)
      PROVE  Quiet
  <2>1. bootstrapped' = bootstrapped
    BY <1>2 DEF Appoint, UpdatePermissions, Demote
  <2>2. \A x \in Members : account'[x].status = account[x].status
    <3>0. m \in Members
      BY RolesAssumption
    <3>1. ASSUME NEW rights \in RightSets, Appoint(a, m, rights)
          PROVE  \A x \in Members : account'[x].status = account[x].status
      BY <3>0, <3>1, <1>0 DEF Appoint, AccountRows
    <3>2. ASSUME NEW rights \in RightSets, UpdatePermissions(a, m, rights)
          PROVE  \A x \in Members : account'[x].status = account[x].status
      BY <3>0, <3>2, <1>0 DEF UpdatePermissions, AccountRows
    <3>3. CASE Demote(a, m)
      BY <3>0, <3>3, <1>0 DEF Demote, AccountRows
    <3> QED
      BY <1>2, <3>1, <3>2, <3>3
  <2>3. account' \in [Members -> AccountRows]
    BY RolesTyped DEF Administer
  <2> QED
    BY <1>1, <2>1, <2>2, <2>3 DEF Quiet, StatusKept
<1>3. ASSUME NEW m \in Members, Bootstrap(m)
      PROVE  Founds(m)
  BY <1>1, <1>3 DEF Founds
<1>4. RolesNext
  BY DEF Administer
<1> QED
  BY <1>2, <1>3, <1>4 DEF RolesNext

(* A decision approves, rejects or repeats.                                 *)
LEMMA DecisionForms ==
  ASSUME TypeOK, Decide
  PROVE  Quiet \/ \E m \in Members : Rejects(m) \/ Approves(m) \/ Repeats(m)
<1> DEFINE m == click.member
<1>1. m \in Members /\ click.decision \in {"approve", "reject"}
  BY DEF TypeOK, Decide, Unanswered
<1>2. UNCHANGED <<bootstrapped, redeemed, invitation>>
  BY DEF Decide
<1>3. CASE click.decision = "approve"
  <2>1. Approve(m)
    BY <1>3 DEF Decide
  <2>2. CASE Settled(m) /\ UNCHANGED <<account, application, announced>>
                 /\ credits' = [credits EXCEPT ![m] = Posted(m)]
    BY <1>1, <1>2, <2>2 DEF Repeats
  <2>3. CASE application[m].status = "submitted" /\ ApproveApplication(m)
    BY <1>1, <1>2, <2>3 DEF Approves
  <2> QED
    BY <2>1, <2>2, <2>3 DEF Approve
<1>4. CASE click.decision = "reject"
  <2>1. Reject(m)
    BY <1>4 DEF Decide
  <2>2. CASE application[m].status = "rejected"
    <3>1. UNCHANGED <<account, registration>>
      BY <1>2, <2>1, <2>2 DEF Reject, registration
    <3> QED
      BY <3>1, <1>2, RowTypes DEF Quiet, StatusKept
  <2>3. CASE application[m].status = "submitted"
    BY <1>1, <1>2, <2>1, <2>3 DEF Reject, Rejects
  <2> QED
    BY <2>1, <2>2, <2>3 DEF Reject
<1> QED
  BY <1>1, <1>3, <1>4

(* A step of an applicant moves his form, or approves it by his invitation. *)
LEMMA ApplicantForms ==
  ASSUME NEW m \in Members, ApplicantNext(m)
  PROVE  FormMoves(m) \/ Approves(m)
<1>1. ASSUME NEW step \in AnswerableSteps, AnswerStep(m, step)
      PROVE  FormMoves(m)
  BY <1>1 DEF AnswerStep, FormMoves, Current, admin
<1>2. CASE StepBack(m)
  BY <1>2 DEF StepBack, FormMoves, admin
<1>3. CASE Submit(m)
  <2>1. CASE ApproveApplication(m)
    BY <1>3, <2>1 DEF Submit, Approves, admin
  <2>2. CASE /\ application[m].version < MaxVersions
             /\ application' = SubmittedForReview(m)
             /\ UNCHANGED <<account, credits, announced>>
    BY <1>3, <2>2 DEF Submit, FormMoves, Current, admin
  <2> QED
    BY <1>3, <2>1, <2>2 DEF Submit
<1>4. CASE Reopen(m)
  BY <1>4 DEF Reopen, FormMoves, admin
<1> QED
  BY <1>1, <1>2, <1>3, <1>4 DEF ApplicantNext

(* What Telegram reports, a handler finds out or the web confirms.          *)
LEMMA PresenceForms ==
  ASSUME TypeOK, PresenceNext
  PROVE  Quiet \/ \E m \in Members : Enters(m)
<1>0. account \in [Members -> AccountRows]
  BY DEF TypeOK, RolesTypeOK, AccountRows
<1>m. Movers \subseteq Members /\ Applicants \subseteq Members
  BY AdmissionAssumption
<1>a. ASSUME NEW m \in Members, NEW i \in Invitations \cup {NoInvitation}, Start(m, i),
             UNCHANGED bootstrapped
      PROVE  Quiet \/ Enters(m)
  BY <1>a, StartForms, RowTypes DEF Quiet, StatusKept
<1>b. ASSUME NEW m \in Members, RecordDeparture(m)
      PROVE  StatusKept
  BY <1>0, <1>b, AccountTyped DEF RecordDeparture, StatusKept, AccountRows, AccountStatuses
<1>c. ASSUME NEW m \in Members, RecordArrival(m)
      PROVE  StatusKept
  BY <1>0, <1>c, AccountTyped DEF RecordArrival, Present, StatusKept, AccountRows, AccountStatuses
<1>1. ASSUME NEW m \in Movers,
             \/ Move(m) \/ BeginOnboarding(m)
             \/ \E handler \in Handlers : AskTelegram(m, handler)
      PROVE  Quiet
  <2>1. UNCHANGED <<account, bootstrapped, registration, invitation>>
    BY <1>1 DEF Move, BeginOnboarding, AskTelegram, admin
  <2> QED
    BY <2>1, RowTypes DEF Quiet, StatusKept
<1>2. ASSUME NEW m \in Applicants \ Movers, NEW i \in Invitations \cup {NoInvitation},
             AuthenticateResident(m, i)
      PROVE  Quiet \/ Enters(m)
  BY <1>2, <1>a, <1>m DEF AuthenticateResident
<1>3. ASSUME NEW n \in notices, NEW lost \in BOOLEAN, Deliver(n, lost)
      PROVE  Quiet \/ Enters(n.member)
  <2>0. n.member \in Members /\ bootstrapped' = bootstrapped
    BY <1>3 DEF TypeOK, Deliver
  <2>1. CASE RecordDeparture(n.member) /\ UNCHANGED <<registration, invitation>>
    BY <2>0, <2>1, <1>b DEF Quiet
  <2>2. CASE Enter(n.member)
    BY <2>0, <2>2, EnterForms
  <2>3. CASE UNCHANGED <<account, registration, invitation, onboarding>>
    BY <2>0, <2>3, RowTypes DEF Quiet, StatusKept
  <2> QED
    BY <1>3, <2>1, <2>2, <2>3 DEF Deliver
<1>4. ASSUME ReturningStart
      PROVE  Quiet
  <2>0. answer.member \in Members /\ UNCHANGED <<bootstrapped, registration, invitation>>
    BY <1>4 DEF TypeOK, ReturningStart, NoAnswer, admin
  <2>1. CASE RecordDeparture(answer.member)
    BY <2>0, <2>1, <1>b DEF Quiet
  <2>2. CASE RecordArrival(answer.member)
    BY <2>0, <2>2, <1>c DEF Quiet
  <2>3. CASE UNCHANGED <<account, onboarding>>
    BY <2>0, <2>3, RowTypes DEF Quiet, StatusKept
  <2> QED
    BY <1>4, <2>1, <2>2, <2>3 DEF ReturningStart
<1>5. ASSUME ContinueOnboarding
      PROVE  Quiet \/ Enters(answer.member)
  <2>0. answer.member \in Members /\ bootstrapped' = bootstrapped
    BY <1>5 DEF TypeOK, ContinueOnboarding, NoAnswer
  <2>1. CASE Enter(answer.member)
    BY <2>0, <2>1, EnterForms
  <2>2. CASE UNCHANGED <<account, registration, invitation, onboarding>>
    BY <2>0, <2>2, RowTypes DEF Quiet, StatusKept
  <2> QED
    BY <1>5, <2>1, <2>2 DEF ContinueOnboarding
<1>6. ASSUME NEW i \in Invitations \cup {NoInvitation}, AuthenticateWeb(i)
      PROVE  Quiet \/ Enters(answer.member)
  <2>0. answer.member \in Members /\ bootstrapped' = bootstrapped
    BY <1>6 DEF TypeOK, AuthenticateWeb, NoAnswer
  <2>1. CASE Start(answer.member, i)
    BY <2>0, <2>1, <1>a
  <2>2. CASE UNCHANGED <<account, registration, invitation>>
    BY <2>0, <2>2, RowTypes DEF Quiet, StatusKept
  <2> QED
    BY <1>6, <2>1, <2>2 DEF AuthenticateWeb
<1>7. ASSUME UseAnswer, ContinueOnboarding \/ \E i \in Invitations \cup {NoInvitation} : AuthenticateWeb(i)
      PROVE  answer.member \in Members
  BY <1>7 DEF TypeOK, ContinueOnboarding, AuthenticateWeb, NoAnswer
<1>8. \A n \in notices : n.member \in Members
  BY DEF TypeOK
<1> QED
  BY <1>m, <1>1, <1>2, <1>3, <1>4, <1>5, <1>6, <1>7, <1>8 DEF PresenceNext, UseAnswer

(* Every step has one of these forms.                                       *)
LEMMA StepForms ==
  ASSUME TypeOK, Next
  PROVE  Quiet \/ \E m \in Members : StepOf(m)
<1>m. Answering \subseteq Members /\ Applicants \subseteq Members
  BY AdmissionAssumption
<1>1. CASE Administer
  BY <1>1, AdministerForms DEF StepOf
<1>2. ASSUME NEW a \in Members, SetPolicy(a) \/ (\E m \in Answering, decision \in {"approve", "reject"} : BeginDecision(a, m, decision))
      PROVE  Quiet
  <2>1. UNCHANGED <<account, bootstrapped, registration, invitation>>
    BY <1>2 DEF SetPolicy, BeginDecision
  <2> QED
    BY <2>1, RowTypes DEF Quiet, StatusKept
<1>3. ASSUME NEW a \in Members, NEW i \in Personal, NEW m \in Applicants, CreateInvitation(a, i, m)
      PROVE  Quiet
  <2>1. UNCHANGED <<account, bootstrapped, registration>> /\ InvitationManaged
    BY <1>3, <1>m DEF CreateInvitation, InvitationManaged, Invitations
  <2> QED
    BY <2>1, RowTypes DEF Quiet, StatusKept
<1>4. ASSUME NEW a \in Members, NEW i \in Invitations, RevokeInvitation(a, i)
      PROVE  Quiet
  <2>1. UNCHANGED <<account, bootstrapped, registration>> /\ InvitationManaged
    BY <1>4 DEF RevokeInvitation, InvitationManaged
  <2> QED
    BY <2>1, RowTypes DEF Quiet, StatusKept
<1>5. ASSUME NEW i \in Personal, InvitationExpires(i)
      PROVE  Quiet
  <2>1. UNCHANGED <<account, bootstrapped, registration>> /\ InvitationManaged
    BY <1>5 DEF InvitationExpires, InvitationManaged, Invitations
  <2> QED
    BY <2>1, RowTypes DEF Quiet, StatusKept
<1>6. CASE Decide
  BY <1>6, DecisionForms DEF StepOf
<1>7. CASE EndDecision
  <2>1. UNCHANGED <<account, bootstrapped, registration, invitation>>
    BY <1>7 DEF EndDecision
  <2> QED
    BY <2>1, RowTypes DEF Quiet, StatusKept
<1>8. ASSUME NEW m \in Answering, ApplicantNext(m)
      PROVE  StepOf(m)
  BY <1>8, <1>m, ApplicantForms DEF StepOf
<1>9. CASE PresenceNext
  BY <1>9, PresenceForms DEF StepOf
<1> QED
  BY <1>m, <1>1, <1>2, <1>3, <1>4, <1>5, <1>6, <1>7, <1>8, <1>9
     DEF Next, AdministrationNext

-----------------------------------------------------------------------------
(* Every form keeps the rows of every member in agreement.                  *)

(* The steps of the form lead on to what was answered.                      *)
LEMMA StepFacts ==
  ASSUME NEW step \in AnswerableSteps
  PROVE  /\ NextStep(step) \in Steps \ {"consent", "submitted"}
         /\ AnsweredBy(step) \subseteq Fields
         /\ \A answered \in SUBSET Fields :
              Needed(step) \subseteq answered
                => Needed(NextStep(step)) \subseteq answered \cup AnsweredBy(step)
<1>1. step \in {"consent", "display_name", "city", "timezone", "short_bio", "current_goal",
                "help_categories", "skill_tags", "availability"}
  BY DEF AnswerableSteps, Steps
<1>2. CASE step = "consent"
  BY <1>2 DEF NextStep, Needed, AnsweredBy, Fields, RequiredFields, Steps
<1>3. CASE step = "display_name"
  BY <1>3 DEF NextStep, Needed, AnsweredBy, Fields, RequiredFields, Steps
<1>4. CASE step = "city"
  BY <1>4 DEF NextStep, Needed, AnsweredBy, Fields, RequiredFields, Steps
<1>5. CASE step = "timezone"
  BY <1>5 DEF NextStep, Needed, AnsweredBy, Fields, RequiredFields, Steps
<1>6. CASE step \in {"short_bio", "current_goal", "help_categories", "skill_tags", "availability"}
  BY <1>6 DEF NextStep, Needed, AnsweredBy, Fields, RequiredFields, Steps
<1> QED
  BY <1>1, <1>2, <1>3, <1>4, <1>5, <1>6

\* A step back needs no more than what was answered.
LEMMA BackFacts ==
  ASSUME NEW step \in RewindableSteps
  PROVE  /\ PreviousStep(step) \in Steps \ {"submitted"}
         /\ Needed(PreviousStep(step)) \subseteq Needed(step)
BY DEF RewindableSteps, PreviousStep, Needed, Steps, Fields, RequiredFields

(* A member whose rows do not change, but for a departure or a return,      *)
(* keeps agreeing.                                                          *)
LEMMA MemberKept ==
  ASSUME TypeOK, NEW m \in Members, MemberInv(m),
         application'[m] = application[m], redeemed'[m] = redeemed[m],
         credits'[m] = credits[m],
         m \in bootstrapped' <=> m \in bootstrapped,
         m \in announced' <=> m \in announced,
         \/ account'[m].status = account[m].status
         \/ {account[m].status, account'[m].status} \subseteq {"active", "left"}
  PROVE  MemberInv(m)'
<1>1. FormStands(m)'
  BY DEF MemberInv, FormStands
<1>2. Unknown(m)'
  BY DEF MemberInv, Unknown
<1>3. Agrees(m)'
  BY DEF MemberInv, Agrees
<1> QED
  BY <1>1, <1>2, <1>3 DEF MemberInv

LEMMA QuietKeeps ==
  ASSUME AdmissionInv, Quiet
  PROVE  \A m \in Members : MemberInv(m)'
<1> TAKE m \in Members
<1>1. TypeOK /\ MemberInv(m)
  BY DEF AdmissionInv
<1>2. UNCHANGED <<application, redeemed, credits, announced, bootstrapped>>
  BY DEF Quiet, registration
<1>3. \/ account'[m].status = account[m].status
      \/ {account[m].status, account'[m].status} \subseteq {"active", "left"}
  BY DEF Quiet, StatusKept
<1> QED
  BY <1>1, <1>2, <1>3, MemberKept

(* A step of one member leaves the rows of all others.                      *)
LEMMA OthersKept ==
  ASSUME TypeOK, NEW n \in Members, StepOf(n), NEW m \in Members, m # n
  PROVE  /\ application'[m] = application[m] /\ redeemed'[m] = redeemed[m]
         /\ credits'[m] = credits[m]
         /\ m \in bootstrapped' <=> m \in bootstrapped
         /\ m \in announced' <=> m \in announced
         /\ account'[m] = account[m]
<1>1. CASE Founds(n)
  BY <1>1, RowTypes DEF Founds, Bootstrap, registration
<1>2. CASE Enters(n)
  <2>1. CASE AdmitAtOnce(n)
    BY <1>2, <2>1, RowTypes DEF Enters, AdmitAtOnce
  <2>2. ASSUME NEW i \in Invitations, AdmitToForm(n, i)
        PROVE  /\ application'[m] = application[m] /\ redeemed'[m] = redeemed[m]
               /\ credits' = credits /\ announced' = announced /\ account'[m] = account[m]
    BY <2>2, RowTypes DEF AdmitToForm
  <2> QED
    BY <1>2, <2>1, <2>2 DEF Enters
<1>3. CASE FormMoves(n)
  BY <1>3, RowTypes DEF FormMoves, SavedAnswer, Rewound, SubmittedForReview, Restarted
<1>4. CASE Rejects(n)
  BY <1>4, RowTypes DEF Rejects, Decided
<1>5. CASE Approves(n)
  BY <1>5, RowTypes DEF Approves, ApproveApplication, Decided
<1>6. CASE Repeats(n)
  BY <1>6, RowTypes DEF Repeats
<1> QED
  BY <1>1, <1>2, <1>3, <1>4, <1>5, <1>6 DEF StepOf

(* And it keeps his own in agreement.                                       *)
LEMMA FoundsKeeps ==
  ASSUME AdmissionInv, NEW m \in Members, Founds(m)
  PROVE  MemberInv(m)'
<1>0. TypeOK /\ Agrees(m) /\ Unknown(m) /\ FormStands(m)
  BY DEF AdmissionInv, MemberInv
<1>1. /\ account[m].status = "absent" /\ account'[m].status = "active"
      /\ m \in bootstrapped' /\ UNCHANGED <<application, redeemed, credits, announced>>
  BY <1>0, RowTypes DEF Founds, Bootstrap, OwnerAccount, registration
<1>2. application[m] = NoApplication /\ m \notin bootstrapped /\ credits[m] = 0
  BY <1>0, <1>1 DEF Unknown, Agrees, NoApplication
<1>3. Agrees(m)' /\ Unknown(m)' /\ FormStands(m)'
  BY <1>0, <1>1, <1>2 DEF Agrees, Unknown, FormStands
<1> QED
  BY <1>3 DEF MemberInv

LEMMA EntersKeeps ==
  ASSUME AdmissionInv, NEW m \in Members, Enters(m)
  PROVE  MemberInv(m)'
<1>0. TypeOK /\ Agrees(m) /\ Unknown(m) /\ FormStands(m)
  BY DEF AdmissionInv, MemberInv
<1>1. /\ account[m].status = "absent" /\ application[m] = NoApplication
      /\ m \notin bootstrapped /\ m \notin bootstrapped'
      /\ credits[m] = 0 /\ m \notin announced
  BY <1>0 DEF Enters, Unknown, Agrees, NoApplication
<1>2. CASE AdmitAtOnce(m)
  <2>1. /\ account'[m].status = "active"
        /\ application'[m] = [NoApplication EXCEPT !.status = "approved"]
        /\ credits'[m] = 1 /\ announced' = announced
    BY <1>0, <1>1, <1>2, RowTypes DEF AdmitAtOnce, Participant, Absent, Posted
  <2>2. Agrees(m)' /\ Unknown(m)' /\ FormStands(m)'
    BY <1>1, <2>1 DEF Agrees, Unknown, FormStands, NoApplication, Needed
  <2> QED
    BY <2>2 DEF MemberInv
<1>3. ASSUME NEW i \in Invitations, AdmitToForm(m, i)
      PROVE  MemberInv(m)'
  <2>1. /\ account'[m].status = "pending"
        /\ application'[m] = [NoApplication EXCEPT !.status = "draft", !.step = "consent"]
        /\ credits' = credits /\ announced' = announced
    BY <1>0, <1>1, <1>3, RowTypes DEF AdmitToForm, Participant, Absent
  <2>2. Agrees(m)' /\ Unknown(m)' /\ FormStands(m)'
    BY <1>1, <2>1 DEF Agrees, Unknown, FormStands, NoApplication, Needed
  <2> QED
    BY <2>2 DEF MemberInv
<1> QED
  BY <1>2, <1>3 DEF Enters

LEMMA FormMovesKeeps ==
  ASSUME AdmissionInv, NEW m \in Members, FormMoves(m) \/ Rejects(m)
  PROVE  MemberInv(m)'
<1>0. TypeOK /\ Agrees(m) /\ Unknown(m) /\ FormStands(m)
  BY DEF AdmissionInv, MemberInv
<1>1. UNCHANGED <<account, bootstrapped, redeemed, credits, announced>>
  BY DEF FormMoves, Rejects
<1>2. application[m].status \in {"draft", "rejected", "submitted"}
  BY DEF FormMoves, Rejects
<1>3. m \notin bootstrapped /\ account[m].status = "pending"
  <2>1. application[m] # NoApplication
    BY <1>2 DEF NoApplication
  <2>2. m \notin bootstrapped
    BY <1>0, <2>1 DEF Agrees
  <2>3. account[m].status \in {"absent", "pending", "active", "left"}
    BY <1>0, RowTypes DEF AccountRows, AccountStatuses
  <2> QED
    BY <1>0, <1>2, <2>2, <2>3 DEF Agrees
<1> DEFINE Stands ==
      /\ application'[m].status \in {"draft", "rejected", "submitted"}
      /\ application'[m].step \in Steps
      /\ Needed(application'[m].step) \subseteq application'[m].answered
      /\ application'[m].status = "submitted" => application'[m].step = "submitted"
      /\ application'[m].status = "rejected" => application'[m].step = "preview"
<1>4. Stands
  <2>0. application \in [Members -> ApplicationRows]
    BY <1>0, RowTypes
  <2>a. Needed(application[m].step) \subseteq application[m].answered
        /\ application[m].answered \subseteq Fields
    BY <1>0, <2>0 DEF FormStands, ApplicationRows
  <2>1. ASSUME NEW step \in AnswerableSteps, application[m].step = step,
               application' = SavedAnswer(m, step)
        PROVE  Stands
    <3>1. /\ application'[m].status = "draft" /\ application'[m].step = NextStep(step)
          /\ application'[m].answered = application[m].answered \cup AnsweredBy(step)
      BY <2>0, <2>1 DEF SavedAnswer, ApplicationRows
    <3> QED
      BY <2>1, <2>a, <3>1, StepFacts
  <2>2. CASE application[m].status = "draft" /\ application[m].step \in RewindableSteps
             /\ application' = Rewound(m)
    <3>1. /\ application'[m].status = "draft"
          /\ application'[m].step = PreviousStep(application[m].step)
          /\ application'[m].answered = application[m].answered
      BY <2>0, <2>2 DEF Rewound, ApplicationRows
    <3> QED
      BY <2>2, <2>a, <3>1, BackFacts
  <2>3. CASE application[m].step = "preview" /\ application' = SubmittedForReview(m)
    <3>1. /\ application'[m].status = "submitted" /\ application'[m].step = "submitted"
          /\ application'[m].answered = application[m].answered
      BY <2>0, <2>3 DEF SubmittedForReview, ApplicationRows
    <3> QED
      BY <2>3, <2>a, <3>1 DEF Needed, Steps
  <2>4. CASE application[m].status = "rejected" /\ application' = Restarted(m)
    <3>1. /\ application'[m].status = "draft" /\ application'[m].step = "display_name"
          /\ application'[m].answered = application[m].answered
      BY <2>0, <2>4 DEF Restarted, ApplicationRows
    <3>2. Fields \subseteq application[m].answered
      BY <1>0, <2>4 DEF FormStands, Needed
    <3>3. Needed("display_name") \subseteq Fields
      BY DEF Needed, Fields
    <3> QED
      BY <3>1, <3>2, <3>3 DEF Steps
  <2>5. CASE Rejects(m)
    <3>1. /\ application'[m].status = "rejected" /\ application'[m].step = "preview"
          /\ application'[m].answered = application[m].answered
      BY <2>0, <2>5 DEF Rejects, Decided, ApplicationRows
    <3> QED
      BY <2>5, <2>a, <3>1, <1>0 DEF Needed, Steps, FormStands, Rejects
  <2> QED
    BY <2>1, <2>2, <2>3, <2>4, <2>5 DEF FormMoves
<1>5. application'[m].step # "none"
  BY <1>4 DEF Steps
<1>6. credits[m] = 0 /\ m \notin announced
  BY <1>0, <1>2, <1>3 DEF Agrees
<1>7. Agrees(m)' /\ Unknown(m)' /\ FormStands(m)'
  BY <1>1, <1>3, <1>4, <1>5, <1>6 DEF Agrees, Unknown, FormStands
<1> QED
  BY <1>7 DEF MemberInv

LEMMA ApprovesKeeps ==
  ASSUME AdmissionInv, NEW m \in Members, Approves(m)
  PROVE  MemberInv(m)'
<1>0. TypeOK /\ Agrees(m) /\ Unknown(m) /\ FormStands(m)
  BY DEF AdmissionInv, MemberInv
<1>1. UNCHANGED <<bootstrapped, redeemed>> /\ ApproveApplication(m)
  BY DEF Approves
<1>2. m \notin bootstrapped /\ credits[m] = 0 /\ account[m].status # "absent"
  BY <1>0 DEF Agrees, Approves, NoApplication
<1>3. /\ account'[m].status = "active"
      /\ application'[m] = [NoApplication EXCEPT !.status = "approved"]
      /\ credits'[m] = 1
  BY <1>0, <1>1, <1>2, RowTypes DEF ApproveApplication, Decided, Posted, AccountRows
<1>4. Agrees(m)' /\ Unknown(m)' /\ FormStands(m)'
  BY <1>1, <1>2, <1>3 DEF Agrees, Unknown, FormStands, NoApplication, Needed
<1> QED
  BY <1>4 DEF MemberInv

LEMMA RepeatsKeeps ==
  ASSUME AdmissionInv, NEW m \in Members, Repeats(m)
  PROVE  MemberInv(m)'
<1>0. TypeOK /\ MemberInv(m)
  BY DEF AdmissionInv
<1>1. UNCHANGED <<account, application, announced, bootstrapped, redeemed>>
  BY DEF Repeats
<1>2. credits[m] \in Nat /\ credits'[m] = Posted(m)
  BY <1>0, RowTypes DEF Repeats
<1>3. CASE m \in bootstrapped
  <2>1. credits[m] <= 1 /\ credits'[m] <= 1
    BY <1>0, <1>2, <1>3 DEF MemberInv, Agrees, Posted
  <2>2. Agrees(m)' /\ Unknown(m)' /\ FormStands(m)'
    BY <1>0, <1>1, <1>3, <2>1 DEF MemberInv, Agrees, Unknown, FormStands
  <2> QED
    BY <2>2 DEF MemberInv
<1>4. CASE m \notin bootstrapped
  <2>1. application[m].status = "approved"
    BY <1>0, <1>4 DEF MemberInv, Agrees, Repeats, Settled
  <2>2. credits[m] = 1
    BY <1>0, <1>4, <2>1 DEF MemberInv, Agrees
  <2>3. credits'[m] = credits[m]
    BY <1>2, <2>2 DEF Posted
  <2> QED
    BY <1>0, <1>1, <2>3, MemberKept
<1> QED
  BY <1>3, <1>4

LEMMA MembersKeep ==
  ASSUME AdmissionInv, Next
  PROVE  \A m \in Members : MemberInv(m)'
<1>0. TypeOK /\ \A m \in Members : MemberInv(m)
  BY DEF AdmissionInv
<1>1. CASE Quiet
  BY <1>1, QuietKeeps
<1>2. ASSUME NEW n \in Members, StepOf(n), NEW m \in Members
      PROVE  MemberInv(m)'
  <2>1. CASE m = n
    BY <1>2, <2>1, FoundsKeeps, EntersKeeps, FormMovesKeeps, ApprovesKeeps, RepeatsKeeps
       DEF StepOf
  <2>2. CASE m # n
    BY <1>0, <1>2, <2>2, OthersKept, MemberKept
  <2> QED
    BY <2>1, <2>2
<1> QED
  BY <1>0, <1>1, <1>2, StepForms

-----------------------------------------------------------------------------
(* Invitations: whoever redeems one was unknown before, so that the uses    *)
(* count the members.                                                       *)

Admitted(i) == {m \in Members : redeemed[m] = i}
Limit(i) == IF i \in General THEN MaxUses[i] ELSE 1

LimitsOf(i) ==
  /\ invitation[i].uses = Cardinality(Admitted(i))
  /\ invitation[i].uses <= Limit(i)
  /\ i \in Personal => Admitted(i) \subseteq {invitation[i].for}
  /\ invitation[i].revoked => Admitted(i) = {}

\* InvitationLimits, invitation by invitation.
LEMMA LimitsSplit == InvitationLimits <=> \A i \in Invitations : LimitsOf(i)
BY DEF InvitationLimits, LimitsOf, Admitted, Limit

LEMMA LimitsKept ==
  ASSUME AdmissionInv, redeemed' = redeemed, invitation' = invitation \/ InvitationManaged
  PROVE  InvitationLimits'
<1>0. /\ \A i \in Invitations : LimitsOf(i)
      /\ invitation \in [Invitations -> [for : Members \cup {Nobody}, uses : Nat,
                                         revoked : BOOLEAN, expired : BOOLEAN]]
  BY LimitsSplit DEF AdmissionInv, TypeOK
<1>1. \A i \in Invitations : Admitted(i)' = Admitted(i)
  BY DEF Admitted
<1>2. SUFFICES ASSUME NEW i \in Invitations
               PROVE  LimitsOf(i)'
  BY DEF InvitationLimits, LimitsOf, Admitted, Limit
<1>3. CASE invitation' = invitation
  BY <1>0, <1>1, <1>3 DEF LimitsOf, Limit
<1>4. ASSUME NEW j \in Personal, invitation[j].for = Nobody, NEW m \in Members,
             invitation' = IssuedTo(j, m)
      PROVE  LimitsOf(i)'
  <2>1. CASE i = j
    <3>1. Admitted(i) = {}
      <4>1. Admitted(i) \subseteq {Nobody} /\ Admitted(i) \subseteq Members
        BY <1>0, <1>4, <2>1 DEF LimitsOf, Admitted
      <4> QED
        BY <4>1, RolesAssumption
    <3>2. invitation'[i].uses = invitation[i].uses
      BY <1>0, <1>4, <2>1 DEF IssuedTo
    <3> QED
      BY <1>0, <1>1, <3>1, <3>2 DEF LimitsOf, Limit
  <2>2. CASE i # j
    BY <1>0, <1>1, <1>4, <2>2 DEF LimitsOf, Limit, IssuedTo
  <2> QED
    BY <2>1, <2>2
<1>5. ASSUME NEW j \in Invitations, Revocable(j),
             invitation' = [invitation EXCEPT ![j].revoked = TRUE]
      PROVE  LimitsOf(i)'
  <2>1. i = j => Admitted(i) = {}
    <3>1. IsFiniteSet(Admitted(i))
      BY RolesAssumption, FS_Subset DEF Admitted
    <3> QED
      BY <1>0, <1>5, <3>1, FS_EmptySet DEF LimitsOf, Revocable
  <2>2. invitation'[i].uses = invitation[i].uses /\ invitation'[i].for = invitation[i].for
    BY <1>0, <1>5
  <2>3. i # j => invitation'[i].revoked = invitation[i].revoked
    BY <1>0, <1>5
  <2> QED
    BY <1>0, <1>1, <2>1, <2>2, <2>3 DEF LimitsOf, Limit
<1>6. ASSUME NEW j \in Invitations, invitation' = [invitation EXCEPT ![j].expired = TRUE]
      PROVE  LimitsOf(i)'
  <2>1. /\ invitation'[i].uses = invitation[i].uses /\ invitation'[i].for = invitation[i].for
        /\ invitation'[i].revoked = invitation[i].revoked
    BY <1>0, <1>6
  <2> QED
    BY <1>0, <1>1, <2>1 DEF LimitsOf, Limit
<1> QED
  BY <1>3, <1>4, <1>5, <1>6 DEF InvitationManaged

LEMMA LimitsRedeemed ==
  ASSUME AdmissionInv, NEW m \in Members, account[m].status = "absent",
         NEW j \in Invitations, Usable(j, m), AdmitToForm(m, j)
  PROVE  InvitationLimits'
<1>0. /\ \A i \in Invitations : LimitsOf(i)
      /\ invitation \in [Invitations -> [for : Members \cup {Nobody}, uses : Nat,
                                         revoked : BOOLEAN, expired : BOOLEAN]]
      /\ redeemed \in [Members -> Invitations \cup {NoInvitation}]
  BY LimitsSplit DEF AdmissionInv, TypeOK
<1>1. redeemed[m] = NoInvitation /\ NoInvitation \notin Invitations
  BY AdmissionAssumption DEF AdmissionInv, MemberInv, Unknown, Invitations
<1>2. SUFFICES ASSUME NEW i \in Invitations
               PROVE  LimitsOf(i)'
  BY DEF InvitationLimits, LimitsOf, Admitted, Limit
<1>3. redeemed' = [redeemed EXCEPT ![m] = j]
      /\ invitation' = [invitation EXCEPT ![j].uses = @ + 1]
  BY DEF AdmitToForm
<1>4. CASE i = j
  <2>1. Admitted(i)' = Admitted(i) \cup {m} /\ m \notin Admitted(i)
    BY <1>0, <1>1, <1>3, <1>4 DEF Admitted
  <2>2. IsFiniteSet(Admitted(i))
    BY RolesAssumption, FS_Subset DEF Admitted
  <2>3. Cardinality(Admitted(i)') = Cardinality(Admitted(i)) + 1
    BY <2>1, <2>2, FS_AddElement
  <2>4. /\ invitation'[i].uses = invitation[i].uses + 1
        /\ invitation'[i].for = invitation[i].for
        /\ invitation'[i].revoked = invitation[i].revoked
    BY <1>0, <1>3, <1>4
  <2>5. invitation[i].uses < Limit(i) /\ invitation[i].uses \in Nat /\ Limit(i) \in Nat
    BY <1>0, <1>4, AdmissionAssumption DEF Usable, Limit
  <2>6. ~invitation[i].revoked /\ (i \in Personal => invitation[i].for = m)
    BY <1>4 DEF Usable
  <2>7. invitation'[i].uses <= Limit(i)
    BY <2>4, <2>5
  <2> QED
    BY <1>0, <2>1, <2>3, <2>4, <2>6, <2>7 DEF LimitsOf, Limit
<1>5. CASE i # j
  <2>1. Admitted(i)' = Admitted(i)
    BY <1>0, <1>1, <1>3, <1>5 DEF Admitted
  <2>2. invitation'[i] = invitation[i]
    BY <1>0, <1>3, <1>5
  <2> QED
    BY <1>0, <2>1, <2>2 DEF LimitsOf, Limit
<1> QED
  BY <1>4, <1>5

LEMMA LimitsKeep ==
  ASSUME AdmissionInv, Next
  PROVE  InvitationLimits'
<1>0. TypeOK
  BY DEF AdmissionInv
<1>1. CASE Quiet
  BY <1>1, LimitsKept DEF Quiet, registration
<1>2. ASSUME NEW m \in Members, StepOf(m)
      PROVE  InvitationLimits'
  <2>1. CASE Enters(m)
    <3>1. CASE AdmitAtOnce(m)
      BY <3>1, LimitsKept DEF AdmitAtOnce
    <3> QED
      BY <2>1, <3>1, LimitsRedeemed DEF Enters
  <2>2. CASE Founds(m) \/ FormMoves(m) \/ Rejects(m) \/ Approves(m) \/ Repeats(m)
    <3>1. redeemed' = redeemed /\ invitation' = invitation
      BY <2>2 DEF Founds, FormMoves, Rejects, Approves, Repeats, registration
    <3> QED
      BY <3>1, LimitsKept
  <2> QED
    BY <1>2, <2>1, <2>2 DEF StepOf
<1> QED
  BY <1>0, <1>1, <1>2, StepForms

-----------------------------------------------------------------------------
(* Types.                                                                   *)

InvitationRows == [for : Members \cup {Nobody}, uses : Nat,
                   revoked : BOOLEAN, expired : BOOLEAN]
Clicks == {NoClick} \cup [by : Members, member : Members,
                          decision : {"approve", "reject"}, done : BOOLEAN]
Answers == {NoAnswer} \cup [handler : Handlers, member : Members,
                            joined : BOOLEAN, was : AccountStatuses]

\* The parts of TypeOK that registration, the administrators and the chat write.
RowsOK ==
  /\ account \in [Members -> AccountRows]
  /\ bootstrapped \subseteq Members
  /\ application \in [Members -> ApplicationRows]
  /\ redeemed \in [Members -> Invitations \cup {NoInvitation}]
  /\ credits \in [Members -> Nat]
  /\ announced \subseteq Members
  /\ invitation \in [Invitations -> InvitationRows]
RestOK ==
  /\ mode \in {"standard", "simplified"}
  /\ click \in Clicks
  /\ inChat \subseteq Members
  /\ notices \subseteq [member : Members, joined : BOOLEAN]
  /\ onboarding \in [Members -> {"none", "waiting", "completed"}]
  /\ answer \in Answers
  /\ moves \in 0..MaxMoves

LEMMA TypeParts == TypeOK <=> RowsOK /\ RestOK
BY DEF TypeOK, RolesTypeOK, RowsOK, RestOK, AccountRows, ApplicationRows, InvitationRows,
       Clicks, Answers

(* Every form writes well-typed rows.                                       *)
LEMMA FormsTyped ==
  ASSUME TypeOK, NEW m \in Members,
         Enters(m) \/ FormMoves(m) \/ Rejects(m) \/ Approves(m) \/ Repeats(m)
  PROVE  RowsOK'
<1>0. RowsOK
  BY TypeParts
<1>v. MaxVersions \in Nat
  BY AdmissionAssumption
<1>b. bootstrapped' = bootstrapped
  BY DEF Enters, FormMoves, Rejects, Approves, Repeats
<1>1. CASE Enters(m)
  <2>1. CASE AdmitAtOnce(m)
    <3>1. account' \in [Members -> AccountRows]
      BY <2>1, AccountTyped DEF AdmitAtOnce, AccountStatuses
    <3>2. application' \in [Members -> ApplicationRows]
      BY <2>1, <1>0 DEF AdmitAtOnce, RowsOK, ApplicationRows, ApplicationStatuses
    <3>3. credits' \in [Members -> Nat]
      BY <2>1, <1>0 DEF AdmitAtOnce, RowsOK, Posted
    <3> QED
      BY <1>0, <1>b, <2>1, <3>1, <3>2, <3>3 DEF AdmitAtOnce, RowsOK
  <2>2. ASSUME NEW i \in Invitations, AdmitToForm(m, i)
        PROVE  RowsOK'
    <3>1. account' \in [Members -> AccountRows]
      BY <2>2, AccountTyped DEF AdmitToForm, AccountStatuses
    <3>2. application' \in [Members -> ApplicationRows]
      BY <2>2, <1>0, ZenonT(30) DEF AdmitToForm, RowsOK, ApplicationRows, ApplicationStatuses, Steps
    <3>3. invitation' \in [Invitations -> InvitationRows]
      <4>1. invitation[i].uses + 1 \in Nat
        BY <1>0 DEF RowsOK, InvitationRows
      <4> QED
        BY <2>2, <4>1, <1>0 DEF AdmitToForm, RowsOK, InvitationRows
    <3>4. redeemed' \in [Members -> Invitations \cup {NoInvitation}]
      BY <2>2, <1>0 DEF AdmitToForm, RowsOK
    <3> QED
      BY <1>0, <1>b, <2>2, <3>1, <3>2, <3>3, <3>4 DEF AdmitToForm, RowsOK
  <2> QED
    BY <1>1, <2>1, <2>2 DEF Enters
<1>2. CASE FormMoves(m)
  <2>1. application' \in [Members -> ApplicationRows]
    <3>1. ASSUME NEW step \in AnswerableSteps, application' = SavedAnswer(m, step)
          PROVE  application' \in [Members -> ApplicationRows]
      <4>1. /\ NextStep(step) \in Steps
            /\ application[m].answered \cup AnsweredBy(step) \in SUBSET Fields
        BY <1>0, StepFacts DEF RowsOK, ApplicationRows
      <4> DEFINE one == [application EXCEPT ![m].status = "draft"]
                 two == [one EXCEPT ![m].step = NextStep(step)]
                 given == application[m].answered \cup AnsweredBy(step)
                 three == [two EXCEPT ![m].answered = given]
      <4>2. one \in [Members -> ApplicationRows]
        BY <1>0 DEF RowsOK, ApplicationRows, ApplicationStatuses
      <4>3. two \in [Members -> ApplicationRows]
        <5> HIDE DEF one
        <5> QED
          BY <4>1, <4>2 DEF ApplicationRows
      <4>4. three \in [Members -> ApplicationRows]
        <5>1. given \in SUBSET Fields
          BY <4>1
        <5> HIDE DEF two, given
        <5> QED
          BY <4>3, <5>1 DEF ApplicationRows
      <4>5. application' = three
        BY <3>1, Zenon DEF SavedAnswer
      <4> QED
        BY <4>4, <4>5
    <3>2. CASE application[m].step \in RewindableSteps /\ application' = Rewound(m)
      BY <3>2, <1>0, BackFacts DEF Rewound, RowsOK, ApplicationRows
    <3>3. CASE application[m].version < MaxVersions /\ application' = SubmittedForReview(m)
      <4>1. application[m].version + 1 \in 0..MaxVersions
        BY <3>3, <1>0, <1>v DEF RowsOK, ApplicationRows
      <4> QED
        BY <3>3, <4>1, <1>0
           DEF SubmittedForReview, RowsOK, ApplicationRows, ApplicationStatuses, Steps
    <3>4. CASE application' = Restarted(m)
      BY <3>4, <1>0, ZenonT(30) DEF Restarted, RowsOK, ApplicationRows, ApplicationStatuses, Steps
    <3> QED
      BY <1>2, <3>1, <3>2, <3>3, <3>4 DEF FormMoves
  <2> QED
    BY <1>0, <1>2, <2>1 DEF FormMoves, RowsOK
<1>d. Decided(m, "approve") \in [Members -> ApplicationRows]
  <2>1. [NoApplication EXCEPT !.status = "approved"] \in ApplicationRows
    BY <1>v DEF NoApplication, ApplicationRows, ApplicationStatuses
  <2> QED
    BY <1>0, <2>1 DEF Decided, RowsOK
<1>3. CASE Rejects(m)
  <2>1. application' \in [Members -> ApplicationRows]
    BY <1>3, <1>0, ZenonT(30) DEF Rejects, Decided, RowsOK, ApplicationRows, ApplicationStatuses, Steps
  <2> QED
    BY <1>0, <1>3, <2>1 DEF Rejects, RowsOK
<1>4. CASE Approves(m)
  <2>1. account' \in [Members -> AccountRows]
    BY <1>4, AccountTyped DEF Approves, ApproveApplication, AccountStatuses
  <2>2. credits' \in [Members -> Nat]
    BY <1>4, <1>0 DEF Approves, ApproveApplication, RowsOK, Posted
  <2> QED
    BY <1>0, <1>d, <1>4, <2>1, <2>2 DEF Approves, ApproveApplication, RowsOK
<1>5. CASE Repeats(m)
  <2>1. credits' \in [Members -> Nat]
    BY <1>5, <1>0 DEF Repeats, RowsOK, Posted
  <2> QED
    BY <1>0, <1>5, <2>1 DEF Repeats, RowsOK
<1> QED
  BY <1>1, <1>2, <1>3, <1>4, <1>5

(* Steps that write no application write accounts and invitations of their  *)
(* type.                                                                    *)
LEMMA InvitationTyped ==
  ASSUME TypeOK, invitation' = invitation \/ InvitationManaged
  PROVE  invitation' \in [Invitations -> InvitationRows]
<1>0. invitation \in [Invitations -> InvitationRows]
  BY TypeParts DEF RowsOK
<1>1. ASSUME NEW i \in Invitations, NEW m \in Members, invitation' = IssuedTo(i, m)
      PROVE  invitation' \in [Invitations -> InvitationRows]
  BY <1>0, <1>1 DEF IssuedTo, InvitationRows
<1>2. ASSUME NEW i \in Invitations,
             \/ invitation' = [invitation EXCEPT ![i].revoked = TRUE]
             \/ invitation' = [invitation EXCEPT ![i].expired = TRUE]
      PROVE  invitation' \in [Invitations -> InvitationRows]
  BY <1>0, <1>2 DEF InvitationRows
<1> QED
  BY <1>0, <1>1, <1>2 DEF InvitationManaged

LEMMA RowsTyped ==
  ASSUME TypeOK, Next
  PROVE  RowsOK'
<1>0. RowsOK
  BY TypeParts
<1>1. CASE Quiet
  <2>1. invitation' \in [Invitations -> InvitationRows]
    BY <1>1, InvitationTyped DEF Quiet
  <2> QED
    BY <1>0, <1>1, <2>1 DEF Quiet, StatusKept, RowsOK, registration
<1>2. ASSUME NEW m \in Members, StepOf(m)
      PROVE  RowsOK'
  <2>1. CASE Founds(m)
    <3>1. account' \in [Members -> AccountRows]
      BY <2>1, AccountTyped DEF Founds, Bootstrap
    <3>2. bootstrapped' \subseteq Members /\ UNCHANGED <<registration, invitation>>
      BY <1>0, <2>1 DEF Founds, Bootstrap, RowsOK
    <3> QED
      BY <1>0, <3>1, <3>2 DEF RowsOK, registration
  <2> QED
    BY <1>2, <2>1, FormsTyped DEF StepOf
<1> QED
  BY <1>1, <1>2, StepForms

(* The clicks, the chat and what handlers hold.                             *)
LEMMA EntryTyped ==
  ASSUME TypeOK, NEW m \in Members, Enter(m)
  PROVE  onboarding' \in [Members -> {"none", "waiting", "completed"}]
<1>1. onboarding \in [Members -> {"none", "waiting", "completed"}]
  BY DEF TypeOK
<1> QED
  BY <1>1 DEF Enter

LEMMA RecordsTyped ==
  ASSUME TypeOK, NEW m \in Members, RecordDeparture(m) \/ RecordArrival(m)
  PROVE  onboarding' \in [Members -> {"none", "waiting", "completed"}]
<1>1. onboarding \in [Members -> {"none", "waiting", "completed"}]
  BY DEF TypeOK
<1>2. CASE RecordDeparture(m)
  BY <1>1, <1>2 DEF RecordDeparture
<1>3. CASE RecordArrival(m)
  BY <1>1, <1>3 DEF RecordArrival
<1> QED
  BY <1>2, <1>3

LEMMA RestTyped ==
  ASSUME TypeOK, Next
  PROVE  RestOK'
<1>0. RestOK
  BY TypeParts
<1>m. /\ Answering \subseteq Members /\ Movers \subseteq Members /\ MaxMoves \in Nat
      /\ Applicants \subseteq Members
  BY AdmissionAssumption
<1>1. CASE Administer
  BY <1>0, <1>1 DEF Administer, RestOK, admin, chat
<1>2. ASSUME NEW a \in Members, SetPolicy(a)
      PROVE  RestOK'
  BY <1>0, <1>2 DEF SetPolicy, RestOK, chat
<1>3. ASSUME NEW a \in Members,
             \/ \E i \in Personal, m \in Applicants : CreateInvitation(a, i, m)
             \/ \E i \in Invitations : RevokeInvitation(a, i)
      PROVE  RestOK'
  BY <1>0, <1>3 DEF CreateInvitation, RevokeInvitation, RestOK, chat
<1>4. ASSUME NEW i \in Personal, InvitationExpires(i)
      PROVE  RestOK'
  BY <1>0, <1>4 DEF InvitationExpires, RestOK, chat
<1>5. ASSUME NEW a \in Members, NEW m \in Answering, NEW decision \in {"approve", "reject"},
             BeginDecision(a, m, decision)
      PROVE  RestOK'
  <2>1. click' \in Clicks
    BY <1>5, <1>m DEF BeginDecision, Clicks
  <2> QED
    BY <1>0, <1>5, <2>1 DEF BeginDecision, RestOK, chat
<1>6. CASE Decide
  <2>1. click' \in Clicks
    BY <1>0, <1>6 DEF Decide, Unanswered, RestOK, Clicks
  <2> QED
    BY <1>0, <1>6, <2>1 DEF Decide, RestOK, chat
<1>7. CASE EndDecision
  BY <1>0, <1>7 DEF EndDecision, RestOK, Clicks, chat
<1>8. ASSUME NEW m \in Answering, ApplicantNext(m)
      PROVE  RestOK'
  <2>1. UNCHANGED <<admin, chat, onboarding, answer>>
    BY <1>8 DEF ApplicantNext, AnswerStep, StepBack, Submit, Reopen
  <2> QED
    BY <1>0, <2>1 DEF RestOK, admin, chat
<1>9. ASSUME NEW m \in Movers, Move(m)
      PROVE  RestOK'
  <2>1. moves' \in 0..MaxMoves
    BY <1>0, <1>9, <1>m DEF Move, RestOK
  <2>2. inChat' \subseteq Members
    BY <1>0, <1>9, <1>m DEF Move, RestOK
  <2>3. notices' \subseteq [member : Members, joined : BOOLEAN]
    <3>1. [member |-> m, joined |-> m \notin inChat] \in [member : Members, joined : BOOLEAN]
      <4>1. (m \notin inChat) \in BOOLEAN /\ m \in Members
        BY <1>m
      <4> QED
        BY <4>1, Zenon
    <3> QED
      BY <1>0, <1>9, <3>1, Zenon DEF Move, RestOK
  <2> QED
    BY <1>0, <1>9, <2>1, <2>2, <2>3 DEF Move, RestOK, admin
<1>10. ASSUME NEW m \in Movers, BeginOnboarding(m)
       PROVE  RestOK'
  BY <1>0, <1>m, <1>10 DEF BeginOnboarding, RestOK, admin, chat
<1>11. ASSUME NEW m \in Movers, NEW handler \in Handlers, AskTelegram(m, handler)
       PROVE  RestOK'
  <2>1. answer' \in Answers
    <3>1. account[m].status \in AccountStatuses
      BY <1>m, RowTypes DEF AccountRows
    <3> QED
      BY <1>m, <1>11, <3>1 DEF AskTelegram, Answers
  <2> QED
    BY <1>0, <1>11, <2>1 DEF AskTelegram, RestOK, admin, chat
<1>12. ASSUME NEW m \in Members, NEW i \in Invitations \cup {NoInvitation},
              AuthenticateResident(m, i)
       PROVE  RestOK'
  BY <1>0, <1>12 DEF AuthenticateResident, RestOK, chat
<1>13. ASSUME NEW n \in notices, NEW lost \in BOOLEAN, Deliver(n, lost)
       PROVE  RestOK'
  <2>1. onboarding' \in [Members -> {"none", "waiting", "completed"}]
    <3>1. n.member \in Members
      BY <1>0 DEF RestOK
    <3>2. CASE RecordDeparture(n.member)
      BY <3>1, <3>2, RecordsTyped
    <3>3. CASE Enter(n.member)
      BY <3>1, <3>3, EntryTyped
    <3>4. CASE onboarding' = onboarding
      BY <1>0, <3>4 DEF RestOK
    <3> QED
      BY <1>13, <3>2, <3>3, <3>4 DEF Deliver
  <2> QED
    BY <1>0, <1>13, <2>1 DEF Deliver, RestOK
<1>14. CASE ReturningStart
  <2>1. onboarding' \in [Members -> {"none", "waiting", "completed"}]
    <3>1. answer.member \in Members
      BY <1>0, <1>14 DEF RestOK, ReturningStart, Answers, NoAnswer
    <3>2. CASE RecordDeparture(answer.member) \/ RecordArrival(answer.member)
      BY <3>1, <3>2, RecordsTyped
    <3>3. CASE onboarding' = onboarding
      BY <1>0, <3>3 DEF RestOK
    <3> QED
      BY <1>14, <3>2, <3>3 DEF ReturningStart
  <2> QED
    BY <1>0, <1>14, <2>1 DEF ReturningStart, RestOK, Answers, admin, chat
<1>15. CASE ContinueOnboarding
  <2>1. onboarding' \in [Members -> {"none", "waiting", "completed"}]
    <3>1. answer.member \in Members
      BY <1>0, <1>15 DEF RestOK, ContinueOnboarding, Answers, NoAnswer
    <3>2. CASE Enter(answer.member)
      BY <3>1, <3>2, EntryTyped
    <3>3. CASE onboarding' = onboarding
      BY <1>0, <3>3 DEF RestOK
    <3> QED
      BY <1>15, <3>2, <3>3 DEF ContinueOnboarding
  <2> QED
    BY <1>0, <1>15, <2>1 DEF ContinueOnboarding, RestOK, Answers, chat
<1>16. ASSUME NEW i \in Invitations \cup {NoInvitation}, AuthenticateWeb(i)
       PROVE  RestOK'
  BY <1>0, <1>16 DEF AuthenticateWeb, RestOK, Answers, chat
<1>17. CASE AdministrationNext
  BY <1>1, <1>2, <1>3, <1>4, <1>5, <1>6, <1>7, <1>17 DEF AdministrationNext
<1>18. CASE PresenceNext
  BY <1>m, <1>9, <1>10, <1>11, <1>12, <1>13, <1>14, <1>15, <1>16, <1>18
     DEF PresenceNext, UseAnswer
<1> QED
  BY <1>8, <1>17, <1>18 DEF Next

-----------------------------------------------------------------------------
(* The community begins in agreement.                                       *)
LEMMA InitiallyAgreed == Init => AdmissionInv
<1> SUFFICES ASSUME Init PROVE AdmissionInv
  OBVIOUS
<1>1. PICK legacy \in SUBSET LegacyDrafts :
        /\ account = [m \in Members |-> IF m = Staff THEN Participant("active")
                                        ELSE IF m \in legacy THEN Participant("pending")
                                        ELSE Absent]
        /\ application \in {f \in [Members -> LegacyApplications \cup {NoApplication,
                              [NoApplication EXCEPT !.status = "approved"]}] :
                              \A m \in Members :
                                IF m \in legacy THEN f[m] \in LegacyApplications
                                ELSE f[m] = [NoApplication EXCEPT !.status =
                                       IF m = Staff THEN "approved" ELSE "none"]}
        /\ \E i \in General :
             /\ redeemed = [m \in Members |-> IF m \in legacy THEN i ELSE NoInvitation]
             /\ Cardinality(legacy) <= MaxUses[i]
             /\ invitation = [j \in Invitations |->
                  [for |-> Nobody, revoked |-> FALSE, expired |-> FALSE,
                   uses |-> IF j = i THEN Cardinality(legacy) ELSE 0]]
  BY DEF Init
<1>2. PICK i \in General :
        /\ redeemed = [m \in Members |-> IF m \in legacy THEN i ELSE NoInvitation]
        /\ Cardinality(legacy) <= MaxUses[i]
        /\ invitation = [j \in Invitations |->
             [for |-> Nobody, revoked |-> FALSE, expired |-> FALSE,
              uses |-> IF j = i THEN Cardinality(legacy) ELSE 0]]
  BY <1>1
<1>3. /\ legacy \subseteq Members /\ Staff \notin legacy
      /\ IsFiniteSet(legacy) /\ Cardinality(legacy) \in Nat
      /\ NoInvitation \notin Invitations /\ i \in Invitations /\ i \notin Personal
      /\ MaxVersions \in Nat
  <2>1. legacy \subseteq Members /\ Staff \notin legacy
    BY AdmissionAssumption
  <2>2. IsFiniteSet(legacy)
    BY <2>1, RolesAssumption, FS_Subset
  <2> QED
    BY <2>1, <2>2, AdmissionAssumption, FS_CardinalityType DEF Invitations
<1>4. \A m \in Members :
        /\ m \in legacy => /\ application[m] \in LegacyApplications
                           /\ account[m] = Participant("pending")
        /\ m \notin legacy /\ m # Staff => application[m] = NoApplication /\ account[m] = Absent
        /\ m = Staff => /\ application[m] = [NoApplication EXCEPT !.status = "approved"]
                        /\ account[m] = Participant("active")
  <2>1. [NoApplication EXCEPT !.status = "none"] = NoApplication
    BY DEF NoApplication
  <2> QED
    BY <1>1, <1>3, <2>1
<1>5. LegacyApplications \subseteq ApplicationRows
  BY <1>3 DEF LegacyApplications, ApplicationRows, ApplicationStatuses, Steps, Fields,
              RequiredFields
<1>6. {NoApplication, [NoApplication EXCEPT !.status = "approved"]} \subseteq ApplicationRows
  BY <1>3 DEF NoApplication, ApplicationRows, ApplicationStatuses
<1>7. {Absent, Participant("active"), Participant("pending")} \subseteq AccountRows
  BY DEF Absent, Participant, AccountRows, AccountStatuses, Ranks
<1>8. RowsOK
  <2>1. account \in [Members -> AccountRows]
    BY <1>1, <1>7
  <2>2. application \in [Members -> ApplicationRows]
    BY <1>1, <1>5, <1>6
  <2>3. redeemed \in [Members -> Invitations \cup {NoInvitation}]
    BY <1>2, <1>3
  <2>4. invitation \in [Invitations -> InvitationRows]
    BY <1>2, <1>3 DEF InvitationRows
  <2>5. credits \in [Members -> Nat] /\ bootstrapped \subseteq Members /\ announced \subseteq Members
    BY DEF Init
  <2> QED
    BY <2>1, <2>2, <2>3, <2>4, <2>5 DEF RowsOK
<1>9. RestOK
  <2>1. click \in Clicks /\ answer \in Answers
    BY DEF Init, Clicks, Answers
  <2>2. moves \in 0..MaxMoves
    BY AdmissionAssumption DEF Init
  <2> QED
    BY <2>1, <2>2 DEF Init, RestOK
<1>10. ASSUME NEW m \in Members
       PROVE  MemberInv(m)
  <2>0. /\ bootstrapped = {} /\ announced = {}
        /\ credits[m] = IF m = Staff THEN 1 ELSE 0
        /\ redeemed[m] = IF m \in legacy THEN i ELSE NoInvitation
    BY <1>2 DEF Init
  <2>1. CASE m \in legacy
    <3>1. /\ account[m].status = "pending" /\ application[m] \in LegacyApplications
          /\ credits[m] = 0
      BY <1>3, <1>4, <2>0, <2>1 DEF Participant, Absent
    <3>2. /\ application[m].status = "draft"
          /\ application[m].step \in {"timezone", "current_goal", "help_categories", "availability"}
          /\ Needed(application[m].step) \subseteq application[m].answered
      BY <3>1 DEF LegacyApplications, Needed
    <3> QED
      BY <2>0, <3>1, <3>2 DEF MemberInv, Agrees, Unknown, FormStands
  <2>2. CASE m = Staff
    <3>1. /\ account[m].status = "active" /\ credits[m] = 1
          /\ application[m] = [NoApplication EXCEPT !.status = "approved"]
      BY <1>4, <2>0, <2>2 DEF Participant, Absent
    <3>2. Agrees(m) /\ Unknown(m) /\ FormStands(m)
      BY <2>0, <3>1 DEF Agrees, Unknown, FormStands, NoApplication, Needed
    <3> QED
      BY <3>2 DEF MemberInv
  <2>3. CASE m \notin legacy /\ m # Staff
    <3>1. account[m].status = "absent" /\ application[m] = NoApplication /\ credits[m] = 0
      BY <1>4, <2>0, <2>3 DEF Absent
    <3>2. Agrees(m) /\ Unknown(m) /\ FormStands(m)
      BY <2>0, <2>3, <3>1 DEF Agrees, Unknown, FormStands, NoApplication, Needed
    <3> QED
      BY <3>2 DEF MemberInv
  <2> QED
    BY <2>1, <2>2, <2>3
<1>11. InvitationLimits
  <2>1. ASSUME NEW j \in Invitations
        PROVE  LimitsOf(j)
    <3>1. CASE j = i
      <4>1. Admitted(j) = legacy
        BY <1>2, <1>3, <3>1 DEF Admitted
      <4> QED
        BY <1>2, <1>3, <3>1, <4>1 DEF LimitsOf, Limit
    <3>2. CASE j # i
      <4>1. Admitted(j) = {}
        BY <1>2, <1>3, <3>2 DEF Admitted
      <4>2. Limit(j) \in Nat
        BY AdmissionAssumption DEF Limit
      <4> QED
        BY <1>2, <3>2, <4>1, <4>2, FS_EmptySet DEF LimitsOf
    <3> QED
      BY <3>1, <3>2
  <2> QED
    BY <2>1, LimitsSplit
<1> QED
  BY <1>8, <1>9, <1>10, <1>11, TypeParts DEF AdmissionInv

LEMMA AdmissionStep == AdmissionInv /\ [Next]_vars => AdmissionInv'
<1> SUFFICES ASSUME AdmissionInv, [Next]_vars PROVE AdmissionInv'
  OBVIOUS
<1>1. CASE Next
  <2>1. TypeOK'
    <3>1. TypeOK
      BY DEF AdmissionInv
    <3>2. RowsOK' /\ RestOK'
      BY <1>1, <3>1, RowsTyped, RestTyped
    <3>3. RowsOK' /\ RestOK' => TypeOK'
      BY DEF TypeOK, RolesTypeOK, RowsOK, RestOK, AccountRows, ApplicationRows,
             InvitationRows, Clicks, Answers
    <3> QED
      BY <3>2, <3>3
  <2> QED
    BY <1>1, <2>1, MembersKeep, LimitsKeep DEF AdmissionInv
<1>2. CASE UNCHANGED vars
  <2>1. TypeOK'
    BY <1>2 DEF AdmissionInv, vars, registration, admin, chat, TypeOK, RolesTypeOK
  <2>2. \A m \in Members : MemberInv(m)'
    BY <1>2 DEF AdmissionInv, vars, registration, MemberInv, Agrees, Unknown, FormStands
  <2>3. InvitationLimits'
    BY <1>2 DEF AdmissionInv, vars, registration, admin, InvitationLimits
  <2> QED
    BY <2>1, <2>2, <2>3 DEF AdmissionInv
<1> QED
  BY <1>1, <1>2

LEMMA AdmissionAlways == Spec => []AdmissionInv
<1> QED
  BY InitiallyAgreed, AdmissionStep, PTL DEF Spec

-----------------------------------------------------------------------------
(* Every reachable state is well typed.                                     *)
THEOREM TypeCorrect == Spec => []TypeOK
<1>1. AdmissionInv => TypeOK
  BY DEF AdmissionInv
<1> QED
  BY <1>1, AdmissionAlways, PTL

(* Account, application, conversation and starting grant of a member agree, *)
(* whatever starts, submissions, decisions, repeats and departures there    *)
(* were and in what order.                                                  *)
THEOREM Admissions == Spec => []AdmittedOnce
<1>1. AdmissionInv => AdmittedOnce
  BY DEF AdmissionInv, MemberInv, Agrees, AdmittedOnce
<1> QED
  BY <1>1, AdmissionAlways, PTL

(* A form that looks complete is complete.                                  *)
THEOREM Previews == Spec => []PreviewIsComplete
<1>1. AdmissionInv => PreviewIsComplete
  <2> SUFFICES ASSUME AdmissionInv, NEW m \in Members,
                      application[m].step \in {"preview", "submitted"}
               PROVE  application[m].answered = Fields
    BY DEF PreviewIsComplete
  <2>1. application[m].answered \subseteq Fields
    BY RowTypes DEF AdmissionInv, ApplicationRows
  <2>2. Needed(application[m].step) \subseteq application[m].answered
    BY DEF AdmissionInv, MemberInv, FormStands
  <2> QED
    BY <2>1, <2>2 DEF Needed
<1> QED
  BY <1>1, AdmissionAlways, PTL

(* No invitation admits more members than it may, nor anybody once revoked. *)
THEOREM Limits == Spec => []InvitationLimits
<1>1. AdmissionInv => InvitationLimits
  BY DEF AdmissionInv
<1> QED
  BY <1>1, AdmissionAlways, PTL

\* One step of DecisionIsWarranted.
Warranted ==
  \A m \in Members :
    application[m].status = "submitted" /\ application'[m].status # "submitted"
      => /\ click.member = m /\ ~click.done
         /\ click.by \in ActiveAdministrators

(* Only the second transaction of a decision takes an application out of    *)
(* review: an applicant cannot move a form that is under review, and who    *)
(* enters has no application yet.                                           *)
LEMMA WarrantedStep == AdmissionInv /\ Next => Warranted
<1> SUFFICES ASSUME AdmissionInv, Next, NEW m \in Members,
                    application[m].status = "submitted",
                    application'[m].status # "submitted"
             PROVE  Decide /\ click.member = m
  BY DEF Warranted, Decide, Unanswered, Authorized, MayModerate
<1>0. TypeOK /\ MemberInv(m)
  BY DEF AdmissionInv
<1>m. Answering \subseteq Members
  BY AdmissionAssumption
<1>1. application'[m] # application[m]
  OBVIOUS
<1>2. ~Quiet
  BY <1>1 DEF Quiet, registration
<1>3. ASSUME NEW n \in Members, StepOf(n)
      PROVE  n = m
  BY <1>0, <1>1, <1>3, OthersKept
<1>4. ~Founds(m) /\ ~Repeats(m)
  BY <1>1 DEF Founds, Repeats, registration
<1>5. ~Enters(m)
  BY <1>0 DEF Enters, MemberInv, Unknown, NoApplication
<1>6. CASE Decide
  <2>1. \A n \in Members : n # click.member => application'[n] = application[n]
    BY <1>0, <1>6, RowTypes DEF Decide, Approve, ApproveApplication, Reject, Decided
  <2> QED
    BY <1>1, <1>6, <2>1
<1>7. CASE Administer
  BY <1>1, <1>7 DEF Administer, registration
<1>8. CASE AdministrationNext
  <2>1. CASE Decide
    BY <2>1, <1>6
  <2>2. CASE ~Decide
    BY <1>1, <1>7, <1>8, <2>2
       DEF AdministrationNext, SetPolicy, CreateInvitation, RevokeInvitation,
           InvitationExpires, BeginDecision, EndDecision, registration
  <2> QED
    BY <2>1, <2>2
<1>9. ASSUME NEW n \in Answering, ApplicantNext(n)
      PROVE  FALSE
  <2>1. n = m
    BY <1>3, <1>9, <1>m, ApplicantForms DEF StepOf
  <2> QED
    BY <1>9, <2>1 DEF ApplicantNext, AnswerStep, StepBack, Submit, Reopen
<1>10. ~PresenceNext
  BY <1>0, <1>2, <1>3, <1>5, PresenceForms DEF StepOf
<1> QED
  BY <1>8, <1>9, <1>10 DEF Next

(* A submitted application is decided only by an unanswered request of      *)
(* somebody who is active staff at that moment.                             *)
THEOREM Decisions == Spec => DecisionIsWarranted
<1>1. AdmissionInv /\ [Next]_vars => [Warranted]_vars
  BY WarrantedStep
<1> QED
  BY <1>1, AdmissionAlways, PTL DEF Spec, DecisionIsWarranted, Warranted

-----------------------------------------------------------------------------
(* Sanctions of one member.                                                 *)

(* Sanctions are numbered in the order of issue, without gaps.              *)
InOrder == \E n \in 0..MaxSanctions : Issued = 1..n

-----------------------------------------------------------------------------
(* A non-empty set of ids has a greatest member, and Max names one of it.   *)
LEMMA MaxIsMember ==
  ASSUME NEW S \in SUBSET Ids, S # {}
  PROVE  Max(S) \in S
<1>1. MaxSanctions \in Nat
  BY SanctionsAssumption
<1>2. \A i \in S : i \in Nat /\ MaxSanctions - i \in Nat
  BY <1>1 DEF Ids
<1> DEFINE T == {MaxSanctions - i : i \in S}
<1>3. T \subseteq Nat /\ T # {}
  BY <1>2
<1>4. PICK x \in T : \A y \in T : ~(<<y, x>> \in OpToRel(<, Nat))
  BY <1>3, NatLessThanWellFounded, WFMin
<1>5. \A y \in T : ~(y < x)
  BY <1>3, <1>4 DEF OpToRel
<1>6. PICK i \in S : x = MaxSanctions - i
  OBVIOUS
<1>7. \A j \in S : i >= j
  <2> TAKE j \in S
  <2>1. ~(MaxSanctions - j < MaxSanctions - i)
    BY <1>5, <1>6
  <2>2. i \in Nat /\ j \in Nat
    BY <1>2
  <2> QED
    BY <2>1, <2>2, <1>1
<1> QED
  BY <1>7 DEF Max
-----------------------------------------------------------------------------
(* Types.                                                                   *)

(* A row whose state changes to one of the states is still a sanction.      *)
LEMMA ClosedRow ==
  ASSUME SanctionsTypeOK, NEW i \in Issued, NEW s \in SanctionStates
  PROVE  /\ [sanctions EXCEPT ![i].state = s] \in [Ids -> SanctionRows \cup {NoSanction}]
         /\ \A j \in Ids : /\ [sanctions EXCEPT ![i].state = s][j].kind = sanctions[j].kind
                           /\ [sanctions EXCEPT ![i].state = s][j].state =
                                IF j = i THEN s ELSE sanctions[j].state
<1>1. i \in Ids /\ sanctions[i].kind # "none"
  BY DEF Issued
<1>2. sanctions[i] \in SanctionRows
  BY <1>1 DEF SanctionsTypeOK, NoSanction
<1>3. [sanctions[i] EXCEPT !.state = s] \in SanctionRows
  BY <1>2 DEF SanctionRows
<1> QED
  BY <1>1, <1>2, <1>3 DEF SanctionsTypeOK, SanctionRows

(* The sanction a load releases is an issued suspension that has elapsed    *)
(* while none is running.                                                   *)
LEMMA ReleasedSanction ==
  ASSUME SanctionsTypeOK, Releasable # {}
  PROVE  /\ Max(Releasable) \in Lapsed
         /\ Max(Releasable) \in Issued \ {0}
         /\ ~Suspended
         /\ sanctions[Max(Releasable)].previous \in MemberStatuses
<1>1. Releasable = Lapsed /\ ~Suspended
  BY DEF Releasable
<1>2. Releasable \in SUBSET Ids /\ 0 \notin Ids
  BY <1>1, SanctionsAssumption DEF Lapsed, Issued, Ids
<1>3. Max(Releasable) \in Lapsed
  BY <1>1, <1>2, MaxIsMember
<1>4. /\ sanctions[Max(Releasable)] \in SanctionRows
      /\ sanctions[Max(Releasable)].kind = "suspension"
  BY <1>3 DEF SanctionsTypeOK, Lapsed, Issued, NoSanction
<1> QED
  BY <1>1, <1>2, <1>3, <1>4 DEF Lapsed, SanctionRows, AppliedStatus

(* An account without sanctions is well typed.                              *)
LEMMA TypeInit == SanctionsInit => SanctionsTypeOK /\ InOrder
<1> SUFFICES ASSUME SanctionsInit PROVE SanctionsTypeOK /\ InOrder
  OBVIOUS
<1>1. Issued = {}
  BY DEF SanctionsInit, Issued, NoSanction
<1>2. Issued = 1..0 /\ 0 \in 0..MaxSanctions
  BY <1>1, SanctionsAssumption
<1> QED
  BY <1>1, <1>2 DEF SanctionsInit, SanctionsTypeOK, InOrder, MemberStatuses, BlockedStatuses

(* The next id has not been used.                                           *)
LEMMA NextIdIsFree ==
  ASSUME SanctionsTypeOK, InOrder, Cardinality(Issued) + 1 \in Ids
  PROVE  /\ Issued = 1..Cardinality(Issued)
         /\ sanctions[Cardinality(Issued) + 1] = NoSanction
<1>1. PICK n \in 0..MaxSanctions : Issued = 1..n
  BY DEF InOrder
<1>2. n \in Nat
  BY <1>1, SanctionsAssumption
<1>3. Cardinality(1..n) = n
  BY <1>2, FS_Interval
<1>4. n + 1 \notin Issued
  BY <1>1, <1>2
<1> QED
  BY <1>1, <1>3, <1>4 DEF SanctionsTypeOK, Issued, SanctionRows, Kinds

(* Every action keeps the variables within their values and the ids dense.  *)
LEMMA TypeStep ==
  SanctionsTypeOK /\ InOrder /\ [SanctionsNext]_sanctionVars => SanctionsTypeOK' /\ InOrder'
<1> SUFFICES ASSUME SanctionsTypeOK, InOrder, [SanctionsNext]_sanctionVars PROVE SanctionsTypeOK' /\ InOrder'
  OBVIOUS
<1>a. MaxSanctions \in Nat /\ 0 \notin Ids
  BY SanctionsAssumption DEF Ids
<1>b. /\ status \in MemberStatuses /\ elapsed \subseteq Issued /\ reader \in {0} \cup Suspensions
      /\ sanctions \in [Ids -> SanctionRows \cup {NoSanction}]
      /\ revoking \in [Moderators -> [id : Issued, seen : SanctionStates] \cup {NotRevoking}]
  BY DEF SanctionsTypeOK
<1>c. ASSUME UNCHANGED sanctions PROVE Issued' = Issued /\ Suspensions' = Suspensions
  BY <1>c DEF Issued, Suspensions
<1>d. ASSUME NEW i \in Issued, NEW s \in SanctionStates,
             sanctions' = [sanctions EXCEPT ![i].state = s]
      PROVE  /\ Issued' = Issued /\ Suspensions' = Suspensions
             /\ sanctions' \in [Ids -> SanctionRows \cup {NoSanction}]
  <2>1. \A j \in Ids : sanctions'[j].kind = sanctions[j].kind
    BY <1>d, ClosedRow
  <2> QED
    BY <2>1, <1>d, ClosedRow DEF Issued, Suspensions
<1>e. \A m \in Moderators : revoking[m] # NotRevoking => revoking[m].id \in Issued
                                                  /\ revoking[m].seen \in SanctionStates
  BY <1>b
<1>1. CASE ChangeStatus
  BY <1>1, <1>b, <1>c DEF ChangeStatus, SanctionsTypeOK, InOrder, MemberStatuses
<1>2. ASSUME NEW kind \in Kinds, IssueSanction(kind) PROVE SanctionsTypeOK' /\ InOrder'
  <2> DEFINE id == Cardinality(Issued) + 1
             row == [kind |-> kind, state |-> "active", previous |-> RecordedStatus(kind)]
  <2>1. id \in Ids /\ Issued = 1..Cardinality(Issued) /\ Cardinality(Issued) \in Nat
    <3>1. id \in Ids
      BY <1>2 DEF IssueSanction
    <3>2. IsFiniteSet(Issued)
      <4>1. IsFiniteSet(Ids) /\ Issued \subseteq Ids
        BY <1>a, FS_Interval DEF Issued, Ids
      <4> QED
        BY <4>1, FS_Subset
    <3> QED
      BY <3>1, <3>2, NextIdIsFree, FS_CardinalityType
  <2>2. row \in SanctionRows
    BY <1>b DEF SanctionRows, SanctionStates, RecordedStatus, MemberStatuses, AppliedStatus, Kinds, BlockedStatuses
  <2>3. sanctions' = [sanctions EXCEPT ![id] = row]
    BY <1>2 DEF IssueSanction
  <2>4. sanctions' \in [Ids -> SanctionRows \cup {NoSanction}]
    BY <2>2, <2>3, <1>b
  <2>5. Issued' = Issued \cup {id} /\ Suspensions \subseteq Suspensions'
    <3>1. id \notin Issued
      BY <2>1
    <3> QED
      BY <2>1, <2>3, <3>1, <1>b DEF Issued, Suspensions, Kinds
  <2>6. id \in 0..MaxSanctions /\ Issued' = 1..id
    BY <2>1, <2>5, <1>a DEF Ids
  <2>7. status' \in MemberStatuses
    BY <1>2, <1>b DEF IssueSanction, AppliedStatus, MemberStatuses, BlockedStatuses
  <2> QED
    BY <2>4, <2>5, <2>6, <2>7, <1>b, <1>2 DEF IssueSanction, SanctionsTypeOK, InOrder
<1>3. ASSUME NEW i \in Ids, Elapse(i) PROVE SanctionsTypeOK' /\ InOrder'
  BY <1>3, <1>b, <1>c DEF Elapse, SanctionsTypeOK, InOrder
<1>4. ASSUME NEW m \in Moderators, NEW i \in Ids, LoadForRevocation(m, i)
      PROVE  SanctionsTypeOK' /\ InOrder'
  <2>1. sanctions[i].state \in SanctionStates
    BY <1>4, <1>b DEF LoadForRevocation, Issued, SanctionRows, NoSanction
  <2> QED
    BY <1>4, <2>1, <1>b, <1>c DEF LoadForRevocation, SanctionsTypeOK, InOrder
<1>5. ASSUME NEW m \in Moderators, Revoke(m) PROVE SanctionsTypeOK' /\ InOrder'
  <2> DEFINE i == revoking[m].id
  <2>1. i \in Issued /\ sanctions' = [sanctions EXCEPT ![i].state = "revoked"]
    BY <1>5, <1>e DEF Revoke, StillActive, NotRevoking
  <2>2. /\ Issued' = Issued /\ Suspensions' = Suspensions
        /\ sanctions' \in [Ids -> SanctionRows \cup {NoSanction}]
    BY <2>1, <1>d DEF SanctionStates
  <2>3. sanctions[i] \in SanctionRows
    BY <2>1, <1>b DEF Issued, NoSanction
  <2>4. status' \in MemberStatuses
    BY <1>5, <2>3, <1>b DEF Revoke, RestoredStatus, SanctionRows, MemberStatuses, BlockedStatuses
  <2> QED
    BY <2>2, <2>4, <1>5, <1>b DEF Revoke, SanctionsTypeOK, InOrder
<1>6. ASSUME NEW m \in Moderators, LeaveRevocation(m) PROVE SanctionsTypeOK' /\ InOrder'
  BY <1>6, <1>b, <1>c DEF LeaveRevocation, SanctionsTypeOK, InOrder
<1>7. CASE LoadMember
  BY <1>7, <1>b, <1>c, ReleasedSanction DEF LoadMember, SanctionsTypeOK, InOrder, Lapsed, Suspensions
<1>8. CASE Materialize
  <2>1. reader \in Issued /\ sanctions[reader].kind = "suspension"
    BY <1>8, <1>b DEF Materialize, Suspensions
  <2>2. /\ Issued' = Issued /\ Suspensions' = Suspensions
        /\ sanctions' \in [Ids -> SanctionRows \cup {NoSanction}]
    BY <1>8, <2>1, <1>d DEF Materialize, SanctionStates
  <2>3. sanctions[reader].previous \in MemberStatuses
    BY <2>1, <1>b DEF Issued, NoSanction, SanctionRows, AppliedStatus
  <2> QED
    BY <2>2, <2>3, <1>8, <1>b DEF Materialize, SanctionsTypeOK, InOrder
<1>9. CASE RollBackRead
  BY <1>9, <1>b, <1>c DEF RollBackRead, SanctionsTypeOK, InOrder
<1>10. CASE Act
  <2>1. /\ Issued' = Issued /\ Suspensions' = Suspensions
        /\ sanctions' \in [Ids -> SanctionRows \cup {NoSanction}]
    BY <1>10, <1>d, ReleasedSanction DEF Act, SanctionStates
  <2>2. status' \in MemberStatuses
    BY <1>10 DEF Act, MemberStatuses
  <2> QED
    BY <2>1, <2>2, <1>10, <1>b DEF Act, SanctionsTypeOK, InOrder
<1>11. CASE UNCHANGED sanctionVars
  BY <1>11, <1>b, <1>c DEF sanctionVars, SanctionsTypeOK, InOrder
<1> QED
  BY <1>1, <1>2, <1>3, <1>4, <1>5, <1>6, <1>7, <1>8, <1>9, <1>10, <1>11
     DEF SanctionsNext, ModeratorNext
-----------------------------------------------------------------------------
(* What lifts a running suspension.                                         *)

(* Ending a sanction takes it out of force and puts none into force.        *)
LEMMA EndingOne ==
  ASSUME SanctionsTypeOK, NEW i \in Issued, NEW s \in {"revoked", "expired"}, UNCHANGED elapsed,
         sanctions' = [sanctions EXCEPT ![i].state = s]
  PROVE  /\ InForce' = InForce \ {i}
         /\ Suspended' => Suspended
         /\ \A j \in InForce' : sanctions'[j].kind = sanctions[j].kind
         /\ \A j \in Ids \ {i} : sanctions'[j].state = sanctions[j].state
<1>1. s \in SanctionStates
  BY DEF SanctionStates
<1>2. \A j \in Ids : /\ sanctions'[j].kind = sanctions[j].kind
                     /\ sanctions'[j].state = IF j = i THEN s ELSE sanctions[j].state
  BY <1>1, ClosedRow
<1>3. InForce' = InForce \ {i}
  BY <1>2 DEF InForce, Issued
<1> QED
  BY <1>2, <1>3 DEF InForce, Issued, Suspended

-----------------------------------------------------------------------------
(* Every reachable state is well typed, overtaken loads or not: a blocking  *)
(* sanction remembers the status it found (issue_sanction), and what        *)
(* get_member expires is a suspension.                                      *)
THEOREM SanctionsTypeCorrect == SanctionsSpec => []SanctionsTypeOK
<1>1. SanctionsTypeOK /\ InOrder /\ [SanctionsNext]_sanctionVars => (SanctionsTypeOK /\ InOrder)'
  BY TypeStep
<1> QED
  BY <1>1, TypeInit, PTL DEF SanctionsSpec

(* While a suspension runs, what is stored is what is effective.            *)
LEMMA SuspensionIsStored == SuspensionHolds <=> (Suspended => status \in BlockedStatuses)
BY DEF SuspensionHolds, EffectiveStatus, Releasable

(* For any number of sanctions and moderators, overtaken loads and          *)
(* revocations on old rows included: of all the steps of members, staff and *)
(* time only the write of an overtaken get_member opens the account under a *)
(* running suspension.                                                      *)
LEMMA LiftedByLoad ==
  ASSUME SanctionsTypeOK, [SanctionsNext]_sanctionVars, SuspensionHolds, ~SuspensionHolds'
  PROVE  reader # 0 /\ reader \notin Releasable /\ reader' = 0
<1>a. /\ status \in MemberStatuses /\ elapsed \subseteq Issued
      /\ sanctions \in [Ids -> SanctionRows \cup {NoSanction}]
  BY DEF SanctionsTypeOK
<1>b. /\ Suspended => status \in BlockedStatuses
      /\ Suspended' /\ status' \notin BlockedStatuses
  <2>1. SuspensionHolds' <=> (Suspended' => status' \in BlockedStatuses)
    BY DEF SuspensionHolds, EffectiveStatus, Releasable
  <2> QED
    BY <2>1, SuspensionIsStored
<1>1. CASE ChangeStatus
  <2>1. Suspended' = Suspended
    BY <1>1 DEF ChangeStatus, Suspended, InForce, Issued
  <2> QED
    BY <2>1, <1>1, <1>b DEF ChangeStatus, BlockedStatuses
<1>2. ASSUME NEW kind \in Kinds, IssueSanction(kind) PROVE FALSE
  <2> DEFINE id == Cardinality(Issued) + 1
             row == [kind |-> kind, state |-> "active", previous |-> RecordedStatus(kind)]
  <2>1. id \in Ids /\ sanctions' = [sanctions EXCEPT ![id] = row] /\ elapsed' = elapsed
    BY <1>2 DEF IssueSanction
  <2>2. PICK j \in InForce' : sanctions'[j].kind = "suspension"
    BY <1>b DEF Suspended
  <2>3. CASE AppliedStatus(kind) # "none"
    BY <2>3, <1>2, <1>b DEF IssueSanction, AppliedStatus, BlockedStatuses
  <2>4. CASE AppliedStatus(kind) = "none"
    <3>1. kind # "suspension" /\ j \in Ids
      BY <2>4 DEF AppliedStatus, InForce, Issued
    <3>2. j # id /\ sanctions'[j] = sanctions[j]
      BY <3>1, <2>1, <2>2, <1>a
    <3>3. j \in InForce
      BY <3>2, <2>1 DEF InForce, Issued
    <3> QED
      BY <3>2, <3>3, <2>2, <2>4, <1>2, <1>b DEF IssueSanction, Suspended
  <2> QED
    BY <2>3, <2>4
<1>3. ASSUME NEW i \in Ids, Elapse(i) PROVE FALSE
  <2>1. Suspended' => Suspended
    BY <1>3 DEF Elapse, Suspended, InForce, Issued
  <2> QED
    BY <2>1, <1>3, <1>b DEF Elapse
<1>4. ASSUME UNCHANGED <<status, sanctions, elapsed>> PROVE FALSE
  <2>1. Suspended' = Suspended
    BY <1>4 DEF Suspended, InForce, Issued
  <2> QED
    BY <2>1, <1>4, <1>b
<1>5. ASSUME NEW m \in Moderators, Revoke(m) PROVE FALSE
  <2> DEFINE i == revoking[m].id
  <2>1. /\ sanctions' = [sanctions EXCEPT ![i].state = "revoked"]
        /\ status' = RestoredStatus(i) /\ UNCHANGED elapsed
    BY <1>5 DEF Revoke
  <2>2. i \in Issued
    BY <1>5 DEF SanctionsTypeOK, Revoke, StillActive, NotRevoking
  <2>3. /\ InForce' = InForce \ {i} /\ Suspended
        /\ \A j \in InForce' : sanctions'[j].kind = sanctions[j].kind
    BY <2>1, <2>2, <1>b, EndingOne
  <2>4. PICK j \in InForce' : sanctions'[j].kind = "suspension"
    BY <1>b DEF Suspended
  <2>5. j \in (InForce \cap StatusSanctions) \ {i}
    BY <2>3, <2>4 DEF StatusSanctions, AppliedStatus, InForce
  <2>6. status' = status
    BY <2>5, <2>1 DEF RestoredStatus
  <2> QED
    BY <2>3, <2>6, <1>b
<1>6. CASE Materialize
  <2>1. /\ reader # 0 /\ reader \in Issued /\ reader' = 0
        /\ sanctions' = [sanctions EXCEPT ![reader].state = "expired"]
        /\ UNCHANGED elapsed
    BY <1>6 DEF Materialize, SanctionsTypeOK, Suspensions
  <2>2. Suspended
    BY <2>1, <1>b, EndingOne
  <2> QED
    BY <2>1, <2>2 DEF Releasable
<1>7. CASE Act
  <2>1. /\ Releasable # {} /\ UNCHANGED elapsed
        /\ sanctions' = [sanctions EXCEPT ![Max(Releasable)].state = "expired"]
    BY <1>7 DEF Act
  <2>2. Suspended
    BY <2>1, <1>b, ReleasedSanction, EndingOne
  <2> QED
    BY <2>1, <2>2 DEF Releasable
<1> QED
  BY <1>1, <1>2, <1>3, <1>4, <1>5, <1>6, <1>7
     DEF SanctionsNext, ModeratorNext, sanctionVars, LoadForRevocation, LeaveRevocation,
         LoadMember, RollBackRead

(* The same of every behaviour.                                             *)
THEOREM Suspension == SanctionsSpec => OnlyOvertakenLoadsLift
<1>1. SanctionsTypeOK /\ InOrder /\ [SanctionsNext]_sanctionVars => (SanctionsTypeOK /\ InOrder)'
  BY TypeStep
<1>2. SanctionsTypeOK /\ [SanctionsNext]_sanctionVars =>
        [SuspensionHolds /\ ~SuspensionHolds'
           => reader # 0 /\ reader \notin Releasable /\ reader' = 0]_sanctionVars
  BY LiftedByLoad
<1> QED
  BY <1>1, <1>2, TypeInit, PTL DEF SanctionsSpec, OnlyOvertakenLoadsLift
=============================================================================
