------------------------------- MODULE Roles -------------------------------
(***************************************************************************)
(* Accounts, administrator rights and who may change them                  *)
(* (domain/members.py, application/administration.py, initial_admin.py).   *)
(*                                                                         *)
(* Every command locks the rows of actor and target and judges them as     *)
(* they are then, so each is one action.  change_member, which would also  *)
(* pause accounts and make moderators, has no caller outside the tests.    *)
(***************************************************************************)
EXTENDS Integers, FiniteSets

CONSTANTS
  Nobody,       \* not a member
  Members,      \* identities that may ever hold an account
  Appointable,  \* bound: members the administrators appoint
  RightSets     \* bound: sets of rights the administrators offer

\* The rights the product hands out; superadministrator is the owner's.
PublicRights == {"interaction_review", "member_invitation", "member_blocking",
                 "administrator_management", "community_task_create",
                 "community_task_review"}
Rights == {"superadministrator"} \cup PublicRights

\* ADMINISTRATOR_PERMISSIONS and the mark of the owner.
OwnerRights == {"superadministrator", "interaction_review", "member_invitation",
                "member_blocking", "administrator_management"}

ASSUME RolesAssumption ==
  /\ IsFiniteSet(Members) /\ Nobody \notin Members
  /\ Appointable \subseteq Members
  /\ RightSets \subseteq (SUBSET PublicRights) \ {{}}

VARIABLES
  account,       \* member -> [status, role, rights, by]
  bootstrapped   \* members with the audit marker of the bootstrap

AccountStatuses == {"absent", "pending", "active", "left"}
Ranks == {"member", "administrator"}

Absent == [status |-> "absent", role |-> "member", rights |-> {}, by |-> Nobody]
Participant(status) == [Absent EXCEPT !.status = status]

OwnerAccount == [status |-> "active", role |-> "administrator",
                 rights |-> OwnerRights, by |-> Nobody]

IsActive(m) == account[m].status = "active"

ActiveAdministrators ==
  {m \in Members : IsActive(m) /\ account[m].role = "administrator"}

IsSuperadministrator(m) ==
  account[m].role = "administrator" /\ "superadministrator" \in account[m].rights

EffectiveRights(m) == IF IsSuperadministrator(m) THEN PublicRights
                      ELSE account[m].rights \cap PublicRights

Holds(m, right) ==
  m \in ActiveAdministrators /\ (IsSuperadministrator(m) \/ right \in account[m].rights)

MayManage(m) == Holds(m, "administrator_management")

\* can_edit_administrator: the owner edits all, a manager those he appointed.
MayEdit(a, m) ==
  /\ MayManage(a)
  /\ a # m
  /\ account[m].role = "administrator"
  /\ ~IsSuperadministrator(m)
  /\ IsSuperadministrator(a) \/ account[m].by = a

\* _validated_administrator_permissions: only the owner delegates management.
MayGrant(a, rights) ==
  IsSuperadministrator(a) \/
    rights \subseteq EffectiveRights(a) \ {"administrator_management"}

\* AdministrationService.appoint
Appoint(a, m, rights) ==
  /\ MayManage(a)
  /\ a # m
  /\ IsActive(m)
  /\ account[m].role # "administrator"
  /\ MayGrant(a, rights)
  /\ account' = [account EXCEPT ![m].role = "administrator",
                                ![m].rights = rights, ![m].by = a]
  /\ UNCHANGED bootstrapped

\* AdministrationService.update_permissions
UpdatePermissions(a, m, rights) ==
  /\ MayEdit(a, m)
  /\ MayGrant(a, rights)
  /\ account' = [account EXCEPT ![m].rights = (@ \ PublicRights) \cup rights]
  /\ UNCHANGED bootstrapped

\* AdministrationService.demote
Demote(a, m) ==
  /\ MayEdit(a, m)
  /\ account' = [account EXCEPT ![m].role = "member",
                                ![m].rights = {}, ![m].by = Nobody]
  /\ UNCHANGED bootstrapped

\* InitialAdministratorService.bootstrap, run by the operator: an exact repeat
\* changes nothing.
Bootstrap(m) ==
  /\ ActiveAdministrators = {}
  /\ account[m].status = "absent"
  /\ account' = [account EXCEPT ![m] = OwnerAccount]
  /\ bootstrapped' = bootstrapped \cup {m}

RolesNext ==
  \/ \E a \in Members, m \in Appointable :
       \/ \E rights \in RightSets : Appoint(a, m, rights) \/ UpdatePermissions(a, m, rights)
       \/ Demote(a, m)
  \/ \E m \in Members : Bootstrap(m)

RolesTypeOK ==
  /\ account \in [Members -> [status : AccountStatuses, role : Ranks,
                              rights : SUBSET Rights, by : Members \cup {Nobody}]]
  /\ bootstrapped \subseteq Members
=============================================================================
