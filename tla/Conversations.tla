--------------------------- MODULE Conversations ---------------------------
(***************************************************************************)
(* The one free-text conversation of a member (db/conversations.py and the *)
(* profile edit of db/registration.py).  Drafts of tasks, karma votes and  *)
(* profile edits all own the same row; every claim locks it first.         *)
(*                                                                         *)
(* left bounds what an instance does: how many commands of each kind may   *)
(* still be issued.  Budgets offers several such bounds, and a behaviour   *)
(* starts with one of them.                                                *)
(***************************************************************************)
EXTENDS Roles

CONSTANTS
  Nothing,   \* the null of the code
  Budgets    \* bound: functions from kinds of commands to numbers

ASSUME BudgetsAssumption == \A b \in Budgets : \A k \in DOMAIN b : b[k] \in Nat

VARIABLES
  flow,   \* member -> the owner of his free-text input
  left    \* kind of command -> commands that may still be issued

conversationVars == <<flow, left>>

NoFlow == [type |-> "none", step |-> "none", ref |-> Nothing, rev |-> 0,
           value |-> Nothing, comment |-> Nothing]

Protected == {"registration", "registration_paused", "profile_edit"}

Spend(kind) ==
  /\ left[kind] > 0
  /\ left' = [left EXCEPT ![kind] = @ - 1]

\* claim_text_flow overwrites any flow that is not protected.
MayClaim(m, type) == flow[m].type \notin Protected \/ flow[m].type = type

Claimed(m, type, step, ref, rev) ==
  [flow EXCEPT ![m] = [NoFlow EXCEPT !.type = type, !.step = step,
                                     !.ref = ref, !.rev = rev]]

\* clear_text_flow deletes only the exact owner.
Cleared(m, type, ref) ==
  IF flow[m].type = type /\ ref \in {Nothing, flow[m].ref}
  THEN [flow EXCEPT ![m] = NoFlow] ELSE flow

\* begin_profile_edit takes the row whoever owned it.
BeginProfileEdit(m) ==
  /\ Spend("profile")
  /\ IsActive(m)
  /\ flow' = Claimed(m, "profile_edit", "city", Nothing, flow[m].rev)
  /\ UNCHANGED account

SaveProfileEdit(m) ==
  /\ IsActive(m)
  /\ flow[m].type = "profile_edit"
  /\ flow' = [flow EXCEPT ![m] = NoFlow]
  /\ UNCHANGED <<account, left>>

\* cancel_conversation: any other flow is taken for a registration.
CancelConversation(m) ==
  /\ flow[m].type \notin {"none", "registration_paused"}
  /\ Spend("profile")
  /\ flow' = IF flow[m].type = "profile_edit" THEN [flow EXCEPT ![m] = NoFlow]
             ELSE [flow EXCEPT ![m].type = "registration_paused"]
  /\ UNCHANGED account

ConversationNext ==
  \E m \in Members : BeginProfileEdit(m) \/ SaveProfileEdit(m) \/ CancelConversation(m)
=============================================================================
