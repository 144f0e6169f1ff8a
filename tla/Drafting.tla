------------------------------ MODULE Drafting ------------------------------
(***************************************************************************)
(* The drafting of tasks and of results, the voting of karma, the edit of  *)
(* a profile and the administration of members and of the catalog as they  *)
(* interact: task commands hold the task gate of an identity, karma and    *)
(* profile commands the registration gate of the same identity, and they   *)
(* meet on the one conversation row; rights, templates and categories      *)
(* change under a draft, a preview or a command that waits.                *)
(***************************************************************************)
EXTENDS Publication, Karma, Submission

CONSTANTS
  Founder,   \* the owner of the community
  Granted,   \* member -> the rights the owner has given him, {} for none
  Wanderers  \* bound: members who leave the chat and return

ASSUME DraftingAssumption ==
  /\ Founder \in Members
  /\ Granted \in [Members -> SUBSET PublicRights]
  /\ Wanderers \subseteq Members

vars == <<account, bootstrapped, conversationVars, catalogVars, publicationVars, karmaVars,
          submissionVars>>

Init ==
  /\ account = [m \in Members |->
       CASE m = Founder -> OwnerAccount
         [] m # Founder /\ Granted[m] # {} ->
              [status |-> "active", role |-> "administrator", rights |-> Granted[m],
               by |-> Founder]
         [] OTHER -> Participant("active")]
  /\ bootstrapped = {Founder}
  /\ flow = [m \in Members |-> NoFlow]
  /\ left \in Budgets
  /\ CatalogInit
  /\ PublicationInit
  /\ KarmaInit
  /\ SubmissionInit

\* A confirmation holds the conversation of its rater and both members; who
\* wants to write these rows waits.
ConversationsAreHeld ==
  \A m \in Raters : confirming[m] # NoConfirmation => flow'[m] = flow[m]
MembersAreHeld == \A m \in Members : Locked(m) => account'[m] = account[m]

\* Administrators appoint, change rights and demote.
Administer ==
  /\ Spend("roles")
  /\ RolesNext
  /\ MembersAreHeld
  /\ UNCHANGED <<flow, catalogVars, publicationVars, karmaVars, submissionVars>>

\* record_chat_membership: a member who left comes back as he was.
LeavesOrReturns(m) ==
  /\ Spend("roles")
  /\ account' = [account EXCEPT ![m].status = IF @ = "active" THEN "left" ELSE "active"]
  /\ MembersAreHeld
  /\ UNCHANGED <<bootstrapped, flow, catalogVars, publicationVars, karmaVars, submissionVars>>

ProfileStep == /\ ConversationNext
               /\ ConversationsAreHeld
               /\ UNCHANGED <<bootstrapped, catalogVars, publicationVars, karmaVars, submissionVars>>

CatalogStep == /\ CatalogNext
               /\ UNCHANGED <<bootstrapped, publicationVars, karmaVars, submissionVars>>

TaskStep == /\ PublicationNext
            /\ ConversationsAreHeld
            /\ UNCHANGED <<bootstrapped, karmaVars, submissionVars>>

KarmaStep == /\ KarmaNext
             /\ UNCHANGED <<bootstrapped, catalogVars, publicationVars, submissionVars>>

ResultStep == /\ SubmissionNext
              /\ UNCHANGED <<bootstrapped, catalogVars, publicationVars, karmaVars>>

Next ==
  \/ Administer
  \/ \E m \in Wanderers : LeavesOrReturns(m)
  \/ ProfileStep \/ CatalogStep \/ TaskStep \/ KarmaStep \/ ResultStep

Spec == Init /\ [][Next]_vars
=============================================================================
