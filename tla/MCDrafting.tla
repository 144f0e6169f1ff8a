---------------------------- MODULE MCDrafting ----------------------------
(* Instances of Drafting for TLC.                                           *)
EXTENDS Drafting, TLC

CONSTANTS o, author, reviewer, w1, w2, s1, s2, t1, t2

Team == {o, author, reviewer}
Commons == {"general", "community"}
GrantedToTeam == [m \in Team |-> IF m = o THEN {}
                                 ELSE IF m = author THEN {"community_task_create"}
                                 ELSE {"interaction_review"}]
CreatorOnly == {author}
OfferedRights == {{"interaction_review"}}
TwoRewards == {2, 4}
TwoSlots == {2}
Staff == {author, reviewer}
TwoDrafts == 1 .. 2
TwoSizes == {"xs", "xl"}
SomeRewards == {2, 11}
WebForms == {[kind |-> "solo", category |-> "general", size |-> "xs", reward |-> 2, slots |-> 1],
             [kind |-> "group", category |-> "general", size |-> "xl", reward |-> 11, slots |-> 2],
             [kind |-> "solo", category |-> "community", size |-> "xs", reward |-> 1, slots |-> 1]}

CommandKinds == {"profile", "catalog", "web", "bot", "answer", "publish", "clock",
                 "karma", "ruling", "roles", "result"}
Budget(limits) ==
  [k \in CommandKinds |-> IF k \in DOMAIN limits THEN limits[k] ELSE 0]

\* The questions of the bot, answered and edited, and the publication.
Questions == Budget([bot |-> 3, answer |-> 13, publish |-> 1])
\* A template, approved while rights and versions change.
Templates == Budget([bot |-> 2, answer |-> 6, publish |-> 2, catalog |-> 1, roles |-> 1])
MiniApp == Budget([web |-> 4, publish |-> 2, clock |-> 1, roles |-> 1])
Votes == Budget([karma |-> 3])
Rulings == Budget([karma |-> 2, ruling |-> 2])
\* All the owners of the conversation row.
OneRow == Budget([karma |-> 1, bot |-> 1, answer |-> 1, profile |-> 2, roles |-> 1])
\* Two sheets send a result, also while its performer leaves the chat.
Sending == Budget([result |-> 5])
Leaving == Budget([result |-> 3, roles |-> 1])
TwoSheets == {s1, s2}
TwoTexts == {t1, t2}
SheetSymmetry == Permutations(TwoSheets) \cup Permutations(TwoTexts)
OneTab == {w1}
TwoTabs == {w1, w2}
TargetSet == {o, author}
AllPaid == {{x, y} : x \in Team, y \in Team} \ {{x} : x \in Team}
Disputes == {{author, o}}
Scores == {-1, 1}
Words == {"same"}
OnlyVotes == {Votes}
AllBudgets == {Questions, Templates, MiniApp, Votes, Rulings, OneRow, Sending, Leaving}
===========================================================================
