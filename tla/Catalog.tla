------------------------------ MODULE Catalog ------------------------------
(***************************************************************************)
(* The versions of one task template and the categories tasks are filed    *)
(* under (application/catalog.py, db/catalog.py).  Every change waits for   *)
(* the update gate, then for the one catalog gate, then locks the row of    *)
(* its administrator, so it is one action.  A version is never rewritten:   *)
(* new content and a new reward are new versions.  Nothing outside the      *)
(* tests calls these operations today.                                      *)
(***************************************************************************)
EXTENDS Conversations, Sequences

CONSTANTS
  Categories,       \* codes of the categories, "community" among them
  TemplateCategory, \* the category of the template
  TemplateRewards,  \* bound: rewards its versions may have
  TemplateSlots,    \* bound: maximum_performers of its versions
  MaxVersions       \* bound: versions published

\* visibility admin_only: only the category of community tasks has it.
AdminOnly == {"community"}

ASSUME CatalogAssumption ==
  /\ AdminOnly \subseteq Categories
  /\ TemplateCategory \in Categories
  /\ TemplateRewards \cup TemplateSlots \subseteq Nat \ {0}
  /\ MaxVersions \in Nat \ {0}

VARIABLES
  versions,   \* oldest first: [reward, maximum, active]
  offered     \* categories that are active

catalogVars == <<versions, offered>>

CatalogInit ==
  /\ \E r \in TemplateRewards, n \in TemplateSlots :
       versions = <<[reward |-> r, maximum |-> n, active |-> TRUE]>>
  /\ offered = Categories

\* lock_template_versions: under their locks no version stays in force.
Retired == [v \in DOMAIN versions |-> [versions[v] EXCEPT !.active = FALSE]]

\* insert_template_version: the old head steps down in the same transaction.
Inserted(reward, maximum) ==
  Append(Retired, [reward |-> reward, maximum |-> maximum, active |-> TRUE])

\* validate_template_draft
Sound(reward, maximum) == reward <= 4 /\ maximum <= 10

\* _locked_admin, after the update gate and the catalog gate.
MayMutate(a) == Spend("catalog") /\ a \in ActiveAdministrators

PublishVersion(a, reward, maximum) ==
  /\ Len(versions) < MaxVersions
  /\ MayMutate(a)
  /\ Sound(reward, maximum)
  /\ versions' = Inserted(reward, maximum)
  /\ UNCHANGED <<offered, flow, account>>

\* change_reward clones the latest version.
ChangeReward(a, reward) == PublishVersion(a, reward, versions[Len(versions)].maximum)

\* set_catalog_template_active: only the latest version can be switched on.
Switched(enabled) == [Retired EXCEPT ![Len(versions)].active = enabled]

SetTemplateActive(a, enabled) ==
  /\ MayMutate(a)
  /\ versions' = Switched(enabled)
  /\ UNCHANGED <<offered, flow, account>>

\* set_catalog_category_active
Offering(category, enabled) ==
  IF enabled THEN offered \cup {category} ELSE offered \ {category}

SetCategoryActive(a, category, enabled) ==
  /\ MayMutate(a)
  /\ offered' = Offering(category, enabled)
  /\ UNCHANGED <<versions, flow, account>>

\* template_for_creation: this very version must be active, as its category.
\* Levels are left to the ledger: every creator of an instance has the level.
Publishable(v) == versions[v].active /\ TemplateCategory \in offered

\* task_category_for_creation
MayFile(m, category) ==
  /\ category \in offered
  /\ category \in AdminOnly => account[m].role = "administrator"

CatalogNext ==
  \E a \in Members :
    \/ \E r \in TemplateRewards, n \in TemplateSlots : PublishVersion(a, r, n)
    \/ \E r \in TemplateRewards : ChangeReward(a, r)
    \/ \E b \in BOOLEAN : SetTemplateActive(a, b)
    \/ \E b \in BOOLEAN, c \in Categories : SetCategoryActive(a, c, b)
=============================================================================
