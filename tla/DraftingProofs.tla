--------------------------- MODULE DraftingProofs ---------------------------
(***************************************************************************)
(* Theorems about Drafting, for every set of members, tabs, sheets, drafts *)
(* and forms and every bound.                                              *)
(*                                                                         *)
(* The three parts of Drafting share the conversation row and the accounts *)
(* only, so each has an inductive invariant of its own: what was shown of  *)
(* a draft, a vote or a result carries the revision it was read at, no     *)
(* revision is ever older than one that was shown, and at one revision     *)
(* there is one content.  The locks of a confirmation keep the votes that  *)
(* it counted what they were.                                              *)
(***************************************************************************)
EXTENDS Drafting, Sums, SequenceTheorems

-----------------------------------------------------------------------------
(* Karma: votes, rulings and confirmations.                                 *)

\* x was v at the revision x names: older, or the very same.
WasRead(x, v) == x.rev \in Nat /\ x.rev <= v.rev /\ (x.rev = v.rev => x = v)

IsForm(f) ==
  /\ {"target", "stage", "rev"} \subseteq DOMAIN f
  /\ f.stage # "begin" => f.target \in Targets
  /\ f.target \in Targets \cup {Nobody}

\* All votes, with the vote v of r on t.
WithVote(all, r, t, v) == [all EXCEPT ![r][t] = v]

AreVotes(all) == all = [r \in Raters |-> [t \in Targets |-> all[r][t]]]

KarmaOK ==
  /\ AreVotes(vote)
  /\ ruling = [r \in Raters |-> [t \in Targets |-> ruling[r][t]]]
  /\ form = [r \in Raters |-> [w \in Tabs |-> form[r][w]]]
  /\ confirming = [r \in Raters |-> confirming[r]]
  /\ \A r \in Raters, t \in Targets : vote[r][t].rev \in Nat
  /\ \A r \in Raters, w \in Tabs : IsForm(form[r][w])

\* Who confirms holds the rows of two members, and nobody else holds them.
Holding(r) == {r, confirming[r].target}
Confirming(r) == confirming[r] # NoConfirmation

LocksHold ==
  \A r, q \in Raters : (r # q /\ Confirming(r) /\ Confirming(q)) =>
    Holding(r) \cap Holding(q) = {}

\* A confirmation will raise what its vote calls for.
Confirmed(r) ==
  LET c == confirming[r] IN
  /\ c.target \in Targets /\ c.tab \in Tabs
  /\ c.vote.rev = vote[r][c.target].rev + 1
  /\ c.raised = Raised(r, c.target, WithVote(vote, r, c.target, c.vote))

RulingsInv ==
  /\ \A r \in Raters, t \in Targets :
       /\ ruling[r][t].rev = ruling[r][t].judged.rev
       /\ WasRead(ruling[r][t].judged, vote[r][t])
  /\ \A j \in judging : /\ j.rater \in Raters /\ j.target \in Targets
                        /\ WasRead(j.vote, vote[j.rater][j.target])

KarmaInv ==
  /\ KarmaOK
  /\ LocksHold
  /\ \A r \in Raters : Confirming(r) => Confirmed(r)
  /\ RulingsInv
  /\ NegativesAreSignalled

-----------------------------------------------------------------------------
(* The result of an assignment: sheets, requests and the stored draft.      *)

Ops == {"begin", "save", "confirm"}

IsSheet(x) == DOMAIN x = {"phase", "draft", "input", "enabled", "keys", "sent"}

\* A revision and a text as the draft had them: older, or the very same.
StoredIn(stored, rev, text) ==
  rev \in Int /\ rev <= stored.rev /\ (rev = stored.rev => text = stored.text)

SheetsOK ==
  /\ sheet = [s \in Sheets |-> sheet[s]]
  /\ \A s \in Sheets : IsSheet(sheet[s]) /\ StoredIn(resultDraft, sheet[s].draft.rev, sheet[s].draft.text)

\* A request names a draft that its sheet has held.
RequestsOK ==
  /\ awaited \subseteq requests
  /\ \A r \in requests : /\ r.of \in Sheets /\ r.op \in Ops
                         /\ StoredIn(resultDraft, r.rev, r.held)
                         /\ r.rev <= sheet[r.of].draft.rev

StoredOK ==
  /\ DOMAIN resultDraft = {"rev", "text"}
  /\ resultDraft.rev \in Int

\* What was submitted is the draft, which nothing changes any more.
ResultOK ==
  /\ progress = "accepted" => results = {}
  /\ results = {} \/ \E x \in results : results = {x}
  /\ \A x \in results : x.text = resultDraft.text /\ x.text = x.held
  /\ \A x \in receipts : x.fingerprint[1] = "confirm" =>
       results # {} /\ x.fingerprint[2] = resultDraft.rev
  /\ \A s \in Sheets : sheet[s].phase = "done" =>
       results # {} /\ sheet[s].draft.text = resultDraft.text

SubmissionInv == StoredOK /\ SheetsOK /\ RequestsOK /\ ResultOK

-----------------------------------------------------------------------------
(* Publication: drafts, previews, tasks and their reserve.                  *)

Origins == {"member", "community"}
Questions == {"kind", "category", "size", "slots", "reward"}
Terminal == {"absent", "deleted"}
Final == {"preview", "published"}
FreeSteps == Questions \cup PlainSteps \cup Final
TemplateSteps == TemplateInputs \cup {"slots"} \cup Final
DraftSteps == FreeSteps \cup TemplateSteps \cup Terminal

DraftRows == [owner : Members \cup {Nobody}, template : Nat, origin : Origins,
              step : DraftSteps, rev : Nat, current : BOOLEAN,
              kind : Kinds \cup {Nothing}, category : Categories \cup {Nothing},
              size : TimeSizes \cup {Nothing}, reward : Nat, slots : Nat,
              given : SUBSET (PlainSteps \cup TemplateInputs), late : BOOLEAN,
              reviewer : Members \cup {Nobody}, requested : BOOLEAN]

VersionRows == [reward : Nat, maximum : Nat, active : BOOLEAN]

\* The questions that a step of the free form comes after.
Before(step) ==
  CASE step \in Questions \cup {"title"} -> {}
    [] step = "description" -> {"title"}
    [] step = "criteria" -> {"title", "description"}
    [] step = "materials" -> {"title", "description", "criteria"}
    [] step = "deadline" -> {"title", "description", "criteria", "materials"}
    [] step = "format" -> {"title", "description", "criteria", "materials", "deadline"}
    [] OTHER -> PlainSteps

BeforeInput(step) ==
  CASE step = "input" -> {}
    [] step = "deadline" -> {"input"}
    [] step = "format" -> {"input", "deadline"}
    [] step = "materials" -> {"input", "deadline", "format"}
    [] OTHER -> TemplateInputs

\* A free form stands at a step only when the questions before are answered,
\* and its answers fit each other, but for a reward that is asked for anew.
FreeformStands(d) ==
  /\ d.step \in FreeSteps /\ d.given \subseteq PlainSteps
  /\ Before(d.step) \subseteq d.given
  /\ d.step # "kind" => d.kind # Nothing
  /\ d.step \notin {"kind", "category"} => d.category # Nothing
  /\ d.step \notin {"kind", "category", "size"} => d.size # Nothing
  /\ d.step \in PlainSteps \cup Final => d.reward # 0
  /\ d.kind # Nothing => FitsKind(d.kind, d.slots)
  /\ (d.size # Nothing /\ d.reward # 0 /\ d.step # "reward") => FitsSize(d.size, d.reward)

\* The same of a form with a template.
TemplateStands(d) ==
  /\ d.step \in TemplateSteps /\ d.given \subseteq TemplateInputs
  /\ BeforeInput(d.step) \subseteq d.given
  /\ d.slots <= versions[d.template].maximum
  /\ d.step \in Final => d.slots # 0

DraftStands(d) ==
  /\ d.template \in 0 .. Len(versions)
  /\ d.step \in Terminal => d.template = 0
  /\ d.step \notin Terminal =>
       IF d.template = 0 THEN FreeformStands(d) ELSE TemplateStands(d)

FormsInv ==
  /\ versions \in Seq(VersionRows) /\ Len(versions) > 0
  /\ draft \in [Drafts -> DraftRows]
  /\ \A d \in Drafts : DraftStands(draft[d])

\* A preview shows a draft at its revision: older, or the very same.
Shows(x, row, terms) ==
  /\ row.step # "absent"
  /\ row.step # "deleted" => x.rev <= row.rev
  /\ (row.step = "preview" /\ x.rev = row.rev) => x.terms = terms

WasShown(x) ==
  /\ x.draft \in Drafts
  /\ x.rev \in Nat
  /\ Shows(x, draft[x.draft], Terms(draft[x.draft]))

\* Whoever is publishing has seen the draft, and it is his.
Sends(m) == /\ m \in Creators
            /\ WasShown(sending[m]) /\ draft[sending[m].draft].owner = m

ScreensInv ==
  /\ screen = [m \in Members |-> screen[m]]
  /\ sending = [m \in Members |-> sending[m]]
  /\ \A m \in Members : /\ screen[m].draft # 0 => WasShown(screen[m])
                        /\ sending[m] # Idle => Sends(m)

IsTerms(x) == x.reward \in Nat /\ x.slots \in Nat

IsTask(x) ==
  /\ DOMAIN x = {"origin", "terms", "agreed", "taken", "by", "rev"}
  /\ x.rev \in Nat
  /\ x # NoTask => x.by # Nobody /\ IsTerms(x.terms)

Published(d) == task[d] # NoTask

\* A reserve row belongs to a published task, under a key used once.
IsReserve(r) ==
  /\ r.draft \in Drafts /\ r.amount \in Int
  /\ Published(r.draft)
  /\ \/ r.key = <<"publish", r.draft>>
     \/ \E k \in 0 .. task[r.draft].rev - 1 : r.key = <<"edit", r.draft, k>>

\* The publication of a task with a reserve has booked it, and its draft says
\* so until it is saved again.
Reserved(d) ==
  ReserveOf(draft[d]) # 0 => \E r \in reserve : r.key = <<"publish", d>>

TasksInv ==
  /\ task = [d \in Drafts |-> task[d]]
  /\ \A d \in Drafts : IsTask(task[d])
  /\ \A d \in Drafts : Published(d) => /\ draft[d].step # "absent"
                                       /\ draft[d].step = "published" => Reserved(d)
  /\ IsFiniteSet(reserve) /\ \A r \in reserve : IsReserve(r)
  /\ TaskIsAsAgreed

PublicationInv == FormsInv /\ ScreensInv /\ TasksInv

-----------------------------------------------------------------------------
(* Which votes call for which signals.                                      *)

\* NegativesAreSignalled for one target.
Signalled(all, raised, t) ==
  /\ Cardinality(Negative(all, t)) >= Burst => <<"negative_burst", {t}>> \in raised
  /\ \A c \in Comments :
       Cardinality({r \in Negative(all, t) : all[r][t].comment = c}) >= Burst =>
         <<"duplicate_negative_comment", {t}, c>> \in raised
  /\ \A r \in Negative(all, t) :
       (t \in Raters /\ r \in Targets /\ {r, t} \in Disputed
          /\ all[t][r].value = -1 /\ all[t][r].rev > 0) =>
         <<"mutual_negative_with_dispute", {r, t}>> \in raised

LEMMA SignalledForAll ==
  /\ NegativesAreSignalled <=> \A t \in Targets : Signalled(vote, signals, t)
  /\ NegativesAreSignalled' <=> \A t \in Targets : Signalled(vote', signals', t)
BY DEF NegativesAreSignalled, Signalled, Negative

LEMMA RatersAreFinite == IsFiniteSet(Raters) /\ Nobody \notin Targets /\ Burst \in Nat \ {0}
BY RolesAssumption, KarmaAssumption, FS_Subset

LEMMA OneVoteChanges ==
  ASSUME NEW all, AreVotes(all), NEW r \in Raters, NEW t \in Targets, NEW v
  PROVE  /\ AreVotes(WithVote(all, r, t, v))
         /\ \A x \in Raters, u \in Targets :
              WithVote(all, r, t, v)[x][u] = IF x = r /\ u = t THEN v ELSE all[x][u]
<1>1. \A x \in Raters : all[x] = [u \in Targets |-> all[x][u]]
  BY DEF AreVotes
<1>2. WithVote(all, r, t, v) = [x \in Raters |-> IF x = r THEN [all[r] EXCEPT ![t] = v] ELSE all[x]]
  BY DEF AreVotes, WithVote
<1>3. \A x \in Raters, u \in Targets :
        WithVote(all, r, t, v)[x][u] = IF x = r /\ u = t THEN v ELSE all[x][u]
  <2>1. ASSUME NEW x \in Raters, NEW u \in Targets, x = r
        PROVE  WithVote(all, r, t, v)[x][u] = IF u = t THEN v ELSE all[x][u]
    <3>1. WithVote(all, r, t, v)[x] = [all[r] EXCEPT ![t] = v]
      BY <1>2, <2>1
    <3>2. all[r] = [w \in Targets |-> all[r][w]]
      BY <1>1
    <3> HIDE <2>1
    <3>3. [all[r] EXCEPT ![t] = v][u] = IF u = t THEN v ELSE all[r][u]
      BY <3>2
    <3> QED
      BY <2>1, <3>1, <3>3
  <2>2. ASSUME NEW x \in Raters, NEW u \in Targets, x # r
        PROVE  WithVote(all, r, t, v)[x][u] = all[x][u]
    BY <1>2, <2>2
  <2> QED
    BY <2>1, <2>2
<1>4. \A x \in Raters : WithVote(all, r, t, v)[x]
                          = [u \in Targets |-> WithVote(all, r, t, v)[x][u]]
  BY <1>1, <1>2
<1>5. AreVotes(WithVote(all, r, t, v))
  BY <1>2, <1>4 DEF AreVotes
<1> QED
  BY <1>3, <1>5

(* The signals of a vote on t depend on the votes on t and on the vote of t *)
(* on its rater.                                                            *)
LEMMA RaisedAgrees ==
  ASSUME NEW a, NEW b, NEW r \in Raters, NEW t \in Targets,
         \A x \in Raters : a[x][t] = b[x][t],
         (t \in Raters /\ r \in Targets) => a[t][r] = b[t][r]
  PROVE  Raised(r, t, a) = Raised(r, t, b)
<1>1. Negative(a, t) = Negative(b, t)
  BY DEF Negative
<1>2. {q \in Negative(a, t) : a[q][t].comment = a[r][t].comment}
        = {q \in Negative(b, t) : b[q][t].comment = b[r][t].comment}
  BY <1>1 DEF Negative
<1>3. {s \in {<<"mutual_negative_with_dispute", {r, t}>>} :
          {r, t} \in Disputed /\ t \in Raters /\ r \in Targets /\ a[t][r].value = -1}
        = {s \in {<<"mutual_negative_with_dispute", {r, t}>>} :
             {r, t} \in Disputed /\ t \in Raters /\ r \in Targets /\ b[t][r].value = -1}
  OBVIOUS
<1> QED
  BY <1>1, <1>2, <1>3, Zenon DEF Raised

(* A new vote whose signals are raised leaves every target signalled: what  *)
(* it does not raise was called for before.                                 *)
LEMMA SignalledAfter ==
  ASSUME NEW all, AreVotes(all), NEW raised, NEW r \in Raters, NEW t \in Targets, NEW v,
         v.rev > 0,
         \A u \in Targets : Signalled(all, raised, u)
  PROVE  \A u \in Targets :
           Signalled(WithVote(all, r, t, v),
                     raised \cup Raised(r, t, WithVote(all, r, t, v)), u)
<1> DEFINE new == WithVote(all, r, t, v)
           more == raised \cup Raised(r, t, new)
<1>1. \A x \in Raters, u \in Targets : new[x][u] = IF x = r /\ u = t THEN v ELSE all[x][u]
  BY OneVoteChanges
<1> HIDE DEF new
<1>f. \A S, T : IsFiniteSet(T) /\ S \subseteq T =>
        /\ IsFiniteSet(S) /\ Cardinality(S) \in Nat /\ Cardinality(T) \in Nat
        /\ Cardinality(S) <= Cardinality(T)
  BY FS_Subset, FS_CardinalityType
<1>r. /\ (v.value = -1 /\ {r, t} \in Disputed /\ t \in Raters /\ r \in Targets
           /\ new[t][r].value = -1) => <<"mutual_negative_with_dispute", {r, t}>> \in more
      /\ (v.value = -1 /\ Cardinality(Negative(new, t)) >= Burst) =>
           <<"negative_burst", {t}>> \in more
      /\ (v.value = -1
           /\ Cardinality({q \in Negative(new, t) : new[q][t].comment = v.comment}) >= Burst) =>
           <<"duplicate_negative_comment", {t}, v.comment>> \in more
  <2>1. new[r][t] = v
    BY <1>1
  <2> QED
    BY <2>1, Zenon DEF Raised
<1> SUFFICES ASSUME NEW u \in Targets
             PROVE  Signalled(new, more, u)
  BY DEF new
<1>0. Signalled(all, raised, u)
  OBVIOUS
<1>2. Negative(new, u) \subseteq Raters /\ Negative(all, u) \subseteq Raters
  BY DEF Negative
<1>3. \/ Negative(new, u) = Negative(all, u) /\ \A q \in Negative(new, u) : new[q][u] = all[q][u]
      \/ u = t /\ v.value = -1
      \/ /\ u = t /\ Negative(new, u) \subseteq Negative(all, u)
         /\ \A q \in Negative(new, u) : new[q][u] = all[q][u]
  BY <1>1 DEF Negative
<1>4. Cardinality(Negative(new, u)) >= Burst => <<"negative_burst", {u}>> \in more
  <2>1. CASE u = t /\ v.value = -1
    BY <2>1, <1>r
  <2>2. CASE Negative(new, u) \subseteq Negative(all, u)
    <3>1. /\ Cardinality(Negative(new, u)) <= Cardinality(Negative(all, u))
          /\ Cardinality(Negative(new, u)) \in Nat /\ Cardinality(Negative(all, u)) \in Nat
      BY <2>2, <1>2, <1>f, RatersAreFinite
    <3>2. Cardinality(Negative(all, u)) >= Burst => <<"negative_burst", {u}>> \in raised
      BY <1>0 DEF Signalled
    <3> QED
      BY <3>1, <3>2, RatersAreFinite
  <2> QED
    BY <1>3, <2>1, <2>2
<1>5. ASSUME NEW c \in Comments,
             Cardinality({q \in Negative(new, u) : new[q][u].comment = c}) >= Burst
      PROVE  <<"duplicate_negative_comment", {u}, c>> \in more
  <2> DEFINE N == {q \in Negative(new, u) : new[q][u].comment = c}
             A == {q \in Negative(all, u) : all[q][u].comment = c}
  <2>1. CASE N \subseteq A
    <3>0. A \subseteq Raters
      BY <1>2
    <3> HIDE DEF N, A
    <3>1. Cardinality(N) <= Cardinality(A) /\ Cardinality(N) \in Nat /\ Cardinality(A) \in Nat
      BY <2>1, <3>0, <1>f, RatersAreFinite
    <3>2. Cardinality(A) >= Burst => <<"duplicate_negative_comment", {u}, c>> \in raised
      BY <1>0 DEF Signalled, A
    <3>3. Cardinality(N) >= Burst
      BY <1>5 DEF N
    <3> QED
      BY <3>1, <3>2, <3>3, RatersAreFinite
  <2>2. CASE u = t /\ v.value = -1 /\ v.comment = c
    BY <2>2, <1>5, <1>r
  <2>3. N \subseteq A \/ (u = t /\ v.value = -1 /\ v.comment = c)
    BY <1>1, <1>3 DEF Negative
  <2> QED
    BY <2>1, <2>2, <2>3
<1>6. ASSUME NEW q \in Negative(new, u), u \in Raters, q \in Targets, {q, u} \in Disputed,
             new[u][q].value = -1, new[u][q].rev > 0
      PROVE  <<"mutual_negative_with_dispute", {q, u}>> \in more
  <2>0. q \in Raters /\ new[q][u].value = -1 /\ new[q][u].rev > 0
    BY <1>6 DEF Negative
  <2>1. CASE q = r /\ u = t
    BY <2>0, <2>1, <1>1, <1>6, <1>r
  <2>2. CASE q = t /\ u = r
    <3>1. {q, u} = {r, t}
      BY <2>2
    <3>2. v.value = -1 /\ new[t][r].value = -1
      BY <2>0, <2>2, <1>1, <1>6
    <3> QED
      BY <3>1, <3>2, <2>0, <2>2, <1>6, <1>r
  <2>3. CASE ~(q = r /\ u = t) /\ ~(q = t /\ u = r)
    <3>1. new[q][u] = all[q][u] /\ new[u][q] = all[u][q]
      BY <1>1, <1>6, <2>0, <2>3
    <3>2. q \in Negative(all, u)
      BY <2>0, <3>1 DEF Negative
    <3> QED
      BY <3>1, <3>2, <1>0, <1>6 DEF Signalled
  <2> QED
    BY <2>1, <2>2, <2>3
<1> QED
  BY <1>4, <1>5, <1>6 DEF Signalled

-----------------------------------------------------------------------------
(* Votes.                                                                   *)

LEMMA KarmaMoves == ASSUME [Next]_vars PROVE KarmaNext \/ UNCHANGED karmaVars
BY DEF Next, Administer, LeavesOrReturns, ProfileStep, CatalogStep, TaskStep, KarmaStep,
       ResultStep, vars

LEMMA KarmaStarts == Init => KarmaInv
<1> SUFFICES ASSUME Init PROVE KarmaInv
  OBVIOUS
<1>1. /\ vote = [r \in Raters |-> [t \in Targets |-> NoVote]]
      /\ ruling = [r \in Raters |-> [t \in Targets |-> NoRuling]]
      /\ judging = {} /\ signals = {}
      /\ form = [r \in Raters |-> [w \in Tabs |-> Empty]]
      /\ confirming = [r \in Raters |-> NoConfirmation]
  BY DEF Init, KarmaInit
<1>2. IsForm(Empty)
  BY DEF IsForm, Empty
<1>3. KarmaOK
  BY <1>1, <1>2 DEF KarmaOK, AreVotes, NoVote
<1>4. /\ LocksHold
      /\ \A r \in Raters : Confirming(r) => Confirmed(r)
  BY <1>1 DEF LocksHold, Confirming
<1>5. RulingsInv
  BY <1>1 DEF RulingsInv, WasRead, NoRuling, NoVote
<1>6. ASSUME NEW t \in Targets PROVE Signalled(vote, signals, t)
  <2>1. Negative(vote, t) = {}
    BY <1>1 DEF Negative, NoVote
  <2>2. \A c : {r \in Negative(vote, t) : vote[r][t].comment = c} = {}
    BY <2>1
  <2>3. ~(Cardinality({}) >= Burst)
    BY FS_EmptySet, RatersAreFinite
  <2> QED
    BY <2>1, <2>2, <2>3 DEF Signalled
<1> QED
  BY <1>3, <1>4, <1>5, <1>6, SignalledForAll DEF KarmaInv

\* Nothing that the commands of a form do is seen outside it.
FormsOnly ==
  /\ UNCHANGED <<vote, ruling, judging, signals, confirming>>
  /\ form' = [r \in Raters |-> [w \in Tabs |-> form'[r][w]]]
  /\ \A r \in Raters, w \in Tabs : IsForm(form'[r][w])

LEMMA FormsOnlyKeeps ==
  ASSUME KarmaInv, FormsOnly
  PROVE  KarmaInv'
<1>1. KarmaOK'
  BY DEF KarmaInv, KarmaOK, FormsOnly, AreVotes, IsForm
<1>2. LocksHold'
  BY DEF KarmaInv, FormsOnly, LocksHold, Holding, Confirming
<1>3. (\A r \in Raters : Confirming(r) => Confirmed(r))'
  BY DEF KarmaInv, FormsOnly, Confirming, Confirmed
<1>4. RulingsInv'
  BY DEF KarmaInv, FormsOnly, RulingsInv
<1>5. NegativesAreSignalled'
  BY SignalledForAll DEF KarmaInv, FormsOnly
<1> QED
  BY <1>1, <1>2, <1>3, <1>4, <1>5 DEF KarmaInv

LEMMA OneFormChanges ==
  ASSUME KarmaInv, NEW r \in Raters, NEW w \in Tabs, NEW f, IsForm(f),
         form' = [form EXCEPT ![r][w] = f],
         UNCHANGED <<vote, ruling, judging, signals, confirming>>
  PROVE  FormsOnly
<1>1. /\ form = [q \in Raters |-> [v \in Tabs |-> form[q][v]]]
      /\ \A q \in Raters, v \in Tabs : IsForm(form[q][v])
  BY DEF KarmaInv, KarmaOK
<1>2. /\ form' = [q \in Raters |-> [v \in Tabs |-> form'[q][v]]]
      /\ \A q \in Raters, v \in Tabs : form'[q][v] = IF q = r /\ v = w THEN f ELSE form[q][v]
  <2>1. \A q \in Raters : form[q] = [v \in Tabs |-> form[q][v]]
    BY <1>1
  <2>2. form' = [q \in Raters |-> IF q = r THEN [form[r] EXCEPT ![w] = f] ELSE form[q]]
    BY <1>1
  <2>3. \A q \in Raters, v \in Tabs : form'[q][v] = IF q = r /\ v = w THEN f ELSE form[q][v]
    BY <2>1, <2>2
  <2>4. \A q \in Raters : form'[q] = [v \in Tabs |-> form'[q][v]]
    BY <2>1, <2>2
  <2> QED
    BY <2>2, <2>3, <2>4
<1> QED
  BY <1>1, <1>2 DEF FormsOnly

LEMMA TypingKeeps ==
  ASSUME KarmaInv, NEW r \in Raters, NEW w \in Tabs,
         \/ \E t \in Targets, v \in Values, c \in Comments : Type(r, w, t, v, c)
         \/ BeginVote(r, w) \/ SaveValue(r, w) \/ SaveComment(r, w)
  PROVE  KarmaInv'
<1>0. IsForm(form[r][w])
  BY DEF KarmaInv, KarmaOK
<1> SUFFICES FormsOnly
  BY FormsOnlyKeeps
<1>1. ASSUME NEW t \in Targets, NEW v \in Values, NEW c \in Comments, Type(r, w, t, v, c)
      PROVE  FormsOnly
  <2> DEFINE f == [Empty EXCEPT !.target = t, !.value = v, !.comment = c]
  <2>1. IsForm(f)
    <3>1. DOMAIN f = DOMAIN Empty /\ f.target = t
      BY DEF Empty
    <3> HIDE DEF f
    <3> QED
      BY <3>1 DEF IsForm, Empty
  <2> QED
    BY <1>1, <2>1, OneFormChanges DEF Type
<1>2. ASSUME BeginVote(r, w) \/ SaveValue(r, w) \/ SaveComment(r, w)
      PROVE  FormsOnly
  <2>1. \E stage, rev : /\ form' = [form EXCEPT ![r][w].stage = stage, ![r][w].rev = rev]
                        /\ form[r][w].target \in Targets
    <3>1. CASE BeginVote(r, w)
      BY <3>1, <1>0 DEF BeginVote, IsForm
    <3>2. CASE SaveValue(r, w)
      BY <3>2, <1>0 DEF SaveValue, IsForm
    <3>3. CASE SaveComment(r, w)
      BY <3>3, <1>0 DEF SaveComment, IsForm
    <3> QED
      BY <1>2, <3>1, <3>2, <3>3
  <2>2. PICK stage, rev : /\ form' = [form EXCEPT ![r][w].stage = stage, ![r][w].rev = rev]
                          /\ form[r][w].target \in Targets
    BY <2>1
  <2> DEFINE f == [form[r][w] EXCEPT !.stage = stage, !.rev = rev]
  <2>3. IsForm(f)
    <3>1. DOMAIN f = DOMAIN form[r][w] /\ f.target = form[r][w].target
      BY <1>0 DEF IsForm
    <3> HIDE DEF f
    <3> QED
      BY <1>0, <2>2, <3>1 DEF IsForm
  <2>4. form' = [form EXCEPT ![r][w] = f]
    BY <2>2 DEF KarmaInv, KarmaOK
  <2>5. UNCHANGED <<vote, ruling, judging, signals, confirming>>
    BY <1>2 DEF BeginVote, SaveValue, SaveComment
  <2> QED
    BY <2>3, <2>4, <2>5, OneFormChanges
<1> QED
  BY <1>1, <1>2

LEMMA ConfirmationKeeps ==
  ASSUME KarmaInv, NEW r \in Raters, NEW w \in Tabs, ConfirmVote(r, w)
  PROVE  KarmaInv'
<1> DEFINE t == form[r][w].target
           new == Upserted(r, t)
           c == [target |-> t, tab |-> w, vote |-> new,
                 raised |-> Raised(r, t, WithVote(vote, r, t, new))]
<1>1. /\ t \in Targets /\ MembersFree(r, t)
      /\ UNCHANGED <<vote, ruling, judging, signals, form>>
      /\ confirming' = [confirming EXCEPT ![r] = c]
  BY DEF ConfirmVote, KarmaInv, KarmaOK, IsForm, WithVote
<1>2. new.rev = vote[r][t].rev + 1
  BY DEF Upserted
<1>3. /\ confirming' = [q \in Raters |-> confirming'[q]]
      /\ confirming'[r] = c
      /\ \A q \in Raters : q # r => confirming'[q] = confirming[q]
  BY <1>1 DEF KarmaInv, KarmaOK
<1>4. c.target = t /\ c.tab = w /\ c.vote = new
      /\ c.raised = Raised(r, t, WithVote(vote, r, t, new))
  OBVIOUS
<1> HIDE DEF c, new, t
<1>5. KarmaOK'
  BY <1>1, <1>3 DEF KarmaInv, KarmaOK, AreVotes, IsForm
<1>6. \A q \in Raters : (q # r /\ Confirming(q)) => Holding(q) \cap {r, t} = {}
  BY <1>1 DEF MembersFree, Locked, Holding, Confirming
<1>7. LocksHold'
  <2> SUFFICES ASSUME NEW p \in Raters, NEW q \in Raters, p # q,
                      Confirming(p)', Confirming(q)'
               PROVE  Holding(p)' \cap Holding(q)' = {}
    BY DEF LocksHold
  <2>1. Holding(r)' = {r, t}
    BY <1>3, <1>4 DEF Holding
  <2>2. \A x \in Raters : x # r => Holding(x)' = Holding(x) /\ (Confirming(x)' <=> Confirming(x))
    BY <1>3 DEF Holding, Confirming
  <2>3. CASE p = r
    BY <2>1, <2>2, <2>3, <1>6
  <2>4. CASE q = r
    BY <2>1, <2>2, <2>4, <1>6
  <2>5. CASE p # r /\ q # r
    BY <2>2, <2>5 DEF KarmaInv, LocksHold
  <2> QED
    BY <2>3, <2>4, <2>5
<1>8. (\A q \in Raters : Confirming(q) => Confirmed(q))'
  <2> SUFFICES ASSUME NEW q \in Raters, Confirming(q)'
               PROVE  Confirmed(q)'
    OBVIOUS
  <2>1. CASE q = r
    BY <2>1, <1>1, <1>2, <1>3, <1>4 DEF Confirmed
  <2>2. CASE q # r
    <3>1. Confirmed(q)
      BY <2>2, <1>3 DEF Confirming, KarmaInv
    <3> QED
      BY <3>1, <2>2, <1>1, <1>3 DEF Confirmed
  <2> QED
    BY <2>1, <2>2
<1>9. RulingsInv'
  BY <1>1 DEF KarmaInv, RulingsInv
<1>10. NegativesAreSignalled'
  BY <1>1, SignalledForAll DEF KarmaInv
<1> QED
  BY <1>5, <1>7, <1>8, <1>9, <1>10 DEF KarmaInv

LEMMA CommitKeeps ==
  ASSUME KarmaInv, NEW r \in Raters, ConfirmCommits(r)
  PROVE  KarmaInv'
<1> DEFINE c == confirming[r]
           t == c.target
<1>1. /\ Confirmed(r) /\ Confirming(r)
      /\ vote' = WithVote(vote, r, t, c.vote)
      /\ signals' = signals \cup c.raised
      /\ form' = [form EXCEPT ![r][c.tab] = Empty]
      /\ confirming' = [confirming EXCEPT ![r] = NoConfirmation]
      /\ UNCHANGED <<ruling, judging>>
  BY DEF ConfirmCommits, KarmaInv, Confirming, WithVote
<1>2. /\ t \in Targets /\ c.tab \in Tabs /\ c.vote.rev = vote[r][t].rev + 1
      /\ c.raised = Raised(r, t, WithVote(vote, r, t, c.vote))
  BY <1>1 DEF Confirmed
<1>3. AreVotes(vote) /\ \A x \in Raters, u \in Targets : vote[x][u].rev \in Nat
  BY DEF KarmaInv, KarmaOK
<1>4. /\ AreVotes(vote')
      /\ \A x \in Raters, u \in Targets :
           vote'[x][u] = IF x = r /\ u = t THEN c.vote ELSE vote[x][u]
  BY <1>1, <1>2, <1>3, OneVoteChanges
<1>5. /\ ~Confirming(r)'
      /\ confirming' = [q \in Raters |-> confirming'[q]]
      /\ \A q \in Raters : q # r => confirming'[q] = confirming[q]
  BY <1>1 DEF KarmaInv, KarmaOK, Confirming
<1>6. KarmaOK'
  <2>1. IsForm(Empty)
    BY DEF IsForm, Empty
  <2>2. /\ form = [q \in Raters |-> [w \in Tabs |-> form[q][w]]]
        /\ \A q \in Raters, w \in Tabs : IsForm(form[q][w])
    BY DEF KarmaInv, KarmaOK
  <2> DEFINE tab == c.tab
  <2>3. tab \in Tabs
    BY <1>2
  <2>4. form' = [q \in Raters |-> IF q = r THEN [form[r] EXCEPT ![tab] = Empty] ELSE form[q]]
    BY <1>1, <2>2
  <2>5. \A q \in Raters : form[q] = [w \in Tabs |-> form[q][w]]
    BY <2>2
  <2> HIDE DEF tab, c
  <2>6. \A q \in Raters, w \in Tabs : form'[q][w] = IF q = r /\ w = tab THEN Empty ELSE form[q][w]
    BY <2>3, <2>4, <2>5
  <2>7. \A q \in Raters : form'[q] = [w \in Tabs |-> form'[q][w]]
    BY <2>3, <2>4, <2>5
  <2>8. form' = [q \in Raters |-> [w \in Tabs |-> form'[q][w]]]
    BY <2>4, <2>7
  <2>9. \A q \in Raters, w \in Tabs : IsForm(form[q][w])'
    <3> TAKE q \in Raters, w \in Tabs
    <3>1. IsForm(form'[q][w])
      BY <2>1, <2>2, <2>6
    <3> QED
      BY <3>1 DEF IsForm
  <2>10. \A x \in Raters, u \in Targets : vote'[x][u].rev \in Nat
    BY <1>2, <1>3, <1>4
  <2>11. ruling' = [q \in Raters |-> [u \in Targets |-> ruling'[q][u]]]
    BY <1>1 DEF KarmaInv, KarmaOK
  <2> QED
    BY <2>8, <2>9, <2>10, <2>11, <1>4, <1>5 DEF KarmaOK, AreVotes
<1>7. \A q \in Raters : Confirming(q)' =>
        /\ q # r /\ Confirming(q) /\ Holding(q)' = Holding(q)
        /\ confirming'[q] = confirming[q]
  BY <1>5 DEF Holding, Confirming
<1>8. LocksHold'
  BY <1>7 DEF KarmaInv, LocksHold
<1>9. (\A q \in Raters : Confirming(q) => Confirmed(q))'
  <2> SUFFICES ASSUME NEW q \in Raters, Confirming(q)'
               PROVE  Confirmed(q)'
    OBVIOUS
  <2> DEFINE d == confirming[q]
  <2>1. /\ q # r /\ Confirming(q) /\ confirming'[q] = d
        /\ Confirmed(q)
    BY <1>7 DEF KarmaInv
  <2>2. /\ d.target \in Targets /\ d.tab \in Tabs /\ d.vote.rev = vote[q][d.target].rev + 1
        /\ d.raised = Raised(q, d.target, WithVote(vote, q, d.target, d.vote))
    BY <2>1 DEF Confirmed
  <2>3. d.target # t /\ d.target # r
    BY <2>1, <1>1 DEF KarmaInv, LocksHold, Holding
  <2> HIDE DEF d, c, t
  <2>4. vote'[q][d.target] = vote[q][d.target]
    BY <2>1, <2>2, <1>4
  <2> DEFINE a == WithVote(vote, q, d.target, d.vote)
             b == WithVote(vote', q, d.target, d.vote)
  <2>5. /\ \A x \in Raters, u \in Targets :
             a[x][u] = IF x = q /\ u = d.target THEN d.vote ELSE vote[x][u]
        /\ \A x \in Raters, u \in Targets :
             b[x][u] = IF x = q /\ u = d.target THEN d.vote ELSE vote'[x][u]
    BY <1>3, <1>4, <2>2, OneVoteChanges
  <2> HIDE DEF a, b
  <2>6. /\ \A x \in Raters : a[x][d.target] = b[x][d.target]
        /\ (d.target \in Raters /\ q \in Targets) => a[d.target][q] = b[d.target][q]
    BY <2>2, <2>3, <2>5, <1>4
  <2>7. Raised(q, d.target, a) = Raised(q, d.target, b)
    BY <2>2, <2>6, RaisedAgrees
  <2> QED
    BY <2>1, <2>2, <2>4, <2>7 DEF Confirmed, a, b
<1>10. RulingsInv'
  <2>1. \A x \in Raters, u \in Targets : \A v : WasRead(v, vote[x][u]) => WasRead(v, vote'[x][u])
    BY <1>2, <1>3, <1>4 DEF WasRead
  <2> QED
    BY <2>1, <1>1 DEF KarmaInv, RulingsInv
<1>11. NegativesAreSignalled'
  <2>1. c.vote.rev > 0
    BY <1>2, <1>3
  <2>2. \A u \in Targets : Signalled(vote, signals, u)
    BY SignalledForAll DEF KarmaInv
  <2> HIDE DEF c, t
  <2>3. \A u \in Targets : Signalled(WithVote(vote, r, t, c.vote),
                                     signals \cup Raised(r, t, WithVote(vote, r, t, c.vote)), u)
    BY <1>2, <1>3, <2>1, <2>2, SignalledAfter
  <2> QED
    BY <1>1, <1>2, <2>3, SignalledForAll
<1> QED
  BY <1>6, <1>8, <1>9, <1>10, <1>11 DEF KarmaInv

LEMMA JudgingKeeps ==
  ASSUME KarmaInv,
         \/ \E a \in Members, r \in Raters, t \in Targets, s \in {"excluded", "restored"} :
              ModerateBegins(a, r, t, s)
         \/ \E j \in judging : ModerateKarma(j)
  PROVE  KarmaInv'
<1>1. UNCHANGED <<vote, signals, form, confirming>>
  BY DEF ModerateBegins, ModerateKarma
<1>2. /\ KarmaOK /\ RulingsInv
      /\ ruling = [r \in Raters |-> [t \in Targets |-> ruling[r][t]]]
  BY DEF KarmaInv, KarmaOK
<1>3. RulingsInv' /\ ruling' = [r \in Raters |-> [t \in Targets |-> ruling'[r][t]]]
  <2>1. ASSUME NEW a \in Members, NEW r \in Raters, NEW t \in Targets,
               NEW s \in {"excluded", "restored"}, ModerateBegins(a, r, t, s)
        PROVE  RulingsInv' /\ ruling' = [q \in Raters |-> [u \in Targets |-> ruling'[q][u]]]
    <3> DEFINE j == [by |-> a, rater |-> r, target |-> t, state |-> s, vote |-> vote[r][t]]
    <3>1. judging' = judging \cup {j} /\ ruling' = ruling
      BY <2>1 DEF ModerateBegins
    <3>2. WasRead(vote[r][t], vote[r][t])
      BY <1>2 DEF WasRead, KarmaOK
    <3>3. j.rater = r /\ j.target = t /\ j.vote = vote[r][t]
      OBVIOUS
    <3> HIDE DEF j
    <3> QED
      BY <3>1, <3>2, <3>3, <1>1, <1>2 DEF RulingsInv
  <2>2. ASSUME NEW j \in judging, ModerateKarma(j)
        PROVE  RulingsInv' /\ ruling' = [q \in Raters |-> [u \in Targets |-> ruling'[q][u]]]
    <3> DEFINE r == j.rater
               t == j.target
               old == ruling[r][t]
               row == [rev |-> j.vote.rev, state |-> j.state, judged |-> j.vote]
               new == IF old.rev > j.vote.rev THEN old ELSE row
    <3>1. /\ ruling' = [ruling EXCEPT ![r][t] = new]
          /\ judging' = judging \ {j}
      BY <2>2, <1>2 DEF ModerateKarma, RuledRevision
    <3>2. r \in Raters /\ t \in Targets /\ WasRead(j.vote, vote[r][t])
          /\ old.rev = old.judged.rev /\ WasRead(old.judged, vote[r][t])
      BY <1>2 DEF RulingsInv
    <3>3. row.rev = row.judged.rev /\ row.judged = j.vote
      OBVIOUS
    <3>4. new.rev = new.judged.rev /\ WasRead(new.judged, vote[r][t])
      BY <3>2, <3>3
    <3> HIDE DEF r, t, new
    <3>5. /\ \A q \in Raters, u \in Targets :
               ruling'[q][u] = IF q = r /\ u = t THEN new ELSE ruling[q][u]
          /\ ruling' = [q \in Raters |-> [u \in Targets |-> ruling'[q][u]]]
      <4>1. \A q \in Raters : ruling[q] = [u \in Targets |-> ruling[q][u]]
        BY <1>2
      <4>2. ruling' = [q \in Raters |-> IF q = r THEN [ruling[r] EXCEPT ![t] = new] ELSE ruling[q]]
        BY <1>2, <3>1
      <4>3. \A q \in Raters, u \in Targets :
              ruling'[q][u] = IF q = r /\ u = t THEN new ELSE ruling[q][u]
        BY <4>1, <4>2
      <4>4. \A q \in Raters : ruling'[q] = [u \in Targets |-> ruling'[q][u]]
        BY <4>1, <4>2
      <4> QED
        BY <4>2, <4>3, <4>4
    <3> QED
      BY <3>1, <3>2, <3>4, <3>5, <1>1, <1>2, SMTT(30) DEF RulingsInv
  <2> QED
    BY <2>1, <2>2
<1>4. KarmaOK'
  BY <1>1, <1>2, <1>3 DEF KarmaOK, AreVotes, IsForm
<1>5. LocksHold' /\ (\A r \in Raters : Confirming(r) => Confirmed(r))'
  BY <1>1 DEF KarmaInv, LocksHold, Holding, Confirming, Confirmed
<1>6. NegativesAreSignalled'
  BY <1>1, SignalledForAll DEF KarmaInv
<1> QED
  BY <1>3, <1>4, <1>5, <1>6 DEF KarmaInv

LEMMA KarmaKept == KarmaInv /\ [Next]_vars => KarmaInv'
<1> SUFFICES ASSUME KarmaInv, [Next]_vars
             PROVE  KarmaInv'
  OBVIOUS
<1>1. CASE UNCHANGED karmaVars
  <2>1. FormsOnly
    BY <1>1 DEF FormsOnly, karmaVars, KarmaInv, KarmaOK
  <2> QED
    BY <2>1, FormsOnlyKeeps
<1>2. CASE KarmaNext
  <2>1. ASSUME NEW r \in Raters, NEW w \in Tabs,
               \/ \E t \in Targets, v \in Values, c \in Comments : Type(r, w, t, v, c)
               \/ BeginVote(r, w) \/ SaveValue(r, w) \/ SaveComment(r, w)
        PROVE  KarmaInv'
    BY <2>1, TypingKeeps
  <2>2. ASSUME NEW r \in Raters, NEW w \in Tabs, ConfirmVote(r, w)
        PROVE  KarmaInv'
    BY <2>2, ConfirmationKeeps
  <2>3. ASSUME NEW r \in Raters, ConfirmCommits(r) PROVE KarmaInv'
    BY <2>3, CommitKeeps
  <2>4. ASSUME NEW r \in Raters, CancelVote(r) PROVE KarmaInv'
    <3>1. UNCHANGED karmaVars
      BY <2>4 DEF CancelVote, karmaVars
    <3> QED
      BY <3>1, <1>1
  <2> QED
    BY <1>2, <2>1, <2>2, <2>3, <2>4, JudgingKeeps DEF KarmaNext
<1> QED
  BY <1>1, <1>2, KarmaMoves

(* However the confirmations of raters interleave, a burst of negative      *)
(* votes, negative votes with one comment and mutual negative votes after a *)
(* dispute have raised their signal (confirm_vote holds both members from   *)
(* the vote to the commit, generate_karma_signals).                         *)
THEOREM Negatives == Spec => []NegativesAreSignalled
<1>1. KarmaInv => NegativesAreSignalled
  BY DEF KarmaInv
<1> QED
  BY <1>1, KarmaStarts, KarmaKept, PTL DEF Spec

(* What a reviewer excluded is the vote that he read, whatever the rater    *)
(* did meanwhile (moderate_karma names the revision it has judged).         *)
THEOREM Exclusions == Spec => []ExclusionIsForWhatWasJudged
<1>1. KarmaInv => ExclusionIsForWhatWasJudged
  BY DEF KarmaInv, RulingsInv, WasRead, ExclusionIsForWhatWasJudged, Counts
<1> QED
  BY <1>1, KarmaStarts, KarmaKept, PTL DEF Spec

-----------------------------------------------------------------------------
(* The submission of a result.                                              *)

LEMMA SubmissionMoves == ASSUME [Next]_vars PROVE SubmissionNext \/ UNCHANGED submissionVars
BY DEF Next, Administer, LeavesOrReturns, ProfileStep, CatalogStep, TaskStep, KarmaStep,
       ResultStep, vars

LEMMA SubmissionStarts == Init => SubmissionInv
<1> SUFFICES ASSUME Init PROVE SubmissionInv
  OBVIOUS
<1>1. SubmissionInit
  BY DEF Init
<1>2. NoResultDraft.rev = -1 /\ NoResultDraft.text = Nothing
  BY DEF NoResultDraft
<1>3. DOMAIN NoResultDraft = {"rev", "text"} /\ IsSheet(Unopened)
      /\ Unopened.draft = NoResultDraft /\ Unopened.phase = "unopened"
  BY DEF NoResultDraft, IsSheet, Unopened
<1> QED
  BY <1>1, <1>2, <1>3
     DEF SubmissionInit, SubmissionInv, StoredOK, SheetsOK, RequestsOK, ResultOK, StoredIn

\* The sheet s holds the draft d from now on, and asks for nothing else.
Moved(s, d) ==
  /\ sheet' = [q \in Sheets |-> sheet'[q]]
  /\ \A q \in Sheets : q # s => sheet'[q] = sheet[q]
  /\ IsSheet(sheet'[s]) /\ sheet'[s].draft = d
  /\ awaited' \subseteq requests'
  /\ \A x \in requests' :
       x \in requests \/ (x.of = s /\ x.op \in Ops /\ x.rev = d.rev /\ x.held = d.text)

\* The server forgets nothing it has shown, and keeps what was submitted.
ServerStands ==
  /\ StoredOK'
  /\ \A rev, text : StoredIn(resultDraft, rev, text) => StoredIn(resultDraft', rev, text)
  /\ progress' = "accepted" => results' = {}
  /\ results' = {} \/ \E x \in results' : results' = {x}
  /\ \A x \in results' : x.text = resultDraft'.text /\ x.text = x.held
  /\ \A x \in receipts' : x.fingerprint[1] = "confirm" =>
       results' # {} /\ x.fingerprint[2] = resultDraft'.rev
  /\ results # {} => results' # {} /\ resultDraft' = resultDraft

LEMMA ServerIdles ==
  ASSUME SubmissionInv, UNCHANGED <<resultDraft, results, receipts>>,
         progress' = "accepted" => progress = "accepted"
  PROVE  ServerStands
BY DEF SubmissionInv, StoredOK, ResultOK, StoredIn, ServerStands

LEMMA MovedKeeps ==
  ASSUME SubmissionInv, ServerStands, NEW s \in Sheets, NEW d, Moved(s, d),
         d = sheet[s].draft \/ d = resultDraft',
         sheet'[s].phase = "done" =>
           sheet[s].phase = "done"
             \/ (results' # {} /\ sheet'[s].draft.text = resultDraft'.text)
  PROVE  SubmissionInv'
<1>1. /\ \A q \in Sheets : IsSheet(sheet[q]) /\ StoredIn(resultDraft', sheet[q].draft.rev, sheet[q].draft.text)
      /\ \A x \in requests : /\ x.of \in Sheets /\ x.op \in Ops
                             /\ StoredIn(resultDraft', x.rev, x.held)
                             /\ x.rev <= sheet[x.of].draft.rev
                             /\ x.rev \in Int /\ sheet[x.of].draft.rev \in Int
  BY DEF SubmissionInv, SheetsOK, RequestsOK, ServerStands, StoredIn
<1>2. /\ StoredIn(resultDraft', d.rev, d.text) /\ d.rev \in Int
      /\ sheet[s].draft.rev <= d.rev /\ sheet[s].draft.rev \in Int
  <2>1. /\ StoredIn(resultDraft', sheet[s].draft.rev, sheet[s].draft.text)
        /\ StoredIn(resultDraft', resultDraft'.rev, resultDraft'.text) /\ resultDraft'.rev \in Int
    BY <1>1 DEF ServerStands, StoredOK, StoredIn
  <2> QED
    BY <2>1 DEF StoredIn
<1>3. SheetsOK'
  <2>1. \A q \in Sheets : IsSheet(sheet'[q])
                            /\ StoredIn(resultDraft', sheet'[q].draft.rev, sheet'[q].draft.text)
    BY <1>1, <1>2 DEF Moved
  <2> QED
    BY <2>1 DEF Moved, SheetsOK, IsSheet, StoredIn
<1>4. RequestsOK'
  <2>1. ASSUME NEW x \in requests'
        PROVE  /\ x.of \in Sheets /\ x.op \in Ops /\ StoredIn(resultDraft', x.rev, x.held)
               /\ x.rev <= sheet'[x.of].draft.rev
    <3>1. CASE x \in requests
      <4>1. CASE x.of = s
        BY <3>1, <4>1, <1>1, <1>2 DEF Moved
      <4>2. CASE x.of # s
        BY <3>1, <4>2, <1>1 DEF Moved
      <4> QED
        BY <4>1, <4>2
    <3>2. CASE x \notin requests
      BY <3>2, <1>2 DEF Moved
    <3> QED
      BY <3>1, <3>2
  <2> QED
    BY <2>1 DEF RequestsOK, Moved, StoredIn
<1>5. \A q \in Sheets : sheet'[q].phase = "done" =>
        results' # {} /\ sheet'[q].draft.text = resultDraft'.text
  <2> TAKE q \in Sheets
  <2>1. \A p \in Sheets : sheet[p].phase = "done" =>
          results' # {} /\ sheet[p].draft.text = resultDraft'.text
    BY DEF SubmissionInv, ResultOK, ServerStands
  <2>2. CASE q # s
    BY <2>1, <2>2 DEF Moved
  <2>3. CASE q = s
    BY <2>1, <2>3 DEF Moved
  <2> QED
    BY <2>2, <2>3
<1> QED
  BY <1>3, <1>4, <1>5 DEF SubmissionInv, ServerStands, ResultOK

LEMMA SheetIs ==
  ASSUME SubmissionInv, NEW s \in Sheets, NEW x, IsSheet(x), sheet' = [sheet EXCEPT ![s] = x]
  PROVE  /\ sheet' = [q \in Sheets |-> sheet'[q]]
         /\ \A q \in Sheets : q # s => sheet'[q] = sheet[q]
         /\ sheet'[s] = x
BY DEF SubmissionInv, SheetsOK

LEMMA SendMoves ==
  ASSUME SubmissionInv, NEW s \in Sheets, NEW op \in Ops, NEW state, IsSheet(state), NEW typed,
         NEW answered, Send(s, op, state, typed, answered)
  PROVE  Moved(s, state.draft) /\ sheet'[s].phase = state.phase
<1> DEFINE r == Request(s, op, state, typed)
           x == [state EXCEPT !.keys[op] = r.key, !.sent = @ + 1]
<1>1. /\ sheet' = [sheet EXCEPT ![s] = x]
      /\ requests' = (requests \ answered) \cup {r}
      /\ awaited' = (awaited \ answered) \cup {r}
  BY DEF Send
<1>2. r.of = s /\ r.op = op /\ r.rev = state.draft.rev /\ r.held = state.draft.text
  BY DEF Request
<1>3. IsSheet(x) /\ x.draft = state.draft /\ x.phase = state.phase
  BY DEF IsSheet
<1> HIDE DEF r, x
<1>4. awaited \subseteq requests
  BY DEF SubmissionInv, RequestsOK
<1>5. /\ sheet' = [q \in Sheets |-> sheet'[q]]
      /\ \A q \in Sheets : q # s => sheet'[q] = sheet[q]
      /\ sheet'[s] = x
  BY <1>1, <1>3, SheetIs
<1> QED
  BY <1>1, <1>2, <1>3, <1>4, <1>5 DEF Moved

LEMMA SheetSteps ==
  ASSUME SubmissionInv, NEW s \in Sheets,
         OpenSheet(s) \/ PressButton(s) \/ DismissSheet(s) \/ \E t \in Texts : EditText(s, t)
  PROVE  SubmissionInv'
<1>0. IsSheet(sheet[s]) /\ awaited \subseteq requests
  BY DEF SubmissionInv, SheetsOK, RequestsOK
<1>1. ServerStands
  BY ServerIdles DEF OpenSheet, PressButton, DismissSheet, EditText, serverVars
<1>2. Moved(s, sheet[s].draft) /\ (sheet'[s].phase = "done" => sheet[s].phase = "done")
  <2>1. CASE OpenSheet(s)
    <3> DEFINE x == [sheet[s] EXCEPT !.phase = "open", !.enabled = FALSE]
    <3>1. IsSheet(x) /\ x.draft = sheet[s].draft /\ x.phase = "open"
      BY <1>0 DEF IsSheet
    <3>2. Send(s, "begin", x, Nothing, {})
      BY <2>1 DEF OpenSheet
    <3> HIDE DEF x
    <3> QED
      BY <3>1, <3>2, SendMoves DEF Ops
  <2>2. CASE PressButton(s)
    <3> DEFINE x == [sheet[s] EXCEPT !.enabled = FALSE]
               op == IF sheet[s].draft.text # sheet[s].input THEN "save" ELSE "confirm"
    <3>1. IsSheet(x) /\ x.draft = sheet[s].draft /\ x.phase = sheet[s].phase
      BY <1>0 DEF IsSheet
    <3>2. Send(s, op, x, sheet[s].input, {})
      BY <2>2 DEF PressButton
    <3>3. op \in Ops
      BY DEF Ops
    <3> HIDE DEF x, op
    <3> QED
      BY <3>1, <3>2, <3>3, SendMoves
  <2>3. CASE DismissSheet(s)
    <3> DEFINE x == [sheet[s] EXCEPT !.phase = "dismissed"]
    <3>1. IsSheet(x) /\ x.draft = sheet[s].draft /\ x.phase = "dismissed"
      BY <1>0 DEF IsSheet
    <3>2. sheet' = [sheet EXCEPT ![s] = x] /\ UNCHANGED <<requests, awaited>>
      BY <2>3 DEF DismissSheet, SubmissionInv, SheetsOK
    <3> HIDE DEF x
    <3> QED
      BY <3>1, <3>2, <1>0, SheetIs DEF Moved
  <2>4. ASSUME NEW t \in Texts, EditText(s, t)
        PROVE  Moved(s, sheet[s].draft) /\ (sheet'[s].phase = "done" => sheet[s].phase = "done")
    <3>1. /\ sheet' = [sheet EXCEPT ![s].input = t, ![s].keys.confirm = 0,
                                    ![s].enabled = sheet[s].draft # NoResultDraft]
          /\ UNCHANGED <<requests, awaited>>
      BY <2>4 DEF EditText
    <3>2. /\ sheet' = [q \in Sheets |-> sheet'[q]]
          /\ \A q \in Sheets : q # s => sheet'[q] = sheet[q]
          /\ IsSheet(sheet'[s]) /\ sheet'[s].draft = sheet[s].draft
          /\ sheet'[s].phase = sheet[s].phase
      BY <3>1, <1>0 DEF SubmissionInv, SheetsOK, IsSheet
    <3> QED
      BY <3>1, <3>2, <1>0 DEF Moved
  <2> QED
    BY <2>1, <2>2, <2>3, <2>4
<1> QED
  BY <1>1, <1>2, MovedKeeps

LEMMA FailureKeeps ==
  ASSUME SubmissionInv, NEW r \in requests, Refuse(r) \/ GiveUp(r)
  PROVE  SubmissionInv'
<1> DEFINE s == r.of
<1>0. s \in Sheets /\ IsSheet(sheet[s]) /\ awaited \subseteq requests
  BY DEF SubmissionInv, SheetsOK, RequestsOK
<1>1. ServerStands
  BY ServerIdles DEF Refuse, GiveUp, serverVars
<1>2. /\ requests' \in {requests, requests \ {r}} /\ awaited' \subseteq requests'
      /\ \/ UNCHANGED sheet
         \/ \E refused \in BOOLEAN : Failed(r, refused)
  <2>1. UNCHANGED sheet \/ \E refused \in BOOLEAN : Failed(r, refused)
    BY DEF Refuse, GiveUp
  <2>2. requests' \in {requests, requests \ {r}} /\ awaited' \subseteq requests'
    <3>1. CASE Refuse(r)
      BY <1>0, <3>1 DEF Refuse, Failed
    <3>2. CASE GiveUp(r)
      BY <1>0, <3>2 DEF GiveUp, Failed
    <3> QED
      BY <3>1, <3>2
  <2> QED
    BY <2>1, <2>2
<1>3. /\ sheet' = [q \in Sheets |-> sheet'[q]]
      /\ \A q \in Sheets : q # s => sheet'[q] = sheet[q]
      /\ IsSheet(sheet'[s]) /\ sheet'[s].draft = sheet[s].draft
      /\ sheet'[s].phase = sheet[s].phase
  <2>1. CASE UNCHANGED sheet
    BY <2>1, <1>0 DEF SubmissionInv, SheetsOK
  <2>2. ASSUME NEW refused \in BOOLEAN, Failed(r, refused)
        PROVE  /\ sheet' = [q \in Sheets |-> sheet'[q]]
               /\ \A q \in Sheets : q # s => sheet'[q] = sheet[q]
               /\ IsSheet(sheet'[s]) /\ sheet'[s].draft = sheet[s].draft
               /\ sheet'[s].phase = sheet[s].phase
    <3>1. \E keys : sheet' = [sheet EXCEPT ![s].enabled = TRUE, ![s].keys = keys]
      BY <2>2, <1>0 DEF Failed, SubmissionInv, SheetsOK, IsSheet
    <3> QED
      BY <3>1, <1>0 DEF SubmissionInv, SheetsOK, IsSheet
  <2> QED
    BY <1>2, <2>1, <2>2
<1>4. Moved(s, sheet[s].draft)
  BY <1>2, <1>3 DEF Moved
<1> QED
  BY <1>0, <1>1, <1>3, <1>4, MovedKeeps

\* What a confirmation has confirmed is the draft, which is submitted.
LEMMA RepliedKeeps ==
  ASSUME SubmissionInv, ServerStands, NEW r \in requests, Replied(r, resultDraft'),
         r.op = "confirm" => results' # {} /\ r.rev = resultDraft'.rev
  PROVE  SubmissionInv'
<1> DEFINE s == r.of
<1>0. /\ s \in Sheets /\ IsSheet(sheet[s]) /\ awaited \subseteq requests
      /\ r.rev <= sheet[s].draft.rev /\ r.rev \in Int
      /\ StoredIn(resultDraft', sheet[s].draft.rev, sheet[s].draft.text)
      /\ resultDraft'.rev \in Int
  BY DEF SubmissionInv, SheetsOK, RequestsOK, StoredIn, ServerStands, StoredOK
<1>1. CASE r \notin awaited
  <2>1. requests' = requests \ {r} /\ UNCHANGED <<sheet, awaited>>
    BY <1>1 DEF Replied
  <2>2. Moved(s, sheet[s].draft)
    BY <1>0, <1>1, <2>1 DEF Moved, SubmissionInv, SheetsOK
  <2> QED
    BY <1>0, <2>1, <2>2, MovedKeeps
<1>2. CASE r \in awaited
  <2>0. Answered(r, resultDraft')
    BY <1>2 DEF Replied
  <2>1. CASE r.op = "begin" /\ \E y, z : sheet' = [sheet EXCEPT ![s].draft = resultDraft',
                                            ![s].input = y, ![s].enabled = z]
             /\ requests' = requests \ {r} /\ awaited' = awaited \ {r}
    <3>1. /\ sheet' = [q \in Sheets |-> sheet'[q]]
          /\ \A q \in Sheets : q # s => sheet'[q] = sheet[q]
          /\ IsSheet(sheet'[s]) /\ sheet'[s].draft = resultDraft'
          /\ sheet'[s].phase = sheet[s].phase
      <4>1. PICK y, z : sheet' = [sheet EXCEPT ![s].draft = resultDraft',
                                            ![s].input = y, ![s].enabled = z]
        BY <2>1
      <4> HIDE DEF s
      <4> QED
        BY <4>1, <1>0 DEF SubmissionInv, SheetsOK, IsSheet
    <3>2. Moved(s, resultDraft')
      BY <2>1, <3>1, <1>0 DEF Moved
    <3> QED
      BY <3>1, <3>2, <1>0, MovedKeeps
  <2>2. CASE r.op = "save"
    <3> DEFINE x == [sheet[s] EXCEPT !.draft = resultDraft', !.keys.save = 0, !.keys.confirm = 0]
    <3>1. Send(s, "confirm", x, r.typed, {r})
      BY <2>0, <2>2 DEF Answered
    <3>2. IsSheet(x) /\ x.draft = resultDraft' /\ x.phase = sheet[s].phase
      BY <1>0 DEF IsSheet
    <3> HIDE DEF x, s
    <3>3. Moved(s, resultDraft') /\ sheet'[s].phase = sheet[s].phase
      BY <3>1, <3>2, <1>0, SendMoves DEF Ops
    <3> QED
      BY <3>3, <1>0, MovedKeeps
  <2>3. CASE r.op = "confirm"
    <3>1. /\ sheet' = [sheet EXCEPT ![s].phase = "done"]
          /\ requests' = requests \ {r} /\ awaited' = awaited \ {r}
      BY <2>0, <2>3 DEF Answered
    <3>2. /\ sheet' = [q \in Sheets |-> sheet'[q]]
          /\ \A q \in Sheets : q # s => sheet'[q] = sheet[q]
          /\ IsSheet(sheet'[s]) /\ sheet'[s].draft = sheet[s].draft
      BY <3>1, <1>0 DEF SubmissionInv, SheetsOK, IsSheet
    <3>3. Moved(s, sheet[s].draft)
      BY <3>1, <3>2, <1>0 DEF Moved
    <3>4. results' # {} /\ sheet'[s].draft.text = resultDraft'.text
      BY <2>3, <3>2, <1>0 DEF StoredIn
    <3> QED
      BY <3>3, <3>4, <1>0, MovedKeeps
  <2> QED
    BY <2>0, <2>1, <2>2, <2>3 DEF Answered
<1> QED
  BY <1>1, <1>2

LEMMA ServeKeeps ==
  ASSUME SubmissionInv, NEW r \in requests, Serve(r)
  PROVE  SubmissionInv'
<1> DEFINE new == [id |-> Id(r), fingerprint |-> Fingerprint(r)]
<1>1. /\ progress = "accepted" /\ results = {}
      /\ \A x \in receipts : x.fingerprint[1] # "confirm"
      /\ receipts' = receipts \cup {new}
      /\ Replied(r, resultDraft')
  BY DEF Serve, MaySubmit, SubmissionInv, ResultOK, Received
<1>2. new.fingerprint[1] = r.op /\ new.fingerprint[2] = r.rev
  BY DEF Fingerprint
<1> HIDE DEF new
<1>3. /\ DOMAIN resultDraft = {"rev", "text"} /\ resultDraft.rev \in Int
      /\ StoredIn(resultDraft, r.rev, r.held)
  BY DEF SubmissionInv, StoredOK, RequestsOK
<1>4. CASE ServeBegin(r)
  <2>1. \/ resultDraft' = resultDraft
        \/ resultDraft.rev = -1 /\ resultDraft'.rev = 0 /\ DOMAIN resultDraft' = {"rev", "text"}
    BY <1>4 DEF ServeBegin, Resumed, NoResultDraft
  <2>2. ServerStands
    BY <1>1, <1>2, <1>3, <1>4, <2>1 DEF ServeBegin, ServerStands, StoredOK, StoredIn
  <2> QED
    BY <2>2, <1>1, <1>4, RepliedKeeps DEF ServeBegin
<1>5. CASE ServeSave(r)
  <2>1. resultDraft'.rev = resultDraft.rev + 1 /\ DOMAIN resultDraft' = {"rev", "text"}
    BY <1>5 DEF ServeSave, Revised
  <2>2. ServerStands
    BY <1>1, <1>2, <1>3, <1>5, <2>1 DEF ServeSave, ServerStands, StoredOK, StoredIn
  <2> QED
    BY <2>2, <1>1, <1>5, RepliedKeeps DEF ServeSave
<1>6. CASE ServeConfirm(r)
  <2> DEFINE x == [version |-> Cardinality(results) + 1, text |-> resultDraft.text,
                   held |-> r.held, typed |-> r.typed]
  <2>1. /\ results' = {x} /\ progress' = "submitted" /\ resultDraft' = resultDraft
        /\ r.op = "confirm" /\ resultDraft.rev = r.rev
    BY <1>6, <1>1 DEF ServeConfirm, Appended
  <2>2. x.text = resultDraft.text /\ x.held = r.held /\ r.held = resultDraft.text
    BY <1>3, <2>1 DEF StoredIn
  <2> HIDE DEF x
  <2>3. ServerStands
    BY <1>1, <1>2, <1>3, <2>1, <2>2 DEF ServerStands, StoredOK, StoredIn
  <2> QED
    BY <2>1, <2>3, <1>1, RepliedKeeps
<1> QED
  BY <1>4, <1>5, <1>6 DEF Serve

LEMMA ReplayKeeps ==
  ASSUME SubmissionInv, NEW r \in requests, Replay(r)
  PROVE  SubmissionInv'
<1>1. UNCHANGED serverVars /\ Replied(r, resultDraft')
  BY DEF Replay, serverVars
<1>2. ServerStands
  BY <1>1, ServerIdles DEF serverVars
<1>3. r.op = "confirm" => results' # {} /\ r.rev = resultDraft'.rev
  <2>1. PICK x \in receipts : x.fingerprint = Fingerprint(r)
    BY DEF Replay, Stored
  <2>2. x.fingerprint[1] = r.op /\ x.fingerprint[2] = r.rev
    BY <2>1 DEF Fingerprint
  <2> QED
    BY <1>1, <2>2 DEF SubmissionInv, ResultOK, serverVars
<1> QED
  BY <1>1, <1>2, <1>3, RepliedKeeps

LEMMA SubmissionKept == SubmissionInv /\ [Next]_vars => SubmissionInv'
<1> SUFFICES ASSUME SubmissionInv, [Next]_vars
             PROVE  SubmissionInv'
  OBVIOUS
<1>1. ASSUME UNCHANGED <<resultDraft, results, receipts, sheet, requests, awaited>>,
             progress' = "accepted" => progress = "accepted"
      PROVE  SubmissionInv'
  <2>1. ServerStands
    BY <1>1, ServerIdles
  <2> QED
    BY <2>1, <1>1
       DEF ServerStands, SubmissionInv, SheetsOK, RequestsOK, ResultOK, IsSheet, StoredIn
<1>2. CASE UNCHANGED submissionVars
  BY <1>1, <1>2 DEF submissionVars, serverVars
<1>3. CASE EndAssignment
  BY <1>1, <1>3 DEF EndAssignment
<1>4. ASSUME NEW s \in Sheets,
             OpenSheet(s) \/ PressButton(s) \/ DismissSheet(s) \/ \E t \in Texts : EditText(s, t)
      PROVE  SubmissionInv'
  BY <1>4, SheetSteps
<1>5. ASSUME NEW r \in requests, Serve(r) \/ Replay(r) \/ Refuse(r) \/ GiveUp(r)
      PROVE  SubmissionInv'
  BY <1>5, ServeKeeps, ReplayKeeps, FailureKeeps
<1> QED
  BY <1>2, <1>3, <1>4, <1>5, SubmissionMoves DEF SubmissionNext

(* However late a request is served, repeated or abandoned, at most one     *)
(* result is recorded: the text its confirming sheet held; and a sheet that *)
(* reports success holds that text (confirm_submission_draft compares the   *)
(* revision, the receipt is found before anything else).                    *)
THEOREM Submissions == Spec => []SubmittedAsConfirmed
<1>1. ASSUME SubmissionInv PROVE SubmittedAsConfirmed
  <2>1. Cardinality(results) <= 1
    <3>1. CASE results = {}
      BY <3>1, FS_EmptySet
    <3>2. ASSUME NEW x \in results, results = {x} PROVE Cardinality(results) <= 1
      BY <3>2, FS_Singleton
    <3> QED
      BY <1>1, <3>1, <3>2 DEF SubmissionInv, ResultOK
  <2> QED
    BY <1>1, <2>1 DEF SubmissionInv, ResultOK, SubmittedAsConfirmed
<1> QED
  BY <1>1, SubmissionStarts, SubmissionKept, PTL DEF Spec

-----------------------------------------------------------------------------
(* The rows of drafts.                                                      *)

LEMMA PublicationMoves ==
  ASSUME [Next]_vars
  PROVE  \/ PublicationNext
         \/ CatalogNext /\ UNCHANGED publicationVars
         \/ UNCHANGED <<publicationVars, catalogVars>>
BY DEF Next, Administer, LeavesOrReturns, ProfileStep, CatalogStep, TaskStep, KarmaStep,
       ResultStep, vars

\* What the command of another draft, a choice of draft or the clock leaves.
Kept(a, b) ==
  /\ b.owner = a.owner /\ b.template = a.template /\ b.origin = a.origin
  /\ b.step = a.step /\ b.rev = a.rev /\ b.kind = a.kind /\ b.category = a.category
  /\ b.size = a.size /\ b.reward = a.reward /\ b.slots = a.slots /\ b.given = a.given

Saved(a, b) ==
  /\ a.step \notin Terminal /\ b.step \notin Terminal
  /\ b.rev = a.rev + 1 /\ b.owner = a.owner

\* The step of one row; only a draft without a task is published.
RowMoves(d) ==
  \/ Kept(draft[d], draft'[d])
  \/ draft[d].step = "absent"
  \/ Saved(draft[d], draft'[d]) /\ (draft'[d].step = "published" => ~Published(d))
  \/ draft'[d].step = "deleted" /\ draft'[d].owner = draft[d].owner

RowsMove ==
  /\ draft' \in [Drafts -> DraftRows]
  /\ \A d \in Drafts : RowMoves(d) /\ DraftStands(draft'[d])

LEMMA KeptStands ==
  ASSUME NEW a, NEW b, Kept(a, b), DraftStands(a)
  PROVE  DraftStands(b)
BY DEF Kept, DraftStands, FreeformStands, TemplateStands, FitsKind

LEMMA NoDraftIsARow ==
  /\ NoDraft \in DraftRows /\ NoDraft.step = "absent" /\ NoDraft.owner = Nobody
  /\ NoDraft.template = 0 /\ NoDraft.kind = Nothing /\ NoDraft.category = Nothing
  /\ NoDraft.size = Nothing /\ NoDraft.reward = 0 /\ NoDraft.slots = 0 /\ NoDraft.given = {}
  /\ NoDraft.rev = 0
BY DEF NoDraft, DraftRows, Origins, DraftSteps, Terminal

\* A row that is saved stands, under its owner.
LEMMA SaveMoves ==
  ASSUME FormsInv, NEW d \in Drafts, DraftExists(d), NEW row \in DraftRows,
         row.owner = draft[d].owner, row.step \notin Terminal,
         row.step = "published" => ~Published(d),
         DraftStands(row), SaveDraft(d, row)
  PROVE  /\ RowsMove
         /\ \A e \in Drafts : e # d => draft'[e] = draft[e]
         /\ Kept([row EXCEPT !.rev = draft[d].rev + 1], draft'[d])
<1> DEFINE new == [row EXCEPT !.rev = draft[d].rev + 1]
<1>1. draft \in [Drafts -> DraftRows] /\ \A e \in Drafts : DraftStands(draft[e])
  BY DEF FormsInv
<1>2. draft[d] \in DraftRows /\ draft[d].rev \in Nat
  BY <1>1 DEF DraftRows
<1>3. /\ new \in DraftRows /\ new.rev = draft[d].rev + 1
      /\ new.owner = row.owner /\ new.step = row.step /\ new.template = row.template
      /\ new.kind = row.kind /\ new.category = row.category /\ new.size = row.size
      /\ new.reward = row.reward /\ new.slots = row.slots /\ new.given = row.given
  BY <1>2 DEF DraftRows
<1>4. DraftStands(new)
  BY <1>3 DEF DraftStands, FreeformStands, TemplateStands, FitsKind
<1>5. draft' = [draft EXCEPT ![d] = new]
  BY DEF SaveDraft
<1> HIDE DEF new
<1>6. /\ draft' \in [Drafts -> DraftRows] /\ draft'[d] = new
      /\ \A e \in Drafts : e # d => draft'[e] = draft[e]
  BY <1>1, <1>3, <1>5
<1>7. Saved(draft[d], draft'[d]) /\ (draft'[d].step = "published" => ~Published(d))
  BY <1>3, <1>6 DEF Saved, DraftExists, Terminal
<1>8. \A e \in Drafts : Kept(draft[e], draft[e]) /\ Kept(new, new)
  BY DEF Kept
<1>9. \A e \in Drafts : RowMoves(e) /\ DraftStands(draft'[e])
  BY <1>1, <1>4, <1>6, <1>7, <1>8 DEF RowMoves
<1> QED
  BY <1>6, <1>8, <1>9 DEF RowsMove, new

LEMMA UnselectedIsKept ==
  ASSUME FormsInv, NEW m
  PROVE  /\ Unselected(m) \in [Drafts -> DraftRows]
         /\ \A d \in Drafts : Kept(draft[d], Unselected(m)[d])
<1>1. draft \in [Drafts -> DraftRows]
  BY DEF FormsInv
<1>2. ASSUME NEW d \in Drafts
      PROVE  Unselected(m)[d] \in DraftRows /\ Kept(draft[d], Unselected(m)[d])
  <2> DEFINE row == draft[d]
             new == [row EXCEPT !.current = FALSE]
  <2>1. row \in DraftRows
    BY <1>1
  <2> HIDE DEF row
  <2>2. new \in DraftRows /\ Kept(row, new) /\ Kept(row, row)
    BY <2>1 DEF DraftRows, Kept
  <2> HIDE DEF new
  <2>3. Unselected(m)[d] = new \/ Unselected(m)[d] = row
    BY DEF Unselected, new, row
  <2> QED
    BY <2>1, <2>2, <2>3 DEF row
<1> QED
  BY <1>2 DEF Unselected

LEMMA VersionIs ==
  ASSUME FormsInv, NEW v \in 1 .. Len(versions)
  PROVE  /\ versions[v] \in VersionRows
         /\ versions[v].reward \in Nat /\ versions[v].maximum \in Nat
<1>1. versions \in Seq(VersionRows)
  BY DEF FormsInv
<1>2. versions[v] \in VersionRows
  BY <1>1
<1> QED
  BY <1>2 DEF VersionRows

\* The rows after a draft is created; extra is what the Mini App saves at once.
LEMMA CreationMoves ==
  ASSUME FormsInv, NEW m \in Members, NEW d \in Drafts, NextDraft(d),
         NEW template \in 0 .. Len(versions), NEW origin \in Origins,
         \/ draft' = Created(m, d, template, origin)
         \/ template = 0 /\ draft' = [Created(m, d, template, origin) EXCEPT ![d].given = {"format"}]
  PROVE  RowsMove
<1> DEFINE step == IF template = 0 THEN "kind" ELSE "input"
           row == [NoDraft EXCEPT !.owner = m, !.template = template, !.origin = origin,
                                  !.current = TRUE, !.step = step]
           extra == [row EXCEPT !.given = {"format"}]
           u == Unselected(m)
<1>1. versions \in Seq(VersionRows) /\ Len(versions) \in Nat
  BY DEF FormsInv
<1>2. step \in {"kind", "input"} /\ (step = "kind" <=> template = 0)
  OBVIOUS
<1> HIDE DEF step
<1>3. /\ row \in DraftRows /\ row.owner = m /\ row.template = template /\ row.step = step
      /\ row.kind = Nothing /\ row.category = Nothing /\ row.size = Nothing
      /\ row.reward = 0 /\ row.slots = 0 /\ row.given = {}
  <2>1. template \in Nat /\ step \in DraftSteps /\ m \in Members \cup {Nobody}
    BY <1>1, <1>2 DEF DraftSteps, FreeSteps, TemplateSteps, Questions, TemplateInputs
  <2> QED
    BY <2>1, NoDraftIsARow DEF DraftRows
<1> HIDE DEF row
<1>4. /\ extra \in DraftRows /\ extra.owner = m /\ extra.template = template /\ extra.step = step
      /\ extra.kind = Nothing /\ extra.category = Nothing /\ extra.size = Nothing
      /\ extra.reward = 0 /\ extra.slots = 0 /\ extra.given = {"format"}
  BY <1>3 DEF DraftRows, PlainSteps
<1>5. template # 0 => versions[template] \in VersionRows /\ versions[template].maximum \in Nat
  BY <1>1, VersionIs
<1>6. Before("kind") = {} /\ BeforeInput("input") = {}
  BY DEF Before, BeforeInput, Questions
<1> HIDE DEF extra
<1>7. DraftStands(row) /\ (template = 0 => DraftStands(extra))
  BY <1>1, <1>2, <1>3, <1>4, <1>5, <1>6
     DEF DraftStands, FreeformStands, TemplateStands, FreeSteps, TemplateSteps, Questions,
         PlainSteps, TemplateInputs, Final, Terminal, FitsKind
<1>8. /\ u \in [Drafts -> DraftRows]
      /\ \A e \in Drafts : Kept(draft[e], u[e])
  BY UnselectedIsKept
<1>9. Created(m, d, template, origin) = [u EXCEPT ![d] = row]
  BY DEF Created, row, step
<1> HIDE DEF u
<1>10. PICK new : /\ draft' = [u EXCEPT ![d] = new] /\ new \in DraftRows /\ DraftStands(new)
  <2>1. CASE draft' = Created(m, d, template, origin)
    BY <2>1, <1>3, <1>7, <1>9
  <2>2. CASE template = 0 /\ draft' = [Created(m, d, template, origin) EXCEPT ![d].given = {"format"}]
    <3>1. draft' = [u EXCEPT ![d] = extra]
      BY <2>2, <1>8, <1>9 DEF extra
    <3> QED
      BY <2>2, <3>1, <1>4, <1>7
  <2> QED
    BY <2>1, <2>2
<1>11. /\ draft' \in [Drafts -> DraftRows] /\ draft'[d] = new
       /\ \A e \in Drafts : e # d => draft'[e] = u[e]
  BY <1>8, <1>10
<1>12. draft[d].step = "absent"
  BY DEF NextDraft
<1>13. \A e \in Drafts : RowMoves(e) /\ DraftStands(draft'[e])
  <2> TAKE e \in Drafts
  <2>1. CASE e = d
    BY <2>1, <1>10, <1>11, <1>12 DEF RowMoves
  <2>2. CASE e # d
    BY <2>2, <1>8, <1>11, KeptStands DEF RowMoves, FormsInv
  <2> QED
    BY <2>1, <2>2
<1> QED
  BY <1>11, <1>13 DEF RowsMove

-----------------------------------------------------------------------------
(* The answers to the questions of a form.                                  *)

NothingIsNoAnswer == Nothing \notin Categories \cup Kinds \cup TimeSizes \cup Nat

LEMMA AnswersAreTyped ==
  /\ NothingIsNoAnswer
  /\ \A r \in Rewards : r \in Nat \ {0}
  /\ Sizes \subseteq TimeSizes
  /\ MaxSlots \in Nat
  /\ Creators \subseteq Members /\ Nobody \notin Members /\ 0 \notin Drafts
BY PublicationAssumption, RolesAssumption DEF NothingIsNoAnswer

LEMMA CompleteFreeform ==
  ASSUME NEW d \in DraftRows, d.template = 0, FreeformStands(d)
  PROVE  HasCompleteFreeformValues(d) <=>
           /\ d.kind # Nothing /\ d.category # Nothing /\ d.size # Nothing
           /\ d.reward # 0 /\ d.given = PlainSteps
<1>1. d.kind # Nothing => d.slots # 0
  BY DEF FreeformStands, FitsKind
<1> QED
  BY <1>1 DEF HasCompleteFreeformValues

\* An answer to a choice leaves a form that stands.
LEMMA ChoiceStands ==
  ASSUME NEW m, NEW d \in DraftRows, d.template = 0, FreeformStands(d),
         d.step \in Questions, NEW v \in FreeformAnswers(m, d)
  PROVE  LET a == AdvancedFreeform(d, v)
         IN /\ a \in DraftRows /\ a.owner = d.owner /\ a.template = 0 /\ FreeformStands(a)
            /\ a.step # "published"
<1> DEFINE complete == HasCompleteFreeformValues(d)
           Onward(step) == IF complete THEN "preview" ELSE step
<1>1. complete <=> /\ d.kind # Nothing /\ d.category # Nothing /\ d.size # Nothing
                   /\ d.reward # 0 /\ d.given = PlainSteps
  BY CompleteFreeform
<1> HIDE DEF complete
<1>2. /\ \A s \in Questions \cup {"title"} : Before(s) = {}
      /\ Before("preview") = PlainSteps
  BY DEF Before, Questions
<1>3. d.step \in {"kind", "category", "size", "slots", "reward"} /\ d.slots \in Nat /\ d.reward \in Nat
  BY DEF Questions, DraftRows
<1>4. NothingIsNoAnswer
  BY AnswersAreTyped
<1>5. CASE d.step = "kind"
  <2> DEFINE slots == IF v = "solo" THEN 1 ELSE IF d.slots < 2 THEN 2 ELSE d.slots
             step == IF complete /\ d.kind = "solo" /\ v = "group" THEN "slots"
                     ELSE Onward("category")
             a == [d EXCEPT !.kind = v, !.slots = slots, !.step = step]
  <2>1. AdvancedFreeform(d, v) = a
    BY <1>5, Zenon DEF AdvancedFreeform, complete
  <2>2. v \in Kinds
    <3>1. FreeformAnswers(m, d) = Kinds
      BY <1>5, Zenon DEF FreeformAnswers, PlainSteps
    <3> QED
      BY <3>1, AnswersAreTyped
  <2>3. /\ slots \in Nat /\ FitsKind(v, slots)
        /\ step \in {"slots", "category", "preview"} /\ (step # "category" => complete)
    BY <1>3, <2>2 DEF FitsKind, Kinds
  <2> HIDE DEF slots, step
  <2>4. /\ a \in DraftRows /\ a.owner = d.owner /\ a.template = d.template /\ a.kind = v
        /\ a.slots = slots /\ a.step = step /\ a.category = d.category /\ a.size = d.size
        /\ a.reward = d.reward /\ a.given = d.given
    BY <2>2, <2>3 DEF DraftRows, DraftSteps, FreeSteps, Questions, Final
  <2> HIDE DEF a
  <2>5. FreeformStands(a)
    BY <1>1, <1>2, <1>4, <1>5, <2>2, <2>3, <2>4
       DEF FreeformStands, FreeSteps, Questions, PlainSteps, Final, NothingIsNoAnswer
  <2> QED
    BY <2>1, <2>3, <2>4, <2>5
<1>6. CASE d.step = "category"
  <2> DEFINE step == Onward("size")
             a == [d EXCEPT !.category = v, !.step = step]
  <2>1. AdvancedFreeform(d, v) = a
    BY <1>6, Zenon DEF AdvancedFreeform, complete
  <2>2. v \in Categories
    <3>1. FreeformAnswers(m, d) = {c \in Categories : MayFile(m, c)}
      BY <1>6, Zenon DEF FreeformAnswers, PlainSteps
    <3> QED
      BY <3>1, AnswersAreTyped
  <2>3. step \in {"size", "preview"} /\ (step = "preview" => complete)
    OBVIOUS
  <2> HIDE DEF step
  <2>4. /\ a \in DraftRows /\ a.owner = d.owner /\ a.template = d.template /\ a.kind = d.kind
        /\ a.slots = d.slots /\ a.step = step /\ a.category = v /\ a.size = d.size
        /\ a.reward = d.reward /\ a.given = d.given
    BY <2>2, <2>3 DEF DraftRows, DraftSteps, FreeSteps, Questions, Final
  <2> HIDE DEF a
  <2>5. FreeformStands(a)
    BY <1>1, <1>2, <1>4, <1>6, <2>2, <2>3, <2>4
       DEF FreeformStands, FreeSteps, Questions, PlainSteps, Final, NothingIsNoAnswer
  <2> QED
    BY <2>1, <2>3, <2>4, <2>5
<1>7. CASE d.step = "size"
  <2> DEFINE step == AfterSize(d)
             reward == IF complete THEN d.reward ELSE 0
             a == [d EXCEPT !.size = v, !.reward = reward, !.step = step]
  <2>1. AdvancedFreeform(d, v) = a
    BY <1>7, Zenon DEF AdvancedFreeform, complete
  <2>2. v \in TimeSizes
    <3>1. FreeformAnswers(m, d) = Sizes
      BY <1>7, Zenon DEF FreeformAnswers, PlainSteps
    <3> QED
      BY <3>1, AnswersAreTyped
  <2>3. step \in {"slots", "reward"} /\ (complete => step = "reward")
        /\ reward \in Nat /\ (~complete => reward = 0)
    BY <1>3 DEF AfterSize, complete
  <2> HIDE DEF step, reward
  <2>4. /\ a \in DraftRows /\ a.owner = d.owner /\ a.template = d.template /\ a.kind = d.kind
        /\ a.slots = d.slots /\ a.step = step /\ a.category = d.category /\ a.size = v
        /\ a.reward = reward /\ a.given = d.given
    BY <2>2, <2>3 DEF DraftRows, DraftSteps, FreeSteps, Questions
  <2> HIDE DEF a
  <2>5. FreeformStands(a)
    BY <1>1, <1>2, <1>4, <1>7, <2>2, <2>3, <2>4
       DEF FreeformStands, FreeSteps, Questions, PlainSteps, Final, NothingIsNoAnswer
  <2> QED
    BY <2>1, <2>3, <2>4, <2>5
<1>8. CASE d.step = "slots"
  <2> DEFINE step == Onward("reward")
             a == [d EXCEPT !.slots = v, !.step = step]
  <2>1. AdvancedFreeform(d, v) = a
    BY <1>8, Zenon DEF AdvancedFreeform, complete
  <2>2. v \in Nat /\ FitsKind(d.kind, v)
    <3>1. FreeformAnswers(m, d) = {n \in 1 .. MaxSlots : FitsKind(d.kind, n)}
      BY <1>8, Zenon DEF FreeformAnswers, PlainSteps
    <3> QED
      BY <3>1, AnswersAreTyped
  <2>3. step \in {"reward", "preview"} /\ (step = "preview" => complete)
    OBVIOUS
  <2> HIDE DEF step
  <2>4. /\ a \in DraftRows /\ a.owner = d.owner /\ a.template = d.template /\ a.kind = d.kind
        /\ a.slots = v /\ a.step = step /\ a.category = d.category /\ a.size = d.size
        /\ a.reward = d.reward /\ a.given = d.given
    BY <2>2, <2>3 DEF DraftRows, DraftSteps, FreeSteps, Questions, Final
  <2> HIDE DEF a
  <2>5. FreeformStands(a)
    BY <1>1, <1>2, <1>4, <1>8, <2>2, <2>3, <2>4
       DEF FreeformStands, FreeSteps, Questions, PlainSteps, Final, NothingIsNoAnswer
  <2> QED
    BY <2>1, <2>3, <2>4, <2>5
<1>9. CASE d.step = "reward"
  <2> DEFINE step == Onward("title")
             a == [d EXCEPT !.reward = v, !.step = step]
  <2>1. AdvancedFreeform(d, v) = a
    BY <1>9, Zenon DEF AdvancedFreeform, complete
  <2>2. v \in Nat /\ v # 0 /\ FitsSize(d.size, v)
    <3>1. FreeformAnswers(m, d) = {r \in Rewards : FitsSize(d.size, r)}
      BY <1>9, Zenon DEF FreeformAnswers, PlainSteps
    <3> QED
      BY <3>1, AnswersAreTyped
  <2>3. step \in {"title", "preview"} /\ (step = "preview" => complete)
    OBVIOUS
  <2> HIDE DEF step
  <2>4. /\ a \in DraftRows /\ a.owner = d.owner /\ a.template = d.template /\ a.kind = d.kind
        /\ a.slots = d.slots /\ a.step = step /\ a.category = d.category /\ a.size = d.size
        /\ a.reward = v /\ a.given = d.given
    BY <2>2, <2>3 DEF DraftRows, DraftSteps, FreeSteps, Questions, Final, PlainSteps
  <2> HIDE DEF a
  <2>5. FreeformStands(a)
    BY <1>1, <1>2, <1>4, <1>9, <2>2, <2>3, <2>4
       DEF FreeformStands, FreeSteps, Questions, PlainSteps, Final, NothingIsNoAnswer
  <2> QED
    BY <2>1, <2>3, <2>4, <2>5
<1> QED
  BY <1>3, <1>5, <1>6, <1>7, <1>8, <1>9

\* So does an answer in words.
LEMMA WordStands ==
  ASSUME NEW d \in DraftRows, d.template = 0, FreeformStands(d), d.step \in PlainSteps, NEW v
  PROVE  LET a == AdvancedFreeform(d, v)
         IN /\ a \in DraftRows /\ a.owner = d.owner /\ a.template = 0 /\ FreeformStands(a)
            /\ a.step # "published"
<1> DEFINE complete == HasCompleteFreeformValues(d)
           following == FollowingStep[d.step]
           step == IF complete THEN "preview" ELSE following
           late == d.late /\ d.step # "deadline"
           given == d.given \cup {d.step}
           a == [d EXCEPT !.given = given, !.step = step, !.late = late]
<1>1. complete => d.given = PlainSteps
  BY DEF HasCompleteFreeformValues
<1>2. AdvancedFreeform(d, v) = a
  <2>1. d.step \notin {"kind", "category", "size", "slots", "reward"}
    BY DEF PlainSteps
  <2> QED
    BY <2>1, Zenon DEF AdvancedFreeform, complete
<1>3. d.step \in {"title", "description", "criteria", "materials", "deadline", "format"}
      /\ d.given \subseteq PlainSteps /\ late \in BOOLEAN
  BY DEF PlainSteps, FreeformStands, DraftRows
<1>4. /\ d.step = "title" => following = "description"
      /\ d.step = "description" => following = "criteria"
      /\ d.step = "criteria" => following = "materials"
      /\ d.step = "materials" => following = "deadline"
      /\ d.step = "deadline" => following = "format"
      /\ d.step = "format" => following = "preview"
  BY DEF FollowingStep
<1> HIDE DEF complete, late, following
<1>5. following \in {"description", "criteria", "materials", "deadline", "format", "preview"}
  BY <1>3, <1>4
<1>6. /\ Before("title") = {} /\ Before("description") = {"title"}
      /\ Before("criteria") = {"title", "description"}
      /\ Before("materials") = {"title", "description", "criteria"}
      /\ Before("deadline") = {"title", "description", "criteria", "materials"}
      /\ Before("format") = {"title", "description", "criteria", "materials", "deadline"}
      /\ Before("preview") = PlainSteps
  BY DEF Before, Questions
<1>7. Before(d.step) \subseteq d.given
  BY DEF FreeformStands
<1>8. Before(step) \subseteq given /\ given \subseteq PlainSteps
  <2>1. CASE complete
    BY <2>1, <1>1, <1>3, <1>6 DEF PlainSteps
  <2>2. CASE ~complete
    BY <2>2, <1>3, <1>4, <1>6, <1>7 DEF PlainSteps
  <2> QED
    BY <2>1, <2>2
<1>9. step \in {"description", "criteria", "materials", "deadline", "format", "preview"}
  BY <1>5
<1> HIDE DEF step, given
<1>10. /\ a \in DraftRows /\ a.owner = d.owner /\ a.template = d.template /\ a.kind = d.kind
       /\ a.slots = d.slots /\ a.step = step /\ a.category = d.category /\ a.size = d.size
       /\ a.reward = d.reward /\ a.given = given
  <2>1. step \in DraftSteps /\ given \in SUBSET (PlainSteps \cup TemplateInputs)
    BY <1>8, <1>9 DEF DraftSteps, FreeSteps, PlainSteps, Final
  <2> QED
    BY <2>1, <1>3 DEF DraftRows
<1> HIDE DEF a
<1>11. FreeformStands(a)
  BY <1>3, <1>8, <1>9, <1>10 DEF FreeformStands, FreeSteps, PlainSteps, Final
<1> QED
  BY <1>2, <1>9, <1>10, <1>11

\* A form with a template.
LEMMA InputStands ==
  ASSUME FormsInv, NEW d \in DraftRows, d.template \in 1 .. Len(versions), TemplateStands(d),
         NEW v \in TemplateAnswers(d)
  PROVE  LET a == AdvancedTemplate(d, v)
         IN /\ a \in DraftRows /\ a.owner = d.owner /\ a.template = d.template
            /\ TemplateStands(a) /\ a.step # "published"
<1> DEFINE complete == HasCompleteTemplateValues(d)
           maximum == versions[d.template].maximum
<1>0. maximum \in Nat /\ NothingIsNoAnswer /\ d.slots \in Nat
  BY VersionIs, AnswersAreTyped DEF DraftRows
<1>1. complete => d.given = TemplateInputs /\ d.slots # 0
  BY DEF HasCompleteTemplateValues
<1>2. /\ BeforeInput("input") = {} /\ BeforeInput("deadline") = {"input"}
      /\ BeforeInput("format") = {"input", "deadline"}
      /\ BeforeInput("materials") = {"input", "deadline", "format"}
      /\ BeforeInput("slots") = TemplateInputs /\ BeforeInput("preview") = TemplateInputs
  BY DEF BeforeInput
<1>3. BeforeInput(d.step) \subseteq d.given /\ d.given \subseteq TemplateInputs
      /\ d.slots <= maximum
  BY DEF TemplateStands
<1> HIDE DEF complete, maximum
<1>4. CASE d.step = "slots"
  <2>1. v \in 1 .. maximum \/ (v = Nothing /\ d.slots # 0)
    BY <1>4 DEF TemplateAnswers, maximum
  <2>2. PICK slots, step :
          /\ AdvancedTemplate(d, v) = [d EXCEPT !.slots = slots, !.step = step]
          /\ slots \in 1 .. maximum /\ step \in {"slots", "preview"}
    <3>1. CASE v = Nothing
      <4>1. AdvancedTemplate(d, v) = [d EXCEPT !.step = "preview"]
        BY <1>4, <3>1, Zenon DEF AdvancedTemplate
      <4>2. [d EXCEPT !.step = "preview"] = [d EXCEPT !.slots = d.slots, !.step = "preview"]
        BY DEF DraftRows
      <4>3. d.slots \in 1 .. maximum
        BY <1>0, <1>3, <2>1, <3>1 DEF NothingIsNoAnswer
      <4> QED
        BY <4>1, <4>2, <4>3
    <3>2. CASE v # Nothing
      <4>1. AdvancedTemplate(d, v)
              = [d EXCEPT !.slots = v, !.step = IF complete THEN "preview" ELSE "slots"]
        BY <1>4, <3>2, Zenon DEF AdvancedTemplate, complete
      <4> QED
        BY <4>1, <2>1, <3>2
    <3> QED
      BY <3>1, <3>2
  <2> DEFINE a == [d EXCEPT !.slots = slots, !.step = step]
  <2>3. slots \in Nat /\ slots <= maximum /\ slots # 0
    BY <1>0, <2>2
  <2>4. /\ a \in DraftRows /\ a.owner = d.owner /\ a.template = d.template
        /\ a.slots = slots /\ a.step = step /\ a.given = d.given
    BY <2>2, <2>3, ZenonT(30) DEF DraftRows, DraftSteps, TemplateSteps, Final
  <2>5. a = AdvancedTemplate(d, v)
    BY <2>2
  <2> HIDE DEF a
  <2>6. TemplateStands(a)
    BY <1>2, <1>3, <1>4, <2>2, <2>3, <2>4 DEF TemplateStands, TemplateSteps, Final, maximum
  <2> QED
    BY <2>2, <2>4, <2>5, <2>6
<1>5. CASE d.step # "slots"
  <2> DEFINE following == FollowingInput[d.step]
             step == IF complete THEN "preview" ELSE following
             late == d.late /\ d.step # "deadline"
             given == d.given \cup {d.step}
             a == [d EXCEPT !.given = given, !.step = step, !.late = late]
  <2>1. AdvancedTemplate(d, v) = a
    BY <1>5, Zenon DEF AdvancedTemplate, complete
  <2>2. d.step \in {"input", "deadline", "format", "materials"} /\ late \in BOOLEAN
    BY <1>5 DEF TemplateAnswers, TemplateInputs, DraftRows
  <2>3. /\ d.step = "input" => following = "deadline"
        /\ d.step = "deadline" => following = "format"
        /\ d.step = "format" => following = "materials"
        /\ d.step = "materials" => following = "slots"
    BY DEF FollowingInput
  <2> HIDE DEF following, late
  <2>4. following \in {"deadline", "format", "materials", "slots"}
    BY <2>2, <2>3
  <2>5. BeforeInput(step) \subseteq given /\ given \subseteq TemplateInputs
    <3>1. CASE complete
      BY <3>1, <1>1, <1>2, <2>2 DEF TemplateInputs
    <3>2. CASE ~complete
      BY <3>2, <1>2, <1>3, <2>2, <2>3 DEF TemplateInputs
    <3> QED
      BY <3>1, <3>2
  <2>6. step \in {"deadline", "format", "materials", "slots", "preview"}
        /\ (step = "preview" => complete)
    BY <2>4
  <2> HIDE DEF step, given
  <2>7. /\ a \in DraftRows /\ a.owner = d.owner /\ a.template = d.template
        /\ a.slots = d.slots /\ a.step = step /\ a.given = given
    <3>1. step \in DraftSteps /\ given \in SUBSET (PlainSteps \cup TemplateInputs)
      BY <2>5, <2>6 DEF DraftSteps, TemplateSteps, TemplateInputs, Final
    <3> QED
      BY <3>1, <2>2 DEF DraftRows
  <2> HIDE DEF a
  <2>8. TemplateStands(a)
    BY <1>1, <1>3, <2>5, <2>6, <2>7
       DEF TemplateStands, TemplateSteps, TemplateInputs, Final, maximum
  <2> QED
    BY <2>1, <2>6, <2>7, <2>8
<1> QED
  BY <1>4, <1>5

-----------------------------------------------------------------------------
(* The commands that write drafts.                                          *)

LEMMA KeptMoves ==
  ASSUME FormsInv, draft' \in [Drafts -> DraftRows],
         \A d \in Drafts : Kept(draft[d], draft'[d])
  PROVE  RowsMove
BY KeptStands DEF RowsMove, RowMoves, FormsInv

LEMMA KeptItself == \A a : Kept(a, a)
BY DEF Kept

LEMMA StartMoves ==
  ASSUME FormsInv, NEW m \in Creators,
         \/ StartWeb(m) \/ StartAnew(m) \/ StartBot(m)
         \/ \E origin \in Origins : StartFromTemplate(m, origin)
  PROVE  RowsMove
<1>1. m \in Members /\ Len(versions) \in Nat /\ 0 \in 0 .. Len(versions)
      /\ Len(versions) \in 0 .. Len(versions) /\ "member" \in Origins
  BY AnswersAreTyped DEF FormsInv, Origins
<1>2. CASE StartWeb(m) \/ StartAnew(m)
  <2>1. PICK d \in Drafts : NextDraft(d)
               /\ draft' = [Created(m, d, 0, "member") EXCEPT ![d].given = {"format"}]
    BY <1>2 DEF StartWeb, StartAnew
  <2> QED
    BY <1>1, <2>1, CreationMoves
<1>3. CASE StartBot(m)
  <2>1. CASE draft' = draft
    BY <2>1, KeptMoves, KeptItself DEF FormsInv
  <2>2. CASE \E d \in Drafts : NextDraft(d) /\ draft' = Created(m, d, 0, "member")
    BY <1>1, <2>2, CreationMoves
  <2> QED
    BY <1>3, <2>1, <2>2 DEF StartBot
<1>4. ASSUME NEW origin \in Origins, StartFromTemplate(m, origin)
      PROVE  RowsMove
  <2>1. PICK d \in Drafts : NextDraft(d) /\ draft' = Created(m, d, Len(versions), origin)
    BY <1>4 DEF StartFromTemplate
  <2> QED
    BY <1>1, <2>1, CreationMoves
<1> QED
  BY <1>2, <1>3, <1>4

\* The form the Mini App saves is one that may be published, and a preview.
LEMMA SaveWebMoves ==
  ASSUME FormsInv, NEW m \in Creators, NEW d \in Drafts, NEW filled \in Forms, SaveWeb(m, d, filled)
  PROVE  RowsMove
<1> DEFINE row == Filled(d, filled)
<1>1. DraftExists(d) /\ draft[d] \in DraftRows /\ draft[d].template = 0
  BY DEF SaveWeb, FormsInv
<1>2. /\ filled.kind \in Kinds /\ filled.category \in Categories /\ filled.size \in TimeSizes
      /\ filled.reward \in Nat \ {0} /\ filled.slots \in Nat \ {0}
  <2>1. filled \in [kind : Kinds, category : Categories, size : TimeSizes,
                  reward : Nat \ {0}, slots : Nat \ {0}]
    BY PublicationAssumption
  <2> QED
    BY <2>1
<1>3. /\ row \in DraftRows /\ row.owner = draft[d].owner /\ row.template = 0
      /\ row.step = "preview" /\ row.given = PlainSteps
      /\ row.kind = filled.kind /\ row.category = filled.category /\ row.size = filled.size
      /\ row.reward = filled.reward /\ row.slots = filled.slots
  <2>1. OriginOf(filled.category) \in Origins
    BY DEF OriginOf, Origins
  <2>2. "preview" \in DraftSteps
    BY DEF DraftSteps, FreeSteps, Final
  <2> QED
    BY <1>1, <1>2, <2>1, <2>2 DEF Filled, DraftRows
<1>4. FitsKind(row.kind, row.slots) /\ FitsSize(row.size, row.reward) /\ SaveDraft(d, row)
  BY DEF SaveWeb, FreeformPublishable
<1> HIDE DEF row
<1>5. Before("preview") = PlainSteps
  BY DEF Before, Questions
<1>6. DraftStands(row)
  <2>1. 0 \in 0 .. Len(versions)
    BY DEF FormsInv
  <2>2. FreeformStands(row)
    BY <1>2, <1>3, <1>4, <1>5, AnswersAreTyped
       DEF FreeformStands, FreeSteps, Final, NothingIsNoAnswer
  <2> QED
    BY <1>3, <2>1, <2>2 DEF DraftStands, Terminal
<1> QED
  BY <1>1, <1>3, <1>4, <1>6, SaveMoves DEF Terminal

LEMMA AdvanceMoves ==
  ASSUME FormsInv, NEW m \in Creators, NEW d \in Drafts, Advance(m, d)
  PROVE  RowsMove
<1> DEFINE old == draft[d]
<1>1. /\ DraftExists(d) /\ old \in DraftRows /\ DraftStands(old)
      /\ old.step \notin Terminal \cup {"published"}
  BY DEF Advance, MayChange, FormsInv, Unfinished, DraftExists, Terminal
<1> HIDE DEF old
<1>2. ASSUME NEW row \in DraftRows, SaveDraft(d, row), row.owner = old.owner,
             row.template = old.template,
             IF old.template = 0 THEN FreeformStands(row) ELSE TemplateStands(row),
             row.step # "published"
      PROVE  RowsMove
  <2>1. row.step \notin Terminal
    BY <1>2 DEF FreeformStands, TemplateStands, FreeSteps, TemplateSteps, Terminal, Final,
                PlainSteps, TemplateInputs, Questions
  <2>2. DraftStands(row)
    BY <1>1, <1>2, <2>1 DEF DraftStands
  <2> QED
    BY <1>1, <1>2, <2>1, <2>2, SaveMoves DEF old
<1>3. CASE old.template = 0
  <2>1. PICK v \in FreeformAnswers(m, old) : SaveDraft(d, AdvancedFreeform(old, v))
    BY <1>3 DEF Advance, old
  <2>2. FreeformStands(old)
    BY <1>1, <1>3 DEF DraftStands
  <2>3. old.step \in Questions \/ old.step \in PlainSteps
    <3>1. old.step \in Questions \cup PlainSteps \cup {"preview"}
      BY <1>1, <2>2 DEF FreeformStands, FreeSteps, Final
    <3>2. ASSUME old.step = "preview" PROVE FreeformAnswers(m, old) = {}
      BY <3>2, Zenon DEF FreeformAnswers, PlainSteps
    <3> QED
      BY <2>1, <3>1, <3>2
  <2>4. LET a == AdvancedFreeform(old, v)
        IN /\ a \in DraftRows /\ a.owner = old.owner /\ a.template = 0 /\ FreeformStands(a)
           /\ a.step # "published"
    BY <1>1, <1>3, <2>2, <2>3, ChoiceStands, WordStands
  <2> QED
    BY <1>2, <1>3, <2>1, <2>4
<1>4. CASE old.template # 0
  <2>1. PICK v \in TemplateAnswers(old) : SaveDraft(d, AdvancedTemplate(old, v))
    BY <1>4 DEF Advance, old
  <2>2. TemplateStands(old) /\ old.template \in 1 .. Len(versions)
    <3>1. Len(versions) \in Nat
      BY DEF FormsInv
    <3> QED
      BY <1>1, <1>4, <3>1 DEF DraftStands
  <2>3. LET a == AdvancedTemplate(old, v)
        IN /\ a \in DraftRows /\ a.owner = old.owner /\ a.template = old.template
           /\ TemplateStands(a) /\ a.step # "published"
    BY <1>1, <2>2, InputStands
  <2> QED
    BY <1>2, <1>4, <2>1, <2>3
<1> QED
  BY <1>3, <1>4

\* Any question of a complete form may be asked again.
LEMMA EditStepMoves ==
  ASSUME FormsInv, NEW m \in Creators, NEW d \in Drafts, NEW step, EditDraftStep(m, d, step)
  PROVE  RowsMove
<1> DEFINE old == draft[d]
           row == [old EXCEPT !.step = step]
<1>1. /\ DraftExists(d) /\ old \in DraftRows /\ DraftStands(old) /\ old.step = "preview"
      /\ step \in EditableSteps(old) /\ SaveDraft(d, row)
  BY DEF EditDraftStep, MayChange, Unfinished, FormsInv
<1> HIDE DEF old
<1>2. IF old.template = 0 THEN FreeformStands(old) ELSE TemplateStands(old)
  BY <1>1 DEF DraftStands, Terminal
<1>3. Before("preview") = PlainSteps /\ BeforeInput("preview") = TemplateInputs
  BY DEF Before, Questions, BeforeInput
<1>4. \A s \in FreeSteps : Before(s) \subseteq PlainSteps
  <2>1. \A s \in Questions \cup {"title"} : Before(s) = {}
    BY DEF Before, Questions
  <2>2. Before("description") = {"title"} /\ Before("criteria") = {"title", "description"}
    BY DEF Before, Questions
  <2>3. /\ Before("materials") = {"title", "description", "criteria"}
        /\ Before("deadline") = {"title", "description", "criteria", "materials"}
        /\ Before("format") = {"title", "description", "criteria", "materials", "deadline"}
        /\ Before("published") = PlainSteps
    BY DEF Before, Questions
  <2>4. FreeSteps = Questions \cup {"title", "description", "criteria", "materials", "deadline",
                                    "format", "preview", "published"}
    BY DEF FreeSteps, PlainSteps, Final
  <2> QED
    BY <1>3, <2>1, <2>2, <2>3, <2>4 DEF PlainSteps
<1>5. \A s \in TemplateSteps : BeforeInput(s) \subseteq TemplateInputs
  BY DEF TemplateSteps, TemplateInputs, BeforeInput, Final
<1>6. IF old.template = 0 THEN step \in Questions \cup PlainSteps
      ELSE step \in TemplateInputs \cup {"slots"}
  BY <1>1 DEF EditableSteps, Questions
<1>7. /\ row \in DraftRows /\ row.step = step /\ row.owner = old.owner
      /\ row.template = old.template /\ row.kind = old.kind /\ row.category = old.category
      /\ row.size = old.size /\ row.reward = old.reward /\ row.slots = old.slots
      /\ row.given = old.given
  <2>1. step \in DraftSteps
    BY <1>6 DEF DraftSteps, FreeSteps, TemplateSteps
  <2> QED
    BY <1>1, <2>1 DEF DraftRows
<1> HIDE DEF row
<1>8. CASE old.template = 0
  <2>1. FreeformStands(row)
    BY <1>1, <1>2, <1>3, <1>4, <1>6, <1>7, <1>8
       DEF FreeformStands, FreeSteps, Questions, PlainSteps, Final
  <2>2. step \notin Terminal /\ step # "published"
    BY <1>6, <1>8 DEF Questions, PlainSteps, Terminal
  <2>3. DraftStands(row)
    BY <1>1, <1>7, <1>8, <2>1, <2>2 DEF DraftStands
  <2> QED
    BY <1>1, <1>7, <2>2, <2>3, SaveMoves DEF old
<1>9. CASE old.template # 0
  <2>1. TemplateStands(row)
    BY <1>1, <1>2, <1>3, <1>5, <1>6, <1>7, <1>9
       DEF TemplateStands, TemplateSteps, TemplateInputs, Final
  <2>2. step \notin Terminal /\ step # "published"
    BY <1>6, <1>9 DEF TemplateInputs, Terminal
  <2>3. DraftStands(row)
    BY <1>1, <1>7, <1>9, <2>1, <2>2 DEF DraftStands
  <2> QED
    BY <1>1, <1>7, <2>2, <2>3, SaveMoves DEF old
<1> QED
  BY <1>8, <1>9

LEMMA AdjustMoves ==
  ASSUME FormsInv, NEW m \in Creators, NEW d \in Drafts, NEW delta \in {-1, 1},
         AdjustDraftSlots(m, d, delta)
  PROVE  RowsMove
<1> DEFINE old == draft[d]
           slots == IF old.slots + delta < 2 THEN 2 ELSE old.slots + delta
           row == [old EXCEPT !.slots = slots]
<1>1. /\ DraftExists(d) /\ old \in DraftRows /\ DraftStands(old) /\ old.step = "slots"
      /\ old.template = 0 /\ old.kind = "group"
  BY DEF AdjustDraftSlots, MayChange, Unfinished, FormsInv
<1>2. SaveDraft(d, row)
  BY Zenon DEF AdjustDraftSlots
<1>3. slots \in Nat /\ slots > 1
  BY <1>1 DEF DraftRows
<1> HIDE DEF old, slots
<1>4. /\ row \in DraftRows /\ row.step = "slots" /\ row.owner = old.owner
      /\ row.template = 0 /\ row.kind = "group" /\ row.category = old.category
      /\ row.size = old.size /\ row.reward = old.reward /\ row.slots = slots
      /\ row.given = old.given
  BY <1>1, <1>3 DEF DraftRows
<1> HIDE DEF row
<1>5. DraftStands(row)
  BY <1>1, <1>3, <1>4 DEF DraftStands, FreeformStands, FitsKind, Terminal
<1> QED
  BY <1>1, <1>2, <1>4, <1>5, SaveMoves DEF old, Terminal

\* A row of which nothing changes that a preview shows.
LEMMA MarkedStands ==
  ASSUME FormsInv, NEW d \in Drafts, Unfinished(d), NEW row \in DraftRows,
         SaveDraft(d, row), Kept(draft[d], row)
  PROVE  RowsMove
<1>1. DraftStands(row)
  BY KeptStands DEF FormsInv
<1>2. /\ row.step \notin Terminal \cup {"published"} /\ row.owner = draft[d].owner
      /\ DraftExists(d)
  BY DEF Kept, Unfinished, DraftExists, Terminal
<1> QED
  BY <1>1, <1>2, SaveMoves

LEMMA ReviewerMoves ==
  ASSUME FormsInv, NEW m \in Creators, NEW r \in Members, SelectCommunityReviewer(m, r)
  PROVE  RowsMove
<1>1. PICK d \in CurrentOf(m) : SaveDraft(d, [draft[d] EXCEPT !.reviewer = r])
  BY DEF SelectCommunityReviewer
<1>2. d \in Drafts /\ Unfinished(d) /\ draft[d] \in DraftRows
  BY DEF CurrentOf, FormsInv
<1> DEFINE old == draft[d]
           row == [old EXCEPT !.reviewer = r]
<1> HIDE DEF old
<1>3. row \in DraftRows /\ Kept(old, row)
  BY <1>2 DEF DraftRows, Kept, old
<1> HIDE DEF row
<1> QED
  BY <1>1, <1>2, <1>3, MarkedStands DEF old, row

LEMMA ResumeMoves ==
  ASSUME FormsInv, NEW m \in Creators, NEW d \in Drafts, Resume(m, d)
  PROVE  RowsMove
<1> DEFINE u == Unselected(m)
           old == u[d]
           row == [old EXCEPT !.current = TRUE]
<1>1. u \in [Drafts -> DraftRows] /\ \A e \in Drafts : Kept(draft[e], u[e])
  BY UnselectedIsKept
<1>2. draft' = [u EXCEPT ![d] = row]
  BY DEF Resume
<1> HIDE DEF u
<1>3. row \in DraftRows /\ Kept(old, row)
  BY <1>1, ZenonT(30) DEF DraftRows, Kept
<1>4. Kept(draft[d], row)
  BY <1>1, <1>3 DEF Kept
<1> HIDE DEF old, row
<1> QED
  BY <1>1, <1>2, <1>3, <1>4, KeptMoves

LEMMA DeadlineMoves ==
  ASSUME FormsInv, NEW d \in Drafts, DeadlinePasses(d)
  PROVE  RowsMove
<1> DEFINE old == draft[d]
           row == [old EXCEPT !.late = TRUE]
<1>1. draft \in [Drafts -> DraftRows] /\ draft' = [draft EXCEPT ![d] = row]
  BY DEF DeadlinePasses, FormsInv
<1>2. old \in DraftRows
  BY <1>1
<1> HIDE DEF old
<1>3. row \in DraftRows /\ Kept(old, row)
  BY <1>2 DEF DraftRows, Kept
<1> HIDE DEF row
<1>4. \A e \in Drafts : Kept(draft[e], draft'[e])
  BY <1>1, <1>3, KeptItself DEF old
<1> QED
  BY <1>1, <1>3, <1>4, KeptMoves

LEMMA CancelMoves ==
  ASSUME FormsInv, NEW m \in Creators, NEW d \in Drafts, CancelDraft(m, d)
  PROVE  RowsMove
<1> DEFINE row == [NoDraft EXCEPT !.step = "deleted", !.owner = m]
<1>1. /\ draft \in [Drafts -> DraftRows] /\ draft' = [draft EXCEPT ![d] = row]
      /\ Len(versions) \in Nat
  BY DEF CancelDraft, FormsInv
<1>2. draft[d].owner = m /\ m \in Members
  BY AnswersAreTyped DEF CancelDraft, MayChange
<1>3. row \in DraftRows /\ row.step = "deleted" /\ row.owner = m /\ row.template = 0
  BY <1>2, NoDraftIsARow DEF DraftRows, DraftSteps, Terminal
<1> HIDE DEF row
<1>4. DraftStands(row)
  BY <1>1, <1>3 DEF DraftStands, Terminal
<1>5. draft'[d] = row /\ \A e \in Drafts : e # d => draft'[e] = draft[e]
  BY <1>1, <1>3
<1>6. \A e \in Drafts : RowMoves(e) /\ DraftStands(draft'[e])
  BY <1>2, <1>3, <1>4, <1>5, KeptItself DEF RowMoves, FormsInv
<1> QED
  BY <1>1, <1>3, <1>6 DEF RowsMove

-----------------------------------------------------------------------------
(* The sum of reserve rows.                                                 *)

AmountSum(S) == MapThenSumSet(LAMBDA r : r.amount, S)

RowsOf(d) == {r \in reserve : r.draft = d}

IsAmountSum(g, S) ==
  g = [s \in SUBSET S |->
         IF s = {} THEN 0 ELSE Picked(s).amount + g[s \ {Picked(s)}]]

LEMMA HeldIs ==
  ASSUME NEW d
  PROVE  HeldFor(d) = AmountSum(RowsOf(d)) /\ HeldFor(d)' = AmountSum(RowsOf(d)')
<1>1. HeldFor(d) = AmountSum(RowsOf(d))
  BY Zenon DEF HeldFor, AmountSum, RowsOf
<1>2. (HeldFor(d) = AmountSum(RowsOf(d)))'
  BY <1>1, PTL
<1>3. HeldFor(d)' = AmountSum(RowsOf(d)')
  BY <1>2
<1> QED
  BY <1>1, <1>3

LEMMA AmountUnfolded ==
  ASSUME NEW S
  PROVE  AmountSum(S) = (CHOOSE g : IsAmountSum(g, S))[S]
BY Zenon DEF AmountSum, MapThenSumSet, MapThenFoldSet, IsAmountSum, Picked

LEMMA AmountIsTotal ==
  ASSUME NEW S, IsFiniteSet(S)
  PROVE  AmountSum(S) = Total([r \in S |-> r.amount], S)
<1> DEFINE f == [r \in S |-> r.amount]
           c == CHOOSE g : IsAmountSum(g, S)
<1>1. \A g : IsAmountSum(g, S) <=> IsSum(g, f, S)
  <2> TAKE g
  <2>1. \A s \in SUBSET S : s # {} => f[Picked(s)] = Picked(s).amount
    BY DEF Picked
  <2>2. [s \in SUBSET S |->
           IF s = {} THEN 0 ELSE Picked(s).amount + g[s \ {Picked(s)}]]
         = [s \in SUBSET S |->
              IF s = {} THEN 0 ELSE f[Picked(s)] + g[s \ {Picked(s)}]]
    BY <2>1
  <2> QED
    BY <2>2 DEF IsAmountSum, IsSum
<1> HIDE DEF f
<1>2. \E g : IsAmountSum(g, S)
  BY <1>1, SumsExist
<1>3. IsSum(c, f, S)
  BY <1>1, <1>2
<1> HIDE DEF c
<1>4. Total(f, S) = c[S]
  BY <1>3, TotalIsSum
<1> QED
  BY <1>4, AmountUnfolded DEF c, f

LEMMA AmountEmpty == AmountSum({}) = 0
BY AmountIsTotal, TotalEmpty, FS_EmptySet

\* One more row adds its amount.
LEMMA AmountAdd ==
  ASSUME NEW S, IsFiniteSet(S), NEW r, r \notin S, \A x \in S \cup {r} : x.amount \in Int
  PROVE  AmountSum(S \cup {r}) = AmountSum(S) + r.amount
<1> DEFINE f == [x \in S \cup {r} |-> x.amount]
           g == [x \in S |-> x.amount]
<1>1. IsFiniteSet(S \cup {r})
  BY FS_AddElement
<1>2. \A x \in S \cup {r} : f[x] \in Int
  OBVIOUS
<1>6. (\A x \in S : f[x] = g[x]) /\ f[r] = r.amount
  OBVIOUS
<1>3. AmountSum(S \cup {r}) = Total(f, S \cup {r}) /\ AmountSum(S) = Total(g, S)
  BY <1>1, AmountIsTotal
<1> HIDE DEF f, g
<1>4. Total(f, S \cup {r}) = Total(f, S) + f[r]
  BY <1>2, TotalAdd
<1>5. Total(f, S) = Total(g, S)
  BY <1>6, TotalAgrees
<1> QED
  BY <1>3, <1>4, <1>5, <1>6

-----------------------------------------------------------------------------
(* What the writing of drafts leaves of previews and of tasks.              *)

\* No version of the template is rewritten.
VersionsGrow ==
  /\ versions' \in Seq(VersionRows) /\ Len(versions') >= Len(versions)
  /\ \A v \in 1 .. Len(versions) : /\ versions'[v].reward = versions[v].reward
                                   /\ versions'[v].maximum = versions[v].maximum

LEMMA VersionsIdle == ASSUME FormsInv, UNCHANGED versions PROVE VersionsGrow
BY DEF VersionsGrow, FormsInv

LEMMA TemplateStays ==
  ASSUME FormsInv, VersionsGrow, NEW row, DraftStands(row)
  PROVE  /\ row.template \in 0 .. Len(versions')
         /\ row.template # 0 => /\ versions'[row.template].reward = versions[row.template].reward
                                /\ versions'[row.template].maximum = versions[row.template].maximum
<1>1. Len(versions) \in Nat /\ Len(versions') \in Nat /\ Len(versions') >= Len(versions)
  BY DEF FormsInv, VersionsGrow
<1>2. row.template \in 0 .. Len(versions)
  BY DEF DraftStands
<1>3. row.template # 0 => row.template \in 1 .. Len(versions)
  BY <1>1, <1>2
<1> QED
  BY <1>1, <1>2, <1>3 DEF VersionsGrow

LEMMA FormsStay ==
  ASSUME FormsInv, RowsMove, VersionsGrow
  PROVE  FormsInv'
<1>1. /\ draft' \in [Drafts -> DraftRows]
      /\ \A d \in Drafts : DraftStands(draft'[d])
  BY DEF RowsMove
<1>2. ASSUME NEW d \in Drafts
      PROVE  DraftStands(draft[d])'
  <2> DEFINE row == draft'[d]
  <2>1. /\ row.template \in 0 .. Len(versions')
        /\ row.template # 0 => versions'[row.template].maximum = versions[row.template].maximum
    BY <1>1, TemplateStays
  <2>2. row.step \in Terminal => row.template = 0
    BY <1>1 DEF DraftStands
  <2>3. CASE row.step \notin Terminal /\ row.template = 0
    <3>1. FreeformStands(row)
      BY <1>1, <2>3 DEF DraftStands
    <3> QED
      BY <2>1, <2>2, <2>3, <3>1 DEF DraftStands, FreeformStands
  <2>4. CASE row.step \notin Terminal /\ row.template # 0
    <3>1. TemplateStands(row)
      BY <1>1, <2>4 DEF DraftStands
    <3> QED
      BY <2>1, <2>2, <2>4, <3>1 DEF DraftStands, TemplateStands
  <2>5. CASE row.step \in Terminal
    BY <2>1, <2>2, <2>5 DEF DraftStands
  <2> QED
    BY <2>3, <2>4, <2>5
<1>3. versions' \in Seq(VersionRows) /\ Len(versions') > 0
  BY DEF VersionsGrow, FormsInv
<1> QED
  BY <1>1, <1>2, <1>3 DEF FormsInv

LEMMA ShownStays ==
  ASSUME FormsInv, RowsMove, VersionsGrow, NEW x, WasShown(x)
  PROVE  WasShown(x)'
<1> DEFINE d == x.draft
           a == draft[d]
           b == draft'[d]
<1>1. /\ d \in Drafts /\ x.rev \in Nat /\ a.rev \in Nat
      /\ Shows(x, a, Terms(a)) /\ RowMoves(d) /\ DraftStands(b)
  BY DEF WasShown, RowsMove, FormsInv, DraftRows
<1>2. Shows(x, b, Terms(b))
  <2>1. CASE Kept(a, b)
    <3>1. Terms(b) = Terms(a)
      BY <2>1 DEF Kept, Terms
    <3> QED
      BY <1>1, <2>1, <3>1 DEF Shows, Kept
  <2>2. CASE Saved(a, b)
    BY <1>1, <2>2 DEF Shows, Saved, Terminal
  <2>3. CASE b.step = "deleted"
    BY <1>1, <2>3 DEF Shows
  <2> QED
    BY <1>1, <2>1, <2>2, <2>3 DEF RowMoves, Shows
<1>3. b.template # 0 => versions'[b.template].reward = versions[b.template].reward
  BY <1>1, TemplateStays
<1>4. Terms(a)' = Terms(b)
  BY <1>3 DEF Terms
<1> QED
  BY <1>1, <1>2, <1>4 DEF WasShown, Shows

LEMMA ScreensStay ==
  ASSUME FormsInv, ScreensInv, RowsMove, VersionsGrow, UNCHANGED screen,
         sending' = [m \in Members |-> sending'[m]],
         \A m \in Members : sending'[m] \in {sending[m], Idle}
  PROVE  ScreensInv'
<1>1. ASSUME NEW m \in Members, screen[m].draft # 0
      PROVE  WasShown(screen[m])'
  <2>1. PICK x : x = screen[m]
    OBVIOUS
  <2>2. WasShown(x)
    BY <1>1, <2>1 DEF ScreensInv
  <2>3. WasShown(x)'
    BY <2>2, ShownStays
  <2>4. screen'[m] = x
    BY <2>1
  <2> QED
    BY <2>3, <2>4 DEF WasShown
<1>2. ASSUME NEW m \in Members, sending'[m] # Idle
      PROVE  Sends(m)'
  <2> DEFINE x == sending[m]
  <2>1. sending'[m] = x /\ x # Idle
    BY <1>2
  <2>2. m \in Creators /\ WasShown(x) /\ draft[x.draft].owner = m
    BY <2>1 DEF ScreensInv, Sends
  <2>3. draft'[x.draft].owner = m
    BY <2>1, <2>2 DEF WasShown, Shows, RowsMove, RowMoves, Kept, Saved
  <2> QED
    BY <2>1, <2>2, <2>3, ShownStays DEF Sends, WasShown
<1> QED
  BY <1>1, <1>2 DEF ScreensInv

LEMMA TasksStay ==
  ASSUME FormsInv, TasksInv, RowsMove, VersionsGrow, UNCHANGED <<task, reserve>>
  PROVE  TasksInv'
<1>1. ASSUME NEW d \in Drafts, Published(d)
      PROVE  /\ draft'[d].step # "absent"
             /\ draft'[d].step = "published" => Kept(draft[d], draft'[d])
  BY <1>1 DEF TasksInv, RowsMove, RowMoves, Kept, Saved, Terminal
<1>2. \A d \in Drafts : Published(d)' <=> Published(d)
  BY DEF Published
<1>3. ASSUME NEW d \in Drafts, Published(d), draft'[d].step = "published"
      PROVE  Reserved(d)'
  <2> DEFINE a == draft[d]
             b == draft'[d]
  <2>1. Reserved(d) /\ Kept(a, b) /\ DraftStands(b)
    BY <1>1, <1>3 DEF TasksInv, RowsMove, Kept
  <2>2. b.template # 0 => versions'[b.template].reward = versions[b.template].reward
    BY <2>1, TemplateStays
  <2>3. Terms(a)' = Terms(a)
    BY <2>1, <2>2 DEF Terms, Kept
  <2>4. ReserveOf(a)' = ReserveOf(a)
    BY <2>1, <2>3 DEF ReserveOf, Kept
  <2> QED
    BY <2>1, <2>4 DEF Reserved, Kept
<1>4. ASSUME NEW r \in reserve'
      PROVE  IsReserve(r)'
  BY <1>4 DEF TasksInv, IsReserve, Published
<1>5. TaskIsAsAgreed'
  <2>1. \A d : HeldFor(d)' = HeldFor(d)
    BY HeldIs DEF RowsOf
  <2> QED
    BY <2>1 DEF TasksInv, TaskIsAsAgreed
<1> QED
  BY <1>1, <1>2, <1>3, <1>4, <1>5 DEF TasksInv, IsTask

LEMMA RowsIdle == ASSUME FormsInv, UNCHANGED draft PROVE RowsMove
BY KeptMoves, KeptItself DEF FormsInv

(* What writes drafts, and what neither writes tasks nor shows previews.    *)
LEMMA DraftsKeep ==
  ASSUME PublicationInv, RowsMove, VersionsGrow, UNCHANGED <<task, reserve, screen, sending>>
  PROVE  PublicationInv'
<1>1. sending' = [m \in Members |-> sending'[m]]
  BY DEF PublicationInv, ScreensInv
<1> QED
  BY <1>1, FormsStay, ScreensStay, TasksStay DEF PublicationInv

-----------------------------------------------------------------------------
(* Looking at drafts, and the first half of a publication.                  *)

LEMMA LooksKeep ==
  ASSUME PublicationInv, NEW m \in Members, NEW d \in Drafts,
         LookAtDraft(m, d) \/ LookAtRequest(m, d)
  PROVE  PublicationInv'
<1>1. /\ draft[d].step = "preview" /\ draft[d].rev \in Nat
      /\ screen' = [screen EXCEPT ![m] = Shown(d)]
      /\ UNCHANGED <<draft, task, reserve, sending, catalogVars>>
  BY DEF LookAtDraft, LookAtRequest, PublicationInv, FormsInv, DraftRows
<1>2. RowsMove /\ VersionsGrow
  BY <1>1, RowsIdle, VersionsIdle DEF PublicationInv, catalogVars
<1>3. FormsInv' /\ TasksInv'
  BY <1>1, <1>2, FormsStay, TasksStay DEF PublicationInv
<1>4. \A x : WasShown(x) => WasShown(x)'
  BY <1>2, ShownStays DEF PublicationInv
<1>5. /\ Shown(d).draft = d /\ Shown(d).rev = draft[d].rev /\ Shown(d).terms = Terms(draft[d])
  BY DEF Shown
<1>6. WasShown(Shown(d))
  BY <1>1, <1>5 DEF WasShown, Shows
<1>7. PICK x : x = Shown(d)
  OBVIOUS
<1>8. WasShown(x)'
  BY <1>4, <1>6, <1>7
<1>9. /\ screen' = [screen EXCEPT ![m] = x]
      /\ screen = [n \in Members |-> screen[n]]
  BY <1>1, <1>7 DEF PublicationInv, ScreensInv
<1>10. ASSUME NEW n \in Members
       PROVE  screen'[n].draft # 0 => WasShown(screen[n])'
  <2>1. PICK y : y = screen'[n]
    OBVIOUS
  <2>2. CASE n = m
    <3>1. y = x
      BY <1>9, <2>1, <2>2
    <3> QED
      BY <1>8, <2>1, <3>1 DEF WasShown
  <2>3. CASE n # m
    <3>1. y = screen[n]
      BY <1>9, <2>1, <2>3
    <3>2. y.draft # 0 => WasShown(y)'
      BY <1>4, <3>1 DEF PublicationInv, ScreensInv
    <3> QED
      BY <2>1, <3>2 DEF WasShown
  <2> QED
    BY <2>2, <2>3
<1>11. ASSUME NEW n \in Members, sending'[n] # Idle
       PROVE  Sends(n)'
  BY <1>1, <1>11 DEF PublicationInv, ScreensInv, Sends, WasShown, Terms, catalogVars
<1>12. ScreensInv'
  BY <1>1, <1>9, <1>10, <1>11 DEF PublicationInv, ScreensInv
<1> QED
  BY <1>3, <1>12 DEF PublicationInv

\* Whoever begins to publish sends what he was shown last.
LEMMA BeginKeeps ==
  ASSUME PublicationInv, NEW m \in Creators, NEW web \in BOOLEAN, PublishBegins(m, web)
  PROVE  PublicationInv'
<1> DEFINE new == [draft |-> screen[m].draft, rev |-> screen[m].rev,
                   terms |-> screen[m].terms, web |-> web]
<1>1. /\ screen[m].draft # 0 /\ draft[screen[m].draft].owner = m /\ m \in Members
      /\ sending' = [sending EXCEPT ![m] = new]
      /\ UNCHANGED <<draft, task, reserve, screen, catalogVars>>
  BY AnswersAreTyped DEF PublishBegins
<1>2. RowsMove /\ VersionsGrow
  BY <1>1, RowsIdle, VersionsIdle DEF PublicationInv, catalogVars
<1>3. FormsInv' /\ TasksInv'
  BY <1>1, <1>2, FormsStay, TasksStay DEF PublicationInv
<1>4. WasShown(screen[m])
  BY <1>1 DEF PublicationInv, ScreensInv
<1>5. new.draft = screen[m].draft /\ new.rev = screen[m].rev /\ new.terms = screen[m].terms
  OBVIOUS
<1> HIDE DEF new
<1>6. WasShown(new)
  BY <1>4, <1>5 DEF WasShown, Shows
<1>7. ASSUME NEW n \in Members, sending'[n] # Idle
      PROVE  Sends(n)'
  <2>1. CASE n = m
    <3>1. sending'[n] = new
      BY <1>1, <2>1 DEF PublicationInv, ScreensInv
    <3>2. draft[new.draft].owner = m
      BY <1>1, <1>5
    <3> QED
      BY <1>1, <1>6, <2>1, <3>1, <3>2 DEF Sends, WasShown, Terms, catalogVars
  <2>2. CASE n # m
    <3>1. PICK x : x = sending[n]
      OBVIOUS
    <3>2. sending'[n] = x
      BY <1>1, <2>2, <3>1 DEF PublicationInv, ScreensInv
    <3>3. n \in Creators /\ WasShown(x) /\ draft[x.draft].owner = n
      BY <1>7, <3>1, <3>2 DEF PublicationInv, ScreensInv, Sends
    <3> QED
      BY <1>1, <3>2, <3>3 DEF Sends, WasShown, Terms, catalogVars
  <2> QED
    BY <2>1, <2>2
<1>8. ScreensInv'
  <2>1. sending' = [n \in Members |-> sending'[n]]
    BY <1>1 DEF PublicationInv, ScreensInv
  <2> QED
    BY <1>1, <1>7, <2>1 DEF PublicationInv, ScreensInv, WasShown, Terms, catalogVars
<1> QED
  BY <1>3, <1>8 DEF PublicationInv

-----------------------------------------------------------------------------
(* The reserve.                                                             *)

LEMMA AmountType ==
  ASSUME NEW S, IsFiniteSet(S), \A r \in S : r.amount \in Int
  PROVE  AmountSum(S) \in Int
<1> DEFINE f == [r \in S |-> r.amount]
<1>1. \A r \in S : f[r] \in Int
  OBVIOUS
<1>2. AmountSum(S) = Total(f, S)
  BY AmountIsTotal
<1> HIDE DEF f
<1> QED
  BY <1>1, <1>2, TotalType

\* A reserve row under a new key adds to the draft it is for.
LEMMA HeldAfter ==
  ASSUME NEW key, NEW d, NEW amount \in Int, reserve' = WithReserve(key, d, amount),
         IsFiniteSet(reserve), \A r \in reserve : r.amount \in Int /\ r.key # key
  PROVE  /\ IsFiniteSet(reserve') /\ reserve \subseteq reserve'
         /\ \A r \in reserve' \ reserve : r.key = key /\ r.draft = d /\ r.amount = amount
         /\ amount # 0 => \E r \in reserve' : r.key = key
         /\ HeldFor(d)' = HeldFor(d) + amount
         /\ \A e : e # d => RowsOf(e)' = RowsOf(e)
<1>1. IsFiniteSet(RowsOf(d)) /\ \A r \in RowsOf(d) : r.amount \in Int
  BY FS_Subset DEF RowsOf
<1>2. HeldFor(d) = AmountSum(RowsOf(d)) /\ HeldFor(d)' = AmountSum(RowsOf(d)')
  BY HeldIs
<1>3. AmountSum(RowsOf(d)) \in Int
  BY <1>1, AmountType
<1>4. CASE amount = 0
  <2>1. reserve' = reserve
    BY <1>4 DEF WithReserve
  <2>2. \A e : RowsOf(e)' = RowsOf(e)
    BY <2>1 DEF RowsOf
  <2> QED
    BY <1>2, <1>3, <1>4, <2>1, <2>2
<1>5. CASE amount # 0
  <2> DEFINE r == [key |-> key, draft |-> d, amount |-> amount]
  <2>1. reserve' = reserve \cup {r}
    BY <1>5 DEF WithReserve
  <2>2. r.key = key /\ r.draft = d /\ r.amount = amount
    OBVIOUS
  <2> HIDE DEF r
  <2>3. r \notin reserve
    BY <2>2
  <2>4. RowsOf(d)' = RowsOf(d) \cup {r} /\ r \notin RowsOf(d)
    BY <2>1, <2>2, <2>3 DEF RowsOf
  <2>5. \A e : e # d => RowsOf(e)' = RowsOf(e)
    BY <2>1, <2>2 DEF RowsOf
  <2>6. AmountSum(RowsOf(d) \cup {r}) = AmountSum(RowsOf(d)) + r.amount
    <3>1. \A x \in RowsOf(d) \cup {r} : x.amount \in Int
      BY <1>1, <2>2
    <3> QED
      BY <1>1, <2>4, <3>1, AmountAdd
  <2>7. IsFiniteSet(reserve')
    BY <2>1, FS_AddElement
  <2> QED
    BY <1>2, <2>1, <2>2, <2>4, <2>5, <2>6, <2>7
<1> QED
  BY <1>4, <1>5

LEMMA TermsAreTyped ==
  ASSUME FormsInv, NEW d \in Drafts
  PROVE  /\ IsTerms(Terms(draft[d])) /\ Promised(Terms(draft[d])) \in Int
         /\ ReserveOf(draft[d]) \in Int
         /\ ReserveOf(draft[d]) = IF draft[d].origin = "community" THEN 0
                                  ELSE Promised(Terms(draft[d]))
<1> DEFINE row == draft[d]
           t == Terms(row)
<1>1. row.reward \in Nat /\ row.slots \in Nat /\ row.template \in 0 .. Len(versions)
      /\ Len(versions) \in Nat
  BY DEF FormsInv, DraftRows, DraftStands
<1>2. row.template # 0 => versions[row.template].reward \in Nat
  BY <1>1, VersionIs
<1>3. t.reward \in Nat /\ t.slots \in Nat
  BY <1>1, <1>2 DEF Terms
<1> HIDE DEF row, t
<1>4. t.reward * t.slots \in Int
  BY <1>3
<1> QED
  BY <1>3, <1>4 DEF IsTerms, Promised, ReserveOf, t, row

\* What was at its preview is published as it was shown.
LEMMA PublishedStands ==
  ASSUME PublicationInv, UNCHANGED versions, NEW by, by # Nobody, NEW d \in Drafts,
         draft[d].step = "preview", task[d] = NoTask,
         Publishes(by, d, Terms(draft[d])),
         reserve' = WithReserve(<<"publish", d>>, d, ReserveOf(draft[d]))
  PROVE  RowsMove /\ TasksInv'
<1> DEFINE old == draft[d]
           row == [old EXCEPT !.step = "published", !.current = FALSE]
           t == Terms(old)
           new == [NoTask EXCEPT !.origin = old.origin, !.terms = t, !.agreed = t, !.by = by]
           amount == ReserveOf(old)
<1>0. FormsInv /\ TasksInv
  BY DEF PublicationInv
<1>1. /\ old \in DraftRows /\ DraftStands(old) /\ DraftExists(d) /\ SaveDraft(d, row)
      /\ task' = [task EXCEPT ![d] = new] /\ ~Published(d)
  BY <1>0 DEF FormsInv, DraftExists, Publishes, Published, TaskOf
<1>2. /\ IsTerms(t) /\ Promised(t) \in Int /\ amount \in Int
      /\ amount = IF old.origin = "community" THEN 0 ELSE Promised(t)
  BY <1>0, TermsAreTyped
<1>3. RowsMove /\ (\A e \in Drafts : e # d => draft'[e] = draft[e])
      /\ draft'[d].step = "published" /\ Terms(draft'[d]) = t
      /\ draft'[d].origin = old.origin
  <2> HIDE DEF old
  <2>1. /\ row \in DraftRows /\ row.step = "published" /\ row.owner = old.owner
        /\ row.template = old.template /\ row.kind = old.kind /\ row.category = old.category
        /\ row.size = old.size /\ row.reward = old.reward /\ row.slots = old.slots
        /\ row.given = old.given /\ row.origin = old.origin
    BY <1>1 DEF DraftRows, DraftSteps, FreeSteps, Final
  <2> HIDE DEF row
  <2>2. /\ Before("published") = PlainSteps /\ Before("preview") = PlainSteps
        /\ BeforeInput("published") = TemplateInputs /\ BeforeInput("preview") = TemplateInputs
    BY DEF Before, Questions, BeforeInput
  <2>3. old.step = "preview"
    BY DEF old
  <2>4. DraftStands(row)
    <3>1. CASE old.template = 0
      <4>1. FreeformStands(old)
        BY <1>1, <2>3, <3>1 DEF DraftStands, Terminal
      <4>2. FreeformStands(row)
        BY <2>1, <2>2, <2>3, <4>1 DEF FreeformStands, FreeSteps, Final, PlainSteps
      <4> QED
        BY <1>1, <2>1, <3>1, <4>2 DEF DraftStands, Terminal
    <3>2. CASE old.template # 0
      <4>1. TemplateStands(old)
        BY <1>1, <2>3, <3>2 DEF DraftStands, Terminal
      <4>2. TemplateStands(row)
        BY <2>1, <2>2, <2>3, <4>1 DEF TemplateStands, TemplateSteps, Final
      <4> QED
        BY <1>1, <2>1, <3>2, <4>2 DEF DraftStands, Terminal
    <3> QED
      BY <3>1, <3>2
  <2>5. row.step \notin Terminal
    BY <2>1 DEF Terminal
  <2>6. /\ RowsMove /\ \A e \in Drafts : e # d => draft'[e] = draft[e]
    BY <1>0, <1>1, <2>1, <2>4, <2>5, SaveMoves DEF old
  <2> DEFINE final == [row EXCEPT !.rev = old.rev + 1]
  <2>7. draft'[d] = final
    BY <1>0, <1>1 DEF SaveDraft, FormsInv, old
  <2>8. /\ final.step = row.step /\ final.template = row.template /\ final.kind = row.kind
        /\ final.category = row.category /\ final.size = row.size /\ final.slots = row.slots
        /\ final.reward = row.reward /\ final.origin = row.origin
    BY <2>1 DEF DraftRows
  <2> HIDE DEF final
  <2>9. Terms(draft'[d]) = Terms(old)
    BY <2>1, <2>7, <2>8 DEF Terms
  <2> QED
    BY <2>1, <2>6, <2>7, <2>8, <2>9
<1>4. /\ new.terms = t /\ new.agreed = t /\ new.by = by /\ new.taken = Nothing /\ new.rev = 0
      /\ new.origin = old.origin
      /\ DOMAIN new = {"origin", "terms", "agreed", "taken", "by", "rev"} /\ new # NoTask
  <2>1. /\ new.terms = t /\ new.agreed = t /\ new.by = by /\ new.taken = Nothing /\ new.rev = 0
        /\ new.origin = old.origin
        /\ DOMAIN new = {"origin", "terms", "agreed", "taken", "by", "rev"} /\ NoTask.by = Nobody
    BY DEF NoTask
  <2> QED
    BY <2>1
<1> HIDE DEF new, t
<1>5. /\ task' = [e \in Drafts |-> task'[e]] /\ task'[d] = new
      /\ \A e \in Drafts : e # d => task'[e] = task[e]
  BY <1>0, <1>1 DEF TasksInv
<1>6. \A r \in reserve : r.amount \in Int /\ r.draft # d /\ r.key # <<"publish", d>>
  BY <1>0 DEF TasksInv, IsReserve, Published
<1>7. /\ IsFiniteSet(reserve') /\ reserve \subseteq reserve'
      /\ \A r \in reserve' \ reserve : r.key = <<"publish", d>> /\ r.draft = d /\ r.amount = amount
      /\ amount # 0 => \E r \in reserve' : r.key = <<"publish", d>>
      /\ HeldFor(d)' = HeldFor(d) + amount
      /\ \A e : e # d => RowsOf(e)' = RowsOf(e)
  <2>1. PICK key : key = <<"publish", d>>
    OBVIOUS
  <2> HIDE DEF amount
  <2>2. reserve' = WithReserve(key, d, amount)
    BY <2>1 DEF amount
  <2>3. \A r \in reserve : r.amount \in Int /\ r.key # key
    BY <1>6, <2>1
  <2>4. IsFiniteSet(reserve)
    BY <1>0 DEF TasksInv
  <2> QED
    BY <1>2, <2>1, <2>2, <2>3, <2>4, HeldAfter
<1>8. HeldFor(d) = 0
  <2>1. RowsOf(d) = {}
    BY <1>6 DEF RowsOf
  <2> QED
    BY <2>1, HeldIs, AmountEmpty
<1>9. ASSUME NEW e \in Drafts
      PROVE  /\ IsTask(task[e])'
             /\ Published(e)' => /\ draft'[e].step # "absent"
                                 /\ draft'[e].step = "published" => Reserved(e)'
  <2>1. CASE e = d
    <3>1. IsTask(task[e])'
      BY <1>2, <1>4, <1>5, <2>1 DEF IsTask
    <3>2. Terms(draft[d])' = t
      BY <1>3 DEF Terms
    <3>3. ReserveOf(draft[d])' = amount
      BY <1>3, <3>2 DEF ReserveOf, t
    <3> QED
      BY <1>3, <1>7, <2>1, <3>1, <3>3 DEF Reserved
  <2>2. CASE e # d
    <3>1. IsTask(task[e])'
      BY <1>0, <1>5, <2>2 DEF TasksInv, IsTask
    <3>2. Published(e)' => /\ draft[e].step # "absent"
                           /\ draft[e].step = "published" => Reserved(e)
      BY <1>0, <1>5, <2>2 DEF TasksInv, Published
    <3>3. ReserveOf(draft[e])' = ReserveOf(draft[e])
      BY <1>3, <2>2 DEF ReserveOf, Terms
    <3> QED
      BY <1>3, <1>7, <2>2, <3>1, <3>2, <3>3 DEF Reserved
  <2> QED
    BY <2>1, <2>2
<1>10. ASSUME NEW r \in reserve'
       PROVE  IsReserve(r)'
  <2>1. CASE r \in reserve
    BY <1>0, <1>5, <1>6, <2>1 DEF TasksInv, IsReserve, Published
  <2>2. CASE r \notin reserve
    BY <1>2, <1>4, <1>5, <1>7, <2>2 DEF IsReserve, Published
  <2> QED
    BY <2>1, <2>2
<1>11. TaskIsAsAgreed'
  <2> SUFFICES ASSUME NEW e \in Drafts, task'[e] # NoTask
               PROVE  /\ task'[e].terms = task'[e].agreed
                      /\ task'[e].taken \in {Nothing, task'[e].terms}
                      /\ task'[e].origin = "member" => HeldFor(e)' = Promised(task'[e].terms)
    BY DEF TaskIsAsAgreed
  <2>1. CASE e = d
    BY <1>2, <1>3, <1>4, <1>5, <1>7, <1>8, <2>1
  <2>2. CASE e # d
    <3>1. HeldFor(e)' = HeldFor(e)
      BY <1>7, <2>2, HeldIs
    <3> QED
      BY <1>0, <1>3, <1>5, <2>2, <3>1 DEF TasksInv, TaskIsAsAgreed
  <2> QED
    BY <2>1, <2>2
<1> QED
  BY <1>3, <1>5, <1>7, <1>9, <1>10, <1>11 DEF TasksInv

-----------------------------------------------------------------------------
(* The second half of a publication.                                        *)

\* Whoever publishes the draft at his revision publishes what he was shown.
LEMMA SendsIs ==
  ASSUME PublicationInv, NEW m \in Members, sending[m] # Idle
  PROVE  /\ m \in Creators /\ sending[m].draft \in Drafts
         /\ draft[sending[m].draft].owner = m
         /\ AtRevision(sending[m].draft, sending[m].rev) =>
              sending[m].terms = Terms(draft[sending[m].draft])
BY DEF PublicationInv, ScreensInv, Sends, WasShown, Shows, AtRevision

LEMMA PublishKeeps ==
  ASSUME PublicationInv, NEW m \in Creators, Publish(m)
  PROVE  PublicationInv'
<1> DEFINE d == sending[m].draft
<1>1. /\ sending[m] # Idle /\ task[d] = NoTask /\ AtRevision(d, sending[m].rev)
      /\ Publishes(m, d, sending[m].terms)
      /\ reserve' = WithReserve(<<"publish", d>>, d, ReserveOf(draft[d]))
      /\ sending' = [sending EXCEPT ![m] = Idle]
      /\ UNCHANGED <<screen, versions>>
  BY DEF Publish, MayPublish, ReserveKey, catalogVars
<1>2. m \in Members /\ m # Nobody
  BY AnswersAreTyped
<1>3. d \in Drafts /\ sending[m].terms = Terms(draft[d])
  BY <1>1, <1>2, SendsIs
<1>4. draft[d].step = "preview"
  BY <1>1 DEF AtRevision
<1> HIDE DEF d
<1>5. RowsMove /\ TasksInv'
  BY <1>1, <1>2, <1>3, <1>4, PublishedStands
<1>6. VersionsGrow /\ sending' = [n \in Members |-> sending'[n]]
      /\ \A n \in Members : sending'[n] \in {sending[n], Idle}
  BY <1>1, VersionsIdle DEF PublicationInv, ScreensInv
<1>7. FormsInv' /\ ScreensInv'
  BY <1>1, <1>5, <1>6, FormsStay, ScreensStay DEF PublicationInv
<1> QED
  BY <1>5, <1>7 DEF PublicationInv

LEMMA ConfirmKeeps ==
  ASSUME PublicationInv, NEW a \in Members, ConfirmCommunityPublication(a)
  PROVE  PublicationInv'
<1> DEFINE d == screen[a].draft
<1>1. /\ d # 0 /\ task[d] = NoTask /\ AtRevision(d, screen[a].rev)
      /\ Publishes(a, d, screen[a].terms) /\ draft[d].origin = "community"
      /\ UNCHANGED <<reserve, screen, sending, versions>>
  BY DEF ConfirmCommunityPublication, catalogVars
<1>2. a # Nobody
  BY AnswersAreTyped
<1>3. d \in Drafts /\ screen[a].terms = Terms(draft[d])
  BY <1>1 DEF PublicationInv, ScreensInv, WasShown, Shows, AtRevision
<1>4. draft[d].step = "preview" /\ ReserveOf(draft[d]) = 0
  BY <1>1 DEF AtRevision, ReserveOf
<1> HIDE DEF d
<1>5. reserve' = WithReserve(<<"publish", d>>, d, ReserveOf(draft[d]))
  BY <1>1, <1>4 DEF WithReserve
<1>6. RowsMove /\ TasksInv'
  BY <1>1, <1>2, <1>3, <1>4, <1>5, PublishedStands
<1>7. VersionsGrow /\ sending' = [n \in Members |-> sending'[n]]
  BY <1>1, VersionsIdle DEF PublicationInv, ScreensInv
<1>8. FormsInv' /\ ScreensInv'
  BY <1>1, <1>6, <1>7, FormsStay, ScreensStay DEF PublicationInv
<1> QED
  BY <1>6, <1>8 DEF PublicationInv

\* A publication that ends without a task.
LEMMA EndKeeps ==
  ASSUME PublicationInv, NEW m \in Creators,
         RequestApproval(m) \/ PublishRepeats(m) \/ PublishEndsUnchanged(m)
  PROVE  PublicationInv'
<1> DEFINE d == sending[m].draft
<1>1. sending[m] # Idle /\ sending' = [sending EXCEPT ![m] = Idle]
      /\ UNCHANGED <<task, screen, versions>>
  BY DEF RequestApproval, PublishRepeats, PublishEndsUnchanged, catalogVars
<1>2. m \in Members /\ d \in Drafts
  BY <1>1, AnswersAreTyped, SendsIs
<1>3. RowsMove
  <2>1. CASE RequestApproval(m)
    <3> DEFINE old == draft[d]
               row == [old EXCEPT !.requested = TRUE]
    <3>1. SaveDraft(d, row) /\ Unfinished(d) /\ old \in DraftRows
      BY <1>2, <2>1 DEF RequestApproval, MayPublish, AtRevision, Unfinished, DraftExists,
                              PublicationInv, FormsInv
    <3> HIDE DEF old, d
    <3>2. row \in DraftRows /\ Kept(old, row)
      BY <3>1 DEF DraftRows, Kept
    <3> HIDE DEF row
    <3> QED
      BY <1>2, <3>1, <3>2, MarkedStands DEF PublicationInv, old
  <2>2. CASE PublishRepeats(m) \/ PublishEndsUnchanged(m)
    BY <2>2, RowsIdle DEF PublishRepeats, PublishEndsUnchanged, PublicationInv
  <2> QED
    BY <2>1, <2>2
<1>4. UNCHANGED reserve
  <2>1. CASE PublishRepeats(m)
    <3>1. /\ task[d] # NoTask /\ draft[d].step = "published"
          /\ reserve' = WithReserve(<<"publish", d>>, d, ReserveOf(draft[d]))
      BY <2>1 DEF PublishRepeats, ReserveKey
    <3>2. ReserveOf(draft[d]) # 0 => \E r \in reserve : r.key = <<"publish", d>>
      BY <1>2, <3>1 DEF PublicationInv, TasksInv, Published, Reserved
    <3> QED
      BY <3>1, <3>2 DEF WithReserve
  <2>2. CASE RequestApproval(m) \/ PublishEndsUnchanged(m)
    BY <2>2 DEF RequestApproval, PublishEndsUnchanged
  <2> QED
    BY <2>1, <2>2
<1>5. VersionsGrow /\ sending' = [n \in Members |-> sending'[n]]
      /\ \A n \in Members : sending'[n] \in {sending[n], Idle}
  BY <1>1, VersionsIdle DEF PublicationInv, ScreensInv
<1> QED
  BY <1>1, <1>3, <1>4, <1>5, FormsStay, ScreensStay, TasksStay DEF PublicationInv

-----------------------------------------------------------------------------
(* The published task.                                                      *)

\* A task is changed, and its reserve by what the change costs.
LEMMA TaskChanges ==
  ASSUME PublicationInv, NEW d \in Drafts, Published(d), NEW new, NEW key, NEW change \in Int,
         UNCHANGED <<draft, screen, sending, versions>>,
         task' = [task EXCEPT ![d] = new], IsTask(new), new # NoTask,
         new.terms = new.agreed, new.taken \in {Nothing, new.terms},
         new.origin = task[d].origin,
         reserve' = WithReserve(key, d, change),
         \/ change = 0 /\ new.rev = task[d].rev
         \/ key = <<"edit", d, task[d].rev>> /\ new.rev = task[d].rev + 1,
         task[d].origin = "member" => Promised(task[d].terms) + change = Promised(new.terms)
  PROVE  PublicationInv'
<1>0. FormsInv /\ TasksInv
  BY DEF PublicationInv
<1>1. RowsMove /\ VersionsGrow
  BY <1>0, RowsIdle, VersionsIdle
<1>2. FormsInv' /\ ScreensInv'
  <2>1. sending' = [n \in Members |-> sending'[n]]
    BY DEF PublicationInv, ScreensInv
  <2> QED
    BY <1>1, <2>1, FormsStay, ScreensStay DEF PublicationInv
<1>3. /\ task' = [e \in Drafts |-> task'[e]] /\ task'[d] = new
      /\ \A e \in Drafts : e # d => task'[e] = task[e]
      /\ task[d].rev \in Nat
  BY <1>0 DEF TasksInv, IsTask
<1>4. /\ IsFiniteSet(reserve') /\ reserve \subseteq reserve'
      /\ \A r \in reserve' \ reserve : r.key = key /\ r.draft = d /\ r.amount = change
      /\ HeldFor(d)' = HeldFor(d) + change
      /\ \A e : e # d => RowsOf(e)' = RowsOf(e)
  <2>1. IsFiniteSet(reserve) /\ \A r \in reserve : r.amount \in Int
    BY <1>0 DEF TasksInv, IsReserve
  <2>2. CASE change = 0
    <3>1. reserve' = reserve
      BY <2>2 DEF WithReserve
    <3>2. HeldFor(d) = AmountSum(RowsOf(d)) /\ HeldFor(d)' = AmountSum(RowsOf(d)')
      BY HeldIs
    <3>3. \A e : RowsOf(e)' = RowsOf(e)
      BY <3>1 DEF RowsOf
    <3>4. AmountSum(RowsOf(d)) \in Int
      BY <1>0, AmountType, FS_Subset DEF RowsOf, TasksInv, IsReserve
    <3> QED
      BY <2>1, <2>2, <3>1, <3>2, <3>3, <3>4
  <2>3. CASE change # 0
    <3>1. key = <<"edit", d, task[d].rev>>
      BY <2>3
    <3>2. \A r \in reserve : r.key # key
      <4> SUFFICES ASSUME NEW r \in reserve, r.key = key
                   PROVE  FALSE
        OBVIOUS
      <4>1. r.key = <<"publish", r.draft>>
            \/ \E k \in 0 .. task[r.draft].rev - 1 : r.key = <<"edit", r.draft, k>>
        BY <1>0 DEF TasksInv, IsReserve
      <4>2. PICK k \in 0 .. task[r.draft].rev - 1 : r.key = <<"edit", r.draft, k>>
        BY <3>1, <4>1
      <4>3. r.draft = d /\ k = task[d].rev
        BY <3>1, <4>2
      <4> QED
        BY <1>3, <4>2, <4>3
    <3> QED
      BY <2>1, <3>2, HeldAfter
  <2> QED
    BY <2>2, <2>3
<1>5. ASSUME NEW e \in Drafts
      PROVE  /\ IsTask(task[e])'
             /\ Published(e)' => /\ draft'[e].step # "absent"
                                 /\ draft'[e].step = "published" => Reserved(e)'
  <2>1. IsTask(task[e])'
    BY <1>0, <1>3 DEF TasksInv, IsTask
  <2>2. Published(e)' => Published(e)
    BY <1>3 DEF Published
  <2>3. ReserveOf(draft[e])' = ReserveOf(draft[e])
    BY DEF ReserveOf, Terms
  <2> QED
    BY <1>0, <1>4, <2>1, <2>2, <2>3 DEF TasksInv, Reserved
<1>6. ASSUME NEW r \in reserve'
      PROVE  IsReserve(r)'
  <2>1. CASE r \in reserve
    BY <1>0, <1>3, <2>1 DEF TasksInv, IsReserve, Published, IsTask
  <2>2. CASE r \notin reserve
    <3>1. r.key = key /\ r.draft = d /\ r.amount = change
      BY <1>4, <2>2
    <3>2. change # 0
      BY <2>2 DEF WithReserve
    <3> QED
      BY <1>3, <3>1, <3>2 DEF IsReserve, Published
  <2> QED
    BY <2>1, <2>2
<1>7. TaskIsAsAgreed'
  <2> SUFFICES ASSUME NEW e \in Drafts, task'[e] # NoTask
               PROVE  /\ task'[e].terms = task'[e].agreed
                      /\ task'[e].taken \in {Nothing, task'[e].terms}
                      /\ task'[e].origin = "member" => HeldFor(e)' = Promised(task'[e].terms)
    BY DEF TaskIsAsAgreed
  <2>1. CASE e = d
    BY <1>0, <1>3, <1>4, <2>1 DEF TasksInv, TaskIsAsAgreed, Published
  <2>2. CASE e # d
    <3>1. HeldFor(e)' = HeldFor(e)
      BY <1>4, <2>2, HeldIs
    <3> QED
      BY <1>0, <1>3, <2>2, <3>1 DEF TasksInv, TaskIsAsAgreed
  <2> QED
    BY <2>1, <2>2
<1> QED
  BY <1>2, <1>3, <1>4, <1>5, <1>6, <1>7 DEF PublicationInv, TasksInv

LEMMA TakenKeeps ==
  ASSUME PublicationInv, NEW d \in Drafts, TaskIsTaken(d) \/ TaskIsFreed(d)
  PROVE  PublicationInv'
<1>1. PICK taken : /\ task' = [task EXCEPT ![d].taken = taken]
                   /\ taken \in {Nothing, task[d].terms}
  BY DEF TaskIsTaken, TaskIsFreed
<1>2. task[d] # NoTask
  <2>1. NoTask.taken = Nothing
    BY DEF NoTask
  <2> QED
    BY <2>1 DEF TaskIsTaken, TaskIsFreed
<1> DEFINE old == task[d]
           new == [old EXCEPT !.taken = taken]
<1>3. /\ IsTask(old) /\ old.by # Nobody /\ old.terms = old.agreed
      /\ UNCHANGED <<draft, screen, sending, versions, reserve>>
  BY <1>2 DEF PublicationInv, TasksInv, TaskIsAsAgreed, IsTask, TaskIsTaken, TaskIsFreed, catalogVars
<1>4. task' = [task EXCEPT ![d] = new]
  BY <1>1 DEF PublicationInv, TasksInv
<1>5. Promised(old.terms) \in Int
  <2>1. old.terms.reward \in Nat /\ old.terms.slots \in Nat
    BY <1>2, <1>3 DEF IsTask, IsTerms
  <2> HIDE DEF old
  <2> QED
    BY <2>1 DEF Promised
<1> HIDE DEF old
<1>6. /\ new.terms = old.terms /\ new.agreed = old.agreed /\ new.taken = taken
      /\ new.by = old.by /\ new.rev = old.rev /\ new.origin = old.origin
      /\ DOMAIN new = {"origin", "terms", "agreed", "taken", "by", "rev"}
  BY <1>3 DEF IsTask
<1> HIDE DEF new
<1>7. IsTask(new) /\ new # NoTask
  <2>1. NoTask.by = Nobody
    BY DEF NoTask
  <2> QED
    BY <1>2, <1>3, <1>6, <2>1 DEF IsTask, old
<1>8. PICK key, change : /\ change = 0
                         /\ reserve' = WithReserve(key, d, change)
  BY <1>3 DEF WithReserve
<1>9. change \in Int /\ Promised(task[d].terms) + change = Promised(new.terms)
  BY <1>5, <1>6, <1>8 DEF old
<1>10. /\ new.terms = new.agreed /\ new.taken \in {Nothing, new.terms}
       /\ new.rev = task[d].rev /\ new.origin = task[d].origin /\ Published(d)
  BY <1>1, <1>2, <1>3, <1>6 DEF Published, old
<1> QED
  BY <1>3, <1>4, <1>7, <1>8, <1>9, <1>10, TaskChanges

LEMMA EditedKeeps ==
  ASSUME PublicationInv, NEW m \in Creators, NEW d \in Drafts, NEW filled \in Forms,
         EditPublished(m, d, filled)
  PROVE  PublicationInv'
<1> DEFINE terms == Terms(Filled(d, filled))
           old == task[d]
           change == Promised(terms) - Promised(old.terms)
           key == <<"edit", d, old.rev>>
           new == [old EXCEPT !.terms = terms, !.agreed = terms, !.rev = old.rev + 1]
<1>1. /\ Editable(m, d) /\ reserve' = WithReserve(key, d, change)
      /\ UNCHANGED <<draft, screen, sending, versions>>
  BY DEF EditPublished, catalogVars
<1>2. /\ task[d] # NoTask /\ old.taken = Nothing /\ IsTask(old) /\ old.rev \in Nat
      /\ old.by # Nobody /\ IsTerms(old.terms) /\ draft[d].template = 0
      /\ draft[d] \in DraftRows
  BY <1>1 DEF Editable, PublicationInv, TasksInv, IsTask, FormsInv
<1>3. task' = [task EXCEPT ![d] = new]
  BY DEF EditPublished, Edited, PublicationInv, TasksInv
<1>4. IsTerms(terms)
  <2>1. filled.reward \in Nat /\ filled.slots \in Nat
    <3>1. filled \in [kind : Kinds, category : Categories, size : TimeSizes,
                    reward : Nat \ {0}, slots : Nat \ {0}]
      BY PublicationAssumption
    <3> QED
      BY <3>1
  <2> DEFINE row == Filled(d, filled)
  <2>2. row.template = 0 /\ row.reward = filled.reward /\ row.slots = filled.slots
    BY <1>2 DEF Filled, DraftRows
  <2> HIDE DEF row
  <2>3. terms.reward = filled.reward /\ terms.slots = filled.slots
    BY <2>2 DEF Terms, row
  <2> HIDE DEF terms
  <2> QED
    BY <2>1, <2>3 DEF IsTerms
<1> HIDE DEF terms, old
<1>5. Promised(terms) \in Int /\ Promised(old.terms) \in Int
  BY <1>2, <1>4 DEF Promised, IsTerms
<1>6. /\ new.terms = terms /\ new.agreed = terms /\ new.taken = Nothing
      /\ new.by = old.by /\ new.rev = old.rev + 1 /\ new.origin = old.origin
      /\ DOMAIN new = {"origin", "terms", "agreed", "taken", "by", "rev"}
  BY <1>2 DEF IsTask
<1> HIDE DEF new
<1>7. IsTask(new) /\ new # NoTask
  <2>1. NoTask.by = Nobody
    BY DEF NoTask
  <2> QED
    BY <1>2, <1>4, <1>6, <2>1 DEF IsTask
<1>8. change \in Int /\ Promised(old.terms) + change = Promised(terms)
  BY <1>5
<1> HIDE DEF change
<1> QED
  BY <1>1, <1>2, <1>3, <1>6, <1>7, <1>8, TaskChanges DEF Published, old

-----------------------------------------------------------------------------
(* The catalog.                                                             *)

LEMMA RetiredGrows ==
  ASSUME FormsInv
  PROVE  /\ Retired \in Seq(VersionRows) /\ Len(Retired) = Len(versions)
         /\ \A v \in 1 .. Len(versions) : /\ Retired[v] \in VersionRows
                                          /\ Retired[v].reward = versions[v].reward
                                          /\ Retired[v].maximum = versions[v].maximum
<1> DEFINE n == Len(versions)
<1>1. versions \in Seq(VersionRows) /\ n \in Nat /\ DOMAIN versions = 1 .. n
  BY DEF FormsInv
<1>2. Retired = [v \in 1 .. n |-> Retired[v]]
  BY <1>1 DEF Retired
<1>3. ASSUME NEW v \in 1 .. n
      PROVE  /\ Retired[v] \in VersionRows
             /\ Retired[v].reward = versions[v].reward
             /\ Retired[v].maximum = versions[v].maximum
  <2> DEFINE old == versions[v]
  <2>1. old \in VersionRows
    BY <1>1
  <2>2. Retired[v] = [old EXCEPT !.active = FALSE]
    BY <1>1 DEF Retired
  <2> HIDE DEF old
  <2>3. /\ Retired[v] \in VersionRows
        /\ Retired[v].reward = old.reward /\ Retired[v].maximum = old.maximum
    BY <2>1, <2>2 DEF VersionRows
  <2> QED
    BY <2>3 DEF old
<1>4. Retired \in [1 .. n -> VersionRows]
  BY <1>2, <1>3
<1>5. Retired \in Seq(VersionRows) /\ Len(Retired) = n
  BY <1>1, <1>4, SeqDef
<1> QED
  BY <1>3, <1>5

LEMMA CatalogGrows ==
  ASSUME FormsInv, CatalogNext
  PROVE  VersionsGrow
<1>1. /\ Retired \in Seq(VersionRows) /\ Len(Retired) = Len(versions)
      /\ \A v \in 1 .. Len(versions) : /\ Retired[v] \in VersionRows
                                       /\ Retired[v].reward = versions[v].reward
                                       /\ Retired[v].maximum = versions[v].maximum
  BY RetiredGrows
<1>2. Len(versions) \in Nat /\ Len(versions) > 0
  BY DEF FormsInv
<1>3. ASSUME NEW a, NEW reward \in Nat, NEW maximum \in Nat, PublishVersion(a, reward, maximum)
      PROVE  VersionsGrow
  <2> DEFINE row == [reward |-> reward, maximum |-> maximum, active |-> TRUE]
  <2>1. row \in VersionRows /\ versions' = Append(Retired, row)
    BY <1>3 DEF PublishVersion, Inserted, VersionRows
  <2> HIDE DEF row
  <2>2. /\ versions' \in Seq(VersionRows) /\ Len(versions') = Len(Retired) + 1
        /\ \A v \in 1 .. Len(Retired) : versions'[v] = Retired[v]
    BY <1>1, <2>1
  <2> QED
    BY <1>1, <1>2, <2>2 DEF VersionsGrow
<1>4. ASSUME NEW a, NEW enabled \in BOOLEAN, SetTemplateActive(a, enabled)
      PROVE  VersionsGrow
  <2> DEFINE n == Len(versions)
             old == Retired[n]
             row == [old EXCEPT !.active = enabled]
  <2>1. old \in VersionRows
    BY <1>1, <1>2
  <2>2. versions' = [Retired EXCEPT ![n] = row]
    BY <1>1, <1>2, <1>4 DEF SetTemplateActive, Switched
  <2> HIDE DEF old
  <2>3. row \in VersionRows /\ row.reward = old.reward /\ row.maximum = old.maximum
    BY <2>1 DEF VersionRows
  <2> HIDE DEF row, n
  <2>4. /\ versions' \in Seq(VersionRows) /\ Len(versions') = Len(Retired)
        /\ \A v \in 1 .. Len(Retired) : versions'[v] = IF v = n THEN row ELSE Retired[v]
    <3> DEFINE k == Len(Retired)
    <3>1. Retired \in [1 .. k -> VersionRows] /\ k \in Nat
      BY <1>1
    <3>2. versions' \in [1 .. k -> VersionRows]
          /\ \A v \in 1 .. k : versions'[v] = IF v = n THEN row ELSE Retired[v]
      BY <2>2, <2>3, <3>1
    <3> HIDE DEF k
    <3>3. versions' \in Seq(VersionRows) /\ Len(versions') = k
      BY <3>1, <3>2, SeqDef
    <3> QED
      BY <3>2, <3>3 DEF k
  <2> QED
    BY <1>1, <1>2, <2>3, <2>4 DEF VersionsGrow, old, n
<1>5. ASSUME NEW a, NEW category, NEW enabled, SetCategoryActive(a, category, enabled)
      PROVE  VersionsGrow
  BY <1>5, VersionsIdle DEF SetCategoryActive
<1>6. \A x \in TemplateRewards \cup TemplateSlots : x \in Nat
  BY CatalogAssumption
<1>7. versions[Len(versions)].maximum \in Nat
  BY <1>2, VersionIs
<1>8. ASSUME NEW a, NEW r \in TemplateRewards, ChangeReward(a, r)
      PROVE  VersionsGrow
  BY <1>3, <1>6, <1>7, <1>8 DEF ChangeReward
<1> QED
  BY <1>3, <1>4, <1>5, <1>6, <1>8 DEF CatalogNext

-----------------------------------------------------------------------------
(* The invariant of publication.                                            *)

LEMMA PublicationStarts == Init => PublicationInv
<1> SUFFICES ASSUME Init
             PROVE  PublicationInv
  OBVIOUS
<1>1. PublicationInit /\ CatalogInit
  BY DEF Init
<1>2. PICK r \in TemplateRewards, n \in TemplateSlots :
        versions = <<[reward |-> r, maximum |-> n, active |-> TRUE]>>
  BY <1>1 DEF CatalogInit
<1>3. versions \in Seq(VersionRows) /\ Len(versions) = 1
  <2> DEFINE row == [reward |-> r, maximum |-> n, active |-> TRUE]
  <2>1. row \in VersionRows
    BY CatalogAssumption DEF VersionRows
  <2> HIDE DEF row
  <2> QED
    BY <1>2, <2>1 DEF row
<1>4. FormsInv
  <2>1. /\ draft = [d \in Drafts |-> NoDraft] /\ DraftStands(NoDraft)
    BY <1>1, <1>3, NoDraftIsARow DEF PublicationInit, DraftStands, Terminal
  <2> QED
    BY <1>3, <2>1, NoDraftIsARow DEF FormsInv
<1>5. ScreensInv
  <2>1. Blank.draft = 0
    BY DEF Blank
  <2> QED
    BY <1>1, <2>1 DEF PublicationInit, ScreensInv
<1>6. TasksInv
  <2>1. /\ DOMAIN NoTask = {"origin", "terms", "agreed", "taken", "by", "rev"} /\ NoTask.rev = 0
    BY DEF NoTask
  <2> HIDE DEF NoTask
  <2>2. /\ task = [d \in Drafts |-> NoTask] /\ reserve = {}
    BY <1>1 DEF PublicationInit
  <2> QED
    BY <2>1, <2>2, FS_EmptySet DEF TasksInv, IsTask, Published, TaskIsAsAgreed
<1> QED
  BY <1>4, <1>5, <1>6 DEF PublicationInv

LEMMA PublicationStepKeeps ==
  ASSUME PublicationInv, PublicationNext
  PROVE  PublicationInv'
<1>0. FormsInv
  BY DEF PublicationInv
<1>1. ASSUME RowsMove, UNCHANGED <<task, reserve, screen, sending, versions>>
      PROVE  PublicationInv'
  BY <1>0, <1>1, DraftsKeep, VersionsIdle
<1>2. ASSUME NEW m \in Creators,
             \/ StartWeb(m) \/ StartAnew(m) \/ StartBot(m)
             \/ \E origin \in {"member", "community"} : StartFromTemplate(m, origin)
      PROVE  PublicationInv'
  <2>1. RowsMove
    BY <1>0, <1>2, StartMoves DEF Origins
  <2>2. UNCHANGED <<task, reserve, screen, sending, versions>>
    BY <1>2 DEF StartWeb, StartAnew, StartBot, StartFromTemplate, catalogVars
  <2> QED
    BY <1>1, <2>1, <2>2
<1>3. ASSUME NEW m \in Creators, NEW r \in Members, SelectCommunityReviewer(m, r)
      PROVE  PublicationInv'
  <2>1. RowsMove
    BY <1>0, <1>3, ReviewerMoves
  <2>2. UNCHANGED <<task, reserve, screen, sending, versions>>
    BY <1>3 DEF SelectCommunityReviewer, catalogVars
  <2> QED
    BY <1>1, <2>1, <2>2
<1>4. ASSUME NEW m \in Creators, NEW d \in Drafts,
             \/ Advance(m, d) \/ Resume(m, d) \/ CancelDraft(m, d)
             \/ \E delta \in {-1, 1} : AdjustDraftSlots(m, d, delta)
             \/ \E step : EditDraftStep(m, d, step)
             \/ \E filled \in Forms : SaveWeb(m, d, filled)
      PROVE  PublicationInv'
  <2>1. RowsMove
    BY <1>0, <1>4, AdvanceMoves, ResumeMoves, CancelMoves, AdjustMoves, EditStepMoves, SaveWebMoves
  <2>2. UNCHANGED <<task, reserve, screen, sending, versions>>
    BY <1>4 DEF Advance, Resume, CancelDraft, AdjustDraftSlots, EditDraftStep, SaveWeb, catalogVars
  <2> QED
    BY <1>1, <2>1, <2>2
<1>5. ASSUME NEW d \in Drafts, DeadlinePasses(d)
      PROVE  PublicationInv'
  <2>1. RowsMove
    BY <1>0, <1>5, DeadlineMoves
  <2>2. UNCHANGED <<task, reserve, screen, sending, versions>>
    BY <1>5 DEF DeadlinePasses, catalogVars
  <2> QED
    BY <1>1, <2>1, <2>2
<1>6. ASSUME NEW m \in Creators,
             \/ \E web \in BOOLEAN : PublishBegins(m, web)
             \/ RequestApproval(m) \/ Publish(m) \/ PublishRepeats(m) \/ PublishEndsUnchanged(m)
             \/ \E d \in Drafts, filled \in Forms : EditPublished(m, d, filled)
      PROVE  PublicationInv'
  BY <1>6, BeginKeeps, EndKeeps, PublishKeeps, EditedKeeps
<1>7. ASSUME NEW m \in Members,
             \/ ConfirmCommunityPublication(m)
             \/ \E d \in Drafts : LookAtDraft(m, d) \/ LookAtRequest(m, d)
      PROVE  PublicationInv'
  BY <1>7, ConfirmKeeps, LooksKeep
<1>8. ASSUME NEW d \in Drafts, TaskIsTaken(d) \/ TaskIsFreed(d)
      PROVE  PublicationInv'
  BY <1>8, TakenKeeps
<1> QED
  BY <1>2, <1>3, <1>4, <1>5, <1>6, <1>7, <1>8 DEF PublicationNext

LEMMA PublicationKept == PublicationInv /\ [Next]_vars => PublicationInv'
<1> SUFFICES ASSUME PublicationInv, [Next]_vars
             PROVE  PublicationInv'
  OBVIOUS
<1>1. CASE PublicationNext
  BY <1>1, PublicationStepKeeps
<1>2. CASE UNCHANGED publicationVars /\ (CatalogNext \/ UNCHANGED catalogVars)
  <2>1. RowsMove /\ VersionsGrow
    BY <1>2, RowsIdle, CatalogGrows, VersionsIdle DEF PublicationInv, publicationVars, catalogVars
  <2> QED
    BY <1>2, <2>1, DraftsKeep DEF publicationVars
<1> QED
  BY <1>1, <1>2, PublicationMoves

(* However a draft changed between its preview and the command, a task      *)
(* promises what its publisher was shown, the reserve of a member's task is *)
(* exactly what it may pay, and nobody who took it finds other terms        *)
(* (publish, _expect, edit_published and the keys of their ledger rows).    *)
THEOREM Agreements == Spec => []TaskIsAsAgreed
<1>1. PublicationInv => TaskIsAsAgreed
  BY DEF PublicationInv, TasksInv
<1> QED
  BY <1>1, PublicationStarts, PublicationKept, PTL DEF Spec

(* Whatever step a draft came from, what its preview shows is complete and  *)
(* fits (_advance_freeform_draft, _advance_draft, edit_draft_step).         *)
THEOREM ConsistentPreviews == Spec => []PreviewIsConsistent
<1>1. ASSUME PublicationInv
      PROVE  PreviewIsConsistent
  <2> SUFFICES ASSUME NEW d \in Drafts, draft[d].step = "preview"
               PROVE  IF draft[d].template = 0
                      THEN /\ HasCompleteFreeformValues(draft[d])
                           /\ FitsKind(draft[d].kind, draft[d].slots)
                           /\ FitsSize(draft[d].size, draft[d].reward)
                      ELSE /\ HasCompleteTemplateValues(draft[d])
                           /\ draft[d].slots <= versions[draft[d].template].maximum
    BY DEF PreviewIsConsistent
  <2> DEFINE row == draft[d]
  <2>1. row \in DraftRows /\ DraftStands(row) /\ row.step = "preview"
    BY <1>1 DEF PublicationInv, FormsInv
  <2>2. Before("preview") = PlainSteps /\ BeforeInput("preview") = TemplateInputs
    BY DEF Before, Questions, BeforeInput
  <2> HIDE DEF row
  <2>3. CASE row.template = 0
    <3>1. FreeformStands(row)
      BY <2>1, <2>3 DEF DraftStands, Terminal
    <3>2. /\ row.kind # Nothing /\ row.category # Nothing /\ row.size # Nothing
          /\ row.reward # 0 /\ row.given = PlainSteps
      BY <2>1, <2>2, <3>1 DEF FreeformStands, PlainSteps, Final
    <3> QED
      BY <2>1, <2>3, <3>1, <3>2, CompleteFreeform DEF FreeformStands, row
  <2>4. CASE row.template # 0
    <3>1. TemplateStands(row)
      BY <2>1, <2>4 DEF DraftStands, Terminal
    <3> QED
      BY <2>1, <2>2, <2>4, <3>1 DEF TemplateStands, HasCompleteTemplateValues, Final, row
  <2> QED
    BY <2>3, <2>4
<1> QED
  BY <1>1, PublicationStarts, PublicationKept, PTL DEF Spec

(* Whoever publishes has the right to at that very step, whatever changed   *)
(* since the command was sent (publish judges again under the row locks;    *)
(* confirm_community_publication).                                          *)
THEOREM Warrants == Spec => PublicationIsWarranted
<1> DEFINE Warranted ==
      \A d \in Drafts : (task[d] = NoTask /\ task'[d] # NoTask) =>
        /\ IsActive(draft[d].owner)
        /\ draft[d].template # 0 => Publishable(draft[d].template)
        /\ draft[d].origin = "community" =>
             IF draft[d].template = 0 THEN Holds(task'[d].by, "community_task_create")
             ELSE /\ IsSuperadministrator(task'[d].by)
                  /\ draft[d].reviewer \in ActiveAdministrators \ {draft[d].owner}
<1>1. ASSUME PublicationInv, [Next]_vars
      PROVE  [Warranted]_task
  <2> SUFFICES ASSUME NEW d \in Drafts, task[d] = NoTask, task'[d] # NoTask
               PROVE  /\ IsActive(draft[d].owner)
                      /\ draft[d].template # 0 => Publishable(draft[d].template)
                      /\ draft[d].origin = "community" =>
                           IF draft[d].template = 0
                           THEN Holds(task'[d].by, "community_task_create")
                           ELSE /\ IsSuperadministrator(task'[d].by)
                                /\ draft[d].reviewer \in ActiveAdministrators \ {draft[d].owner}
    OBVIOUS
  <2>1. \/ \E m \in Creators : Publish(m)
        \/ \E a \in Members : ConfirmCommunityPublication(a)
    <3>1. task' # task
      OBVIOUS
    <3>2. PublicationNext
      BY <1>1, <3>1, PublicationMoves DEF publicationVars
    <3>3. \A e : ~TaskIsTaken(e) /\ ~TaskIsFreed(e)
      <4>1. NoTask.taken = Nothing
        BY DEF NoTask
      <4> QED
        BY <1>1, <4>1 DEF TaskIsTaken, TaskIsFreed, PublicationInv, TasksInv
    <3>4. \A m, e, filled : ~EditPublished(m, e, filled)
      BY <1>1 DEF EditPublished, Edited, Editable, PublicationInv, TasksInv
    <3>5. \A m, origin, r, web :
            /\ ~StartWeb(m) /\ ~StartAnew(m) /\ ~StartBot(m) /\ ~StartFromTemplate(m, origin)
            /\ ~SelectCommunityReviewer(m, r) /\ ~PublishBegins(m, web)
            /\ ~RequestApproval(m) /\ ~PublishRepeats(m) /\ ~PublishEndsUnchanged(m)
      BY <3>1 DEF StartWeb, StartAnew, StartBot, StartFromTemplate, SelectCommunityReviewer,
                  PublishBegins, RequestApproval, PublishRepeats, PublishEndsUnchanged
    <3>6. \A m, e, x :
            /\ ~Advance(m, e) /\ ~Resume(m, e) /\ ~CancelDraft(m, e)
            /\ ~AdjustDraftSlots(m, e, x) /\ ~EditDraftStep(m, e, x) /\ ~SaveWeb(m, e, x)
            /\ ~LookAtDraft(m, e) /\ ~LookAtRequest(m, e) /\ ~DeadlinePasses(e)
      BY <3>1 DEF Advance, Resume, CancelDraft, AdjustDraftSlots, EditDraftStep, SaveWeb,
                  LookAtDraft, LookAtRequest, DeadlinePasses
    <3> QED
      BY <3>2, <3>3, <3>4, <3>5, <3>6 DEF PublicationNext
  <2>2. ASSUME NEW by, NEW e, NEW shown, Publishes(by, e, shown)
        PROVE  e = d /\ task'[d].by = by
    BY <1>1, <2>2 DEF Publishes, TaskOf, NoTask, PublicationInv, TasksInv
  <2>3. ASSUME NEW m \in Creators, Publish(m)
        PROVE  /\ sending[m].draft = d /\ task'[d].by = m /\ draft[d].owner = m
               /\ LockedRights(m, d) /\ Validated(m, draft[d]) /\ ~NeedsApproval(m, d)
    <3>1. /\ sending[m] # Idle /\ Publishes(m, sending[m].draft, sending[m].terms)
          /\ LockedRights(m, sending[m].draft) /\ Validated(m, draft[sending[m].draft])
          /\ ~NeedsApproval(m, sending[m].draft)
      BY <2>3 DEF Publish, MayPublish
    <3> QED
      BY <1>1, <2>2, <3>1, SendsIs, AnswersAreTyped
  <2>4. CASE \E m \in Creators : Publish(m)
    <3>1. PICK m \in Creators : Publish(m)
      BY <2>4
    <3>2. /\ task'[d].by = m /\ draft[d].owner = m
          /\ LockedRights(m, d) /\ Validated(m, draft[d]) /\ ~NeedsApproval(m, d)
      BY <2>3, <3>1
    <3>3. IsActive(draft[d].owner)
      BY <3>2 DEF LockedRights
    <3>4. draft[d].template # 0 => Publishable(draft[d].template)
      BY <3>2 DEF Validated, TemplatePublishable
    <3>5. ASSUME draft[d].origin = "community", draft[d].template = 0
          PROVE  Holds(m, "community_task_create")
      BY <3>2, <3>5, Zenon DEF LockedRights
    <3>6. ASSUME draft[d].origin = "community", draft[d].template # 0
          PROVE  IsSuperadministrator(m) /\ draft[d].reviewer \in ActiveAdministrators \ {m}
      BY <3>2, <3>6, Zenon DEF LockedRights, NeedsApproval
    <3> QED
      BY <3>2, <3>3, <3>4, <3>5, <3>6
  <2>5. CASE \E a \in Members : ConfirmCommunityPublication(a)
    <3>1. PICK a \in Members : ConfirmCommunityPublication(a)
      BY <2>5
    <3>2. screen[a].draft = d /\ task'[d].by = a
      BY <2>2, <3>1 DEF ConfirmCommunityPublication
    <3> QED
      BY <3>1, <3>2
         DEF ConfirmCommunityPublication, TemplatePublishable, ActiveAdministrators
  <2> QED
    BY <2>1, <2>4, <2>5
<1>2. Spec => [][Warranted]_task
  BY <1>1, PublicationStarts, PublicationKept, PTL DEF Spec
<1> QED
  BY <1>2 DEF PublicationIsWarranted
=============================================================================
