------------------------------- MODULE Karma -------------------------------
(***************************************************************************)
(* Karma votes between members who have settled a task with each other     *)
(* (application/reputation.py, db/reputation.py), the signals they raise    *)
(* and the exclusion of a vote by a reviewer (db/moderation.py).            *)
(*                                                                         *)
(* A vote is drafted in the conversation row of the rater in four commands *)
(* that name the revision they answer.  The handlers of one rater wait for *)
(* his identity gate; a command repeated under its key is answered from    *)
(* its receipt and is no step here.  confirm_vote locks the draft, the     *)
(* pair and the two members, writes, counts the committed votes on the     *)
(* target and commits: it is two actions.  moderate_karma reads the vote,  *)
(* waits for a gate that is not the gate of the raters (the keys differ)   *)
(* and goes on with the revision it read: it is two as well, and no route  *)
(* calls it.                                                               *)
(***************************************************************************)
EXTENDS Conversations, FiniteSetsExt

CONSTANTS
  Tabs,       \* bound: windows a rater has open
  Raters,     \* bound: members who vote
  Targets,    \* bound: members they vote on
  Paid,       \* pairs {a, b} with a paid assignment of a member's task
  Disputed,   \* pairs with a dispute
  Values,     \* bound: values typed, within -1 .. 1
  Comments,   \* bound: comments typed, normalized
  Burst       \* negative votes on one member that are a signal, 3 in the code

ASSUME KarmaAssumption ==
  /\ Raters \cup Targets \subseteq Members
  /\ IsFiniteSet(Tabs)
  /\ Values \subseteq -1 .. 1
  /\ Burst \in Nat \ {0}

VARIABLES
  vote,       \* rater -> target -> [rev, value, comment], rev 0 for none
  ruling,     \* rater -> target -> the last row about his vote
  judging,    \* reviewers at work: the vote as they read it
  signals,    \* risk signals, all of one day
  form,       \* rater -> tab -> what he typed and the revision it was answered with
  confirming  \* rater -> the confirmation that holds its locks

karmaVars == <<vote, ruling, judging, signals, form, confirming>>

NoVote == [rev |-> 0, value |-> 0, comment |-> Nothing]
NoRuling == [rev |-> 0, state |-> "included", judged |-> NoVote]
Empty == [target |-> Nobody, stage |-> "begin", rev |-> 0, value |-> 0, comment |-> Nothing]
NoConfirmation == [target |-> Nobody, tab |-> Nothing, vote |-> NoVote, raised |-> {}]

KarmaInit ==
  /\ vote = [r \in Raters |-> [t \in Targets |-> NoVote]]
  /\ ruling = [r \in Raters |-> [t \in Targets |-> NoRuling]]
  /\ judging = {}
  /\ signals = {}
  /\ form = [r \in Raters |-> [w \in Tabs |-> Empty]]
  /\ confirming = [r \in Raters |-> NoConfirmation]

\* karma_eligible
Eligible(r, t) == {r, t} \in Paid

\* require_karma_actor
MayVote(r, t) == IsActive(r) /\ IsActive(t) /\ r # t /\ Eligible(r, t)

\* Under the identity gate of r.
AtLiberty(r) == IsActive(r) /\ confirming[r] = NoConfirmation

-----------------------------------------------------------------------------
(* The form of the Mini App: begin, save_value, save_comment, confirm. *)

\* Typing resets the form to its first command.
Type(r, w, t, value, comment) ==
  /\ Spend("karma")
  /\ form' = [form EXCEPT ![r][w] = [Empty EXCEPT !.target = t, !.value = value,
                                                  !.comment = comment]]
  /\ UNCHANGED <<vote, ruling, judging, signals, confirming, flow, account>>

\* clear_text_flow of a profile edit, which only the Mini App does.
WithoutProfileEdit(r) == IF flow[r].type = "profile_edit" THEN NoFlow ELSE flow[r]

\* begin_draft resumes the draft of the same target; another target starts
\* over, at revision 0 again.
BeginDraft(r, t) ==
  IF WithoutProfileEdit(r).type = "karma" /\ flow[r].ref = t THEN flow
  ELSE Claimed(r, "karma", "value", t, 0)

BeginVote(r, w) ==
  LET t == form[r][w].target IN
  /\ form[r][w].stage = "begin" /\ t # Nobody
  /\ AtLiberty(r) /\ MayVote(r, t)
  /\ WithoutProfileEdit(r).type \in {"none", "karma"}
  /\ flow' = BeginDraft(r, t)
  /\ form' = [form EXCEPT ![r][w].stage = "save_value", ![r][w].rev = flow'[r].rev]
  /\ UNCHANGED <<vote, ruling, judging, signals, confirming, left, account>>

\* save_draft: the locked row, this target and this very revision.
AtDraft(r, t, rev) == flow[r].type = "karma" /\ flow[r].ref = t /\ flow[r].rev = rev

SaveValue(r, w) ==
  LET f == form[r][w] IN
  /\ f.stage = "save_value"
  /\ AtLiberty(r) /\ AtDraft(r, f.target, f.rev)
  /\ flow' = [flow EXCEPT ![r].value = f.value, ![r].step = "comment", ![r].rev = @ + 1]
  /\ form' = [form EXCEPT ![r][w].stage = "save_comment", ![r][w].rev = flow'[r].rev]
  /\ UNCHANGED <<vote, ruling, judging, signals, confirming, left, account>>

SaveComment(r, w) ==
  LET f == form[r][w] IN
  /\ f.stage = "save_comment"
  /\ AtLiberty(r) /\ AtDraft(r, f.target, f.rev)
  /\ flow' = [flow EXCEPT ![r].comment = f.comment, ![r].step = "preview", ![r].rev = @ + 1]
  /\ form' = [form EXCEPT ![r][w].stage = "confirm", ![r][w].rev = flow'[r].rev]
  /\ UNCHANGED <<vote, ruling, judging, signals, confirming, left, account>>

CancelVote(r) ==
  /\ Spend("karma")
  /\ AtLiberty(r)
  /\ flow[r].type = "karma"
  /\ flow' = [flow EXCEPT ![r] = NoFlow]
  /\ UNCHANGED <<vote, ruling, judging, signals, form, confirming, account>>

-----------------------------------------------------------------------------
(* Confirmation. *)

\* upsert_vote
Upserted(r, t) == [rev |-> vote[r][t].rev + 1, value |-> flow[r].value,
                   comment |-> flow[r].comment]

\* lock_members: both rows are held until the commit.
Locked(m) == \E r \in Raters : confirming[r] # NoConfirmation /\ m \in {r, confirming[r].target}

Negative(all, t) == {r \in Raters : t \in Targets /\ all[r][t].rev > 0 /\ all[r][t].value = -1}

\* generate_karma_signals counts what is committed and what this transaction
\* has written.
Raised(r, t, all) ==
  IF all[r][t].value # -1 THEN {}
  ELSE {s \in {<<"mutual_negative_with_dispute", {r, t}>>} :
          {r, t} \in Disputed /\ t \in Raters /\ r \in Targets /\ all[t][r].value = -1}
       \cup {s \in {<<"negative_burst", {t}>>} : Cardinality(Negative(all, t)) >= Burst}
       \cup {s \in {<<"duplicate_negative_comment", {t}, all[r][t].comment>>} :
               Cardinality({q \in Negative(all, t) :
                              all[q][t].comment = all[r][t].comment}) >= Burst}

\* Mutant: the rows are read without a lock.
NobodyWaits(r, t) == TRUE

MembersFree(r, t) == ~Locked(r) /\ ~Locked(t)

ConfirmVote(r, w) ==
  LET f == form[r][w]  t == f.target  new == Upserted(r, t) IN
  /\ f.stage = "confirm"
  /\ AtLiberty(r)
  /\ AtDraft(r, t, f.rev)
  /\ flow[r].step = "preview" /\ Nothing \notin {flow[r].value, flow[r].comment}
  /\ MembersFree(r, t)
  /\ MayVote(r, t)
  /\ confirming' = [confirming EXCEPT ![r] =
       [target |-> t, tab |-> w, vote |-> new,
        raised |-> Raised(r, t, [vote EXCEPT ![r][t] = new])]]
  /\ UNCHANGED <<vote, ruling, judging, signals, form, flow, left, account>>

\* The commit: vote, history, signals, the end of the draft, the receipt.
ConfirmCommits(r) ==
  LET c == confirming[r] IN
  /\ c # NoConfirmation
  /\ vote' = [vote EXCEPT ![r][c.target] = c.vote]
  /\ signals' = signals \cup c.raised
  /\ flow' = [flow EXCEPT ![r] = NoFlow]
  /\ form' = [form EXCEPT ![r][c.tab] = Empty]
  /\ confirming' = [confirming EXCEPT ![r] = NoConfirmation]
  /\ UNCHANGED <<ruling, judging, left, account>>

-----------------------------------------------------------------------------
(* The reviewer of karma. *)

ModerateBegins(a, r, t, state) ==
  /\ Spend("ruling")
  /\ a \in ActiveAdministrators
  /\ vote[r][t].rev > 0
  /\ judging' = judging \cup {[by |-> a, rater |-> r, target |-> t, state |-> state,
                               vote |-> vote[r][t]]}
  /\ UNCHANGED <<vote, ruling, signals, form, confirming, flow, account>>

\* Mutant: the row names the revision at hand when it is written.
RevisionAtHand(j) == vote[j.rater][j.target].rev

\* A row names the revision that was judged.
RuledRevision(j) == j.vote.rev

ModerateKarma(j) ==
  /\ ruling' = [ruling EXCEPT ![j.rater][j.target] =
       IF @.rev > RuledRevision(j) THEN @
       ELSE [rev |-> RuledRevision(j), state |-> j.state, judged |-> j.vote]]
  /\ judging' = judging \ {j}
  /\ UNCHANGED <<vote, signals, form, confirming, flow, left, account>>

\* karma_aggregate counts a vote unless the last row about its revision
\* excludes it.
Counts(r, t) ==
  /\ vote[r][t].rev > 0
  /\ ~(ruling[r][t].rev = vote[r][t].rev /\ ruling[r][t].state = "excluded")

KarmaAggregate(t) == MapThenSumSet(LAMBDA r : vote[r][t].value, {r \in Raters : Counts(r, t)})

KarmaNext ==
  \/ \E r \in Raters :
       \/ \E w \in Tabs :
            \/ \E t \in Targets, v \in Values, c \in Comments : Type(r, w, t, v, c)
            \/ BeginVote(r, w) \/ SaveValue(r, w) \/ SaveComment(r, w) \/ ConfirmVote(r, w)
       \/ ConfirmCommits(r) \/ CancelVote(r)
  \/ \E a \in Members, r \in Raters, t \in Targets, s \in {"excluded", "restored"} :
       ModerateBegins(a, r, t, s)
  \/ \E j \in judging : ModerateKarma(j)

-----------------------------------------------------------------------------
(* What should hold. *)

\* However their confirmations interleave, as many negative votes on a member
\* as make a burst, or as many with one comment, have raised the signal, and so
\* have mutual negative votes of a pair with a dispute.
NegativesAreSignalled ==
  \A t \in Targets :
    /\ Cardinality(Negative(vote, t)) >= Burst => <<"negative_burst", {t}>> \in signals
    /\ \A c \in Comments :
         Cardinality({r \in Negative(vote, t) : vote[r][t].comment = c}) >= Burst =>
           <<"duplicate_negative_comment", {t}, c>> \in signals
    /\ \A r \in Negative(vote, t) :
         (t \in Raters /\ r \in Targets /\ {r, t} \in Disputed /\ r \in Raters
            /\ vote[t][r].value = -1 /\ vote[t][r].rev > 0) =>
           <<"mutual_negative_with_dispute", {r, t}>> \in signals

\* A vote left out of the karma of a member is the vote a reviewer has read,
\* value and comment, though the rater may revise it while the reviewer decides.
ExclusionIsForWhatWasJudged ==
  \A r \in Raters, t \in Targets :
    (vote[r][t].rev > 0 /\ ~Counts(r, t)) => ruling[r][t].judged = vote[r][t]

\* The vote recorded is the one in the form that confirmed it.
VotedAsShown ==
  [][\A r \in Raters : (confirming[r] = NoConfirmation /\ confirming'[r] # NoConfirmation) =>
       LET f == form[r][confirming'[r].tab] IN
       /\ confirming'[r].vote.value = f.value
       /\ confirming'[r].vote.comment = f.comment]_confirming
=============================================================================
