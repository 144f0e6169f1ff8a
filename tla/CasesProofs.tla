---------------------------- MODULE CasesProofs ----------------------------
(***************************************************************************)
(* Theorems about the moderation of a pair, for any finite set of          *)
(* assignments, any staff, codes, reward and threshold.                    *)
(*                                                                         *)
(* An assignment, its case, its rows and its reliability events are in one *)
(* of the situations of Story, and a decision leads from one to the next.  *)
(* What somebody was shown of a case is the case at a revision, and at one *)
(* revision there is one case.                                             *)
(***************************************************************************)
EXTENDS Cases, Sums, SequenceTheorems

Paying == {"approved", "partially_approved"}

CaseRows == [type : {"none", "dispute", "fraud_review"},
             status : {"none", "open", "resolved", "appealed"},
             revision : Nat, by : Seq(Staff)]

AlertRows == [state : {"open", "closed"}, outcome : Outcomes \cup {"none", "rearmed"},
              count : Nat, penalised : SUBSET Parties]

DraftRows == [a : Assignments, case : CaseRows, code : Codes, confirmed : BOOLEAN]

ReviewRows == [alert : Nat, outcome : Outcomes \cup {"none"}]

-----------------------------------------------------------------------------
(* The situations of an assignment: its status st, its case c, its rows and *)
(* its events.                                                              *)

Event(version, outcome) == [version |-> version, outcome |-> outcome]

Opened(type) == [NoCase EXCEPT !.type = type, !.status = "open"]

\* A case of this type has been decided so often.
Decided(c, type, statuses, times) ==
  c.type = type /\ c.status \in statuses /\ Len(c.by) = times

\* The rows of a review whose payout was taken back.
FraudRows(paid) ==
  PaidFor(paid, "review")
  \cup Reversals({r \in PaidFor(paid, "review") : r.kind = "payout"}, "v1")

Undecided(st, c, rows, events) ==
  /\ st \in {"submitted", "rejected_pending_dispute"} /\ c = NoCase
  /\ rows = {} /\ events = {}

InDispute(st, c, rows, events) ==
  /\ st = "disputed" /\ c = Opened("dispute")
  /\ rows = {} /\ events = {}

Reviewed(st, c, rows, events) ==
  /\ st \in Paying /\ c \in {NoCase, Opened("fraud_review")}
  /\ rows = PaidFor(st, "review") /\ events = {Event(0, st)}

Confiscated(st, c, rows, events) ==
  /\ st = "rejected" /\ Decided(c, "fraud_review", {"resolved", "appealed"}, 1)
  /\ \E paid \in Paying : /\ rows = FraudRows(paid)
                          /\ events = {Event(0, paid), Event(1, st)}

Reconsidered(st, c, rows, events) ==
  /\ st \in Ended /\ Decided(c, "fraud_review", {"resolved"}, 2)
  /\ \E paid \in Paying : /\ rows = FraudRows(paid) \cup PaidFor(st, "v2")
                          /\ events = {Event(0, paid), Event(1, "rejected"), Event(2, st)}

Judged(st, c, rows, events) ==
  /\ st \in Ended /\ Decided(c, "dispute", {"resolved", "appealed"}, 1)
  /\ rows = PaidFor(st, "v1") /\ events = {Event(0, st)}

Rejudged(st, c, rows, events) ==
  /\ st \in Ended /\ Decided(c, "dispute", {"resolved"}, 2)
  /\ \E first \in Ended :
       /\ rows = PaidFor(first, "v1") \cup PaidFor(st, "v2")
                   \cup Reversals(PaidFor(first, "v1"), "v2")
       /\ events = {Event(0, first), Event(2, st)}

Story(st, c, rows, events) ==
  \/ Undecided(st, c, rows, events) \/ InDispute(st, c, rows, events)
  \/ Reviewed(st, c, rows, events) \/ Confiscated(st, c, rows, events)
  \/ Reconsidered(st, c, rows, events) \/ Judged(st, c, rows, events)
  \/ Rejudged(st, c, rows, events)

-----------------------------------------------------------------------------
(* The inductive invariant.                                                 *)

RowsOK ==
  /\ status \in [Assignments -> AssignmentStatuses]
  /\ entries = [a \in Assignments |-> entries[a]]
  /\ reliability = [a \in Assignments |-> reliability[a]]
  /\ case \in [Assignments -> CaseRows]
  /\ draft = [s \in Staff |-> draft[s]]
  /\ screen = [s \in Staff |-> screen[s]]
  /\ review \in [Reviewers -> ReviewRows]
  /\ alerts \in Seq(AlertRows)

StoriesHold ==
  \A a \in Assignments : Story(status[a], case[a], entries[a], reliability[a])

\* c is the case now, or an older one.
ReadBefore(c, now) ==
  c \in CaseRows /\ c.status # "none" /\ c.revision <= now.revision
    /\ (c.revision = now.revision => c = now)

ViewsAreOld ==
  /\ \A s \in Staff : screen[s] # NoView =>
       screen[s].a \in Assignments /\ ReadBefore(screen[s].case, case[screen[s].a])
  /\ \A s \in Staff : draft[s] # NoDraft =>
       /\ draft[s].a \in Assignments /\ ReadBefore(draft[s].case, case[draft[s].a])
       /\ draft[s].code \in Codes
       /\ draft[s] \in DraftRows

WithPayout(p) == [entries EXCEPT ![p.a] = PaidFor(p.status, "review")]

\* A payout about to commit has counted itself and what others committed.
CountHolds(p) ==
  /\ p.a \in Assignments /\ p.status \in Paying /\ p.count \in Nat
  /\ status[p.a] = "submitted"
  /\ Cardinality(Interactions(WithPayout(p), old)) <= p.count

OneCounts == \A p, q \in counting : p = q

CasesInv ==
  /\ RowsOK
  /\ StoriesHold
  /\ ViewsAreOld
  /\ OneCounts /\ \A p \in counting : CountHolds(p)
  /\ CrossingIsAlerted

-----------------------------------------------------------------------------
(* The rows of a decision.                                                  *)

LEMMA CodesDecide ==
  ASSUME NEW code \in Codes
  PROVE  StatusOf(code) \in Ended
BY CasesAssumption DEF StatusOf, Ended

LEMMA FraudRejects == StatusOf("fraud") = "rejected"
BY DEF StatusOf

LEMMA HalfIsPart == Credits \in Nat /\ Half \in Nat /\ Half > 0 /\ Half <= Credits
BY CasesAssumption DEF Half

\* Rows of a decision, none of which is a reversal.
LEMMA PaidRows ==
  ASSUME NEW st, NEW by, NEW r \in PaidFor(st, by)
  PROVE  /\ r.kind \in {"payout", "refund"} /\ r.by = by /\ r.of = <<>>
         /\ r.kind = "payout" => st \in Paying
         /\ r.credit \in Int
BY HalfIsPart DEF PaidFor, Row, Paying

LEMMA PayoutCredits ==
  ASSUME NEW st \in Ended, NEW by
  PROVE  {r.credit : r \in {q \in PaidFor(st, by) : q.kind = "payout"}}
           = CASE st = "approved"           -> {Credits}
               [] st = "partially_approved" -> {Half}
               [] OTHER                     -> {}
<1> DEFINE out == {q \in PaidFor(st, by) : q.kind = "payout"}
<1>1. CASE st = "approved"
  <2>1. PaidFor(st, by) = {Row("payout", by, Credits)}
    BY <1>1 DEF PaidFor
  <2>2. out = {Row("payout", by, Credits)}
    BY <2>1 DEF Row
  <2>3. {r.credit : r \in {Row("payout", by, Credits)}} = {Credits}
    BY DEF Row
  <2> QED
    BY <1>1, <2>2, <2>3
<1>2. CASE st = "partially_approved"
  <2>1. PaidFor(st, by) = {Row("payout", by, Half)}
                          \cup (IF Half < Credits THEN {Row("refund", by, Credits - Half)} ELSE {})
    BY <1>2 DEF PaidFor
  <2>2. out = {Row("payout", by, Half)}
    BY <2>1 DEF Row
  <2>3. {r.credit : r \in {Row("payout", by, Half)}} = {Half}
    BY DEF Row
  <2> QED
    BY <1>2, <2>2, <2>3
<1>3. CASE st \notin {"approved", "partially_approved"}
  <2>1. PaidFor(st, by) = {Row("refund", by, Credits)}
    BY <1>3 DEF PaidFor
  <2>2. out = {}
    BY <2>1 DEF Row
  <2> QED
    BY <1>3, <2>2
<1> QED
  BY <1>1, <1>2, <1>3

LEMMA ReversalRows ==
  ASSUME NEW rows, NEW by, NEW r \in Reversals(rows, by)
  PROVE  r.kind = "reversal" /\ r.by = by /\ \E q \in rows : r.of = <<q.kind, q.by>>
BY DEF Reversals

LEMMA EachIsReversed ==
  ASSUME NEW rows, NEW by, NEW r \in rows
  PROVE  \E q \in Reversals(rows, by) : q.of = <<r.kind, r.by>>
<1> DEFINE q == [kind |-> "reversal", by |-> by, of |-> <<r.kind, r.by>>, credit |-> 0 - r.credit]
<1>1. q \in Reversals(rows, by)
  BY DEF Reversals
<1>2. q.of = <<r.kind, r.by>>
  OBVIOUS
<1> QED
  BY <1>1, <1>2

LEMMA NothingReversed ==
  ASSUME NEW by
  PROVE  Reversals({}, by) = {}
BY DEF Reversals

LEMMA RowsDiffer ==
  /\ \A x, y : <<>> # <<x, y>>
  /\ \A x, y, v, w : <<x, v>> = <<y, w>> => v = w
<1>1. ASSUME NEW x, NEW y PROVE <<>> # <<x, y>>
  <2>1. Len(<<>>) = 0 /\ Len(<<x, y>>) = 2
    OBVIOUS
  <2> QED
    BY <2>1
<1>2. ASSUME NEW x, NEW y, NEW v, NEW w, <<x, v>> = <<y, w>> PROVE v = w
  BY <1>2
<1> QED
  BY <1>1, <1>2

LEMMA StandingReview ==
  ASSUME NEW st, NEW by
  PROVE  Standing(PaidFor(st, by)) = PaidFor(st, by)
<1>1. \A r \in PaidFor(st, by) : r.kind # "reversal" /\ r.of = <<>>
  BY PaidRows
<1> QED
  BY <1>1, RowsDiffer DEF Standing

\* Taking back every row of the first decision leaves those of the second.
LEMMA StandingRejudged ==
  ASSUME NEW first, NEW st
  PROVE  Standing(PaidFor(first, "v1") \cup PaidFor(st, "v2")
                    \cup Reversals(PaidFor(first, "v1"), "v2")) = PaidFor(st, "v2")
<1> DEFINE back == Reversals(PaidFor(first, "v1"), "v2")
           rows == PaidFor(first, "v1") \cup PaidFor(st, "v2") \cup back
<1>1. \A r \in PaidFor(first, "v1") : r.kind # "reversal" /\ r.by = "v1" /\ r.of = <<>>
  BY PaidRows
<1>2. \A r \in PaidFor(st, "v2") : r.kind # "reversal" /\ r.by = "v2" /\ r.of = <<>>
  BY PaidRows
<1>3. \A r \in back : r.kind = "reversal" /\ \E q \in PaidFor(first, "v1") : r.of = <<q.kind, "v1">>
  BY <1>1, ReversalRows
<1>4. \A r \in PaidFor(first, "v1") : \E q \in back : q.of = <<r.kind, r.by>>
  BY EachIsReversed
<1>5. \A x, y : <<>> # <<x, y>> /\ <<x, "v1">> # <<y, "v2">>
  BY RowsDiffer
<1>6. ASSUME NEW r \in PaidFor(st, "v2"), NEW q \in rows PROVE q.of # <<r.kind, r.by>>
  <2>1. r.by = "v2"
    BY <1>2
  <2>2. q.of = <<>> \/ \E x : q.of = <<x, "v1">>
    BY <1>1, <1>2, <1>3
  <2> QED
    BY <2>1, <2>2, <1>5
<1> HIDE DEF back
<1> QED
  <2>1. \A r \in rows : r \in Standing(rows) <=> r \in PaidFor(st, "v2")
    <3>1. ASSUME NEW r \in back PROVE r \notin Standing(rows) /\ r \notin PaidFor(st, "v2")
      BY <1>2, <1>3 DEF Standing
    <3>2. ASSUME NEW r \in PaidFor(first, "v1")
          PROVE  r \notin Standing(rows) /\ r \notin PaidFor(st, "v2")
      BY <1>1, <1>2, <1>4 DEF Standing
    <3>3. ASSUME NEW r \in PaidFor(st, "v2") PROVE r \in Standing(rows)
      BY <1>2, <1>6 DEF Standing
    <3> HIDE DEF rows
    <3>4. \A r \in rows : r \in PaidFor(first, "v1") \/ r \in PaidFor(st, "v2") \/ r \in back
      BY DEF rows
    <3> QED
      BY <3>1, <3>2, <3>3, <3>4
  <2>2. Standing(rows) \subseteq rows
    BY DEF Standing
  <2>3. PaidFor(st, "v2") \subseteq rows
    OBVIOUS
  <2> HIDE DEF rows
  <2>4. Standing(rows) = PaidFor(st, "v2")
    BY <2>1, <2>2, <2>3
  <2> QED
    BY <2>4 DEF rows, back

\* A payout that was taken back is gone, and a later one stands.
LEMMA StandingReconsidered ==
  ASSUME NEW paid, NEW more,
         \A r \in more : r.kind \in {"payout", "refund"} /\ r.by = "v2" /\ r.of = <<>>
  PROVE  Payouts(FraudRows(paid) \cup more) = {r \in more : r.kind = "payout"}
<1> DEFINE out == {r \in PaidFor(paid, "review") : r.kind = "payout"}
           back == Reversals(out, "v1")
           rows == PaidFor(paid, "review") \cup back \cup more
<1>1. \A r \in PaidFor(paid, "review") : r.kind # "reversal" /\ r.by = "review" /\ r.of = <<>>
  BY PaidRows
<1>2. \A r \in back : r.kind = "reversal" /\ \E q \in out : r.of = <<q.kind, q.by>>
  BY ReversalRows
<1>3. \A r \in out : \E q \in back : q.of = <<r.kind, r.by>>
  BY EachIsReversed
<1>4. \A x, y : <<>> # <<x, y>> /\ <<x, "review">> # <<y, "v2">>
  BY RowsDiffer
<1>5. ASSUME NEW r \in more, NEW q \in rows PROVE q.of # <<r.kind, r.by>>
  <2>1. r.by = "v2"
    OBVIOUS
  <2>2. q.of = <<>> \/ \E x : q.of = <<x, "review">>
    <3>1. CASE q \in back
      BY <1>1, <1>2, <3>1
    <3>2. CASE q \notin back
      BY <1>1, <3>2
    <3> QED
      BY <3>1, <3>2
  <2> QED
    BY <2>1, <2>2, <1>4
<1>6. FraudRows(paid) \cup more = rows
  BY DEF FraudRows
<1>7. \A r \in rows : r \in {q \in Standing(rows) : q.kind = "payout"}
                        <=> r \in more /\ r.kind = "payout"
  <2> HIDE DEF back
  <2> QED
    BY <1>1, <1>2, <1>3, <1>5 DEF Standing
<1>8. Standing(rows) \subseteq rows
  BY DEF Standing
<1> QED
  BY <1>6, <1>7, <1>8 DEF Payouts

-----------------------------------------------------------------------------
(* What the rows of a decision are worth.                                   *)

Worth(S) == MapThenSumSet(LAMBDA r : r.credit, S)

\* The recursion by which Worth is computed.
IsWorth(g, S) ==
  g = [s \in SUBSET S |->
         IF s = {} THEN 0 ELSE Picked(s).credit + g[s \ {Picked(s)}]]

LEMMA WorthUnfolded ==
  ASSUME NEW S
  PROVE  Worth(S) = (CHOOSE g : IsWorth(g, S))[S]
BY Zenon DEF Worth, MapThenSumSet, MapThenFoldSet, IsWorth, Picked

LEMMA WorthIsTotal ==
  ASSUME NEW S, IsFiniteSet(S)
  PROVE  Worth(S) = Total([r \in S |-> r.credit], S)
<1> DEFINE f == [r \in S |-> r.credit]
           w == CHOOSE g : IsWorth(g, S)
<1>1. \A g : IsWorth(g, S) <=> IsSum(g, f, S)
  <2> TAKE g
  <2>1. \A s \in SUBSET S : s # {} => f[Picked(s)] = Picked(s).credit
    BY DEF Picked
  <2>2. [s \in SUBSET S |->
           IF s = {} THEN 0 ELSE Picked(s).credit + g[s \ {Picked(s)}]]
         = [s \in SUBSET S |->
              IF s = {} THEN 0 ELSE f[Picked(s)] + g[s \ {Picked(s)}]]
    BY <2>1
  <2> QED
    BY <2>2 DEF IsWorth, IsSum
<1> HIDE DEF f
<1>2. \E g : IsWorth(g, S)
  BY <1>1, SumsExist
<1>3. IsSum(w, f, S)
  BY <1>1, <1>2
<1> HIDE DEF w
<1>4. Total(f, S) = w[S]
  BY <1>3, TotalIsSum
<1> QED
  BY <1>4, WorthUnfolded DEF w, f

LEMMA OneRow ==
  ASSUME NEW r, r.credit \in Int
  PROVE  Worth({r}) = r.credit
<1> DEFINE f == [x \in {r} |-> x.credit]
<1>1. IsFiniteSet({r}) /\ IsFiniteSet({}) /\ {r} = {} \cup {r}
  BY FS_Singleton, FS_EmptySet
<1>2. f[r] = r.credit /\ \A x \in {} \cup {r} : f[x] \in Int
  OBVIOUS
<1>3. Worth({r}) = Total(f, {r})
  BY <1>1, WorthIsTotal
<1> HIDE DEF f
<1>4. Total(f, {} \cup {r}) = Total(f, {}) + f[r]
  BY <1>1, <1>2, TotalAdd
<1>5. Total(f, {r}) = Total(f, {}) + f[r]
  BY <1>1, <1>4, Zenon
<1>6. Total(f, {}) = 0
  BY TotalEmpty
<1> QED
  BY <1>2, <1>3, <1>5, <1>6

LEMMA TwoRows ==
  ASSUME NEW r, NEW q, r # q, r.credit \in Int, q.credit \in Int
  PROVE  Worth({r, q}) = r.credit + q.credit
<1> DEFINE f == [x \in {r, q} |-> x.credit]
<1>1. /\ IsFiniteSet({r}) /\ IsFiniteSet({q}) /\ {r, q} = {r} \cup {q}
      /\ IsFiniteSet({}) /\ {r} = {} \cup {r}
  BY FS_Singleton, FS_EmptySet
<1>2. f[r] = r.credit /\ f[q] = q.credit /\ \A x \in {r} \cup {q} : f[x] \in Int
  OBVIOUS
<1>3. Worth({r, q}) = Total(f, {r, q})
  <2>1. IsFiniteSet({r, q})
    BY <1>1, FS_Union, Zenon
  <2> QED
    BY <2>1, WorthIsTotal
<1> HIDE DEF f
<1>4. ASSUME NEW S, NEW a, IsFiniteSet(S), a \notin S, \A x \in S \cup {a} : f[x] \in Int
      PROVE  Total(f, S \cup {a}) = Total(f, S) + f[a]
  BY <1>4, TotalAdd
<1>5. Total(f, {r} \cup {q}) = Total(f, {r}) + f[q] /\ Total(f, {} \cup {r}) = Total(f, {}) + f[r]
  <2>1. q \notin {r} /\ r \notin {} /\ \A x \in {} \cup {r} : f[x] \in Int
    BY <1>2
  <2> QED
    BY <2>1, <1>1, <1>2, <1>4, Zenon
<1>6. Total(f, {r}) = Total(f, {}) + f[r] /\ Total(f, {r, q}) = Total(f, {r}) + f[q]
  BY <1>1, <1>5, Zenon
<1>7. Total(f, {}) = 0
  BY TotalEmpty
<1>8. Worth({r, q}) = 0 + f[r] + f[q]
  BY <1>3, <1>6, <1>7, Zenon
<1> QED
  BY <1>2, <1>8

\* A decision pays out and returns one reward.
LEMMA DecisionWorth ==
  ASSUME NEW st, NEW by
  PROVE  Worth(PaidFor(st, by)) = Credits
<1>1. ASSUME NEW kind, NEW n \in Nat PROVE Worth({Row(kind, by, n)}) = n
  <2>1. Row(kind, by, n).credit = n
    BY DEF Row
  <2> QED
    BY <2>1, OneRow
<1>2. Credits \in Nat /\ Half \in Nat /\ Half <= Credits
  BY HalfIsPart
<1>3. CASE st = "approved"
  <2>1. PaidFor(st, by) = {Row("payout", by, Credits)}
    BY <1>3 DEF PaidFor
  <2> QED
    BY <2>1, <1>1, <1>2
<1>4. CASE st = "partially_approved" /\ Half < Credits
  <2> DEFINE r == Row("payout", by, Half)
             q == Row("refund", by, Credits - Half)
  <2>1. PaidFor(st, by) = {r, q}
    BY <1>4 DEF PaidFor
  <2>2. r # q /\ r.credit = Half /\ q.credit = Credits - Half
    BY DEF Row
  <2> HIDE DEF r, q
  <2>3. r.credit \in Int /\ q.credit \in Int
    BY <2>2, <1>2
  <2>4. Worth({r, q}) = r.credit + q.credit
    BY <2>2, <2>3, TwoRows
  <2> QED
    BY <2>1, <2>2, <2>4, <1>2
<1>5. CASE st = "partially_approved" /\ ~(Half < Credits)
  <2>1. PaidFor(st, by) = {Row("payout", by, Half)} /\ Half = Credits
    BY <1>2, <1>5 DEF PaidFor
  <2> QED
    BY <2>1, <1>1, <1>2
<1>6. CASE st \notin {"approved", "partially_approved"}
  <2>1. PaidFor(st, by) = {Row("refund", by, Credits)}
    BY <1>6 DEF PaidFor
  <2> QED
    BY <2>1, <1>1, <1>2
<1> QED
  BY <1>3, <1>4, <1>5, <1>6

-----------------------------------------------------------------------------
(* What every situation says.                                               *)

\* OneOutcomeStands for one assignment.
Newest(events) ==
  (CHOOSE f \in events : \A g \in events : g.version <= f.version).outcome

Stands(st, c, rows, events) ==
  /\ Newest(events) = st
  /\ {r.credit : r \in Payouts(rows)} =
       CASE st = "approved"           -> {Credits}
         [] st = "partially_approved" -> {Half}
         [] OTHER                     -> {}
  /\ c.type # "fraud_review" => Worth(Standing(rows)) = Credits

LEMMA NewestEvent ==
  ASSUME NEW events, NEW e \in events, e.version \in Nat,
         \A g \in events : g # e => g.version \in Nat /\ g.version < e.version
  PROVE  Newest(events) = e.outcome
<1>1. \A g \in events : g.version <= e.version
  OBVIOUS
<1>2. \A f \in events : (\A g \in events : g.version <= f.version) => f = e
  OBVIOUS
<1> DEFINE top == CHOOSE f \in events : \A g \in events : g.version <= f.version
<1>3. top \in events /\ \A g \in events : g.version <= top.version
  BY <1>1
<1> QED
  BY <1>2, <1>3 DEF Newest

LEMMA StoryStands ==
  ASSUME NEW st \in Ended, NEW c, NEW rows, NEW events, Story(st, c, rows, events)
  PROVE  Stands(st, c, rows, events)
<1> DEFINE Right(paid) == {r.credit : r \in paid} =
             CASE st = "approved"           -> {Credits}
               [] st = "partially_approved" -> {Half}
               [] OTHER                     -> {}
<1>1. \A by : Right({q \in PaidFor(st, by) : q.kind = "payout"})
  BY PayoutCredits
<1>2. \A by : Payouts(PaidFor(st, by)) = {q \in PaidFor(st, by) : q.kind = "payout"}
  BY StandingReview DEF Payouts
<1>3. st \notin {"submitted", "rejected_pending_dispute", "disputed"}
  BY DEF Ended
<1>4. \A v, o : Event(v, o).version = v /\ Event(v, o).outcome = o
  BY DEF Event
<1>5. \A o : Newest({Event(0, o)}) = o
  <2> TAKE o
  <2>1. Newest({Event(0, o)}) = Event(0, o).outcome
    BY <1>4, NewestEvent
  <2> QED
    BY <2>1, <1>4
<1>6. CASE Reviewed(st, c, rows, events) \/ Judged(st, c, rows, events)
  <2>1. PICK by : rows = PaidFor(st, by)
    BY <1>6 DEF Reviewed, Judged
  <2>2. Standing(rows) = rows /\ Worth(rows) = Credits
    BY <2>1, StandingReview, DecisionWorth
  <2>3. Right(Payouts(rows))
    BY <2>1, <1>1, <1>2
  <2>4. Newest(events) = st
    BY <1>5, <1>6 DEF Reviewed, Judged
  <2> QED
    BY <2>2, <2>3, <2>4 DEF Stands
<1>7. CASE Rejudged(st, c, rows, events)
  <2>1. PICK first \in Ended :
          /\ rows = PaidFor(first, "v1") \cup PaidFor(st, "v2")
                      \cup Reversals(PaidFor(first, "v1"), "v2")
          /\ events = {Event(0, first), Event(2, st)}
    BY <1>7 DEF Rejudged
  <2>2. Standing(rows) = PaidFor(st, "v2")
    BY <2>1, StandingRejudged
  <2>3. Worth(Standing(rows)) = Credits
    BY <2>2, DecisionWorth
  <2>4. Right(Payouts(rows))
    BY <2>2, <1>1 DEF Payouts
  <2>5. Newest(events) = Event(2, st).outcome
    <3>1. Event(2, st) \in events
      BY <2>1
    <3>2. \A g \in events : g # Event(2, st) => g.version \in Nat /\ g.version < 2
      BY <2>1, <1>4
    <3> QED
      BY <3>1, <3>2, <1>4, NewestEvent
  <2> QED
    BY <2>3, <2>4, <2>5, <1>4 DEF Stands
<1>8. ASSUME NEW paid \in Paying, NEW more,
             \A r \in more : r.kind \in {"payout", "refund"} /\ r.by = "v2" /\ r.of = <<>>,
             rows = FraudRows(paid) \cup more,
             Right({r \in more : r.kind = "payout"})
      PROVE  Right(Payouts(rows))
  BY <1>8, StandingReconsidered
<1>9. CASE Confiscated(st, c, rows, events)
  <2>1. PICK paid \in Paying : /\ rows = FraudRows(paid)
                               /\ events = {Event(0, paid), Event(1, st)}
    BY <1>9 DEF Confiscated
  <2>2. rows = FraudRows(paid) \cup {} /\ st = "rejected"
    BY <2>1, <1>9 DEF Confiscated
  <2>3. Right({})
    BY <2>2
  <2>4. Right(Payouts(rows))
    BY <2>2, <2>3, <1>8
  <2>5. Newest(events) = Event(1, st).outcome
    <3>1. Event(1, st) \in events
      BY <2>1
    <3>2. \A g \in events : g # Event(1, st) => g.version \in Nat /\ g.version < 1
      BY <2>1, <1>4
    <3> QED
      BY <3>1, <3>2, <1>4, NewestEvent
  <2>6. c.type = "fraud_review"
    BY <1>9 DEF Confiscated, Decided
  <2> QED
    BY <2>4, <2>5, <2>6, <1>4 DEF Stands
<1>10. CASE Reconsidered(st, c, rows, events)
  <2>1. PICK paid \in Paying :
          /\ rows = FraudRows(paid) \cup PaidFor(st, "v2")
          /\ events = {Event(0, paid), Event(1, "rejected"), Event(2, st)}
    BY <1>10 DEF Reconsidered
  <2>2. Right(Payouts(rows))
    <3> DEFINE more == PaidFor(st, "v2")
    <3>1. \A r \in more : r.kind \in {"payout", "refund"} /\ r.by = "v2" /\ r.of = <<>>
      BY PaidRows
    <3>2. Right({r \in more : r.kind = "payout"})
      BY <1>1
    <3> HIDE DEF more, Right
    <3> QED
      BY <2>1, <3>1, <3>2, <1>8 DEF more
  <2>3. Newest(events) = Event(2, st).outcome
    <3>1. Event(2, st) \in events
      BY <2>1
    <3>2. \A g \in events : g # Event(2, st) => g.version \in Nat /\ g.version < 2
      BY <2>1, <1>4
    <3> QED
      BY <3>1, <3>2, <1>4, NewestEvent
  <2>4. c.type = "fraud_review"
    BY <1>10 DEF Reconsidered, Decided
  <2> QED
    BY <2>2, <2>3, <2>4, <1>4 DEF Stands
<1> QED
  BY <1>3, <1>6, <1>7, <1>9, <1>10 DEF Story, Undecided, InDispute

-----------------------------------------------------------------------------
(* Alerts and counts.                                                       *)

LEMMA CountIsNat ==
  ASSUME NEW rows, NEW left
  PROVE  /\ IsFiniteSet(Interactions(rows, left))
         /\ Cardinality(Interactions(rows, left)) \in Nat
<1>1. Interactions(rows, left) \subseteq Assignments
  BY DEF Interactions
<1> QED
  BY <1>1, FS_Subset, FS_CardinalityType, CasesAssumption

\* A count that only loses interactions does not grow.
LEMMA CountShrinks ==
  ASSUME NEW rows, NEW left, NEW more
  PROVE  Cardinality(Interactions(rows, left \cup more)) <= Cardinality(Interactions(rows, left))
<1>1. Interactions(rows, left \cup more) \subseteq Interactions(rows, left)
  BY DEF Interactions
<1> QED
  BY <1>1, CountIsNat, FS_Subset

LEMMA SequenceOfAlerts ==
  ASSUME alerts \in Seq(AlertRows), NEW f, DOMAIN f = DOMAIN alerts,
         f = [i \in DOMAIN f |-> f[i]], \A i \in DOMAIN alerts : f[i] \in AlertRows
  PROVE  f \in Seq(AlertRows) /\ Len(f) = Len(alerts) /\ (alerts # <<>> => f # <<>>)
<1>1. DOMAIN alerts = 1..Len(alerts) /\ Len(alerts) \in Nat
  OBVIOUS
<1>2. f \in [1..Len(alerts) -> AlertRows]
  BY <1>1
<1>3. f \in Seq(AlertRows) /\ Len(f) = Len(alerts)
  BY <1>1, <1>2, SeqDef
<1> QED
  BY <1>3

\* Counting again keeps the episodes, and a count over the threshold leaves one.
LEMMA RecomputedAlerts ==
  ASSUME alerts \in Seq(AlertRows), NEW n \in Nat
  PROVE  /\ Recomputed(n) \in Seq(AlertRows)
         /\ (Crossed(n) \/ alerts # <<>>) => Recomputed(n) # <<>>
<1>1. DOMAIN alerts = 1..Len(alerts) /\ Len(alerts) \in Nat
      /\ \A i \in DOMAIN alerts : alerts[i] \in AlertRows
  OBVIOUS
<1>2. CASE OpenAlerts # {}
  <2> DEFINE f == [i \in DOMAIN alerts |->
                     IF i \notin OpenAlerts THEN alerts[i]
                     ELSE IF Crossed(n) THEN [alerts[i] EXCEPT !.count = n]
                     ELSE [alerts[i] EXCEPT !.count = n, !.state = "closed",
                                            !.outcome = "rearmed"]]
  <2>1. Recomputed(n) = f
    BY <1>2 DEF Recomputed
  <2>2. \A i \in DOMAIN alerts : f[i] \in AlertRows
    <3> SUFFICES ASSUME NEW i \in DOMAIN alerts PROVE f[i] \in AlertRows
      OBVIOUS
    <3>1. alerts[i] \in AlertRows
      BY <1>1
    <3> QED
      BY <3>1 DEF AlertRows
  <2>3. DOMAIN f = DOMAIN alerts /\ f = [i \in DOMAIN f |-> f[i]]
    OBVIOUS
  <2>4. alerts # <<>>
    BY <1>2 DEF OpenAlerts
  <2> HIDE DEF f
  <2> QED
    BY <2>1, <2>2, <2>3, <2>4, SequenceOfAlerts
<1>3. CASE OpenAlerts = {}
  <2> DEFINE latest == Len(alerts)
             known == [i \in DOMAIN alerts |->
                         IF i = latest /\ alerts[i].outcome = "rearmed"
                         THEN [alerts[i] EXCEPT !.count = n] ELSE alerts[i]]
  <2>1. Recomputed(n) = IF Crossed(n) /\ (latest > 0 => ~Crossed(known[latest].count))
                        THEN Append(known, NewAlert(n)) ELSE known
    BY <1>3 DEF Recomputed
  <2>2. \A i \in DOMAIN alerts : known[i] \in AlertRows
    <3> SUFFICES ASSUME NEW i \in DOMAIN alerts PROVE known[i] \in AlertRows
      OBVIOUS
    <3>1. alerts[i] \in AlertRows
      BY <1>1
    <3> QED
      BY <3>1 DEF AlertRows
  <2>3. DOMAIN known = DOMAIN alerts /\ known = [i \in DOMAIN known |-> known[i]]
    OBVIOUS
  <2>4. NewAlert(n) \in AlertRows
    BY DEF NewAlert, AlertRows
  <2> HIDE DEF known
  <2>5. known \in Seq(AlertRows) /\ Len(known) = latest /\ (alerts # <<>> => known # <<>>)
    BY <2>2, <2>3, SequenceOfAlerts
  <2>6. Append(known, NewAlert(n)) \in Seq(AlertRows) /\ Append(known, NewAlert(n)) # <<>>
    BY <2>4, <2>5, AppendProperties
  <2>7. alerts = <<>> => latest = 0
    OBVIOUS
  <2>8. CASE alerts # <<>>
    BY <2>1, <2>5, <2>6, <2>8
  <2>9. CASE alerts = <<>>
    BY <2>1, <2>5, <2>6, <2>7, <2>9
  <2> QED
    BY <2>8, <2>9
<1> QED
  BY <1>2, <1>3

-----------------------------------------------------------------------------
(* What a decision does to the situation of its assignment.                 *)

Resolved(c, s) ==
  [c EXCEPT !.status = "resolved", !.revision = c.revision + 1, !.by = Append(c.by, s)]

LEMMA ResolvedRow ==
  ASSUME NEW c \in CaseRows, NEW s \in Staff
  PROVE  /\ Resolved(c, s) \in CaseRows
         /\ Resolved(c, s).type = c.type /\ Resolved(c, s).status = "resolved"
         /\ Resolved(c, s).revision = c.revision + 1
         /\ Resolved(c, s).by = Append(c.by, s)
         /\ Len(Resolved(c, s).by) = Len(c.by) + 1
         /\ Resolved(c, s).by[Len(c.by) + 1] = s
         /\ \A i \in 1..Len(c.by) : Resolved(c, s).by[i] = c.by[i]
<1>1. c.by \in Seq(Staff)
  BY DEF CaseRows
<1>2. /\ Append(c.by, s) \in Seq(Staff)
      /\ Len(Append(c.by, s)) = Len(c.by) + 1
      /\ Append(c.by, s)[Len(c.by) + 1] = s
      /\ \A i \in 1..Len(c.by) : Append(c.by, s)[i] = c.by[i]
  BY <1>1, AppendProperties
<1>3. /\ Resolved(c, s).type = c.type /\ Resolved(c, s).status = "resolved"
      /\ Resolved(c, s).revision = c.revision + 1
      /\ Resolved(c, s).by = Append(c.by, s)
  BY DEF Resolved, CaseRows
<1>4. Resolved(c, s) \in CaseRows
  <2>1. ASSUME NEW n \in Nat, NEW b \in Seq(Staff)
        PROVE  [c EXCEPT !.status = "resolved", !.revision = n, !.by = b] \in CaseRows
    <3> DEFINE Lists == Seq(Staff)
    <3>1. c \in [type : {"none", "dispute", "fraud_review"},
                 status : {"none", "open", "resolved", "appealed"}, revision : Nat, by : Lists]
      BY DEF CaseRows
    <3> HIDE DEF Lists
    <3>2. b \in Lists
      BY DEF Lists
    <3> QED
      BY <3>1, <3>2 DEF CaseRows, Lists
  <2>2. c.revision + 1 \in Nat
    BY DEF CaseRows
  <2> QED
    BY <1>2, <2>1, <2>2 DEF Resolved
<1> QED
  BY <1>2, <1>3, <1>4

LEMMA VersionMeans ==
  ASSUME NEW c
  PROVE  /\ Version(c) = 1 <=> c.status = "open"
         /\ Version(c) = 2 <=> c.status = "appealed"
         /\ Version(c) # 0 => Version(c) \in {1, 2}
BY DEF Version

LEMMA OpenedRow ==
  ASSUME NEW type
  PROVE  /\ Opened(type).type = type /\ Opened(type).status = "open"
         /\ Opened(type).revision = 0 /\ Opened(type).by = <<>>
BY DEF Opened, NoCase

\* A case that awaits its first decision had none, one that awaits a second had one.
LEMMA AwaitedStory ==
  ASSUME NEW st, NEW c \in CaseRows, NEW rows, NEW events, Story(st, c, rows, events),
         Version(c) # 0
  PROVE  IF Version(c) = 1
         THEN /\ c.by = <<>> /\ Len(c.by) = 0
              /\ \/ InDispute(st, c, rows, events)
                 \/ Reviewed(st, c, rows, events) /\ c.type = "fraud_review"
         ELSE /\ Version(c) = 2 /\ Len(c.by) = 1
              /\ \/ Confiscated(st, c, rows, events)
                 \/ Judged(st, c, rows, events)
<1>1. NoCase.status = "none"
  BY DEF NoCase
<1>2. c.status \in {"open", "appealed"}
  BY VersionMeans
<1>3. ~Undecided(st, c, rows, events) /\ ~Reconsidered(st, c, rows, events)
      /\ ~Rejudged(st, c, rows, events)
  BY <1>1, <1>2 DEF Undecided, Reconsidered, Rejudged, Decided
<1>4. CASE InDispute(st, c, rows, events)
  BY <1>4, OpenedRow, VersionMeans DEF InDispute
<1>5. CASE Reviewed(st, c, rows, events)
  <2>1. c = Opened("fraud_review")
    BY <1>1, <1>2, <1>5 DEF Reviewed
  <2> QED
    BY <1>5, <2>1, OpenedRow, VersionMeans
<1>6. CASE Confiscated(st, c, rows, events)
  BY <1>2, <1>6, VersionMeans DEF Confiscated, Decided
<1>7. CASE Judged(st, c, rows, events)
  BY <1>2, <1>7, VersionMeans DEF Judged, Decided
<1> QED
  BY <1>3, <1>4, <1>5, <1>6, <1>7 DEF Story

LEMMA DecisionStory ==
  ASSUME NEW a \in Assignments, NEW s \in Staff, NEW code \in Codes,
         case[a] \in CaseRows,
         Story(status[a], case[a], entries[a], reliability[a]),
         MayResolve(s, case[a], code),
         NEW version, version = Version(case[a])
  PROVE  Story(StatusOf(code), Resolved(case[a], s),
               entries[a] \cup ResolutionRows(a, case[a].type, code, version),
               reliability[a] \cup
                 {[version |-> IF version = 1 /\ case[a].type = "dispute" THEN 0 ELSE version,
                   outcome |-> StatusOf(code)]})
<1> DEFINE c == case[a]
           after == StatusOf(code)
           next == Resolved(c, s)
           rows == entries[a] \cup ResolutionRows(a, c.type, code, version)
           event == [version |-> IF version = 1 /\ c.type = "dispute" THEN 0 ELSE version,
                     outcome |-> after]
           events == reliability[a] \cup {event}
<1>1. after \in Ended
  BY CodesDecide
<1>2. next.type = c.type /\ next.status = "resolved" /\ Len(next.by) = Len(c.by) + 1
  BY ResolvedRow
<1>3. version # 0 /\ (c.type = "fraud_review" /\ version = 1 => code = "fraud")
  BY DEF MayResolve
<1>4. IF version = 1
      THEN /\ Len(c.by) = 0
           /\ \/ InDispute(status[a], c, entries[a], reliability[a])
              \/ Reviewed(status[a], c, entries[a], reliability[a]) /\ c.type = "fraud_review"
      ELSE /\ version = 2 /\ Len(c.by) = 1
           /\ \/ Confiscated(status[a], c, entries[a], reliability[a])
              \/ Judged(status[a], c, entries[a], reliability[a])
  BY <1>3, AwaitedStory
<1>5. CASE version = 1 /\ InDispute(status[a], c, entries[a], reliability[a])
  <2>1. c.type = "dispute" /\ entries[a] = {} /\ reliability[a] = {}
    BY <1>5, OpenedRow DEF InDispute
  <2>2. AppealedRows(a, version) = {}
    BY <1>5 DEF AppealedRows
  <2>3. rows = PaidFor(after, "v1")
    BY <1>5, <2>1, <2>2, NothingReversed DEF ResolutionRows
  <2>4. events = {Event(0, after)}
    BY <1>5, <2>1 DEF Event
  <2>5. Decided(next, "dispute", {"resolved", "appealed"}, 1)
    BY <1>2, <1>4, <1>5, <2>1 DEF Decided
  <2> HIDE DEF rows, events, next, after
  <2> QED
    BY <1>1, <2>3, <2>4, <2>5 DEF Judged, Story, rows, events, event, next, after, c
<1>6. CASE version = 1 /\ Reviewed(status[a], c, entries[a], reliability[a])
           /\ c.type = "fraud_review"
  <2>1. /\ status[a] \in Paying /\ entries[a] = PaidFor(status[a], "review")
        /\ reliability[a] = {Event(0, status[a])}
    BY <1>6 DEF Reviewed
  <2>2. rows = FraudRows(status[a])
    BY <1>6, <2>1 DEF ResolutionRows, FraudRows
  <2>3. after = "rejected"
    BY <1>3, <1>6, FraudRejects
  <2>4. events = {Event(0, status[a]), Event(1, after)}
    BY <1>6, <2>1 DEF Event
  <2>5. Decided(next, "fraud_review", {"resolved", "appealed"}, 1)
    BY <1>2, <1>4, <1>6 DEF Decided
  <2> HIDE DEF rows, events, next, after
  <2> QED
    BY <2>1, <2>2, <2>3, <2>4, <2>5 DEF Confiscated, Story, rows, events, event, next, after, c
<1>7. CASE version = 2 /\ Confiscated(status[a], c, entries[a], reliability[a])
  <2>1. PICK paid \in Paying : /\ entries[a] = FraudRows(paid)
                               /\ reliability[a] = {Event(0, paid), Event(1, status[a])}
    BY <1>7 DEF Confiscated
  <2>2. c.type = "fraud_review" /\ status[a] = "rejected"
    BY <1>7 DEF Confiscated, Decided
  <2>3. AppealedRows(a, version) = {}
    <3>1. \A r \in PaidFor(paid, "review") : r.by # "v1"
      BY PaidRows
    <3>2. \A r \in entries[a] : r.by = "v1" => r.kind = "reversal"
      BY <3>1, <2>1, ReversalRows DEF FraudRows
    <3> QED
      BY <3>2 DEF AppealedRows
  <2>4. rows = FraudRows(paid) \cup PaidFor(after, "v2")
    BY <1>7, <2>1, <2>3, NothingReversed DEF ResolutionRows
  <2>5. events = {Event(0, paid), Event(1, "rejected"), Event(2, after)}
    BY <1>7, <2>1, <2>2 DEF Event
  <2>6. Decided(next, "fraud_review", {"resolved"}, 2)
    <3>1. Len(c.by) = 1
      BY <1>4, <1>7
    <3>2. Len(next.by) = 2
      BY <1>2, <3>1
    <3> QED
      BY <1>2, <2>2, <3>2 DEF Decided
  <2> HIDE DEF rows, events, next, after
  <2> QED
    BY <1>1, <2>4, <2>5, <2>6 DEF Reconsidered, Story, rows, events, event, next, after, c
<1>8. CASE version = 2 /\ Judged(status[a], c, entries[a], reliability[a])
  <2>1. /\ status[a] \in Ended /\ entries[a] = PaidFor(status[a], "v1")
        /\ reliability[a] = {Event(0, status[a])} /\ c.type = "dispute"
    BY <1>8 DEF Judged, Decided
  <2>2. AppealedRows(a, version) = PaidFor(status[a], "v1")
    <3>1. \A r \in entries[a] : r.by = "v1" /\ r.kind # "reversal"
      BY <2>1, PaidRows
    <3> QED
      BY <1>8, <2>1, <3>1 DEF AppealedRows
  <2>3. rows = PaidFor(status[a], "v1") \cup PaidFor(after, "v2")
                 \cup Reversals(PaidFor(status[a], "v1"), "v2")
    BY <1>8, <2>1, <2>2 DEF ResolutionRows
  <2>4. events = {Event(0, status[a]), Event(2, after)}
    BY <1>8, <2>1 DEF Event
  <2>5. Decided(next, "dispute", {"resolved"}, 2)
    <3>1. Len(c.by) = 1
      BY <1>4, <1>8
    <3>2. Len(next.by) = 2
      BY <1>2, <3>1
    <3> QED
      BY <1>2, <2>1, <3>2 DEF Decided
  <2> HIDE DEF rows, events, next, after
  <2> QED
    BY <1>1, <2>1, <2>3, <2>4, <2>5 DEF Rejudged, Story, rows, events, event, next, after, c
<1> QED
  BY <1>4, <1>5, <1>6, <1>7, <1>8

-----------------------------------------------------------------------------
(* Steps: which rows they change.                                           *)

\* A decision of s on a, with the columns it writes spelled out.
Decision(s, a, code) ==
  /\ a \in Assignments /\ s \in Staff /\ code \in Codes
  /\ counting = {} /\ MayResolve(s, case[a], code)
  /\ \E version, n :
       /\ version = Version(case[a]) /\ n \in Nat
       /\ entries' = [entries EXCEPT ![a] =
                        entries[a] \cup ResolutionRows(a, case[a].type, code, version)]
       /\ reliability' = [reliability EXCEPT ![a] = reliability[a] \cup
            {[version |-> IF version = 1 /\ case[a].type = "dispute" THEN 0 ELSE version,
              outcome |-> StatusOf(code)]}]
       /\ alerts' = Recomputed(n)
       /\ n = Cardinality(Interactions(entries', old'))
  /\ status' = [status EXCEPT ![a] = StatusOf(code)]
  /\ case' = [case EXCEPT ![a] = Resolved(case[a], s)]
  /\ UNCHANGED <<counting, review>>

LEMMA ResolveCaseDecides ==
  ASSUME RowsOK, NEW s \in Staff, NEW a \in Assignments, NEW seen, NEW code \in Codes,
         ResolveCase(s, a, seen, code)
  PROVE  Decision(s, a, code) /\ case[a].revision = seen.revision
<1> DEFINE version == Version(case[a])
           rows == [entries EXCEPT ![a] =
                      entries[a] \cup ResolutionRows(a, case[a].type, code, version)]
           n == Cardinality(Interactions(entries', old'))
<1>1. /\ counting = {} /\ MayResolve(s, case[a], code) /\ case[a].revision = seen.revision
      /\ entries' = rows
      /\ status' = [status EXCEPT ![a] = StatusOf(code)]
      /\ UNCHANGED <<counting, review>>
  BY DEF ResolveCase, PairGateFree, RevisionIsCurrent
<1>2. reliability' = [reliability EXCEPT ![a] = reliability[a] \cup
            {[version |-> IF version = 1 /\ case[a].type = "dispute" THEN 0 ELSE version,
              outcome |-> StatusOf(code)]}]
  BY DEF ResolveCase
<1>3. alerts' = Recomputed(n)
  BY DEF ResolveCase
<1>4. case' = [case EXCEPT ![a] = Resolved(case[a], s)]
  BY DEF ResolveCase, RowsOK, Resolved
<1>5. n \in Nat
  BY CountIsNat
<1> HIDE DEF version, rows, n
<1> QED
  BY <1>1, <1>2, <1>3, <1>4, <1>5 DEF Decision, version, rows, n

\* Nobody's situation changes but for the one named.
LEMMA OneStory ==
  ASSUME StoriesHold, NEW a \in Assignments,
         \A b \in Assignments : b # a =>
           /\ status'[b] = status[b] /\ case'[b] = case[b]
           /\ entries'[b] = entries[b] /\ reliability'[b] = reliability[b],
         Story(status'[a], case'[a], entries'[a], reliability'[a])
  PROVE  StoriesHold'
<1> SUFFICES ASSUME NEW b \in Assignments
             PROVE  Story(status'[b], case'[b], entries'[b], reliability'[b])
  BY DEF StoriesHold
<1>1. CASE b = a
  BY <1>1
<1>2. CASE b # a
  BY <1>2 DEF StoriesHold
<1> QED
  BY <1>1, <1>2

LEMMA DecisionKeeps ==
  ASSUME RowsOK, StoriesHold, NEW s \in Staff, NEW a \in Assignments, NEW code \in Codes,
         Decision(s, a, code)
  PROVE  /\ StoriesHold'
         /\ status' \in [Assignments -> AssignmentStatuses]
         /\ entries' = [b \in Assignments |-> entries'[b]]
         /\ reliability' = [b \in Assignments |-> reliability'[b]]
         /\ case' \in [Assignments -> CaseRows]
         /\ alerts' \in Seq(AlertRows) /\ CrossingIsAlerted'
         /\ case'[a] = Resolved(case[a], s) /\ \A b \in Assignments : b # a => case'[b] = case[b]
<1>1. PICK version, n :
        /\ version = Version(case[a]) /\ n \in Nat
        /\ entries' = [entries EXCEPT ![a] =
                        entries[a] \cup ResolutionRows(a, case[a].type, code, version)]
        /\ reliability' = [reliability EXCEPT ![a] = reliability[a] \cup
            {[version |-> IF version = 1 /\ case[a].type = "dispute" THEN 0 ELSE version,
              outcome |-> StatusOf(code)]}]
        /\ alerts' = Recomputed(n)
        /\ n = Cardinality(Interactions(entries', old'))
  BY DEF Decision
<1> DEFINE rows == entries[a] \cup ResolutionRows(a, case[a].type, code, version)
           events == reliability[a] \cup
             {[version |-> IF version = 1 /\ case[a].type = "dispute" THEN 0 ELSE version,
               outcome |-> StatusOf(code)]}
<1>2. /\ status' = [status EXCEPT ![a] = StatusOf(code)]
      /\ case' = [case EXCEPT ![a] = Resolved(case[a], s)]
      /\ MayResolve(s, case[a], code)
  BY DEF Decision
<1>3. entries' = [entries EXCEPT ![a] = rows] /\ reliability' = [reliability EXCEPT ![a] = events]
  BY <1>1
<1>4. case[a] \in CaseRows /\ Story(status[a], case[a], entries[a], reliability[a])
  BY DEF RowsOK, StoriesHold
<1>5. Story(StatusOf(code), Resolved(case[a], s), rows, events)
  BY <1>1, <1>2, <1>4, DecisionStory
<1> HIDE DEF rows, events
<1>6. Resolved(case[a], s) \in CaseRows /\ StatusOf(code) \in AssignmentStatuses
  BY <1>4, ResolvedRow, CodesDecide DEF Ended, AssignmentStatuses
<1>7. /\ status'[a] = StatusOf(code) /\ case'[a] = Resolved(case[a], s)
      /\ entries'[a] = rows /\ reliability'[a] = events
  BY <1>2, <1>3 DEF RowsOK
<1>8. \A b \in Assignments : b # a =>
        /\ status'[b] = status[b] /\ case'[b] = case[b]
        /\ entries'[b] = entries[b] /\ reliability'[b] = reliability[b]
  BY <1>2, <1>3 DEF RowsOK
<1>9. StoriesHold'
  BY <1>5, <1>7, <1>8, OneStory
<1>10. /\ status' \in [Assignments -> AssignmentStatuses]
       /\ case' \in [Assignments -> CaseRows]
  BY <1>2, <1>6 DEF RowsOK
<1>11. entries' = [b \in Assignments |-> entries'[b]]
  BY <1>3 DEF RowsOK
<1>12. reliability' = [b \in Assignments |-> reliability'[b]]
  BY <1>3 DEF RowsOK
<1>13. alerts' \in Seq(AlertRows) /\ (Crossed(n) => alerts' # <<>>)
  BY <1>1, RecomputedAlerts DEF RowsOK
<1>14. CrossingIsAlerted'
  BY <1>1, <1>13 DEF CrossingIsAlerted, Crossed
<1> QED
  BY <1>7, <1>8, <1>9, <1>10, <1>11, <1>12, <1>13, <1>14

-----------------------------------------------------------------------------
(* What was shown stays old.                                                *)

\* A case is new, or unchanged, or at the next revision.
Ages(now, next) ==
  now = NoCase \/ next = now \/ next.revision = now.revision + 1

LEMMA AgesStory ==
  ASSUME NEW c, NEW now \in CaseRows, NEW next \in CaseRows,
         ReadBefore(c, now), Ages(now, next)
  PROVE  ReadBefore(c, next)
<1>1. now # NoCase
  <2> SUFFICES ASSUME now = NoCase PROVE FALSE
    OBVIOUS
  <2>1. now.revision = 0 /\ now.status = "none"
    BY DEF NoCase
  <2>2. c.revision \in Nat /\ c.revision <= 0
    BY <2>1 DEF ReadBefore, CaseRows
  <2>3. c.revision = now.revision
    BY <2>1, <2>2
  <2> QED
    BY <2>1, <2>3 DEF ReadBefore
<1>2. now.revision \in Nat /\ c.revision \in Nat
  BY DEF CaseRows, ReadBefore
<1> QED
  BY <1>1, <1>2 DEF Ages, ReadBefore

\* Views that stay stay old when cases only age.
LEMMA ViewsKept ==
  ASSUME RowsOK, ViewsAreOld, case' \in [Assignments -> CaseRows],
         \A a \in Assignments : Ages(case[a], case'[a]),
         screen' = screen, draft' = draft
  PROVE  ViewsAreOld'
<1>1. \A a \in Assignments : \A c : ReadBefore(c, case[a]) => ReadBefore(c, case'[a])
  BY AgesStory DEF RowsOK
<1> QED
  BY <1>1 DEF ViewsAreOld

-----------------------------------------------------------------------------
(* Every step keeps the invariant.                                          *)

LEMMA StatusTells ==
  ASSUME NEW st, NEW c, NEW rows, NEW events, Story(st, c, rows, events)
  PROVE  /\ st \in {"submitted", "rejected_pending_dispute"} => Undecided(st, c, rows, events)
         /\ st \in Paying /\ c = NoCase => Reviewed(st, c, rows, events)
<1>1. NoCase.type = "none"
  BY DEF NoCase
<1>2. CASE st \in {"submitted", "rejected_pending_dispute"}
  BY <1>2 DEF Story, InDispute, Reviewed, Confiscated, Reconsidered, Judged, Rejudged,
              Ended, Paying
<1>3. CASE st \in Paying /\ c = NoCase
  BY <1>1, <1>3 DEF Story, Undecided, InDispute, Confiscated, Reconsidered, Judged, Rejudged,
                    Decided, Paying
<1> QED
  BY <1>2, <1>3 DEF Paying

\* The rest of the invariant, when nothing of it changes.
LEMMA NothingMoves ==
  ASSUME CasesInv, UNCHANGED <<money, case, counting, alerts>>
  PROVE  /\ StoriesHold' /\ OneCounts' /\ (\A p \in counting' : CountHolds(p)')
         /\ CrossingIsAlerted'
         /\ \A a \in Assignments : Ages(case[a], case'[a])
         /\ case' \in [Assignments -> CaseRows]
<1>1. /\ status' = status /\ entries' = entries /\ reliability' = reliability /\ old' = old
      /\ case' = case /\ counting' = counting /\ alerts' = alerts
  BY DEF money
<1>2. StoriesHold' /\ OneCounts' /\ CrossingIsAlerted'
  BY <1>1 DEF CasesInv, StoriesHold, OneCounts, CrossingIsAlerted, Interactions, Payouts,
              Standing, Crossed
<1>3. \A p \in counting' : CountHolds(p)'
  BY <1>1 DEF CasesInv, CountHolds, WithPayout, Interactions, Payouts, Standing
<1> QED
  BY <1>1, <1>2, <1>3 DEF Ages, CasesInv, RowsOK

LEMMA BeginPayoutStep ==
  ASSUME CasesInv, NEW a \in Assignments, NEW after \in Paying, BeginPayout(a, after)
  PROVE  CasesInv'
<1> DEFINE rows == [entries EXCEPT ![a] = PaidFor(after, "review")]
<1>1. PICK n : n = Cardinality(Interactions(rows, old))
  OBVIOUS
<1>2. PICK p : p = [a |-> a, status |-> after, count |-> n]
  OBVIOUS
<1>3. /\ status[a] = "submitted" /\ counting' = {p}
      /\ UNCHANGED <<money, case, draft, screen, alerts, review>>
  BY <1>1, <1>2 DEF BeginPayout, PairGateFree
<1>4. /\ status' = status /\ entries' = entries /\ reliability' = reliability /\ old' = old
      /\ case' = case /\ alerts' = alerts /\ draft' = draft /\ screen' = screen /\ review' = review
  BY <1>3 DEF money
<1>5. RowsOK' /\ StoriesHold' /\ ViewsAreOld' /\ CrossingIsAlerted'
  BY <1>4 DEF CasesInv, RowsOK, StoriesHold, ViewsAreOld, CrossingIsAlerted, Interactions,
              Payouts, Standing, Crossed
<1>6. CountHolds(p)'
  <2>1. p.a = a /\ p.status = after /\ p.count = n
    BY <1>2
  <2>2. WithPayout(p)' = rows
    BY <1>4, <2>1 DEF WithPayout
  <2>3. Interactions(WithPayout(p), old)' = Interactions(rows, old)
    BY <1>4, <2>2 DEF Interactions, Payouts, Standing
  <2>4. n \in Nat /\ n <= n
    BY <1>1, CountIsNat
  <2> HIDE DEF rows
  <2> QED
    BY <1>1, <1>3, <1>4, <2>1, <2>3, <2>4 DEF CountHolds
<1>7. OneCounts' /\ \A q \in counting' : CountHolds(q)'
  BY <1>3, <1>6 DEF OneCounts
<1> QED
  BY <1>5, <1>7 DEF CasesInv

LEMMA CommitPayoutStep ==
  ASSUME CasesInv, NEW p \in counting, CommitPayout(p)
  PROVE  CasesInv'
<1>1. /\ counting' = {}
      /\ status' = [status EXCEPT ![p.a] = p.status]
      /\ entries' = WithPayout(p)
      /\ reliability' = [reliability EXCEPT ![p.a] = {Event(0, p.status)}]
      /\ alerts' = Recomputed(p.count)
      /\ old' = old /\ case' = case /\ draft' = draft /\ screen' = screen /\ review' = review
  BY DEF CommitPayout, CasesInv, OneCounts, WithPayout, Event
<1>2. CountHolds(p) /\ p.a \in Assignments /\ p.status \in Paying /\ p.count \in Nat
  BY DEF CasesInv, CountHolds
<1>3. /\ status'[p.a] = p.status /\ entries'[p.a] = PaidFor(p.status, "review")
      /\ reliability'[p.a] = {Event(0, p.status)}
      /\ \A b \in Assignments : b # p.a =>
           /\ status'[b] = status[b] /\ entries'[b] = entries[b]
           /\ reliability'[b] = reliability[b]
  BY <1>1, <1>2 DEF CasesInv, RowsOK, WithPayout
<1>4. Undecided(status[p.a], case[p.a], entries[p.a], reliability[p.a])
  BY <1>2, StatusTells DEF CasesInv, StoriesHold, CountHolds
<1>5. Reviewed(status'[p.a], case'[p.a], entries'[p.a], reliability'[p.a])
  BY <1>1, <1>2, <1>3, <1>4 DEF Reviewed, Undecided
<1>6. StoriesHold'
  BY <1>1, <1>2, <1>3, <1>5, OneStory DEF CasesInv, Story
<1>7. RowsOK'
  <2>1. p.status \in AssignmentStatuses
    BY <1>2 DEF Paying, AssignmentStatuses
  <2>2. status' \in [Assignments -> AssignmentStatuses]
    BY <1>1, <2>1 DEF CasesInv, RowsOK
  <2>3. entries' = [a \in Assignments |-> entries'[a]]
        /\ reliability' = [a \in Assignments |-> reliability'[a]]
    BY <1>1 DEF CasesInv, RowsOK, WithPayout
  <2>4. alerts' \in Seq(AlertRows)
    BY <1>1, <1>2, RecomputedAlerts DEF CasesInv, RowsOK
  <2> QED
    BY <1>1, <2>2, <2>3, <2>4 DEF CasesInv, RowsOK
<1>8. ViewsAreOld'
  BY <1>1 DEF CasesInv, ViewsAreOld
<1>9. CrossingIsAlerted'
  <2>1. Cardinality(Interactions(WithPayout(p), old)) <= p.count
    BY <1>2 DEF CountHolds
  <2>2. Cardinality(Interactions(WithPayout(p), old)) \in Nat
    BY CountIsNat
  <2>3. Interactions(entries, old)' = Interactions(WithPayout(p), old)
    BY <1>1 DEF Interactions, Payouts, Standing
  <2>4. Crossed(p.count) => alerts' # <<>>
    BY <1>1, <1>2, RecomputedAlerts DEF CasesInv, RowsOK
  <2> QED
    BY <1>2, <2>1, <2>2, <2>3, <2>4, CasesAssumption DEF CrossingIsAlerted, Crossed
<1> QED
  BY <1>1, <1>6, <1>7, <1>8, <1>9 DEF CasesInv, OneCounts

LEMMA LeaveWindowStep ==
  ASSUME CasesInv, NEW a \in Assignments, LeaveWindow(a)
  PROVE  CasesInv'
<1>1. /\ old' = old \cup {a} /\ status' = status /\ entries' = entries
      /\ reliability' = reliability /\ case' = case /\ draft' = draft /\ screen' = screen
      /\ counting' = counting /\ alerts' = alerts /\ review' = review
  BY DEF LeaveWindow
<1>2. RowsOK' /\ StoriesHold' /\ ViewsAreOld' /\ OneCounts'
  BY <1>1 DEF CasesInv, RowsOK, StoriesHold, ViewsAreOld, OneCounts
<1>3. ASSUME NEW p \in counting PROVE CountHolds(p)'
  <2>1. CountHolds(p) /\ p.count \in Nat
    BY DEF CasesInv, CountHolds
  <2>2. Interactions(WithPayout(p), old)' = Interactions(WithPayout(p), old \cup {a})
    BY <1>1 DEF WithPayout, Interactions, Payouts, Standing
  <2>3. Cardinality(Interactions(WithPayout(p), old \cup {a}))
          <= Cardinality(Interactions(WithPayout(p), old))
    BY CountShrinks
  <2>4. /\ Cardinality(Interactions(WithPayout(p), old \cup {a})) \in Nat
        /\ Cardinality(Interactions(WithPayout(p), old)) \in Nat
    BY CountIsNat
  <2> QED
    BY <1>1, <2>1, <2>2, <2>3, <2>4 DEF CountHolds
<1>4. CrossingIsAlerted'
  <2>1. Interactions(entries, old)' = Interactions(entries, old \cup {a})
    BY <1>1 DEF Interactions, Payouts, Standing
  <2>2. Cardinality(Interactions(entries, old \cup {a})) <= Cardinality(Interactions(entries, old))
    BY CountShrinks
  <2>3. /\ Cardinality(Interactions(entries, old \cup {a})) \in Nat
        /\ Cardinality(Interactions(entries, old)) \in Nat
    BY CountIsNat
  <2> QED
    BY <1>1, <2>1, <2>2, <2>3, CasesAssumption DEF CasesInv, CrossingIsAlerted, Crossed
<1> QED
  BY <1>1, <1>2, <1>3, <1>4 DEF CasesInv

\* A command that changes status and case of one assignment and no money.
LEMMA CaseStep ==
  ASSUME CasesInv, NEW a \in Assignments, NEW st \in AssignmentStatuses, NEW c \in CaseRows,
         status' = [status EXCEPT ![a] = st], case' = [case EXCEPT ![a] = c],
         Story(st, c, entries[a], reliability[a]), Ages(case[a], c),
         \A p \in counting : p.a # a \/ st = "submitted",
         UNCHANGED <<entries, reliability, old, draft, screen, counting, alerts, review>>
  PROVE  CasesInv'
<1>1. /\ entries' = entries /\ reliability' = reliability /\ old' = old /\ draft' = draft
      /\ screen' = screen /\ counting' = counting /\ alerts' = alerts /\ review' = review
  OBVIOUS
<1>2. /\ status'[a] = st /\ case'[a] = c
      /\ \A b \in Assignments : b # a => status'[b] = status[b] /\ case'[b] = case[b]
      /\ status' \in [Assignments -> AssignmentStatuses] /\ case' \in [Assignments -> CaseRows]
  BY DEF CasesInv, RowsOK
<1>3. StoriesHold'
  BY <1>1, <1>2, OneStory DEF CasesInv
<1>4. RowsOK'
  BY <1>1, <1>2 DEF CasesInv, RowsOK
<1>5. \A b \in Assignments : Ages(case[b], case'[b])
  BY <1>2 DEF Ages
<1>6. ViewsAreOld'
  BY <1>1, <1>2, <1>5, ViewsKept DEF CasesInv
<1>7. ASSUME NEW p \in counting PROVE CountHolds(p)'
  <2>1. CountHolds(p)
    BY DEF CasesInv
  <2>2. Interactions(WithPayout(p), old)' = Interactions(WithPayout(p), old)
    BY <1>1 DEF WithPayout, Interactions, Payouts, Standing
  <2> QED
    BY <1>2, <2>1, <2>2 DEF CountHolds
<1>8. OneCounts' /\ CrossingIsAlerted'
  BY <1>1 DEF CasesInv, OneCounts, CrossingIsAlerted, Interactions, Payouts, Standing, Crossed
<1> QED
  BY <1>1, <1>3, <1>4, <1>6, <1>7, <1>8 DEF CasesInv

LEMMA ConfirmedDraft ==
  ASSUME NEW d \in DraftRows
  PROVE  /\ [d EXCEPT !.confirmed = TRUE] \in DraftRows
         /\ [d EXCEPT !.confirmed = TRUE].a = d.a
         /\ [d EXCEPT !.confirmed = TRUE].case = d.case
         /\ [d EXCEPT !.confirmed = TRUE].code = d.code
BY DEF DraftRows

\* A decision, with what it leaves on the screens.
LEMMA DecisionStep ==
  ASSUME CasesInv, NEW s \in Staff, NEW a \in Assignments, NEW code \in Codes,
         Decision(s, a, code),
         \/ screen' = [screen EXCEPT ![s] = NoView] /\ draft' = draft
         \/ screen' = screen /\ draft[s] # NoDraft
              /\ draft' = [draft EXCEPT ![s].confirmed = TRUE]
  PROVE  CasesInv'
<1>1. /\ StoriesHold'
      /\ status' \in [Assignments -> AssignmentStatuses]
      /\ entries' = [b \in Assignments |-> entries'[b]]
      /\ reliability' = [b \in Assignments |-> reliability'[b]]
      /\ case' \in [Assignments -> CaseRows]
      /\ alerts' \in Seq(AlertRows) /\ CrossingIsAlerted'
      /\ case'[a] = Resolved(case[a], s) /\ \A b \in Assignments : b # a => case'[b] = case[b]
  BY DecisionKeeps DEF CasesInv
<1>2. counting = {} /\ counting' = {} /\ review' = review
  BY DEF Decision
<1>3. \A b \in Assignments : Ages(case[b], case'[b])
  <2>1. case'[a].revision = case[a].revision + 1
    BY <1>1, ResolvedRow DEF CasesInv, RowsOK
  <2> QED
    BY <1>1, <2>1 DEF Ages
<1>4. \A b \in Assignments : \A c : ReadBefore(c, case[b]) => ReadBefore(c, case'[b])
  BY <1>1, <1>3, AgesStory DEF CasesInv, RowsOK
<1>5. /\ draft' = [x \in Staff |-> draft'[x]] /\ screen' = [x \in Staff |-> screen'[x]]
  BY DEF CasesInv, RowsOK
<1>6. \A x \in Staff : screen'[x] # NoView =>
        screen'[x].a \in Assignments /\ ReadBefore(screen'[x].case, case'[screen'[x].a])
  <2> SUFFICES ASSUME NEW x \in Staff, screen'[x] # NoView
               PROVE  screen'[x].a \in Assignments
                        /\ ReadBefore(screen'[x].case, case'[screen'[x].a])
    OBVIOUS
  <2>1. screen'[x] = screen[x]
    BY DEF CasesInv, RowsOK
  <2> QED
    BY <1>4, <2>1 DEF CasesInv, ViewsAreOld
<1>7. ASSUME NEW x \in Staff, draft'[x] # NoDraft
      PROVE  /\ draft'[x].a \in Assignments /\ ReadBefore(draft'[x].case, case'[draft'[x].a])
             /\ draft'[x].code \in Codes /\ draft'[x] \in DraftRows
  <2>1. CASE draft'[x] = draft[x]
    BY <1>4, <1>7, <2>1 DEF CasesInv, ViewsAreOld
  <2>2. CASE draft'[x] # draft[x]
    <3>1. x = s /\ draft[s] # NoDraft /\ draft'[s] = [draft[s] EXCEPT !.confirmed = TRUE]
      BY <2>2 DEF CasesInv, RowsOK
    <3>2. /\ draft[s].a \in Assignments /\ ReadBefore(draft[s].case, case[draft[s].a])
          /\ draft[s].code \in Codes /\ draft[s] \in DraftRows
      BY <3>1 DEF CasesInv, ViewsAreOld
    <3>3. /\ draft'[s].a = draft[s].a /\ draft'[s].case = draft[s].case
          /\ draft'[s].code = draft[s].code /\ draft'[s] \in DraftRows
      BY <3>1, <3>2, ConfirmedDraft
    <3> QED
      BY <1>4, <3>1, <3>2, <3>3
  <2> QED
    BY <2>1, <2>2
<1>8. ViewsAreOld'
  BY <1>6, <1>7 DEF ViewsAreOld
<1>9. RowsOK'
  BY <1>1, <1>2, <1>5 DEF CasesInv, RowsOK
<1> QED
  BY <1>1, <1>2, <1>8, <1>9 DEF CasesInv, OneCounts

\* Whoever confirms or resolves decides what he was shown.
LEMMA ShownIsDecided ==
  ASSUME CasesInv, NEW s \in Staff, NEW code \in Codes, ResolveShown(s, code)
  PROVE  /\ screen[s].a \in Assignments /\ screen[s].case = case[screen[s].a]
         /\ Decision(s, screen[s].a, code)
<1>1. screen[s] # NoView /\ ResolveCase(s, screen[s].a, screen[s].case, code)
  BY DEF ResolveShown
<1>2. screen[s].a \in Assignments /\ ReadBefore(screen[s].case, case[screen[s].a])
  BY <1>1 DEF CasesInv, ViewsAreOld
<1>3. Decision(s, screen[s].a, code) /\ case[screen[s].a].revision = screen[s].case.revision
  BY <1>1, <1>2, ResolveCaseDecides DEF CasesInv
<1> QED
  BY <1>2, <1>3 DEF ReadBefore

LEMMA ConfirmedIsDecided ==
  ASSUME CasesInv, NEW s \in Staff, Confirm(s)
  PROVE  /\ draft[s] # NoDraft /\ draft[s].a \in Assignments /\ draft[s].code \in Codes
         /\ draft[s].case = case[draft[s].a]
         /\ Decision(s, draft[s].a, draft[s].code)
<1>1. draft[s] # NoDraft /\ ResolveCase(s, draft[s].a, draft[s].case, draft[s].code)
  BY DEF Confirm
<1>2. /\ draft[s].a \in Assignments /\ ReadBefore(draft[s].case, case[draft[s].a])
      /\ draft[s].code \in Codes
  BY <1>1 DEF CasesInv, ViewsAreOld
<1>3. Decision(s, draft[s].a, draft[s].code) /\ case[draft[s].a].revision = draft[s].case.revision
  BY <1>1, <1>2, ResolveCaseDecides DEF CasesInv
<1> QED
  BY <1>1, <1>2, <1>3 DEF ReadBefore

LEMMA NoCaseRow == NoCase \in CaseRows
<1>1. <<>> \in Seq(Staff)
  OBVIOUS
<1> QED
  BY <1>1 DEF NoCase, CaseRows

LEMMA OpenedIsRow ==
  ASSUME NEW type \in {"dispute", "fraud_review"}
  PROVE  Opened(type) \in CaseRows
<1> DEFINE Lists == Seq(Staff)
           Rows == [type : {"none", "dispute", "fraud_review"},
                    status : {"none", "open", "resolved", "appealed"}, revision : Nat, by : Lists]
<1>1. NoCase \in Rows
  BY NoCaseRow DEF CaseRows
<1> HIDE DEF Lists
<1>2. ASSUME NEW c \in Rows PROVE [c EXCEPT !.type = type, !.status = "open"] \in Rows
  OBVIOUS
<1> HIDE DEF Rows
<1>3. Opened(type) \in Rows
  BY <1>1, <1>2 DEF Opened
<1> QED
  BY <1>3 DEF CaseRows, Rows, Lists

LEMMA RejectResultStep ==
  ASSUME CasesInv, NEW a \in Assignments, RejectResult(a)
  PROVE  CasesInv'
<1> DEFINE st == "rejected_pending_dispute"
<1>1. /\ status[a] = "submitted" /\ \A p \in counting : p.a # a
      /\ status' = [status EXCEPT ![a] = st]
      /\ UNCHANGED <<entries, reliability, old, case, draft, screen, counting, alerts, review>>
  BY DEF RejectResult
<1>2. case[a] \in CaseRows /\ case' = [case EXCEPT ![a] = case[a]]
  BY <1>1 DEF CasesInv, RowsOK
<1>3. Undecided(status[a], case[a], entries[a], reliability[a])
  BY <1>1, StatusTells DEF CasesInv, StoriesHold
<1>4. Story(st, case[a], entries[a], reliability[a])
  BY <1>3 DEF Undecided, Story
<1>5. st \in AssignmentStatuses /\ Ages(case[a], case[a])
  BY DEF AssignmentStatuses, Ages
<1> HIDE DEF st
<1> QED
  BY <1>1, <1>2, <1>4, <1>5, CaseStep

LEMMA OpenDisputeStep ==
  ASSUME CasesInv, NEW a \in Assignments, OpenDispute(a)
  PROVE  CasesInv'
<1> DEFINE st == "disputed"
           c == Opened("dispute")
<1>1. /\ status[a] = "rejected_pending_dispute"
      /\ status' = [status EXCEPT ![a] = st] /\ case' = [case EXCEPT ![a] = c]
      /\ UNCHANGED <<entries, reliability, old, draft, screen, counting, alerts, review>>
  BY DEF OpenDispute, Opened
<1>2. Undecided(status[a], case[a], entries[a], reliability[a])
  BY <1>1, StatusTells DEF CasesInv, StoriesHold
<1>3. Story(st, c, entries[a], reliability[a]) /\ Ages(case[a], c)
  BY <1>2 DEF Undecided, InDispute, Story, Ages
<1>4. st \in AssignmentStatuses /\ c \in CaseRows
  BY OpenedIsRow DEF AssignmentStatuses
<1>5. \A p \in counting : p.a # a
  BY <1>1 DEF CasesInv, CountHolds
<1> HIDE DEF st, c
<1> QED
  BY <1>1, <1>3, <1>4, <1>5, CaseStep

LEMMA OpenFraudCaseStep ==
  ASSUME CasesInv, NEW a \in Assignments, NEW s \in Admins, OpenFraudCase(s, a)
  PROVE  CasesInv'
<1> DEFINE c == Opened("fraud_review")
<1>1. /\ status[a] \in Paying /\ case[a] = NoCase
      /\ case' = [case EXCEPT ![a] = c]
      /\ status' = status
      /\ UNCHANGED <<entries, reliability, old, draft, screen, counting, alerts, review>>
  BY DEF OpenFraudCase, Opened, Paying, money
<1>2. status' = [status EXCEPT ![a] = status[a]] /\ status[a] \in AssignmentStatuses
  BY <1>1 DEF CasesInv, RowsOK
<1>3. Reviewed(status[a], case[a], entries[a], reliability[a])
  BY <1>1, StatusTells DEF CasesInv, StoriesHold
<1>4. Story(status[a], c, entries[a], reliability[a]) /\ Ages(case[a], c)
  BY <1>1, <1>3 DEF Reviewed, Story, Ages
<1>5. c \in CaseRows
  BY OpenedIsRow
<1>6. \A p \in counting : p.a # a
  BY <1>1 DEF CasesInv, CountHolds, Paying
<1> HIDE DEF c
<1> QED
  BY <1>1, <1>2, <1>4, <1>5, <1>6, CaseStep

LEMMA AppealStep ==
  ASSUME CasesInv, NEW a \in Assignments, Appeal(a)
  PROVE  CasesInv'
<1> DEFINE c == [case[a] EXCEPT !.status = "appealed", !.revision = case[a].revision + 1]
<1>1. /\ case[a].status = "resolved" /\ Len(case[a].by) = 1
      /\ UNCHANGED <<money, draft, screen, counting, alerts, review>>
  BY DEF Appeal
<1>2. case[a] \in CaseRows
  BY DEF CasesInv, RowsOK
<1>3. case' = [case EXCEPT ![a] = c]
  BY DEF Appeal, CasesInv, RowsOK
<1>4. /\ c.status = "appealed" /\ c.revision = case[a].revision + 1 /\ c.type = case[a].type
      /\ c.by = case[a].by
  BY <1>2 DEF CaseRows
<1>5. c \in CaseRows
  <2>1. case[a].revision + 1 \in Nat
    BY <1>2 DEF CaseRows
  <2>2. ASSUME NEW n \in Nat, NEW d \in CaseRows
        PROVE  [d EXCEPT !.status = "appealed", !.revision = n] \in CaseRows
    <3> DEFINE Lists == Seq(Staff)
    <3>1. d \in [type : {"none", "dispute", "fraud_review"},
                 status : {"none", "open", "resolved", "appealed"}, revision : Nat, by : Lists]
      BY DEF CaseRows
    <3> HIDE DEF Lists
    <3> QED
      BY <3>1 DEF CaseRows, Lists
  <2> QED
    BY <1>2, <2>1, <2>2
<1> HIDE DEF c
<1>6. Story(status[a], case[a], entries[a], reliability[a])
  BY DEF CasesInv, StoriesHold
<1>7. \/ Confiscated(status[a], case[a], entries[a], reliability[a])
      \/ Judged(status[a], case[a], entries[a], reliability[a])
  BY <1>1, <1>6, OpenedRow DEF Story, Undecided, InDispute, Reviewed, Reconsidered, Rejudged,
                               Decided, NoCase
<1>8. Story(status[a], c, entries[a], reliability[a])
  BY <1>1, <1>4, <1>7 DEF Story, Confiscated, Judged, Decided
<1>9. status' = [status EXCEPT ![a] = status[a]] /\ status[a] \in AssignmentStatuses
      /\ UNCHANGED <<entries, reliability, old>>
  BY <1>1 DEF CasesInv, RowsOK, money
<1>10. \A p \in counting : p.a # a
  <2>1. status[a] \in Ended
    BY <1>7 DEF Confiscated, Judged, Ended
  <2> QED
    BY <2>1 DEF CasesInv, CountHolds, Ended
<1>11. Ages(case[a], c)
  BY <1>4 DEF Ages
<1> QED
  BY <1>1, <1>3, <1>5, <1>8, <1>9, <1>10, <1>11, CaseStep

LEMMA PreviewStep ==
  ASSUME CasesInv, NEW s \in Staff, NEW a \in Assignments, NEW code \in Codes,
         Preview(s, a, code)
  PROVE  CasesInv'
<1> DEFINE d == [a |-> a, case |-> case[a], code |-> code, confirmed |-> FALSE]
<1>1. /\ Version(case[a]) # 0 /\ draft' = [draft EXCEPT ![s] = d]
      /\ UNCHANGED <<money, case, screen, counting, alerts, review>>
  BY DEF Preview, MayResolve
<1>2. /\ status' = status /\ entries' = entries /\ reliability' = reliability
      /\ case' = case /\ screen' = screen /\ alerts' = alerts /\ review' = review
      /\ counting' = counting
  BY <1>1 DEF money
<1>3. case[a] \in CaseRows /\ ReadBefore(case[a], case[a])
  <2>1. case[a] \in CaseRows /\ case[a].status # "none"
    BY <1>1, VersionMeans DEF CasesInv, RowsOK, Version
  <2> QED
    BY <2>1 DEF ReadBefore, CaseRows
<1>4. d \in DraftRows /\ d.a = a /\ d.case = case[a] /\ d.code = code
  BY <1>3 DEF DraftRows
<1> HIDE DEF d
<1>5. /\ draft' = [x \in Staff |-> draft'[x]] /\ draft'[s] = d
      /\ \A x \in Staff : x # s => draft'[x] = draft[x]
  BY <1>1 DEF CasesInv, RowsOK
<1>6. ViewsAreOld'
  BY <1>2, <1>3, <1>4, <1>5 DEF CasesInv, ViewsAreOld
<1>7. RowsOK'
  BY <1>2, <1>5 DEF CasesInv, RowsOK
<1> QED
  BY <1>1, <1>6, <1>7, NothingMoves DEF CasesInv

LEMMA ShowStep ==
  ASSUME CasesInv, NEW s \in Staff, NEW a \in Assignments, Show(s, a)
  PROVE  CasesInv'
<1> DEFINE v == [a |-> a, case |-> case[a]]
<1>1. /\ case[a].status = "open" /\ screen' = [screen EXCEPT ![s] = v]
      /\ UNCHANGED <<money, case, draft, counting, alerts, review>>
  BY DEF Show
<1>2. /\ status' = status /\ entries' = entries /\ reliability' = reliability
      /\ case' = case /\ draft' = draft /\ alerts' = alerts /\ review' = review
      /\ counting' = counting
  BY <1>1 DEF money
<1>3. ReadBefore(case[a], case[a])
  <2>1. case[a] \in CaseRows
    BY DEF CasesInv, RowsOK
  <2> QED
    BY <1>1, <2>1 DEF ReadBefore, CaseRows
<1>4. v.a = a /\ v.case = case[a]
  OBVIOUS
<1> HIDE DEF v
<1>5. /\ screen' = [x \in Staff |-> screen'[x]] /\ screen'[s] = v
      /\ \A x \in Staff : x # s => screen'[x] = screen[x]
  BY <1>1 DEF CasesInv, RowsOK
<1>6. ViewsAreOld'
  BY <1>2, <1>3, <1>4, <1>5 DEF CasesInv, ViewsAreOld
<1>7. RowsOK'
  BY <1>2, <1>5 DEF CasesInv, RowsOK
<1> QED
  BY <1>1, <1>6, <1>7, NothingMoves DEF CasesInv

LEMMA ReadAlertStep ==
  ASSUME CasesInv, NEW s \in Reviewers, NEW i \in DOMAIN alerts, NEW outcome \in Outcomes,
         ReadAlert(s, i, outcome)
  PROVE  CasesInv'
<1>1. /\ review' = [review EXCEPT ![s] = [alert |-> i, outcome |-> outcome]]
      /\ UNCHANGED <<money, case, draft, screen, counting, alerts>>
  BY DEF ReadAlert
<1>2. /\ status' = status /\ entries' = entries /\ reliability' = reliability
      /\ case' = case /\ draft' = draft /\ screen' = screen /\ alerts' = alerts
      /\ counting' = counting
  BY <1>1 DEF money
<1>3. i \in Nat
  BY DEF CasesInv, RowsOK
<1>4. [alert |-> i, outcome |-> outcome] \in ReviewRows
  BY <1>3 DEF ReviewRows
<1>5. review' \in [Reviewers -> ReviewRows]
  BY <1>1, <1>4 DEF CasesInv, RowsOK
<1>6. RowsOK' /\ ViewsAreOld'
  BY <1>2, <1>5 DEF CasesInv, RowsOK, ViewsAreOld
<1> QED
  BY <1>1, <1>6, NothingMoves DEF CasesInv

LEMMA CloseAlertStep ==
  ASSUME CasesInv, NEW s \in Reviewers, NEW members \in Penalised, CloseAlert(s, members)
  PROVE  CasesInv'
<1> DEFINE i == review[s].alert
           o == review[s].outcome
<1>1. /\ counting = {} /\ review' = [review EXCEPT ![s] = NoReview]
      /\ UNCHANGED <<money, case, draft, screen, counting>>
  BY DEF CloseAlert, PairGateFree
<1>2. /\ status' = status /\ entries' = entries /\ reliability' = reliability /\ old' = old
      /\ case' = case /\ draft' = draft /\ screen' = screen /\ counting' = counting
  BY <1>1 DEF money
<1>3. alerts' \in Seq(AlertRows) /\ (alerts # <<>> => alerts' # <<>>)
  <2>1. o \in Outcomes \cup {"none"} /\ members \subseteq Parties
    BY CasesAssumption DEF CasesInv, RowsOK, ReviewRows, Parties
  <2>2. alerts' = [alerts EXCEPT ![i] =
                     [alerts[i] EXCEPT !.state = "closed", !.outcome = o,
                                       !.penalised = alerts[i].penalised \cup members]]
    BY DEF CloseAlert
  <2>3. ASSUME NEW r \in AlertRows
        PROVE  [r EXCEPT !.state = "closed", !.outcome = o, !.penalised = r.penalised \cup members]
                 \in AlertRows
    BY <2>1 DEF AlertRows
  <2> HIDE DEF i, o
  <2>4. \A k \in DOMAIN alerts : alerts[k] \in AlertRows
    BY DEF CasesInv, RowsOK
  <2>5. DOMAIN alerts' = DOMAIN alerts /\ alerts' = [k \in DOMAIN alerts' |-> alerts'[k]]
    BY <2>2 DEF CasesInv, RowsOK
  <2>6. \A k \in DOMAIN alerts : alerts'[k] \in AlertRows
    BY <2>2, <2>3, <2>4
  <2> QED
    BY <2>5, <2>6, SequenceOfAlerts DEF CasesInv, RowsOK
<1>4. review' \in [Reviewers -> ReviewRows]
  <2>1. NoReview \in ReviewRows
    BY DEF NoReview, ReviewRows
  <2> QED
    BY <1>1, <2>1 DEF CasesInv, RowsOK
<1>5. RowsOK' /\ ViewsAreOld' /\ StoriesHold' /\ OneCounts'
  BY <1>2, <1>3, <1>4 DEF CasesInv, RowsOK, ViewsAreOld, StoriesHold, OneCounts
<1>6. CrossingIsAlerted'
  <2>1. Interactions(entries, old)' = Interactions(entries, old)
    BY <1>2 DEF Interactions, Payouts, Standing
  <2> QED
    BY <1>3, <2>1 DEF CasesInv, CrossingIsAlerted, Crossed
<1> QED
  BY <1>1, <1>5, <1>6 DEF CasesInv

-----------------------------------------------------------------------------
LEMMA CasesBegin == Init => CasesInv
<1> SUFFICES ASSUME Init PROVE CasesInv
  OBVIOUS
<1>1. /\ status \in [Assignments -> AssignmentStatuses]
      /\ entries = [a \in Assignments |-> entries[a]]
      /\ reliability = [a \in Assignments |-> reliability[a]]
      /\ draft = [s \in Staff |-> draft[s]] /\ screen = [s \in Staff |-> screen[s]]
      /\ alerts \in Seq(AlertRows)
  BY DEF Init, AssignmentStatuses
<1>2. case \in [Assignments -> CaseRows]
  BY NoCaseRow DEF Init
<1>3. NoReview \in ReviewRows
  BY DEF NoReview, ReviewRows
<1>4. RowsOK
  BY <1>1, <1>2, <1>3 DEF Init, RowsOK
<1>5. StoriesHold
  BY DEF Init, StoriesHold, Story, Undecided
<1>6. ViewsAreOld /\ OneCounts /\ \A p \in counting : CountHolds(p)
  BY DEF Init, ViewsAreOld, OneCounts
<1>7. CrossingIsAlerted
  <2>1. Interactions(entries, old) = {}
    BY DEF Init, Interactions, Payouts, Standing
  <2> QED
    BY <2>1, FS_EmptySet, CasesAssumption DEF CrossingIsAlerted, Crossed
<1> QED
  BY <1>4, <1>5, <1>6, <1>7 DEF CasesInv

LEMMA ResolveShownStep ==
  ASSUME CasesInv, NEW s \in Staff, NEW code \in Codes, ResolveShown(s, code)
  PROVE  CasesInv'
<1>1. screen' = [screen EXCEPT ![s] = NoView] /\ draft' = draft
  BY DEF ResolveShown
<1> QED
  BY <1>1, ShownIsDecided, DecisionStep

LEMMA ConfirmStep ==
  ASSUME CasesInv, NEW s \in Staff, Confirm(s)
  PROVE  CasesInv'
<1>1. screen' = screen /\ draft' = [draft EXCEPT ![s].confirmed = TRUE]
  BY DEF Confirm
<1>2. draft[s] # NoDraft /\ draft[s].a \in Assignments /\ draft[s].code \in Codes
      /\ Decision(s, draft[s].a, draft[s].code)
  BY ConfirmedIsDecided
<1> QED
  BY <1>1, <1>2, DecisionStep

LEMMA CasesStep == CasesInv /\ [Next]_vars => CasesInv'
<1> SUFFICES ASSUME CasesInv, [Next]_vars PROVE CasesInv'
  OBVIOUS
<1>1. CASE UNCHANGED vars
  <2>1. /\ status' = status /\ entries' = entries /\ reliability' = reliability /\ old' = old
        /\ case' = case /\ draft' = draft /\ screen' = screen /\ counting' = counting
        /\ alerts' = alerts /\ review' = review
    BY <1>1 DEF vars, money
  <2>2. RowsOK' /\ ViewsAreOld'
    BY <2>1 DEF CasesInv, RowsOK, ViewsAreOld
  <2> QED
    BY <1>1, <2>2, NothingMoves DEF CasesInv, vars
<1>2. ASSUME NEW a \in Assignments, NEW after \in Paying, BeginPayout(a, after)
      PROVE  CasesInv'
  BY <1>2, BeginPayoutStep
<1>3. ASSUME NEW a \in Assignments,
             LeaveWindow(a) \/ RejectResult(a) \/ OpenDispute(a) \/ Appeal(a)
      PROVE  CasesInv'
  BY <1>3, LeaveWindowStep, RejectResultStep, OpenDisputeStep, AppealStep
<1>4. ASSUME NEW a \in Assignments, NEW s \in Admins, OpenFraudCase(s, a)
      PROVE  CasesInv'
  BY <1>4, OpenFraudCaseStep
<1>5. ASSUME NEW a \in Assignments, NEW s \in Staff, Show(s, a) PROVE CasesInv'
  BY <1>5, ShowStep
<1>6. ASSUME NEW a \in Assignments, NEW s \in Previewers, NEW code \in Codes, Preview(s, a, code)
      PROVE  CasesInv'
  <2>1. s \in Staff
    BY CasesAssumption DEF Staff
  <2> QED
    BY <1>6, <2>1, PreviewStep
<1>7. ASSUME NEW p \in counting, CommitPayout(p) PROVE CasesInv'
  BY <1>7, CommitPayoutStep
<1>8. ASSUME NEW s \in Staff, NEW code \in Codes, ResolveShown(s, code) PROVE CasesInv'
  BY <1>8, ResolveShownStep
<1>9. ASSUME NEW s \in Staff, Confirm(s) PROVE CasesInv'
  BY <1>9, ConfirmStep
<1>10. ASSUME NEW s \in Reviewers, NEW i \in DOMAIN alerts, NEW outcome \in Outcomes,
              ReadAlert(s, i, outcome)
       PROVE  CasesInv'
  BY <1>10, ReadAlertStep
<1>11. ASSUME NEW s \in Reviewers, NEW members \in Penalised, CloseAlert(s, members)
       PROVE  CasesInv'
  BY <1>11, CloseAlertStep
<1> QED
  BY <1>1, <1>2, <1>3, <1>4, <1>5, <1>6, <1>7, <1>8, <1>9, <1>10, <1>11 DEF Next, Paying

-----------------------------------------------------------------------------
LEMMA CasesAlways == Spec => []CasesInv
BY CasesBegin, CasesStep, PTL DEF Spec

LEMMA OutcomesTold == CasesInv => OneOutcomeStands
<1>1. ASSUME CasesInv, NEW a \in Assignments, status[a] \in Ended
      PROVE  Stands(status[a], case[a], entries[a], reliability[a])
  BY <1>1, StoryStands DEF CasesInv, StoriesHold
<1> QED
  BY <1>1 DEF OneOutcomeStands, Stands, Newest, EffectiveOutcome, Worth

(* Status, ledger and reliability of an assignment tell one outcome, the     *)
(* last: after any number of reviews, disputes, fraud cases and appeals      *)
(* (OneOutcomeStands), for every set of assignments and every reward.        *)
THEOREM OutcomeStands == Spec => []OneOutcomeStands
<1> QED
  BY OutcomesTold, CasesAlways, PTL

(* A pair over the threshold has had an alert, whatever payouts, appeals and *)
(* expiries were counted together (CrossingIsAlerted).                       *)
THEOREM Crossings == Spec => []CrossingIsAlerted
<1>1. CasesInv => CrossingIsAlerted
  BY DEF CasesInv
<1> QED
  BY <1>1, CasesAlways, PTL

-----------------------------------------------------------------------------
(* Decisions are made of what was seen.                                     *)

Seen(a, s) ==
  \E seen \in {[a |-> screen[s].a, case |-> screen[s].case],
               [a |-> draft[s].a, case |-> draft[s].case]} :
    seen = [a |-> a, case |-> case[a]]

\* One step of DecidedAsSeen.
DecisionsSeen ==
  \A a \in Assignments :
    LET n == Len(case'[a].by)
        s == case'[a].by[n]
    IN n > Len(case[a].by) =>
         /\ \E seen \in {[a |-> screen[s].a, case |-> screen[s].case],
                         [a |-> draft[s].a, case |-> draft[s].case]} :
              seen = [a |-> a, case |-> case[a]]
         /\ n = 2 => s # case[a].by[1] /\ s \in Admins

LEMMA ShownIsSeen ==
  ASSUME NEW a, NEW s,
         \/ screen[s].a = a /\ screen[s].case = case[a]
         \/ draft[s].a = a /\ draft[s].case = case[a]
  PROVE  Seen(a, s)
<1>1. \/ [a |-> screen[s].a, case |-> screen[s].case] = [a |-> a, case |-> case[a]]
      \/ [a |-> draft[s].a, case |-> draft[s].case] = [a |-> a, case |-> case[a]]
  OBVIOUS
<1> QED
  BY <1>1, Zenon DEF Seen

LEMMA SeenDecision ==
  ASSUME CasesInv, NEW s \in Staff, NEW a \in Assignments, NEW code \in Codes,
         Decision(s, a, code), Seen(a, s)
  PROVE  DecisionsSeen
<1>1. case[a] \in CaseRows /\ Len(case[a].by) \in Nat
  BY DEF CasesInv, RowsOK, CaseRows
<1>2. case'[a] = Resolved(case[a], s) /\ \A b \in Assignments : b # a => case'[b] = case[b]
  BY DEF Decision, CasesInv, RowsOK
<1>3. Len(case'[a].by) = Len(case[a].by) + 1 /\ case'[a].by[Len(case'[a].by)] = s
  BY <1>1, <1>2, ResolvedRow
<1>4. Len(case'[a].by) = 2 => s # case[a].by[1] /\ s \in Admins
  <2> SUFFICES ASSUME Len(case'[a].by) = 2 PROVE s # case[a].by[1] /\ s \in Admins
    OBVIOUS
  <2>1. Len(case[a].by) = 1
    <3>1. \A n \in Nat : n + 1 = 2 => n = 1
      OBVIOUS
    <3>2. Len(case[a].by) + 1 = 2
      BY <1>3, Zenon
    <3> QED
      BY <1>1, <3>1, <3>2, Zenon
  <2>2. MayResolve(s, case[a], code)
    BY DEF Decision
  <2>3. Version(case[a]) = 2
    BY <1>1, <2>1, <2>2, AwaitedStory DEF MayResolve, CasesInv, StoriesHold
  <2> QED
    BY <2>2, <2>3 DEF MayResolve
<1>5. \A b \in Assignments : b # a => ~(Len(case'[b].by) > Len(case[b].by))
  BY <1>2 DEF CasesInv, RowsOK, CaseRows
<1> SUFFICES ASSUME NEW b \in Assignments, Len(case'[b].by) > Len(case[b].by)
             PROVE  /\ Seen(b, case'[b].by[Len(case'[b].by)])
                    /\ Len(case'[b].by) = 2 =>
                         /\ case'[b].by[Len(case'[b].by)] # case[b].by[1]
                         /\ case'[b].by[Len(case'[b].by)] \in Admins
  BY DEF DecisionsSeen, Seen
<1>6. b = a
  BY <1>5
<1> QED
  BY <1>3, <1>4, <1>6

LEMMA NobodyDecides ==
  ASSUME CasesInv,
         \A b \in Assignments : case'[b].by = case[b].by \/ case'[b].by = <<>>
  PROVE  DecisionsSeen
<1>1. \A b \in Assignments : Len(case[b].by) \in Nat
  BY DEF CasesInv, RowsOK, CaseRows
<1>2. \A b \in Assignments : ~(Len(case'[b].by) > Len(case[b].by))
  BY <1>1
<1> QED
  BY <1>2 DEF DecisionsSeen

(* A decision is made for the case as it is now, seen on the screen or in a  *)
(* preview of whoever decides, and the decision of an appeal is an admin's   *)
(* who did not make the first one (DecidedAsSeen).                           *)
THEOREM Decisions == Spec => DecidedAsSeen
<1>1. ASSUME CasesInv, [Next]_vars PROVE [DecisionsSeen]_vars
  <2> SUFFICES ASSUME Next PROVE DecisionsSeen
    BY <1>1
  <2> USE <1>1
  <2>1. ASSUME case' = case PROVE DecisionsSeen
    BY <2>1, NobodyDecides
  <2>2. ASSUME NEW a \in Assignments, NEW c, case' = [case EXCEPT ![a] = c],
               c.by = case[a].by \/ c.by = <<>>
        PROVE  DecisionsSeen
    <3>1. \A b \in Assignments : case'[b].by = case[b].by \/ case'[b].by = <<>>
      BY <2>2 DEF CasesInv, RowsOK
    <3> QED
      BY <3>1, NobodyDecides
  <2>3. ASSUME NEW a \in Assignments, NEW after \in Paying, BeginPayout(a, after)
        PROVE  DecisionsSeen
    BY <2>1, <2>3 DEF BeginPayout
  <2>4. ASSUME NEW a \in Assignments, LeaveWindow(a) \/ RejectResult(a)
        PROVE  DecisionsSeen
    BY <2>1, <2>4 DEF LeaveWindow, RejectResult
  <2>5. ASSUME NEW a \in Assignments, OpenDispute(a) PROVE DecisionsSeen
    BY <2>2, <2>5, OpenedRow DEF OpenDispute, Opened
  <2>6. ASSUME NEW a \in Assignments, Appeal(a) PROVE DecisionsSeen
    <3> DEFINE c == [case[a] EXCEPT !.status = "appealed", !.revision = case[a].revision + 1]
    <3>1. case' = [case EXCEPT ![a] = c] /\ c.by = case[a].by
      BY <2>6 DEF Appeal, CasesInv, RowsOK, CaseRows
    <3> HIDE DEF c
    <3> QED
      BY <2>2, <3>1
  <2>7. ASSUME NEW a \in Assignments, NEW s \in Admins, OpenFraudCase(s, a)
        PROVE  DecisionsSeen
    BY <2>2, <2>7, OpenedRow DEF OpenFraudCase, Opened
  <2>8. ASSUME NEW a \in Assignments, NEW s, Show(s, a) PROVE DecisionsSeen
    BY <2>1, <2>8 DEF Show
  <2>9. ASSUME NEW a \in Assignments, NEW s, NEW code, Preview(s, a, code)
        PROVE  DecisionsSeen
    BY <2>1, <2>9 DEF Preview
  <2>10. ASSUME NEW p \in counting, CommitPayout(p) PROVE DecisionsSeen
    BY <2>1, <2>10 DEF CommitPayout
  <2>11. ASSUME NEW s \in Staff, NEW code \in Codes, ResolveShown(s, code) PROVE DecisionsSeen
    BY <2>11, ShownIsDecided, ShownIsSeen, SeenDecision
  <2>12. ASSUME NEW s \in Staff, Confirm(s) PROVE DecisionsSeen
    BY <2>12, ConfirmedIsDecided, ShownIsSeen, SeenDecision
  <2>13. ASSUME NEW s, NEW i, NEW outcome, ReadAlert(s, i, outcome) PROVE DecisionsSeen
    BY <2>1, <2>13 DEF ReadAlert
  <2>14. ASSUME NEW s, NEW members, CloseAlert(s, members) PROVE DecisionsSeen
    BY <2>1, <2>14 DEF CloseAlert
  <2> QED
    BY <2>3, <2>4, <2>5, <2>6, <2>7, <2>8, <2>9, <2>10, <2>11, <2>12, <2>13, <2>14
       DEF Next, Paying
<1> QED
  BY <1>1, CasesAlways, PTL DEF Spec, DecidedAsSeen, DecisionsSeen
=============================================================================
