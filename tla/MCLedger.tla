------------------------------ MODULE MCLedger ------------------------------
(* Instances of Ledger for TLC: two members who pay each other, an          *)
(* administrator, and someone who registers.                                *)
EXTENDS Ledger

CONSTANTS s1, s2

TwoSessions == {s1, s2}

People == 1..4
Ann == 1
Bob == 2
Admin == 3
Cy == 4
Earners == {Ann}
Applicants == {Cy}

\* A command of a member, of an administrator, and a reversal.
Row(key, kind, member, credit) ==
  [key |-> key, kind |-> kind, member |-> member, credit |-> credit,
   actor |-> 0, reverses |-> 0]
By(actor, command) == [command EXCEPT !.actor = actor]
Undo(key, source) ==
  [key |-> key, kind |-> "resolution_reversal", member |-> source.member,
   credit |-> -source.credit, actor |-> Admin, reverses |-> source.key]

Locks(people) == [Plain EXCEPT !.also = people]

\* Version 2 asks for more.
Scales == <<<<0, 3, 6>>, <<0, 5, 8>>>>

AnnsReward == Row(101, "task_reward_earned", Ann, 5)
BobsReward == Row(102, "community_task_reward", Bob, 5)
History == <<AnnsReward, BobsReward, Row(103, "manual_credit_grant", Ann, 1)>>

Transfer(out, from, to, amount) ==
  <<Batch(<<By(from, Row(out, "transfer_sent", from, -amount)),
            By(from, Row(out + 1, "transfer_received", to, amount))>>)>>

\* What may be asked for.  "giveMore" reuses the keys of "give" for another
\* amount; "reverse" and "regrade" undo the same reward; "publish" locks its
\* author's row before it reserves; "appeal" and "regrade" undo a payout and pay
\* in a second batch; "publishB" locks a reviewer after its author.
PhasesAsked ==
  [give     |-> Transfer(1, Ann, Bob, 3),
   giveMore |-> Transfer(1, Ann, Bob, 4),
   back     |-> Transfer(3, Bob, Ann, 7),
   reverse  |-> <<Batch(<<Undo(5, AnnsReward)>>)>>,
   publish  |-> <<Locks({Bob}),
                  Batch(<<Row(7, "task_reward_reserved", Bob, -4)>>)>>,
   appeal   |-> <<Batch(<<Undo(8, BobsReward)>>),
                  Batch(<<Row(9, "task_reward_refunded", Ann, 5)>>)>>,
   regrade  |-> <<Batch(<<Undo(10, AnnsReward)>>),
                  Batch(<<Row(11, "task_reward_earned", Ann, 6)>>)>>,
   publishB |-> <<Locks({Bob}), Locks({Ann, Bob})>>,
   join     |-> Registration(Cy, Row(12, "starting_grant", Cy, 5)),
   setup    |-> Activation(1, 1, Admin, TRUE),
   upgrade  |-> Activation(2, 2, Admin, FALSE),
   revert   |-> Activation(3, 1, Admin, FALSE)]

\* Requests asked together, when version 1 is active or nothing is.
FirstVersion == <<[id |-> 1, version |-> 1]>>
Later(requests) == [asked |-> requests, opened |-> FirstVersion]
First(requests) == [asked |-> requests, opened |-> <<>>]

Everyday ==
  {Later({"give", "back", "reverse", "publish"}),
   Later({"give", "reverse", "regrade"}),
   Later({"give", "giveMore"}),
   Later({"give", "join"}),
   First({"setup", "upgrade", "regrade"}),
   Later({"upgrade", "revert", "give"})}

\* The order of locks that all of these follow: the keys and gates of a first
\* phase, the grant under the identity gate, the rows by id, the keys of a
\* phase after them.
Ranking ==
  [key |-> [k \in Keys |-> CASE k = 12 -> 1500
                           [] k \in {7, 11} -> 3000 + k
                           [] OTHER -> k],
   row |-> [m \in Members |-> 2000 + m]]
EverydayFollows == Mixes = Everyday => OneLockOrder(Ranking) /\ JoinsApart
ASSUME EverydayFollows

Corrections == {Later({"give", "appeal"})}
Community == {Later({"give", "publishB"})}
Registrations == {Later({"join", "upgrade"})}
=============================================================================
