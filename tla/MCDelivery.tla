----------------------------- MODULE MCDelivery -----------------------------
(* Instances of Delivery for TLC.                                           *)
EXTENDS Delivery

CONSTANTS w1, w2, transfer, reminder, post

OneWorker == {w1}
TwoWorkers == {w1, w2}
OneEvent == {transfer}
OneReminder == {reminder}
OnlyPost == {post}
None == {}
OneTag == {"online"}
TwoTags == {"online", "crypto"}
=============================================================================
