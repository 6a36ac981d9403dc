----------------------------- MODULE MCMessaging -----------------------------
(* Small instances of Messaging for TLC. *)
EXTENDS Messaging, TLC

CONSTANTS client, caterer    \* two users

Both == {client, caterer}
Pairs == {Both}
OneBrowser == {<<caterer, 1>>, <<caterer, 2>>}
SomeKinds == {[about |-> TRUE, file |-> FALSE], [about |-> FALSE, file |-> TRUE]}
=============================================================================
