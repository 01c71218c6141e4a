------------------------------ MODULE MCMailbox ------------------------------
(* Small instances of Mailbox: a group message, an edit of it and a read   *)
(* receipt, which has no message id.                                       *)
EXTENDS Mailbox, TLC

CONSTANTS message, edit, receipt

\* The edit carries the id and the group of the message it edits.
SharedKey   == [e \in Entries |-> IF e = receipt THEN NoKey ELSE message]
DistinctKey == [e \in Entries |-> IF e = receipt THEN NoKey ELSE e]
OwnPrint    == [e \in Entries |-> e]
PollSymmetry == Permutations(Polls)
=============================================================================
