-------------------------- MODULE AtMostOnceDelivery --------------------------
(***************************************************************************)
(* What the send path promises, without saying how: a message is stored    *)
(* at most once, and only then handed, at most once, to each mailbox.  It  *)
(* promises no more: a stored message may reach some mailboxes or none (a  *)
(* crash, or an early return), and is then left to the sync endpoints.     *)
(***************************************************************************)
EXTENDS Integers

CONSTANTS Msgs, Users

VARIABLES stored, handoffs

Init ==
  /\ stored = [m \in Msgs |-> 0]
  /\ handoffs = [u \in Users |-> [m \in Msgs |-> 0]]

Store(m) ==
  /\ stored[m] = 0
  /\ stored' = [stored EXCEPT ![m] = 1]
  /\ UNCHANGED handoffs

Deliver(m, us) ==
  /\ stored[m] = 1
  /\ \A u \in us : handoffs[u][m] = 0
  /\ handoffs' = [u \in Users |->
       IF u \in us THEN [handoffs[u] EXCEPT ![m] = 1] ELSE handoffs[u]]
  /\ UNCHANGED stored

Next == \E m \in Msgs : Store(m) \/ \E us \in SUBSET Users : Deliver(m, us)

Spec == Init /\ [][Next]_<<stored, handoffs>>
=============================================================================
