----------------------------- MODULE SeenRecords ----------------------------
(* What the server records of the messages of one direct chat: delivered   *)
(* and read, in the two tables a message is stored in together. The        *)
(* recipient's devices report by /delivered, /read and /mark-seen, and by  *)
(* two events of the socket; most updates are started and not awaited, so  *)
(* they land in any order, or not at all.                                  *)
(* Not modelled: UserReceivedTime, a column no other step looks at.        *)
(* Times are abstracted to whether they are set: every update keeps the    *)
(* first. External: MySQL and the devices, which report what they hold.    *)
EXTENDS Naturals

CONSTANTS
    ChatMessages,      \* messages of the sender to the reader
    Receipts,          \* requests under way together
    MaxReceiptFaults   \* bound: failed updates and restarts

ASSUME SeenAssumption == MaxReceiptFaults \in Nat

VARIABLES
    recorded,          \* messages whose rows are committed
    logSeen,           \* SeenTime is set in the row of the messages' table
    activityRow,       \* the row of MessageActivities
    receipt,           \* each request: its kind, its ids and what it has left to do
    senderTold,        \* messages the sender's mailbox holds a read receipt of
    ackHandlers,       \* the reader's socket listens to message:ack_read
    unrecorded,        \* messages an update failed for
    receiptFaults

seenVars == <<recorded, logSeen, activityRow, receipt, senderTold,
              ackHandlers, unrecorded, receiptFaults>>

Flag == {"yes", "no"}
Kinds == {"read", "seen", "delivered"}
Steps == {"queue", "logs", "activities", "self"}
NoReceipt == [kind |-> "none", ids |-> {}, left |-> {}]

SeenTypeOK ==
    /\ recorded \subseteq ChatMessages
    /\ logSeen \in [ChatMessages -> Flag]
    /\ activityRow \in [ChatMessages -> [delivered : Flag, read : Flag,
                                         status : {"sent", "delivered", "read"}]]
    /\ receipt \in [Receipts -> [kind : Kinds, ids : SUBSET ChatMessages,
                                 left : SUBSET Steps] \cup {NoReceipt}]
    /\ senderTold \subseteq ChatMessages /\ ackHandlers \in Flag
    /\ unrecorded \subseteq ChatMessages
    /\ receiptFaults \in 0..MaxReceiptFaults

SeenInit ==
    /\ recorded = {} /\ senderTold = {} /\ unrecorded = {}
    /\ logSeen = [m \in ChatMessages |-> "no"]
    /\ activityRow = [m \in ChatMessages |->
                         [delivered |-> "no", read |-> "no", status |-> "sent"]]
    /\ receipt = [q \in Receipts |-> NoReceipt]
    /\ ackHandlers = "no" /\ receiptFaults = 0

(* insertMessageActivityAndLog commits both rows before anybody is told of *)
(* the message. The messages' row has its receiveDateTime from the start.  *)
RecordMessage(m) ==
    /\ m \notin recorded
    /\ recorded' = recorded \cup {m}
    /\ UNCHANGED <<logSeen, activityRow, receipt, senderTold, ackHandlers,
                   unrecorded, receiptFaults>>

(******************************* requests **********************************)
Begins(q, kind, ids, left) ==
    /\ receipt[q] = NoReceipt
    /\ receipt' = [receipt EXCEPT ![q] = [kind |-> kind, ids |-> ids, left |-> left]]
    /\ UNCHANGED <<recorded, logSeen, activityRow, senderTold, ackHandlers,
                   unrecorded, receiptFaults>>

\* /read waits for the sender's mailbox first; the rest follows from it.
PostRead(q) == \E ids \in (SUBSET recorded) \ {{}} : Begins(q, "read", ids, {"queue"})
\* /mark-seen waits for the messages' table.
PostMarkSeen(q) == recorded # {} /\ Begins(q, "seen", {}, {"logs"})
\* /delivered starts the updates, then waits for the sender's mailbox.
PostDelivered(q) == \E ids \in (SUBSET recorded) \ {{}} :
    Begins(q, "delivered", ids, {"logs", "activities", "queue"})

\* What a finished part lets the request do next.
Follows(kind, x) ==
    CASE kind = "read" /\ x = "queue" -> {"logs", "activities", "self"}
      [] kind = "seen" /\ x = "logs" -> {"activities", "self"}
      [] OTHER -> {}

After(q, left) ==
    receipt' = [receipt EXCEPT ![q] = IF left = {} THEN NoReceipt
                                      ELSE [receipt[q] EXCEPT !.left = left]]

\* addToQueue for the sender, or for the reader's other devices ("self").
Queues(q) == \E x \in receipt[q].left \cap {"queue", "self"} :
    /\ After(q, (receipt[q].left \ {x}) \cup Follows(receipt[q].kind, x))
    /\ senderTold' = IF receipt[q].kind = "read" /\ x = "queue"
                     THEN senderTold \cup receipt[q].ids ELSE senderTold
    /\ UNCHANGED <<recorded, logSeen, activityRow, ackHandlers, unrecorded,
                   receiptFaults>>

(* markMessagesSeen: every row of the chat, whatever was reported;         *)
(* markMessagesDelivered finds no row without a receiveDateTime.           *)
SeenIn(m) == IF m \in recorded THEN "yes" ELSE logSeen[m]
UpdateLogs(q) ==
    /\ "logs" \in receipt[q].left
    /\ After(q, (receipt[q].left \ {"logs"}) \cup Follows(receipt[q].kind, "logs"))
    /\ logSeen' = IF receipt[q].kind = "delivered" THEN logSeen
                  ELSE [m \in ChatMessages |-> SeenIn(m)]
    /\ UNCHANGED <<recorded, activityRow, senderTold, ackHandlers,
                   unrecorded, receiptFaults>>

\* mutated: rows whose delivery is known are not touched.
ReadInUndelivered(row) ==
    IF row.delivered = "no" THEN [row EXCEPT !.read = "yes", !.delivered = "yes"]
    ELSE row

\* markActivitiesRead, "and implicitly delivered"
ReadIn(row) == [row EXCEPT !.read = "yes", !.delivered = "yes"]
UpdateActivities(q) ==
    /\ "activities" \in receipt[q].left
    /\ After(q, receipt[q].left \ {"activities"})
    /\ activityRow' = [m \in ChatMessages |->
           IF receipt[q].kind = "delivered"
           THEN IF m \in receipt[q].ids THEN [activityRow[m] EXCEPT !.delivered = "yes"]
                ELSE activityRow[m]
           ELSE IF m \in recorded THEN ReadIn(activityRow[m]) ELSE activityRow[m]]
    /\ UNCHANGED <<recorded, logSeen, senderTold, ackHandlers, unrecorded,
                   receiptFaults>>

ReceiptFault ==
    /\ receiptFaults < MaxReceiptFaults
    /\ receiptFaults' = receiptFaults + 1

OfRead(q) == IF receipt[q].kind = "read" THEN receipt[q].ids ELSE {}

(* A failed update is a warning; a mailbox that fails ends the request     *)
(* with what it had not started, and the updates under way land or fail.   *)
PartFails(q) == \E x \in receipt[q].left :
    /\ ReceiptFault
    /\ After(q, IF x = "logs" /\ receipt[q].kind = "seen"
                THEN {"activities", "self"} ELSE receipt[q].left \ {x})
    /\ unrecorded' = IF x \in {"logs", "activities"}
                     THEN unrecorded \cup OfRead(q) ELSE unrecorded
    /\ UNCHANGED <<recorded, logSeen, activityRow, senderTold, ackHandlers>>

RestartDuringReceipts ==
    /\ ReceiptFault
    /\ unrecorded' = unrecorded \cup UNION {OfRead(q) : q \in Receipts}
    /\ receipt' = [q \in Receipts |-> NoReceipt] /\ ackHandlers' = "no"
    /\ UNCHANGED <<recorded, logSeen, activityRow, senderTold>>

(******************************* the socket ********************************)
(* The two acknowledgements are listened to from the catch block of        *)
(* chat:typing: only after a typing signal that threw.                     *)
TypingThrows ==
    /\ ReceiptFault /\ ackHandlers' = "yes"
    /\ UNCHANGED <<recorded, logSeen, activityRow, receipt, senderTold,
                   unrecorded>>

\* message:ack_delivery, message:ack_read: "read" is not taken back.
AckMessage(m) ==
    /\ ackHandlers = "yes" /\ m \in recorded
    /\ \/ activityRow' = [activityRow EXCEPT ![m].status =
                             IF @ = "read" THEN @ ELSE "delivered"]
       \/ activityRow' = [activityRow EXCEPT ![m].status = "read"]
    /\ UNCHANGED <<recorded, logSeen, receipt, senderTold, ackHandlers,
                   unrecorded, receiptFaults>>

SeenNext ==
    \/ \E m \in ChatMessages : RecordMessage(m) \/ AckMessage(m)
    \/ \E q \in Receipts : \/ PostRead(q) \/ PostMarkSeen(q) \/ PostDelivered(q)
                           \/ Queues(q) \/ UpdateLogs(q) \/ UpdateActivities(q)
                           \/ PartFails(q)
    \/ RestartDuringReceipts \/ TypingThrows

SeenSpec == SeenInit /\ [][SeenNext]_seenVars

Underway(m, x) == \E q \in Receipts :
    receipt[q].kind = "read" /\ m \in receipt[q].ids /\ x \in receipt[q].left

(* What the sender is told was read is recorded as read in both tables, or *)
(* is about to be: receipts of other messages, deliveries that come late   *)
(* and requests that overlap take nothing from it. Only a failed update or *)
(* a restart leaves a receipt without its record.                          *)
ToldIsRecorded == \A m \in senderTold \ unrecorded :
    /\ logSeen[m] = "yes" \/ Underway(m, "logs")
    /\ activityRow[m].read = "yes" \/ Underway(m, "activities")
=============================================================================
