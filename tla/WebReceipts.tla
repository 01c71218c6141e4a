---------------------------- MODULE WebReceipts ----------------------------
(***************************************************************************)
(* Read receipts and the unread count of one direct chat of the web client *)
(* (src/frontend/src/app/core/services/chat-store.service.ts).  Incoming   *)
(* messages wait in a pending set; reaching the bottom of the chat arms a  *)
(* timer, the timer starts a flush, and the flush awaits one request per   *)
(* batch while it works on the very set object that new messages enter.    *)
(* resetReadReceiptTrackingState replaces that object under it.            *)
(***************************************************************************)
EXTENDS Naturals, Sequences

CONSTANTS ReceiptIds,      \* incoming messages
          ReceiptFlushes,  \* flushes that may be under way together after a reset
          MaxResets        \* bound: resets and reloads

ASSUME ResetsAssumption == MaxResets \in Nat

VARIABLES list,           \* the incoming rows of the chat, in order of their time
          receiptUnread,  \* unreadByChat
          pending,        \* pendingReadReceiptByChat, empty without an entry
          receiptSent,    \* readReceiptSentByChat
          busy,           \* readReceiptFlushInFlightByChat
          timer,          \* "armed" while readReceiptFlushTimerByChat has an entry
          flight,         \* each flush: ids to send, ids sent, and the set it works on
          told,           \* receipts the server has
          tracked,        \* history: messages tracked since tracking began anew
          crossed,        \* history: "yes" once tracking was reset under a flush
          resets

receiptVars == <<list, receiptUnread, pending, receiptSent, busy, timer, flight, told,
                 tracked, crossed, resets>>

NoReceiptFlush == [state |-> "idle", todo |-> {}, known |-> {}, done |-> {}, held |-> {}]
InList == {list[i] : i \in DOMAIN list}
LastRows(n) == {list[i] : i \in {j \in DOMAIN list : j + n > Len(list)}}

WebReceiptsTypeOK ==
    /\ list \in Seq(ReceiptIds) /\ receiptUnread \in Nat
    /\ pending \subseteq ReceiptIds /\ receiptSent \subseteq ReceiptIds
    /\ told \subseteq ReceiptIds /\ tracked \subseteq ReceiptIds
    /\ busy \in {"yes", "no"} /\ crossed \in {"yes", "no"} /\ timer \in {"armed", "off"}
    /\ flight \in [ReceiptFlushes -> [state : {"idle", "current", "orphan"},
                                      todo : SUBSET ReceiptIds,
                               known : SUBSET ReceiptIds, done : SUBSET ReceiptIds,
                                   held : SUBSET ReceiptIds]]
    /\ resets \in 0..MaxResets

WebReceiptsInit ==
    /\ list = << >> /\ receiptUnread = 0
    /\ pending = {} /\ receiptSent = {} /\ busy = "no" /\ timer = "off"
    /\ flight = [f \in ReceiptFlushes |-> NoReceiptFlush]
    /\ told = {} /\ tracked = {} /\ crossed = "no" /\ resets = 0
-----------------------------------------------------------------------------
(* trackIncomingMessageForReadReceipt, for a new row that came by socket,  *)
(* push or poll; unread counts it unless the chat is on the screen.        *)
Arrives(m, seen) ==
    /\ m \notin InList
    /\ list' = Append(list, m)
    /\ receiptUnread' = IF seen = "no" THEN receiptUnread + 1 ELSE receiptUnread
    /\ pending' = pending \cup ({m} \ receiptSent)
    /\ tracked' = tracked \cup {m}
    /\ UNCHANGED <<receiptSent, busy, timer, flight, told, crossed, resets>>

(* A row of the history is counted, not tracked, and enters by its time.   *)
Recovered(m, place) ==
    /\ m \notin InList /\ place \in 0..Len(list)
    /\ list' = SubSeq(list, 1, place) \o <<m>> \o SubSeq(list, place + 1, Len(list))
    /\ receiptUnread' = receiptUnread + 1
    /\ UNCHANGED <<pending, receiptSent, busy, timer, flight, told, tracked, crossed, resets>>

(* seedPendingReadReceiptsFromUnreadCount: the last unread rows.           *)
Seeded == pending \cup (LastRows(receiptUnread) \ receiptSent)

OpenChat ==
    /\ pending' = Seeded
    /\ UNCHANGED <<list, receiptUnread, receiptSent, busy, timer, flight, told, tracked,
                   crossed, resets>>

ReachBottom ==
    /\ receiptUnread' = 0
    /\ pending' = Seeded
    /\ timer' = IF Seeded = {} THEN timer ELSE "armed"
    /\ UNCHANGED <<list, receiptSent, busy, flight, told, tracked, crossed, resets>>

ReadElsewhere ==
    /\ receiptUnread > 0 /\ receiptUnread' = 0
    /\ UNCHANGED <<list, pending, receiptSent, busy, timer, flight, told, tracked,
                   crossed, resets>>
-----------------------------------------------------------------------------
(* The timer: nothing is done without a network, and later when a flush is *)
(* under way.                                                              *)
TimerFires(f, network) ==
    /\ timer = "armed" /\ flight[f].state = "idle"
    /\ \/ /\ network = "no"
          /\ timer' = "off"
          /\ UNCHANGED <<pending, busy, flight>>
       \/ /\ network = "yes" /\ busy = "yes"
          /\ timer' = IF pending = {} THEN "off" ELSE "armed"
          /\ UNCHANGED <<pending, busy, flight>>
       \/ /\ network = "yes" /\ busy = "no" /\ pending \subseteq receiptSent
          /\ timer' = "off" /\ pending' = {}
          /\ UNCHANGED <<busy, flight>>
       \/ /\ network = "yes" /\ busy = "no" /\ ~(pending \subseteq receiptSent)
          /\ timer' = "off" /\ busy' = "yes"
          /\ flight' = [flight EXCEPT ![f] = [NoReceiptFlush EXCEPT !.state = "current",
                                                          !.todo = pending \ receiptSent,
                                                          !.known = receiptSent]]
          /\ UNCHANGED pending
    /\ UNCHANGED <<list, receiptUnread, receiptSent, told, tracked, crossed, resets>>

(* A flush ends: it drops the entry of the chat when the set it worked on  *)
(* is empty, whichever set the entry is by then, and forgets the count.    *)
Orphaned(fl) == [g \in ReceiptFlushes |-> IF fl[g].state = "current"
                                   THEN [fl[g] EXCEPT !.state = "orphan", !.held = pending]
                                   ELSE fl[g]]
\* mutated: the entry of the chat goes whatever its set holds.
EndsEmpty(f, done, rest) ==
    /\ busy' = "no"
    /\ receiptSent' = IF done = {} THEN receiptSent ELSE flight[f].known \cup done
    /\ receiptUnread' = IF done = {} THEN receiptUnread ELSE 0
    /\ pending' = {}
    /\ flight' = Orphaned([flight EXCEPT ![f] = NoReceiptFlush])

Ends(f, done, rest) ==
    /\ busy' = "no"
    /\ receiptSent' = IF done = {} THEN receiptSent ELSE flight[f].known \cup done
    /\ receiptUnread' = IF done = {} THEN receiptUnread ELSE 0
    /\ IF rest = {}
       THEN /\ pending' = {}
            /\ flight' = Orphaned([flight EXCEPT ![f] = NoReceiptFlush])
       ELSE /\ pending' = IF flight[f].state = "current" THEN rest ELSE pending
            /\ flight' = [flight EXCEPT ![f] = NoReceiptFlush]

(* The answer for one batch.                                               *)
BatchAnswered(f, batch) ==
    LET done == flight[f].done \cup batch
        object == IF flight[f].state = "current" THEN pending ELSE flight[f].held
    IN
    /\ flight[f].state # "idle" /\ batch # {} /\ batch \subseteq flight[f].todo
    /\ told' = told \cup batch
    /\ IF batch = flight[f].todo
       THEN Ends(f, done, object \ batch)
       ELSE /\ flight' = [flight EXCEPT ![f].todo = @ \ batch, ![f].done = done,
                                        ![f].held = @ \ batch]
            /\ pending' = IF flight[f].state = "current" THEN pending \ batch ELSE pending
            /\ UNCHANGED <<receiptSent, busy, receiptUnread>>
    /\ UNCHANGED <<list, timer, tracked, crossed, resets>>

BatchFails(f, batch) ==
    /\ flight[f].state # "idle" /\ batch \subseteq flight[f].todo
    /\ told' = told \cup batch
    /\ Ends(f, flight[f].done, IF flight[f].state = "current" THEN pending ELSE flight[f].held)
    /\ UNCHANGED <<list, timer, tracked, crossed, resets>>
-----------------------------------------------------------------------------
(* resetReadReceiptTrackingState, by a full synchronisation (which also    *)
(* empties the list) or at its end; flushes go on with the old set.        *)
ResetTracking(emptied) ==
    /\ resets < MaxResets /\ resets' = resets + 1
    /\ list' = IF emptied = "yes" THEN << >> ELSE list
    /\ receiptUnread' = 0 /\ pending' = {} /\ receiptSent' = {} /\ busy' = "no"
    /\ timer' = "off"
    /\ tracked' = {}
    /\ flight' = Orphaned(flight)
    /\ crossed' = IF \E f \in ReceiptFlushes : flight[f].state # "idle" THEN "yes" ELSE crossed
    /\ UNCHANGED told

(* Rows and count are restored, what was pending or sent is not.           *)
ReceiptsReloadPage ==
    /\ resets < MaxResets /\ resets' = resets + 1
    /\ pending' = {} /\ receiptSent' = {} /\ busy' = "no" /\ timer' = "off"
    /\ flight' = [f \in ReceiptFlushes |-> NoReceiptFlush]
    /\ tracked' = {} /\ crossed' = "no"
    /\ UNCHANGED <<list, receiptUnread, told>>

WebReceiptsNext ==
    \/ \E m \in ReceiptIds, seen \in {"yes", "no"} : Arrives(m, seen)
    \/ \E m \in ReceiptIds, place \in 0..Len(list) : Recovered(m, place)
    \/ \E f \in ReceiptFlushes, network \in {"yes", "no"} : TimerFires(f, network)
    \/ \E f \in ReceiptFlushes, batch \in SUBSET ReceiptIds :
           BatchAnswered(f, batch) \/ BatchFails(f, batch)
    \/ \E emptied \in {"yes", "no"} : ResetTracking(emptied)
    \/ OpenChat \/ ReachBottom \/ ReadElsewhere \/ ReceiptsReloadPage

WebReceiptsSpec == WebReceiptsInit /\ [][WebReceiptsNext]_receiptVars
-----------------------------------------------------------------------------
(* A message that was tracked is still pending or the server has its       *)
(* receipt: messages may come while a flush waits, batches may fail and    *)
(* answers may get lost.  Only a reset under a flush forgets some.         *)
TrackedIsOwed == crossed = "no" => tracked \subseteq pending \cup told
=============================================================================
