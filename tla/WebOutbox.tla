----------------------------- MODULE WebOutbox -----------------------------
(***************************************************************************)
(* How the web client sends a message and keeps what it could not send     *)
(* (src/frontend/src/app/core/services/chat-store.service.ts).  Unsent     *)
(* messages are saved at once in localStorage, the rows of the chat a      *)
(* quarter of a second later in IndexedDB.  A flush loads the saved        *)
(* outbox, awaits one request per item and then saves what is left of the  *)
(* items IT loaded; nothing stops two flushes, or a send that fails while  *)
(* a flush is waiting.  A page may be closed at any of these points.       *)
(***************************************************************************)
EXTENDS Naturals

CONSTANTS OutMessages,      \* messages the user writes to somebody else
          OutboxFlushes,    \* calls of flushOutbox that may overlap
          MaxSendAttempts,  \* attempts after which an item is given up (4)
          MaxRestarts       \* bound: closed pages and sessions

ASSUME AttemptsAssumption == MaxSendAttempts \in Nat \ {0} /\ MaxRestarts \in Nat

VARIABLES session,   \* "open" while currentUser is set
          outRow,    \* deliveryStatus of the row in memory, "none" without one
          outDisk,   \* the same in IndexedDB
          outDirty,  \* "yes" while persistTimer is armed
          outbox,    \* attempts of the saved item, MaxSendAttempts without one
          sending,   \* messages whose first request is awaited
          outFlush,  \* the running flushes
          server,    \* messages the server accepted
          handed,    \* requests the service worker answered with 202 and keeps
          gone,      \* history: items given up, or wiped by the user's full sync
          erased,    \* history: items saved during a flush, erased by its end
          restarts   \* restarts and logouts so far (bounded)

outVars == <<session, outRow, outDisk, outDirty, outbox, sending, outFlush,
             server, handed, gone, erased, restarts>>

Statuses == {"none", "pending", "queued", "sent", "delivered", "read", "failed"}
NothingQueued == [m \in OutMessages |-> MaxSendAttempts]
NoOutRows == [m \in OutMessages |-> "none"]
QueuedIn(items) == {m \in OutMessages : items[m] < MaxSendAttempts}
NoOutboxFlush == [state |-> "idle", left |-> {}, loaded |-> NothingQueued,
                  next |-> NothingQueued]

WebOutboxTypeOK ==
    /\ session \in {"open", "closed"}
    /\ outRow \in [OutMessages -> Statuses] /\ outDisk \in [OutMessages -> Statuses]
    /\ outDirty \in {"yes", "no"}
    /\ outbox \in [OutMessages -> 0..MaxSendAttempts]
    /\ sending \subseteq OutMessages
    /\ outFlush \in [OutboxFlushes -> [state : {"idle", "flush", "wipe"},
                              left : SUBSET OutMessages,
                              loaded : [OutMessages -> 0..MaxSendAttempts],
                              next : [OutMessages -> 0..MaxSendAttempts]]]
    /\ server \subseteq OutMessages /\ handed \subseteq OutMessages
    /\ gone \subseteq OutMessages /\ erased \subseteq OutMessages
    /\ restarts \in 0..MaxRestarts

WebOutboxInit ==
    /\ session = "open"
    /\ outRow = NoOutRows /\ outDisk = NoOutRows /\ outDirty = "no"
    /\ outbox = NothingQueued /\ sending = {}
    /\ outFlush = [f \in OutboxFlushes |-> NoOutboxFlush]
    /\ server = {} /\ handed = {} /\ gone = {} /\ erased = {} /\ restarts = 0
-----------------------------------------------------------------------------
(* What a row may become (shouldApplyDeliveryStatusTransition).  Nothing   *)
(* stops a late "sent" from replacing "delivered".                         *)
Becomes(from, to) ==
    CASE from \in {"none", "read"} -> from
      [] to = "failed" /\ from \notin {"pending", "queued"} -> from
      [] to \in {"pending", "queued"} /\ from \in {"sent", "delivered"} -> from
      [] OTHER -> to

SetStatus(m, status) ==
    /\ outRow' = [outRow EXCEPT ![m] = Becomes(@, status)]
    /\ outDirty' = "yes"

(* A request that did not come back may have been accepted all the same.   *)
MaybeAccepted(ms) == \E some \in SUBSET ms : server' = server \cup some

(* The row is appended first; offline (networkOnline, which may change at  *)
(* any time) the message goes to the outbox at once, online its request    *)
(* starts.                                                                 *)
Dispatch(m, online) ==
    /\ session = "open" /\ outRow[m] = "none" /\ m \notin server
    /\ m \notin sending /\ outbox[m] = MaxSendAttempts /\ m \notin gone \cup erased
    /\ outDirty' = "yes"
    /\ \/ /\ online = "no"
          /\ outRow' = [outRow EXCEPT ![m] = "queued"]
          /\ outbox' = [outbox EXCEPT ![m] = 0]
          /\ UNCHANGED sending
       \/ /\ online = "yes"
          /\ outRow' = [outRow EXCEPT ![m] = "pending"]
          /\ sending' = sending \cup {m}
          /\ UNCHANGED outbox
    /\ UNCHANGED <<session, outDisk, outFlush, server, handed, gone, erased, restarts>>

(* A request succeeds when the server answers it, and also when the        *)
(* service worker cannot reach the server and answers 202 itself.          *)
Answered(m, by) ==
    /\ SetStatus(m, "sent")
    /\ \/ by = "server" /\ server' = server \cup {m} /\ UNCHANGED handed
       \/ by = "worker" /\ handed' = handed \cup {m} /\ UNCHANGED server

SendSucceeds(m, by) ==
    /\ m \in sending
    /\ sending' = sending \ {m}
    /\ Answered(m, by)
    /\ UNCHANGED <<session, outDisk, outbox, outFlush, gone, erased, restarts>>

\* mutated: the item is not saved.
SendFailsUnsaved(m) ==
    /\ m \in sending
    /\ sending' = sending \ {m}
    /\ MaybeAccepted({m})
    /\ SetStatus(m, "queued")
    /\ UNCHANGED <<session, outDisk, outbox, outFlush, handed, gone, erased, restarts>>

(* Neither the socket's acknowledgement nor the answer of the HTTP call    *)
(* came: the item is saved if somebody is still signed in.                 *)
SendFails(m) ==
    /\ m \in sending
    /\ sending' = sending \ {m}
    /\ MaybeAccepted({m})
    /\ SetStatus(m, "queued")
    /\ outbox' = IF session = "open" THEN [outbox EXCEPT ![m] = 0] ELSE outbox
    /\ UNCHANGED <<session, outDisk, outFlush, handed, gone, erased, restarts>>
-----------------------------------------------------------------------------
(* A flush, started online, takes its copy of the saved items; the full    *)
(* synchronisation starts one too, and wipes the client when it ends.      *)
StartOutboxFlush(f, purpose) ==
    /\ session = "open" /\ outFlush[f].state = "idle"
    /\ purpose = "wipe" \/ QueuedIn(outbox) # {}
    /\ outFlush' = [outFlush EXCEPT ![f] = [state |-> purpose, left |-> QueuedIn(outbox),
                                      loaded |-> outbox, next |-> NothingQueued]]
    /\ UNCHANGED <<session, outRow, outDisk, outDirty, outbox, sending, server, handed,
                   gone, erased, restarts>>

FlushedOne(f, m, by) ==
    /\ m \in outFlush[f].left
    /\ outFlush' = [outFlush EXCEPT ![f].left = @ \ {m}]
    /\ Answered(m, by)
    /\ UNCHANGED <<session, outDisk, outbox, sending, gone, erased, restarts>>

FailedOne(f, m) ==
    LET attempts == outFlush[f].loaded[m] + 1 IN
    /\ m \in outFlush[f].left
    /\ outFlush' = [outFlush EXCEPT ![f].left = @ \ {m}, ![f].next[m] = attempts]
    /\ MaybeAccepted({m})
    /\ SetStatus(m, IF attempts = MaxSendAttempts THEN "failed" ELSE "queued")
    /\ gone' = IF attempts = MaxSendAttempts THEN gone \cup {m} ELSE gone
    /\ UNCHANGED <<session, outDisk, outbox, sending, handed, erased, restarts>>

(* What a flush leaves behind replaces the saved outbox as a whole.        *)
EndOutboxFlush(f) ==
    /\ outFlush[f].state = "flush" /\ outFlush[f].left = {}
    /\ outbox' = outFlush[f].next
    /\ erased' = erased \cup (QueuedIn(outbox) \ QueuedIn(outFlush[f].loaded))
    /\ outFlush' = [outFlush EXCEPT ![f] = NoOutboxFlush]
    /\ outDirty' = "yes"
    /\ UNCHANGED <<session, outRow, outDisk, sending, server, handed, gone, restarts>>

(* forceSyncAllMessagesAndClearCache: outbox, rows and disk are cleared.   *)
EndFullSync(f) ==
    /\ outFlush[f].state = "wipe" /\ outFlush[f].left = {}
    /\ gone' = gone \cup QueuedIn(outbox) \cup QueuedIn(outFlush[f].next)
    /\ outbox' = NothingQueued /\ outRow' = NoOutRows /\ outDisk' = NoOutRows
    /\ outFlush' = [outFlush EXCEPT ![f] = NoOutboxFlush]
    /\ UNCHANGED <<session, outDirty, sending, server, handed, erased, restarts>>
-----------------------------------------------------------------------------
(* Receipts of the recipient, in any order, as often as they come.         *)
Receipt(m, status) ==
    /\ session = "open" /\ m \in server /\ outRow[m] # "none"
    /\ status = "delivered" => outRow[m] \notin {"read", "delivered"}
    /\ outRow' = [outRow EXCEPT ![m] = status]
    /\ outDirty' = "yes"
    /\ UNCHANGED <<session, outDisk, outbox, sending, outFlush, server, handed, gone,
                   erased, restarts>>

(* The service worker sends what it keeps when the network is back.        *)
WorkerDelivers(m) ==
    /\ m \in handed \ server
    /\ server' = server \cup {m}
    /\ UNCHANGED <<session, outRow, outDisk, outDirty, outbox, sending, outFlush, handed,
                   gone, erased, restarts>>

(* The history of the server brings a row the client does not have.        *)
RecoverFromLogs(m) ==
    /\ session = "open" /\ m \in server /\ outRow[m] = "none"
    /\ outRow' = [outRow EXCEPT ![m] = "delivered"]
    /\ outDirty' = "yes"
    /\ UNCHANGED <<session, outDisk, outbox, sending, outFlush, server, handed, gone,
                   erased, restarts>>

OutboxPersistState ==
    /\ outDirty = "yes"
    /\ outDisk' = IF session = "open" THEN outRow ELSE outDisk
    /\ outDirty' = "no"
    /\ UNCHANGED <<session, outRow, outbox, sending, outFlush, server, handed, gone,
                   erased, restarts>>

(* The page is closed and opened again with its session: memory is rebuilt *)
(* from the disk, requests under way are forgotten.                        *)
OutboxReloadPage ==
    /\ session = "open" /\ restarts < MaxRestarts
    /\ restarts' = restarts + 1
    /\ MaybeAccepted(sending \cup UNION {outFlush[f].left : f \in OutboxFlushes})
    /\ outRow' = outDisk /\ outDirty' = "no" /\ sending' = {}
    /\ outFlush' = [f \in OutboxFlushes |-> NoOutboxFlush]
    /\ UNCHANGED <<session, outDisk, outbox, handed, gone, erased>>

(* Memory is emptied, outbox and disk stay; flushes go on.                 *)
OutboxLogout ==
    /\ session = "open" /\ restarts < MaxRestarts
    /\ restarts' = restarts + 1
    /\ session' = "closed" /\ outRow' = NoOutRows
    /\ UNCHANGED <<outDisk, outDirty, outbox, sending, outFlush, server, handed, gone, erased>>

(* applyAuthenticatedSessionUser clears what the previous session kept,    *)
(* the outbox included.                                                    *)
OutboxLogin ==
    /\ session = "closed"
    /\ session' = "open"
    /\ gone' = gone \cup QueuedIn(outbox)
    /\ outbox' = NothingQueued /\ outRow' = NoOutRows /\ outDisk' = NoOutRows
    /\ UNCHANGED <<outDirty, sending, outFlush, server, handed, erased, restarts>>

WebOutboxNext ==
    \/ \E m \in OutMessages, online \in {"yes", "no"} : Dispatch(m, online)
    \/ \E m \in OutMessages, by \in {"server", "worker"} : SendSucceeds(m, by)
    \/ \E m \in OutMessages : SendFails(m) \/ WorkerDelivers(m) \/ RecoverFromLogs(m)
    \/ \E m \in OutMessages, status \in {"delivered", "read"} : Receipt(m, status)
    \/ \E f \in OutboxFlushes, purpose \in {"flush", "wipe"} : StartOutboxFlush(f, purpose)
    \/ \E f \in OutboxFlushes, m \in OutMessages, by \in {"server", "worker"} :
           FlushedOne(f, m, by)
    \/ \E f \in OutboxFlushes, m \in OutMessages : FailedOne(f, m)
    \/ \E f \in OutboxFlushes : EndOutboxFlush(f) \/ EndFullSync(f)
    \/ OutboxPersistState \/ OutboxReloadPage \/ OutboxLogout \/ OutboxLogin

WebOutboxSpec == WebOutboxInit /\ [][WebOutboxNext]_outVars
-----------------------------------------------------------------------------
(* A row the user sees as queued is accounted for: its item is saved, the  *)
(* server has the message, or it was given up; the one other way out is a  *)
(* flush that was waiting while the item was saved (flushOutbox against    *)
(* queueDirectMessage and queueGroupMessage).                              *)
QueuedIsKept ==
    \A m \in OutMessages :
        outRow[m] = "queued" =>
            m \in QueuedIn(outbox) \cup server \cup handed \cup gone \cup erased
=============================================================================
