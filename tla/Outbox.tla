--------------------------------- MODULE Outbox ---------------------------------
(***************************************************************************)
(* Sending from the Flutter app: the bubble, the durable OutboxItems row,  *)
(* and the three routes that submit a row, which do not know of each       *)
(* other: sendDirectMessage / sendGroupMessage (compose), _retryOutbox     *)
(* when the app starts (retry) and OutboxProcessor.drainQueue when the     *)
(* transport reports connected (drain); with them the delivery status in   *)
(* memory and in the Messages table, which echoes and receipts change too, *)
(* and clearAll and the full sync, which delete rows and messages alike.   *)
(*                                                                         *)
(* Of the server there is the status it knows of a message and the claim   *)
(* in memory by which it answers a request as a duplicate, also while the  *)
(* request that made the claim is still being handled (ReplyPipeline has   *)
(* the handler in detail; a claim that expires, ten minutes on, is left    *)
(* out, since the unique index then answers as the claim did).  The device *)
(* has one user: to him a change of user is a clearing of all there is.    *)
(* The SQLite queue is first in first out, so a write-through is done      *)
(* before the awaited call that follows it.                                *)
(***************************************************************************)
EXTENDS Integers, FiniteSets

CONSTANTS
  Msgs,
  MaxFaults,   \* bound: failed requests, handlers and inserts, server restarts
  MaxKills,    \* bound: times the app is terminated
  MaxWipes     \* bound: times the local data is cleared

ASSUME OutboxAssumption == {MaxFaults, MaxKills, MaxWipes} \subseteq Nat

VARIABLES
  app,        \* "dead" or "running"
  connected,  \* _isConnected, "yes" or "no"
  shown,      \* deliveryStatus in state.messagesByChat
  stored,     \* deliveryStatus in the Messages table
  outbox,     \* rows of OutboxItems
  resting,    \* the rows with nextAttemptAt in the future
  composed,   \* the messages whose id was generated
  server,     \* the status the server knows, "none" before it has the message
  claim,      \* recentProcessedReplyMessages: "free", or the message is in it,
              \* "handling" or "done"
  at,         \* where each route is with each message
  list,       \* of retry and drain: "idle", "due" to be read, or "read"
  todo,       \* of retry and drain: what is left of the rows read
  disk,       \* "works", or "fails" where enqueueOutbox may throw (the web
              \* without sqlite3.wasm)
  wiping,     \* "yes" from the clearing of the database to that of the memory
  early,      \* for the properties: answered as a duplicate of a request that
              \* had stored nothing yet
  wiped,      \* for the properties: the message's row was cleared
  faults, kills, wipes

appVars    == <<app, connected>>
statusVars == <<shown, stored>>
rowVars    == <<outbox, resting>>
serverVars == <<server, claim, early>>
listVars   == <<list, todo>>
wipeVars   == <<wiping, wiped, wipes>>
envVars    == <<disk, faults, kills>>
vars == <<app, connected, shown, stored, outbox, resting, composed, server, claim,
          early, at, list, todo, wiping, wiped, wipes, disk, faults, kills>>

Routes  == {"compose", "retry", "drain"}
Readers == {"retry", "drain"}
Accepted == {"sent", "delivered"}   \* a message that is read is "delivered" too
Status == {"none", "pending", "failed"} \cup Accepted
Rank == [none |-> 0, failed |-> 1, pending |-> 2, sent |-> 3, delivered |-> 4]

\* _maxDeliveryStatus: a failed status gives way to any other.
MaxStatus(a, b) == IF Rank[a] >= Rank[b] THEN a ELSE b

Goto(r, m, step) == at' = [at EXCEPT ![r][m] = step]
Fault == faults < MaxFaults /\ faults' = faults + 1 /\ UNCHANGED <<disk, kills>>

\* ChatStoreService._updateMessageStatus: in memory, and written through, if
\* the message is in memory.
SetStatus(m, s) ==
  IF shown[m] = "none" THEN UNCHANGED statusVars
  ELSE shown' = [shown EXCEPT ![m] = s] /\ stored' = [stored EXCEPT ![m] = s]

\* OutboxProcessor._updateMessageStatus: in the table only.
SetStored(m, s) ==
  /\ stored' = IF stored[m] = "none" THEN stored ELSE [stored EXCEPT ![m] = s]
  /\ UNCHANGED shown

Init ==
  /\ app = "dead" /\ connected = "no"
  /\ shown = [m \in Msgs |-> "none"] /\ stored = [m \in Msgs |-> "none"]
  /\ outbox = {} /\ resting = {} /\ composed = {}
  /\ server = [m \in Msgs |-> "none"] /\ claim = [m \in Msgs |-> "free"]
  /\ early = {}
  /\ at = [r \in Routes |-> [m \in Msgs |-> "idle"]]
  /\ list = [r \in Readers |-> "idle"] /\ todo = [r \in Readers |-> {}]
  /\ wiping = "no" /\ wiped = {} /\ wipes = 0
  /\ disk \in {"works", "fails"} /\ faults = 0 /\ kills = 0

-----------------------------------------------------------------------------
(* The app, the connection and the clock.                                  *)

\* initialize: the cache is restored, _retryOutbox is started, and drainQueue,
\* which returns at once if the transport is not connected.
Initialize ==
  /\ shown' = stored
  /\ list' = [r \in Readers |->
                IF list[r] = "idle" /\ (r = "retry" \/ connected = "yes") THEN "due" ELSE list[r]]

AppStart ==
  /\ app = "dead"
  /\ app' = "running"
  /\ Initialize
  /\ UNCHANGED <<connected, rowVars, stored, composed, serverVars, at, todo, wipeVars, envVars>>

AppKilled ==
  /\ app = "running" /\ kills < MaxKills
  /\ kills' = kills + 1
  /\ app' = "dead" /\ connected' = "no" /\ wiping' = "no"
  /\ shown' = [m \in Msgs |-> "none"]
  /\ at' = [r \in Routes |-> [m \in Msgs |-> "idle"]]
  /\ list' = [r \in Readers |-> "idle"] /\ todo' = [r \in Readers |-> {}]
  /\ UNCHANGED <<stored, rowVars, composed, serverVars, wiped, wipes, disk, faults>>

ConnectOnly ==                   \* mutated: no drain on reconnection
  /\ app = "running" /\ connected = "no"
  /\ connected' = "yes"
  /\ UNCHANGED <<app, statusVars, rowVars, composed, serverVars, at, listVars, wipeVars, envVars>>

\* connected$ emits true: the queue is drained, unless it is being drained.
Connect ==
  /\ app = "running" /\ connected = "no"
  /\ connected' = "yes"
  /\ list' = [list EXCEPT !["drain"] = IF @ = "idle" THEN "due" ELSE @]
  /\ UNCHANGED <<app, statusVars, rowVars, composed, serverVars, at, todo, wipeVars, envVars>>

Disconnect ==
  /\ connected = "yes"
  /\ connected' = "no"
  /\ UNCHANGED <<app, statusVars, rowVars, composed, serverVars, at, listVars, wipeVars, envVars>>

BackoffEnds(m) ==
  /\ m \in resting
  /\ resting' = resting \ {m}
  /\ UNCHANGED <<appVars, statusVars, outbox, composed, serverVars, at, listVars, wipeVars, envVars>>

\* clearAll at logout, at a login, for another user's session and at the first
\* launch, and the full sync: rows and messages are deleted, the routes go on.
ClearDatabase ==
  /\ app = "running" /\ wiping = "no" /\ wipes < MaxWipes
  /\ wiping' = "yes" /\ wipes' = wipes + 1
  /\ outbox' = {} /\ resting' = {} /\ wiped' = wiped \cup outbox
  /\ stored' = [m \in Msgs |-> "none"]
  /\ UNCHANGED <<appVars, shown, composed, serverVars, at, listVars, envVars>>

\* The full sync goes on when the database throws; clearAll throws with it.
ClearDatabaseFails ==
  /\ disk = "fails" /\ app = "running" /\ wiping = "no" /\ wipes < MaxWipes
  /\ wiping' = "yes" /\ wipes' = wipes + 1
  /\ UNCHANGED <<appVars, statusVars, rowVars, composed, serverVars, at, listVars, wiped, envVars>>

\* Some awaits later.
ClearMemory ==
  /\ wiping = "yes"
  /\ wiping' = "no"
  /\ shown' = [m \in Msgs |-> "none"]
  /\ UNCHANGED <<appVars, stored, rowVars, composed, serverVars, at, listVars, wiped, wipes, envVars>>

\* After a login the shell is opened again; initialize itself goes on after
\* its own clearing.
InitializeAgain ==
  /\ app = "running" /\ wipes > 0 /\ wiping = "no" /\ shown = [m \in Msgs |-> "none"]
  /\ Initialize
  /\ UNCHANGED <<appVars, stored, rowVars, composed, serverVars, at, todo, wipeVars, envVars>>

-----------------------------------------------------------------------------
(* The routes.                                                             *)

\* The bubble, before the row.
Bubble(m) ==
  /\ app = "running" /\ m \notin composed
  /\ composed' = composed \cup {m}
  /\ shown' = [shown EXCEPT ![m] = "pending"]
  /\ stored' = [stored EXCEPT ![m] = "pending"]
  /\ Goto("compose", m, "bubble")
  /\ UNCHANGED <<appVars, rowVars, serverVars, listVars, wipeVars, envVars>>

EnqueueLater(m) ==               \* mutated: the row is not awaited before sending
  /\ at["compose"][m] = "bubble"
  /\ Goto("compose", m, "sending")
  /\ UNCHANGED <<appVars, statusVars, rowVars, composed, serverVars, listVars, wipeVars, envVars>>

Enqueue(m) ==
  /\ at["compose"][m] = "bubble"
  /\ outbox' = outbox \cup {m}
  /\ Goto("compose", m, "sending")
  /\ UNCHANGED <<appVars, statusVars, resting, composed, serverVars, listVars, wipeVars, envVars>>

EnqueueFails(m) ==
  /\ disk = "fails" /\ at["compose"][m] = "bubble"
  /\ SetStatus(m, "failed")
  /\ Goto("compose", m, "idle")
  /\ Fault
  /\ UNCHANGED <<appVars, rowVars, composed, serverVars, listVars, wipeVars>>

\* _retryOutbox reads every row, drainQueue those that are due.
ReadRows(r) ==
  /\ list[r] = "due"
  /\ list' = [list EXCEPT ![r] = "read"]
  /\ todo' = [todo EXCEPT ![r] = IF r = "retry" THEN outbox ELSE outbox \ resting]
  /\ UNCHANGED <<appVars, statusVars, rowVars, composed, serverVars, at, wipeVars, envVars>>

\* One row after the other; _retryOutbox passes over it while clearAll has
\* set _currentUser to null.
NextRow(r, m) ==
  /\ m \in todo[r] /\ \A k \in Msgs : at[r][k] = "idle"
  /\ todo' = [todo EXCEPT ![r] = @ \ {m}]
  /\ Goto(r, m, "sending") \/ (r = "retry" /\ wiping = "yes" /\ UNCHANGED at)
  /\ UNCHANGED <<appVars, statusVars, rowVars, composed, serverVars, list, wipeVars, envVars>>

RowsDone(r) ==
  /\ list[r] = "read" /\ todo[r] = {} /\ \A k \in Msgs : at[r][k] = "idle"
  /\ list' = [list EXCEPT ![r] = "idle"]
  /\ UNCHANGED <<appVars, statusVars, rowVars, composed, serverVars, at, todo, wipeVars, envVars>>

\* The request reaches the server, which claims the message and handles it ...
Arrive(r, m) ==
  /\ at[r][m] = "sending" /\ claim[m] = "free"
  /\ claim' = [claim EXCEPT ![m] = "handling"]
  /\ Goto(r, m, "waiting")
  /\ UNCHANGED <<appVars, statusVars, rowVars, composed, server, early, listVars, wipeVars, envVars>>

\* ... or, claimed already, is answered success at once, whatever became of
\* the request that claimed it ...
AnsweredDuplicate(r, m) ==
  /\ at[r][m] = "sending" /\ claim[m] # "free"
  /\ early' = IF server[m] = "none" THEN early \cup {m} ELSE early
  /\ Goto(r, m, "acked")
  /\ UNCHANGED <<appVars, statusVars, rowVars, composed, server, claim, listVars, wipeVars, envVars>>

RefusedUnseen(r, m) ==           \* mutated: an unsuccessful answer is ignored
  /\ at[r][m] = "sending"
  /\ Goto(r, m, "acked")
  /\ Fault
  /\ UNCHANGED <<appVars, statusVars, rowVars, composed, serverVars, listVars, wipeVars>>

\* ... or is refused, or lost, or its answer as a duplicate is.
Refused(r, m) ==
  /\ at[r][m] = "sending"
  /\ Goto(r, m, "missed")
  /\ Fault
  /\ UNCHANGED <<appVars, statusVars, rowVars, composed, serverVars, listVars, wipeVars>>

\* No answer in time: the socket is followed by HTTP and HTTP is retried
\* ("sending"), or the retries are used up; the server handles it still.
TimesOut(r, m) ==
  /\ at[r][m] = "waiting"
  /\ \E step \in {"sending", "missed"} : Goto(r, m, step)
  /\ Fault
  /\ UNCHANGED <<appVars, statusVars, rowVars, composed, serverVars, listVars, wipeVars>>

\* Whoever still waits for the handling of m is answered.
Answer(m, step) ==
  at' = [r \in Routes |->
          [at[r] EXCEPT ![m] = IF @ = "waiting" THEN step ELSE @]]

Receive(m) == server' = [server EXCEPT ![m] = IF @ = "none" THEN "sent" ELSE @]

\* The transaction commits, or meets the unique index: success.
HandlerStores(m) ==
  /\ claim[m] = "handling"
  /\ Receive(m)
  /\ claim' = [claim EXCEPT ![m] = "done"]
  /\ Answer(m, "acked")
  /\ UNCHANGED <<appVars, statusVars, rowVars, composed, early, listVars, wipeVars, envVars>>

\* The transaction fails, or what follows the commit: the claim is given up.
HandlerFails(m) ==
  /\ claim[m] = "handling"
  /\ Receive(m) \/ UNCHANGED server
  /\ claim' = [claim EXCEPT ![m] = "free"]
  /\ \E step \in {"sending", "missed"} : Answer(m, step)
  /\ Fault
  /\ UNCHANGED <<appVars, statusVars, rowVars, composed, early, listVars, wipeVars>>

\* The claims and what was being handled are gone.
ServerRestarts ==
  /\ \E m \in Msgs : claim[m] # "free"
  /\ claim' = [m \in Msgs |-> "free"]
  /\ \E step \in {"sending", "missed"} :
       at' = [r \in Routes |-> [m \in Msgs |-> IF at[r][m] = "waiting" THEN step ELSE at[r][m]]]
  /\ Fault
  /\ UNCHANGED <<appVars, statusVars, rowVars, composed, server, early, listVars, wipeVars>>

\* compose and retry: the status first, then the row.
Settle(r, m) ==
  /\ r # "drain" /\ at[r][m] \in {"acked", "missed"}
  /\ SetStatus(m, IF at[r][m] = "acked" THEN "sent" ELSE "failed")
  /\ Goto(r, m, IF at[r][m] = "acked" THEN "settled" ELSE "idle")
  /\ UNCHANGED <<appVars, rowVars, composed, serverVars, listVars, wipeVars, envVars>>

\* Whoever comes first removes the row; for the others there is none.
RemoveRow(r, m) ==
  /\ at[r][m] = IF r = "drain" THEN "acked" ELSE "settled"
  /\ outbox' = outbox \ {m} /\ resting' = resting \ {m}
  /\ Goto(r, m, IF r = "drain" THEN "settled" ELSE "idle")
  /\ UNCHANGED <<appVars, statusVars, composed, serverVars, listVars, wipeVars, envVars>>

\* drain: the row first, then the status.
DrainSettles(m) ==
  /\ at["drain"][m] = "settled"
  /\ SetStored(m, "sent")
  /\ Goto("drain", m, "idle")
  /\ UNCHANGED <<appVars, rowVars, composed, serverVars, listVars, wipeVars, envVars>>

DrainGivesUp(m) ==               \* mutated: the row is dropped
  /\ at["drain"][m] = "missed"
  /\ outbox' = outbox \ {m} /\ resting' = resting \ {m}
  /\ SetStored(m, "failed")
  /\ Goto("drain", m, "idle")
  /\ UNCHANGED <<appVars, composed, serverVars, listVars, wipeVars, envVars>>

\* updateOutboxRetry, an UPDATE of the row if it still exists, and the status.
DrainMisses(m) ==
  /\ at["drain"][m] = "missed"
  /\ resting' = resting \cup ({m} \cap outbox)
  /\ SetStored(m, "failed")
  /\ Goto("drain", m, "idle")
  /\ UNCHANGED <<appVars, outbox, composed, serverVars, listVars, wipeVars, envVars>>

-----------------------------------------------------------------------------
(* What comes back.                                                        *)

\* The recipient's device confirms, or its user reads.
Confirm(m) ==
  /\ server[m] = "sent"
  /\ server' = [server EXCEPT ![m] = "delivered"]
  /\ UNCHANGED <<appVars, statusVars, rowVars, composed, claim, early, at, listVars, wipeVars, envVars>>

\* A receipt advances the status in memory; _schedulePersistence writes no
\* messages.
Receipt(m) ==
  /\ app = "running" /\ shown[m] # "none" /\ server[m] = "delivered"
  /\ shown' = [shown EXCEPT ![m] = MaxStatus(@, "delivered")]
  /\ UNCHANGED <<appVars, stored, rowVars, composed, serverVars, at, listVars, wipeVars, envVars>>

\* A sync returns the own message, with its status or with a stale one;
\* _hydrateExistingMessage merges it and the result is written through.
Echo(m) ==
  /\ app = "running" /\ server[m] # "none"
  /\ \E s \in {"sent", server[m]} :
       /\ shown' = [shown EXCEPT ![m] = MaxStatus(@, s)]
       /\ stored' = [stored EXCEPT ![m] = MaxStatus(shown[m], s)]
  /\ UNCHANGED <<appVars, rowVars, composed, serverVars, at, listVars, wipeVars, envVars>>

-----------------------------------------------------------------------------

ComposeStep(m) == Enqueue(m) \/ EnqueueFails(m)
Request(r, m) == Arrive(r, m) \/ AnsweredDuplicate(r, m) \/ Refused(r, m)
SendStep(r, m) == Request(r, m) \/ TimesOut(r, m) \/ Settle(r, m) \/ RemoveRow(r, m)
HandlerStep(m) == HandlerStores(m) \/ HandlerFails(m)
DrainStep(m) == DrainSettles(m) \/ DrainMisses(m)
ReaderStep(r) == ReadRows(r) \/ RowsDone(r) \/ \E m \in Msgs : NextRow(r, m)
Back(m) == Confirm(m) \/ Receipt(m) \/ Echo(m)

Next ==
  \/ AppStart \/ AppKilled \/ Connect \/ Disconnect \/ ServerRestarts
  \/ ClearDatabase \/ ClearDatabaseFails \/ ClearMemory \/ InitializeAgain
  \/ \E m \in Msgs : \/ Bubble(m) \/ BackoffEnds(m) \/ ComposeStep(m) \/ DrainStep(m)
                    \/ HandlerStep(m) \/ Back(m)
  \/ \E r \in Routes, m \in Msgs : SendStep(r, m)
  \/ \E r \in Readers : ReaderStep(r)

\* The user opens the app again, time passes, requests and handlers end and
\* the transport connects.  That a connection is ever lost is not assumed.
Fairness ==
  /\ WF_vars(AppStart) /\ WF_vars(Connect) /\ WF_vars(ClearMemory)
  /\ \A m \in Msgs : /\ WF_vars(BackoffEnds(m)) /\ WF_vars(ComposeStep(m))
                     /\ WF_vars(DrainStep(m)) /\ WF_vars(HandlerStep(m))
  /\ \A r \in Routes, m \in Msgs : WF_vars(SendStep(r, m))
  /\ \A r \in Readers : WF_vars(ReaderStep(r))

Spec == Init /\ [][Next]_vars /\ Fairness

-----------------------------------------------------------------------------
(* Properties.                                                             *)

\* Every variable has its type; only existing rows rest.
TypeOK ==
  /\ app \in {"dead", "running"} /\ connected \in {"yes", "no"}
  /\ shown \in [Msgs -> Status] /\ stored \in [Msgs -> Status]
  /\ outbox \subseteq Msgs /\ resting \subseteq outbox
  /\ composed \subseteq Msgs /\ early \subseteq Msgs /\ wiped \subseteq Msgs
  /\ server \in [Msgs -> {"none"} \cup Accepted]
  /\ claim \in [Msgs -> {"free", "handling", "done"}]
  /\ at \in [Routes -> [Msgs -> {"idle", "bubble", "sending", "waiting", "acked", "missed",
                                "settled"}]]
  /\ list \in [Readers -> {"idle", "due", "read"}] /\ todo \in [Readers -> SUBSET Msgs]
  /\ wiping \in {"yes", "no"} /\ wipes \in 0..MaxWipes
  /\ disk \in {"works", "fails"}
  /\ faults \in 0..MaxFaults /\ kills \in 0..MaxKills

\* The server has the message, or has answered that it has: a duplicate is
\* answered from the claim, before the claiming request has stored anything
\* (server.js:2799-2810, the run reply_lost).
Known(m) == server[m] # "none" \/ m \in early

\* A tick tells the truth: what is shown or stored as sent or delivered
\* has reached the server, whichever routes raced for it, unless the server
\* itself said so too early.
TickIsTrue ==
  \A m \in Msgs : shown[m] \in Accepted \/ stored[m] \in Accepted => Known(m)

\* A row leaves the outbox only when the server has its message or has said
\* so, or when all local data is cleared.
RemovedIsReceived ==
  [][\A m \in outbox \ outbox' : Known(m) \/ m \in wiped']_vars

\* outbox_processor.dart:18, a message that failed is in the outbox, or the
\* server has it after all or has said so, or its row was cleared with all
\* local data, where inserting the row does not throw.
FailedIsQueued ==
  disk = "works" => \A m \in Msgs :
    "failed" \in {shown[m], stored[m]} => m \in outbox \/ Known(m) \/ m \in wiped

\* outbox_processor.dart:18, what is in the outbox is retried automatically
\* until the server has it (RELIABILITY_ARCHITECTURE.md:291, every 30 seconds).
EventuallySent == \A m \in Msgs : m \in outbox ~> m \notin outbox \/ server[m] # "none"

\* What the code does of it: every row leaves if connections are lost and made
\* again and again, for while the app runs only a reconnection drains them.
DrainedByReconnecting ==
  []<>(connected = "no") => \A m \in Msgs : m \in outbox ~> m \notin outbox
===============================================================================
