---------------------------- MODULE ReplyPipeline ----------------------------
(***************************************************************************)
(* The message send path of server.js: processReplyPayload, which the      *)
(* socket event chat:reply and POST /reply both call, together with the    *)
(* stores it writes (the in-memory dedupe map, the MySQL transaction) and  *)
(* with the client's outbox, whose retries make two invocations for one    *)
(* message run side by side.  Of addToQueue this module keeps which        *)
(* mailboxes a queue entry is built for; what becomes of the entry is the  *)
(* subject of module Mailbox.                                              *)
(*                                                                         *)
(* Node runs the code between two awaits without interruption, so an       *)
(* action is the code from one await to the next.  A slot stands for one   *)
(* invocation; it is free again once the client has stopped waiting.       *)
(***************************************************************************)
EXTENDS Integers, FiniteSets, Sequences

CONSTANTS
  Msgs,             \* clientMsgIds
  NoMsg,            \* carried by an idle slot
  Users,            \* mailbox owners
  Slots,            \* concurrent invocations of processReplyPayload
  Targets,          \* targetToNotify of each message, in order
  Sender,           \* the composing user of each message
  Forbidden,        \* messages canSendToCommunityGroup refuses
  RedisConfigured,  \* REDIS_URL is set (redisStore.isEnabled)
  UniqueIndex,      \* uk_client_msg_id_idempotency exists
  MaxFaults,        \* bound: database, Redis and push errors
  MaxRestarts       \* bound: restarts of the server process

ASSUME PipelineAssumption ==
  /\ NoMsg \notin Msgs
  /\ Targets \in [Msgs -> Seq(Users)]
  /\ Sender \in [Msgs -> Users]
  /\ \A m \in Msgs : \A i \in 1..Len(Targets[m]) : Targets[m][i] # Sender[m]
  /\ Forbidden \subseteq Msgs
  /\ RedisConfigured \in BOOLEAN
  /\ UniqueIndex \in BOOLEAN
  /\ MaxFaults \in Nat
  /\ MaxRestarts \in Nat

VARIABLES
  outbox,     \* messages the client still holds in OutboxItems
  pc,         \* where each slot's invocation is suspended
  req,        \* the message each slot carries
  reply,      \* what the invocation answered
  recent,     \* recentProcessedReplyMessages
  stale,      \* entries of recent older than RECENT_REPLY_MESSAGE_TTL_MS
  stored,     \* committed MessageActivities + Logs rows, per message
  handoffs,   \* queue entries addToQueue ever built, per user and message
  echoes,     \* self-echoes whose sequence is being allocated (not awaited)
  store,      \* activeRedisStateStore: "off" (null), "up", or "down" (set,
              \* but its one connection attempt failed)
  faults,     \* errors injected so far
  restarts    \* restarts so far

clientVars == <<outbox>>
slotVars   == <<pc, req, reply>>
dedupeVars == <<recent, stale>>
queueVars  == <<handoffs, echoes>>
envVars    == <<store, faults, restarts>>
vars == <<outbox, pc, req, reply, recent, stale, stored, handoffs, echoes,
          store, faults, restarts>>

\* Suspended inside processReplyPayload.
Running == {"received", "claimed", "inserted", "committed", "allocated",
            "pushing", "catch"}
PC      == Running \cup {"idle", "replied", "dead"}
Success == {"sent", "dup_memory", "dup_mysql", "no_recipients"}
Replies == Success \cup {"none", "error"}

TargetSet(m) == {Targets[m][i] : i \in 1..Len(Targets[m])}

Init ==
  /\ outbox = Msgs
  /\ pc = [s \in Slots |-> "idle"]
  /\ req = [s \in Slots |-> NoMsg]
  /\ reply = [s \in Slots |-> "none"]
  /\ recent = {} /\ stale = {}
  /\ stored = [m \in Msgs |-> 0]
  /\ handoffs = [u \in Users |-> [m \in Msgs |-> 0]]
  /\ echoes = {}
  /\ store = "off"
  /\ faults = 0 /\ restarts = 0

Goto(s, label) == pc' = [pc EXCEPT ![s] = label]
Answer(s, r)   == /\ pc' = [pc EXCEPT ![s] = "replied"]
                  /\ reply' = [reply EXCEPT ![s] = r]
Fault          == /\ faults < MaxFaults
                  /\ faults' = faults + 1
                  /\ UNCHANGED <<store, restarts>>

-----------------------------------------------------------------------------
(* The client: an outbox row is posted, by the first send, by the socket   *)
(* to HTTP fallback of _sendReply or by a drain, until a success arrives.  *)

Submit(s, m) ==
  /\ pc[s] = "idle"
  /\ m \in outbox
  /\ pc' = [pc EXCEPT ![s] = "received"]
  /\ req' = [req EXCEPT ![s] = m]
  /\ reply' = [reply EXCEPT ![s] = "none"]
  /\ UNCHANGED <<clientVars, dedupeVars, stored, queueVars, envVars>>

\* The answer arrives: a success removes the outbox row, an error keeps it.
ReceiveReply(s) ==
  /\ pc[s] = "replied"
  /\ outbox' = IF reply[s] \in Success THEN outbox \ {req[s]} ELSE outbox
  /\ pc' = [pc EXCEPT ![s] = "idle"]
  /\ req' = [req EXCEPT ![s] = NoMsg]
  /\ reply' = [reply EXCEPT ![s] = "none"]
  /\ UNCHANGED <<dedupeVars, stored, queueVars, envVars>>

\* Ack timeout, broken connection or dead server: the client keeps the row.
LoseReply(s) ==
  /\ pc[s] \in {"replied", "dead"}
  /\ pc' = [pc EXCEPT ![s] = "idle"]
  /\ req' = [req EXCEPT ![s] = NoMsg]
  /\ reply' = [reply EXCEPT ![s] = "none"]
  /\ UNCHANGED <<clientVars, dedupeVars, stored, queueVars, envVars>>

-----------------------------------------------------------------------------
(* processReplyPayload up to the claim of the message id.                  *)

\* Idempotency against Redis: the store has no getClient, so the optional
\* call yields undefined and the function answers "not processed".
CheckAndMarkMessageProcessed(m) == FALSE

RejectForbidden(s) ==
  /\ pc[s] = "received"
  /\ req[s] \in Forbidden
  /\ Answer(s, "error")
  /\ UNCHANGED <<clientVars, req, dedupeVars, stored, queueVars, envVars>>

ReplyNoRecipients(s) ==
  /\ pc[s] = "received"
  /\ req[s] \notin Forbidden
  /\ Targets[req[s]] = << >>
  /\ Answer(s, "no_recipients")
  /\ UNCHANGED <<clientVars, req, dedupeVars, stored, queueVars, envVars>>

Admitted(s) ==
  /\ pc[s] = "received"
  /\ req[s] \notin Forbidden
  /\ Targets[req[s]] # << >>

\* pruneRecentProcessedReplyMessages, then a hit in the map: success.
DedupeInMemory(s) ==
  /\ Admitted(s)
  /\ CheckAndMarkMessageProcessed(req[s]) \/ req[s] \in recent \ stale
  /\ recent' = recent \ stale
  /\ stale' = {}
  /\ Answer(s, "dup_memory")
  /\ UNCHANGED <<clientVars, req, stored, queueVars, envVars>>

\* A miss: the id is recorded as processed before anything is persisted.
Claim(s) ==
  /\ Admitted(s)
  /\ ~CheckAndMarkMessageProcessed(req[s])
  /\ req[s] \notin recent \ stale
  /\ recent' = (recent \ stale) \cup {req[s]}
  /\ stale' = {}
  /\ Goto(s, "claimed")
  /\ UNCHANGED <<clientVars, req, reply, stored, queueVars, envVars>>

TtlPasses(m) ==
  /\ m \in recent \ stale
  /\ stale' = stale \cup {m}
  /\ UNCHANGED <<clientVars, slotVars, recent, stored, queueVars, envVars>>

-----------------------------------------------------------------------------
(* insertMessageActivityAndLog: one transaction, both rows or none.  The   *)
(* unique index makes a second insert of the same id wait for the first    *)
(* transaction and then fail with ER_DUP_ENTRY.                            *)

RowFree(m) == UniqueIndex =>
                \A t \in Slots : ~(pc[t] = "inserted" /\ req[t] = m)

TxInsertUnchecked(s) ==          \* mutated: the index lookup is missing
  /\ pc[s] = "claimed"
  /\ Goto(s, "inserted")
  /\ UNCHANGED <<clientVars, req, reply, dedupeVars, stored, queueVars, envVars>>

TxInsert(s) ==
  /\ pc[s] = "claimed"
  /\ RowFree(req[s])
  /\ UniqueIndex => stored[req[s]] = 0
  /\ Goto(s, "inserted")
  /\ UNCHANGED <<clientVars, req, reply, dedupeVars, stored, queueVars, envVars>>

TxDuplicateGoesOn(s) ==          \* mutated: no early return on isDuplicate
  /\ pc[s] = "claimed"
  /\ RowFree(req[s])
  /\ UniqueIndex /\ stored[req[s]] > 0
  /\ Goto(s, "committed")
  /\ UNCHANGED <<clientVars, req, reply, dedupeVars, stored, queueVars, envVars>>

TxDuplicate(s) ==
  /\ pc[s] = "claimed"
  /\ RowFree(req[s])
  /\ UniqueIndex /\ stored[req[s]] > 0
  /\ Answer(s, "dup_mysql")
  /\ UNCHANGED <<clientVars, req, dedupeVars, stored, queueVars, envVars>>

TxFailGoesOn(s) ==               \* mutated: no throw when success is false
  /\ pc[s] \in {"claimed", "inserted"}
  /\ Goto(s, "committed")
  /\ Fault
  /\ UNCHANGED <<clientVars, req, reply, dedupeVars, stored, queueVars>>

TxFailAsDuplicate(s) ==          \* mutated: any error taken for ER_DUP_ENTRY
  /\ pc[s] \in {"claimed", "inserted"}
  /\ Answer(s, "dup_mysql")
  /\ Fault
  /\ UNCHANGED <<clientVars, req, dedupeVars, stored, queueVars>>

\* No connection, a failed insert or a failed commit: rolled back, rethrown.
TxFail(s) ==
  /\ pc[s] \in {"claimed", "inserted"}
  /\ Goto(s, "catch")
  /\ Fault
  /\ UNCHANGED <<clientVars, req, reply, dedupeVars, stored, queueVars>>

TxCommit(s) ==
  /\ pc[s] = "inserted"
  /\ stored' = [stored EXCEPT ![req[s]] = @ + 1]
  /\ Goto(s, "committed")
  /\ UNCHANGED <<clientVars, req, reply, dedupeVars, queueVars, envVars>>

\* The commit is applied but its answer is lost: the code sees an error.
TxCommitUnseen(s) ==
  /\ pc[s] = "inserted"
  /\ stored' = [stored EXCEPT ![req[s]] = @ + 1]
  /\ Goto(s, "catch")
  /\ Fault
  /\ UNCHANGED <<clientVars, req, reply, dedupeVars, queueVars>>

-----------------------------------------------------------------------------
(* addToQueue.                                                             *)

HandOff(us, m) ==
  handoffs' = [u \in Users |->
    IF u \in us THEN [handoffs[u] EXCEPT ![m] = @ + 1] ELSE handoffs[u]]

QueueLocallyFirstOnly(s) ==      \* mutated: returns inside the loop
  /\ store = "off"
  /\ pc[s] = "committed"
  /\ HandOff({Head(Targets[req[s]])}, req[s])
  /\ Goto(s, "pushing")
  /\ UNCHANGED <<clientVars, req, reply, dedupeVars, stored, echoes, envVars>>

\* While there is no store, and before loadState has set it, the loop has no
\* await: every recipient in one step.
QueueLocally(s) ==
  /\ store = "off"
  /\ pc[s] = "committed"
  /\ HandOff(TargetSet(req[s]), req[s])
  /\ Goto(s, "pushing")
  /\ UNCHANGED <<clientVars, req, reply, dedupeVars, stored, echoes, envVars>>

\* With a store the first recipient's sequence and pts are awaited first ...
AllocateSequence(s) ==
  /\ store # "off"
  /\ pc[s] = "committed"
  /\ Goto(s, "allocated")
  /\ UNCHANGED <<clientVars, req, reply, dedupeVars, stored, queueVars, envVars>>

AllocateFails(s) ==
  /\ store = "up"
  /\ pc[s] = "committed"
  /\ Goto(s, "catch")
  /\ Fault
  /\ UNCHANGED <<clientVars, req, reply, dedupeVars, stored, queueVars>>

\* ... its enqueue is started, and the return inside the loop leaves the
\* other recipients, the webhooks and the realtime clients out.
QueueFirstInRedis(s) ==
  /\ pc[s] = "allocated"
  /\ HandOff({Head(Targets[req[s]])}, req[s])
  /\ Goto(s, "pushing")
  /\ UNCHANGED <<clientVars, req, reply, dedupeVars, stored, echoes, envVars>>

-----------------------------------------------------------------------------
(* sendPushNotificationToUser and the end of the handler.                  *)

\* The id is recorded again, the self-echo to the sender's own mailbox is
\* started (nobody awaits it) and the fresh acknowledgement is returned.
PushDone(s) ==
  /\ pc[s] = "pushing"
  /\ recent' = recent \cup {req[s]}
  /\ stale' = stale \ {req[s]}
  /\ IF store = "off"
       THEN HandOff({Sender[req[s]]}, req[s]) /\ UNCHANGED echoes
       ELSE echoes' = echoes \cup {req[s]} /\ UNCHANGED handoffs
  /\ Answer(s, "sent")
  /\ UNCHANGED <<clientVars, req, stored, envVars>>

EchoQueued(m) ==
  /\ m \in echoes
  /\ echoes' = echoes \ {m}
  /\ HandOff({Sender[m]}, m)
  /\ UNCHANGED <<clientVars, slotVars, dedupeVars, stored, envVars>>

\* Its INCR may be rejected; the caller's empty catch swallows that.
EchoFails(m) ==
  /\ m \in echoes
  /\ store = "up"
  /\ echoes' = echoes \ {m}
  /\ Fault
  /\ UNCHANGED <<clientVars, slotVars, dedupeVars, stored, handoffs>>

PushFails(s) ==
  /\ pc[s] = "pushing"
  /\ Goto(s, "catch")
  /\ Fault
  /\ UNCHANGED <<clientVars, req, reply, dedupeVars, stored, queueVars>>

CatchKeepsClaim(s) ==            \* mutated: the id stays in the map
  /\ pc[s] = "catch"
  /\ Answer(s, "error")
  /\ UNCHANGED <<clientVars, req, dedupeVars, stored, queueVars, envVars>>

\* The catch block: forget the id so that a retry is processed, and rethrow.
CatchError(s) ==
  /\ pc[s] = "catch"
  /\ recent' = recent \ {req[s]}
  /\ stale' = stale \ {req[s]}
  /\ Answer(s, "error")
  /\ UNCHANGED <<clientVars, req, stored, queueVars, envVars>>

-----------------------------------------------------------------------------
(* The environment.                                                        *)

\* loadState: the store is set once its single connection attempt has ended,
\* well after the server has begun to listen; a failed attempt leaves a store
\* that is enabled and never connected for the life of the process.
StoreConnects ==
  /\ RedisConfigured /\ store = "off"
  /\ store' = "up"
  /\ UNCHANGED <<clientVars, slotVars, dedupeVars, stored, queueVars, faults, restarts>>

StoreUnusable ==
  /\ RedisConfigured /\ store = "off"
  /\ faults < MaxFaults
  /\ store' = "down"
  /\ faults' = faults + 1
  /\ UNCHANGED <<clientVars, slotVars, dedupeVars, stored, queueVars, restarts>>

\* The process dies: MySQL rolls open transactions back, memory is gone.
ServerRestart ==
  /\ restarts < MaxRestarts
  /\ restarts' = restarts + 1
  /\ pc' = [s \in Slots |-> IF pc[s] = "idle" THEN "idle" ELSE "dead"]
  /\ reply' = [s \in Slots |-> "none"]
  /\ recent' = {} /\ stale' = {}
  /\ echoes' = {}
  /\ store' = "off"
  /\ UNCHANGED <<clientVars, req, stored, handoffs, faults>>

SlotStep(s) ==
  \/ \E m \in Msgs : Submit(s, m)
  \/ ReceiveReply(s) \/ LoseReply(s)
  \/ RejectForbidden(s) \/ ReplyNoRecipients(s)
  \/ DedupeInMemory(s) \/ Claim(s)
  \/ TxInsert(s) \/ TxDuplicate(s) \/ TxFail(s)
  \/ TxCommit(s) \/ TxCommitUnseen(s)
  \/ QueueLocally(s)
  \/ AllocateSequence(s) \/ AllocateFails(s) \/ QueueFirstInRedis(s)
  \/ PushDone(s) \/ PushFails(s) \/ CatchError(s)

BackgroundStep ==
  \/ \E m \in Msgs : TtlPasses(m) \/ EchoQueued(m) \/ EchoFails(m)
  \/ StoreConnects \/ StoreUnusable \/ ServerRestart

Next == (\E s \in Slots : SlotStep(s)) \/ BackgroundStep

Spec == Init /\ [][Next]_vars

-----------------------------------------------------------------------------
(* Properties.                                                             *)

\* Every variable has its type.
TypeOK ==
  /\ outbox \subseteq Msgs
  /\ pc \in [Slots -> PC]
  /\ req \in [Slots -> Msgs \cup {NoMsg}]
  /\ \A s \in Slots : pc[s] # "idle" => req[s] \in Msgs
  /\ \A s \in Slots : pc[s] \in Running \ {"received"} => Targets[req[s]] # << >>
  /\ reply \in [Slots -> Replies]
  /\ recent \subseteq Msgs /\ stale \subseteq recent
  /\ stored \in [Msgs -> Nat]
  /\ handoffs \in [Users -> [Msgs -> Nat]]
  /\ echoes \subseteq Msgs
  /\ store \in {"off", "up", "down"}
  /\ faults \in 0..MaxFaults
  /\ restarts \in 0..MaxRestarts

\* However often a client retries, through whatever errors, lost answers and
\* restarts, a message is written to MessageActivities and Logs once.
StoredOnce == UniqueIndex => \A m \in Msgs : stored[m] <= 1

\* No mailbox is handed a message twice by retries of the send, the sender's
\* own (the self-echo) included.
HandedOffOnce ==
  UniqueIndex => \A u \in Users, m \in Msgs : handoffs[u][m] <= 1

\* No mailbox is handed a message unless its transaction committed.
QueuedIsStored ==
  \A u \in Users, m \in Msgs : handoffs[u][m] > 0 => stored[m] > 0

\* An id in the dedupe map, for which a retry would be answered "success",
\* belongs to a stored message or to an invocation that is still running: no
\* failed send may keep its retries out for the ten minutes of the map.
ClaimIsBacked ==
  \A m \in recent :
    \/ stored[m] > 0
    \/ \E s \in Slots : req[s] = m /\ pc[s] \in {"claimed", "inserted", "catch"}

\* A fresh acknowledgement, or one from the unique index, is only given for a
\* message that is in the database.
AckIsDurable ==
  \A s \in Slots : reply[s] \in {"sent", "dup_mysql"} => stored[req[s]] > 0

\* A fresh acknowledgement means every recipient's mailbox, not just some,
\* was handed the message.
AckReachesEveryRecipient ==
  \A s \in Slots : reply[s] = "sent" =>
    \A u \in TargetSet(req[s]) : handoffs[u][req[s]] > 0

\* It does mean so in a process whose store was never set: without Redis, and
\* in the start-up window, the fan-out is complete before the answer.
LocalAckReachesEveryRecipient == store = "off" => AckReachesEveryRecipient

\* The send path implements AtMostOnceDelivery: every commit stores a message
\* that was not stored, every hand-off goes to mailboxes that did not have it.
Delivery == INSTANCE AtMostOnceDelivery WITH
              Msgs <- Msgs, Users <- Users, stored <- stored, handoffs <- handoffs
ImplementsAtMostOnce == Delivery!Spec

\* RELIABILITY_ARCHITECTURE.md:4, zero missing messages: once the client has
\* dropped its outbox row, the message is stored or still being processed.
NoMessageLost ==
  \A m \in Msgs \ outbox : Targets[m] # << >> =>
    \/ stored[m] > 0
    \/ \E s \in Slots : req[s] = m /\ pc[s] \in Running
===============================================================================
