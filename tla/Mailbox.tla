-------------------------------- MODULE Mailbox --------------------------------
(***************************************************************************)
(* One user's mailbox in server.js: the queue entries addToQueue puts into *)
(* the Redis stream or into the in-memory messageQueue, GET /messages,     *)
(* which empties it, the two maps that keep a poll from answering an entry *)
(* twice, and loadState and persistState as far as they touch the queue.   *)
(*                                                                         *)
(* An entry is a model value; its fingerprint (the key of the ten-minute   *)
(* map) and its delivery key (messageId:chatId, the key of the 24-hour     *)
(* map) are constants, because two entries may share them: a group message *)
(* and an edit of it have one delivery key.  The order of a mailbox, the   *)
(* MAXLEN of the stream and the size bounds of the maps are left out.      *)
(***************************************************************************)
EXTENDS Integers, FiniteSets

CONSTANTS
  Entries,          \* queue entries for this user
  PrintOf,          \* buildPollingMessageFingerprint of each entry
  KeyOf,            \* buildDeliveryKey of each entry, NoKey when it is ''
  NoKey,
  Polls,            \* concurrent GET /messages requests
  Deployments,      \* "redis" if REDIS_URL is set, "memory" if not: some or both
  MaxFaults,        \* bound: Redis errors
  MaxRestarts       \* bound: restarts of the server process

ASSUME MailboxAssumption ==
  /\ DOMAIN PrintOf = Entries /\ DOMAIN KeyOf = Entries
  /\ Deployments \subseteq {"redis", "memory"}
  /\ MaxFaults \in Nat /\ MaxRestarts \in Nat

VARIABLES
  store,      \* activeRedisStateStore: "off" (null), "up" or "down", and
              \* "none" when it is never set
  loaded,     \* loadState has set messageQueue: "no", "yes"
  file,       \* the state file: {} before there is one, else {its queue}
  snapshot,   \* Redis holds a state snapshot: "none", "present"
  mysql,      \* the ServerState table has "rows", or is "empty"
  writer,     \* where addToQueue is with each entry
  stream,     \* the user's Redis stream
  memQueue,   \* messageQueue[user]
  pc,         \* where each poll is suspended
  held,       \* what a poll drained and has not answered yet
  response,   \* what a poll answered, until the client has it
  recent,     \* recentPollingMessageKeysByUser (ten minutes)
  delivered,  \* deliveredMessageIdsByUser (24 hours)
  answered,   \* ghost: given to the client: "no", "live" (by this process,
              \* which remembers it), "earlier"
  lost,       \* ghost: entries a copy of which was dropped unread
  faults, restarts

storeVars == <<store, loaded>>
diskVars  == <<file, snapshot, mysql>>
queueVars == <<stream, memQueue>>
pollVars  == <<pc, held, response>>
markVars  == <<recent, delivered, answered>>
envVars   == <<faults, restarts>>
vars == <<store, loaded, file, snapshot, mysql, writer, stream, memQueue, pc, held,
          response, recent, delivered, answered, lost, faults, restarts>>

Prints == {PrintOf[e] : e \in Entries}
Keys   == {KeyOf[e] : e \in Entries} \ {NoKey}

Init ==
  /\ \E d \in Deployments : store = IF d = "redis" THEN "off" ELSE "none"
  /\ loaded = "no"
  /\ file = {} /\ snapshot = "none" /\ mysql \in {"rows", "empty"}
  /\ writer = [e \in Entries |-> "new"]
  /\ stream = {} /\ memQueue = {}
  /\ pc = [p \in Polls |-> "idle"]
  /\ held = [p \in Polls |-> {}]
  /\ response = [p \in Polls |-> {}]
  /\ recent = {} /\ delivered = {}
  /\ answered = [e \in Entries |-> "no"]
  /\ lost = {}
  /\ faults = 0 /\ restarts = 0

Fault == faults < MaxFaults /\ faults' = faults + 1 /\ UNCHANGED restarts
NoStore == store \in {"off", "none"}
Write(e, label) == writer' = [writer EXCEPT ![e] = label]

-----------------------------------------------------------------------------
(* addToQueue, for one entry of this user.                                 *)

\* No store: no await, the entry is in memory at once.
QueueInMemory(e) ==
  /\ writer[e] = "new"
  /\ NoStore
  /\ memQueue' = memQueue \cup {e}
  /\ Write(e, "done")
  /\ UNCHANGED <<storeVars, diskVars, stream, pollVars, markVars, lost, envVars>>

\* With a store the mailbox sequence and the chat pts are awaited first.
Allocate(e) ==
  /\ writer[e] = "new"
  /\ ~NoStore
  /\ Write(e, "allocating")
  /\ UNCHANGED <<storeVars, diskVars, queueVars, pollVars, markVars, lost, envVars>>

\* A rejected INCR rejects addToQueue before there is an entry to keep.
AllocateFails(e) ==
  /\ writer[e] = "allocating"
  /\ store = "up"
  /\ Write(e, "failed")
  /\ Fault
  /\ UNCHANGED <<storeVars, diskVars, queueVars, pollVars, markVars, lost>>

\* enqueueMessages: XADD, and then the publish is awaited.
Enqueue(e) ==
  /\ writer[e] = "allocating"
  /\ store = "up"
  /\ stream' = stream \cup {e}
  /\ Write(e, "publishing")
  /\ UNCHANGED <<storeVars, diskVars, memQueue, pollVars, markVars, lost, envVars>>

\* Not connected: it returns without an error, so the memory fallback in the
\* catch handler never sees the entry.
EnqueueDisconnected(e) ==
  /\ writer[e] = "allocating"
  /\ store = "down"
  /\ lost' = lost \cup {e}
  /\ Write(e, "done")
  /\ UNCHANGED <<storeVars, diskVars, queueVars, pollVars, markVars, envVars>>

EnqueueFailsDropped(e) ==        \* mutated: the catch handler only warns
  /\ writer[e] = "allocating"
  /\ store = "up"
  /\ Write(e, "done")
  /\ Fault
  /\ UNCHANGED <<storeVars, diskVars, queueVars, pollVars, markVars, lost>>

\* A rejected SADD or XADD, which may have been applied: kept in memory.
EnqueueFails(e) ==
  /\ writer[e] = "allocating"
  /\ store = "up"
  /\ stream' \in {stream, stream \cup {e}}
  /\ memQueue' = memQueue \cup {e}
  /\ Write(e, "done")
  /\ Fault
  /\ UNCHANGED <<storeVars, diskVars, pollVars, markVars, lost>>

Published(e) ==
  /\ writer[e] = "publishing"
  /\ Write(e, "done")
  /\ UNCHANGED <<storeVars, diskVars, queueVars, pollVars, markVars, lost, envVars>>

\* The publish fails after the XADD: a second copy, in memory.
PublishFails(e) ==
  /\ writer[e] = "publishing"
  /\ memQueue' = memQueue \cup {e}
  /\ Write(e, "done")
  /\ Fault
  /\ UNCHANGED <<storeVars, diskVars, stream, pollVars, markVars, lost>>

-----------------------------------------------------------------------------
(* GET /messages.                                                          *)

\* The client begins a poll; the drain is one Lua script.
Drain(p) ==
  /\ pc[p] = "idle"
  /\ ~NoStore
  /\ held' = [held EXCEPT ![p] = stream]
  /\ stream' = {}
  /\ pc' = [pc EXCEPT ![p] = "drained"]
  /\ UNCHANGED <<storeVars, diskVars, writer, memQueue, response, markVars, lost, envVars>>

\* The drain is rejected: not run, or run and its answer lost.
DrainFails(p) ==
  /\ pc[p] = "idle"
  /\ store = "up"
  /\ stream' \in {stream, {}}
  /\ lost' = lost \cup (stream \ stream')
  /\ pc' = [pc EXCEPT ![p] = "drained"]
  /\ Fault
  /\ UNCHANGED <<storeVars, diskVars, writer, memQueue, held, response, markVars>>

MailboxOfDrained(p) ==           \* mutated: memory is read only without Redis
  IF NoStore THEN memQueue ELSE held[p]

\* What the poll answers from: the drained entries, else those in memory.
MailboxOf(p) == IF held[p] # {} THEN held[p] ELSE memQueue

DedupedByFingerprint(box) ==     \* mutated: the 24-hour map is not consulted
  {{e \in box : PrintOf[e] \notin recent}}

\* dedupePollingMailboxMessages: entries in neither map, and of those with
\* one fingerprint the first in the batch, whichever that is.
Deduped(box) ==
  LET new == {e \in box : PrintOf[e] \notin recent /\ KeyOf[e] \notin delivered}
  IN {fs \in SUBSET new : \A e \in new :
        Cardinality({f \in fs : PrintOf[f] = PrintOf[e]}) = 1}

\* markMessageAsDelivered, and the fingerprints dedupe recorded.
Remember(es) ==
  /\ recent' = recent \cup {PrintOf[e] : e \in es}
  /\ delivered' = delivered \cup ({KeyOf[e] : e \in es} \ {NoKey})
  /\ answered' = [e \in Entries |-> IF e \in es THEN "live" ELSE answered[e]]

\* Runs from the end of the drain to res.json without an await; an answer
\* from the stream clears the memory queue too, without reading it.
Answer(p) ==
  /\ pc[p] = "drained" \/ (pc[p] = "idle" /\ NoStore)
  /\ IF MailboxOf(p) = {}
       THEN /\ response' = [response EXCEPT ![p] = {}]
            /\ UNCHANGED <<memQueue, markVars, lost>>
       ELSE /\ \E es \in Deduped(MailboxOf(p)) :
                 /\ response' = [response EXCEPT ![p] = es]
                 /\ Remember(es)
            /\ memQueue' = {}
            /\ lost' = lost \cup (memQueue \ MailboxOf(p))
  /\ held' = [held EXCEPT ![p] = {}]
  /\ pc' = [pc EXCEPT ![p] = "answered"]
  /\ UNCHANGED <<storeVars, diskVars, writer, stream, envVars>>

\* The client has the response, or the connection broke on the way: the
\* server never learns which.
Receive(p) ==
  /\ pc[p] = "answered"
  /\ response' = [response EXCEPT ![p] = {}]
  /\ pc' = [pc EXCEPT ![p] = "idle"]
  /\ UNCHANGED <<storeVars, diskVars, writer, queueVars, held, markVars, lost, envVars>>

\* /messages/sync answers rows of MessageActivities, written before their
\* entries are queued, and marks them delivered; it consults neither map.
SyncAnswers(e) ==
  /\ writer[e] # "new"
  /\ KeyOf[e] # NoKey
  /\ delivered' = delivered \cup {KeyOf[e]}
  /\ answered' = [answered EXCEPT ![e] = "live"]
  /\ UNCHANGED <<storeVars, diskVars, writer, queueVars, pollVars, recent, lost, envVars>>

\* Ten minutes, and a day, after an entry was answered.
ExpireRecent(k) ==
  /\ k \in recent
  /\ recent' = recent \ {k}
  /\ answered' = [e \in Entries |->
       IF PrintOf[e] = k /\ answered[e] = "live" /\ KeyOf[e] \notin delivered
         THEN "earlier" ELSE answered[e]]
  /\ UNCHANGED <<storeVars, diskVars, writer, queueVars, pollVars, delivered, lost, envVars>>

ExpireDelivered(k) ==
  /\ k \in delivered
  /\ \A e \in Entries : KeyOf[e] = k => PrintOf[e] \notin recent
  /\ delivered' = delivered \ {k}
  /\ answered' = [e \in Entries |->
       IF KeyOf[e] = k /\ answered[e] = "live" THEN "earlier" ELSE answered[e]]
  /\ UNCHANGED <<storeVars, diskVars, writer, queueVars, pollVars, recent, lost, envVars>>

-----------------------------------------------------------------------------
(* Start, save and restart of the process.                                 *)

StoreConnects ==
  /\ store = "off"
  /\ store' = "up"
  /\ UNCHANGED <<loaded, diskVars, writer, queueVars, pollVars, markVars, lost, envVars>>

StoreUnusable ==
  /\ store = "off"
  /\ store' = "down"
  /\ Fault
  /\ UNCHANGED <<loaded, diskVars, writer, queueVars, pollVars, markVars, lost>>

\* loadState: MySQL and Redis snapshots empty the queue, the file's replaces
\* it, and when there is no file the queue stays as it is.
StateLoaded ==
  /\ loaded = "no"
  /\ store # "off"
  /\ loaded' = "yes"
  /\ memQueue' = IF mysql = "rows" \/ (store = "up" /\ snapshot = "present") THEN {}
                 ELSE IF file = {} THEN memQueue ELSE UNION file
  /\ lost' = lost \cup (memQueue \ memQueue')
  /\ UNCHANGED <<store, diskVars, writer, stream, pollVars, markVars, envVars>>

\* persistState, from the timer of scheduleStateSave: MySQL once its state
\* was loaded, else the Redis snapshot, else the file; only the file has the
\* queue.  A disconnected store takes the save and writes nothing.
SaveState ==
  /\ ~(mysql = "rows" /\ loaded = "yes")
  /\ store # "down"
  /\ IF store = "up" THEN snapshot' = "present" /\ UNCHANGED file
                     ELSE file' = {memQueue} /\ UNCHANGED snapshot
  /\ UNCHANGED <<storeVars, mysql, writer, queueVars, pollVars, markVars, lost, envVars>>

SaveFallsToFile ==
  /\ ~(mysql = "rows" /\ loaded = "yes")
  /\ store = "up"
  /\ file' = {memQueue}
  /\ Fault
  /\ UNCHANGED <<storeVars, snapshot, mysql, writer, queueVars, pollVars, markVars, lost>>

ServerRestart ==
  /\ restarts < MaxRestarts
  /\ restarts' = restarts + 1
  /\ store' = (IF store = "none" THEN "none" ELSE "off") /\ loaded' = "no"
  /\ writer' = [e \in Entries |->
       IF writer[e] \in {"allocating", "publishing"} THEN "failed" ELSE writer[e]]
  /\ memQueue' = {}
  /\ pc' = [p \in Polls |-> "idle"]
  /\ held' = [p \in Polls |-> {}]
  /\ response' = [p \in Polls |-> {}]
  /\ recent' = {} /\ delivered' = {}
  /\ answered' = [e \in Entries |->
       IF answered[e] = "live" THEN "earlier" ELSE answered[e]]
  /\ lost' = lost \cup memQueue \cup UNION {held[p] : p \in Polls}
  /\ UNCHANGED <<diskVars, stream, faults>>

WriteStep(e) ==
  \/ QueueInMemory(e) \/ Allocate(e) \/ AllocateFails(e)
  \/ Enqueue(e) \/ EnqueueDisconnected(e) \/ EnqueueFails(e)
  \/ Published(e) \/ PublishFails(e)

PollStep(p) == Drain(p) \/ DrainFails(p) \/ Answer(p) \/ Receive(p)

ProcessStep ==
  \/ StoreConnects \/ StoreUnusable \/ StateLoaded
  \/ SaveState \/ SaveFallsToFile \/ ServerRestart

Next ==
  \/ \E e \in Entries : WriteStep(e) \/ SyncAnswers(e)
  \/ \E p \in Polls : PollStep(p)
  \/ \E k \in Prints : ExpireRecent(k)
  \/ \E k \in Keys : ExpireDelivered(k)
  \/ ProcessStep

\* A client without a realtime connection keeps polling, and the one attempt
\* to connect to Redis ends; nothing else is promised to happen.
Fairness ==
  /\ \A p \in Polls : WF_vars(PollStep(p))
  /\ WF_vars(StoreConnects \/ StoreUnusable)

Spec == Init /\ [][Next]_vars /\ Fairness

-----------------------------------------------------------------------------
(* Properties.                                                             *)

\* Every variable has its type.
TypeOK ==
  /\ store \in {"none", "off", "up", "down"} /\ loaded \in {"no", "yes"}
  /\ store = "none" => stream = {}
  /\ file = {} \/ \E q \in SUBSET Entries : file = {q}
  /\ snapshot \in {"none", "present"} /\ mysql \in {"rows", "empty"}
  /\ writer \in [Entries -> {"new", "allocating", "publishing", "done", "failed"}]
  /\ stream \subseteq Entries /\ memQueue \subseteq Entries
  /\ pc \in [Polls -> {"idle", "drained", "answered"}]
  /\ held \in [Polls -> SUBSET Entries]
  /\ \A p \in Polls : held[p] # {} => pc[p] = "drained"
  /\ response \in [Polls -> SUBSET Entries]
  /\ recent \subseteq Prints /\ delivered \subseteq Keys
  /\ answered \in [Entries -> {"no", "live", "earlier"}]
  /\ lost \subseteq Entries
  /\ faults \in 0..MaxFaults /\ restarts \in 0..MaxRestarts

\* Polls of several devices, second copies from failed enqueues, syncs in
\* between: no poll answers an entry this process knows it has answered.
NeverRepeated ==
  [][\A p \in Polls : \A e \in response'[p] \ response[p] :
       answered[e] # "live"]_vars

\* Once addToQueue is done with an entry, the entry is in the mailbox, in a
\* poll's hands or was answered to the client, unless one of the places that
\* drop entries dropped it: a disconnected store, an unread memory queue, a
\* failed drain, a load or a restart.
Accounted ==
  \A e \in Entries : writer[e] = "done" =>
    \/ e \in stream \cup memQueue \cup lost
    \/ \E p \in Polls : e \in held[p]
    \/ answered[e] # "no"

\* No entry is stranded, in the stream or in the memory queue behind it:
\* while the client polls, each is eventually taken out, unless the process
\* runs with a store that never connected and cannot see the stream.
EventuallyRead ==
  \A e \in Entries : e \in stream \cup memQueue ~>
                       (e \notin stream \cup memQueue \/ store = "down")

\* message.controller.js:43-45, the delivery key is unique per message and
\* conversation: a poll leaves out only what the client was given before.
SkippedWasAnswered ==
  [][\A p \in Polls : (pc[p] # "answered" /\ pc'[p] = "answered") =>
       \A e \in MailboxOf(p) \ response'[p] : answered[e] # "no"]_vars
===============================================================================
