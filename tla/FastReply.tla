------------------------------ MODULE FastReply ------------------------------
(***************************************************************************)
(* The asynchronous pipeline beside the server: the fast reply handler     *)
(* (fast-reply.handler.js) looks for the message in Redis, stores it in a  *)
(* transaction, marks it in Redis and queues a push job and a stream       *)
(* event; the FCM worker (fcm.worker.js) sends the job chunk by chunk and  *)
(* repeats it as a whole after an error that may pass; the fan-out worker  *)
(* (websocket-fanout.worker.js) reads the stream in a consumer group       *)
(* (redis-streams.js), emits to the sockets and acknowledges.  The         *)
(* handlers of several requests interleave and the processes restart.      *)
(***************************************************************************)
EXTENDS Naturals

CONSTANTS FastMessages,    \* clientMsgIds of one group
          FastRequests,    \* POSTs, retries included
          Chunks,          \* chunks of 500 tokens of a job
          MaxJobAttempts,  \* attempts of a job (6)
          MaxFastFaults    \* bound: failures and restarts

ASSUME FastReplyAssumption == {Chunks, MaxJobAttempts} \subseteq Nat \ {0} /\ MaxFastFaults \in Nat

VARIABLES fastRequest,  \* each POST: its message and where its handler is
          marked,       \* idempotency:message:<clientMsgId> in Redis
          pts,          \* the committed row of each request: its pts, 0 for none
          reading,      \* nextPts as the transaction of each request read it
          unsure,       \* history: messages whose row is not marked for good or not yet
          job,          \* the push job of each request: attempts, next chunk
          fastSent,     \* chunks FCM took, by request; a chunk may be taken twice
          refused,      \* chunks given up
          event,        \* the stream event of each request
          emitted,      \* events emitted to the sockets
          group,        \* the consumer group exists: "no", "yes"
          fastFaults

fastVars == <<fastRequest, marked, pts, reading, unsure, job, fastSent, refused,
              event, emitted, group, fastFaults>>
jobVars == <<job, fastSent, refused>>
eventVars == <<event, emitted, group>>
rowVars == <<fastRequest, marked, pts, reading, unsure>>

NoJob == [state |-> "none", attempts |-> 0, chunk |-> 1]
FastFault == fastFaults < MaxFastFaults /\ fastFaults' = fastFaults + 1
Handling == {"checked", "reading", "stored", "marked", "queued"}
Goto(r, step) == fastRequest' = [fastRequest EXCEPT ![r].state = step]

FastTypeOK ==
    /\ fastRequest \in [FastRequests -> [state : {"new", "accepted", "duplicate",
                                                  "failed"} \cup Handling,
                                 msg : FastMessages]]
    /\ marked \subseteq FastMessages /\ unsure \subseteq FastMessages
    /\ pts \in [FastRequests -> Nat] /\ reading \in [FastRequests -> Nat]
    /\ job \in [FastRequests -> [state : {"none", "waiting", "active", "done", "failed"},
                             attempts : 0..MaxJobAttempts, chunk : 1..(Chunks + 1)]]
    /\ fastSent \subseteq FastRequests \X (1..Chunks)
    /\ refused \subseteq FastRequests \X (1..Chunks)
    /\ event \in [FastRequests -> {"none", "added", "unread", "pending", "orphan", "acked"}]
    /\ emitted \subseteq FastRequests /\ group \in {"no", "yes"}
    /\ fastFaults \in 0..MaxFastFaults

FastInit ==
    /\ fastRequest \in [FastRequests -> [state : {"new"}, msg : FastMessages]]
    /\ marked = {} /\ unsure = {}
    /\ pts = [r \in FastRequests |-> 0] /\ reading = [r \in FastRequests |-> 0]
    /\ job = [r \in FastRequests |-> NoJob] /\ fastSent = {} /\ refused = {}
    /\ event = [r \in FastRequests |-> "none"] /\ emitted = {} /\ group = "no"
    /\ fastFaults = 0
-----------------------------------------------------------------------------
(* handleMessageReply.  checkIdempotency: a Redis that fails lets the      *)
(* message pass.                                                           *)
Check(r) ==
    LET m == fastRequest[r].msg IN
    /\ fastRequest[r].state = "new"
    /\ \/ Goto(r, IF m \in marked THEN "duplicate" ELSE "checked")
          /\ UNCHANGED <<unsure, fastFaults>>
       \/ FastFault /\ Goto(r, "checked") /\ unsure' = unsure \cup {m}
    /\ UNCHANGED <<marked, pts, reading, jobVars, eventVars>>

(* storeMessageInDatabase: the highest pts of the group plus one ...       *)
ReadPts(r) ==
    /\ fastRequest[r].state = "checked"
    /\ reading' = [reading EXCEPT ![r] =
                     1 + CHOOSE n \in {0} \cup {pts[q] : q \in FastRequests} :
                             \A q \in FastRequests : pts[q] <= n]
    /\ Goto(r, "reading")
    /\ UNCHANGED <<marked, pts, unsure, jobVars, eventVars, fastFaults>>

(* ... and the insert, committed or rolled back.                           *)
Store(r) ==
    /\ fastRequest[r].state = "reading"
    /\ \/ pts' = [pts EXCEPT ![r] = reading[r]] /\ Goto(r, "stored") /\ UNCHANGED fastFaults
       \/ FastFault /\ Goto(r, "failed") /\ UNCHANGED pts
    /\ UNCHANGED <<marked, reading, unsure, jobVars, eventVars>>

\* mutated: the message is not marked.
MarkNothing(r) ==
    /\ fastRequest[r].state = "stored" /\ Goto(r, "marked")
    /\ UNCHANGED <<marked, unsure, fastFaults, pts, reading, jobVars, eventVars>>

(* markAsProcessed goes on when Redis fails.                               *)
Mark(r) ==
    LET m == fastRequest[r].msg IN
    /\ fastRequest[r].state = "stored" /\ Goto(r, "marked")
    /\ \/ marked' = marked \cup {m} /\ UNCHANGED <<unsure, fastFaults>>
       \/ FastFault /\ unsure' = unsure \cup {m} /\ UNCHANGED marked
    /\ UNCHANGED <<pts, reading, jobVars, eventVars>>

(* queueMessageDelivery: the job first; without it no event is added.  The *)
(* answer is "accepted" in any case.                                       *)
QueueJob(r) ==
    /\ fastRequest[r].state = "marked"
    /\ \/ /\ job' = [job EXCEPT ![r].state = "waiting"]
          /\ Goto(r, "queued") /\ UNCHANGED fastFaults
       \/ FastFault /\ Goto(r, "accepted") /\ UNCHANGED job
    /\ UNCHANGED <<marked, pts, reading, unsure, fastSent, refused, eventVars>>

(* addStreamEvent answers null when the stream cannot be written.          *)
AddEvent(r) ==
    /\ fastRequest[r].state = "queued" /\ Goto(r, "accepted")
    /\ \/ event' = [event EXCEPT ![r] = IF group = "yes" THEN "added" ELSE "unread"]
          /\ UNCHANGED fastFaults
       \/ FastFault /\ UNCHANGED event
    /\ UNCHANGED <<marked, pts, reading, unsure, jobVars, emitted, group>>

(* The server stops: its handlers end where they are.                      *)
ServerStops ==
    /\ FastFault
    /\ unsure' = unsure \cup
                 {fastRequest[r].msg : r \in {q \in FastRequests : fastRequest[q].state \in Handling}}
    /\ fastRequest' = [r \in FastRequests |-> IF fastRequest[r].state \in Handling
                                      THEN [fastRequest[r] EXCEPT !.state = "failed"]
                                      ELSE fastRequest[r]]
    /\ UNCHANGED <<marked, pts, reading, jobVars, eventVars>>
-----------------------------------------------------------------------------
(* processJob of the FCM worker.                                           *)
TakeJob(r) ==
    /\ job[r].state = "waiting"
    /\ job' = [job EXCEPT ![r] = [state |-> "active", attempts |-> @.attempts + 1, chunk |-> 1]]
    /\ UNCHANGED <<rowVars, fastSent, refused, eventVars, fastFaults>>

AfterFailure(r) == [job EXCEPT ![r].state = IF @ = "active" /\ job[r].attempts < MaxJobAttempts
                                            THEN "waiting" ELSE "failed"]

(* A chunk is taken, refused for good, or failed with an error that may    *)
(* pass, which fails the whole job: its next attempt sends the chunks      *)
(* before it again.                                                        *)
SendChunk(r) ==
    LET c == job[r].chunk IN
    /\ job[r].state = "active" /\ c <= Chunks
    /\ \/ fastSent' = fastSent \cup {<<r, c>>} /\ job' = [job EXCEPT ![r].chunk = @ + 1]
          /\ UNCHANGED <<refused, fastFaults>>
       \/ FastFault /\ refused' = refused \cup {<<r, c>>} /\ job' = [job EXCEPT ![r].chunk = @ + 1]
          /\ UNCHANGED fastSent
       \/ FastFault /\ job' = AfterFailure(r) /\ UNCHANGED <<fastSent, refused>>
    /\ UNCHANGED <<rowVars, eventVars>>

FinishJob(r) ==
    /\ job[r].state = "active" /\ job[r].chunk > Chunks
    /\ job' = [job EXCEPT ![r].state = "done"]
    /\ UNCHANGED <<rowVars, fastSent, refused, eventVars, fastFaults>>

(* A job whose lock runs out goes back to the queue.                       *)
FastWorkerStops ==
    /\ FastFault
    /\ job' = [r \in FastRequests |-> IF job[r].state = "active"
                                     THEN [job[r] EXCEPT !.state = "waiting"]
                                     ELSE job[r]]
    /\ \A r \in FastRequests : job[r].state = "active" => job[r].attempts < MaxJobAttempts
    /\ UNCHANGED <<rowVars, fastSent, refused, eventVars>>
-----------------------------------------------------------------------------
(* initializeConsumerGroup starts at "$": what the stream holds already is *)
(* not read.                                                               *)
CreateGroup ==
    /\ group = "no" /\ group' = "yes"
    /\ UNCHANGED <<rowVars, jobVars, event, emitted, fastFaults>>

(* readMessagesForConsumer reads ">", events no consumer has read.         *)
ReadEvent(r) ==
    /\ group = "yes" /\ event[r] = "added"
    /\ event' = [event EXCEPT ![r] = "pending"]
    /\ UNCHANGED <<rowVars, jobVars, emitted, group, fastFaults>>

Emit(r) ==
    /\ event[r] = "pending" /\ r \notin emitted
    /\ emitted' = emitted \cup {r}
    /\ UNCHANGED <<rowVars, jobVars, event, group, fastFaults>>

(* An event whose acknowledgement fails stays with its consumer.           *)
Acknowledge(r) ==
    /\ event[r] = "pending" /\ r \in emitted
    /\ \/ event' = [event EXCEPT ![r] = "acked"] /\ UNCHANGED fastFaults
       \/ FastFault /\ event' = [event EXCEPT ![r] = "orphan"]
    /\ UNCHANGED <<rowVars, jobVars, emitted, group>>

(* The next consumer has a name of its own, and nothing claims what the    *)
(* last one had read.                                                      *)
FanoutStops ==
    /\ FastFault
    /\ event' = [r \in FastRequests |-> IF event[r] = "pending" THEN "orphan" ELSE event[r]]
    /\ UNCHANGED <<rowVars, jobVars, emitted, group>>

FastNext ==
    \/ \E r \in FastRequests :
        \/ Check(r) \/ ReadPts(r) \/ Store(r) \/ Mark(r) \/ QueueJob(r) \/ AddEvent(r)
        \/ TakeJob(r) \/ SendChunk(r) \/ FinishJob(r)
        \/ ReadEvent(r) \/ Emit(r) \/ Acknowledge(r)
    \/ ServerStops \/ FastWorkerStops \/ CreateGroup \/ FanoutStops

FastSpec == FastInit /\ [][FastNext]_fastVars
-----------------------------------------------------------------------------
(* A message is stored again only by a request that passed the check       *)
(* before the first one was marked: once its row is stored and marked, and *)
(* neither Redis failed nor the server stopped meanwhile, a retry is       *)
(* answered "duplicate" (checkIdempotency, markAsProcessed).               *)
MarkedIsFinal ==
    [][\A r \in FastRequests :
          /\ fastRequest[r].state = "new" /\ fastRequest'[r].state = "checked"
          /\ \E q \in FastRequests : /\ fastRequest[q].state = "accepted"
                                     /\ fastRequest[q].msg = fastRequest[r].msg
          => fastRequest[r].msg \in unsure']_fastVars
=============================================================================
