------------------------------- MODULE DeltaSync -------------------------------
(***************************************************************************)
(* How the Flutter client keeps its messages complete: the sync cursor of  *)
(* chat_store_service.dart, the three requests that use it (the sync at    *)
(* launch, the poll's pullMessages and the sync on reconnect), the local   *)
(* cache that is restored beside the launch, and /messages/sync, which     *)
(* answers the newest rows with ActionTimestamp above the cursor.          *)
(*                                                                         *)
(* A message is a row of MessageActivities with the timestamp its composer *)
(* gave it; rows are committed in any order unless InOrder.  The client is *)
(* one device with a working database; web storage and the manual full     *)
(* sync are left out, and so is the history loaded by scrolling back.      *)
(***************************************************************************)
EXTENDS Integers, FiniteSets

CONSTANTS
  Msgs,
  Ts,           \* ActionTimestamp of each message
  MaxTs,
  Own,          \* messages composed on this device
  InOrder,      \* rows are committed in the order of their timestamps
  Realtime,     \* the socket delivers messages, some or all
  Pushes,       \* FCM delivers messages to the terminated app
  FullLimit,    \* FULL_SYNC_MESSAGE_LIMIT
  DeltaLimit,   \* the default limit of a delta
  MaxFaults,    \* bound: failed requests
  MaxKills      \* bound: times the app is terminated

ASSUME DeltaSyncAssumption ==
  /\ MaxTs \in Nat /\ Ts \in [Msgs -> 1..MaxTs]
  /\ Own \subseteq Msgs
  /\ {InOrder, Realtime, Pushes} \subseteq BOOLEAN
  /\ FullLimit \in Nat \ {0} /\ DeltaLimit \in Nat \ {0}
  /\ MaxFaults \in Nat /\ MaxKills \in Nat

VARIABLES
  rows,     \* committed rows of MessageActivities
  app,      \* "dead" or "running"
  db,       \* Drift messages table
  mem,      \* state.messagesByChat
  writes,   \* messages whose write-through is under way
  cursor,   \* _syncCursorMs
  saved,    \* the cursor in the preferences
  floor,    \* _pendingSyncFloorMs, 0 for null
  tray,     \* oldest pendingSince of the background tray, 0 when empty
  ready,    \* _initialSyncCompleted: "no", "yes"
  pc,       \* where each request is: see Steps
  since,    \* the cursor each request asked with
  answer,   \* the rows it was answered
  restore,  \* restoreLocalCache: "none", "pending", "reading"
  snap,     \* what it has read from the database
  faults, kills,
  passed    \* for the properties: whose write-through a termination dropped
            \* when a cursor as new as the message was saved already

localVars  == <<db, mem, writes>>
cursorVars == <<cursor, saved, floor, tray>>
askVars    == <<since, answer>>
cacheVars  == <<restore, snap>>
envVars    == <<faults, kills, passed>>
vars == <<rows, app, db, mem, writes, cursor, saved, floor, tray, ready, pc, since,
          answer, restore, snap, faults, kills, passed>>

Requests == {"launch", "pull", "reconnect"}
Steps == {"idle", "start", "reset", "asked", "failed", "reasked", "served",
          "stored", "finish"}

Larger(a, b) == IF a > b THEN a ELSE b
Newest(S) == IF S = {} THEN 0
             ELSE CHOOSE t \in {Ts[m] : m \in S} : \A m \in S : Ts[m] <= t

Init ==
  /\ rows = {} /\ app = "dead"
  /\ db = {} /\ mem = {} /\ writes = {}
  /\ cursor = 0 /\ saved = 0 /\ floor = 0 /\ tray = 0
  /\ ready = "no"
  /\ pc = [r \in Requests |-> "idle"]
  /\ since = [r \in Requests |-> 0]
  /\ answer = [r \in Requests |-> {}]
  /\ restore = "none" /\ snap = {}
  /\ faults = 0 /\ kills = 0 /\ passed = {}

Goto(r, step) == pc' = [pc EXCEPT ![r] = step]
Fault == faults < MaxFaults /\ faults' = faults + 1 /\ UNCHANGED <<kills, passed>>

\* _resolveSyncCursor: the newest of the table (else of memory) and of the
\* high-water mark, lowered to just before the oldest pending push.
ResolveSyncCursor ==
  LET known == Larger(cursor, IF db = {} THEN Newest(mem) ELSE Newest(db))
  IN IF floor > 0 /\ known > floor THEN floor - 1 ELSE known

-----------------------------------------------------------------------------
(* The server.                                                             *)

Commit(m) ==
  /\ m \notin rows
  /\ m \in Own => m \in db
  /\ InOrder => \A k \in rows : Ts[k] < Ts[m]
  /\ rows' = rows \cup {m}
  /\ UNCHANGED <<app, localVars, cursorVars, ready, pc, askVars, cacheVars, envVars>>

RowsAboveNext(t) ==              \* mutated: off by one
  LET above == {m \in rows : t = 0 \/ Ts[m] > t + 1} IN {above}

\* getMessageActivitiesForUser: WHERE ActionTimestamp > since (no condition
\* for 0, a full sync), ORDER BY ActionTimestamp DESC, LIMIT.
RowsSince(t) ==
  LET above == {m \in rows : t = 0 \/ Ts[m] > t}
      limit == IF t = 0 THEN FullLimit ELSE DeltaLimit
  IN {R \in SUBSET above :
        /\ Cardinality(R) = limit \/ (R = above /\ Cardinality(R) < limit)
        /\ \A m \in R : \A k \in above \ R : Ts[m] >= Ts[k]}

Serve(r) ==
  /\ pc[r] \in {"asked", "reasked"}
  /\ \E R \in RowsSince(since[r]) : answer' = [answer EXCEPT ![r] = R]
  /\ Goto(r, "served")
  /\ UNCHANGED <<rows, app, localVars, cursorVars, ready, since, cacheVars, envVars>>

\* A failed query is caught in the service and answered as no rows.
ServeReadFails(r) ==
  /\ pc[r] \in {"asked", "reasked"}
  /\ answer' = [answer EXCEPT ![r] = {}]
  /\ Goto(r, "served")
  /\ Fault
  /\ UNCHANGED <<rows, app, localVars, cursorVars, ready, since, cacheVars>>

-----------------------------------------------------------------------------
(* The app's life.                                                         *)

\* initialize: cursor and floor are read, the tray is cleared, memory starts
\* empty, and the cache restore and the launch sync are started together.
AppStart ==
  /\ app = "dead"
  /\ app' = "running"
  /\ cursor' = saved /\ floor' = tray /\ tray' = 0
  /\ restore' = "pending"
  /\ Goto("launch", "start")
  /\ UNCHANGED <<rows, localVars, saved, ready, askVars, snap, envVars>>

AppKilled ==
  /\ app = "running" /\ kills < MaxKills
  /\ kills' = kills + 1
  /\ passed' = passed \cup {m \in writes : Ts[m] <= saved}
  /\ app' = "dead" /\ ready' = "no"
  /\ mem' = {} /\ writes' = {} /\ cursor' = 0 /\ floor' = 0
  /\ pc' = [r \in Requests |-> "idle"]
  /\ answer' = [r \in Requests |-> {}]
  /\ since' = [r \in Requests |-> 0]
  /\ restore' = "none" /\ snap' = {}
  /\ UNCHANGED <<rows, db, saved, tray, faults>>

\* firebaseMessagingBackgroundHandler writes the message and the tray.
BackgroundPush(m) ==
  /\ Pushes /\ app = "dead" /\ m \in rows \ (db \cup Own)
  /\ db' = db \cup {m}
  /\ tray' = IF tray = 0 \/ Ts[m] < tray THEN Ts[m] ELSE tray
  /\ UNCHANGED <<rows, app, mem, writes, cursor, saved, floor, ready, pc, askVars,
                 cacheVars, envVars>>

\* restoreLocalCache returns at once if memory is not empty, else it reads
\* the database ...
RestoreStart ==
  /\ restore = "pending"
  /\ IF mem = {} THEN restore' = "reading" /\ snap' = db
                 ELSE restore' = "none" /\ UNCHANGED snap
  /\ UNCHANGED <<rows, app, localVars, cursorVars, ready, pc, askVars, envVars>>

\* ... and, several awaits later, replaces the memory by what it has read.
RestoreEnd ==
  /\ restore = "reading"
  /\ mem' = IF snap = {} THEN mem ELSE snap
  /\ restore' = "none" /\ snap' = {}
  /\ UNCHANGED <<rows, app, db, writes, cursorVars, ready, pc, askVars, envVars>>

ApplyInMemory(m) ==              \* mutated: no write-through
  /\ mem' = mem \cup {m}
  /\ cursor' = Larger(cursor, Ts[m])
  /\ UNCHANGED <<rows, app, db, writes, saved, floor, tray, ready, pc, askVars, cacheVars, envVars>>

\* _applyIncomingMessage, for a realtime delivery or an own bubble: memory, a
\* write-through that is not awaited, and the high-water mark.
ApplyIncoming(m) ==
  /\ mem' = mem \cup {m}
  /\ writes' = writes \cup {m}
  /\ cursor' = Larger(cursor, Ts[m])
  /\ UNCHANGED <<rows, app, db, saved, floor, tray, ready, pc, askVars, cacheVars, envVars>>

Deliver(m) == Realtime /\ app = "running" /\ m \in rows /\ ApplyIncoming(m)
Compose(m) == app = "running" /\ m \in Own \ (rows \cup db) /\ ApplyIncoming(m)

WriteThrough(m) ==
  /\ m \in writes
  /\ db' = db \cup {m} /\ writes' = writes \ {m}
  /\ UNCHANGED <<rows, app, mem, cursorVars, ready, pc, askVars, cacheVars, envVars>>

\* _persistState, from anywhere: the messages are not in it, the cursor is.
Persist ==
  /\ app = "running" /\ cursor > 0
  /\ saved' = cursor
  /\ UNCHANGED <<rows, app, localVars, cursor, floor, tray, ready, pc, askVars, cacheVars, envVars>>

-----------------------------------------------------------------------------
(* The three requests.                                                     *)

Ask(r, t, step) ==
  /\ since' = [since EXCEPT ![r] = t]
  /\ Goto(r, step)
  /\ UNCHANGED <<rows, app, localVars, saved, tray, ready, answer, cacheVars, envVars>>

\* _revalidateFromServer: a first load (no saved cursor) resets the cursor;
\* the preferences are awaited before the cursor is used.
LaunchCheck ==
  /\ pc["launch"] = "start"
  /\ cursor' = IF saved = 0 THEN 0 ELSE cursor
  /\ Goto("launch", "reset")
  /\ UNCHANGED <<rows, app, localVars, saved, floor, tray, ready, askVars, cacheVars, envVars>>

LaunchAsk ==
  /\ pc["launch"] = "reset"
  /\ Ask("launch", IF mem = {} THEN 0 ELSE cursor, "asked")
  /\ UNCHANGED <<cursor, floor>>

\* The launch request failed: recoverMissedMessages asks for everything when
\* the table or the memory is empty; its other branch is pullMessages, which
\* returns at once because the launch is still in flight.
LaunchRecover ==
  /\ pc["launch"] = "failed"
  /\ IF db = {} \/ mem = {} THEN Ask("launch", 0, "reasked")
                            ELSE Ask("launch", 0, "finish")
  /\ UNCHANGED <<cursor, floor>>

\* Whatever happened, the floor counts as consumed and polling may begin.
LaunchFinish ==
  /\ pc["launch"] = "finish"
  /\ ready' = "yes"
  /\ floor' = 0
  /\ saved' = IF cursor > 0 THEN cursor ELSE saved
  /\ Goto("launch", "idle")
  /\ UNCHANGED <<rows, app, localVars, cursor, tray, askVars, cacheVars, envVars>>

\* pullMessages, from a poll tick, a push or an opened chat.
PullAsk ==
  /\ app = "running" /\ ready = "yes"
  /\ pc["launch"] = "idle" /\ pc["pull"] = "idle"
  /\ ResolveSyncCursor > 0 \/ mem = {}
  /\ Ask("pull", ResolveSyncCursor, "asked")
  /\ UNCHANGED <<cursor, floor>>

\* _syncOnReconnect, whenever the transport reports connected.
ReconnectAsk ==
  /\ Realtime /\ app = "running" /\ pc["reconnect"] = "idle"
  /\ Ask("reconnect", ResolveSyncCursor, "asked")
  /\ UNCHANGED <<cursor, floor>>

AskFailsStuck(r) ==              \* mutated: _isPullingMessages is not reset
  /\ pc[r] \in {"asked", "reasked"}
  /\ Goto(r, CASE pc[r] = "reasked" -> "finish" [] OTHER -> "failed")
  /\ Fault
  /\ UNCHANGED <<rows, app, localVars, cursorVars, ready, askVars, cacheVars>>

AskFails(r) ==
  /\ pc[r] \in {"asked", "reasked"}
  /\ Goto(r, CASE pc[r] = "reasked" -> "finish" [] r = "launch" -> "failed" [] OTHER -> "idle")
  /\ Fault
  /\ UNCHANGED <<rows, app, localVars, cursorVars, ready, askVars, cacheVars>>

\* _db.syncOneToOne, awaited before anything else is done with the answer.
Store(r) ==
  /\ pc[r] = "served"
  /\ db' = db \cup answer[r]
  /\ Goto(r, "stored")
  /\ UNCHANGED <<rows, app, mem, writes, cursorVars, ready, askVars, cacheVars, envVars>>

ApplyServerTime(r) ==            \* mutated: the cursor is the server's clock
  /\ pc[r] = "stored"
  /\ mem' = mem \cup answer[r]
  /\ cursor' = MaxTs /\ saved' = MaxTs
  /\ answer' = [answer EXCEPT ![r] = {}]
  /\ Goto(r, IF r = "launch" THEN "finish" ELSE "idle")
  /\ UNCHANGED <<rows, app, db, writes, floor, tray, ready, since, cacheVars, envVars>>

\* Merged into memory; the cursor moves to the answer's next_sync_timestamp,
\* the newest of the answer and of the cursor that was sent, unless a pull or
\* a reconnect was answered nothing.
Apply(r) ==
  /\ pc[r] = "stored"
  /\ mem' = mem \cup answer[r]
  /\ cursor' = IF r # "launch" /\ answer[r] = {} THEN cursor
               ELSE Larger(cursor, Larger(since[r], Newest(answer[r])))
  /\ saved' = IF cursor' > cursor THEN cursor' ELSE saved
  /\ answer' = [answer EXCEPT ![r] = {}]
  /\ Goto(r, IF r = "launch" THEN "finish" ELSE "idle")
  /\ UNCHANGED <<rows, app, db, writes, floor, tray, ready, since, cacheVars, envVars>>

RequestStep(r) == Serve(r) \/ ServeReadFails(r) \/ AskFails(r) \/ Store(r) \/ Apply(r)
LaunchStep == LaunchCheck \/ LaunchAsk \/ LaunchRecover \/ LaunchFinish
RestoreStep == RestoreStart \/ RestoreEnd

Next ==
  \/ \E m \in Msgs : Commit(m) \/ BackgroundPush(m) \/ Deliver(m) \/ Compose(m) \/ WriteThrough(m)
  \/ AppStart \/ AppKilled \/ Persist
  \/ RestoreStep \/ LaunchStep \/ PullAsk \/ ReconnectAsk
  \/ \E r \in Requests : RequestStep(r)

\* The user opens the app again, its timers poll, and a request ends.
Fairness ==
  /\ WF_vars(AppStart) /\ WF_vars(RestoreStep) /\ WF_vars(LaunchStep)
  /\ WF_vars(PullAsk) /\ \A r \in Requests : WF_vars(RequestStep(r))

Spec == Init /\ [][Next]_vars /\ Fairness

-----------------------------------------------------------------------------
(* Properties.                                                             *)

\* Every variable has its type; a step belongs to the request it is in.
TypeOK ==
  /\ UNION {rows, db, mem, writes, snap, passed} \subseteq Msgs
  /\ app \in {"dead", "running"} /\ ready \in {"no", "yes"}
  /\ {cursor, saved, floor, tray} \subseteq 0..MaxTs
  /\ pc \in [Requests -> Steps]
  /\ \A r \in Requests \ {"launch"} :
       pc[r] \in {"idle", "asked", "served", "stored"}
  /\ since \in [Requests -> 0..MaxTs]
  /\ answer \in [Requests -> SUBSET Msgs]
  /\ restore \in {"none", "pending", "reading"}
  /\ faults \in 0..MaxFaults /\ kills \in 0..MaxKills

\* The next delta can still bring what is missing: once polling has begun, a
\* committed message the device does not have lies above the cursor.
Reachable ==
  ready = "yes" =>
    \A m \in rows \ (db \cup mem) : Ts[m] > ResolveSyncCursor

\* What the app shows is in the database or on its way there, whatever brought
\* it into memory: the socket, the user, a sync or the restored cache.
ShownIsStored == mem \subseteq db \cup writes

\* No cursor, in memory or saved, is ahead of the newest message stored or on
\* its way there, but for a message whose write a termination dropped after the
\* cursor was saved (chat_store_service.dart:2997-2998 moves the cursor beside a
\* write that is not awaited, :4530 saves it).
CursorIsBacked == Larger(cursor, saved) <= Newest(db \cup writes \cup passed)

\* Every committed message is eventually held by the device.
EventuallyHeld == \A m \in Msgs : m \in rows ~> m \in db \cup mem
===============================================================================
