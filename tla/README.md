# Formal models of the TZMC push and chat system

The repository is a hospital's messenger: a Node server (`src/server.js`,
`src/backend/`) with MySQL and, optionally, Redis behind it, a Flutter app
(`src/flutter_app/`), an Angular web client with a service worker
(`src/frontend/`), and scripts that run in Google Sheets. Its own documents
promise "zero missing messages, zero duplicates"
(`src/RELIABILITY_ARCHITECTURE.md:4`). The modules here say what the code that
is meant to keep this promise, and the parts around it, do; TLC checks them on
small instances, and TLAPS proves every safety property they satisfy for
instances of any size.

Paths are relative to `src/`. Some are abbreviated: `store` is
`flutter_app/lib/core/services/chat_store_service.dart`, `transport` is
`flutter_app/lib/core/realtime/realtime_transport_service.dart`, `web-store` is
`frontend/src/app/core/services/chat-store.service.ts`, `web-transport` is
`realtime-transport.service.ts` beside it, `sw` is
`frontend/public/custom-sw.js`, `mysql-logs` is
`backend/src/services/mysql-logs.service.ts`, `redis-store` is
`backend/src/services/redis-state-store.service.ts`, and `X.controller` is
`backend/controllers/X.controller.js`.

## How a message travels

```
 app A                            server                             app B
 bubble, OutboxItems row          processReplyPayload
   | compose / retry / drain        claim in the dedupe map
   |--- socket ack or POST -------> transaction: MessageActivities + Logs
   |                                addToQueue: stream or memory queue ---> socket / SSE event
   |                                  + publish, webhooks               |-> GET /messages (drains)
   |                                push (FCM, web push) -------------->|-> background push
   |<-- fresh or duplicate ack ---  self-echo to A's other devices      |-> /messages/sync since cursor
   |<-- receipts ------------------ /read, /delivered <-----------------|
```

| part of the picture | module |
|---|---|
| the row on A and the three routes that submit it, the tick of the bubble | `Outbox` (Flutter), `WebOutbox` and `OfflineReplies` (web) |
| the handler, from the request to the acknowledgement | `ReplyPipeline`, which implements `AtMostOnceDelivery` |
| the handler and workers that would replace it, not mounted | `FastReply` |
| the queue entries of one user, until a poll has taken them | `Mailbox` |
| B's requests since a cursor, pushes, realtime deliveries and local cache | `DeltaSync` (Flutter), `WebRecovery` and `PendingPushes` (web) |
| what a copy, an edit or a deletion does to the rows shown | `WebInbox` |
| the connection of a device: socket, SSE stream, timers | `RealtimeTransport` (Flutter), `WebTransport` (web) |
| which endpoints a push goes to | `PushSubscriptions`, `PromptCampaign` |
| receipts, from the reader's screen to the tables | `WebReceipts`, `SeenRecords` |
| who is in the group | `ChatGroups`, `CommunityGroups`, `WebGroups` |

The modules meet at named places. `Outbox` has the server as a claim and a
status per message: `ReplyPipeline` has the handler between the two in detail,
and shows that it stores at most once.
`ReplyPipeline` ends at "a mailbox was handed an entry", where `Mailbox` begins.
`DeltaSync` and `WebRecovery` begin at "a row was committed", which is `stored` in
`ReplyPipeline`. `Connect` and `Disconnect` of `Outbox`, and `ReconnectAsk` of
`DeltaSync`, are the events `RealtimeTransport` emits. A receipt `WebReceipts`
counts as told is a `PostRead` of `SeenRecords`. The record that `WebGroups` has
of the server is the `chatGroup` of `ChatGroups`. `ChatGroups`,
`ShuttleReminders` and `PushSubscriptions` have each the part of the server's
load that concerns them, the first two over the stores of `StateStores`.

## Inventory

What each part keeps, does and must guarantee, and what is hard about it.
"Modelled" names the module; the others are in the plan or at the end.

**Message send path** (`server.js:2506-3050`; modelled: `ReplyPipeline`).
*State*: the map of processed ids (ten minutes), the rows of a message, the
queue entries. *Operations*: socket `chat:reply` and `POST /reply`, both through
`processReplyPayload`. *Hard*: retries of one message run side by side, each
await is a point where another goes on, any of MySQL, Redis and push may fail,
the process restarts and forgets the map. *Correct if* a message is stored once
and queued once, only what is stored is queued or acknowledged, and a failed
send does not keep its retry out.

**Mailbox** (`server.js:800-960`, `redis-store`, `message.controller:20-260` and
`:700-800`; modelled: `Mailbox`). *State*: a Redis stream and a memory queue per user, a
ten-minute map of fingerprints, a 24-hour map of delivery keys, and the queue in
the state file. *Hard*: two queues behind one another, a drain that is awaited
while entries arrive, an enqueue that fails after it was applied, a load that
replaces the queue. *Correct if* no poll repeats what this process remembers
answering, and no entry disappears except where the code drops it.

**Message synchronisation, Flutter** (`store`, `message.controller:400-560`,
`mysql-logs:2400-2530`; modelled: `DeltaSync`). *State*: table and memory of
messages, the cursor and its saved copy, the floor left by background pushes.
*Operations*: launch sync, recovery, `pullMessages`, reconnect sync, realtime
delivery, own bubble, background push, cache restore, write-through.
*Hard*: one number stands for "everything older is here", and nine operations
move it or the messages, in any order; it is saved beside writes that are not
awaited. *Correct if* what the device lacks is above the cursor, what is shown
is being stored, and everything arrives.

**Outbox, Flutter** (`outbox_processor.dart`, `store`; modelled: `Outbox`).
*State*: the rows, their backoff, the status of a message in memory and in the
table. *Hard*: composer, retry at start and drain submit one row without knowing
of each other, while receipts and echoes write the same status; logins and the
full sync delete rows under them; the server answers a duplicate from a claim
made before anything is stored. *Correct if* ticks are true, rows leave only
when the server has the message, and all leave.

**Realtime transport, Flutter** (`transport`; modelled: `RealtimeTransport`).
*State*: the fields of the service and the requests for a stream that are alive.
*Hard*: four timers, events of the socket, answers of requests that were
overtaken, and the shell's calls, all on the same fields. *Correct if* the shown
mode is true and the socket is never given up.

**Web client: sending** (`web-store:2697-2747`, `:5312-5542`, `:8301-8527`, `sw:28-175`; modelled:
`WebOutbox`, `OfflineReplies`). *State*: the outbox in localStorage, the rows in
IndexedDB, the worker's queue of replies in one cache entry. *Hard*: the outbox
and the queue are read, awaited upon and written back as a whole; a page or a
worker may stop in between. *Correct if* what the user sees as queued or sent is
stored somewhere or arrived.

**Web client: receiving** (`web-store`, `sw:190-274`, `:746-865`; modelled: `WebInbox`,
`PendingPushes`, `WebRecovery`, `WebReceipts`). *State*: rows, tombstones,
unread counts, the worker's payloads, the receipts not sent yet. *Hard*: five
channels bring copies, edits and deletions of one message in any order; the
answer of a recovery is applied after the page has moved on. *Correct if* a
deleted message stays hidden, a payload and a receipt are somewhere until they
are applied, and what is missing is still in reach.

**Web client: transport** (`web-transport`; modelled: `WebTransport`). As on
Flutter, with a browser's event stream. *Correct if* no event ends the attempts.

**Receipts, edits, deletions, reactions** (`server.js:3061-3220`,
`:8383-8560`; modelled: `SeenRecords` for receipts). *State*: the status of a
message in two tables, the queue entry that tells the sender. *Hard*: the sender
is told before the tables are updated, by statements nobody awaits. *Correct if*
what the sender was told is what the tables say in the end.

**Groups** (`server.js:2197-2250`, `:5077-5330`, `:8228-8335`,
`web-store:7202-7272`; modelled: `ChatGroups`, `WebGroups`). *State*: a record in
memory, in the saved state (three stores), in a local database and in MySQL; a
copy on each device. *Hard*: updates, messages, pushes and refreshes carry the
group, late, repeated, or without its members and stamp; rows are written without
waiting; a start reads some of the copies only, and serves meanwhile. *Correct if*
a restart does not go back behind what was saved, and a stamp means one list of
members.

**Community groups** (`server.js:943-1026`, `:7168-7354`; modelled:
`CommunityGroups`). *State*: rows, and the policy rebuilt from them. *Hard*:
every edit seeds, reads and rebuilds with awaits in between. *Correct if* the
policy is what the rows say.

**Helpdesk** (`helpdesk.controller`; modelled: `Helpdesk`). *State*: tickets,
which hold the name of a department, statuses per department, users and their
roles, the access list, notes and histories. *Hard*: read, check and update on
different connections, and a rename that goes by a name read without a lock.
*Correct if* a ticket names a department that exists, and what is listed can be
opened.

**Sessions and one-time codes** (`auth.controller:241-475`, `server.js:3501-3689`;
modelled: `OneTimeCodes` for codes). *State*: a code in memory, in a column and
in a sheet; attempts; a sliding window of requests. *Hard*: writing, checking and
clearing are separate awaits, and a gateway that fails rolls back. *Correct if*
the code the last answer promised is accepted.

**Push delivery** (`notification.service.ts`, `server.js:1405-2037`,
`:4162-4646`, `:5794-5846`; modelled: `PushSubscriptions`). *State*: endpoints in
the browser, in memory, in a cache, in MySQL and in a sheet. *Hard*: five copies,
each of its own age, and a limit that chooses among what they say. *Correct if* a
device that was known when a push began, and is reachable, is tried before the
push counts as failed.

**Re-registration campaign** (`server.js:4814-5041`; modelled:
`PromptCampaign`). *State*: endpoints already prompted, for a limited number of
campaigns. *Hard*: runs overlap in time and the marks are written at the end.
*Correct if* nobody is prompted twice.

**Shuttle** (`web-store:3230-4919`, `shuttle.controller`, `server.js:3947-4160`;
modelled: `ShuttleOrders`, `ShuttleOperations`, `ShuttleReminders`). *State*:
orders on the page, in a cache and in a sheet that is written late; marks of
reminders, saved with the state. *Hard*: a read that was begun before a change
answers after it; a push may arrive without an answer, a mark be lost with its process.
*Correct if* a confirmed cancellation was seen in the sheet, an operator's list
does not go back, and a ride is announced once.

**Uploads** (`server.js:522-730`, `:8063-8204`, `upload-security.service.ts`;
modelled: `Uploads`). *State*: files under names chosen by their uploaders, the
picture in a user's row. *Hard*: two uploads meet in one path; whoever is rejected
deletes its files. *Correct if* a picture stays what it was.

**Workers** (`fast-reply.handler.js`, `redis-streams.js`, `workers/`; modelled:
`FastReply`). A pipeline with a job queue and a consumer group that `server.js`
does not mount. *Correct if* a message that was stored and marked is not stored
again.

**Server state** (`server.js:5330-5560`). Load, save and the move from file to
Redis to MySQL. *Hard*: saves that overlap, a save before the load, a store that
is configured and down. *Correct if* a restart finds the newest state any
completed save wrote. In parts: `StateStores` names the stores and when each is
used, `Mailbox`, `ChatGroups`, `ShuttleReminders` and `PushSubscriptions` load and
save the queue, the groups, the marks and the endpoints.

**Socket and SSE server** (`server.js`, `realtime-fanout.js`). Rooms, handshake
authentication, the list of streams. *Correct if* an event reaches the sockets
and streams of its user and of no other.

**Outgoing queue** (`server.js:9336`). A timer every ten seconds over rows of a
sheet. *Hard*: runs overlap. *Correct if* a row is sent once.

**Others**, without state of their own worth a model: employee import,
accreditation agent and secretary bot, configuration, middleware, screens,
compiled output and sheet scripts.

## The modules and the code

`PROJECT.json` maps every definition to its lines. Node and a browser page run the
code between two awaits without interruption, so in all modules an action is the
code from one await to the next, and a request in the model remembers the await it
is suspended at. The choices that matter:

**ReplyPipeline.** `pc` of a slot is the await an invocation is suspended at.
`Claim` records the id before anything is
stored (`server.js:2810`); `TxInsert`, `TxCommit`, `TxDuplicate`, `TxFail` and
`TxCommitUnseen` are `insertMessageActivityAndLog`, where a unique index makes
the second insert wait and then fail; `TxCommitUnseen` is a commit whose answer
is lost. `QueueLocally` and `QueueFirstInRedis` are the two forms of
`addToQueue`: without Redis its loop has no await and serves every recipient;
with Redis the loop awaits and returns inside its body (`:878`).
`CatchError` forgets the id. `store` is "off" until `loadState` has set it, then
"up", or "down" if the only connection attempt failed. A slot whose process
died is "dead" until its client gives up. `CheckAndMarkMessageProcessed` is
FALSE, which is what the code computes: it calls an optional method that the
store does not have.

**AtMostOnceDelivery** is the promise: store at most once, and hand off to each
mailbox at most once and only what is stored.

**Mailbox.** One user and several polls (devices). The entries, their
fingerprint and their delivery key are constants, because the code derives the
keys from the entry alone and two entries may share them. `Answer` runs from the
end of the drain to `res.json`; with no store there is no drain to wait for.
`answered` and `lost` are ghosts: they record what was given to a client and
what was dropped unread, at the places in the code that do it.

**DeltaSync.** A message is a row with the timestamp its composer gave it. The
launch goes through start, reset, asked, served, stored, finish; a failed launch
goes to `recoverMissedMessages`; pulls and reconnects ask with
`_resolveSyncCursor`. `RowsSince` is the query: rows above the cursor, the newest
first, limited. Constants switch on the sources that a question is about: other
composers' clocks (`InOrder`), the socket (`Realtime`), FCM (`Pushes`).

**Outbox.** `at[route][message]` is where a route is with a message. Compose
writes status then row, drain writes row then status, as in the code. `disk` is
chosen at the start: "fails" is the web without `sqlite3.wasm`, where
the insert may throw. The server is the claim in memory (`claim`) and the status it
knows: `Arrive` claims, `HandlerStores` stores and answers, and a request that
finds the claim is answered success at once (`AnsweredDuplicate`,
`server.js:2799-2810`), before there is anything to have; `early` records that. A
request that timed out is handled all the same. `ClearDatabase` and `ClearMemory`
are the two halves of `clearAll` (`store:639`, `:4758`, `:646`) and of the full
sync, with the routes going on between them; `wiped` records whose rows went.
A second user, to whom this is a clearing, and the expiry of the claim, after
which the unique index gives the same answer, are left out.

**RealtimeTransport.** The record `rt` has the service's fields; its private
methods are operators from fields to fields, and an action is one callback,
written as the methods it calls in their order. `_sseClient` and
`_sseSubscription` point to slots of `streams`, because a second request
overwrites them while the first is still alive. `closing` is a request whose
client was closed and whose error has not arrived. `platform` is chosen at the
start: on the web there is no stream.

**The web client.** Each module takes from the rows of a chat what it needs.

- `WebOutbox`: `outbox` is localStorage, written at once; `outRow` and `outDisk`
  are the row on the page and in IndexedDB, written a quarter of a second later
  (`OutboxPersistState`). A flush has the items it loaded (`outFlush`) and writes
  back what is left of *them*: what was saved meanwhile is the ghost `erased`.
  The service worker may answer a send itself (`by = "worker"`).
- `OfflineReplies` and `PendingPushes`: a queue is one cache entry, and every
  change is a read, an await and a write of the whole. A write counts what it
  overwrote unread (`repliesLost`, `pushesLost`). The browser may stop the worker.
  A read of the queue of pushes may fail and then counts as an empty queue
  (`sw:184-187`), so the write that follows drops what is there; `pushesLost` says
  for each payload by which cause it went.
- `WebInbox`: what a copy of a message does depends on whether it comes alone or
  in bulk, seen or not; tombstones and fingerprints of deleted messages are in
  memory only. Messages with equal text within thirty seconds are the
  constant `Twins`.
- `WebReceipts`: `pending` is the very set a flush works on; a reset replaces it
  under the flush (`crossed`).
- `WebRecovery`: `ask.since` is the newest timestamp the page held when the
  recovery began; `excused` names the ways the code puts a newer message above a
  missing one.
- `ShuttleOrders`: the dialog, the orders shown, the flight they share
  (`ordersFlight`), and the calls that book and cancel; the sheet takes a
  submission after it was answered.
- `WebGroups`: a device shows a record with its stamp; calls, mail and the saved
  outbox hold records too. Stamps are what devices' clocks answer, in any order,
  and more than once (`clashed`). A push of a message names the group without
  members and stamp (`server.js:2890-2913`): `PushNamesGroup` stamps anew what the
  device shows, or shows a group without members (`web-store:7227`, `:7238`).
- `WebTransport`: as `RealtimeTransport`, the fields are a record `t` and the
  methods operators; `creating` counts the sockets being created, per user.

**The server.**

- `Helpdesk`: a handler that reads and writes on different connections is two
  actions with the request in between (`request`), one in a transaction is one
  action: what it writes by a name it has locked, row or gap, before. An update of
  a department is `CheckUpdateDepartment`, which reads name and statuses without a
  lock, and `UpdateDepartment`, which writes by the name read. A ticket has the name
  of its department. A request whose check another
  one has made wrong before it writes is `overtaken`, and `raced` are the tickets
  such a request wrote, or left without their department, as the second of two
  renames does that both read the old name.
- `OneTimeCodes`: the mirror, the column, the sheet and the gateway are four
  places, each written by its own step.
- `StateStores`: MySQL, Redis and the file, and which of them a process saves to.
  A process saves to MySQL only if its own load found the state there
  (`server.js:5376`); a save that fails there goes to an older store.
- `ChatGroups`: `groupWrite` are the writes of rows under way, `groupSaves` the
  saves, `savedGroup` what each store has, `localGroup` the file beside them. A
  restart empties the memory; the load is five steps (`groupsLoad`), between
  which updates are served: the state from one store, which replaces what
  was taken since the start, the local database unless the state came from MySQL,
  seeding the rows, reading the rows. Each may fail. `forgone` is the age of the
  youngest record the load passed over. Seeding and reading the rows are a step
  each.
- `CommunityGroups`: `edit` and `loaded` are where an edit and its reload are;
  `behind` says that rows changed since the last reload read them.
- `PushSubscriptions`: a push asks the cache, then the rows, then everything, and
  once more when nothing arrived. Several can run while endpoints are registered,
  replaced, pruned, copied and loaded. `owed` is what was known and live from its
  begin. A limit keeps some of the endpoints found (`Limited`), in both attempts:
  any of them, as the order and the device types that choose are abstracted;
  `leftOut` are those it left out of both. A load may bring back the endpoints of any
  save (`LoadSubs`), since which store it finds does not matter to the property.
- `PromptCampaign`: marks are written when the run ends; `tracked` is the list of
  campaigns the server remembers, the oldest of which is dropped.
- `ShuttleOperations`: a version stands for the contents of the sheet; `reading`
  requests share one read.
- `ShuttleReminders`: the run has the hour it began in. A push may arrive although
  its answer is lost, and is then tried a second time at once, or announced by the
  next run: only an answer marks the ride. Marks are saved by saves that overlap
  (`markSaves`) into any store, and loaded from one after the process has begun to
  serve. `forgotten` are the rides that were announced and whose mark a run may not
  see, for one of these causes. The marks' limits (5000, two weeks) are left out.
- `Uploads`: the disk maps a path to whose content it holds; both paths of a
  users upload are chosen by the client.
- `SeenRecords`: a receipt is the updates it still has to make (`left`), in any
  order. `ackHandlers` says whether the socket's two events have a handler.
- `FastReply`: handler, job queue, FCM worker and fan-out worker, each with its
  own stops.

`MCWebClient` and `MCServerParts` hold these twenty parts. The modules of one
side share no variable, so a product of them would only multiply their states: a
variable `part`, chosen at the start, says which of them takes steps, and the
others rest in an initial state.

## The runs

| run | question | instance |
|---|---|---|
| `reply_all` | Stored and queued once, claimed and acknowledged only when durable, without a store queued for every recipient, and `AtMostOnceDelivery` is implemented | three invocations at a time; a group message, one without recipients, one refused; store off, up or down; two errors, one restart |
| `mailbox_all` | No poll repeats, every entry is accounted for and is eventually taken out | a message and a receipt without id, two polls, with and without Redis, with and without rows in `ServerState`, one error, one restart |
| `delta_poll` | Polling alone has no gap and delivers everything | three messages in order, one failure, one termination |
| `delta_all` | All sources together: shown is stored, cursors are backed | two messages, one of them own, any order, one failure, two terminations |
| `outbox_routes` | Ticks are true, failed is queued, rows leave when received, and all leave if connections are lost and made again and again | one message, three routes, a server that claims, stores and answers; one fault, one termination, one clearing |
| `transport_all` | The mode is true, the socket comes back | two users in turn, three streams alive at a time, the code's three failures, native and web |
| `web_parts` | The nine parts of the web client, one property each (below) | 1.6 million states; bounds below |
| `server_parts` | The eleven parts of the server, one property each, `Helpdesk` two (below) | 1.9 million states; bounds below |
| `reply_lost` | *fails*: "zero missing messages" | a claim answers a retry as success before the first attempt has stored anything, and that attempt then fails |
| `mailbox_edit` | *fails*: a skipped entry was answered before | an edit shares the delivery key of the message it edits, and a poll drops it |
| `outbox_rest` | *fails*: failed messages are "retried automatically with exponential backoff" (`outbox_processor.dart:18-20`) | one request is refused; the connection and the app last, and nothing reads the row again |
| `delta_limit` | *fails*: what is missing is above the cursor | more was missed than one answer holds: the newest rows move the cursor past the rest |

| property | part | what it says | bounds |
|---|---|---|---|
| `QueuedIsKept` | `WebOutbox` | what is shown as queued is saved, received, given up, or was erased by a flush | two messages, one flush, one reload |
| `AnsweredIsKept` | `OfflineReplies` | what the worker answered 202 is kept or received | three requests, two flushes, queue of two |
| `DeletedStaysHidden` | `WebInbox` | a known deletion is not undone but by a failed own edit | two incoming with equal texts, one own, one reload |
| `TrackedIsOwed` | `WebReceipts` | a tracked message is pending or told | two messages, two flushes, one reset |
| `PushIsKept` | `PendingPushes` | a payload is in the queue, in a drain, in memory or applied, or went by a cause named for it | three pushes, two drains, queue of two, any read failing |
| `NothingBelow` | `WebRecovery` | what is missing is in reach | three messages, page of one, limit of two, two faults |
| `CancelIsConfirmed` | `ShuttleOrders` | a confirmed cancellation was seen in the sheet after it was sent | one trip, two calls, a reader |
| `SameStampSameMembers` | `WebGroups` | one stamp, one list of members, but for stamps two clocks gave and groups known from a push alone | three members, three devices, two stamps given, two posts, one loss |
| `Recovers` | `WebTransport` | a socket, an attempt or a timer is always there | two users, cooldown after two failures, three network changes |
| `ListedIsReadable`, `TicketsKeepADepartment` | `Helpdesk` | what a list shows can be opened; departments of tickets exist, but for those an overtaken request wrote or left | one ticket, two departments, two requests, two edits, one note |
| `AnsweredCodeVerifies` | `OneTimeCodes` | the code last promised is accepted after one loss | two requests, one check, two tries |
| `MarkedIsFinal` | `FastReply` | what was stored and marked is not stored again | two requests of one message or two, two chunks, one fault |
| `OperationsNeverGoBack` | `ShuttleOperations` | an operator's list does not go back | two operators, three versions, two failures |
| `RemindedOnce` | `ShuttleReminders` | twice only if the mark was missing for a cause that is named | one ride, two runs, two saves under way, two faults |
| `GroupNeverOlder` | `ChatGroups` | once loaded, memory is not older than any store, the local database or the rows, but for what the load passed over | two updates of two payloads, two writes and one save under way, two faults |
| `PolicyFollowsRows` | `CommunityGroups` | the policy is the rows the last reload read | two groups, one of them a seed, two edits |
| `FailedMeansUnreachable` | `PushSubscriptions` | a known live endpoint was tried, unless the limit left it out of both attempts | two endpoints, one push, no limit or one, two faults |
| `PromptedOnce` | `PromptCampaign` | nobody is prompted twice while the campaign is tracked | two campaigns, one tracked, two endpoints, three runs |
| `PictureStays` | `Uploads` | a picture's file stays unless a sharer of it is rejected | two uploads, two names |
| `ToldIsRecorded` | `SeenRecords` | what the sender was told is recorded, or about to be | two messages, two receipts, one fault |

**Why the bounds are enough.** Every bound is a constant that its module marks
as one. Two invocations of one message, plus a third that finds what they left,
cover the races of the send path; two errors let one be hidden by another; one
restart separates what is durable from what is not, and a second one meets no
state the first does not leave. In `delta_all` there are two terminations: one
drops a write the cursor was saved beside, the next meets that cursor. In `Mailbox`, two polls and an entry with and
one without a delivery key reach every pair of a poll and a copy of an entry. In
`DeltaSync`, three messages are one below the cursor, one at it and one above.
In `Outbox` the routes touch one message at a time and share no state
between messages but the list they loop over, so the races are within one
message; one fault, one termination and one clearing already lose or refuse a
request, end a route at any of its steps and delete the row under it. In
`RealtimeTransport` three slots are the current stream, the one it
overtook and one that is closing; an action that would need a fourth waits.

In the parts, two overlapping requests are the race of every read-await-write,
and two items are the one a step touches and the one it should leave alone; where
a queue or a limit is the point, the bound is one above it (three replies for a
queue of two, three rows for a limit of two, two campaigns for one tracked, three
pushes for a queue of two). One restart or reload is enough where what it forgets
is not gathered again; where a fault may hide another there are two.
`PushSubscriptions` has one push at a time in the run: its two endpoints are the
one replaced and the one that replaces it, and pushes meet in the copies only,
which registrations, syncs and the ageing of the cache change under it anyway.
`Helpdesk` has two edits of its departments, statuses and users in the run: two
renames that overlap. For time, it has one row id to spare and one note in the run,
`ShuttleReminders` one ride, whose marks do not touch those of another, and
`ChatGroups` one save at a time. Symmetry is among requests and among helpdesk users,
which no definition tells apart, and no liveness is asked of the run that uses it.
The proofs below remove the bounds for the safety properties.

Deadlock is not checked where the system may rest: when every message is
delivered and every bound is used up nothing more need happen.
`transport_all` does check it.

**Fairness**, and what in the code justifies it:

- `ReplyPipeline` and all parts of `web_parts` and `server_parts`: none. Nothing
  makes a client, a user or a sheet act, and only safety is asked.
- `Mailbox`: a poll goes on, because the client polls every five seconds and
  a drain ends in an answer or an error; the one attempt to connect to Redis ends.
  Expiry, saves, syncs and restarts are not promised.
- `DeltaSync`: the app is opened again, the cache restore and the launch go on,
  pulls come from the poll timer, and every request ends in an answer or an error
  (the HTTP client has timeouts). Terminations and failures are bounded.
- `Outbox`: requests, handlers and inserts end, a backoff ends because time
  passes, the app is opened again, the transport connects. That a connection is
  ever lost is not assumed: `outbox_rest` shows that a row then may rest
  for ever, because `drainQueue` is called on connection only. What the code does
  give is `DrainedByReconnecting`: its premise is that connections are lost again and
  again, stated in the property and not in the specification.
- `RealtimeTransport`: the timers fire, the cooldown passes, and a device that
  attempts again and again succeeds some day (strong fairness of `SocketOpens`,
  an assumption about the network).

**The definitions marked "mutated"** in the modules (`*Unguarded`, `*Later`,
`CopyOver`, `LocalIfNoRow`, ...) are plausible mistakes. Each property is shown
to fail when one of them replaces the definition that follows it, so that none
holds by the shape of the model.

## What is proved

TLAPS checks these for every value of the constants that satisfies the module's
assumptions, so for any number of messages, users, slots, polls, streams,
devices, errors and restarts. Every safety property that a run of this project
finds to hold, invariant, action property or refinement, has its theorem, and
type correctness is proved for every module. A theorem about a part names the
invariant it is the consequence of; what follows says why that invariant is
needed, since the property alone is seldom inductive.

**ReplyPipelineProofs.** `DurableInv` joins `TypeOK`, `QueuedIsStored`,
`ClaimIsBacked`, `AckIsDurable` and what makes them inductive: from "committed"
on, an invocation's message is stored, and so is that of every echo under way.
It gives `QueuedOnlyStored`, `ClaimsBacked` and `AcksDurable` without the unique
index, and `LocalFanoutComplete` for the mode without a store.
`OnceInv` needs the index: of the invocations of one message at most one
has inserted and at most one is past its commit, and that one has not handed
anything off yet. It gives
`StoredAtMostOnce`, `HandedOffAtMostOnce` and `Refinement`, by which every step
of the send path is a step of `AtMostOnceDelivery` or changes nothing it sees.

**MailboxProofs.** `NoRepeats` rests on `RecallInv`: what this process answered
is in one of the two maps until it counts as answered "earlier", so a poll finds it there.
`EntriesAccounted` rests on `Placed` and `MarksAreAnswers`: a key in a map is one
of an answered entry. It assumes `DistinctKeys`, no two entries with one key;
`mailbox_edit` shows that the code does without it only by losing edits.

**DeltaSyncProofs.** `ShownStored` (`HeldInv`: what a request has stored and has
not applied yet, and what the restore has read, is in the table).
`CursorBacked` (`BackedInv`: every number a request may move the cursor to is
backed already), through any number of terminations: a kill drops the writes under
way, and the history `passed` records those whose message a saved cursor had passed
already, which is the one case in which the cursor is ahead of the table
(`KillKeepsBacked`). `PollingMissesNothing` (`PollInv`)
under `PollingAlone`: rows in the order of their timestamps, no socket, no
pushes, no own messages, no limit reached. It says of each answer under way that it has all rows
between its cursor and its newest, so that moving the cursor skips none.

**OutboxProofs.** `TicksTrue` and `RemovalsReceived` (`TickInv`: what a route takes
for an acknowledgement the server has said), up to a duplicate answered before
anything was stored (`Known`) and, for the removals, up to a clearing of all local
data. `FailedQueued` (`QueueInv`: a route that is sending has its row, or the server
has the message or said so, or the row was cleared), where the insert does not throw.

**RealtimeTransportProofs.** `Good(t, ss)` is an invariant of the fields and the
streams that every private method keeps, proved once per method; an action is a
few methods in a row. It adds to the properties that the client and the
subscription point to streams that are alive and open. With it `ModeLive`,
`SocketNotGivenUp` and `CooldownKept`; the last two are proved only, not run.

**WebClientProofs**, one section per part of the web client:

- *Groups*, `StampSaysMembers`. What is shown, recorded and mailed agrees because
  `Agree` speaks of more: calls under way and updates kept in a device's outbox
  become records later. `Stamped` (nothing carries a stamp that was not given)
  makes a change with a new stamp different from all of them; a stamp two clocks gave
  is excepted. A device that knows a group from a push alone posts with a stamp and
  without members, so the record takes the stamp and keeps its members: `Ahead`, by
  which the record is then as new as that stamp, keeps such a group from dating any
  other list (`RecordFull`, `Known`: there is a record by then, with members).
- *Outbox*, `QueuedIsKeptInvariant`. What the disk may bring back and what a flush
  loaded have to be accounted for as well as what is shown, for a reload and the
  end of a flush turn them into it.
- *Inbox*, `DeletedStaysHiddenInvariant`, inductive with the types. *Receipts*,
  `TrackedIsOwedInvariant`: `OneFlush`, without a reset there is one flush per
  chat and it works on the set new messages enter, so what its end deletes is what it
  sent.
- *Replies and pushes of the worker*, `AnsweredIsKeptInvariant` and
  `PushIsKeptInvariant`. What a flush has read is still to be sent, to be written
  back, or accepted; a window that was posted a payload has it. Lemmas about cutting
  a queue to its newest entries and appending to it (`RepliesInAppend`,
  `PushesInAppend`, `OthersAreKept`) say what such a write keeps.
- *Recovery*, `NothingBelowInvariant`, the longest. Pages are asked by offset in a
  list that is sorted anew for each page. `PagesCovered`: a row above the cursor with
  fewer newer rows than the offset is held, on its way or excused. `RanksAreHit`
  (among finitely many rows every rank is taken once) and `PagesFill` (a page
  is what lies between two offsets) are what paging rests on; a row committed
  between two pages only raises the ranks below it, so a page may repeat rows, never
  skip one. Rows have timestamps of their own: that is how the model names them.
- *Shuttle orders*, `CancelIsConfirmedInvariant`: a cancellation nobody has seen
  waits, and the read it joined still shows the order.
- *Transport*, `RecoversInvariant`: whoever is logged in is the active user. Each
  method of the service is one lemma, as in `RealtimeTransportProofs`.

**HelpdeskProofs**. `TicketsKeepADepartmentInvariant`: what a request has checked
still stands unless it is marked as overtaken (`MoveStands`, `CountStands`), and a
rename whose name is out of date leaves only tickets it records, for which department names must be apart (`NamesApart`, the unique index).
`ListedIsReadableInvariant`: a user without a role has no departments
(`RoleFirst`). `HelpdeskTypeCorrect`: the renames of a form's statuses are a
recursive function in the model; a form has at most two rows, so unfolding it twice
serves for induction (`RenamedIsAKey`). The attempt to prove the first of these
corrected the model: with three edits TLC found a deletion overtaken between its
count and its end that the history variable `raced` did not record. The handlers
are modelled as before; the exception in `TicketsKeepADepartment` now has that
case, too.

**ServerPartsProofs**, one section per part of the server:

- *Operators' list*, `ListNeverGoesBack`. `OneRead`: all requests in
  flight share one read of the sheet. `ListAges`: what operators see is no younger than
  what the cache, the copy kept for a failure and the read have, and the sheet is the
  youngest. A failed read answers with the copy, so its age is in the invariant.
- *Campaign*, `NoSecondPrompt`. `OneRun`: the flag of the server lets
  one run at a time be active, so the endpoints a run chose (`TargetsAreNew`)
  are still unmarked when it prompts them; `PromptsAreKnown`: what was
  prompted is marked or in the hands of that run.
- *Reminders*, `RemindedOnceInvariant`: one job runs (`OneJobRuns`), what it is
  about to announce is new or `forgotten` (`DueIsNew`), and what was announced is
  marked in memory, or in a store while the load is still to come, or forgotten
  (`AnnouncedIsMarked`). The proof is for any number of rides; the run has one.
- *Groups*, `GroupNeverOlderInvariant`: a process has `Reached` an age if its record
  is as young, or its load passed over one. What is under way and to be seeded is
  reached (`PendingReached`), and so is every place the load has left behind
  (`LoadedReached`): no later write, of whatever order, can then be younger than
  the record. *Communities*, `PolicyFollowsRowsInvariant`: a reload that has read the rows as
  they are now holds them (`LoadedIsCurrent`). *Receipts*,
  `ToldIsRecordedInvariant`: reports and receipts are of committed rows.
- *Fast reply*, `MarkedIsFinalHolds`, an action property: a request past the marking
  left its mark, unless Redis failed.
- *Codes*, `AnsweredCodeVerifiesInvariant`. After no failure both places hold the
  code, after one failure one of them; and `MirrorHolds` counts: the mirror has
  lost no more attempts than there were checks that have ended, so it has one left
  for each check under way (`Trying`), and checks side by side cannot use it up.
- *Push*, `FailedMeansUnreachableInvariant`. A live endpoint that a send owes its
  message is in memory and, once there are targets, among those left or left out by
  the limit (`OwedIsTried`); what was left out of both attempts was not tried in
  either (`LeftOutIsUntried`).
  That no send takes it for gone (`LiveIsNotGone`) needs that all copies hold
  only endpoints the browser once had (`OnlyIssued`): a new one is in none.
- *Uploads*, `PictureStaysInvariant`. A file under its original name stays until a
  rejected upload takes it away (`PlacedIsThere`, `NamesKeep`), because a copy
  does not replace.

**Compositions.** `MCWebClient` and `MCServerParts` take the steps of one part
at a time. `PartsAreApart`, in each of the two modules, shows that such a behaviour
is one of every part's specification, so the theorems about the parts hold of it;
`WebClientTypesHold` and `ServerTypesHold` are the invariants the two runs check.

**Only model-checked**: the liveness properties `EventuallyRead`,
`EventuallyHeld`, `DrainedByReconnecting` and `Reconnects`, since the prover does not
reach liveness under fairness, nor ENABLED; and the four failures, which are
counterexamples (`EventuallySent` among them). Induction over data is out of the prover's reach too: no module
with proofs has a recursive operator, the recursive functions are unfolded as far as
the constants bound them, and the one place that needs a maximum
(`NewestExists` in `DeltaSyncProofs`) has it from the well-foundedness of the strict
subset order. For the same reason two definitions that filtered a sequence,
`Others` of `PendingPushes` and `CountedInWindow` of `OneTimeCodes`, say
by sets and subsequences what they keep; TLC found both equal to the filter.

## Disagreements without a run

Places where the code does something else than its documents or comments say,
that were met while modelling and that no run above is about.

*Send path and mailbox*

- With Redis `addToQueue` returns inside its loop (`server.js:878`): only the first
  recipient of a group message gets a mailbox entry, and neither webhooks nor
  realtime clients are notified, while the sender is acknowledged, against "Queue to
  recipients" (`RELIABILITY_ARCHITECTURE.md:386-387`). `ReplyPipeline` has the
  step (`QueueFirstInRedis`); `LocalFanoutComplete` is stated for the mode
  without a store.
- The unique index is created at start with a warning if that fails
  (`mysql-logs:2069-2071`, `server.js:1346-1371`); without it two retries store
  a message twice, against `COMPLETE_ARCHITECTURE_SUMMARY.md:155`. `StoredOnce`
  is stated for `UniqueIndex`.
- `GET /messages` empties the mailbox before its response has left
  (`message.controller:757`, `:775`), so a broken connection loses the batch;
  only the sync brings it back.
- `enqueueMessages` returns without an error when Redis is disconnected
  (`redis-store:185`), so the fallback its caller has never sees the entry.
- The fingerprints are in memory (`message.controller:46`), the queue may be
  loaded from the file: after a restart entries are answered again, against
  `DUPLICATE_NOTIFICATION_FIX.md:121-124`.

*Synchronisation*

- A realtime delivery moves the cursor (`store:2998`) past messages the device
  has missed, against "a lossless safety net even while Socket/SSE reports
  connected" (`store:4361`).
- Rows committed late, below the cursor (`mysql-logs:2428`: a retried or offline
  message keeps the time of its composition), are in no delta. Nor is the
  later one of two rows with the same millisecond: the comparison is strict.
- The floor left by background pushes is cleared when the launch ends, although
  its request or the recovery failed (`store:964-966`).
- The first load sets the cursor to 0 and awaits the preferences before it uses
  it (`store:881`, `:4622-4623`); a delivery in between makes it a delta.
- The reconnect sync is not behind the gate of the launch (`store:4309`, `:1600-1601`).
- `restoreLocalCache` decides on an empty memory, awaits, and overwrites the
  memory (`store:743-744`, `:782`); what was applied in between is hidden until
  it is read again. It stays in the table, as `ShownIsStored` says.
- The cursor is moved and saved while the messages are still being written
  (`store:2994-2998`, `:4530`); a termination then leaves a gap below the cursor,
  against the comment at `store:4685-4688`. `passed` in `DeltaSync` records it.

*Outbox*

- A duplicate is answered success before the first request has stored anything
  (`server.js:2799-2810`; the run `reply_lost`): the tick is shown and the row removed
  although the message may never be stored. `early` in `Outbox` records it.
- `clearAll`, at a login and at logout, deletes rows that were not sent
  (`chat_database.dart:999`).
- A message whose row could not be inserted is marked failed and is not tried
  again (`store:3306`). A termination between bubble and row (`store:3280`)
  leaves a pending bubble that nobody sends, against
  `COMPLETE_ARCHITECTURE_SUMMARY.md:172`.
- A receipt that overtakes the acknowledgement is downgraded: `store:3319` writes
  "sent" over "delivered" or "read", against the comment at `:3195-3197`.
- Receipts change the memory only (`store:4211-4213`, `:4520`); a termination
  forgets them.
- The backoff is `min(1000 * 2^retryCount, 1 h)` (`outbox_processor.dart:139`),
  not the 30 s its header says, and the power wraps around in 64 bits.

*Transport*

- `reconnectIfNeeded` "won't interrupt an ongoing socket/SSE session"
  (`transport:139-144`), but the socket it opens is torn down by a retry timer
  that was pending (`transport:541-544`): `_connectSocketPreferred` does not look
  at `_socketConnected`, and a success does not cancel the timer.
- The test of `_socketConnecting` (`transport:255`) has no effect:
  `_stopSocketOnly` resets the flag in the same callback.
- `_startSseFallback` tests the subscription, not a request under way, so the
  fallback timer and a connect error start two requests; the first one's client
  is lost. It opens all the same: beside an open socket, and after another user
  has logged in, whose store then receives the events of the first
  (`transport:439-465`; `store:4757-4758` means to exclude it).
- The end of an overtaken request stops the current stream (`transport:452-456`,
  `:494-497`) and occupies `_reconnectTimer` for its own user: within the
  cooldown the new user's stream is not asked for again until it is over, and
  polling is what is left.
- `_isConnected` stays true after the stream has ended, and becomes false when
  the socket drops although a stream is open.

*Web client: sending*

- `flushOutbox` saves `nextOutbox`, which it computed from what it loaded before
  its awaits (`web-store:2744`): a message queued meanwhile is erased, and of two
  flushes the later one can bring back what the earlier one sent.
- A login and a full sync clear the outbox whatever it holds. `handleOnline` does
  not flush it. A page closed during a send leaves "pending" for ever. A 202 of
  the service worker shows as "sent". "delivered" can become "sent" again.
- In the worker (`sw:28-175`) a queue is read and written back with an await in
  between: a request beside a flush, or two requests, can overwrite one another
  after the page was answered 202.
- `drainPendingPushPayloadQueue` clears before it answers, and the page gives up
  after 2.5 seconds: the payloads of that answer are lost; so are those of
  another user, and all of them at a login.
- A read of the payloads that fails answers `[]` (`sw:184-187`); the enqueue or the
  drain that follows writes that back (`sw:252`) and drops what was kept.

*Web client: receiving*

- A failed edit of the user's own message restores the snapshot over a deletion
  that came meanwhile (`web-store:7410`). Tombstones are in memory, so after a
  reload an old copy shows a deleted message again. An edit that comes before its
  message is lost. Equal texts within thirty seconds are taken for one message.
- The end of a flush of receipts deletes the chat's entry whatever is in it by
  then (`web-store:5711`); a timer that fires offline is not armed again.
- `/messages/sync` answers a failed read with an empty page, which ends the
  recovery as if nothing were missing. The limit of 1000 rows keeps the newest.
  A message delivered by socket, or the page's own, hides what it was missing
  below (`web-store:1980`).
- An answer of a poll or a recovery that arrives after everything was cleared is
  applied, against the comment at `web-store:2032-2037`.

*Web client: transport*

- `disconnect` keeps `activeUser`, so a socket being created at logout opens
  afterwards, against "Tear down all transports and timers"
  (`web-transport:110`).
- An error of the socket while the stream is open sets the mode to "polling", and
  `startSseFallback` returns early: "Current transport mode" (`web-transport:17`)
  is wrong from then on.
- The failed creation of another user's socket stops the socket of the current
  one and schedules nothing. A retry timer that fires without network is spent.

*Receipts*

- The handlers of `message:ack_delivery` and `message:ack_read` are registered
  inside the catch block of `chat:typing` (`server.js:6029-6073`): they exist only
  for a socket on which a typing signal has thrown, while the Flutter client emits
  them (`store:2902`, `:3690`).
- `markMessagesSeen` marks every row of the chat, opened or not. Rows of `Logs`
  have their `receiveDateTime` from the start (`mysql-logs:494`, `:667`), so
  `markMessagesDelivered` finds nothing to set. The group branch of
  `markMessagesSeen` (`mysql-logs:1203`) matches no row as groups are stored
  (`server.js:2925`, `:2971-2972`).

*Groups*

- A push that names a group makes a device stamp it with its own clock
  (`web-store:7227`), or create it without members (`:7238`), so real updates from a
  clock that is behind are refused as older. A message from there moves the stamp
  of the server's record on and keeps its members (`server.js:5284`, `:5312`).
- A load from MySQL does not read the local database (`server.js:5352-5379`), and a
  save that fell back to it or to an older store during an outage is passed over by
  the next load. A load replaces what was taken since the start (`:5360`). `forgone`
  in `ChatGroups` records both.
- `GET /groups` reads MySQL first, whose rows are written without waiting and in
  any order. An older update replaces name, type and administrators. At a start
  MySQL wins a tie.
- The actor's own other devices are not told of a group update
  (`membersToNotify`), so a rename from a second device re-stamps and reverts the
  members. A removal removes the group whatever its age and leaves no tombstone,
  so a late message brings it back. A refused update is not rolled back, and a
  queued one is sent later under its old stamp.
- Deleting a seeded community group (`server.js:7322`) seeds it again in the same
  request, against "Permanently delete a community group" (`mysql-logs:1871`).
  Disabling the last enabled group brings the seeds back. Of two overlapping
  reloads the older one may be applied last. `invalidateCommunityGroupsCache` is
  never called.
- A reaction is applied at once and never rolled back, and one to a message the
  device does not hold is dropped; of two the later arrival wins.

*Helpdesk and codes*

- A rename goes by a name that was read without a lock
  (`helpdesk.controller:2458`, `:2486`, `:2495`): of two that overlap the second
  leaves the tickets under the first one's name, with no such department.
- A department is deleted after its tickets were counted
  (`helpdesk.controller:2558`): a ticket created or transferred in between names no
  department. A transfer keeps the status key of the old department. An
  assignment that races a transfer leaves a handler of another department.
- A form with row ids that no longer exist drops statuses silently. The status
  "Inactive" of a helpdesk user is not consulted. The last administrator can be
  removed. Renames write no history.
- `ensureHelpdeskTables` never rejects, so a failure at start counts as done
  (comment at `helpdesk.controller:974-987`).
- The rollback of a failed gateway takes the newest entry of the window, whoever
  made it. A check clears mirror and column whatever they hold by then.
  `activeSessionIdsByUser` is never consulted.

*Push and campaign*

- `tryRegisterPush` does not look at the status of the answer
  (`web-store:7986-8007`): a refused registration is remembered as done.
- A forced read of the rows that finds nothing, or fails, answers with the old
  entry of the cache. A load in flight can put a pruned endpoint back. With
  one endpoint per user (`maxPerUserEndpoints: 1`, `server.js:9064`, `:9224`) a stale
  endpoint of the rows comes before the live one in memory, in both attempts, and
  the live one is never tried. Stale endpoints are removed from the sheet; MySQL follows with the next copy. A push
  that finds no target is not retried.
- The marks of a campaign are in memory and written when the run ends: a restart
  forgets them, and a send that failed after it arrived is not marked.

*Shuttle*

- `startShuttleCancelFlow`, `handleShuttleCancelSelection` and
  `markShuttleOrderCancelled` are never called.
- A list asked for before a booking overwrites the order just stored; a second tap
  on a station submits twice; a rebooked trip gets no second reminder. A
  cancellation counts as confirmed when the order is not in the list, although the
  sheet may take the booking later. A forced request of the operators joins a read
  that began before the cancellation (`shuttle.controller:339`).
- The scheduler of the reminders is switched off (`server.js:9338`, `:1237`); runs
  come from `POST /shuttle-reminders/run`. The "safety guard" (`:4084-4085`) asks
  the sheet and, when that fails, the stale cache it should guard against. The hour is
  fixed for the whole run. A ride whose push does not succeed gets another mailbox
  message in each run. A push that arrived and was not answered is unmarked
  (`:4127-4149`) and sent again, at once or by the next run; a restart before the
  save repeats a reminder, and so does a run before the load has ended, or a load
  from an older store. `forgotten` in `ShuttleReminders` records these.

*Uploads*

- A profile picture under a name that exists keeps the old file (`server.js:645-653`)
  and is answered "Profile picture updated successfully". A rejected upload
  deletes the file it came to share with another profile.
- Nothing tells the sheet of a new picture, and `syncSubscribeRows` writes the
  sheet's over it (`mysql-logs:2840`, every five minutes, `server.js:9342`): the
  picture lasts until the next copy.
- Accreditation uploads refuse names with Hebrew letters or blanks
  (`server.js:612`), which the comments of `buildSafeUploadFilename` promise to
  preserve; two of one name in one second overwrite each other.
- Files are served under their random names before they are inspected, and a
  restart leaves them for ever.

*Workers*

- `redis-streams.js:8-9` promises replay of what was not acknowledged, but every
  start has a new consumer id and reads `>` only: the entries of the old consumer
  stay pending. A group created at `$` skips what came before it.
- Two requests of one message before either is marked store it twice; the next
  `pts` is `MAX(pts)+1` without a lock; errors marked "[PERMANENT]" are retried.

*Server state*

- MySQL is switched on only if the first load returned rows, and a failed query
  looks like an empty table (`server.js:5376`, `:5468`): an empty table is never
  written, against "Will migrate to MySQL on next save" (`:5412`, `:5444`). Saves to
  Redis and to the file may overlap (`:5511`, `:5519`, `redis-store:166`). The server
  listens without waiting for `loadState` (`:900`, `:9395`).

## Plan

Done: the message path of the server and the Flutter client (`ReplyPipeline` with
`AtMostOnceDelivery`, `Mailbox`, `DeltaSync`, `Outbox`, `RealtimeTransport`) with
their proofs; the parts of the web client; helpdesk, codes, groups, receipts,
push, campaign, shuttle, uploads and workers on the server; the proofs of all of
their safety properties. What is left, in this order:

1. `ServerState`: load, save and migration over file, Redis and MySQL as a whole;
   `StateStores` and the three modules over it have its parts. Abstract specification: a register that a restart reads back. Two saves, two
   restarts, one failing store. To prove: a completed save is not overtaken by
   an older one, under the conditions the code needs for it.
2. `OutgoingQueue`: overlapping timer runs, a stop between sending and marking.
3. Abstract specifications beside `AtMostOnceDelivery`, each implemented by a
   module with an invariant that is proved already: a queue whose entries are
   taken once (`Mailbox`), a single-use code (`OneTimeCodes`), a replica that only
   moves forward (`ShuttleOperations`, `ChatGroups`).
4. Two pushes at a time in `PushSubscriptions`; a Flutter device's tokens beside a
   browser's endpoints.
5. Reactions, and the secretary bot's branch of `processReplyPayload`; size limits of
   the maps and MAXLEN of the stream in `Mailbox`; the manual full sync in
   `DeltaSync`.
6. A composition: `Outbox`, `ReplyPipeline` and `DeltaSync` of two devices over
   one message, for "what A's tick says, B gets", with `ReplyPipeline` taken as
   `AtMostOnceDelivery`; and `WebReceipts` with `SeenRecords`, for what the sender
   sees.

## Not modelled, and why

Whole components: the outgoing queue (in the plan; the hazard is listed), and the
server's state but for the parts named above; the socket and SSE server's rooms, which are
bookkeeping of connections, and appear elsewhere as deliveries that arrive or do
not; employee synchronisation, one statement after the other behind a flag;
accreditation agent and secretary bot, whose steps are calls of external services;
configuration, middleware and screens; compiled output, which follows its sources,
and the scripts that run in Google Sheets, which are external to it.

In the components that are modelled: reactions, badges, the column
`UserReceivedTime`, which endpoints a limit keeps, subscriptions with invalid
keys, the tokens of the Flutter app, the encryption of sessions, attachments and
notifications of tickets, what the inspection of an upload looks at, the caching
of assets, searches and pinned chats.

Rendering, wording, parsing and formatting: no property is about them.
Cryptography and calls of the sheet, the accreditation and shuttle services: their
content is outside the code. Timing other than order: a timer is an action that
may fire once it is set. The exact length of backoffs, sizes of the maps and of
the stream, and the order of entries within a mailbox: the properties do not tell
them apart, and the list of hazards names what goes wrong at those limits.
Devices' clocks are the freedom to commit rows in any order.

## Running

`tlc -config <cfg> MC<Module>.tla` checks an instance, with the names in
`PROJECT.json`; `tlapm <Module>Proofs.tla` checks the proofs. `web_parts` and
`server_parts` take two to three minutes each, the others less; the proofs of
`WebClientProofs` and `ServerPartsProofs` take about three minutes each, the
others at most one.
