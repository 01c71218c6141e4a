--------------------------- MODULE OfflineReplies ---------------------------
(***************************************************************************)
(* The replies the service worker of the web client keeps while the server *)
(* cannot be reached (src/frontend/public/custom-sw.js).  The queue is one *)
(* entry of the browser's cache: every change reads it, waits, and writes  *)
(* it back as a whole, and neither two requests, nor a request and a       *)
(* flush, nor two flushes exclude each other.                              *)
(***************************************************************************)
EXTENDS Naturals, Sequences

CONSTANTS OfflineRequests,  \* POSTs to /reply that did not reach the server
          ReplyFlushes,     \* flushes by sync event, by message and by timer
          MaxReplies,       \* entries persistOfflineReplyQueue keeps (120)
          MaxRounds         \* bound: flushes begun, workers stopped

ASSUME OfflineAssumption == MaxReplies \in Nat \ {0} /\ MaxRounds \in Nat

VARIABLES replyRequest,   \* what became of each request
          repliesSeen,    \* the queue as the handler of each request read it
          repliesStored,  \* the queue in the cache
          replyFlush,     \* each flush: entries to send, entries to keep
          accepted,       \* requests the server accepted
          repliesLost,    \* history: entries overwritten by a step that had not read them
          rounds

offlineVars == <<replyRequest, repliesSeen, repliesStored, replyFlush, accepted,
                 repliesLost, rounds>>

NoReplyFlush == [state |-> "idle", read |-> << >>, todo |-> << >>, remaining |-> << >>]
RepliesIn(queue) == {queue[i] : i \in DOMAIN queue}
NewestReplies(queue) == 
    SubSeq(queue, IF Len(queue) > MaxReplies THEN Len(queue) - MaxReplies + 1 ELSE 1,
                        Len(queue))

OfflineTypeOK ==
    /\ replyRequest \in [OfflineRequests -> {"new", "reading", "queued", "refused"}]
    /\ repliesSeen \in [OfflineRequests -> Seq(OfflineRequests)]
    /\ repliesStored \in Seq(OfflineRequests)
    /\ Len(repliesStored) <= MaxReplies
    /\ replyFlush \in [ReplyFlushes -> [state : {"idle", "sending"},
                                        read : Seq(OfflineRequests),
                              todo : Seq(OfflineRequests), remaining : Seq(OfflineRequests)]]
    /\ accepted \subseteq OfflineRequests /\ repliesLost \subseteq OfflineRequests
    /\ rounds \in 0..MaxRounds

OfflineInit ==
    /\ replyRequest = [r \in OfflineRequests |-> "new"]
    /\ repliesSeen = [r \in OfflineRequests |-> << >>]
    /\ repliesStored = << >> /\ replyFlush = [f \in ReplyFlushes |-> NoReplyFlush]
    /\ accepted = {} /\ repliesLost = {} /\ rounds = 0
-----------------------------------------------------------------------------
\* mutated: the queue has no limit.
PersistAll(queue, read) ==
    /\ repliesStored' = queue
    /\ repliesLost' = repliesLost \cup (RepliesIn(repliesStored) \ RepliesIn(read))

(* persistOfflineReplyQueue: the newest entries of what it is given.  What *)
(* the cache holds and the writer never read is gone.                      *)
Persist(queue, read) ==
    /\ repliesStored' = NewestReplies(queue)
    /\ repliesLost' = repliesLost \cup (RepliesIn(repliesStored) \ RepliesIn(read))
                      \cup (RepliesIn(queue) \ RepliesIn(NewestReplies(queue)))

(* The fetch handler: the network failed, the queue is read.               *)
Intercept(r) ==
    /\ replyRequest[r] = "new"
    /\ replyRequest' = [replyRequest EXCEPT ![r] = "reading"]
    /\ repliesSeen' = [repliesSeen EXCEPT ![r] = repliesStored]
    /\ UNCHANGED <<repliesStored, replyFlush, accepted, repliesLost, rounds>>

(* The queue is written and the page gets 202 ...                          *)
Enqueue(r) ==
    /\ replyRequest[r] = "reading"
    /\ replyRequest' = [replyRequest EXCEPT ![r] = "queued"]
    /\ Persist(Append(repliesSeen[r], r), repliesSeen[r])
    /\ UNCHANGED <<repliesSeen, replyFlush, accepted, rounds>>

(* ... or the cache refused it and the page gets 503.                      *)
EnqueueFails(r) ==
    /\ replyRequest[r] = "reading"
    /\ replyRequest' = [replyRequest EXCEPT ![r] = "refused"]
    /\ UNCHANGED <<repliesSeen, repliesStored, replyFlush, accepted, repliesLost, rounds>>
-----------------------------------------------------------------------------
StartReplyFlush(f) ==
    /\ replyFlush[f].state = "idle" /\ repliesStored # << >> /\ rounds < MaxRounds
    /\ rounds' = rounds + 1
    /\ replyFlush' = [replyFlush EXCEPT ![f] = [state |-> "sending", read |-> repliesStored,
                                      todo |-> repliesStored, remaining |-> << >>]]
    /\ UNCHANGED <<replyRequest, repliesSeen, repliesStored, accepted, repliesLost>>

\* mutated: an entry that was not accepted is not kept.
FlushSendsOnce(f, outcome) ==
    LET r == Head(replyFlush[f].todo) IN
    /\ replyFlush[f].todo # << >>
    /\ replyFlush' = [replyFlush EXCEPT ![f].todo = Tail(@)]
    /\ accepted' = IF outcome = "refused" THEN accepted ELSE accepted \cup {r}
    /\ UNCHANGED <<replyRequest, repliesSeen, repliesStored, repliesLost, rounds>>

(* Entries are sent in their order; one the server refuses (an old CSRF    *)
(* token) or does not answer stays, and may have been accepted.            *)
FlushSends(f, outcome) ==
    LET r == Head(replyFlush[f].todo) IN
    /\ replyFlush[f].todo # << >>
    /\ replyFlush' = [replyFlush EXCEPT ![f].todo = Tail(@),
                              ![f].remaining = IF outcome = "ok" THEN @ ELSE Append(@, r)]
    /\ accepted' = IF outcome = "refused" THEN accepted ELSE accepted \cup {r}
    /\ UNCHANGED <<replyRequest, repliesSeen, repliesStored, repliesLost, rounds>>

EndReplyFlush(f) ==
    /\ replyFlush[f].state = "sending" /\ replyFlush[f].todo = << >>
    /\ Persist(replyFlush[f].remaining, replyFlush[f].read)
    /\ replyFlush' = [replyFlush EXCEPT ![f] = NoReplyFlush]
    /\ UNCHANGED <<replyRequest, repliesSeen, accepted, rounds>>

(* The browser stops the worker: its page sees its requests fail.          *)
ReplyWorkerStops ==
    /\ rounds < MaxRounds /\ rounds' = rounds + 1
    /\ replyRequest' = [r \in OfflineRequests |->
                        IF replyRequest[r] = "reading" THEN "refused" ELSE replyRequest[r]]
    /\ replyFlush' = [f \in ReplyFlushes |-> NoReplyFlush]
    /\ UNCHANGED <<repliesSeen, repliesStored, accepted, repliesLost>>

OfflineNext ==
    \/ \E r \in OfflineRequests : Intercept(r) \/ Enqueue(r) \/ EnqueueFails(r)
    \/ \E f \in ReplyFlushes : StartReplyFlush(f) \/ EndReplyFlush(f)
    \/ \E f \in ReplyFlushes, outcome \in {"ok", "refused", "unknown"} : FlushSends(f, outcome)
    \/ ReplyWorkerStops

OfflineSpec == OfflineInit /\ [][OfflineNext]_offlineVars
-----------------------------------------------------------------------------
(* A reply the page shows as sent because the worker answered 202 is still *)
(* in the worker's queue or reached the server, unless two steps of the    *)
(* worker overlapped or the queue was full (enqueueOfflineReplyRequest,    *)
(* flushOfflineReplyQueue).                                                *)
AnsweredIsKept ==
    \A r \in OfflineRequests :
        replyRequest[r] = "queued" => r \in RepliesIn(repliesStored) \cup accepted \cup repliesLost
=============================================================================
