---------------------------- MODULE PendingPushes ----------------------------
(***************************************************************************)
(* The payloads of web pushes on their way to the page.  The service       *)
(* worker posts a payload to every window of the origin, then looks again  *)
(* whether one is visible, and keeps the payload in a queue when none is   *)
(* (custom-sw.js); the page drains the queue with a request it gives up    *)
(* after 2.5 seconds, and remembers what reaches it before its user is     *)
(* known (chat-store.service.ts).  The queue is one entry of the browser's *)
(* cache, read and written in separate steps; a read that fails counts as  *)
(* an empty queue, so the write that follows drops what it holds.          *)
(***************************************************************************)
EXTENDS Naturals, Sequences

CONSTANTS Pushes,     \* payloads with a fingerprint of their own
          Drains,     \* drains under way at the same time
          MaxPushes,  \* MAX_PENDING_PUSH_ITEMS (500)
          MaxMemory,  \* pendingServiceWorkerMessages (20)
          MaxEvents   \* bound: windows opened or shown, drains, logins

ASSUME PendingAssumption == {MaxPushes, MaxMemory} \subseteq Nat \ {0} /\ MaxEvents \in Nat

VARIABLES push,          \* the push listener of each payload
          pushesSeen,    \* the queue as that listener read it
          pushesStored,  \* the queue in the cache
          drain,         \* each drain: the worker's progress, what it read
          asking,        \* the drain the page waits for, "none"
          window,        \* "closed", "hidden", "visible"
          user,          \* currentUser is set: "in", "out"
          memory,        \* pendingServiceWorkerMessages
          applied,       \* payloads handed to applyIncomingFromPushPayload
          pushesLost,    \* history: what each cause has dropped
          events

pushVars == <<push, pushesSeen, pushesStored, drain, asking, window, user, memory,
              applied, pushesLost, events>>

(* What may drop a payload: a step wrote the queue that had read it before *)
(* the payload came, or whose read failed; it did not fit; it was drained  *)
(* and nobody had the answer; a login cleared it; the page took it along.  *)
LossCauses == {"overlap", "unread", "limit", "unanswered", "login", "page"}
LostBy(causes) == UNION {pushesLost[c] : c \in causes}
Lose(cause, payloads) == pushesLost' = [pushesLost EXCEPT ![cause] = @ \cup payloads]
Overwrites(blind) == IF blind THEN "unread" ELSE "overlap"

NoDrain == [state |-> "idle", read |-> << >>]
PushesIn(queue) == {queue[i] : i \in DOMAIN queue}
NewestPushes(queue, limit) ==
    SubSeq(queue, IF Len(queue) > limit THEN Len(queue) - limit + 1 ELSE 1, Len(queue))
\* mutated: the queue is replaced, not extended.
OthersForgotten(p) == << >>

(* The queue without p, which it holds at most once.                       *)
Others(p) ==
    LET queue == pushesSeen[p]
        at    == {i \in DOMAIN queue : queue[i] = p}
        first == CHOOSE i \in at : TRUE
    IN  IF at = {} THEN queue
        ELSE SubSeq(queue, 1, first - 1) \o SubSeq(queue, first + 1, Len(queue))

Drained == UNION {PushesIn(drain[d].read) : d \in {e \in Drains : drain[e].state = "cleared"}}
Event == events < MaxEvents /\ events' = events + 1

PushesTypeOK ==
    /\ push \in [Pushes -> {"new", "posted", "unheard", "reading", "kept", "skipped",
                            "blind", "missed", "stopped"}]
    /\ pushesSeen \in [Pushes -> Seq(Pushes)]
    /\ pushesStored \in Seq(Pushes) /\ Len(pushesStored) <= MaxPushes
    /\ drain \in [Drains -> [state : {"idle", "read", "blind", "cleared"}, read : Seq(Pushes)]]
    /\ asking \in Drains \cup {"none"}
    /\ window \in {"closed", "hidden", "visible"} /\ user \in {"in", "out"}
    /\ memory \in Seq(Pushes) /\ Len(memory) <= MaxMemory
    /\ applied \subseteq Pushes /\ pushesLost \in [LossCauses -> SUBSET Pushes]
    /\ events \in 0..MaxEvents

PushesInit ==
    /\ push = [p \in Pushes |-> "new"] /\ pushesSeen = [p \in Pushes |-> << >>]
    /\ pushesStored = << >> /\ drain = [d \in Drains |-> NoDrain] /\ asking = "none"
    /\ window = "closed" /\ user = "out" /\ memory = << >>
    /\ applied = {} /\ pushesLost = [c \in LossCauses |-> {}] /\ events = 0
-----------------------------------------------------------------------------
(* The push listener.  broadcastPushPayload: every window that is open now *)
(* gets the payload; without a user it waits in memory, the oldest give    *)
(* way.                                                                    *)
Broadcast(p) ==
    /\ push[p] = "new"
    /\ push' = [push EXCEPT ![p] = IF window = "closed" THEN "unheard" ELSE "posted"]
    /\ IF window = "closed" THEN UNCHANGED <<applied, memory, pushesLost>>
       ELSE IF user = "in"
       THEN applied' = applied \cup {p} /\ UNCHANGED <<memory, pushesLost>>
       ELSE LET kept == NewestPushes(Append(memory, p), MaxMemory) IN
            /\ memory' = kept
            /\ Lose("limit", PushesIn(memory) \ PushesIn(kept))
            /\ UNCHANGED applied
    /\ UNCHANGED <<pushesSeen, pushesStored, drain, asking, window, user, events>>

(* A visible window is taken as having received the broadcast; one that    *)
(* was opened since has not.                                               *)
SkipQueue(p) ==
    /\ push[p] \in {"posted", "unheard"} /\ window = "visible"
    /\ push' = [push EXCEPT ![p] = IF @ = "posted" THEN "skipped" ELSE "missed"]
    /\ UNCHANGED <<pushesSeen, pushesStored, drain, asking, window, user, memory,
                   applied, pushesLost, events>>

(* enqueuePendingPushPayload reads the queue; a read that fails (blind)    *)
(* finds nothing in it ...                                                 *)
ReadQueue(p, blind) ==
    /\ push[p] \in {"posted", "unheard"} /\ window # "visible"
    /\ push' = [push EXCEPT ![p] = IF blind THEN "blind" ELSE "reading"]
    /\ pushesSeen' = [pushesSeen EXCEPT ![p] = IF blind THEN << >> ELSE pushesStored]
    /\ UNCHANGED <<pushesStored, drain, asking, window, user, memory, applied,
                   pushesLost, events>>

(* ... and writes it back with the payload, the newest MaxQueue of them.   *)
WriteQueue(p) ==
    LET all   == Append(Others(p), p)
        queue == NewestPushes(all, MaxPushes)
    IN
    /\ push[p] \in {"reading", "blind"}
    /\ push' = [push EXCEPT ![p] = "kept"]
    /\ pushesStored' = queue
    /\ pushesLost' = [pushesLost EXCEPT
           ![Overwrites(push[p] = "blind")] =
               @ \cup (PushesIn(pushesStored) \ PushesIn(pushesSeen[p])),
           !["limit"] = @ \cup (PushesIn(all) \ PushesIn(queue))]
    /\ UNCHANGED <<pushesSeen, drain, asking, window, user, memory, applied, events>>

(* The cache refuses the write: the payload is not kept.                   *)
WriteFails(p) ==
    /\ push[p] \in {"reading", "blind"}
    /\ push' = [push EXCEPT ![p] = "stopped"]
    /\ UNCHANGED <<pushesSeen, pushesStored, drain, asking, window, user, memory,
                   applied, pushesLost, events>>
-----------------------------------------------------------------------------
(* consumePendingPushPayloadsFromServiceWorker: one request at a time,     *)
(* whose read may fail too.                                                *)
AskDrain(d, blind) ==
    /\ window # "closed" /\ user = "in" /\ asking = "none" /\ drain[d].state = "idle"
    /\ Event /\ asking' = d
    /\ drain' = [drain EXCEPT ![d] = IF blind THEN [state |-> "blind", read |-> << >>]
                                     ELSE [state |-> "read", read |-> pushesStored]]
    /\ UNCHANGED <<push, pushesSeen, pushesStored, window, user, memory, applied, pushesLost>>

(* drainPendingPushPayloadQueue has read the queue and empties it ...      *)
ClearQueue(d) ==
    /\ drain[d].state \in {"read", "blind"}
    /\ drain' = [drain EXCEPT ![d].state = "cleared"]
    /\ pushesStored' = << >>
    /\ Lose(Overwrites(drain[d].state = "blind"),
            PushesIn(pushesStored) \ PushesIn(drain[d].read))
    /\ UNCHANGED <<push, pushesSeen, asking, window, user, memory, applied, events>>

(* ... and answers; an answer nobody waits for, or for a user who left, is *)
(* dropped.  When the write fails the answer is empty and the queue stays. *)
AnswerDrain(d) ==
    /\ drain[d].state = "cleared"
    /\ drain' = [drain EXCEPT ![d] = NoDrain]
    /\ asking' = IF asking = d THEN "none" ELSE asking
    /\ IF asking = d /\ user = "in"
       THEN applied' = applied \cup PushesIn(drain[d].read) /\ UNCHANGED pushesLost
       ELSE Lose("unanswered", PushesIn(drain[d].read)) /\ UNCHANGED applied
    /\ UNCHANGED <<push, pushesSeen, pushesStored, window, user, memory, events>>

DrainFails(d) ==
    /\ drain[d].state \in {"read", "blind"}
    /\ drain' = [drain EXCEPT ![d] = NoDrain]
    /\ asking' = IF asking = d THEN "none" ELSE asking
    /\ UNCHANGED <<push, pushesSeen, pushesStored, window, user, memory, applied,
                   pushesLost, events>>

PageGivesUp ==
    /\ asking # "none" /\ asking' = "none"
    /\ UNCHANGED <<push, pushesSeen, pushesStored, drain, window, user, memory, applied,
                   pushesLost, events>>
-----------------------------------------------------------------------------
(* The window: focus and visibility changes drain the queue (AskDrain) and *)
(* hand over the memory (FlushMemory).                                     *)
OpenWindow ==
    /\ window = "closed" /\ Event /\ window' = "visible"
    /\ UNCHANGED <<push, pushesSeen, pushesStored, drain, asking, user, memory, applied,
                   pushesLost>>

ToggleWindow ==
    /\ window # "closed" /\ Event
    /\ window' = IF window = "visible" THEN "hidden" ELSE "visible"
    /\ UNCHANGED <<push, pushesSeen, pushesStored, drain, asking, user, memory, applied,
                   pushesLost>>

CloseWindow ==
    /\ window # "closed" /\ window' = "closed" /\ user' = "out"
    /\ Lose("page", PushesIn(memory)) /\ memory' = << >> /\ asking' = "none"
    /\ UNCHANGED <<push, pushesSeen, pushesStored, drain, applied, events>>

(* bootstrapSessionUser: the session's user is known again.                *)
SessionReady ==
    /\ window # "closed" /\ user = "out" /\ Event /\ user' = "in"
    /\ UNCHANGED <<push, pushesSeen, pushesStored, drain, asking, window, memory,
                   applied, pushesLost>>

FlushMemory ==
    /\ user = "in" /\ memory # << >>
    /\ applied' = applied \cup PushesIn(memory) /\ memory' = << >>
    /\ UNCHANGED <<push, pushesSeen, pushesStored, drain, asking, window, user,
                   pushesLost, events>>

(* applyAuthenticatedSessionUser: a login clears the queue of the worker,  *)
(* whoever its payloads are for, if the worker can write it.               *)
PushLogin ==
    /\ window # "closed" /\ Event /\ user' = "in"
    /\ \/ Lose("login", PushesIn(pushesStored)) /\ pushesStored' = << >>
       \/ UNCHANGED <<pushesLost, pushesStored>>
    /\ UNCHANGED <<push, pushesSeen, drain, asking, window, memory, applied>>

PushLogout ==
    /\ user = "in" /\ user' = "out"
    /\ UNCHANGED <<push, pushesSeen, pushesStored, drain, asking, window, memory,
                   applied, pushesLost, events>>

(* The browser stops the worker between two of its steps.                  *)
PushWorkerStops ==
    /\ Event
    /\ push' = [p \in Pushes |-> IF push[p] \in {"posted", "unheard", "reading", "blind"}
                             THEN "stopped" ELSE push[p]]
    /\ Lose("unanswered", Drained)
    /\ drain' = [d \in Drains |-> NoDrain]
    /\ UNCHANGED <<pushesSeen, pushesStored, asking, window, user, memory, applied>>

PushesNext ==
    \/ \E p \in Pushes : Broadcast(p) \/ SkipQueue(p) \/ WriteQueue(p) \/ WriteFails(p)
    \/ \E p \in Pushes, blind \in BOOLEAN : ReadQueue(p, blind)
    \/ \E d \in Drains, blind \in BOOLEAN : AskDrain(d, blind)
    \/ \E d \in Drains : ClearQueue(d) \/ AnswerDrain(d) \/ DrainFails(d)
    \/ PageGivesUp \/ OpenWindow \/ ToggleWindow \/ CloseWindow \/ SessionReady
    \/ FlushMemory \/ PushLogin \/ PushLogout \/ PushWorkerStops

PushesSpec == PushesInit /\ [][PushesNext]_pushVars
-----------------------------------------------------------------------------
(* A payload the worker kept because no window was visible is in its       *)
(* queue, read by a drain that has not answered, or applied; one it did    *)
(* not keep because a window that heard of it is visible is applied or in  *)
(* the page's memory.  Nothing but the causes named takes one away: from   *)
(* the queue a step that overlaps or whose read failed, the limit, an      *)
(* answer that comes too late, a login; from the memory its limit or the   *)
(* end of the page (the push listener, drainPendingPushPayloadQueue,       *)
(* consumePendingPushPayloadsFromServiceWorker).                           *)
PushIsKept ==
    \A p \in Pushes :
        /\ push[p] = "kept" => p \in PushesIn(pushesStored) \cup Drained \cup applied
                     \cup LostBy({"overlap", "unread", "limit", "unanswered", "login"})
        /\ push[p] = "skipped" => p \in PushesIn(memory) \cup applied
                     \cup LostBy({"limit", "page"})
=============================================================================
