----------------------------- MODULE WebRecovery -----------------------------
(***************************************************************************)
(* How the web client catches up with the messages it missed               *)
(* (chat-store.service.ts): the poll that empties the mailbox of the       *)
(* server, and recoverMissedMessagesFromLogs, which asks /messages/sync    *)
(* page by page for the rows above the newest timestamp the page holds.    *)
(* Meanwhile pushes and the socket deliver single messages, the user       *)
(* writes some, rows are committed in any order, answers get lost and the  *)
(* page is reloaded from what it last saved.                               *)
(***************************************************************************)
EXTENDS Integers, FiniteSets

CONSTANTS MissedIncoming, MissedOwn,  \* messages of others, messages written here
          Ts,                         \* ActionTimestamp of each message
          PageSize,                   \* rows per request (500)
          Limit,                      \* rows per recovery (1000)
          MaxRecoveryFaults           \* bound: answers lost, reads that fail, reloads, full syncs

Msgs == MissedIncoming \cup MissedOwn

ASSUME RecoveryAssumption ==
    /\ Ts \in [Msgs -> Nat \ {0}] /\ {PageSize, Limit} \subseteq Nat \ {0}
    /\ MaxRecoveryFaults \in Nat
    /\ \A a, b \in Msgs : Ts[a] = Ts[b] => a = b

VARIABLES rows,          \* rows of MessageActivities
          mailbox,       \* messageQueue[user] on the server
          held,          \* messagesByChat
          recoveryDisk,  \* the saved messagesByChat
          poll,          \* pullInFlight: "none" or the drained mailbox
          ask,           \* logsRecoveryInFlight: since, offset, rows so far
          cleared,       \* everything was cleared and no recovery has brought rows since
          excused,       \* history: messages a cause NothingBelow names put out of reach
          recoveryFaults

recVars == <<rows, mailbox, held, recoveryDisk, poll, ask, cleared, excused, recoveryFaults>>

NoAsk  == [state |-> "idle", since |-> 0, offset |-> 0, got |-> {}]
NoPoll   == [state |-> "idle", got |-> {}]
Latest(S) == IF S = {} THEN 0 ELSE CHOOSE t \in {Ts[m] : m \in S} : \A m \in S : Ts[m] <= t
Below(S)  == {m \in Msgs \ S : Ts[m] <= Latest(S)}
Above(t)  == {m \in rows : Ts[m] > t}
RecoveryFault     == recoveryFaults < MaxRecoveryFaults /\ recoveryFaults' = recoveryFaults + 1

RecoveryTypeOK ==
    /\ rows \subseteq Msgs /\ mailbox \subseteq MissedIncoming /\ held \subseteq Msgs
    /\ recoveryDisk \subseteq Msgs
    /\ poll \in [state : {"idle", "asked"}, got : SUBSET MissedIncoming]
    /\ ask.state \in {"idle", "asking", "done"} /\ ask.since \in Nat /\ ask.offset \in Nat
    /\ ask.got \subseteq rows
    /\ cleared \in {"no", "yes"} /\ excused \subseteq Msgs
    /\ recoveryFaults \in 0..MaxRecoveryFaults

RecoveryInit ==
    /\ rows = {} /\ mailbox = {} /\ held = {} /\ recoveryDisk = {}
    /\ poll = NoPoll /\ ask = NoAsk /\ cleared = "no" /\ excused = {} /\ recoveryFaults = 0
-----------------------------------------------------------------------------
(* The server stores a message and puts it in the mailbox.                 *)
Commit(m) ==
    /\ m \notin rows /\ (m \in MissedOwn => m \in held \cup recoveryDisk)
    /\ rows' = rows \cup {m}
    /\ mailbox' = IF m \in MissedOwn THEN mailbox ELSE mailbox \cup {m}
    /\ UNCHANGED <<held, recoveryDisk, poll, ask, excused, cleared, recoveryFaults>>

(* A push or the socket delivers one message; one written here appears at  *)
(* once.  Everything older that is missing falls below the newest.         *)
Deliver(m) ==
    /\ m \notin held /\ (m \in MissedIncoming => m \in rows)
    /\ held' = held \cup {m}
    /\ excused' = excused \cup Below(held \cup {m})
    /\ UNCHANGED <<rows, mailbox, recoveryDisk, poll, ask, cleared, recoveryFaults>>
-----------------------------------------------------------------------------
(* pullMessages: the server empties the mailbox; the answer arrives ...    *)
Poll ==
    /\ poll.state = "idle"
    /\ poll' = [state |-> "asked", got |-> mailbox] /\ mailbox' = {}
    /\ UNCHANGED <<rows, held, recoveryDisk, ask, excused, cleared, recoveryFaults>>

PollArrives ==
    /\ poll.state = "asked" /\ poll' = NoPoll
    /\ held' = held \cup poll.got
    /\ excused' = IF cleared = "no" \/ (ask.since = 0 /\ (ask.state = "asking" \/ ask.got # {}))
                  THEN excused
                  ELSE excused \cup Below(held')
    /\ UNCHANGED <<rows, mailbox, recoveryDisk, ask, cleared, recoveryFaults>>

(* ... or is lost, with what the mailbox held.                             *)
PollLost ==
    /\ poll.state = "asked" /\ RecoveryFault /\ poll' = NoPoll
    /\ excused' = excused \cup poll.got
    /\ UNCHANGED <<rows, mailbox, held, recoveryDisk, ask, cleared>>
-----------------------------------------------------------------------------
(* recoverMissedMessagesFromLogs asks from the newest message it holds.    *)
Recover ==
    /\ ask.state = "idle"
    /\ ask' = [state |-> "asking", since |-> Latest(held), offset |-> 0, got |-> {}]
    /\ UNCHANGED <<rows, mailbox, held, recoveryDisk, poll, excused, cleared, recoveryFaults>>

(* The rows above since, newest first, from the offset: as many as the     *)
(* limit leaves; since 0 is one page.  A page that is not full is the last.*)
PageOf(t, offset, size) ==
    {m \in Above(t) : Cardinality({k \in Above(t) : Ts[k] > Ts[m]}) \in offset..(offset + size - 1)}

AskPage ==
    LET left == Limit - Cardinality(ask.got)
        size == IF left < PageSize THEN left ELSE PageSize
        page == IF ask.since = 0 /\ ask.offset > 0 THEN {}
                ELSE PageOf(ask.since, ask.offset, size)
        got  == ask.got \cup page
        cut  == Cardinality(got) >= Limit \/ (ask.since = 0 /\ ask.offset > 0)
    IN
    /\ ask.state = "asking"
    /\ ask' = [ask EXCEPT !.got = got, !.offset = @ + Cardinality(page),
                          !.state = IF Cardinality(page) < size \/ Cardinality(got) >= Limit
                                    THEN "done" ELSE @]
    /\ excused' = IF cut THEN excused \cup (Above(ask.since) \ got) ELSE excused
    /\ UNCHANGED <<rows, mailbox, held, recoveryDisk, poll, cleared, recoveryFaults>>

(* A recovery from the start that brought nothing: the next one starts     *)
(* from what else was received.                                            *)
Missed == IF ask.since = 0 THEN excused \cup Below(held) ELSE excused

(* getMessageActivitiesForUser answers a failed read with no rows: the     *)
(* page is taken for the last one.                                         *)
ReadFails ==
    /\ ask.state = "asking" /\ RecoveryFault
    /\ ask' = [ask EXCEPT !.state = "done"]
    /\ excused' = IF ask.got = {} THEN Missed ELSE excused \cup (Above(ask.since) \ ask.got)
    /\ UNCHANGED <<rows, mailbox, held, recoveryDisk, poll, cleared>>

\* mutated: the rows of the pages that were answered are applied.
AskFailsHalfway ==
    /\ ask.state = "asking" /\ RecoveryFault /\ ask' = NoAsk
    /\ held' = held \cup ask.got
    /\ excused' = Missed
    /\ UNCHANGED <<rows, mailbox, recoveryDisk, poll, cleared>>

(* A request that fails ends the recovery: nothing of it is applied.       *)
AskFails ==
    /\ ask.state = "asking" /\ RecoveryFault /\ ask' = NoAsk
    /\ excused' = Missed
    /\ UNCHANGED <<rows, mailbox, held, recoveryDisk, poll, cleared>>

ApplyRows ==
    /\ ask.state = "done" /\ ask' = NoAsk
    /\ held' = held \cup ask.got
    /\ cleared' = IF ask.got = {} THEN cleared ELSE "no"
    /\ UNCHANGED <<rows, mailbox, recoveryDisk, poll, excused, recoveryFaults>>
-----------------------------------------------------------------------------
RecoveryPersistState ==
    /\ recoveryDisk # held /\ recoveryDisk' = held
    /\ UNCHANGED <<rows, mailbox, held, poll, ask, excused, cleared, recoveryFaults>>

RecoveryReloadPage ==
    /\ RecoveryFault /\ held' = recoveryDisk /\ poll' = NoPoll /\ ask' = NoAsk
    /\ excused' = excused \cup Below(recoveryDisk) \cup poll.got \cup (held \ recoveryDisk)
    /\ UNCHANGED <<rows, mailbox, recoveryDisk, cleared>>

(* forceSyncAllMessagesAndClearCache, a login: nothing is held.  A poll or *)
(* a recovery under way is not stopped, its answer is applied afterwards,  *)
(* and the recovery that follows finds the other one in flight or starts   *)
(* from what was applied.                                                  *)
RecoveryClearAll ==
    /\ RecoveryFault /\ held' = {} /\ recoveryDisk' = {}
    /\ excused' = IF poll = NoPoll /\ ask = NoAsk THEN excused ELSE Msgs
    /\ cleared' = "yes"
    /\ UNCHANGED <<rows, mailbox, poll, ask>>

RecoveryNext ==
    \/ \E m \in Msgs : Commit(m) \/ Deliver(m)
    \/ Poll \/ PollArrives \/ PollLost
    \/ Recover \/ AskPage \/ ReadFails \/ AskFails \/ ApplyRows
    \/ RecoveryPersistState \/ RecoveryReloadPage \/ RecoveryClearAll

RecoverySpec == RecoveryInit /\ [][RecoveryNext]_recVars
-----------------------------------------------------------------------------
(* A stored message the page does not hold is in the mailbox, in an answer *)
(* on its way or in reach of a recovery under way, or newer than all that  *)
(* is held, so that the next recovery asks for it. Excepted are those that *)
(* were missing when a newer one was delivered singly, that a lost answer  *)
(* or the limit took, that a failed read hid behind the page before it, or *)
(* that everything was cleared with an answer on its way                   *)
(* (getLatestMessageTimestamp, recoverMissedMessagesFromLogs,              *)
(* pullMessages).                                                          *)
NothingBelow ==
    \A m \in rows \ held :
        \/ m \in mailbox \cup poll.got \cup ask.got \cup excused
        \/ ask.state = "asking" /\ Ts[m] > ask.since
        \/ Ts[m] > Latest(held)
=============================================================================
