-------------------------- MODULE ShuttleOperations --------------------------
(* The orders of all users in the operators' room: what the server's proxy *)
(* caches of the sheet and which requests share one read of it.            *)
(* The sheet is external; a version stands for its contents.               *)
EXTENDS Naturals

CONSTANTS
    Operators,     \* clients that show the room
    MaxVersion,    \* bound: contents of the sheet
    MaxOpsFaults,  \* bound: failed reads of the sheet
    NoRead

ASSUME OperationsAssumption ==
    /\ MaxVersion \in Nat \ {0} /\ MaxOpsFaults \in Nat
    /\ NoRead \notin Operators

VARIABLES
    version,       \* external: the contents of the sheet
    opsCache,      \* shuttleOperationsProxyCacheByDate, 0 without an entry
    opsFlight,     \* shuttleOperationsProxyInFlightByDate: who asked
    opsRead,       \* the reads of the sheet: 0 until it answers
    opsRequest,       \* the request of each client
    shown,         \* the list each client shows
    opsFaults

opsVars == <<version, opsCache, opsFlight, opsRead, opsRequest, shown, opsFaults>>

Quiet == [at |-> "idle", on |-> NoRead, cached |-> 0]

OperationsTypeOK ==
    /\ version \in 1..MaxVersion
    /\ opsCache \in 0..MaxVersion
    /\ opsFlight \in Operators \cup {NoRead}
    /\ opsRead \in [Operators -> 0..MaxVersion]
    /\ opsRequest \in [Operators -> [at : {"idle", "waits"},
                                  on : Operators \cup {NoRead},
                                  cached : 0..MaxVersion]]
    /\ shown \in [Operators -> 0..MaxVersion]
    /\ opsFaults \in 0..MaxOpsFaults

OperationsInit ==
    /\ version = 1 /\ opsCache = 0 /\ opsFlight = NoRead
    /\ opsRead = [o \in Operators |-> 0]
    /\ opsRequest = [o \in Operators |-> Quiet]
    /\ shown = [o \in Operators |-> 0]
    /\ opsFaults = 0

\* External: an order is placed or cancelled.
SheetChanges ==
    /\ version < MaxVersion /\ version' = version + 1
    /\ UNCHANGED <<opsCache, opsFlight, opsRead, opsRequest, shown, opsFaults>>

\* mutated: every request reads the sheet itself.
NeverJoins == FALSE

(* A request not forced is answered from the cache. Any other joins the    *)
(* read under way, a forced one too, or starts one; it keeps what the      *)
(* cache held for the case that the read fails. An entry that has expired  *)
(* is dropped when it is looked up, which may be so at any time.           *)
Joins == opsFlight # NoRead
AskProxy(o, forced) ==
    /\ opsRequest[o].at = "idle"
    /\ \E cached \in {opsCache, 0} :
          /\ opsCache' = cached
          /\ IF forced = "no" /\ cached # 0
             THEN /\ shown' = [shown EXCEPT ![o] = cached]
                  /\ UNCHANGED <<opsFlight, opsRead, opsRequest>>
             ELSE /\ opsRequest' = [opsRequest EXCEPT ![o] =
                        [at |-> "waits", cached |-> cached,
                         on |-> IF Joins THEN opsFlight ELSE o]]
                  /\ opsFlight' = IF Joins THEN opsFlight ELSE o
                  /\ opsRead' = IF Joins THEN opsRead
                                ELSE [opsRead EXCEPT ![o] = 0]
                  /\ UNCHANGED shown
    /\ UNCHANGED <<version, opsFaults>>

SheetAnswers(o) ==
    /\ opsRequest[o].at = "waits" /\ opsRequest[o].on = o /\ opsRead[o] = 0
    /\ opsRead' = [opsRead EXCEPT ![o] = version]
    /\ UNCHANGED <<version, opsCache, opsFlight, opsRequest, shown, opsFaults>>

\* The end of o's read answers everyone who waits for it.
Sharing(o) == {p \in Operators : opsRequest[p].at = "waits" /\ opsRequest[p].on = o}
Settle(o) ==
    /\ opsRequest' = [p \in Operators |-> IF p \in Sharing(o) THEN Quiet ELSE opsRequest[p]]
    /\ opsFlight' = IF opsFlight = o THEN NoRead ELSE opsFlight
    /\ UNCHANGED <<version, opsRead>>

ReadDone(o) ==
    /\ o \in Sharing(o) /\ opsRead[o] # 0
    /\ opsCache' = opsRead[o]
    /\ shown' = [p \in Operators |-> IF p \in Sharing(o) THEN opsRead[o] ELSE shown[p]]
    /\ Settle(o)
    /\ UNCHANGED opsFaults

ReadFails(o) ==
    /\ o \in Sharing(o)
    /\ opsFaults < MaxOpsFaults /\ opsFaults' = opsFaults + 1
    /\ shown' = [p \in Operators |-> IF p \in Sharing(o) /\ opsRequest[p].cached # 0
                                     THEN opsRequest[p].cached ELSE shown[p]]
    /\ Settle(o)
    /\ UNCHANGED opsCache

OperationsNext ==
    \/ SheetChanges
    \/ \E o \in Operators :
          \/ \E forced \in {"yes", "no"} : AskProxy(o, forced)
          \/ SheetAnswers(o) \/ ReadDone(o) \/ ReadFails(o)

OperationsSpec == OperationsInit /\ [][OperationsNext]_opsVars

(* What an operator sees never goes back to an older sheet, although the   *)
(* cache, the shared reads and what is kept for a failure are of           *)
(* different ages.                                                         *)
OperationsNeverGoBack ==
    [][\A o \in Operators : shown'[o] >= shown[o]]_opsVars
=============================================================================
