------------------------------ MODULE WebInbox ------------------------------
(***************************************************************************)
(* The rows of one chat of the web client, and what changes them           *)
(* (src/frontend/src/app/core/services/chat-store.service.ts): copies of a *)
(* message that come by socket or push (one at a time) and by poll or log  *)
(* recovery (in bulk), actions of other devices, the user's own edits and  *)
(* deletions, and a page that is reloaded.  Tombstones and fingerprints of *)
(* deleted messages live in memory only.                                   *)
(***************************************************************************)
EXTENDS Naturals, FiniteSets

CONSTANTS Incoming,   \* messages of the other side
          Own,        \* messages of the user
          Twins,      \* sets of incoming messages of one text within the tolerance
          MaxReloads  \* bound: reloads, expiries and full synchronisations

InRows == Incoming \cup Own
ASSUME TwinsAssumption == Incoming \cap Own = {} /\ Twins \subseteq SUBSET Incoming
                          /\ MaxReloads \in Nat

VARIABLES inRow,    \* what the list shows of each message, "absent" without a row
          unread,   \* unreadByChat
          inDisk,   \* rows and count as persisted
          inDirty,  \* "yes" while persistTimer is armed
          tomb,     \* deletedMessageIdTombstones
          prints,   \* messages whose fingerprint is remembered as deleted
          editing,  \* own edits awaited: the row before, "none" without one
          undone,   \* history: deleted rows an edit that failed brought back
          reloads

inVars == <<inRow, unread, inDisk, inDirty, tomb, prints, editing, undone, reloads>>

Shown == {"text", "edited"}
Alike(m, n) == \E pair \in Twins : {m, n} \subseteq pair
Empty == [row |-> [m \in InRows |-> "absent"], unread |-> 0]

WebInboxTypeOK ==
    /\ inRow \in [InRows -> Shown \cup {"absent", "deleted"}]
    /\ unread \in Nat
    /\ inDisk \in [row : [InRows -> Shown \cup {"absent", "deleted"}], unread : Nat]
    /\ inDirty \in {"yes", "no"}
    /\ tomb \subseteq InRows /\ prints \subseteq InRows /\ undone \subseteq Own
    /\ editing \in [Own -> Shown \cup {"none"}]
    /\ reloads \in 0..MaxReloads

WebInboxInit ==
    /\ inRow = Empty.row /\ unread = 0 /\ inDisk = Empty /\ inDirty = "no"
    /\ tomb = {} /\ prints = {} /\ undone = {}
    /\ editing = [o \in Own |-> "none"] /\ reloads = 0
-----------------------------------------------------------------------------
(* A new row counts as unread unless its chat is on the screen.            *)
Insert(m, content, seen) ==
    /\ inRow' = [inRow EXCEPT ![m] = content]
    /\ unread' = IF m \in Incoming /\ seen = "no" THEN unread + 1 ELSE unread
    /\ inDirty' = "yes"

(* The same text of the same sender, shown under another id.               *)
Equivalent(m) == \E n \in Incoming : Alike(m, n) /\ inRow[n] = "text"
Suppressed(m) == \E n \in prints : Alike(m, n) \/ m = n

Hide(ms) ==
    /\ inRow' = [m \in InRows |-> IF m \in ms /\ inRow[m] # "absent" THEN "deleted" ELSE inRow[m]]
    /\ tomb' = tomb \cup ms
    /\ prints' = prints \cup {m \in ms : inRow[m] \in Shown}
    /\ inDirty' = IF \E m \in ms : inRow[m] \in Shown THEN "yes" ELSE inDirty

(* applyIncomingMessage: a copy that came alone.  A message that exists is *)
(* at most completed; a deleted one is only deleted again.                 *)
ArrivesAlone(m, seen) ==
    /\ \/ /\ m \in tomb
          /\ Hide({m}) /\ UNCHANGED unread
       \/ /\ m \notin tomb /\ inRow[m] = "absent" /\ Suppressed(m)
          /\ tomb' = tomb \cup {m}
          /\ UNCHANGED <<inRow, unread, inDirty, prints>>
       \/ /\ m \notin tomb /\ inRow[m] = "absent"
          /\ ~Suppressed(m) /\ ~(m \in Incoming /\ Equivalent(m))
          /\ Insert(m, "text", seen)
          /\ UNCHANGED <<tomb, prints>>
    /\ UNCHANGED <<inDisk, editing, undone, reloads>>

(* applyRegularIncomingMessagesBulk: a copy of a poll or of the history.   *)
(* One that was deleted meanwhile gets a row that says so; the history may *)
(* itself say that a message is deleted.                                   *)
ArrivesInBulk(m, seen, content) ==
    /\ \/ /\ m \in tomb
          /\ inRow' = [inRow EXCEPT ![m] = "deleted"]
          /\ prints' = IF inRow[m] \in Shown THEN prints \cup {m} ELSE prints
          /\ inDirty' = IF inRow[m] = "deleted" THEN inDirty ELSE "yes"
          /\ UNCHANGED <<unread, tomb>>
       \/ /\ m \notin tomb /\ inRow[m] = "absent" /\ Suppressed(m)
          /\ tomb' = tomb \cup {m}
          /\ UNCHANGED <<inRow, unread, inDirty, prints>>
       \/ /\ m \notin tomb /\ inRow[m] = "absent"
          /\ ~Suppressed(m) /\ ~(m \in Incoming /\ Equivalent(m))
          /\ Insert(m, content, seen)
          /\ UNCHANGED <<tomb, prints>>
    /\ UNCHANGED <<inDisk, editing, undone, reloads>>

(* A delete-action is consumed whether or not the message is there yet.    *)
DeleteArrives(ms) ==
    /\ Hide(ms)
    /\ UNCHANGED <<unread, inDisk, editing, undone, reloads>>

(* An edit-action changes a row that is there and not deleted; one that    *)
(* comes before its message is lost.                                       *)
Edited(m) == [inRow EXCEPT ![m] = "edited"]
\* mutated: a deleted row is edited too.
EditArrivesAnywhere(m) ==
    /\ inRow[m] # "absent"
    /\ inRow' = Edited(m) /\ inDirty' = "yes"
    /\ UNCHANGED <<unread, inDisk, tomb, prints, editing, undone, reloads>>

EditArrives(m) ==
    /\ inRow[m] \in Shown
    /\ inRow' = Edited(m) /\ inDirty' = "yes"
    /\ UNCHANGED <<unread, inDisk, tomb, prints, editing, undone, reloads>>
-----------------------------------------------------------------------------
(* The user edits: shown at once, taken back when the request fails, from  *)
(* a snapshot made before the request, whatever the row is by then.        *)
EditOwn(o) ==
    /\ inRow[o] \in Shown /\ editing[o] = "none"
    /\ editing' = [editing EXCEPT ![o] = inRow[o]]
    /\ inRow' = Edited(o) /\ inDirty' = "yes"
    /\ UNCHANGED <<unread, inDisk, tomb, prints, undone, reloads>>

EditOwnEnds(o, outcome) ==
    /\ editing[o] # "none"
    /\ editing' = [editing EXCEPT ![o] = "none"]
    /\ \/ /\ outcome = "ok"
          /\ UNCHANGED <<inRow, inDirty, undone>>
       \/ /\ outcome = "failed" /\ inRow[o] # "absent"
          /\ inRow' = [inRow EXCEPT ![o] = editing[o]] /\ inDirty' = "yes"
          /\ undone' = IF inRow[o] = "deleted" THEN undone \cup {o} ELSE undone
       \/ /\ outcome = "failed" /\ inRow[o] = "absent"
          /\ UNCHANGED <<inRow, inDirty, undone>>
    /\ UNCHANGED <<unread, inDisk, tomb, prints, reloads>>

(* A deletion is not taken back when its request fails.                    *)
DeleteOwn(o) ==
    /\ inRow[o] \in Shown
    /\ Hide({o})
    /\ UNCHANGED <<unread, inDisk, editing, undone, reloads>>

SendOwn(o) ==
    /\ inRow[o] = "absent" /\ o \notin tomb
    /\ Insert(o, "text", "yes")
    /\ UNCHANGED <<inDisk, tomb, prints, editing, undone, reloads>>

(* The bottom of the chat is reached, or another device read the chat.     *)
ClearUnread ==
    /\ unread > 0
    /\ unread' = 0 /\ inDirty' = "yes"
    /\ UNCHANGED <<inRow, inDisk, tomb, prints, editing, undone, reloads>>
-----------------------------------------------------------------------------
InboxPersistState ==
    /\ inDirty = "yes"
    /\ inDisk' = [row |-> inRow, unread |-> unread] /\ inDirty' = "no"
    /\ UNCHANGED <<inRow, unread, tomb, prints, editing, undone, reloads>>

InboxReloadPage ==
    /\ reloads < MaxReloads /\ reloads' = reloads + 1
    /\ inRow' = inDisk.row /\ unread' = inDisk.unread /\ inDirty' = "no"
    /\ tomb' = {} /\ prints' = {} /\ undone' = {}
    /\ editing' = [o \in Own |-> "none"]
    /\ UNCHANGED inDisk

(* DELETED_MESSAGE_SUPPRESSION_TTL_MS has passed.                          *)
SuppressionsExpire ==
    /\ reloads < MaxReloads /\ reloads' = reloads + 1
    /\ tomb' = {} /\ prints' = {}
    /\ UNCHANGED <<inRow, unread, inDisk, inDirty, editing, undone>>

(* The full synchronisation, or a new session: all is cleared.             *)
InboxClearAll ==
    /\ reloads < MaxReloads /\ reloads' = reloads + 1
    /\ inRow' = Empty.row /\ unread' = 0 /\ inDisk' = Empty
    /\ tomb' = {} /\ prints' = {} /\ undone' = {}
    /\ UNCHANGED <<inDirty, editing>>

WebInboxNext ==
    \/ \E m \in InRows :
        \/ \E seen \in {"yes", "no"} :
            \/ ArrivesAlone(m, seen)
            \/ \E content \in {"text", "deleted"} : ArrivesInBulk(m, seen, content)
        \/ EditArrives(m)
    \/ \E ms \in SUBSET InRows : ms # {} /\ DeleteArrives(ms)
    \/ \E o \in Own :
        \/ EditOwn(o) \/ DeleteOwn(o) \/ SendOwn(o)
        \/ \E outcome \in {"ok", "failed"} : EditOwnEnds(o, outcome)
    \/ ClearUnread \/ InboxPersistState \/ InboxReloadPage \/ SuppressionsExpire \/ InboxClearAll

WebInboxSpec == WebInboxInit /\ [][WebInboxNext]_inVars
-----------------------------------------------------------------------------
(* A message whose deletion the client knows of is not shown, in whatever  *)
(* order copies, edits and deletions come: unless an edit of the user that *)
(* failed restored the text over the deletion (restoreMessageSnapshotLocally). *)
DeletedStaysHidden == \A m \in tomb \ undone : inRow[m] \notin Shown
=============================================================================
