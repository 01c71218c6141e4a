----------------------------- MODULE ChatGroups ------------------------------
(* One group of the chat: the record in memory that every message, every   *)
(* reaction and every group update of a client rewrites, the saved state,  *)
(* the local database beside the older stores of it, the rows in MySQL,    *)
(* written without waiting, and the load that a process serves without     *)
(* waiting for and that reads some of these. Abstracted: the rows are      *)
(* seeded in one step and read in one, and a state that a process writes   *)
(* whole is the record of the group.                                       *)
EXTENDS Naturals, FiniteSets, StateStores

CONSTANTS
    People,
    Creator,          \* what clients give as groupCreatedBy
    GroupPayloads,    \* what clients send: members, admins and updatedAt
    GroupWrites,      \* writes to MySQL that may be under way together
    MaxStamp,         \* bound of updatedAt
    MaxGroupUpdates,  \* bound: updates and backups
    MaxGroupFaults,   \* bound: failed reads and writes, restarts
    MaxGroupSaves     \* bound: saves under way together

ASSUME GroupsAssumption ==
    /\ Creator \in People
    /\ GroupPayloads \subseteq [members : SUBSET People, admins : SUBSET People,
                                at : 1..MaxStamp]
    /\ {MaxStamp, MaxGroupUpdates, MaxGroupFaults, MaxGroupSaves} \subseteq Nat

VARIABLES
    chatGroup,     \* groups[groupId]
    savedGroup,    \* the same in each store of the state
    localGroup,    \* and in groupsDbFile
    row,           \* the rows of ChatGroups and its members and admins
    groupsFrom,    \* where this process has its state from
    groupsLoad,    \* what the load reads next
    groupSeed,     \* what the load will seed empty tables with
    groupWrite,    \* what each write under way will leave in the rows
    groupSaves,    \* the saves under way: what they write, and where to
    forgone,       \* history: the youngest record this process passed over
    groupUpdates,
    groupFaults

groupVars == <<chatGroup, savedGroup, localGroup, row, groupsFrom, groupsLoad,
               groupSeed, groupWrite, groupSaves, forgone, groupUpdates,
               groupFaults>>
groupStores == <<savedGroup, localGroup, row>>
loadOfGroups == <<groupsFrom, groupsLoad, groupSeed, forgone>>

GroupRecords == [members : SUBSET People, admins : SUBSET People, at : 0..MaxStamp]
NoGroup == [members |-> {}, admins |-> {}, at |-> 0]

GroupsTypeOK ==
    /\ {chatGroup, localGroup, row, groupSeed} \subseteq GroupRecords
    /\ savedGroup \in [Stores -> GroupRecords]
    /\ groupsFrom \in StateFrom
    /\ groupsLoad \in {"state", "local", "rows", "read", "done"}
    /\ groupWrite \in [GroupWrites -> GroupRecords]
    /\ groupSaves \subseteq [group : GroupRecords, to : {"mysql", "older", "local"}]
    /\ forgone \in 0..MaxStamp
    /\ groupUpdates \in 0..MaxGroupUpdates
    /\ groupFaults \in 0..MaxGroupFaults

GroupsInit ==
    /\ chatGroup = NoGroup /\ localGroup = NoGroup /\ row = NoGroup
    /\ savedGroup = [s \in Stores |-> NoGroup]
    /\ groupsFrom = "loading" /\ groupsLoad = "state" /\ groupSeed = NoGroup
    /\ groupWrite = [w \in GroupWrites |-> NoGroup] /\ groupSaves = {}
    /\ forgone = 0 /\ groupUpdates = 0 /\ groupFaults = 0

GroupFault ==
    /\ groupFaults < MaxGroupFaults
    /\ groupFaults' = groupFaults + 1

Newer(at, than) == at >= than
Later(at, than) == IF at > than THEN at ELSE than

\* Administrators: what came, else what is known, else the creator.
AdminsOf(p) ==
    IF p.admins # {} THEN p.admins
    ELSE IF chatGroup.admins # {} THEN chatGroup.admins ELSE {Creator}

(* An update without members, or older than the record, keeps the members; *)
(* administrators are taken from it whatever its age.                      *)
Upserted(p) ==
    [members |-> IF p.members # {} /\ Newer(p.at, chatGroup.at)
                 THEN p.members ELSE chatGroup.members,
     admins |-> AdminsOf(p),
     at |-> Later(p.at, chatGroup.at)]

\* upsertChatGroup is called and not waited for.
WriteBegins(group) ==
    \E w \in GroupWrites :
        /\ groupWrite[w] = NoGroup
        /\ groupWrite' = [groupWrite EXCEPT ![w] = group]
CountUpdate ==
    groupUpdates < MaxGroupUpdates /\ groupUpdates' = groupUpdates + 1
Upsert(p) ==
    /\ CountUpdate
    /\ chatGroup' = Upserted(p)
    /\ WriteBegins(Upserted(p))
    /\ UNCHANGED <<groupStores, loadOfGroups, groupSaves, groupFaults>>

\* A message or a reaction carries the group as its sender knows it.
SendToGroup(p) == Upsert(p)

\* POST /group-update: an administrator, or whoever creates the group.
CanManageGroup(user, p) ==
    IF chatGroup # NoGroup THEN user \in chatGroup.admins \cup {Creator}
    ELSE user \in p.admins \cup {Creator}
UpdateGroup(user, p) == CanManageGroup(user, p) /\ Upsert(p)

\* The transaction of upsertChatGroup; on an error it is rolled back.
WriteLands(w) ==
    /\ groupWrite[w] # NoGroup
    /\ groupWrite' = [groupWrite EXCEPT ![w] = NoGroup]
    /\ \/ row' = groupWrite[w] /\ UNCHANGED groupFaults
       \/ GroupFault /\ UNCHANGED row
    /\ UNCHANGED <<chatGroup, savedGroup, localGroup, loadOfGroups, groupSaves,
                   groupUpdates>>

\* POST /backup-all-groups-to-db
BackupGroups ==
    /\ CountUpdate
    /\ chatGroup # NoGroup /\ WriteBegins(chatGroup)
    /\ UNCHANGED <<chatGroup, groupStores, loadOfGroups, groupSaves,
                   groupFaults>>

(* The timer of scheduleStateSave, which many other requests start too:    *)
(* any moment may be its moment. MySQL is tried when the state came from   *)
(* there, and ends the save; otherwise, and when MySQL fails, an older     *)
(* store takes the record as it is by then, and the local database after   *)
(* it, which is written even when no store took it.                        *)
BeginGroupSave ==
    /\ Cardinality(groupSaves) < MaxGroupSaves
    /\ groupSaves' = groupSaves \cup
          {[group |-> chatGroup,
            to |-> IF groupsFrom = "mysql" THEN "mysql" ELSE "older"]}
    /\ UNCHANGED <<chatGroup, groupStores, loadOfGroups, groupWrite,
                   groupUpdates, groupFaults>>

SaveGoesOn(w, to) ==
    groupSaves' = (groupSaves \ {w}) \cup [group : {chatGroup}, to : to]
SaveGroup(w, s) ==
    /\ w \in groupSaves
    /\ \/ w.to = "mysql" /\ s = "mysql" /\ SaveGoesOn(w, {})
       \/ w.to = "older" /\ s \in Older /\ SaveGoesOn(w, {"local"})
    /\ savedGroup' = [savedGroup EXCEPT ![s] = w.group]
    /\ UNCHANGED <<chatGroup, localGroup, row, loadOfGroups, groupWrite,
                   groupUpdates, groupFaults>>
PersistGroupsLocalDb(w) ==
    /\ w \in groupSaves /\ w.to = "local" /\ SaveGoesOn(w, {})
    /\ localGroup' = w.group
    /\ UNCHANGED <<chatGroup, savedGroup, row, loadOfGroups, groupWrite,
                   groupUpdates, groupFaults>>
GroupSaveFails(w) ==
    /\ w \in groupSaves /\ GroupFault
    /\ \/ w.to # "local" /\ SaveGoesOn(w, {"older"})
       \/ w.to = "older" /\ SaveGoesOn(w, {"local"})
       \/ w.to = "local" /\ SaveGoesOn(w, {})
    /\ UNCHANGED <<chatGroup, groupStores, loadOfGroups, groupWrite,
                   groupUpdates>>

\* The process ends, and the next one serves before it has loaded anything.
RestartGroups ==
    /\ GroupFault
    /\ chatGroup' = NoGroup /\ groupSeed' = NoGroup
    /\ groupsFrom' = "loading" /\ groupsLoad' = "state" /\ forgone' = 0
    /\ groupWrite' = [w \in GroupWrites |-> NoGroup] /\ groupSaves' = {}
    /\ UNCHANGED <<groupStores, groupUpdates>>

\* The load passes over records of these ages; the youngest is remembered.
PassesOver(ages) ==
    /\ forgone' \in ages \cup {forgone}
    /\ \A a \in ages \cup {forgone} : a <= forgone'

(* loadState, MySQL first: what it reads replaces the record, with what    *)
(* was taken since the start. The local database is read only after an     *)
(* older store, or when there was no store to read.                        *)
LoadGroups(s) ==
    /\ groupsLoad = "state"
    /\ groupsFrom' = LoadedFrom(s)
    /\ groupsLoad' = IF s = "mysql" THEN "rows" ELSE "local"
    /\ chatGroup' = savedGroup[s] /\ groupSeed' = savedGroup[s]
    /\ PassesOver({chatGroup.at} \cup {savedGroup[u].at : u \in Stores \ {s}}
                  \cup (IF s = "mysql" THEN {localGroup.at} ELSE {}))
    /\ UNCHANGED <<groupStores, groupWrite, groupSaves, groupUpdates,
                   groupFaults>>
LoadFindsNoGroups ==
    /\ groupsLoad = "state" /\ groupsLoad' = "local" /\ groupsFrom' = "older"
    /\ PassesOver({savedGroup[s].at : s \in Stores})
    /\ UNCHANGED <<chatGroup, groupStores, groupSeed, groupWrite, groupSaves,
                   groupUpdates, groupFaults>>

\* The later source wins between records of the same age.
Merged(old, new) == IF new # NoGroup /\ Newer(new.at, old.at) THEN new ELSE old

HydrateFromLocalDb ==
    /\ groupsLoad = "local" /\ groupsLoad' = "rows"
    /\ \/ /\ chatGroup' = Merged(chatGroup, localGroup)
          /\ UNCHANGED <<forgone, groupFaults>>
       \/ GroupFault /\ PassesOver({localGroup.at}) /\ UNCHANGED chatGroup
    /\ groupSeed' = chatGroup'
    /\ UNCHANGED <<groupStores, groupsFrom, groupWrite, groupSaves,
                   groupUpdates>>

\* Empty tables are seeded with what was loaded.
SeedGroupRows ==
    /\ groupsLoad = "rows" /\ groupsLoad' = "read"
    /\ \/ row' = (IF row = NoGroup THEN groupSeed ELSE row)
          /\ UNCHANGED groupFaults
       \/ GroupFault /\ UNCHANGED row
    /\ groupSeed' = NoGroup
    /\ UNCHANGED <<chatGroup, savedGroup, localGroup, groupsFrom, groupWrite,
                   groupSaves, forgone, groupUpdates>>

\* mutated: the rows replace the record whatever their age.
HydrateAlways(runtime, rows) == IF rows # NoGroup THEN rows ELSE runtime

HydrateFromMysql(runtime, rows) == Merged(runtime, rows)
ReadRows ==
    /\ groupsLoad = "read" /\ groupsLoad' = "done"
    /\ \/ /\ chatGroup' = HydrateFromMysql(chatGroup, row)
          /\ UNCHANGED <<forgone, groupFaults>>
       \/ GroupFault /\ PassesOver({row.at}) /\ UNCHANGED chatGroup
    /\ UNCHANGED <<groupStores, groupsFrom, groupSeed, groupWrite, groupSaves,
                   groupUpdates>>

GroupsNext ==
    \/ BackupGroups \/ BeginGroupSave \/ RestartGroups
    \/ LoadFindsNoGroups \/ HydrateFromLocalDb \/ SeedGroupRows \/ ReadRows
    \/ \E s \in Stores : LoadGroups(s) \/ \E w \in groupSaves : SaveGroup(w, s)
    \/ \E w \in groupSaves : PersistGroupsLocalDb(w) \/ GroupSaveFails(w)
    \/ \E p \in GroupPayloads :
          \/ SendToGroup(p)
          \/ \E user \in People : UpdateGroup(user, p)
    \/ \E w \in GroupWrites : WriteLands(w)

GroupsSpec == GroupsInit /\ [][GroupsNext]_groupVars

(* Once a process has loaded, its record is no older than any store of it, *)
(* than the local database and than the rows, whatever their writes, which *)
(* land in any order, and the saves and restarts did; but for the records  *)
(* it passed over: those of the stores its load did not read or could not, *)
(* and the updates taken before the load replaced them.                    *)
GroupNeverOlder ==
    groupsLoad = "done" =>
        \A kept \in {savedGroup[s] : s \in Stores} \cup {localGroup, row} :
            kept.at <= Later(chatGroup.at, forgone)
=============================================================================
