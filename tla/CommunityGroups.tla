--------------------------- MODULE CommunityGroups ---------------------------
(* The community groups: their rows in MySQL, which a super-administrator  *)
(* edits, and the policy in memory that says who may write to them, which  *)
(* every edit reloads. A reload first inserts the seeds that are missing.  *)
EXTENDS Naturals, FiniteSets

CONSTANTS
    Communities,
    Seeds,            \* SEED_COMMUNITY_GROUPS
    Edits,            \* requests of administrators
    MaxCommunityFaults

ASSUME CommunityAssumption ==
    Seeds \subseteq Communities /\ MaxCommunityFaults \in Nat

VARIABLES
    communityRow,     \* CommunityGroups: which are there, and enabled
    policy,           \* hardcodedCommunityGroupsByKey
    emptyCache,       \* communityGroupsCache, set by a load that found none
    edit,             \* what each request is doing
    loaded,           \* what its reload has read
    behind,           \* has a reload older than the last write ended last?
    communityFaults

communityVars == <<communityRow, policy, emptyCache, edit, loaded, behind,
                   communityFaults>>

CommunityTypeOK ==
    /\ communityRow \in [Communities -> {"absent", "enabled", "disabled"}]
    /\ policy \subseteq Communities
    /\ emptyCache \in {"none", "empty"}
    /\ edit \in [Edits -> {"idle", "seed", "load", "rebuild", "done"}]
    /\ loaded \in [Edits -> [from : {"rows", "seeds"}, ids : SUBSET Communities,
                             since : {"yes", "no"}]]
    /\ behind \in {"yes", "no"}
    /\ communityFaults \in 0..MaxCommunityFaults

Enabled == {c \in Communities : communityRow[c] = "enabled"}
Unloaded == [from |-> "rows", ids |-> {}, since |-> "no"]

\* Initially the seeds are the policy and their rows are in the table.
CommunityInit ==
    /\ communityRow = [c \in Communities |->
          IF c \in Seeds THEN "enabled" ELSE "absent"]
    /\ policy = Seeds
    /\ emptyCache = "none"
    /\ edit = [e \in Edits |-> "idle"]
    /\ loaded = [e \in Edits |-> Unloaded]
    /\ behind = "no"
    /\ communityFaults = 0

\* A write makes every reload that has read the rows before it an old one.
Wrote(e, c, status) ==
    /\ communityRow' = [communityRow EXCEPT ![c] = status]
    /\ edit' = [edit EXCEPT ![e] = "seed"]
    /\ loaded' = [f \in Edits |-> [loaded[f] EXCEPT !.since = "no"]]
    /\ behind' = "yes"
    /\ UNCHANGED <<policy, emptyCache, communityFaults>>

\* POST and PUT of a community group
PutCommunity(e, c) ==
    /\ edit[e] \in {"idle", "done"}
    /\ \E status \in {"enabled", "disabled"} :
          /\ communityRow[c] = "absent" => status = "enabled"
          /\ Wrote(e, c, status)

\* POST enable and disable, DELETE: a group that is not there is a 404.
ToggleCommunity(e, c) ==
    /\ edit[e] \in {"idle", "done"} /\ communityRow[c] # "absent"
    /\ \E status \in {"enabled", "disabled"} : Wrote(e, c, status)

DeleteCommunity(e, c) ==
    /\ edit[e] \in {"idle", "done"} /\ communityRow[c] # "absent"
    /\ Wrote(e, c, "absent")

\* The reload inserts every seed that has no row: one just deleted, too.
SeedRows(e) ==
    /\ edit[e] = "seed"
    /\ edit' = [edit EXCEPT ![e] = "load"]
    /\ communityRow' = [c \in Communities |->
          IF c \in Seeds /\ communityRow[c] = "absent" THEN "enabled"
          ELSE communityRow[c]]
    /\ IF communityRow' = communityRow THEN UNCHANGED <<loaded, behind>>
       ELSE /\ loaded' = [f \in Edits |-> [loaded[f] EXCEPT !.since = "no"]]
            /\ behind' = "yes"
    /\ UNCHANGED <<policy, emptyCache, communityFaults>>

(* It reads the enabled rows, or the cache of a load that found none; a    *)
(* failed read gives none. Without any the seeds take their place.         *)
Read(ids) == [from |-> IF ids = {} THEN "seeds" ELSE "rows",
              ids |-> IF ids = {} THEN Seeds ELSE ids, since |-> "yes"]
LoadRows(e) ==
    /\ edit[e] = "load"
    /\ edit' = [edit EXCEPT ![e] = "rebuild"]
    /\ \/ /\ emptyCache = "none"
          /\ loaded' = [loaded EXCEPT ![e] = Read(Enabled)]
          /\ emptyCache' = IF Enabled = {} THEN "empty" ELSE "none"
          /\ UNCHANGED communityFaults
       \/ /\ emptyCache = "empty"
          /\ loaded' = [loaded EXCEPT ![e] = [Read({}) EXCEPT !.since = "no"]]
          /\ UNCHANGED <<emptyCache, communityFaults>>
       \/ /\ communityFaults < MaxCommunityFaults
          /\ communityFaults' = communityFaults + 1
          /\ loaded' = [loaded EXCEPT ![e] = [Read({}) EXCEPT !.since = "no"]]
          /\ UNCHANGED emptyCache
    /\ UNCHANGED <<communityRow, policy, behind>>

\* mutated: the map is not cleared.
RebuiltOver(ids) == policy \cup ids

\* rebuildCommunityGroupsFromConfigs clears the map first.
Rebuilt(ids) == ids
Rebuild(e) ==
    /\ edit[e] = "rebuild"
    /\ edit' = [edit EXCEPT ![e] = "done"]
    /\ policy' = Rebuilt(loaded[e].ids)
    /\ behind' = IF loaded[e].since = "yes" THEN "no" ELSE "yes"
    /\ UNCHANGED <<communityRow, emptyCache, loaded, communityFaults>>

EmptyCacheExpires ==
    /\ emptyCache = "empty" /\ emptyCache' = "none"
    /\ UNCHANGED <<communityRow, policy, edit, loaded, behind, communityFaults>>

CommunityNext ==
    \/ EmptyCacheExpires
    \/ \E e \in Edits :
          \/ SeedRows(e) \/ LoadRows(e) \/ Rebuild(e)
          \/ \E c \in Communities :
                PutCommunity(e, c) \/ ToggleCommunity(e, c) \/ DeleteCommunity(e, c)

CommunitySpec == CommunityInit /\ [][CommunityNext]_communityVars

(* Once the reload that ended last has read the rows as they are now, the  *)
(* policy is the enabled rows (or the seeds without any): nothing of the   *)
(* policy before it remains. A load answered from the cache of an empty    *)
(* one, or by a failed read, has read no rows.                             *)
PolicyFollowsRows ==
    behind = "no" =>
        policy = IF Enabled = {} THEN Seeds ELSE Enabled
=============================================================================
