----------------------------- MODULE WebGroups ------------------------------
(* A group as the devices of its members show it: what its creator changes *)
(* there at once and tells the server, the record the server keeps, and    *)
(* what comes back to the others as group updates, as messages and         *)
(* reactions that carry the group, as pushes of messages that carry only   *)
(* its name, and as the answers of a refresh.                              *)
(* A device is one page: two of the creator's do not hear of each other's  *)
(* changes but by messages and refreshes. Stamps are the devices' clocks,  *)
(* which need not agree: a change may be stamped before an earlier one, or *)
(* as another was.                                                         *)
(* Abstracted: names and types, which carry no age of their own; messages  *)
(* of the chat (WebInbox); groups with a fixed list of members.            *)
EXTENDS Sequences, FiniteSets, Naturals

CONSTANTS
    Members,
    Founder,           \* createdBy, the only administrator
    Devices,
    Holder,            \* [Devices -> Members]
    GroupStamps,       \* bound: what Date.now() may answer
    MaxGroupStamps,    \* bound: stamps given
    MaxGroupPosts,     \* bound: chat messages and reactions in the group
    MaxGroupLosses     \* bound: requests that fail

ASSUME WebGroupsAssumption ==
    /\ Founder \in Members /\ Holder \in [Devices -> Members]
    /\ GroupStamps \subseteq Nat \ {0}
    /\ MaxGroupStamps \in Nat /\ MaxGroupPosts \in Nat /\ MaxGroupLosses \in Nat

VARIABLES
    shownGroup,        \* by device: the group in groups()
    groupCalls,        \* by device: sendGroupUpdate calls under way
    groupOutbox,       \* by device: what queueGroupUpdate stored
    groupRecord,       \* groups[groupId] of the server
    groupPast,         \* every record it was: the rows of MySQL hold one
    groupMail,         \* by member: what was queued and pushed to him
    stamped,           \* the stamps given so far
    clashed,           \* those given more than once
    groupClock,        \* how many were given
    groupPosts, groupLosses

webGroupVars == <<shownGroup, groupCalls, groupOutbox, groupRecord, groupPast,
                  groupMail, stamped, clashed, groupClock, groupPosts, groupLosses>>

GroupViews == [members : SUBSET Members, at : GroupStamps]
Absent == [members |-> {}, at |-> 0]
Update == [group : GroupViews, notify : SUBSET Members]
Mail == [kind : {"update", "message"}, group : GroupViews]

WebGroupsTypeOK ==
    /\ shownGroup \in [Devices -> GroupViews \cup {Absent}]
    /\ groupCalls \in [Devices -> SUBSET Update]
    /\ groupOutbox \in [Devices -> Seq(Update)]
    /\ groupRecord \in GroupViews \cup {Absent}
    /\ groupPast \subseteq GroupViews
    /\ groupMail \in [Members -> SUBSET Mail]
    /\ stamped \subseteq GroupStamps /\ clashed \subseteq stamped
    /\ groupClock \in 0..MaxGroupStamps
    /\ groupPosts \in 0..MaxGroupPosts /\ groupLosses \in 0..MaxGroupLosses

WebGroupsInit ==
    /\ shownGroup = [d \in Devices |-> Absent]
    /\ groupCalls = [d \in Devices |-> {}]
    /\ groupOutbox = [d \in Devices |-> <<>>]
    /\ groupRecord = Absent /\ groupPast = {}
    /\ groupMail = [u \in Members |-> {}]
    /\ stamped = {} /\ clashed = {} /\ groupClock = 0
    /\ groupPosts = 0 /\ groupLosses = 0

Stamps(at) ==
    /\ groupClock < MaxGroupStamps /\ groupClock' = groupClock + 1
    /\ stamped' = stamped \cup {at}
    /\ clashed' = clashed \cup (stamped \cap {at})

(****************************** the creator ********************************)
(* Shown at once; then sent, or stored if there is no network. Those to be *)
(* told are others than the user: his other devices are not.               *)
Tells(d, group, told) ==
    LET call == [group |-> group, notify |-> told \ {Holder[d]}]
    IN  /\ shownGroup' = [shownGroup EXCEPT ![d] = group]
        /\ IF call.notify = {} THEN UNCHANGED <<groupCalls, groupOutbox>>
           ELSE \/ /\ groupCalls' = [groupCalls EXCEPT ![d] = @ \cup {call}]
                   /\ UNCHANGED groupOutbox
                \/ /\ groupOutbox' =
                         [groupOutbox EXCEPT ![d] = Append(@, call)]
                   /\ UNCHANGED groupCalls
        /\ Stamps(group.at)
        /\ UNCHANGED <<groupRecord, groupPast, groupMail, groupPosts,
                       groupLosses>>

CreateGroup(d, members, at) ==
    /\ Holder[d] = Founder /\ Founder \in members /\ Cardinality(members) > 1
    /\ stamped = {}
    /\ Tells(d, [members |-> members, at |-> at], members)

UpdateMembers(d, members, at) ==
    /\ shownGroup[d] # Absent /\ Holder[d] = Founder
    /\ Founder \in members /\ Cardinality(members) > 1
    /\ Tells(d, [members |-> members, at |-> at],
             members \cup shownGroup[d].members)

\* A new name; the members are stamped anew with it.
UpdateTitle(d, at) ==
    /\ shownGroup[d] # Absent /\ Holder[d] = Founder
    /\ Tells(d, [shownGroup[d] EXCEPT !.at = at], shownGroup[d].members)

(******************************* the server ********************************)
NewMembers(group) == group.members # {} /\ group.at >= groupRecord.at

\* mutated: the record takes the stamp of whatever came last.
UpsertedAsStamped(group) ==
    [members |-> IF NewMembers(group) THEN group.members ELSE groupRecord.members,
     at |-> group.at]

(* Members of an older update are not taken, and its stamp is not; without *)
(* members an update moves the stamp on and keeps those of the record.     *)
UpsertedGroup(group) ==
    [members |-> IF NewMembers(group) THEN group.members ELSE groupRecord.members,
     at |-> IF group.at >= groupRecord.at THEN group.at ELSE groupRecord.at]

Told(users, kind, group) ==
    LET mail == [kind |-> kind, group |-> group]
    IN  groupMail' = [u \in Members |->
                         groupMail[u] \cup IF u \in users THEN {mail} ELSE {}]

\* POST /group-update: the record as it is now goes to those to be told.
Takes(call) ==
    /\ groupRecord' = UpsertedGroup(call.group)
    /\ groupPast' = groupPast \cup {groupRecord'}
    /\ Told(call.notify, "update", groupRecord')

GroupLoss == groupLosses < MaxGroupLosses /\ groupLosses' = groupLosses + 1

\* The call is answered, or its answer is lost and it is stored.
CallArrives(d) == \E call \in groupCalls[d] :
    /\ Takes(call)
    /\ groupCalls' = [groupCalls EXCEPT ![d] = @ \ {call}]
    /\ \/ UNCHANGED <<groupOutbox, groupLosses>>
       \/ /\ GroupLoss
          /\ groupOutbox' = [groupOutbox EXCEPT ![d] = Append(@, call)]
    /\ UNCHANGED <<shownGroup, stamped, clashed, groupClock, groupPosts>>

CallFails(d) == \E call \in groupCalls[d] :
    /\ GroupLoss
    /\ groupCalls' = [groupCalls EXCEPT ![d] = @ \ {call}]
    /\ groupOutbox' = [groupOutbox EXCEPT ![d] = Append(@, call)]
    /\ UNCHANGED <<shownGroup, groupRecord, groupPast, groupMail, stamped,
                   clashed, groupClock, groupPosts>>

\* The outbox sends the update as it was stored, however old by then.
FlushGroupUpdate(d) ==
    /\ groupOutbox[d] # <<>>
    /\ Takes(Head(groupOutbox[d]))
    /\ groupOutbox' = [groupOutbox EXCEPT ![d] = Tail(@)]
    /\ UNCHANGED <<shownGroup, groupCalls, stamped, clashed, groupClock, groupPosts, groupLosses>>

(* A message or a reaction: the record is brought up to the sender's view. *)
(* A message takes that view along, a reaction the record as it is then.   *)
Posts(d, users, group) ==
    /\ shownGroup[d] # Absent
    /\ groupPosts < MaxGroupPosts /\ groupPosts' = groupPosts + 1
    /\ groupRecord' = UpsertedGroup(shownGroup[d])
    /\ groupPast' = groupPast \cup {groupRecord'}
    /\ Told(users \ {Holder[d]}, "message", group)
    /\ UNCHANGED <<shownGroup, groupCalls, groupOutbox, stamped, clashed, groupClock, groupLosses>>

\* Without other members there is nobody to send a message to.
PostToGroup(d) ==
    /\ shownGroup[d].members \ {Holder[d]} # {}
    /\ Posts(d, shownGroup[d].members, shownGroup[d])

ReactInGroup(d) ==
    LET upserted == UpsertedGroup(shownGroup[d])
    IN  Posts(d, upserted.members \cup shownGroup[d].members, upserted)

(******************************* the devices *******************************)
\* ensureGroupFromIncoming: an older view than the one shown is not taken.
Ensured(d, group) ==
    IF shownGroup[d] # Absent /\ group.at < shownGroup[d].at THEN shownGroup[d]
    ELSE group

\* removeGroupLocally, if the update does not list the user, whatever its age.
AfterUpdate(d, group) ==
    IF group.members # {} /\ Holder[d] \notin group.members THEN Absent
    ELSE Ensured(d, group)

\* Mail reaches each device by several ways, in any order, and again.
MailArrives(d) == \E m \in groupMail[Holder[d]] :
    /\ shownGroup' = [shownGroup EXCEPT ![d] =
                         IF m.kind = "update" THEN AfterUpdate(d, m.group)
                         ELSE Ensured(d, m.group)]
    /\ UNCHANGED <<groupCalls, groupOutbox, groupRecord, groupPast, groupMail,
                   stamped, clashed, groupClock, groupPosts, groupLosses>>

(* The push of a message names the group, with neither members nor stamp:  *)
(* the device stamps those it shows, or none, by its own clock.            *)
PushNamesGroup(d, at) ==
    /\ \E m \in groupMail[Holder[d]] : m.kind = "message"
    /\ at >= shownGroup[d].at /\ Stamps(at)
    /\ shownGroup' = [shownGroup EXCEPT ![d].at = at]
    /\ UNCHANGED <<groupCalls, groupOutbox, groupRecord, groupPast, groupMail,
                   groupPosts, groupLosses>>

(* What the rows say of a user: a group of his, or none. They are written *)
(* late and in any order (ChatGroups), and read before the answer is used. *)
Answers(d) ==
    {r \in groupPast : Holder[d] \in r.members} \cup {Absent}

\* refresh replaces the list by the answer, asked for at some time before.
Refreshes(d) ==
    /\ \E r \in Answers(d) : shownGroup' = [shownGroup EXCEPT ![d] = r]
    /\ UNCHANGED <<groupCalls, groupOutbox, groupRecord, groupPast, groupMail,
                   stamped, clashed, groupClock, groupPosts, groupLosses>>

\* loadUserChatGroupsFromDb merges what the rows say by age.
LoadsFromDb(d) ==
    /\ \E r \in Answers(d) \ {Absent} :
          /\ r.at >= shownGroup[d].at
          /\ shownGroup' = [shownGroup EXCEPT ![d] = r]
    /\ UNCHANGED <<groupCalls, groupOutbox, groupRecord, groupPast, groupMail,
                   stamped, clashed, groupClock, groupPosts, groupLosses>>

WebGroupsNext == \E d \in Devices :
    \/ \E at \in GroupStamps :
          \/ \E members \in SUBSET Members :
                CreateGroup(d, members, at) \/ UpdateMembers(d, members, at)
          \/ UpdateTitle(d, at) \/ PushNamesGroup(d, at)
    \/ CallArrives(d) \/ CallFails(d) \/ FlushGroupUpdate(d)
    \/ PostToGroup(d) \/ ReactInGroup(d)
    \/ MailArrives(d) \/ Refreshes(d) \/ LoadsFromDb(d)

WebGroupsSpec == WebGroupsInit /\ [][WebGroupsNext]_webGroupVars

(* The stamp says which members: whatever came late, twice, by a message,  *)
(* a push or a refresh, two devices, or a device and the server, that hold *)
(* members of the group under the same stamp hold the same, and so does    *)
(* what is under way.  Excepted are a stamp that two clocks gave and, as   *)
(* there is nothing to compare, a group known from a push alone, which has *)
(* no members (upsertGroup, ensureGroupFromIncoming).                      *)
SameStampSameMembers ==
    LET views == {shownGroup[d] : d \in Devices} \cup groupPast
                 \cup {m.group : m \in UNION {groupMail[u] : u \in Members}}
    IN  \A a, b \in views : a.at = b.at /\ a.at \notin clashed
            => a.members = b.members \/ {} \in {a.members, b.members}
=============================================================================
