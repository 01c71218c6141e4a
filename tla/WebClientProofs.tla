-------------------------- MODULE WebClientProofs ---------------------------
(* The theorems about the parts of the web client: its groups, its         *)
(* receipts, its realtime transport, its inbox, its outbox and its         *)
(* recovery of missed messages, its shuttle orders, and the queues of its  *)
(* service worker. The parts share no variables; each section has the      *)
(* inductive invariant of its part, the lemmas about its steps and its     *)
(* theorem. The last section says what MCWebClient, which takes the steps  *)
(* of one part at a time, thereby promises.                                *)
EXTENDS MCWebClient, SequenceTheorems, FiniteSetTheorems,
        FunctionTheorems, TLAPS

-----------------------------------------------------------------------------
(* Two views of a group with one stamp are one view, for any devices,      *)
(* members, stamps, messages and failures. The property speaks of what is  *)
(* shown, recorded or mailed; what keeps it true is that calls under way   *)
(* and updates stored in an outbox, which become records later, agree with *)
(* all of these, and that nothing carries a stamp not given yet.           *)
USE WebGroupsAssumption

Seen == GroupViews \cup {Absent}

\* Everywhere a view can be.
InCall(v) == \E d \in Devices : \E c \in groupCalls[d] : c.group = v
InOutbox(v) == \E d \in Devices : \E i \in 1..Len(groupOutbox[d]) :
                  groupOutbox[d][i].group = v
InMail(v) == \E u \in Members : \E m \in groupMail[u] : m.group = v
OnDevice(v) == \E d \in Devices : shownGroup[d] = v
Held(v) == \/ OnDevice(v) \/ InCall(v) \/ InOutbox(v) \/ InMail(v)
           \/ v = groupRecord \/ v \in groupPast

(* Two lists of members under one stamp, that one clock gave, are the same *)
(* list; a list that is there under the stamp of a group without members   *)
(* was put there by the server, whose record is then as new.               *)
Compared(a, b) == /\ Held(a) /\ Held(b) /\ a.at = b.at /\ a.at \notin clashed
                  /\ b.members # {}
Agree == \A a, b \in Seen :
            Compared(a, b) => a.members = b.members \/ a.members = {}
Ahead == \A a, b \in Seen :
            Compared(a, b) /\ a.members = {} => groupRecord.at >= a.at
Stamped == \A a \in Seen : Held(a) => a = Absent \/ a.at \in stamped
RecordFull == groupRecord # Absent => groupRecord.members # {}

\* Nothing is mailed, nor is a group without members shown, before a record is.
Mailed == \E u \in Members : groupMail[u] # {}
Known == \/ groupRecord # Absent
         \/ ~Mailed /\ \A a \in GroupViews : Held(a) => a.members # {}

ViewsAre == Agree /\ Ahead /\ Stamped /\ RecordFull /\ Known
ViewsInv == WebGroupsTypeOK /\ ViewsAre

LEMMA AbsentIsUnstamped == ASSUME NEW v \in GroupViews PROVE v.at # Absent.at
  BY DEF GroupViews, Absent

LEMMA FullIsStamped ==
  ASSUME NEW v \in Seen, v.members # {}
  PROVE  v \in GroupViews /\ v.at \in Nat \ {0}
  <1>1. Absent.members = {}
    BY DEF Absent
  <1>2. v \in GroupViews
    BY <1>1 DEF Seen
  <1>3. v.at \in GroupStamps
    BY <1>2 DEF GroupViews
  <1> QED BY <1>2, <1>3

\* A step that moves views about, and gives no stamp, keeps the agreement.
LEMMA NothingNew ==
  ASSUME ViewsAre, UNCHANGED <<stamped, clashed, groupRecord, groupMail>>,
         \A v \in Seen : Held(v)' => Held(v) \/ v = Absent
  PROVE  ViewsAre'
  <1>1. ASSUME NEW a \in Seen, NEW b \in Seen, Compared(a, b)'
        PROVE  \/ Compared(a, b)
               \/ a.members = {} /\ groupRecord'.at >= a.at /\ FALSE
    <2>1. b \in GroupViews /\ b # Absent
      BY <1>1, FullIsStamped, AbsentIsUnstamped DEF Compared
    <2>2. a # Absent
      BY <1>1, <2>1, AbsentIsUnstamped DEF Compared
    <2> QED BY <1>1, <2>1, <2>2 DEF Compared
  <1>2. Agree' /\ Ahead'
    BY <1>1 DEF Agree, Ahead, ViewsAre
  <1>3. Stamped'
    BY DEF Stamped, ViewsAre
  <1>4. RecordFull' /\ Known'
    <2>1. \A a \in GroupViews : a # Absent /\ a \in Seen
      BY AbsentIsUnstamped DEF Seen
    <2> QED BY <2>1 DEF RecordFull, Known, Mailed, ViewsAre
  <1> QED BY <1>2, <1>3, <1>4 DEF ViewsAre

(* A step that makes one view, with a stamp of its own or one that clashes *)
(* with another, keeps it as well.                                         *)
LEMMA OneNew ==
  ASSUME ViewsAre, NEW g \in GroupViews, Stamps(g.at),
         UNCHANGED <<groupRecord, groupMail>>,
         g.members = {} => groupRecord # Absent,
         \A v \in Seen : Held(v)' => Held(v) \/ v = g
  PROVE  ViewsAre'
  <1>1. stamped' = stamped \cup {g.at} /\ clashed' = clashed \cup (stamped \cap {g.at})
    BY DEF Stamps
  <1>2. \A a \in Seen : Held(a) => a = Absent \/ a.at \in stamped
    BY DEF ViewsAre, Stamped
  <1>3. g.at # Absent.at
    BY AbsentIsUnstamped
  <1>4. ASSUME NEW a \in Seen, NEW b \in Seen, Compared(a, b)'
        PROVE  Compared(a, b) \/ a = b
    <2>1. /\ Held(a) \/ a = g
          /\ Held(b) \/ b = g
          /\ a.at = b.at /\ a.at \notin clashed' /\ b.members # {}
      BY <1>4 DEF Compared
    <2>2. CASE g.at \in stamped
      BY <1>1, <2>1, <2>2 DEF Compared
    <2>3. CASE g.at \notin stamped
      <3>1. \A v \in Seen : Held(v) => v.at # g.at
        BY <1>2, <1>3, <2>3
      <3> QED BY <1>1, <2>1, <3>1 DEF Compared
    <2> QED BY <2>2, <2>3
  <1>5. Agree' /\ Ahead'
    <2>1. \A a, b \in Seen : Compared(a, b)' => b.members # {}
      BY DEF Compared
    <2> QED BY <1>4, <2>1 DEF Agree, Ahead, ViewsAre
  <1>6. Stamped'
    BY <1>1 DEF Stamped, ViewsAre
  <1>7. RecordFull' /\ Known'
    <2>1. \A a \in GroupViews : a \in Seen
      BY DEF Seen
    <2> QED BY <2>1 DEF RecordFull, Known, Mailed, ViewsAre
  <1> QED BY <1>5, <1>6, <1>7 DEF ViewsAre

(* The record the server makes of a view: that view, the record as it was, *)
(* or the record with the stamp of a view that has no members.             *)
LEMMA UpsertedFits ==
  ASSUME WebGroupsTypeOK, ViewsAre, NEW g \in GroupViews, Held(g)
  PROVE  LET upserted == UpsertedGroup(g) IN
         /\ upserted \in GroupViews /\ upserted.members # {}
         /\ upserted.at >= groupRecord.at /\ upserted.at \in stamped
         /\ \A v \in Seen :
               Held(v) /\ v.at = upserted.at /\ v.at \notin clashed
                 => v.members = upserted.members \/ v.members = {}
  <1> DEFINE upserted == UpsertedGroup(g)
  <1>0. /\ groupRecord \in GroupViews \cup {Absent} /\ Held(groupRecord)
        /\ g.at \in Nat \ {0} /\ g.at \in GroupStamps /\ g.members \in SUBSET Members
        /\ g \in Seen /\ groupRecord \in Seen
    BY DEF WebGroupsTypeOK, Held, GroupViews, Seen
  <1>1. /\ groupRecord.at \in Nat /\ g.at \in stamped /\ g # Absent
        /\ groupRecord # Absent => /\ groupRecord \in GroupViews
                                   /\ groupRecord.at \in stamped
                                   /\ groupRecord.members # {}
        /\ groupRecord = Absent => groupRecord.at = 0 /\ g.members # {}
    <2>1. g # Absent
      BY AbsentIsUnstamped
    <2>2. g.at \in stamped
      BY <1>0, <2>1 DEF ViewsAre, Stamped
    <2>3. ASSUME groupRecord # Absent
          PROVE  /\ groupRecord \in GroupViews /\ groupRecord.at \in Nat
                 /\ groupRecord.at \in stamped /\ groupRecord.members # {}
      <3>1. groupRecord \in GroupViews
        BY <1>0, <2>3
      <3>2. groupRecord.at \in GroupStamps
        BY <3>1 DEF GroupViews
      <3>3. groupRecord.at \in stamped
        BY <1>0, <2>3 DEF ViewsAre, Stamped
      <3> QED BY <2>3, <3>1, <3>2, <3>3 DEF ViewsAre, RecordFull
    <2>4. Absent.at = 0
      BY DEF Absent
    <2>5. groupRecord = Absent => g.members # {}
      BY <1>0 DEF ViewsAre, Known
    <2> QED BY <2>1, <2>2, <2>3, <2>4, <2>5
  <1>2. CASE NewMembers(g)
    <2>1. upserted = g
      BY <1>0, <1>2 DEF UpsertedGroup, NewMembers, GroupViews
    <2>2. \A v \in Seen : Held(v) /\ v.at = g.at /\ v.at \notin clashed
             => v.members = g.members \/ v.members = {}
      BY <1>0, <1>2 DEF NewMembers, ViewsAre, Agree, Compared
    <2> QED BY <1>0, <1>1, <1>2, <2>1, <2>2 DEF NewMembers
  <1>3. CASE ~NewMembers(g) /\ ~(g.at >= groupRecord.at)
    <2>1. groupRecord # Absent
      BY <1>0, <1>1, <1>3
    <2>2. upserted = groupRecord
      BY <1>1, <1>3, <2>1 DEF UpsertedGroup, GroupViews
    <2>3. \A v \in Seen : Held(v) /\ v.at = groupRecord.at /\ v.at \notin clashed
             => v.members = groupRecord.members \/ v.members = {}
      BY <1>0, <1>1, <2>1 DEF ViewsAre, Agree, Compared
    <2> QED BY <1>1, <2>1, <2>2, <2>3
  <1>4. CASE ~NewMembers(g) /\ g.at >= groupRecord.at
    <2>1. g.members = {} /\ groupRecord # Absent
      BY <1>1, <1>4 DEF NewMembers
    <2>2. upserted = [members |-> groupRecord.members, at |-> g.at]
      BY <1>4 DEF UpsertedGroup
    <2>3. /\ upserted \in GroupViews /\ upserted.members = groupRecord.members
          /\ upserted.at = g.at
      BY <1>0, <1>1, <2>1, <2>2 DEF GroupViews
    <2>4. ASSUME NEW v \in Seen, Held(v), v.at = g.at, v.at \notin clashed
          PROVE  v.members = groupRecord.members \/ v.members = {}
      <3>1. CASE g.at = groupRecord.at
        BY <1>0, <1>1, <2>1, <2>4, <3>1 DEF ViewsAre, Agree, Compared
      <3>2. CASE g.at # groupRecord.at
        <4>1. ~(groupRecord.at >= g.at)
          BY <1>0, <1>1, <1>4, <3>2
        <4> QED BY <1>0, <2>1, <2>4, <4>1 DEF ViewsAre, Ahead, Compared
      <3> QED BY <3>1, <3>2
    <2> QED BY <1>1, <1>4, <2>1, <2>3, <2>4
  <1> QED BY <1>2, <1>3, <1>4

\* A step that makes that record of a view keeps the agreement.
LEMMA RecordNew ==
  ASSUME WebGroupsTypeOK, ViewsAre, NEW g \in GroupViews, Held(g),
         groupRecord' = UpsertedGroup(g), UNCHANGED <<stamped, clashed>>,
         \A v \in Seen : Held(v)' => Held(v) \/ v = groupRecord'
  PROVE  ViewsAre'
  <1>1. /\ groupRecord' \in GroupViews /\ groupRecord'.members # {}
        /\ groupRecord'.at >= groupRecord.at /\ groupRecord'.at \in stamped
        /\ \A v \in Seen :
               Held(v) /\ v.at = groupRecord'.at /\ v.at \notin clashed
                 => v.members = groupRecord'.members \/ v.members = {}
    BY UpsertedFits
  <1>2. groupRecord.at \in Nat /\ groupRecord'.at \in Nat /\ groupRecord' \in Seen
    <2>1. groupRecord \in GroupViews \/ groupRecord = Absent
      BY DEF WebGroupsTypeOK
    <2>2. \A v \in GroupViews : v.at \in Nat /\ v \in Seen
      BY DEF GroupViews, Seen
    <2>3. Absent.at \in Nat
      BY DEF Absent
    <2> QED BY <1>1, <2>1, <2>2, <2>3
  <1>3. ASSUME NEW a \in Seen, NEW b \in Seen, Compared(a, b)'
        PROVE  /\ a.members = b.members \/ a.members = {}
               /\ a.members = {} => groupRecord'.at >= a.at
    <2>1. /\ Held(a) \/ a = groupRecord'
          /\ Held(b) \/ b = groupRecord'
          /\ a.at = b.at /\ a.at \notin clashed /\ b.members # {}
      BY <1>3 DEF Compared
    <2>2. CASE a = groupRecord'
      BY <1>1, <2>1, <2>2
    <2>3. CASE b = groupRecord' /\ a # groupRecord'
      BY <1>1, <1>2, <2>1, <2>3
    <2>4. CASE b # groupRecord' /\ a # groupRecord'
      <3>1. Compared(a, b)
        BY <2>1, <2>4 DEF Compared
      <3>2. a.members = {} => groupRecord.at >= a.at
        BY <3>1 DEF ViewsAre, Ahead
      <3>3. b.at \in Nat
        BY <2>1, FullIsStamped
      <3> QED BY <1>1, <1>2, <2>1, <3>1, <3>2, <3>3 DEF ViewsAre, Agree
    <2> QED BY <2>2, <2>3, <2>4
  <1>4. Agree' /\ Ahead'
    BY <1>3 DEF Agree, Ahead
  <1>5. Stamped'
    BY <1>1 DEF Stamped, ViewsAre
  <1>6. RecordFull' /\ Known'
    <2>1. groupRecord' # Absent
      BY <1>1, AbsentIsUnstamped
    <2> QED BY <1>1, <2>1 DEF RecordFull, Known
  <1> QED BY <1>4, <1>5, <1>6 DEF ViewsAre

LEMMA ViewsInit == WebGroupsInit => ViewsInv
  <1> SUFFICES ASSUME WebGroupsInit PROVE ViewsInv
    OBVIOUS
  <1>1. WebGroupsTypeOK
    BY DEF WebGroupsInit, WebGroupsTypeOK, Update, Mail
  <1>2. \A v \in Seen : Held(v) => v = Absent
    BY DEF WebGroupsInit, Held, OnDevice, InCall, InOutbox, InMail
  <1>3. Agree /\ Ahead /\ Stamped
    <2>1. \A a, b \in Seen : ~Compared(a, b)
      BY <1>2, FullIsStamped, AbsentIsUnstamped DEF Compared
    <2> QED BY <1>2, <2>1 DEF Agree, Ahead, Stamped
  <1>4. RecordFull /\ Known
    <2>1. \A a \in GroupViews : a # Absent /\ a \in Seen
      BY AbsentIsUnstamped DEF Seen
    <2> QED BY <1>2, <2>1 DEF WebGroupsInit, RecordFull, Known, Mailed
  <1> QED BY <1>1, <1>3, <1>4 DEF ViewsInv, ViewsAre

\* An update joins those stored, if it does.
LEMMA StoredInOutbox ==
  ASSUME groupOutbox \in [Devices -> Seq(Update)], NEW d \in Devices,
         NEW sentCall \in Update,
         \/ UNCHANGED groupOutbox
         \/ groupOutbox' = [groupOutbox EXCEPT ![d] = Append(@, sentCall)]
  PROVE  /\ groupOutbox' \in [Devices -> Seq(Update)]
         /\ \A v : InOutbox(v)' => InOutbox(v) \/ v = sentCall.group
  <1>1. CASE UNCHANGED groupOutbox
    BY <1>1 DEF InOutbox
  <1>2. CASE groupOutbox' = [groupOutbox EXCEPT ![d] = Append(@, sentCall)]
    <2>1. groupOutbox' \in [Devices -> Seq(Update)]
      BY <1>2
    <2>2. \A e \in Devices : \A i \in 1..Len(groupOutbox'[e]) :
             \/ groupOutbox'[e][i] = sentCall
             \/ i \in 1..Len(groupOutbox[e]) /\ groupOutbox'[e][i] = groupOutbox[e][i]
      BY <1>2
    <2> QED BY <2>1, <2>2 DEF InOutbox
  <1> QED BY <1>1, <1>2

\* What the creator's device does makes one view.
LEMMA TellsKeeps ==
  ASSUME ViewsInv, NEW d \in Devices, NEW g \in GroupViews,
         NEW toldOf \in SUBSET Members, Tells(d, g, toldOf),
         g.members = {} => groupRecord # Absent
  PROVE  ViewsInv'
  <1> DEFINE sentCall == [group |-> g, notify |-> toldOf \ {Holder[d]}]
  <1>1. sentCall \in Update /\ sentCall.group = g
    BY DEF Update
  <1>2. /\ shownGroup' = [shownGroup EXCEPT ![d] = g]
        /\ Stamps(g.at)
        /\ UNCHANGED <<groupRecord, groupPast, groupMail, groupPosts, groupLosses>>
    BY DEF Tells
  <1>3. \/ UNCHANGED <<groupCalls, groupOutbox>>
        \/ /\ groupCalls' = [groupCalls EXCEPT ![d] = @ \cup {sentCall}]
           /\ UNCHANGED groupOutbox
        \/ /\ groupOutbox' = [groupOutbox EXCEPT ![d] = Append(@, sentCall)]
           /\ UNCHANGED groupCalls
    BY DEF Tells
  <1> HIDE DEF sentCall
  <1>4. /\ groupCalls \in [Devices -> SUBSET Update]
        /\ groupOutbox \in [Devices -> Seq(Update)]
        /\ shownGroup \in [Devices -> GroupViews \cup {Absent}]
    BY DEF ViewsInv, WebGroupsTypeOK
  <1>5. /\ groupCalls' \in [Devices -> SUBSET Update]
        /\ \A v : InCall(v)' => InCall(v) \/ v = g
    <2>1. CASE groupCalls' = [groupCalls EXCEPT ![d] = @ \cup {sentCall}]
      <3>1. \A e \in Devices : groupCalls'[e] \subseteq groupCalls[e] \cup {sentCall}
        BY <1>4, <2>1
      <3> QED BY <1>1, <1>4, <2>1, <3>1 DEF InCall
    <2>2. CASE UNCHANGED groupCalls
      BY <1>4, <2>2 DEF InCall
    <2> QED BY <1>3, <2>1, <2>2
  <1>6. /\ groupOutbox' \in [Devices -> Seq(Update)]
        /\ \A v : InOutbox(v)' => InOutbox(v) \/ v = g
    BY <1>1, <1>3, <1>4, StoredInOutbox
  <1>7. WebGroupsTypeOK'
    <2>1. g.at \in GroupStamps
      BY DEF GroupViews
    <2>2. /\ stamped' \subseteq GroupStamps /\ clashed' \subseteq stamped'
          /\ groupClock' \in 0..MaxGroupStamps
      <3>1. /\ stamped' = stamped \cup {g.at}
            /\ clashed' = clashed \cup (stamped \cap {g.at})
            /\ groupClock < MaxGroupStamps /\ groupClock' = groupClock + 1
        BY <1>2 DEF Stamps
      <3>2. /\ stamped \subseteq GroupStamps /\ clashed \subseteq stamped
            /\ groupClock \in 0..MaxGroupStamps
        BY DEF ViewsInv, WebGroupsTypeOK
      <3>3. groupClock' \in 0..MaxGroupStamps
        BY <3>1, <3>2
      <3> QED BY <2>1, <3>1, <3>2, <3>3
    <2>3. shownGroup' \in [Devices -> GroupViews \cup {Absent}]
      BY <1>2, <1>4
    <2> QED BY <1>2, <1>5, <1>6, <2>2, <2>3 DEF ViewsInv, WebGroupsTypeOK
  <1>8. ASSUME NEW v \in Seen, Held(v)' PROVE Held(v) \/ v = g
    <2>1. OnDevice(v)' => OnDevice(v) \/ v = g
      BY <1>2, <1>4 DEF OnDevice
    <2>2. InMail(v)' => InMail(v)
      BY <1>2 DEF InMail
    <2> QED BY <1>2, <1>5, <1>6, <1>8, <2>1, <2>2 DEF Held
  <1>9. ViewsAre'
    BY <1>2, <1>8, OneNew DEF ViewsInv
  <1> QED BY <1>7, <1>9 DEF ViewsInv

(* The server makes a record of a view that is held somewhere; it mails    *)
(* the record, or the view of a message.                                   *)
LEMMA TakesKeeps ==
  ASSUME ViewsInv, NEW g \in GroupViews, Held(g), NEW mailed, NEW kind,
         kind \in {"update", "message"}, NEW users,
         groupRecord' = UpsertedGroup(g),
         groupPast' = groupPast \cup {groupRecord'},
         mailed = groupRecord' \/ mailed = g,
         Told(users, kind, mailed), UNCHANGED shownGroup
  PROVE  /\ groupRecord' \in GroupViews
         /\ groupPast' \subseteq GroupViews
         /\ groupMail' \in [Members -> SUBSET Mail]
         /\ \A v \in Seen : InMail(v)' => Held(v) \/ v = groupRecord'
         /\ \A v : OnDevice(v)' => OnDevice(v)
  <1>4. groupRecord' \in GroupViews
    BY UpsertedFits DEF ViewsInv
  <1>5. mailed \in GroupViews /\ (Held(mailed) \/ mailed = groupRecord')
    BY <1>4
  <1> DEFINE mail == [kind |-> kind, group |-> mailed]
  <1>6. mail \in Mail /\ mail.group = mailed
    BY <1>5 DEF Mail
  <1>7. groupMail' = [u \in Members |->
                         groupMail[u] \cup IF u \in users THEN {mail} ELSE {}]
    BY DEF Told
  <1> HIDE DEF mail
  <1>8. groupMail \in [Members -> SUBSET Mail]
    BY DEF ViewsInv, WebGroupsTypeOK
  <1>9. /\ groupMail' \in [Members -> SUBSET Mail]
        /\ \A u \in Members : groupMail'[u] \subseteq groupMail[u] \cup {mail}
    BY <1>6, <1>7, <1>8
  <1>10. \A v \in Seen : InMail(v)' => Held(v) \/ v = groupRecord'
    <2> SUFFICES ASSUME NEW v \in Seen, NEW u \in Members, NEW m \in groupMail'[u],
                        m.group = v
                 PROVE  Held(v) \/ v = groupRecord'
      BY DEF InMail
    <2>1. CASE m = mail
      BY <1>5, <1>6, <2>1
    <2>2. CASE m \in groupMail[u]
      BY <2>2 DEF Held, InMail
    <2> QED BY <1>9, <2>1, <2>2
  <1>11. groupPast' \subseteq GroupViews
    BY <1>4 DEF ViewsInv, WebGroupsTypeOK
  <1>12. \A v : OnDevice(v)' => OnDevice(v)
    BY DEF OnDevice
  <1> QED BY <1>4, <1>9, <1>10, <1>11, <1>12

(* A step that takes the sentCall of d, which may then wait in the outbox, or  *)
(* the first of the outbox.                                                *)
LEMMA RequestKeeps ==
  ASSUME ViewsInv, NEW d \in Devices,
         CallArrives(d) \/ CallFails(d) \/ FlushGroupUpdate(d)
  PROVE  ViewsInv'
  <1>1. /\ groupCalls \in [Devices -> SUBSET Update]
        /\ groupOutbox \in [Devices -> Seq(Update)]
        /\ shownGroup \in [Devices -> GroupViews \cup {Absent}]
    BY DEF ViewsInv, WebGroupsTypeOK
  <1>2. UNCHANGED <<shownGroup, stamped, clashed, groupClock, groupPosts>>
    BY DEF CallArrives, CallFails, FlushGroupUpdate
  <1>3. groupLosses' \in 0..MaxGroupLosses
    BY DEF CallArrives, CallFails, FlushGroupUpdate, GroupLoss, ViewsInv, WebGroupsTypeOK
  <1>4. ASSUME NEW sentCall \in groupCalls[d],
               groupCalls' = [groupCalls EXCEPT ![d] = @ \ {sentCall}],
               \/ UNCHANGED groupOutbox
               \/ groupOutbox' = [groupOutbox EXCEPT ![d] = Append(@, sentCall)]
        PROVE  /\ groupCalls' \in [Devices -> SUBSET Update]
               /\ groupOutbox' \in [Devices -> Seq(Update)]
               /\ sentCall.group \in GroupViews /\ Held(sentCall.group)
               /\ \A v \in Seen : InCall(v)' \/ InOutbox(v)' => Held(v)
    <2>1. sentCall \in Update /\ sentCall.group \in GroupViews
      BY <1>1 DEF Update
    <2>2. Held(sentCall.group)
      BY DEF Held, InCall
    <2>3. /\ groupCalls' \in [Devices -> SUBSET Update]
          /\ \A e \in Devices : groupCalls'[e] \subseteq groupCalls[e]
      BY <1>1, <1>4
    <2>4. \A v \in Seen : InCall(v)' => Held(v)
      BY <2>3 DEF InCall, Held
    <2>5. /\ groupOutbox' \in [Devices -> Seq(Update)]
          /\ \A v : InOutbox(v)' => InOutbox(v) \/ v = sentCall.group
      BY <1>1, <1>4, <2>1, StoredInOutbox
    <2> QED BY <2>1, <2>2, <2>3, <2>4, <2>5 DEF Held
  <1>5. CASE CallArrives(d)
    <2>1. PICK sentCall \in groupCalls[d] :
             /\ Takes(sentCall)
             /\ groupCalls' = [groupCalls EXCEPT ![d] = @ \ {sentCall}]
             /\ \/ UNCHANGED groupOutbox
                \/ groupOutbox' = [groupOutbox EXCEPT ![d] = Append(@, sentCall)]
      BY <1>5 DEF CallArrives
    <2>2. /\ groupCalls' \in [Devices -> SUBSET Update]
          /\ groupOutbox' \in [Devices -> Seq(Update)]
          /\ sentCall.group \in GroupViews /\ Held(sentCall.group)
          /\ \A v \in Seen : InCall(v)' \/ InOutbox(v)' => Held(v)
      BY <1>4, <2>1
    <2>3. /\ groupRecord' = UpsertedGroup(sentCall.group)
          /\ groupPast' = groupPast \cup {groupRecord'}
          /\ Told(sentCall.notify, "update", groupRecord')
      BY <2>1 DEF Takes
    <2>4. /\ groupRecord' \in GroupViews
          /\ groupPast' \subseteq GroupViews
          /\ groupMail' \in [Members -> SUBSET Mail]
          /\ \A v \in Seen : InMail(v)' => Held(v) \/ v = groupRecord'
          /\ \A v : OnDevice(v)' => OnDevice(v)
      BY <1>2, <2>2, <2>3, TakesKeeps
    <2>5. WebGroupsTypeOK'
      BY <1>2, <1>3, <2>2, <2>4 DEF ViewsInv, WebGroupsTypeOK
    <2>6. \A v \in Seen : Held(v)' => Held(v) \/ v = groupRecord'
      BY <2>2, <2>3, <2>4 DEF Held
    <2>7. ViewsAre'
      BY <1>2, <2>2, <2>3, <2>6, RecordNew DEF ViewsInv
    <2> QED BY <2>5, <2>7 DEF ViewsInv
  <1>6. CASE CallFails(d)
    <2>1. PICK sentCall \in groupCalls[d] :
             /\ groupCalls' = [groupCalls EXCEPT ![d] = @ \ {sentCall}]
             /\ groupOutbox' = [groupOutbox EXCEPT ![d] = Append(@, sentCall)]
             /\ UNCHANGED <<groupRecord, groupPast, groupMail>>
      BY <1>6 DEF CallFails
    <2>2. /\ groupCalls' \in [Devices -> SUBSET Update]
          /\ groupOutbox' \in [Devices -> Seq(Update)]
          /\ \A v \in Seen : InCall(v)' \/ InOutbox(v)' => Held(v)
      BY <1>4, <2>1
    <2>3. WebGroupsTypeOK'
      BY <1>2, <1>3, <2>1, <2>2 DEF ViewsInv, WebGroupsTypeOK
    <2>4. \A v \in Seen : Held(v)' => Held(v) \/ v = Absent
      BY <1>2, <2>1, <2>2 DEF Held, OnDevice, InMail
    <2>5. ViewsAre'
      BY <1>2, <2>1, <2>4, NothingNew DEF ViewsInv
    <2> QED BY <2>3, <2>5 DEF ViewsInv
  <1>7. CASE FlushGroupUpdate(d)
    <2> DEFINE sentCall == Head(groupOutbox[d])
    <2>1. /\ groupOutbox[d] # <<>> /\ Takes(sentCall)
          /\ groupOutbox' = [groupOutbox EXCEPT ![d] = Tail(@)]
          /\ UNCHANGED groupCalls
      BY <1>7 DEF FlushGroupUpdate
    <2>2. sentCall \in Update /\ sentCall = groupOutbox[d][1] /\ 1 \in 1..Len(groupOutbox[d])
      BY <1>1, <2>1
    <2>3. sentCall.group \in GroupViews /\ Held(sentCall.group)
      BY <2>2 DEF Update, Held, InOutbox
    <2>4. groupOutbox' \in [Devices -> Seq(Update)]
      BY <1>1, <2>1
    <2>5. \A e \in Devices : \A i \in 1..Len(groupOutbox'[e]) :
             \E j \in 1..Len(groupOutbox[e]) : groupOutbox'[e][i] = groupOutbox[e][j]
      <3> SUFFICES ASSUME NEW e \in Devices, NEW i \in 1..Len(groupOutbox'[e])
                   PROVE  \E j \in 1..Len(groupOutbox[e]) :
                             groupOutbox'[e][i] = groupOutbox[e][j]
        OBVIOUS
      <3>1. CASE e = d
        <4>1. groupOutbox'[d] = Tail(groupOutbox[d])
          BY <1>1, <2>1
        <4>2. i + 1 \in 1..Len(groupOutbox[d]) /\ groupOutbox'[d][i] = groupOutbox[d][i + 1]
          BY <1>1, <2>1, <3>1, <4>1
        <4> QED BY <3>1, <4>2
      <3>2. CASE e # d
        BY <1>1, <2>1, <3>2
      <3> QED BY <3>1, <3>2
    <2>6. \A v \in Seen : InCall(v)' \/ InOutbox(v)' => Held(v)
      BY <2>1, <2>5 DEF Held, InCall, InOutbox
    <2>7. /\ groupRecord' = UpsertedGroup(sentCall.group)
          /\ groupPast' = groupPast \cup {groupRecord'}
          /\ Told(sentCall.notify, "update", groupRecord')
      BY <2>1 DEF Takes
    <2>8. /\ groupRecord' \in GroupViews
          /\ groupPast' \subseteq GroupViews
          /\ groupMail' \in [Members -> SUBSET Mail]
          /\ \A v \in Seen : InMail(v)' => Held(v) \/ v = groupRecord'
          /\ \A v : OnDevice(v)' => OnDevice(v)
      BY <1>2, <2>3, <2>7, TakesKeeps
    <2>9. WebGroupsTypeOK'
      BY <1>1, <1>2, <1>3, <2>1, <2>4, <2>8 DEF ViewsInv, WebGroupsTypeOK
    <2>10. \A v \in Seen : Held(v)' => Held(v) \/ v = groupRecord'
      BY <2>6, <2>7, <2>8 DEF Held
    <2>11. ViewsAre'
      BY <1>2, <2>3, <2>7, <2>10, RecordNew DEF ViewsInv
    <2> QED BY <2>9, <2>11 DEF ViewsInv
  <1> QED BY <1>5, <1>6, <1>7

(* A message or a reaction brings the record up to the sender's view, and  *)
(* mails that view or the record.                                          *)
LEMMA PostKeeps ==
  ASSUME ViewsInv, NEW d \in Devices, PostToGroup(d) \/ ReactInGroup(d)
  PROVE  ViewsInv'
  <1> DEFINE g == shownGroup[d]
  <1>1. PICK users, mailed :
           /\ g # Absent /\ groupPosts' \in 0..MaxGroupPosts
           /\ groupRecord' = UpsertedGroup(g)
           /\ groupPast' = groupPast \cup {groupRecord'}
           /\ mailed = groupRecord' \/ mailed = g
           /\ Told(users, "message", mailed)
           /\ UNCHANGED <<shownGroup, groupCalls, groupOutbox, stamped, clashed, groupClock,
                          groupLosses>>
    <2>1. CASE PostToGroup(d)
      <3>1. Posts(d, g.members, g)
        BY <2>1 DEF PostToGroup
      <3> QED BY <3>1 DEF Posts, ViewsInv, WebGroupsTypeOK
    <2>2. CASE ReactInGroup(d)
      <3>1. Posts(d, UpsertedGroup(g).members \cup g.members, UpsertedGroup(g))
        BY <2>2 DEF ReactInGroup
      <3> QED BY <3>1 DEF Posts, ViewsInv, WebGroupsTypeOK
    <2> QED BY <2>1, <2>2
  <1>2. g \in GroupViews /\ Held(g)
    BY <1>1 DEF ViewsInv, WebGroupsTypeOK, Held, OnDevice
  <1> HIDE DEF g
  <1>3. /\ groupRecord' \in GroupViews
        /\ groupPast' \subseteq GroupViews
        /\ groupMail' \in [Members -> SUBSET Mail]
        /\ \A v \in Seen : InMail(v)' => Held(v) \/ v = groupRecord'
        /\ \A v : OnDevice(v)' => OnDevice(v)
    BY <1>1, <1>2, TakesKeeps
  <1>4. WebGroupsTypeOK'
    BY <1>1, <1>3 DEF ViewsInv, WebGroupsTypeOK
  <1>5. \A v \in Seen : Held(v)' => Held(v) \/ v = groupRecord'
    BY <1>1, <1>3 DEF Held, InCall, InOutbox
  <1>6. ViewsAre'
    BY <1>1, <1>2, <1>5, RecordNew DEF ViewsInv
  <1> QED BY <1>4, <1>6 DEF ViewsInv

\* Whatever comes to a device is shown, or what it showed, or nothing.
LEMMA ShownKeeps ==
  ASSUME ViewsInv, NEW d \in Devices, NEW g \in Seen,
         Held(g) \/ g = Absent,
         shownGroup' = [shownGroup EXCEPT ![d] = g],
         UNCHANGED <<groupCalls, groupOutbox, groupRecord, groupPast, groupMail,
                     stamped, clashed, groupClock, groupPosts, groupLosses>>
  PROVE  ViewsInv'
  <1>1. shownGroup \in [Devices -> GroupViews \cup {Absent}]
    BY DEF ViewsInv, WebGroupsTypeOK
  <1>2. WebGroupsTypeOK'
    BY <1>1 DEF ViewsInv, WebGroupsTypeOK, Seen
  <1>3. ASSUME NEW v \in Seen, Held(v)' PROVE Held(v) \/ v = Absent
    <2>1. OnDevice(v)' => OnDevice(v) \/ v = g
      BY <1>1 DEF OnDevice
    <2> QED BY <1>3, <2>1 DEF Held, InCall, InOutbox, InMail
  <1>4. ViewsAre'
    BY <1>3, NothingNew DEF ViewsInv
  <1> QED BY <1>2, <1>4 DEF ViewsInv

(* The push of a message makes one view: what the device shows, or a group *)
(* without members, with a stamp of the device.                            *)
LEMMA PushKeeps ==
  ASSUME ViewsInv, NEW d \in Devices, NEW at \in GroupStamps, PushNamesGroup(d, at)
  PROVE  ViewsInv'
  <1> DEFINE g == [shownGroup[d] EXCEPT !.at = at]
  <1>1. /\ shownGroup' = [shownGroup EXCEPT ![d] = g] /\ Stamps(at)
        /\ UNCHANGED <<groupCalls, groupOutbox, groupRecord, groupPast, groupMail,
                       groupPosts, groupLosses>>
        /\ Mailed
    <2>1. Holder[d] \in Members
      OBVIOUS
    <2> QED BY <2>1 DEF PushNamesGroup, Mailed
  <1>2. shownGroup \in [Devices -> GroupViews \cup {Absent}]
    BY DEF ViewsInv, WebGroupsTypeOK
  <1>3. g \in GroupViews /\ g.at = at
    BY <1>2 DEF GroupViews, Absent
  <1> HIDE DEF g
  <1>4. groupRecord # Absent
    BY <1>1 DEF ViewsInv, ViewsAre, Known
  <1>5. \A v \in Seen : Held(v)' => Held(v) \/ v = g
    <2>1. \A v : OnDevice(v)' => OnDevice(v) \/ v = g
      BY <1>1, <1>2 DEF OnDevice
    <2> QED BY <1>1, <2>1 DEF Held, InCall, InOutbox, InMail
  <1>6. ViewsAre'
    BY <1>1, <1>3, <1>4, <1>5, OneNew DEF ViewsInv
  <1>7. WebGroupsTypeOK'
    BY <1>1, <1>2, <1>3 DEF ViewsInv, WebGroupsTypeOK, Stamps
  <1> QED BY <1>6, <1>7 DEF ViewsInv

LEMMA DeviceKeeps ==
  ASSUME ViewsInv, NEW d \in Devices,
         MailArrives(d) \/ Refreshes(d) \/ LoadsFromDb(d)
  PROVE  ViewsInv'
  <1>1. /\ shownGroup[d] \in Seen /\ Held(shownGroup[d])
        /\ groupMail \in [Members -> SUBSET Mail] /\ Holder[d] \in Members
        /\ groupPast \subseteq GroupViews /\ Absent \in Seen
    BY DEF ViewsInv, WebGroupsTypeOK, Seen, Held, OnDevice
  <1>2. CASE MailArrives(d)
    <2>1. PICK m \in groupMail[Holder[d]] :
             shownGroup' = [shownGroup EXCEPT ![d] =
                              IF m.kind = "update" THEN AfterUpdate(d, m.group)
                              ELSE Ensured(d, m.group)]
      BY <1>2 DEF MailArrives
    <2>2. m.group \in Seen /\ Held(m.group)
      BY <1>1 DEF Seen, Mail, Held, InMail
    <2>3. /\ Ensured(d, m.group) \in Seen /\ Held(Ensured(d, m.group))
          /\ AfterUpdate(d, m.group) \in Seen
          /\ Held(AfterUpdate(d, m.group)) \/ AfterUpdate(d, m.group) = Absent
      BY <1>1, <2>2 DEF Ensured, AfterUpdate
    <2>4. CASE m.kind = "update"
      BY <1>2, <2>1, <2>3, <2>4, ShownKeeps DEF MailArrives
    <2>5. CASE m.kind # "update"
      BY <1>2, <2>1, <2>3, <2>5, ShownKeeps DEF MailArrives
    <2> QED BY <2>4, <2>5
  <1>3. CASE Refreshes(d) \/ LoadsFromDb(d)
    <2>1. PICK r \in Answers(d) : shownGroup' = [shownGroup EXCEPT ![d] = r]
      BY <1>3 DEF Refreshes, LoadsFromDb
    <2>2. r \in Seen /\ (Held(r) \/ r = Absent)
      BY <1>1 DEF Answers, Seen, Held
    <2> QED BY <1>3, <2>1, <2>2, ShownKeeps DEF Refreshes, LoadsFromDb
  <1> QED BY <1>2, <1>3

LEMMA ViewsNext == ViewsInv /\ [WebGroupsNext]_webGroupVars => ViewsInv'
  <1> SUFFICES ASSUME ViewsInv, [WebGroupsNext]_webGroupVars PROVE ViewsInv'
    OBVIOUS
  <1>1. CASE UNCHANGED webGroupVars
    <2>1. \A v : Held(v)' => Held(v)
      BY <1>1 DEF webGroupVars, Held, OnDevice, InCall, InOutbox, InMail
    <2>2. ViewsAre'
      BY <1>1, <2>1, NothingNew DEF webGroupVars, ViewsInv
    <2>3. WebGroupsTypeOK'
      BY <1>1 DEF webGroupVars, ViewsInv, WebGroupsTypeOK
    <2> QED BY <2>2, <2>3 DEF ViewsInv
  <1>2. ASSUME NEW d \in Devices, NEW at \in GroupStamps,
               \/ \E members \in SUBSET Members :
                     CreateGroup(d, members, at) \/ UpdateMembers(d, members, at)
               \/ UpdateTitle(d, at) \/ PushNamesGroup(d, at)
        PROVE  ViewsInv'
    <2>1. CASE UpdateTitle(d, at)
      <3> DEFINE g == [shownGroup[d] EXCEPT !.at = at]
      <3>1. shownGroup[d] \in GroupViews
        BY <2>1 DEF UpdateTitle, ViewsInv, WebGroupsTypeOK
      <3>2. g \in GroupViews /\ shownGroup[d].members \in SUBSET Members
        BY <3>1 DEF GroupViews
      <3>3. Tells(d, g, shownGroup[d].members)
        BY <2>1 DEF UpdateTitle
      <3>4. g.members = shownGroup[d].members /\ Held(shownGroup[d])
        BY <3>1 DEF Held, OnDevice, GroupViews
      <3>5. g.members = {} => groupRecord # Absent
        BY <3>1, <3>4 DEF ViewsInv, ViewsAre, Known
      <3> HIDE DEF g
      <3> QED BY <3>2, <3>3, <3>5, TellsKeeps
    <2>2. ASSUME NEW members \in SUBSET Members, CreateGroup(d, members, at)
          PROVE  ViewsInv'
      <3> DEFINE g == [members |-> members, at |-> at]
      <3>1. g \in GroupViews /\ Tells(d, g, members) /\ g.members # {}
        BY <2>2 DEF CreateGroup, GroupViews
      <3> QED BY <3>1, TellsKeeps
    <2>3. ASSUME NEW members \in SUBSET Members, UpdateMembers(d, members, at)
          PROVE  ViewsInv'
      <3> DEFINE g == [members |-> members, at |-> at]
                 toldOf == members \cup shownGroup[d].members
      <3>1. g \in GroupViews /\ Tells(d, g, toldOf) /\ g.members # {}
        BY <2>3 DEF UpdateMembers, GroupViews
      <3>2. shownGroup[d] \in GroupViews
        BY <2>3 DEF UpdateMembers, ViewsInv, WebGroupsTypeOK
      <3>3. toldOf \in SUBSET Members
        BY <3>2 DEF GroupViews
      <3> HIDE DEF toldOf
      <3> QED BY <3>1, <3>3, TellsKeeps
    <2> QED BY <1>2, <2>1, <2>2, <2>3, PushKeeps
  <1> QED
    BY <1>1, <1>2, RequestKeeps, PostKeeps, DeviceKeeps DEF WebGroupsNext

\* Every view the property looks at is held somewhere.
LEMMA ViewsAgree == ViewsInv => SameStampSameMembers
  <1> SUFFICES ASSUME ViewsInv PROVE SameStampSameMembers
    OBVIOUS
  <1> DEFINE views == {shownGroup[d] : d \in Devices} \cup groupPast
                      \cup {m.group : m \in UNION {groupMail[u] : u \in Members}}
  <1>1. ASSUME NEW v \in views PROVE v \in Seen /\ Held(v)
    <2>1. CASE v \in {shownGroup[d] : d \in Devices}
      BY <2>1 DEF ViewsInv, WebGroupsTypeOK, Seen, Held, OnDevice
    <2>2. CASE v \in groupPast
      BY <2>2 DEF ViewsInv, WebGroupsTypeOK, Seen, Held
    <2>3. CASE v \in {m.group : m \in UNION {groupMail[u] : u \in Members}}
      <3>1. PICK u \in Members : \E m \in groupMail[u] : m.group = v
        BY <2>3
      <3> QED BY <3>1 DEF ViewsInv, WebGroupsTypeOK, Seen, Held, InMail, Mail
    <2> QED BY <2>1, <2>2, <2>3
  <1>2. ASSUME NEW a \in views, NEW b \in views, a.at = b.at, a.at \notin clashed
        PROVE  a.members = b.members \/ {} \in {a.members, b.members}
    <2>1. a \in Seen /\ b \in Seen /\ Held(a) /\ Held(b)
      BY <1>1
    <2> QED BY <1>2, <2>1 DEF ViewsInv, ViewsAre, Agree, Compared
  <1> QED BY <1>2 DEF SameStampSameMembers

\* The state of the groups keeps its type, for any devices and members.
THEOREM WebGroupsTypeCorrect == WebGroupsSpec => []WebGroupsTypeOK
  <1>1. ViewsInv => WebGroupsTypeOK
    BY DEF ViewsInv
  <1> QED BY ViewsInit, ViewsNext, <1>1, PTL DEF WebGroupsSpec

(* Whatever is lost, stored, repeated or overtaken between the creator's   *)
(* devices, the server and the members' devices, and whatever pushes stamp *)
(* anew, a stamp that one clock gave says which members a group has        *)
(* (groupUpdatedAt of createGroup, upsertGroup, ensureGroupFromIncoming).  *)
THEOREM StampSaysMembers == WebGroupsSpec => []SameStampSameMembers
  <1> QED BY ViewsInit, ViewsNext, ViewsAgree, PTL DEF WebGroupsSpec

HIDE WebGroupsAssumption

-----------------------------------------------------------------------------
(* Receipts. A receipt that a flush tracks as sent was sent: with no reset *)
(* under way there is one flush, and it works on the set of the chat.      *)
USE ResetsAssumption

\* Only what the server has is kept as sent.
SentIsTold ==
    /\ receiptSent \subseteq told
    /\ \A f \in ReceiptFlushes : flight[f].known \cup flight[f].done \subseteq told

\* Without a reset under a flush there is one flush, and it works on the set
\* of the chat.
OneFlush == crossed = "no" =>
    \A f \in ReceiptFlushes : flight[f].state # "idle" =>
        /\ flight[f].state = "current" /\ busy = "yes"
        /\ \A g \in ReceiptFlushes \ {f} : flight[g].state = "idle"

WebReceiptsInv == WebReceiptsTypeOK /\ SentIsTold /\ OneFlush /\ TrackedIsOwed

FlightType == [state : {"idle", "current", "orphan"},
               todo : SUBSET ReceiptIds, known : SUBSET ReceiptIds,
               done : SUBSET ReceiptIds, held : SUBSET ReceiptIds]

(* A reset takes the working set from every flush under way, and nothing   *)
(* else.                                                                   *)
LEMMA OrphanedFlights ==
  ASSUME WebReceiptsTypeOK, NEW fl \in [ReceiptFlushes -> FlightType]
  PROVE  /\ Orphaned(fl) \in [ReceiptFlushes -> FlightType]
         /\ \A g \in ReceiptFlushes : /\ Orphaned(fl)[g].known = fl[g].known
                                      /\ Orphaned(fl)[g].done = fl[g].done
                                      /\ fl[g].state = "idle" => Orphaned(fl)[g] = fl[g]
                                      /\ fl[g].state # "idle" => Orphaned(fl)[g].state = "orphan"
  BY DEF Orphaned, FlightType, WebReceiptsTypeOK

(* A flush that ends: what it could not send is still in the set of the    *)
(* chat, unless a reset came in between.                                   *)
LEMMA EndsKeeps ==
  ASSUME WebReceiptsInv, NEW f \in ReceiptFlushes, NEW done \in SUBSET ReceiptIds,
         NEW rest \in SUBSET ReceiptIds, NEW batch \in SUBSET ReceiptIds,
         flight[f].state # "idle", told' = told \cup batch, done \subseteq told',
         flight[f].state = "current" => rest \subseteq pending /\ pending \subseteq rest \cup batch,
         Ends(f, done, rest), UNCHANGED <<list, timer, tracked, crossed, resets>>
  PROVE  WebReceiptsInv'
  <1> DEFINE over == [flight EXCEPT ![f] = NoReceiptFlush]
  <1>1. /\ over \in [ReceiptFlushes -> FlightType]
        /\ over[f] = NoReceiptFlush
        /\ \A g \in ReceiptFlushes \ {f} : over[g] = flight[g]
    BY DEF WebReceiptsInv, WebReceiptsTypeOK, FlightType, NoReceiptFlush
  <1>2. /\ busy' = "no"
        /\ receiptSent' = IF done = {} THEN receiptSent ELSE flight[f].known \cup done
        /\ receiptUnread' = IF done = {} THEN receiptUnread ELSE 0
        /\ IF rest = {} THEN pending' = {} /\ flight' = Orphaned(over)
           ELSE /\ pending' = IF flight[f].state = "current" THEN rest ELSE pending
                /\ flight' = over
    BY DEF Ends
  <1> HIDE DEF over
  <1>3. /\ flight' \in [ReceiptFlushes -> FlightType]
        /\ flight'[f].state = "idle" /\ flight'[f].known = {} /\ flight'[f].done = {}
        /\ \A g \in ReceiptFlushes \ {f} : /\ flight'[g].known = flight[g].known
                                           /\ flight'[g].done = flight[g].done
                                           /\ flight[g].state = "idle" => flight'[g].state = "idle"
    BY <1>1, <1>2, OrphanedFlights DEF NoReceiptFlush, WebReceiptsInv
  <1>4. WebReceiptsTypeOK'
    BY <1>2, <1>3 DEF WebReceiptsInv, WebReceiptsTypeOK, FlightType
  <1>5. SentIsTold'
    BY <1>2, <1>3 DEF WebReceiptsInv, SentIsTold
  <1>6. OneFlush'
    BY <1>3 DEF WebReceiptsInv, OneFlush
  <1>7. TrackedIsOwed'
    BY <1>2 DEF WebReceiptsInv, TrackedIsOwed, OneFlush
  <1> QED BY <1>4, <1>5, <1>6, <1>7 DEF WebReceiptsInv

(* The rows that want a receipt are among the receipts.                    *)
LEMMA RowsAreIds ==
  ASSUME WebReceiptsTypeOK PROVE InList \subseteq ReceiptIds /\ Seeded \subseteq ReceiptIds
         /\ pending \subseteq Seeded
  BY DEF WebReceiptsTypeOK, InList, Seeded, LastRows

(* A receipt the client tracks as sent was told, or is still to be sent    *)
(* (queueReadReceipts, flushReadReceipts), for any receipts, flushes and   *)
(* number of resets.                                                       *)
THEOREM TrackedIsOwedInvariant ==
  WebReceiptsSpec => [](WebReceiptsTypeOK /\ TrackedIsOwed)
  <1>1. WebReceiptsInit => WebReceiptsInv
    BY DEF WebReceiptsInit, WebReceiptsInv, WebReceiptsTypeOK, NoReceiptFlush, SentIsTold,
           OneFlush, TrackedIsOwed
  <1>2. WebReceiptsInv /\ [WebReceiptsNext]_receiptVars => WebReceiptsInv'
    <2> SUFFICES ASSUME WebReceiptsInv, [WebReceiptsNext]_receiptVars PROVE WebReceiptsInv'
      OBVIOUS
    <2> USE DEF WebReceiptsInv
    <2>1. ASSUME NEW m \in ReceiptIds, NEW seen \in {"yes", "no"}, Arrives(m, seen)
          PROVE  WebReceiptsInv'
      <3>1. WebReceiptsTypeOK'
        BY <2>1 DEF Arrives, WebReceiptsTypeOK
      <3>2. SentIsTold' /\ OneFlush'
        BY <2>1 DEF Arrives, SentIsTold, OneFlush
      <3>3. TrackedIsOwed'
        BY <2>1 DEF Arrives, SentIsTold, TrackedIsOwed
      <3> QED BY <3>1, <3>2, <3>3
    <2>2. ASSUME NEW m \in ReceiptIds, NEW place \in 0..Len(list), Recovered(m, place)
          PROVE  WebReceiptsInv'
      <3>1. list' \in Seq(ReceiptIds)
        <4>1. SubSeq(list, 1, place) \in Seq(ReceiptIds)
          BY DEF WebReceiptsTypeOK
        <4>2. SubSeq(list, place + 1, Len(list)) \in Seq(ReceiptIds)
          BY DEF WebReceiptsTypeOK
        <4>3. <<m>> \in Seq(ReceiptIds)
          OBVIOUS
        <4> QED BY <2>2, <4>1, <4>2, <4>3 DEF Recovered
      <3> QED BY <2>2, <3>1
                 DEF Recovered, WebReceiptsTypeOK, SentIsTold, OneFlush,
                     TrackedIsOwed
    <2>3. ASSUME NEW f \in ReceiptFlushes, NEW network \in {"yes", "no"}, TimerFires(f, network)
          PROVE  WebReceiptsInv'
      <3>1. /\ UNCHANGED <<list, receiptUnread, receiptSent, told, tracked, crossed, resets>>
            /\ timer' \in {"armed", "off"}
            /\ \/ UNCHANGED <<pending, busy, flight>>
               \/ /\ pending \subseteq receiptSent /\ pending' = {}
                  /\ UNCHANGED <<busy, flight>>
               \/ /\ busy = "no" /\ busy' = "yes"
                  /\ flight' = [flight EXCEPT ![f] = [NoReceiptFlush EXCEPT !.state = "current",
                                                          !.todo = pending \ receiptSent,
                                                          !.known = receiptSent]]
                  /\ UNCHANGED pending
        BY <2>3 DEF TimerFires
      <3>2. CASE UNCHANGED <<pending, busy, flight>>
        BY <3>1, <3>2 DEF WebReceiptsTypeOK, SentIsTold, OneFlush, TrackedIsOwed
      <3>3. CASE pending \subseteq receiptSent /\ pending' = {} /\ UNCHANGED <<busy, flight>>
        BY <3>1, <3>3 DEF WebReceiptsTypeOK, SentIsTold, OneFlush, TrackedIsOwed
      <3>4. CASE /\ busy = "no" /\ busy' = "yes"
                 /\ flight' = [flight EXCEPT ![f] = [NoReceiptFlush EXCEPT !.state = "current",
                                                         !.todo = pending \ receiptSent,
                                                         !.known = receiptSent]]
                 /\ UNCHANGED pending
        <4>1. /\ flight' \in [ReceiptFlushes -> FlightType]
              /\ flight'[f].state = "current" /\ flight'[f].known = receiptSent
              /\ flight'[f].done = {}
              /\ \A g \in ReceiptFlushes \ {f} : flight'[g] = flight[g]
          BY <3>4 DEF WebReceiptsTypeOK, FlightType, NoReceiptFlush
        <4> QED BY <3>1, <3>4, <4>1
                  DEF WebReceiptsTypeOK, FlightType, SentIsTold, OneFlush, TrackedIsOwed
      <3> QED BY <3>1, <3>2, <3>3, <3>4
    <2>4. ASSUME NEW f \in ReceiptFlushes, NEW batch \in SUBSET ReceiptIds,
                 BatchAnswered(f, batch)
          PROVE  WebReceiptsInv'
      <3> DEFINE done == flight[f].done \cup batch
                 object == IF flight[f].state = "current" THEN pending ELSE flight[f].held
      <3>1. /\ flight[f].state # "idle" /\ told' = told \cup batch
            /\ UNCHANGED <<list, timer, tracked, crossed, resets>>
            /\ IF batch = flight[f].todo THEN Ends(f, done, object \ batch)
               ELSE /\ flight' = [flight EXCEPT ![f].todo = @ \ batch, ![f].done = done,
                                                ![f].held = @ \ batch]
                    /\ pending' = IF flight[f].state = "current" THEN pending \ batch
                                  ELSE pending
                    /\ UNCHANGED <<receiptSent, busy, receiptUnread>>
        BY <2>4 DEF BatchAnswered
      <3>2. done \in SUBSET ReceiptIds /\ object \in SUBSET ReceiptIds /\ done \subseteq told'
        BY <3>1 DEF WebReceiptsTypeOK, SentIsTold
      <3>3. CASE batch = flight[f].todo
        BY <3>1, <3>2, <3>3, EndsKeeps
      <3>4. CASE batch # flight[f].todo
        <4> HIDE DEF done
        <4>1. /\ flight' \in [ReceiptFlushes -> FlightType]
              /\ flight'[f].state = flight[f].state /\ flight'[f].known = flight[f].known
              /\ flight'[f].done = done
              /\ \A g \in ReceiptFlushes \ {f} : flight'[g] = flight[g]
          BY <3>1, <3>2, <3>4 DEF WebReceiptsTypeOK, FlightType
        <4>2. WebReceiptsTypeOK'
          BY <3>1, <3>4, <4>1 DEF WebReceiptsTypeOK, FlightType
        <4>3. SentIsTold' /\ OneFlush'
          BY <3>1, <3>2, <3>4, <4>1 DEF SentIsTold, OneFlush
        <4>4. TrackedIsOwed'
          BY <3>1, <3>4 DEF TrackedIsOwed
        <4> QED BY <4>2, <4>3, <4>4
      <3> QED BY <3>3, <3>4
    <2>5. ASSUME NEW f \in ReceiptFlushes, NEW batch \in SUBSET ReceiptIds, BatchFails(f, batch)
          PROVE  WebReceiptsInv'
      <3>1. /\ flight[f].state # "idle" /\ told' = told \cup batch
            /\ Ends(f, flight[f].done,
                    IF flight[f].state = "current" THEN pending ELSE flight[f].held)
            /\ UNCHANGED <<list, timer, tracked, crossed, resets>>
        BY <2>5 DEF BatchFails
      <3>2. /\ flight[f].done \in SUBSET ReceiptIds /\ flight[f].done \subseteq told'
            /\ (IF flight[f].state = "current" THEN pending ELSE flight[f].held)
                  \in SUBSET ReceiptIds
        BY <3>1 DEF WebReceiptsTypeOK, SentIsTold
      <3> QED BY <3>1, <3>2, EndsKeeps
    <2>6. ASSUME NEW emptied \in {"yes", "no"}, ResetTracking(emptied) PROVE WebReceiptsInv'
      <3>1. /\ resets' \in 0..MaxResets /\ list' \in Seq(ReceiptIds)
            /\ receiptUnread' = 0 /\ pending' = {} /\ receiptSent' = {} /\ busy' = "no"
            /\ timer' = "off" /\ tracked' = {} /\ flight' = Orphaned(flight) /\ told' = told
            /\ crossed' = IF \E f \in ReceiptFlushes : flight[f].state # "idle" THEN "yes"
                          ELSE crossed
        BY <2>6 DEF ResetTracking, WebReceiptsTypeOK
      <3>2. /\ flight' \in [ReceiptFlushes -> FlightType]
            /\ \A g \in ReceiptFlushes : /\ flight'[g].known = flight[g].known
                                         /\ flight'[g].done = flight[g].done
                                         /\ flight[g].state = "idle" => flight'[g] = flight[g]
        BY <3>1, OrphanedFlights DEF WebReceiptsTypeOK, FlightType
      <3>3. WebReceiptsTypeOK'
        BY <3>1, <3>2 DEF WebReceiptsTypeOK, FlightType
      <3>4. SentIsTold' /\ OneFlush' /\ TrackedIsOwed'
        BY <3>1, <3>2 DEF SentIsTold, OneFlush, TrackedIsOwed
      <3> QED BY <3>3, <3>4
    <2>7. CASE ReceiptsReloadPage
      BY <2>7
         DEF ReceiptsReloadPage, WebReceiptsTypeOK, NoReceiptFlush, SentIsTold,
             OneFlush,
                  TrackedIsOwed
    <2>8. CASE OpenChat \/ ReachBottom \/ ReadElsewhere
      BY <2>8, RowsAreIds DEF OpenChat, ReachBottom, ReadElsewhere, WebReceiptsTypeOK,
                  SentIsTold, OneFlush, TrackedIsOwed
    <2>9. CASE UNCHANGED receiptVars
      BY <2>9 DEF receiptVars, WebReceiptsTypeOK, SentIsTold, OneFlush, TrackedIsOwed
    <2> QED BY <2>1, <2>2, <2>3, <2>4, <2>5, <2>6, <2>7, <2>8, <2>9 DEF WebReceiptsNext
  <1>3. WebReceiptsInv => WebReceiptsTypeOK /\ TrackedIsOwed
    BY DEF WebReceiptsInv
  <1> QED BY <1>1, <1>2, <1>3, PTL DEF WebReceiptsSpec

HIDE ResetsAssumption

-----------------------------------------------------------------------------
(* The realtime transport. Whoever is logged in is the active user, and a  *)
(* socket said to be on its way is being created for that user.            *)
USE WebTransportAssumption

\* Whoever is logged in is the active user; a socket said to be on its way
\* is being created for that user.
ActiveIsVisitor ==
    /\ visitor # NoVisitor => t.active = visitor
    /\ t.active = NoVisitor =>
          t.socket = "none" /\ t.socketTimer = "no" /\ t.connecting = "no"
    /\ t.connecting = "yes" => creating[t.active] > 0

TransportInv == WebTransportTypeOK /\ ActiveIsVisitor /\ Recovers

Transports == [active : Visitors \cup {NoVisitor},
               socket : {"none", "opening", "connected"},
               connecting : {"yes", "no"}, stream : {"yes", "no"},
               fallback : {"yes", "no"}, socketTimer : {"yes", "no"},
               streamTimer : {"yes", "no"}, failures : 0..MaxFailures,
               disabled : {"yes", "no"}, poll : {"yes", "no"},
               mode : {"socket", "sse", "polling"}]

(* What the methods that touch the stream, and stopSocket, leave of the    *)
(* transport.                                                              *)
LEMMA StreamMethods ==
  ASSUME NEW s \in Transports
  PROVE  /\ StopStream(s) \in Transports /\ StartSse(s) \in Transports
         /\ StopSocket(s) \in Transports /\ ScheduleStream(s) \in Transports
         /\ \A r \in {StopStream(s), StartSse(s), ScheduleStream(s)} :
               /\ r.active = s.active /\ r.socket = s.socket
               /\ r.connecting = s.connecting /\ r.socketTimer = s.socketTimer
         /\ StopSocket(s).active = s.active /\ StopSocket(s).socket = "none"
         /\ StopSocket(s).connecting = "no" /\ StopSocket(s).socketTimer = s.socketTimer
  <1> USE DEF Transports
  <1>1. /\ StopStream(s) \in Transports /\ StopStream(s).active = s.active
        /\ StopStream(s).socket = s.socket /\ StopStream(s).connecting = s.connecting
        /\ StopStream(s).socketTimer = s.socketTimer
    BY ZenonT(60) DEF StopStream
  <1>2. /\ StartSse(s) \in Transports /\ StartSse(s).active = s.active
        /\ StartSse(s).socket = s.socket /\ StartSse(s).connecting = s.connecting
        /\ StartSse(s).socketTimer = s.socketTimer
    BY ZenonT(60) DEF StartSse
  <1>3. /\ ScheduleStream(s) \in Transports /\ ScheduleStream(s).active = s.active
        /\ ScheduleStream(s).socket = s.socket /\ ScheduleStream(s).connecting = s.connecting
        /\ ScheduleStream(s).socketTimer = s.socketTimer
    BY ZenonT(60) DEF ScheduleStream
  <1>4. /\ StopSocket(s) \in Transports /\ StopSocket(s).active = s.active
        /\ StopSocket(s).socket = "none" /\ StopSocket(s).connecting = "no"
        /\ StopSocket(s).socketTimer = s.socketTimer
    BY ZenonT(60) DEF StopSocket
  <1> QED BY <1>1, <1>2, <1>3, <1>4

(* disconnectRealtime leaves no socket and no socket timer.                *)
LEMMA DisconnectedIsStill ==
  ASSUME NEW s \in Transports
  PROVE  /\ Disconnected(s) \in Transports
         /\ Disconnected(s).active = s.active /\ Disconnected(s).socket = "none"
         /\ Disconnected(s).connecting = "no" /\ Disconnected(s).socketTimer = "no"
  <1> DEFINE r == StopStream(StopSocket(s))
  <1>1. /\ r \in Transports /\ r.active = s.active /\ r.socket = "none"
        /\ r.connecting = "no"
    <2>1. StopSocket(s) \in Transports
      BY StreamMethods
    <2> QED BY <2>1, StreamMethods
  <1>2. Disconnected(s) = [r EXCEPT !.poll = "no", !.streamTimer = "no", !.socketTimer = "no",
                                    !.fallback = "no", !.mode = "polling"]
    BY DEF Disconnected
  <1> HIDE DEF r
  <1>3. Disconnected(s) \in Transports
    BY ZenonT(60), <1>1, <1>2 DEF Transports
  <1>4. /\ Disconnected(s).active = r.active /\ Disconnected(s).socket = r.socket
        /\ Disconnected(s).connecting = r.connecting /\ Disconnected(s).socketTimer = "no"
    BY ZenonT(60), <1>1, <1>2 DEF Transports
  <1> QED BY <1>1, <1>3, <1>4

(* A lost socket of the active user schedules the next attempt.            *)
LEMMA LostSchedules ==
  ASSUME NEW s \in Transports, NEW u \in Visitors \cup {NoVisitor}
  PROVE  /\ Lost(s, u) \in Transports /\ Lost(s, u).active = s.active
         /\ Lost(s, u).socket = "none" /\ Lost(s, u).connecting = "no"
         /\ IF s.active = u THEN Lost(s, u).socketTimer = "yes"
            ELSE Lost(s, u).socketTimer = s.socketTimer
  <1> DEFINE stopped == [StopSocket(s) EXCEPT !.mode = "polling"]
  <1>1. /\ stopped \in Transports /\ stopped.active = s.active /\ stopped.socket = "none"
        /\ stopped.connecting = "no" /\ stopped.socketTimer = s.socketTimer
    BY ZenonT(60) DEF StopSocket, Transports
  <1> HIDE DEF stopped
  <1>2. /\ StartSse(stopped) \in Transports /\ StartSse(stopped).active = s.active
        /\ StartSse(stopped).socket = "none" /\ StartSse(stopped).connecting = "no"
    BY <1>1, StreamMethods
  <1>3. /\ Failed(stopped) \in Transports /\ Failed(stopped).active = s.active
        /\ Failed(stopped).socket = "none" /\ Failed(stopped).connecting = "no"
        /\ Failed(stopped).socketTimer = "yes"
    <2> DEFINE n == stopped.failures + 1
               sse == StartSse(stopped)
               counted == IF n >= MaxFailures THEN [sse EXCEPT !.failures = 0, !.disabled = "yes"]
                          ELSE [sse EXCEPT !.failures = n]
    <2>1. n \in Nat /\ (~(n >= MaxFailures) => n \in 0..MaxFailures)
      BY <1>1 DEF Transports
    <2>2. /\ sse \in Transports /\ sse.active = s.active
          /\ sse.socket = "none" /\ sse.connecting = "no"
      BY <1>2
    <2> HIDE DEF n, sse
    <2>4. /\ counted \in Transports /\ counted.active = s.active
          /\ counted.socket = "none" /\ counted.connecting = "no"
      <3>1. CASE n >= MaxFailures
        <4>1. counted = [sse EXCEPT !.failures = 0, !.disabled = "yes"]
          BY <3>1 DEF counted
        <4> HIDE DEF counted
        <4>2. 0 \in 0..MaxFailures
          OBVIOUS
        <4> QED BY <2>2, <4>1, <4>2 DEF Transports
      <3>2. CASE ~(n >= MaxFailures)
        <4>1. counted = [sse EXCEPT !.failures = n]
          BY <3>2 DEF counted
        <4> HIDE DEF counted
        <4> QED BY <2>1, <2>2, <3>2, <4>1 DEF Transports
      <3> QED BY <3>1, <3>2
    <2> HIDE DEF counted
    <2>3. Failed(stopped) = ScheduleSocket(counted)
      BY DEF Failed, counted, sse, n
    <2> QED BY <2>3, <2>4 DEF ScheduleSocket, Transports
  <1>4. Lost(s, u) = IF s.active = u THEN Failed(stopped) ELSE stopped
    BY DEF Lost, stopped
  <1> QED BY <1>1, <1>3, <1>4

(* A transport that is disconnected, or whose timer fires, schedules the   *)
(* socket, creates one, or has one on its way.                             *)
LEMMA PreferredTries ==
  ASSUME NEW s \in Transports
  PROVE  /\ Preferred(s) \in Transports /\ Preferred(s).active = s.active
         /\ Preferred(s).socket = s.socket
         /\ Creates(s) => Preferred(s).connecting = "yes"
         /\ ~Creates(s) => Preferred(s).connecting = s.connecting
         /\ Preferred(s).socketTimer = IF s.disabled = "yes" THEN "yes" ELSE s.socketTimer
  <1>1. CASE s.disabled = "yes"
    <2>1. /\ StartSse(s) \in Transports /\ StartSse(s).active = s.active
          /\ StartSse(s).socket = s.socket /\ StartSse(s).connecting = s.connecting
      BY StreamMethods
    <2> QED BY <1>1, <2>1 DEF Preferred, ScheduleSocket, Creates, Transports
  <1>2. CASE s.disabled # "yes"
    BY ZenonT(60), <1>2 DEF Preferred, Creates, Transports
  <1> QED BY <1>1, <1>2

(* connectRealtime for the user who is logged in.                          *)
LEMMA ConnectKeeps ==
  ASSUME TransportInv, NEW u \in Visitors, visitor' = u, ConnectRealtime(u),
         UNCHANGED <<net, netChanges>>
  PROVE  TransportInv'
  <1> DEFINE s == [Disconnected(t) EXCEPT !.active = u]
  <1>1. /\ s \in Transports /\ s.active = u /\ s.socket = "none" /\ s.connecting = "no"
        /\ s.socketTimer = "no"
    BY DisconnectedIsStill DEF TransportInv, WebTransportTypeOK, Transports
  <1>2. u # NoVisitor
    OBVIOUS
  <1>3. IF Reachable
        THEN /\ CreatesFor(s, u) /\ t' = [Preferred(s) EXCEPT !.poll = "yes"]
             /\ missed' = "no"
        ELSE /\ t' = [s EXCEPT !.poll = "yes"]
             /\ missed' = "yes" /\ UNCHANGED creating
    BY DEF ConnectRealtime
  <1> HIDE DEF s
  <1>4. CASE Reachable
    <2> DEFINE r == Preferred(s)
    <2>1. /\ r \in Transports /\ r.active = u /\ r.socket = "none"
          /\ r.socketTimer = IF s.disabled = "yes" THEN "yes" ELSE "no"
          /\ r.connecting = IF Creates(s) THEN "yes" ELSE "no"
      BY <1>1, PreferredTries
    <2> HIDE DEF r
    <2>2. /\ t' \in Transports /\ t'.active = u /\ t'.socket = "none"
          /\ t'.socketTimer = IF s.disabled = "yes" THEN "yes" ELSE "no"
          /\ t'.connecting = IF Creates(s) THEN "yes" ELSE "no"
      BY <1>3, <1>4, <2>1 DEF Transports, r
    <2>3. Creates(s) <=> s.disabled = "no"
      BY <1>1, <1>4 DEF Creates
    <2>4. /\ creating' \in [Visitors -> 0..MaxAttempts]
          /\ Creates(s) => creating'[u] > 0
      BY <1>3, <1>4 DEF CreatesFor, TransportInv, WebTransportTypeOK
    <2>5. s.disabled \in {"yes", "no"}
      BY <1>1 DEF Transports
    <2>6. WebTransportTypeOK'
      BY <1>3, <1>4, <2>2, <2>4 DEF TransportInv, WebTransportTypeOK, Transports
    <2>7. ActiveIsVisitor' /\ Recovers'
      BY <1>2, <2>2, <2>3, <2>4, <2>5 DEF ActiveIsVisitor, Recovers
    <2> QED BY <2>6, <2>7 DEF TransportInv
  <1>5. CASE ~Reachable
    <2>1. /\ t' \in Transports /\ t'.active = u /\ t'.connecting = "no"
      BY <1>1, <1>3, <1>5 DEF Transports
    <2>2. WebTransportTypeOK'
      BY <1>3, <1>5, <2>1 DEF TransportInv, WebTransportTypeOK, Transports
    <2>3. ActiveIsVisitor' /\ Recovers'
      BY <1>2, <1>3, <1>5, <2>1 DEF ActiveIsVisitor, Recovers
    <2> QED BY <2>2, <2>3 DEF TransportInv
  <1> QED BY <1>4, <1>5

(* Whoever is logged in has a socket, one on its way or a timer that will  *)
(* try again (connectRealtime, scheduleSocketReconnect), for any users,    *)
(* network changes and number of failures.                                 *)
THEOREM RecoversInvariant == WebTransportSpec => [](WebTransportTypeOK /\ Recovers)
  <1>1. WebTransportInit => TransportInv
    BY DEF WebTransportInit, TransportInv, WebTransportTypeOK, ActiveIsVisitor, Recovers,
           NoTransport
  <1>2. TransportInv /\ [WebTransportNext]_webTransportVars => TransportInv'
    <2> SUFFICES ASSUME TransportInv, [WebTransportNext]_webTransportVars PROVE TransportInv'
      OBVIOUS
    <2>0. t \in Transports
      BY DEF TransportInv, WebTransportTypeOK, Transports
    <2>1. ASSUME NEW u \in Visitors, LogIn(u) PROVE TransportInv'
      BY <2>1, ConnectKeeps DEF LogIn
    <2>2. CASE HandleOnline
      BY <2>2, ConnectKeeps DEF HandleOnline, TransportInv, WebTransportTypeOK
    <2>3. CASE LogOut
      <3>1. /\ t' \in Transports /\ t'.active = t.active /\ t'.socket = "none"
            /\ t'.connecting = "no" /\ t'.socketTimer = "no"
        BY <2>0, <2>3, DisconnectedIsStill DEF LogOut
      <3>2. WebTransportTypeOK'
        BY <2>3, <3>1 DEF LogOut, TransportInv, WebTransportTypeOK, Transports
      <3>3. ActiveIsVisitor' /\ Recovers'
        BY <2>3, <3>1 DEF LogOut, ActiveIsVisitor, Recovers
      <3> QED BY <3>2, <3>3 DEF TransportInv
    <2>4. CASE NetworkChanges
      BY <2>4
         DEF NetworkChanges, TransportInv, WebTransportTypeOK, ActiveIsVisitor,
             Recovers
    <2>5. ASSUME NEW u \in Visitors, SocketCreated(u) PROVE TransportInv'
      <3>1. /\ creating[u] > 0 /\ creating' = [creating EXCEPT ![u] = @ - 1]
            /\ t' = IF t.active = u THEN [StopSocket(t) EXCEPT !.socket = "opening"] ELSE t
            /\ UNCHANGED <<visitor, net, missed, netChanges>>
        BY <2>5 DEF SocketCreated
      <3>2. /\ creating' \in [Visitors -> 0..MaxAttempts]
            /\ \A v \in Visitors \ {u} : creating'[v] = creating[v]
        BY <3>1 DEF TransportInv, WebTransportTypeOK
      <3>3. /\ t' \in Transports /\ t'.active = t.active
            /\ t.active = u => t'.socket = "opening" /\ t'.connecting = "no"
            /\ t.active # u => t' = t
        <4> DEFINE stopped == StopSocket(t)
        <4>1. stopped \in Transports /\ stopped.active = t.active /\ stopped.connecting = "no"
          BY <2>0, StreamMethods
        <4> HIDE DEF stopped
        <4>2. t' = IF t.active = u THEN [stopped EXCEPT !.socket = "opening"] ELSE t
          BY <3>1 DEF stopped
        <4> QED BY <2>0, <4>1, <4>2 DEF Transports
      <3>4. WebTransportTypeOK'
        BY <3>1, <3>2, <3>3 DEF TransportInv, WebTransportTypeOK, Transports
      <3>5. ActiveIsVisitor'
        BY <2>0, <3>1, <3>2, <3>3 DEF TransportInv, ActiveIsVisitor, Transports
      <3>6. Recovers'
        BY <3>1, <3>2, <3>3 DEF TransportInv, ActiveIsVisitor, Recovers, WebTransportTypeOK
      <3> QED BY <3>4, <3>5, <3>6 DEF TransportInv
    <2>6. ASSUME NEW u \in Visitors, CreationFails(u) PROVE TransportInv'
      <3>1. /\ creating[u] > 0 /\ creating' = [creating EXCEPT ![u] = @ - 1]
            /\ t' = Lost(t, u)
            /\ missed' = IF t.active = u THEN missed ELSE "yes"
            /\ UNCHANGED <<visitor, net, netChanges>>
        BY <2>6 DEF CreationFails
      <3>2. creating' \in [Visitors -> 0..MaxAttempts]
        BY <3>1 DEF TransportInv, WebTransportTypeOK
      <3>3. /\ t' \in Transports /\ t'.active = t.active /\ t'.socket = "none"
            /\ t'.connecting = "no"
            /\ t.active = u => t'.socketTimer = "yes"
            /\ t.active # u => t'.socketTimer = t.socketTimer
        BY <2>0, <3>1, LostSchedules
      <3>4. WebTransportTypeOK'
        BY <3>1, <3>2, <3>3 DEF TransportInv, WebTransportTypeOK, Transports
      <3>5. ActiveIsVisitor' /\ Recovers'
        BY <3>1, <3>3 DEF TransportInv, ActiveIsVisitor, Recovers, WebTransportTypeOK
      <3> QED BY <3>4, <3>5 DEF TransportInv
    <2>7. CASE SocketConnects
      <3> DEFINE s == [t EXCEPT !.socket = "connected", !.connecting = "no", !.mode = "socket",
                                !.fallback = "no", !.failures = 0, !.disabled = "no"]
      <3>0. 0 \in 0..MaxFailures
        OBVIOUS
      <3>1. /\ s \in Transports /\ s.active = t.active /\ s.socket = "connected"
            /\ s.connecting = "no" /\ s.socketTimer = t.socketTimer
        BY ZenonT(60), <2>0, <3>0 DEF Transports
      <3>2. t' = StopStream(s) /\ UNCHANGED <<visitor, creating, net, missed, netChanges>>
            /\ t.socket = "opening"
        BY <2>7 DEF SocketConnects
      <3> HIDE DEF s
      <3>3. /\ t' \in Transports /\ t'.active = t.active /\ t'.socket = "connected"
            /\ t'.connecting = "no"
        BY <3>1, <3>2, StreamMethods
      <3> QED BY <3>2, <3>3
                 DEF TransportInv, WebTransportTypeOK, Transports,
                     ActiveIsVisitor,
                                Recovers
    <2>8. CASE SocketLost
      <3>1. /\ t' = Lost(t, t.active) /\ UNCHANGED <<visitor, creating, net, missed, netChanges>>
            /\ t.socket # "none"
        BY <2>8 DEF SocketLost
      <3>2. /\ t' \in Transports /\ t'.active = t.active /\ t'.socket = "none"
            /\ t'.connecting = "no" /\ t'.socketTimer = "yes"
        BY <2>0, <3>1, LostSchedules DEF Transports
      <3> QED BY <3>1, <3>2
                 DEF TransportInv, WebTransportTypeOK, Transports,
                     ActiveIsVisitor,
                                Recovers
    <2>9. CASE StreamFails \/ FallbackFires \/ StreamTimerFires \/ CooldownEnds
      <3>1. /\ UNCHANGED <<visitor, creating, net, missed, netChanges>>
            /\ t' \in Transports /\ t'.active = t.active /\ t'.socket = t.socket
            /\ t'.connecting = t.connecting /\ t'.socketTimer = t.socketTimer
        <4>1. CASE StreamFails
          <5>1. StopStream(t) \in Transports
            BY <2>0, StreamMethods
          <5> QED BY <2>0, <4>1, <5>1, StreamMethods DEF StreamFails
        <4>2. CASE FallbackFires
          <5>1. [t EXCEPT !.fallback = "no"] \in Transports
            BY <2>0 DEF Transports
          <5> QED BY <2>0, <4>2, <5>1, StreamMethods DEF FallbackFires, Transports
        <4>3. CASE StreamTimerFires
          <5>1. [t EXCEPT !.streamTimer = "no"] \in Transports
            BY <2>0 DEF Transports
          <5> QED BY <2>0, <4>3, <5>1, StreamMethods DEF StreamTimerFires, Transports
        <4>4. CASE CooldownEnds
          BY <2>0, <4>4 DEF CooldownEnds, Transports
        <4> QED BY <2>9, <4>1, <4>2, <4>3, <4>4
      <3> QED BY <3>1
                 DEF TransportInv, WebTransportTypeOK, Transports,
                     ActiveIsVisitor, Recovers
    <2>10. CASE SocketTimerFires
      <3> DEFINE s == [t EXCEPT !.socketTimer = "no"]
      <3>1. /\ s \in Transports /\ s.active = t.active /\ s.socket = t.socket
            /\ s.connecting = t.connecting /\ s.socketTimer = "no"
        BY <2>0 DEF Transports
      <3>2. /\ t.socketTimer = "yes"
            /\ IF Reachable
               THEN CreatesFor(s, t.active) /\ t' = Preferred(s) /\ UNCHANGED missed
               ELSE t' = s /\ missed' = "yes" /\ UNCHANGED creating
            /\ UNCHANGED <<visitor, net, netChanges>>
        BY <2>10 DEF SocketTimerFires
      <3> HIDE DEF s
      <3>3. t.active \in Visitors
        BY <2>0, <3>2 DEF TransportInv, ActiveIsVisitor, Transports
      <3>4. CASE Reachable
        <4>1. /\ t' \in Transports /\ t'.active = t.active /\ t'.socket = t.socket
              /\ t'.connecting = IF Creates(s) THEN "yes" ELSE t.connecting
              /\ t'.socketTimer = IF s.disabled = "yes" THEN "yes" ELSE "no"
          BY <3>1, <3>2, <3>4, PreferredTries
        <4>2. /\ creating' \in [Visitors -> 0..MaxAttempts]
              /\ creating'[t.active] >= creating[t.active]
              /\ Creates(s) => creating'[t.active] > 0
          BY <3>2, <3>3, <3>4 DEF CreatesFor, TransportInv, WebTransportTypeOK
        <4>3. Creates(s) \/ s.disabled = "yes" \/ t.connecting = "yes"
          BY <3>1, <3>4 DEF Creates, Transports
        <4>4. WebTransportTypeOK'
          BY <3>2, <3>4, <4>1, <4>2 DEF TransportInv, WebTransportTypeOK, Transports
        <4>5. creating[t.active] \in Nat /\ creating'[t.active] \in Nat
          BY <3>3, <4>2 DEF TransportInv, WebTransportTypeOK
        <4>6. t.connecting = "yes" => creating'[t.active] > 0
          BY <4>2, <4>5 DEF TransportInv, ActiveIsVisitor
        <4>7. ActiveIsVisitor' /\ Recovers'
          BY <3>2, <3>3, <4>1, <4>2, <4>3, <4>6
            DEF TransportInv, ActiveIsVisitor, Recovers, Transports
        <4> QED BY <4>4, <4>7 DEF TransportInv
      <3>5. CASE ~Reachable
        BY <3>1, <3>2, <3>5
           DEF TransportInv, WebTransportTypeOK, Transports, ActiveIsVisitor,
                                Recovers
      <3> QED BY <3>4, <3>5
    <2>11. CASE UNCHANGED webTransportVars
      BY <2>11
         DEF webTransportVars, TransportInv, WebTransportTypeOK, ActiveIsVisitor,
             Recovers
    <2> QED BY <2>1, <2>2, <2>3, <2>4, <2>5, <2>6, <2>7, <2>8, <2>9, <2>10, <2>11
              DEF WebTransportNext
  <1>3. TransportInv => WebTransportTypeOK /\ Recovers
    BY DEF TransportInv
  <1> QED BY <1>1, <1>2, <1>3, PTL DEF WebTransportSpec

HIDE WebTransportAssumption

-----------------------------------------------------------------------------
(* The inbox. What was deleted is in the tombstones, and no list of the    *)
(* page or the disk has it.                                                *)
USE TwinsAssumption

InboxInv == WebInboxTypeOK /\ DeletedStaysHidden

(* Rows that are deleted leave the lists and are remembered as deleted.    *)
LEMMA HideKeeps ==
  ASSUME InboxInv, NEW ms \in SUBSET InRows, Hide(ms),
         UNCHANGED <<unread, inDisk, editing, undone, reloads>>
  PROVE  InboxInv'
  <1>1. /\ inRow' \in [InRows -> Shown \cup {"absent", "deleted"}]
        /\ \A m \in ms : inRow'[m] \notin Shown
        /\ \A m \in InRows \ ms : inRow'[m] = inRow[m]
    BY DEF Hide, InboxInv, WebInboxTypeOK, Shown
  <1>2. WebInboxTypeOK'
    BY <1>1 DEF Hide, InboxInv, WebInboxTypeOK
  <1>3. DeletedStaysHidden'
    BY <1>1 DEF Hide, InboxInv, WebInboxTypeOK, DeletedStaysHidden
  <1> QED BY <1>2, <1>3 DEF InboxInv

(* A message that was not deleted is shown.                                *)
LEMMA InsertKeeps ==
  ASSUME InboxInv, NEW m \in InRows, m \notin tomb, NEW content \in {"text", "deleted"},
         NEW seen \in {"yes", "no"}, Insert(m, content, seen),
         UNCHANGED <<tomb, prints, inDisk, editing, undone, reloads>>
  PROVE  InboxInv'
  BY DEF Insert, InboxInv, WebInboxTypeOK, DeletedStaysHidden, Shown

(* A deleted message is shown again only by an undo (deleteMessageForMe,   *)
(* the tombstones and their fingerprints), for any messages, twins and     *)
(* number of reloads.                                                      *)
THEOREM DeletedStaysHiddenInvariant ==
  WebInboxSpec => [](WebInboxTypeOK /\ DeletedStaysHidden)
  <1>1. WebInboxInit => InboxInv
    BY DEF WebInboxInit, InboxInv, WebInboxTypeOK, DeletedStaysHidden, Empty
  <1>2. InboxInv /\ [WebInboxNext]_inVars => InboxInv'
    <2> SUFFICES ASSUME InboxInv, [WebInboxNext]_inVars PROVE InboxInv'
      OBVIOUS
    <2>1. ASSUME NEW m \in InRows, NEW seen \in {"yes", "no"}, ArrivesAlone(m, seen)
          PROVE  InboxInv'
      <3>1. CASE Hide({m}) /\ UNCHANGED unread
        BY <2>1, <3>1, HideKeeps DEF ArrivesAlone
      <3>2. CASE inRow[m] = "absent" /\ tomb' = tomb \cup {m}
                 /\ UNCHANGED <<inRow, unread, inDirty, prints>>
        BY <2>1, <3>2 DEF ArrivesAlone, InboxInv, WebInboxTypeOK, DeletedStaysHidden, Shown
      <3>3. CASE m \notin tomb /\ Insert(m, "text", seen) /\ UNCHANGED <<tomb, prints>>
        BY <2>1, <3>3, InsertKeeps DEF ArrivesAlone
      <3> QED BY <2>1, <3>1, <3>2, <3>3 DEF ArrivesAlone
    <2>2. ASSUME NEW m \in InRows, NEW seen \in {"yes", "no"},
                 NEW content \in {"text", "deleted"}, ArrivesInBulk(m, seen, content)
          PROVE  InboxInv'
      <3>1. CASE /\ m \in tomb
                 /\ inRow' = [inRow EXCEPT ![m] = "deleted"]
                 /\ prints' = IF inRow[m] \in Shown THEN prints \cup {m} ELSE prints
                 /\ inDirty' = IF inRow[m] = "deleted" THEN inDirty ELSE "yes"
                 /\ UNCHANGED <<unread, tomb>>
        BY <2>2, <3>1 DEF ArrivesInBulk, InboxInv, WebInboxTypeOK, DeletedStaysHidden, Shown
      <3>2. CASE inRow[m] = "absent" /\ tomb' = tomb \cup {m}
                 /\ UNCHANGED <<inRow, unread, inDirty, prints>>
        BY <2>2, <3>2 DEF ArrivesInBulk, InboxInv, WebInboxTypeOK, DeletedStaysHidden, Shown
      <3>3. CASE m \notin tomb /\ Insert(m, content, seen) /\ UNCHANGED <<tomb, prints>>
        BY <2>2, <3>3, InsertKeeps DEF ArrivesInBulk
      <3> QED BY <2>2, <3>1, <3>2, <3>3 DEF ArrivesInBulk
    <2>3. ASSUME NEW m \in InRows, EditArrives(m) PROVE InboxInv'
      BY <2>3 DEF EditArrives, Edited, InboxInv, WebInboxTypeOK, DeletedStaysHidden, Shown
    <2>4. ASSUME NEW ms \in SUBSET InRows, DeleteArrives(ms) PROVE InboxInv'
      BY <2>4, HideKeeps DEF DeleteArrives
    <2>5. ASSUME NEW o \in Own, EditOwn(o) PROVE InboxInv'
      BY <2>5
         DEF EditOwn, Edited, InboxInv, WebInboxTypeOK, DeletedStaysHidden,
             Shown, InRows
    <2>6. ASSUME NEW o \in Own, NEW outcome \in {"ok", "failed"}, EditOwnEnds(o, outcome)
          PROVE  InboxInv'
      <3>1. CASE UNCHANGED <<inRow, inDirty, undone>>
        BY <2>6, <3>1 DEF EditOwnEnds, InboxInv, WebInboxTypeOK, DeletedStaysHidden
      \* Over a row that is deleted the text comes back; else it was shown before.
      <3>2. CASE /\ inRow[o] # "absent"
                 /\ inRow' = [inRow EXCEPT ![o] = editing[o]] /\ inDirty' = "yes"
                 /\ undone' = IF inRow[o] = "deleted" THEN undone \cup {o} ELSE undone
        <4>1. o \in InRows /\ editing[o] \in Shown
          BY <2>6 DEF EditOwnEnds, InboxInv, WebInboxTypeOK, InRows
        <4>2. /\ editing' = [editing EXCEPT ![o] = "none"]
              /\ UNCHANGED <<unread, inDisk, tomb, prints, reloads>>
          BY <2>6 DEF EditOwnEnds
        <4>3. WebInboxTypeOK'
          BY <3>2, <4>1, <4>2 DEF InboxInv, WebInboxTypeOK
        <4>4. DeletedStaysHidden'
          BY <3>2, <4>1, <4>2 DEF InboxInv, WebInboxTypeOK, DeletedStaysHidden
        <4> QED BY <4>3, <4>4 DEF InboxInv
      <3> QED BY <2>6, <3>1, <3>2 DEF EditOwnEnds
    <2>7. ASSUME NEW o \in Own, DeleteOwn(o) PROVE InboxInv'
      BY <2>7, HideKeeps DEF DeleteOwn, InRows
    <2>8. ASSUME NEW o \in Own, SendOwn(o) PROVE InboxInv'
      BY <2>8, InsertKeeps DEF SendOwn, InRows
    <2>9. CASE ClearUnread \/ InboxPersistState
      BY <2>9
         DEF ClearUnread, InboxPersistState, InboxInv, WebInboxTypeOK,
             DeletedStaysHidden
    <2>10. CASE InboxReloadPage \/ SuppressionsExpire \/ InboxClearAll
      BY <2>10
         DEF InboxReloadPage, SuppressionsExpire, InboxClearAll, InboxInv,
             WebInboxTypeOK,
                   DeletedStaysHidden, Empty
    <2>11. CASE UNCHANGED inVars
      BY <2>11 DEF inVars, InboxInv, WebInboxTypeOK, DeletedStaysHidden
    <2> QED BY <2>1, <2>2, <2>3, <2>4, <2>5, <2>6, <2>7, <2>8, <2>9, <2>10, <2>11
              DEF WebInboxNext
  <1>3. InboxInv => WebInboxTypeOK /\ DeletedStaysHidden
    BY DEF InboxInv
  <1> QED BY <1>1, <1>2, <1>3, PTL DEF WebInboxSpec

HIDE TwinsAssumption

-----------------------------------------------------------------------------
(* The outbox. What a flush loaded, what the page shows as queued and what *)
(* the disk may bring back is all accounted for.                           *)
USE AttemptsAssumption

\* What QueuedIsKept asks of a row that is queued.
ToldServer == server \cup handed \cup gone
Accounted == QueuedIn(outbox) \cup ToldServer \cup erased

\* What a flush loaded is accounted for, now and when the flush ends.
FlushesAccount == \A f \in OutboxFlushes :
    /\ QueuedIn(outFlush[f].loaded) \subseteq Accounted
    /\ outFlush[f].left \cup QueuedIn(outFlush[f].next) \subseteq QueuedIn(outFlush[f].loaded)
    /\ QueuedIn(outFlush[f].loaded) \subseteq
          outFlush[f].left \cup QueuedIn(outFlush[f].next) \cup ToldServer

\* What the disk may bring back is accounted for, and nobody sees a row after
\* the logout.
RowsAccounted ==
    /\ \A m \in OutMessages : "queued" \in {outRow[m], outDisk[m]} => m \in Accounted
    /\ session = "closed" => \A m \in OutMessages : outRow[m] = "none"

WebOutboxInv == WebOutboxTypeOK /\ FlushesAccount /\ RowsAccounted

OutboxFlushRecords ==
    [state : {"idle", "flush", "wipe"}, left : SUBSET OutMessages,
     loaded : [OutMessages -> 0..MaxSendAttempts], next : [OutMessages -> 0..MaxSendAttempts]]

(* A status goes on to the new one or stays.                               *)
LEMMA BecomesOneOf ==
  ASSUME NEW from \in Statuses, NEW to \in Statuses
  PROVE  /\ Becomes(from, to) \in {from, to} /\ Becomes(from, to) \in Statuses
         /\ from = "none" => Becomes(from, to) = "none"
  BY DEF Becomes, Statuses

(* The empty outbox and the flush at rest.                                 *)
LEMMA NothingIsQueued ==
  /\ NothingQueued \in [OutMessages -> 0..MaxSendAttempts] /\ QueuedIn(NothingQueued) = {}
  /\ NoOutboxFlush \in OutboxFlushRecords
  /\ NoOutboxFlush.left = {} /\ NoOutboxFlush.loaded = NothingQueued
  /\ NoOutboxFlush.next = NothingQueued
  BY DEF NothingQueued, QueuedIn, NoOutboxFlush, OutboxFlushRecords

(* One item of the outbox is set to a number of attempts.                  *)
LEMMA QueuedAt ==
  ASSUME NEW items \in [OutMessages -> 0..MaxSendAttempts], NEW m \in OutMessages,
         NEW n \in 0..MaxSendAttempts
  PROVE  /\ [items EXCEPT ![m] = n] \in [OutMessages -> 0..MaxSendAttempts]
         /\ n < MaxSendAttempts => QueuedIn([items EXCEPT ![m] = n]) = QueuedIn(items) \cup {m}
         /\ n = MaxSendAttempts => QueuedIn([items EXCEPT ![m] = n]) = QueuedIn(items) \ {m}
  BY DEF QueuedIn

(* A step of a flush, or of none, beside the rows.                         *)
LEMMA RowsKeep ==
  ASSUME WebOutboxInv, WebOutboxTypeOK', FlushesAccount', Accounted \subseteq Accounted',
         \A m \in OutMessages :
            /\ outRow'[m] = "queued" => "queued" \in {outRow[m], outDisk[m]} \/ m \in Accounted'
            /\ outDisk'[m] = "queued" => "queued" \in {outRow[m], outDisk[m]},
         session' = "closed" => \A m \in OutMessages : outRow'[m] = "none"
  PROVE  WebOutboxInv'
  BY DEF WebOutboxInv, RowsAccounted

(* A step that touches a flush only to end it.                             *)
LEMMA FlushesKeep ==
  ASSUME WebOutboxInv, Accounted \subseteq Accounted', ToldServer \subseteq ToldServer',
         \A f \in OutboxFlushes : outFlush'[f] \in {outFlush[f], NoOutboxFlush}
  PROVE  FlushesAccount'
  BY NothingIsQueued DEF WebOutboxInv, FlushesAccount

(* The new status of one row.                                              *)
LEMMA StatusSet ==
  ASSUME WebOutboxInv, NEW m \in OutMessages, NEW status \in Statuses, SetStatus(m, status)
  PROVE  /\ outRow' \in [OutMessages -> Statuses] /\ outDirty' = "yes"
         /\ \A q \in OutMessages \ {m} : outRow'[q] = outRow[q]
         /\ outRow'[m] \in {outRow[m], status}
         /\ \A q \in OutMessages : outRow[q] = "none" => outRow'[q] = "none"
  <1>1. outRow \in [OutMessages -> Statuses] /\ outRow[m] \in Statuses
    BY DEF WebOutboxInv, WebOutboxTypeOK
  <1>2. outRow' = [outRow EXCEPT ![m] = Becomes(outRow[m], status)] /\ outDirty' = "yes"
    BY DEF SetStatus
  <1> QED BY <1>1, <1>2, BecomesOneOf

(* A row shown as queued is in the outbox, was told to the server or given *)
(* up, or its row was erased (enqueueOutbox, flushOutbox), for any         *)
(* messages, flushes and number of attempts.                               *)
THEOREM QueuedIsKeptInvariant ==
  WebOutboxSpec => [](WebOutboxTypeOK /\ QueuedIsKept)
  <1>1. WebOutboxInit => WebOutboxInv
    <2> SUFFICES ASSUME WebOutboxInit PROVE WebOutboxInv
      OBVIOUS
    <2>1. NoOutRows \in [OutMessages -> Statuses] /\ \A m \in OutMessages : NoOutRows[m] = "none"
      BY DEF NoOutRows, Statuses
    <2>2. WebOutboxTypeOK
      BY <2>1, NothingIsQueued DEF WebOutboxInit, WebOutboxTypeOK, OutboxFlushRecords
    <2>3. FlushesAccount
      BY NothingIsQueued DEF WebOutboxInit, FlushesAccount
    <2>4. RowsAccounted
      BY <2>1 DEF WebOutboxInit, RowsAccounted
    <2> QED BY <2>2, <2>3, <2>4 DEF WebOutboxInv
  <1>2. WebOutboxInv /\ [WebOutboxNext]_outVars => WebOutboxInv'
    <2> SUFFICES ASSUME WebOutboxInv, [WebOutboxNext]_outVars PROVE WebOutboxInv'
      OBVIOUS
    <2>0. /\ WebOutboxTypeOK
          /\ \A f \in OutboxFlushes : outFlush[f] \in OutboxFlushRecords
          /\ outRow \in [OutMessages -> Statuses] /\ outDisk \in [OutMessages -> Statuses]
          /\ outbox \in [OutMessages -> 0..MaxSendAttempts]
          /\ outFlush \in [OutboxFlushes -> OutboxFlushRecords]
      BY DEF WebOutboxInv, WebOutboxTypeOK, OutboxFlushRecords
    <2>1. ASSUME NEW m \in OutMessages
          PROVE  /\ [outbox EXCEPT ![m] = 0] \in [OutMessages -> 0..MaxSendAttempts]
                 /\ QueuedIn([outbox EXCEPT ![m] = 0]) = QueuedIn(outbox) \cup {m}
      <3>1. 0 \in 0..MaxSendAttempts /\ 0 < MaxSendAttempts
        OBVIOUS
      <3> QED BY <2>0, <3>1, QueuedAt
    <2>2. session = "closed" => \A m \in OutMessages : outRow[m] = "none"
      BY DEF WebOutboxInv, RowsAccounted
    <2>3. ASSUME NEW m \in OutMessages, NEW online \in {"yes", "no"}, Dispatch(m, online)
          PROVE  WebOutboxInv'
      <3>1. /\ session = "open" /\ outDirty' = "yes"
            /\ UNCHANGED <<session, outDisk, outFlush, server, handed, gone, erased, restarts>>
            /\ \/ /\ outRow' = [outRow EXCEPT ![m] = "queued"]
                  /\ outbox' = [outbox EXCEPT ![m] = 0] /\ sending' = sending
               \/ /\ outRow' = [outRow EXCEPT ![m] = "pending"]
                  /\ outbox' = outbox /\ sending' = sending \cup {m}
        BY <2>3 DEF Dispatch
      <3>2. /\ outRow' \in [OutMessages -> Statuses]
            /\ outbox' \in [OutMessages -> 0..MaxSendAttempts]
            /\ sending' \subseteq OutMessages
            /\ QueuedIn(outbox) \subseteq QueuedIn(outbox')
            /\ \A q \in OutMessages : outRow'[q] = "queued" => outRow[q] = "queued"
                                                              \/ q \in QueuedIn(outbox')
        <4>1. CASE outRow' = [outRow EXCEPT ![m] = "queued"] /\ sending' = sending
                   /\ outbox' = [outbox EXCEPT ![m] = 0]
          <5>1. outRow' \in [OutMessages -> Statuses] /\ sending' \subseteq OutMessages
            BY <2>0, <4>1 DEF Statuses, WebOutboxTypeOK
          <5>2. \A q \in OutMessages : outRow'[q] = "queued" => outRow[q] = "queued" \/ q = m
            BY <2>0, <4>1
          <5>3. /\ outbox' \in [OutMessages -> 0..MaxSendAttempts]
                /\ QueuedIn(outbox') = QueuedIn(outbox) \cup {m}
            BY <2>1, <4>1
          <5> QED BY <5>1, <5>2, <5>3
        <4>2. CASE outRow' = [outRow EXCEPT ![m] = "pending"] /\ outbox' = outbox
                   /\ sending' = sending \cup {m}
          BY <2>0, <4>2 DEF Statuses, WebOutboxTypeOK
        <4> QED BY <3>1, <4>1, <4>2
      <3>3. WebOutboxTypeOK'
        BY <2>0, <3>1, <3>2 DEF WebOutboxTypeOK
      <3>4. Accounted \subseteq Accounted' /\ ToldServer' = ToldServer
        BY <3>1, <3>2 DEF Accounted, ToldServer
      <3>5. FlushesAccount'
        BY <3>1, <3>4, FlushesKeep
      <3> QED BY <3>1, <3>2, <3>3, <3>4, <3>5, RowsKeep DEF Accounted
    \* The request of a message is answered, for a flush or for itself.
    <2>4. ASSUME NEW m \in OutMessages, NEW by \in {"server", "worker"}, Answered(m, by)
          PROVE  /\ outRow' \in [OutMessages -> Statuses] /\ outDirty' = "yes"
                 /\ server' \subseteq OutMessages /\ handed' \subseteq OutMessages
                 /\ server \subseteq server' /\ handed \subseteq handed'
                 /\ m \in server' \cup handed'
                 /\ \A q \in OutMessages : outRow'[q] = "queued" => outRow[q] = "queued"
                 /\ \A q \in OutMessages : outRow[q] = "none" => outRow'[q] = "none"
      <3>1. SetStatus(m, "sent") /\ "sent" \in Statuses
        BY <2>4 DEF Answered, Statuses
      <3>2. /\ outRow' \in [OutMessages -> Statuses] /\ outDirty' = "yes"
            /\ \A q \in OutMessages \ {m} : outRow'[q] = outRow[q]
            /\ outRow'[m] \in {outRow[m], "sent"}
            /\ \A q \in OutMessages : outRow[q] = "none" => outRow'[q] = "none"
        BY <3>1, StatusSet
      <3>3. /\ server' \subseteq OutMessages /\ handed' \subseteq OutMessages
            /\ server \subseteq server' /\ handed \subseteq handed' /\ m \in server' \cup handed'
        BY <2>0, <2>4 DEF Answered, WebOutboxTypeOK
      <3> QED BY <3>2, <3>3
    <2>5. ASSUME NEW m \in OutMessages, NEW by \in {"server", "worker"}, SendSucceeds(m, by)
          PROVE  WebOutboxInv'
      <3>1. /\ Answered(m, by) /\ sending' = sending \ {m}
            /\ UNCHANGED <<session, outDisk, outbox, outFlush, gone, erased, restarts>>
        BY <2>5 DEF SendSucceeds
      <3>2. WebOutboxTypeOK'
        BY <2>0, <2>4, <3>1 DEF WebOutboxTypeOK
      <3>3. Accounted \subseteq Accounted' /\ ToldServer \subseteq ToldServer'
        BY <2>4, <3>1 DEF Accounted, ToldServer
      <3>4. FlushesAccount'
        BY <3>1, <3>3, FlushesKeep
      <3> QED BY <2>2, <2>4, <3>1, <3>2, <3>3, <3>4, RowsKeep
    <2>6. ASSUME NEW m \in OutMessages, SendFails(m) PROVE WebOutboxInv'
      <3>1. /\ SetStatus(m, "queued") /\ "queued" \in Statuses /\ sending' = sending \ {m}
            /\ outbox' = IF session = "open" THEN [outbox EXCEPT ![m] = 0] ELSE outbox
            /\ server \subseteq server' /\ server' \subseteq OutMessages
            /\ UNCHANGED <<session, outDisk, outFlush, handed, gone, erased, restarts>>
        BY <2>0, <2>6 DEF SendFails, MaybeAccepted, Statuses, WebOutboxTypeOK
      <3>2. /\ outRow' \in [OutMessages -> Statuses] /\ outDirty' = "yes"
            /\ \A q \in OutMessages \ {m} : outRow'[q] = outRow[q]
            /\ outRow'[m] \in {outRow[m], "queued"}
            /\ \A q \in OutMessages : outRow[q] = "none" => outRow'[q] = "none"
        BY <3>1, StatusSet
      <3>3. /\ outbox' \in [OutMessages -> 0..MaxSendAttempts]
            /\ QueuedIn(outbox) \subseteq QueuedIn(outbox')
            /\ session = "open" => m \in QueuedIn(outbox')
        <4>1. CASE session = "open"
          BY <2>1, <3>1, <4>1
        <4>2. CASE session # "open"
          BY <2>0, <3>1, <4>2
        <4> QED BY <4>1, <4>2
      <3>4. WebOutboxTypeOK'
        BY <2>0, <3>1, <3>2, <3>3 DEF WebOutboxTypeOK
      <3>5. Accounted \subseteq Accounted' /\ ToldServer \subseteq ToldServer'
        BY <3>1, <3>3 DEF Accounted, ToldServer
      <3>6. FlushesAccount'
        BY <3>1, <3>5, FlushesKeep
      <3>7. ASSUME NEW q \in OutMessages, outRow'[q] = "queued"
            PROVE  outRow[q] = "queued" \/ q \in Accounted'
        <4>1. CASE q = m /\ session = "open"
          BY <3>3, <4>1 DEF Accounted
        <4>2. CASE q = m /\ session # "open"
          <5>1. outRow'[m] = "none"
            BY <2>0, <2>2, <3>2, <4>2 DEF WebOutboxTypeOK
          <5> QED BY <3>7, <4>2, <5>1
        <4>3. CASE q # m
          BY <3>2, <3>7, <4>3
        <4> QED BY <4>1, <4>2, <4>3
      <3> QED BY <2>2, <3>1, <3>2, <3>4, <3>5, <3>6, <3>7, RowsKeep
    \* Steps that change neither an item nor a flush.
    <2>7. ASSUME WebOutboxTypeOK', UNCHANGED <<outbox, outFlush, handed, gone, erased>>,
                 server \subseteq server',
                 \A m \in OutMessages :
                    /\ outRow'[m] = "queued" => "queued" \in {outRow[m], outDisk[m]}
                    /\ outDisk'[m] = "queued" => "queued" \in {outRow[m], outDisk[m]},
                 session' = "closed" => \A m \in OutMessages : outRow'[m] = "none"
          PROVE  WebOutboxInv'
      <3>1. Accounted \subseteq Accounted' /\ ToldServer \subseteq ToldServer'
        BY <2>7 DEF Accounted, ToldServer
      <3>2. FlushesAccount'
        BY <2>7, <3>1, FlushesKeep
      <3> QED BY <2>7, <3>1, <3>2, RowsKeep
    <2>8. ASSUME NEW m \in OutMessages, NEW status \in {"delivered", "read"},
                 WorkerDelivers(m) \/ RecoverFromLogs(m) \/ Receipt(m, status)
          PROVE  WebOutboxInv'
      <3>1. /\ UNCHANGED <<session, outDisk, outbox, sending, outFlush, handed, gone, erased,
                           restarts>>
            /\ server \subseteq server' /\ server' \subseteq OutMessages
            /\ outDirty' \in {"yes", "no"}
            /\ \/ outRow' = outRow
               \/ session = "open" /\ outRow' = [outRow EXCEPT ![m] = "delivered"]
               \/ session = "open" /\ outRow' = [outRow EXCEPT ![m] = "read"]
        BY <2>0, <2>8 DEF WorkerDelivers, RecoverFromLogs, Receipt, WebOutboxTypeOK
      <3>2. /\ outRow' \in [OutMessages -> Statuses]
            /\ \A q \in OutMessages : outRow'[q] = "queued" => outRow[q] = "queued"
            /\ session = "closed" => outRow' = outRow
        BY <2>0, <3>1 DEF Statuses
      <3>3. WebOutboxTypeOK'
        BY <2>0, <3>1, <3>2 DEF WebOutboxTypeOK
      <3> QED BY <2>2, <2>7, <3>1, <3>2, <3>3
    <2>9. CASE OutboxPersistState \/ OutboxLogout
      <3>1. /\ outRow' \in {outRow, NoOutRows} /\ outDisk' \in {outDisk, outRow}
            /\ \A q \in OutMessages : NoOutRows[q] = "none"
            /\ NoOutRows \in [OutMessages -> Statuses]
            /\ session' = "closed" => outRow' = NoOutRows \/ (session = "closed" /\ outRow' = outRow)
            /\ UNCHANGED <<outbox, sending, outFlush, server, handed, gone, erased>>
            /\ session' \in {"open", "closed"} /\ outDirty' \in {"yes", "no"}
            /\ restarts' \in 0..MaxRestarts
        <4>1. /\ \A q \in OutMessages : NoOutRows[q] = "none"
              /\ NoOutRows \in [OutMessages -> Statuses]
          BY DEF NoOutRows, Statuses
        <4>2. CASE OutboxPersistState
          BY <2>0, <4>1, <4>2 DEF OutboxPersistState, WebOutboxTypeOK
        <4>3. CASE OutboxLogout
          BY <2>0, <4>1, <4>3 DEF OutboxLogout, WebOutboxTypeOK
        <4> QED BY <2>9, <4>2, <4>3
      <3>2. WebOutboxTypeOK'
        BY <2>0, <3>1 DEF WebOutboxTypeOK
      <3> QED BY <2>2, <2>7, <3>1, <3>2
    <2>10. CASE OutboxReloadPage \/ OutboxLogin
      <3>1. /\ session' = "open" /\ outRow' \in {outDisk, NoOutRows}
            /\ outDisk' \in {outDisk, NoOutRows}
            /\ \A q \in OutMessages : NoOutRows[q] = "none"
            /\ NoOutRows \in [OutMessages -> Statuses]
            /\ \/ outbox' = outbox /\ gone' = gone
               \/ outbox' = NothingQueued /\ gone' = gone \cup QueuedIn(outbox)
            /\ \A f \in OutboxFlushes : outFlush'[f] \in {outFlush[f], NoOutboxFlush}
            /\ outFlush' \in [OutboxFlushes -> OutboxFlushRecords]
            /\ server \subseteq server' /\ sending' \subseteq OutMessages
            /\ restarts' \in 0..MaxRestarts /\ outDirty' \in {"yes", "no"}
            /\ UNCHANGED <<handed, erased>>
        BY <2>0, <2>10, NothingIsQueued
           DEF OutboxReloadPage, OutboxLogin, NoOutRows, Statuses,
               MaybeAccepted, WebOutboxTypeOK
      <3>2. server' \subseteq OutMessages /\ QueuedIn(outbox) \subseteq OutMessages
        <4>1. QueuedIn(outbox) \subseteq OutMessages
          BY DEF QueuedIn
        <4>2. \A f \in OutboxFlushes : outFlush[f].left \subseteq OutMessages
          BY <2>0 DEF OutboxFlushRecords
        <4>3. sending \cup UNION {outFlush[f].left : f \in OutboxFlushes} \subseteq OutMessages
          BY <2>0, <4>2 DEF WebOutboxTypeOK
        <4>4. CASE OutboxReloadPage
          BY <2>0, <4>1, <4>3, <4>4 DEF OutboxReloadPage, MaybeAccepted, WebOutboxTypeOK
        <4>5. CASE OutboxLogin
          BY <2>0, <4>1, <4>5 DEF OutboxLogin, WebOutboxTypeOK
        <4> QED BY <2>10, <4>4, <4>5
      <3>3. WebOutboxTypeOK'
        BY <2>0, <3>1, <3>2, NothingIsQueued DEF WebOutboxTypeOK, OutboxFlushRecords
      <3>4. Accounted \subseteq Accounted' /\ ToldServer \subseteq ToldServer'
        BY <3>1 DEF Accounted, ToldServer
      <3>5. FlushesAccount'
        BY <3>1, <3>4, FlushesKeep
      <3> QED BY <3>1, <3>3, <3>4, <3>5, RowsKeep
    <2>11. ASSUME NEW f \in OutboxFlushes, NEW purpose \in {"flush", "wipe"},
                  StartOutboxFlush(f, purpose)
           PROVE  WebOutboxInv'
      <3> DEFINE u == [state |-> purpose, left |-> QueuedIn(outbox), loaded |-> outbox,
                       next |-> NothingQueued]
      <3>1. u \in OutboxFlushRecords
        BY <2>0, NothingIsQueued DEF OutboxFlushRecords, QueuedIn
      <3>2. u.left = QueuedIn(outbox) /\ u.loaded = outbox /\ u.next = NothingQueued
        OBVIOUS
      <3>3. /\ outFlush' = [outFlush EXCEPT ![f] = u]
            /\ UNCHANGED <<session, outRow, outDisk, outDirty, outbox, sending, server, handed,
                           gone, erased, restarts>>
        BY <2>11 DEF StartOutboxFlush
      <3> HIDE DEF u
      <3>4. /\ outFlush'[f] = u /\ \A g \in OutboxFlushes \ {f} : outFlush'[g] = outFlush[g]
            /\ outFlush' \in [OutboxFlushes -> OutboxFlushRecords]
        BY <2>0, <3>1, <3>3
      <3>5. WebOutboxTypeOK'
        BY <2>0, <3>3, <3>4 DEF WebOutboxTypeOK, OutboxFlushRecords
      <3>6. Accounted' = Accounted /\ ToldServer' = ToldServer /\ QueuedIn(outbox) \subseteq Accounted
        BY <3>3 DEF Accounted, ToldServer
      <3>7. FlushesAccount'
        BY <3>2, <3>4, <3>6, NothingIsQueued DEF WebOutboxInv, FlushesAccount
      <3> QED BY <2>2, <3>3, <3>5, <3>6, <3>7, RowsKeep
    <2>12. ASSUME NEW f \in OutboxFlushes, NEW m \in OutMessages, NEW by \in {"server", "worker"},
                  FlushedOne(f, m, by)
           PROVE  WebOutboxInv'
      <3> DEFINE u == [outFlush[f] EXCEPT !.left = outFlush[f].left \ {m}]
      <3>1. /\ u \in OutboxFlushRecords /\ u.left = outFlush[f].left \ {m}
            /\ u.loaded = outFlush[f].loaded /\ u.next = outFlush[f].next
        BY <2>0 DEF OutboxFlushRecords
      <3>2. /\ outFlush' = [outFlush EXCEPT ![f] = u] /\ Answered(m, by)
            /\ UNCHANGED <<session, outDisk, outbox, sending, gone, erased, restarts>>
        BY <2>12 DEF FlushedOne
      <3> HIDE DEF u
      <3>3. /\ outFlush'[f] = u /\ \A g \in OutboxFlushes \ {f} : outFlush'[g] = outFlush[g]
            /\ outFlush' \in [OutboxFlushes -> OutboxFlushRecords]
        BY <2>0, <3>1, <3>2
      <3>4. WebOutboxTypeOK'
        BY <2>0, <2>4, <3>2, <3>3 DEF WebOutboxTypeOK, OutboxFlushRecords
      <3>5. Accounted \subseteq Accounted' /\ ToldServer \subseteq ToldServer' /\ m \in ToldServer'
        BY <2>4, <3>2 DEF Accounted, ToldServer
      <3>6. FlushesAccount'
        BY <3>1, <3>3, <3>5 DEF WebOutboxInv, FlushesAccount
      <3> QED BY <2>2, <2>4, <3>2, <3>4, <3>5, <3>6, RowsKeep
    <2>13. ASSUME NEW f \in OutboxFlushes, NEW m \in OutMessages, FailedOne(f, m)
           PROVE  WebOutboxInv'
      <3> DEFINE n == outFlush[f].loaded[m] + 1
                 next == [outFlush[f].next EXCEPT ![m] = n]
                 status == IF n = MaxSendAttempts THEN "failed" ELSE "queued"
                 u == [outFlush[f] EXCEPT !.left = outFlush[f].left \ {m}, !.next = next]
      <3>1. m \in QueuedIn(outFlush[f].loaded)
        BY <2>13 DEF FailedOne, WebOutboxInv, FlushesAccount
      <3>2. outFlush[f].loaded \in [OutMessages -> 0..MaxSendAttempts]
            /\ outFlush[f].next \in [OutMessages -> 0..MaxSendAttempts]
        BY <2>0 DEF OutboxFlushRecords
      <3>3. outFlush[f].loaded[m] \in 0..MaxSendAttempts /\ outFlush[f].loaded[m] < MaxSendAttempts
        BY <3>1, <3>2 DEF QueuedIn
      <3>4. n \in 0..MaxSendAttempts /\ (n = MaxSendAttempts \/ n < MaxSendAttempts)
        BY <3>3
      <3>5. /\ outFlush' = [outFlush EXCEPT ![f] = u]
            /\ SetStatus(m, status) /\ status \in Statuses
            /\ gone' = IF n = MaxSendAttempts THEN gone \cup {m} ELSE gone
            /\ server \subseteq server' /\ server' \subseteq OutMessages
            /\ UNCHANGED <<session, outDisk, outbox, sending, handed, erased, restarts>>
        <4>1. /\ outFlush' = [outFlush EXCEPT ![f].left = @ \ {m}, ![f].next[m] = n]
              /\ SetStatus(m, status) /\ MaybeAccepted({m})
              /\ gone' = IF n = MaxSendAttempts THEN gone \cup {m} ELSE gone
              /\ UNCHANGED <<session, outDisk, outbox, sending, handed, erased, restarts>>
          BY <2>13 DEF FailedOne
        <4>2. outFlush' = [outFlush EXCEPT ![f] = u]
          <5> HIDE DEF n
          <5> QED BY <2>0, <4>1
        <4> QED BY <2>0, <4>1, <4>2 DEF MaybeAccepted, WebOutboxTypeOK, Statuses
      <3> HIDE DEF n
      <3>6. /\ next \in [OutMessages -> 0..MaxSendAttempts]
            /\ n < MaxSendAttempts => QueuedIn(next) = QueuedIn(outFlush[f].next) \cup {m}
            /\ n = MaxSendAttempts => QueuedIn(next) = QueuedIn(outFlush[f].next) \ {m}
        BY <3>2, <3>4, QueuedAt
      <3> HIDE DEF next
      <3>7. /\ u \in OutboxFlushRecords /\ u.left = outFlush[f].left \ {m}
            /\ u.loaded = outFlush[f].loaded /\ u.next = next
        BY <2>0, <3>6 DEF OutboxFlushRecords
      <3> HIDE DEF u
      <3>8. /\ outFlush'[f] = u /\ \A g \in OutboxFlushes \ {f} : outFlush'[g] = outFlush[g]
            /\ outFlush' \in [OutboxFlushes -> OutboxFlushRecords]
        BY <2>0, <3>5, <3>7
      <3>9. /\ outRow' \in [OutMessages -> Statuses] /\ outDirty' = "yes"
            /\ \A q \in OutMessages \ {m} : outRow'[q] = outRow[q]
            /\ \A q \in OutMessages : outRow[q] = "none" => outRow'[q] = "none"
        BY <3>5, StatusSet
      <3>10. gone \subseteq gone' /\ gone' \subseteq OutMessages
        BY <2>0, <3>5 DEF WebOutboxTypeOK
      <3>11. WebOutboxTypeOK'
        BY <2>0, <3>5, <3>8, <3>9, <3>10 DEF WebOutboxTypeOK, OutboxFlushRecords
      <3>12. Accounted \subseteq Accounted' /\ ToldServer \subseteq ToldServer'
        BY <3>5, <3>10 DEF Accounted, ToldServer
      <3>13. m \in Accounted /\ (n = MaxSendAttempts => m \in ToldServer')
        BY <3>1, <3>5 DEF WebOutboxInv, FlushesAccount, ToldServer
      <3>14. FlushesAccount'
        BY <3>1, <3>4, <3>6, <3>7, <3>8, <3>12, <3>13 DEF WebOutboxInv, FlushesAccount
      <3> QED BY <2>2, <3>5, <3>9, <3>11, <3>12, <3>13, <3>14, RowsKeep
    <2>14. ASSUME NEW f \in OutboxFlushes, EndOutboxFlush(f) PROVE WebOutboxInv'
      <3>1. /\ outFlush[f].left = {} /\ outbox' = outFlush[f].next
            /\ erased' = erased \cup (QueuedIn(outbox) \ QueuedIn(outFlush[f].loaded))
            /\ outFlush' = [outFlush EXCEPT ![f] = NoOutboxFlush] /\ outDirty' = "yes"
            /\ UNCHANGED <<session, outRow, outDisk, sending, server, handed, gone, restarts>>
        BY <2>14 DEF EndOutboxFlush
      <3>2. /\ \A g \in OutboxFlushes : outFlush'[g] \in {outFlush[g], NoOutboxFlush}
            /\ outFlush' \in [OutboxFlushes -> OutboxFlushRecords]
            /\ outbox' \in [OutMessages -> 0..MaxSendAttempts]
        BY <2>0, <3>1, NothingIsQueued DEF OutboxFlushRecords
      <3>3. erased' \subseteq OutMessages
        BY <2>0, <3>1 DEF WebOutboxTypeOK, QueuedIn
      <3>4. WebOutboxTypeOK'
        BY <2>0, <3>1, <3>2, <3>3 DEF WebOutboxTypeOK, OutboxFlushRecords
      <3>5. Accounted \subseteq Accounted' /\ ToldServer' = ToldServer
        BY <3>1 DEF WebOutboxInv, FlushesAccount, Accounted, ToldServer
      <3>6. FlushesAccount'
        BY <3>2, <3>5, FlushesKeep
      <3> QED BY <2>2, <3>1, <3>4, <3>5, <3>6, RowsKeep
    <2>15. ASSUME NEW f \in OutboxFlushes, EndFullSync(f) PROVE WebOutboxInv'
      <3>1. /\ gone' = gone \cup QueuedIn(outbox) \cup QueuedIn(outFlush[f].next)
            /\ outbox' = NothingQueued /\ outRow' = NoOutRows /\ outDisk' = NoOutRows
            /\ outFlush' = [outFlush EXCEPT ![f] = NoOutboxFlush]
            /\ UNCHANGED <<session, outDirty, sending, server, handed, erased, restarts>>
        BY <2>15 DEF EndFullSync
      <3>2. /\ \A g \in OutboxFlushes : outFlush'[g] \in {outFlush[g], NoOutboxFlush}
            /\ outFlush' \in [OutboxFlushes -> OutboxFlushRecords]
            /\ outRow' \in [OutMessages -> Statuses] /\ \A m \in OutMessages : outRow'[m] = "none"
        BY <2>0, <3>1, NothingIsQueued DEF NoOutRows, Statuses
      <3>3. gone' \subseteq OutMessages
        BY <2>0, <3>1 DEF WebOutboxTypeOK, QueuedIn
      <3>4. WebOutboxTypeOK'
        BY <2>0, <3>1, <3>2, <3>3, NothingIsQueued DEF WebOutboxTypeOK, OutboxFlushRecords
      <3>5. Accounted \subseteq Accounted' /\ ToldServer \subseteq ToldServer'
        BY <3>1 DEF Accounted, ToldServer
      <3>6. FlushesAccount'
        BY <3>2, <3>5, FlushesKeep
      <3> QED BY <3>1, <3>2, <3>4, <3>5, <3>6, RowsKeep
    <2>16. CASE UNCHANGED outVars
      BY <2>0, <2>2, <2>7, <2>16 DEF outVars, WebOutboxTypeOK
    <2> QED BY <2>3, <2>5, <2>6, <2>8, <2>9, <2>10, <2>11, <2>12, <2>13, <2>14, <2>15, <2>16
            DEF WebOutboxNext
  <1>3. WebOutboxInv => WebOutboxTypeOK /\ QueuedIsKept
    BY DEF WebOutboxInv, RowsAccounted, Accounted, ToldServer, QueuedIsKept
  <1> QED BY <1>1, <1>2, <1>3, PTL DEF WebOutboxSpec

HIDE AttemptsAssumption

-----------------------------------------------------------------------------
(* The replies the service worker queues. What a flush has read is still   *)
(* to be sent, to be kept, or accepted.                                    *)
USE OfflineAssumption

\* What a flush read is still to send, to be kept, or accepted.
FlushHoldsReplies == \A f \in ReplyFlushes :
    RepliesIn(replyFlush[f].read) \subseteq
        RepliesIn(replyFlush[f].todo) \cup RepliesIn(replyFlush[f].remaining) \cup accepted

OfflineInv == OfflineTypeOK /\ FlushHoldsReplies /\ AnsweredIsKept

(* Cutting the queue to the newest replies.                                *)
LEMMA NewestRepliesTyped ==
  ASSUME NEW queue \in Seq(OfflineRequests)
  PROVE  /\ NewestReplies(queue) \in Seq(OfflineRequests)
         /\ Len(NewestReplies(queue)) <= MaxReplies
  <1>1. Len(queue) \in Nat
    OBVIOUS
  <1>2. CASE Len(queue) > MaxReplies
    <2>1. Len(queue) - MaxReplies + 1 \in 1..Len(queue)
      BY <1>1, <1>2
    <2> QED BY <1>1, <1>2, <2>1 DEF NewestReplies
  <1>3. CASE Len(queue) <= MaxReplies
    BY <1>1, <1>3 DEF NewestReplies
  <1> QED BY <1>1, <1>2, <1>3

(* A reply is appended to the queue.                                       *)
LEMMA RepliesInAppend ==
  ASSUME NEW queue \in Seq(OfflineRequests), NEW r \in OfflineRequests
  PROVE  /\ Append(queue, r) \in Seq(OfflineRequests)
         /\ RepliesIn(Append(queue, r)) = RepliesIn(queue) \cup {r}
  <1>1. /\ Append(queue, r) \in Seq(OfflineRequests) /\ Len(queue) \in Nat
        /\ DOMAIN Append(queue, r) = 1..(Len(queue) + 1) /\ DOMAIN queue = 1..Len(queue)
        /\ Append(queue, r)[Len(queue) + 1] = r
        /\ \A i \in 1..Len(queue) : Append(queue, r)[i] = queue[i]
    OBVIOUS
  <1> HIDE DEF RepliesIn
  <1>2. RepliesIn(Append(queue, r)) \subseteq RepliesIn(queue) \cup {r}
    BY <1>1 DEF RepliesIn
  <1>3. RepliesIn(queue) \subseteq RepliesIn(Append(queue, r))
    <2> SUFFICES ASSUME NEW i \in 1..Len(queue) PROVE queue[i] \in RepliesIn(Append(queue, r))
      BY <1>1 DEF RepliesIn
    <2>1. i \in 1..(Len(queue) + 1)
      BY <1>1
    <2> QED BY <1>1, <2>1 DEF RepliesIn
  <1>4. r \in RepliesIn(Append(queue, r))
    <2>1. Len(queue) + 1 \in 1..(Len(queue) + 1)
      BY <1>1
    <2> QED BY <1>1, <2>1 DEF RepliesIn
  <1> QED BY <1>1, <1>2, <1>3, <1>4

(* The first reply is taken off the queue.                                 *)
LEMMA RepliesInTail ==
  ASSUME NEW queue \in Seq(OfflineRequests), queue # << >>
  PROVE  /\ Head(queue) \in OfflineRequests /\ Tail(queue) \in Seq(OfflineRequests)
         /\ RepliesIn(queue) = RepliesIn(Tail(queue)) \cup {Head(queue)}
  <1>1. /\ Head(queue) \in OfflineRequests /\ Tail(queue) \in Seq(OfflineRequests)
        /\ Len(queue) \in Nat /\ Len(queue) > 0 /\ DOMAIN queue = 1..Len(queue)
        /\ DOMAIN Tail(queue) = 1..(Len(queue) - 1) /\ Head(queue) = queue[1]
        /\ \A i \in 1..(Len(queue) - 1) : Tail(queue)[i] = queue[i + 1]
    OBVIOUS
  <1>2. ASSUME NEW i \in 1..Len(queue)
        PROVE queue[i] \in RepliesIn(Tail(queue)) \cup {Head(queue)}
    <2>1. CASE i = 1
      BY <1>1, <2>1
    <2>2. CASE i # 1
      <3>1. i - 1 \in 1..(Len(queue) - 1) /\ (i - 1) + 1 = i
        BY <1>1, <2>2
      <3>2. Tail(queue)[i - 1] = queue[i]
        BY <1>1, <3>1
      <3> QED BY <1>1, <3>1, <3>2 DEF RepliesIn
    <2> QED BY <2>1, <2>2
  <1>3. ASSUME NEW i \in 1..(Len(queue) - 1) PROVE Tail(queue)[i] \in RepliesIn(queue)
    <2>1. i + 1 \in 1..Len(queue)
      BY <1>1
    <2> QED BY <1>1, <2>1 DEF RepliesIn
  <1>4. Head(queue) \in RepliesIn(queue)
    <2>1. 1 \in 1..Len(queue)
      BY <1>1
    <2> QED BY <1>1, <2>1 DEF RepliesIn
  <1>5. RepliesIn(queue) \subseteq RepliesIn(Tail(queue)) \cup {Head(queue)}
    BY <1>1, <1>2 DEF RepliesIn
  <1>6. RepliesIn(Tail(queue)) \subseteq RepliesIn(queue)
    BY <1>1, <1>3 DEF RepliesIn
  <1> QED BY <1>1, <1>4, <1>5, <1>6

(* Writing a queue back keeps every reply, or counts it as lost to the     *)
(* limit.                                                                  *)
LEMMA PersistKeeps ==
  ASSUME NEW queue \in Seq(OfflineRequests), NEW read, Persist(queue, read),
         OfflineTypeOK, RepliesIn(read) \subseteq RepliesIn(queue) \cup accepted,
         accepted' = accepted
  PROVE  /\ repliesStored' \in Seq(OfflineRequests) /\ Len(repliesStored') <= MaxReplies
         /\ repliesLost' \subseteq OfflineRequests
         /\ RepliesIn(queue) \subseteq RepliesIn(repliesStored') \cup repliesLost'
         /\ RepliesIn(repliesStored) \cup accepted \cup repliesLost
              \subseteq RepliesIn(repliesStored') \cup accepted' \cup repliesLost'
  <1>1. RepliesIn(queue) \subseteq OfflineRequests /\ RepliesIn(repliesStored) \subseteq OfflineRequests
    BY DEF RepliesIn, OfflineTypeOK
  <1> QED BY <1>1, NewestRepliesTyped DEF Persist, OfflineTypeOK

(* A reply the worker answered as queued is stored, in a flush, accepted   *)
(* by the server or lost to the limit (queueReply, flushReplyQueue of the  *)
(* service worker), for any requests, flushes and limit.                   *)
THEOREM AnsweredIsKeptInvariant ==
  OfflineSpec => [](OfflineTypeOK /\ AnsweredIsKept)
  <1>1. OfflineInit => OfflineInv
    <2> SUFFICES ASSUME OfflineInit PROVE OfflineInv
      OBVIOUS
    <2>1. NoReplyFlush \in [state : {"idle", "sending"}, read : Seq(OfflineRequests),
                            todo : Seq(OfflineRequests), remaining : Seq(OfflineRequests)]
      BY DEF NoReplyFlush
    <2>2. OfflineTypeOK
      BY <2>1 DEF OfflineInit, OfflineTypeOK
    <2>3. FlushHoldsReplies /\ AnsweredIsKept
      BY DEF OfflineInit, NoReplyFlush, FlushHoldsReplies, AnsweredIsKept
    <2> QED BY <2>2, <2>3 DEF OfflineInv
  <1>2. OfflineInv /\ [OfflineNext]_offlineVars => OfflineInv'
    <2> SUFFICES ASSUME OfflineInv, [OfflineNext]_offlineVars PROVE OfflineInv'
      OBVIOUS
    <2> DEFINE Flushing == [state : {"idle", "sending"}, read : Seq(OfflineRequests),
                            todo : Seq(OfflineRequests), remaining : Seq(OfflineRequests)]
    <2>0. /\ OfflineTypeOK /\ FlushHoldsReplies /\ AnsweredIsKept
          /\ \A r \in OfflineRequests : repliesSeen[r] \in Seq(OfflineRequests)
          /\ \A f \in ReplyFlushes : replyFlush[f] \in Flushing
          /\ NoReplyFlush \in Flushing
      BY DEF OfflineInv, OfflineTypeOK, NoReplyFlush
    <2>1. ASSUME NEW r \in OfflineRequests, Intercept(r) \/ EnqueueFails(r)
          PROVE OfflineInv'
      BY ZenonT(60), <2>0, <2>1
         DEF Intercept, EnqueueFails, OfflineInv, OfflineTypeOK,
             FlushHoldsReplies,
                        AnsweredIsKept
    <2>2. ASSUME NEW r \in OfflineRequests, Enqueue(r) PROVE OfflineInv'
      <3> DEFINE queue == Append(repliesSeen[r], r)
      <3>1. queue \in Seq(OfflineRequests) /\ RepliesIn(queue) = RepliesIn(repliesSeen[r]) \cup {r}
        BY <2>0, RepliesInAppend
      <3>2. /\ replyRequest' = [replyRequest EXCEPT ![r] = "queued"]
            /\ Persist(queue, repliesSeen[r]) /\ UNCHANGED <<repliesSeen, replyFlush, accepted, rounds>>
        BY <2>2 DEF Enqueue
      <3> HIDE DEF queue
      <3>3. /\ repliesStored' \in Seq(OfflineRequests) /\ Len(repliesStored') <= MaxReplies
            /\ repliesLost' \subseteq OfflineRequests
            /\ RepliesIn(queue) \subseteq RepliesIn(repliesStored') \cup repliesLost'
            /\ RepliesIn(repliesStored) \cup accepted \cup repliesLost
                 \subseteq RepliesIn(repliesStored') \cup accepted' \cup repliesLost'
        BY <2>0, <3>1, <3>2, PersistKeeps
      <3>4. OfflineTypeOK' /\ FlushHoldsReplies'
        BY <2>0, <3>2, <3>3 DEF OfflineTypeOK, FlushHoldsReplies
      <3>5. AnsweredIsKept'
        BY <2>0, <3>1, <3>2, <3>3 DEF OfflineTypeOK, AnsweredIsKept
      <3> QED BY <3>4, <3>5 DEF OfflineInv
    <2>3. ASSUME NEW f \in ReplyFlushes, StartReplyFlush(f) PROVE OfflineInv'
      <3> DEFINE u == [state |-> "sending", read |-> repliesStored, todo |-> repliesStored,
                       remaining |-> << >>]
      <3>1. u \in Flushing /\ u.read = u.todo
        BY <2>0 DEF OfflineTypeOK
      <3>2. /\ replyFlush' = [replyFlush EXCEPT ![f] = u] /\ rounds' \in 0..MaxRounds
            /\ UNCHANGED <<replyRequest, repliesSeen, repliesStored, accepted, repliesLost>>
        BY <2>0, <2>3 DEF StartReplyFlush, OfflineTypeOK
      <3> HIDE DEF u
      <3> QED BY <2>0, <3>1, <3>2
                 DEF OfflineInv, OfflineTypeOK, FlushHoldsReplies,
                     AnsweredIsKept
    <2>4. ASSUME NEW f \in ReplyFlushes, NEW outcome \in {"ok", "refused", "unknown"},
                 FlushSends(f, outcome)
          PROVE  OfflineInv'
      <3> DEFINE r == Head(replyFlush[f].todo)
                 rest == Tail(replyFlush[f].todo)
                 remaining == IF outcome = "ok" THEN replyFlush[f].remaining
                              ELSE Append(replyFlush[f].remaining, r)
                 u == [replyFlush[f] EXCEPT !.todo = rest, !.remaining = remaining]
      <3>1. /\ r \in OfflineRequests /\ rest \in Seq(OfflineRequests)
            /\ RepliesIn(replyFlush[f].todo) = RepliesIn(rest) \cup {r}
        BY <2>0, <2>4, RepliesInTail DEF FlushSends
      <3>2. /\ remaining \in Seq(OfflineRequests)
            /\ RepliesIn(replyFlush[f].remaining) \subseteq RepliesIn(remaining)
            /\ outcome # "ok" => r \in RepliesIn(remaining)
        BY <2>0, <3>1, RepliesInAppend
      <3>3. /\ u \in Flushing /\ u.read = replyFlush[f].read /\ u.todo = rest
            /\ u.remaining = remaining
        BY <2>0, <3>1, <3>2
      <3>4. /\ replyFlush' = [replyFlush EXCEPT ![f] = u]
            /\ accepted' = IF outcome = "refused" THEN accepted ELSE accepted \cup {r}
            /\ UNCHANGED <<replyRequest, repliesSeen, repliesStored, repliesLost, rounds>>
        BY <2>4 DEF FlushSends
      <3> HIDE DEF u, remaining, rest, r
      <3>5. OfflineTypeOK' /\ AnsweredIsKept'
        BY <2>0, <3>1, <3>3, <3>4 DEF OfflineTypeOK, AnsweredIsKept
      <3>6. /\ replyFlush'[f] = u /\ \A g \in ReplyFlushes \ {f} : replyFlush'[g] = replyFlush[g]
            /\ accepted \subseteq accepted' /\ (outcome = "ok" => r \in accepted')
        BY <2>0, <3>4 DEF OfflineTypeOK
      <3>7. FlushHoldsReplies'
        BY <2>0, <3>1, <3>2, <3>3, <3>6 DEF FlushHoldsReplies
      <3> QED BY <3>5, <3>7 DEF OfflineInv
    <2>5. ASSUME NEW f \in ReplyFlushes, EndReplyFlush(f) PROVE OfflineInv'
      <3> DEFINE queue == replyFlush[f].remaining
      <3>1. /\ queue \in Seq(OfflineRequests) /\ Persist(queue, replyFlush[f].read)
            /\ replyFlush[f].todo = << >> /\ replyFlush' = [replyFlush EXCEPT ![f] = NoReplyFlush]
            /\ UNCHANGED <<replyRequest, repliesSeen, accepted, rounds>>
        BY <2>0, <2>5 DEF EndReplyFlush
      <3>2. RepliesIn(<< >>) = {}
        BY DEF RepliesIn
      <3>3. RepliesIn(replyFlush[f].read) \subseteq RepliesIn(queue) \cup accepted
        BY <2>0, <3>1, <3>2 DEF FlushHoldsReplies
      <3> HIDE DEF queue
      <3>4. /\ repliesStored' \in Seq(OfflineRequests) /\ Len(repliesStored') <= MaxReplies
            /\ repliesLost' \subseteq OfflineRequests
            /\ RepliesIn(repliesStored) \cup accepted \cup repliesLost
                 \subseteq RepliesIn(repliesStored') \cup accepted' \cup repliesLost'
        BY <2>0, <3>1, <3>3, PersistKeeps
      <3>5. OfflineTypeOK' /\ AnsweredIsKept'
        BY <2>0, <3>1, <3>4 DEF OfflineTypeOK, AnsweredIsKept
      <3>6. FlushHoldsReplies'
        BY <2>0, <3>1, <3>2 DEF OfflineTypeOK, FlushHoldsReplies, NoReplyFlush
      <3> QED BY <3>5, <3>6 DEF OfflineInv
    <2>6. CASE ReplyWorkerStops
      <3>1. OfflineTypeOK' /\ AnsweredIsKept'
        BY <2>0, <2>6 DEF ReplyWorkerStops, OfflineTypeOK, AnsweredIsKept
      <3>2. FlushHoldsReplies'
        BY <2>6 DEF ReplyWorkerStops, FlushHoldsReplies, NoReplyFlush, RepliesIn
      <3> QED BY <3>1, <3>2 DEF OfflineInv
    <2>7. CASE UNCHANGED offlineVars
      BY <2>7 DEF offlineVars, OfflineInv, OfflineTypeOK, FlushHoldsReplies, AnsweredIsKept
    <2> QED BY <2>1, <2>2, <2>3, <2>4, <2>5, <2>6, <2>7 DEF OfflineNext
  <1>3. OfflineInv => OfflineTypeOK /\ AnsweredIsKept
    BY DEF OfflineInv
  <1> QED BY <1>1, <1>2, <1>3, PTL DEF OfflineSpec

HIDE OfflineAssumption

-----------------------------------------------------------------------------
(* The payloads of pushes. A window that was posted a payload has it; one  *)
(* that is kept is stored or on its way to a window.                       *)
USE PendingAssumption

\* Where a payload the worker keeps can be, and one a window heard of.
QueueCauses == {"overlap", "unread", "limit", "unanswered", "login"}
HeldPushes == PushesIn(pushesStored) \cup Drained \cup applied \cup LostBy(QueueCauses)
HeardPushes == PushesIn(memory) \cup applied \cup LostBy({"limit", "page"})

PushStates == {"new", "posted", "unheard", "reading", "kept", "skipped",
               "blind", "missed", "stopped"}
Draining == [state : {"idle", "read", "blind", "cleared"}, read : Seq(Pushes)]

\* A window that was posted a payload has it.
PostedIsHeard == \A p \in Pushes : push[p] \in {"posted", "skipped"} => p \in HeardPushes
KeptIsHeld == \A p \in Pushes : push[p] = "kept" => p \in HeldPushes

PushesInv == PushesTypeOK /\ PostedIsHeard /\ KeptIsHeld

(* Cutting the queue of payloads keeps the newest.                         *)
LEMMA NewestPushesTyped ==
  ASSUME NEW queue \in Seq(Pushes), NEW limit \in Nat \ {0}
  PROVE  /\ NewestPushes(queue, limit) \in Seq(Pushes)
         /\ Len(NewestPushes(queue, limit)) <= limit
         /\ queue # << >> => queue[Len(queue)] \in PushesIn(NewestPushes(queue, limit))
  <1>1. Len(queue) \in Nat /\ (queue # << >> => Len(queue) > 0)
    OBVIOUS
  <1> DEFINE first == IF Len(queue) > limit THEN Len(queue) - limit + 1 ELSE 1
             newest == NewestPushes(queue, limit)
  <1>2. /\ first \in 1..(Len(queue) + 1) /\ Len(queue) - first + 1 <= limit
        /\ Len(queue) > 0 => first <= Len(queue)
    BY <1>1
  <1>3. newest = SubSeq(queue, first, Len(queue))
    BY DEF NewestPushes
  <1> HIDE DEF first, newest
  <1>4. /\ newest \in Seq(Pushes) /\ Len(newest) = Len(queue) - first + 1
        /\ DOMAIN newest = 1..(Len(queue) - first + 1)
        /\ \A i \in 1..(Len(queue) - first + 1) : newest[i] = queue[first + i - 1]
    BY <1>1, <1>2, <1>3
  <1>5. ASSUME queue # << >> PROVE queue[Len(queue)] \in PushesIn(newest)
    <2>1. /\ Len(queue) - first + 1 \in 1..(Len(queue) - first + 1)
          /\ first + (Len(queue) - first + 1) - 1 = Len(queue)
      BY <1>1, <1>2, <1>5
    <2> QED BY <1>4, <2>1 DEF PushesIn
  <1> QED BY <1>2, <1>4, <1>5 DEF newest

(* A payload is appended to a queue.                                       *)
LEMMA PushesInAppend ==
  ASSUME NEW queue \in Seq(Pushes), NEW p \in Pushes
  PROVE  /\ Append(queue, p) \in Seq(Pushes) /\ Append(queue, p) # << >>
         /\ Append(queue, p)[Len(Append(queue, p))] = p
         /\ PushesIn(Append(queue, p)) = PushesIn(queue) \cup {p}
  <1>1. /\ Append(queue, p) \in Seq(Pushes) /\ Len(queue) \in Nat
        /\ DOMAIN Append(queue, p) = 1..(Len(queue) + 1) /\ DOMAIN queue = 1..Len(queue)
        /\ Append(queue, p)[Len(queue) + 1] = p /\ Len(Append(queue, p)) = Len(queue) + 1
        /\ \A i \in 1..Len(queue) : Append(queue, p)[i] = queue[i]
    OBVIOUS
  <1>2. PushesIn(Append(queue, p)) \subseteq PushesIn(queue) \cup {p}
    BY <1>1 DEF PushesIn
  <1>3. PushesIn(queue) \subseteq PushesIn(Append(queue, p))
    <2> SUFFICES ASSUME NEW i \in 1..Len(queue) PROVE queue[i] \in PushesIn(Append(queue, p))
      BY <1>1 DEF PushesIn
    <2>1. i \in 1..(Len(queue) + 1)
      BY <1>1
    <2> QED BY <1>1, <2>1 DEF PushesIn
  <1>4. p \in PushesIn(Append(queue, p))
    <2>1. Len(queue) + 1 \in 1..(Len(queue) + 1)
      BY <1>1
    <2> QED BY <1>1, <2>1 DEF PushesIn
  <1> QED BY <1>1, <1>2, <1>3, <1>4

(* Taking one payload out of what was read leaves the others.              *)
LEMMA OthersAreKept ==
  ASSUME NEW p \in Pushes, pushesSeen[p] \in Seq(Pushes)
  PROVE  /\ Others(p) \in Seq(Pushes)
         /\ PushesIn(pushesSeen[p]) \subseteq PushesIn(Others(p)) \cup {p}
  <1> DEFINE queue == pushesSeen[p]
             at == {i \in DOMAIN queue : queue[i] = p}
             first == CHOOSE i \in at : TRUE
             before == SubSeq(queue, 1, first - 1)
             after == SubSeq(queue, first + 1, Len(queue))
  <1>1. queue \in Seq(Pushes) /\ Len(queue) \in Nat /\ DOMAIN queue = 1..Len(queue)
    OBVIOUS
  <1>2. CASE at = {}
    BY <1>2 DEF Others, PushesIn
  <1>3. CASE at # {}
    <2>1. first \in 1..Len(queue) /\ queue[first] = p
      BY <1>1, <1>3
    <2>2. Others(p) = before \o after
      BY <1>3 DEF Others
    <2> HIDE DEF first
    <2>3. /\ before \in Seq(Pushes) /\ Len(before) = first - 1
          /\ \A i \in 1..(first - 1) : before[i] = queue[i]
      BY <1>1, <2>1
    <2>4. /\ after \in Seq(Pushes) /\ Len(after) = Len(queue) - first
          /\ \A i \in 1..(Len(queue) - first) : after[i] = queue[first + i]
      BY <1>1, <2>1
    <2> HIDE DEF before, after
    <2>5. /\ Others(p) \in Seq(Pushes) /\ DOMAIN Others(p) = 1..(Len(queue) - 1)
          /\ \A i \in 1..(first - 1) : Others(p)[i] = queue[i]
          /\ \A i \in first..(Len(queue) - 1) : Others(p)[i] = queue[i + 1]
      <3>1. /\ before \o after \in Seq(Pushes)
            /\ Len(before \o after) = Len(queue) - 1
            /\ \A i \in 1..(Len(queue) - 1) :
                  (before \o after)[i] = IF i <= first - 1 THEN before[i]
                                         ELSE after[i - (first - 1)]
        <4>1. Len(before) + Len(after) = Len(queue) - 1
          BY <1>1, <2>1, <2>3, <2>4
        <4>2. /\ before \o after \in Seq(Pushes)
              /\ Len(before \o after) = Len(before) + Len(after)
              /\ \A i \in 1..(Len(before) + Len(after)) :
                    (before \o after)[i] = IF i <= Len(before) THEN before[i]
                                           ELSE after[i - Len(before)]
          BY <2>3, <2>4, ConcatProperties
        <4> QED BY <2>3, <4>1, <4>2
      <3>2. ASSUME NEW i \in 1..(first - 1) PROVE Others(p)[i] = queue[i]
        BY <1>1, <2>1, <2>2, <2>3, <3>1
      <3>3. ASSUME NEW i \in first..(Len(queue) - 1) PROVE Others(p)[i] = queue[i + 1]
        <4>1. /\ i \in 1..(Len(queue) - 1) /\ ~(i <= first - 1)
              /\ i - (first - 1) \in 1..(Len(queue) - first)
              /\ first + (i - (first - 1)) = i + 1
          BY <1>1, <2>1
        <4> QED BY <2>2, <2>4, <3>1, <4>1, ZenonT(60)
      <3>4. DOMAIN (before \o after) = 1..(Len(queue) - 1)
        BY <3>1
      <3> QED BY <2>2, <3>1, <3>2, <3>3, <3>4
    <2>6. ASSUME NEW i \in 1..Len(queue) PROVE queue[i] \in PushesIn(Others(p)) \cup {p}
      <3>1. CASE i < first
        <4>1. i \in 1..(first - 1) /\ i \in 1..(Len(queue) - 1)
          BY <1>1, <2>1, <3>1
        <4> QED BY <2>5, <4>1 DEF PushesIn
      <3>2. CASE i = first
        BY <2>1, <3>2
      <3>3. CASE i > first
        <4>1. i - 1 \in first..(Len(queue) - 1) /\ i - 1 \in 1..(Len(queue) - 1) /\ (i - 1) + 1 = i
          BY <1>1, <2>1, <3>3
        <4>2. Others(p)[i - 1] = queue[i]
          BY <2>5, <4>1
        <4> QED BY <2>5, <4>1, <4>2 DEF PushesIn
      <3> QED BY <1>1, <2>1, <3>1, <3>2, <3>3
    <2> QED BY <1>1, <2>5, <2>6 DEF PushesIn
  <1> QED BY <1>2, <1>3

(* What is in a queue of payloads are payloads.                            *)
LEMMA PushesAreTyped ==
  ASSUME NEW queue \in Seq(Pushes)
  PROVE  PushesIn(queue) \subseteq Pushes
  BY DEF PushesIn

(* What a cause has dropped stays dropped.                                 *)
LEMMA LosesMore ==
  ASSUME pushesLost \in [LossCauses -> SUBSET Pushes],
         NEW cause \in LossCauses, NEW payloads \in SUBSET Pushes, Lose(cause, payloads)
  PROVE  /\ pushesLost' \in [LossCauses -> SUBSET Pushes]
         /\ payloads \subseteq pushesLost'[cause]
         /\ \A c \in LossCauses : pushesLost[c] \subseteq pushesLost'[c]
  BY DEF Lose

LEMMA LostStayLost ==
  ASSUME \A c \in LossCauses : pushesLost[c] \subseteq pushesLost'[c]
  PROVE  /\ LostBy(QueueCauses) \subseteq LostBy(QueueCauses)'
         /\ LostBy({"limit", "page"}) \subseteq LostBy({"limit", "page"})'
         /\ \A c \in QueueCauses : pushesLost'[c] \subseteq LostBy(QueueCauses)'
         /\ \A c \in {"limit", "page"} : pushesLost'[c] \subseteq LostBy({"limit", "page"})'
  BY DEF LostBy, LossCauses, QueueCauses

(* A step that keeps what is held and heard, and adds what it changed.     *)
LEMMA NothingLeaves ==
  ASSUME PushesInv, PushesTypeOK', HeldPushes \subseteq HeldPushes', HeardPushes \subseteq HeardPushes',
         \A p \in Pushes : push'[p] = "kept" => push[p] = "kept" \/ p \in HeldPushes',
         \A p \in Pushes : push'[p] \in {"posted", "skipped"} =>
            push[p] \in {"posted", "skipped"} \/ p \in HeardPushes'
  PROVE  PushesInv'
  <1>1. KeptIsHeld'
    BY DEF PushesInv, KeptIsHeld
  <1>2. PostedIsHeard'
    BY DEF PushesInv, PostedIsHeard
  <1> QED BY <1>1, <1>2 DEF PushesInv

(* A payload kept for a drain is queued, drained, applied or dropped by a  *)
(* cause that is named, overlaps and failed reads of the cache among them; *)
(* one that a window heard of is in its memory, applied or dropped by the  *)
(* limit or with the page (enqueuePendingPushPayload,                      *)
(* drainPendingPushPayloadQueue), for any pushes, drains and limits.       *)
THEOREM PushIsKeptInvariant == PushesSpec => [](PushesTypeOK /\ PushIsKept)
  <1>1. PushesInit => PushesInv
    <2> SUFFICES ASSUME PushesInit PROVE PushesInv
      OBVIOUS
    <2>1. NoDrain \in Draining
      BY DEF NoDrain, Draining
    <2>2. PushesTypeOK
      BY <2>1 DEF PushesInit, PushesTypeOK, Draining
    <2>3. PostedIsHeard /\ KeptIsHeld
      BY DEF PushesInit, PostedIsHeard, KeptIsHeld
    <2> QED BY <2>2, <2>3 DEF PushesInv
  <1>2. PushesInv /\ [PushesNext]_pushVars => PushesInv'
    <2> SUFFICES ASSUME PushesInv, [PushesNext]_pushVars PROVE PushesInv'
      OBVIOUS
    <2>0. /\ PushesTypeOK /\ {MaxPushes, MaxMemory} \subseteq Nat \ {0}
          /\ NoDrain \in Draining /\ NoDrain.state = "idle" /\ PushesIn(<< >>) = {}
          /\ \A d \in Drains : drain[d] \in Draining /\ PushesIn(drain[d].read) \subseteq Pushes
          /\ \A p \in Pushes : /\ pushesSeen[p] \in Seq(Pushes)
                               /\ PushesIn(pushesSeen[p]) \subseteq Pushes
          /\ pushesStored \in Seq(Pushes) /\ PushesIn(pushesStored) \subseteq Pushes
          /\ memory \in Seq(Pushes) /\ PushesIn(memory) \subseteq Pushes
          /\ pushesLost \in [LossCauses -> SUBSET Pushes]
      BY PushesAreTyped DEF PushesInv, PushesTypeOK, NoDrain, PushesIn, Draining
    <2>00. PushesTypeOK
      BY <2>0
    <2>1. ASSUME NEW p \in Pushes, Broadcast(p) PROVE PushesInv'
      <3> DEFINE all == Append(memory, p)
                 kept == NewestPushes(all, MaxMemory)
      <3>1. all \in Seq(Pushes) /\ all # << >> /\ all[Len(all)] = p
            /\ PushesIn(all) = PushesIn(memory) \cup {p}
        BY <2>0, PushesInAppend
      <3> HIDE DEF all
      <3>2. kept \in Seq(Pushes) /\ Len(kept) <= MaxMemory /\ p \in PushesIn(kept)
        BY <2>0, <3>1, NewestPushesTyped
      <3>3. /\ push' = [push EXCEPT ![p] = IF window = "closed" THEN "unheard" ELSE "posted"]
            /\ \/ window = "closed" /\ UNCHANGED <<applied, memory, pushesLost>>
               \/ applied' = applied \cup {p} /\ UNCHANGED <<memory, pushesLost>>
               \/ /\ memory' = kept /\ UNCHANGED applied
                  /\ Lose("limit", PushesIn(memory) \ PushesIn(kept))
            /\ UNCHANGED <<pushesSeen, pushesStored, drain, asking, window, user, events>>
        BY <2>1 DEF Broadcast, all
      <3> HIDE DEF kept
      <3>7. /\ pushesLost' \in [LossCauses -> SUBSET Pushes]
            /\ \A c \in LossCauses : pushesLost[c] \subseteq pushesLost'[c]
            /\ PushesIn(memory) \subseteq PushesIn(memory') \cup pushesLost'["limit"]
        <4>1. "limit" \in LossCauses /\ PushesIn(memory) \ PushesIn(kept) \in SUBSET Pushes
          BY <2>0 DEF LossCauses
        <4>2. CASE UNCHANGED <<memory, pushesLost>>
          BY <2>0, <4>2
        <4>3. CASE memory' = kept /\ Lose("limit", PushesIn(memory) \ PushesIn(kept))
          <5>1. PushesIn(memory) \ PushesIn(kept) \subseteq pushesLost'["limit"]
            BY <2>0, <4>1, <4>3, LosesMore
          <5> QED BY <2>0, <4>1, <4>3, <5>1, LosesMore
        <4> QED BY <3>3, <4>2, <4>3
      <3>4. PushesTypeOK'
        BY <2>0, <3>2, <3>3, <3>7 DEF PushesTypeOK
      <3>5. /\ HeldPushes \subseteq HeldPushes' /\ HeardPushes \subseteq HeardPushes'
            /\ window # "closed" => p \in HeardPushes'
        <4>1. /\ LostBy(QueueCauses) \subseteq LostBy(QueueCauses)'
              /\ LostBy({"limit", "page"}) \subseteq LostBy({"limit", "page"})'
              /\ pushesLost'["limit"] \subseteq LostBy({"limit", "page"})'
          BY <3>7, LostStayLost
        <4>2. /\ Drained' = Drained /\ PushesIn(pushesStored)' = PushesIn(pushesStored)
              /\ applied \subseteq applied'
          BY <3>3 DEF Drained
        <4>3. window # "closed" => p \in PushesIn(memory') \cup applied'
          BY <3>2, <3>3
        <4>4. PushesIn(memory) \subseteq PushesIn(memory') \cup LostBy({"limit", "page"})'
          BY <3>7, <4>1
        <4> QED BY <4>1, <4>2, <4>3, <4>4 DEF HeldPushes, HeardPushes
      <3>6. \A q \in Pushes : push'[q] = IF q = p THEN (IF window = "closed" THEN "unheard"
                                                       ELSE "posted") ELSE push[q]
        BY <2>0, <3>3 DEF PushesTypeOK
      <3> QED BY <3>4, <3>5, <3>6, NothingLeaves
    <2>2. ASSUME NEW p \in Pushes, NEW blind \in BOOLEAN,
                 SkipQueue(p) \/ ReadQueue(p, blind) \/ WriteFails(p)
          PROVE PushesInv'
      <3>1. PICK at \in {"skipped", "missed", "reading", "blind", "stopped"} :
               /\ push' = [push EXCEPT ![p] = at]
               /\ at = "skipped" => push[p] = "posted"
        BY <2>2 DEF SkipQueue, ReadQueue, WriteFails
      <3>2. /\ \/ pushesSeen' = pushesSeen
               \/ pushesSeen' = [pushesSeen EXCEPT ![p] = pushesStored]
               \/ pushesSeen' = [pushesSeen EXCEPT ![p] = << >>]
            /\ UNCHANGED <<pushesStored, drain, asking, window, user, memory, applied,
                           pushesLost, events>>
        BY <2>2 DEF SkipQueue, ReadQueue, WriteFails
      <3>3. PushesTypeOK'
        <4>1. push' \in [Pushes -> PushStates]
          BY <2>0, <3>1 DEF PushesTypeOK, PushStates
        <4>2. pushesSeen' \in [Pushes -> Seq(Pushes)]
          <5>1. << >> \in Seq(Pushes) /\ pushesSeen \in [Pushes -> Seq(Pushes)]
            BY <2>0 DEF PushesTypeOK
          <5> QED BY <2>0, <3>2, <5>1
        <4> QED BY <2>00, <3>2, <4>1, <4>2 DEF PushesTypeOK, PushStates
      <3>4. HeldPushes' = HeldPushes /\ HeardPushes' = HeardPushes
        BY <3>2 DEF HeldPushes, HeardPushes, Drained, LostBy
      <3>5. \A q \in Pushes : push'[q] = IF q = p THEN at ELSE push[q]
        BY <2>0, <3>1 DEF PushesTypeOK
      <3> QED BY <3>1, <3>3, <3>4, <3>5, NothingLeaves
    <2>3. ASSUME NEW p \in Pushes, WriteQueue(p) PROVE PushesInv'
      <3> DEFINE all == Append(Others(p), p)
                 queue == NewestPushes(all, MaxPushes)
      <3>1. /\ Others(p) \in Seq(Pushes)
            /\ PushesIn(pushesSeen[p]) \subseteq PushesIn(Others(p)) \cup {p}
        BY <2>0, OthersAreKept
      <3>2. all \in Seq(Pushes) /\ PushesIn(all) = PushesIn(Others(p)) \cup {p}
        BY <3>1, PushesInAppend
      <3>3. PushesIn(all) \subseteq Pushes
        BY <3>2, PushesAreTyped
      <3>4. /\ push' = [push EXCEPT ![p] = "kept"] /\ pushesStored' = queue
            /\ pushesLost' = [pushesLost EXCEPT
                   ![Overwrites(push[p] = "blind")] =
                       @ \cup (PushesIn(pushesStored) \ PushesIn(pushesSeen[p])),
                   !["limit"] = @ \cup (PushesIn(all) \ PushesIn(queue))]
            /\ UNCHANGED <<pushesSeen, drain, asking, window, user, memory, applied, events>>
        BY <2>3 DEF WriteQueue
      <3> HIDE DEF all
      <3>5. queue \in Seq(Pushes) /\ Len(queue) <= MaxPushes
        BY <2>0, <3>2, NewestPushesTyped
      <3> HIDE DEF queue
      <3>9. /\ pushesLost' \in [LossCauses -> SUBSET Pushes]
            /\ \A c \in LossCauses : pushesLost[c] \subseteq pushesLost'[c]
            /\ \E c \in QueueCauses :
                 PushesIn(pushesStored) \ PushesIn(pushesSeen[p]) \subseteq pushesLost'[c]
            /\ PushesIn(all) \ PushesIn(queue) \subseteq pushesLost'["limit"]
        <4> DEFINE cause == Overwrites(push[p] = "blind")
                   notSeen == PushesIn(pushesStored) \ PushesIn(pushesSeen[p])
                   over == PushesIn(all) \ PushesIn(queue)
        <4>1. /\ cause \in {"overlap", "unread"} /\ notSeen \in SUBSET Pushes
              /\ over \in SUBSET Pushes
          BY <2>0, <3>3 DEF Overwrites
        <4>2. pushesLost' = [pushesLost EXCEPT ![cause] = @ \cup notSeen,
                                               !["limit"] = @ \cup over]
          BY <3>4
        <4> HIDE DEF cause, notSeen, over
        <4>3. /\ pushesLost' \in [LossCauses -> SUBSET Pushes]
              /\ notSeen \subseteq pushesLost'[cause] /\ over \subseteq pushesLost'["limit"]
              /\ \A c \in LossCauses : pushesLost[c] \subseteq pushesLost'[c]
          BY <2>0, <4>1, <4>2 DEF LossCauses
        <4> QED BY <4>1, <4>3 DEF notSeen, over, QueueCauses
      <3>6. PushesTypeOK'
        BY <2>0, <3>3, <3>4, <3>5, <3>9 DEF PushesTypeOK
      <3>7. HeldPushes \subseteq HeldPushes' /\ HeardPushes \subseteq HeardPushes' /\ p \in HeldPushes'
        <4>1. /\ LostBy(QueueCauses) \subseteq LostBy(QueueCauses)'
              /\ LostBy({"limit", "page"}) \subseteq LostBy({"limit", "page"})'
              /\ PushesIn(pushesStored) \ PushesIn(pushesSeen[p]) \subseteq LostBy(QueueCauses)'
              /\ PushesIn(all) \ PushesIn(queue) \subseteq LostBy(QueueCauses)'
          <5>1. "limit" \in QueueCauses
            BY DEF QueueCauses
          <5> QED BY <3>9, <5>1, LostStayLost
        <4>2. Drained' = Drained /\ applied' = applied /\ memory' = memory
          BY <3>4 DEF Drained
        <4>3. PushesIn(pushesStored') = PushesIn(queue)
          BY <3>4
        <4>4. /\ PushesIn(all) \subseteq PushesIn(pushesStored') \cup LostBy(QueueCauses)'
              /\ PushesIn(pushesStored) \subseteq PushesIn(all) \cup LostBy(QueueCauses)'
          BY <3>1, <3>2, <4>1, <4>3
        <4> QED BY <3>2, <4>1, <4>2, <4>4 DEF HeldPushes, HeardPushes
      <3>8. \A q \in Pushes : push'[q] = IF q = p THEN "kept" ELSE push[q]
        BY <2>0, <3>4 DEF PushesTypeOK
      <3> QED BY <3>6, <3>7, <3>8, NothingLeaves
    <2>4. ASSUME NEW d \in Drains, NEW blind \in BOOLEAN, AskDrain(d, blind) \/ DrainFails(d)
          PROVE PushesInv'
      <3>1. PICK u \in Draining :
               /\ u.state # "cleared" /\ drain[d].state # "cleared"
               /\ drain' = [drain EXCEPT ![d] = u] /\ asking' \in Drains \cup {"none"}
               /\ events' \in 0..MaxEvents
               /\ UNCHANGED <<push, pushesSeen, pushesStored, window, user, memory, applied,
                              pushesLost>>
        <4>1. CASE AskDrain(d, blind)
          <5> DEFINE u == IF blind THEN [state |-> "blind", read |-> << >>]
                          ELSE [state |-> "read", read |-> pushesStored]
          <5>1. u \in Draining /\ u.state # "cleared"
            BY <2>0 DEF Draining
          <5>2. /\ drain' = [drain EXCEPT ![d] = u] /\ drain[d].state # "cleared" /\ asking' = d
                /\ events' \in 0..MaxEvents
                /\ UNCHANGED <<push, pushesSeen, pushesStored, window, user, memory, applied,
                               pushesLost>>
            BY <2>0, <4>1 DEF AskDrain, Event, PushesTypeOK
          <5> HIDE DEF u
          <5> QED BY <5>1, <5>2
        <4>2. CASE DrainFails(d)
          <5>1. drain[d].state \in {"read", "blind"} /\ NoDrain \in Draining
                /\ NoDrain.state # "cleared"
            BY <2>0, <4>2 DEF DrainFails
          <5>2. /\ drain' = [drain EXCEPT ![d] = NoDrain] /\ asking' \in Drains \cup {"none"}
                /\ events' \in 0..MaxEvents
                /\ UNCHANGED <<push, pushesSeen, pushesStored, window, user, memory, applied,
                               pushesLost>>
            BY <2>00, <4>2 DEF DrainFails, PushesTypeOK
          <5> QED BY <5>1, <5>2
        <4> QED BY <2>4, <4>1, <4>2
      <3>2. PushesTypeOK'
        BY <2>0, <3>1 DEF PushesTypeOK, Draining
      <3>3. \A e \in Drains : /\ drain'[e].state = "cleared" <=> drain[e].state = "cleared"
                              /\ drain[e].state = "cleared" => drain'[e] = drain[e]
        BY <2>0, <3>1 DEF PushesTypeOK
      <3>4. Drained' = Drained
        BY <3>3 DEF Drained
      <3>5. HeldPushes' = HeldPushes /\ HeardPushes' = HeardPushes
        BY <3>1, <3>4 DEF HeldPushes, HeardPushes, LostBy
      <3> QED BY <3>1, <3>2, <3>5, NothingLeaves
    <2>5. ASSUME NEW d \in Drains, ClearQueue(d) PROVE PushesInv'
      <3> DEFINE u == [drain[d] EXCEPT !.state = "cleared"]
      <3>1. u \in Draining /\ u.state = "cleared" /\ u.read = drain[d].read
        BY <2>0 DEF Draining
      <3>2. /\ drain' = [drain EXCEPT ![d] = u] /\ pushesStored' = << >>
            /\ Lose(Overwrites(drain[d].state = "blind"),
                    PushesIn(pushesStored) \ PushesIn(drain[d].read))
            /\ UNCHANGED <<push, pushesSeen, asking, window, user, memory, applied, events>>
        BY <2>5 DEF ClearQueue
      <3> HIDE DEF u
      <3>7. /\ pushesLost' \in [LossCauses -> SUBSET Pushes]
            /\ \A c \in LossCauses : pushesLost[c] \subseteq pushesLost'[c]
            /\ \E c \in QueueCauses :
                 PushesIn(pushesStored) \ PushesIn(drain[d].read) \subseteq pushesLost'[c]
        <4>1. /\ Overwrites(drain[d].state = "blind") \in LossCauses \cap QueueCauses
              /\ PushesIn(pushesStored) \ PushesIn(drain[d].read) \in SUBSET Pushes
          BY <2>0 DEF Overwrites, LossCauses, QueueCauses
        <4> QED BY <2>0, <3>2, <4>1, LosesMore
      <3>3. PushesTypeOK'
        <4>1. << >> \in Seq(Pushes) /\ Len(<< >>) = 0 /\ MaxPushes >= 0
          BY <2>0
        <4> QED BY <2>00, <3>1, <3>2, <3>7, <4>1 DEF PushesTypeOK, Draining
      <3>4. drain'[d] = u /\ \A e \in Drains \ {d} : drain'[e] = drain[e]
        BY <2>0, <3>2 DEF PushesTypeOK
      <3>5. Drained \cup PushesIn(drain[d].read) \subseteq Drained'
        BY <3>1, <3>4 DEF Drained
      <3>6. HeldPushes \subseteq HeldPushes' /\ HeardPushes \subseteq HeardPushes'
        <4>1. /\ LostBy(QueueCauses) \subseteq LostBy(QueueCauses)'
              /\ LostBy({"limit", "page"}) \subseteq LostBy({"limit", "page"})'
              /\ PushesIn(pushesStored) \ PushesIn(drain[d].read) \subseteq LostBy(QueueCauses)'
          BY <3>7, LostStayLost
        <4> QED BY <3>2, <3>5, <4>1 DEF HeldPushes, HeardPushes
      <3> QED BY <3>2, <3>3, <3>6, NothingLeaves
    <2>6. ASSUME NEW d \in Drains, AnswerDrain(d) PROVE PushesInv'
      <3>1. /\ drain' = [drain EXCEPT ![d] = NoDrain] /\ asking' \in {"none", asking}
            /\ \/ applied' = applied \cup PushesIn(drain[d].read) /\ UNCHANGED pushesLost
               \/ Lose("unanswered", PushesIn(drain[d].read)) /\ UNCHANGED applied
            /\ UNCHANGED <<push, pushesSeen, pushesStored, window, user, memory, events>>
        BY <2>6 DEF AnswerDrain
      <3>6. /\ pushesLost' \in [LossCauses -> SUBSET Pushes]
            /\ \A c \in LossCauses : pushesLost[c] \subseteq pushesLost'[c]
            /\ PushesIn(drain[d].read) \subseteq applied' \cup pushesLost'["unanswered"]
        <4>1. "unanswered" \in LossCauses /\ PushesIn(drain[d].read) \in SUBSET Pushes
          BY <2>0 DEF LossCauses
        <4> QED BY <2>0, <3>1, <4>1, LosesMore
      <3>2. PushesTypeOK'
        BY <2>0, <3>1, <3>6 DEF PushesTypeOK, Draining
      <3>3. drain'[d] = NoDrain /\ \A e \in Drains \ {d} : drain'[e] = drain[e]
        BY <2>0, <3>1 DEF PushesTypeOK
      <3>4. Drained \subseteq Drained' \cup PushesIn(drain[d].read)
        BY <3>3 DEF Drained
      <3>5. HeldPushes \subseteq HeldPushes' /\ HeardPushes \subseteq HeardPushes'
        <4>1. /\ LostBy(QueueCauses) \subseteq LostBy(QueueCauses)'
              /\ LostBy({"limit", "page"}) \subseteq LostBy({"limit", "page"})'
              /\ pushesLost'["unanswered"] \subseteq LostBy(QueueCauses)'
          <5>1. "unanswered" \in QueueCauses
            BY DEF QueueCauses
          <5> QED BY <3>6, <5>1, LostStayLost
        <4>2. applied \subseteq applied'
          BY <3>1
        <4> QED BY <3>1, <3>4, <3>6, <4>1, <4>2 DEF HeldPushes, HeardPushes
      <3> QED BY <3>1, <3>2, <3>5, NothingLeaves
    <2>7. CASE PageGivesUp \/ OpenWindow \/ ToggleWindow \/ SessionReady \/ PushLogout
      <3>1. PushesTypeOK'
        BY <2>0, <2>7 DEF PushesTypeOK, PageGivesUp, OpenWindow, ToggleWindow, SessionReady,
                          PushLogout, Event
      <3>2. UNCHANGED <<push, pushesStored, drain, memory, applied, pushesLost>>
        BY <2>7 DEF PageGivesUp, OpenWindow, ToggleWindow, SessionReady, PushLogout
      <3>3. HeldPushes' = HeldPushes /\ HeardPushes' = HeardPushes
        BY <3>2 DEF HeldPushes, HeardPushes, Drained, LostBy
      <3> QED BY <3>1, <3>2, <3>3, NothingLeaves
    <2>8. CASE CloseWindow \/ FlushMemory \/ PushLogin
      <3>3. /\ pushesLost' \in [LossCauses -> SUBSET Pushes]
            /\ \A c \in LossCauses : pushesLost[c] \subseteq pushesLost'[c]
            /\ PushesIn(memory) \subseteq PushesIn(memory') \cup applied' \cup pushesLost'["page"]
            /\ PushesIn(pushesStored) \subseteq PushesIn(pushesStored') \cup pushesLost'["login"]
        <4>1. /\ {"page", "login"} \subseteq LossCauses
              /\ {PushesIn(memory), PushesIn(pushesStored)} \subseteq SUBSET Pushes
          BY <2>0 DEF LossCauses
        <4>2. CASE CloseWindow
          <5>1. Lose("page", PushesIn(memory)) /\ pushesStored' = pushesStored
            BY <4>2 DEF CloseWindow
          <5> QED BY <2>0, <4>1, <5>1, LosesMore
        <4>3. CASE FlushMemory
          BY <2>0, <4>3 DEF FlushMemory
        <4>4. CASE PushLogin
          <5>1. /\ memory' = memory
                /\ \/ Lose("login", PushesIn(pushesStored))
                   \/ UNCHANGED <<pushesLost, pushesStored>>
            BY <4>4 DEF PushLogin
          <5> QED BY <2>0, <4>1, <5>1, LosesMore
        <4> QED BY <2>8, <4>2, <4>3, <4>4
      <3>1. PushesTypeOK'
        <4>1. /\ window' \in {"closed", "hidden", "visible"} /\ user' \in {"in", "out"}
              /\ asking' \in Drains \cup {"none"} /\ events' \in 0..MaxEvents
          BY <2>0, <2>8 DEF PushesTypeOK, CloseWindow, FlushMemory, PushLogin, Event
        <4>2. /\ memory' \in {memory, << >>} /\ pushesStored' \in {pushesStored, << >>}
              /\ applied' \subseteq Pushes
              /\ UNCHANGED <<push, pushesSeen, drain>>
          BY <2>0, <2>8 DEF PushesTypeOK, CloseWindow, FlushMemory, PushLogin
        <4>3. /\ memory' \in Seq(Pushes) /\ Len(memory') <= MaxMemory
              /\ pushesStored' \in Seq(Pushes) /\ Len(pushesStored') <= MaxPushes
          <5>1. << >> \in Seq(Pushes) /\ Len(<< >>) = 0 /\ MaxMemory >= 0 /\ MaxPushes >= 0
            BY <2>0
          <5> QED BY <2>00, <4>2, <5>1 DEF PushesTypeOK
        <4>4. applied' \subseteq Pushes /\ UNCHANGED <<push, pushesSeen, drain>>
          BY <4>2
        <4> QED BY <2>00, <3>3, <4>1, <4>3, <4>4 DEF PushesTypeOK
      <3>2. HeldPushes \subseteq HeldPushes' /\ HeardPushes \subseteq HeardPushes' /\ push' = push
        <4>1. /\ LostBy(QueueCauses) \subseteq LostBy(QueueCauses)'
              /\ LostBy({"limit", "page"}) \subseteq LostBy({"limit", "page"})'
              /\ pushesLost'["page"] \subseteq LostBy({"limit", "page"})'
              /\ pushesLost'["login"] \subseteq LostBy(QueueCauses)'
          <5>1. "login" \in QueueCauses
            BY DEF QueueCauses
          <5> QED BY <3>3, <5>1, LostStayLost
        <4>2. UNCHANGED <<push, drain>> /\ applied \subseteq applied'
          BY <2>8 DEF CloseWindow, FlushMemory, PushLogin
        <4>3. Drained' = Drained
          BY <4>2 DEF Drained
        <4> QED BY <3>3, <4>1, <4>2, <4>3 DEF HeldPushes, HeardPushes
      <3> QED BY <3>1, <3>2, NothingLeaves
    <2>9. CASE PushWorkerStops
      <3>1. Drained \subseteq Pushes
        BY <2>0 DEF Drained
      <3>2. /\ \A q \in Pushes : push'[q] \in {push[q], "stopped"}
            /\ push' \in [Pushes -> PushStates]
            /\ Lose("unanswered", Drained) /\ drain' = [d \in Drains |-> NoDrain]
            /\ events' \in 0..MaxEvents
            /\ UNCHANGED <<pushesSeen, pushesStored, asking, window, user, memory, applied>>
        BY <2>00, <2>9 DEF PushWorkerStops, Event, PushesTypeOK, PushStates
      <3>5. /\ pushesLost' \in [LossCauses -> SUBSET Pushes]
            /\ \A c \in LossCauses : pushesLost[c] \subseteq pushesLost'[c]
            /\ Drained \subseteq pushesLost'["unanswered"]
        <4>1. "unanswered" \in LossCauses
          BY DEF LossCauses
        <4> QED BY <2>0, <3>1, <3>2, <4>1, LosesMore
      <3>3. PushesTypeOK'
        <4>1. drain' \in [Drains -> Draining]
          BY <2>0, <3>2
        <4>2. /\ push' \in [Pushes -> PushStates] /\ events' \in 0..MaxEvents
              /\ UNCHANGED <<pushesSeen, pushesStored, asking, window, user, memory, applied>>
          BY <3>2
        <4> QED BY <2>00, <3>5, <4>1, <4>2 DEF PushesTypeOK, PushStates, Draining
      <3>4. HeldPushes \subseteq HeldPushes' /\ HeardPushes \subseteq HeardPushes'
        <4>1. /\ LostBy(QueueCauses) \subseteq LostBy(QueueCauses)'
              /\ LostBy({"limit", "page"}) \subseteq LostBy({"limit", "page"})'
              /\ pushesLost'["unanswered"] \subseteq LostBy(QueueCauses)'
          <5>1. "unanswered" \in QueueCauses
            BY DEF QueueCauses
          <5> QED BY <3>5, <5>1, LostStayLost
        <4> QED BY <3>2, <3>5, <4>1 DEF HeldPushes, HeardPushes
      <3> QED BY <3>2, <3>3, <3>4, NothingLeaves
    <2>10. CASE UNCHANGED pushVars
      BY <2>10
         DEF pushVars, PushesInv, PushesTypeOK, PostedIsHeard, KeptIsHeld,
             HeldPushes, HeardPushes, Drained, LostBy
    <2> QED BY <2>1, <2>2, <2>3, <2>4, <2>5, <2>6, <2>7, <2>8, <2>9, <2>10 DEF PushesNext
  <1>3. PushesInv => PushesTypeOK /\ PushIsKept
    BY DEF PushesInv, PostedIsHeard, KeptIsHeld, HeldPushes, HeardPushes, PushIsKept,
           QueueCauses
  <1> QED BY <1>1, <1>2, <1>3, PTL DEF PushesSpec

HIDE PendingAssumption

-----------------------------------------------------------------------------
(* Catching up with what was missed. A row the page misses is covered, by  *)
(* what it holds or what is on its way, unless it is newer than all it     *)
(* holds; while pages are asked, everything above since that was passed is *)
(* covered.                                                                *)
USE RecoveryAssumption

\* The rows of S newer than m, as many as the rank of m; the rows held or on
\* their way here, or excepted.
Newer(S, m) == {k \in S : Ts[k] > Ts[m]}
Covered     == held \cup mailbox \cup poll.got \cup excused

\* While pages are asked, the rows above since that were passed are covered ...
PagesCovered ==
    ask.state = "asking" =>
        \A m \in Above(ask.since) :
            Cardinality(Newer(Above(ask.since), m)) < ask.offset => m \in ask.got \cup Covered
\* ... and once the last one was read, all of them.
AnswerCovered ==
    ask.state = "done" /\ ask.got # {} => Above(ask.since) \subseteq ask.got \cup Covered
\* What a recovery does not ask for is covered, or newer than all that is held.
OlderCovered ==
    ask.state # "idle" => \A m \in rows \ Covered : Ts[m] > ask.since
NewestStays ==
    ask.state # "idle" /\ ask.since > 0 => \A m \in rows \ Covered : Ts[m] > Latest(held)
\* What rests, holds nothing; what is saved is held.
AtRest ==
    /\ recoveryDisk \subseteq held
    /\ ask.state = "idle" => ask = NoAsk
    /\ poll.state = "idle" => poll = NoPoll
\* Until everything is cleared each row is covered.
UnclearedIsCovered == cleared = "no" => rows \subseteq Covered
AllFinite ==
    IsFiniteSet(rows) /\ IsFiniteSet(mailbox) /\ IsFiniteSet(held) /\ IsFiniteSet(poll.got)

\* The inductive invariant.
RecoveryInv ==
    /\ RecoveryTypeOK /\ AllFinite /\ AtRest
    /\ UnclearedIsCovered /\ OlderCovered /\ NewestStays /\ PagesCovered /\ AnswerCovered
    /\ NothingBelow

(* Among finitely many rows with stamps of their own every rank is taken   *)
(* once: what paging by offset relies on.                                  *)
LEMMA RanksAreHit ==
  ASSUME NEW A \in SUBSET Msgs, IsFiniteSet(A)
  PROVE  /\ \A m \in A : Cardinality(Newer(A, m)) \in 0 .. Cardinality(A) - 1
         /\ \A m, k \in A : Cardinality(Newer(A, m)) = Cardinality(Newer(A, k)) => m = k
         /\ \A r \in 0 .. Cardinality(A) - 1 : \E m \in A : Cardinality(Newer(A, m)) = r
  <1>1. \A m \in A : Newer(A, m) \subseteq A /\ m \notin Newer(A, m) /\ Ts[m] \in Nat
    BY DEF Newer, Msgs
  <1>2. \A m \in A : /\ IsFiniteSet(Newer(A, m))
                     /\ Cardinality(Newer(A, m)) \in Nat
                     /\ Cardinality(Newer(A, m)) <= Cardinality(A)
                     /\ Cardinality(Newer(A, m)) # Cardinality(A)
    <2> TAKE m \in A
    <2>1. Newer(A, m) \in SUBSET A /\ Newer(A, m) # A
      BY <1>1
    <2> QED BY <2>1, FS_Subset, FS_CardinalityType
  <1>3. Cardinality(A) \in Nat
    BY FS_CardinalityType
  <1>4. \A m \in A : Cardinality(Newer(A, m)) \in 0 .. Cardinality(A) - 1
    BY <1>2, <1>3
  <1>5. ASSUME NEW m \in A, NEW k \in A, Ts[m] < Ts[k]
        PROVE  Cardinality(Newer(A, k)) < Cardinality(Newer(A, m))
    <2>1. Newer(A, k) \in SUBSET Newer(A, m) /\ k \in Newer(A, m) /\ k \notin Newer(A, k)
      BY <1>1, <1>5 DEF Newer
    <2>2. /\ Cardinality(Newer(A, k)) <= Cardinality(Newer(A, m))
          /\ Cardinality(Newer(A, m)) # Cardinality(Newer(A, k))
      BY <1>2, <2>1, FS_Subset
    <2> QED BY <1>2, <2>2
  <1>6. \A m, k \in A : Cardinality(Newer(A, m)) = Cardinality(Newer(A, k)) => m = k
    <2> TAKE m, k \in A
    <2>1. CASE Ts[m] = Ts[k]
      BY <2>1 DEF Msgs
    <2>2. CASE Ts[m] < Ts[k]
      BY <2>2, <1>5, <1>2
    <2>3. CASE Ts[k] < Ts[m]
      BY <2>3, <1>5, <1>2
    <2> QED BY <2>1, <2>2, <2>3, <1>1
  <1> DEFINE rank == [m \in A |-> Cardinality(Newer(A, m))]
             Ranks == 0 .. Cardinality(A) - 1
  <1>7. rank \in Injection(A, Ranks)
    <2>1. rank \in [A -> Ranks]
      BY <1>4
    <2>2. \A m, k \in A : rank[m] = rank[k] => m = k
      BY <1>6
    <2> HIDE DEF rank, Ranks
    <2> QED BY <2>1, <2>2, Fun_IsInj
  <1>8. IsFiniteSet(Ranks) /\ Cardinality(Ranks) = Cardinality(A)
    <2> DEFINE last == Cardinality(A) - 1
    <2>1. 0 \in Int /\ last \in Int
      BY <1>3
    <2>2. IsFiniteSet(0 .. last) /\ Cardinality(0 .. last) = IF 0 > last THEN 0 ELSE last - 0 + 1
      <3> HIDE DEF last
      <3> QED BY <2>1, FS_Interval
    <2> QED BY <2>2, <1>3
  <1>9. rank \in Surjection(A, Ranks)
    <2> HIDE DEF rank, Ranks
    <2> QED BY <1>7, <1>8, FS_Injection
  <1>10. \A r \in Ranks : \E m \in A : rank[m] = r
    <2> HIDE DEF rank, Ranks
    <2> QED BY <1>9, Fun_SurjectionProperties
  <1> QED BY <1>4, <1>6, <1>10

(* Finitely many rows have a newest one, and Latest is its stamp.          *)
LEMMA LatestIsNewest ==
  ASSUME NEW S \in SUBSET Msgs, IsFiniteSet(S)
  PROVE  /\ Latest(S) \in Nat
         /\ \A m \in S : Ts[m] <= Latest(S)
         /\ S = {} => Latest(S) = 0
  <1>1. CASE S = {}
    BY <1>1 DEF Latest
  <1>2. CASE S # {}
    <2>1. Cardinality(S) \in Nat /\ Cardinality(S) # 0
      BY <1>2, FS_CardinalityType, FS_EmptySet
    <2>2. PICK m \in S : Cardinality(Newer(S, m)) = 0
      BY <2>1, RanksAreHit
    <2>3. Newer(S, m) = {}
      <3>1. Newer(S, m) \in SUBSET S
        BY DEF Newer
      <3> QED BY <2>2, <3>1, FS_Subset, FS_EmptySet
    <2>4. Ts[m] \in {Ts[k] : k \in S} /\ \A k \in S : Ts[k] \in Nat /\ Ts[k] <= Ts[m]
      BY <2>3 DEF Newer, Msgs
    <2>5. \E from \in {Ts[k] : k \in S} : \A k \in S : Ts[k] <= from
      BY <2>4
    <2>6. Latest(S) \in {Ts[k] : k \in S} /\ \A k \in S : Ts[k] <= Latest(S)
      BY <1>2, <2>5 DEF Latest
    <2> QED BY <1>2, <2>4, <2>6
  <1> QED BY <1>1, <1>2

(* A page holds the rows with the ranks it asks for; one that is not full  *)
(* holds all from its offset on.                                           *)
LEMMA PagesFill ==
  ASSUME NEW from \in Nat, NEW offset \in Nat, NEW size \in Nat, rows \subseteq Msgs, IsFiniteSet(rows)
  PROVE  LET page == PageOf(from, offset, size)
             rank(m) == Cardinality(Newer(Above(from), m))
         IN  /\ page \subseteq Above(from) /\ IsFiniteSet(page)
             /\ Cardinality(page) \in 0 .. size
             /\ \A m \in Above(from) : rank(m) \in offset .. offset + size - 1 => m \in page
             /\ Cardinality(page) < size => \A m \in Above(from) : rank(m) >= offset => m \in page
  <1> DEFINE A == Above(from)
             page == PageOf(from, offset, size)
             rank(m) == Cardinality(Newer(A, m))
             Slots == offset .. offset + size - 1
  <1>1. A \in SUBSET rows /\ A \in SUBSET Msgs
    BY DEF Above
  <1>2. IsFiniteSet(A)
    BY <1>1, FS_Subset
  <1>3. page = {m \in A : rank(m) \in Slots}
    BY DEF PageOf, Newer
  <1>4. page \in SUBSET A /\ IsFiniteSet(page) /\ Cardinality(page) \in Nat
    BY <1>2, <1>3, FS_Subset, FS_CardinalityType
  <1>5. /\ \A m \in A : rank(m) \in 0 .. Cardinality(A) - 1
        /\ \A m, k \in A : rank(m) = rank(k) => m = k
        /\ \A r \in 0 .. Cardinality(A) - 1 : \E m \in A : rank(m) = r
    <2> HIDE DEF A
    <2> QED BY <1>1, <1>2, RanksAreHit
  <1>6. Cardinality(A) \in Nat
    BY <1>2, FS_CardinalityType
  <1>7. IsFiniteSet(Slots) /\ Cardinality(Slots) = size
    <2> DEFINE last == offset + size - 1
    <2>1. offset \in Int /\ last \in Int
      OBVIOUS
    <2>2. /\ IsFiniteSet(offset .. last)
          /\ Cardinality(offset .. last) = IF offset > last THEN 0 ELSE last - offset + 1
      <3> HIDE DEF last
      <3> QED BY <2>1, FS_Interval
    <2> QED BY <2>2
  <1> HIDE DEF A, page, rank, Slots
  <1>8. Cardinality(page) <= size
    <2> DEFINE slot == [m \in page |-> rank(m)]
    <2>1. slot \in [page -> Slots] /\ \A m, k \in page : slot[m] = slot[k] => m = k
      BY <1>3, <1>4, <1>5
    <2> HIDE DEF slot
    <2>2. slot \in Injection(page, Slots)
      BY <2>1, Fun_IsInj
    <2> QED BY <2>2, <1>7, FS_Injection
  <1>9. ASSUME Cardinality(page) < size, NEW m \in A, rank(m) >= offset
        PROVE  m \in page
    <2> SUFFICES ASSUME rank(m) \notin Slots PROVE FALSE
      BY <1>3
    <2>1. offset + size <= rank(m) /\ rank(m) < Cardinality(A)
      BY <1>5, <1>6, <1>9 DEF Slots
    <2>2. \A r \in Slots : r \in 0 .. Cardinality(A) - 1
      BY <2>1, <1>5, <1>6 DEF Slots
    <2>3. \A r \in Slots : \E k \in page : rank(k) = r
      BY <2>2, <1>3, <1>5
    <2> DEFINE at == [r \in Slots |-> CHOOSE k \in page : rank(k) = r]
    <2>4. at \in [Slots -> page] /\ \A r \in Slots : rank(at[r]) = r
      BY <2>3
    <2> HIDE DEF at
    <2>5. \A r, q \in Slots : at[r] = at[q] => r = q
      BY <2>4
    <2>6. at \in Injection(Slots, page)
      BY <2>4, <2>5, Fun_IsInj
    <2>7. Cardinality(Slots) <= Cardinality(page)
      BY <2>6, <1>4, FS_Injection
    <2> QED BY <2>7, <1>7, <1>9, <1>4
  <1>10. /\ page \subseteq A /\ IsFiniteSet(page) /\ Cardinality(page) \in 0 .. size
         /\ \A m \in A : rank(m) \in Slots => m \in page
         /\ Cardinality(page) < size => \A m \in A : rank(m) >= offset => m \in page
    BY <1>3, <1>4, <1>8, <1>9
  <1> QED BY <1>10 DEF A, page, rank, Slots

\* Rows that were covered stay covered, and new ones are.
CoverageStays ==
    /\ Covered \subseteq Covered' /\ rows' \subseteq rows \cup Covered'

(* While a recovery waits, pushes, polls and commits leave what it has     *)
(* read as complete as it was.                                             *)
LEMMA AskKeeps ==
  ASSUME RecoveryInv, RecoveryTypeOK', AllFinite', AtRest', CoverageStays,
         UNCHANGED <<ask, cleared>>, rows \subseteq rows'
  PROVE  UnclearedIsCovered' /\ OlderCovered' /\ PagesCovered' /\ AnswerCovered'
  <1>1. UnclearedIsCovered'
    BY DEF RecoveryInv, UnclearedIsCovered, CoverageStays
  <1>2. OlderCovered'
    BY DEF RecoveryInv, OlderCovered, CoverageStays
  <1>4. AnswerCovered'
    BY DEF RecoveryInv, AnswerCovered, CoverageStays, Above
  <1>5. PagesCovered'
    <2> SUFFICES ASSUME ask.state = "asking", NEW m \in Above(ask.since)',
                        Cardinality(Newer(Above(ask.since), m)') < ask.offset
                 PROVE  m \in ask.got \cup Covered'
      BY DEF PagesCovered
    <2>1. CASE m \notin rows
      BY <2>1 DEF Above, CoverageStays
    <2>2. CASE m \in rows
      <3>1. m \in Above(ask.since)
        BY <2>2 DEF Above
      <3>2. Newer(Above(ask.since), m) \in SUBSET (Newer(Above(ask.since), m)')
        BY DEF Newer, Above
      <3>3. IsFiniteSet(Newer(Above(ask.since), m)')
        <4>1. Newer(Above(ask.since), m)' \in SUBSET rows'
          BY DEF Newer, Above
        <4> QED BY <4>1, FS_Subset DEF AllFinite
      <3>4. Cardinality(Newer(Above(ask.since), m)) <= Cardinality(Newer(Above(ask.since), m)')
        BY <3>2, <3>3, FS_Subset
      <3>5. /\ Cardinality(Newer(Above(ask.since), m)) \in Nat
            /\ Cardinality(Newer(Above(ask.since), m)') \in Nat
        BY <3>2, <3>3, FS_Subset, FS_CardinalityType
      <3>6. Cardinality(Newer(Above(ask.since), m)) < ask.offset
        BY <3>4, <3>5 DEF RecoveryInv, RecoveryTypeOK
      <3> QED BY <3>1, <3>6 DEF RecoveryInv, PagesCovered, CoverageStays
    <2> QED BY <2>1, <2>2
  <1> QED BY <1>1, <1>2, <1>4, <1>5

(* What is not held and not below the newest held is newer.                *)
LEMMA NewerThanHeld ==
  ASSUME NEW S \in SUBSET Msgs, IsFiniteSet(S), NEW m \in Msgs \ S, m \notin Below(S)
  PROVE  Ts[m] > Latest(S)
  BY LatestIsNewest DEF Below, Msgs

(* A stored message the page misses is on its way, in reach of a recovery, *)
(* newer than all that is held, or excepted                                *)
(* (recoverMissedMessagesFromLogs, pullMessages), for any messages,        *)
(* stamps, page size, limit and number of failures.                        *)
THEOREM NothingBelowInvariant == RecoverySpec => [](RecoveryTypeOK /\ NothingBelow)
  <1>1. RecoveryInit => RecoveryInv
    <2>1. SUFFICES ASSUME RecoveryInit PROVE RecoveryInv
      OBVIOUS
    <2>2. IsFiniteSet({})
      BY FS_EmptySet
    <2> QED BY <2>1, <2>2
        DEF RecoveryInit, RecoveryInv, RecoveryTypeOK, AllFinite, AtRest, NoAsk, NoPoll, Covered,
            UnclearedIsCovered, OlderCovered, NewestStays, PagesCovered, AnswerCovered, NothingBelow
  <1>2. RecoveryInv /\ [RecoveryNext]_recVars => RecoveryInv'
    <2> SUFFICES ASSUME RecoveryInv, [RecoveryNext]_recVars PROVE RecoveryInv'
      OBVIOUS
    <2>0. /\ RecoveryTypeOK /\ AllFinite /\ AtRest
          /\ UnclearedIsCovered /\ OlderCovered /\ NewestStays /\ PagesCovered /\ AnswerCovered
          /\ NothingBelow
      BY DEF RecoveryInv
    <2>00. /\ Latest(held) \in Nat /\ \A m \in held : Ts[m] <= Latest(held)
           /\ \A m \in Msgs : Ts[m] \in Nat \ {0}
      BY <2>0, LatestIsNewest DEF RecoveryTypeOK, AllFinite, Msgs
    <2>1. ASSUME NEW m \in Msgs, Commit(m) PROVE RecoveryInv'
      <3>1. /\ rows' = rows \cup {m} /\ m \in Covered' /\ Covered \subseteq Covered'
            /\ UNCHANGED <<held, recoveryDisk, poll, ask, excused, cleared, recoveryFaults>>
            /\ mailbox \subseteq mailbox' /\ (mailbox' = mailbox \/ mailbox' = mailbox \cup {m})
        BY <2>0, <2>1 DEF Commit, Covered, AtRest, RecoveryTypeOK
      <3>2. RecoveryTypeOK' /\ AtRest'
        BY <2>0, <2>1 DEF Commit, RecoveryTypeOK, AtRest, Msgs
      <3>3. AllFinite'
        <4>1. IsFiniteSet(rows \cup {m}) /\ IsFiniteSet(mailbox \cup {m})
          BY <2>0, FS_AddElement DEF AllFinite
        <4> QED BY <2>0, <3>1, <4>1 DEF AllFinite
      <3>4. CoverageStays
        BY <3>1 DEF CoverageStays
      <3>5. NewestStays' /\ NothingBelow'
        BY <2>0, <3>1 DEF NewestStays, NothingBelow, Covered
      <3>6. UnclearedIsCovered' /\ OlderCovered' /\ PagesCovered' /\ AnswerCovered'
        BY <3>1, <3>2, <3>3, <3>4, AskKeeps
      <3> QED BY <3>2, <3>3, <3>5, <3>6 DEF RecoveryInv
    <2>2. ASSUME NEW m \in Msgs, Deliver(m) PROVE RecoveryInv'
      <3>1. /\ held' = held \cup {m} /\ excused' = excused \cup Below(held')
            /\ UNCHANGED <<rows, mailbox, recoveryDisk, poll, ask, cleared, recoveryFaults>>
        BY <2>2 DEF Deliver
      <3>2. RecoveryTypeOK' /\ AtRest'
        BY <2>0, <3>1 DEF RecoveryTypeOK, AtRest, Below
      <3>3. AllFinite'
        <4>1. IsFiniteSet(held \cup {m})
          BY <2>0, FS_AddElement DEF AllFinite
        <4> QED BY <2>0, <3>1, <4>1 DEF AllFinite
      <3>4. CoverageStays
        BY <3>1 DEF CoverageStays, Covered
      <3>5. \A k \in rows \ Covered' : Ts[k] > Latest(held')
        BY <3>1, <3>2, <3>3, NewerThanHeld DEF RecoveryTypeOK, AllFinite, Covered
      <3>6. NewestStays' /\ NothingBelow'
        BY <3>1, <3>5 DEF NewestStays, NothingBelow, Covered
      <3>7. UnclearedIsCovered' /\ OlderCovered' /\ PagesCovered' /\ AnswerCovered'
        BY <3>1, <3>2, <3>3, <3>4, AskKeeps
      <3> QED BY <3>2, <3>3, <3>6, <3>7 DEF RecoveryInv
    <2>3. ASSUME Poll PROVE RecoveryInv'
      <3>1. /\ poll' = [state |-> "asked", got |-> mailbox] /\ mailbox' = {}
            /\ poll.state = "idle" /\ poll.got = {}
            /\ UNCHANGED <<rows, held, recoveryDisk, ask, excused, cleared, recoveryFaults>>
        BY <2>0, <2>3 DEF Poll, AtRest, NoPoll
      <3>2. RecoveryTypeOK' /\ AtRest'
        BY <2>0, <3>1 DEF RecoveryTypeOK, AtRest
      <3>3. AllFinite'
        BY <2>0, <3>1, FS_EmptySet DEF AllFinite
      <3>4. Covered' = Covered /\ CoverageStays
        BY <3>1 DEF CoverageStays, Covered
      <3>5. NewestStays' /\ NothingBelow'
        BY <2>0, <3>1, <3>4 DEF NewestStays, NothingBelow, Covered
      <3>6. UnclearedIsCovered' /\ OlderCovered' /\ PagesCovered' /\ AnswerCovered'
        BY <3>1, <3>2, <3>3, <3>4, AskKeeps
      <3> QED BY <3>2, <3>3, <3>5, <3>6 DEF RecoveryInv
    <2>4. ASSUME PollArrives PROVE RecoveryInv'
      <3>1. /\ held' = held \cup poll.got /\ poll' = NoPoll
            /\ UNCHANGED <<rows, mailbox, recoveryDisk, ask, cleared, recoveryFaults>>
            /\ \/ excused' = excused \cup Below(held')
               \/ excused' = excused /\ cleared = "no"
               \/ /\ excused' = excused /\ ask.since = 0
                  /\ ask.state = "asking" \/ ask.got # {}
        BY <2>4 DEF PollArrives
      <3>2. RecoveryTypeOK' /\ AtRest'
        BY <2>0, <3>1 DEF RecoveryTypeOK, AtRest, NoPoll, Below, Msgs
      <3>3. AllFinite'
        <4>1. IsFiniteSet(held \cup poll.got) /\ IsFiniteSet({})
          BY <2>0, FS_Union, FS_EmptySet DEF AllFinite
        <4> QED BY <2>0, <3>1, <4>1 DEF AllFinite, NoPoll
      <3>4. CoverageStays
        BY <3>1 DEF CoverageStays, Covered, NoPoll
      <3>5. UnclearedIsCovered' /\ OlderCovered' /\ PagesCovered' /\ AnswerCovered'
        BY <3>1, <3>2, <3>3, <3>4, AskKeeps
      <3>6. CASE excused' = excused \cup Below(held')
        <4>1. \A k \in rows \ Covered' : Ts[k] > Latest(held')
          BY <3>1, <3>2, <3>3, <3>6, NewerThanHeld DEF RecoveryTypeOK, AllFinite, Covered
        <4>2. NewestStays' /\ NothingBelow'
          BY <3>1, <4>1 DEF NewestStays, NothingBelow, Covered
        <4> QED BY <3>2, <3>3, <3>5, <4>2 DEF RecoveryInv
      <3>7. CASE cleared = "no"
        <4>1. rows' \subseteq Covered'
          BY <3>1, <3>5, <3>7 DEF UnclearedIsCovered
        <4>2. NewestStays' /\ NothingBelow'
          BY <4>1 DEF NewestStays, NothingBelow, Covered
        <4> QED BY <3>2, <3>3, <3>5, <4>2 DEF RecoveryInv
      <3>8. CASE ask.since = 0 /\ (ask.state = "asking" \/ ask.got # {})
        <4>1. \A k \in rows : Ts[k] > ask.since /\ k \in Above(ask.since)
          BY <2>0, <2>00, <3>8 DEF Above, RecoveryTypeOK
        <4>2. ask.state = "asking" \/ (ask.state = "done" /\ ask.got # {})
          BY <2>0, <3>8 DEF RecoveryTypeOK, AtRest, NoAsk
        <4>3. ask.state = "done" => rows' \subseteq (ask.got \cup Covered)'
          BY <2>0, <3>1, <3>4, <4>1, <4>2 DEF AnswerCovered, CoverageStays
        <4>4. NewestStays' /\ NothingBelow'
          BY <2>00, <3>1, <3>8, <4>1, <4>2, <4>3 DEF NewestStays, NothingBelow, Covered
        <4> QED BY <3>2, <3>3, <3>5, <4>4 DEF RecoveryInv
      <3> QED BY <3>1, <3>6, <3>7, <3>8
    <2>5. ASSUME PollLost PROVE RecoveryInv'
      <3>1. /\ excused' = excused \cup poll.got /\ poll' = NoPoll
            /\ UNCHANGED <<rows, mailbox, held, recoveryDisk, ask, cleared>>
        BY <2>5 DEF PollLost
      <3>2. RecoveryTypeOK' /\ AtRest'
        BY <2>0, <2>5, <3>1, RecoveryAssumption 
           DEF PollLost, RecoveryFault, RecoveryTypeOK, AtRest, NoPoll, Msgs
      <3>3. AllFinite'
        BY <2>0, <3>1, FS_EmptySet DEF AllFinite, NoPoll
      <3>4. Covered' = Covered /\ CoverageStays
        BY <3>1 DEF CoverageStays, Covered, NoPoll
      <3>5. NewestStays' /\ NothingBelow'
        BY <2>0, <3>1, <3>4 DEF NewestStays, NothingBelow, Covered
      <3>6. UnclearedIsCovered' /\ OlderCovered' /\ PagesCovered' /\ AnswerCovered'
        BY <3>1, <3>2, <3>3, <3>4, AskKeeps
      <3> QED BY <3>2, <3>3, <3>5, <3>6 DEF RecoveryInv
    <2>6. ASSUME Recover PROVE RecoveryInv'
      <3>1. /\ ask.state = "idle" /\ ask = NoAsk
            /\ ask' = [state |-> "asking", since |-> Latest(held), offset |-> 0, got |-> {}]
            /\ UNCHANGED <<rows, mailbox, held, recoveryDisk, poll, excused, cleared,
                            recoveryFaults>>
        BY <2>0, <2>6 DEF Recover, AtRest
      <3>2. RecoveryTypeOK' /\ AllFinite' /\ AtRest' /\ UnclearedIsCovered'
        BY <2>0, <2>00, <3>1
           DEF RecoveryTypeOK, AllFinite, AtRest, UnclearedIsCovered, Covered
      <3>3. \A m \in rows \ Covered : Ts[m] > Latest(held)
        BY <2>0, <3>1 DEF NothingBelow, Covered, NoAsk
      <3>4. OlderCovered' /\ NewestStays' /\ NothingBelow'
        BY <3>1, <3>3 DEF OlderCovered, NewestStays, NothingBelow, Covered
      <3>5. PagesCovered'
        <4>1. \A m \in Msgs : Newer(Above(Latest(held)), m) \in SUBSET rows
          BY DEF Newer, Above
        <4>2. \A m \in Msgs : Cardinality(Newer(Above(Latest(held)), m)) \in Nat
          BY <2>0, <4>1, FS_Subset, FS_CardinalityType DEF AllFinite
        <4>3. ~ \E m \in Msgs : Cardinality(Newer(Above(Latest(held)), m)) < 0
          BY <4>2
        <4>4. /\ ask'.since = Latest(held) /\ ask'.offset = 0
              /\ Above(ask.since)' = Above(Latest(held)) /\ Above(Latest(held)) \subseteq Msgs
          BY <2>0, <3>1 DEF Above, RecoveryTypeOK
        <4> QED BY <4>3, <4>4 DEF PagesCovered, Newer
      <3>6. AnswerCovered'
        BY <3>1 DEF AnswerCovered
      <3> QED BY <3>2, <3>4, <3>5, <3>6 DEF RecoveryInv
    <2>7. ASSUME AskPage PROVE RecoveryInv'
      <3> DEFINE since == ask.since
                 left == Limit - Cardinality(ask.got)
                 size == IF left < PageSize THEN left ELSE PageSize
                 page == IF since = 0 /\ ask.offset > 0 THEN {} ELSE PageOf(since, ask.offset, size)
                 got  == ask.got \cup page
                 cut  == Cardinality(got) >= Limit \/ (since = 0 /\ ask.offset > 0)
                 last == Cardinality(page) < size \/ Cardinality(got) >= Limit
                 rank(m) == Cardinality(Newer(Above(since), m))
      <3>1. /\ ask.state = "asking"
            /\ ask' = [ask EXCEPT !.got = got, !.offset = @ + Cardinality(page),
                                  !.state = IF last THEN "done" ELSE @]
            /\ excused' = IF cut THEN excused \cup (Above(since) \ got) ELSE excused
            /\ UNCHANGED <<rows, mailbox, held, recoveryDisk, poll, cleared, recoveryFaults>>
        BY <2>7 DEF AskPage
      <3>2. /\ since \in Nat /\ ask.offset \in Nat /\ ask.got \subseteq rows /\ rows \subseteq Msgs
            /\ IsFiniteSet(rows) /\ Above(since) \subseteq rows
            /\ Limit \in Nat \ {0} /\ PageSize \in Nat \ {0}
        BY <2>0, RecoveryAssumption DEF RecoveryTypeOK, AllFinite, Above
      <3>3. IsFiniteSet(ask.got) /\ Cardinality(ask.got) \in Nat /\ left \in Int /\ size \in Int
        <4>1. IsFiniteSet(ask.got) /\ Cardinality(ask.got) \in Nat
          BY <3>2, FS_Subset, FS_CardinalityType
        <4> QED BY <4>1, <3>2
      <3>4. /\ page \subseteq Above(since) /\ IsFiniteSet(page) /\ Cardinality(page) \in Nat
        <4>1. PageOf(since, ask.offset, size) \subseteq Above(since)
          BY DEF PageOf
        <4>2. page \subseteq Above(since) /\ page \in SUBSET rows
          BY <3>2, <4>1
        <4>3. IsFiniteSet(page) /\ Cardinality(page) \in Nat
          BY <3>2, <4>2, FS_Subset, FS_CardinalityType
        <4> QED BY <4>2, <4>3
      <3>5. \A m \in Above(since) : rank(m) \in Nat
        <4>1. \A m \in Msgs : Newer(Above(since), m) \in SUBSET rows
          BY <3>2 DEF Newer
        <4> QED BY <3>2, <4>1, FS_Subset, FS_CardinalityType
      <3>6. ~ cut /\ size \in Nat =>
              /\ Cardinality(page) < size =>
                   \A m \in Above(since) : rank(m) >= ask.offset => m \in page
              /\ Cardinality(page) <= size
              /\ \A m \in Above(since) :
                   rank(m) \in ask.offset .. ask.offset + size - 1 => m \in page
        <4> SUFFICES ASSUME ~ cut, size \in Nat
            PROVE /\ Cardinality(page) < size =>
                       \A m \in Above(since) : rank(m) >= ask.offset => m \in page
                  /\ Cardinality(page) <= size
                  /\ \A m \in Above(since) :
                       rank(m) \in ask.offset .. ask.offset + size - 1 => m \in page
          OBVIOUS
        <4>1. page = PageOf(since, ask.offset, size)
          OBVIOUS
        <4> HIDE DEF page, since, size, cut, left, got, last
        <4>2. /\ Cardinality(page) \in 0 .. size
              /\ \A m \in Above(since) :
                   Cardinality(Newer(Above(since), m)) \in ask.offset .. ask.offset + size - 1
                     => m \in page
              /\ Cardinality(page) < size =>
                   \A m \in Above(since) :
                     Cardinality(Newer(Above(since), m)) >= ask.offset => m \in page
          BY <3>2, <4>1, PagesFill
        <4> QED BY <4>2
      <3> HIDE DEF page, size, left
      <3>7. ~ cut /\ last => size \in Nat /\ Cardinality(page) < size
        <4>1. ASSUME ~ cut, last PROVE Cardinality(page) < size
          <5>1. got \subseteq rows
            BY <3>2, <3>4
          <5>2. Cardinality(got) \in Nat
            BY <3>2, <5>1, FS_Subset, FS_CardinalityType
          <5> QED BY <4>1, <5>2, <3>2
        <4> QED BY <4>1, <3>3, <3>4
      <3>8. ask'.since = since /\ ask'.got = got /\ ask'.offset = ask.offset + Cardinality(page)
            /\ ask'.state = IF last THEN "done" ELSE "asking"
        BY <3>1
      <3>9. Covered \subseteq Covered' /\ got \subseteq rows /\ Above(since)' = Above(since)
        BY <3>1, <3>2, <3>4 DEF Covered, Above
      <3>10. cut => Above(since) \subseteq got \cup Covered'
        BY <3>1 DEF Covered
      <3>11. last => Above(since) \subseteq got \cup Covered'
        <4> SUFFICES ASSUME last, ~ cut, NEW m \in Above(since) PROVE m \in got \cup Covered'
          BY <3>10
        <4>1. CASE rank(m) >= ask.offset
          BY <4>1, <3>6, <3>7
        <4>2. CASE rank(m) < ask.offset
          BY <4>2, <2>0, <3>1, <3>9 DEF PagesCovered
        <4> QED BY <4>1, <4>2, <3>2, <3>5
      <3>12. ASSUME ~ last, NEW m \in Above(since), rank(m) < ask.offset + Cardinality(page)
             PROVE  m \in got \cup Covered'
        <4>1. CASE cut
          BY <4>1, <3>10
        <4>2. CASE ~ cut
          <5>1. Cardinality(page) >= size /\ Cardinality(page) \in Nat
            BY <3>12, <3>3, <3>4
          <5>2. CASE rank(m) < ask.offset
            BY <5>2, <2>0, <3>1, <3>9 DEF PagesCovered
          <5>3. CASE rank(m) >= ask.offset
            <6>1. size \in Nat
              <7>1. Cardinality(ask.got) <= Cardinality(got)
                <8>1. got \subseteq rows /\ ask.got \in SUBSET got
                  BY <3>2, <3>4
                <8>2. IsFiniteSet(got)
                  BY <3>2, <8>1, FS_Subset
                <8> QED BY <8>1, <8>2, FS_Subset
              <7>2. Cardinality(got) \in Nat
                <8>1. got \subseteq rows
                  BY <3>2, <3>4
                <8> QED BY <3>2, <8>1, FS_Subset, FS_CardinalityType
              <7>3. Cardinality(got) < Limit
                BY <4>2, <7>2, <3>2
              <7>4. left > 0
                BY <7>1, <7>2, <7>3, <3>2, <3>3 DEF left
              <7> QED BY <7>4, <3>2, <3>3 DEF size
            <6>2. Cardinality(page) = size
              BY <6>1, <5>1, <4>2, <3>6
            <6> QED BY <6>1, <6>2, <5>3, <4>2, <3>12, <3>6, <3>5, <3>2
          <5> QED BY <5>2, <5>3, <3>2, <3>5
        <4> QED BY <4>1, <4>2
      <3>13. RecoveryTypeOK' /\ AllFinite' /\ AtRest'
        <4>1. Above(since) \subseteq Msgs
          BY <3>2
        <4> QED BY <2>0, <3>1, <3>2, <3>4, <3>8, <3>9, <4>1
                DEF RecoveryTypeOK, AllFinite, AtRest
      <3>14. PagesCovered'
        BY <3>8, <3>9, <3>12 DEF PagesCovered
      <3>15. AnswerCovered'
        BY <3>8, <3>9, <3>11 DEF AnswerCovered
      <3>16. UnclearedIsCovered' /\ OlderCovered' /\ NewestStays'
        BY <2>0, <3>1, <3>8, <3>9 DEF UnclearedIsCovered, OlderCovered, NewestStays
      <3>17. NothingBelow'
        <4> SUFFICES ASSUME NEW m \in rows, m \notin Covered', m \notin got, last PROVE FALSE
          BY <2>0, <3>1, <3>8, <3>9 DEF OlderCovered, NothingBelow, Covered
        <4>1. m \in Above(since)
          BY <2>0, <3>1, <3>9 DEF OlderCovered, Above
        <4> QED BY <4>1, <3>11
      <3> QED BY <3>13, <3>14, <3>15, <3>16, <3>17 DEF RecoveryInv
    <2>8. ASSUME ReadFails PROVE RecoveryInv'
      <3>1. /\ ask.state = "asking"
            /\ ask' = [ask EXCEPT !.state = "done"]
            /\ excused' = IF ask.got = {} THEN Missed ELSE excused \cup (Above(ask.since) \ ask.got)
            /\ UNCHANGED <<rows, mailbox, held, recoveryDisk, poll, cleared>>
        BY <2>8 DEF ReadFails
      <3>2. ask'.since = ask.since /\ ask'.got = ask.got /\ ask'.offset = ask.offset
            /\ ask'.state = "done"
        BY <3>1
      <3>3. excused \subseteq excused' /\ excused' \subseteq Msgs
        BY <2>0, <3>1 DEF Missed, Below, Above, RecoveryTypeOK
      <3>4. Covered \subseteq Covered' /\ Above(ask.since)' = Above(ask.since)
        BY <3>1, <3>2, <3>3 DEF Covered, Above
      <3>5. RecoveryTypeOK' /\ AllFinite' /\ AtRest'
        BY <2>0, <2>8, <3>1, <3>2, <3>3, RecoveryAssumption
           DEF ReadFails, RecoveryFault, RecoveryTypeOK, AllFinite, AtRest
      <3>6. PagesCovered' /\ UnclearedIsCovered' /\ OlderCovered' /\ NewestStays'
        BY <2>0, <3>1, <3>2, <3>4
           DEF PagesCovered, UnclearedIsCovered, OlderCovered, NewestStays
      <3>7. AnswerCovered'
        BY <3>1, <3>2, <3>4 DEF AnswerCovered, Covered
      <3>8. NothingBelow'
        <4> SUFFICES ASSUME NEW m \in rows, m \notin Covered', m \notin ask.got
                     PROVE  Ts[m] > Latest(held)
          BY <3>1, <3>2 DEF NothingBelow, Covered
        <4>1. m \notin Covered /\ m \in Above(ask.since)
          BY <2>0, <3>1, <3>4 DEF OlderCovered, Above
        <4>2. ask.got = {}
          BY <3>1, <4>1 DEF Covered
        <4>3. CASE ask.since = 0
          <5>1. m \in Msgs \ held /\ m \notin Below(held)
            BY <2>0, <3>1, <4>2, <4>3 DEF Missed, Covered, RecoveryTypeOK
          <5> QED BY <2>0, <5>1, NewerThanHeld DEF RecoveryTypeOK, AllFinite
        <4>4. CASE ask.since > 0
          BY <2>0, <3>1, <4>1, <4>4 DEF NewestStays
        <4> QED BY <2>0, <4>3, <4>4 DEF RecoveryTypeOK
      <3> QED BY <3>5, <3>6, <3>7, <3>8 DEF RecoveryInv
    <2>9. ASSUME AskFails PROVE RecoveryInv'
      <3>1. /\ ask.state = "asking" /\ ask' = NoAsk
            /\ excused' = IF ask.since = 0 THEN excused \cup Below(held) ELSE excused
            /\ UNCHANGED <<rows, mailbox, held, recoveryDisk, poll, cleared>>
        BY <2>9 DEF AskFails, Missed
      <3>2. Covered \subseteq Covered' /\ excused' \subseteq Msgs
        BY <2>0, <3>1 DEF Covered, Below, RecoveryTypeOK
      <3>3. RecoveryTypeOK' /\ AllFinite' /\ AtRest'
        BY <2>0, <2>9, <3>1, <3>2, RecoveryAssumption
           DEF AskFails, RecoveryFault, RecoveryTypeOK, AllFinite, AtRest, NoAsk
      <3>4. /\ PagesCovered' /\ AnswerCovered' /\ UnclearedIsCovered' /\ OlderCovered'
            /\ NewestStays'
        BY <2>0, <3>1, <3>2
           DEF PagesCovered, AnswerCovered, UnclearedIsCovered, OlderCovered, NewestStays, NoAsk
      <3>5. NothingBelow'
        <4> SUFFICES ASSUME NEW m \in rows, m \notin Covered' PROVE Ts[m] > Latest(held)
          BY <3>1 DEF NothingBelow, Covered
        <4>1. CASE ask.since = 0
          <5>1. m \in Msgs \ held /\ m \notin Below(held)
            BY <2>0, <3>1, <4>1 DEF Covered, RecoveryTypeOK
          <5> QED BY <2>0, <5>1, NewerThanHeld DEF RecoveryTypeOK, AllFinite
        <4>2. CASE ask.since > 0
          BY <2>0, <3>1, <3>2, <4>2 DEF NewestStays
        <4> QED BY <2>0, <4>1, <4>2 DEF RecoveryTypeOK
      <3> QED BY <3>3, <3>4, <3>5 DEF RecoveryInv
    <2>10. ASSUME ApplyRows PROVE RecoveryInv'
      <3>1. /\ ask.state = "done" /\ ask' = NoAsk
            /\ held' = held \cup ask.got
            /\ cleared' = IF ask.got = {} THEN cleared ELSE "no"
            /\ UNCHANGED <<rows, mailbox, recoveryDisk, poll, excused, recoveryFaults>>
        BY <2>10 DEF ApplyRows
      <3>2. Covered' = Covered \cup ask.got
        BY <3>1 DEF Covered
      <3>3. AllFinite'
        <4>1. IsFiniteSet(ask.got)
          BY <2>0, FS_Subset DEF AllFinite, RecoveryTypeOK
        <4>2. IsFiniteSet(held \cup ask.got)
          BY <2>0, <4>1, FS_Union DEF AllFinite
        <4> QED BY <2>0, <3>1, <4>2 DEF AllFinite
      <3>4. RecoveryTypeOK' /\ AtRest'
        BY <2>0, <3>1 DEF RecoveryTypeOK, AtRest, NoAsk
      <3>5. PagesCovered' /\ AnswerCovered' /\ OlderCovered' /\ NewestStays'
        BY <3>1 DEF PagesCovered, AnswerCovered, OlderCovered, NewestStays, NoAsk
      <3>6. CASE ask.got = {}
        <4>1. UnclearedIsCovered' /\ NothingBelow'
          BY <2>0, <3>1, <3>2, <3>6 DEF UnclearedIsCovered, NothingBelow, NoAsk
        <4> QED BY <3>3, <3>4, <3>5, <4>1 DEF RecoveryInv
      <3>7. CASE ask.got # {}
        <4>1. rows \subseteq Covered'
          <5> SUFFICES ASSUME NEW m \in rows, m \notin Covered' PROVE FALSE
            OBVIOUS
          <5>1. m \in Above(ask.since)
            BY <2>0, <3>1, <3>2 DEF OlderCovered, Above
          <5> QED BY <2>0, <3>1, <3>2, <3>7, <5>1 DEF AnswerCovered
        <4>2. UnclearedIsCovered' /\ NothingBelow'
          BY <3>1, <4>1 DEF UnclearedIsCovered, NothingBelow, Covered
        <4> QED BY <3>3, <3>4, <3>5, <4>2 DEF RecoveryInv
      <3> QED BY <3>6, <3>7
    <2>11. ASSUME RecoveryPersistState PROVE RecoveryInv'
      <3>1. recoveryDisk' = held
            /\ UNCHANGED <<rows, mailbox, held, poll, ask, excused, cleared, recoveryFaults>>
        BY <2>11 DEF RecoveryPersistState
      <3>2. RecoveryTypeOK' /\ AllFinite' /\ AtRest'
        BY <2>0, <3>1 DEF RecoveryTypeOK, AllFinite, AtRest
      <3>3. /\ UnclearedIsCovered' /\ OlderCovered' /\ NewestStays' /\ PagesCovered'
            /\ AnswerCovered' /\ NothingBelow'
        BY <2>0, <3>1 DEF UnclearedIsCovered, OlderCovered, NewestStays, PagesCovered,
                          AnswerCovered, NothingBelow, Covered, Above, Newer
      <3> QED BY <3>2, <3>3 DEF RecoveryInv
    <2>12. ASSUME RecoveryReloadPage PROVE RecoveryInv'
      <3>1. /\ held' = recoveryDisk /\ poll' = NoPoll /\ ask' = NoAsk
            /\ excused' = excused \cup Below(recoveryDisk) \cup poll.got \cup (held \ recoveryDisk)
            /\ UNCHANGED <<rows, mailbox, recoveryDisk, cleared>>
        BY <2>12 DEF RecoveryReloadPage
      <3>2. Covered \subseteq Covered'
        BY <2>0, <3>1 DEF Covered, AtRest
      <3>3. AllFinite'
        <4>1. IsFiniteSet(recoveryDisk) /\ IsFiniteSet({})
          BY <2>0, FS_Subset, FS_EmptySet DEF AllFinite, AtRest
        <4> QED BY <2>0, <3>1, <4>1 DEF AllFinite, NoPoll
      <3>4. RecoveryTypeOK' /\ AtRest'
        BY <2>0, <2>12, <3>1, RecoveryAssumption
           DEF RecoveryReloadPage, RecoveryFault, RecoveryTypeOK, AtRest, NoAsk, NoPoll, Below, Msgs
      <3>5. /\ PagesCovered' /\ AnswerCovered' /\ OlderCovered' /\ NewestStays'
            /\ UnclearedIsCovered'
        BY <2>0, <3>1, <3>2
           DEF PagesCovered, AnswerCovered, OlderCovered, NewestStays, UnclearedIsCovered, NoAsk
      <3>6. NothingBelow'
        <4> SUFFICES ASSUME NEW m \in rows, m \notin Covered' PROVE Ts[m] > Latest(held')
          BY <3>1 DEF NothingBelow, Covered
        <4>1. m \in Msgs \ held' /\ m \notin Below(held')
          BY <2>0, <3>1 DEF Covered, RecoveryTypeOK
        <4> QED BY <3>3, <3>4, <4>1, NewerThanHeld DEF RecoveryTypeOK, AllFinite
      <3> QED BY <3>3, <3>4, <3>5, <3>6 DEF RecoveryInv
    <2>13. ASSUME RecoveryClearAll PROVE RecoveryInv'
      <3>1. /\ held' = {} /\ recoveryDisk' = {} /\ cleared' = "yes"
            /\ excused' = IF poll = NoPoll /\ ask = NoAsk THEN excused ELSE Msgs
            /\ UNCHANGED <<rows, mailbox, poll, ask>>
        BY <2>13 DEF RecoveryClearAll
      <3>2. RecoveryTypeOK' /\ AtRest'
        BY <2>0, <2>13, <3>1, RecoveryAssumption
           DEF RecoveryClearAll, RecoveryFault, RecoveryTypeOK, AtRest
      <3>3. AllFinite'
        BY <2>0, <3>1, FS_EmptySet DEF AllFinite
      <3>4. UnclearedIsCovered'
        BY <3>1 DEF UnclearedIsCovered
      <3>5. ask.state # "idle" => rows \subseteq Covered'
        BY <2>0, <3>1 DEF NoAsk, Covered, RecoveryTypeOK
      <3>6. PagesCovered' /\ AnswerCovered' /\ OlderCovered' /\ NewestStays'
        BY <3>1, <3>5 DEF PagesCovered, AnswerCovered, OlderCovered, NewestStays, Above
      <3>7. Latest(held') = 0
        BY <3>1, FS_EmptySet, LatestIsNewest
      <3>8. NothingBelow'
        BY <2>0, <2>00, <3>1, <3>7 DEF NothingBelow, RecoveryTypeOK
      <3> QED BY <3>2, <3>3, <3>4, <3>6, <3>8 DEF RecoveryInv
    <2>14. CASE UNCHANGED recVars
      <3>1. UNCHANGED <<rows, mailbox, held, recoveryDisk, poll, ask, cleared, excused,
                        recoveryFaults>>
        BY <2>14 DEF recVars
      <3>2. RecoveryTypeOK' /\ AllFinite' /\ AtRest'
        BY <2>0, <3>1 DEF RecoveryTypeOK, AllFinite, AtRest
      <3>3. /\ UnclearedIsCovered' /\ OlderCovered' /\ NewestStays' /\ PagesCovered'
            /\ AnswerCovered' /\ NothingBelow'
        BY <2>0, <3>1 DEF UnclearedIsCovered, OlderCovered, NewestStays, PagesCovered,
                          AnswerCovered, NothingBelow, Covered, Above, Newer
      <3> QED BY <3>2, <3>3 DEF RecoveryInv
    <2> QED BY <2>1, <2>2, <2>3, <2>4, <2>5, <2>6, <2>7, <2>8, <2>9, <2>10,
               <2>11, <2>12, <2>13, <2>14
            DEF RecoveryNext
  <1>3. RecoveryInv => RecoveryTypeOK /\ NothingBelow
    BY DEF RecoveryInv
  <1> QED BY <1>1, <1>2, <1>3, PTL DEF RecoverySpec

HIDE RecoveryAssumption

-----------------------------------------------------------------------------
(* Shuttle orders. A cancellation nobody has seen still waits for its      *)
(* confirmation, and the read it has in hand still shows the order.        *)
USE ShuttleAssumption

CallRecords ==
    [at : {"idle", "stations", "sent", "confirm", "done", "failed"}, kind : {"book", "cancel"},
     trip : ShuttleTrips \cup {NoTrip}, tries : 0..MaxConfirms]
ReaderRecords ==
    [at : {"idle", "waits", "asked", "served"}, forced : {"yes", "no"},
     snap : [ShuttleTrips -> OrderStatuses]]
Dialogs == [awaiting : {"menu", "date", "shift", "station"}, draft : ShuttleTrips \cup {NoTrip}]

\* A cancellation nobody has seen still waits for its confirmation, and the
\* read it has in hand, if any, still shows the order.
UnseenIsShown == \A c \in unseen :
    /\ call[c].at \in {"confirm", "failed"}
    /\ reader[c].at = "served" => reader[c].snap[call[c].trip] = "active"

ShuttleInv == ShuttleTypeOK /\ UnseenIsShown

(* The call at rest and the reader at rest.                                *)
LEMMA ShuttleRecords ==
  /\ Idle \in CallRecords /\ Idle.at = "idle"
  /\ Unread \in ReaderRecords /\ Unread.at = "idle"
  <1>1. 0 \in 0..MaxConfirms
    OBVIOUS
  <1> QED BY <1>1 DEF Idle, Unread, CallRecords, ReaderRecords, OrderStatuses

(* A call that starts has its type.                                        *)
LEMMA NewCall ==
  ASSUME NEW at \in {"stations", "sent"}, NEW ride \in ShuttleTrips \cup {NoTrip}
  PROVE  /\ [Idle EXCEPT !.at = at, !.trip = ride] \in CallRecords
         /\ [Idle EXCEPT !.at = at, !.trip = ride, !.kind = "cancel"] \in CallRecords
  <1>1. ASSUME NEW v \in CallRecords
        PROVE  /\ [v EXCEPT !.at = at] \in CallRecords /\ [v EXCEPT !.trip = ride] \in CallRecords
               /\ [v EXCEPT !.kind = "cancel"] \in CallRecords
    BY DEF CallRecords
  <1> DEFINE v == [Idle EXCEPT !.at = at]
             w == [v EXCEPT !.trip = ride]
  <1>2. v \in CallRecords
    BY <1>1, ShuttleRecords
  <1> HIDE DEF v
  <1>3. w \in CallRecords
    BY <1>1, <1>2
  <1> HIDE DEF w
  <1>4. [w EXCEPT !.kind = "cancel"] \in CallRecords
    BY <1>1, <1>3
  <1> QED BY <1>3, <1>4 DEF v, w

(* The types of one call and of one reader.                                *)
LEMMA CallsAndReaders ==
  ASSUME ShuttleTypeOK
  PROVE  /\ call \in [ShuttleCalls -> CallRecords] /\ reader \in [Readers -> ReaderRecords]
         /\ dialog \in Dialogs
         /\ \A c \in ShuttleCalls : c \in Readers /\ call[c] \in CallRecords
         /\ \A r \in Readers : reader[r] \in ReaderRecords
  BY DEF ShuttleTypeOK, CallRecords, ReaderRecords, Dialogs, Readers

(* A step beside the reads, after which call c is the record u.            *)
LEMMA CallGoesOn ==
  ASSUME ShuttleInv, NEW c \in ShuttleCalls, NEW u \in CallRecords,
         call' = [call EXCEPT ![c] = u],
         c \in unseen => u.at \in {"confirm", "failed"} /\ u.trip = call[c].trip,
         UNCHANGED <<reader, unseen>>
  PROVE  call' \in [ShuttleCalls -> CallRecords] /\ UnseenIsShown'
  <1>1. call \in [ShuttleCalls -> CallRecords] /\ unseen \subseteq ShuttleCalls
    BY CallsAndReaders DEF ShuttleInv, ShuttleTypeOK
  <1> QED BY <1>1 DEF ShuttleInv, UnseenIsShown

(* Reads that only start to wait or to ask show nothing.                   *)
LEMMA ReadsGoOn ==
  ASSUME ShuttleInv, NEW rs \in [Readers -> ReaderRecords],
         \A r \in Readers : rs[r].at = "served" => rs[r] = reader[r],
         reader' = rs, unseen' = unseen, call' = call
  PROVE  UnseenIsShown'
  <1>1. unseen \subseteq Readers
    BY DEF ShuttleInv, ShuttleTypeOK, Readers
  <1> QED BY <1>1 DEF ShuttleInv, UnseenIsShown

(* A reader that asks waits for the read under way or starts one.          *)
LEMMA AskedStarts ==
  ASSUME ShuttleTypeOK, NEW r \in Readers, NEW forced \in {"yes", "no"}, Asked(r, forced)
  PROVE  /\ reader' \in [Readers -> ReaderRecords] /\ ordersFlight' \in Readers \cup {NoRead}
         /\ \A q \in Readers : q # r => reader'[q] = reader[q]
         /\ reader'[r].at \in {"asked", "waits"}
  <1> DEFINE u == [Unread EXCEPT !.at = "asked", !.forced = forced]
             w == [Unread EXCEPT !.at = "waits", !.forced = forced]
  <1>1. u \in ReaderRecords /\ u.at = "asked" /\ w \in ReaderRecords /\ w.at = "waits"
    BY DEF Unread, ReaderRecords, OrderStatuses
  <1>2. \/ reader' = [reader EXCEPT ![r] = u] /\ ordersFlight' = r
        \/ reader' = [reader EXCEPT ![r] = w] /\ ordersFlight' = ordersFlight
    BY DEF Asked
  <1> HIDE DEF u, w
  <1>3. reader \in [Readers -> ReaderRecords]
    BY CallsAndReaders
  <1>4. ordersFlight' \in Readers \cup {NoRead}
    BY <1>2 DEF ShuttleTypeOK
  <1> QED BY <1>1, <1>2, <1>3, <1>4

(* Who is woken by the end of a read was not served by it.                 *)
LEMMA WokenKeeps ==
  ASSUME NEW f \in [Readers -> ReaderRecords]
  PROVE  /\ Woken(f) \in [Readers -> ReaderRecords]
         /\ \A r \in Readers : Woken(f)[r].at = "served" => Woken(f)[r] = f[r]
  <1>1. \A r \in Readers : [f[r] EXCEPT !.at = "asked"] \in ReaderRecords
                           /\ [f[r] EXCEPT !.at = "asked"].at = "asked"
    BY DEF ReaderRecords
  <1> QED BY <1>1 DEF Woken

(* The end of r's read.                                                    *)
LEMMA ReadEnds ==
  ASSUME ShuttleTypeOK, NEW r \in Readers, reader' = Woken([reader EXCEPT ![r] = Unread]),
         NextFlight(Waiting)
  PROVE  /\ reader' \in [Readers -> ReaderRecords] /\ ordersFlight' \in Readers \cup {NoRead}
         /\ reader'[r].at # "served"
         /\ \A q \in Readers : q # r /\ reader'[q].at = "served" => reader'[q] = reader[q]
  <1> DEFINE f == [reader EXCEPT ![r] = Unread]
  <1>1. f \in [Readers -> ReaderRecords] /\ f[r] = Unread
        /\ \A q \in Readers : q # r => f[q] = reader[q]
    BY CallsAndReaders, ShuttleRecords
  <1> HIDE DEF f
  <1>2. /\ reader' \in [Readers -> ReaderRecords]
        /\ \A q \in Readers : reader'[q].at = "served" => reader'[q] = f[q]
    BY <1>1, WokenKeeps DEF f
  <1>3. ordersFlight' \in Readers \cup {NoRead}
    BY DEF NextFlight, Waiting
  <1> QED BY <1>1, <1>2, <1>3, ShuttleRecords

(* A list that is saved has its type.                                      *)
LEMMA SaveOrdersTyped ==
  ASSUME ShuttleTypeOK, NEW saved \in [ShuttleTrips -> OrderStatuses], SaveOrders(saved)
  PROVE  orders' \in [ShuttleTrips -> OrderStatuses] /\ history' \subseteq ShuttleTrips
  BY DEF ShuttleTypeOK, SaveOrders, Pruned, Due

(* The failures stay within their bound.                                   *)
LEMMA FaultTyped ==
  ASSUME ShuttleTypeOK, Fault \/ UNCHANGED shuttleFaults
  PROVE  shuttleFaults' \in 0..MaxShuttleFaults
  BY DEF ShuttleTypeOK, Fault

(* A cancellation said to be confirmed was seen in a list that was read    *)
(* after it (cancelShuttleOrder, confirmShuttleOrderStatus), for any       *)
(* trips, calls, readers and number of tries.                              *)
THEOREM CancelIsConfirmedInvariant ==
  ShuttleSpec => [](ShuttleTypeOK /\ CancelIsConfirmed)
  <1>1. ShuttleInit => ShuttleInv
    <2> SUFFICES ASSUME ShuttleInit PROVE ShuttleInv
      OBVIOUS
    <2>1. sheet \in [ShuttleTrips -> OrderStatuses] /\ orders = sheet
      BY DEF ShuttleInit, OrderStatuses
    <2>2. /\ call \in [ShuttleCalls -> CallRecords] /\ reader \in [Readers -> ReaderRecords]
          /\ dialog \in Dialogs /\ unseen = {}
      BY ShuttleRecords DEF ShuttleInit, Dialogs
    <2>3. ShuttleTypeOK
      BY <2>1, <2>2 DEF ShuttleInit, ShuttleTypeOK, CallRecords, ReaderRecords, Dialogs
    <2> QED BY <2>2, <2>3 DEF ShuttleInv, UnseenIsShown
  <1>2. ShuttleInv /\ [ShuttleNext]_shVars => ShuttleInv'
    <2> SUFFICES ASSUME ShuttleInv, [ShuttleNext]_shVars PROVE ShuttleInv'
      OBVIOUS
    <2>0. /\ ShuttleTypeOK /\ UnseenIsShown /\ unseen \subseteq ShuttleCalls
          /\ call \in [ShuttleCalls -> CallRecords] /\ reader \in [Readers -> ReaderRecords]
          /\ dialog \in Dialogs
          /\ \A c \in ShuttleCalls : c \in Readers /\ call[c] \in CallRecords
      BY CallsAndReaders DEF ShuttleInv, ShuttleTypeOK
    <2>1. CASE Answer
      <3>1. dialog' \in Dialogs
        BY <2>0, <2>1 DEF Answer, Say, Reset, Dialogs
      <3>2. UNCHANGED <<sheet, orders, call, ordersApplied, reader, ordersFlight, access, trip,
                        history, unseen, shuttleFaults>>
        BY <2>1 DEF Answer
      <3> QED BY <2>0, <3>1, <3>2 DEF ShuttleInv, ShuttleTypeOK, UnseenIsShown, Dialogs
    <2>2. CASE CheckAccess
      <3>1. dialog' \in Dialogs
        BY <2>0, <2>2 DEF CheckAccess, Say, Reset, Dialogs
      <3>2. /\ access' \in {"allowed", "denied"} /\ orders' \in [ShuttleTrips -> OrderStatuses]
            /\ UNCHANGED <<sheet, call, ordersApplied, reader, ordersFlight, trip, history, unseen>>
        BY <2>0, <2>2 DEF CheckAccess, ShuttleTypeOK, OrderStatuses
      <3>3. shuttleFaults' \in 0..MaxShuttleFaults
        BY <2>0, <2>2, FaultTyped DEF CheckAccess
      <3> QED BY <2>0, <3>1, <3>2, <3>3
                 DEF ShuttleInv, ShuttleTypeOK, UnseenIsShown, Dialogs
    <2>3. CASE ShuttleReload
      <3>1. /\ call' = [c \in ShuttleCalls |->
                  IF call[c].at = "stations" THEN Idle
                  ELSE [call[c] EXCEPT !.at = IF @ \in {"sent", "confirm"} THEN "failed" ELSE @]]
            /\ reader' = [r \in Readers |-> Unread] /\ ordersFlight' = NoRead
            /\ UNCHANGED <<sheet, dialog, ordersApplied, access, trip, unseen>>
        BY <2>3 DEF ShuttleReload
      <3>2. ASSUME NEW c \in ShuttleCalls
            PROVE  /\ call'[c] \in CallRecords
                   /\ call[c].at \in {"confirm", "failed"} => call'[c].at = "failed"
        BY <2>0, <3>1, ShuttleRecords DEF CallRecords
      <3>3. call' \in [ShuttleCalls -> CallRecords] /\ reader' \in [Readers -> ReaderRecords]
        BY <3>1, <3>2, ShuttleRecords
      <3>4. orders' \in [ShuttleTrips -> OrderStatuses] /\ history' \subseteq ShuttleTrips
            /\ shuttleFaults' \in 0..MaxShuttleFaults
        BY <2>0, <2>3, SaveOrdersTyped, FaultTyped DEF ShuttleReload, ShuttleTypeOK
      <3>5. ShuttleTypeOK'
        BY <2>0, <3>1, <3>3, <3>4 DEF ShuttleTypeOK, CallRecords, ReaderRecords
      <3>6. UnseenIsShown'
        BY <2>0, <3>1, <3>2, ShuttleRecords DEF UnseenIsShown
      <3> QED BY <3>5, <3>6 DEF ShuttleInv
    \* A call that goes on while nothing is read or saved.
    <2>4. ASSUME NEW c \in ShuttleCalls, NEW u \in CallRecords, call' = [call EXCEPT ![c] = u],
                 call[c].at \notin {"confirm", "failed"}, dialog' \in Dialogs,
                 shuttleFaults' \in 0..MaxShuttleFaults,
                 orders' \in [ShuttleTrips -> OrderStatuses], history' \subseteq ShuttleTrips,
                 UNCHANGED <<sheet, ordersApplied, reader, ordersFlight, access, trip, unseen>>
          PROVE  ShuttleInv'
      <3>1. c \notin unseen
        BY <2>0, <2>4 DEF UnseenIsShown
      <3>2. call' \in [ShuttleCalls -> CallRecords] /\ UnseenIsShown'
        BY <2>4, <3>1, CallGoesOn
      <3>3. ShuttleTypeOK'
        BY <2>0, <2>4, <3>2 DEF ShuttleTypeOK, CallRecords, Dialogs
      <3> QED BY <3>2, <3>3 DEF ShuttleInv
    <2>5. /\ shuttleFaults \in 0..MaxShuttleFaults /\ history \subseteq ShuttleTrips
          /\ orders \in [ShuttleTrips -> OrderStatuses] /\ sheet \in [ShuttleTrips -> OrderStatuses]
      BY <2>0 DEF ShuttleTypeOK
    <2>6. ASSUME NEW c \in ShuttleCalls, NEW ride \in ShuttleTrips, PickShift(c, ride)
          PROVE ShuttleInv'
      <3> DEFINE u == [Idle EXCEPT !.at = "stations", !.trip = ride]
      <3>1. u \in CallRecords
        BY NewCall
      <3>2. /\ call' = [call EXCEPT ![c] = u] /\ call[c].at = "idle"
            /\ UNCHANGED <<sheet, orders, dialog, ordersApplied, reader, ordersFlight, access,
                           trip, history, unseen, shuttleFaults>>
        BY <2>6 DEF PickShift
      <3> HIDE DEF u
      <3> QED BY <2>0, <2>4, <2>5, <3>1, <3>2
    <2>7. ASSUME NEW c \in ShuttleCalls, StationsAnswered(c) PROVE ShuttleInv'
      <3>1. /\ call' = [call EXCEPT ![c] = Idle] /\ call[c].at = "stations"
            /\ UNCHANGED <<sheet, orders, ordersApplied, reader, ordersFlight, access, trip,
                           history, unseen>>
        BY <2>7 DEF StationsAnswered
      <3>2. dialog' \in Dialogs
        <4>1. call[c].trip \in ShuttleTrips \cup {NoTrip}
          BY <2>0 DEF CallRecords
        <4>2. Say("station", call[c].trip) \/ Say("menu", NoTrip)
          BY <2>7 DEF StationsAnswered, Reset
        <4> QED BY <4>1, <4>2 DEF Say, Dialogs
      <3>3. shuttleFaults' \in 0..MaxShuttleFaults
        BY <2>0, <2>7, FaultTyped DEF StationsAnswered
      <3> QED BY <2>4, <2>5, <3>1, <3>2, <3>3, ShuttleRecords
    <2>8. ASSUME NEW c \in ShuttleCalls, PickStation(c) PROVE ShuttleInv'
      <3> DEFINE u == [Idle EXCEPT !.at = "sent", !.trip = dialog.draft]
      <3>1. /\ call[c].at = "idle"
            /\ \/ call' = [call EXCEPT ![c] = u] /\ UNCHANGED dialog
               \/ Say("shift", NoTrip) /\ UNCHANGED call
            /\ UNCHANGED <<sheet, orders, ordersApplied, reader, ordersFlight, access, trip,
                           history, unseen, shuttleFaults>>
        BY <2>8 DEF PickStation
      <3>2. u \in CallRecords
        <4>1. dialog.draft \in ShuttleTrips \cup {NoTrip}
          BY <2>0 DEF Dialogs
        <4> QED BY <4>1, NewCall
      <3> HIDE DEF u
      <3>3. dialog' \in Dialogs
        BY <2>0, <3>1 DEF Say, Dialogs
      <3>4. CASE call' = [call EXCEPT ![c] = u]
        BY <2>4, <2>5, <3>1, <3>2, <3>3, <3>4
      <3>5. CASE UNCHANGED call
        BY <2>0, <3>1, <3>3, <3>5 DEF ShuttleInv, ShuttleTypeOK, UnseenIsShown, Dialogs
      <3> QED BY <3>1, <3>4, <3>5
    <2>9. ASSUME NEW c \in ShuttleCalls, NEW ride \in ShuttleTrips, Cancel(c, ride)
          PROVE ShuttleInv'
      <3> DEFINE u == [Idle EXCEPT !.at = "sent", !.trip = ride, !.kind = "cancel"]
      <3>1. u \in CallRecords
        BY NewCall
      <3>2. /\ call' = [call EXCEPT ![c] = u] /\ call[c].at = "idle"
            /\ UNCHANGED <<sheet, orders, dialog, ordersApplied, reader, ordersFlight, access,
                           trip, history, unseen, shuttleFaults>>
        BY <2>9 DEF Cancel
      <3> HIDE DEF u
      <3> QED BY <2>0, <2>4, <2>5, <3>1, <3>2
    <2>10. ASSUME NEW c \in ShuttleCalls, Booked(c) PROVE ShuttleInv'
      <3>1. PICK at \in {"done", "failed"} :
              /\ call' = [call EXCEPT ![c].at = at]
              /\ \/ /\ SaveOrders([orders EXCEPT ![call[c].trip] = "active"])
                    /\ UNCHANGED shuttleFaults
                 \/ Fault /\ UNCHANGED <<orders, history>>
        <4>1. CASE /\ SaveOrders([orders EXCEPT ![call[c].trip] = "active"])
                   /\ call' = [call EXCEPT ![c].at = "done"] /\ UNCHANGED shuttleFaults
          BY <4>1
        <4>2. CASE /\ Fault /\ call' = [call EXCEPT ![c].at = "failed"]
                   /\ UNCHANGED <<orders, history>>
          BY <4>2
        <4> QED BY <2>10, <4>1, <4>2 DEF Booked
      <3>2. /\ call[c].at = "sent" /\ dialog' \in Dialogs
            /\ UNCHANGED <<sheet, ordersApplied, reader, ordersFlight, access, trip, unseen>>
        BY <2>10 DEF Booked, Reset, Say, Dialogs
      <3> DEFINE u == [call[c] EXCEPT !.at = at]
      <3>3. u \in CallRecords /\ call' = [call EXCEPT ![c] = u]
        BY <2>0, <3>1 DEF CallRecords
      <3> HIDE DEF u
      <3>4. [orders EXCEPT ![call[c].trip] = "active"] \in [ShuttleTrips -> OrderStatuses]
        BY <2>5 DEF OrderStatuses
      <3>5. /\ orders' \in [ShuttleTrips -> OrderStatuses] /\ history' \subseteq ShuttleTrips
            /\ shuttleFaults' \in 0..MaxShuttleFaults
        BY <2>0, <2>5, <3>1, <3>4, SaveOrdersTyped, FaultTyped
      <3> QED BY <2>4, <3>2, <3>3, <3>5
    <2>11. ASSUME NEW c \in ShuttleCalls, Apply(c) PROVE ShuttleInv'
      <3>1. /\ ordersApplied' = ordersApplied \cup {c}
            /\ sheet' \in [ShuttleTrips -> OrderStatuses]
            /\ UNCHANGED <<orders, dialog, call, reader, ordersFlight, access, trip, history,
                           unseen, shuttleFaults>>
        BY <2>5, <2>11 DEF Apply, OrderStatuses
      <3> QED BY <2>0, <3>1 DEF ShuttleInv, ShuttleTypeOK, UnseenIsShown
    <2>12. ASSUME NEW c \in ShuttleCalls, CancelAnswered(c) PROVE ShuttleInv'
      <3>1. /\ call[c].at = "sent" /\ reader[c].at = "idle"
            /\ UNCHANGED <<sheet, orders, dialog, ordersApplied, access, trip, history>>
        BY <2>12 DEF CancelAnswered
      <3>2. CASE /\ call' = [call EXCEPT ![c].at = "confirm"] /\ Asked(c, "yes")
                 /\ unseen' = unseen \cup {c} /\ UNCHANGED shuttleFaults
        <4> DEFINE u == [call[c] EXCEPT !.at = "confirm"]
        <4>1. u \in CallRecords /\ u.at = "confirm" /\ call' = [call EXCEPT ![c] = u]
          BY <2>0, <3>2 DEF CallRecords
        <4> HIDE DEF u
        <4>2. /\ reader' \in [Readers -> ReaderRecords] /\ ordersFlight' \in Readers \cup {NoRead}
              /\ \A q \in Readers : q # c => reader'[q] = reader[q]
              /\ reader'[c].at \in {"asked", "waits"}
          BY <2>0, <3>2, AskedStarts
        <4>3. call' \in [ShuttleCalls -> CallRecords] /\ call'[c] = u
              /\ \A d \in ShuttleCalls : d # c => call'[d] = call[d]
          BY <2>0, <4>1
        <4>4. ShuttleTypeOK'
          BY <2>0, <3>1, <3>2, <4>2, <4>3 DEF ShuttleTypeOK, CallRecords, ReaderRecords
        <4>5. UnseenIsShown'
          BY <2>0, <3>2, <4>1, <4>2, <4>3 DEF UnseenIsShown
        <4> QED BY <4>4, <4>5 DEF ShuttleInv
      <3>3. CASE /\ Fault /\ call' = [call EXCEPT ![c].at = "failed"]
                 /\ UNCHANGED <<reader, ordersFlight, unseen>>
        <4> DEFINE u == [call[c] EXCEPT !.at = "failed"]
        <4>1. u \in CallRecords /\ call' = [call EXCEPT ![c] = u]
          BY <2>0, <3>3 DEF CallRecords
        <4> HIDE DEF u
        <4>2. shuttleFaults' \in 0..MaxShuttleFaults
          BY <2>0, <3>3, FaultTyped
        <4> QED BY <2>0, <2>4, <2>5, <3>1, <3>3, <4>1, <4>2
      <3> QED BY <2>12, <3>2, <3>3 DEF CancelAnswered
    \* A read that starts to wait or to ask, and nothing else.
    <2>13. ASSUME NEW r \in Readers, NEW forced \in {"yes", "no"}, Asked(r, forced),
                  UNCHANGED <<sheet, orders, dialog, call, ordersApplied, access, trip, history,
                              unseen, shuttleFaults>>
           PROVE  ShuttleInv'
      <3>1. /\ reader' \in [Readers -> ReaderRecords] /\ ordersFlight' \in Readers \cup {NoRead}
            /\ \A q \in Readers : q # r => reader'[q] = reader[q]
            /\ reader'[r].at \in {"asked", "waits"}
        BY <2>0, <2>13, AskedStarts
      <3>2. UnseenIsShown'
        BY <2>13, <3>1, ReadsGoOn
      <3>3. ShuttleTypeOK'
        BY <2>0, <2>13, <3>1 DEF ShuttleTypeOK, ReaderRecords
      <3> QED BY <3>2, <3>3 DEF ShuttleInv
    <2>14. ASSUME NEW c \in ShuttleCalls, Reconfirm(c) PROVE ShuttleInv'
      BY <2>0, <2>13, <2>14 DEF Reconfirm
    <2>15. ASSUME NEW r \in ShuttleReads, Refresh(r) PROVE ShuttleInv'
      <3>1. r \in Readers /\ (Asked(r, "no") \/ Asked(r, "yes"))
        BY <2>15 DEF Refresh, Readers
      <3> QED BY <2>13, <2>15, <3>1 DEF Refresh
    <2>16. ASSUME NEW r \in Readers, Serve(r) PROVE ShuttleInv'
      <3> DEFINE u == [reader[r] EXCEPT !.at = "served", !.snap = sheet]
      <3>1. u \in ReaderRecords /\ u.snap = sheet
        BY <2>0, <2>5 DEF ReaderRecords
      <3>2. /\ reader' = [reader EXCEPT ![r] = u]
            /\ unseen' = {c \in unseen : sheet[call[c].trip] = "active"}
            /\ UNCHANGED <<sheet, orders, dialog, call, ordersApplied, ordersFlight, access, trip,
                           history, shuttleFaults>>
        BY <2>0, <2>16 DEF Serve
      <3> HIDE DEF u
      <3>3. /\ reader' \in [Readers -> ReaderRecords] /\ reader'[r] = u
            /\ \A q \in Readers : q # r => reader'[q] = reader[q]
        BY <2>0, <3>1, <3>2
      <3>4. ShuttleTypeOK'
        BY <2>0, <3>2, <3>3 DEF ShuttleTypeOK, ReaderRecords
      <3>5. UnseenIsShown'
        BY <2>0, <3>1, <3>2, <3>3 DEF UnseenIsShown
      <3> QED BY <3>4, <3>5 DEF ShuttleInv
    \* The end of the read of r, after which r's own call, if any, is still not
    \* done or has seen that its order is gone.
    <2>17. ASSUME NEW r \in Readers, reader' = Woken([reader EXCEPT ![r] = Unread]),
                  NextFlight(Waiting), NEW u, r \in ShuttleCalls => u \in CallRecords,
                  call' = call \/ (r \in ShuttleCalls /\ call' = [call EXCEPT ![r] = u]),
                  r \in unseen => u.at \in {"confirm", "failed"},
                  orders' \in [ShuttleTrips -> OrderStatuses], history' \subseteq ShuttleTrips,
                  shuttleFaults' \in 0..MaxShuttleFaults,
                  UNCHANGED <<sheet, dialog, ordersApplied, access, trip, unseen>>
           PROVE  ShuttleInv'
      <3>1. /\ reader' \in [Readers -> ReaderRecords] /\ ordersFlight' \in Readers \cup {NoRead}
            /\ reader'[r].at # "served"
            /\ \A q \in Readers : q # r /\ reader'[q].at = "served" => reader'[q] = reader[q]
        BY <2>0, <2>17, ReadEnds
      <3>2. /\ call' \in [ShuttleCalls -> CallRecords]
            /\ \A c \in ShuttleCalls : c # r => call'[c] = call[c]
            /\ r \in ShuttleCalls => call'[r] \in {call[r], u}
        BY <2>0, <2>17
      <3>3. ShuttleTypeOK'
        BY <2>0, <2>17, <3>1, <3>2 DEF ShuttleTypeOK, CallRecords, ReaderRecords
      <3>4. UnseenIsShown'
        BY <2>0, <2>17, <3>1, <3>2 DEF UnseenIsShown
      <3> QED BY <3>3, <3>4 DEF ShuttleInv
    <2>18. ASSUME NEW r \in Readers, ReadFailed(r) PROVE ShuttleInv'
      <3> DEFINE u == [call[r] EXCEPT !.at = "failed"]
      <3>1. r \in ShuttleCalls => u \in CallRecords /\ u.at = "failed"
        BY <2>0 DEF CallRecords
      <3>2. /\ call' = call \/ (r \in ShuttleCalls /\ call' = [call EXCEPT ![r] = u])
            /\ reader' = Woken([reader EXCEPT ![r] = Unread]) /\ NextFlight(Waiting)
            /\ UNCHANGED <<sheet, orders, dialog, ordersApplied, access, trip, history, unseen>>
        BY <2>0, <2>18 DEF ReadFailed
      <3> HIDE DEF u
      <3>3. shuttleFaults' \in 0..MaxShuttleFaults
        BY <2>0, <2>18, FaultTyped DEF ReadFailed
      <3> QED BY <2>0, <2>5, <2>17, <3>1, <3>2, <3>3
    <2>19. ASSUME NEW r \in Readers, ReadAnswered(r) PROVE ShuttleInv'
      <3> DEFINE at == IF ~Shows(r) THEN "done" ELSE IF Again(r) THEN "confirm" ELSE "failed"
                 tries == IF Shows(r) /\ Again(r) THEN call[r].tries + 1 ELSE call[r].tries
                 u == [call[r] EXCEPT !.at = at, !.tries = tries]
      <3>1. r \in ShuttleCalls => tries \in 0..MaxConfirms
        <4>1. ASSUME r \in ShuttleCalls PROVE call[r].tries \in 0..MaxConfirms
          BY <2>0, <4>1 DEF CallRecords
        <4> QED BY <4>1 DEF Again
      <3>2. at \in {"done", "confirm", "failed"}
        OBVIOUS
      <3>3. ASSUME r \in unseen PROVE at \in {"confirm", "failed"}
        <4>1. reader[r].at = "served" /\ reader[r].snap[call[r].trip] = "active"
          BY <2>0, <2>19, <3>3 DEF ReadAnswered, UnseenIsShown
        <4> QED BY <4>1 DEF Shows
      <3>4. /\ \/ call' = call
               \/ r \in ShuttleCalls
                  /\ call' = [call EXCEPT ![r].at = at, ![r].tries = tries]
            /\ reader' = Woken([reader EXCEPT ![r] = Unread]) /\ NextFlight(Waiting)
            /\ UNCHANGED <<sheet, dialog, ordersApplied, access, trip, unseen, shuttleFaults>>
        BY <2>0, <2>19 DEF ReadAnswered
      <3> HIDE DEF at, tries
      <3>5. r \in ShuttleCalls => u \in CallRecords /\ u.at = at
        BY <2>0, <3>1, <3>2 DEF CallRecords
      <3>6. call' = call \/ (r \in ShuttleCalls /\ call' = [call EXCEPT ![r] = u])
        BY <2>0, <3>4
      <3> HIDE DEF u
      <3>7. /\ orders' \in [ShuttleTrips -> OrderStatuses] /\ history' \subseteq ShuttleTrips
        <4>1. reader[r].snap \in [ShuttleTrips -> OrderStatuses]
          BY <2>0 DEF ReaderRecords
        <4>2. SaveOrders(reader[r].snap) \/ UNCHANGED <<orders, history>>
          BY <2>19 DEF ReadAnswered
        <4> QED BY <2>0, <2>5, <4>1, <4>2, SaveOrdersTyped
      <3> QED BY <2>0, <2>5, <2>17, <3>3, <3>4, <3>5, <3>6, <3>7
    <2>20. ASSUME NEW ride \in ShuttleTrips, TripComes(ride) PROVE ShuttleInv'
      <3>1. trip' \in [ShuttleTrips -> {"open", "closed", "near", "past", "over"}]
        BY <2>0, <2>20 DEF TripComes, ShuttleTypeOK
      <3>2. /\ history' \subseteq ShuttleTrips
            /\ UNCHANGED <<sheet, orders, dialog, call, ordersApplied, reader, ordersFlight,
                           access, unseen, shuttleFaults>>
        BY <2>5, <2>20 DEF TripComes, Due
      <3> QED BY <2>0, <3>1, <3>2 DEF ShuttleInv, ShuttleTypeOK, UnseenIsShown
    <2>21. CASE UNCHANGED shVars
      BY <2>0, <2>21 DEF shVars, ShuttleInv, ShuttleTypeOK, UnseenIsShown
    <2> QED BY <2>1, <2>2, <2>3, <2>6, <2>7, <2>8, <2>9, <2>10, <2>11, <2>12, <2>14, <2>15,
               <2>16, <2>18, <2>19, <2>20, <2>21 DEF ShuttleNext
  <1>3. ShuttleInv => ShuttleTypeOK /\ CancelIsConfirmed
    BY DEF ShuttleInv, ShuttleTypeOK, UnseenIsShown, CancelIsConfirmed
  <1> QED BY <1>1, <1>2, <1>3, PTL DEF ShuttleSpec

HIDE ShuttleAssumption

-----------------------------------------------------------------------------
(* The parts together, as MCWebClient takes their steps.                   *)

(* A behaviour of the run is one of each part: the others stand still.     *)
LEMMA PartsAreApart ==
  /\ PartsSpec => WebOutboxSpec
  /\ PartsSpec => WebInboxSpec
  /\ PartsSpec => WebReceiptsSpec
  /\ PartsSpec => OfflineSpec
  /\ PartsSpec => PushesSpec
  /\ PartsSpec => RecoverySpec
  /\ PartsSpec => ShuttleSpec
  /\ PartsSpec => WebGroupsSpec
  /\ PartsSpec => WebTransportSpec
  <1>1. PartsInit =>
          /\ WebOutboxInit /\ WebInboxInit /\ WebReceiptsInit /\ OfflineInit /\ PushesInit
          /\ RecoveryInit /\ ShuttleInit /\ WebGroupsInit /\ WebTransportInit
    BY DEF PartsInit
  <1>2. [PartsNext]_PartsVars =>
          /\ [WebOutboxNext]_outVars /\ [WebInboxNext]_inVars
          /\ [WebReceiptsNext]_receiptVars /\ [OfflineNext]_offlineVars
          /\ [PushesNext]_pushVars /\ [RecoveryNext]_recVars /\ [ShuttleNext]_shVars
          /\ [WebGroupsNext]_webGroupVars /\ [WebTransportNext]_webTransportVars
    BY DEF PartsNext, PartsVars
  <1>3. PartsSpec => WebOutboxSpec
    BY <1>1, <1>2, PTL DEF PartsSpec, WebOutboxSpec
  <1>4. PartsSpec => WebInboxSpec
    BY <1>1, <1>2, PTL DEF PartsSpec, WebInboxSpec
  <1>5. PartsSpec => WebReceiptsSpec
    BY <1>1, <1>2, PTL DEF PartsSpec, WebReceiptsSpec
  <1>6. PartsSpec => OfflineSpec
    BY <1>1, <1>2, PTL DEF PartsSpec, OfflineSpec
  <1>7. PartsSpec => PushesSpec
    BY <1>1, <1>2, PTL DEF PartsSpec, PushesSpec
  <1>8. PartsSpec => RecoverySpec
    BY <1>1, <1>2, PTL DEF PartsSpec, RecoverySpec
  <1>9. PartsSpec => ShuttleSpec
    BY <1>1, <1>2, PTL DEF PartsSpec, ShuttleSpec
  <1>10. PartsSpec => WebGroupsSpec
    BY <1>1, <1>2, PTL DEF PartsSpec, WebGroupsSpec
  <1>11. PartsSpec => WebTransportSpec
    BY <1>1, <1>2, PTL DEF PartsSpec, WebTransportSpec
  <1> QED BY <1>3, <1>4, <1>5, <1>6, <1>7, <1>8, <1>9, <1>10, <1>11

(* Every variable of every part has its type in every behaviour of         *)
(* MCWebClient (the web client of chat-store.service.ts and its service    *)
(* worker).                                                                *)
THEOREM WebClientTypesHold == PartsSpec => []WebClientTypeOK
  <1>1. /\ WebOutboxTypeOK /\ WebInboxTypeOK /\ WebReceiptsTypeOK /\ OfflineTypeOK
        /\ PushesTypeOK /\ RecoveryTypeOK /\ ShuttleTypeOK /\ WebGroupsTypeOK
        /\ WebTransportTypeOK
        => WebClientTypeOK
    BY DEF WebClientTypeOK
  <1> QED BY <1>1, PartsAreApart, QueuedIsKeptInvariant, DeletedStaysHiddenInvariant,
             TrackedIsOwedInvariant, AnsweredIsKeptInvariant, PushIsKeptInvariant,
             NothingBelowInvariant, CancelIsConfirmedInvariant, WebGroupsTypeCorrect,
             RecoversInvariant, PTL

=============================================================================
