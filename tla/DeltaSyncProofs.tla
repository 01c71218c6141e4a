---------------------------- MODULE DeltaSyncProofs ----------------------------
(***************************************************************************)
(* Proofs about DeltaSync, for every set of messages and every number of   *)
(* failed requests and of terminations of the app.                         *)
(***************************************************************************)
EXTENDS DeltaSync, FiniteSetTheorems, WellFoundedInduction, TLAPS

-----------------------------------------------------------------------------
(* The newest message of a set.                                            *)

\* A non-empty set of messages has a newest one, because the timestamps are
\* bounded: the interval from it to the bound is the smallest of its kind.
LEMMA NewestExists ==
  ASSUME NEW S \in SUBSET Msgs, S # {}
  PROVE  \E n \in S : \A m \in S : Ts[m] <= Ts[n]
<1> DEFINE All == 1..MaxTs
           Later(m) == Ts[m]..MaxTs
           D == {Later(m) : m \in S}
<1>1. IsFiniteSet(All)
      BY FS_Interval, DeltaSyncAssumption
<1>2. D \subseteq SUBSET All /\ D # {}
      BY DeltaSyncAssumption
<1>3. IsWellFoundedOn(StrictSubsetOrdering(All), SUBSET All)
      BY <1>1, FS_StrictSubsetOrderingWellFounded, FS_FiniteSubsetsOfFinite
<1>4. PICK d \in D : \A e \in D : ~ (<<e, d>> \in StrictSubsetOrdering(All))
      BY <1>2, <1>3, WFMin
<1>5. PICK n \in S : d = Later(n)
      OBVIOUS
<1>6. ASSUME NEW m \in S, Ts[m] > Ts[n] PROVE FALSE
  <2>1. Later(m) \subseteq Later(n) /\ Later(m) # Later(n)
    <3>1. Ts[n] \in Later(n) /\ Ts[n] \notin Later(m)
          BY <1>6, DeltaSyncAssumption
    <3> QED
        BY <1>6, <3>1, DeltaSyncAssumption
  <2>2. Later(m) \in D
        OBVIOUS
  <2> HIDE DEF Later, D
  <2> QED
      BY <1>2, <1>4, <1>5, <2>1, <2>2 DEF StrictSubsetOrdering
<1> QED
    BY <1>6, DeltaSyncAssumption

\* What Newest says of a set.
LEMMA NewestIs ==
  ASSUME NEW S \in SUBSET Msgs
  PROVE  /\ Newest(S) \in 0..MaxTs
         /\ S = {} => Newest(S) = 0
         /\ S # {} => \E n \in S : Newest(S) = Ts[n]
         /\ \A m \in S : Ts[m] <= Newest(S)
<1>1. CASE S = {}
      BY <1>1, DeltaSyncAssumption DEF Newest
<1>2. CASE S # {}
  <2>1. \E t \in {Ts[m] : m \in S} : \A m \in S : Ts[m] <= t
        BY <1>2, NewestExists
  <2>2. /\ Newest(S) \in {Ts[m] : m \in S}
        /\ \A m \in S : Ts[m] <= Newest(S)
        BY <1>2, <2>1 DEF Newest
  <2> QED
      BY <1>2, <2>2, DeltaSyncAssumption
<1> QED
    BY <1>1, <1>2

\* The sync cursor is 0, the newest of what is stored or shown, the high-water
\* mark, or lies below one of these.
LEMMA ResolveIs ==
  ASSUME TypeOK
  PROVE  /\ ResolveSyncCursor \in 0..MaxTs
         /\ \/ ResolveSyncCursor <= cursor
            \/ \E m \in db \cup mem : ResolveSyncCursor <= Ts[m]
<1>1. /\ cursor \in 0..MaxTs /\ floor \in 0..MaxTs
      /\ db \in SUBSET Msgs /\ mem \in SUBSET Msgs
      BY DEF TypeOK
<1> DEFINE newest == IF db = {} THEN Newest(mem) ELSE Newest(db)
           known == Larger(cursor, newest)
<1>2. /\ newest \in 0..MaxTs
      /\ newest = 0 \/ \E m \in db \cup mem : newest = Ts[m]
      BY <1>1, NewestIs
<1> HIDE DEF newest
<1>3. /\ known \in 0..MaxTs
      /\ known <= cursor \/ \E m \in db \cup mem : known = Ts[m]
      BY <1>1, <1>2, DeltaSyncAssumption DEF Larger
<1> HIDE DEF known
<1>4. ResolveSyncCursor = IF floor > 0 /\ known > floor THEN floor - 1 ELSE known
      BY DEF ResolveSyncCursor, known, newest
<1>5. ResolveSyncCursor \in 0..MaxTs /\ ResolveSyncCursor <= known
      BY <1>1, <1>3, <1>4, DeltaSyncAssumption
<1> QED
    BY <1>1, <1>3, <1>5, DeltaSyncAssumption

-----------------------------------------------------------------------------
(* Types.                                                                  *)

\* TypeOK, one variable at a time.
Typed ==
  /\ rows \in SUBSET Msgs /\ db \in SUBSET Msgs /\ mem \in SUBSET Msgs
  /\ writes \in SUBSET Msgs /\ snap \in SUBSET Msgs /\ passed \in SUBSET Msgs
  /\ app \in {"dead", "running"} /\ ready \in {"no", "yes"}
  /\ cursor \in 0..MaxTs /\ saved \in 0..MaxTs
  /\ floor \in 0..MaxTs /\ tray \in 0..MaxTs
  /\ pc \in [Requests -> Steps]
  /\ \A r \in Requests \ {"launch"} : pc[r] \in {"idle", "asked", "served", "stored"}
  /\ since \in [Requests -> 0..MaxTs]
  /\ answer \in [Requests -> SUBSET Msgs]
  /\ restore \in {"none", "pending", "reading"}
  /\ faults \in 0..MaxFaults /\ kills \in 0..MaxKills

LEMMA TypedIsTypeOK == Typed <=> TypeOK
BY DEF Typed, TypeOK

\* Every step keeps every variable within its type, and each request within
\* the steps that are its own.
LEMMA TypeInductive == TypeOK /\ [Next]_vars => TypeOK'
<1> SUFFICES ASSUME TypeOK, Typed, [Next]_vars PROVE Typed'
    BY TypedIsTypeOK DEF Typed, TypeOK
<1> USE DeltaSyncAssumption DEF Typed, localVars, cursorVars, askVars, cacheVars, envVars,
        Requests, Steps, Goto, Fault
<1>1. ASSUME NEW m \in Msgs, Commit(m) \/ BackgroundPush(m) \/ WriteThrough(m)
      PROVE  Typed'
      BY <1>1 DEF Commit, BackgroundPush, WriteThrough
<1>2. ASSUME NEW m \in Msgs, Deliver(m) \/ Compose(m) PROVE Typed'
      BY <1>2 DEF Deliver, Compose, ApplyIncoming, Larger
<1>3. CASE AppStart \/ Persist \/ RestoreStep
      BY <1>3 DEF AppStart, Persist, RestoreStep, RestoreStart, RestoreEnd
<1>4. CASE AppKilled
      BY <1>4 DEF AppKilled
<1>5. CASE LaunchCheck \/ LaunchFinish
      BY <1>5 DEF LaunchCheck, LaunchFinish
<1>6. CASE LaunchAsk \/ LaunchRecover
      BY <1>6 DEF LaunchAsk, LaunchRecover, Ask
<1>7. CASE PullAsk \/ ReconnectAsk
      BY <1>7, ResolveIs DEF PullAsk, ReconnectAsk, Ask
<1>8. ASSUME NEW r \in Requests, Serve(r) PROVE Typed'
  <2>1. PICK R \in RowsSince(since[r]) : answer' = [answer EXCEPT ![r] = R]
        BY <1>8 DEF Serve
  <2>2. R \in SUBSET Msgs
        BY DEF RowsSince
  <2> QED
      BY <1>8, <2>1, <2>2 DEF Serve
<1>9. ASSUME NEW r \in Requests, ServeReadFails(r) \/ Store(r) PROVE Typed'
      BY <1>9 DEF ServeReadFails, Store
<1>10. ASSUME NEW r \in Requests, AskFails(r) PROVE Typed'
       BY <1>10 DEF AskFails
<1>11. ASSUME NEW r \in Requests, Apply(r) PROVE Typed'
  <2>1. Newest(answer[r]) \in 0..MaxTs
        BY NewestIs
  <2>2. cursor' \in 0..MaxTs /\ saved' \in 0..MaxTs
        BY <1>11, <2>1 DEF Apply, Larger
  <2> QED
      BY <1>11, <2>2 DEF Apply
<1>12. CASE UNCHANGED vars
       BY <1>12 DEF vars
<1> QED
    BY <1>1, <1>2, <1>3, <1>4, <1>5, <1>6, <1>7, <1>8, <1>9, <1>10, <1>11, <1>12
       DEF Next, RequestStep, LaunchStep

LEMMA InitTyped == Init => TypeOK
BY DeltaSyncAssumption DEF Init, TypeOK, Requests, Steps

\* Type correctness of the client, for any number of messages, requests and
\* terminations.
THEOREM TypeCorrect == Spec => []TypeOK
BY InitTyped, TypeInductive, PTL DEF Spec

-----------------------------------------------------------------------------
(* What is shown is stored or on its way there.                            *)

\* ShownIsStored is preserved because a restored cache was read from the
\* table, which only grows, and an answer is applied after it was stored.
HeldInv ==
  /\ TypeOK
  /\ ShownIsStored
  /\ snap \subseteq db
  /\ \A r \in Requests : pc[r] = "stored" => answer[r] \subseteq db

LEMMA HeldInductive == HeldInv /\ [Next]_vars => HeldInv'
<1> SUFFICES ASSUME HeldInv, Typed, [Next]_vars
             PROVE  /\ ShownIsStored' /\ snap' \subseteq db'
                    /\ \A r \in Requests : pc'[r] = "stored" => answer'[r] \subseteq db'
    BY TypedIsTypeOK, TypeInductive DEF HeldInv
<1> USE DEF HeldInv, Typed, ShownIsStored, localVars, cursorVars, askVars, cacheVars,
        envVars, Requests, Goto, Fault
<1> DEFINE Goal == /\ ShownIsStored' /\ snap' \subseteq db'
                   /\ \A r \in Requests : pc'[r] = "stored" => answer'[r] \subseteq db'
<1>1. ASSUME NEW m \in Msgs, Commit(m) \/ BackgroundPush(m) \/ WriteThrough(m)
      PROVE  Goal
      BY <1>1 DEF Commit, BackgroundPush, WriteThrough
<1>2. ASSUME NEW m \in Msgs, Deliver(m) \/ Compose(m) PROVE Goal
      BY <1>2 DEF Deliver, Compose, ApplyIncoming
<1>3. CASE AppStart \/ AppKilled \/ Persist \/ RestoreStep
      BY <1>3 DEF AppStart, AppKilled, Persist, RestoreStep, RestoreStart, RestoreEnd
<1>4. CASE LaunchStep \/ PullAsk \/ ReconnectAsk
      BY <1>4 DEF LaunchStep, LaunchCheck, LaunchAsk, LaunchRecover, LaunchFinish,
                  PullAsk, ReconnectAsk, Ask
<1>5. ASSUME NEW r \in Requests, Serve(r) \/ ServeReadFails(r) \/ AskFails(r) PROVE Goal
  <2>1. /\ UNCHANGED <<mem, db, writes, snap>>
        /\ \A q \in Requests : pc'[q] = "stored" => q # r /\ pc[q] = "stored"
        /\ \A q \in Requests : q # r => answer'[q] = answer[q]
        BY <1>5 DEF Serve, ServeReadFails, AskFails
  <2> QED
      BY <2>1
<1>6. ASSUME NEW r \in Requests, Store(r) PROVE Goal
      BY <1>6 DEF Store
<1>7. ASSUME NEW r \in Requests, Apply(r) PROVE Goal
      BY <1>7 DEF Apply
<1>8. CASE UNCHANGED vars
      BY <1>8 DEF vars
<1> QED
    BY <1>1, <1>2, <1>3, <1>4, <1>5, <1>6, <1>7, <1>8 DEF Next, RequestStep

LEMMA InitHeld == Init => HeldInv
BY InitTyped DEF Init, HeldInv, ShownIsStored, Requests

\* Whatever brought a message into memory, it is in the table or being written
\* to it.
THEOREM ShownStored == Spec => []ShownIsStored
<1>1. HeldInv => ShownIsStored
      BY DEF HeldInv
<1> QED
    BY <1>1, InitHeld, HeldInductive, PTL DEF Spec

-----------------------------------------------------------------------------
(* The cursor is not ahead of what is stored or on its way there.          *)

\* t is nothing, or the timestamp of a message that is stored, being stored, or
\* dropped by a termination after a cursor as new was saved.
Backed(t) == t = 0 \/ \E m \in db \cup writes \cup passed : t = Ts[m]

\* Both cursors, and the one the launch asks with, are the timestamp of such a
\* message; the other requests may ask below one (_resolveSyncCursor lowers
\* it), and what they are answered lies above what they asked with.
BackedInv ==
  /\ Backed(cursor) /\ Backed(saved) /\ Backed(since["launch"])
  /\ \A r \in Requests : pc[r] \in {"served", "stored"} =>
       \A m \in answer[r] : since[r] <= Ts[m]

\* A set of messages that is stored or being stored backs its newest.
LEMMA BackedNewest ==
  ASSUME NEW S \in SUBSET Msgs, S \subseteq db \cup writes
  PROVE  Backed(Newest(S))
BY NewestIs, DeltaSyncAssumption DEF Backed

\* A termination: what backed the saved cursor is in the table, or was being
\* written and is on record now.
LEMMA KillKeepsBacked ==
  ASSUME Typed, BackedInv, AppKilled
  PROVE  BackedInv'
<1>1. /\ cursor' = 0 /\ saved' = saved /\ db' = db /\ writes' = {}
      /\ passed' = passed \cup {m \in writes : Ts[m] <= saved}
      /\ since' = [r \in Requests |-> 0] /\ pc' = [r \in Requests |-> "idle"]
      BY DEF AppKilled
<1>2. Backed(saved)'
  <2>1. ASSUME NEW m \in db \cup writes \cup passed, saved = Ts[m]
        PROVE  m \in db' \cup passed'
        BY <1>1, <2>1, DeltaSyncAssumption DEF Typed
  <2> QED
      BY <1>1, <2>1 DEF BackedInv, Backed
<1>3. since'["launch"] = 0 /\ \A r \in Requests : pc'[r] = "idle"
      BY <1>1 DEF Requests
<1> QED
    BY <1>1, <1>2, <1>3 DEF BackedInv, Backed

LEMMA BackedInductive == HeldInv /\ BackedInv /\ [Next]_vars => BackedInv'
<1> SUFFICES ASSUME HeldInv, Typed, BackedInv, [Next]_vars PROVE BackedInv'
    BY TypedIsTypeOK DEF HeldInv
<1> USE DeltaSyncAssumption DEF BackedInv, Typed, localVars, cursorVars, askVars, cacheVars,
        envVars, Requests, Goto, Fault
<1>1. ASSUME NEW m \in Msgs, Commit(m) \/ BackgroundPush(m) \/ WriteThrough(m)
      PROVE  BackedInv'
      BY <1>1 DEF Commit, BackgroundPush, WriteThrough, Backed
<1>2. ASSUME NEW m \in Msgs, Deliver(m) \/ Compose(m) PROVE BackedInv'
      BY <1>2 DEF Deliver, Compose, ApplyIncoming, Larger, Backed
<1>3. CASE AppStart \/ Persist \/ RestoreStep
      BY <1>3 DEF AppStart, Persist, RestoreStep, RestoreStart, RestoreEnd, Backed
<1>4. CASE AppKilled
      BY <1>4, KillKeepsBacked
<1>5. CASE LaunchCheck \/ LaunchFinish
      BY <1>5 DEF LaunchCheck, LaunchFinish, Backed
<1>6. CASE LaunchAsk \/ LaunchRecover
      BY <1>6 DEF LaunchAsk, LaunchRecover, Ask, Backed
<1>7. CASE PullAsk \/ ReconnectAsk
      BY <1>7 DEF PullAsk, ReconnectAsk, Ask, Backed
<1>8. ASSUME NEW r \in Requests, Serve(r) PROVE BackedInv'
  <2>1. PICK R \in RowsSince(since[r]) : answer' = [answer EXCEPT ![r] = R]
        BY <1>8 DEF Serve
  <2>2. \A m \in R : m \in Msgs /\ since[r] <= Ts[m]
        BY DEF RowsSince
  <2> QED
      BY <1>8, <2>1, <2>2 DEF Serve, Backed
<1>9. ASSUME NEW r \in Requests, ServeReadFails(r) \/ AskFails(r) \/ Store(r)
      PROVE  BackedInv'
      BY <1>9 DEF ServeReadFails, AskFails, Store, Backed
<1>10. ASSUME NEW r \in Requests, Apply(r) PROVE BackedInv'
  <2>1. /\ pc[r] = "stored" /\ answer[r] \in SUBSET Msgs /\ answer[r] \subseteq db
        /\ since[r] \in 0..MaxTs
        BY <1>10 DEF HeldInv, Apply
  <2>2. /\ Backed(Newest(answer[r])) /\ Newest(answer[r]) \in 0..MaxTs
        /\ answer[r] # {} => since[r] <= Newest(answer[r])
    <3>1. answer[r] # {} => \E n \in answer[r] : Newest(answer[r]) = Ts[n]
          BY <2>1, NewestIs
    <3>2. \A n \in answer[r] : since[r] <= Ts[n]
          BY <2>1
    <3> QED
        BY <2>1, <3>1, <3>2, BackedNewest, NewestIs
  <2>3. \/ cursor' = cursor
        \/ cursor' = Newest(answer[r])
        \/ r = "launch" /\ cursor' = since["launch"]
        BY <1>10, <2>1, <2>2 DEF Apply, Larger
  <2>4. UNCHANGED <<db, writes, passed, since>>
        BY <1>10 DEF Apply
  <2>5. Backed(cursor)'
        BY <2>2, <2>3, <2>4 DEF Backed
  <2>6. saved' = saved \/ saved' = cursor'
        BY <1>10 DEF Apply
  <2>7. \A q \in Requests : pc'[q] \in {"served", "stored"} =>
          pc[q] \in {"served", "stored"} /\ answer'[q] = answer[q]
        BY <1>10 DEF Apply
  <2> QED
      BY <2>4, <2>5, <2>6, <2>7 DEF Backed
<1>11. CASE UNCHANGED vars
       BY <1>11 DEF vars, Backed
<1> QED
    BY <1>1, <1>2, <1>3, <1>4, <1>5, <1>6, <1>7, <1>8, <1>9, <1>10, <1>11
       DEF Next, RequestStep, LaunchStep

\* The newest of what backs a cursor backs it.
LEMMA NewestBacks ==
  ASSUME Typed, NEW t \in 0..MaxTs, Backed(t)
  PROVE  t <= Newest(db \cup writes \cup passed)
<1> DEFINE S == db \cup writes \cup passed
<1>1. S \in SUBSET Msgs
      BY DEF Typed
<1>2. Newest(S) \in 0..MaxTs /\ \A m \in S : Ts[m] <= Newest(S)
      BY <1>1, NewestIs
<1>3. t = 0 \/ \E m \in S : t = Ts[m]
      BY DEF Backed
<1> HIDE DEF S
<1>4. t <= Newest(S)
      BY <1>1, <1>2, <1>3, DeltaSyncAssumption
<1> QED
    BY <1>4 DEF S

LEMMA InitBacked == Init => BackedInv
BY DEF Init, BackedInv, Backed, Requests

\* No cursor is ahead of the newest message stored or on its way there, in
\* whatever order messages arrive and however often the app is terminated, but
\* for a message whose write a termination dropped after the cursor was saved.
THEOREM CursorBacked == Spec => []CursorIsBacked
<1>1. HeldInv /\ BackedInv => CursorIsBacked
  <2> SUFFICES ASSUME HeldInv, Typed, Backed(cursor), Backed(saved)
               PROVE  CursorIsBacked
      BY TypedIsTypeOK DEF BackedInv, HeldInv
  <2>1. /\ cursor <= Newest(db \cup writes \cup passed)
        /\ saved <= Newest(db \cup writes \cup passed)
        BY NewestBacks DEF Typed
  <2> QED
      BY <2>1 DEF CursorIsBacked, Larger
<1> QED
    BY <1>1, InitHeld, InitBacked, HeldInductive, BackedInductive, PTL DEF Spec

-----------------------------------------------------------------------------
(* Polling alone misses nothing.                                           *)

\* What polling needs: rows are committed in the order of their timestamps,
\* nothing but the answers to requests moves the cursor, and no answer is cut
\* off by its limit (DeltaSync_limit.cfg shows what happens otherwise).
PollingAlone ==
  /\ InOrder /\ ~Realtime /\ ~Pushes /\ Own = {}
  /\ IsFiniteSet(Msgs)
  /\ Cardinality(Msgs) <= FullLimit /\ Cardinality(Msgs) <= DeltaLimit

\* t is no newer than a committed row, and every row up to t is stored.
Complete(t) ==
  /\ t = 0 \/ \E k \in rows : t <= Ts[k]
  /\ \A k \in rows : Ts[k] <= t => k \in db

\* An answer together with the table has every row up to the answer's newest.
AnswerClosed(r) ==
  \A m \in answer[r] : \A k \in rows : Ts[k] <= Ts[m] => k \in db \cup answer[r]

\* The cursor, in memory, saved or sent, never passes a row that is not stored,
\* and neither does the newest stored message, from which the cursor is
\* derived; an answer under way leaves no gap either.
PollInv ==
  /\ Typed
  /\ tray = 0 /\ floor = 0 /\ writes = {}
  /\ mem \subseteq db /\ snap \subseteq db /\ db \subseteq rows
  /\ Complete(cursor) /\ Complete(saved)
  /\ \A r \in Requests : Complete(since[r])
  /\ \A m \in db : Complete(Ts[m])
  /\ \A r \in Requests : answer[r] \subseteq rows /\ AnswerClosed(r)
  /\ \A r \in Requests : pc[r] = "stored" => answer[r] \subseteq db

\* No limit cuts an answer: it has every row above the cursor that was sent.
LEMMA AnswersAreWhole ==
  ASSUME PollingAlone, PollInv, NEW t \in 0..MaxTs, NEW R \in RowsSince(t)
  PROVE  R = {m \in rows : t = 0 \/ Ts[m] > t}
<1> DEFINE above == {m \in rows : t = 0 \/ Ts[m] > t}
           limit == IF t = 0 THEN FullLimit ELSE DeltaLimit
<1>1. /\ R \in SUBSET above
      /\ Cardinality(R) = limit \/ R = above
      BY DEF RowsSince
<1>2. above \in SUBSET Msgs
      BY DEF PollInv, Typed
<1>3. /\ IsFiniteSet(above) /\ Cardinality(above) <= Cardinality(Msgs)
      /\ Cardinality(above) \in Nat /\ Cardinality(Msgs) \in Nat
      BY <1>2, FS_Subset, FS_CardinalityType DEF PollingAlone
<1>4. /\ Cardinality(R) <= Cardinality(above) /\ Cardinality(R) \in Nat
      /\ Cardinality(R) = Cardinality(above) => R = above
      BY <1>1, <1>3, FS_Subset, FS_CardinalityType
<1>5. limit \in Nat /\ Cardinality(Msgs) <= limit
      BY DeltaSyncAssumption DEF PollingAlone
<1> HIDE DEF above, limit
<1>6. R = above
      BY <1>1, <1>3, <1>4, <1>5
<1> QED
    BY <1>6 DEF above

\* The cursor a request is made with is complete.
LEMMA ResolveComplete ==
  ASSUME PollInv PROVE Complete(ResolveSyncCursor)
<1> DEFINE newest == IF db = {} THEN Newest(mem) ELSE Newest(db)
<1>1. mem \in SUBSET Msgs /\ db \in SUBSET Msgs /\ mem \subseteq db
      BY DEF PollInv, Typed
<1>2. newest = 0 \/ \E m \in db : newest = Ts[m]
      BY <1>1, NewestIs
<1>3. Complete(0)
      BY DeltaSyncAssumption DEF Complete, PollInv, Typed
<1>4. Complete(newest)
      BY <1>2, <1>3 DEF PollInv
<1> HIDE DEF newest
<1>5. ResolveSyncCursor = Larger(cursor, newest)
      BY DEF ResolveSyncCursor, newest, PollInv, Larger
<1> QED
    BY <1>4, <1>5 DEF Larger, PollInv

\* A row committed in order is newer than every cursor, and a table that
\* grows keeps what is complete complete.
LEMMA CompleteStable ==
  ASSUME PollingAlone, PollInv, NEW t \in 0..MaxTs, Complete(t), db \subseteq db',
         rows' = rows \/ \E m \in Msgs : Commit(m)
  PROVE  Complete(t)'
<1> USE DeltaSyncAssumption DEF PollInv, Typed, Complete
<1>1. CASE rows' = rows
      BY <1>1
<1>2. ASSUME NEW m \in Msgs, Commit(m) PROVE Complete(t)'
  <2>1. /\ rows' = rows \cup {m} /\ Ts[m] \in 1..MaxTs
        /\ \A k \in rows : Ts[k] < Ts[m]
        BY <1>2 DEF Commit, PollingAlone
  <2>2. t < Ts[m]
        BY <2>1
  <2> QED
      BY <2>1, <2>2
<1> QED
    BY <1>1, <1>2

\* Every step keeps what polling relies on.
LEMMA PollInductive ==
  ASSUME PollingAlone PROVE PollInv /\ [Next]_vars => PollInv'
<1> SUFFICES ASSUME PollInv, TypeOK, Typed', [Next]_vars PROVE PollInv'
    BY TypedIsTypeOK, TypeInductive DEF PollInv, Typed, TypeOK
<1> USE DeltaSyncAssumption DEF localVars, cursorVars, askVars, cacheVars, envVars,
        Requests, Goto, Fault
<1>0. /\ Typed /\ Complete(0)
      BY DEF PollInv, Complete, Typed
<1>1. ASSUME NEW m \in Msgs, Commit(m) PROVE PollInv'
  <2>1. /\ rows' = rows \cup {m} /\ \A k \in rows : Ts[k] < Ts[m]
        /\ UNCHANGED <<db, mem, writes, snap, cursor, saved, floor, tray, pc, since, answer>>
        BY <1>1 DEF Commit, PollingAlone
  <2>2. \A t \in 0..MaxTs : Complete(t) => Complete(t)'
        BY <1>1, <2>1, CompleteStable
  <2>3. /\ Complete(cursor)' /\ Complete(saved)'
        /\ \A r \in Requests : Complete(since[r])'
        /\ \A k \in db : Complete(Ts[k])'
        BY <1>0, <2>1, <2>2 DEF PollInv, Typed, Complete
  <2>4. \A r \in Requests : AnswerClosed(r)'
        BY <1>0, <2>1 DEF PollInv, Typed, AnswerClosed
  <2> QED
      BY <1>0, <2>1, <2>3, <2>4 DEF PollInv
<1>2. ASSUME NEW m \in Msgs, BackgroundPush(m) \/ Deliver(m) \/ Compose(m) \/ WriteThrough(m)
      PROVE  FALSE
      BY <1>2 DEF BackgroundPush, Deliver, Compose, WriteThrough, PollingAlone, PollInv
<1>3. CASE AppStart \/ Persist \/ RestoreStep
  <2>1. /\ UNCHANGED <<rows, db, writes, since, answer>> /\ tray' = 0 /\ floor' = 0
        /\ mem' \subseteq db /\ snap' \subseteq db
        /\ \A q \in Requests : pc'[q] = "stored" => pc[q] = "stored"
        BY <1>0, <1>3 DEF AppStart, Persist, RestoreStep, RestoreStart, RestoreEnd, PollInv, Typed
  <2>2. cursor' \in {cursor, saved} /\ saved' \in {cursor, saved}
        BY <1>3 DEF AppStart, Persist, RestoreStep, RestoreStart, RestoreEnd
  <2>3. Complete(cursor)' /\ Complete(saved)'
        BY <2>1, <2>2 DEF PollInv, Complete
  <2> QED
      BY <2>1, <2>3 DEF PollInv, Complete, AnswerClosed
<1>4. CASE AppKilled
  <2>1. /\ UNCHANGED <<rows, db, saved, tray>> /\ floor' = 0 /\ writes' = {} /\ cursor' = 0
        /\ mem' = {} /\ snap' = {}
        /\ \A r \in Requests : pc'[r] = "idle" /\ answer'[r] = {} /\ since'[r] = 0
        BY <1>4 DEF AppKilled
  <2> QED
      BY <1>0, <2>1 DEF PollInv, Complete, AnswerClosed
<1>5. CASE LaunchCheck \/ LaunchFinish
  <2>1. /\ UNCHANGED <<rows, db, mem, writes, snap, since, answer, tray>> /\ floor' = 0
        /\ \A q \in Requests : pc'[q] = "stored" => pc[q] = "stored"
        BY <1>0, <1>5 DEF LaunchCheck, LaunchFinish, PollInv, Typed
  <2>2. cursor' \in {0, cursor} /\ saved' \in {cursor, saved}
        BY <1>5 DEF LaunchCheck, LaunchFinish
  <2>3. Complete(cursor)' /\ Complete(saved)'
        BY <1>0, <2>1, <2>2 DEF PollInv, Complete
  <2> QED
      BY <2>1, <2>3 DEF PollInv, Complete, AnswerClosed
<1>6. CASE LaunchAsk \/ LaunchRecover \/ PullAsk \/ ReconnectAsk
  <2>1. Complete(cursor) /\ Complete(ResolveSyncCursor)
        BY ResolveComplete DEF PollInv
  <2>2. PICK r \in Requests, t \in {0, cursor, ResolveSyncCursor}, step \in {"asked", "reasked", "finish"} :
           Ask(r, t, step)
    <3>1. CASE LaunchAsk
          BY <3>1 DEF LaunchAsk
    <3>2. CASE LaunchRecover
          BY <3>2 DEF LaunchRecover
    <3>3. CASE PullAsk \/ ReconnectAsk
          BY <3>3 DEF PullAsk, ReconnectAsk
    <3> QED
        BY <1>6, <3>1, <3>2, <3>3
  <2>3. cursor' = cursor /\ floor' = floor
        BY <1>6 DEF LaunchAsk, LaunchRecover, PullAsk, ReconnectAsk
  <2>4. Complete(t)
        BY <1>0, <2>1, <2>2
  <2>5. /\ UNCHANGED <<rows, db, mem, writes, snap, saved, tray, answer>>
        /\ \A q \in Requests : pc'[q] = "stored" => pc[q] = "stored"
        /\ \A q \in Requests : since'[q] = since[q] \/ since'[q] = t
        BY <1>0, <2>2 DEF Ask, Typed
  <2>6. \A q \in Requests : Complete(since'[q])
        BY <2>4, <2>5 DEF PollInv
  <2> QED
      BY <2>3, <2>5, <2>6 DEF PollInv, Complete, AnswerClosed
<1>7. ASSUME NEW r \in Requests, Serve(r) \/ ServeReadFails(r) \/ AskFails(r) PROVE PollInv'
  <2>1. /\ UNCHANGED <<rows, db, mem, writes, snap, cursor, saved, floor, tray, since>>
        /\ \A q \in Requests : pc'[q] = "stored" => q # r /\ pc[q] = "stored"
        /\ \A q \in Requests : q # r => answer'[q] = answer[q]
        BY <1>0, <1>7 DEF Serve, ServeReadFails, AskFails, Typed
  <2>2. answer'[r] \subseteq rows /\ AnswerClosed(r)'
    <3>1. CASE Serve(r)
      <4>1. PICK R \in RowsSince(since[r]) : answer' = [answer EXCEPT ![r] = R]
            BY <3>1 DEF Serve
      <4>2. answer'[r] = {m \in rows : since[r] = 0 \/ Ts[m] > since[r]}
            BY <1>0, <4>1, AnswersAreWhole DEF Typed
      <4>3. \A k \in rows : Ts[k] <= since[r] => k \in db
            BY DEF PollInv, Complete
      <4>4. \A k \in rows : k \in db \cup answer'[r]
            BY <1>0, <4>2, <4>3 DEF Typed
      <4> QED
          BY <2>1, <4>2, <4>4 DEF AnswerClosed
    <3>2. CASE ServeReadFails(r)
          BY <1>0, <3>2 DEF ServeReadFails, Typed, AnswerClosed
    <3>3. CASE AskFails(r)
          BY <3>3 DEF AskFails, PollInv, AnswerClosed
    <3> QED
        BY <1>7, <3>1, <3>2, <3>3
  <2> QED
      BY <2>1, <2>2 DEF PollInv, Complete, AnswerClosed
<1>8. ASSUME NEW r \in Requests, Store(r) PROVE PollInv'
  <2>1. /\ db' = db \cup answer[r] /\ pc' = [pc EXCEPT ![r] = "stored"]
        /\ UNCHANGED <<rows, mem, writes, snap, cursor, saved, floor, tray, since, answer>>
        BY <1>8 DEF Store
  <2>2. \A m \in answer[r] : Complete(Ts[m])'
        BY <1>0, <2>1 DEF PollInv, AnswerClosed, Complete, Typed
  <2>3. \A m \in db : Complete(Ts[m])'
        BY <2>1 DEF PollInv, Complete
  <2>4. /\ Complete(cursor)' /\ Complete(saved)'
        /\ \A q \in Requests : Complete(since[q])' /\ AnswerClosed(q)'
        BY <2>1 DEF PollInv, Complete, AnswerClosed
  <2>5. \A m \in db' : Complete(Ts[m])'
        BY <2>1, <2>2, <2>3
  <2> QED
      BY <1>0, <2>1, <2>4, <2>5 DEF PollInv, Typed
<1>9. ASSUME NEW r \in Requests, Apply(r) PROVE PollInv'
  <2>1. /\ UNCHANGED <<rows, db, writes, snap, floor, tray, since>>
        /\ mem' = mem \cup answer[r] /\ answer' = [answer EXCEPT ![r] = {}]
        /\ \A q \in Requests : pc'[q] = "stored" => pc[q] = "stored"
        BY <1>0, <1>9 DEF Apply, Typed
  <2>2. answer[r] \in SUBSET Msgs /\ answer[r] \subseteq db
        BY <1>0, <1>9 DEF Apply, PollInv, Typed
  <2>3. Complete(Newest(answer[r]))
    <3>1. Newest(answer[r]) = 0 \/ \E m \in answer[r] : Newest(answer[r]) = Ts[m]
          BY <2>2, NewestIs
    <3> QED
        BY <1>0, <2>2, <3>1 DEF PollInv
  <2>4. Complete(Larger(cursor, Larger(since[r], Newest(answer[r]))))
        BY <2>3 DEF Larger, PollInv
  <2>5. Complete(cursor') /\ Complete(saved')
        BY <1>9, <2>4 DEF Apply, PollInv
  <2>6. Complete(cursor)' /\ Complete(saved)'
        BY <2>1, <2>5 DEF Complete
  <2>7. \A q \in Requests : answer'[q] \subseteq answer[q] /\ AnswerClosed(q)'
        BY <1>0, <2>1 DEF PollInv, AnswerClosed, Typed
  <2>8. tray' = tray
        BY <2>1
  <2> QED
      BY <2>1, <2>2, <2>6, <2>7 DEF PollInv, Complete
<1>10. CASE UNCHANGED vars
       BY <1>10 DEF vars, PollInv, Complete, AnswerClosed
<1> QED
    BY <1>1, <1>2, <1>3, <1>4, <1>5, <1>6, <1>7, <1>8, <1>9, <1>10
       DEF Next, RequestStep, LaunchStep

LEMMA InitPoll == Init => PollInv
BY InitTyped, TypedIsTypeOK DEF Init, PollInv, Complete, AnswerClosed, Requests

\* Polling is a safety net without gaps as long as it works alone, rows are
\* committed in the order of their timestamps and no answer is cut off:
\* whatever the launch, the pulls, failed requests, failed queries and
\* terminations do, a message the device lacks is above the cursor.
THEOREM PollingMissesNothing == ASSUME PollingAlone PROVE Spec => []Reachable
<1>1. PollInv => Reachable
  <2> SUFFICES ASSUME PollInv, NEW m \in rows \ (db \cup mem)
               PROVE  Ts[m] > ResolveSyncCursor
      BY DEF Reachable
  <2>1. ~ (Ts[m] <= ResolveSyncCursor)
        BY ResolveComplete DEF Complete
  <2>2. ResolveSyncCursor \in 0..MaxTs /\ m \in Msgs
        BY TypedIsTypeOK, ResolveIs DEF PollInv, Typed
  <2> QED
      BY <2>1, <2>2, DeltaSyncAssumption
<1> QED
    BY <1>1, InitPoll, PollInductive, PTL DEF Spec
===============================================================================
