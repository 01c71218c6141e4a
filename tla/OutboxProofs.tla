----------------------------- MODULE OutboxProofs -----------------------------
(***************************************************************************)
(* Proofs about Outbox, for every set of messages and every number of      *)
(* faults, clearings and terminations, with or without a failing disk.     *)
(***************************************************************************)
EXTENDS Outbox, TLAPS

\* _maxDeliveryStatus returns one of its arguments.
LEMMA MaxStatusTyped ==
  ASSUME NEW a \in Status, NEW b \in Status
  PROVE  MaxStatus(a, b) \in {a, b}
BY DEF MaxStatus

\* Every step keeps every variable within its type, and only existing rows
\* rest: drainQueue's UPDATE does not bring a removed row back.
LEMMA TypeInductive == TypeOK /\ [Next]_vars => TypeOK'
<1> SUFFICES ASSUME TypeOK, [Next]_vars PROVE TypeOK'
    OBVIOUS
<1> USE OutboxAssumption DEF TypeOK, Routes, Readers, Status, Accepted, appVars,
          statusVars, rowVars, serverVars, listVars, wipeVars, envVars
<1>1. CASE AppStart
      BY <1>1 DEF AppStart, Initialize
<1>2. CASE AppKilled
      BY <1>2 DEF AppKilled
<1>3. CASE Connect
      BY <1>3 DEF Connect
<1>4. CASE Disconnect
      BY <1>4 DEF Disconnect
<1>5. CASE ServerRestarts
  <2>1. PICK step \in {"sending", "missed"} :
          at' = [r \in Routes |-> [m \in Msgs |->
                   IF at[r][m] = "waiting" THEN step ELSE at[r][m]]]
        BY <1>5 DEF ServerRestarts
  <2>2. at' \in [Routes -> [Msgs -> {"idle", "bubble", "sending", "waiting", "acked",
                                   "missed", "settled"}]]
        BY <2>1
  <2>3. faults' \in 0..MaxFaults /\ UNCHANGED <<disk, kills>>
        BY <1>5 DEF ServerRestarts, Fault
  <2>4. QED
        BY <1>5, <2>2, <2>3 DEF ServerRestarts
<1>6. CASE ClearDatabase
      BY <1>6 DEF ClearDatabase
<1>7. CASE ClearDatabaseFails
      BY <1>7 DEF ClearDatabaseFails
<1>8. CASE ClearMemory
      BY <1>8 DEF ClearMemory
<1>9. CASE InitializeAgain
      BY <1>9 DEF InitializeAgain, Initialize
<1>10. ASSUME NEW m \in Msgs, Bubble(m) PROVE TypeOK'
       BY <1>10 DEF Bubble, Goto
<1>11. ASSUME NEW m \in Msgs, BackoffEnds(m) PROVE TypeOK'
       BY <1>11 DEF BackoffEnds
<1>12. ASSUME NEW m \in Msgs, Enqueue(m) PROVE TypeOK'
       BY <1>12 DEF Enqueue, Goto
<1>13. ASSUME NEW m \in Msgs, EnqueueFails(m) PROVE TypeOK'
       BY <1>13 DEF EnqueueFails, Goto, Fault, SetStatus
<1>14. ASSUME NEW m \in Msgs, DrainSettles(m) PROVE TypeOK'
       BY <1>14 DEF DrainSettles, Goto, SetStored
<1>15. ASSUME NEW m \in Msgs, DrainMisses(m) PROVE TypeOK'
       BY <1>15 DEF DrainMisses, Goto, SetStored
<1>16. ASSUME NEW m \in Msgs, HandlerStores(m) PROVE TypeOK'
       BY <1>16 DEF HandlerStores, Receive, Answer
<1>17. ASSUME NEW m \in Msgs, HandlerFails(m) PROVE TypeOK'
  <2>1. server' \in [Msgs -> {"none"} \cup Accepted]
        BY <1>17 DEF HandlerFails, Receive
  <2>2. PICK step \in {"sending", "missed"} : Answer(m, step)
        BY <1>17 DEF HandlerFails
  <2>3. at' \in [Routes -> [Msgs -> {"idle", "bubble", "sending", "waiting", "acked",
                                   "missed", "settled"}]]
        BY <2>2 DEF Answer
  <2>4. faults' \in 0..MaxFaults /\ UNCHANGED <<disk, kills>>
        BY <1>17 DEF HandlerFails, Fault
  <2>5. QED
        BY <1>17, <2>1, <2>3, <2>4 DEF HandlerFails
<1>18. ASSUME NEW m \in Msgs, Confirm(m) PROVE TypeOK'
       BY <1>18 DEF Confirm
<1>19. ASSUME NEW m \in Msgs, Receipt(m) PROVE TypeOK'
       BY <1>19 DEF Receipt, MaxStatus
<1>20. ASSUME NEW m \in Msgs, Echo(m) PROVE TypeOK'
  <2>1. PICK s \in {"sent", server[m]} :
           /\ shown' = [shown EXCEPT ![m] = MaxStatus(@, s)]
           /\ stored' = [stored EXCEPT ![m] = MaxStatus(shown[m], s)]
        BY <1>20 DEF Echo
  <2>2. s \in Status /\ shown[m] \in Status
        BY <2>1
  <2>3. MaxStatus(shown[m], s) \in Status
        BY <2>2, MaxStatusTyped
  <2>4. shown' \in [Msgs -> Status] /\ stored' \in [Msgs -> Status]
        BY <2>1, <2>3
  <2>5. QED
        BY <1>20, <2>4 DEF Echo
<1>21. ASSUME NEW r \in Routes, NEW m \in Msgs, Arrive(r, m) PROVE TypeOK'
       BY <1>21 DEF Arrive, Goto
<1>22. ASSUME NEW r \in Routes, NEW m \in Msgs, AnsweredDuplicate(r, m) PROVE TypeOK'
       BY <1>22 DEF AnsweredDuplicate, Goto
<1>23. ASSUME NEW r \in Routes, NEW m \in Msgs, Refused(r, m) PROVE TypeOK'
       BY <1>23 DEF Refused, Goto, Fault
<1>24. ASSUME NEW r \in Routes, NEW m \in Msgs, TimesOut(r, m) PROVE TypeOK'
       BY <1>24 DEF TimesOut, Goto, Fault
<1>25. ASSUME NEW r \in Routes, NEW m \in Msgs, Settle(r, m) PROVE TypeOK'
       BY <1>25 DEF Settle, SetStatus, Goto
<1>26. ASSUME NEW r \in Routes, NEW m \in Msgs, RemoveRow(r, m) PROVE TypeOK'
       BY <1>26 DEF RemoveRow, Goto
<1>27. ASSUME NEW r \in Readers, ReadRows(r) PROVE TypeOK'
       BY <1>27 DEF ReadRows
<1>28. ASSUME NEW r \in Readers, RowsDone(r) PROVE TypeOK'
       BY <1>28 DEF RowsDone
<1>29. ASSUME NEW r \in Readers, NEW m \in Msgs, NextRow(r, m) PROVE TypeOK'
       BY <1>29 DEF NextRow, Goto
<1>30. CASE UNCHANGED vars
       BY <1>30 DEF vars
<1> QED
    BY <1>1, <1>2, <1>3, <1>4, <1>5, <1>6, <1>7, <1>8, <1>9, <1>10, <1>11, <1>12,
       <1>13, <1>14, <1>15, <1>16, <1>17, <1>18, <1>19, <1>20, <1>21, <1>22, <1>23,
       <1>24, <1>25, <1>26, <1>27, <1>28, <1>29, <1>30
       DEF Next, ComposeStep, DrainStep, HandlerStep, Back, Request, SendStep, ReaderStep

\* The first start of an app without messages has the right types.
LEMMA InitTyped == Init => TypeOK
BY OutboxAssumption DEF Init, TypeOK, Routes, Readers, Status, Accepted

\* Type correctness of the outbox.
THEOREM TypeCorrect == Spec => []TypeOK
BY InitTyped, TypeInductive, PTL DEF Spec

-----------------------------------------------------------------------------
(* What the device believes of the server.                                 *)

\* A route that was answered success, and has not finished, was told the truth
\* or answered as a duplicate too early.
AckIsTrue ==
  \A r \in Routes, m \in Msgs : at[r][m] \in {"acked", "settled"} => Known(m)

TickInv == /\ TypeOK
           /\ AckIsTrue
           /\ TickIsTrue

\* The server never loses a message, nor takes back what it said.
LEMMA KnownStays ==
  TypeOK /\ [Next]_vars => \A m \in Msgs : Known(m) => Known(m)'
<1> SUFFICES ASSUME TypeOK, [Next]_vars, NEW x \in Msgs, Known(x)
             PROVE  Known(x)'
    OBVIOUS
<1> USE DEF TypeOK, Routes, Readers, Known, serverVars
<1>1. ASSUME NEW m \in Msgs, Confirm(m) PROVE Known(x)'
      BY <1>1 DEF Confirm
<1>2. ASSUME NEW m \in Msgs, HandlerStores(m) \/ HandlerFails(m) PROVE Known(x)'
      BY <1>2 DEF HandlerStores, HandlerFails, Receive
<1>3. ASSUME NEW r \in Routes, NEW m \in Msgs, AnsweredDuplicate(r, m) PROVE Known(x)'
      BY <1>3 DEF AnsweredDuplicate
<1>4. CASE UNCHANGED <<server, early>>
      BY <1>4
<1>5. QED
      BY <1>1, <1>2, <1>3, <1>4 DEF Next, ComposeStep, DrainStep, HandlerStep, Back,
         Request, SendStep, ReaderStep, AppStart, AppKilled, Connect, Disconnect,
         ServerRestarts, ClearDatabase, ClearDatabaseFails, ClearMemory, InitializeAgain,
         Bubble, BackoffEnds, Enqueue, EnqueueFails, DrainSettles, DrainMisses, Receipt,
         Echo, Arrive, Refused, TimesOut, Settle, RemoveRow, ReadRows, RowsDone, NextRow, vars

\* A successful answer stays true: the handler gives it when the server has the
\* message, and a duplicate's answer is on record.
LEMMA AckInductive == TypeOK /\ AckIsTrue /\ [Next]_vars => AckIsTrue'
<1> SUFFICES ASSUME TypeOK, AckIsTrue, [Next]_vars, NEW q \in Routes, NEW x \in Msgs,
                    at'[q][x] \in {"acked", "settled"}, ~Known(x)'
             PROVE  FALSE
    BY DEF AckIsTrue, Known
<1>a. ~Known(x)
      BY KnownStays
<1>b. at[q][x] \notin {"acked", "settled"}
      BY <1>a DEF AckIsTrue
<1> USE <1>a, <1>b DEF TypeOK, Routes, Readers, Known, serverVars
<1>1. CASE AppStart
      BY <1>1 DEF AppStart, Initialize
<1>2. CASE AppKilled
      BY <1>2 DEF AppKilled
<1>3. CASE Connect
      BY <1>3 DEF Connect
<1>4. CASE Disconnect
      BY <1>4 DEF Disconnect
<1>5. CASE ServerRestarts
      BY <1>5 DEF ServerRestarts, Fault
<1>6. CASE ClearDatabase
      BY <1>6 DEF ClearDatabase
<1>7. CASE ClearDatabaseFails
      BY <1>7 DEF ClearDatabaseFails
<1>8. CASE ClearMemory
      BY <1>8 DEF ClearMemory
<1>9. CASE InitializeAgain
      BY <1>9 DEF InitializeAgain, Initialize
<1>10. ASSUME NEW m \in Msgs, Bubble(m) PROVE FALSE
       BY <1>10 DEF Bubble, Goto
<1>11. ASSUME NEW m \in Msgs, BackoffEnds(m) PROVE FALSE
       BY <1>11 DEF BackoffEnds
<1>12. ASSUME NEW m \in Msgs, Enqueue(m) PROVE FALSE
       BY <1>12 DEF Enqueue, Goto
<1>13. ASSUME NEW m \in Msgs, EnqueueFails(m) PROVE FALSE
       BY <1>13 DEF EnqueueFails, Goto, Fault, SetStatus
<1>14. ASSUME NEW m \in Msgs, DrainSettles(m) PROVE FALSE
       BY <1>14 DEF DrainSettles, Goto, SetStored
<1>15. ASSUME NEW m \in Msgs, DrainMisses(m) PROVE FALSE
       BY <1>15 DEF DrainMisses, Goto, SetStored
<1>16. ASSUME NEW m \in Msgs, HandlerStores(m) PROVE FALSE
       BY <1>16 DEF HandlerStores, Receive, Answer
<1>17. ASSUME NEW m \in Msgs, HandlerFails(m) PROVE FALSE
       BY <1>17 DEF HandlerFails, Receive, Answer, Fault
<1>18. ASSUME NEW m \in Msgs, Confirm(m) PROVE FALSE
       BY <1>18 DEF Confirm
<1>19. ASSUME NEW m \in Msgs, Receipt(m) PROVE FALSE
       BY <1>19 DEF Receipt, MaxStatus
<1>20. ASSUME NEW m \in Msgs, Echo(m) PROVE FALSE
       BY <1>20 DEF Echo, MaxStatus
<1>21. ASSUME NEW r \in Routes, NEW m \in Msgs, Arrive(r, m) PROVE FALSE
       BY <1>21 DEF Arrive, Goto
<1>22. ASSUME NEW r \in Routes, NEW m \in Msgs, AnsweredDuplicate(r, m) PROVE FALSE
       BY <1>22 DEF AnsweredDuplicate, Goto
<1>23. ASSUME NEW r \in Routes, NEW m \in Msgs, Refused(r, m) PROVE FALSE
       BY <1>23 DEF Refused, Goto, Fault
<1>24. ASSUME NEW r \in Routes, NEW m \in Msgs, TimesOut(r, m) PROVE FALSE
       BY <1>24 DEF TimesOut, Goto, Fault
<1>25. ASSUME NEW r \in Routes, NEW m \in Msgs, Settle(r, m) PROVE FALSE
       BY <1>25 DEF Settle, SetStatus, Goto
<1>26. ASSUME NEW r \in Routes, NEW m \in Msgs, RemoveRow(r, m) PROVE FALSE
       BY <1>26 DEF RemoveRow, Goto
<1>27. ASSUME NEW r \in Readers, ReadRows(r) PROVE FALSE
       BY <1>27 DEF ReadRows
<1>28. ASSUME NEW r \in Readers, RowsDone(r) PROVE FALSE
       BY <1>28 DEF RowsDone
<1>29. ASSUME NEW r \in Readers, NEW m \in Msgs, NextRow(r, m) PROVE FALSE
       BY <1>29 DEF NextRow, Goto
<1>30. CASE UNCHANGED vars
       BY <1>30 DEF vars
<1> QED
    BY <1>1, <1>2, <1>3, <1>4, <1>5, <1>6, <1>7, <1>8, <1>9, <1>10, <1>11, <1>12,
       <1>13, <1>14, <1>15, <1>16, <1>17, <1>18, <1>19, <1>20, <1>21, <1>22, <1>23,
       <1>24, <1>25, <1>26, <1>27, <1>28, <1>29, <1>30
       DEF Next, ComposeStep, DrainStep, HandlerStep, Back, Request, SendStep, ReaderStep

\* Every tick stays true: whoever sets an accepted status was answered by the
\* server, or was told so by a receipt or an echo, and a restart brings back
\* what the table holds.
LEMMA TickInductive ==
  TypeOK /\ AckIsTrue /\ TickIsTrue /\ [Next]_vars => TickIsTrue'
<1> SUFFICES ASSUME TypeOK, AckIsTrue, TickIsTrue, [Next]_vars, NEW x \in Msgs,
                    shown'[x] \in Accepted \/ stored'[x] \in Accepted, ~Known(x)'
             PROVE  FALSE
    BY DEF TickIsTrue, Known
<1>a. ~Known(x)
      BY KnownStays
<1>b. /\ shown[x] \notin Accepted /\ stored[x] \notin Accepted
      /\ \A r \in Routes : at[r][x] \notin {"acked", "settled"}
      BY <1>a DEF TickIsTrue, AckIsTrue
<1> USE <1>a, <1>b DEF TypeOK, Routes, Readers, Accepted, Known, statusVars
<1>1. CASE AppStart
      BY <1>1 DEF AppStart, Initialize
<1>2. CASE AppKilled
      BY <1>2 DEF AppKilled
<1>3. CASE Connect
      BY <1>3 DEF Connect
<1>4. CASE Disconnect
      BY <1>4 DEF Disconnect
<1>5. CASE ServerRestarts
      BY <1>5 DEF ServerRestarts, Fault
<1>6. CASE ClearDatabase
      BY <1>6 DEF ClearDatabase
<1>7. CASE ClearDatabaseFails
      BY <1>7 DEF ClearDatabaseFails
<1>8. CASE ClearMemory
      BY <1>8 DEF ClearMemory
<1>9. CASE InitializeAgain
      BY <1>9 DEF InitializeAgain, Initialize
<1>10. ASSUME NEW m \in Msgs, Bubble(m) PROVE FALSE
       BY <1>10 DEF Bubble, Goto
<1>11. ASSUME NEW m \in Msgs, BackoffEnds(m) PROVE FALSE
       BY <1>11 DEF BackoffEnds
<1>12. ASSUME NEW m \in Msgs, Enqueue(m) PROVE FALSE
       BY <1>12 DEF Enqueue, Goto
<1>13. ASSUME NEW m \in Msgs, EnqueueFails(m) PROVE FALSE
       BY <1>13 DEF EnqueueFails, Goto, Fault, SetStatus
<1>14. ASSUME NEW m \in Msgs, DrainSettles(m) PROVE FALSE
       BY <1>14 DEF DrainSettles, Goto, SetStored
<1>15. ASSUME NEW m \in Msgs, DrainMisses(m) PROVE FALSE
       BY <1>15 DEF DrainMisses, Goto, SetStored
<1>16. ASSUME NEW m \in Msgs, HandlerStores(m) PROVE FALSE
       BY <1>16 DEF HandlerStores, Receive, Answer
<1>17. ASSUME NEW m \in Msgs, HandlerFails(m) PROVE FALSE
       BY <1>17 DEF HandlerFails, Receive, Answer, Fault
<1>18. ASSUME NEW m \in Msgs, Confirm(m) PROVE FALSE
       BY <1>18 DEF Confirm
<1>19. ASSUME NEW m \in Msgs, Receipt(m) PROVE FALSE
       BY <1>19 DEF Receipt, MaxStatus
<1>20. ASSUME NEW m \in Msgs, Echo(m) PROVE FALSE
       BY <1>20 DEF Echo, MaxStatus
<1>21. ASSUME NEW r \in Routes, NEW m \in Msgs, Arrive(r, m) PROVE FALSE
       BY <1>21 DEF Arrive, Goto
<1>22. ASSUME NEW r \in Routes, NEW m \in Msgs, AnsweredDuplicate(r, m) PROVE FALSE
       BY <1>22 DEF AnsweredDuplicate, Goto
<1>23. ASSUME NEW r \in Routes, NEW m \in Msgs, Refused(r, m) PROVE FALSE
       BY <1>23 DEF Refused, Goto, Fault
<1>24. ASSUME NEW r \in Routes, NEW m \in Msgs, TimesOut(r, m) PROVE FALSE
       BY <1>24 DEF TimesOut, Goto, Fault
<1>25. ASSUME NEW r \in Routes, NEW m \in Msgs, Settle(r, m) PROVE FALSE
       BY <1>25 DEF Settle, SetStatus, Goto
<1>26. ASSUME NEW r \in Routes, NEW m \in Msgs, RemoveRow(r, m) PROVE FALSE
       BY <1>26 DEF RemoveRow, Goto
<1>27. ASSUME NEW r \in Readers, ReadRows(r) PROVE FALSE
       BY <1>27 DEF ReadRows
<1>28. ASSUME NEW r \in Readers, RowsDone(r) PROVE FALSE
       BY <1>28 DEF RowsDone
<1>29. ASSUME NEW r \in Readers, NEW m \in Msgs, NextRow(r, m) PROVE FALSE
       BY <1>29 DEF NextRow, Goto
<1>30. CASE UNCHANGED vars
       BY <1>30 DEF vars
<1> QED
    BY <1>1, <1>2, <1>3, <1>4, <1>5, <1>6, <1>7, <1>8, <1>9, <1>10, <1>11, <1>12,
       <1>13, <1>14, <1>15, <1>16, <1>17, <1>18, <1>19, <1>20, <1>21, <1>22, <1>23,
       <1>24, <1>25, <1>26, <1>27, <1>28, <1>29, <1>30
       DEF Next, ComposeStep, DrainStep, HandlerStep, Back, Request, SendStep, ReaderStep

\* The three parts together are inductive.
LEMMA TickInvInductive == TickInv /\ [Next]_vars => TickInv'
BY TypeInductive, AckInductive, TickInductive DEF TickInv

\* And they hold initially, when nothing was sent.
LEMMA TickInvInit == Init => TickInv
BY InitTyped DEF Init, TickInv, AckIsTrue, TickIsTrue, Accepted

\* Ticks are true, whatever the three routes, receipts, echoes, faults,
\* clearings and terminations do, but for the server's own early answers.
THEOREM TicksTrue == Spec => []TickIsTrue
<1>1. TickInv => TickIsTrue
      BY DEF TickInv
<1>2. QED
      BY <1>1, TickInvInit, TickInvInductive, PTL DEF Spec

\* One step never removes the row of a message the server has neither got nor
\* acknowledged, unless it clears them all.
LEMMA RemovalStep ==
  TypeOK /\ AckIsTrue /\ [Next]_vars =>
    \A m \in outbox \ outbox' : Known(m) \/ m \in wiped'
<1> SUFFICES ASSUME TypeOK, AckIsTrue, [Next]_vars,
                    NEW x \in outbox, x \notin outbox', ~Known(x), x \notin wiped'
             PROVE  FALSE
    OBVIOUS
<1>a. x \in Msgs
      BY DEF TypeOK
<1>b. \A r \in Routes : at[r][x] \notin {"acked", "settled"}
      BY <1>a DEF AckIsTrue
<1> USE <1>b DEF TypeOK, Routes, Readers, rowVars
<1>1. CASE AppStart
      BY <1>1 DEF AppStart, Initialize
<1>2. CASE AppKilled
      BY <1>2 DEF AppKilled
<1>3. CASE Connect
      BY <1>3 DEF Connect
<1>4. CASE Disconnect
      BY <1>4 DEF Disconnect
<1>5. CASE ServerRestarts
      BY <1>5 DEF ServerRestarts, Fault
<1>6. CASE ClearDatabase
      BY <1>6 DEF ClearDatabase
<1>7. CASE ClearDatabaseFails
      BY <1>7 DEF ClearDatabaseFails
<1>8. CASE ClearMemory
      BY <1>8 DEF ClearMemory
<1>9. CASE InitializeAgain
      BY <1>9 DEF InitializeAgain, Initialize
<1>10. ASSUME NEW m \in Msgs, Bubble(m) PROVE FALSE
       BY <1>10 DEF Bubble, Goto
<1>11. ASSUME NEW m \in Msgs, BackoffEnds(m) PROVE FALSE
       BY <1>11 DEF BackoffEnds
<1>12. ASSUME NEW m \in Msgs, Enqueue(m) PROVE FALSE
       BY <1>12 DEF Enqueue, Goto
<1>13. ASSUME NEW m \in Msgs, EnqueueFails(m) PROVE FALSE
       BY <1>13 DEF EnqueueFails, Goto, Fault, SetStatus
<1>14. ASSUME NEW m \in Msgs, DrainSettles(m) PROVE FALSE
       BY <1>14 DEF DrainSettles, Goto, SetStored
<1>15. ASSUME NEW m \in Msgs, DrainMisses(m) PROVE FALSE
       BY <1>15 DEF DrainMisses, Goto, SetStored
<1>16. ASSUME NEW m \in Msgs, HandlerStores(m) PROVE FALSE
       BY <1>16 DEF HandlerStores, Receive, Answer
<1>17. ASSUME NEW m \in Msgs, HandlerFails(m) PROVE FALSE
       BY <1>17 DEF HandlerFails, Receive, Answer, Fault
<1>18. ASSUME NEW m \in Msgs, Confirm(m) PROVE FALSE
       BY <1>18 DEF Confirm
<1>19. ASSUME NEW m \in Msgs, Receipt(m) PROVE FALSE
       BY <1>19 DEF Receipt, MaxStatus
<1>20. ASSUME NEW m \in Msgs, Echo(m) PROVE FALSE
       BY <1>20 DEF Echo, MaxStatus
<1>21. ASSUME NEW r \in Routes, NEW m \in Msgs, Arrive(r, m) PROVE FALSE
       BY <1>21 DEF Arrive, Goto
<1>22. ASSUME NEW r \in Routes, NEW m \in Msgs, AnsweredDuplicate(r, m) PROVE FALSE
       BY <1>22 DEF AnsweredDuplicate, Goto
<1>23. ASSUME NEW r \in Routes, NEW m \in Msgs, Refused(r, m) PROVE FALSE
       BY <1>23 DEF Refused, Goto, Fault
<1>24. ASSUME NEW r \in Routes, NEW m \in Msgs, TimesOut(r, m) PROVE FALSE
       BY <1>24 DEF TimesOut, Goto, Fault
<1>25. ASSUME NEW r \in Routes, NEW m \in Msgs, Settle(r, m) PROVE FALSE
       BY <1>25 DEF Settle, SetStatus, Goto
<1>26. ASSUME NEW r \in Routes, NEW m \in Msgs, RemoveRow(r, m) PROVE FALSE
       BY <1>26 DEF RemoveRow, Goto
<1>27. ASSUME NEW r \in Readers, ReadRows(r) PROVE FALSE
       BY <1>27 DEF ReadRows
<1>28. ASSUME NEW r \in Readers, RowsDone(r) PROVE FALSE
       BY <1>28 DEF RowsDone
<1>29. ASSUME NEW r \in Readers, NEW m \in Msgs, NextRow(r, m) PROVE FALSE
       BY <1>29 DEF NextRow, Goto
<1>30. CASE UNCHANGED vars
       BY <1>30 DEF vars
<1> QED
    BY <1>1, <1>2, <1>3, <1>4, <1>5, <1>6, <1>7, <1>8, <1>9, <1>10, <1>11, <1>12,
       <1>13, <1>14, <1>15, <1>16, <1>17, <1>18, <1>19, <1>20, <1>21, <1>22, <1>23,
       <1>24, <1>25, <1>26, <1>27, <1>28, <1>29, <1>30
       DEF Next, ComposeStep, DrainStep, HandlerStep, Back, Request, SendStep, ReaderStep

\* A row leaves the outbox only when the server has its message or has said so,
\* or when all local data is cleared.
THEOREM RemovalsReceived == Spec => RemovedIsReceived
<1>1. TickInv /\ [Next]_vars =>
        [\A m \in outbox \ outbox' : Known(m) \/ m \in wiped']_vars
      BY RemovalStep DEF TickInv
<1>2. QED
      BY <1>1, TickInvInit, TickInvInductive, PTL DEF Spec, RemovedIsReceived

-----------------------------------------------------------------------------
(* Where failed messages are, if the database works.                       *)

\* A message some route is to send, is sending or has missed is in the outbox,
\* or the server has it or said so, or its row was cleared with everything.
Kept(m) == m \in outbox \/ Known(m) \/ m \in wiped

RouteHasRow ==
  /\ \A r \in Routes, m \in Msgs :
       at[r][m] \in {"sending", "waiting", "missed"} => Kept(m)
  /\ \A r \in Readers : \A m \in todo[r] : Kept(m)

QueueInv == /\ TickInv
            /\ RouteHasRow
            /\ FailedIsQueued

\* What was cleared stays on record.
LEMMA WipedStays == [Next]_vars => wiped \subseteq wiped'
<1> SUFFICES ASSUME [Next]_vars PROVE wiped \subseteq wiped'
    OBVIOUS
<1>1. CASE ClearDatabase
      BY <1>1 DEF ClearDatabase
<1>2. CASE UNCHANGED wiped
      BY <1>2
<1>3. QED
      BY <1>1, <1>2 DEF Next, ComposeStep, DrainStep, HandlerStep, Back,
         Request, SendStep, ReaderStep, AppStart, AppKilled, Connect, Disconnect,
         ServerRestarts, ClearDatabaseFails, ClearMemory, InitializeAgain,
         Bubble, BackoffEnds, Enqueue, EnqueueFails, DrainSettles, DrainMisses, Receipt,
         Echo, Arrive, Refused, TimesOut, Settle, RemoveRow, ReadRows, RowsDone, NextRow, vars,
         HandlerStores, HandlerFails, Confirm, AnsweredDuplicate, wipeVars

\* A message that is kept stays kept.
LEMMA KeptStays ==
  TypeOK /\ AckIsTrue /\ [Next]_vars => \A m \in Msgs : Kept(m) => Kept(m)'
<1> SUFFICES ASSUME TypeOK, AckIsTrue, [Next]_vars, NEW m \in Msgs, Kept(m)
             PROVE  Kept(m)'
    OBVIOUS
<1>1. CASE m \in outbox /\ m \notin outbox'
      BY <1>1, RemovalStep, KnownStays DEF Kept
<1>2. CASE m \in outbox'
      BY <1>2 DEF Kept
<1>3. CASE Known(m)
      BY <1>3, KnownStays DEF Kept
<1>4. CASE m \in wiped
      BY <1>4, WipedStays DEF Kept
<1> QED
    BY <1>1, <1>2, <1>3, <1>4 DEF Kept

\* Routes only take up rows and only fail what they took up.
LEMMA RouteInductive ==
  TypeOK /\ AckIsTrue /\ RouteHasRow /\ [Next]_vars => RouteHasRow'
<1> SUFFICES ASSUME TypeOK, AckIsTrue, RouteHasRow, [Next]_vars PROVE RouteHasRow'
    OBVIOUS
<1>t. TypeOK'
      BY TypeInductive
<1> SUFFICES ASSUME NEW x \in Msgs, ~Kept(x)',
                    \/ \E q \in Routes : at'[q][x] \in {"sending", "waiting", "missed"}
                    \/ \E q \in Readers : x \in todo'[q]
             PROVE  FALSE
    BY <1>t DEF RouteHasRow, TypeOK
<1>a. ~Kept(x)
      BY KeptStays
<1>b. /\ \A q \in Routes : at[q][x] \notin {"sending", "waiting", "missed"}
      /\ \A q \in Readers : x \notin todo[q]
      BY <1>a DEF RouteHasRow
<1>c. x \notin outbox /\ x \notin outbox'
      BY <1>a DEF Kept
<1> USE <1>b, <1>c DEF TypeOK, Routes, Readers, listVars
<1>1. CASE AppStart
      BY <1>1 DEF AppStart, Initialize
<1>2. CASE AppKilled
      BY <1>2 DEF AppKilled
<1>3. CASE Connect
      BY <1>3 DEF Connect
<1>4. CASE Disconnect
      BY <1>4 DEF Disconnect
<1>5. CASE ServerRestarts
      BY <1>5 DEF ServerRestarts, Fault
<1>6. CASE ClearDatabase
      BY <1>6 DEF ClearDatabase
<1>7. CASE ClearDatabaseFails
      BY <1>7 DEF ClearDatabaseFails
<1>8. CASE ClearMemory
      BY <1>8 DEF ClearMemory
<1>9. CASE InitializeAgain
      BY <1>9 DEF InitializeAgain, Initialize
<1>10. ASSUME NEW m \in Msgs, Bubble(m) PROVE FALSE
       BY <1>10 DEF Bubble, Goto
<1>11. ASSUME NEW m \in Msgs, BackoffEnds(m) PROVE FALSE
       BY <1>11 DEF BackoffEnds
<1>12. ASSUME NEW m \in Msgs, Enqueue(m) PROVE FALSE
       BY <1>12 DEF Enqueue, Goto
<1>13. ASSUME NEW m \in Msgs, EnqueueFails(m) PROVE FALSE
       BY <1>13 DEF EnqueueFails, Goto, Fault, SetStatus
<1>14. ASSUME NEW m \in Msgs, DrainSettles(m) PROVE FALSE
       BY <1>14 DEF DrainSettles, Goto, SetStored
<1>15. ASSUME NEW m \in Msgs, DrainMisses(m) PROVE FALSE
       BY <1>15 DEF DrainMisses, Goto, SetStored
<1>16. ASSUME NEW m \in Msgs, HandlerStores(m) PROVE FALSE
       BY <1>16 DEF HandlerStores, Receive, Answer
<1>17. ASSUME NEW m \in Msgs, HandlerFails(m) PROVE FALSE
       BY <1>17 DEF HandlerFails, Receive, Answer, Fault
<1>18. ASSUME NEW m \in Msgs, Confirm(m) PROVE FALSE
       BY <1>18 DEF Confirm
<1>19. ASSUME NEW m \in Msgs, Receipt(m) PROVE FALSE
       BY <1>19 DEF Receipt, MaxStatus
<1>20. ASSUME NEW m \in Msgs, Echo(m) PROVE FALSE
       BY <1>20 DEF Echo, MaxStatus
<1>21. ASSUME NEW r \in Routes, NEW m \in Msgs, Arrive(r, m) PROVE FALSE
       BY <1>21 DEF Arrive, Goto
<1>22. ASSUME NEW r \in Routes, NEW m \in Msgs, AnsweredDuplicate(r, m) PROVE FALSE
       BY <1>22 DEF AnsweredDuplicate, Goto
<1>23. ASSUME NEW r \in Routes, NEW m \in Msgs, Refused(r, m) PROVE FALSE
       BY <1>23 DEF Refused, Goto, Fault
<1>24. ASSUME NEW r \in Routes, NEW m \in Msgs, TimesOut(r, m) PROVE FALSE
       BY <1>24 DEF TimesOut, Goto, Fault
<1>25. ASSUME NEW r \in Routes, NEW m \in Msgs, Settle(r, m) PROVE FALSE
       BY <1>25 DEF Settle, SetStatus, Goto
<1>26. ASSUME NEW r \in Routes, NEW m \in Msgs, RemoveRow(r, m) PROVE FALSE
       BY <1>26 DEF RemoveRow, Goto
<1>27. ASSUME NEW r \in Readers, ReadRows(r) PROVE FALSE
       BY <1>27 DEF ReadRows
<1>28. ASSUME NEW r \in Readers, RowsDone(r) PROVE FALSE
       BY <1>28 DEF RowsDone
<1>29. ASSUME NEW r \in Readers, NEW m \in Msgs, NextRow(r, m) PROVE FALSE
       BY <1>29 DEF NextRow, Goto
<1>30. CASE UNCHANGED vars
       BY <1>30 DEF vars
<1> QED
    BY <1>1, <1>2, <1>3, <1>4, <1>5, <1>6, <1>7, <1>8, <1>9, <1>10, <1>11, <1>12,
       <1>13, <1>14, <1>15, <1>16, <1>17, <1>18, <1>19, <1>20, <1>21, <1>22, <1>23,
       <1>24, <1>25, <1>26, <1>27, <1>28, <1>29, <1>30
       DEF Next, ComposeStep, DrainStep, HandlerStep, Back, Request, SendStep, ReaderStep

\* Where the disk works it goes on working.
LEMMA DiskStays == TypeOK /\ [Next]_vars => disk' = disk
BY DEF Next, ComposeStep, DrainStep, HandlerStep, Back, Request, SendStep, ReaderStep,
       AppStart, AppKilled, Connect, Disconnect, ServerRestarts, ClearDatabase,
       ClearDatabaseFails, ClearMemory, InitializeAgain, Bubble, BackoffEnds, Enqueue,
       EnqueueFails, DrainSettles, DrainMisses, HandlerStores, HandlerFails, Confirm,
       Receipt, Echo, Arrive, AnsweredDuplicate, Refused, TimesOut, Settle, RemoveRow,
       ReadRows, RowsDone, NextRow, Fault, envVars, vars

\* Without a failing disk only a route that holds a row marks as failed.
LEMMA FailedInductive ==
  TypeOK /\ AckIsTrue /\ RouteHasRow /\ FailedIsQueued /\ [Next]_vars
    => FailedIsQueued'
<1> SUFFICES ASSUME TypeOK, AckIsTrue, RouteHasRow, FailedIsQueued, disk' = "works",
                    [Next]_vars, NEW x \in Msgs, ~Kept(x)',
                    shown'[x] = "failed" \/ stored'[x] = "failed"
             PROVE  FALSE
    BY DEF FailedIsQueued, Kept
<1>a. ~Kept(x)
      BY KeptStays
<1>0. disk = "works"
      BY DiskStays
<1>b. shown[x] # "failed" /\ stored[x] # "failed"
      BY <1>0, <1>a DEF FailedIsQueued, Kept
<1>c. \A q \in Routes : at[q][x] # "missed"
      BY <1>a DEF RouteHasRow
<1>d. server[x] = "none"
      BY <1>a DEF Kept, Known
<1> USE <1>0, <1>b, <1>c, <1>d DEF TypeOK, Routes, Readers, statusVars
<1>1. CASE AppStart
      BY <1>1 DEF AppStart, Initialize
<1>2. CASE AppKilled
      BY <1>2 DEF AppKilled
<1>3. CASE Connect
      BY <1>3 DEF Connect
<1>4. CASE Disconnect
      BY <1>4 DEF Disconnect
<1>5. CASE ServerRestarts
      BY <1>5 DEF ServerRestarts, Fault
<1>6. CASE ClearDatabase
      BY <1>6 DEF ClearDatabase
<1>7. CASE ClearDatabaseFails
      BY <1>7 DEF ClearDatabaseFails
<1>8. CASE ClearMemory
      BY <1>8 DEF ClearMemory
<1>9. CASE InitializeAgain
      BY <1>9 DEF InitializeAgain, Initialize
<1>10. ASSUME NEW m \in Msgs, Bubble(m) PROVE FALSE
       BY <1>10 DEF Bubble, Goto
<1>11. ASSUME NEW m \in Msgs, BackoffEnds(m) PROVE FALSE
       BY <1>11 DEF BackoffEnds
<1>12. ASSUME NEW m \in Msgs, Enqueue(m) PROVE FALSE
       BY <1>12 DEF Enqueue, Goto
<1>13. ASSUME NEW m \in Msgs, EnqueueFails(m) PROVE FALSE
       BY <1>13 DEF EnqueueFails, Goto, Fault, SetStatus
<1>14. ASSUME NEW m \in Msgs, DrainSettles(m) PROVE FALSE
       BY <1>14 DEF DrainSettles, Goto, SetStored
<1>15. ASSUME NEW m \in Msgs, DrainMisses(m) PROVE FALSE
       BY <1>15 DEF DrainMisses, Goto, SetStored
<1>16. ASSUME NEW m \in Msgs, HandlerStores(m) PROVE FALSE
       BY <1>16 DEF HandlerStores, Receive, Answer
<1>17. ASSUME NEW m \in Msgs, HandlerFails(m) PROVE FALSE
       BY <1>17 DEF HandlerFails, Receive, Answer, Fault
<1>18. ASSUME NEW m \in Msgs, Confirm(m) PROVE FALSE
       BY <1>18 DEF Confirm
<1>19. ASSUME NEW m \in Msgs, Receipt(m) PROVE FALSE
       BY <1>19 DEF Receipt, MaxStatus
<1>20. ASSUME NEW m \in Msgs, Echo(m) PROVE FALSE
       BY <1>20 DEF Echo, MaxStatus
<1>21. ASSUME NEW r \in Routes, NEW m \in Msgs, Arrive(r, m) PROVE FALSE
       BY <1>21 DEF Arrive, Goto
<1>22. ASSUME NEW r \in Routes, NEW m \in Msgs, AnsweredDuplicate(r, m) PROVE FALSE
       BY <1>22 DEF AnsweredDuplicate, Goto
<1>23. ASSUME NEW r \in Routes, NEW m \in Msgs, Refused(r, m) PROVE FALSE
       BY <1>23 DEF Refused, Goto, Fault
<1>24. ASSUME NEW r \in Routes, NEW m \in Msgs, TimesOut(r, m) PROVE FALSE
       BY <1>24 DEF TimesOut, Goto, Fault
<1>25. ASSUME NEW r \in Routes, NEW m \in Msgs, Settle(r, m) PROVE FALSE
       BY <1>25 DEF Settle, SetStatus, Goto
<1>26. ASSUME NEW r \in Routes, NEW m \in Msgs, RemoveRow(r, m) PROVE FALSE
       BY <1>26 DEF RemoveRow, Goto
<1>27. ASSUME NEW r \in Readers, ReadRows(r) PROVE FALSE
       BY <1>27 DEF ReadRows
<1>28. ASSUME NEW r \in Readers, RowsDone(r) PROVE FALSE
       BY <1>28 DEF RowsDone
<1>29. ASSUME NEW r \in Readers, NEW m \in Msgs, NextRow(r, m) PROVE FALSE
       BY <1>29 DEF NextRow, Goto
<1>30. CASE UNCHANGED vars
       BY <1>30 DEF vars
<1> QED
    BY <1>1, <1>2, <1>3, <1>4, <1>5, <1>6, <1>7, <1>8, <1>9, <1>10, <1>11, <1>12,
       <1>13, <1>14, <1>15, <1>16, <1>17, <1>18, <1>19, <1>20, <1>21, <1>22, <1>23,
       <1>24, <1>25, <1>26, <1>27, <1>28, <1>29, <1>30
       DEF Next, ComposeStep, DrainStep, HandlerStep, Back, Request, SendStep, ReaderStep

\* The strengthened invariant is inductive.
LEMMA QueueInvInductive == QueueInv /\ [Next]_vars => QueueInv'
BY TickInvInductive, RouteInductive, FailedInductive DEF QueueInv, TickInv

\* And it holds initially, when there is no row and no failed message.
LEMMA QueueInvInit == Init => QueueInv
BY TickInvInit DEF Init, QueueInv, RouteHasRow, FailedIsQueued, Readers

\* Where enqueueOutbox does not throw, a message marked as failed is in the outbox
\* or with the server, unless the server said so too early or the row was cleared.
THEOREM FailedQueued == Spec => []FailedIsQueued
<1>1. QueueInv => FailedIsQueued
      BY DEF QueueInv
<1>2. QueueInv /\ [Next]_vars => QueueInv'
      BY QueueInvInductive
<1>3. QED
      BY <1>1, <1>2, QueueInvInit, PTL DEF Spec
=============================================================================
