------------------------- MODULE ReplyPipelineProofs -------------------------
(***************************************************************************)
(* Proofs about ReplyPipeline, for every set of messages, users and slots, *)
(* every recipient list and every number of errors and restarts.           *)
(***************************************************************************)
EXTENDS ReplyPipeline, TLAPS

\* Every step of the specification keeps every variable within its type; the
\* induction behind all other results about the send path.
LEMMA TypeInductive == TypeOK /\ [Next]_vars => TypeOK'
<1> SUFFICES ASSUME TypeOK, [Next]_vars PROVE TypeOK'
    OBVIOUS
<1> USE PipelineAssumption DEF TypeOK, PC, Running, Replies, Success,
          clientVars, slotVars, dedupeVars, queueVars, envVars
<1>1. ASSUME NEW s \in Slots, NEW m \in Msgs, Submit(s, m) PROVE TypeOK'
      BY <1>1 DEF Submit
<1>2. ASSUME NEW s \in Slots, ReceiveReply(s) PROVE TypeOK'
      BY <1>2 DEF ReceiveReply
<1>3. ASSUME NEW s \in Slots, LoseReply(s) PROVE TypeOK'
      BY <1>3 DEF LoseReply
<1>4. ASSUME NEW s \in Slots, RejectForbidden(s) PROVE TypeOK'
      BY <1>4 DEF RejectForbidden, Answer
<1>5. ASSUME NEW s \in Slots, ReplyNoRecipients(s) PROVE TypeOK'
      BY <1>5 DEF ReplyNoRecipients, Answer
<1>6. ASSUME NEW s \in Slots, DedupeInMemory(s) PROVE TypeOK'
      BY <1>6 DEF DedupeInMemory, Admitted, Answer
<1>7. ASSUME NEW s \in Slots, Claim(s) PROVE TypeOK'
      BY <1>7 DEF Claim, Admitted, Goto
<1>8. ASSUME NEW s \in Slots, TxInsert(s) PROVE TypeOK'
      BY <1>8 DEF TxInsert, Goto
<1>9. ASSUME NEW s \in Slots, TxDuplicate(s) PROVE TypeOK'
      BY <1>9 DEF TxDuplicate, Answer
<1>10. ASSUME NEW s \in Slots, TxFail(s) PROVE TypeOK'
      BY <1>10 DEF TxFail, Goto, Fault
<1>11. ASSUME NEW s \in Slots, TxCommit(s) PROVE TypeOK'
      BY <1>11 DEF TxCommit, Goto
<1>12. ASSUME NEW s \in Slots, TxCommitUnseen(s) PROVE TypeOK'
      BY <1>12 DEF TxCommitUnseen, Goto, Fault
<1>13. ASSUME NEW s \in Slots, QueueLocally(s) PROVE TypeOK'
      BY <1>13 DEF QueueLocally, HandOff, Goto
<1>14. ASSUME NEW s \in Slots, AllocateSequence(s) PROVE TypeOK'
      BY <1>14 DEF AllocateSequence, Goto
<1>15. ASSUME NEW s \in Slots, AllocateFails(s) PROVE TypeOK'
      BY <1>15 DEF AllocateFails, Goto, Fault
<1>16. ASSUME NEW s \in Slots, QueueFirstInRedis(s) PROVE TypeOK'
  <2>1. req[s] \in Msgs /\ Head(Targets[req[s]]) \in Users
        BY <1>16 DEF QueueFirstInRedis
  <2>2. handoffs' \in [Users -> [Msgs -> Nat]]
        BY <1>16, <2>1 DEF QueueFirstInRedis, HandOff
  <2>3. QED
        BY <1>16, <2>2 DEF QueueFirstInRedis, Goto
<1>17. ASSUME NEW s \in Slots, PushDone(s) PROVE TypeOK'
  <2>1. req[s] \in Msgs /\ Sender[req[s]] \in Users
        BY <1>17 DEF PushDone
  <2>2. handoffs' \in [Users -> [Msgs -> Nat]] /\ echoes' \subseteq Msgs
    <3>1. CASE store = "off"
          BY <1>17, <2>1, <3>1 DEF PushDone, HandOff
    <3>2. CASE store # "off"
          BY <1>17, <2>1, <3>2 DEF PushDone
    <3>3. QED
          BY <3>1, <3>2
  <2>3. recent' \subseteq Msgs /\ stale' \subseteq recent'
        BY <1>17, <2>1 DEF PushDone
  <2>4. QED
        BY <1>17, <2>2, <2>3 DEF PushDone, Answer
<1>18. ASSUME NEW s \in Slots, PushFails(s) PROVE TypeOK'
      BY <1>18 DEF PushFails, Goto, Fault
<1>19. ASSUME NEW s \in Slots, CatchError(s) PROVE TypeOK'
      BY <1>19 DEF CatchError, Answer
<1>20. ASSUME NEW m \in Msgs, EchoQueued(m) PROVE TypeOK'
      BY <1>20 DEF EchoQueued, HandOff
<1>21. ASSUME NEW m \in Msgs, EchoFails(m) PROVE TypeOK'
      BY <1>21 DEF EchoFails, Fault
<1>22. ASSUME NEW m \in Msgs, TtlPasses(m) PROVE TypeOK'
      BY <1>22 DEF TtlPasses
<1>23. CASE StoreConnects
      BY <1>23 DEF StoreConnects
<1>24. CASE StoreUnusable
      BY <1>24 DEF StoreUnusable
<1>25. CASE ServerRestart
      BY <1>25 DEF ServerRestart
<1>26. CASE UNCHANGED vars
      BY <1>26 DEF vars
<1> QED
    BY <1>1, <1>2, <1>3, <1>4, <1>5, <1>6, <1>7, <1>8, <1>9, <1>10, <1>11,
       <1>12, <1>13, <1>14, <1>15, <1>16, <1>17, <1>18, <1>19, <1>20, <1>21,
       <1>22, <1>23, <1>24, <1>25, <1>26
       DEF Next, SlotStep, BackgroundStep

\* The initial state, an idle server with every message in the outbox, has
\* the right types.
LEMMA InitTyped == Init => TypeOK
<1> SUFFICES ASSUME Init PROVE TypeOK
    OBVIOUS
<1>1. faults \in 0..MaxFaults /\ restarts \in 0..MaxRestarts
      BY PipelineAssumption DEF Init
<1>2. QED
      BY <1>1 DEF Init, TypeOK, PC, Running, Replies, Success

\* Type correctness of the send path.
THEOREM TypeCorrect == Spec => []TypeOK
BY InitTyped, TypeInductive, PTL DEF Spec

-----------------------------------------------------------------------------
(* What is durable.  The strengthening adds the slots that hold a committed *)
(* transaction and the self-echoes under way to the three properties.       *)

\* Slots past a commit that was theirs.
Owner == {"committed", "allocated", "pushing"}

OwnerIsStored == \A s \in Slots : pc[s] \in Owner => stored[req[s]] > 0

EchoIsStored == \A m \in echoes : stored[m] > 0

DurableInv == /\ TypeOK
              /\ OwnerIsStored
              /\ EchoIsStored
              /\ QueuedIsStored
              /\ ClaimIsBacked
              /\ AckIsDurable

\* No step takes a stored message back.
LEMMA StoredGrows ==
  TypeOK /\ [Next]_vars => \A m \in Msgs : stored[m] > 0 => stored'[m] > 0
<1> SUFFICES ASSUME TypeOK, [Next]_vars, NEW x \in Msgs, stored[x] > 0
             PROVE  stored'[x] > 0
    OBVIOUS
<1> USE DEF TypeOK, clientVars, slotVars, dedupeVars, queueVars, envVars
<1>1. ASSUME NEW s \in Slots, NEW m \in Msgs, Submit(s, m)
      PROVE  stored'[x] > 0
      BY <1>1 DEF Submit
<1>2. ASSUME NEW s \in Slots, ReceiveReply(s) PROVE stored'[x] > 0
      BY <1>2 DEF ReceiveReply
<1>3. ASSUME NEW s \in Slots, LoseReply(s) PROVE stored'[x] > 0
      BY <1>3 DEF LoseReply
<1>4. ASSUME NEW s \in Slots, RejectForbidden(s) PROVE stored'[x] > 0
      BY <1>4 DEF RejectForbidden, Answer
<1>5. ASSUME NEW s \in Slots, ReplyNoRecipients(s) PROVE stored'[x] > 0
      BY <1>5 DEF ReplyNoRecipients, Answer
<1>6. ASSUME NEW s \in Slots, DedupeInMemory(s) PROVE stored'[x] > 0
      BY <1>6 DEF DedupeInMemory, Admitted, Answer
<1>7. ASSUME NEW s \in Slots, Claim(s) PROVE stored'[x] > 0
      BY <1>7 DEF Claim, Admitted, Goto
<1>8. ASSUME NEW s \in Slots, TxInsert(s) PROVE stored'[x] > 0
      BY <1>8 DEF TxInsert, RowFree, Goto
<1>9. ASSUME NEW s \in Slots, TxDuplicate(s) PROVE stored'[x] > 0
      BY <1>9 DEF TxDuplicate, Answer
<1>10. ASSUME NEW s \in Slots, TxFail(s) PROVE stored'[x] > 0
      BY <1>10 DEF TxFail, Goto, Fault
<1>11. ASSUME NEW s \in Slots, TxCommit(s) PROVE stored'[x] > 0
      BY <1>11 DEF TxCommit, Goto
<1>12. ASSUME NEW s \in Slots, TxCommitUnseen(s) PROVE stored'[x] > 0
      BY <1>12 DEF TxCommitUnseen, Goto, Fault
<1>13. ASSUME NEW s \in Slots, QueueLocally(s) PROVE stored'[x] > 0
      BY <1>13 DEF QueueLocally, HandOff, Goto
<1>14. ASSUME NEW s \in Slots, AllocateSequence(s) PROVE stored'[x] > 0
      BY <1>14 DEF AllocateSequence, Goto
<1>15. ASSUME NEW s \in Slots, AllocateFails(s) PROVE stored'[x] > 0
      BY <1>15 DEF AllocateFails, Goto, Fault
<1>16. ASSUME NEW s \in Slots, QueueFirstInRedis(s) PROVE stored'[x] > 0
      BY <1>16 DEF QueueFirstInRedis, HandOff, Goto
<1>17. ASSUME NEW s \in Slots, PushDone(s) PROVE stored'[x] > 0
      BY <1>17 DEF PushDone, HandOff, Answer
<1>18. ASSUME NEW s \in Slots, PushFails(s) PROVE stored'[x] > 0
      BY <1>18 DEF PushFails, Goto, Fault
<1>19. ASSUME NEW s \in Slots, CatchError(s) PROVE stored'[x] > 0
      BY <1>19 DEF CatchError, Answer
<1>20. ASSUME NEW m \in Msgs, EchoQueued(m) PROVE stored'[x] > 0
      BY <1>20 DEF EchoQueued, HandOff
<1>21. ASSUME NEW m \in Msgs, EchoFails(m) PROVE stored'[x] > 0
      BY <1>21 DEF EchoFails, Fault
<1>22. ASSUME NEW m \in Msgs, TtlPasses(m) PROVE stored'[x] > 0
      BY <1>22 DEF TtlPasses
<1>23. CASE StoreConnects
      BY <1>23 DEF StoreConnects
<1>24. CASE StoreUnusable
      BY <1>24 DEF StoreUnusable
<1>25. CASE ServerRestart
      BY <1>25 DEF ServerRestart
<1>26. CASE UNCHANGED vars
      BY <1>26 DEF vars
<1> QED
    BY <1>1, <1>2, <1>3, <1>4, <1>5, <1>6, <1>7, <1>8, <1>9, <1>10,
       <1>11, <1>12, <1>13, <1>14, <1>15, <1>16, <1>17, <1>18, <1>19,
       <1>20, <1>21, <1>22, <1>23, <1>24, <1>25, <1>26
       DEF Next, SlotStep, BackgroundStep

\* Slot t is the running invocation that put x into the dedupe map.
Claiming(t, x) == req[t] = x /\ pc[t] \in {"claimed", "inserted", "catch"}

\* Every step keeps the dedupe map backed: an id enters it only with a running
\* invocation or after a commit, and an invocation that fails takes it out.
LEMMA ClaimInductive ==
  TypeOK /\ OwnerIsStored /\ ClaimIsBacked /\ [Next]_vars => ClaimIsBacked'
<1> SUFFICES ASSUME TypeOK, OwnerIsStored, ClaimIsBacked, [Next]_vars,
                    NEW x \in recent', ~(stored'[x] > 0)
             PROVE  \E t \in Slots : Claiming(t, x)'
    BY DEF ClaimIsBacked, Claiming
<1>a. x \in Msgs /\ TypeOK'
      BY TypeInductive DEF TypeOK
<1>b. ~(stored[x] > 0)
      BY <1>a, StoredGrows
<1>c. CASE x \notin recent
  <2> USE <1>a, <1>b, <1>c DEF TypeOK, OwnerIsStored, Claiming, Owner, clientVars, slotVars, dedupeVars, queueVars, envVars
  <2>1. ASSUME NEW s \in Slots, NEW m \in Msgs, Submit(s, m)
        PROVE  \E t \in Slots : Claiming(t, x)'
        BY <2>1 DEF Submit
  <2>2. ASSUME NEW s \in Slots, ReceiveReply(s)
        PROVE  \E t \in Slots : Claiming(t, x)'
        BY <2>2 DEF ReceiveReply
  <2>3. ASSUME NEW s \in Slots, LoseReply(s)
        PROVE  \E t \in Slots : Claiming(t, x)'
        BY <2>3 DEF LoseReply
  <2>4. ASSUME NEW s \in Slots, RejectForbidden(s)
        PROVE  \E t \in Slots : Claiming(t, x)'
        BY <2>4 DEF RejectForbidden, Answer
  <2>5. ASSUME NEW s \in Slots, ReplyNoRecipients(s)
        PROVE  \E t \in Slots : Claiming(t, x)'
        BY <2>5 DEF ReplyNoRecipients, Answer
  <2>6. ASSUME NEW s \in Slots, DedupeInMemory(s)
        PROVE  \E t \in Slots : Claiming(t, x)'
        BY <2>6 DEF DedupeInMemory, Admitted, Answer
  <2>7. ASSUME NEW s \in Slots, Claim(s) PROVE \E t \in Slots : Claiming(t, x)'
        BY <2>7 DEF Claim, Admitted, Goto
  <2>8. ASSUME NEW s \in Slots, TxInsert(s)
        PROVE  \E t \in Slots : Claiming(t, x)'
        BY <2>8 DEF TxInsert, RowFree, Goto
  <2>9. ASSUME NEW s \in Slots, TxDuplicate(s)
        PROVE  \E t \in Slots : Claiming(t, x)'
        BY <2>9 DEF TxDuplicate, Answer
  <2>10. ASSUME NEW s \in Slots, TxFail(s)
        PROVE  \E t \in Slots : Claiming(t, x)'
        BY <2>10 DEF TxFail, Goto, Fault
  <2>11. ASSUME NEW s \in Slots, TxCommit(s)
        PROVE  \E t \in Slots : Claiming(t, x)'
        BY <2>11 DEF TxCommit, Goto
  <2>12. ASSUME NEW s \in Slots, TxCommitUnseen(s)
        PROVE  \E t \in Slots : Claiming(t, x)'
        BY <2>12 DEF TxCommitUnseen, Goto, Fault
  <2>13. ASSUME NEW s \in Slots, QueueLocally(s)
        PROVE  \E t \in Slots : Claiming(t, x)'
        BY <2>13 DEF QueueLocally, HandOff, Goto
  <2>14. ASSUME NEW s \in Slots, AllocateSequence(s)
        PROVE  \E t \in Slots : Claiming(t, x)'
        BY <2>14 DEF AllocateSequence, Goto
  <2>15. ASSUME NEW s \in Slots, AllocateFails(s)
        PROVE  \E t \in Slots : Claiming(t, x)'
        BY <2>15 DEF AllocateFails, Goto, Fault
  <2>16. ASSUME NEW s \in Slots, QueueFirstInRedis(s)
        PROVE  \E t \in Slots : Claiming(t, x)'
        BY <2>16 DEF QueueFirstInRedis, HandOff, Goto
  <2>17. ASSUME NEW s \in Slots, PushDone(s)
        PROVE  \E t \in Slots : Claiming(t, x)'
        BY <2>17 DEF PushDone, HandOff, Answer
  <2>18. ASSUME NEW s \in Slots, PushFails(s)
        PROVE  \E t \in Slots : Claiming(t, x)'
        BY <2>18 DEF PushFails, Goto, Fault
  <2>19. ASSUME NEW s \in Slots, CatchError(s)
        PROVE  \E t \in Slots : Claiming(t, x)'
        BY <2>19 DEF CatchError, Answer
  <2>20. ASSUME NEW m \in Msgs, EchoQueued(m) PROVE \E t \in Slots : Claiming(t, x)'
        BY <2>20 DEF EchoQueued, HandOff
  <2>21. ASSUME NEW m \in Msgs, EchoFails(m) PROVE \E t \in Slots : Claiming(t, x)'
        BY <2>21 DEF EchoFails, Fault
  <2>22. ASSUME NEW m \in Msgs, TtlPasses(m)
        PROVE  \E t \in Slots : Claiming(t, x)'
        BY <2>22 DEF TtlPasses
  <2>23. CASE StoreConnects
        BY <2>23 DEF StoreConnects
  <2>24. CASE StoreUnusable
        BY <2>24 DEF StoreUnusable
  <2>25. CASE ServerRestart
        BY <2>25 DEF ServerRestart
  <2>26. CASE UNCHANGED vars
        BY <2>26 DEF vars
  <2> QED
      BY <2>1, <2>2, <2>3, <2>4, <2>5, <2>6, <2>7, <2>8, <2>9, <2>10,
         <2>11, <2>12, <2>13, <2>14, <2>15, <2>16, <2>17, <2>18, <2>19,
         <2>20, <2>21, <2>22, <2>23, <2>24, <2>25, <2>26
         DEF Next, SlotStep, BackgroundStep
<1>d. CASE x \in recent
  <2> PICK t \in Slots : Claiming(t, x)
      BY <1>b, <1>d DEF ClaimIsBacked, Claiming
  <2> SUFFICES Claiming(t, x)'
      OBVIOUS
  <2> USE <1>a, <1>b, <1>d DEF TypeOK, Claiming, clientVars, slotVars, dedupeVars, queueVars, envVars
  <2>1. ASSUME NEW s \in Slots, NEW m \in Msgs, Submit(s, m)
        PROVE  Claiming(t, x)'
        BY <2>1 DEF Submit
  <2>2. ASSUME NEW s \in Slots, ReceiveReply(s) PROVE Claiming(t, x)'
        BY <2>2 DEF ReceiveReply
  <2>3. ASSUME NEW s \in Slots, LoseReply(s) PROVE Claiming(t, x)'
        BY <2>3 DEF LoseReply
  <2>4. ASSUME NEW s \in Slots, RejectForbidden(s) PROVE Claiming(t, x)'
        BY <2>4 DEF RejectForbidden, Answer
  <2>5. ASSUME NEW s \in Slots, ReplyNoRecipients(s) PROVE Claiming(t, x)'
        BY <2>5 DEF ReplyNoRecipients, Answer
  <2>6. ASSUME NEW s \in Slots, DedupeInMemory(s) PROVE Claiming(t, x)'
        BY <2>6 DEF DedupeInMemory, Admitted, Answer
  <2>7. ASSUME NEW s \in Slots, Claim(s) PROVE Claiming(t, x)'
        BY <2>7 DEF Claim, Admitted, Goto
  <2>8. ASSUME NEW s \in Slots, TxInsert(s) PROVE Claiming(t, x)'
        BY <2>8 DEF TxInsert, RowFree, Goto
  <2>9. ASSUME NEW s \in Slots, TxDuplicate(s) PROVE Claiming(t, x)'
        BY <2>9 DEF TxDuplicate, Answer
  <2>10. ASSUME NEW s \in Slots, TxFail(s) PROVE Claiming(t, x)'
        BY <2>10 DEF TxFail, Goto, Fault
  <2>11. ASSUME NEW s \in Slots, TxCommit(s) PROVE Claiming(t, x)'
        BY <2>11 DEF TxCommit, Goto
  <2>12. ASSUME NEW s \in Slots, TxCommitUnseen(s) PROVE Claiming(t, x)'
        BY <2>12 DEF TxCommitUnseen, Goto, Fault
  <2>13. ASSUME NEW s \in Slots, QueueLocally(s) PROVE Claiming(t, x)'
        BY <2>13 DEF QueueLocally, HandOff, Goto
  <2>14. ASSUME NEW s \in Slots, AllocateSequence(s) PROVE Claiming(t, x)'
        BY <2>14 DEF AllocateSequence, Goto
  <2>15. ASSUME NEW s \in Slots, AllocateFails(s) PROVE Claiming(t, x)'
        BY <2>15 DEF AllocateFails, Goto, Fault
  <2>16. ASSUME NEW s \in Slots, QueueFirstInRedis(s) PROVE Claiming(t, x)'
        BY <2>16 DEF QueueFirstInRedis, HandOff, Goto
  <2>17. ASSUME NEW s \in Slots, PushDone(s) PROVE Claiming(t, x)'
        BY <2>17 DEF PushDone, HandOff, Answer
  <2>18. ASSUME NEW s \in Slots, PushFails(s) PROVE Claiming(t, x)'
        BY <2>18 DEF PushFails, Goto, Fault
  <2>19. ASSUME NEW s \in Slots, CatchError(s) PROVE Claiming(t, x)'
        BY <2>19 DEF CatchError, Answer
  <2>20. ASSUME NEW m \in Msgs, EchoQueued(m) PROVE Claiming(t, x)'
        BY <2>20 DEF EchoQueued, HandOff
  <2>21. ASSUME NEW m \in Msgs, EchoFails(m) PROVE Claiming(t, x)'
        BY <2>21 DEF EchoFails, Fault
  <2>22. ASSUME NEW m \in Msgs, TtlPasses(m) PROVE Claiming(t, x)'
        BY <2>22 DEF TtlPasses
  <2>23. CASE StoreConnects
        BY <2>23 DEF StoreConnects
  <2>24. CASE StoreUnusable
        BY <2>24 DEF StoreUnusable
  <2>25. CASE ServerRestart
        BY <2>25 DEF ServerRestart
  <2>26. CASE UNCHANGED vars
        BY <2>26 DEF vars
  <2> QED
      BY <2>1, <2>2, <2>3, <2>4, <2>5, <2>6, <2>7, <2>8, <2>9, <2>10,
         <2>11, <2>12, <2>13, <2>14, <2>15, <2>16, <2>17, <2>18, <2>19,
         <2>20, <2>21, <2>22, <2>23, <2>24, <2>25, <2>26
         DEF Next, SlotStep, BackgroundStep
<1> QED
    BY <1>c, <1>d

\* The other four conjuncts of DurableInv.
StoredFirst == OwnerIsStored /\ EchoIsStored /\ QueuedIsStored /\ AckIsDurable

\* Every step keeps queueing, echoing and acknowledging behind the commit.
LEMMA StoredFirstInductive ==
  TypeOK /\ StoredFirst /\ [Next]_vars => StoredFirst'
<1> SUFFICES ASSUME TypeOK, StoredFirst, [Next]_vars PROVE StoredFirst'
    OBVIOUS
<1>a. \A m \in Msgs : stored[m] > 0 => stored'[m] > 0
      BY StoredGrows
<1> USE <1>a, PipelineAssumption
       DEF TypeOK, StoredFirst, OwnerIsStored, EchoIsStored, QueuedIsStored, AckIsDurable, Owner,
       clientVars, slotVars, dedupeVars, queueVars, envVars, PC, Running, Replies, Success
<1>1. ASSUME NEW s \in Slots, NEW m \in Msgs, Submit(s, m) PROVE StoredFirst'
      BY <1>1 DEF Submit
<1>2. ASSUME NEW s \in Slots, ReceiveReply(s) PROVE StoredFirst'
      BY <1>2 DEF ReceiveReply
<1>3. ASSUME NEW s \in Slots, LoseReply(s) PROVE StoredFirst'
      BY <1>3 DEF LoseReply
<1>4. ASSUME NEW s \in Slots, RejectForbidden(s) PROVE StoredFirst'
      BY <1>4 DEF RejectForbidden, Answer
<1>5. ASSUME NEW s \in Slots, ReplyNoRecipients(s) PROVE StoredFirst'
      BY <1>5 DEF ReplyNoRecipients, Answer
<1>6. ASSUME NEW s \in Slots, DedupeInMemory(s) PROVE StoredFirst'
      BY <1>6 DEF DedupeInMemory, Admitted, Answer
<1>7. ASSUME NEW s \in Slots, Claim(s) PROVE StoredFirst'
      BY <1>7 DEF Claim, Admitted, Goto
<1>8. ASSUME NEW s \in Slots, TxInsert(s) PROVE StoredFirst'
      BY <1>8 DEF TxInsert, RowFree, Goto
<1>9. ASSUME NEW s \in Slots, TxDuplicate(s) PROVE StoredFirst'
      BY <1>9 DEF TxDuplicate, Answer
<1>10. ASSUME NEW s \in Slots, TxFail(s) PROVE StoredFirst'
      BY <1>10 DEF TxFail, Goto, Fault
<1>11. ASSUME NEW s \in Slots, TxCommit(s) PROVE StoredFirst'
      BY <1>11 DEF TxCommit, Goto
<1>12. ASSUME NEW s \in Slots, TxCommitUnseen(s) PROVE StoredFirst'
      BY <1>12 DEF TxCommitUnseen, Goto, Fault
<1>13. ASSUME NEW s \in Slots, QueueLocally(s) PROVE StoredFirst'
      BY <1>13 DEF QueueLocally, HandOff, Goto
<1>14. ASSUME NEW s \in Slots, AllocateSequence(s) PROVE StoredFirst'
      BY <1>14 DEF AllocateSequence, Goto
<1>15. ASSUME NEW s \in Slots, AllocateFails(s) PROVE StoredFirst'
      BY <1>15 DEF AllocateFails, Goto, Fault
<1>16. ASSUME NEW s \in Slots, QueueFirstInRedis(s) PROVE StoredFirst'
      BY <1>16 DEF QueueFirstInRedis, HandOff, Goto
<1>17. ASSUME NEW s \in Slots, PushDone(s) PROVE StoredFirst'
  <2>1. req[s] \in Msgs /\ stored[req[s]] > 0
        BY <1>17 DEF PushDone
  <2>2. CASE store = "off"
    <3>1. echoes' = echoes /\ stored' = stored /\ req' = req
          BY <1>17, <2>2 DEF PushDone
    <3>2. \A u \in Users, m \in Msgs :
            m # req[s] => handoffs'[u][m] = handoffs[u][m]
      <4>1. handoffs' = [u \in Users |->
              IF u \in {Sender[req[s]]}
                THEN [handoffs[u] EXCEPT ![req[s]] = @ + 1] ELSE handoffs[u]]
            BY <1>17, <2>2 DEF PushDone, HandOff
      <4>2. QED
            BY ONLY <4>1, TypeOK DEF TypeOK
    <3>3. QueuedIsStored'
          BY <3>1, <3>2, <2>1
    <3>4. OwnerIsStored' /\ AckIsDurable'
          BY <1>17, <3>1, <2>1 DEF PushDone, Answer
    <3>5. QED
          BY <3>1, <3>3, <3>4
  <2>3. CASE store # "off"
        BY <1>17, <2>1, <2>3 DEF PushDone, Answer
  <2>4. QED
        BY <2>2, <2>3
<1>18. ASSUME NEW s \in Slots, PushFails(s) PROVE StoredFirst'
      BY <1>18 DEF PushFails, Goto, Fault
<1>19. ASSUME NEW s \in Slots, CatchError(s) PROVE StoredFirst'
      BY <1>19 DEF CatchError, Answer
<1>20. ASSUME NEW m \in Msgs, EchoQueued(m) PROVE StoredFirst'
      BY <1>20 DEF EchoQueued, HandOff
<1>21. ASSUME NEW m \in Msgs, EchoFails(m) PROVE StoredFirst'
      BY <1>21 DEF EchoFails, Fault
<1>22. ASSUME NEW m \in Msgs, TtlPasses(m) PROVE StoredFirst'
      BY <1>22 DEF TtlPasses
<1>23. CASE StoreConnects
      BY <1>23 DEF StoreConnects
<1>24. CASE StoreUnusable
      BY <1>24 DEF StoreUnusable
<1>25. CASE ServerRestart
      BY <1>25 DEF ServerRestart
<1>26. CASE UNCHANGED vars
      BY <1>26 DEF vars
<1> QED
    BY <1>1, <1>2, <1>3, <1>4, <1>5, <1>6, <1>7, <1>8, <1>9, <1>10,
       <1>11, <1>12, <1>13, <1>14, <1>15, <1>16, <1>17, <1>18, <1>19,
       <1>20, <1>21, <1>22, <1>23, <1>24, <1>25, <1>26
       DEF Next, SlotStep, BackgroundStep

\* The two lemmas above, put together for one step.
LEMMA DurableInductive == DurableInv /\ [Next]_vars => DurableInv'
BY TypeInductive, ClaimInductive, StoredFirstInductive DEF DurableInv, StoredFirst

\* What the server answers and queues is always in the database.
THEOREM DurableSpec == Spec => []DurableInv
<1>1. Init => DurableInv
  <2> SUFFICES ASSUME Init PROVE DurableInv
      OBVIOUS
  <2>1. TypeOK
        BY InitTyped
  <2>2. QED
        BY <2>1 DEF Init, DurableInv, OwnerIsStored, EchoIsStored, Owner,
                    QueuedIsStored, ClaimIsBacked, AckIsDurable
<1>2. QED
      BY <1>1, DurableInductive, PTL DEF Spec

\* Only committed messages reach a mailbox, whatever fails and whenever the
\* server restarts: addToQueue runs after the transaction.
THEOREM QueuedOnlyStored == Spec => []QueuedIsStored
<1>1. DurableInv => QueuedIsStored
      BY DEF DurableInv
<1>2. QED
      BY <1>1, DurableSpec, PTL

\* The in-memory dedupe map never keeps a retry out for a message that no
\* invocation is processing any more and that was not stored.
THEOREM ClaimsBacked == Spec => []ClaimIsBacked
<1>1. DurableInv => ClaimIsBacked
      BY DEF DurableInv
<1>2. QED
      BY <1>1, DurableSpec, PTL

\* Fresh acknowledgements, and those from the unique index, are durable.
THEOREM AcksDurable == Spec => []AckIsDurable
<1>1. DurableInv => AckIsDurable
      BY DEF DurableInv
<1>2. QED
      BY <1>1, DurableSpec, PTL

-----------------------------------------------------------------------------
(* At most once.  While the transaction of a slot is open its message is    *)
(* not stored, and after the commit exactly that slot may hand it out: this *)
(* is what the unique index buys.                                           *)

OneInserter ==
  \A s \in Slots : pc[s] = "inserted" =>
    /\ stored[req[s]] = 0
    /\ \A t \in Slots : pc[t] = "inserted" /\ req[t] = req[s] => s = t

OneOwner ==
  \A s, t \in Slots :
    pc[s] \in Owner /\ pc[t] \in Owner /\ req[s] = req[t] => s = t

OwnerHasNotHandedOff ==
  \A s \in Slots :
    /\ pc[s] \in {"committed", "allocated"} =>
         \A u \in Users : handoffs[u][req[s]] = 0
    /\ pc[s] = "pushing" => handoffs[Sender[req[s]]][req[s]] = 0

EchoIsLast ==
  \A m \in echoes :
    /\ handoffs[Sender[m]][m] = 0
    /\ \A s \in Slots : pc[s] \in Owner => req[s] # m

OnceInv == /\ OneInserter
           /\ OneOwner
           /\ OwnerHasNotHandedOff
           /\ EchoIsLast
           /\ \A m \in Msgs : stored[m] <= 1
           /\ \A u \in Users, m \in Msgs : handoffs[u][m] <= 1

\* Every step keeps a single inserter and a single owner per message: a second
\* insert waits for the first transaction and finds its row.
LEMMA OnceInductive ==
  ASSUME UniqueIndex, TypeOK, OwnerIsStored, EchoIsStored, QueuedIsStored,
         OnceInv, [Next]_vars
  PROVE  OnceInv'
<1> USE UniqueIndex, TypeOK, OwnerIsStored, EchoIsStored, QueuedIsStored, OnceInv,
       PipelineAssumption
       DEF TypeOK, OwnerIsStored, EchoIsStored, QueuedIsStored, OnceInv, OneInserter,
       OneOwner, OwnerHasNotHandedOff, EchoIsLast, Owner,
       clientVars, slotVars, dedupeVars, queueVars, envVars, PC, Running, Replies, Success
<1>1. ASSUME NEW s \in Slots, NEW m \in Msgs, Submit(s, m) PROVE OnceInv'
      BY <1>1 DEF Submit
<1>2. ASSUME NEW s \in Slots, ReceiveReply(s) PROVE OnceInv'
      BY <1>2 DEF ReceiveReply
<1>3. ASSUME NEW s \in Slots, LoseReply(s) PROVE OnceInv'
      BY <1>3 DEF LoseReply
<1>4. ASSUME NEW s \in Slots, RejectForbidden(s) PROVE OnceInv'
      BY <1>4 DEF RejectForbidden, Answer
<1>5. ASSUME NEW s \in Slots, ReplyNoRecipients(s) PROVE OnceInv'
      BY <1>5 DEF ReplyNoRecipients, Answer
<1>6. ASSUME NEW s \in Slots, DedupeInMemory(s) PROVE OnceInv'
      BY <1>6 DEF DedupeInMemory, Admitted, Answer
<1>7. ASSUME NEW s \in Slots, Claim(s) PROVE OnceInv'
      BY <1>7 DEF Claim, Admitted, Goto
<1>8. ASSUME NEW s \in Slots, TxInsert(s) PROVE OnceInv'
      BY <1>8 DEF TxInsert, RowFree, Goto
<1>9. ASSUME NEW s \in Slots, TxDuplicate(s) PROVE OnceInv'
      BY <1>9 DEF TxDuplicate, Answer
<1>10. ASSUME NEW s \in Slots, TxFail(s) PROVE OnceInv'
      BY <1>10 DEF TxFail, Goto, Fault
<1>11. ASSUME NEW s \in Slots, TxCommit(s) PROVE OnceInv'
      BY <1>11 DEF TxCommit, Goto
<1>12. ASSUME NEW s \in Slots, TxCommitUnseen(s) PROVE OnceInv'
      BY <1>12 DEF TxCommitUnseen, Goto, Fault
<1>13. ASSUME NEW s \in Slots, QueueLocally(s) PROVE OnceInv'
  <2> DEFINE m == req[s]
  <2>1. m \in Msgs /\ pc[s] = "committed" /\ stored' = stored /\ req' = req
        BY <1>13 DEF QueueLocally
  <2>2. pc' = [pc EXCEPT ![s] = "pushing"]
        BY <1>13 DEF QueueLocally, Goto
  <2>3. \A u \in Users : handoffs[u][m] = 0
        BY <2>1
  <2>4. \A u \in Users, x \in Msgs :
          handoffs'[u][x] = IF u \in TargetSet(m) /\ x = m
                              THEN handoffs[u][x] + 1 ELSE handoffs[u][x]
        BY <1>13, <2>1 DEF QueueLocally, HandOff
  <2>5. Sender[m] \in Users /\ Sender[m] \notin TargetSet(m)
        BY <2>1 DEF TargetSet
  <2> HIDE DEF m
  <2>6. \A u \in Users, x \in Msgs : handoffs'[u][x] <= 1
    <3> SUFFICES ASSUME NEW u \in Users, NEW x \in Msgs
                 PROVE  handoffs'[u][x] <= 1
        OBVIOUS
    <3>1. handoffs[u][x] <= 1 /\ handoffs[u][x] \in Nat
          OBVIOUS
    <3>2. CASE x = m
      <4>1. handoffs[u][x] = 0
            BY <3>2, <2>3
      <4>2. handoffs'[u][x] = (IF u \in TargetSet(m) THEN 0 + 1 ELSE 0)
            BY <4>1, <3>2, <2>4
      <4>3. QED
            BY <4>2
    <3>3. CASE x # m
          BY <3>1, <3>3, <2>4
    <3>4. QED
          BY <3>2, <3>3
  <2>7. \A t \in Slots : t # s /\ pc[t] \in Owner => req[t] # m
        BY <2>1 DEF m
  <2>8. OneInserter' /\ OneOwner' /\ EchoIsLast'
    <3>1. OneInserter' /\ OneOwner'
          BY <2>1, <2>2
    <3>2. m \notin echoes /\ echoes' = echoes
          BY <1>13, <2>1 DEF QueueLocally, m
    <3>3. ASSUME NEW x \in echoes
          PROVE  /\ handoffs'[Sender[x]][x] = 0
                 /\ \A t \in Slots : pc'[t] \in Owner => req[t] # x
      <4>1. x \in Msgs /\ x # m /\ Sender[x] \in Users /\ handoffs[Sender[x]][x] = 0
            BY <3>2
      <4>2. handoffs'[Sender[x]][x] = 0
            BY <4>1, <2>4
      <4>3. QED
            BY <4>1, <4>2, <2>1, <2>2
    <3>4. QED
          BY <3>1, <3>2, <3>3, <2>1
  <2>9. OwnerHasNotHandedOff'
    <3> SUFFICES ASSUME NEW t \in Slots
                 PROVE /\ pc'[t] \in {"committed", "allocated"} =>
                            \A u \in Users : handoffs'[u][req[t]] = 0
                       /\ pc'[t] = "pushing" => handoffs'[Sender[req[t]]][req[t]] = 0
        BY <2>1
    <3>1. CASE t = s
          BY <3>1, <2>1, <2>2, <2>3, <2>4, <2>5 DEF m
    <3>2. CASE t # s
          BY <3>2, <2>1, <2>2, <2>4, <2>7
    <3>3. QED
          BY <3>1, <3>2
  <2>10. QED
         BY <2>1, <2>6, <2>8, <2>9
<1>14. ASSUME NEW s \in Slots, AllocateSequence(s) PROVE OnceInv'
      BY <1>14 DEF AllocateSequence, Goto
<1>15. ASSUME NEW s \in Slots, AllocateFails(s) PROVE OnceInv'
      BY <1>15 DEF AllocateFails, Goto, Fault
<1>16. ASSUME NEW s \in Slots, QueueFirstInRedis(s) PROVE OnceInv'
      BY <1>16 DEF QueueFirstInRedis, HandOff, Goto
<1>17. ASSUME NEW s \in Slots, PushDone(s) PROVE OnceInv'
  <2> DEFINE m == req[s]
  <2>1. m \in Msgs /\ pc[s] = "pushing" /\ stored' = stored /\ req' = req
        BY <1>17 DEF PushDone
  <2>2. pc' = [pc EXCEPT ![s] = "replied"]
        BY <1>17 DEF PushDone, Answer
  <2>3. Sender[m] \in Users /\ handoffs[Sender[m]][m] = 0
        BY <2>1
  <2>4. /\ \A t \in Slots : t # s /\ pc[t] \in Owner => req[t] # m
        /\ m \notin echoes
        BY <2>1 DEF m
  <2> HIDE DEF m
  <2>5. OneInserter' /\ OneOwner'
        BY <2>1, <2>2
  <2>6. CASE store = "off"
    <3>1. echoes' = echoes /\ \A u \in Users, x \in Msgs :
            handoffs'[u][x] = IF u = Sender[m] /\ x = m
                                THEN handoffs[u][x] + 1 ELSE handoffs[u][x]
          BY <1>17, <2>1, <2>6 DEF PushDone, HandOff, m
    <3>2. ASSUME NEW u \in Users, NEW x \in Msgs PROVE handoffs'[u][x] <= 1
      <4>1. CASE u = Sender[m] /\ x = m
        <5>1. handoffs[u][x] = 0
              BY <4>1, <2>3
        <5>2. handoffs'[u][x] = 0 + 1
              BY <4>1, <3>1, <5>1
        <5>3. QED
              BY <5>2
      <4>2. CASE ~(u = Sender[m] /\ x = m)
            BY <4>2, <3>1
      <4>3. QED
            BY <4>1, <4>2
    <3>3. \A t \in Slots : pc'[t] \in Owner => pc[t] = pc'[t] /\ req[t] # m
          BY <2>1, <2>2, <2>4
    <3>4. ASSUME NEW u \in Users, NEW x \in Msgs, x # m
          PROVE  handoffs'[u][x] = handoffs[u][x]
          BY <3>1, <3>4
    <3>5. OwnerHasNotHandedOff'
      <4>1. \A t \in Slots : pc'[t] \in Owner => req[t] \in Msgs /\ Sender[req[t]] \in Users
            BY <3>3
      <4>2. QED
            BY <4>1, <3>3, <3>4, <2>1
    <3>6. EchoIsLast'
      <4>1. \A x \in echoes : x \in Msgs /\ x # m /\ Sender[x] \in Users
            BY <2>4
      <4>2. \A x \in echoes : handoffs'[Sender[x]][x] = 0
            BY <4>1, <3>4
      <4>3. \A x \in echoes, t \in Slots : pc'[t] \in Owner => req[t] # x
            BY <3>3
      <4>4. QED
            BY <4>2, <4>3, <3>1, <2>1
    <3>7. QED
          BY <3>2, <3>5, <3>6, <2>1, <2>5
  <2>7. CASE store # "off"
    <3>1. handoffs' = handoffs /\ echoes' = echoes \cup {m}
          BY <1>17, <2>7 DEF PushDone, m
    <3>2. QED
          BY <3>1, <2>1, <2>2, <2>3, <2>4, <2>5
  <2>8. QED
        BY <2>6, <2>7
<1>18. ASSUME NEW s \in Slots, PushFails(s) PROVE OnceInv'
      BY <1>18 DEF PushFails, Goto, Fault
<1>19. ASSUME NEW s \in Slots, CatchError(s) PROVE OnceInv'
      BY <1>19 DEF CatchError, Answer
<1>20. ASSUME NEW m \in Msgs, EchoQueued(m) PROVE OnceInv'
      BY <1>20 DEF EchoQueued, HandOff
<1>21. ASSUME NEW m \in Msgs, EchoFails(m) PROVE OnceInv'
      BY <1>21 DEF EchoFails, Fault
<1>22. ASSUME NEW m \in Msgs, TtlPasses(m) PROVE OnceInv'
      BY <1>22 DEF TtlPasses
<1>23. CASE StoreConnects
      BY <1>23 DEF StoreConnects
<1>24. CASE StoreUnusable
      BY <1>24 DEF StoreUnusable
<1>25. CASE ServerRestart
      BY <1>25 DEF ServerRestart
<1>26. CASE UNCHANGED vars
      BY <1>26 DEF vars
<1> QED
    BY [Next]_vars, <1>1, <1>2, <1>3, <1>4, <1>5, <1>6, <1>7, <1>8, <1>9, <1>10,
       <1>11, <1>12, <1>13, <1>14, <1>15, <1>16, <1>17, <1>18, <1>19,
       <1>20, <1>21, <1>22, <1>23, <1>24, <1>25, <1>26
       DEF Next, SlotStep, BackgroundStep

\* With the unique index, one invocation at most ever owns a message.
THEOREM OnceSpec == ASSUME UniqueIndex PROVE Spec => []OnceInv
<1>1. Init => OnceInv
  <2> SUFFICES ASSUME Init PROVE OnceInv
      OBVIOUS
  <2>1. QED
        BY InitTyped DEF Init, OnceInv, OneInserter, OneOwner,
                         OwnerHasNotHandedOff, EchoIsLast, Owner
<1>2. DurableInv /\ OnceInv /\ [Next]_vars => OnceInv'
      BY UniqueIndex, OnceInductive DEF DurableInv
<1>3. QED
      BY <1>1, <1>2, DurableSpec, PTL DEF Spec

\* Zero duplicates in the database: with the unique index in place a message
\* has at most one committed MessageActivities/Logs pair, for any number of
\* concurrent retries, errors, lost answers and restarts.
THEOREM StoredAtMostOnce == Spec => []StoredOnce
<1>1. ASSUME UniqueIndex PROVE Spec => []StoredOnce
  <2>1. OnceInv => StoredOnce
        BY DEF OnceInv, StoredOnce
  <2>2. QED
        BY <1>1, <2>1, OnceSpec, PTL
<1>2. ASSUME ~UniqueIndex PROVE Spec => []StoredOnce
  <2>1. StoredOnce
        BY <1>2 DEF StoredOnce
  <2>2. QED
        BY <2>1, PTL
<1>3. QED
      BY <1>1, <1>2

\* Zero duplicates in the mailboxes: no recipient, nor the sender's other
\* devices, is handed the same message twice.
THEOREM HandedOffAtMostOnce == Spec => []HandedOffOnce
<1>1. ASSUME UniqueIndex PROVE Spec => []HandedOffOnce
  <2>1. OnceInv => HandedOffOnce
        BY DEF OnceInv, HandedOffOnce
  <2>2. QED
        BY <1>1, <2>1, OnceSpec, PTL
<1>2. ASSUME ~UniqueIndex PROVE Spec => []HandedOffOnce
  <2>1. HandedOffOnce
        BY <1>2 DEF HandedOffOnce
  <2>2. QED
        BY <2>1, PTL
<1>3. QED
      BY <1>1, <1>2

-----------------------------------------------------------------------------
(* The fan-out of a process without a store.                               *)

\* Everyone of m's recipients was handed it.
Reached(m) == \A u \in TargetSet(m) : handoffs[u][m] > 0

\* While the store is not set, an invocation past the fan-out has reached every
\* recipient, and none is between the fan-out's first and later recipients.
FanoutInv ==
  /\ \A s \in Slots : reply[s] # "none" => pc[s] = "replied"
  /\ store = "off" =>
       \A s \in Slots :
         /\ pc[s] # "allocated"
         /\ pc[s] = "pushing" \/ reply[s] = "sent" => Reached(req[s])

\* A hand-off never takes one back.
LEMMA HandOffKeeps ==
  ASSUME NEW us, NEW m \in Msgs, handoffs \in [Users -> [Msgs -> Nat]],
         HandOff(us, m), NEW u \in Users, NEW x \in Msgs, handoffs[u][x] > 0
  PROVE  handoffs'[u][x] > 0
BY DEF HandOff

\* No step of the send path breaks FanoutInv: the store is only unset by a
\* restart, which leaves no invocation behind.
LEMMA FanoutInductive == TypeOK /\ FanoutInv /\ [Next]_vars => FanoutInv'
<1> SUFFICES ASSUME TypeOK, FanoutInv, [Next]_vars PROVE FanoutInv'
    OBVIOUS
<1>t. \A m \in Msgs : TargetSet(m) \subseteq Users
      BY PipelineAssumption DEF TargetSet
<1> USE <1>t DEF TypeOK, FanoutInv, Reached, clientVars, slotVars, dedupeVars,
          queueVars, envVars
<1>1. ASSUME NEW s \in Slots, NEW m \in Msgs, Submit(s, m) PROVE FanoutInv'
      BY <1>1 DEF Submit
<1>2. ASSUME NEW s \in Slots, ReceiveReply(s) PROVE FanoutInv'
      BY <1>2 DEF ReceiveReply
<1>3. ASSUME NEW s \in Slots, LoseReply(s) PROVE FanoutInv'
      BY <1>3 DEF LoseReply
<1>4. ASSUME NEW s \in Slots, RejectForbidden(s) PROVE FanoutInv'
      BY <1>4 DEF RejectForbidden, Answer
<1>5. ASSUME NEW s \in Slots, ReplyNoRecipients(s) PROVE FanoutInv'
      BY <1>5 DEF ReplyNoRecipients, Answer
<1>6. ASSUME NEW s \in Slots, DedupeInMemory(s) PROVE FanoutInv'
      BY <1>6 DEF DedupeInMemory, Admitted, Answer
<1>7. ASSUME NEW s \in Slots, Claim(s) PROVE FanoutInv'
      BY <1>7 DEF Claim, Admitted, Goto
<1>8. ASSUME NEW s \in Slots, TxInsert(s) PROVE FanoutInv'
      BY <1>8 DEF TxInsert, Goto
<1>9. ASSUME NEW s \in Slots, TxDuplicate(s) PROVE FanoutInv'
      BY <1>9 DEF TxDuplicate, Answer
<1>10. ASSUME NEW s \in Slots, TxFail(s) PROVE FanoutInv'
      BY <1>10 DEF TxFail, Goto, Fault
<1>11. ASSUME NEW s \in Slots, TxCommit(s) PROVE FanoutInv'
      BY <1>11 DEF TxCommit, Goto
<1>12. ASSUME NEW s \in Slots, TxCommitUnseen(s) PROVE FanoutInv'
      BY <1>12 DEF TxCommitUnseen, Goto, Fault
<1>13. ASSUME NEW s \in Slots, QueueLocally(s) PROVE FanoutInv'
  <2>1. /\ req[s] \in Msgs /\ req' = req /\ reply' = reply /\ store' = store
        /\ pc[s] = "committed" /\ store = "off"
        /\ pc' = [pc EXCEPT ![s] = "pushing"]
        /\ HandOff(TargetSet(req[s]), req[s])
        BY <1>13 DEF QueueLocally, Goto, Running, PC
  <2>2. \A u \in TargetSet(req[s]) : handoffs'[u][req[s]] > 0
        BY <2>1 DEF HandOff
  <2>3. \A u \in Users, x \in Msgs : handoffs[u][x] > 0 => handoffs'[u][x] > 0
        BY <2>1, HandOffKeeps
  <2>4. ASSUME NEW t \in Slots, store = "off",
               pc'[t] = "pushing" \/ reply'[t] = "sent"
        PROVE  \A u \in TargetSet(req[t]) : handoffs'[u][req[t]] > 0
    <3>1. CASE req[t] = req[s]
          BY <3>1, <2>2
    <3>2. CASE req[t] # req[s]
          BY <3>2, <2>1, <2>3, <2>4 DEF TargetSet
    <3>3. QED
          BY <3>1, <3>2
  <2>5. QED
        BY <2>1, <2>4
<1>14. ASSUME NEW s \in Slots, AllocateSequence(s) PROVE FanoutInv'
      BY <1>14 DEF AllocateSequence, Goto
<1>15. ASSUME NEW s \in Slots, AllocateFails(s) PROVE FanoutInv'
      BY <1>15 DEF AllocateFails, Goto, Fault
<1>16. ASSUME NEW s \in Slots, QueueFirstInRedis(s) PROVE FanoutInv'
      BY <1>16 DEF QueueFirstInRedis, HandOff, Goto
<1>17. ASSUME NEW s \in Slots, PushDone(s) PROVE FanoutInv'
  <2>1. /\ req[s] \in Msgs /\ req' = req /\ store' = store /\ pc[s] = "pushing"
        /\ pc' = [pc EXCEPT ![s] = "replied"]
        /\ reply' = [reply EXCEPT ![s] = "sent"]
        BY <1>17 DEF PushDone, Answer, Running, PC
  <2>2. store = "off" => \A u \in Users, x \in Msgs :
          handoffs[u][x] > 0 => handoffs'[u][x] > 0
        BY <1>17, <2>1, HandOffKeeps DEF PushDone
  <2>3. QED
        BY <2>1, <2>2
<1>18. ASSUME NEW s \in Slots, PushFails(s) PROVE FanoutInv'
      BY <1>18 DEF PushFails, Goto, Fault
<1>19. ASSUME NEW s \in Slots, CatchError(s) PROVE FanoutInv'
      BY <1>19 DEF CatchError, Answer
<1>20. ASSUME NEW m \in Msgs, EchoQueued(m) PROVE FanoutInv'
  <2>1. \A u \in Users, x \in Msgs : handoffs[u][x] > 0 => handoffs'[u][x] > 0
        BY <1>20, HandOffKeeps DEF EchoQueued
  <2>2. QED
        BY <1>20, <2>1 DEF EchoQueued
<1>21. ASSUME NEW m \in Msgs, EchoFails(m) PROVE FanoutInv'
      BY <1>21 DEF EchoFails, Fault
<1>22. ASSUME NEW m \in Msgs, TtlPasses(m) PROVE FanoutInv'
      BY <1>22 DEF TtlPasses
<1>23. CASE StoreConnects
      BY <1>23 DEF StoreConnects
<1>24. CASE StoreUnusable
      BY <1>24 DEF StoreUnusable
<1>25. CASE ServerRestart
      BY <1>25 DEF ServerRestart
<1>26. CASE UNCHANGED vars
      BY <1>26 DEF vars
<1> QED
    BY <1>1, <1>2, <1>3, <1>4, <1>5, <1>6, <1>7, <1>8, <1>9, <1>10,
       <1>11, <1>12, <1>13, <1>14, <1>15, <1>16, <1>17, <1>18, <1>19,
       <1>20, <1>21, <1>22, <1>23, <1>24, <1>25, <1>26
       DEF Next, SlotStep, BackgroundStep

\* In a process whose store was never set an acknowledgement means that every
\* recipient's mailbox was handed the message.
THEOREM LocalFanoutComplete == Spec => []LocalAckReachesEveryRecipient
<1>1. Init => FanoutInv
      BY DEF Init, FanoutInv
<1>2. FanoutInv => LocalAckReachesEveryRecipient
      BY DEF FanoutInv, Reached, LocalAckReachesEveryRecipient,
             AckReachesEveryRecipient
<1>3. QED
      BY <1>1, <1>2, FanoutInductive, TypeCorrect, PTL DEF Spec

-----------------------------------------------------------------------------
(* Refinement.                                                             *)

\* Handing out a stored message that none of the mailboxes had is a Deliver.
LEMMA HandOffDelivers ==
  ASSUME NEW m \in Msgs, NEW us \in SUBSET Users,
         handoffs \in [Users -> [Msgs -> Nat]],
         stored[m] = 1, \A u \in us : handoffs[u][m] = 0,
         HandOff(us, m), UNCHANGED stored
  PROVE  Delivery!Deliver(m, us)
<1>1. \A u \in us : handoffs[u][m] + 1 = 1
      OBVIOUS
<1>2. \A u \in us : [handoffs[u] EXCEPT ![m] = handoffs[u][m] + 1] = [handoffs[u] EXCEPT ![m] = 1]
      BY <1>1
<1>3. handoffs' = [u \in Users |->
        IF u \in us THEN [handoffs[u] EXCEPT ![m] = 1] ELSE handoffs[u]]
      BY <1>2 DEF HandOff
<1>4. QED
      BY <1>3 DEF Delivery!Deliver

\* Every step of the send path stores one new message, hands a stored message
\* to mailboxes that lack it, or changes neither.
LEMMA StepRefines ==
  ASSUME TypeOK, OwnerIsStored, EchoIsStored, OnceInv, [Next]_vars
  PROVE  [Delivery!Next]_<<stored, handoffs>>
<1> DEFINE Abstract == Delivery!Next \/ UNCHANGED <<stored, handoffs>>
<1> SUFFICES Abstract
    OBVIOUS
<1> USE TypeOK, OwnerIsStored, EchoIsStored, OnceInv DEF queueVars, dedupeVars, clientVars, slotVars, envVars
<1>1. ASSUME NEW s \in Slots, NEW m \in Msgs, Submit(s, m) PROVE Abstract
      BY <1>1 DEF Submit
<1>2. ASSUME NEW s \in Slots, ReceiveReply(s) PROVE Abstract
      BY <1>2 DEF ReceiveReply
<1>3. ASSUME NEW s \in Slots, LoseReply(s) PROVE Abstract
      BY <1>3 DEF LoseReply
<1>4. ASSUME NEW s \in Slots, RejectForbidden(s) PROVE Abstract
      BY <1>4 DEF RejectForbidden, Answer
<1>5. ASSUME NEW s \in Slots, ReplyNoRecipients(s) PROVE Abstract
      BY <1>5 DEF ReplyNoRecipients, Answer
<1>6. ASSUME NEW s \in Slots, DedupeInMemory(s) PROVE Abstract
      BY <1>6 DEF DedupeInMemory, Admitted, Answer
<1>7. ASSUME NEW s \in Slots, Claim(s) PROVE Abstract
      BY <1>7 DEF Claim, Admitted, Goto
<1>8. ASSUME NEW s \in Slots, TxInsert(s) PROVE Abstract
      BY <1>8 DEF TxInsert, RowFree, Goto
<1>9. ASSUME NEW s \in Slots, TxDuplicate(s) PROVE Abstract
      BY <1>9 DEF TxDuplicate, Answer
<1>10. ASSUME NEW s \in Slots, TxFail(s) PROVE Abstract
      BY <1>10 DEF TxFail, Goto, Fault
<1>11. ASSUME NEW s \in Slots, TxCommit(s) PROVE Abstract
  <2>1. req[s] \in Msgs /\ stored[req[s]] = 0
        BY <1>11 DEF TxCommit, Goto, OnceInv, OneInserter, TypeOK
  <2>2. Delivery!Store(req[s])
        BY <1>11, <2>1 DEF TxCommit, Goto, Delivery!Store, queueVars
  <2>3. QED
        BY <2>1, <2>2 DEF Delivery!Next
<1>12. ASSUME NEW s \in Slots, TxCommitUnseen(s) PROVE Abstract
  <2>1. req[s] \in Msgs /\ stored[req[s]] = 0
        BY <1>12 DEF TxCommitUnseen, Goto, Fault, OnceInv, OneInserter, TypeOK
  <2>2. Delivery!Store(req[s])
        BY <1>12, <2>1 DEF TxCommitUnseen, Goto, Fault, Delivery!Store, queueVars
  <2>3. QED
        BY <2>1, <2>2 DEF Delivery!Next
<1>13. ASSUME NEW s \in Slots, QueueLocally(s) PROVE Abstract
  <2> DEFINE us == TargetSet(req[s])
  <2>1. req[s] \in Msgs /\ stored[req[s]] = 1 /\ us \in SUBSET Users
        BY <1>13, PipelineAssumption DEF QueueLocally, OnceInv, OwnerIsStored, Owner, TypeOK, Running, TargetSet
  <2>2. \A u \in us : handoffs[u][req[s]] = 0
        BY <1>13, <2>1 DEF QueueLocally, OnceInv, OwnerHasNotHandedOff
  <2>3. HandOff(us, req[s]) /\ UNCHANGED stored
        BY <1>13 DEF QueueLocally
  <2>4. Delivery!Deliver(req[s], us)
        BY <2>1, <2>2, <2>3, HandOffDelivers DEF TypeOK
  <2>5. QED
        BY <2>1, <2>4 DEF Delivery!Next
<1>14. ASSUME NEW s \in Slots, AllocateSequence(s) PROVE Abstract
      BY <1>14 DEF AllocateSequence, Goto
<1>15. ASSUME NEW s \in Slots, AllocateFails(s) PROVE Abstract
      BY <1>15 DEF AllocateFails, Goto, Fault
<1>16. ASSUME NEW s \in Slots, QueueFirstInRedis(s) PROVE Abstract
  <2> DEFINE us == {Head(Targets[req[s]])}
  <2>1. req[s] \in Msgs /\ stored[req[s]] = 1 /\ us \in SUBSET Users
        BY <1>16, PipelineAssumption DEF QueueFirstInRedis, OnceInv, OwnerIsStored, Owner, TypeOK, Running, TargetSet
  <2>2. \A u \in us : handoffs[u][req[s]] = 0
        BY <1>16, <2>1 DEF QueueFirstInRedis, OnceInv, OwnerHasNotHandedOff
  <2>3. HandOff(us, req[s]) /\ UNCHANGED stored
        BY <1>16 DEF QueueFirstInRedis
  <2>4. Delivery!Deliver(req[s], us)
        BY <2>1, <2>2, <2>3, HandOffDelivers DEF TypeOK
  <2>5. QED
        BY <2>1, <2>4 DEF Delivery!Next
<1>17. ASSUME NEW s \in Slots, PushDone(s) PROVE Abstract
  <2> DEFINE us == {Sender[req[s]]}
  <2>1. req[s] \in Msgs /\ stored[req[s]] = 1 /\ us \in SUBSET Users
        BY <1>17, PipelineAssumption DEF PushDone, OnceInv, OwnerIsStored, Owner, TypeOK, Running, TargetSet
  <2>2. \A u \in us : handoffs[u][req[s]] = 0
        BY <1>17, <2>1 DEF PushDone, OnceInv, OwnerHasNotHandedOff
  <2>3. CASE store = "off"
    <3>1. HandOff(us, req[s]) /\ UNCHANGED stored
          BY <1>17, <2>3 DEF PushDone
    <3>2. Delivery!Deliver(req[s], us)
          BY <2>1, <2>2, <3>1, HandOffDelivers DEF TypeOK
    <3>3. QED
          BY <2>1, <3>2 DEF Delivery!Next
  <2>4. CASE store # "off"
        BY <1>17, <2>4 DEF PushDone
  <2>5. QED
        BY <2>3, <2>4
<1>18. ASSUME NEW s \in Slots, PushFails(s) PROVE Abstract
      BY <1>18 DEF PushFails, Goto, Fault
<1>19. ASSUME NEW s \in Slots, CatchError(s) PROVE Abstract
      BY <1>19 DEF CatchError, Answer
<1>20. ASSUME NEW m \in Msgs, EchoQueued(m) PROVE Abstract
  <2> DEFINE us == {Sender[m]}
  <2>1. stored[m] = 1 /\ us \in SUBSET Users
        BY <1>20, PipelineAssumption DEF EchoQueued, OnceInv, EchoIsStored, TypeOK
  <2>2. \A u \in us : handoffs[u][m] = 0
        BY <1>20 DEF EchoQueued, OnceInv, EchoIsLast
  <2>3. HandOff(us, m) /\ UNCHANGED stored
        BY <1>20 DEF EchoQueued
  <2>4. Delivery!Deliver(m, us)
        BY <2>1, <2>2, <2>3, HandOffDelivers DEF TypeOK
  <2>5. QED
        BY <2>1, <2>4 DEF Delivery!Next
<1>21. ASSUME NEW m \in Msgs, EchoFails(m) PROVE Abstract
      BY <1>21 DEF EchoFails, Fault
<1>22. ASSUME NEW m \in Msgs, TtlPasses(m) PROVE Abstract
      BY <1>22 DEF TtlPasses
<1>23. CASE StoreConnects
      BY <1>23 DEF StoreConnects
<1>24. CASE StoreUnusable
      BY <1>24 DEF StoreUnusable
<1>25. CASE ServerRestart
      BY <1>25 DEF ServerRestart
<1>26. CASE UNCHANGED vars
      BY <1>26 DEF vars
<1> QED
    BY [Next]_vars, <1>1, <1>2, <1>3, <1>4, <1>5, <1>6, <1>7, <1>8,
       <1>9, <1>10, <1>11, <1>12, <1>13, <1>14, <1>15, <1>16, <1>17,
       <1>18, <1>19, <1>20, <1>21, <1>22, <1>23, <1>24, <1>25, <1>26
       DEF Next, SlotStep, BackgroundStep

\* The send path implements the abstract at-most-once delivery, given the
\* unique index.
THEOREM Refinement == ASSUME UniqueIndex PROVE Spec => ImplementsAtMostOnce
<1>1. Init => Delivery!Init
      BY DEF Init, Delivery!Init
<1>2. DurableInv /\ OnceInv /\ [Next]_vars => [Delivery!Next]_<<stored, handoffs>>
      BY StepRefines DEF DurableInv
<1>3. QED
      BY <1>1, <1>2, UniqueIndex, DurableSpec, OnceSpec, PTL
         DEF Spec, ImplementsAtMostOnce, Delivery!Spec
=============================================================================
