----------------------------- MODULE MailboxProofs -----------------------------
(***************************************************************************)
(* Proofs about Mailbox, for every set of entries and of polls, with and   *)
(* without Redis, and for every number of errors and restarts.             *)
(***************************************************************************)
EXTENDS Mailbox, FiniteSetTheorems, TLAPS

\* Two entries never have the same fingerprint, nor the same delivery key
\* unless they have none: what message.controller.js:43-45 takes for granted,
\* and what an edit of a group message breaks.
DistinctKeys ==
  /\ \A e, f \in Entries : PrintOf[e] = PrintOf[f] => e = f
  /\ \A e, f \in Entries : KeyOf[e] = KeyOf[f] /\ KeyOf[e] # NoKey => e = f

\* dedupePollingMailboxMessages keeps entries that neither map knows.
LEMMA DedupedIsNew ==
  ASSUME NEW box, NEW es \in Deduped(box)
  PROVE  /\ es \subseteq box
         /\ \A e \in es : PrintOf[e] \notin recent /\ KeyOf[e] \notin delivered
BY DEF Deduped

\* ... and of those every one, when no two share a fingerprint.
LEMMA DedupedIsAllNew ==
  ASSUME DistinctKeys, NEW box \in SUBSET Entries, NEW es \in Deduped(box),
         NEW e \in box, PrintOf[e] \notin recent, KeyOf[e] \notin delivered
  PROVE  e \in es
<1> DEFINE same == {f \in es : PrintOf[f] = PrintOf[e]}
<1>1. Cardinality(same) = 1
      BY DEF Deduped
<1>2. same # {}
      BY <1>1, FS_EmptySet
<1>3. PICK f \in es : PrintOf[f] = PrintOf[e]
      BY <1>2
<1>4. f \in Entries /\ e \in Entries
      BY <1>3 DEF Deduped
<1> QED
    BY <1>3, <1>4 DEF DistinctKeys

\* An answer is drawn from the mailbox's entries.
LEMMA AnswersAreEntries ==
  ASSUME TypeOK, NEW p \in Polls, NEW es \in Deduped(MailboxOf(p))
  PROVE  /\ MailboxOf(p) \in SUBSET Entries
         /\ es \in SUBSET Entries
BY DedupedIsNew DEF TypeOK, MailboxOf

-----------------------------------------------------------------------------
(* Types.                                                                  *)

\* Every step keeps every variable within its type, a poll holds entries only
\* between its drain and its answer, and there is no stream without Redis.
LEMMA TypeInductive == TypeOK /\ [Next]_vars => TypeOK'
<1> SUFFICES ASSUME TypeOK, [Next]_vars PROVE TypeOK'
    OBVIOUS
<1> USE MailboxAssumption DEF TypeOK, storeVars, diskVars, queueVars, pollVars,
          markVars, envVars, Write, Fault
<1>1. ASSUME NEW e \in Entries, QueueInMemory(e) PROVE TypeOK'
      BY <1>1 DEF QueueInMemory
<1>2. ASSUME NEW e \in Entries, Allocate(e) PROVE TypeOK'
      BY <1>2 DEF Allocate
<1>3. ASSUME NEW e \in Entries, AllocateFails(e) PROVE TypeOK'
      BY <1>3 DEF AllocateFails
<1>4. ASSUME NEW e \in Entries, Enqueue(e) PROVE TypeOK'
      BY <1>4 DEF Enqueue
<1>5. ASSUME NEW e \in Entries, EnqueueDisconnected(e) PROVE TypeOK'
      BY <1>5 DEF EnqueueDisconnected
<1>6. ASSUME NEW e \in Entries, EnqueueFails(e) PROVE TypeOK'
      BY <1>6 DEF EnqueueFails
<1>7. ASSUME NEW e \in Entries, Published(e) PROVE TypeOK'
      BY <1>7 DEF Published
<1>8. ASSUME NEW e \in Entries, PublishFails(e) PROVE TypeOK'
      BY <1>8 DEF PublishFails
<1>9. ASSUME NEW e \in Entries, SyncAnswers(e) PROVE TypeOK'
      BY <1>9 DEF SyncAnswers, Keys
<1>10. ASSUME NEW p \in Polls, Drain(p) PROVE TypeOK'
       BY <1>10 DEF Drain, NoStore
<1>11. ASSUME NEW p \in Polls, DrainFails(p) PROVE TypeOK'
       BY <1>11 DEF DrainFails
<1>12. ASSUME NEW p \in Polls, Answer(p) PROVE TypeOK'
  <2>1. CASE MailboxOf(p) = {}
        BY <1>12, <2>1 DEF Answer
  <2>2. CASE MailboxOf(p) # {}
    <3>1. PICK es \in Deduped(MailboxOf(p)) :
             response' = [response EXCEPT ![p] = es] /\ Remember(es)
          BY <1>12, <2>2 DEF Answer
    <3>2. es \in SUBSET Entries /\ MailboxOf(p) \in SUBSET Entries
          BY AnswersAreEntries
    <3>3. recent' \subseteq Prints /\ delivered' \subseteq Keys
          BY <3>1, <3>2 DEF Remember, Prints, Keys
    <3>4. answered' \in [Entries -> {"no", "live", "earlier"}]
          BY <3>1 DEF Remember
    <3>5. response' \in [Polls -> SUBSET Entries]
          BY <3>1, <3>2
    <3> QED
        BY <1>12, <2>2, <3>2, <3>3, <3>4, <3>5 DEF Answer
  <2> QED
      BY <2>1, <2>2
<1>13. ASSUME NEW p \in Polls, Receive(p) PROVE TypeOK'
       BY <1>13 DEF Receive
<1>14. ASSUME NEW k \in Prints, ExpireRecent(k) PROVE TypeOK'
       BY <1>14 DEF ExpireRecent
<1>15. ASSUME NEW k \in Keys, ExpireDelivered(k) PROVE TypeOK'
       BY <1>15 DEF ExpireDelivered
<1>16. CASE StoreConnects
       BY <1>16 DEF StoreConnects
<1>17. CASE StoreUnusable
       BY <1>17 DEF StoreUnusable
<1>18. CASE StateLoaded
  <2>1. memQueue' \subseteq Entries
        BY <1>18 DEF StateLoaded
  <2> QED
      BY <1>18, <2>1 DEF StateLoaded
<1>19. CASE SaveState
       BY <1>19 DEF SaveState
<1>20. CASE SaveFallsToFile
       BY <1>20 DEF SaveFallsToFile
<1>21. CASE ServerRestart
  <2>1. UNION {held[p] : p \in Polls} \subseteq Entries
        OBVIOUS
  <2>2. lost' \subseteq Entries
        BY <1>21, <2>1 DEF ServerRestart
  <2>3. /\ store' \in {"none", "off"} /\ loaded' = "no"
        /\ store' = "none" => stream' = {}
        /\ writer' \in [Entries -> {"new", "allocating", "publishing", "done", "failed"}]
        /\ answered' \in [Entries -> {"no", "live", "earlier"}]
        /\ restarts' \in 0..MaxRestarts
        BY <1>21 DEF ServerRestart
  <2>4. /\ held' \in [Polls -> SUBSET Entries]
        /\ response' \in [Polls -> SUBSET Entries]
        /\ pc' \in [Polls -> {"idle", "drained", "answered"}]
        /\ \A p \in Polls : held'[p] = {}
        BY <1>21 DEF ServerRestart
  <2>5. memQueue' = {} /\ recent' = {} /\ delivered' = {}
        BY <1>21 DEF ServerRestart
  <2>6. UNCHANGED <<file, snapshot, mysql, stream, faults>>
        BY <1>21 DEF ServerRestart
  <2> QED
      BY <2>2, <2>3, <2>4, <2>5, <2>6
<1>22. CASE UNCHANGED vars
       BY <1>22 DEF vars
<1> QED
    BY <1>1, <1>2, <1>3, <1>4, <1>5, <1>6, <1>7, <1>8, <1>9, <1>10, <1>11, <1>12,
       <1>13, <1>14, <1>15, <1>16, <1>17, <1>18, <1>19, <1>20, <1>21, <1>22
       DEF Next, WriteStep, PollStep, ProcessStep

\* A process that has queued nothing has the right types.
LEMMA InitTyped == Init => TypeOK
BY MailboxAssumption DEF Init, TypeOK

\* Type correctness of the mailbox.
THEOREM TypeCorrect == Spec => []TypeOK
BY InitTyped, TypeInductive, PTL DEF Spec

-----------------------------------------------------------------------------
(* No entry is answered twice by one process.                              *)

\* What this process has answered is still in one of its two maps: each map
\* forgets an entry only after the other has, or with the whole process.
Remembered ==
  \A e \in Entries : answered[e] = "live" =>
    PrintOf[e] \in recent \/ KeyOf[e] \in delivered

RecallInv == TypeOK /\ Remembered

\* Answering, syncing, expiring and restarting are the steps that touch the
\* maps or the ghost; all of them keep the ghost within the maps.
LEMMA RecallInductive == RecallInv /\ [Next]_vars => RecallInv'
<1> SUFFICES ASSUME RecallInv, [Next]_vars PROVE Remembered'
    BY TypeInductive DEF RecallInv
<1> USE DEF RecallInv, TypeOK, Remembered, storeVars, diskVars, queueVars, pollVars,
          markVars, envVars
<1>1. CASE UNCHANGED markVars
      BY <1>1
<1>2. ASSUME NEW e \in Entries, SyncAnswers(e) PROVE Remembered'
      BY <1>2 DEF SyncAnswers
<1>3. ASSUME NEW p \in Polls, Answer(p) PROVE Remembered'
  <2>1. CASE MailboxOf(p) = {}
        BY <1>1, <1>3, <2>1 DEF Answer
  <2>2. CASE MailboxOf(p) # {}
    <3>1. PICK es \in Deduped(MailboxOf(p)) : Remember(es)
          BY <1>3, <2>2 DEF Answer
    <3> QED
        BY <3>1 DEF Remember
  <2> QED
      BY <2>1, <2>2
<1>4. ASSUME NEW k \in Prints, ExpireRecent(k) PROVE Remembered'
      BY <1>4 DEF ExpireRecent
<1>5. ASSUME NEW k \in Keys, ExpireDelivered(k) PROVE Remembered'
      BY <1>5 DEF ExpireDelivered
<1>6. CASE ServerRestart
      BY <1>6 DEF ServerRestart
<1>7. ASSUME NEW e \in Entries, WriteStep(e) PROVE UNCHANGED markVars
      BY <1>7 DEF WriteStep, QueueInMemory, Allocate, AllocateFails, Enqueue,
                  EnqueueDisconnected, EnqueueFails, Published, PublishFails
<1>8. ASSUME NEW p \in Polls, Drain(p) \/ DrainFails(p) \/ Receive(p)
      PROVE  UNCHANGED markVars
      BY <1>8 DEF Drain, DrainFails, Receive
<1>9. CASE StoreConnects \/ StoreUnusable \/ StateLoaded \/ SaveState \/ SaveFallsToFile
  <2>1. UNCHANGED markVars
        BY <1>9 DEF StoreConnects, StoreUnusable, StateLoaded, SaveState, SaveFallsToFile
  <2> QED
      BY <1>1, <2>1
<1>10. CASE UNCHANGED vars
       BY <1>1, <1>10 DEF vars
<1> QED
    BY <1>1, <1>2, <1>3, <1>4, <1>5, <1>6, <1>7, <1>8, <1>9, <1>10
       DEF Next, PollStep, ProcessStep

\* Before anything was answered there is nothing to remember.
LEMMA InitRemembered == Init => Remembered
BY DEF Init, Remembered

\* Only Answer gives a poll new entries, and it gives none the maps know.
LEMMA AnswersAreNew ==
  ASSUME RecallInv, [Next]_vars, NEW p \in Polls, NEW e \in response'[p] \ response[p]
  PROVE  answered[e] # "live"
<1> USE DEF RecallInv, TypeOK, storeVars, diskVars, queueVars, pollVars, markVars, envVars
<1>1. CASE UNCHANGED response
      BY <1>1
<1>2. ASSUME NEW q \in Polls, Answer(q) PROVE answered[e] # "live"
  <2>1. CASE MailboxOf(q) = {}
        BY <1>2, <2>1 DEF Answer
  <2>2. CASE MailboxOf(q) # {}
    <3>1. PICK es \in Deduped(MailboxOf(q)) :
             response' = [response EXCEPT ![q] = es]
          BY <1>2, <2>2 DEF Answer
    <3>2. e \in es /\ e \in Entries
          BY <3>1, AnswersAreEntries
    <3>3. PrintOf[e] \notin recent /\ KeyOf[e] \notin delivered
          BY <3>2, DedupedIsNew
    <3> QED
        BY <3>2, <3>3 DEF Remembered
  <2> QED
      BY <2>1, <2>2
<1>3. ASSUME NEW q \in Polls, Receive(q) PROVE FALSE
      BY <1>3 DEF Receive
<1>4. CASE ServerRestart
      BY <1>4 DEF ServerRestart
<1>5. ASSUME NEW f \in Entries, WriteStep(f) \/ SyncAnswers(f) PROVE UNCHANGED response
      BY <1>5 DEF WriteStep, QueueInMemory, Allocate, AllocateFails, Enqueue, SyncAnswers,
                  EnqueueDisconnected, EnqueueFails, Published, PublishFails
<1>6. ASSUME NEW q \in Polls, Drain(q) \/ DrainFails(q) PROVE UNCHANGED response
      BY <1>6 DEF Drain, DrainFails
<1>7. CASE \/ StoreConnects \/ StoreUnusable \/ StateLoaded \/ SaveState \/ SaveFallsToFile
           \/ (\E k \in Prints : ExpireRecent(k)) \/ (\E k \in Keys : ExpireDelivered(k))
  <2>1. UNCHANGED response
        BY <1>7 DEF StoreConnects, StoreUnusable, StateLoaded, SaveState,
                    SaveFallsToFile, ExpireRecent, ExpireDelivered
  <2> QED
      BY <1>1, <2>1
<1>8. CASE UNCHANGED vars
      BY <1>1, <1>8 DEF vars
<1> QED
    BY <1>1, <1>2, <1>3, <1>4, <1>5, <1>6, <1>7, <1>8 DEF Next, PollStep, ProcessStep

\* No poll answers an entry that this process remembers having answered.
THEOREM NoRepeats == Spec => NeverRepeated
<1>1. Spec => []RecallInv
      BY InitTyped, InitRemembered, RecallInductive, PTL DEF Spec, RecallInv
<1>2. RecallInv /\ [Next]_vars =>
        [\A p \in Polls : \A e \in response'[p] \ response[p] : answered[e] # "live"]_vars
      BY AnswersAreNew
<1> QED
    BY <1>1, <1>2, PTL DEF Spec, NeverRepeated

-----------------------------------------------------------------------------
(* No entry disappears unseen.                                             *)

\* Where an entry may be once it has left addToQueue's hands.
Somewhere(e) ==
  \/ e \in stream \cup memQueue \cup lost
  \/ \E p \in Polls : e \in held[p]
  \/ answered[e] # "no"

\* From the XADD on, and not only when addToQueue has ended.
Placed == \A e \in Entries : writer[e] \in {"publishing", "done"} => Somewhere(e)

\* The maps only know entries that were answered; with shared keys this is
\* false, and the entry that shares the key is skipped without a trace.
MarksAreAnswers ==
  \A e \in Entries :
    PrintOf[e] \in recent \/ KeyOf[e] \in delivered => answered[e] # "no"

AccountInv == TypeOK /\ Placed /\ MarksAreAnswers

\* Every step leaves the maps' marks on answered entries alone.
LEMMA MarksInductive ==
  ASSUME DistinctKeys, AccountInv, [Next]_vars
  PROVE  MarksAreAnswers'
<1> USE DEF AccountInv, TypeOK, MarksAreAnswers, DistinctKeys, storeVars, diskVars,
          queueVars, pollVars, markVars, envVars
<1>1. CASE UNCHANGED markVars
      BY <1>1
<1>2. ASSUME NEW e \in Entries, SyncAnswers(e) PROVE MarksAreAnswers'
      BY <1>2 DEF SyncAnswers
<1>3. ASSUME NEW p \in Polls, Answer(p) PROVE MarksAreAnswers'
  <2>1. CASE MailboxOf(p) = {}
        BY <1>1, <1>3, <2>1 DEF Answer
  <2>2. CASE MailboxOf(p) # {}
    <3>1. PICK es \in Deduped(MailboxOf(p)) : Remember(es)
          BY <1>3, <2>2 DEF Answer
    <3>2. es \subseteq Entries
          BY AnswersAreEntries
    <3> QED
        BY <3>1, <3>2 DEF Remember
  <2> QED
      BY <2>1, <2>2
<1>4. ASSUME NEW k \in Prints, ExpireRecent(k) PROVE MarksAreAnswers'
      BY <1>4 DEF ExpireRecent
<1>5. ASSUME NEW k \in Keys, ExpireDelivered(k) PROVE MarksAreAnswers'
      BY <1>5 DEF ExpireDelivered
<1>6. CASE ServerRestart
      BY <1>6 DEF ServerRestart
<1>7. ASSUME NEW e \in Entries, WriteStep(e) PROVE UNCHANGED markVars
      BY <1>7 DEF WriteStep, QueueInMemory, Allocate, AllocateFails, Enqueue,
                  EnqueueDisconnected, EnqueueFails, Published, PublishFails
<1>8. ASSUME NEW p \in Polls, Drain(p) \/ DrainFails(p) \/ Receive(p)
      PROVE  UNCHANGED markVars
      BY <1>8 DEF Drain, DrainFails, Receive
<1>9. CASE StoreConnects \/ StoreUnusable \/ StateLoaded \/ SaveState \/ SaveFallsToFile
  <2>1. UNCHANGED markVars
        BY <1>9 DEF StoreConnects, StoreUnusable, StateLoaded, SaveState, SaveFallsToFile
  <2> QED
      BY <1>1, <2>1
<1>10. CASE UNCHANGED vars
       BY <1>1, <1>10 DEF vars
<1> QED
    BY <1>1, <1>2, <1>3, <1>4, <1>5, <1>6, <1>7, <1>8, <1>9, <1>10
       DEF Next, PollStep, ProcessStep

\* A poll's answer takes every entry of its mailbox, or finds it answered;
\* what else it removes, it removes into lost.
LEMMA AnswerKeepsTrack ==
  ASSUME DistinctKeys, AccountInv, NEW p \in Polls, Answer(p),
         NEW e \in Entries, Somewhere(e)
  PROVE  Somewhere(e)'
<1> USE DEF AccountInv, TypeOK, storeVars, diskVars, envVars
<1>1. CASE MailboxOf(p) = {}
  <2>1. /\ UNCHANGED <<stream, memQueue, lost, answered>>
        /\ held[p] = {} /\ held' = [held EXCEPT ![p] = {}]
        BY <1>1 DEF Answer, MailboxOf, markVars
  <2>2. \A q \in Polls : held'[q] = held[q]
        BY <2>1
  <2> QED
      BY <2>1, <2>2 DEF Somewhere
<1>2. CASE MailboxOf(p) # {}
  <2>1. PICK es \in Deduped(MailboxOf(p)) : Remember(es)
        BY <1>2 DEF Answer
  <2>2. /\ memQueue' = {} /\ stream' = stream
        /\ lost' = lost \cup (memQueue \ MailboxOf(p))
        /\ held' = [held EXCEPT ![p] = {}]
        BY <1>2 DEF Answer
  <2>3. answered[e] # "no" => answered'[e] # "no"
        BY <2>1 DEF Remember
  <2>4. e \in MailboxOf(p) => answered'[e] # "no"
    <3>1. SUFFICES ASSUME e \in MailboxOf(p), answered[e] = "no"
                   PROVE  answered'[e] # "no"
          BY <2>3
    <3>2. PrintOf[e] \notin recent /\ KeyOf[e] \notin delivered
          BY <3>1 DEF MarksAreAnswers
    <3>3. e \in es
          BY <3>1, <3>2, AnswersAreEntries, DedupedIsAllNew
    <3> QED
        BY <2>1, <3>3 DEF Remember
  <2>5. e \in held[p] => e \in MailboxOf(p)
        BY DEF MailboxOf
  <2>6. \A q \in Polls : q # p => held'[q] = held[q]
        BY <2>2
  <2>7. e \in memQueue => e \in lost' \/ e \in MailboxOf(p)
        BY <2>2
  <2> QED
      BY <2>2, <2>3, <2>4, <2>5, <2>6, <2>7 DEF Somewhere
<1> QED
    BY <1>1, <1>2

\* Entries move from the stream to a poll's hands, or to lost.
LEMMA DrainKeepsTrack ==
  ASSUME AccountInv, NEW p \in Polls, Drain(p) \/ DrainFails(p),
         NEW e \in Entries, Somewhere(e)
  PROVE  Somewhere(e)'
<1> USE DEF AccountInv, TypeOK, storeVars, diskVars, markVars, envVars
<1>1. CASE Drain(p)
  <2>1. held[p] = {}
        BY <1>1 DEF Drain
  <2>2. /\ held'[p] = stream
        /\ \A q \in Polls : q # p => held'[q] = held[q]
        /\ UNCHANGED <<memQueue, lost, answered>>
        BY <1>1 DEF Drain
  <2> QED
      BY <2>1, <2>2 DEF Somewhere
<1>2. CASE DrainFails(p)
  <2>1. /\ lost' = lost \cup (stream \ stream')
        /\ UNCHANGED <<held, memQueue, answered>>
        BY <1>2 DEF DrainFails
  <2> QED
      BY <2>1 DEF Somewhere
<1> QED
    BY <1>1, <1>2

\* What a restart and a load drop of memory goes to lost.
LEMMA ProcessKeepsTrack ==
  ASSUME AccountInv, ServerRestart \/ StateLoaded, NEW e \in Entries, Somewhere(e)
  PROVE  Somewhere(e)'
<1> USE DEF AccountInv, TypeOK, diskVars, markVars, pollVars
<1>1. CASE ServerRestart
  <2>1. /\ lost' = lost \cup memQueue \cup UNION {held[p] : p \in Polls}
        /\ stream' = stream
        /\ answered[e] # "no" => answered'[e] # "no"
        BY <1>1 DEF ServerRestart
  <2>2. (\E p \in Polls : e \in held[p]) => e \in lost'
        BY <2>1
  <2> QED
      BY <2>1, <2>2 DEF Somewhere
<1>2. CASE StateLoaded
  <2>1. /\ lost' = lost \cup (memQueue \ memQueue')
        /\ UNCHANGED <<stream, held, answered>>
        BY <1>2 DEF StateLoaded
  <2> QED
      BY <2>1 DEF Somewhere
<1> QED
    BY <1>1, <1>2

\* Whatever step is taken, an entry that is somewhere stays somewhere.
LEMMA SomewhereStable ==
  ASSUME DistinctKeys, AccountInv, [Next]_vars, NEW e \in Entries, Somewhere(e)
  PROVE  Somewhere(e)'
<1> USE DEF AccountInv, TypeOK, storeVars, diskVars, queueVars, pollVars, markVars, envVars
<1>1. ASSUME NEW f \in Entries, WriteStep(f) PROVE Somewhere(e)'
  <2>1. /\ stream \subseteq stream' /\ memQueue \subseteq memQueue' /\ lost \subseteq lost'
        /\ UNCHANGED <<held, answered>>
        BY <1>1 DEF WriteStep, QueueInMemory, Allocate, AllocateFails, Enqueue,
                    EnqueueDisconnected, EnqueueFails, Published, PublishFails
  <2> QED
      BY <2>1 DEF Somewhere
<1>2. ASSUME NEW f \in Entries, SyncAnswers(f) PROVE Somewhere(e)'
      BY <1>2 DEF SyncAnswers, Somewhere
<1>3. ASSUME NEW p \in Polls, Receive(p) PROVE Somewhere(e)'
      BY <1>3 DEF Receive, Somewhere
<1>4. ASSUME NEW k \in Prints, ExpireRecent(k) PROVE Somewhere(e)'
      BY <1>4 DEF ExpireRecent, Somewhere
<1>5. ASSUME NEW k \in Keys, ExpireDelivered(k) PROVE Somewhere(e)'
      BY <1>5 DEF ExpireDelivered, Somewhere
<1>6. CASE StoreConnects \/ StoreUnusable \/ SaveState \/ SaveFallsToFile \/ UNCHANGED vars
      BY <1>6 DEF StoreConnects, StoreUnusable, SaveState, SaveFallsToFile, Somewhere, vars
<1> QED
    BY <1>1, <1>2, <1>3, <1>4, <1>5, <1>6, AnswerKeepsTrack, DrainKeepsTrack,
       ProcessKeepsTrack DEF Next, PollStep, ProcessStep

\* An entry that has just left addToQueue's hands was put somewhere.
LEMMA WriterPlaces ==
  ASSUME AccountInv, [Next]_vars, NEW e \in Entries,
         writer[e] \notin {"publishing", "done"}, writer'[e] \in {"publishing", "done"}
  PROVE  Somewhere(e)'
<1> USE DEF AccountInv, TypeOK, storeVars, diskVars, queueVars, pollVars, markVars, envVars
<1>1. ASSUME NEW f \in Entries, WriteStep(f) PROVE Somewhere(e)'
  <2>1. CASE QueueInMemory(f) \/ EnqueueFails(f) \/ PublishFails(f)
    <3>1. f \in memQueue' /\ (e # f => writer'[e] = writer[e])
          BY <2>1 DEF QueueInMemory, EnqueueFails, PublishFails, Write
    <3> QED
        BY <3>1 DEF Somewhere
  <2>2. CASE Enqueue(f)
    <3>1. f \in stream' /\ (e # f => writer'[e] = writer[e])
          BY <2>2 DEF Enqueue, Write
    <3> QED
        BY <3>1 DEF Somewhere
  <2>3. CASE EnqueueDisconnected(f)
    <3>1. f \in lost' /\ (e # f => writer'[e] = writer[e])
          BY <2>3 DEF EnqueueDisconnected, Write
    <3> QED
        BY <3>1 DEF Somewhere
  <2>4. CASE Allocate(f) \/ AllocateFails(f) \/ Published(f)
        BY <2>4 DEF Allocate, AllocateFails, Published, Write
  <2> QED
      BY <1>1, <2>1, <2>2, <2>3, <2>4 DEF WriteStep
<1>2. ASSUME NEW p \in Polls, PollStep(p) PROVE FALSE
      BY <1>2 DEF PollStep, Drain, DrainFails, Answer, Receive
<1>3. ASSUME NEW f \in Entries, SyncAnswers(f) PROVE FALSE
      BY <1>3 DEF SyncAnswers
<1>4. ASSUME NEW k, ExpireRecent(k) \/ ExpireDelivered(k) PROVE FALSE
      BY <1>4 DEF ExpireRecent, ExpireDelivered
<1>5. CASE ProcessStep
      BY <1>5 DEF ProcessStep, StoreConnects, StoreUnusable, StateLoaded, SaveState,
                  SaveFallsToFile, ServerRestart
<1>6. CASE UNCHANGED vars
      BY <1>6 DEF vars
<1> QED
    BY <1>1, <1>2, <1>3, <1>4, <1>5, <1>6 DEF Next

\* The three parts together are inductive.
LEMMA AccountInductive ==
  ASSUME DistinctKeys PROVE AccountInv /\ [Next]_vars => AccountInv'
<1> SUFFICES ASSUME AccountInv, [Next]_vars PROVE Placed'
    BY TypeInductive, MarksInductive DEF AccountInv
<1>1. SUFFICES ASSUME NEW e \in Entries, writer'[e] \in {"publishing", "done"}
               PROVE  Somewhere(e)'
      BY DEF Placed
<1>2. CASE writer[e] \in {"publishing", "done"}
      BY <1>2, SomewhereStable DEF AccountInv, Placed
<1>3. CASE writer[e] \notin {"publishing", "done"}
      BY <1>1, <1>3, WriterPlaces
<1> QED
    BY <1>2, <1>3

\* Nothing was queued yet, and nothing answered.
LEMMA InitPlaced == Init => Placed /\ MarksAreAnswers
BY DEF Init, Placed, MarksAreAnswers

\* Every queue entry is accounted for, as long as no two entries share their
\* keys: it waits, is in a poll's hands, was answered or was dropped at one
\* of the places that drop entries.
THEOREM EntriesAccounted == ASSUME DistinctKeys PROVE Spec => []Accounted
<1>1. Init => AccountInv
      BY InitTyped, InitPlaced DEF AccountInv
<1>2. AccountInv => Accounted
      BY DEF AccountInv, Placed, Somewhere, Accounted
<1> QED
    BY <1>1, <1>2, AccountInductive, PTL DEF Spec
===============================================================================
