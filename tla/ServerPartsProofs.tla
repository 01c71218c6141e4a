------------------------- MODULE ServerPartsProofs --------------------------
(* The theorems about the parts of the server that share no variables: the *)
(* shuttle's lists and reminders, groups and communities, receipts, one-   *)
(* time codes, the fast reply path, push campaigns, push subscriptions and *)
(* uploads; HelpdeskProofs has those about the helpdesk. Each section has  *)
(* the inductive invariant of its part, the lemmas about its steps and its *)
(* theorems. The last section says what MCServerParts, which takes the     *)
(* steps of one part at a time, thereby promises.                          *)
EXTENDS MCServerParts, HelpdeskProofs, SequenceTheorems,
        FiniteSetTheorems, TLAPS

-----------------------------------------------------------------------------
(* An operator's list never goes back to an older sheet, for any operators *)
(* and any number of contents and failed reads. The list, the cache and    *)
(* what each waiting request kept for a failure are of different ages: the *)
(* invariant orders them. Every request waits for the one read under way,  *)
(* which read the sheet after all of them, if it did at all.               *)
USE OperationsAssumption

Waits(p) == opsRequest[p].at = "waits"

\* Whoever waits, waits for the one read, and its starter is among them.
OneRead ==
    /\ \A p \in Operators : Waits(p) =>
          opsRequest[p].on = opsFlight /\ opsFlight \in Operators
    /\ opsFlight \in Operators => Waits(opsFlight)

\* Nothing is younger than the sheet.
SheetIsYoungest ==
    /\ opsCache <= version
    /\ \A p \in Operators : /\ shown[p] <= version /\ opsRead[p] <= version
                            /\ opsRequest[p].cached <= version

\* An answer from the cache is no older than any list.
CacheIsYounger == opsCache # 0 => \A o \in Operators : shown[o] <= opsCache

\* Nor is what a request kept for the case that the read fails.
KeptIsYounger ==
    \A p \in Operators : Waits(p) /\ opsRequest[p].cached # 0 =>
        /\ opsCache \in {0, opsRequest[p].cached}
        /\ \A o \in Operators : shown[o] <= opsRequest[p].cached

\* What was read is no older than anything that came before it.
ReadIsYounger ==
    opsFlight \in Operators /\ opsRead[opsFlight] # 0 =>
        /\ opsCache <= opsRead[opsFlight]
        /\ \A p \in Operators : /\ shown[p] <= opsRead[opsFlight]
                                /\ Waits(p) => opsRequest[p].cached <= opsRead[opsFlight]

ListAges == SheetIsYoungest /\ CacheIsYounger /\ KeptIsYounger /\ ReadIsYounger
OperationsInv == OperationsTypeOK /\ OneRead /\ ListAges

Forward == \A o \in Operators : shown'[o] >= shown[o]

LEMMA SheetKeeps ==
  ASSUME OperationsInv, SheetChanges
  PROVE  OperationsInv' /\ Forward
  <1>1. OperationsTypeOK'
    BY DEF OperationsInv, OperationsTypeOK, SheetChanges
  <1>2. OneRead' /\ Forward
    BY DEF OperationsInv, OperationsTypeOK, OneRead, Waits, SheetChanges, Forward
  <1>3. SheetIsYoungest'
    BY DEF OperationsInv, OperationsTypeOK, ListAges, SheetIsYoungest, SheetChanges
  <1>4. CacheIsYounger' /\ KeptIsYounger' /\ ReadIsYounger'
    BY DEF OperationsInv, ListAges, CacheIsYounger, KeptIsYounger, ReadIsYounger,
           Waits, SheetChanges
  <1> QED BY <1>1, <1>2, <1>3, <1>4 DEF OperationsInv, ListAges

LEMMA AskKeeps ==
  ASSUME OperationsInv, NEW o \in Operators, NEW forced \in {"yes", "no"},
         AskProxy(o, forced)
  PROVE  OperationsInv' /\ Forward
  <1>1. PICK cached \in {opsCache, 0} :
          /\ opsCache' = cached
          /\ IF forced = "no" /\ cached # 0
             THEN /\ shown' = [shown EXCEPT ![o] = cached]
                  /\ UNCHANGED <<opsFlight, opsRead, opsRequest>>
             ELSE /\ opsRequest' = [opsRequest EXCEPT ![o] =
                        [at |-> "waits", cached |-> cached,
                         on |-> IF Joins THEN opsFlight ELSE o]]
                  /\ opsFlight' = IF Joins THEN opsFlight ELSE o
                  /\ opsRead' = IF Joins THEN opsRead
                                ELSE [opsRead EXCEPT ![o] = 0]
                  /\ UNCHANGED shown
    BY DEF AskProxy
  <1>2. opsRequest[o].at = "idle" /\ UNCHANGED <<version, opsFaults>>
    BY DEF AskProxy
  <1>3. cached \in 0..MaxVersion /\ cached <= version
    BY DEF OperationsInv, OperationsTypeOK, ListAges, SheetIsYoungest
  \* It is answered from the cache.
  <1>4. CASE forced = "no" /\ cached # 0
    <2>1. /\ shown' = [shown EXCEPT ![o] = cached] /\ opsCache' = opsCache
          /\ cached = opsCache
          /\ UNCHANGED <<version, opsFlight, opsRead, opsRequest, opsFaults>>
      BY <1>1, <1>2, <1>4
    <2>2. OperationsTypeOK' /\ OneRead' /\ SheetIsYoungest'
      BY <1>3, <2>1 DEF OperationsInv, OperationsTypeOK, OneRead, Waits, ListAges,
                        SheetIsYoungest
    <2>3. CacheIsYounger' /\ Forward
      BY <1>4, <2>1 DEF OperationsInv, OperationsTypeOK, ListAges, CacheIsYounger, Forward
    <2>4. KeptIsYounger'
      BY <1>4, <2>1 DEF OperationsInv, OperationsTypeOK, ListAges, KeptIsYounger, Waits
    <2>5. ReadIsYounger'
      BY <2>1 DEF OperationsInv, OperationsTypeOK, ListAges, ReadIsYounger, Waits
    <2> QED BY <2>2, <2>3, <2>4, <2>5 DEF OperationsInv, ListAges
  \* It joins the read under way, or starts one.
  <1>5. CASE ~(forced = "no" /\ cached # 0)
    <2> DEFINE on == IF Joins THEN opsFlight ELSE o
    <2>1. /\ opsRequest' = [opsRequest EXCEPT ![o] =
                [at |-> "waits", cached |-> cached, on |-> on]]
          /\ opsFlight' = on
          /\ opsRead' = IF Joins THEN opsRead ELSE [opsRead EXCEPT ![o] = 0]
          /\ opsCache' = cached
          /\ UNCHANGED <<version, shown, opsFaults>>
      BY <1>1, <1>2, <1>5
    <2>2. on \in Operators /\ (Joins => on = opsFlight) /\ (~Joins => on = o)
      BY DEF OperationsInv, OperationsTypeOK, Joins
    <2> HIDE DEF on
    <2>3. OperationsTypeOK' /\ Forward
      BY <1>3, <2>1, <2>2 DEF OperationsInv, OperationsTypeOK, Forward
    <2>4. /\ Waits(o)' /\ opsRequest'[o].cached = cached /\ opsRequest'[o].on = on
          /\ \A p \in Operators \ {o} : opsRequest'[p] = opsRequest[p]
      BY <2>1 DEF OperationsInv, OperationsTypeOK, Waits
    <2>5. OneRead'
      <3>1. CASE Joins
        BY <2>1, <2>2, <2>4, <3>1
          DEF OperationsInv, OperationsTypeOK, OneRead, Waits, Joins
      <3>2. CASE ~Joins
        BY <2>1, <2>2, <2>4, <3>2
          DEF OperationsInv, OperationsTypeOK, OneRead, Waits, Joins
      <3> QED BY <3>1, <3>2
    <2>6. SheetIsYoungest' /\ CacheIsYounger'
      BY <1>3, <2>1, <2>4 DEF OperationsInv, OperationsTypeOK, ListAges,
                              SheetIsYoungest, CacheIsYounger
    <2>7. KeptIsYounger'
      BY <1>3, <2>1, <2>4 DEF OperationsInv, OperationsTypeOK, ListAges,
                              CacheIsYounger, KeptIsYounger, Waits
    <2>8. ReadIsYounger'
      <3>1. CASE Joins
        <4>1. opsFlight' = opsFlight /\ opsRead' = opsRead /\ opsFlight \in Operators
          BY <2>1, <2>2, <3>1
        <4> QED
          BY <1>3, <2>1, <2>4, <4>1
            DEF OperationsInv, OperationsTypeOK, ListAges, ReadIsYounger, Waits
      <3>2. CASE ~Joins
        BY <2>1, <2>2, <3>2 DEF OperationsInv, OperationsTypeOK, ReadIsYounger
      <3> QED BY <3>1, <3>2
    <2> QED BY <2>3, <2>5, <2>6, <2>7, <2>8 DEF OperationsInv, ListAges
  <1> QED BY <1>4, <1>5

LEMMA AnswerKeeps ==
  ASSUME OperationsInv, NEW o \in Operators, SheetAnswers(o)
  PROVE  OperationsInv' /\ Forward
  <1>1. opsFlight = o /\ Waits(o)
    BY DEF SheetAnswers, OperationsInv, OneRead, Waits
  <1>2. OperationsTypeOK' /\ OneRead' /\ Forward
    BY DEF SheetAnswers, OperationsInv, OperationsTypeOK, OneRead, Waits, Forward
  <1>3. SheetIsYoungest' /\ CacheIsYounger' /\ KeptIsYounger'
    BY DEF SheetAnswers, OperationsInv, OperationsTypeOK, ListAges, SheetIsYoungest,
           CacheIsYounger, KeptIsYounger, Waits
  <1>4. ReadIsYounger'
    BY <1>1 DEF SheetAnswers, OperationsInv, OperationsTypeOK, ListAges,
                SheetIsYoungest, ReadIsYounger, Waits
  <1> QED BY <1>2, <1>3, <1>4 DEF OperationsInv, ListAges

\* The end of the read answers everyone.
LEMMA SettleAll ==
  ASSUME OperationsInv, NEW o \in Operators, o \in Sharing(o), Settle(o)
  PROVE  /\ opsFlight = o /\ opsFlight' = NoRead
         /\ Sharing(o) = {p \in Operators : Waits(p)}
         /\ opsRequest' = [p \in Operators |-> IF Waits(p) THEN Quiet ELSE opsRequest[p]]
         /\ \A p \in Operators : ~Waits(p)'
         /\ OneRead' /\ ReadIsYounger' /\ KeptIsYounger'
  <1>1. opsFlight = o
    BY DEF OperationsInv, OneRead, Waits, Sharing
  <1>2. Sharing(o) = {p \in Operators : Waits(p)}
    BY <1>1 DEF OperationsInv, OneRead, Waits, Sharing
  <1>3. /\ opsFlight' = NoRead
        /\ opsRequest' = [p \in Operators |-> IF Waits(p) THEN Quiet ELSE opsRequest[p]]
    BY <1>1, <1>2 DEF Settle
  <1>4. \A p \in Operators : ~Waits(p)'
    BY <1>3 DEF Waits, Quiet
  <1> QED
    BY <1>1, <1>2, <1>3, <1>4 DEF OneRead, ReadIsYounger, KeptIsYounger

LEMMA DoneKeeps ==
  ASSUME OperationsInv, NEW o \in Operators, ReadDone(o)
  PROVE  OperationsInv' /\ Forward
  <1>1. /\ o \in Sharing(o) /\ Settle(o) /\ opsRead[o] # 0
        /\ opsCache' = opsRead[o]
        /\ shown' = [p \in Operators |-> IF p \in Sharing(o) THEN opsRead[o] ELSE shown[p]]
        /\ UNCHANGED <<version, opsRead, opsFaults>>
    BY DEF ReadDone, Settle
  <1> DEFINE read == opsRead[o]
  <1>2. read \in 0..MaxVersion
    BY DEF OperationsInv, OperationsTypeOK
  <1>3. opsFlight = o /\ opsFlight' = NoRead
    BY <1>1, SettleAll
  <1>4. \A p \in Operators : shown[p] <= read
    BY <1>1, <1>3 DEF OperationsInv, ListAges, ReadIsYounger
  <1>5. \A p \in Operators : shown'[p] \in {read, shown[p]}
    BY <1>1
  <1>6. OperationsTypeOK'
    <2>1. opsRequest' \in [Operators -> [at : {"idle", "waits"},
                                         on : Operators \cup {NoRead},
                                         cached : 0..MaxVersion]]
      BY <1>1, SettleAll DEF OperationsInv, OperationsTypeOK, Quiet
    <2>2. shown' \in [Operators -> 0..MaxVersion]
      BY <1>1, <1>2 DEF OperationsInv, OperationsTypeOK
    <2> QED BY <1>1, <1>2, <1>3, <2>1, <2>2 DEF OperationsInv, OperationsTypeOK
  <1>7. \A p \in Operators :
          opsRequest'[p] \in {opsRequest[p], Quiet} /\ opsRequest'[p].cached <= version
    BY <1>1, SettleAll DEF OperationsInv, OperationsTypeOK, ListAges, SheetIsYoungest, Quiet
  <1>8. SheetIsYoungest'
    BY <1>1, <1>5, <1>7 DEF OperationsInv, OperationsTypeOK, ListAges, SheetIsYoungest
  <1>9. CacheIsYounger'
    BY <1>1, <1>2, <1>4, <1>5 DEF CacheIsYounger
  <1>10. Forward
    BY <1>2, <1>4, <1>5 DEF Forward, OperationsInv, OperationsTypeOK
  <1> QED
    BY <1>1, <1>6, <1>8, <1>9, <1>10, SettleAll DEF OperationsInv, ListAges

LEMMA FailureKeeps ==
  ASSUME OperationsInv, NEW o \in Operators, ReadFails(o)
  PROVE  OperationsInv' /\ Forward
  <1>1. /\ o \in Sharing(o) /\ Settle(o)
        /\ opsFaults < MaxOpsFaults /\ opsFaults' = opsFaults + 1
        /\ shown' = [p \in Operators |-> IF p \in Sharing(o) /\ opsRequest[p].cached # 0
                                         THEN opsRequest[p].cached ELSE shown[p]]
        /\ UNCHANGED <<version, opsRead, opsCache>>
    BY DEF ReadFails, Settle
  <1>2. opsFlight = o /\ opsFlight' = NoRead /\ Sharing(o) = {p \in Operators : Waits(p)}
    BY <1>1, SettleAll
  <1>3. opsRequest' \in [Operators -> [at : {"idle", "waits"},
                                       on : Operators \cup {NoRead},
                                       cached : 0..MaxVersion]]
    BY <1>1, SettleAll DEF OperationsInv, OperationsTypeOK, Quiet
  <1>4. OperationsTypeOK'
    BY <1>1, <1>2, <1>3 DEF OperationsInv, OperationsTypeOK
  <1>5. \A p \in Operators :
          \/ shown'[p] = shown[p]
          \/ /\ Waits(p) /\ opsRequest[p].cached # 0
             /\ shown'[p] = opsRequest[p].cached
    BY <1>1, <1>2
  <1>6. SheetIsYoungest'
    <2>1. \A p \in Operators : opsRequest'[p].cached <= version
      BY <1>1, SettleAll
        DEF OperationsInv, OperationsTypeOK, ListAges, SheetIsYoungest, Quiet
    <2> QED
      BY <1>1, <1>5, <2>1 DEF OperationsInv, ListAges, SheetIsYoungest
  <1>7. CacheIsYounger'
    <2> SUFFICES ASSUME opsCache # 0, NEW p \in Operators
                 PROVE  shown'[p] <= opsCache
      BY <1>1 DEF CacheIsYounger
    <2>1. CASE shown'[p] = shown[p]
      BY <2>1 DEF OperationsInv, ListAges, CacheIsYounger
    <2>2. CASE shown'[p] # shown[p]
      BY <1>5, <2>2 DEF OperationsInv, OperationsTypeOK, ListAges, KeptIsYounger
    <2> QED BY <2>1, <2>2
  <1>8. Forward
    BY <1>5 DEF OperationsInv, OperationsTypeOK, ListAges, KeptIsYounger, Forward
  <1> QED
    BY <1>1, <1>4, <1>6, <1>7, <1>8, SettleAll DEF OperationsInv, ListAges

LEMMA OperationsStart == OperationsInit => OperationsInv
  <1> SUFFICES ASSUME OperationsInit PROVE OperationsInv
    OBVIOUS
  <1>1. OperationsTypeOK
    BY DEF OperationsInit, OperationsTypeOK, Quiet
  <1>2. OneRead /\ ListAges
    BY DEF OperationsInit, OneRead, ListAges, SheetIsYoungest, CacheIsYounger,
           KeptIsYounger, ReadIsYounger, Waits, Quiet
  <1> QED BY <1>1, <1>2 DEF OperationsInv

LEMMA OperationsStep ==
  OperationsInv /\ [OperationsNext]_opsVars => OperationsInv' /\ Forward
  <1> SUFFICES ASSUME OperationsInv, [OperationsNext]_opsVars
               PROVE  OperationsInv' /\ Forward
    OBVIOUS
  <1>1. CASE OperationsNext
    BY <1>1, SheetKeeps, AskKeeps, AnswerKeeps, DoneKeeps, FailureKeeps
      DEF OperationsNext
  <1>2. CASE UNCHANGED opsVars
    BY <1>2 DEF opsVars, OperationsInv, OperationsTypeOK, OneRead, ListAges,
                SheetIsYoungest, CacheIsYounger, KeptIsYounger, ReadIsYounger,
                Waits, Forward
  <1> QED BY <1>1, <1>2

(* The variables keep their types, and the ages stay in order.             *)
THEOREM OperationsTypeCorrect == OperationsSpec => []OperationsTypeOK
  <1>1. OperationsInv => OperationsTypeOK
    BY DEF OperationsInv
  <1> QED BY <1>1, OperationsStart, OperationsStep, PTL DEF OperationsSpec

(* What an operator sees never goes back to an older sheet: whichever      *)
(* requests share a read, come from the cache or fall back on it when the  *)
(* read fails.                                                             *)
THEOREM ListNeverGoesBack == OperationsSpec => OperationsNeverGoBack
  <1>1. OperationsInv /\ [OperationsNext]_opsVars
        => [\A o \in Operators : shown'[o] >= shown[o]]_opsVars
    BY OperationsStep DEF Forward
  <1> QED BY <1>1, OperationsStart, OperationsStep, PTL
          DEF OperationsSpec, OperationsNeverGoBack

HIDE OperationsAssumption

-----------------------------------------------------------------------------
(* No device is prompted twice for a campaign still tracked, for any       *)
(* campaigns, endpoints and runs. An endpoint is marked only when the run  *)
(* ends: until then that it was prompted is known to the run alone, and no *)
(* other run may choose it. What keeps it true is that one run is under    *)
(* way at a time.                                                          *)
USE PromptAssumption

UnderWay(r) == jobs[r].at \in {"discover", "send"}

OneRun ==
    /\ \A r \in CampaignRuns : UnderWay(r) => /\ jobRunning = "yes"
                                            /\ jobs[r].campaign \in Campaigns
    /\ \A r, s \in CampaignRuns : UnderWay(r) /\ UnderWay(s) => r = s

\* The run under way knows of the prompt to e.
KnownTo(r, c, e) ==
    /\ jobs[r].at = "send" /\ jobs[r].campaign = c /\ jobs[r].forced = "no"
    /\ e \in jobs[r].delivered

\* Who was prompted is marked, or will be when the run ends.
PromptsAreKnown ==
    \A c \in Campaigns, e \in Prompted :
        /\ prompts[c][e] <= 1
        /\ prompts[c][e] # 0 =>
              e \in sentTargets[c] \/ \E r \in CampaignRuns : KnownTo(r, c, e)

\* Whom an unforced run is about to prompt has not been prompted.
TargetsAreNew ==
    \A r \in CampaignRuns, e \in Prompted :
        /\ jobs[r].at = "send" /\ jobs[r].forced = "no" /\ e \in jobs[r].targets
        => prompts[jobs[r].campaign][e] = 0

PromptInv == PromptTypeOK /\ OneRun /\ PromptsAreKnown /\ TargetsAreNew

\* One run is under way, and another cannot begin.
LEMMA OthersRest ==
  ASSUME OneRun, NEW r \in CampaignRuns, UnderWay(r)
  PROVE  \A s \in CampaignRuns \ {r} : jobs[s].at \notin {"discover", "send"}
  BY DEF OneRun, UnderWay

LEMMA StartKeeps ==
  ASSUME PromptInv, NEW r \in CampaignRuns, NEW c \in Campaigns,
         NEW forced \in {"yes", "no"}, StartCampaign(r, c, forced)
  PROVE  PromptInv'
  <1> DEFINE started == [NoRun EXCEPT !.at = "discover", !.campaign = c, !.forced = forced]
  <1>1. /\ jobRunning = "no" /\ jobRunning' = "yes"
        /\ jobs' = [jobs EXCEPT ![r] = started]
        /\ UNCHANGED <<tracked, sentTargets, prompts>>
        /\ \/ runFaults' = runFaults + 1 /\ runFaults < MaxRunFaults
           \/ UNCHANGED runFaults
    BY DEF StartCampaign, RunFault, Busy
  <1>2. /\ started \in [at : {"idle", "discover", "send", "done"},
                    campaign : Campaigns \cup {"none"}, forced : {"yes", "no"},
                    targets : SUBSET Prompted, delivered : SUBSET Prompted]
        /\ started.at = "discover" /\ started.campaign = c
    BY DEF NoRun
  <1> HIDE DEF started
  <1>3. PromptTypeOK'
    BY <1>1, <1>2 DEF PromptInv, PromptTypeOK
  <1>4. /\ jobs'[r] = started
        /\ \A s \in CampaignRuns \ {r} : jobs'[s] = jobs[s]
        /\ \A s \in CampaignRuns : ~UnderWay(s)
    BY <1>1 DEF PromptInv, PromptTypeOK, OneRun
  <1>5. OneRun' /\ PromptsAreKnown' /\ TargetsAreNew'
    BY <1>1, <1>2, <1>4
      DEF PromptInv, OneRun, PromptsAreKnown, TargetsAreNew, KnownTo, UnderWay
  <1> QED BY <1>3, <1>5 DEF PromptInv

\* A run that ends leaves nothing under way.
LEMMA EndRests ==
  ASSUME PromptInv, NEW r \in CampaignRuns, UnderWay(r),
         jobs' = EndRun(r), jobRunning' = "no"
  PROVE  /\ jobs' \in [CampaignRuns ->
                         [at : {"idle", "discover", "send", "done"},
                          campaign : Campaigns \cup {"none"}, forced : {"yes", "no"},
                          targets : SUBSET Prompted, delivered : SUBSET Prompted]]
         /\ \A s \in CampaignRuns : jobs'[s].at \notin {"discover", "send"}
         /\ OneRun' /\ TargetsAreNew'
  <1>1. /\ [NoRun EXCEPT !.at = "done"].at = "done"
        /\ [NoRun EXCEPT !.at = "done"] \in
              [at : {"idle", "discover", "send", "done"},
               campaign : Campaigns \cup {"none"}, forced : {"yes", "no"},
               targets : SUBSET Prompted, delivered : SUBSET Prompted]
    BY DEF NoRun
  <1>2. \A s \in CampaignRuns : jobs'[s].at \notin {"discover", "send"}
    BY <1>1, OthersRest DEF PromptInv, PromptTypeOK, EndRun
  <1> QED
    BY <1>1, <1>2 DEF PromptInv, PromptTypeOK, EndRun, OneRun, TargetsAreNew, UnderWay

\* A campaign that is forgotten loses its marks and its prompts together.
LEMMA TrackKeeps ==
  ASSUME PromptInv, NEW c \in Campaigns, Track(c)
  PROVE  /\ tracked' \in Seq(Campaigns) /\ Len(tracked') <= MaxTracked
         /\ sentTargets' \in [Campaigns -> SUBSET Prompted]
         /\ prompts' \in [Campaigns -> [Prompted -> Nat]]
         /\ \A d \in Campaigns :
               \/ sentTargets'[d] = sentTargets[d] /\ prompts'[d] = prompts[d]
               \/ \A e \in Prompted : prompts'[d][e] = 0
  <1>1. CASE \E i \in 1..Len(tracked) : tracked[i] = c
    BY <1>1 DEF Track, PromptInv, PromptTypeOK
  <1>2. CASE ~\E i \in 1..Len(tracked) : tracked[i] = c
    <2> DEFINE full == Len(tracked) = MaxTracked
               gone == IF full THEN {Head(tracked)} ELSE {}
               kept == IF full THEN Tail(tracked) ELSE tracked
    <2>1. /\ tracked' = Append(kept, c)
          /\ sentTargets' = [d \in Campaigns |->
                IF d \in gone THEN {} ELSE sentTargets[d]]
          /\ prompts' = [d \in Campaigns |->
                IF d \in gone THEN [e \in Prompted |-> 0] ELSE prompts[d]]
      BY <1>2 DEF Track
    <2>2. kept \in Seq(Campaigns) /\ Len(kept) < MaxTracked
      <3>1. CASE full
        BY <3>1 DEF PromptInv, PromptTypeOK
      <3>2. CASE ~full
        BY <3>2 DEF PromptInv, PromptTypeOK
      <3> QED BY <3>1, <3>2
    <2> HIDE DEF gone, kept
    <2>3. tracked' \in Seq(Campaigns) /\ Len(tracked') <= MaxTracked
      BY <2>1, <2>2
    <2> QED BY <2>1, <2>3 DEF PromptInv, PromptTypeOK
  <1> QED BY <1>1, <1>2

LEMMA ChooseKeeps ==
  ASSUME PromptInv, NEW r \in CampaignRuns, NEW found \in SUBSET Prompted,
         ChooseTargets(r, found)
  PROVE  PromptInv'
  <1> DEFINE c == jobs[r].campaign
             targets == IF jobs[r].forced = "yes" THEN found
                        ELSE found \ sentTargets[c]
  <1>1. jobs[r].at = "discover" /\ UnderWay(r) /\ c \in Campaigns /\ UNCHANGED runFaults
    BY DEF ChooseTargets, UnderWay, PromptInv, OneRun
  \* Nobody's prompt is known to a run alone.
  <1>2. \A d \in Campaigns, e \in Prompted :
           /\ prompts[d][e] \in {0, 1}
           /\ prompts[d][e] # 0 => e \in sentTargets[d]
    BY <1>1, OthersRest DEF PromptInv, PromptTypeOK, PromptsAreKnown, KnownTo
  <1>3. CASE /\ jobs' = EndRun(r) /\ jobRunning' = "no"
             /\ UNCHANGED <<tracked, sentTargets, prompts>>
    <2>1. PromptTypeOK'
      BY <1>1, <1>3, EndRests DEF PromptInv, PromptTypeOK
    <2>2. PromptsAreKnown'
      BY <1>2, <1>3 DEF PromptsAreKnown
    <2> QED BY <1>1, <1>3, <2>1, <2>2, EndRests DEF PromptInv
  <1>4. ASSUME Track(c) PROVE PromptsAreKnown'
    <2>1. \A d \in Campaigns, e \in Prompted :
             /\ prompts'[d][e] <= 1
             /\ prompts'[d][e] # 0 => e \in sentTargets'[d]
      <3> SUFFICES ASSUME NEW d \in Campaigns, NEW e \in Prompted
                   PROVE  /\ prompts'[d][e] <= 1
                          /\ prompts'[d][e] # 0 => e \in sentTargets'[d]
        OBVIOUS
      <3>1. \/ sentTargets'[d] = sentTargets[d] /\ prompts'[d] = prompts[d]
            \/ prompts'[d][e] = 0
        BY <1>1, <1>4, TrackKeeps
      <3> QED BY <1>2, <3>1
    <2> QED BY <2>1 DEF PromptsAreKnown
  <1>5. CASE Track(c) /\ jobs' = EndRun(r) /\ jobRunning' = "no"
    <2>1. PromptTypeOK'
      BY <1>1, <1>5, EndRests, TrackKeeps DEF PromptInv, PromptTypeOK
    <2> QED BY <1>1, <1>4, <1>5, <2>1, EndRests DEF PromptInv
  <1>6. CASE /\ Track(c) /\ UNCHANGED jobRunning
             /\ jobs' = [jobs EXCEPT ![r].at = "send", ![r].targets = targets]
    <2>1. targets \in SUBSET Prompted
      OBVIOUS
    <2>2. jobs[r].forced = "no" => targets \cap sentTargets[c] = {}
      OBVIOUS
    <2> HIDE DEF targets
    <2>3. /\ jobs' \in [CampaignRuns ->
                         [at : {"idle", "discover", "send", "done"},
                          campaign : Campaigns \cup {"none"}, forced : {"yes", "no"},
                          targets : SUBSET Prompted, delivered : SUBSET Prompted]]
          /\ jobs'[r].at = "send" /\ jobs'[r].targets = targets
          /\ jobs'[r].campaign = c /\ jobs'[r].forced = jobs[r].forced
          /\ \A s \in CampaignRuns \ {r} : jobs'[s] = jobs[s]
      BY ZenonT(60), <1>6, <2>1 DEF PromptInv, PromptTypeOK
    <2>4. PromptTypeOK'
      BY <1>1, <1>6, <2>3, TrackKeeps DEF PromptInv, PromptTypeOK
    <2>5. OneRun'
      BY <1>1, <1>6, <2>3, OthersRest DEF PromptInv, OneRun, UnderWay
    <2>6. TargetsAreNew'
      <3> SUFFICES ASSUME NEW s \in CampaignRuns, NEW e \in Prompted,
                          jobs'[s].at = "send", jobs'[s].forced = "no",
                          e \in jobs'[s].targets
                   PROVE  prompts'[jobs'[s].campaign][e] = 0
        BY DEF TargetsAreNew
      <3>1. s = r
        BY <1>1, <2>3, OthersRest DEF PromptInv
      <3>2. prompts[c][e] = 0
        BY <1>1, <1>2, <2>2, <2>3, <3>1
      <3> HIDE DEF c
      <3>3. prompts'[c][e] = prompts[c][e] \/ prompts'[c][e] = 0
        BY <1>1, <1>6, TrackKeeps
      <3> QED BY <2>3, <3>1, <3>2, <3>3
    <2> QED BY <1>4, <1>6, <2>4, <2>5, <2>6 DEF PromptInv
  <1> QED BY <1>3, <1>5, <1>6 DEF ChooseTargets

LEMMA PromptKeeps ==
  ASSUME PromptInv, NEW r \in CampaignRuns, NEW e \in Prompted, Prompt(r, e)
  PROVE  PromptInv'
  <1> DEFINE c == jobs[r].campaign
  <1>1. /\ jobs[r].at = "send" /\ UnderWay(r) /\ c \in Campaigns
        /\ e \in jobs[r].targets
        /\ UNCHANGED <<jobRunning, tracked, sentTargets>>
    BY DEF Prompt, UnderWay, PromptInv, OneRun
  <1>2. /\ jobs' \in [CampaignRuns ->
                        [at : {"idle", "discover", "send", "done"},
                         campaign : Campaigns \cup {"none"}, forced : {"yes", "no"},
                         targets : SUBSET Prompted, delivered : SUBSET Prompted]]
        /\ jobs'[r].at = "send" /\ jobs'[r].targets = jobs[r].targets \ {e}
        /\ jobs'[r].campaign = c /\ jobs'[r].forced = jobs[r].forced
        /\ jobs[r].delivered \subseteq jobs'[r].delivered
        /\ \A s \in CampaignRuns \ {r} : jobs'[s] = jobs[s]
    <2>1. CASE jobs' = [jobs EXCEPT ![r].targets = @ \ {e},
                                    ![r].delivered = @ \cup {e}]
      BY <1>1, <2>1 DEF PromptInv, PromptTypeOK
    <2>2. CASE jobs' = [jobs EXCEPT ![r].targets = @ \ {e}]
      BY <1>1, <2>2 DEF PromptInv, PromptTypeOK
    <2> QED BY <2>1, <2>2 DEF Prompt
  <1>3. OneRun'
    BY <1>1, <1>2 DEF PromptInv, OneRun, UnderWay
  <1>4. \A d \in Campaigns, f \in Prompted, s \in CampaignRuns :
           KnownTo(s, d, f) => KnownTo(s, d, f)'
    BY <1>1, <1>2 DEF KnownTo
  <1>5. \A s \in CampaignRuns \ {r} : jobs'[s].at # "send"
    BY <1>1, <1>2, OthersRest DEF PromptInv
  \* The first prompt of this device by an unforced run.
  <1>6. CASE /\ jobs[r].forced = "no" /\ UNCHANGED runFaults
             /\ e \in jobs'[r].delivered
             /\ prompts' = [prompts EXCEPT ![c][e] = @ + 1]
    <2>1. prompts[c][e] = 0
      BY <1>1, <1>6 DEF PromptInv, TargetsAreNew
    <2>2. /\ prompts' \in [Campaigns -> [Prompted -> Nat]]
          /\ prompts'[c][e] = 1
          /\ \A d \in Campaigns, f \in Prompted :
                d # c \/ f # e => prompts'[d][f] = prompts[d][f]
      BY <1>1, <1>6, <2>1 DEF PromptInv, PromptTypeOK
    <2>3. PromptTypeOK'
      BY <1>1, <1>2, <1>6, <2>2 DEF PromptInv, PromptTypeOK
    <2>4. PromptsAreKnown'
      <3> SUFFICES ASSUME NEW d \in Campaigns, NEW f \in Prompted
                   PROVE  /\ prompts'[d][f] <= 1
                          /\ prompts'[d][f] # 0 =>
                                f \in sentTargets'[d]
                                \/ \E s \in CampaignRuns : KnownTo(s, d, f)'
        BY DEF PromptsAreKnown
      <3>1. CASE d = c /\ f = e
        <4>1. KnownTo(r, d, f)'
          BY <1>2, <1>6, <3>1 DEF KnownTo
        <4>2. prompts'[d][f] = 1
          BY <2>2, <3>1
        <4> QED BY <4>1, <4>2
      <3>2. CASE d # c \/ f # e
        BY <1>1, <1>4, <2>2, <3>2 DEF PromptInv, PromptsAreKnown
      <3> QED BY <3>1, <3>2
    <2>5. TargetsAreNew'
      BY <1>1, <1>2, <1>5, <2>2 DEF PromptInv, TargetsAreNew
    <2> QED BY <1>3, <2>3, <2>4, <2>5 DEF PromptInv
  \* It is not counted, or fails.
  <1>7. CASE /\ UNCHANGED prompts
             /\ \/ runFaults' = runFaults + 1 /\ runFaults < MaxRunFaults
                \/ UNCHANGED runFaults
    <2>1. PromptTypeOK'
      BY <1>1, <1>2, <1>7 DEF PromptInv, PromptTypeOK
    <2>2. PromptsAreKnown'
      BY <1>1, <1>4, <1>7 DEF PromptInv, PromptsAreKnown
    <2>3. TargetsAreNew'
      BY <1>1, <1>2, <1>5, <1>7 DEF PromptInv, TargetsAreNew
    <2> QED BY <1>3, <2>1, <2>2, <2>3 DEF PromptInv
  <1>8. \/ /\ jobs[r].forced = "no" /\ UNCHANGED runFaults
           /\ e \in jobs'[r].delivered
           /\ prompts' = [prompts EXCEPT ![c][e] = @ + 1]
        \/ /\ UNCHANGED prompts
           /\ \/ runFaults' = runFaults + 1 /\ runFaults < MaxRunFaults
              \/ UNCHANGED runFaults
    <2>1. jobs[r].forced \in {"yes", "no"}
      BY DEF PromptInv, PromptTypeOK
    <2> QED BY <2>1 DEF Prompt, RunFault, PromptInv, PromptTypeOK
  <1> QED BY <1>6, <1>7, <1>8

\* The prompts of the run that ends are marked.
LEMMA EndKeeps ==
  ASSUME PromptInv, NEW r \in CampaignRuns, EndCampaign(r)
  PROVE  PromptInv'
  <1> DEFINE c == jobs[r].campaign
  <1>1. /\ jobs[r].at = "send" /\ UnderWay(r) /\ c \in Campaigns
        /\ sentTargets' = [sentTargets EXCEPT ![c] = @ \cup jobs[r].delivered]
        /\ jobs' = EndRun(r) /\ jobRunning' = "no"
        /\ UNCHANGED <<tracked, prompts, runFaults>>
    BY DEF EndCampaign, UnderWay, PromptInv, OneRun
  <1>2. PromptTypeOK'
    BY <1>1, EndRests DEF PromptInv, PromptTypeOK
  <1>3. /\ jobs[r].delivered \subseteq sentTargets'[c]
        /\ \A d \in Campaigns : sentTargets[d] \subseteq sentTargets'[d]
    BY <1>1 DEF PromptInv, PromptTypeOK
  <1>4. \A d \in Campaigns, e \in Prompted, s \in CampaignRuns :
           KnownTo(s, d, e) => e \in sentTargets'[d]
    BY <1>1, <1>3, OthersRest DEF PromptInv, KnownTo
  <1>5. PromptsAreKnown'
    BY <1>1, <1>3, <1>4 DEF PromptInv, PromptsAreKnown
  <1> QED BY <1>1, <1>2, <1>5, EndRests DEF PromptInv

LEMMA RestartKeeps ==
  ASSUME PromptInv, RestartCampaigns
  PROVE  PromptInv'
  <1>1. \A r \in CampaignRuns :
           \/ jobs'[r] = [NoRun EXCEPT !.at = "done"]
           \/ jobs'[r] = jobs[r] /\ jobs[r].at = "idle"
    BY DEF RestartCampaigns, NoRun
  <1>2. \A r \in CampaignRuns : jobs'[r].at \notin {"discover", "send"}
    BY <1>1 DEF NoRun
  <1>3. PromptTypeOK'
    <2> DEFINE Job == [at : {"idle", "discover", "send", "done"},
                       campaign : Campaigns \cup {"none"}, forced : {"yes", "no"},
                       targets : SUBSET Prompted, delivered : SUBSET Prompted]
    <2>1. [NoRun EXCEPT !.at = "done"] \in Job
      BY DEF NoRun
    <2>2. jobs \in [CampaignRuns -> Job]
      BY DEF PromptInv, PromptTypeOK
    <2> HIDE DEF Job
    <2>3. jobs' \in [CampaignRuns -> Job]
      BY <2>1, <2>2 DEF RestartCampaigns
    <2> USE DEF Job
    <2>4. tracked' \in Seq(Campaigns) /\ Len(tracked') <= MaxTracked
      BY DEF RestartCampaigns
    <2>5. runFaults' \in 0..MaxRunFaults
      BY DEF RestartCampaigns, RunFault, PromptInv, PromptTypeOK
    <2>6. /\ prompts' \in [Campaigns -> [Prompted -> Nat]]
          /\ sentTargets' \in [Campaigns -> SUBSET Prompted]
          /\ jobRunning' \in {"yes", "no"}
      BY DEF RestartCampaigns
    <2> QED BY <2>3, <2>4, <2>5, <2>6 DEF PromptTypeOK
  <1>4. OneRun' /\ PromptsAreKnown' /\ TargetsAreNew'
    BY <1>2 DEF RestartCampaigns, OneRun, PromptsAreKnown, TargetsAreNew, UnderWay
  <1> QED BY <1>3, <1>4 DEF PromptInv

LEMMA PromptStart == PromptInit => PromptInv
  <1> SUFFICES ASSUME PromptInit PROVE PromptInv
    OBVIOUS
  <1>1. PromptTypeOK
    BY DEF PromptInit, PromptTypeOK, NoRun
  <1>2. OneRun /\ PromptsAreKnown /\ TargetsAreNew
    BY DEF PromptInit, OneRun, PromptsAreKnown, TargetsAreNew, UnderWay, NoRun
  <1> QED BY <1>1, <1>2 DEF PromptInv

LEMMA PromptStep == PromptInv /\ [PromptNext]_promptVars => PromptInv'
  <1> SUFFICES ASSUME PromptInv, [PromptNext]_promptVars PROVE PromptInv'
    OBVIOUS
  <1>1. CASE PromptNext
    BY <1>1, RestartKeeps, EndKeeps, ChooseKeeps, PromptKeeps, StartKeeps
      DEF PromptNext
  <1>2. CASE UNCHANGED promptVars
    BY <1>2 DEF promptVars, PromptInv, PromptTypeOK, OneRun, PromptsAreKnown,
                TargetsAreNew, KnownTo, UnderWay
  <1> QED BY <1>1, <1>2

(* The variables keep their types.                                         *)
THEOREM PromptTypeCorrect == PromptSpec => []PromptTypeOK
  <1>1. PromptInv => PromptTypeOK
    BY DEF PromptInv
  <1> QED BY <1>1, PromptStart, PromptStep, PTL DEF PromptSpec

(* As long as a campaign is tracked, no device is shown its prompt twice   *)
(* by calls that do not force it, whatever the bounds and the faults.      *)
THEOREM NoSecondPrompt == PromptSpec => []PromptedOnce
  <1>1. PromptInv => PromptedOnce
    BY DEF PromptInv, PromptsAreKnown, PromptedOnce
  <1> QED BY <1>1, PromptStart, PromptStep, PTL DEF PromptSpec

HIDE PromptAssumption

-----------------------------------------------------------------------------
(* Reminders. One run at a time is between its start and its end; what it  *)
(* is about to announce was not announced, what was announced is marked,   *)
(* or its mark is in a store that the load may still read.                 *)
USE RemindersAssumption

\* One run at a time is between its start and its end; only such a run has
\* rides left to announce.
OneJobRuns ==
    /\ \A i, j \in RideJobs :
          rideJob[i].at # "idle" /\ rideJob[j].at # "idle" => i = j
    /\ \A j \in RideJobs : rideJob[j].at \in {"idle", "load"} => rideJob[j].due = {}

\* What a run is about to announce was not announced, or its mark is lost.
DueIsNew ==
    \A j \in RideJobs : \A k \in rideJob[j].due : announced[k] = 0 \/ k \in forgotten

\* What was announced is marked, here or where the load may read it, or its
\* mark is lost.
AnnouncedIsMarked ==
    \A k \in Rides : announced[k] > 0 =>
        \/ k \in sentMarks \cup forgotten
        \/ stateFrom = "loading" /\ k \in Kept

RemindersInv ==
    RemindersTypeOK /\ OneJobRuns /\ DueIsNew /\ AnnouncedIsMarked /\ RemindedOnce

(* Type correctness.                                                       *)
LEMMA RemindersTypeCorrect == RemindersSpec => []RemindersTypeOK
  <1>1. RemindersInit => RemindersTypeOK
    BY DEF RemindersInit, RemindersTypeOK, NoRideJob, StateFrom
  <1>2. RemindersTypeOK /\ [RemindersNext]_rideVars => RemindersTypeOK'
    <2> SUFFICES ASSUME RemindersTypeOK, [RemindersNext]_rideVars PROVE RemindersTypeOK'
      OBVIOUS
    <2> USE DEF RemindersTypeOK, sheetOfRides, orderCache, marksVars
    <2>1. CASE CacheAges
      BY <2>1 DEF CacheAges
    <2>2. CASE RemindersRestart
      BY <2>2 DEF RemindersRestart, RideFault, NoRideJob, Forget, StateFrom
    <2>3. ASSUME NEW k \in Rides, RideCancelled(k) \/ HourPasses(k) PROVE RemindersTypeOK'
      BY <2>3 DEF RideCancelled, HourPasses
    <2>4. ASSUME NEW j \in RideJobs, StartJob(j) PROVE RemindersTypeOK'
      BY <2>4 DEF StartJob, NoRideJob
    <2>5. ASSUME NEW j \in RideJobs, LoadOrders(j) PROVE RemindersTypeOK'
      <3>1. /\ rideFaults' \in 0..MaxRideFaults
            /\ rides' \subseteq Rides /\ ridesAge' \in {"none", "fresh", "old"}
            /\ UNCHANGED <<ride, hour, sentMarks, stateFrom, markStore, markSaves, announced>>
        BY <2>5 DEF LoadOrders, Refreshed, ActiveRides, RideFault
      <3>2. \/ \E orders \in SUBSET Rides, source \in {"cache", "remote", "stale"} :
                  Decided(j, orders, source)
            \/ rideJob' = [rideJob EXCEPT ![j] = NoRideJob] /\ UNCHANGED forgotten
        BY <2>5 DEF LoadOrders, ActiveRides
      <3>3. ASSUME NEW orders \in SUBSET Rides, NEW source, Decided(j, orders, source)
            PROVE  /\ forgotten' \subseteq Rides
                   /\ rideJob' \in [RideJobs -> [at : {"idle", "load", "check", "send"},
                                                 tick : SUBSET Rides, due : SUBSET Rides]]
        <4>1. DueOf(j, orders) \in SUBSET Rides
          BY <3>3 DEF DueOf
        <4>2. Unseen(DueOf(j, orders)) \subseteq Rides
          BY <4>1 DEF Unseen
        <4>3. forgotten' \subseteq Rides
          BY <3>3, <4>2 DEF Decided, Forget
        <4>4. PICK due \in SUBSET Rides, at \in {"send", "check"} :
                 rideJob' = [rideJob EXCEPT ![j].due = due, ![j].at = at]
          BY <3>3, <4>1 DEF Decided
        <4> QED BY ONLY <4>3, <4>4, RemindersTypeOK, ZenonT(60) DEF RemindersTypeOK
      <3>4. ASSUME rideJob' = [rideJob EXCEPT ![j] = NoRideJob], UNCHANGED forgotten
            PROVE  /\ forgotten' \subseteq Rides
                   /\ rideJob' \in [RideJobs -> [at : {"idle", "load", "check", "send"},
                                                 tick : SUBSET Rides, due : SUBSET Rides]]
        <4>1. NoRideJob \in [at : {"idle", "load", "check", "send"},
                             tick : SUBSET Rides, due : SUBSET Rides]
          BY DEF NoRideJob
        <4> QED BY <3>4, <4>1
      <3> QED BY ONLY <3>1, <3>2, <3>3, <3>4, RemindersTypeOK DEF RemindersTypeOK
    <2>6. ASSUME NEW j \in RideJobs, CheckOrders(j) PROVE RemindersTypeOK'
      BY <2>6 DEF CheckOrders, NoRideJob, Refreshed, ActiveRides, RideFault
    <2>7. ASSUME NEW j \in RideJobs, EndJob(j) PROVE RemindersTypeOK'
      BY <2>7 DEF EndJob, NoRideJob
    <2>8. ASSUME NEW j \in RideJobs, NEW k \in Rides, Announce(j, k) PROVE RemindersTypeOK'
      <3>1. /\ sentMarks' \subseteq Rides /\ forgotten' \subseteq Rides
            /\ rideFaults' \in 0..MaxRideFaults
            /\ UNCHANGED <<ride, hour, rides, ridesAge, stateFrom, markStore, markSaves>>
        BY <2>8 DEF Announce, MarkSent, Forget, RideFault
      <3>2. PICK due \in SUBSET Rides : rideJob' = [rideJob EXCEPT ![j].due = due]
        BY <2>8 DEF Announce
      <3>3. rideJob' \in [RideJobs -> [at : {"idle", "load", "check", "send"},
                                       tick : SUBSET Rides, due : SUBSET Rides]]
        BY ONLY <3>2, RemindersTypeOK DEF RemindersTypeOK
      <3>4. announced' \in [Rides -> 0..MaxAnnounced]
        BY <2>8 DEF Announce, Arrivals
      <3> QED BY <3>1, <3>3, <3>4
    <2>9. CASE SaveBegins
      BY <2>9 DEF SaveBegins
    <2>10. ASSUME NEW m \in markSaves, SaveIsLost(m) PROVE RemindersTypeOK'
      BY <2>10 DEF SaveIsLost, RideFault
    <2>11. ASSUME NEW m \in markSaves, NEW s \in Stores, SaveEnds(m, s) PROVE RemindersTypeOK'
      <3>1. Kept \subseteq Rides
        BY DEF Kept
      <3> QED BY <2>11, <3>1 DEF SaveEnds, RideFault, Forget
    <2>12. ASSUME NEW s \in Stores, LoadMarks(s) PROVE RemindersTypeOK'
      BY <2>12 DEF LoadMarks, RideFault, Forget, Kept, LoadedFrom, StateFrom
    <2>13. CASE LoadFindsNothing
      BY <2>13 DEF LoadFindsNothing, RideFault, Forget, Kept, StateFrom
    <2>14. CASE UNCHANGED rideVars
      BY <2>14 DEF rideVars
    <2> QED
      BY <2>1, <2>2, <2>3, <2>4, <2>5, <2>6, <2>7, <2>8, <2>9, <2>10, <2>11, <2>12, <2>13,
         <2>14 DEF RemindersNext
  <1> QED BY <1>1, <1>2, PTL DEF RemindersSpec

\* A step that touches neither the marks nor the announcements leaves what was
\* announced as it was marked.
LEMMA RemindersAside ==
    ASSUME RemindersInv, UNCHANGED <<marksVars, announced>>, forgotten \subseteq forgotten'
    PROVE  AnnouncedIsMarked' /\ RemindedOnce'
  BY DEF RemindersInv, marksVars, AnnouncedIsMarked, RemindedOnce, Kept

\* A step that moves no run and announces nothing leaves the runs as they were.
LEMMA RunsAside ==
    ASSUME RemindersInv, UNCHANGED <<rideJob, announced>>, forgotten \subseteq forgotten'
    PROVE  OneJobRuns' /\ DueIsNew' /\ RemindedOnce'
  BY DEF RemindersInv, OneJobRuns, DueIsNew, RemindedOnce

\* A run decides: what is due was not announced, or its mark is lost.
LEMMA RunDecides ==
    ASSUME RemindersInv, NEW j \in RideJobs, rideJob[j].at = "load",
           NEW orders \in SUBSET Rides, NEW source, Decided(j, orders, source)
    PROVE  /\ forgotten \subseteq forgotten'
           /\ rideJob'[j].due = DueOf(j, orders)
           /\ rideJob'[j].at \in {"send", "check"}
           /\ \A i \in RideJobs \ {j} : rideJob'[i] = rideJob[i]
           /\ \A k \in rideJob'[j].due : announced[k] = 0 \/ k \in forgotten'
  <1>1. /\ rideJob'[j].due = DueOf(j, orders)
        /\ rideJob'[j].at \in {"send", "check"}
        /\ \A i \in RideJobs \ {j} : rideJob'[i] = rideJob[i]
    BY DEF RemindersInv, RemindersTypeOK, Decided
  <1>2. forgotten' = forgotten \cup Unseen(DueOf(j, orders))
    BY DEF Decided, Forget
  <1>3. ASSUME NEW k \in DueOf(j, orders), announced[k] # 0 PROVE k \in forgotten'
    <2>1. k \in Rides /\ k \notin sentMarks /\ announced[k] > 0
      BY <1>3 DEF DueOf, RemindersInv, RemindersTypeOK
    <2> QED BY <1>2, <1>3, <2>1 DEF RemindersInv, AnnouncedIsMarked, Unseen
  <1> QED BY <1>1, <1>2, <1>3

(* A ride is announced twice only when a run decided without its mark,     *)
(* because the push was not answered, or the mark was lost or not yet read *)
(* over a restart (runShuttleReminderJob, loadState, persistState), for    *)
(* any rides, jobs, saves and number of restarts.                          *)
THEOREM RemindedOnceInvariant == RemindersSpec => []RemindedOnce
  <1>1. RemindersInit => RemindersInv
    BY DEF RemindersInit, RemindersInv, RemindersTypeOK, NoRideJob, OneJobRuns, StateFrom,
           DueIsNew, AnnouncedIsMarked, RemindedOnce
  <1>2. RemindersInv /\ RemindersTypeOK' /\ [RemindersNext]_rideVars => RemindersInv'
    <2> SUFFICES ASSUME RemindersInv, RemindersTypeOK', [RemindersNext]_rideVars
                 PROVE  OneJobRuns' /\ DueIsNew' /\ AnnouncedIsMarked' /\ RemindedOnce'
      BY DEF RemindersInv
    <2>0. /\ OneJobRuns /\ DueIsNew /\ AnnouncedIsMarked /\ RemindedOnce
          /\ rideJob \in [RideJobs -> [at : {"idle", "load", "check", "send"},
                                       tick : SUBSET Rides, due : SUBSET Rides]]
          /\ announced \in [Rides -> Nat] /\ announced' \in [Rides -> Nat]
      BY DEF RemindersInv, RemindersTypeOK
    <2>1. CASE CacheAges \/ \E k \in Rides : RideCancelled(k) \/ HourPasses(k)
      BY <2>1, RemindersAside, RunsAside DEF CacheAges, RideCancelled, HourPasses
    <2>2. CASE RemindersRestart
      <3>1. /\ sentMarks' = {} /\ UNCHANGED <<markStore, announced>> /\ stateFrom' = "loading"
            /\ forgotten' = forgotten \cup (sentMarks \ Kept)
            /\ rideJob' = [j \in RideJobs |-> NoRideJob]
        BY <2>2 DEF RemindersRestart, Forget
      <3>2. OneJobRuns' /\ DueIsNew' /\ RemindedOnce'
        BY <2>0, <3>1 DEF NoRideJob, OneJobRuns, DueIsNew, RemindedOnce
      <3>3. Kept' = Kept
        BY <3>1 DEF Kept
      <3>4. AnnouncedIsMarked'
        BY <2>0, <3>1, <3>3 DEF AnnouncedIsMarked
      <3> QED BY <3>2, <3>4
    <2>3. ASSUME NEW j \in RideJobs, StartJob(j) PROVE OneJobRuns' /\ DueIsNew'
                                                       /\ AnnouncedIsMarked' /\ RemindedOnce'
      <3>1. /\ UNCHANGED <<marksVars, announced, forgotten>>
            /\ rideJob'[j].due = {} /\ rideJob'[j].at = "load"
            /\ \A i \in RideJobs \ {j} : rideJob'[i] = rideJob[i] /\ rideJob[i].at = "idle"
        BY <2>0, <2>3 DEF StartJob, NoRideJob, Running
      <3>2. OneJobRuns' /\ DueIsNew'
        BY <2>0, <3>1 DEF OneJobRuns, DueIsNew
      <3> QED BY <3>1, <3>2, RemindersAside
    <2>4. ASSUME NEW j \in RideJobs, LoadOrders(j) PROVE OneJobRuns' /\ DueIsNew'
                                                         /\ AnnouncedIsMarked' /\ RemindedOnce'
      <3>1. /\ rideJob[j].at = "load" /\ UNCHANGED <<marksVars, announced>>
            /\ \/ \E orders \in SUBSET Rides, source \in {"cache", "remote", "stale"} :
                     Decided(j, orders, source)
               \/ rideJob' = [rideJob EXCEPT ![j] = NoRideJob] /\ UNCHANGED forgotten
        BY <2>4 DEF LoadOrders, ActiveRides, RemindersInv, RemindersTypeOK
      <3>2. /\ forgotten \subseteq forgotten'
            /\ \A k \in rideJob'[j].due : announced[k] = 0 \/ k \in forgotten'
            /\ rideJob'[j].at \in {"send", "check"} \/ rideJob'[j].due = {}
            /\ \A i \in RideJobs \ {j} : rideJob'[i] = rideJob[i]
        <4>1. CASE rideJob' = [rideJob EXCEPT ![j] = NoRideJob] /\ UNCHANGED forgotten
          BY <2>0, <4>1 DEF NoRideJob
        <4> QED BY <3>1, <4>1, RunDecides
      <3>3. OneJobRuns' /\ DueIsNew'
        BY <2>0, <3>1, <3>2 DEF OneJobRuns, DueIsNew
      <3> QED BY <3>1, <3>2, <3>3, RemindersAside
    <2>5. ASSUME NEW j \in RideJobs, CheckOrders(j) \/ EndJob(j)
          PROVE  OneJobRuns' /\ DueIsNew' /\ AnnouncedIsMarked' /\ RemindedOnce'
      <3>1. /\ rideJob[j].at # "idle"
            /\ UNCHANGED <<marksVars, announced, forgotten>>
        BY <2>5 DEF CheckOrders, EndJob
      <3>2. /\ rideJob'[j].due \subseteq rideJob[j].due
            /\ rideJob'[j].at = "send" \/ rideJob'[j].due = {}
            /\ \A i \in RideJobs \ {j} : rideJob'[i] = rideJob[i]
        BY <2>0, <2>5 DEF CheckOrders, EndJob, NoRideJob
      <3>3. OneJobRuns' /\ DueIsNew'
        BY <2>0, <3>1, <3>2 DEF OneJobRuns, DueIsNew
      <3> QED BY <3>1, <3>3, RemindersAside
    <2>6. ASSUME NEW j \in RideJobs, NEW k \in Rides, Announce(j, k)
          PROVE  OneJobRuns' /\ DueIsNew' /\ AnnouncedIsMarked' /\ RemindedOnce'
      <3>1. /\ rideJob[j].at = "send"
            /\ announced[k] = 0 \/ k \in forgotten
            /\ forgotten \subseteq forgotten' /\ sentMarks \subseteq sentMarks'
            /\ UNCHANGED <<stateFrom, markStore>>
        BY <2>0, <2>6 DEF Announce, MarkSent, Forget, DueIsNew
      <3>2. /\ rideJob[j].at = "send" /\ rideJob'[j].at = "send"
            /\ rideJob'[j].due \subseteq rideJob[j].due \ {k}
            /\ \A i \in RideJobs \ {j} : rideJob'[i] = rideJob[i]
        BY <2>0, <2>6 DEF Announce
      <3>3. /\ \A l \in Rides \ {k} : announced'[l] = announced[l]
            /\ \/ announced'[k] = announced[k]
               \/ announced'[k] = announced[k] + 1 /\ k \in sentMarks'
               \/ k \in forgotten'
        BY <2>0, <2>6 DEF Announce, MarkSent, Arrivals, Forget
      <3>4. OneJobRuns' /\ DueIsNew'
        BY <2>0, <3>1, <3>2, <3>3 DEF OneJobRuns, DueIsNew
      <3>5. RemindedOnce'
        BY <2>0, <3>1, <3>3 DEF RemindedOnce
      <3>6. Kept' = Kept
        BY <3>1 DEF Kept
      <3>7. AnnouncedIsMarked'
        BY <2>0, <3>1, <3>3, <3>6 DEF AnnouncedIsMarked
      <3> QED BY <3>4, <3>5, <3>7
    <2>7. CASE SaveBegins \/ \E m \in markSaves : SaveIsLost(m)
      <3>1. UNCHANGED <<rideJob, announced, forgotten, sentMarks, stateFrom, markStore>>
        BY <2>7 DEF SaveBegins, SaveIsLost
      <3>2. AnnouncedIsMarked'
        BY <2>0, <3>1 DEF AnnouncedIsMarked, Kept
      <3> QED BY <3>1, <3>2, RunsAside
    <2>8. ASSUME NEW m \in markSaves, NEW s \in Stores, SaveEnds(m, s)
          PROVE  OneJobRuns' /\ DueIsNew' /\ AnnouncedIsMarked' /\ RemindedOnce'
      <3>1. /\ UNCHANGED <<rideJob, announced, sentMarks, stateFrom>>
            /\ forgotten' = forgotten \cup ((Kept \ Kept') \ sentMarks)
        BY <2>8 DEF SaveEnds, Forget
      <3>2. AnnouncedIsMarked'
        BY <2>0, <3>1 DEF AnnouncedIsMarked
      <3> QED BY <3>1, <3>2, RunsAside
    <2>9. ASSUME NEW s \in Stores, LoadMarks(s)
          PROVE  OneJobRuns' /\ DueIsNew' /\ AnnouncedIsMarked' /\ RemindedOnce'
      <3>1. /\ UNCHANGED <<rideJob, announced>> /\ sentMarks' = markStore[s]
            /\ forgotten' = forgotten \cup ((Kept \cup sentMarks) \ markStore[s])
        BY <2>9 DEF LoadMarks, Forget
      <3>2. AnnouncedIsMarked'
        BY <2>0, <3>1 DEF AnnouncedIsMarked
      <3> QED BY <3>1, <3>2, RunsAside
    <2>10. CASE LoadFindsNothing
      <3>1. /\ UNCHANGED <<rideJob, announced, sentMarks>>
            /\ forgotten' = forgotten \cup (Kept \ sentMarks)
        BY <2>10 DEF LoadFindsNothing, Forget
      <3>2. AnnouncedIsMarked'
        BY <2>0, <3>1 DEF AnnouncedIsMarked
      <3> QED BY <3>1, <3>2, RunsAside
    <2>11. CASE UNCHANGED rideVars
      BY <2>11, RemindersAside, RunsAside DEF rideVars, marksVars
    <2> QED
      BY <2>1, <2>2, <2>3, <2>4, <2>5, <2>6, <2>7, <2>8, <2>9, <2>10, <2>11
         DEF RemindersNext
  <1>3. RemindersInv => RemindedOnce
    BY DEF RemindersInv
  <1> QED BY <1>1, <1>2, <1>3, RemindersTypeCorrect, PTL DEF RemindersSpec

HIDE RemindersAssumption

-----------------------------------------------------------------------------
(* Groups. Of two records the younger is kept; what this process has under *)
(* way, and what its load has read, is within its reach.                   *)
USE GroupsAssumption

(* The later source wins only when it is no older                          *)
(* (hydrateGroupsFromLocalDb, hydrateGroupsFromMysql).                     *)
LEMMA MergedIsYoungest ==
  ASSUME NEW old \in GroupRecords, NEW new \in GroupRecords
  PROVE  Merged(old, new) \in GroupRecords /\ Merged(old, new).at >= old.at
         /\ Merged(old, new).at >= new.at
  BY DEF Merged, Newer, GroupRecords, NoGroup

(* What upsertGroup writes is no older than what it found.                 *)
LEMMA UpsertedIsYounger ==
  ASSUME GroupsTypeOK, NEW p \in GroupPayloads
  PROVE  Upserted(p) \in GroupRecords /\ Upserted(p).at >= chatGroup.at
  BY DEF GroupsTypeOK, GroupRecords, Upserted, AdminsOf, Later

\* An age this process knows of: no later than its record, or passed over.
Reached(at) == at <= chatGroup.at \/ at <= forgone

\* What the writes, the saves and the load of this process have yet to write.
PendingReached ==
    /\ \A w \in GroupWrites : Reached(groupWrite[w].at)
    /\ \A w \in groupSaves : Reached(w.group.at)
    /\ Reached(groupSeed.at)

\* What the load has read or passed over.
LoadedReached ==
    /\ groupsLoad # "state" => \A s \in Stores : Reached(savedGroup[s].at)
    /\ groupsLoad \notin {"state", "local"} => Reached(localGroup.at)
    /\ groupsLoad = "done" => Reached(row.at)

GroupsInv == GroupsTypeOK /\ PendingReached /\ LoadedReached

(* What this process knew of it still does when its record and what it     *)
(* passed over are no older.                                               *)
LEMMA ReachedStays ==
  ASSUME GroupsTypeOK, GroupsTypeOK',
         chatGroup'.at >= chatGroup.at \/ chatGroup.at <= forgone', forgone' >= forgone
  PROVE  \A at \in Nat : Reached(at) => Reached(at)'
  BY DEF GroupsTypeOK, GroupRecords, Reached

(* The ages of the model are naturals.                                     *)
LEMMA AgesAreNaturals ==
  ASSUME GroupsTypeOK
  PROVE  /\ \A s \in Stores : savedGroup[s] \in GroupRecords /\ savedGroup[s].at \in Nat
         /\ \A w \in GroupWrites : groupWrite[w] \in GroupRecords /\ groupWrite[w].at \in Nat
         /\ \A w \in groupSaves : w.group \in GroupRecords /\ w.group.at \in Nat
         /\ {chatGroup.at, localGroup.at, row.at, groupSeed.at, forgone} \subseteq 0..MaxStamp
         /\ \A s \in Stores : savedGroup[s].at \in 0..MaxStamp
  BY DEF GroupsTypeOK, GroupRecords

(* An update is taken, or a backup begins: a write of the record as it is  *)
(* now goes out.                                                           *)
LEMMA WriteKeeps ==
  ASSUME GroupsInv, NEW taken \in GroupRecords, WriteBegins(taken), CountUpdate,
         chatGroup' = taken, taken.at >= chatGroup.at,
         UNCHANGED <<groupStores, loadOfGroups, groupSaves, groupFaults>>
  PROVE  GroupsInv'
  <1>1. PICK w \in GroupWrites : groupWrite' = [groupWrite EXCEPT ![w] = taken]
    BY DEF WriteBegins
  <1>2. GroupsTypeOK'
    BY <1>1 DEF GroupsInv, GroupsTypeOK, groupStores, loadOfGroups, CountUpdate
  <1>3. \A at \in Nat : Reached(at) => Reached(at)'
    BY <1>2, ReachedStays DEF GroupsInv, loadOfGroups, GroupsTypeOK, GroupRecords
  <1>4. Reached(taken.at)'
    BY <1>2 DEF Reached, GroupsTypeOK, GroupRecords
  <1>5. PendingReached'
    <2>1. ASSUME NEW v \in GroupWrites PROVE Reached(groupWrite[v].at)'
      <3>1. groupWrite'[v] \in {groupWrite[v], taken}
        BY <1>1 DEF GroupsInv, GroupsTypeOK
      <3> QED BY <1>3, <1>4, <3>1, AgesAreNaturals DEF GroupsInv, PendingReached, Reached
    <2>2. (\A v \in groupSaves : Reached(v.group.at))' /\ Reached(groupSeed.at)'
      BY <1>3, AgesAreNaturals DEF GroupsInv, PendingReached, loadOfGroups, Reached
    <2> QED BY <2>1, <2>2 DEF PendingReached
  <1>6. LoadedReached'
    BY <1>3, AgesAreNaturals DEF GroupsInv, LoadedReached, loadOfGroups, groupStores, Reached
  <1> QED BY <1>2, <1>5, <1>6 DEF GroupsInv

(* A save goes on: it writes what it took, or takes the record anew.       *)
LEMMA SaveKeeps ==
  ASSUME GroupsInv, NEW w \in groupSaves, NEW to \in SUBSET {"mysql", "older", "local"},
         SaveGoesOn(w, to), UNCHANGED <<chatGroup, row, loadOfGroups, groupWrite, groupUpdates>>,
         groupFaults' \in 0..MaxGroupFaults,
         \/ UNCHANGED <<savedGroup, localGroup>>
         \/ \E s \in Stores : savedGroup' = [savedGroup EXCEPT ![s] = w.group] /\ UNCHANGED localGroup
         \/ localGroup' = w.group /\ UNCHANGED savedGroup
  PROVE  GroupsInv'
  <1>1. w.group \in GroupRecords /\ Reached(w.group.at)
    BY DEF GroupsInv, GroupsTypeOK, PendingReached
  <1>2. /\ savedGroup' \in [Stores -> GroupRecords] /\ localGroup' \in GroupRecords
        /\ \A s \in Stores : savedGroup'[s] \in {savedGroup[s], w.group}
        /\ localGroup' \in {localGroup, w.group}
    BY <1>1 DEF GroupsInv, GroupsTypeOK
  <1>3. \A v \in groupSaves' : v \in groupSaves \/ v \in [group : {chatGroup}, to : to]
    BY DEF SaveGoesOn
  <1>4. GroupsTypeOK'
    BY <1>2, <1>3 DEF GroupsInv, GroupsTypeOK, loadOfGroups
  <1>5. PendingReached'
    BY <1>3 DEF GroupsInv, PendingReached, Reached, loadOfGroups, GroupsTypeOK, GroupRecords
  <1>6. LoadedReached'
    BY <1>1, <1>2 DEF GroupsInv, LoadedReached, Reached, loadOfGroups
  <1> QED BY <1>4, <1>5, <1>6 DEF GroupsInv

(* A step of the load, or a write that lands: the record grows no older,   *)
(* or is passed over, and what is passed over is remembered.               *)
LEMMA LoadKeeps ==
  ASSUME GroupsInv, UNCHANGED <<savedGroup, localGroup, groupSaves, groupUpdates>>,
         chatGroup' \in GroupRecords, forgone' \in 0..MaxStamp, forgone' >= forgone,
         chatGroup'.at >= chatGroup.at \/ chatGroup.at <= forgone',
         row' \in GroupRecords, groupSeed' \in GroupRecords,
         groupsFrom' \in StateFrom, groupFaults' \in 0..MaxGroupFaults,
         groupsLoad' \in {"state", "local", "rows", "read", "done"},
         groupWrite' \in [GroupWrites -> GroupRecords],
         \A w \in GroupWrites : groupWrite'[w] \in {groupWrite[w], NoGroup},
         groupSeed' \in {groupSeed, NoGroup, chatGroup'},
         groupsLoad' # "state" =>
            groupsLoad # "state" \/ \A s \in Stores : Reached(savedGroup[s].at)',
         groupsLoad' \notin {"state", "local"} =>
            groupsLoad \notin {"state", "local"} \/ Reached(localGroup.at)',
         groupsLoad' = "done" => Reached(row.at)'
  PROVE  GroupsInv'
  <1>1. GroupsTypeOK'
    BY DEF GroupsInv, GroupsTypeOK
  <1>2. \A at \in Nat : Reached(at) => Reached(at)'
    BY <1>1, ReachedStays DEF GroupsInv
  <1>3. Reached(0)' /\ Reached(chatGroup.at)'
    BY <1>1 DEF Reached, GroupsTypeOK, GroupRecords
  <1>4. PendingReached'
    <2>1. ASSUME NEW w \in GroupWrites PROVE Reached(groupWrite[w].at)'
      BY <1>2, <1>3, AgesAreNaturals DEF GroupsInv, PendingReached, Reached, NoGroup
    <2>2. Reached(groupSeed.at)'
      BY <1>2, <1>3, AgesAreNaturals DEF GroupsInv, PendingReached, Reached, NoGroup
    <2>3. (\A w \in groupSaves : Reached(w.group.at))'
      BY <1>2, AgesAreNaturals DEF GroupsInv, PendingReached, Reached
    <2> QED BY <2>1, <2>2, <2>3 DEF PendingReached
  <1>5. LoadedReached'
    BY <1>2, AgesAreNaturals DEF GroupsInv, LoadedReached, Reached
  <1> QED BY <1>1, <1>4, <1>5 DEF GroupsInv

(* Once a process has loaded, its record is no older than any store, than  *)
(* the local database and than the rows, but for what it passed over       *)
(* (loadState, hydrateGroupsFromLocalDb, hydrateGroupsFromMysql,           *)
(* upsertGroup, persistState), for any members, payloads, stamps, writes   *)
(* and saves under way.                                                    *)
THEOREM GroupNeverOlderInvariant ==
  GroupsSpec => [](GroupsTypeOK /\ GroupNeverOlder)
  <1>1. GroupsInit => GroupsInv
    BY DEF GroupsInit, GroupsInv, GroupsTypeOK, PendingReached, LoadedReached, Reached, NoGroup,
           GroupRecords, StateFrom, Stores
  <1>2. GroupsInv /\ [GroupsNext]_groupVars => GroupsInv'
    <2> SUFFICES ASSUME GroupsInv, [GroupsNext]_groupVars PROVE GroupsInv'
      OBVIOUS
    <2>0. GroupsTypeOK
      BY DEF GroupsInv
    <2>1. CASE BackupGroups
      BY <2>0, <2>1, WriteKeeps DEF BackupGroups, GroupsTypeOK, GroupRecords
    <2>2. ASSUME NEW p \in GroupPayloads, Upsert(p) PROVE GroupsInv'
      BY <2>0, <2>2, UpsertedIsYounger, WriteKeeps DEF Upsert
    <2>3. ASSUME NEW w \in GroupWrites, WriteLands(w) PROVE GroupsInv'
      <3>1. /\ groupWrite' = [groupWrite EXCEPT ![w] = NoGroup] /\ NoGroup \in GroupRecords
            /\ row' \in {row, groupWrite[w]} /\ groupFaults' \in 0..MaxGroupFaults
            /\ UNCHANGED <<chatGroup, savedGroup, localGroup, groupsFrom, groupsLoad, groupSeed,
                           forgone, groupSaves, groupUpdates>>
        BY <2>0, <2>3 DEF WriteLands, GroupFault, GroupsTypeOK, loadOfGroups, NoGroup, GroupRecords
      <3>2. groupsLoad = "done" => Reached(row.at)'
        BY <3>1 DEF GroupsInv, PendingReached, LoadedReached, Reached
      <3> QED BY <2>0, <3>1, <3>2, LoadKeeps DEF GroupsTypeOK, GroupRecords
    <2>4. CASE BeginGroupSave
      <3>1. \A v \in groupSaves' : v \in groupSaves \/ v.group = chatGroup
        BY <2>4 DEF BeginGroupSave
      <3>2. GroupsTypeOK'
        BY <2>0, <2>4 DEF BeginGroupSave, GroupsTypeOK, groupStores, loadOfGroups
      <3>3. PendingReached'
        BY <2>0, <2>4, <3>1 DEF BeginGroupSave, GroupsInv, PendingReached, Reached, loadOfGroups,
           GroupsTypeOK, GroupRecords
      <3>4. LoadedReached'
        BY <2>4 DEF BeginGroupSave, GroupsInv, LoadedReached, Reached, groupStores, loadOfGroups
      <3> QED BY <3>2, <3>3, <3>4 DEF GroupsInv
    <2>5. ASSUME NEW s \in Stores, NEW w \in groupSaves, SaveGroup(w, s) PROVE GroupsInv'
      BY <2>0, <2>5, SaveKeeps DEF SaveGroup, GroupsTypeOK
    <2>6. ASSUME NEW w \in groupSaves, PersistGroupsLocalDb(w) PROVE GroupsInv'
      BY <2>0, <2>6, SaveKeeps DEF PersistGroupsLocalDb, GroupsTypeOK
    <2>7. ASSUME NEW w \in groupSaves, GroupSaveFails(w) PROVE GroupsInv'
      BY <2>0, <2>7, SaveKeeps DEF GroupSaveFails, GroupFault, GroupsTypeOK, groupStores
    <2>8. CASE RestartGroups
      <3>1. GroupsTypeOK'
        BY <2>0, <2>8 DEF RestartGroups, GroupFault, GroupsTypeOK, NoGroup, GroupRecords, StateFrom,
           groupStores
      <3>2. PendingReached' /\ LoadedReached'
        BY <2>8 DEF RestartGroups, PendingReached, LoadedReached, Reached, NoGroup
      <3> QED BY <3>1, <3>2 DEF GroupsInv
    <2>9. ASSUME NEW s \in Stores, LoadGroups(s) PROVE GroupsInv'
      <3>1. /\ forgone' \in 0..MaxStamp /\ forgone' >= forgone /\ chatGroup.at <= forgone'
            /\ \A u \in Stores \ {s} : savedGroup[u].at <= forgone'
            /\ s = "mysql" => localGroup.at <= forgone'
        BY <2>0, <2>9, AgesAreNaturals DEF LoadGroups, PassesOver
      <3>2. /\ chatGroup' = savedGroup[s] /\ groupSeed' = savedGroup[s]
            /\ groupsFrom' \in StateFrom /\ groupsLoad' \in {"rows", "local"}
            /\ groupsLoad' = "rows" => s = "mysql"
            /\ UNCHANGED <<savedGroup, localGroup, row, groupWrite, groupSaves, groupUpdates,
                           groupFaults>>
        BY <2>9 DEF LoadGroups, LoadedFrom, StateFrom, groupStores
      <3>3. savedGroup[s] \in GroupRecords
        BY <2>0, AgesAreNaturals
      <3>4. /\ \A u \in Stores : Reached(savedGroup[u].at)'
            /\ groupsLoad' = "rows" => Reached(localGroup.at)'
        BY <3>1, <3>2, <3>3 DEF Reached, GroupRecords
      <3> QED BY <2>0, <3>1, <3>2, <3>3, <3>4, LoadKeeps DEF GroupsTypeOK
    <2>10. CASE LoadFindsNoGroups
      <3>1. /\ forgone' \in 0..MaxStamp /\ forgone' >= forgone
            /\ \A u \in Stores : savedGroup[u].at <= forgone'
        BY <2>0, <2>10, AgesAreNaturals DEF LoadFindsNoGroups, PassesOver
      <3>2. /\ groupsFrom' \in StateFrom /\ groupsLoad' = "local"
            /\ UNCHANGED <<chatGroup, savedGroup, localGroup, row, groupSeed, groupWrite,
                           groupSaves, groupUpdates, groupFaults>>
        BY <2>10 DEF LoadFindsNoGroups, StateFrom, groupStores
      <3>3. \A u \in Stores : Reached(savedGroup[u].at)'
        BY <3>1, <3>2 DEF Reached
      <3> QED BY <2>0, <3>1, <3>2, <3>3, LoadKeeps DEF GroupsTypeOK, GroupRecords
    <2>11. CASE HydrateFromLocalDb
      <3>1. /\ groupsLoad = "local" /\ groupsLoad' = "rows" /\ groupSeed' = chatGroup'
            /\ UNCHANGED <<savedGroup, localGroup, row, groupsFrom, groupWrite, groupSaves,
                           groupUpdates>>
        BY <2>11 DEF HydrateFromLocalDb, groupStores
      <3>2. /\ forgone' \in 0..MaxStamp /\ forgone' >= forgone
            /\ chatGroup' \in GroupRecords /\ chatGroup'.at >= chatGroup.at
            /\ groupFaults' \in 0..MaxGroupFaults
            /\ localGroup.at <= chatGroup'.at \/ localGroup.at <= forgone'
        <4>1. CASE chatGroup' = Merged(chatGroup, localGroup) /\ UNCHANGED <<forgone, groupFaults>>
          BY <2>0, <4>1, MergedIsYoungest DEF GroupsTypeOK
        <4>2. CASE GroupFault /\ PassesOver({localGroup.at}) /\ UNCHANGED chatGroup
          BY <2>0, <4>2, AgesAreNaturals DEF GroupsTypeOK, GroupFault, PassesOver, GroupRecords
        <4> QED BY <2>11, <4>1, <4>2 DEF HydrateFromLocalDb
      <3>3. Reached(localGroup.at)'
        BY <3>1, <3>2 DEF Reached
      <3> QED BY <2>0, <3>1, <3>2, <3>3, LoadKeeps DEF GroupsTypeOK
    <2>12. CASE SeedGroupRows
      <3>1. /\ groupsLoad = "rows" /\ groupsLoad' = "read" /\ groupSeed' = NoGroup
            /\ row' \in {row, groupSeed} /\ groupFaults' \in 0..MaxGroupFaults
            /\ UNCHANGED <<chatGroup, savedGroup, localGroup, groupsFrom, groupWrite, groupSaves,
                           forgone, groupUpdates>>
        BY <2>0, <2>12 DEF SeedGroupRows, GroupFault, GroupsTypeOK
      <3> QED BY <2>0, <3>1, LoadKeeps DEF GroupsTypeOK, GroupRecords, NoGroup
    <2>13. CASE ReadRows
      <3>1. /\ groupsLoad = "read" /\ groupsLoad' = "done"
            /\ UNCHANGED <<savedGroup, localGroup, row, groupsFrom, groupSeed, groupWrite,
                           groupSaves, groupUpdates>>
        BY <2>13 DEF ReadRows, groupStores
      <3>2. /\ forgone' \in 0..MaxStamp /\ forgone' >= forgone
            /\ chatGroup' \in GroupRecords /\ chatGroup'.at >= chatGroup.at
            /\ groupFaults' \in 0..MaxGroupFaults
            /\ row.at <= chatGroup'.at \/ row.at <= forgone'
        <4>1. CASE /\ chatGroup' = HydrateFromMysql(chatGroup, row)
                   /\ UNCHANGED <<forgone, groupFaults>>
          BY <2>0, <4>1, MergedIsYoungest DEF GroupsTypeOK, HydrateFromMysql
        <4>2. CASE GroupFault /\ PassesOver({row.at}) /\ UNCHANGED chatGroup
          BY <2>0, <4>2, AgesAreNaturals DEF GroupsTypeOK, GroupFault, PassesOver, GroupRecords
        <4> QED BY <2>13, <4>1, <4>2 DEF ReadRows
      <3>3. Reached(row.at)'
        BY <3>1, <3>2 DEF Reached
      <3> QED BY <2>0, <3>1, <3>2, <3>3, LoadKeeps DEF GroupsTypeOK
    <2>14. CASE UNCHANGED groupVars
      BY <2>14 DEF groupVars, GroupsInv, GroupsTypeOK, PendingReached, LoadedReached, Reached
    <2> QED
      BY <2>1, <2>2, <2>3, <2>4, <2>5, <2>6, <2>7, <2>8, <2>9, <2>10, <2>11, <2>12, <2>13, <2>14
         DEF GroupsNext, SendToGroup, UpdateGroup
  <1>3. GroupsInv => GroupsTypeOK /\ GroupNeverOlder
    <2> SUFFICES ASSUME GroupsInv PROVE GroupsTypeOK /\ GroupNeverOlder
      OBVIOUS
    <2>1. chatGroup.at \in Nat /\ forgone \in Nat
      BY AgesAreNaturals DEF GroupsInv
    <2>2. \A at \in Nat : Reached(at) => at <= Later(chatGroup.at, forgone)
      BY <2>1 DEF Reached, Later
    <2>3. GroupNeverOlder
      BY <2>2, AgesAreNaturals DEF GroupsInv, LoadedReached, GroupNeverOlder
    <2> QED BY <2>3 DEF GroupsInv
  <1> QED BY <1>1, <1>2, <1>3, PTL DEF GroupsSpec

HIDE GroupsAssumption

-----------------------------------------------------------------------------
(* Communities. A reload that has read the rows as they are now holds      *)
(* them.                                                                   *)
USE CommunityAssumption

\* A reload that has read the rows as they are now holds them.
LoadedIsCurrent == \A e \in Edits : loaded[e].since = "yes" =>
    loaded[e].ids = IF Enabled = {} THEN Seeds ELSE Enabled

CommunityInv == CommunityTypeOK /\ LoadedIsCurrent /\ PolicyFollowsRows

(* Type correctness.                                                       *)
THEOREM CommunityTypeCorrect == CommunitySpec => []CommunityTypeOK
  <1>1. CommunityInit => CommunityTypeOK
    BY DEF CommunityInit, CommunityTypeOK, Unloaded
  <1>2. CommunityTypeOK /\ [CommunityNext]_communityVars => CommunityTypeOK'
    <2> SUFFICES ASSUME CommunityTypeOK, [CommunityNext]_communityVars
                 PROVE  CommunityTypeOK'
      OBVIOUS
    <2> USE DEF CommunityTypeOK
    <2>1. CASE EmptyCacheExpires
      BY <2>1 DEF EmptyCacheExpires
    <2>2. ASSUME NEW e \in Edits, NEW c \in Communities,
                 NEW status \in {"absent", "enabled", "disabled"}, Wrote(e, c, status)
          PROVE  CommunityTypeOK'
      BY <2>2 DEF Wrote
    <2>3. ASSUME NEW e \in Edits, SeedRows(e) PROVE CommunityTypeOK'
      <3>1. communityRow' \in [Communities -> {"absent", "enabled", "disabled"}]
        BY <2>3 DEF SeedRows
      <3>2. /\ edit' = [edit EXCEPT ![e] = "load"]
            /\ UNCHANGED <<policy, emptyCache, communityFaults>>
            /\ \/ UNCHANGED <<loaded, behind>>
               \/ /\ loaded' = [f \in Edits |-> [loaded[f] EXCEPT !.since = "no"]]
                  /\ behind' = "yes"
        BY <2>3 DEF SeedRows
      <3>3. loaded' \in [Edits -> [from : {"rows", "seeds"}, ids : SUBSET Communities,
                                   since : {"yes", "no"}]]
        <4>1. CASE loaded' = loaded
          BY <4>1
        <4>2. CASE loaded' = [f \in Edits |-> [loaded[f] EXCEPT !.since = "no"]]
          BY <4>2
        <4> QED BY <3>2, <4>1, <4>2
      <3> QED BY <3>1, <3>2, <3>3
    <2>4. ASSUME NEW e \in Edits, LoadRows(e) PROVE CommunityTypeOK'
      BY <2>4 DEF LoadRows, Read, Enabled
    <2>5. ASSUME NEW e \in Edits, Rebuild(e) PROVE CommunityTypeOK'
      BY <2>5 DEF Rebuild, Rebuilt
    <2>6. CASE UNCHANGED communityVars
      BY <2>6 DEF communityVars
    <2> QED BY <2>1, <2>2, <2>3, <2>4, <2>5, <2>6
              DEF CommunityNext, PutCommunity, ToggleCommunity, DeleteCommunity
  <1> QED BY <1>1, <1>2, PTL DEF CommunitySpec

(* Once no edit is under way, the policy in memory is that of the rows     *)
(* (refreshCommunityGroupsConfig), for any groups, edits and number of     *)
(* failures.                                                               *)
THEOREM PolicyFollowsRowsInvariant == CommunitySpec => []PolicyFollowsRows
  <1>1. CommunityInit => CommunityInv
    <2> SUFFICES ASSUME CommunityInit PROVE CommunityInv
      OBVIOUS
    <2>1. Enabled = Seeds
      BY DEF CommunityInit, Enabled
    <2> QED BY <2>1
               DEF CommunityInit, CommunityInv, CommunityTypeOK, Unloaded,
                   LoadedIsCurrent,
                  PolicyFollowsRows
  <1>2. CommunityInv /\ CommunityTypeOK' /\ [CommunityNext]_communityVars => CommunityInv'
    <2> SUFFICES ASSUME CommunityInv, CommunityTypeOK', [CommunityNext]_communityVars
                 PROVE  CommunityInv'
      OBVIOUS
    <2> USE DEF CommunityInv
    <2>1. CASE EmptyCacheExpires
      BY <2>1 DEF EmptyCacheExpires, LoadedIsCurrent, PolicyFollowsRows, Enabled
    \* After a write no reload is current.
    <2>2. ASSUME NEW e \in Edits, NEW c \in Communities,
                 NEW status \in {"absent", "enabled", "disabled"}, Wrote(e, c, status)
          PROVE  CommunityInv'
      BY <2>2 DEF Wrote, CommunityTypeOK, LoadedIsCurrent, PolicyFollowsRows
    <2>3. ASSUME NEW e \in Edits, SeedRows(e) PROVE CommunityInv'
      <3>1. CASE communityRow' = communityRow
        BY <2>3, <3>1 DEF SeedRows, LoadedIsCurrent, PolicyFollowsRows, Enabled
      <3>2. CASE communityRow' # communityRow
        BY <2>3, <3>2 DEF SeedRows, CommunityTypeOK, LoadedIsCurrent, PolicyFollowsRows
      <3> QED BY <3>1, <3>2
    <2>4. ASSUME NEW e \in Edits, LoadRows(e) PROVE CommunityInv'
      <3>1. Enabled' = Enabled /\ UNCHANGED <<policy, behind>>
        BY <2>4 DEF LoadRows, Enabled
      <3>2. \/ loaded' = [loaded EXCEPT ![e] = Read(Enabled)]
            \/ loaded' = [loaded EXCEPT ![e] = [Read({}) EXCEPT !.since = "no"]]
        BY <2>4 DEF LoadRows
      <3>3. LoadedIsCurrent'
        BY <3>1, <3>2 DEF CommunityTypeOK, LoadedIsCurrent, Read
      <3> QED BY <3>1, <3>3 DEF PolicyFollowsRows
    <2>5. ASSUME NEW e \in Edits, Rebuild(e) PROVE CommunityInv'
      BY <2>5
         DEF Rebuild, Rebuilt, CommunityTypeOK, LoadedIsCurrent,
             PolicyFollowsRows, Enabled
    <2>6. CASE UNCHANGED communityVars
      BY <2>6 DEF communityVars, LoadedIsCurrent, PolicyFollowsRows, Enabled
    <2> QED BY <2>1, <2>2, <2>3, <2>4, <2>5, <2>6
              DEF CommunityNext, PutCommunity, ToggleCommunity, DeleteCommunity
  <1>3. CommunityInv => PolicyFollowsRows
    BY DEF CommunityInv
  <1> QED BY <1>1, <1>2, <1>3, CommunityTypeCorrect, PTL DEF CommunitySpec

HIDE CommunityAssumption

-----------------------------------------------------------------------------
(* Receipts. Reports and receipts are of messages whose rows are           *)
(* committed.                                                              *)
USE SeenAssumption

\* Reports and receipts are of messages whose rows are committed.
OnlyRecorded ==
    /\ senderTold \subseteq recorded
    /\ \A q \in Receipts : receipt[q].ids \subseteq recorded

SeenInv == SeenTypeOK /\ OnlyRecorded /\ ToldIsRecorded

(* A step of one receipt: the others stay, and it is closed with its last  *)
(* step.                                                                   *)
LEMMA AfterChangesOne ==
  ASSUME SeenTypeOK, NEW q \in Receipts, NEW left \in SUBSET Steps,
         receipt[q] # NoReceipt, After(q, left)
  PROVE  /\ receipt' \in [Receipts -> [kind : Kinds, ids : SUBSET ChatMessages,
                                       left : SUBSET Steps] \cup {NoReceipt}]
         /\ \A p \in Receipts \ {q} : receipt'[p] = receipt[p]
         /\ receipt'[q].left = left
         /\ left # {} => receipt'[q].kind = receipt[q].kind /\ receipt'[q].ids = receipt[q].ids
         /\ left = {} => receipt'[q] = NoReceipt
         /\ receipt'[q].ids \subseteq receipt[q].ids
  <1>1. receipt[q] \in [kind : Kinds, ids : SUBSET ChatMessages, left : SUBSET Steps]
    BY DEF SeenTypeOK
  <1>2. CASE left = {}
    BY <1>2 DEF After, SeenTypeOK, NoReceipt
  <1>3. CASE left # {}
    BY <1>1, <1>3 DEF After, SeenTypeOK, NoReceipt
  <1> QED BY <1>2, <1>3

(* What follows a step are steps.                                          *)
LEMMA FollowsAreSteps ==
  ASSUME NEW kind, NEW x PROVE Follows(kind, x) \subseteq Steps
  BY DEF Follows, Steps

(* A receipt with steps left is one.                                       *)
LEMMA BusyIsAReceipt ==
  ASSUME NEW q \in Receipts, receipt[q].left # {} PROVE receipt[q] # NoReceipt
  BY DEF NoReceipt

(* A sender is told of a message seen only after its row was written       *)
(* (handleSeenReceipts), for any messages and receipts.                    *)
THEOREM ToldIsRecordedInvariant == SeenSpec => [](SeenTypeOK /\ ToldIsRecorded)
  <1>1. SeenInit => SeenInv
    BY DEF SeenInit, SeenInv, SeenTypeOK, OnlyRecorded, ToldIsRecorded, NoReceipt, Flag
  <1>2. SeenInv /\ [SeenNext]_seenVars => SeenInv'
    <2> SUFFICES ASSUME SeenInv, [SeenNext]_seenVars PROVE SeenInv'
      OBVIOUS
    <2> USE DEF SeenInv
    <2>1. ASSUME NEW m \in ChatMessages, RecordMessage(m) PROVE SeenInv'
      BY <2>1 DEF RecordMessage, SeenTypeOK, OnlyRecorded, ToldIsRecorded, Underway
    <2>2. ASSUME NEW m \in ChatMessages, AckMessage(m) PROVE SeenInv'
      <3>1. /\ activityRow' \in [ChatMessages -> [delivered : Flag, read : Flag,
                                         status : {"sent", "delivered", "read"}]]
            /\ \A n \in ChatMessages : activityRow'[n].read = activityRow[n].read
            /\ UNCHANGED <<recorded, logSeen, receipt, senderTold, ackHandlers,
                           unrecorded, receiptFaults>>
        BY <2>2 DEF AckMessage, SeenTypeOK
      <3> QED BY <3>1 DEF SeenTypeOK, OnlyRecorded, ToldIsRecorded, Underway
    <2>3. ASSUME NEW q \in Receipts, NEW kind \in Kinds, NEW ids \in SUBSET recorded,
                 NEW left \in SUBSET Steps, Begins(q, kind, ids, left)
          PROVE  SeenInv'
      <3>1. /\ receipt[q].left = {}
            /\ receipt' = [receipt EXCEPT ![q] = [kind |-> kind, ids |-> ids, left |-> left]]
            /\ UNCHANGED <<recorded, logSeen, activityRow, senderTold, ackHandlers,
                           unrecorded, receiptFaults>>
        BY <2>3 DEF Begins, NoReceipt
      <3>2. SeenTypeOK'
        BY <3>1 DEF SeenTypeOK
      <3>3. \A p \in Receipts : p # q => receipt'[p] = receipt[p]
        BY <3>1 DEF SeenTypeOK
      <3>4. OnlyRecorded'
        BY <3>1 DEF SeenTypeOK, OnlyRecorded
      <3>5. \A m, x : Underway(m, x) => Underway(m, x)'
        BY <3>1, <3>3 DEF Underway
      <3>6. ToldIsRecorded'
        BY <3>1, <3>5 DEF ToldIsRecorded
      <3> QED BY <3>2, <3>4, <3>6
    <2>4. ASSUME NEW q \in Receipts, Queues(q) PROVE SeenInv'
      <3>1. PICK x \in receipt[q].left \cap {"queue", "self"} :
              /\ After(q, (receipt[q].left \ {x}) \cup Follows(receipt[q].kind, x))
              /\ senderTold' = IF receipt[q].kind = "read" /\ x = "queue"
                               THEN senderTold \cup receipt[q].ids ELSE senderTold
              /\ UNCHANGED <<recorded, logSeen, activityRow, ackHandlers, unrecorded,
                             receiptFaults>>
        BY <2>4 DEF Queues
      <3> DEFINE left == (receipt[q].left \ {x}) \cup Follows(receipt[q].kind, x)
      <3>2. receipt[q] # NoReceipt /\ receipt[q].left \in SUBSET Steps
            /\ receipt[q].ids \subseteq ChatMessages
        BY BusyIsAReceipt DEF SeenTypeOK, NoReceipt
      <3>3. left \in SUBSET Steps
        BY <3>2, FollowsAreSteps
      <3> HIDE DEF left
      <3>4. /\ receipt' \in [Receipts -> [kind : Kinds, ids : SUBSET ChatMessages,
                                       left : SUBSET Steps] \cup {NoReceipt}]
            /\ \A p \in Receipts \ {q} : receipt'[p] = receipt[p]
            /\ receipt'[q].left = left
            /\ left # {} => receipt'[q].kind = receipt[q].kind /\ receipt'[q].ids = receipt[q].ids
            /\ receipt'[q].ids \subseteq receipt[q].ids
        BY <3>1, <3>2, <3>3, AfterChangesOne DEF left
      <3>5. SeenTypeOK' /\ OnlyRecorded'
        BY <3>1, <3>2, <3>4 DEF SeenTypeOK, OnlyRecorded
      <3>6. \A y \in {"logs", "activities"} : y \in receipt[q].left => y \in left
        BY DEF left
      <3>7. \A m : \A y \in {"logs", "activities"} : Underway(m, y) => Underway(m, y)'
        BY <3>4, <3>6 DEF Underway
      <3>8. ASSUME receipt[q].kind = "read", x = "queue", NEW m \in receipt[q].ids
            PROVE  Underway(m, "logs")' /\ Underway(m, "activities")'
        <4>1. "logs" \in left /\ "activities" \in left
          BY <3>8 DEF left, Follows
        <4> QED BY <3>4, <3>8, <4>1 DEF Underway
      <3>9. ASSUME NEW m \in senderTold' \ unrecorded'
            PROVE  /\ logSeen'[m] = "yes" \/ Underway(m, "logs")'
                   /\ activityRow'[m].read = "yes" \/ Underway(m, "activities")'
        <4>1. CASE m \in senderTold
          BY <3>1, <3>7, <3>9, <4>1 DEF ToldIsRecorded
        <4>2. CASE m \notin senderTold
          BY <3>1, <3>8, <3>9, <4>2
        <4> QED BY <4>1, <4>2
      <3>10. ToldIsRecorded'
        BY <3>9 DEF ToldIsRecorded
      <3> QED BY <3>5, <3>10
    <2>5. ASSUME NEW q \in Receipts, UpdateLogs(q) PROVE SeenInv'
      <3> DEFINE left == (receipt[q].left \ {"logs"}) \cup Follows(receipt[q].kind, "logs")
      <3>1. /\ After(q, left)
            /\ logSeen' = IF receipt[q].kind = "delivered" THEN logSeen
                          ELSE [m \in ChatMessages |-> SeenIn(m)]
            /\ UNCHANGED <<recorded, activityRow, senderTold, ackHandlers,
                           unrecorded, receiptFaults>>
        BY <2>5 DEF UpdateLogs
      <3>2. receipt[q] # NoReceipt /\ receipt[q].left \in SUBSET Steps
            /\ receipt[q].ids \subseteq ChatMessages
        BY <2>5, BusyIsAReceipt DEF UpdateLogs, SeenTypeOK, NoReceipt
      <3>3. left \in SUBSET Steps /\ ("activities" \in receipt[q].left => "activities" \in left)
        BY <3>2, FollowsAreSteps
      <3> HIDE DEF left
      <3>4. /\ receipt' \in [Receipts -> [kind : Kinds, ids : SUBSET ChatMessages,
                                       left : SUBSET Steps] \cup {NoReceipt}]
            /\ \A p \in Receipts \ {q} : receipt'[p] = receipt[p]
            /\ receipt'[q].left = left
            /\ left # {} => receipt'[q].kind = receipt[q].kind /\ receipt'[q].ids = receipt[q].ids
            /\ receipt'[q].ids \subseteq receipt[q].ids
        BY <3>1, <3>2, <3>3, AfterChangesOne
      <3>5. SeenTypeOK' /\ OnlyRecorded'
        BY <3>1, <3>2, <3>4 DEF SeenTypeOK, OnlyRecorded, SeenIn, Flag
      <3>6. \A m : Underway(m, "activities") => Underway(m, "activities")'
        BY <3>3, <3>4 DEF Underway
      <3>7. ASSUME NEW m \in senderTold, logSeen[m] = "yes" \/ Underway(m, "logs")
            PROVE  (logSeen[m] = "yes" \/ Underway(m, "logs"))'
        <4>1. m \in recorded /\ m \in ChatMessages
          BY DEF OnlyRecorded, SeenTypeOK
        <4>2. CASE receipt[q].kind = "delivered"
          BY <3>1, <3>4, <3>7, <4>2 DEF Underway
        <4>3. CASE receipt[q].kind # "delivered"
          BY <3>1, <4>1, <4>3 DEF SeenIn
        <4> QED BY <4>2, <4>3
      <3>8. ToldIsRecorded'
        BY <3>1, <3>6, <3>7 DEF ToldIsRecorded
      <3> QED BY <3>5, <3>8
    <2>6. ASSUME NEW q \in Receipts, UpdateActivities(q) PROVE SeenInv'
      <3> DEFINE left == receipt[q].left \ {"activities"}
      <3>1. /\ After(q, left)
            /\ activityRow' = [m \in ChatMessages |->
                   IF receipt[q].kind = "delivered"
                   THEN IF m \in receipt[q].ids
                        THEN [activityRow[m] EXCEPT !.delivered = "yes"]
                        ELSE activityRow[m]
                   ELSE IF m \in recorded THEN ReadIn(activityRow[m]) ELSE activityRow[m]]
            /\ UNCHANGED <<recorded, logSeen, senderTold, ackHandlers, unrecorded,
                           receiptFaults>>
        BY <2>6 DEF UpdateActivities
      <3>2. receipt[q] # NoReceipt /\ receipt[q].left \in SUBSET Steps
            /\ receipt[q].ids \subseteq ChatMessages
        BY <2>6, BusyIsAReceipt DEF UpdateActivities, SeenTypeOK, NoReceipt
      <3>3. left \in SUBSET Steps /\ ("logs" \in receipt[q].left => "logs" \in left)
        BY <3>2
      <3> HIDE DEF left
      <3>4. /\ receipt' \in [Receipts -> [kind : Kinds, ids : SUBSET ChatMessages,
                                       left : SUBSET Steps] \cup {NoReceipt}]
            /\ \A p \in Receipts \ {q} : receipt'[p] = receipt[p]
            /\ receipt'[q].left = left
            /\ left # {} => receipt'[q].kind = receipt[q].kind /\ receipt'[q].ids = receipt[q].ids
            /\ receipt'[q].ids \subseteq receipt[q].ids
        BY <3>1, <3>2, <3>3, AfterChangesOne
      <3>5. /\ activityRow' \in [ChatMessages -> [delivered : Flag, read : Flag,
                                         status : {"sent", "delivered", "read"}]]
            /\ receipt[q].kind # "delivered" =>
                  \A m \in ChatMessages \cap recorded : activityRow'[m].read = "yes"
            /\ receipt[q].kind = "delivered" =>
                  \A m \in ChatMessages : activityRow'[m].read = activityRow[m].read
        BY <3>1 DEF SeenTypeOK, ReadIn, Flag
      <3>6. SeenTypeOK' /\ OnlyRecorded'
        BY <3>1, <3>2, <3>4, <3>5 DEF SeenTypeOK, OnlyRecorded
      <3>7. \A m : Underway(m, "logs") => Underway(m, "logs")'
        BY <3>3, <3>4 DEF Underway
      <3>8. ASSUME NEW m \in senderTold, activityRow[m].read = "yes" \/ Underway(m, "activities")
            PROVE  (activityRow[m].read = "yes" \/ Underway(m, "activities"))'
        <4>1. m \in recorded /\ m \in ChatMessages
          BY DEF OnlyRecorded, SeenTypeOK
        <4>2. CASE receipt[q].kind = "delivered"
          BY <3>4, <3>5, <3>8, <4>1, <4>2 DEF Underway
        <4>3. CASE receipt[q].kind # "delivered"
          BY <3>5, <4>1, <4>3
        <4> QED BY <4>2, <4>3
      <3>9. ToldIsRecorded'
        BY <3>1, <3>7, <3>8 DEF ToldIsRecorded
      <3> QED BY <3>6, <3>9
    <2>7. ASSUME NEW q \in Receipts, PartFails(q) PROVE SeenInv'
      <3>1. PICK x \in receipt[q].left :
              /\ ReceiptFault
              /\ After(q, IF x = "logs" /\ receipt[q].kind = "seen"
                          THEN {"activities", "self"} ELSE receipt[q].left \ {x})
              /\ unrecorded' = IF x \in {"logs", "activities"}
                               THEN unrecorded \cup OfRead(q) ELSE unrecorded
              /\ UNCHANGED <<recorded, logSeen, activityRow, senderTold, ackHandlers>>
        BY <2>7 DEF PartFails
      <3> DEFINE left == IF x = "logs" /\ receipt[q].kind = "seen"
                         THEN {"activities", "self"} ELSE receipt[q].left \ {x}
      <3>2. receipt[q] # NoReceipt /\ receipt[q].left \in SUBSET Steps
            /\ receipt[q].ids \subseteq ChatMessages
        BY BusyIsAReceipt DEF SeenTypeOK, NoReceipt
      <3>3. left \in SUBSET Steps /\ (receipt[q].kind = "read" => left = receipt[q].left \ {x})
        BY <3>2 DEF Steps
      <3> HIDE DEF left
      <3>4. /\ receipt' \in [Receipts -> [kind : Kinds, ids : SUBSET ChatMessages,
                                       left : SUBSET Steps] \cup {NoReceipt}]
            /\ \A p \in Receipts \ {q} : receipt'[p] = receipt[p]
            /\ receipt'[q].left = left
            /\ left # {} => receipt'[q].kind = receipt[q].kind /\ receipt'[q].ids = receipt[q].ids
            /\ receipt'[q].ids \subseteq receipt[q].ids
        BY <3>1, <3>2, <3>3, AfterChangesOne DEF left
      <3>5. SeenTypeOK' /\ OnlyRecorded'
        BY <3>1, <3>2, <3>4 DEF SeenTypeOK, OnlyRecorded, OfRead, ReceiptFault
      <3>6. ASSUME NEW m, m \notin unrecorded', NEW y \in {"logs", "activities"}, Underway(m, y)
            PROVE  Underway(m, y)'
        <4>1. PICK p \in Receipts : /\ receipt[p].kind = "read" /\ m \in receipt[p].ids
                                    /\ y \in receipt[p].left
          BY <3>6 DEF Underway
        <4>2. CASE p # q
          BY <3>4, <4>1, <4>2 DEF Underway
        <4>3. CASE p = q /\ x \in {"logs", "activities"}
          BY <3>1, <3>6, <4>1, <4>3 DEF OfRead
        <4>4. CASE p = q /\ x \notin {"logs", "activities"}
          BY <3>3, <3>4, <4>1, <4>4 DEF Underway
        <4> QED BY <4>2, <4>3, <4>4
      <3>7. ToldIsRecorded'
        BY <3>1, <3>6 DEF ToldIsRecorded
      <3> QED BY <3>5, <3>7
    <2>8. CASE RestartDuringReceipts
      <3>1. SeenTypeOK' /\ OnlyRecorded'
        BY <2>8
           DEF RestartDuringReceipts, ReceiptFault, SeenTypeOK, OnlyRecorded,
               NoReceipt,
                    OfRead, Flag
      <3>2. \A m \in senderTold \ unrecorded' : \A y : ~Underway(m, y)
        BY <2>8 DEF RestartDuringReceipts, Underway, OfRead
      <3>3. ToldIsRecorded'
        BY <2>8, <3>2 DEF RestartDuringReceipts, ToldIsRecorded
      <3> QED BY <3>1, <3>3
    <2>9. CASE TypingThrows
      BY <2>9
         DEF TypingThrows, ReceiptFault, SeenTypeOK, OnlyRecorded,
             ToldIsRecorded, Underway,
                  Flag
    <2>10. CASE UNCHANGED seenVars
      BY <2>10 DEF seenVars, SeenTypeOK, OnlyRecorded, ToldIsRecorded, Underway
    <2>11. ASSUME NEW q \in Receipts, PostRead(q) \/ PostMarkSeen(q) \/ PostDelivered(q)
           PROVE  SeenInv'
      BY <2>3, <2>11 DEF PostRead, PostMarkSeen, PostDelivered, Kinds, Steps
    <2> QED BY <2>1, <2>2, <2>4, <2>5, <2>6, <2>7, <2>8, <2>9, <2>10, <2>11 DEF SeenNext
  <1>3. SeenInv => SeenTypeOK /\ ToldIsRecorded
    BY DEF SeenInv
  <1> QED BY <1>1, <1>2, <1>3, PTL DEF SeenSpec

HIDE SeenAssumption

-----------------------------------------------------------------------------
(* The fast reply path. A request past the marking left its mark, unless   *)
(* Redis failed.                                                           *)
USE FastReplyAssumption

\* What MarkedIsFinal reads has its type.
RequestsTyped ==
    /\ fastRequest \in [FastRequests -> [state : {"new", "accepted", "duplicate", "failed"}
                                                 \cup Handling,
                                         msg : FastMessages]]
    /\ marked \subseteq FastMessages /\ unsure \subseteq FastMessages

\* A request past the marking left its mark, unless Redis failed.
PastMarked == {"marked", "queued", "accepted"}
MarkedOrUnsure == \A r \in FastRequests :
    fastRequest[r].state \in PastMarked => fastRequest[r].msg \in marked \cup unsure

FastInv == RequestsTyped /\ MarkedOrUnsure

(* One request goes on, no mark goes away.                                 *)
LEMMA MarksStay ==
  ASSUME FastInv, NEW r \in FastRequests,
         NEW step \in {"accepted", "duplicate", "failed"} \cup Handling,
         Goto(r, step), marked \subseteq marked', unsure \subseteq unsure',
         marked' \cup unsure' \subseteq FastMessages,
         step \in PastMarked =>
            fastRequest[r].state \in PastMarked \/ fastRequest[r].msg \in marked' \cup unsure'
  PROVE  /\ FastInv'
         /\ fastRequest'[r].state = step
         /\ \A q \in FastRequests \ {r} : fastRequest'[q] = fastRequest[q]
  <1> DEFINE u == [fastRequest[r] EXCEPT !.state = step]
  <1>1. fastRequest[r] \in [state : {"new", "accepted", "duplicate", "failed"} \cup Handling,
                            msg : FastMessages]
    BY DEF FastInv, RequestsTyped
  <1>2. /\ u \in [state : {"new", "accepted", "duplicate", "failed"} \cup Handling,
                  msg : FastMessages]
        /\ u.state = step /\ u.msg = fastRequest[r].msg
    BY <1>1
  <1>3. fastRequest' = [fastRequest EXCEPT ![r] = u]
    BY <1>1 DEF Goto
  <1> HIDE DEF u
  <1>4. fastRequest'[r] = u /\ \A q \in FastRequests \ {r} : fastRequest'[q] = fastRequest[q]
    BY <1>3 DEF FastInv, RequestsTyped
  <1>5. RequestsTyped'
    BY <1>2, <1>3 DEF FastInv, RequestsTyped
  <1>6. MarkedOrUnsure'
    BY <1>2, <1>4 DEF FastInv, MarkedOrUnsure
  <1> QED BY <1>2, <1>4, <1>5, <1>6 DEF FastInv

(* The invariant holds at the start ...                                    *)
LEMMA FastInvInit == FastInit => FastInv
  BY DEF FastInit, FastInv, RequestsTyped, MarkedOrUnsure, PastMarked, Handling

(* ... and every step keeps it.                                            *)
LEMMA FastInvStep == FastInv /\ [FastNext]_fastVars => FastInv'
  <1> SUFFICES ASSUME FastInv, [FastNext]_fastVars PROVE FastInv'
    OBVIOUS
  <1>0. /\ \A r \in FastRequests : fastRequest[r].msg \in FastMessages
        /\ marked \subseteq FastMessages /\ unsure \subseteq FastMessages
    BY DEF FastInv, RequestsTyped
  <1>1. ASSUME NEW r \in FastRequests, Check(r) PROVE FastInv'
    <2>1. PICK step \in {"duplicate", "checked"} :
             /\ Goto(r, step) /\ marked' = marked
             /\ unsure' = unsure \/ unsure' = unsure \cup {fastRequest[r].msg}
      BY <1>1 DEF Check
    <2> QED BY <1>0, <2>1, MarksStay DEF Handling, PastMarked
  <1>2. ASSUME NEW r \in FastRequests, ReadPts(r) \/ Store(r) PROVE FastInv'
    <2>1. PICK step \in {"reading", "stored", "failed"} :
             Goto(r, step) /\ marked' = marked /\ unsure' = unsure
      BY <1>2 DEF ReadPts, Store
    <2> QED BY <1>0, <2>1, MarksStay DEF Handling, PastMarked
  <1>3. ASSUME NEW r \in FastRequests, Mark(r) PROVE FastInv'
    BY <1>0, <1>3, MarksStay DEF Mark, Handling
  <1>4. ASSUME NEW r \in FastRequests, QueueJob(r) \/ AddEvent(r) PROVE FastInv'
    <2>1. PICK step \in {"queued", "accepted"} :
             Goto(r, step) /\ marked' = marked /\ unsure' = unsure
      BY <1>4 DEF QueueJob, AddEvent
    <2>2. fastRequest[r].state \in PastMarked
      BY <1>4 DEF QueueJob, AddEvent, PastMarked
    <2> QED BY <1>0, <2>1, <2>2, MarksStay DEF Handling, PastMarked
  <1>5. CASE ServerStops
    <2> DEFINE handling == {q \in FastRequests : fastRequest[q].state \in Handling}
    <2>1. /\ unsure' = unsure \cup {fastRequest[r].msg : r \in handling} /\ marked' = marked
          /\ fastRequest' = [r \in FastRequests |->
                IF fastRequest[r].state \in Handling
                THEN [fastRequest[r] EXCEPT !.state = "failed"] ELSE fastRequest[r]]
      BY <1>5 DEF ServerStops
    <2>2. \A r \in FastRequests :
             /\ fastRequest'[r].msg = fastRequest[r].msg
             /\ fastRequest'[r].state \in {fastRequest[r].state, "failed"}
             /\ fastRequest'[r] \in [state : {"new", "accepted", "duplicate", "failed"}
                                             \cup Handling,
                                     msg : FastMessages]
      BY <2>1 DEF FastInv, RequestsTyped
    <2>3. unsure' \subseteq FastMessages
      BY <1>0, <2>1
    <2>4. RequestsTyped'
      BY <1>0, <2>1, <2>2, <2>3 DEF RequestsTyped
    <2>5. MarkedOrUnsure'
      BY <2>1, <2>2 DEF FastInv, MarkedOrUnsure, PastMarked
    <2> QED BY <2>4, <2>5 DEF FastInv
  <1>6. CASE UNCHANGED <<fastRequest, marked, unsure>>
    BY <1>6 DEF FastInv, RequestsTyped, MarkedOrUnsure
  <1>7. ASSUME NEW r \in FastRequests,
               TakeJob(r) \/ SendChunk(r) \/ FinishJob(r) \/ ReadEvent(r) \/ Emit(r)
               \/ Acknowledge(r)
        PROVE  FastInv'
    BY <1>6, <1>7 DEF TakeJob, SendChunk, FinishJob, ReadEvent, Emit, Acknowledge, rowVars
  <1>8. CASE FastWorkerStops \/ CreateGroup \/ FanoutStops
    BY <1>6, <1>8 DEF FastWorkerStops, CreateGroup, FanoutStops, rowVars
  <1>9. CASE UNCHANGED fastVars
    BY <1>6, <1>9 DEF fastVars
  <1> QED BY <1>1, <1>2, <1>3, <1>4, <1>5, <1>7, <1>8, <1>9 DEF FastNext

(* A message once marked in Redis is accepted no second time               *)
(* (processed:<id> of the fast reply path), for any requests and messages. *)
THEOREM MarkedIsFinalHolds == FastSpec => MarkedIsFinal
  <1> DEFINE Final == \A r \in FastRequests :
          /\ fastRequest[r].state = "new" /\ fastRequest'[r].state = "checked"
          /\ \E q \in FastRequests : /\ fastRequest[q].state = "accepted"
                                     /\ fastRequest[q].msg = fastRequest[r].msg
          => fastRequest[r].msg \in unsure'
  <1>1. FastInv /\ [FastNext]_fastVars => [Final]_fastVars
    <2> SUFFICES ASSUME FastInv, FastNext,
                        NEW r \in FastRequests,
                        fastRequest[r].state = "new", fastRequest'[r].state = "checked",
                        NEW q \in FastRequests, fastRequest[q].state = "accepted",
                        fastRequest[q].msg = fastRequest[r].msg
                 PROVE  fastRequest[r].msg \in unsure'
      OBVIOUS
    <2>1. fastRequest[r].msg \in marked \cup unsure
      BY DEF FastInv, MarkedOrUnsure, PastMarked
    <2>2. ASSUME NEW p \in FastRequests, Check(p) PROVE fastRequest[r].msg \in unsure'
      <3>1. PICK step \in {"duplicate", "checked"} :
               /\ Goto(p, step)
               /\ \/ step = (IF fastRequest[p].msg \in marked THEN "duplicate" ELSE "checked")
                     /\ unsure' = unsure
                  \/ unsure' = unsure \cup {fastRequest[p].msg}
        BY <2>2 DEF Check
      <3>2. /\ fastRequest'[p].state = step
            /\ \A o \in FastRequests \ {p} : fastRequest'[o] = fastRequest[o]
        BY <3>1 DEF Goto, FastInv, RequestsTyped
      <3>3. p = r /\ step = "checked"
        BY <3>2
      <3> QED BY <2>1, <3>1, <3>3
    <2>3. ASSUME NEW p \in FastRequests, NEW step \in Handling \cup {"accepted", "failed"},
                 Goto(p, step), fastRequest[p].state # "new"
          PROVE  FALSE
      BY <2>3 DEF Goto, FastInv, RequestsTyped
    <2>4. ASSUME NEW p \in FastRequests,
                 ReadPts(p) \/ Store(p) \/ Mark(p) \/ QueueJob(p) \/ AddEvent(p)
          PROVE  FALSE
      <3>1. PICK step \in {"reading", "stored", "failed", "marked", "queued", "accepted"} :
               Goto(p, step) /\ fastRequest[p].state # "new"
        BY <2>4 DEF ReadPts, Store, Mark, QueueJob, AddEvent
      <3> QED BY <2>3, <3>1 DEF Handling
    <2>5. ~ ServerStops
      BY DEF ServerStops, FastInv, RequestsTyped, Handling
    <2>6. fastRequest' # fastRequest
      OBVIOUS
    <2>7. ASSUME NEW p \in FastRequests,
                 TakeJob(p) \/ SendChunk(p) \/ FinishJob(p) \/ ReadEvent(p) \/ Emit(p)
                 \/ Acknowledge(p)
          PROVE  FALSE
      BY <2>6, <2>7 DEF TakeJob, SendChunk, FinishJob, ReadEvent, Emit, Acknowledge, rowVars
    <2>8. ~(FastWorkerStops \/ CreateGroup \/ FanoutStops)
      BY <2>6 DEF FastWorkerStops, CreateGroup, FanoutStops, rowVars
    <2> QED BY <2>2, <2>4, <2>5, <2>7, <2>8 DEF FastNext
  <1> QED BY <1>1, FastInvInit, FastInvStep, PTL DEF FastSpec, MarkedIsFinal

HIDE FastReplyAssumption

-----------------------------------------------------------------------------
(* The types of the fast reply path. A request has a job once it was       *)
(* marked; a job that waits has an attempt left; some pts is the highest.  *)
USE FastReplyAssumption

FastStates   == {"new", "accepted", "duplicate", "failed"} \cup Handling
FastPosts    == [state : FastStates, msg : FastMessages]
JobRecords   == [state : {"none", "waiting", "active", "done", "failed"},
                 attempts : 0..MaxJobAttempts, chunk : 1..(Chunks + 1)]
HighestPts(n) == \A q \in FastRequests : pts[q] <= n

\* A request has a job once it was marked, and a job that waits has an attempt
\* left; a row has its pts once it is stored, so that some pts is the highest.
JobsHaveAttempts == \A r \in FastRequests :
    /\ fastRequest[r].state \notin {"queued", "accepted", "failed"} => job[r] = NoJob
    /\ job[r].state = "waiting" => job[r].attempts < MaxJobAttempts
PtsAreGiven ==
    /\ \A r \in FastRequests :
          fastRequest[r].state \in {"new", "checked", "reading"} => pts[r] = 0
    /\ \E n \in {0} \cup {pts[q] : q \in FastRequests} : HighestPts(n)
FastTypeInv == FastTypeOK /\ JobsHaveAttempts /\ PtsAreGiven

(* A request goes on to its next state.                                    *)
LEMMA FastGoesOn ==
  ASSUME FastTypeInv, NEW r \in FastRequests, NEW step \in FastStates, Goto(r, step)
  PROVE  /\ fastRequest' \in [FastRequests -> FastPosts] /\ fastRequest'[r].state = step
         /\ \A q \in FastRequests \ {r} : fastRequest'[q] = fastRequest[q]
  <1> DEFINE u == [fastRequest[r] EXCEPT !.state = step]
  <1>1. fastRequest \in [FastRequests -> FastPosts]
    BY DEF FastTypeInv, FastTypeOK, FastPosts, FastStates
  <1>2. u \in FastPosts /\ u.state = step
    BY <1>1 DEF FastPosts
  <1>3. fastRequest' = [fastRequest EXCEPT ![r] = u]
    BY <1>1 DEF Goto
  <1> HIDE DEF u
  <1> QED BY <1>1, <1>2, <1>3

(* The job of a marked request changes.                                    *)
LEMMA JobChanges ==
  ASSUME FastTypeInv, NEW r \in FastRequests, NEW w \in JobRecords,
         job' = [job EXCEPT ![r] = w], w.state = "waiting" => w.attempts < MaxJobAttempts,
         fastRequest[r].state \in {"queued", "accepted", "failed"}, UNCHANGED rowVars
  PROVE  job' \in [FastRequests -> JobRecords] /\ JobsHaveAttempts' /\ PtsAreGiven'
  <1>1. /\ job' \in [FastRequests -> JobRecords] /\ job'[r] = w
        /\ \A q \in FastRequests \ {r} : job'[q] = job[q]
    BY DEF FastTypeInv, FastTypeOK, JobRecords
  <1> QED BY <1>1 DEF FastTypeInv, JobsHaveAttempts, PtsAreGiven, HighestPts, rowVars

(* Every step keeps the types.                                             *)
LEMMA FastTypeInvStep == FastTypeInv /\ [FastNext]_fastVars => FastTypeInv'
  <1> SUFFICES ASSUME FastTypeInv, [FastNext]_fastVars PROVE FastTypeInv'
    OBVIOUS
  <1>0. /\ fastRequest \in [FastRequests -> FastPosts]
        /\ marked \subseteq FastMessages /\ unsure \subseteq FastMessages
        /\ pts \in [FastRequests -> Nat] /\ reading \in [FastRequests -> Nat]
        /\ job \in [FastRequests -> JobRecords]
        /\ fastSent \subseteq FastRequests \X (1..Chunks)
        /\ refused \subseteq FastRequests \X (1..Chunks)
        /\ event \in [FastRequests -> {"none", "added", "unread", "pending", "orphan", "acked"}]
        /\ emitted \subseteq FastRequests /\ group \in {"no", "yes"}
        /\ fastFaults \in 0..MaxFastFaults
        /\ JobsHaveAttempts /\ PtsAreGiven
    BY DEF FastTypeInv, FastTypeOK, FastPosts, FastStates, JobRecords
  <1>a. ASSUME /\ fastRequest' \in [FastRequests -> FastPosts]
               /\ marked' \subseteq FastMessages /\ unsure' \subseteq FastMessages
               /\ pts' \in [FastRequests -> Nat] /\ reading' \in [FastRequests -> Nat]
               /\ job' \in [FastRequests -> JobRecords]
               /\ fastSent' \subseteq FastRequests \X (1..Chunks)
               /\ refused' \subseteq FastRequests \X (1..Chunks)
               /\ event' \in [FastRequests ->
                               {"none", "added", "unread", "pending", "orphan", "acked"}]
               /\ emitted' \subseteq FastRequests /\ group' \in {"no", "yes"}
               /\ fastFaults' \in 0..MaxFastFaults
        PROVE  FastTypeOK'
    BY <1>a DEF FastTypeOK, FastPosts, FastStates, JobRecords
  <1>b. FastFault => fastFaults' \in 0..MaxFastFaults
    BY <1>0 DEF FastFault
  <1>c. \A r \in FastRequests : fastRequest[r].state \in FastStates /\ fastRequest[r].msg \in FastMessages
    BY <1>0 DEF FastPosts
  <1>1. ASSUME NEW r \in FastRequests, Check(r) PROVE FastTypeInv'
    <2>1. PICK step \in {"duplicate", "checked"} : Goto(r, step)
      BY <1>1 DEF Check
    <2>2. /\ UNCHANGED <<marked, pts, reading, job, fastSent, refused, event, emitted, group>>
          /\ unsure' \subseteq FastMessages /\ fastFaults' \in 0..MaxFastFaults
          /\ fastRequest[r].state = "new"
      BY <1>0, <1>1, <1>b, <1>c DEF Check, jobVars, eventVars
    <2>3. step \in FastStates
      BY DEF FastStates, Handling
    <2>4. /\ fastRequest' \in [FastRequests -> FastPosts] /\ fastRequest'[r].state = step
          /\ \A q \in FastRequests \ {r} : fastRequest'[q] = fastRequest[q]
      BY <2>1, <2>3, FastGoesOn
    <2>5. FastTypeOK'
      BY <1>0, <1>a, <2>2, <2>4
    <2>6. JobsHaveAttempts' /\ PtsAreGiven'
      BY <1>0, <2>2, <2>4 DEF JobsHaveAttempts, PtsAreGiven, HighestPts
    <2> QED BY <2>5, <2>6 DEF FastTypeInv
  <1>2. ASSUME NEW r \in FastRequests, ReadPts(r) PROVE FastTypeInv'
    <2> DEFINE top == CHOOSE n \in {0} \cup {pts[q] : q \in FastRequests} :
                                 \A q \in FastRequests : pts[q] <= n
    <2>1. top \in Nat
      <3>1. \E n \in {0} \cup {pts[q] : q \in FastRequests} : \A q \in FastRequests : pts[q] <= n
        BY <1>0 DEF PtsAreGiven, HighestPts
      <3>2. top \in {0} \cup {pts[q] : q \in FastRequests}
        BY <3>1
      <3> HIDE DEF top
      <3> QED BY <3>2, <1>0
    <2>2. /\ reading' = [reading EXCEPT ![r] = 1 + top] /\ Goto(r, "reading")
          /\ UNCHANGED <<marked, pts, unsure, job, fastSent, refused, event, emitted, group, fastFaults>>
          /\ fastRequest[r].state = "checked"
      BY <1>2 DEF ReadPts, jobVars, eventVars
    <2> HIDE DEF top
    <2>3. reading' \in [FastRequests -> Nat]
      BY <1>0, <2>1, <2>2
    <2>4. /\ fastRequest' \in [FastRequests -> FastPosts] /\ fastRequest'[r].state = "reading"
          /\ \A q \in FastRequests \ {r} : fastRequest'[q] = fastRequest[q]
      <3>1. "reading" \in FastStates
        BY DEF FastStates, Handling
      <3> QED BY <2>2, <3>1, FastGoesOn
    <2>5. FastTypeOK'
      BY <1>0, <1>a, <2>2, <2>3, <2>4
    <2>6. JobsHaveAttempts' /\ PtsAreGiven'
      BY <1>0, <2>2, <2>4 DEF JobsHaveAttempts, PtsAreGiven, HighestPts
    <2> QED BY <2>5, <2>6 DEF FastTypeInv
  <1>3. ASSUME NEW r \in FastRequests, Store(r) PROVE FastTypeInv'
    <2>1. PICK step \in {"stored", "failed"} :
             /\ Goto(r, step)
             /\ pts' = IF step = "stored" THEN [pts EXCEPT ![r] = reading[r]] ELSE pts
      BY <1>3 DEF Store
    <2>2. /\ UNCHANGED <<marked, reading, unsure, job, fastSent, refused, event, emitted, group>>
          /\ fastFaults' \in 0..MaxFastFaults /\ fastRequest[r].state = "reading"
      BY <1>0, <1>3, <1>b DEF Store, jobVars, eventVars
    <2>3. /\ fastRequest' \in [FastRequests -> FastPosts] /\ fastRequest'[r].state = step
          /\ \A q \in FastRequests \ {r} : fastRequest'[q] = fastRequest[q]
      <3>1. step \in FastStates
        BY DEF FastStates, Handling
      <3> QED BY <2>1, <3>1, FastGoesOn
    <2>4. pts' \in [FastRequests -> Nat] /\ \A q \in FastRequests \ {r} : pts'[q] = pts[q]
      BY <1>0, <2>1
    <2>5. FastTypeOK'
      BY <1>0, <1>a, <2>2, <2>3, <2>4
    <2>6. JobsHaveAttempts'
      BY <1>0, <2>2, <2>3 DEF JobsHaveAttempts
    <2>7. \E n \in {0} \cup {pts'[q] : q \in FastRequests} : \A q \in FastRequests : pts'[q] <= n
      <3>1. PICK n \in {0} \cup {pts[q] : q \in FastRequests} : \A q \in FastRequests : pts[q] <= n
        BY <1>0 DEF PtsAreGiven, HighestPts
      <3>2. pts[r] = 0 /\ n \in Nat /\ pts'[r] \in Nat
        BY <1>0, <2>2, <2>4, <3>1 DEF PtsAreGiven
      <3>3. n \in {0} \cup {pts'[q] : q \in FastRequests}
        BY <3>1, <3>2, <2>4
      <3>4. CASE pts'[r] <= n
        BY <3>1, <3>3, <3>4, <2>4
      <3>5. CASE ~(pts'[r] <= n)
        <4>1. \A q \in FastRequests : pts'[q] <= pts'[r]
          BY <3>1, <3>2, <3>5, <1>0, <2>4
        <4> QED BY <4>1
      <3> QED BY <3>4, <3>5
    <2>8. PtsAreGiven'
      BY <1>0, <2>3, <2>4, <2>7 DEF PtsAreGiven, HighestPts
    <2> QED BY <2>5, <2>6, <2>8 DEF FastTypeInv
  <1>4. ASSUME NEW r \in FastRequests, Mark(r) PROVE FastTypeInv'
    <2>1. /\ Goto(r, "marked") /\ fastRequest[r].state = "stored"
          /\ marked' \subseteq FastMessages /\ unsure' \subseteq FastMessages
          /\ fastFaults' \in 0..MaxFastFaults
          /\ UNCHANGED <<pts, reading, job, fastSent, refused, event, emitted, group>>
      BY <1>0, <1>4, <1>b, <1>c DEF Mark, jobVars, eventVars
    <2>2. /\ fastRequest' \in [FastRequests -> FastPosts] /\ fastRequest'[r].state = "marked"
          /\ \A q \in FastRequests \ {r} : fastRequest'[q] = fastRequest[q]
      <3>1. "marked" \in FastStates
        BY DEF FastStates, Handling
      <3> QED BY <2>1, <3>1, FastGoesOn
    <2>3. FastTypeOK'
      BY <1>0, <1>a, <2>1, <2>2
    <2>4. JobsHaveAttempts' /\ PtsAreGiven'
      BY <1>0, <2>1, <2>2 DEF JobsHaveAttempts, PtsAreGiven, HighestPts
    <2> QED BY <2>3, <2>4 DEF FastTypeInv
  <1>5. ASSUME NEW r \in FastRequests, QueueJob(r) PROVE FastTypeInv'
    <2>1. PICK step \in {"queued", "accepted"} :
             /\ Goto(r, step)
             /\ job' = IF step = "queued" THEN [job EXCEPT ![r].state = "waiting"] ELSE job
      BY <1>5 DEF QueueJob
    <2>2. /\ UNCHANGED <<marked, pts, reading, unsure, fastSent, refused, event, emitted, group>>
          /\ fastFaults' \in 0..MaxFastFaults /\ fastRequest[r].state = "marked"
      BY <1>0, <1>5, <1>b DEF QueueJob, eventVars
    <2>3. /\ fastRequest' \in [FastRequests -> FastPosts] /\ fastRequest'[r].state = step
          /\ \A q \in FastRequests \ {r} : fastRequest'[q] = fastRequest[q]
      <3>1. step \in FastStates
        BY DEF FastStates, Handling
      <3> QED BY <2>1, <3>1, FastGoesOn
    <2>4. job[r] = NoJob
      BY <1>0, <2>2 DEF JobsHaveAttempts
    <2>5. job' \in [FastRequests -> JobRecords] /\ \A q \in FastRequests \ {r} : job'[q] = job[q]
      BY <1>0, <2>1 DEF JobRecords
    <2>6. job'[r].state = "waiting" => job'[r].attempts < MaxJobAttempts
      BY <1>0, <2>1, <2>4 DEF NoJob
    <2>7. FastTypeOK'
      BY <1>0, <1>a, <2>2, <2>3, <2>5
    <2>8. JobsHaveAttempts' /\ PtsAreGiven'
      BY <1>0, <2>2, <2>3, <2>5, <2>6 DEF JobsHaveAttempts, PtsAreGiven, HighestPts
    <2> QED BY <2>7, <2>8 DEF FastTypeInv
  <1>6. ASSUME NEW r \in FastRequests, AddEvent(r) PROVE FastTypeInv'
    <2>1. /\ Goto(r, "accepted") /\ fastRequest[r].state = "queued"
          /\ event' \in [FastRequests -> {"none", "added", "unread", "pending", "orphan", "acked"}]
          /\ fastFaults' \in 0..MaxFastFaults
          /\ UNCHANGED <<marked, pts, reading, unsure, job, fastSent, refused, emitted, group>>
      BY <1>0, <1>6, <1>b DEF AddEvent, jobVars
    <2>2. /\ fastRequest' \in [FastRequests -> FastPosts] /\ fastRequest'[r].state = "accepted"
          /\ \A q \in FastRequests \ {r} : fastRequest'[q] = fastRequest[q]
      <3>1. "accepted" \in FastStates
        BY DEF FastStates
      <3> QED BY <2>1, <3>1, FastGoesOn
    <2>3. FastTypeOK'
      BY <1>0, <1>a, <2>1, <2>2
    <2>4. JobsHaveAttempts' /\ PtsAreGiven'
      BY <1>0, <2>1, <2>2 DEF JobsHaveAttempts, PtsAreGiven, HighestPts
    <2> QED BY <2>3, <2>4 DEF FastTypeInv
  <1>7. ASSUME ServerStops PROVE FastTypeInv'
    <2>1. /\ unsure' \subseteq FastMessages /\ fastFaults' \in 0..MaxFastFaults
          /\ UNCHANGED <<marked, pts, reading, job, fastSent, refused, event, emitted, group>>
      BY <1>0, <1>7, <1>b, <1>c DEF ServerStops, jobVars, eventVars
    <2>2. /\ fastRequest' \in [FastRequests -> FastPosts]
          /\ \A r \in FastRequests : \/ fastRequest'[r] = fastRequest[r]
                                     \/ fastRequest'[r].state = "failed"
      BY <1>0, <1>7 DEF ServerStops, FastPosts, FastStates
    <2>3. FastTypeOK'
      BY <1>0, <1>a, <2>1, <2>2
    <2>4. JobsHaveAttempts' /\ PtsAreGiven'
      BY <1>0, <2>1, <2>2 DEF JobsHaveAttempts, PtsAreGiven, HighestPts
    <2> QED BY <2>3, <2>4 DEF FastTypeInv
  <1>8. ASSUME NEW r \in FastRequests, TakeJob(r) \/ SendChunk(r) \/ FinishJob(r)
        PROVE  FastTypeInv'
    <2>1. /\ job[r] \in JobRecords /\ job[r].state \in {"waiting", "active"}
          /\ job[r].state = "waiting" => job[r].attempts < MaxJobAttempts
          /\ fastRequest[r].state \in {"queued", "accepted", "failed"}
      <3>1. job[r].state \in {"waiting", "active"}
        BY <1>8 DEF TakeJob, SendChunk, FinishJob
      <3> QED BY <1>0, <3>1 DEF JobsHaveAttempts, NoJob
    <2>2. /\ UNCHANGED <<fastRequest, marked, pts, reading, unsure, event, emitted, group>>
          /\ fastFaults' \in 0..MaxFastFaults
      BY <1>0, <1>8, <1>b DEF TakeJob, SendChunk, FinishJob, rowVars, eventVars
    <2>3. /\ fastSent' \subseteq FastRequests \X (1..Chunks)
          /\ refused' \subseteq FastRequests \X (1..Chunks)
      <3>1. job[r].chunk <= Chunks => job[r].chunk \in 1..Chunks
        BY <2>1 DEF JobRecords
      <3> QED BY <1>0, <1>8, <3>1 DEF TakeJob, SendChunk, FinishJob
    <2>4. PICK w \in JobRecords : /\ job' = [job EXCEPT ![r] = w]
                                  /\ w.state = "waiting" => w.attempts < MaxJobAttempts
      <3>1. CASE TakeJob(r)
        <4> DEFINE w == [state |-> "active", attempts |-> job[r].attempts + 1, chunk |-> 1]
        <4>1. w \in JobRecords /\ w.state = "active"
          BY <2>1, <3>1 DEF TakeJob, JobRecords
        <4>2. job' = [job EXCEPT ![r] = w]
          BY <1>0, <3>1 DEF TakeJob
        <4> QED BY <4>1, <4>2
      <3>2. ASSUME NEW state \in {"waiting", "done", "failed"},
                   state = "waiting" => job[r].attempts < MaxJobAttempts,
                   job' = [job EXCEPT ![r].state = state]
            PROVE  \E w \in JobRecords : /\ job' = [job EXCEPT ![r] = w]
                                         /\ w.state = "waiting" => w.attempts < MaxJobAttempts
        <4> DEFINE w == [job[r] EXCEPT !.state = state]
        <4>1. w \in JobRecords /\ w.state = state /\ w.attempts = job[r].attempts
          BY <2>1 DEF JobRecords
        <4>2. job' = [job EXCEPT ![r] = w]
          BY <1>0, <3>2
        <4> HIDE DEF w
        <4> QED BY <3>2, <4>1, <4>2
      <3>3. CASE FinishJob(r)
        BY <3>2, <3>3 DEF FinishJob
      <3>4. ASSUME SendChunk(r), job' = AfterFailure(r)
            PROVE  \E w \in JobRecords : /\ job' = [job EXCEPT ![r] = w]
                                         /\ w.state = "waiting" => w.attempts < MaxJobAttempts
        <4> DEFINE state == IF job[r].attempts < MaxJobAttempts THEN "waiting" ELSE "failed"
        <4>1. job' = [job EXCEPT ![r].state = state]
          BY <1>0, <3>4 DEF AfterFailure, SendChunk
        <4> QED BY <3>2, <4>1
      <3>5. ASSUME SendChunk(r), job' = [job EXCEPT ![r].chunk = @ + 1]
            PROVE  \E w \in JobRecords : /\ job' = [job EXCEPT ![r] = w]
                                         /\ w.state = "waiting" => w.attempts < MaxJobAttempts
        <4> DEFINE w == [job[r] EXCEPT !.chunk = @ + 1]
        <4>1. w \in JobRecords /\ w.state = "active"
          BY <2>1, <3>5 DEF JobRecords, SendChunk
        <4>2. job' = [job EXCEPT ![r] = w]
          BY <1>0, <3>5
        <4> HIDE DEF w
        <4> QED BY <4>1, <4>2
      <3>6. CASE SendChunk(r)
        BY <3>4, <3>5, <3>6 DEF SendChunk
      <3> QED BY <1>8, <3>1, <3>3, <3>6
    <2>5. job' \in [FastRequests -> JobRecords] /\ JobsHaveAttempts' /\ PtsAreGiven'
      <3>1. UNCHANGED rowVars
        BY <2>2 DEF rowVars
      <3> QED BY <2>1, <2>4, <3>1, JobChanges
    <2>6. FastTypeOK'
      BY <1>0, <1>a, <2>2, <2>3, <2>5
    <2> QED BY <2>5, <2>6 DEF FastTypeInv
  <1>9. ASSUME FastWorkerStops PROVE FastTypeInv'
    <2>1. /\ UNCHANGED <<fastRequest, marked, pts, reading, unsure, fastSent, refused, event,
                         emitted, group>>
          /\ fastFaults' \in 0..MaxFastFaults
      BY <1>9, <1>b DEF FastWorkerStops, rowVars, eventVars
    <2>2. /\ job' \in [FastRequests -> JobRecords]
          /\ \A r \in FastRequests : \/ job'[r] = job[r]
                                     \/ job[r].state = "active" /\ job'[r].attempts < MaxJobAttempts
      BY <1>0, <1>9 DEF FastWorkerStops, JobRecords
    <2>3. FastTypeOK'
      BY <1>0, <1>a, <2>1, <2>2
    <2>4. JobsHaveAttempts' /\ PtsAreGiven'
      BY <1>0, <2>1, <2>2 DEF JobsHaveAttempts, PtsAreGiven, HighestPts, NoJob
    <2> QED BY <2>3, <2>4 DEF FastTypeInv
  <1>10. ASSUME UNCHANGED <<fastRequest, marked, pts, reading, unsure, job, fastSent, refused>>,
                event' \in [FastRequests ->
                              {"none", "added", "unread", "pending", "orphan", "acked"}],
                emitted' \subseteq FastRequests, group' \in {"no", "yes"},
                fastFaults' \in 0..MaxFastFaults
         PROVE  FastTypeInv'
    <2>1. FastTypeOK'
      BY <1>0, <1>a, <1>10
    <2>2. JobsHaveAttempts' /\ PtsAreGiven'
      BY <1>0, <1>10 DEF JobsHaveAttempts, PtsAreGiven, HighestPts
    <2> QED BY <2>1, <2>2 DEF FastTypeInv
  <1>11. CASE \/ CreateGroup \/ FanoutStops \/ UNCHANGED fastVars
              \/ \E r \in FastRequests : ReadEvent(r) \/ Emit(r) \/ Acknowledge(r)
    <2>1. UNCHANGED <<fastRequest, marked, pts, reading, unsure, job, fastSent, refused>>
      BY <1>11
         DEF CreateGroup, FanoutStops, ReadEvent, Emit, Acknowledge, fastVars,
             rowVars, jobVars
    <2>2. /\ event' \in [FastRequests -> {"none", "added", "unread", "pending", "orphan", "acked"}]
          /\ emitted' \subseteq FastRequests /\ group' \in {"no", "yes"}
      BY <1>0, <1>11 DEF CreateGroup, FanoutStops, ReadEvent, Emit, Acknowledge, fastVars
    <2>3. fastFaults' \in 0..MaxFastFaults
      BY <1>0, <1>11, <1>b
         DEF CreateGroup, FanoutStops, ReadEvent, Emit, Acknowledge, fastVars
    <2> QED BY <2>1, <2>2, <2>3, <1>10
  <1> QED BY <1>1, <1>2, <1>3, <1>4, <1>5, <1>6, <1>7, <1>8, <1>9, <1>11 DEF FastNext

(* Every variable of the fast reply path (fast-reply and its workers) has  *)
(* its type.                                                               *)
THEOREM FastTypeCorrect == FastSpec => []FastTypeOK
  <1>1. FastInit => FastTypeInv
    BY DEF FastInit, FastTypeInv, FastTypeOK, JobsHaveAttempts, PtsAreGiven, HighestPts, NoJob
  <1>2. FastTypeInv => FastTypeOK
    BY DEF FastTypeInv
  <1> QED BY <1>1, <1>2, FastTypeInvStep, PTL DEF FastSpec

HIDE FastReplyAssumption

-----------------------------------------------------------------------------
(* One-time codes. After no failure both the column and the mirror hold    *)
(* the last code, after one failure one of them; the mirror has more       *)
(* attempts left than checks can take.                                     *)
USE CodesAssumption

AskedRecords ==
    [state : {"new", "refused", "open", "answered", "failed"},
     db : {"none", "pending", "saved", "failed"}, sms : {"none", "pending", "sent", "failed"}]
CheckRecords ==
    [state : {"idle", "reading", "matched", "mismatch", "verified", "unavailable", "sheet"},
     code : Codes \cup {NoCode}]

\* What AnsweredCodeVerifies reads has its type; the window does not matter.
CodesTyped ==
    /\ asked \in [Codes -> AskedRecords] /\ check \in [Checks -> CheckRecords]
    /\ latest \in Codes \cup {NoCode} /\ mirror.left \in Nat /\ checked \in Nat
    /\ mirror \in [code : Codes \cup {NoCode}, left : Nat]
    /\ quiet \in {"yes", "no"} /\ losses \in Nat

\* The checks that may still cost the mirror an attempt.
Trying == {k \in Checks : check[k].state \in {"reading", "mismatch", "unavailable"}}

\* The mirror holds the code of the last request, and each attempt it lost is
\* a check counted since.
MirrorHolds ==
    mirror.code = latest /\ mirror.left + checked >= MaxTries + Cardinality(Trying)

LatestStands ==
    /\ latest \in Codes /\ asked[latest].state \in {"open", "answered"}
    /\ latest \notin expired /\ quiet = "yes" /\ checked < MaxTries

\* No failure: both places hold the code, once its UPDATE has ended.  One
\* failure: one of them.
LatestIsHeld == LatestStands =>
    /\ losses = 0 => /\ MirrorHolds /\ asked[latest].db # "failed"
                     /\ asked[latest].db = "saved" => column = latest
    /\ losses = 1 => MirrorHolds \/ column = latest

\* Nothing that can clear or overwrite a place is under way.
QuietAlone == quiet = "yes" =>
    /\ \A c \in Codes : c # latest => asked[c].db # "pending"
    /\ \A k \in Checks : check[k].state \notin {"matched", "verified"}

\* A request is answered after its UPDATE has ended.
AskedOrder == \A c \in Codes :
    /\ asked[c].state \in {"open", "answered"} => asked[c].db # "none"
    /\ asked[c].state = "answered" => asked[c].db # "pending"

CodesInv ==
    CodesTyped /\ IsFiniteSet(Trying) /\ LatestIsHeld /\ QuietAlone /\ AskedOrder

(* The records of a request and of a check.                                *)
LEMMA TypesOfCodes ==
  ASSUME CodesTyped
  PROVE  /\ \A c \in Codes : asked[c] \in AskedRecords
         /\ \A k \in Checks : check[k] \in CheckRecords
         /\ NotAsked \in AskedRecords /\ NotAsked.state = "new" /\ NotAsked.db = "none"
         /\ NoCheck \in CheckRecords /\ NoCheck.state = "idle"
         /\ NoMirror \in [code : Codes \cup {NoCode}, left : Nat] /\ NoMirror.code = NoCode
  BY DEF CodesTyped, AskedRecords, CheckRecords, NotAsked, NoCheck, NoMirror

(* A step that takes the code out of neither place.                        *)
LEMMA HeldStays ==
  ASSUME CodesInv, UNCHANGED <<latest, mirror, column, checked>>, losses' \in Nat,
         losses' >= losses, LatestStands' => LatestStands /\ Trying' = Trying,
         LatestStands' /\ losses' = 0 => asked'[latest].db = asked[latest].db
  PROVE  LatestIsHeld'
  <1> SUFFICES ASSUME LatestStands'
               PROVE  /\ losses' = 0 => /\ MirrorHolds' /\ asked'[latest].db # "failed"
                                        /\ asked'[latest].db = "saved" => column' = latest'
                      /\ losses' = 1 => MirrorHolds' \/ column' = latest'
    BY DEF LatestIsHeld
  <1>1. MirrorHolds => MirrorHolds'
    BY DEF MirrorHolds
  <1>2. losses \in Nat /\ LatestStands
    BY DEF CodesInv, CodesTyped
  <1>3. losses' = 0 => losses = 0
    BY <1>2
  <1>4. losses' = 1 => losses = 0 \/ losses = 1
    BY <1>2
  <1> QED BY <1>1, <1>2, <1>3, <1>4 DEF CodesInv, LatestIsHeld

(* One request changes, the checks do not.                                 *)
LEMMA CodeGoesOn ==
  ASSUME CodesInv, NEW c \in Codes, NEW u \in AskedRecords, asked' = [asked EXCEPT ![c] = u],
         u.state \in {"open", "answered"} => u.db # "none",
         u.state = "answered" => u.db # "pending",
         quiet' = "yes" => (u.db = "pending" => c = latest'),
         latest' \in Codes \cup {NoCode},
         mirror' \in [code : Codes \cup {NoCode}, left : Nat], losses' \in Nat,
         \/ quiet' = quiet /\ latest' = latest
         \/ quiet' = "no"
         \/ quiet' = "yes" /\ ~InFlight,
         UNCHANGED <<check, checked>>, LatestIsHeld'
  PROVE  CodesInv'
  <1>1. /\ asked' \in [Codes -> AskedRecords] /\ asked'[c] = u
        /\ \A d \in Codes : d # c => asked'[d] = asked[d]
    BY DEF CodesInv, CodesTyped
  <1>2. CodesTyped'
    BY <1>1 DEF CodesInv, CodesTyped
  <1>3. Trying' = Trying
    BY DEF Trying
  <1>4. QuietAlone'
    BY <1>1 DEF CodesInv, QuietAlone, InFlight, CodesTyped
  <1>5. AskedOrder'
    BY <1>1 DEF CodesInv, AskedOrder
  <1> QED BY <1>2, <1>3, <1>4, <1>5 DEF CodesInv

(* One check changes, the requests do not.                                 *)
LEMMA CheckGoesOn ==
  ASSUME CodesInv, NEW k \in Checks, NEW u \in CheckRecords, check' = [check EXCEPT ![k] = u],
         quiet' \in {quiet, "no"}, quiet' = "yes" => u.state \notin {"matched", "verified"},
         mirror' \in [code : Codes \cup {NoCode}, left : Nat], losses' \in Nat, checked' \in Nat,
         UNCHANGED <<asked, latest, expired>>, LatestIsHeld'
  PROVE  CodesInv'
  <1>1. /\ check' \in [Checks -> CheckRecords] /\ check'[k] = u
        /\ \A j \in Checks : j # k => check'[j] = check[j]
    BY DEF CodesInv, CodesTyped
  <1>2. CodesTyped'
    BY <1>1 DEF CodesInv, CodesTyped
  <1>3. Trying' \subseteq Trying \cup {k}
    BY <1>1 DEF Trying
  <1>4. IsFiniteSet(Trying')
    <2>1. IsFiniteSet(Trying \cup {k})
      BY FS_AddElement DEF CodesInv
    <2> QED BY <1>3, <2>1, FS_Subset
  <1>5. QuietAlone'
    BY <1>1 DEF CodesInv, QuietAlone
  <1>6. AskedOrder'
    BY DEF CodesInv, AskedOrder
  <1> QED BY <1>2, <1>4, <1>5, <1>6 DEF CodesInv

(* When a check may still cost the mirror an attempt.                      *)
LEMMA TryingWhen ==
  ASSUME CodesTyped, NEW k \in Checks, NEW u \in CheckRecords, check' = [check EXCEPT ![k] = u]
  PROVE  /\ u.state \in {"reading", "mismatch", "unavailable"} => Trying' = Trying \cup {k}
         /\ u.state \notin {"reading", "mismatch", "unavailable"} => Trying' = Trying \ {k}
  BY DEF CodesTyped, Trying

(* The invariant holds at the start ...                                    *)
LEMMA CodesInvInit == CodesInit => CodesInv
  <1> SUFFICES ASSUME CodesInit PROVE CodesInv
    OBVIOUS
  <1>1. /\ NotAsked \in AskedRecords /\ NotAsked.state = "new"
        /\ NoCheck \in CheckRecords /\ NoCheck.state = "idle"
        /\ NoMirror \in [code : Codes \cup {NoCode}, left : Nat] /\ NoMirror.left \in Nat
    BY DEF NotAsked, NoCheck, NoMirror, AskedRecords, CheckRecords
  <1>2. CodesTyped
    BY <1>1 DEF CodesInit, CodesTyped
  <1>3. Trying = {}
    BY <1>1 DEF CodesInit, Trying
  <1>4. LatestIsHeld /\ QuietAlone /\ AskedOrder
    BY <1>1 DEF CodesInit, LatestIsHeld, LatestStands, QuietAlone, AskedOrder
  <1> QED BY <1>2, <1>3, <1>4, FS_EmptySet DEF CodesInv

(* ... and every step keeps it.                                            *)
LEMMA CodesInvStep == CodesInv /\ [CodesNext]_codesVars => CodesInv'
  <1> SUFFICES ASSUME CodesInv, [CodesNext]_codesVars PROVE CodesInv'
    OBVIOUS
  <1>0. /\ CodesTyped /\ LatestIsHeld /\ QuietAlone /\ AskedOrder /\ IsFiniteSet(Trying)
        /\ \A c \in Codes : asked[c] \in AskedRecords
        /\ \A k \in Checks : check[k] \in CheckRecords
        /\ NotAsked.state = "new" /\ NotAsked.db = "none"
        /\ NoCheck \in CheckRecords /\ NoCheck.state = "idle"
        /\ NoMirror \in [code : Codes \cup {NoCode}, left : Nat] /\ NoMirror.code = NoCode
        /\ latest \in Codes \cup {NoCode} /\ losses \in Nat /\ checked \in Nat
        /\ mirror \in [code : Codes \cup {NoCode}, left : Nat]
        /\ asked \in [Codes -> AskedRecords] /\ quiet \in {"yes", "no"}
    BY TypesOfCodes DEF CodesInv, CodesTyped
  <1>a. Cardinality(Trying) \in Nat
    BY <1>0, FS_CardinalityType
  <1>b. ASSUME Lose PROVE losses' \in Nat /\ losses' = losses + 1 /\ losses' # 0
    BY <1>0, <1>b DEF Lose
  \* A request that goes on and neither asks for a new code nor ends its UPDATE.
  <1>1. ASSUME NEW c \in Codes, NEW u \in AskedRecords, asked' = [asked EXCEPT ![c] = u],
               u.state \in {"open", "answered"} =>
                  u.db # "none" /\ asked[c].state \in {"open", "answered"},
               u.state = "answered" => u.db # "pending",
               u.db = "pending" => asked[c].db = "pending",
               losses' \in Nat, losses' >= losses, losses' = 0 => u.db = asked[c].db,
               UNCHANGED <<latest, mirror, column, expired, check, checked, quiet>>
        PROVE  CodesInv'
    <2>1. asked'[c] = u /\ \A d \in Codes : d # c => asked'[d] = asked[d]
      BY <1>0, <1>1
    <2>2. Trying' = Trying
      BY <1>1 DEF Trying
    <2>3. LatestStands' => LatestStands
      BY <1>1, <2>1 DEF LatestStands
    <2>4. LatestStands' /\ losses' = 0 => asked'[latest].db = asked[latest].db
      BY <1>1, <2>1 DEF LatestStands
    <2>5. LatestIsHeld'
      BY <1>1, <2>2, <2>3, <2>4, HeldStays
    <2>6. quiet' = "yes" => (u.db = "pending" => c = latest')
      BY <1>0, <1>1 DEF QuietAlone
    <2> QED BY <1>0, <1>1, <2>5, <2>6, CodeGoesOn
  <1>2. ASSUME NEW c \in Codes, RefuseRequest(c) PROVE CodesInv'
    <2> DEFINE u == [asked[c] EXCEPT !.state = "refused"]
    <2>1. u \in AskedRecords /\ u.state = "refused" /\ u.db = asked[c].db
      BY <1>0 DEF AskedRecords
    <2>2. /\ asked' = [asked EXCEPT ![c] = u]
          /\ UNCHANGED <<latest, aged, mirror, column, expired, check, checked, quiet, losses>>
      BY <1>2 DEF RefuseRequest
    <2> HIDE DEF u
    <2>9. /\ u.state \in {"open", "answered"} =>
                u.db # "none" /\ asked[c].state \in {"open", "answered"}
          /\ u.state = "answered" => u.db # "pending"
          /\ u.db = "pending" => asked[c].db = "pending"
      BY <1>0, <2>1 DEF AskedOrder
    <2>10. losses' \in Nat /\ losses' >= losses /\ (losses' = 0 => u.db = asked[c].db)
      BY <1>0, <2>1, <2>2
    <2>11. UNCHANGED <<latest, mirror, column, expired, check, checked, quiet>>
      BY <2>2
    <2>12. asked' = [asked EXCEPT ![c] = u]
      BY <2>2
    <2> QED BY <1>1, <2>1, <2>9, <2>10, <2>11, <2>12
  <1>3. ASSUME NEW c \in Codes, SaveFails(c) PROVE CodesInv'
    <2> DEFINE u == [asked[c] EXCEPT !.db = "failed"]
    <2>1. u \in AskedRecords /\ u.state = asked[c].state /\ u.db = "failed"
      BY <1>0 DEF AskedRecords
    <2>2. /\ asked' = [asked EXCEPT ![c] = u] /\ Lose
          /\ UNCHANGED <<latest, sendWindow, aged, mirror, column, expired, check, checked, quiet>>
      BY <1>3 DEF SaveFails
    <2> HIDE DEF u
    <2>9. /\ u.state \in {"open", "answered"} =>
                u.db # "none" /\ asked[c].state \in {"open", "answered"}
          /\ u.state = "answered" => u.db # "pending"
          /\ u.db = "pending" => asked[c].db = "pending"
      BY <1>0, <2>1 DEF AskedOrder
    <2>10. losses' \in Nat /\ losses' >= losses /\ (losses' = 0 => u.db = asked[c].db)
      BY <1>0, <2>1, <2>2, <1>b
    <2>11. UNCHANGED <<latest, mirror, column, expired, check, checked, quiet>>
      BY <2>2
    <2>12. asked' = [asked EXCEPT ![c] = u]
      BY <2>2
    <2> QED BY <1>1, <2>1, <2>9, <2>10, <2>11, <2>12
  <1>4. ASSUME NEW c \in Codes, SendSms(c) PROVE CodesInv'
    <2> DEFINE u == [asked[c] EXCEPT !.sms = "sent"]
    <2>1. u \in AskedRecords /\ u.state = asked[c].state /\ u.db = asked[c].db
      BY <1>0 DEF AskedRecords
    <2>2. /\ asked' = [asked EXCEPT ![c] = u]
          /\ UNCHANGED <<latest, mirror, column, expired, check, checked, quiet, losses>>
      BY <1>4 DEF SendSms
    <2> HIDE DEF u
    <2>9. /\ u.state \in {"open", "answered"} =>
                u.db # "none" /\ asked[c].state \in {"open", "answered"}
          /\ u.state = "answered" => u.db # "pending"
          /\ u.db = "pending" => asked[c].db = "pending"
      BY <1>0, <2>1 DEF AskedOrder
    <2>10. losses' \in Nat /\ losses' >= losses /\ (losses' = 0 => u.db = asked[c].db)
      BY <1>0, <2>1, <2>2
    <2>11. UNCHANGED <<latest, mirror, column, expired, check, checked, quiet>>
      BY <2>2
    <2>12. asked' = [asked EXCEPT ![c] = u]
      BY <2>2
    <2> QED BY <1>1, <2>1, <2>9, <2>10, <2>11, <2>12
  <1>5. ASSUME NEW c \in Codes, AnswerRequest(c) PROVE CodesInv'
    <2> DEFINE u == [asked[c] EXCEPT !.state = "answered"]
    <2>1. u \in AskedRecords /\ u.state = "answered" /\ u.db = asked[c].db
      BY <1>0 DEF AskedRecords
    <2>2. /\ asked' = [asked EXCEPT ![c] = u] /\ asked[c].state = "open"
          /\ asked[c].db # "pending"
          /\ UNCHANGED <<latest, mirror, column, expired, check, checked, quiet, losses>>
      BY <1>5 DEF AnswerRequest
    <2> HIDE DEF u
    <2>9. /\ u.state \in {"open", "answered"} =>
                u.db # "none" /\ asked[c].state \in {"open", "answered"}
          /\ u.state = "answered" => u.db # "pending"
          /\ u.db = "pending" => asked[c].db = "pending"
      BY <1>0, <2>1, <2>2 DEF AskedOrder
    <2>10. losses' \in Nat /\ losses' >= losses /\ (losses' = 0 => u.db = asked[c].db)
      BY <1>0, <2>1, <2>2
    <2>11. UNCHANGED <<latest, mirror, column, expired, check, checked, quiet>>
      BY <2>2
    <2>12. asked' = [asked EXCEPT ![c] = u]
      BY <2>2
    <2> QED BY <1>1, <2>1, <2>9, <2>10, <2>11, <2>12
  <1>6. ASSUME NEW c \in Codes, SmsFails(c) PROVE CodesInv'
    <2> DEFINE v == [asked[c] EXCEPT !.sms = "failed"]
               u == [v EXCEPT !.state = "failed"]
    <2>1. v \in AskedRecords /\ v.db = asked[c].db
      BY <1>0 DEF AskedRecords
    <2>2. /\ asked' = [asked EXCEPT ![c].sms = "failed", ![c].state = "failed"] /\ Lose
          /\ UNCHANGED <<latest, mirror, column, expired, check, checked, quiet>>
      BY <1>6 DEF SmsFails
    <2>3. asked' = [asked EXCEPT ![c] = u]
      BY <1>0, <2>2
    <2> HIDE DEF v
    <2>4. u \in AskedRecords /\ u.state = "failed" /\ u.db = asked[c].db
      BY <2>1 DEF AskedRecords
    <2> HIDE DEF u
    <2>9. /\ u.state \in {"open", "answered"} =>
                u.db # "none" /\ asked[c].state \in {"open", "answered"}
          /\ u.state = "answered" => u.db # "pending"
          /\ u.db = "pending" => asked[c].db = "pending"
      BY <1>0, <2>4 DEF AskedOrder
    <2>10. losses' \in Nat /\ losses' >= losses /\ (losses' = 0 => u.db = asked[c].db)
      BY <1>0, <1>b, <2>2, <2>4
    <2>11. UNCHANGED <<latest, mirror, column, expired, check, checked, quiet>>
      BY <2>2
    <2> QED BY <1>1, <2>4, <2>9, <2>10, <2>11, <2>3
  <1>7. ASSUME NEW c \in Codes, RequestCode(c) PROVE CodesInv'
    <2> DEFINE u == [state |-> "open", db |-> "pending", sms |-> "pending"]
    <2>1. u \in AskedRecords /\ u.state = "open" /\ u.db = "pending"
      BY DEF AskedRecords
    <2>2. /\ asked' = [asked EXCEPT ![c] = u] /\ latest' = c
          /\ mirror' = [code |-> c, left |-> MaxTries]
          /\ quiet' = IF InFlight THEN "no" ELSE "yes"
          /\ UNCHANGED <<column, expired, check, checked, losses>>
      BY <1>7 DEF RequestCode
    <2> HIDE DEF u
    <2>3. asked'[c] = u
      BY <1>0, <2>2
    <2>4. /\ mirror' \in [code : Codes \cup {NoCode}, left : Nat]
          /\ mirror'.code = c /\ mirror'.left = MaxTries
      BY <2>2
    <2>5. ASSUME LatestStands' PROVE MirrorHolds'
      <3>1. ~InFlight
        BY <2>2, <2>5 DEF LatestStands
      <3>2. Trying' = {}
        BY <2>2, <3>1 DEF InFlight, Trying
      <3>3. Cardinality(Trying') = 0
        BY <3>2, FS_EmptySet
      <3> QED BY <1>0, <2>2, <2>4, <3>3 DEF MirrorHolds
    <2>6. LatestIsHeld'
      BY <2>1, <2>2, <2>3, <2>5 DEF LatestIsHeld
    <2> QED BY <1>0, <2>1, <2>2, <2>4, <2>6, CodeGoesOn
  <1>8. ASSUME NEW c \in Codes, SaveCode(c) PROVE CodesInv'
    <2> DEFINE u == [asked[c] EXCEPT !.db = "saved"]
    <2>1. u \in AskedRecords /\ u.state = asked[c].state /\ u.db = "saved"
      BY <1>0 DEF AskedRecords
    <2>2. /\ asked' = [asked EXCEPT ![c] = u] /\ column' = c /\ asked[c].db = "pending"
          /\ UNCHANGED <<latest, mirror, expired, check, checked, quiet, losses>>
      BY <1>8 DEF SaveCode
    <2> HIDE DEF u
    <2>3. Trying' = Trying
      BY <2>2 DEF Trying
    <2>4. LatestStands' => LatestStands /\ c = latest
      BY <1>0, <2>1, <2>2 DEF LatestStands, QuietAlone
    <2>5. MirrorHolds => MirrorHolds'
      BY <2>2, <2>3 DEF MirrorHolds
    <2>6. asked'[c].db = "saved"
      BY <1>0, <2>1, <2>2
    <2>7. LatestIsHeld'
      BY <1>0, <2>2, <2>4, <2>5, <2>6 DEF LatestIsHeld
    <2> QED BY <1>0, <2>1, <2>2, <2>7, CodeGoesOn
  <1>9. ASSUME NEW c \in Codes, Ages(c) \/ Expires(c) PROVE CodesInv'
    <2>1. /\ UNCHANGED <<asked, latest, mirror, column, check, checked, quiet, losses>>
          /\ expired \subseteq expired'
      BY <1>9 DEF Ages, Expires
    <2>2. Trying' = Trying /\ (LatestStands' => LatestStands)
      BY <2>1 DEF Trying, LatestStands
    <2>3. LatestIsHeld'
      BY <1>0, <2>1, <2>2, HeldStays
    <2> QED BY <1>0, <2>1, <2>2, <2>3 DEF CodesInv, CodesTyped, QuietAlone, AskedOrder
  <1>10. ASSUME NEW k \in Checks, NEW c \in Codes, BeginCheck(k, c) PROVE CodesInv'
    <2> DEFINE u == [state |-> "reading", code |-> c]
    <2>1. u \in CheckRecords /\ u.state = "reading"
      BY DEF CheckRecords
    <2>2. /\ check' = [check EXCEPT ![k] = u] /\ checked' = checked + 1 /\ check[k] = NoCheck
          /\ UNCHANGED <<asked, latest, expired, mirror, column, quiet, losses>>
      BY <1>10 DEF BeginCheck, askVars
    <2> HIDE DEF u
    <2>3. k \notin Trying /\ Trying' = Trying \cup {k}
      BY <1>0, <2>1, <2>2, TryingWhen DEF Trying
    <2>4. Cardinality(Trying') = Cardinality(Trying) + 1
      BY <1>0, <2>3, FS_AddElement
    <2>5. MirrorHolds => MirrorHolds'
      BY <1>0, <1>a, <2>2, <2>4 DEF MirrorHolds
    <2>6. LatestStands' => LatestStands
      BY <1>0, <2>2 DEF LatestStands
    <2>7. LatestIsHeld'
      BY <1>0, <2>2, <2>5, <2>6 DEF LatestIsHeld
    <2>8. /\ quiet' \in {quiet, "no"} /\ u.state \notin {"matched", "verified"}
          /\ mirror' \in [code : Codes \cup {NoCode}, left : Nat]
          /\ losses' \in Nat /\ checked' \in Nat
          /\ UNCHANGED <<asked, latest, expired>>
      BY <1>0, <2>1, <2>2
    <2>9. check' = [check EXCEPT ![k] = u]
      BY <2>2
    <2> QED BY <2>1, <2>7, <2>8, <2>9, CheckGoesOn
  <1>11. ASSUME NEW k \in Checks, ReadColumn(k) \/ ReadColumnFails(k) \/ AskSheet(k)
         PROVE  CodesInv'
    <2>1. /\ check[k].state \in {"reading", "sheet"}
          /\ quiet' \in {quiet, "no"} /\ losses' \in {losses, losses + 1}
          /\ UNCHANGED <<asked, latest, expired, mirror, column, checked>>
      BY <1>0, <1>11, <1>b DEF ReadColumn, ReadColumnFails, AskSheet, askVars
    <2>2. PICK u \in CheckRecords :
            /\ check' = [check EXCEPT ![k] = u]
            /\ quiet' = "yes" => u.state \notin {"matched", "verified"}
            /\ quiet' = "yes" => (u.state \in {"reading", "mismatch", "unavailable"}
                                  <=> check[k].state = "reading")
      <3>1. ASSUME NEW state \in {"matched", "mismatch", "unavailable"}
            PROVE  /\ [check[k] EXCEPT !.state = state] \in CheckRecords
                   /\ [check[k] EXCEPT !.state = state].state = state
        BY <1>0 DEF CheckRecords
      <3>2. CASE ReadColumn(k)
        <4>1. CASE MatchesColumn(check[k].code)
          BY <3>1, <3>2, <4>1 DEF ReadColumn
        <4>2. CASE ~MatchesColumn(check[k].code)
          BY <3>1, <3>2, <4>2 DEF ReadColumn
        <4> QED BY <4>1, <4>2
      <3>3. CASE ReadColumnFails(k)
        BY <3>1, <3>3 DEF ReadColumnFails
      <3>4. CASE AskSheet(k)
        BY <1>0, <3>4 DEF AskSheet
      <3> QED BY <1>11, <3>2, <3>3, <3>4
    <2>3. quiet' = "yes" => Trying' = Trying
      BY <1>0, <2>1, <2>2, TryingWhen DEF Trying
    <2>4. LatestStands' => LatestStands /\ Trying' = Trying
      BY <1>0, <2>1, <2>3 DEF LatestStands
    <2>5. LatestIsHeld'
      BY <1>0, <2>1, <2>4, HeldStays
    <2>6. /\ mirror' \in [code : Codes \cup {NoCode}, left : Nat]
          /\ losses' \in Nat /\ checked' \in Nat
          /\ quiet' \in {quiet, "no"} /\ UNCHANGED <<asked, latest, expired>>
      BY <1>0, <2>1
    <2> QED BY <2>2, <2>5, <2>6, CheckGoesOn
  <1>12. ASSUME NEW k \in Checks, ClearColumn(k) \/ Accept(k) PROVE CodesInv'
    <2>1. /\ check[k].state \in {"matched", "verified"} /\ quiet' = quiet
          /\ mirror' \in {mirror, NoMirror} /\ losses' \in Nat
          /\ UNCHANGED <<asked, latest, expired, checked>>
      BY <1>0, <1>12, <1>b DEF ClearColumn, Accept, askVars
    <2>2. quiet' = "no"
      BY <1>0, <2>1 DEF QuietAlone
    <2>3. PICK u \in CheckRecords : check' = [check EXCEPT ![k] = u]
      <3>1. [check[k] EXCEPT !.state = "verified"] \in CheckRecords
        BY <1>0 DEF CheckRecords
      <3> QED BY <1>0, <1>12, <3>1 DEF ClearColumn, Accept
    <2>4. LatestIsHeld'
      BY <2>2 DEF LatestIsHeld, LatestStands
    <2> QED BY <1>0, <2>1, <2>2, <2>3, <2>4, CheckGoesOn
  <1>13. ASSUME NEW k \in Checks, CheckMirror(k) PROVE CodesInv'
    <2> DEFINE c == check[k].code
    <2>1. /\ check[k].state \in {"mismatch", "unavailable"} /\ mirror' = MirrorAfter(c)
          /\ quiet' = (IF MatchesMirror(c) THEN "no" ELSE quiet)
          /\ UNCHANGED <<asked, latest, expired, column, checked, losses>>
      BY <1>13 DEF CheckMirror, askVars
    <2>2. c \in Codes \cup {NoCode}
      BY <1>0 DEF CheckRecords
    <2>3. PICK u \in {NoCheck, [state |-> "sheet", code |-> c]} : check' = [check EXCEPT ![k] = u]
      <3>1. CASE ~MatchesMirror(c) /\ check[k].state = "unavailable"
        BY <1>13, <3>1 DEF CheckMirror
      <3>2. CASE ~(~MatchesMirror(c) /\ check[k].state = "unavailable")
        BY <1>13, <3>2 DEF CheckMirror
      <3> QED BY <3>1, <3>2
    <2>4. u \in CheckRecords /\ u.state \in {"idle", "sheet"}
      BY <1>0, <2>2, <2>3 DEF CheckRecords
    <2>5. k \in Trying /\ Trying' = Trying \ {k}
      BY <1>0, <2>1, <2>3, <2>4, TryingWhen DEF Trying
    <2>6. Cardinality(Trying') = Cardinality(Trying) - 1 /\ Cardinality(Trying) - 1 \in Nat
      <3>1. IsFiniteSet(Trying') /\ Cardinality(Trying') = Cardinality(Trying) - 1
        BY <1>0, <2>5, FS_RemoveElement
      <3> QED BY <3>1, FS_CardinalityType
    <2>7. mirror' \in [code : Codes \cup {NoCode}, left : Nat]
      <3>1. mirror.left > 1 => [mirror EXCEPT !.left = @ - 1] \in
               [code : Codes \cup {NoCode}, left : Nat]
        BY <1>0
      <3>2. mirror.left \in Nat
        BY <1>0
      <3> QED BY <1>0, <2>1, <3>1, <3>2 DEF MirrorAfter
    <2>8. ASSUME LatestStands' PROVE LatestStands /\ (MirrorHolds => MirrorHolds')
      <3>1. LatestStands /\ ~MatchesMirror(c)
        BY <1>0, <2>1, <2>8 DEF LatestStands
      <3>2. ASSUME MirrorHolds PROVE MirrorHolds'
        <4>1. mirror.code = latest /\ mirror.code \notin expired /\ mirror.code # c
          BY <3>1, <3>2 DEF MirrorHolds, MatchesMirror, LatestStands
        <4>2. mirror.left \in Nat /\ mirror.left > 1
          BY <1>0, <1>a, <2>6, <3>1, <3>2 DEF MirrorHolds, LatestStands
        <4>3. mirror' = [mirror EXCEPT !.left = @ - 1]
          BY <2>1, <4>1, <4>2 DEF MirrorAfter
        <4>4. mirror'.code = latest /\ mirror'.left = mirror.left - 1
          BY <1>0, <4>1, <4>3
        <4> QED BY <1>0, <1>a, <2>1, <2>6, <3>2, <4>2, <4>4 DEF MirrorHolds
      <3> QED BY <3>1, <3>2
    <2>9. LatestIsHeld'
      BY <1>0, <2>1, <2>8 DEF LatestIsHeld
    <2> QED BY <1>0, <2>1, <2>3, <2>4, <2>7, <2>9, CheckGoesOn
  <1>14. CASE RestartServer
    <2>1. /\ Lose /\ mirror' = NoMirror /\ check' = [k \in Checks |-> NoCheck]
          /\ asked' = [c \in Codes |->
                [asked[c] EXCEPT !.state = IF @ = "open" THEN "failed" ELSE @,
                                 !.db = IF @ = "pending" THEN "failed" ELSE @,
                                 !.sms = IF @ = "pending" THEN "failed" ELSE @]]
          /\ UNCHANGED <<latest, column, expired, checked, quiet>>
      BY <1>14 DEF RestartServer
    <2>2. ASSUME NEW c \in Codes
          PROVE  /\ asked'[c] \in AskedRecords
                 /\ asked'[c].state = IF asked[c].state = "open" THEN "failed"
                                      ELSE asked[c].state
                 /\ asked'[c].db = IF asked[c].db = "pending" THEN "failed" ELSE asked[c].db
      BY <1>0, <2>1 DEF AskedRecords
    <2>3. CodesTyped'
      <3>1. asked' \in [Codes -> AskedRecords]
        BY <2>1, <2>2
      <3> QED BY <1>0, <1>b, <2>1, <3>1 DEF CodesTyped
    <2>4. Trying' = {} /\ IsFiniteSet(Trying')
      BY <1>0, <2>1, FS_EmptySet DEF Trying
    <2>5. ASSUME LatestStands' PROVE losses' = 1 => column' = latest'
      <3>a. /\ latest \in Codes /\ latest \notin expired /\ quiet = "yes"
            /\ checked < MaxTries /\ asked'[latest].state \in {"open", "answered"}
        BY <2>1, <2>5 DEF LatestStands
      <3>b. asked[latest].state = "answered"
        BY <2>2, <3>a
      <3>1. /\ LatestStands /\ asked[latest].state = "answered" /\ latest \in Codes
        BY <3>a, <3>b DEF LatestStands
      <3>2. asked[latest].db \in {"saved", "failed"}
        BY <1>0, <3>1 DEF AskedOrder, AskedRecords
      <3>3. losses' = 1 => losses = 0
        <4>1. losses \in Nat /\ losses' = losses + 1
          BY <1>0, <1>b, <2>1
        <4> QED BY <4>1
      <3> QED BY <1>0, <2>1, <3>1, <3>2, <3>3 DEF LatestIsHeld
    <2>6. LatestIsHeld'
      BY <1>b, <2>1, <2>5 DEF LatestIsHeld
    <2>7. AskedOrder'
      BY <1>0, <2>2 DEF AskedOrder
    <2>8. QuietAlone'
      BY <1>0, <2>1, <2>2 DEF QuietAlone
    <2> QED BY <2>3, <2>4, <2>6, <2>7, <2>8 DEF CodesInv
  <1>15. CASE ColumnOverwritten
    <2>1. Lose /\ UNCHANGED <<asked, latest, expired, mirror, check, checked, quiet>>
      BY <1>15 DEF ColumnOverwritten, askVars
    <2>2. Trying' = Trying /\ (LatestStands' => LatestStands)
      BY <2>1 DEF Trying, LatestStands
    <2>3. MirrorHolds => MirrorHolds'
      BY <2>1, <2>2 DEF MirrorHolds
    <2>4. losses' = 1 => losses = 0
      <3>1. losses \in Nat /\ losses' = losses + 1
        BY <1>0, <1>b, <2>1
      <3> QED BY <3>1
    <2>5. LatestIsHeld'
      BY <1>0, <1>b, <2>1, <2>2, <2>3, <2>4 DEF LatestIsHeld
    <2> QED BY <1>0, <1>b, <2>1, <2>2, <2>5 DEF CodesInv, CodesTyped, QuietAlone, AskedOrder
  <1>16. CASE UNCHANGED codesVars
    <2>1. Trying' = Trying
      BY <1>16 DEF codesVars, Trying
    <2> QED BY <1>0, <1>16, <2>1
               DEF codesVars, CodesInv, CodesTyped, QuietAlone, AskedOrder,
               LatestIsHeld, LatestStands, MirrorHolds
  <1> QED BY <1>2, <1>3, <1>4, <1>5, <1>6, <1>7, <1>8, <1>9, <1>10, <1>11, <1>12, <1>13, <1>14,
             <1>15, <1>16 DEF CodesNext

(* The code of a request answered with success can be verified after any   *)
(* single failure (request-code, verify-code), for any codes, checks and   *)
(* limits.                                                                 *)
THEOREM AnsweredCodeVerifiesInvariant == CodesSpec => []AnsweredCodeVerifies
  <1>1. CodesInv => AnsweredCodeVerifies
    <2> SUFFICES ASSUME CodesInv, latest # NoCode, asked[latest].state = "answered",
                        latest \notin expired, quiet = "yes", losses <= 1, checked < MaxTries
                 PROVE  Verifiable(latest)
      BY DEF AnsweredCodeVerifies
    <2>1. LatestStands /\ losses \in Nat
      BY DEF CodesInv, CodesTyped, LatestStands
    <2>2. losses = 0 \/ losses = 1
      BY <2>1
    <2> QED BY <2>1, <2>2 DEF CodesInv, LatestIsHeld, MirrorHolds, Verifiable
  <1> QED BY <1>1, CodesInvInit, CodesInvStep, PTL DEF CodesSpec

HIDE CodesAssumption

-----------------------------------------------------------------------------
(* The types of the one-time codes. The window is cut from its old end,    *)
(* the mirror loses an attempt only while it has another.                  *)
USE CodesAssumption

Windows == {w \in Seq(Codes) : Len(w) <= MaxSends}
MirrorRecords == {NoMirror} \cup [code : Codes, left : 1..MaxTries]

(* What is left of the window, and what a request that was undone leaves,  *)
(* are windows.                                                            *)
LEMMA WindowsAreCut ==
  ASSUME sendWindow \in Windows
  PROVE  /\ CountedInWindow \in Windows /\ Rollback \in Windows
         /\ \A c \in Codes : Len(CountedInWindow) < MaxSends
                              => Append(CountedInWindow, c) \in Windows
  <1> DEFINE old == {i \in 1..Len(sendWindow) : sendWindow[i] \in aged}
             n   == Cardinality(old)
  <1>1. sendWindow \in Seq(Codes) /\ Len(sendWindow) \in Nat /\ Len(sendWindow) <= MaxSends
        /\ \A i \in 1..Len(sendWindow) : sendWindow[i] \in Codes
    BY DEF Windows
  <1>2. n \in Nat
    <2>1. IsFiniteSet(1..Len(sendWindow))
      BY <1>1, FS_Interval
    <2>2. old \in SUBSET (1..Len(sendWindow))
      OBVIOUS
    <2> HIDE DEF old
    <2> QED BY <2>1, <2>2, FS_Subset, FS_CardinalityType
  <1>3. ASSUME NEW i \in Nat, NEW j \in Int, i >= 1, j <= Len(sendWindow)
        PROVE  SubSeq(sendWindow, i, j) \in Windows
    <2>1. \A k \in i..j : sendWindow[k] \in Codes
      BY <1>1, <1>3
    <2>2. /\ SubSeq(sendWindow, i, j) \in Seq(Codes)
          /\ Len(SubSeq(sendWindow, i, j)) = IF i <= j THEN j - i + 1 ELSE 0
      BY <2>1, <1>3, SubSeqProperties
    <2>3. Len(SubSeq(sendWindow, i, j)) <= MaxSends
      BY <2>2, <1>1, <1>3
    <2> QED BY <2>2, <2>3 DEF Windows
  <1>4. CountedInWindow \in Windows
    <2>1. CountedInWindow = SubSeq(sendWindow, n + 1, Len(sendWindow))
      BY DEF CountedInWindow
    <2> HIDE DEF n
    <2> QED BY <2>1, <1>1, <1>2, <1>3
  <1>5. Rollback \in Windows
    <2>1. CASE sendWindow = << >>
      BY <2>1 DEF Rollback
    <2>2. CASE sendWindow # << >>
      <3>1. Rollback = SubSeq(sendWindow, 1, Len(sendWindow) - 1)
        BY <2>2 DEF Rollback
      <3> QED BY <3>1, <1>1, <1>3
    <2> QED BY <2>1, <2>2
  <1>6. ASSUME NEW c \in Codes, Len(CountedInWindow) < MaxSends
        PROVE  Append(CountedInWindow, c) \in Windows
    <2> DEFINE w == CountedInWindow
    <2>1. w \in Seq(Codes) /\ Len(w) < MaxSends
      BY <1>4, <1>6 DEF Windows
    <2> HIDE DEF w
    <2>2. Append(w, c) \in Seq(Codes) /\ Len(Append(w, c)) = Len(w) + 1 /\ Len(w) \in Nat
      BY <2>1
    <2> QED BY <2>1, <2>2 DEF Windows, w
  <1> QED BY <1>4, <1>5, <1>6

CodesTypes ==
    /\ asked \in [Codes -> AskedRecords] /\ latest \in Codes \cup {NoCode}
    /\ sendWindow \in Windows /\ aged \subseteq Codes /\ expired \subseteq Codes
    /\ mirror \in MirrorRecords /\ column \in Codes \cup {NoCode}
    /\ check \in [Checks -> CheckRecords] /\ checked \in 0..MaxChecks
    /\ quiet \in {"yes", "no"} /\ losses \in 0..MaxLosses

(* Every variable of the one-time codes has its type: no window holds more *)
(* requests than the limit, and the mirror never has attempts left below   *)
(* one (consumeRateLimitEntry, request-code, verify-code).                 *)
THEOREM CodesTypeCorrect == CodesSpec => []CodesTypeOK
  <1>1. CodesInit => CodesTypes
    BY DEF CodesInit, CodesTypes, AskedRecords, CheckRecords, NotAsked, NoCheck, Windows,
           MirrorRecords
  <1>2. CodesTypes /\ [CodesNext]_codesVars => CodesTypes'
    <2> SUFFICES ASSUME CodesTypes, [CodesNext]_codesVars PROVE CodesTypes'
      OBVIOUS
    <2>0. /\ asked \in [Codes -> AskedRecords] /\ latest \in Codes \cup {NoCode}
          /\ sendWindow \in Windows /\ aged \subseteq Codes /\ expired \subseteq Codes
          /\ mirror \in MirrorRecords /\ column \in Codes \cup {NoCode}
          /\ check \in [Checks -> CheckRecords] /\ checked \in 0..MaxChecks
          /\ quiet \in {"yes", "no"} /\ losses \in 0..MaxLosses
      BY DEF CodesTypes
    <2>a. Lose => losses' \in 0..MaxLosses
      BY <2>0 DEF Lose
    <2>1. ASSUME NEW c \in Codes,
                 RefuseRequest(c) \/ RequestCode(c) \/ SaveCode(c) \/ SaveFails(c) \/ SendSms(c)
                   \/ AnswerRequest(c) \/ SmsFails(c)
          PROVE  CodesTypes'
      <3>1. asked' \in [Codes -> AskedRecords]
        <4>1. asked[c] \in AskedRecords
          BY <2>0
        <4>2. CASE RefuseRequest(c)
          BY <2>0, <4>1, <4>2 DEF RefuseRequest, AskedRecords
        <4>3. CASE RequestCode(c)
          BY <2>0, <4>3 DEF RequestCode, AskedRecords
        <4>4. CASE SaveCode(c) \/ SaveFails(c)
          BY <2>0, <4>1, <4>4 DEF SaveCode, SaveFails, AskedRecords
        <4>5. CASE SendSms(c) \/ AnswerRequest(c)
          BY <2>0, <4>1, <4>5 DEF SendSms, AnswerRequest, AskedRecords
        <4>6. CASE SmsFails(c)
          <5> DEFINE u == [asked[c] EXCEPT !.sms = "failed", !.state = "failed"]
          <5>1. u \in AskedRecords
            BY <4>1 DEF AskedRecords
          <5>2. asked' = [asked EXCEPT ![c] = u]
            BY <2>0, <4>6 DEF SmsFails
          <5> HIDE DEF u
          <5> QED BY <2>0, <5>1, <5>2
        <4> QED BY <2>1, <4>2, <4>3, <4>4, <4>5, <4>6
      <3>2. sendWindow' \in Windows
        <4>1. \/ sendWindow' \in {sendWindow, CountedInWindow, Rollback}
              \/ /\ Len(CountedInWindow) < MaxSends
                 /\ sendWindow' = Append(CountedInWindow, c)
          BY <2>1
             DEF RefuseRequest, RequestCode, SaveCode, SaveFails, SendSms,
                 AnswerRequest, SmsFails
        <4> QED BY <2>0, <4>1, WindowsAreCut
      <3>3. mirror' \in MirrorRecords
        BY <2>0, <2>1
           DEF RefuseRequest, RequestCode, SaveCode, SaveFails, SendSms,
               AnswerRequest,
                          SmsFails, MirrorRecords
      <3>4. /\ latest' \in Codes \cup {NoCode} /\ column' \in Codes \cup {NoCode}
            /\ quiet' \in {"yes", "no"} /\ losses' \in 0..MaxLosses
            /\ UNCHANGED <<aged, expired, check, checked>>
        BY <2>0, <2>1, <2>a DEF RefuseRequest, RequestCode, SaveCode, SaveFails, SendSms,
                                AnswerRequest, SmsFails
      <3> QED BY <2>0, <3>1, <3>2, <3>3, <3>4 DEF CodesTypes
    <2>2. ASSUME NEW k \in Checks,
                 \/ ReadColumn(k) \/ ReadColumnFails(k) \/ ClearColumn(k) \/ Accept(k)
                 \/ CheckMirror(k) \/ AskSheet(k)
                 \/ \E c \in Codes : BeginCheck(k, c)
          PROVE  CodesTypes'
      <3>0. check[k] \in CheckRecords /\ NoCheck \in CheckRecords
        BY <2>0 DEF CheckRecords, NoCheck
      <3>1. check' \in [Checks -> CheckRecords]
        BY <2>0, <3>0, <2>2
           DEF ReadColumn, ReadColumnFails, ClearColumn, Accept, CheckMirror,
                                AskSheet, BeginCheck, CheckRecords
      <3>2. mirror' \in MirrorRecords
        <4>1. \/ mirror' \in {mirror, NoMirror}
              \/ ~(mirror.left <= 1) /\ mirror' = [mirror EXCEPT !.left = @ - 1]
          BY <2>2
             DEF ReadColumn, ReadColumnFails, ClearColumn, Accept,
                 CheckMirror, AskSheet,
                      BeginCheck, MirrorAfter, askVars
        <4> QED BY <2>0, <4>1 DEF MirrorRecords, NoMirror
      <3>3. /\ column' \in Codes \cup {NoCode} /\ checked' \in 0..MaxChecks
            /\ quiet' \in {"yes", "no"} /\ losses' \in 0..MaxLosses
            /\ UNCHANGED askVars
        BY <2>0, <2>2, <2>a
           DEF ReadColumn, ReadColumnFails, ClearColumn, Accept, CheckMirror,
                                AskSheet, BeginCheck
      <3> QED BY <2>0, <3>1, <3>2, <3>3 DEF CodesTypes, askVars
    <2>3. CASE RestartServer
      <3>1. asked' \in [Codes -> AskedRecords]
        <4> DEFINE v(c) == [asked[c] EXCEPT !.state = IF @ = "open" THEN "failed" ELSE @,
                                            !.db = IF @ = "pending" THEN "failed" ELSE @,
                                            !.sms = IF @ = "pending" THEN "failed" ELSE @]
        <4>1. \A c \in Codes : asked[c] \in AskedRecords
          BY <2>0
        <4>2. \A c \in Codes : v(c) \in AskedRecords
          BY <4>1 DEF AskedRecords
        <4>3. asked' = [c \in Codes |-> v(c)]
          BY <2>3 DEF RestartServer
        <4> HIDE DEF v
        <4> QED BY <4>2, <4>3
      <3>2. sendWindow' \in Windows /\ mirror' \in MirrorRecords
        <4>1. << >> \in Seq(Codes) /\ Len(<< >>) = 0 /\ MaxSends >= 0
          BY DEF CodesAssumption
        <4>2. sendWindow' = << >> /\ mirror' = NoMirror
          BY <2>3 DEF RestartServer
        <4> QED BY <2>0, <4>1, <4>2 DEF Windows, MirrorRecords, NoMirror
      <3>3. check' \in [Checks -> CheckRecords]
        BY <2>3 DEF RestartServer, CheckRecords, NoCheck
      <3>4. /\ losses' \in 0..MaxLosses
            /\ UNCHANGED <<latest, aged, column, expired, checked, quiet>>
        BY <2>3, <2>a DEF RestartServer
      <3> QED BY <2>0, <3>1, <3>2, <3>3, <3>4 DEF CodesTypes
    <2>4. CASE \/ ColumnOverwritten \/ UNCHANGED codesVars
               \/ \E c \in Codes : Ages(c) \/ Expires(c)
      <3>1. /\ column' \in Codes \cup {NoCode} /\ aged' \subseteq Codes
            /\ expired' \subseteq Codes /\ losses' \in 0..MaxLosses
            /\ UNCHANGED <<asked, latest, sendWindow, mirror, check, checked, quiet>>
        BY <2>0, <2>4, <2>a DEF ColumnOverwritten, Ages, Expires, codesVars, askVars
      <3> QED BY <2>0, <3>1 DEF CodesTypes
    <2> QED BY <2>1, <2>2, <2>3, <2>4 DEF CodesNext
  <1>3. CodesTypes => CodesTypeOK
    BY DEF CodesTypes, CodesTypeOK, AskedRecords, CheckRecords, Windows, MirrorRecords
  <1> QED BY <1>1, <1>2, <1>3, PTL DEF CodesSpec

HIDE CodesAssumption

-----------------------------------------------------------------------------
(* Push subscriptions. Whatever the server, the sheet and the sends hold,  *)
(* the browser once had; the live endpoint a send owes its message is      *)
(* still in memory.                                                        *)
USE SubscriptionsAssumption

SendRecords ==
    [kind : {"message", "refresh"},
     at : {"idle", "load", "force", "discover", "send", "retry", "done"},
     limit : Limits \cup {0},
     targets : SUBSET Endpoints, tried : SUBSET Endpoints, ok : SUBSET Endpoints,
     gone : SUBSET Endpoints, retried : {"yes", "no"}, shaken : {"yes", "no"},
     leftOut : SUBSET Endpoints, owed : SUBSET Endpoints]

SubscriptionsTyped ==
    /\ SubscriptionsTypeOK
    /\ send \in [Sends -> SendRecords]

\* Whatever the server, the sheet and the sends hold, the browser once had.
OnlyIssued ==
    /\ device \in issued \cup {NoEndpoint}
    /\ \A r \in regPosts : r.ep \in issued
    /\ forwarded \subseteq issued /\ dbCell \in issued \cup {NoEndpoint}
    /\ localSubs \subseteq issued /\ subCache.subs \subseteq issued
    /\ \A p \in Sends : /\ send[p].targets \subseteq issued
                        /\ send[p].gone \subseteq issued /\ send[p].owed \subseteq issued

\* The endpoint that is live was gone for no send.
LiveIsNotGone == \A p \in Sends : device \notin send[p].gone

\* What the limit left out of a send was not tried.
LeftOutIsUntried == \A p \in Sends : send[p].leftOut \cap send[p].tried = {}

\* The live endpoint a send under way owes its message is still in memory, and
\* once there are targets it is among those left to try or was left out.
GoesOn(p) == send[p].at \notin {"idle", "done"}
OwedIsTried == \A p \in Sends :
    GoesOn(p) /\ send[p].ok = {} /\ send[p].shaken = "no" /\ device \in send[p].owed =>
        /\ device \in localSubs
        /\ send[p].at = "retry" => device \in send[p].leftOut
        /\ send[p].at = "send" => device \in send[p].targets \cup send[p].leftOut

SubscriptionsInv ==
    /\ SubscriptionsTyped
    /\ OnlyIssued
    /\ LiveIsNotGone
    /\ LeftOutIsUntried
    /\ OwedIsTried
    /\ FailedMeansUnreachable

\* A browser keeps its endpoint, gives it up or gets one it never had.
DeviceMoves ==
    /\ device' \in Some /\ issued' \subseteq Endpoints /\ issued \subseteq issued'
    /\ device' = device \/ device' \notin issued
    /\ device' \in issued' \cup {NoEndpoint}

(* The browser keeps its endpoint, drops it or gets a new one; the sends   *)
(* under way know only older ones.                                         *)
LEMMA MovedDevice ==
  ASSUME SubscriptionsInv, DeviceMoves,
         UNCHANGED <<forwarded, dbCell, localSubs, subCache, send, subsLoad>>,
         storedEndpoint' \in Some, pushFaults' \in 0..MaxPushFaults,
         regPosts' \subseteq [by : {"page", "worker"}, ep : Endpoints],
         \A r \in regPosts' : r.ep \in issued'
  PROVE  SubscriptionsInv'
  <1>1. SubscriptionsTyped'
    BY DEF SubscriptionsInv, SubscriptionsTyped, SubscriptionsTypeOK, DeviceMoves
  <1>2. OnlyIssued'
    BY DEF SubscriptionsInv, OnlyIssued, DeviceMoves
  <1>3. \A p \in Sends : /\ device' \in send[p].gone => device' = device
                         /\ device' \in send[p].owed => device' = device
    BY DEF SubscriptionsInv, OnlyIssued, DeviceMoves
  <1>4. LiveIsNotGone' /\ LeftOutIsUntried' /\ OwedIsTried' /\ FailedMeansUnreachable'
    BY <1>3 DEF SubscriptionsInv, LiveIsNotGone, LeftOutIsUntried, OwedIsTried, GoesOn, FailedMeansUnreachable
  <1> QED BY <1>1, <1>2, <1>4 DEF SubscriptionsInv

(* A send goes on as the record s, memory and cache change beside it.      *)
LEMMA SendKeeps ==
  ASSUME SubscriptionsInv, NEW p \in Sends, NEW s \in SendRecords,
         send' = [send EXCEPT ![p] = s],
         UNCHANGED <<deviceVars, sheetVars, subsLoad>>,
         pushFaults' \in 0..MaxPushFaults,
         localSubs' \subseteq localSubs, device \in localSubs => device \in localSubs',
         subCache' \in [age : {"none", "fresh", "old"}, subs : SUBSET Endpoints],
         subCache'.subs \subseteq issued,
         s.targets \cup s.gone \cup s.owed \subseteq issued, device \notin s.gone,
         s.at = "done" => s.owed = {}, s.leftOut \cap s.tried = {},
         s.at \notin {"idle", "done"} /\ s.ok = {} /\ s.shaken = "no" /\ device \in s.owed =>
            /\ device \in localSubs'
            /\ s.at = "retry" => device \in s.leftOut
            /\ s.at = "send" => device \in s.targets \cup s.leftOut
  PROVE  SubscriptionsInv'
  <1>1. /\ send' \in [Sends -> SendRecords] /\ send'[p] = s
        /\ \A q \in Sends \ {p} : send'[q] = send[q]
        /\ UNCHANGED <<device, issued, storedEndpoint, regPosts, forwarded, dbCell, subsLoad>>
    BY DEF SubscriptionsInv, SubscriptionsTyped, deviceVars, sheetVars
  <1>2. SubscriptionsTypeOK'
    BY <1>1 DEF SubscriptionsInv, SubscriptionsTyped, SubscriptionsTypeOK, SendRecords
  <1>3. OnlyIssued'
    BY <1>1 DEF SubscriptionsInv, OnlyIssued
  <1>4. LiveIsNotGone' /\ LeftOutIsUntried' /\ FailedMeansUnreachable'
    BY <1>1 DEF SubscriptionsInv, LiveIsNotGone, LeftOutIsUntried, FailedMeansUnreachable
  <1>5. OwedIsTried'
    BY <1>1 DEF SubscriptionsInv, OwedIsTried, GoesOn
  <1> QED BY <1>1, <1>2, <1>3, <1>4, <1>5 DEF SubscriptionsInv, SubscriptionsTyped

(* Every answer of the sheet holds endpoints that were issued.             *)
LEMMA RowsAreIssued ==
  ASSUME SubscriptionsInv, NEW p \in Sends, NEW strategy, NEW r \in SubscriptionRows(p, strategy)
  PROVE  /\ r.subs \subseteq issued /\ Answered(r) \subseteq issued
         /\ CacheAfter(r) \in [age : {"none", "fresh", "old"}, subs : SUBSET Endpoints]
         /\ CacheAfter(r).subs \subseteq issued
  <1>1. r.subs \subseteq issued
    BY DEF SubscriptionRows, Cell, SubscriptionsInv, OnlyIssued
  <1>2. issued \subseteq Endpoints
    BY DEF SubscriptionsInv, SubscriptionsTyped, SubscriptionsTypeOK
  <1> QED BY <1>1, <1>2 DEF Answered, CacheAfter, SubscriptionsInv, OnlyIssued,
                            SubscriptionsTyped, SubscriptionsTypeOK

(* One endpoint is tried, with any of its results.                         *)
LEMMA SendOneKeeps ==
  ASSUME SubscriptionsInv, NEW p \in Sends, NEW e \in Endpoints, SendOne(p, e)
  PROVE  SubscriptionsInv'
  <1>0. /\ send[p] \in SendRecords /\ e \in issued /\ issued \subseteq Endpoints
        /\ UNCHANGED <<sheetVars, subsLoad>>
        /\ send[p].at = "send" /\ e \in send[p].targets
    BY DEF SendOne, SubscriptionsInv, SubscriptionsTyped, SubscriptionsTypeOK, OnlyIssued
  <1>1. CASE /\ e = device
             /\ IF send[p].kind = "refresh" THEN Refresh(e)
                ELSE UNCHANGED <<deviceVars, pushFaults>>
             /\ send' = [send EXCEPT ![p].targets = @ \ {e}, ![p].ok = @ \cup {e}]
             /\ UNCHANGED <<subCache, localSubs>>
    <2> DEFINE s == [send[p] EXCEPT !.targets = @ \ {e}, !.ok = @ \cup {e}]
    <2>1. /\ s \in SendRecords /\ s.ok # {} /\ s.at = "send"
          /\ s.leftOut = send[p].leftOut /\ s.tried = send[p].tried
          /\ s.targets \subseteq issued /\ s.gone = send[p].gone /\ s.owed = send[p].owed
      BY <1>0 DEF SendRecords, SubscriptionsInv, OnlyIssued
    <2>2. send' = [send EXCEPT ![p] = s]
      BY <1>1 DEF SubscriptionsInv, SubscriptionsTyped
    <2> HIDE DEF s
    <2>3. /\ DeviceMoves /\ storedEndpoint' \in Some /\ pushFaults' \in 0..MaxPushFaults
          /\ regPosts' \subseteq [by : {"page", "worker"}, ep : Endpoints]
          /\ \A r \in regPosts' : r.ep \in issued'
      <3>1. CASE send[p].kind = "refresh"
        <4>1. CASE /\ \E f \in Endpoints \ issued :
                        /\ device' = f /\ issued' = issued \cup {f}
                        /\ regPosts' = regPosts \cup {[by |-> "worker", ep |-> f]}
                   /\ UNCHANGED pushFaults
          BY <1>1, <3>1, <4>1 DEF Refresh, DeviceMoves, Some, SubscriptionsInv,
             SubscriptionsTyped, SubscriptionsTypeOK, OnlyIssued
        <4>2. CASE PushFault /\ device' = NoEndpoint /\ UNCHANGED <<issued, regPosts>>
          BY <1>0, <1>1, <3>1, <4>2 DEF Refresh, DeviceMoves, Some, SubscriptionsInv,
             SubscriptionsTyped, SubscriptionsTypeOK, OnlyIssued, PushFault
        <4> QED BY <1>1, <3>1, <4>1, <4>2 DEF Refresh
      <3>2. CASE send[p].kind # "refresh"
        BY <1>1, <3>2 DEF deviceVars, DeviceMoves, Some, SubscriptionsInv,
           SubscriptionsTyped, SubscriptionsTypeOK, OnlyIssued
      <3> QED BY <3>1, <3>2
    <2>4. /\ send' \in [Sends -> SendRecords] /\ send'[p] = s
          /\ \A q \in Sends \ {p} : send'[q] = send[q]
      BY <2>1, <2>2 DEF SubscriptionsInv, SubscriptionsTyped
    <2>5. UNCHANGED <<forwarded, dbCell, localSubs, subCache, subsLoad>>
      BY <1>0, <1>1 DEF sheetVars
    <2>6. SubscriptionsTyped'
      BY <2>3, <2>4, <2>5 DEF SubscriptionsInv, SubscriptionsTyped, SubscriptionsTypeOK,
                              DeviceMoves, SendRecords
    <2>7. OnlyIssued'
      BY <2>1, <2>3, <2>4, <2>5 DEF SubscriptionsInv, OnlyIssued, DeviceMoves
    <2>8. \A q \in Sends : /\ device' \in send[q].gone => device' = device
                           /\ device' \in send[q].owed => device' = device
      BY <2>3 DEF SubscriptionsInv, OnlyIssued, DeviceMoves
    <2>9. LiveIsNotGone' /\ LeftOutIsUntried' /\ FailedMeansUnreachable'
      BY <2>1, <2>4, <2>8 DEF SubscriptionsInv, LiveIsNotGone, LeftOutIsUntried, FailedMeansUnreachable
    <2>10. OwedIsTried'
      BY <2>1, <2>4, <2>5, <2>8 DEF SubscriptionsInv, OwedIsTried, GoesOn
    <2> QED BY <2>6, <2>7, <2>9, <2>10 DEF SubscriptionsInv
  <1>2. CASE /\ e # device
             /\ send' = [send EXCEPT ![p].targets = @ \ {e}, ![p].gone = @ \cup {e}]
             /\ \/ Prune(e)
                \/ send[p].kind = "refresh" /\ UNCHANGED <<subCache, localSubs>>
             /\ UNCHANGED <<deviceVars, pushFaults>>
    <2> DEFINE s == [send[p] EXCEPT !.targets = @ \ {e}, !.gone = @ \cup {e}]
    <2>1. /\ s \in SendRecords /\ s.at = "send" /\ s.ok = send[p].ok /\ s.shaken = send[p].shaken
          /\ s.targets = send[p].targets \ {e} /\ s.gone = send[p].gone \cup {e}
          /\ s.owed = send[p].owed /\ s.leftOut = send[p].leftOut /\ s.tried = send[p].tried
      BY <1>0 DEF SendRecords
    <2>2. send' = [send EXCEPT ![p] = s]
      BY <1>2 DEF SubscriptionsInv, SubscriptionsTyped
    <2> HIDE DEF s
    <2>3. /\ localSubs' \subseteq localSubs /\ (device \in localSubs => device \in localSubs')
          /\ subCache' \in [age : {"none", "fresh", "old"}, subs : SUBSET Endpoints]
          /\ subCache'.subs \subseteq issued
      BY <1>2
         DEF Prune, SubscriptionsInv, SubscriptionsTyped, SubscriptionsTypeOK,
             OnlyIssued
    <2>4. s.targets \cup s.gone \cup s.owed \subseteq issued /\ device \notin s.gone
          /\ s.leftOut \cap s.tried = {}
      BY <1>0, <1>2, <2>1 DEF SubscriptionsInv, OnlyIssued, LiveIsNotGone, LeftOutIsUntried
    <2>5. s.ok = {} /\ s.shaken = "no" /\ device \in s.owed =>
             device \in localSubs' /\ device \in s.targets \cup s.leftOut
      BY <1>0, <1>2, <2>1, <2>3 DEF SubscriptionsInv, OwedIsTried, GoesOn
    <2>6. pushFaults' \in 0..MaxPushFaults
      BY <1>2 DEF SubscriptionsInv, SubscriptionsTyped, SubscriptionsTypeOK
    <2> QED BY <1>0, <1>2, <2>1, <2>2, <2>3, <2>4, <2>5, <2>6, SendKeeps
  <1>3. CASE /\ PushFault
             /\ send' = [send EXCEPT ![p].targets = @ \ {e}, ![p].shaken = "yes"]
             /\ UNCHANGED <<deviceVars, subCache, localSubs>>
    <2> DEFINE s == [send[p] EXCEPT !.targets = @ \ {e}, !.shaken = "yes"]
    <2>1. /\ s \in SendRecords /\ s.at = "send" /\ s.shaken = "yes"
          /\ s.targets = send[p].targets \ {e} /\ s.gone = send[p].gone
          /\ s.owed = send[p].owed /\ s.leftOut = send[p].leftOut /\ s.tried = send[p].tried
      BY <1>0 DEF SendRecords
    <2>2. send' = [send EXCEPT ![p] = s]
      BY <1>3 DEF SubscriptionsInv, SubscriptionsTyped
    <2> HIDE DEF s
    <2>4. s.targets \cup s.gone \cup s.owed \subseteq issued /\ device \notin s.gone
          /\ s.leftOut \cap s.tried = {}
      BY <2>1 DEF SubscriptionsInv, OnlyIssued, LiveIsNotGone, LeftOutIsUntried
    <2>6. pushFaults' \in 0..MaxPushFaults /\ localSubs' = localSubs
          /\ subCache' \in [age : {"none", "fresh", "old"}, subs : SUBSET Endpoints]
          /\ subCache'.subs \subseteq issued
      BY <1>3
         DEF PushFault, SubscriptionsInv, SubscriptionsTyped,
             SubscriptionsTypeOK, OnlyIssued
    <2> QED BY <1>0, <1>3, <2>1, <2>2, <2>4, <2>6, SendKeeps
  <1> QED BY <1>1, <1>2, <1>3 DEF SendOne

(* A send that ends has served or given up everyone.                       *)
LEMMA EndedOwesNothing ==
  ASSUME SubscriptionsInv, NEW p \in Sends, Unserved(p) = {}
  PROVE  \E s \in SendRecords : /\ Ended(p) = [send EXCEPT ![p] = s] /\ s.at = "done"
                                /\ s.targets = {} /\ s.gone = {} /\ s.owed = {} /\ s.leftOut = {}
  <1> DEFINE s == [NoSend EXCEPT !.kind = send[p].kind, !.at = "done", !.owed = Unserved(p)]
  <1>1. send[p] \in SendRecords
    BY DEF SubscriptionsInv, SubscriptionsTyped
  <1>2. /\ s \in SendRecords /\ s.at = "done" /\ s.targets = {} /\ s.gone = {} /\ s.owed = {} /\ s.leftOut = {}
    BY <1>1 DEF NoSend, SendRecords
  <1>3. Ended(p) = [send EXCEPT ![p] = s]
    BY DEF Ended
  <1> QED BY <1>2, <1>3

\* What a limit keeps is of what was found.
LEMMA LimitedIsFound ==
  ASSUME NEW found, NEW limit, NEW kept \in Limited(found, limit)
  PROVE  kept \subseteq found
  BY DEF Limited

(* A send takes the targets that were found, or those its limit keeps.     *)
LEMMA SendingKeeps ==
  ASSUME SubscriptionsInv, NEW p \in Sends, NEW found \in SUBSET issued, Sending(p, found),
         send[p].at \in {"load", "force", "discover"}, localSubs \subseteq found,
         UNCHANGED <<deviceVars, sheetVars, localSubs, subsLoad>>,
         pushFaults' \in 0..MaxPushFaults,
         subCache' \in [age : {"none", "fresh", "old"}, subs : SUBSET Endpoints],
         subCache'.subs \subseteq issued
  PROVE  SubscriptionsInv'
  <1>0. PICK kept \in Limited(found, send[p].limit) :
           send' = [send EXCEPT ![p].targets = kept, ![p].tried = kept,
                                ![p].leftOut = found \ kept, ![p].at = "send"]
    BY DEF Sending
  <1> DEFINE s == [send[p] EXCEPT !.targets = kept, !.tried = kept,
                                  !.leftOut = found \ kept, !.at = "send"]
  <1>1. send[p] \in SendRecords /\ issued \subseteq Endpoints /\ kept \subseteq found
    BY LimitedIsFound DEF SubscriptionsInv, SubscriptionsTyped, SubscriptionsTypeOK
  <1>2. /\ s \in SendRecords /\ s.at = "send" /\ s.ok = send[p].ok /\ s.shaken = send[p].shaken
        /\ s.targets = kept /\ s.tried = kept /\ s.leftOut = found \ kept
        /\ s.gone = send[p].gone /\ s.owed = send[p].owed
    BY <1>1 DEF SendRecords
  <1>3. send' = [send EXCEPT ![p] = s]
    BY <1>0 DEF SubscriptionsInv, SubscriptionsTyped
  <1> HIDE DEF s
  <1>4. s.targets \cup s.gone \cup s.owed \subseteq issued /\ device \notin s.gone
        /\ s.leftOut \cap s.tried = {}
    BY <1>1, <1>2 DEF SubscriptionsInv, OnlyIssued, LiveIsNotGone
  <1>5. s.ok = {} /\ s.shaken = "no" /\ device \in s.owed =>
           device \in localSubs /\ device \in s.targets \cup s.leftOut
    BY <1>2 DEF SubscriptionsInv, OwedIsTried, GoesOn
  <1> QED BY <1>2, <1>3, <1>4, <1>5, SendKeeps

(* A send looks up its targets, in memory or in the sheet.                 *)
LEMMA LoadTargetsKeeps ==
  ASSUME SubscriptionsInv, NEW p \in Sends, LoadTargets(p)
  PROVE  SubscriptionsInv'
  <1>1. PICK r \in SubscriptionRows(p, send[p].at) :
          /\ r.from = "failed" => PushFault
          /\ r.from # "failed" => UNCHANGED pushFaults
          /\ LET found == IF send[p].at = "discover"
                          THEN Answered(r) \cup subCache.subs \cup localSubs
                          ELSE Answered(r)
                 next == IF send[p].at = "load" THEN "force" ELSE "discover"
             IN IF found = {} /\ send[p].at # "discover"
                THEN /\ send' = [send EXCEPT ![p].at = next]
                     /\ subCache' = CacheAfter(r)
                ELSE /\ IF found \cup Local = {}
                        THEN send' = Ended(p)
                        ELSE Sending(p, found \cup Local)
                     /\ subCache' = IF send[p].kind = "message" /\ Local # {}
                                    THEN [age |-> "fresh",
                                          subs |-> found \cup Local]
                                    ELSE CacheAfter(r)
    BY DEF LoadTargets
  <1>2. /\ send[p].at \in {"load", "force", "discover"}
        /\ UNCHANGED <<deviceVars, sheetVars, localSubs, subsLoad>>
    BY DEF LoadTargets
  <1>3. /\ send[p] \in SendRecords /\ issued \subseteq Endpoints /\ localSubs \subseteq issued
        /\ subCache.subs \subseteq issued /\ pushFaults' \in 0..MaxPushFaults
    BY <1>1
       DEF SubscriptionsInv, SubscriptionsTyped, SubscriptionsTypeOK, OnlyIssued,
           PushFault
  <1> DEFINE found == IF send[p].at = "discover"
                      THEN Answered(r) \cup subCache.subs \cup localSubs ELSE Answered(r)
             next == IF send[p].at = "load" THEN "force" ELSE "discover"
  <1>4. /\ found \subseteq issued
        /\ CacheAfter(r) \in [age : {"none", "fresh", "old"}, subs : SUBSET Endpoints]
        /\ CacheAfter(r).subs \subseteq issued
    BY <1>3, RowsAreIssued
  <1>5. CASE found = {} /\ send[p].at # "discover"
    <2> DEFINE s == [send[p] EXCEPT !.at = next]
    <2>1. /\ s \in SendRecords /\ s.at \in {"force", "discover"} /\ s.ok = send[p].ok
          /\ s.shaken = send[p].shaken /\ s.targets = send[p].targets /\ s.gone = send[p].gone
          /\ s.owed = send[p].owed /\ s.leftOut = send[p].leftOut /\ s.tried = send[p].tried
      BY <1>3 DEF SendRecords
    <2>2. send' = [send EXCEPT ![p] = s] /\ subCache' = CacheAfter(r)
      BY <1>1, <1>5 DEF SubscriptionsInv, SubscriptionsTyped
    <2> HIDE DEF s
    <2>3. /\ s.targets \cup s.gone \cup s.owed \subseteq issued /\ device \notin s.gone
          /\ s.leftOut \cap s.tried = {}
          /\ s.ok = {} /\ s.shaken = "no" /\ device \in s.owed => device \in localSubs
      BY <1>2, <2>1 DEF SubscriptionsInv, OnlyIssued, LiveIsNotGone, LeftOutIsUntried, OwedIsTried,
                            GoesOn
    <2> HIDE DEF found, next
    <2> QED BY <1>2, <1>3, <1>4, <2>1, <2>2, <2>3, SendKeeps
  <1>6. CASE ~(found = {} /\ send[p].at # "discover")
    <2>1. /\ IF found \cup Local = {} THEN send' = Ended(p) ELSE Sending(p, found \cup Local)
          /\ subCache' = IF send[p].kind = "message" /\ Local # {}
                         THEN [age |-> "fresh", subs |-> found \cup Local]
                         ELSE CacheAfter(r)
      BY <1>1, <1>6
    <2> HIDE DEF found, next
    <2>2. /\ subCache' \in [age : {"none", "fresh", "old"}, subs : SUBSET Endpoints]
          /\ subCache'.subs \subseteq issued
      BY <1>3, <1>4, <2>1 DEF Local
    <2>3. CASE found \cup Local = {}
      <3>1. Unserved(p) = {}
        BY <1>2, <2>3 DEF Local, Unserved, SubscriptionsInv, OwedIsTried, GoesOn
      <3>2. PICK s \in SendRecords : /\ send' = [send EXCEPT ![p] = s] /\ s.at = "done"
                                     /\ s.targets = {} /\ s.gone = {} /\ s.owed = {} /\ s.leftOut = {}
        BY <2>1, <2>3, <3>1, EndedOwesNothing
      <3> QED BY <1>2, <1>3, <2>2, <3>2, SendKeeps
    <2>4. CASE found \cup Local # {}
      BY <1>2, <1>3, <1>4, <2>1, <2>2, <2>4, SendingKeeps DEF Local
    <2> QED BY <2>3, <2>4
  <1> QED BY <1>5, <1>6

(* A message that reached no device of a user was owed to no endpoint that *)
(* was live and registered, but for what its limit left out of both        *)
(* attempts (sendPushNotification, limitSubscriptionsPerUser,              *)
(* deletePushSubscription), for any endpoints, limits, sends and number of *)
(* failures.                                                               *)
THEOREM FailedMeansUnreachableInvariant ==
  SubscriptionsSpec => [](SubscriptionsTypeOK /\ FailedMeansUnreachable)
  <1>1. SubscriptionsInit => SubscriptionsInv
    BY DEF SubscriptionsInit, SubscriptionsInv, SubscriptionsTyped, SubscriptionsTypeOK, Some,
           NoCache, NoSend, SendRecords, OnlyIssued, LiveIsNotGone, LeftOutIsUntried, OwedIsTried, GoesOn,
           FailedMeansUnreachable
  <1>2. SubscriptionsInv /\ [SubscriptionsNext]_subVars => SubscriptionsInv'
    <2> SUFFICES ASSUME SubscriptionsInv, [SubscriptionsNext]_subVars PROVE SubscriptionsInv'
      OBVIOUS
    <2>0. /\ issued \subseteq Endpoints /\ pushFaults \in 0..MaxPushFaults
          /\ subCache \in [age : {"none", "fresh", "old"}, subs : SUBSET Endpoints]
          /\ subCache.subs \subseteq issued
          /\ \A p \in Sends : send[p] \in SendRecords
      BY DEF SubscriptionsInv, SubscriptionsTyped, SubscriptionsTypeOK, OnlyIssued
    <2>1. ASSUME NEW e \in Endpoints, NEW forced \in {"yes", "no"}, PageRegisters(e, forced)
          PROVE  SubscriptionsInv'
      <3>1. DeviceMoves
        BY <2>0, <2>1 DEF PageRegisters, Subscribes, DeviceMoves, Some
      <3>2. /\ regPosts' = regPosts \cup {[by |-> "page", ep |-> e]} /\ issued' = issued \cup {e}
            /\ UNCHANGED <<storedEndpoint, forwarded, dbCell, localSubs, subCache, send,
                           subsLoad, pushFaults>>
        BY <2>1 DEF PageRegisters, Subscribes, sheetVars
      <3> QED BY <2>0, <3>1, <3>2, MovedDevice DEF SubscriptionsInv, SubscriptionsTyped,
                 SubscriptionsTypeOK, OnlyIssued
    <2>2. ASSUME NEW e \in Endpoints, BrowserReplaces(e) PROVE SubscriptionsInv'
      <3>1. DeviceMoves
        BY <2>0, <2>2 DEF BrowserReplaces, DeviceMoves, Some
      <3>2. /\ regPosts' = regPosts \cup {[by |-> "worker", ep |-> e]} /\ issued' = issued \cup {e}
            /\ UNCHANGED <<storedEndpoint, forwarded, dbCell, localSubs, subCache, send,
                           subsLoad, pushFaults>>
        BY <2>2 DEF BrowserReplaces, sheetVars
      <3> QED BY <2>0, <3>1, <3>2, MovedDevice DEF SubscriptionsInv, SubscriptionsTyped,
                 SubscriptionsTypeOK, OnlyIssued
    <2>3. ASSUME NEW r \in regPosts, Register(r) PROVE SubscriptionsInv'
      <3>1. r \in [by : {"page", "worker"}, ep : Endpoints] /\ r.ep \in issued
        BY DEF SubscriptionsInv, SubscriptionsTyped, SubscriptionsTypeOK, OnlyIssued
      <3>2. /\ regPosts' \subseteq regPosts /\ storedEndpoint' \in Some
            /\ pushFaults' \in 0..MaxPushFaults
            /\ localSubs' \in {localSubs, localSubs \cup {r.ep}}
            /\ forwarded' \in {forwarded, forwarded \cup {r.ep}}
            /\ UNCHANGED <<device, issued, dbCell, subCache, send, subsLoad>>
        BY <2>3, <3>1 DEF Register, Stored, PushFault, Some, SubscriptionsInv,
           SubscriptionsTyped, SubscriptionsTypeOK
      <3>3. SubscriptionsTyped'
        BY <3>1, <3>2 DEF SubscriptionsInv, SubscriptionsTyped, SubscriptionsTypeOK
      <3>4. OnlyIssued'
        BY <3>1, <3>2 DEF SubscriptionsInv, OnlyIssued
      <3>5. LiveIsNotGone' /\ LeftOutIsUntried' /\ OwedIsTried' /\ FailedMeansUnreachable'
        BY <3>2 DEF SubscriptionsInv, LiveIsNotGone, LeftOutIsUntried, OwedIsTried, GoesOn,
                    FailedMeansUnreachable
      <3> QED BY <3>3, <3>4, <3>5 DEF SubscriptionsInv
    <2>4. ASSUME NEW e \in Some, SyncSubscribeSheetToDb(e) PROVE SubscriptionsInv'
      BY <2>4 DEF SyncSubscribeSheetToDb, SyncSubscribeRows, deviceVars, SubscriptionsInv,
         SubscriptionsTyped, SubscriptionsTypeOK, OnlyIssued, LiveIsNotGone, LeftOutIsUntried, OwedIsTried,
         GoesOn, FailedMeansUnreachable
    <2>5. CASE SubCacheAges
      <3>1. /\ subCache' \in [age : {"none", "fresh", "old"}, subs : SUBSET Endpoints]
            /\ subCache'.subs = subCache.subs
            /\ UNCHANGED <<device, issued, storedEndpoint, regPosts, forwarded, dbCell,
                           localSubs, send, subsLoad, pushFaults>>
        BY <2>0, <2>5 DEF SubCacheAges, deviceVars, sheetVars
      <3> QED BY <3>1
                 DEF SubscriptionsInv, SubscriptionsTyped, SubscriptionsTypeOK, OnlyIssued,
                     LiveIsNotGone, LeftOutIsUntried, OwedIsTried, GoesOn,
                     FailedMeansUnreachable
    <2>12. ASSUME NEW old \in SUBSET forwarded, LoadSubs(old) PROVE SubscriptionsInv'
      <3>1. /\ localSubs' = old /\ subsLoad' = "loaded"
            /\ UNCHANGED <<device, issued, storedEndpoint, regPosts, forwarded, dbCell,
                           subCache, pushFaults>>
            /\ send' = [p \in Sends |-> [send[p] EXCEPT !.owed = @ \cap old]]
        BY <2>12 DEF LoadSubs, deviceVars, sheetVars
      <3>2. ASSUME NEW p \in Sends
            PROVE  /\ send'[p] \in SendRecords /\ send'[p].owed = send[p].owed \cap old
                   /\ send'[p].at = send[p].at /\ send'[p].ok = send[p].ok
                   /\ send'[p].shaken = send[p].shaken /\ send'[p].tried = send[p].tried
                   /\ send'[p].targets = send[p].targets /\ send'[p].gone = send[p].gone
                   /\ send'[p].leftOut = send[p].leftOut
        BY <2>0, <3>1 DEF SendRecords
      <3>3. send' \in [Sends -> SendRecords] /\ old \subseteq issued
        <4>1. \A p \in Sends : [send[p] EXCEPT !.owed = @ \cap old] \in SendRecords
          BY <3>1, <3>2
        <4>2. send' \in [Sends -> SendRecords]
          BY <3>1, <4>1
        <4> QED BY <4>2 DEF SubscriptionsInv, OnlyIssued
      <3>4. SubscriptionsTyped'
        <4>1. /\ localSubs' \subseteq Endpoints /\ subsLoad' \in {"loading", "loaded"}
              /\ device' \in Some /\ storedEndpoint' \in Some /\ issued' \subseteq Endpoints
              /\ regPosts' \subseteq [by : {"page", "worker"}, ep : Endpoints]
              /\ forwarded' \subseteq Endpoints /\ dbCell' \in Some
              /\ subCache' \in [age : {"none", "fresh", "old"}, subs : SUBSET Endpoints]
              /\ pushFaults' \in 0..MaxPushFaults
          BY <2>0, <3>1, <3>3 DEF SubscriptionsInv, SubscriptionsTyped, SubscriptionsTypeOK
        <4>2. \A p \in Sends :
                 /\ send'[p].kind \in {"message", "refresh"}
                 /\ send'[p].at \in {"idle", "load", "force", "discover", "send", "retry", "done"}
                 /\ send'[p].limit \in Limits \cup {0}
                 /\ UNION {send'[p].targets, send'[p].tried, send'[p].ok, send'[p].gone,
                           send'[p].leftOut, send'[p].owed} \subseteq Endpoints
          BY <3>2 DEF SendRecords
        <4> QED BY <3>3, <4>1, <4>2 DEF SubscriptionsTyped, SubscriptionsTypeOK
      <3>5. OnlyIssued'
        BY <3>1, <3>2, <3>3 DEF SubscriptionsInv, OnlyIssued
      <3>6. LiveIsNotGone' /\ LeftOutIsUntried' /\ FailedMeansUnreachable'
        BY <3>1, <3>2 DEF SubscriptionsInv, LiveIsNotGone, LeftOutIsUntried,
                          FailedMeansUnreachable
      <3>7. OwedIsTried'
        BY <3>1, <3>2 DEF SubscriptionsInv, OwedIsTried, GoesOn
      <3> QED BY <3>4, <3>5, <3>6, <3>7 DEF SubscriptionsInv
    <2>6. CASE RestartPush
      <3>1. /\ localSubs' = {} /\ subsLoad' = "loading" /\ subCache' = NoCache /\ pushFaults' \in 0..MaxPushFaults
            /\ UNCHANGED <<device, issued, storedEndpoint, regPosts, forwarded, dbCell>>
            /\ send' = [p \in Sends |-> IF send[p].at = "idle" THEN send[p]
                                        ELSE [NoSend EXCEPT !.at = "done"]]
        BY <2>0, <2>6 DEF RestartPush, PushFault, deviceVars, sheetVars
      <3>2. [NoSend EXCEPT !.at = "done"] \in SendRecords
        BY DEF NoSend, SendRecords
      <3>3. /\ send' \in [Sends -> SendRecords]
            /\ \A p \in Sends : \/ send'[p] = send[p] /\ send[p].at = "idle"
                                \/ /\ send'[p].at = "done" /\ send'[p].owed = {}
                                   /\ send'[p].gone = {} /\ send'[p].targets = {}
                                   /\ send'[p].leftOut = {}
        BY <2>0, <3>1, <3>2 DEF NoSend
      <3>4. SubscriptionsTyped'
        BY <2>0, <3>1, <3>3 DEF SubscriptionsInv, SubscriptionsTyped, SubscriptionsTypeOK,
           OnlyIssued, NoCache, SendRecords
      <3>5. OnlyIssued'
        BY <3>1, <3>3 DEF SubscriptionsInv, OnlyIssued, NoCache
      <3>6. LiveIsNotGone' /\ LeftOutIsUntried' /\ OwedIsTried' /\ FailedMeansUnreachable'
        BY <3>1, <3>3 DEF SubscriptionsInv, LiveIsNotGone, LeftOutIsUntried, OwedIsTried, GoesOn,
                          FailedMeansUnreachable
      <3> QED BY <3>4, <3>5, <3>6 DEF SubscriptionsInv
    <2>7. ASSUME NEW p \in Sends, StartSend(p) PROVE SubscriptionsInv'
      <3>1. UNCHANGED <<deviceVars, sheetVars, localSubs, subCache, subsLoad, pushFaults>>
        BY <2>7 DEF StartSend
      <3>2. PICK s \in SendRecords :
               /\ send' = [send EXCEPT ![p] = s] /\ s.at \in {"load", "discover"}
               /\ s.targets = {} /\ s.gone = {} /\ s.leftOut = {}
               /\ s.owed = localSubs \cap {device}
        <4>0. localSubs \cap {device} \subseteq Endpoints
          BY DEF SubscriptionsInv, SubscriptionsTyped, SubscriptionsTypeOK
        <4>1. CASE StartRefresh(p)
          <5> DEFINE s == [NoSend EXCEPT !.kind = "refresh", !.at = "discover",
                                         !.owed = localSubs \cap {device}]
          <5>1. /\ s \in SendRecords /\ s.at = "discover" /\ s.targets = {} /\ s.gone = {}
                /\ s.leftOut = {} /\ s.owed = localSubs \cap {device}
            BY <4>0 DEF NoSend, SendRecords
          <5>2. send' = [send EXCEPT ![p] = s]
            BY <4>1 DEF StartRefresh
          <5> QED BY <5>1, <5>2
        <4>2. ASSUME NEW limit \in Limits, NEW retried \in {"no", "yes"},
                     StartMessage(p, limit, retried)
              PROVE  \E s \in SendRecords :
                       /\ send' = [send EXCEPT ![p] = s] /\ s.at \in {"load", "discover"}
                       /\ s.targets = {} /\ s.gone = {} /\ s.leftOut = {}
                       /\ s.owed = localSubs \cap {device}
          <5> DEFINE s == [NoSend EXCEPT !.at = "load", !.limit = limit, !.retried = retried,
                                         !.owed = localSubs \cap {device}]
          <5>1. /\ s \in SendRecords /\ s.at = "load" /\ s.targets = {} /\ s.gone = {}
                /\ s.leftOut = {} /\ s.owed = localSubs \cap {device}
            BY <4>0 DEF NoSend, SendRecords
          <5>2. send' = [send EXCEPT ![p] = s]
            BY <4>2 DEF StartMessage
          <5> QED BY <5>1, <5>2
        <4> QED BY <2>7, <4>1, <4>2 DEF StartSend
      <3>3. localSubs \subseteq issued
        BY DEF SubscriptionsInv, OnlyIssued
      <3> QED BY <2>0, <3>1, <3>2, <3>3, SendKeeps
    <2>8. ASSUME NEW p \in Sends, RetrySend(p) PROVE SubscriptionsInv'
      <3> DEFINE s == [send[p] EXCEPT !.at = "retry", !.retried = "yes"]
      <3>1. /\ s \in SendRecords /\ s.at = "retry" /\ s.ok = send[p].ok
            /\ s.shaken = send[p].shaken /\ s.targets = send[p].targets
            /\ s.gone = send[p].gone /\ s.owed = send[p].owed
            /\ s.leftOut = send[p].leftOut /\ s.tried = send[p].tried
        BY <2>0 DEF SendRecords
      <3>2. /\ send' = [send EXCEPT ![p] = s] /\ subCache' = NoCache
            /\ send[p].at = "send" /\ send[p].targets = {}
            /\ UNCHANGED <<deviceVars, sheetVars, localSubs, subsLoad, pushFaults>>
        BY <2>8 DEF RetrySend, SubscriptionsInv, SubscriptionsTyped
      <3> HIDE DEF s
      <3>3. /\ s.targets \cup s.gone \cup s.owed \subseteq issued /\ device \notin s.gone
            /\ s.leftOut \cap s.tried = {}
            /\ s.ok = {} /\ s.shaken = "no" /\ device \in s.owed =>
                 device \in localSubs /\ device \in s.leftOut
        BY <3>1, <3>2 DEF SubscriptionsInv, OnlyIssued, LiveIsNotGone, LeftOutIsUntried,
                          OwedIsTried, GoesOn
      <3>4. /\ subCache' \in [age : {"none", "fresh", "old"}, subs : SUBSET Endpoints]
            /\ subCache'.subs \subseteq issued
        BY <3>2 DEF NoCache
      <3> QED BY <2>0, <3>1, <3>2, <3>3, <3>4, SendKeeps
    <2>9. ASSUME NEW p \in Sends, ReloadTargets(p) PROVE SubscriptionsInv'
      <3>0. PICK r \in SubscriptionRows(p, "force") :
              /\ r.from = "failed" => PushFault
              /\ r.from # "failed" => UNCHANGED pushFaults
              /\ subCache' = CacheAfter(r)
              /\ \E kept \in Limited(r.subs \cup Local, send[p].limit) :
                    LET new == kept \ send[p].tried
                        targets == IF new # {} THEN new ELSE kept
                    IN send' = [send EXCEPT
                          ![p].targets = targets, ![p].tried = @ \cup targets,
                          ![p].leftOut = (@ \cup (r.subs \cup Local)) \
                                            (send[p].tried \cup targets),
                          ![p].at = "send"]
        BY <2>9 DEF ReloadTargets
      <3>1. PICK kept \in Limited(r.subs \cup Local, send[p].limit) :
              LET new == kept \ send[p].tried
                     targets == IF new # {} THEN new ELSE kept
                 IN send' = [send EXCEPT
                       ![p].targets = targets, ![p].tried = @ \cup targets,
                       ![p].leftOut = (@ \cup (r.subs \cup Local)) \
                                         (send[p].tried \cup targets),
                       ![p].at = "send"]
        BY <3>0
      <3> DEFINE all == r.subs \cup Local
                 targets == IF kept \ send[p].tried # {} THEN kept \ send[p].tried ELSE kept
                 s == [send[p] EXCEPT !.targets = targets, !.tried = @ \cup targets,
                                      !.leftOut = (@ \cup all) \ (send[p].tried \cup targets),
                                      !.at = "send"]
      <3>2. /\ send' = [send EXCEPT ![p] = s] /\ subCache' = CacheAfter(r)
            /\ send[p].at = "retry"
            /\ UNCHANGED <<deviceVars, sheetVars, localSubs, subsLoad>>
        <4>1. send' = [send EXCEPT ![p] = s]
          BY <3>1 DEF SubscriptionsInv, SubscriptionsTyped
        <4> QED BY <2>9, <3>0, <4>1 DEF ReloadTargets
      <3>3. all \subseteq issued /\ localSubs \subseteq all
        BY <3>0, RowsAreIssued DEF Local, SubscriptionsInv, OnlyIssued
      <3>4. /\ subCache' \in [age : {"none", "fresh", "old"}, subs : SUBSET Endpoints]
            /\ subCache'.subs \subseteq issued
        BY <3>0, RowsAreIssued
      <3>5. pushFaults' \in 0..MaxPushFaults
        <4>1. PushFault \/ UNCHANGED pushFaults
          BY <3>0, Zenon
        <4> QED BY ONLY <2>0, <4>1, SubscriptionsAssumption DEF PushFault
      <3>6. kept \subseteq all
        BY <3>1, LimitedIsFound
      <3> HIDE DEF all
      <3>7. /\ targets \subseteq kept /\ targets \subseteq issued
            /\ kept \subseteq targets \cup send[p].tried
        BY <3>3, <3>6
      <3> HIDE DEF targets
      <3>8. /\ s \in SendRecords /\ s.at = "send" /\ s.ok = send[p].ok
            /\ s.shaken = send[p].shaken /\ s.targets = targets
            /\ s.gone = send[p].gone /\ s.owed = send[p].owed
            /\ s.tried = send[p].tried \cup targets
            /\ s.leftOut = (send[p].leftOut \cup all) \ (send[p].tried \cup targets)
        BY <2>0, <3>3, <3>7, ZenonT(60) DEF SendRecords
      <3> HIDE DEF s
      <3>9. /\ s.targets \cup s.gone \cup s.owed \subseteq issued /\ device \notin s.gone
            /\ s.leftOut \cap s.tried = {}
        BY <3>7, <3>8 DEF SubscriptionsInv, OnlyIssued, LiveIsNotGone
      <3>10. s.ok = {} /\ s.shaken = "no" /\ device \in s.owed =>
                /\ device \in localSubs
                /\ device \in s.targets \cup s.leftOut
        BY <3>2, <3>8 DEF SubscriptionsInv, OwedIsTried, LeftOutIsUntried, GoesOn
      <3> QED BY <3>2, <3>4, <3>5, <3>8, <3>9, <3>10, SendKeeps
    <2>10. ASSUME NEW p \in Sends, EndSend(p) PROVE SubscriptionsInv'
      <3>1. /\ send[p].at = "send" /\ send[p].targets = {} /\ send' = Ended(p)
            /\ localSubs' \in {localSubs, localSubs \ send[p].gone}
            /\ UNCHANGED <<deviceVars, sheetVars, subCache, subsLoad, pushFaults>>
        BY <2>10 DEF EndSend
      <3>2. Unserved(p) = {}
        BY <3>1 DEF Unserved, SubscriptionsInv, OwedIsTried, GoesOn
      <3>3. PICK s \in SendRecords : /\ send' = [send EXCEPT ![p] = s] /\ s.at = "done"
                                     /\ s.targets = {} /\ s.gone = {} /\ s.owed = {} /\ s.leftOut = {}
        BY <3>1, <3>2, EndedOwesNothing
      <3>4. localSubs' \subseteq localSubs /\ (device \in localSubs => device \in localSubs')
        BY <3>1 DEF SubscriptionsInv, LiveIsNotGone
      <3> QED BY <2>0, <3>1, <3>3, <3>4, SendKeeps
    <2>11. CASE UNCHANGED subVars
      BY <2>11 DEF subVars, SubscriptionsInv, SubscriptionsTyped, SubscriptionsTypeOK,
         OnlyIssued, LiveIsNotGone, LeftOutIsUntried, OwedIsTried, GoesOn, FailedMeansUnreachable
    <2> QED BY <2>1, <2>2, <2>3, <2>4, <2>5, <2>6, <2>7, <2>8, <2>9, <2>10, <2>11, <2>12,
               SendOneKeeps, LoadTargetsKeeps DEF SubscriptionsNext
  <1>3. SubscriptionsInv => SubscriptionsTypeOK /\ FailedMeansUnreachable
    BY DEF SubscriptionsInv, SubscriptionsTyped
  <1> QED BY <1>1, <1>2, <1>3, PTL DEF SubscriptionsSpec

HIDE SubscriptionsAssumption

-----------------------------------------------------------------------------
(* Uploads. Each part is under its temporary name or where its kind        *)
(* belongs; a file put under its original name is there until a rejected   *)
(* upload takes it away.                                                   *)
USE UploadsAssumption

AllNames == FileNames \cup {NoFile}
TempPaths == [dir : {"temp"}, of : Uploads, part : Parts]
UsersPaths == [dir : {"users"}, name : AllNames]
UploadPaths ==
    TempPaths \cup UsersPaths \cup [dir : {"Accreditation"}, at : 0..MaxSecond, name : AllNames]
Contents == [of : Uploads, part : Parts]

UploadRecords ==
    [at : {"idle", "inspect", "place", "clean", "row", "done"},
     kind : {"chat", "Accreditation", "users"}, owner : Owners \cup {NoFile},
     names : [Parts -> AllNames], bad : {"yes", "no"},
     path : [Parts -> UploadPaths \cup {NoFile}]]

UploadsTyped ==
    /\ upload \in [Uploads -> UploadRecords]
    /\ disk \in [DOMAIN disk -> Contents]
    /\ picture \in [Owners -> [path : UsersPaths \cup {NoFile}, holds : Contents \cup {NoFile}]]
    /\ second \in 0..MaxSecond /\ uploadFaults \in 0..MaxUploadFaults

Goes(r) == upload[r].at \notin {"idle", "done"}

\* Each part is under its temporary name or where its kind belongs.
PartsHavePaths == \A r \in Uploads : Goes(r) =>
    /\ upload[r].names["file"] # NoFile
    /\ \A p \in Given(r) :
          /\ upload[r].path[p] \in UploadPaths
          /\ upload[r].path[p] \in TempPaths => upload[r].path[p] = Temp(r, p)
          /\ upload[r].kind = "users" => upload[r].path[p] \in TempPaths \cup UsersPaths
    /\ upload[r].at = "row" => upload[r].kind = "users" /\ Unplaced(r) = {}

\* A file put under its original name is there until a rejected upload takes
\* it away.
PlacedIsThere == \A r \in Uploads : Goes(r) => \A p \in Given(r) :
    upload[r].path[p] \in UsersPaths => upload[r].path[p] \in DOMAIN disk \cup withdrawn

UploadsInv == UploadsTyped /\ PartsHavePaths /\ PlacedIsThere /\ PictureStays

\* A step takes no file that has its original name, and replaces none, but the
\* ones it withdraws.
NamesKeep ==
    /\ withdrawn \subseteq withdrawn'
    /\ \A f \in UsersPaths : f \in DOMAIN disk /\ f \notin withdrawn' =>
          f \in DOMAIN disk' /\ disk'[f] = disk[f]

(* A file under its original name has no other kind of path.               *)
LEMMA PathsDiffer ==
  ASSUME NEW f \in UsersPaths
  PROVE  /\ f \notin TempPaths
         /\ \A r \in Uploads, p \in Parts : f # Temp(r, p)
         /\ \A n : f # AccreditationPath(n)
  BY DEF UsersPaths, TempPaths, Temp, AccreditationPath

(* A step that leaves the files under their original names leaves the      *)
(* pictures.                                                               *)
LEMMA PicturesKeep ==
  ASSUME UploadsInv, NamesKeep, picture' = picture
  PROVE  PictureStays'
  BY DEF UploadsInv, UploadsTyped, NamesKeep, PictureStays

(* Request r goes on as the record u, the disk changes beside it.          *)
LEMMA RequestKeeps ==
  ASSUME UploadsInv, NamesKeep, NEW r \in Uploads, NEW u \in UploadRecords,
         upload' = [upload EXCEPT ![r] = u], PictureStays',
         disk' \in [DOMAIN disk' -> Contents],
         picture' \in [Owners -> [path : UsersPaths \cup {NoFile},
                                  holds : Contents \cup {NoFile}]],
         second' = second, uploadFaults' \in 0..MaxUploadFaults,
         u.at \notin {"idle", "done"} =>
            /\ u.names["file"] # NoFile
            /\ \A p \in Parts : u.names[p] # NoFile =>
                  /\ u.path[p] \in UploadPaths
                  /\ u.path[p] \in TempPaths => u.path[p] = Temp(r, p)
                  /\ u.kind = "users" => u.path[p] \in TempPaths \cup UsersPaths
                  /\ u.path[p] \in UsersPaths => u.path[p] \in DOMAIN disk' \cup withdrawn'
            /\ u.at = "row" =>
                  /\ u.kind = "users"
                  /\ \A p \in Parts : u.names[p] # NoFile => u.path[p] # Temp(r, p)
  PROVE  UploadsInv'
  <1>1. /\ upload' \in [Uploads -> UploadRecords] /\ upload'[r] = u
        /\ \A q \in Uploads \ {r} : upload'[q] = upload[q]
    BY DEF UploadsInv, UploadsTyped
  <1>2. UploadsTyped'
    BY <1>1 DEF UploadsInv, UploadsTyped
  <1>3. PartsHavePaths'
    BY <1>1 DEF UploadsInv, PartsHavePaths, Goes, Given, Unplaced
  <1>4. PlacedIsThere'
    BY <1>1 DEF UploadsInv, PlacedIsThere, NamesKeep, Goes, Given
  <1> QED BY <1>2, <1>3, <1>4 DEF UploadsInv

(* A step that touches no file.                                            *)
LEMMA StillKeeps ==
  ASSUME UploadsInv, NEW r \in Uploads, UNCHANGED <<disk, withdrawn>>
  PROVE  /\ NamesKeep /\ upload[r] \in UploadRecords /\ disk' \in [DOMAIN disk' -> Contents]
         /\ UNCHANGED picture => PictureStays'
  BY DEF UploadsInv, UploadsTyped, NamesKeep, PictureStays

(* The picture a user row names is the file that user uploaded, or one     *)
(* with the same name was put over it or taken away (handleUpload, the     *)
(* multer rename), for any uploads, owners and names.                      *)
THEOREM PictureStaysInvariant == UploadsSpec => [](UploadsTypeOK /\ PictureStays)
  <1>1. UploadsInit => UploadsInv
    <2> SUFFICES ASSUME UploadsInit PROVE UploadsInv
      OBVIOUS
    <2>1. NoUpload \in UploadRecords
      BY DEF NoUpload, UploadRecords, AllNames
    <2>2. UploadsTyped
      BY <2>1 DEF UploadsInit, UploadsTyped
    <2>3. PartsHavePaths /\ PlacedIsThere /\ PictureStays
      BY DEF UploadsInit, NoUpload, PartsHavePaths, PlacedIsThere, Goes, PictureStays
    <2> QED BY <2>2, <2>3 DEF UploadsInv
  <1>2. UploadsInv /\ [UploadsNext]_uploadVars => UploadsInv'
    <2> SUFFICES ASSUME UploadsInv, [UploadsNext]_uploadVars PROVE UploadsInv'
      OBVIOUS
    <2>0. /\ uploadFaults \in 0..MaxUploadFaults /\ second \in 0..MaxSecond
          /\ disk \in [DOMAIN disk -> Contents]
          /\ picture \in [Owners -> [path : UsersPaths \cup {NoFile},
                                     holds : Contents \cup {NoFile}]]
          /\ \A r \in Uploads : upload[r] \in UploadRecords
      BY DEF UploadsInv, UploadsTyped
    <2>1. ASSUME NEW r \in Uploads, NEW kind \in {"chat", "Accreditation", "users"},
                 NEW o \in Owners \cup {NoFile}, NEW names \in [Parts -> AllNames],
                 NEW bad \in {"yes", "no"}, Receive(r, kind, o, names, bad)
          PROVE  UploadsInv'
      <3> DEFINE path == [p \in Parts |-> IF names[p] = NoFile THEN NoFile ELSE Temp(r, p)]
                 u == [NoUpload EXCEPT !.at = "inspect", !.kind = kind, !.owner = o,
                                       !.names = names, !.bad = bad, !.path = path]
                 new == {Temp(r, p) : p \in {q \in Parts : names[q] # NoFile}}
      <3>1. /\ upload' = [upload EXCEPT ![r] = u] /\ names["file"] # NoFile
            /\ disk' = [f \in DOMAIN disk \cup new |->
                           IF f \in new THEN Content(r, f.part) ELSE disk[f]]
            /\ UNCHANGED <<picture, second, withdrawn, uploadFaults>>
        BY <2>1 DEF Receive
      <3>2. path \in [Parts -> UploadPaths \cup {NoFile}]
        BY DEF UploadPaths, TempPaths, Temp
      <3>3. \A p \in Parts : names[p] # NoFile => path[p] = Temp(r, p) /\ path[p] \in TempPaths
        BY DEF Temp, TempPaths
      <3>4. \A f \in new : f \in TempPaths
        BY DEF Temp, TempPaths
      <3> HIDE DEF path, new
      <3>5. /\ u \in UploadRecords /\ u.at = "inspect" /\ u.names = names /\ u.path = path
        BY <3>2 DEF NoUpload, UploadRecords
      <3> HIDE DEF u
      <3>6. disk' \in [DOMAIN disk' -> Contents]
        BY <2>0, <3>1, <3>4 DEF Content, Contents, TempPaths
      <3>7. NamesKeep
        BY <3>1, <3>4, PathsDiffer DEF NamesKeep
      <3>8. PictureStays'
        BY <3>1, <3>7, PicturesKeep
      <3>9. \A p \in Parts : names[p] # NoFile =>
               /\ path[p] \in UploadPaths /\ path[p] \notin UsersPaths
        BY <3>3, PathsDiffer DEF UploadPaths
      <3> QED BY <2>0, <3>1, <3>3, <3>5, <3>6, <3>7, <3>8, <3>9, RequestKeeps
    <2>2. ASSUME NEW r \in Uploads, Reject(r) PROVE UploadsInv'
      <3>1. PICK kept \in SUBSET (ToDelete(r) \cap DOMAIN disk) :
              /\ IF kept = {} THEN UNCHANGED uploadFaults ELSE UploadFault
              /\ disk' = Without(disk, ToDelete(r) \ kept)
              /\ withdrawn' = withdrawn \cup {f \in ToDelete(r) : f.dir = "users"}
        BY <2>2 DEF Reject
      <3> DEFINE u == [NoUpload EXCEPT !.at = "done"]
      <3>2. u \in UploadRecords /\ u.at = "done"
        BY DEF NoUpload, UploadRecords, AllNames
      <3>3. upload' = [upload EXCEPT ![r] = u] /\ UNCHANGED <<picture, second>>
        BY <2>2 DEF Reject
      <3> HIDE DEF u
      <3>4. NamesKeep
        BY <3>1 DEF NamesKeep, Without, UsersPaths
      <3>5. disk' \in [DOMAIN disk' -> Contents]
        BY <2>0, <3>1 DEF Without
      <3>6. PictureStays'
        BY <3>3, <3>4, PicturesKeep
      <3>7. uploadFaults' \in 0..MaxUploadFaults
        BY <2>0, <3>1 DEF UploadFault
      <3> QED BY <2>0, <3>2, <3>3, <3>4, <3>5, <3>6, <3>7, RequestKeeps
    \* A request that only goes to its next state keeps its paths.
    <2>3. ASSUME NEW r \in Uploads, NEW where \in {"place", "clean", "row"},
                 upload' = To(r, where), Goes(r),
                 NamesKeep, disk' \in [DOMAIN disk' -> Contents],
                 where = "row" => upload[r].kind = "users" /\ Unplaced(r) = {},
                 UNCHANGED <<picture, second>>, uploadFaults' \in 0..MaxUploadFaults
          PROVE  UploadsInv'
      <3> DEFINE u == [upload[r] EXCEPT !.at = where]
      <3>1. /\ u \in UploadRecords /\ u.at = where /\ u.names = upload[r].names
            /\ u.path = upload[r].path /\ u.kind = upload[r].kind
        BY <2>0 DEF UploadRecords
      <3>2. upload' = [upload EXCEPT ![r] = u]
        BY <2>3 DEF To, UploadsInv, UploadsTyped
      <3> HIDE DEF u
      <3>3. \A p \in Parts : u.names[p] # NoFile =>
               /\ p \in Given(r)
               /\ u.path[p] \in UsersPaths => u.path[p] \in DOMAIN disk' \cup withdrawn'
        BY <2>3, <3>1 DEF Given, UploadsInv, PlacedIsThere, NamesKeep
      <3>4. PictureStays'
        BY <2>3, PicturesKeep
      <3>5. where = "row" => \A p \in Parts : u.names[p] # NoFile => u.path[p] # Temp(r, p)
        BY <2>3, <3>1 DEF Unplaced, Given
      <3>6. /\ u.names["file"] # NoFile
            /\ \A p \in Given(r) :
                  /\ u.path[p] \in UploadPaths
                  /\ u.path[p] \in TempPaths => u.path[p] = Temp(r, p)
                  /\ u.kind = "users" => u.path[p] \in TempPaths \cup UsersPaths
        BY <2>3, <3>1 DEF UploadsInv, PartsHavePaths
      <3> QED BY <2>0, <2>3, <3>1, <3>2, <3>3, <3>4, <3>5, <3>6, RequestKeeps, ZenonT(60)
    <2>4. ASSUME NEW r \in Uploads, Inspect(r) PROVE UploadsInv'
      <3>1. /\ Goes(r) /\ UNCHANGED <<disk, picture, second, withdrawn>>
            /\ upload' = To(r, "place") \/ upload' = To(r, "clean")
            /\ uploadFaults' \in 0..MaxUploadFaults
        BY <2>0, <2>4 DEF Inspect, Goes, UploadFault
      <3> QED BY <2>3, <3>1, StillKeeps
    \* A part gets its final path f.
    <2>5. ASSUME NEW r \in Uploads, NEW p \in Given(r), NEW f \in UploadPaths,
                 upload[r].at = "place", upload' = [upload EXCEPT ![r].path[p] = f],
                 f \notin TempPaths, upload[r].kind = "users" => f \in UsersPaths,
                 f \in UsersPaths => f \in DOMAIN disk' \cup withdrawn',
                 NamesKeep, disk' \in [DOMAIN disk' -> Contents],
                 UNCHANGED <<picture, second>>, uploadFaults' \in 0..MaxUploadFaults
          PROVE  UploadsInv'
      <3> DEFINE u == [upload[r] EXCEPT !.path[p] = f]
      <3>0. p \in Parts /\ upload[r].path \in [Parts -> UploadPaths \cup {NoFile}]
        BY <2>0 DEF Given, UploadRecords
      <3>1. /\ u \in UploadRecords /\ u.at = "place" /\ u.names = upload[r].names
            /\ u.path = [upload[r].path EXCEPT ![p] = f] /\ u.kind = upload[r].kind
        BY <2>0, <2>5, <3>0 DEF UploadRecords
      <3>2. upload' = [upload EXCEPT ![r] = u]
        BY <2>5, <3>0 DEF UploadsInv, UploadsTyped, UploadRecords
      <3> HIDE DEF u
      <3>3. u.path[p] = f /\ \A q \in Parts \ {p} : u.path[q] = upload[r].path[q]
        BY <3>0, <3>1
      <3>4. Goes(r)
        BY <2>5 DEF Goes
      <3>5. \A q \in Parts \ {p} : u.names[q] # NoFile =>
               /\ q \in Given(r)
               /\ u.path[q] \in UsersPaths => u.path[q] \in DOMAIN disk' \cup withdrawn'
        BY <2>5, <3>1, <3>3, <3>4 DEF Given, UploadsInv, PlacedIsThere, NamesKeep
      <3>6. /\ u.names["file"] # NoFile
            /\ \A q \in Given(r) \ {p} :
                  /\ u.path[q] \in UploadPaths
                  /\ u.path[q] \in TempPaths => u.path[q] = Temp(r, q)
                  /\ u.kind = "users" => u.path[q] \in TempPaths \cup UsersPaths
        BY <2>5, <3>1, <3>3, <3>4 DEF Given, UploadsInv, PartsHavePaths
      <3>7. PictureStays'
        BY <2>5, PicturesKeep
      <3>8. \A q \in Parts : u.names[q] # NoFile =>
                  /\ u.path[q] \in UploadPaths
                  /\ u.path[q] \in TempPaths => u.path[q] = Temp(r, q)
                  /\ u.kind = "users" => u.path[q] \in TempPaths \cup UsersPaths
                  /\ u.path[q] \in UsersPaths => u.path[q] \in DOMAIN disk' \cup withdrawn'
        <4>1. \A q \in Parts \ {p} : u.names[q] # NoFile => q \in Given(r) \ {p}
          BY <3>5
        <4>2. u.kind = "users" => f \in UsersPaths
          BY <2>5, <3>1
        <4> QED BY <2>5, <3>3, <3>5, <3>6, <4>1, <4>2
      <3>9. /\ NamesKeep /\ disk' \in [DOMAIN disk' -> Contents]
            /\ UNCHANGED <<picture, second>> /\ uploadFaults' \in 0..MaxUploadFaults
        BY <2>5
      <3>10. u \in UploadRecords /\ u.at = "place" /\ u.names["file"] # NoFile
        BY <3>1, <3>6
      <3> QED BY <2>0, <3>2, <3>7, <3>8, <3>9, <3>10, RequestKeeps
    <2>6. ASSUME NEW r \in Uploads, NEW p \in Parts, Relocate(r, p) PROVE UploadsInv'
      <3> DEFINE n == upload[r].names[p]
                 f == AccreditationPath(n)
      <3>1. /\ upload[r].at = "place" /\ upload[r].kind = "Accreditation" /\ p \in Given(r)
            /\ IF n \in UnicodeNames
               THEN upload' = To(r, "clean") /\ UNCHANGED disk
               ELSE /\ disk' = Put(Without(disk, {Temp(r, p)}), f, Content(r, p))
                    /\ upload' = [upload EXCEPT ![r].path[p] = f]
            /\ UNCHANGED <<picture, second, withdrawn, uploadFaults>>
        BY <2>6 DEF Relocate, IsNext, Unplaced
      <3>2. /\ f \in UploadPaths /\ f \notin TempPaths /\ f \notin UsersPaths
        BY <2>0 DEF AccreditationPath, UploadPaths, TempPaths, UsersPaths, UploadRecords
      <3>3. CASE n \in UnicodeNames
        BY <2>0, <2>3, <3>1, <3>3, StillKeeps DEF Goes
      <3>4. CASE n \notin UnicodeNames
        <4>1. disk' = Put(Without(disk, {Temp(r, p)}), f, Content(r, p))
          BY <3>1, <3>4
        <4>2. NamesKeep
          BY <3>1, <4>1, <3>2, PathsDiffer DEF NamesKeep, Put, Without
        <4>3. disk' \in [DOMAIN disk' -> Contents]
          BY <2>0, <4>1 DEF Put, Without, Content, Contents
        <4>4. /\ upload' = [upload EXCEPT ![r].path[p] = f] /\ upload[r].at = "place"
              /\ upload[r].kind # "users" /\ p \in Given(r) /\ UNCHANGED <<picture, second>>
              /\ uploadFaults' \in 0..MaxUploadFaults
          BY <2>0, <3>1, <3>4
        <4> HIDE DEF f
        <4> QED BY <2>5, <3>2, <4>2, <4>3, <4>4
      <3> QED BY <3>3, <3>4
    <2>7. ASSUME NEW r \in Uploads, NEW p \in Parts, Finalize(r, p) PROVE UploadsInv'
      <3> DEFINE f == UsersPath(upload[r].names[p])
      <3>1. /\ upload[r].at = "place" /\ upload[r].kind = "users" /\ p \in Given(r)
            /\ \/ /\ disk' = Without(Copy(f, Content(r, p)), {Temp(r, p)})
                  /\ upload' = [upload EXCEPT ![r].path[p] = f]
                  /\ UNCHANGED uploadFaults
               \/ /\ UploadFault /\ disk' = Copy(f, Content(r, p))
                  /\ IF f \in DOMAIN disk
                     THEN upload' = [upload EXCEPT ![r].path[p] = f]
                     ELSE upload' = To(r, "clean")
            /\ UNCHANGED <<picture, second, withdrawn>>
        BY <2>7 DEF Finalize, IsNext, Unplaced
      <3>2. f \in UsersPaths /\ f \in UploadPaths /\ f \notin TempPaths
        BY <2>0, PathsDiffer DEF UsersPath, UsersPaths, UploadPaths, UploadRecords
      <3> HIDE DEF f
      <3>3. disk' = Without(Copy(f, Content(r, p)), {Temp(r, p)}) \/ disk' = Copy(f, Content(r, p))
        BY <3>1
      <3>4. /\ f \in DOMAIN Copy(f, Content(r, p))
            /\ Copy(f, Content(r, p)) \in [DOMAIN Copy(f, Content(r, p)) -> Contents]
            /\ \A g \in DOMAIN disk : /\ g \in DOMAIN Copy(f, Content(r, p))
                                      /\ Copy(f, Content(r, p))[g] = disk[g]
        BY <2>0 DEF Copy, Put, Content, Contents
      <3>5. f # Temp(r, p) /\ \A g \in UsersPaths : g # Temp(r, p)
        BY <3>2, PathsDiffer
      <3>6. NamesKeep
        BY <3>1, <3>3, <3>4, <3>5 DEF NamesKeep, Without
      <3>7. disk' \in [DOMAIN disk' -> Contents] /\ f \in DOMAIN disk'
        BY <3>3, <3>4, <3>5 DEF Without
      <3>8. uploadFaults' \in 0..MaxUploadFaults
        BY <2>0, <3>1 DEF UploadFault
      <3>9. CASE upload' = [upload EXCEPT ![r].path[p] = f]
        BY <2>5, <3>1, <3>2, <3>6, <3>7, <3>8, <3>9
      <3>10. CASE upload' = To(r, "clean")
        BY <2>3, <3>1, <3>6, <3>7, <3>8, <3>10 DEF Goes
      <3> QED BY <3>1, <3>9, <3>10
    <2>8. ASSUME NEW r \in Uploads, Answer(r) PROVE UploadsInv'
      <3>1. /\ upload[r].at = "place" /\ Placed(r) /\ Goes(r)
            /\ UNCHANGED <<disk, picture, second, withdrawn, uploadFaults>>
        BY <2>8 DEF Answer, Goes
      <3>2. CASE upload[r].kind = "users"
        <4>1. upload' = To(r, "row") /\ Unplaced(r) = {}
          BY <2>8, <3>1, <3>2 DEF Answer, Placed
        <4> QED BY <2>0, <2>3, <3>1, <3>2, <4>1, StillKeeps
      <3>3. CASE upload[r].kind # "users"
        <4> DEFINE u == [NoUpload EXCEPT !.at = "done"]
        <4>1. u \in UploadRecords /\ u.at = "done"
          BY DEF NoUpload, UploadRecords, AllNames
        <4>2. upload' = [upload EXCEPT ![r] = u]
          BY <2>8, <3>3 DEF Answer, Tell
        <4> HIDE DEF u
        <4> QED BY <2>0, <3>1, <4>1, <4>2, StillKeeps, RequestKeeps
      <3> QED BY <3>2, <3>3
    <2>9. ASSUME NEW r \in Uploads, Persist(r) PROVE UploadsInv'
      <3> DEFINE o == upload[r].owner
                 f == upload[r].path["file"]
      <3>1. /\ upload[r].at = "row" /\ Goes(r)
            /\ \/ TakesPicture(o, f) /\ Tell(r) /\ UNCHANGED uploadFaults
               \/ /\ o \notin Owners /\ upload' = To(r, "clean")
                  /\ UNCHANGED <<picture, uploadFaults>>
               \/ UploadFault /\ upload' = To(r, "clean") /\ UNCHANGED picture
            /\ UNCHANGED <<disk, second, withdrawn>>
        BY <2>9 DEF Persist, Goes
      <3>2. CASE upload' = To(r, "clean") /\ UNCHANGED picture
                 /\ (UNCHANGED uploadFaults \/ UploadFault)
        BY <2>0, <2>3, <3>1, <3>2, StillKeeps DEF UploadFault
      <3>3. CASE TakesPicture(o, f) /\ Tell(r) /\ UNCHANGED uploadFaults
        <4>1. "file" \in Parts /\ "file" \in Given(r)
          BY <3>1 DEF Parts, Given, UploadsInv, PartsHavePaths
        <4>2. f \in UsersPaths /\ f \in DOMAIN disk \cup withdrawn
          BY <3>1, <4>1 DEF UploadsInv, PartsHavePaths, PlacedIsThere, Unplaced
        <4> DEFINE holds == IF f \in DOMAIN disk THEN disk[f] ELSE NoFile
                   u == [NoUpload EXCEPT !.at = "done"]
        <4>3. /\ o \in Owners /\ picture' = [picture EXCEPT ![o] = [path |-> f, holds |-> holds]]
              /\ holds \in Contents \cup {NoFile}
          BY <2>0, <3>3 DEF TakesPicture
        <4>4. u \in UploadRecords /\ u.at = "done" /\ upload' = [upload EXCEPT ![r] = u]
          BY <3>3 DEF NoUpload, UploadRecords, AllNames, Tell
        <4> HIDE DEF u
        <4>5. picture' \in [Owners -> [path : UsersPaths \cup {NoFile},
                                       holds : Contents \cup {NoFile}]]
          <5> HIDE DEF holds, f, o
          <5> QED BY <2>0, <4>2, <4>3
        <4>6. PictureStays'
          BY <2>0, <3>1, <4>2, <4>3 DEF UploadsInv, PictureStays
        <4> QED BY <2>0, <3>1, <3>3, <4>4, <4>5, <4>6, StillKeeps, RequestKeeps
      <3> QED BY <3>1, <3>2, <3>3
    <2>10. ASSUME NEW o \in Owners, SyncPicture(o) PROVE UploadsInv'
      <3>1. /\ picture' = [picture EXCEPT ![o] = [path |-> NoFile, holds |-> NoFile]]
            /\ UNCHANGED <<disk, upload, second, withdrawn, uploadFaults>>
        BY <2>10 DEF SyncPicture
      <3>2. UploadsTyped'
        BY <3>1 DEF UploadsInv, UploadsTyped
      <3>3. PartsHavePaths' /\ PlacedIsThere'
        BY <3>1 DEF UploadsInv, PartsHavePaths, PlacedIsThere, Goes, Given, Unplaced
      <3>4. PictureStays'
        BY <2>0, <3>1 DEF UploadsInv, PictureStays
      <3> QED BY <3>2, <3>3, <3>4 DEF UploadsInv
    <2>11. CASE SecondPasses
      <3>1. /\ second' \in 0..MaxSecond
            /\ UNCHANGED <<disk, upload, picture, withdrawn, uploadFaults>>
        BY <2>0, <2>11 DEF SecondPasses
      <3> QED BY <3>1
                 DEF UploadsInv, UploadsTyped, PartsHavePaths,
                     PlacedIsThere, Goes, Given,
                          Unplaced, PictureStays
    <2>12. CASE RestartUploads
      <3>1. /\ UNCHANGED <<disk, picture, second, withdrawn>> /\ uploadFaults' \in 0..MaxUploadFaults
            /\ upload' = [r \in Uploads |-> IF upload[r].at = "idle" THEN upload[r]
                                            ELSE [NoUpload EXCEPT !.at = "done"]]
        BY <2>0, <2>12 DEF RestartUploads, UploadFault
      <3>2. [NoUpload EXCEPT !.at = "done"] \in UploadRecords
        BY DEF NoUpload, UploadRecords, AllNames
      <3>3. /\ upload' \in [Uploads -> UploadRecords]
            /\ \A r \in Uploads : upload'[r].at \in {"idle", "done"}
        BY <2>0, <3>1, <3>2 DEF NoUpload
      <3>4. UploadsTyped' /\ PictureStays'
        BY <3>1, <3>3 DEF UploadsInv, UploadsTyped, PictureStays
      <3>5. PartsHavePaths' /\ PlacedIsThere'
        BY <3>3 DEF PartsHavePaths, PlacedIsThere, Goes
      <3> QED BY <3>4, <3>5 DEF UploadsInv
    <2>13. CASE UNCHANGED uploadVars
      BY <2>13
         DEF uploadVars, UploadsInv, UploadsTyped, PartsHavePaths, PlacedIsThere,
             Goes,
                   Given, Unplaced, PictureStays
    <2> QED BY <2>1, <2>2, <2>4, <2>6, <2>7, <2>8, <2>9, <2>10, <2>11, <2>12, <2>13
              DEF UploadsNext, AllNames
  <1>3. UploadsInv => UploadsTypeOK /\ PictureStays
    <2> SUFFICES ASSUME UploadsInv PROVE UploadsTypeOK /\ PictureStays
      OBVIOUS
    <2>1. /\ \A r \in Uploads : upload[r] \in UploadRecords
          /\ \A f \in DOMAIN disk : disk[f] \in Contents
          /\ second \in 0..MaxSecond /\ uploadFaults \in 0..MaxUploadFaults
      BY DEF UploadsInv, UploadsTyped
    <2>2. UploadsTypeOK
      BY <2>1 DEF UploadsTypeOK, UploadRecords, Contents, AllNames
    <2> QED BY <2>2 DEF UploadsInv
  <1> QED BY <1>1, <1>2, <1>3, PTL DEF UploadsSpec

HIDE UploadsAssumption

-----------------------------------------------------------------------------
(* The parts together, as MCServerParts takes their steps.                 *)

(* A behaviour of the run is one of each part: the others stand still.     *)
LEMMA PartsAreApart ==
  /\ PartsSpec => HelpdeskSpec
  /\ PartsSpec => CodesSpec
  /\ PartsSpec => FastSpec
  /\ PartsSpec => OperationsSpec
  /\ PartsSpec => RemindersSpec
  /\ PartsSpec => GroupsSpec
  /\ PartsSpec => CommunitySpec
  /\ PartsSpec => SubscriptionsSpec
  /\ PartsSpec => PromptSpec
  /\ PartsSpec => UploadsSpec
  /\ PartsSpec => SeenSpec
  <1>1. PartsInit =>
          /\ HelpdeskInit /\ CodesInit /\ FastInit /\ OperationsInit /\ RemindersInit
          /\ GroupsInit /\ CommunityInit /\ SubscriptionsInit /\ PromptInit /\ UploadsInit
          /\ SeenInit
    BY DEF PartsInit
  <1>2. [PartsNext]_PartsVars =>
          /\ [HelpdeskNext]_helpdeskVars /\ [CodesNext]_codesVars /\ [FastNext]_fastVars
          /\ [OperationsNext]_opsVars /\ [RemindersNext]_rideVars
          /\ [GroupsNext]_groupVars /\ [CommunityNext]_communityVars
          /\ [SubscriptionsNext]_subVars /\ [PromptNext]_promptVars
          /\ [UploadsNext]_uploadVars /\ [SeenNext]_seenVars
    BY DEF PartsNext, PartsVars
  <1>3. PartsSpec => HelpdeskSpec
    BY <1>1, <1>2, PTL DEF PartsSpec, HelpdeskSpec
  <1>4. PartsSpec => CodesSpec
    BY <1>1, <1>2, PTL DEF PartsSpec, CodesSpec
  <1>5. PartsSpec => FastSpec
    BY <1>1, <1>2, PTL DEF PartsSpec, FastSpec
  <1>6. PartsSpec => OperationsSpec
    BY <1>1, <1>2, PTL DEF PartsSpec, OperationsSpec
  <1>7. PartsSpec => RemindersSpec
    BY <1>1, <1>2, PTL DEF PartsSpec, RemindersSpec
  <1>8. PartsSpec => GroupsSpec
    BY <1>1, <1>2, PTL DEF PartsSpec, GroupsSpec
  <1>9. PartsSpec => CommunitySpec
    BY <1>1, <1>2, PTL DEF PartsSpec, CommunitySpec
  <1>10. PartsSpec => SubscriptionsSpec
    BY <1>1, <1>2, PTL DEF PartsSpec, SubscriptionsSpec
  <1>11. PartsSpec => PromptSpec
    BY <1>1, <1>2, PTL DEF PartsSpec, PromptSpec
  <1>12. PartsSpec => UploadsSpec
    BY <1>1, <1>2, PTL DEF PartsSpec, UploadsSpec
  <1>13. PartsSpec => SeenSpec
    BY <1>1, <1>2, PTL DEF PartsSpec, SeenSpec
  <1> QED BY <1>3, <1>4, <1>5, <1>6, <1>7, <1>8, <1>9, <1>10, <1>11, <1>12, <1>13

(* Every variable of every part has its type in every behaviour of         *)
(* MCServerParts (the server's parts that share no state).                 *)
THEOREM ServerTypesHold == PartsSpec => []ServerTypeOK
  <1>1. /\ HelpdeskTypeOK /\ CodesTypeOK /\ FastTypeOK /\ OperationsTypeOK
        /\ RemindersTypeOK /\ GroupsTypeOK /\ CommunityTypeOK /\ SubscriptionsTypeOK
        /\ PromptTypeOK /\ UploadsTypeOK /\ SeenTypeOK
        => ServerTypeOK
    BY DEF ServerTypeOK
  <1> QED BY <1>1, PartsAreApart, HelpdeskTypeCorrect, CodesTypeCorrect,
             FastTypeCorrect, OperationsTypeCorrect, RemindersTypeCorrect,
             GroupNeverOlderInvariant, CommunityTypeCorrect,
             FailedMeansUnreachableInvariant, PromptTypeCorrect, PictureStaysInvariant,
             ToldIsRecordedInvariant, PTL

=============================================================================
