--------------------------- MODULE PromptCampaign ---------------------------
(* The campaign that asks devices to register their push endpoints anew: a *)
(* visible notification that a device is to see once.                      *)
(* External: discovery of the endpoints (PushSubscriptions), push service. *)
EXTENDS Naturals, FiniteSets, Sequences

CONSTANTS
    Campaigns,       \* identifiers callers give
    Prompted,        \* endpoints
    CampaignRuns,
    MaxTracked,      \* MOBILE_REREGISTER_MAX_TRACKED_CAMPAIGNS
    MaxRunFaults     \* bound: runs forced, sends failed, restarts

ASSUME PromptAssumption == MaxTracked \in Nat \ {0} /\ MaxRunFaults \in Nat

VARIABLES
    jobs,            \* what each run is doing
    jobRunning,      \* mobileReregisterCampaignState.running
    tracked,         \* sentTargetsByCampaign: the campaigns, oldest first
    sentTargets,     \*   and the endpoints each was delivered to
    prompts,         \* unforced prompts answered since the campaign is tracked
    runFaults

promptVars == <<jobs, jobRunning, tracked, sentTargets, prompts, runFaults>>

NoRun == [at |-> "idle", campaign |-> "none", forced |-> "no",
          targets |-> {}, delivered |-> {}]

PromptTypeOK ==
    /\ jobs \in [CampaignRuns ->
                   [at : {"idle", "discover", "send", "done"},
                    campaign : Campaigns \cup {"none"}, forced : {"yes", "no"},
                    targets : SUBSET Prompted, delivered : SUBSET Prompted]]
    /\ jobRunning \in {"yes", "no"}
    /\ tracked \in Seq(Campaigns) /\ Len(tracked) <= MaxTracked
    /\ sentTargets \in [Campaigns -> SUBSET Prompted]
    /\ prompts \in [Campaigns -> [Prompted -> Nat]]
    /\ runFaults \in 0..MaxRunFaults

PromptInit ==
    /\ jobs = [r \in CampaignRuns |-> NoRun] /\ jobRunning = "no"
    /\ tracked = <<>> /\ sentTargets = [c \in Campaigns |-> {}]
    /\ prompts = [c \in Campaigns |-> [e \in Prompted |-> 0]]
    /\ runFaults = 0

RunFault == runFaults < MaxRunFaults /\ runFaults' = runFaults + 1

\* mutated: a second run begins beside the first.
Beside == "no"

\* What the route and the function look at before a run begins.
Busy == jobRunning

StartCampaign(r, c, forced) ==
    /\ jobs[r].at = "idle" /\ Busy = "no" /\ jobRunning' = "yes"
    /\ IF forced = "yes" THEN RunFault ELSE UNCHANGED runFaults
    /\ jobs' = [jobs EXCEPT ![r] = [NoRun EXCEPT !.at = "discover",
                                    !.campaign = c, !.forced = forced]]
    /\ UNCHANGED <<tracked, sentTargets, prompts>>

EndRun(r) == [jobs EXCEPT ![r] = [NoRun EXCEPT !.at = "done"]]

(* getCampaignSentTargetsSet: a campaign not yet tracked is added, and the *)
(* oldest forgotten when there are too many.                               *)
Track(c) ==
    IF \E i \in 1..Len(tracked) : tracked[i] = c
    THEN UNCHANGED <<tracked, prompts>> /\ sentTargets' = sentTargets
    ELSE LET full == Len(tracked) = MaxTracked
             gone == IF full THEN {Head(tracked)} ELSE {}
         IN /\ tracked' = Append(IF full THEN Tail(tracked) ELSE tracked, c)
            /\ sentTargets' = [d \in Campaigns |->
                  IF d \in gone THEN {} ELSE sentTargets[d]]
            /\ prompts' = [d \in Campaigns |->
                  IF d \in gone THEN [e \in Prompted |-> 0] ELSE prompts[d]]

(* The endpoints discovered, without those marked unless forced; a run     *)
(* with no target, or whose discovery fails, ends here.                    *)
ChooseTargets(r, found) ==
    /\ jobs[r].at = "discover"
    /\ LET c == jobs[r].campaign
           targets == IF jobs[r].forced = "yes" THEN found
                      ELSE found \ sentTargets[c]
       IN IF found = {}
          THEN /\ jobs' = EndRun(r) /\ jobRunning' = "no"
               /\ UNCHANGED <<tracked, sentTargets, prompts>>
          ELSE /\ Track(c)
               /\ IF targets = {}
                  THEN jobs' = EndRun(r) /\ jobRunning' = "no"
                  ELSE /\ jobs' = [jobs EXCEPT ![r].at = "send",
                                               ![r].targets = targets]
                       /\ UNCHANGED jobRunning
    /\ UNCHANGED runFaults

\* One target of the current batch: answered, or failed.
Prompt(r, e) ==
    /\ jobs[r].at = "send" /\ e \in jobs[r].targets
    /\ \/ /\ jobs' = [jobs EXCEPT ![r].targets = @ \ {e},
                                  ![r].delivered = @ \cup {e}]
          /\ prompts' = IF jobs[r].forced = "yes" THEN prompts
                        ELSE [prompts EXCEPT ![jobs[r].campaign][e] = @ + 1]
          /\ UNCHANGED runFaults
       \/ /\ RunFault /\ UNCHANGED prompts
          /\ jobs' = [jobs EXCEPT ![r].targets = @ \ {e}]
    /\ UNCHANGED <<jobRunning, tracked, sentTargets>>

\* Only now are the endpoints marked: in the set of the campaign.
EndCampaign(r) ==
    /\ jobs[r].at = "send" /\ jobs[r].targets = {}
    /\ sentTargets' = [sentTargets EXCEPT ![jobs[r].campaign] =
                          @ \cup jobs[r].delivered]
    /\ jobs' = EndRun(r) /\ jobRunning' = "no"
    /\ UNCHANGED <<tracked, prompts, runFaults>>

\* Nothing of it is saved.
RestartCampaigns ==
    /\ RunFault /\ jobRunning' = "no" /\ tracked' = <<>>
    /\ jobs' = [r \in CampaignRuns |-> IF jobs[r].at = "idle" THEN jobs[r]
                                       ELSE [NoRun EXCEPT !.at = "done"]]
    /\ sentTargets' = [c \in Campaigns |-> {}]
    /\ prompts' = [c \in Campaigns |-> [e \in Prompted |-> 0]]

PromptNext ==
    \/ RestartCampaigns
    \/ \E r \in CampaignRuns :
          \/ EndCampaign(r)
          \/ \E found \in SUBSET Prompted : ChooseTargets(r, found)
          \/ \E e \in Prompted : Prompt(r, e)
          \/ \E c \in Campaigns, f \in {"yes", "no"} : StartCampaign(r, c, f)

PromptSpec == PromptInit /\ [][PromptNext]_promptVars

(* As long as the server tracks a campaign, no prompt that was accepted    *)
(* for a device is sent to it again unless a caller forces it: whichever   *)
(* calls overlap, fail halfway or name other campaigns in between.         *)
PromptedOnce == \A c \in Campaigns, e \in Prompted : prompts[c][e] <= 1
=============================================================================
