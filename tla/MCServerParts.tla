---------------------------- MODULE MCServerParts ----------------------------
(* The modules of the server that share no state with each other, on small *)
(* instances, one at a time: the variable part, chosen at the start, says  *)
(* whose steps a behaviour takes.                                          *)
EXTENDS TLC, Helpdesk, OneTimeCodes, FastReply, ShuttleOperations,
             ShuttleReminders, ChatGroups, CommunityGroups,
             PushSubscriptions, PromptCampaign, Uploads, SeenRecords

CONSTANTS a1, a2, t1, nA, nB, nH, s1, s2, c1, c2, k1, k2, m1, m2, p1, p2, e1,
          e2, r1, r2, r3

MCSeedNames == <<nA>>
MCSeedKeys == <<"open">>
MCAppointments == {[role |-> "Editor", departments |-> {nA}]}
MCPayloads == {[members |-> {p1, p2}, admins |-> {}, at |-> 1],
               [members |-> {}, admins |-> {p2}, at |-> 2]}

VARIABLE part

\* A part that takes no steps starts in one of its states.
PartsInit ==
    /\ part \in {"helpdesk", "codes", "fast", "operations", "reminders",
                 "groups", "communities", "subscriptions", "campaign",
                 "uploads", "seen"}
    /\ HelpdeskInit
    /\ CodesInit
    /\ FastInit
    /\ OperationsInit
    /\ RemindersInit
    /\ GroupsInit
    /\ CommunityInit
    /\ SubscriptionsInit
    /\ PromptInit
    /\ UploadsInit
    /\ SeenInit
    /\ part # "helpdesk" => tables = "database_up"
    /\ part # "fast" => \A r \in FastRequests : fastRequest[r].msg = c1

PartsNext ==
    \/ /\ part = "helpdesk" /\ HelpdeskNext
       /\ UNCHANGED <<part, codesVars, fastVars, opsVars, rideVars,
                      groupVars, communityVars, subVars, promptVars,
                      uploadVars, seenVars>>
    \/ /\ part = "codes" /\ CodesNext
       /\ UNCHANGED <<part, helpdeskVars, fastVars, opsVars, rideVars,
                      groupVars, communityVars, subVars, promptVars,
                      uploadVars, seenVars>>
    \/ /\ part = "fast" /\ FastNext
       /\ UNCHANGED <<part, helpdeskVars, codesVars, opsVars, rideVars,
                      groupVars, communityVars, subVars, promptVars,
                      uploadVars, seenVars>>
    \/ /\ part = "operations" /\ OperationsNext
       /\ UNCHANGED <<part, helpdeskVars, codesVars, fastVars, rideVars,
                      groupVars, communityVars, subVars, promptVars,
                      uploadVars, seenVars>>
    \/ /\ part = "reminders" /\ RemindersNext
       /\ UNCHANGED <<part, helpdeskVars, codesVars, fastVars, opsVars,
                      groupVars, communityVars, subVars, promptVars,
                      uploadVars, seenVars>>
    \/ /\ part = "groups" /\ GroupsNext
       /\ UNCHANGED <<part, helpdeskVars, codesVars, fastVars, opsVars,
                      rideVars, communityVars, subVars, promptVars,
                      uploadVars, seenVars>>
    \/ /\ part = "communities" /\ CommunityNext
       /\ UNCHANGED <<part, helpdeskVars, codesVars, fastVars, opsVars,
                      rideVars, groupVars, subVars, promptVars, uploadVars,
                      seenVars>>
    \/ /\ part = "subscriptions" /\ SubscriptionsNext
       /\ UNCHANGED <<part, helpdeskVars, codesVars, fastVars, opsVars,
                      rideVars, groupVars, communityVars, promptVars,
                      uploadVars, seenVars>>
    \/ /\ part = "campaign" /\ PromptNext
       /\ UNCHANGED <<part, helpdeskVars, codesVars, fastVars, opsVars,
                      rideVars, groupVars, communityVars, subVars,
                      uploadVars, seenVars>>
    \/ /\ part = "uploads" /\ UploadsNext
       /\ UNCHANGED <<part, helpdeskVars, codesVars, fastVars, opsVars,
                      rideVars, groupVars, communityVars, subVars,
                      promptVars, seenVars>>
    \/ /\ part = "seen" /\ SeenNext
       /\ UNCHANGED <<part, helpdeskVars, codesVars, fastVars, opsVars,
                      rideVars, groupVars, communityVars, subVars,
                      promptVars, uploadVars>>

PartsVars == <<part, helpdeskVars, codesVars, fastVars, opsVars, rideVars, groupVars,
               communityVars, subVars, promptVars, uploadVars, seenVars>>
PartsSpec == PartsInit /\ [][PartsNext]_PartsVars

\* Every variable of every part has its type.
ServerTypeOK ==
    /\ HelpdeskTypeOK
    /\ CodesTypeOK
    /\ FastTypeOK
    /\ OperationsTypeOK
    /\ RemindersTypeOK
    /\ GroupsTypeOK
    /\ CommunityTypeOK
    /\ SubscriptionsTypeOK
    /\ PromptTypeOK
    /\ UploadsTypeOK
    /\ SeenTypeOK

PartsSymmetry ==
    {p @@ q : p \in Permutations({s1, s2}), q \in Permutations({a1, a2})}
=============================================================================
