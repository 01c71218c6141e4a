----------------------------- MODULE MCWebClient -----------------------------
(* The modules of the web client on small instances, one at a time: the    *)
(* variable part, chosen at the start, says whose steps a behaviour takes. *)
(* The parts share no state in the code either, but the rows of a chat,    *)
(* which each module abstracts to what it needs.                           *)
EXTENDS TLC, WebOutbox, WebInbox, WebReceipts, OfflineReplies, PendingPushes,
             WebRecovery, ShuttleOrders, WebGroups, WebTransport

CONSTANTS m1, m2, m3, f1, f2, n1, n2, n3, o1, b1, b2, r1, d1, d2, d3, u1, u2,
          u3

MCTwins == {{m1, m2}}
MCTs == n1 :> 1 @@ n2 :> 4 @@ n3 :> 3
MCHolder == d1 :> u1 @@ d2 :> u1 @@ d3 :> u2

VARIABLE part

\* A part that takes no steps starts in one of its states.
PartsInit ==
    /\ part \in {"outbox", "inbox", "receipts", "replies", "pushes",
                 "recovery", "shuttle", "groups", "transport"}
    /\ WebOutboxInit
    /\ WebInboxInit
    /\ WebReceiptsInit
    /\ OfflineInit
    /\ PushesInit
    /\ RecoveryInit
    /\ ShuttleInit
    /\ WebGroupsInit
    /\ WebTransportInit
    /\ part # "shuttle" => \A o \in ShuttleTrips : sheet[o] = "none"

PartsNext ==
    \/ /\ part = "outbox" /\ WebOutboxNext
       /\ UNCHANGED <<part, inVars, receiptVars, offlineVars, pushVars,
                      recVars, shVars, webGroupVars, webTransportVars>>
    \/ /\ part = "inbox" /\ WebInboxNext
       /\ UNCHANGED <<part, outVars, receiptVars, offlineVars, pushVars,
                      recVars, shVars, webGroupVars, webTransportVars>>
    \/ /\ part = "receipts" /\ WebReceiptsNext
       /\ UNCHANGED <<part, outVars, inVars, offlineVars, pushVars, recVars,
                      shVars, webGroupVars, webTransportVars>>
    \/ /\ part = "replies" /\ OfflineNext
       /\ UNCHANGED <<part, outVars, inVars, receiptVars, pushVars, recVars,
                      shVars, webGroupVars, webTransportVars>>
    \/ /\ part = "pushes" /\ PushesNext
       /\ UNCHANGED <<part, outVars, inVars, receiptVars, offlineVars,
                      recVars, shVars, webGroupVars, webTransportVars>>
    \/ /\ part = "recovery" /\ RecoveryNext
       /\ UNCHANGED <<part, outVars, inVars, receiptVars, offlineVars,
                      pushVars, shVars, webGroupVars, webTransportVars>>
    \/ /\ part = "shuttle" /\ ShuttleNext
       /\ UNCHANGED <<part, outVars, inVars, receiptVars, offlineVars,
                      pushVars, recVars, webGroupVars, webTransportVars>>
    \/ /\ part = "groups" /\ WebGroupsNext
       /\ UNCHANGED <<part, outVars, inVars, receiptVars, offlineVars,
                      pushVars, recVars, shVars, webTransportVars>>
    \/ /\ part = "transport" /\ WebTransportNext
       /\ UNCHANGED <<part, outVars, inVars, receiptVars, offlineVars,
                      pushVars, recVars, shVars, webGroupVars>>

PartsVars == <<part, outVars, inVars, receiptVars, offlineVars, pushVars, recVars, shVars,
               webGroupVars, webTransportVars>>
PartsSpec == PartsInit /\ [][PartsNext]_PartsVars

\* Every variable of every part has its type.
WebClientTypeOK ==
    /\ WebOutboxTypeOK
    /\ WebInboxTypeOK
    /\ WebReceiptsTypeOK
    /\ OfflineTypeOK
    /\ PushesTypeOK
    /\ RecoveryTypeOK
    /\ ShuttleTypeOK
    /\ WebGroupsTypeOK
    /\ WebTransportTypeOK

PartsSymmetry ==
    {p @@ q : p \in Permutations({m1, m2}), q \in Permutations({f1, f2})}
    \cup Permutations({b1, b2})
=============================================================================
