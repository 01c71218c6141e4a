------------------------- MODULE PushSubscriptions --------------------------
(* The push endpoints of one user's browser: how it gets them, how the     *)
(* server comes to know them, and the sends that use them: messages,       *)
(* and the refresh that makes browsers subscribe anew. Endpoints are never *)
(* used again. Abstracted: payloads with their badge, invalid keys, and    *)
(* the order of the endpoints and their device types, which choose those   *)
(* that a limit keeps. External: the push service, the sheet and the rows  *)
(* copied from it.                                                         *)
EXTENDS Naturals, FiniteSets

CONSTANTS
    Endpoints,
    Sends,           \* pushes to the user
    NoEndpoint,
    Limits,          \* endpoints a push may go to; 0: all of them
    MaxPushFaults    \* bound: requests lost or refused, restarts

ASSUME SubscriptionsAssumption ==
    NoEndpoint \notin Endpoints /\ Limits \subseteq Nat /\ MaxPushFaults \in Nat

VARIABLES
    device,          \* the browser's subscription, the only live endpoint
    issued,          \* endpoints it ever had
    storedEndpoint,  \* what the page remembers to have registered
    regPosts,        \* registrations under way: by the page or the worker
    forwarded,       \* registrations the server has forwarded to the sheet
    dbCell,          \* the user's cell in Subscribe, copied from the sheet
    localSubs,       \* deviceSubscriptionsByUser
    subCache,        \* the entry of subscriptionCache
    send,            \* what each push is doing
    subsLoad,        \* whether the process has loaded its state
    pushFaults

subVars == <<device, issued, storedEndpoint, regPosts, forwarded, dbCell,
             localSubs, subCache, send, subsLoad, pushFaults>>
deviceVars == <<device, issued, storedEndpoint, regPosts>>
sheetVars == <<forwarded, dbCell>>

Some == Endpoints \cup {NoEndpoint}
\* loadSubscriptions: what a row has, if anything.
Cell(e) == {e} \ {NoEndpoint}
NoSend == [kind |-> "message", at |-> "idle", limit |-> 0, targets |-> {},
           tried |-> {}, ok |-> {}, gone |-> {}, retried |-> "no",
           shaken |-> "no", leftOut |-> {}, owed |-> {}]
NoCache == [age |-> "none", subs |-> {}]

SubscriptionsTypeOK ==
    /\ device \in Some /\ storedEndpoint \in Some
    /\ issued \subseteq Endpoints
    /\ regPosts \subseteq [by : {"page", "worker"}, ep : Endpoints]
    /\ forwarded \subseteq Endpoints /\ dbCell \in Some
    /\ localSubs \subseteq Endpoints
    /\ subCache \in [age : {"none", "fresh", "old"}, subs : SUBSET Endpoints]
    /\ \A p \in Sends :
          /\ send[p].kind \in {"message", "refresh"}
          /\ send[p].at \in {"idle", "load", "force", "discover", "send",
                             "retry", "done"}
          /\ send[p].limit \in Limits \cup {0}
          /\ UNION {send[p].targets, send[p].tried, send[p].ok, send[p].gone,
                    send[p].leftOut, send[p].owed} \subseteq Endpoints
    /\ subsLoad \in {"loading", "loaded"}
    /\ pushFaults \in 0..MaxPushFaults

\* Initially the browser has no endpoint and nobody knows one.
SubscriptionsInit ==
    /\ device = NoEndpoint /\ storedEndpoint = NoEndpoint /\ issued = {}
    /\ regPosts = {} /\ forwarded = {} /\ dbCell = NoEndpoint
    /\ localSubs = {} /\ subCache = NoCache
    /\ send = [p \in Sends |-> NoSend]
    /\ subsLoad = "loading"
    /\ pushFaults = 0

PushFault == pushFaults < MaxPushFaults /\ pushFaults' = pushFaults + 1

(****************************** the browser ********************************)
\* What the browser holds, or a new endpoint when it holds none.
Subscribes(e) ==
    /\ \/ e = device
       \/ device = NoEndpoint /\ e \notin issued
    /\ device' = e /\ issued' = issued \cup {e}

(* tryRegisterPush: the endpoint is sent unless it is the one registered   *)
(* last; forced, and after a day, it is sent again.                        *)
PageRegisters(e, forced) ==
    /\ ~\E r \in regPosts : r.by = "page"     \* pushRegisterInFlight
    /\ Subscribes(e)
    /\ e # storedEndpoint \/ forced = "yes"
    /\ regPosts' = regPosts \cup {[by |-> "page", ep |-> e]}
    /\ UNCHANGED <<storedEndpoint, sheetVars, localSubs, subCache, send,
                   subsLoad, pushFaults>>

\* pushsubscriptionchange: the browser has replaced the endpoint.
BrowserReplaces(e) ==
    /\ device # NoEndpoint /\ e \notin issued
    /\ device' = e /\ issued' = issued \cup {e}
    /\ regPosts' = regPosts \cup {[by |-> "worker", ep |-> e]}
    /\ UNCHANGED <<storedEndpoint, sheetVars, localSubs, subCache, send,
                   subsLoad, pushFaults>>

(* refreshSubscriptionAuthInBackground, when a refresh arrives: the old    *)
(* subscription is given up first, and the new one may not be granted.     *)
Refresh(e) ==
    /\ \/ /\ \E f \in Endpoints \ issued :
                /\ device' = f /\ issued' = issued \cup {f}
                /\ regPosts' = regPosts \cup {[by |-> "worker", ep |-> f]}
          /\ UNCHANGED pushFaults
       \/ PushFault /\ device' = NoEndpoint /\ UNCHANGED <<issued, regPosts>>
    /\ e = device /\ UNCHANGED storedEndpoint

\* The answer of the server, or none; the page does not look at its status.
Stored(r, answer) ==
    IF r.by = "page" /\ answer # "lost" THEN r.ep ELSE storedEndpoint

(****************************** the server *********************************)
(* POST /register-device: the endpoint joins those the user has, and is    *)
(* forwarded to the sheet. It may be refused: the session is not there.    *)
Register(r) ==
    /\ r \in regPosts /\ regPosts' = regPosts \ {r}
    /\ \/ /\ localSubs' = localSubs \cup {r.ep}
          /\ forwarded' = forwarded \cup {r.ep}
          /\ storedEndpoint' = Stored(r, "ok")
          /\ UNCHANGED pushFaults
       \/ /\ PushFault
          /\ \E answer \in {"refused", "lost"} :
                storedEndpoint' = Stored(r, answer)
          /\ UNCHANGED <<localSubs, forwarded>>
    /\ UNCHANGED <<device, issued, dbCell, subCache, send, subsLoad>>

\* syncSubscribeRows: the row read from the sheet replaces the one here.
SyncSubscribeRows(e) == dbCell # e /\ dbCell' = e

(* External: the sheet takes the requests forwarded to it when it gets to  *)
(* them, and drops endpoints reported gone; every five minutes its rows    *)
(* replace those in MySQL.                                                 *)
SyncSubscribeSheetToDb(e) ==
    /\ e \in forwarded \cup {NoEndpoint} /\ SyncSubscribeRows(e)
    /\ UNCHANGED <<deviceVars, forwarded, localSubs, subCache, send,
                   subsLoad, pushFaults>>

SubCacheAges ==
    /\ subCache.age = "fresh" /\ subCache' = [subCache EXCEPT !.age = "old"]
    /\ UNCHANGED <<deviceVars, sheetVars, localSubs, send, subsLoad,
                   pushFaults>>

\* An endpoint the push service does not know leaves the memory.
Prune(e) ==
    /\ subCache' = [subCache EXCEPT !.subs = @ \ {e}]
    /\ localSubs' = localSubs \ {e}

\* mutated: the memory counts only without a row.
LocalIfNoRow == IF dbCell = NoEndpoint THEN localSubs ELSE {}

\* getLocalDeviceSubscriptionsForUsers
Local == localSubs

\* Only one refresh at a time.
Refreshing == \E p \in Sends :
    send[p].kind = "refresh" /\ send[p].at \notin {"idle", "done"}

(* A push begins: a message asks the cache and the rows; the refresh looks *)
(* everywhere. The caller limits a message and may allow it no second      *)
(* attempt (maxPerUserEndpoints, singlePerUser, allowSecondAttempt).       *)
StartMessage(p, limit, retried) ==
    send' = [send EXCEPT ![p] = [NoSend EXCEPT
                  !.at = "load", !.limit = limit, !.retried = retried,
                  !.owed = localSubs \cap {device}]]
StartRefresh(p) ==
    /\ ~Refreshing
    /\ send' = [send EXCEPT ![p] = [NoSend EXCEPT
                  !.kind = "refresh", !.at = "discover",
                  !.owed = localSubs \cap {device}]]
StartSend(p) ==
    /\ send[p].at = "idle"
    /\ \/ StartRefresh(p)
       \/ \E limit \in Limits, retried \in {"no", "yes"} :
             StartMessage(p, limit, retried)
    /\ UNCHANGED <<deviceVars, sheetVars, localSubs, subCache, subsLoad,
                   pushFaults>>

(* getSubscriptionFromSheet: a fresh entry answers; otherwise the rows,    *)
(* and when they are empty or unreadable the entry, however old.           *)
SubscriptionRows(p, strategy) ==
    {[subs |-> Cell(dbCell), from |-> "rows"],
     [subs |-> {}, from |-> "failed"]}
    \cup IF strategy = "load" /\ subCache.age = "fresh"
         THEN {[subs |-> subCache.subs, from |-> "cache"]} ELSE {}
Answered(r) == IF r.subs # {} THEN r.subs ELSE subCache.subs
CacheAfter(r) == IF r.from = "rows" /\ r.subs # {}
                 THEN [age |-> "fresh", subs |-> r.subs] ELSE subCache

(* The endpoints a push goes to, of those found: one per user, at most the *)
(* limit or what a single target may have. The list and the device types   *)
(* say which, so that any of them may be left out.                         *)
Limited(found, limit) ==
    IF limit = 0 \/ Cardinality(found) <= limit THEN {found}
    ELSE {kept \in SUBSET found : Cardinality(kept) = limit}
Sending(p, found) ==
    \E kept \in Limited(found, send[p].limit) :
        send' = [send EXCEPT ![p].targets = kept, ![p].tried = kept,
                             ![p].leftOut = found \ kept, ![p].at = "send"]

\* What a push that reached nobody, and met no other failure, leaves owed,
\* if its limit did not leave it out.
Unserved(p) == IF send[p].ok = {} /\ send[p].shaken = "no"
               THEN (send[p].owed \cap {device}) \ send[p].leftOut ELSE {}
Ended(p) == [send EXCEPT ![p] = [NoSend EXCEPT
                !.kind = send[p].kind, !.at = "done", !.owed = Unserved(p)]]

(* The strategies one after the other until one finds something; then the  *)
(* endpoints in memory join, and the entry of the cache takes all of them. *)
LoadTargets(p) ==
    /\ send[p].at \in {"load", "force", "discover"}
    /\ \E r \in SubscriptionRows(p, send[p].at) :
          /\ r.from = "failed" => PushFault
          /\ r.from # "failed" => UNCHANGED pushFaults
          /\ LET found == IF send[p].at = "discover"
                          THEN Answered(r) \cup subCache.subs \cup localSubs
                          ELSE Answered(r)
                 next == IF send[p].at = "load" THEN "force" ELSE "discover"
             IN IF found = {} /\ send[p].at # "discover"
                THEN /\ send' = [send EXCEPT ![p].at = next]
                     /\ subCache' = CacheAfter(r)
                ELSE /\ IF found \cup Local = {}
                        THEN send' = Ended(p)
                        ELSE Sending(p, found \cup Local)
                     /\ subCache' = IF send[p].kind = "message" /\ Local # {}
                                    THEN [age |-> "fresh",
                                          subs |-> found \cup Local]
                                    ELSE CacheAfter(r)
    /\ UNCHANGED <<deviceVars, sheetVars, localSubs, subsLoad>>

(* The pushes to all targets go out together and end one by one: arrived,  *)
(* refused for an endpoint that is gone, which the memory then loses       *)
(* unless the daily refresh sent it, or failed for another reason.         *)
SendOne(p, e) ==
    /\ send[p].at = "send" /\ e \in send[p].targets
    /\ \/ /\ e = device
          /\ IF send[p].kind = "refresh" THEN Refresh(e)
             ELSE UNCHANGED <<deviceVars, pushFaults>>
          /\ send' = [send EXCEPT ![p].targets = @ \ {e}, ![p].ok = @ \cup {e}]
          /\ UNCHANGED <<subCache, localSubs>>
       \/ /\ e # device
          /\ send' = [send EXCEPT ![p].targets = @ \ {e},
                                ![p].gone = @ \cup {e}]
          /\ \/ Prune(e)
             \/ send[p].kind = "refresh" /\ UNCHANGED <<subCache, localSubs>>
          /\ UNCHANGED <<deviceVars, pushFaults>>
       \/ /\ PushFault
          /\ send' = [send EXCEPT ![p].targets = @ \ {e}, ![p].shaken = "yes"]
          /\ UNCHANGED <<deviceVars, subCache, localSubs>>
    /\ UNCHANGED <<sheetVars, subsLoad>>

(* When nothing arrived a message is tried once more, with the rows read   *)
(* again and the limit kept: of what it leaves, the endpoints that have    *)
(* not been tried, else all of it.                                         *)
RetrySend(p) ==
    /\ send[p].at = "send" /\ send[p].targets = {}
    /\ send[p].kind = "message" /\ send[p].ok = {} /\ send[p].retried = "no"
    /\ send' = [send EXCEPT ![p].at = "retry", ![p].retried = "yes"]
    /\ subCache' = NoCache
    /\ UNCHANGED <<deviceVars, sheetVars, localSubs,
                   subsLoad, pushFaults>>
ReloadTargets(p) ==
    /\ send[p].at = "retry"
    /\ \E r \in SubscriptionRows(p, "force") :
          /\ r.from = "failed" => PushFault
          /\ r.from # "failed" => UNCHANGED pushFaults
          /\ subCache' = CacheAfter(r)
          /\ \E kept \in Limited(r.subs \cup Local, send[p].limit) :
                LET new == kept \ send[p].tried
                    targets == IF new # {} THEN new ELSE kept
                IN send' = [send EXCEPT
                      ![p].targets = targets, ![p].tried = @ \cup targets,
                      ![p].leftOut = (@ \cup (r.subs \cup Local)) \
                                        (send[p].tried \cup targets),
                      ![p].at = "send"]
    /\ UNCHANGED <<deviceVars, sheetVars, localSubs, subsLoad>>

(* The end: endpoints that are gone leave the memory, and the sheet is     *)
(* told of them.                                                           *)
EndSend(p) ==
    /\ send[p].at = "send" /\ send[p].targets = {}
    /\ (send[p].kind = "message" /\ send[p].ok = {}) => send[p].retried = "yes"
    /\ send' = Ended(p)
    /\ localSubs' = IF send[p].kind = "message" THEN localSubs \ send[p].gone
                    ELSE localSubs
    /\ UNCHANGED <<deviceVars, sheetVars, subCache, subsLoad, pushFaults>>

\* A restart: pushes under way are not taken up again, and the endpoints
\* registered before are not known until the state is loaded.
RestartPush ==
    /\ PushFault
    /\ localSubs' = {} /\ subsLoad' = "loading"
    /\ subCache' = NoCache
    /\ send' = [p \in Sends |-> IF send[p].at = "idle" THEN send[p]
                               ELSE [NoSend EXCEPT !.at = "done"]]
    /\ UNCHANGED <<deviceVars, sheetVars>>

(* loadState: what some save put into the store that is read, whenever     *)
(* that was, replaces what was registered since the start; a push under    *)
(* way is owed only what is known throughout.                              *)
LoadSubs(old) ==
    /\ subsLoad = "loading" /\ subsLoad' = "loaded"
    /\ localSubs' = old
    /\ send' = [p \in Sends |-> [send[p] EXCEPT !.owed = @ \cap old]]
    /\ UNCHANGED <<deviceVars, sheetVars, subCache, pushFaults>>

SubscriptionsNext ==
    \/ SubCacheAges \/ RestartPush
    \/ \E old \in SUBSET forwarded : LoadSubs(old)
    \/ \E e \in Endpoints :
          \/ BrowserReplaces(e)
          \/ \E forced \in {"yes", "no"} : PageRegisters(e, forced)
          \/ \E p \in Sends : SendOne(p, e)
    \/ \E e \in Some : SyncSubscribeSheetToDb(e)
    \/ \E r \in regPosts : Register(r)
    \/ \E p \in Sends :
          \/ StartSend(p) \/ LoadTargets(p)
          \/ RetrySend(p) \/ ReloadTargets(p) \/ EndSend(p)

SubscriptionsSpec == SubscriptionsInit /\ [][SubscriptionsNext]_subVars

(* A message that reached nobody was not owed to the browser: an endpoint  *)
(* known from its begin on and still live was tried, whatever the cache,   *)
(* the rows and the pushes beside it did, unless the limit of the message  *)
(* left that endpoint out of both attempts or a push to it failed for      *)
(* another reason.                                                         *)
FailedMeansUnreachable ==
    \A p \in Sends : send[p].at = "done" => send[p].owed = {}
=============================================================================
