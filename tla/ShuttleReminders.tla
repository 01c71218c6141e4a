-------------------------- MODULE ShuttleReminders --------------------------
(* The reminders the server sends before a ride, for one user: the job     *)
(* that the operators' request starts (and the scheduler, which server.js  *)
(* has switched off), the cache of the orders, and the marks that keep a   *)
(* ride from being announced twice, with the stores that outlive a process *)
(* and the load that a process serves without waiting for.                 *)
(* External: the sheet, and the push service. Abstracted: marks are not    *)
(* dropped for their age or their number, which takes two weeks or         *)
(* thousands of rides.                                                     *)
EXTENDS Naturals, FiniteSets, StateStores

CONSTANTS
    Rides,           \* the order keys of the user
    RideJobs,        \* runs of the job that could overlap
    MaxRideFaults,   \* bound: failed reads and writes, pushes that fail or
                     \* are not answered, restarts
    MaxAnnounced,    \* bound: reminders of one ride
    MaxMarkSaves     \* bound: saves under way together

ASSUME RemindersAssumption ==
    MaxRideFaults \in Nat /\ MaxAnnounced \in Nat \ {0} /\ MaxMarkSaves \in Nat

VARIABLES
    ride,            \* external: the sheet
    hour,            \* how near the ride is
    rides,           \* shuttleReminderOrdersCacheByUser: the active orders
    ridesAge,        \* and their age
    rideJob,         \* what each run is doing
    sentMarks,       \* shuttleReminderSentAtByKey
    stateFrom,       \* where this process has it from
    markStore,       \* what each store has of it
    markSaves,       \* the saves under way: what they write
    announced,       \* pushes that arrived, by ride
    forgotten,       \* history: rides announced whose mark a run may not see
    rideFaults

rideVars == <<ride, hour, rides, ridesAge, rideJob, sentMarks, stateFrom,
              markStore, markSaves, announced, forgotten, rideFaults>>
sheetOfRides == <<ride, hour>>
orderCache == <<rides, ridesAge>>
marksVars == <<sentMarks, stateFrom, markStore, markSaves>>

NoRideJob == [at |-> "idle", tick |-> {}, due |-> {}]

RemindersTypeOK ==
    /\ ride \in [Rides -> {"active", "cancelled"}]
    /\ hour \in [Rides -> {"early", "due", "departed"}]
    /\ rides \subseteq Rides
    /\ ridesAge \in {"none", "fresh", "old"}
    /\ rideJob \in [RideJobs -> [at : {"idle", "load", "check", "send"},
                             tick : SUBSET Rides,   \* due when the job began
                             due : SUBSET Rides]]
    /\ sentMarks \subseteq Rides /\ stateFrom \in StateFrom
    /\ markStore \in [Stores -> SUBSET Rides]
    /\ markSaves \subseteq [marks : SUBSET Rides, from : StateFrom]
    /\ announced \in [Rides -> 0..MaxAnnounced]
    /\ forgotten \subseteq Rides
    /\ rideFaults \in 0..MaxRideFaults

RemindersInit ==
    /\ ride = [k \in Rides |-> "active"] /\ hour = [k \in Rides |-> "early"]
    /\ rides = {} /\ ridesAge = "none"
    /\ rideJob = [j \in RideJobs |-> NoRideJob]
    /\ sentMarks = {} /\ stateFrom = "loading"
    /\ markStore = [s \in Stores |-> {}] /\ markSaves = {}
    /\ announced = [k \in Rides |-> 0]
    /\ forgotten = {} /\ rideFaults = 0

RideFault ==
    /\ rideFaults < MaxRideFaults
    /\ rideFaults' = rideFaults + 1

\* What the next load could still find.
Kept == UNION {markStore[s] : s \in Stores}
Forget(ks) == forgotten' = forgotten \cup ks

RideCancelled(k) ==
    /\ ride[k] = "active" /\ ride' = [ride EXCEPT ![k] = "cancelled"]
    /\ UNCHANGED <<hour, orderCache, rideJob, marksVars, announced, forgotten,
                   rideFaults>>

HourPasses(k) ==
    /\ hour[k] # "departed"
    /\ hour' = [hour EXCEPT ![k] = IF @ = "early" THEN "due" ELSE "departed"]
    /\ UNCHANGED <<ride, orderCache, rideJob, marksVars, announced, forgotten,
                   rideFaults>>

\* The cache outlives its TTL; later it is pruned.
CacheAges ==
    /\ ridesAge # "none"
    /\ ridesAge' = IF ridesAge = "fresh" THEN "old" ELSE "none"
    /\ rides' = IF ridesAge = "old" THEN {} ELSE rides
    /\ UNCHANGED <<sheetOfRides, rideJob, marksVars, announced, forgotten,
                   rideFaults>>

\* mutated: runs may overlap.
NeverRunning == FALSE

\* An operator's request or the scheduler's tick; one run at a time.
Running == \E j \in RideJobs : rideJob[j].at # "idle"
StartJob(j) ==
    /\ ~Running /\ rideJob[j].at = "idle"
    /\ rideJob' = [rideJob EXCEPT ![j] =
          [NoRideJob EXCEPT !.at = "load",
                        !.tick = {k \in Rides : hour[k] = "due"}]]
    /\ UNCHANGED <<sheetOfRides, orderCache, marksVars, announced, forgotten,
                   rideFaults>>

ActiveRides == {k \in Rides : ride[k] = "active"}
Refreshed == rides' = ActiveRides /\ ridesAge' = "fresh"

(* The orders: from a fresh cache unless the run is forced, else from the  *)
(* sheet, else from whatever the cache holds. What is due and not marked   *)
(* goes on; what did not come from the sheet is checked first. A run that  *)
(* decides while the state is still loading sees no marks of before.       *)
DueOf(j, orders) == (orders \cap rideJob[j].tick) \ sentMarks
Unseen(ks) == IF stateFrom = "loading" THEN ks \cap Kept ELSE {}
Decided(j, orders, source) ==
    /\ rideJob' = [rideJob EXCEPT
              ![j].due = DueOf(j, orders),
              ![j].at = IF source = "remote" \/ DueOf(j, orders) = {}
                        THEN "send" ELSE "check"]
    /\ Forget(Unseen(DueOf(j, orders)))
LoadOrders(j) ==
    /\ rideJob[j].at = "load"
    /\ \/ /\ ridesAge = "fresh" /\ Decided(j, rides, "cache")
          /\ UNCHANGED <<orderCache, rideFaults>>
       \/ /\ Refreshed /\ Decided(j, ActiveRides, "remote")
          /\ UNCHANGED rideFaults
       \/ /\ RideFault
          /\ IF ridesAge # "none" THEN Decided(j, rides, "stale")
             ELSE /\ rideJob' = [rideJob EXCEPT ![j] = NoRideJob]
                  /\ UNCHANGED forgotten
          /\ UNCHANGED orderCache
    /\ UNCHANGED <<sheetOfRides, marksVars, announced>>

\* The safety guard; a read that fails falls back on the cache here too.
CheckOrders(j) ==
    /\ rideJob[j].at = "check"
    /\ \/ /\ Refreshed
          /\ rideJob' = [rideJob EXCEPT ![j].due = @ \cap ActiveRides, ![j].at = "send"]
          /\ UNCHANGED rideFaults
       \/ /\ RideFault
          /\ rideJob' = IF ridesAge = "none" THEN [rideJob EXCEPT ![j] = NoRideJob]
                    ELSE [rideJob EXCEPT ![j].due = @ \cap rides, ![j].at = "send"]
          /\ UNCHANGED orderCache
    /\ UNCHANGED <<sheetOfRides, marksVars, announced, forgotten>>

(* A message goes to the mailbox and a push to the devices, ride by ride;  *)
(* a push that nobody answered is tried a second time at once. Only an     *)
(* answer marks the ride: what arrived without one leaves no mark, and     *)
(* then the next run puts another message into the mailbox. A query that   *)
(* fails ends the run.                                                     *)
MarkSent(k) == sentMarks' = sentMarks \cup {k}
Arrivals(k, n) ==
    /\ announced[k] + n <= MaxAnnounced
    /\ announced' = [announced EXCEPT ![k] = @ + n]
Announce(j, k) ==
    /\ rideJob[j].at = "send" /\ k \in rideJob[j].due
    /\ \/ /\ MarkSent(k)
          /\ \/ Arrivals(k, 1) /\ UNCHANGED <<forgotten, rideFaults>>
             \/ Arrivals(k, 2) /\ Forget({k}) /\ RideFault
          /\ rideJob' = [rideJob EXCEPT ![j].due = @ \ {k}]
       \/ /\ RideFault /\ UNCHANGED sentMarks
          /\ \/ UNCHANGED <<announced, forgotten>>
             \/ /\ \E n \in 1..2 : Arrivals(k, n)
                /\ Forget({k})
          /\ \E rest \in {rideJob[j].due \ {k}, {}} :
                rideJob' = [rideJob EXCEPT ![j].due = rest]
    /\ UNCHANGED <<sheetOfRides, orderCache, stateFrom, markStore, markSaves>>

EndJob(j) ==
    /\ rideJob[j].at = "send" /\ rideJob[j].due = {}
    /\ rideJob' = [rideJob EXCEPT ![j] = NoRideJob]
    /\ UNCHANGED <<sheetOfRides, orderCache, marksVars, announced, forgotten,
                   rideFaults>>

(* The timer of scheduleStateSave, which every push, every run that marked *)
(* a ride and many other requests start: any moment may be its moment. The *)
(* marks it takes reach a store later, after those of an earlier save or   *)
(* before them.                                                            *)
SaveBegins ==
    /\ Cardinality(markSaves) < MaxMarkSaves
    /\ markSaves' = markSaves \cup {[marks |-> sentMarks, from |-> stateFrom]}
    /\ UNCHANGED <<sheetOfRides, orderCache, rideJob, sentMarks, stateFrom,
                   markStore, announced, forgotten, rideFaults>>
SaveEnds(m, s) ==
    /\ m \in markSaves /\ markSaves' = markSaves \ {m}
    /\ s \in SavesTo(m.from)
    /\ IF FellBack(m.from, s) THEN RideFault ELSE UNCHANGED rideFaults
    /\ markStore' = [markStore EXCEPT ![s] = m.marks]
    /\ Forget((Kept \ Kept') \ sentMarks)
    /\ UNCHANGED <<sheetOfRides, orderCache, rideJob, sentMarks, stateFrom,
                   announced>>
\* No store takes it: errors are logged, and Redis without a connection
\* answers like one that has written.
SaveIsLost(m) ==
    /\ m \in markSaves /\ markSaves' = markSaves \ {m}
    /\ RideFault
    /\ UNCHANGED <<sheetOfRides, orderCache, rideJob, sentMarks, stateFrom,
                   markStore, announced, forgotten>>

\* The process ends, and the next one serves before it has loaded anything.
RemindersRestart ==
    /\ RideFault
    /\ sentMarks' = {} /\ stateFrom' = "loading" /\ markSaves' = {}
    /\ Forget(sentMarks \ Kept)
    /\ rides' = {} /\ ridesAge' = "none"
    /\ rideJob' = [j \in RideJobs |-> NoRideJob]
    /\ UNCHANGED <<sheetOfRides, markStore, announced>>

(* loadState: MySQL, or when that query fails or finds no state an older   *)
(* store, replaces the marks, those made since the start with them; with   *)
(* no store to read they stay.                                             *)
LoadMarks(s) ==
    /\ stateFrom = "loading" /\ stateFrom' = LoadedFrom(s)
    /\ IF s = "mysql" THEN UNCHANGED rideFaults ELSE RideFault
    /\ sentMarks' = markStore[s]
    /\ Forget((Kept \cup sentMarks) \ markStore[s])
    /\ rides' = {} /\ ridesAge' = "none"
    /\ UNCHANGED <<sheetOfRides, rideJob, markStore, markSaves, announced>>
LoadFindsNothing ==
    /\ stateFrom = "loading" /\ stateFrom' = "older"
    /\ RideFault
    /\ Forget(Kept \ sentMarks)
    /\ UNCHANGED <<sheetOfRides, orderCache, rideJob, sentMarks, markStore,
                   markSaves, announced>>

RemindersNext ==
    \/ CacheAges \/ SaveBegins \/ RemindersRestart \/ LoadFindsNothing
    \/ \E s \in Stores : LoadMarks(s) \/ \E m \in markSaves : SaveEnds(m, s)
    \/ \E m \in markSaves : SaveIsLost(m)
    \/ \E k \in Rides : RideCancelled(k) \/ HourPasses(k)
    \/ \E j \in RideJobs :
          \/ StartJob(j) \/ LoadOrders(j) \/ CheckOrders(j) \/ EndJob(j)
          \/ \E k \in Rides : Announce(j, k)

RemindersSpec == RemindersInit /\ [][RemindersNext]_rideVars

(* A ride is announced twice only when its mark was missing for a cause    *)
(* that forgotten collects: a push arrived and its answer did not; the     *)
(* process ended before the mark was saved; a load read another store than *)
(* the one that has it, or replaced it; a process that had not loaded it   *)
(* saved over it, or decided without it. Nothing else does it: requests    *)
(* for runs that come together, orders from an old cache, saves that land  *)
(* late, restarts between two runs.                                        *)
RemindedOnce == \A k \in Rides : announced[k] > 1 => k \in forgotten
=============================================================================
