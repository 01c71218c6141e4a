---------------------------- MODULE ShuttleOrders ----------------------------
(* The orders of a shuttle in the web client: the guided dialog, which is  *)
(* kept in localStorage, the submissions and cancellations, the list read  *)
(* back from the sheet, who may use the room, and the reminders.           *)
(* External: the sheet. A submission may reach it long after its answer.   *)
EXTENDS Naturals, FiniteSets

CONSTANTS
    ShuttleTrips,      \* date, shift and station: what an order is known by
    ShuttleCalls,      \* calls that book or cancel
    ShuttleReads,      \* refreshes that nobody's cancellation waits for
    MaxConfirms,       \* maxAttempts of a confirmation (3 in the code)
    MaxShuttleFaults,  \* bound: failed requests, denials and reloads
    NoTrip, NoRead

ASSUME ShuttleAssumption ==
    /\ MaxConfirms \in Nat \ {0}
    /\ MaxShuttleFaults \in Nat
    /\ NoTrip \notin ShuttleTrips
    /\ NoRead \notin ShuttleCalls \cup ShuttleReads

Readers == ShuttleCalls \cup ShuttleReads

VARIABLES
    sheet,          \* external: the status of each order
    orders,         \* the list in localStorage
    dialog,         \* awaiting and draft, in localStorage
    call,           \* the bookings and cancellations
    ordersApplied,        \* the calls whose submission reached the sheet
    reader,         \* the reads of the list
    ordersFlight,         \* shuttleOrdersSyncPromiseByUser
    access,         \* shuttleAccessAllowed
    trip,           \* how near the trip is
    history,        \* the reminder history in localStorage
    unseen,         \* cancellations that no read since has shown
    shuttleFaults

shVars == <<sheet, orders, dialog, call, ordersApplied, reader, ordersFlight, access, trip, history, unseen,
            shuttleFaults>>

OrderStatuses == {"none", "active", "cancelled"}
Idle == [at |-> "idle", kind |-> "book", trip |-> NoTrip, tries |-> 0]
Unread == [at |-> "idle", forced |-> "no", snap |-> [t \in ShuttleTrips |-> "none"]]

ShuttleTypeOK ==
    /\ sheet \in [ShuttleTrips -> OrderStatuses]
    /\ orders \in [ShuttleTrips -> OrderStatuses]
    /\ dialog \in [awaiting : {"menu", "date", "shift", "station"},
                   draft : ShuttleTrips \cup {NoTrip}]
    /\ call \in [ShuttleCalls ->
          [at : {"idle", "stations", "sent", "confirm", "done", "failed"},
           kind : {"book", "cancel"},
           trip : ShuttleTrips \cup {NoTrip}, tries : 0..MaxConfirms]]
    /\ ordersApplied \subseteq ShuttleCalls
    /\ reader \in [Readers -> [at : {"idle", "waits", "asked", "served"},
                               forced : {"yes", "no"},
                               snap : [ShuttleTrips -> OrderStatuses]]]
    /\ ordersFlight \in Readers \cup {NoRead}
    /\ access \in {"allowed", "denied"}
    /\ trip \in [ShuttleTrips -> {"open", "closed", "near", "past", "over"}]
    /\ history \subseteq ShuttleTrips
    /\ unseen \subseteq ShuttleCalls
    /\ shuttleFaults \in 0..MaxShuttleFaults

ShuttleInit ==
    /\ \E A \in SUBSET ShuttleTrips :
          sheet = [t \in ShuttleTrips |-> IF t \in A THEN "active" ELSE "none"]
    /\ orders = sheet
    /\ dialog = [awaiting |-> "menu", draft |-> NoTrip]
    /\ call = [c \in ShuttleCalls |-> Idle]
    /\ ordersApplied = {} /\ unseen = {}
    /\ reader = [r \in Readers |-> Unread]
    /\ ordersFlight = NoRead
    /\ access = "allowed"
    /\ trip = [t \in ShuttleTrips |-> "open"]
    /\ history = {}
    /\ shuttleFaults = 0

Ongoing(list, t) == list[t] = "active" /\ trip[t] # "over"

(* A saved list reschedules the reminders: those whose time has come and   *)
(* that the history does not hold are sent at once. The history forgets a  *)
(* reminder two weeks later, when the trip is long past.                   *)
Due(list, near) == {t \in ShuttleTrips : list[t] = "active" /\ t \in near} \ history
Near == {t \in ShuttleTrips : trip[t] = "near"}
Pruned(list, sent) == {t \in sent : Ongoing(list, t) \/ trip[t] # "over"}
SaveOrders(list) ==
    /\ orders' = list
    /\ history' = Pruned(list, history \cup Due(list, Near))

Say(awaiting, draft) == dialog' = [awaiting |-> awaiting, draft |-> draft]
Reset == Say("menu", NoTrip)
Fault ==
    /\ shuttleFaults < MaxShuttleFaults
    /\ shuttleFaults' = shuttleFaults + 1

\* The dialog, one answer at a time; "0" goes back to the menu from anywhere.
Answer ==
    /\ access = "allowed"
    /\ \/ dialog.awaiting = "menu" /\ Say("date", NoTrip)
       \/ dialog.awaiting = "date" /\ Say("shift", NoTrip)
       \/ dialog.awaiting # "menu" /\ Reset
    /\ UNCHANGED <<sheet, orders, call, ordersApplied, reader, ordersFlight,
                   access, trip, history, unseen, shuttleFaults>>

\* A shift is picked; the stations are awaited before the state is saved.
PickShift(c, t) ==
    /\ access = "allowed"
    /\ dialog.awaiting = "shift" /\ trip[t] = "open" /\ call[c].at = "idle"
    /\ call' = [call EXCEPT ![c] = [Idle EXCEPT !.at = "stations", !.trip = t]]
    /\ UNCHANGED <<sheet, orders, dialog, ordersApplied, reader, ordersFlight,
                   access, trip, history, unseen, shuttleFaults>>

StationsAnswered(c) ==
    /\ call[c].at = "stations"
    /\ \/ Say("station", call[c].trip) /\ UNCHANGED shuttleFaults
       \/ Reset /\ Fault
    /\ call' = [call EXCEPT ![c] = Idle]
    /\ UNCHANGED <<sheet, orders, ordersApplied, reader, ordersFlight,
                   access, trip, history, unseen>>

\* A station completes the draft, unless its shift is closed by now.
PickStation(c) ==
    /\ access = "allowed"
    /\ dialog.awaiting = "station" /\ call[c].at = "idle"
    /\ LET t == dialog.draft
       IN  \/ /\ trip[t] = "open"
              /\ call' = [call EXCEPT ![c] = [Idle EXCEPT !.at = "sent", !.trip = t]]
              /\ UNCHANGED dialog
           \/ /\ trip[t] # "open"
              /\ Say("shift", NoTrip)
              /\ UNCHANGED call
    /\ UNCHANGED <<sheet, orders, ordersApplied, reader, ordersFlight,
                   access, trip, history, unseen, shuttleFaults>>

\* The submission reaches the sheet, before or after it is answered.
Apply(c) ==
    /\ call[c].trip # NoTrip /\ call[c].at # "stations" /\ c \notin ordersApplied
    /\ ordersApplied' = ordersApplied \cup {c}
    /\ sheet' = [sheet EXCEPT ![call[c].trip] =
          IF call[c].kind = "book" THEN "active" ELSE "cancelled"]
    /\ UNCHANGED <<orders, dialog, call, reader, ordersFlight, access,
                   trip, history, unseen, shuttleFaults>>

\* Whatever the answer, the dialog starts again.
Booked(c) ==
    /\ call[c].at = "sent" /\ call[c].kind = "book"
    /\ \/ /\ SaveOrders([orders EXCEPT ![call[c].trip] = "active"])
          /\ call' = [call EXCEPT ![c].at = "done"]
          /\ UNCHANGED shuttleFaults
       \/ /\ Fault
          /\ call' = [call EXCEPT ![c].at = "failed"]
          /\ UNCHANGED <<orders, history>>
    /\ Reset
    /\ UNCHANGED <<sheet, ordersApplied, reader, ordersFlight, access, trip,
                   unseen>>

Cancel(c, t) ==
    /\ access = "allowed"
    /\ call[c].at = "idle" /\ Ongoing(orders, t)
    /\ call' = [call EXCEPT ![c] = [Idle EXCEPT !.at = "sent", !.trip = t,
                                                !.kind = "cancel"]]
    /\ UNCHANGED <<sheet, orders, dialog, ordersApplied, reader, ordersFlight,
                   access, trip, history, unseen, shuttleFaults>>

(* A forced refresh waits for the one under way and then reads itself; a   *)
(* read started for r is the one others wait for from then on.             *)
Asked(r, forced) ==
    IF ordersFlight = NoRead
    THEN /\ reader' = [reader EXCEPT ![r] = [Unread EXCEPT !.at = "asked",
                                                           !.forced = forced]]
         /\ ordersFlight' = r
    ELSE /\ reader' = [reader EXCEPT ![r] = [Unread EXCEPT !.at = "waits",
                                                           !.forced = forced]]
         /\ UNCHANGED ordersFlight

CancelAnswered(c) ==
    /\ call[c].at = "sent" /\ call[c].kind = "cancel"
    /\ reader[c].at = "idle"
    /\ \/ /\ call' = [call EXCEPT ![c].at = "confirm"]
          /\ Asked(c, "yes")
          /\ unseen' = unseen \cup {c}
          /\ UNCHANGED shuttleFaults
       \/ /\ Fault
          /\ call' = [call EXCEPT ![c].at = "failed"]
          /\ UNCHANGED <<reader, ordersFlight, unseen>>
    /\ UNCHANGED <<sheet, orders, dialog, ordersApplied, access, trip,
                   history>>

(* The room is opened (not forced: nothing to do when a read is under way *)
(* or younger than its TTL, which may be so at any time), or the user asks *)
(* for a refresh (forced).                                                 *)
Refresh(r) ==
    /\ access = "allowed" /\ reader[r].at = "idle"
    /\ \/ ordersFlight = NoRead /\ Asked(r, "no")
       \/ Asked(r, "yes")
    /\ UNCHANGED <<sheet, orders, dialog, call, ordersApplied, access,
                   trip, history, unseen, shuttleFaults>>

\* The server asks the sheet.
Serve(r) ==
    /\ reader[r].at = "asked"
    /\ reader' = [reader EXCEPT ![r].at = "served", ![r].snap = sheet]
    /\ unseen' = {c \in unseen : sheet[call[c].trip] = "active"}
    /\ UNCHANGED <<sheet, orders, dialog, call, ordersApplied, ordersFlight, access,
                   trip, history, shuttleFaults>>

(* The end of r's read: who waited asks now, the last of them is the one   *)
(* under way. A cancellation whose own read still shows the order asks     *)
(* again, MaxConfirms times at most.                                       *)
Waiting == {w \in Readers : reader[w].at = "waits"}
\* mutated: a forced refresh takes the answer it waited for as its own.
WokenByAnswer(f) ==
    [w \in Readers |-> IF w \in Waiting /\ f[w].at = "waits" /\ ordersFlight # NoRead
                       THEN [f[w] EXCEPT !.at = "served",
                                         !.snap = reader[ordersFlight].snap]
                       ELSE f[w]]
Woken(f) == [w \in Readers |-> IF w \in Waiting /\ f[w].at = "waits"
                               THEN [f[w] EXCEPT !.at = "asked"] ELSE f[w]]
NextFlight(W) == IF W = {} THEN ordersFlight' = NoRead ELSE ordersFlight' \in W
Again(r) == r \in ShuttleCalls /\ call[r].tries + 1 < MaxConfirms
Shows(r) == reader[r].snap[call[r].trip] = "active"

ReadAnswered(r) ==
    /\ reader[r].at = "served"
    /\ LET snap == reader[r].snap
           full == \E t \in ShuttleTrips : snap[t] # "none"
           bare == \A t \in ShuttleTrips : orders[t] = "none"
       IN  IF full \/ bare \/ reader[r].forced = "yes"
           THEN SaveOrders(snap)
           ELSE UNCHANGED <<orders, history>>
    /\ call' = IF r \in ShuttleCalls /\ call[r].at = "confirm"
               THEN [call EXCEPT
                       ![r].at = IF ~Shows(r) THEN "done"
                                 ELSE IF Again(r) THEN "confirm" ELSE "failed",
                       ![r].tries = IF Shows(r) /\ Again(r) THEN @ + 1 ELSE @]
               ELSE call
    /\ reader' = Woken([reader EXCEPT ![r] = Unread])
    /\ NextFlight(Waiting)
    /\ UNCHANGED <<sheet, dialog, ordersApplied, access, trip, unseen, shuttleFaults>>

\* 700 ms later the confirmation asks again.
Reconfirm(c) ==
    /\ call[c].at = "confirm" /\ reader[c].at = "idle"
    /\ Asked(c, "yes")
    /\ UNCHANGED <<sheet, orders, dialog, call, ordersApplied, access,
                   trip, history, unseen, shuttleFaults>>

ReadFailed(r) ==
    /\ reader[r].at \in {"asked", "served"} /\ Fault
    /\ call' = IF r \in ShuttleCalls /\ call[r].at = "confirm"
               THEN [call EXCEPT ![r].at = "failed"] ELSE call
    /\ reader' = Woken([reader EXCEPT ![r] = Unread])
    /\ NextFlight(Waiting)
    /\ UNCHANGED <<sheet, orders, dialog, ordersApplied, access, trip, history, unseen>>

(* The list of employees decides who may use the room (an empty or failed  *)
(* answer changes nothing). Whoever may not loses orders, dialog and       *)
(* timers, not the history of the reminders.                               *)
CheckAccess ==
    /\ \/ /\ access = "allowed" /\ access' = "denied" /\ Fault
          /\ orders' = [t \in ShuttleTrips |-> "none"]
          /\ Reset
       \/ /\ access = "denied" /\ access' = "allowed"
          /\ UNCHANGED <<orders, dialog, shuttleFaults>>
    /\ UNCHANGED <<sheet, call, ordersApplied, reader, ordersFlight, trip,
                   history, unseen>>

(* No booking in the last hour before a trip; a quarter of an hour before  *)
(* it the timer fires; it departs; its day is over.                        *)
TripComes(t) ==
    /\ trip[t] # "over"
    /\ trip' = [trip EXCEPT ![t] = CASE @ = "open" -> "closed"
                                     [] @ = "closed" -> "near"
                                     [] @ = "near" -> "past"
                                     [] @ = "past" -> "over"]
    /\ IF trip[t] = "closed"
       THEN history' = history \cup Due(orders, {t})
       ELSE UNCHANGED history
    /\ UNCHANGED <<sheet, orders, dialog, call, ordersApplied, reader, ordersFlight,
                   access, unseen, shuttleFaults>>

\* A reload loses what is in memory and reschedules the reminders.
ShuttleReload ==
    /\ Fault
    /\ call' = [c \in ShuttleCalls |->
          IF call[c].at = "stations" THEN Idle
          ELSE [call[c] EXCEPT !.at = IF @ \in {"sent", "confirm"} THEN "failed"
                                      ELSE @]]
    /\ reader' = [r \in Readers |-> Unread]
    /\ ordersFlight' = NoRead
    /\ SaveOrders(orders)
    /\ UNCHANGED <<sheet, dialog, ordersApplied, access, trip, unseen>>

ShuttleNext ==
    \/ Answer \/ CheckAccess \/ ShuttleReload
    \/ \E c \in ShuttleCalls :
          \/ StationsAnswered(c) \/ PickStation(c) \/ Apply(c) \/ Booked(c)
          \/ CancelAnswered(c) \/ Reconfirm(c)
          \/ \E t \in ShuttleTrips : PickShift(c, t) \/ Cancel(c, t)
    \/ \E r \in ShuttleReads : Refresh(r)
    \/ \E r \in Readers : Serve(r) \/ ReadAnswered(r) \/ ReadFailed(r)
    \/ \E t \in ShuttleTrips : TripComes(t)

ShuttleSpec == ShuttleInit /\ [][ShuttleNext]_shVars

(* What is reported as cancelled was inactive in the sheet when somebody    *)
(* read it after the answer to the submission: an older read, which the     *)
(* confirmation may find under way, does not count.                         *)
CancelIsConfirmed ==
    \A c \in unseen : call[c].at # "done"
=============================================================================
