---------------------------- MODULE WebTransport ----------------------------
(* How the web client hears of messages: a socket if possible, an event    *)
(* stream while there is none, timers that try again, and the poll under   *)
(* both. The record t is the state of RealtimeTransportService; operators  *)
(* name its methods and return what they make of it.                       *)
(* Abstracted: what is received; delays, so any timer may fire first.      *)
(* External: socket.io, the browser's EventSource and its online events.   *)
EXTENDS Naturals

CONSTANTS
    Visitors,        \* users who log in on this page
    NoVisitor,
    MaxFailures,     \* SOCKET_MAX_FAILURES_BEFORE_COOLDOWN
    MaxAttempts,     \* bound: sockets being created for one user at a time
    MaxNetChanges    \* bound

ASSUME WebTransportAssumption ==
    /\ NoVisitor \notin Visitors
    /\ MaxFailures \in Nat \ {0}
    /\ MaxAttempts \in Nat /\ MaxNetChanges \in Nat

VARIABLES
    visitor,         \* currentUser of the store
    t,
    creating,        \* createRealtimeSocket calls not yet answered, by user
    net,             \* the network; online events follow, or do not
    missed,          \* an attempt was spent in vain: see Recovers
    netChanges

webTransportVars == <<visitor, t, creating, net, missed, netChanges>>

NoTransport ==
    [active |-> NoVisitor, socket |-> "none", connecting |-> "no",
     stream |-> "no", fallback |-> "no", socketTimer |-> "no",
     streamTimer |-> "no", failures |-> 0, disabled |-> "no",
     poll |-> "no", mode |-> "polling"]

WebTransportTypeOK ==
    /\ visitor \in Visitors \cup {NoVisitor}
    /\ t \in [active : Visitors \cup {NoVisitor},
              socket : {"none", "opening", "connected"},
              connecting : {"yes", "no"}, stream : {"yes", "no"},
              fallback : {"yes", "no"}, socketTimer : {"yes", "no"},
              streamTimer : {"yes", "no"}, failures : 0..MaxFailures,
              disabled : {"yes", "no"}, poll : {"yes", "no"},
              mode : {"socket", "sse", "polling"}]
    /\ creating \in [Visitors -> 0..MaxAttempts]
    /\ net \in {"up", "down"} /\ netChanges \in 0..MaxNetChanges
    /\ missed \in {"yes", "no"}

WebTransportInit ==
    /\ visitor = NoVisitor /\ t = NoTransport
    /\ creating = [u \in Visitors |-> 0]
    /\ net = "up" /\ missed = "no" /\ netChanges = 0

\* isNetworkReachable: the browser is asked when an event is missing.
Reachable == net = "up"

(****************************** the methods ********************************)
StopSocket(s) ==
    [s EXCEPT !.socket = "none", !.connecting = "no",
              !.mode = IF s.stream = "yes" THEN "sse" ELSE "polling"]
StopStream(s) ==
    [s EXCEPT !.stream = "no",
              !.mode = IF s.socket = "connected" THEN @ ELSE "polling"]
StartSse(s) ==
    IF s.socket = "connected" \/ ~Reachable \/ s.stream = "yes" THEN s
    ELSE [s EXCEPT !.stream = "yes", !.mode = "sse"]
ScheduleSocket(s) == [s EXCEPT !.socketTimer = "yes"]
ScheduleStream(s) ==
    IF s.socket = "connected" THEN s ELSE [s EXCEPT !.streamTimer = "yes"]

\* disconnect: the user stays the active one.
Disconnected(s) ==
    [StopStream(StopSocket(s)) EXCEPT
        !.poll = "no", !.streamTimer = "no", !.socketTimer = "no",
        !.fallback = "no", !.mode = "polling"]

\* mutated: a socket that fails too often is given up.
FailedForGood(s) ==
    LET n == s.failures + 1 IN
    IF n >= MaxFailures
    THEN [StartSse(s) EXCEPT !.failures = 0, !.disabled = "yes"]
    ELSE ScheduleSocket([StartSse(s) EXCEPT !.failures = n])

(* handleSocketConnectFailure: the stream takes over, and after too many   *)
(* failures the socket rests for some minutes; the timer outlasts that.    *)
Failed(s) ==
    LET n == s.failures + 1 IN
    ScheduleSocket(
        IF n >= MaxFailures
        THEN [StartSse(s) EXCEPT !.failures = 0, !.disabled = "yes"]
        ELSE [StartSse(s) EXCEPT !.failures = n])

\* What a socket that was lost, or refused, leaves.
Lost(s, u) ==
    LET stopped == [StopSocket(s) EXCEPT !.mode = "polling"] IN
    IF s.active = u THEN Failed(stopped) ELSE stopped

\* connectSocketPreferred creates a socket, unless one is on its way.
Creates(s) == s.disabled = "no" /\ Reachable /\ s.connecting = "no"
Preferred(s) ==
    IF s.disabled = "yes" THEN ScheduleSocket(StartSse(s))
    ELSE IF Creates(s) THEN [s EXCEPT !.connecting = "yes", !.fallback = "yes"]
    ELSE s

CreatesFor(s, u) ==
    IF Creates(s)
    THEN /\ creating[u] < MaxAttempts
         /\ creating' = [creating EXCEPT ![u] = @ + 1]
    ELSE UNCHANGED creating

(* connectRealtime: everything is stopped, then the socket is tried, and   *)
(* the poll runs in any case.                                              *)
ConnectRealtime(u) ==
    LET s == [Disconnected(t) EXCEPT !.active = u] IN
    /\ IF Reachable
       THEN /\ CreatesFor(s, u)
            /\ t' = [Preferred(s) EXCEPT !.poll = "yes"]
            /\ missed' = "no"
       ELSE /\ t' = [s EXCEPT !.poll = "yes"]
            /\ missed' = "yes" /\ UNCHANGED creating

(****************************** the page ***********************************)
LogIn(u) ==
    /\ visitor # u /\ visitor' = u /\ ConnectRealtime(u)
    /\ UNCHANGED <<net, netChanges>>

\* A socket that is being created then is not stopped.
LogOut ==
    /\ visitor # NoVisitor /\ visitor' = NoVisitor
    /\ t' = Disconnected(t)
    /\ missed' = "no"
    /\ UNCHANGED <<creating, net, netChanges>>

NetworkChanges ==
    /\ netChanges < MaxNetChanges /\ netChanges' = netChanges + 1
    /\ net' = IF net = "up" THEN "down" ELSE "up"
    /\ UNCHANGED <<visitor, t, creating, missed>>

HandleOnline ==
    /\ visitor # NoVisitor /\ Reachable /\ ConnectRealtime(visitor)
    /\ UNCHANGED <<visitor, net, netChanges>>

(****************************** the socket *********************************)
\* The socket is there; another user's is dropped, an older one replaced.
SocketCreated(u) ==
    /\ creating[u] > 0 /\ creating' = [creating EXCEPT ![u] = @ - 1]
    /\ t' = IF t.active = u THEN [StopSocket(t) EXCEPT !.socket = "opening"]
            ELSE t
    /\ UNCHANGED <<visitor, net, missed, netChanges>>

(* The library could not be loaded; whoever asked, the socket there is now *)
(* is stopped, and only the active user's failure schedules another.       *)
CreationFails(u) ==
    /\ creating[u] > 0 /\ creating' = [creating EXCEPT ![u] = @ - 1]
    /\ t' = Lost(t, u)
    /\ missed' = IF t.active = u THEN missed ELSE "yes"
    /\ UNCHANGED <<visitor, net, netChanges>>

SocketConnects ==
    /\ t.socket = "opening" /\ Reachable
    /\ t' = StopStream([t EXCEPT
          !.socket = "connected", !.connecting = "no", !.mode = "socket",
          !.fallback = "no", !.failures = 0, !.disabled = "no"])
    /\ UNCHANGED <<visitor, creating, net, missed, netChanges>>

SocketLost ==
    /\ t.socket # "none" /\ t' = Lost(t, t.active)
    /\ UNCHANGED <<visitor, creating, net, missed, netChanges>>

StreamFails ==
    /\ t.stream = "yes" /\ t' = ScheduleStream(StopStream(t))
    /\ UNCHANGED <<visitor, creating, net, missed, netChanges>>

(****************************** the timers *********************************)
FallbackFires ==
    /\ t.fallback = "yes" /\ t' = StartSse([t EXCEPT !.fallback = "no"])
    /\ UNCHANGED <<visitor, creating, net, missed, netChanges>>

StreamTimerFires ==
    /\ t.streamTimer = "yes" /\ t' = StartSse([t EXCEPT !.streamTimer = "no"])
    /\ UNCHANGED <<visitor, creating, net, missed, netChanges>>

\* Without a network the timer is spent.
SocketTimerFires ==
    LET s == [t EXCEPT !.socketTimer = "no"] IN
    /\ t.socketTimer = "yes"
    /\ IF Reachable
       THEN CreatesFor(s, t.active) /\ t' = Preferred(s) /\ UNCHANGED missed
       ELSE /\ t' = s /\ missed' = "yes"
            /\ UNCHANGED creating
    /\ UNCHANGED <<visitor, net, netChanges>>

CooldownEnds ==
    /\ t.disabled = "yes" /\ t' = [t EXCEPT !.disabled = "no"]
    /\ UNCHANGED <<visitor, creating, net, missed, netChanges>>

WebTransportNext ==
    \/ LogOut \/ NetworkChanges \/ HandleOnline \/ SocketConnects \/ SocketLost
    \/ StreamFails \/ FallbackFires \/ StreamTimerFires \/ SocketTimerFires
    \/ CooldownEnds
    \/ \E u \in Visitors : LogIn(u) \/ SocketCreated(u) \/ CreationFails(u)

WebTransportSpec ==
    WebTransportInit /\ [][WebTransportNext]_webTransportVars

(* While somebody is logged in there is a socket, one on its way or a      *)
(* timer that will try: neither failures nor cooldowns nor events that     *)
(* overtake each other end the attempts. Only a timer or a start without   *)
(* network, or another user's failed attempt, do, until the next event.    *)
Recovers ==
    (visitor # NoVisitor /\ missed = "no")
    => \/ t.socket # "none" \/ t.socketTimer = "yes"
       \/ creating[visitor] > 0
=============================================================================
