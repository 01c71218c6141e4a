-------------------------- MODULE RealtimeTransport --------------------------
(***************************************************************************)
(* RealtimeTransportService of the Flutter client: a Socket.IO connection, *)
(* an SSE stream when there is none, and a poll that always ticks.  The    *)
(* service is one object, changed by callbacks that run one at a time, and *)
(* its fields are the record rt; the operators on it are its private       *)
(* methods, and an action is one callback: a call of the shell, an event   *)
(* of the socket, an answer of a stream, a timer.                          *)
(*                                                                         *)
(* _sseClient and _sseSubscription are overwritten when a second request   *)
(* starts or a second stream opens; the first goes on without them.  So a  *)
(* request for a stream is a slot of its own, and those two fields point   *)
(* to slots.  Every caller passes isNetworkReachable = () => true.         *)
(***************************************************************************)
EXTENDS Integers

CONSTANTS
  Users,        \* who may log in on the device
  NoUser,
  Streams,      \* bound: requests for /stream alive at the same time
  NoStream,
  MaxFailures   \* maxSocketFailuresBeforeCooldown (3)

ASSUME TransportAssumption ==
  /\ NoUser \notin Users
  /\ NoStream \notin Streams
  /\ MaxFailures \in Nat \ {0}

VARIABLES
  platform,  \* "native", or "web" (kIsWeb), where a response cannot stream
  rt,        \* the fields of the service
  streams,   \* the requests for /stream and the open streams, with their user
  network    \* _lastNetworkState: "up" or "down"

vars == <<platform, rt, streams, network>>

Free == [phase |-> "free", user |-> NoUser]
Stream == [phase : {"free", "asking", "open", "closing"},
           user : Users \cup {NoUser}]
Transport ==
  [user : Users \cup {NoUser},            \* _activeUser
   mode : {"socket", "sse", "polling"},   \* _transportMode
   connected : {"yes", "no"},             \* _isConnected
   socket : {"none", "connecting", "open"},
   client : Streams \cup {NoStream},       \* whose client _sseClient is
   subscription : Streams \cup {NoStream}, \* _sseSubscription
   fallback : {"none", "set"},            \* _socketSseFallbackTimer
   retry : {"none", "short", "long"},     \* _socketReconnectTimer
   reask : Users \cup {NoUser},           \* whose _reconnectTimer it is
   failures : 0..(MaxFailures - 1),       \* _socketConsecutiveFailures
   cooldown : {"on", "off"}]              \* now < _socketDisabledUntil

Init ==
  /\ platform \in {"native", "web"}
  /\ rt = [user |-> NoUser, mode |-> "polling", connected |-> "no",
           socket |-> "none", client |-> NoStream, subscription |-> NoStream,
           fallback |-> "none", retry |-> "none", reask |-> NoUser,
           failures |-> 0, cooldown |-> "off"]
  /\ streams = [s \in Streams |-> Free]
  /\ network = "up"

-----------------------------------------------------------------------------
(* The private methods, on the service t and the streams ss.               *)

\* Cancelling the subscription ends its stream at once.  Closing the client
\* makes what else it has under way, a request or a stream whose
\* subscription was overwritten, end with an error later.
Closed(t, ss) ==
  [s \in Streams |->
     IF s = t.subscription THEN Free
     ELSE IF s = t.client THEN [ss[s] EXCEPT !.phase = "closing"]
     ELSE ss[s]]
StopSse(t) ==
  [t EXCEPT !.client = NoStream, !.subscription = NoStream,
            !.mode = IF t.socket = "open" THEN @ ELSE "polling"]

StopSocket(t) ==
  [t EXCEPT !.socket = "none",
            !.mode = IF t.subscription = NoStream THEN "polling" ELSE "sse"]

\* _startSseFallback asks for a stream unless the socket is open or a
\* stream is; a request under way does not stop it.
NeedsStream(t) == platform = "native" /\ t.socket # "open"
                  /\ t.subscription = NoStream
AskingEarly(t, s) ==             \* mutated: the mode flips before the answer
  [t EXCEPT !.client = s, !.mode = "sse"]
Asking(t, s) == [t EXCEPT !.client = s]
AskStream(t, ss) ==
  LET free == {s \in Streams : ss[s].phase = "free"}
      new  == CHOOSE s \in free : TRUE
  IN  \/ /\ NeedsStream(t)
         /\ free # {}
         /\ rt' = Asking(t, new)
         /\ streams' = [ss EXCEPT ![new] = [phase |-> "asking", user |-> t.user]]
      \/ /\ ~NeedsStream(t)
         /\ rt' = IF platform = "web" /\ t.socket # "open"
                  THEN [t EXCEPT !.mode = "polling"] ELSE t
         /\ streams' = ss

ScheduleStream(t, u) ==
  IF t.socket = "open" \/ t.reask # NoUser THEN t ELSE [t EXCEPT !.reask = u]
ScheduleWhenAllowed(t) ==        \* mutated: no timer during the cooldown
  IF t.retry # "none" \/ t.cooldown = "on" THEN t
  ELSE [t EXCEPT !.retry = "short"]
ScheduleSocket(t) ==
  IF t.retry # "none" THEN t
  ELSE [t EXCEPT !.retry = IF t.cooldown = "on" THEN "long" ELSE "short"]

CountFailure(t) ==
  IF t.failures + 1 < MaxFailures THEN [t EXCEPT !.failures = @ + 1]
  ELSE [t EXCEPT !.failures = 0, !.cooldown = "on"]
ResetFailures(t) == [t EXCEPT !.failures = 0, !.cooldown = "off"]

\* disconnect(): _isConnected and _activeUser stay as they are.
Disconnected(t) ==
  [StopSse(StopSocket(t)) EXCEPT
     !.reask = NoUser, !.retry = "none", !.fallback = "none",
     !.mode = "polling"]

\* _connectSocketPreferred.  During the cooldown it asks for a stream and
\* sets the timer.  Otherwise it makes a new socket and disposes of the one
\* it has, even an open one: the test of _socketConnecting is always false,
\* because _stopSocketOnly resets the flag at once.
NewSocket(t) == [StopSocket(t) EXCEPT !.socket = "connecting",
                                      !.fallback = "set"]
ConnectAnyway(t, ss) ==          \* mutated: the cooldown is not looked at
  rt' = NewSocket(t) /\ streams' = ss
ConnectSocket(t, ss) ==
  IF t.cooldown = "on" THEN AskStream(ScheduleSocket(t), ss)
  ELSE rt' = NewSocket(t) /\ streams' = ss

\* The teardown of onDisconnect and onConnectError, followed by
\* _handleSocketConnectFailure.
SocketLost(t) ==
  AskStream(ScheduleSocket(CountFailure([StopSocket(t) EXCEPT
                                           !.mode = "polling"])), streams)

-----------------------------------------------------------------------------
(* Calls of the shell and of the connectivity stream.                      *)

\* connect(u): at the login of u, and when the user refreshes.  startPolling
\* leaves the mode at polling.
Connect(u) ==
  /\ ConnectSocket([Disconnected(rt) EXCEPT !.user = u], Closed(rt, streams))
  /\ UNCHANGED <<platform, network>>

\* reconnectIfNeeded, for the user connect was called with.
ReconnectIfNeeded ==
  IF rt.socket = "open" \/ rt.subscription # NoStream
  THEN UNCHANGED <<rt, streams>>
  ELSE ConnectSocket(rt, streams)

Resume ==
  /\ rt.user # NoUser
  /\ ReconnectIfNeeded
  /\ UNCHANGED <<platform, network>>

NetworkLost ==
  /\ rt.user # NoUser
  /\ network' = "down"
  /\ UNCHANGED <<platform, rt, streams>>

NetworkRestored ==
  /\ rt.user # NoUser
  /\ network = "down"
  /\ network' = "up"
  /\ ReconnectIfNeeded
  /\ UNCHANGED platform

-----------------------------------------------------------------------------
(* Events of the socket.  A socket that was disposed of has no handlers.   *)

\* onConnect
SocketOpens ==
  /\ rt.socket = "connecting"
  /\ rt' = [StopSse([ResetFailures(rt) EXCEPT !.socket = "open"]) EXCEPT
              !.mode = "socket", !.fallback = "none", !.connected = "yes"]
  /\ streams' = Closed(rt, streams)
  /\ UNCHANGED <<platform, network>>

\* chat:connected, which the server emits after it has authenticated.
SocketGreets ==
  /\ rt.socket = "open"
  /\ rt' = [StopSse(ResetFailures(rt)) EXCEPT
              !.mode = "socket", !.connected = "yes"]
  /\ streams' = Closed(rt, streams)
  /\ UNCHANGED <<platform, network>>

\* onDisconnect
SocketDrops ==
  /\ rt.socket = "open"
  /\ SocketLost([rt EXCEPT !.connected = "no"])
  /\ UNCHANGED <<platform, network>>

\* onConnectError, which leaves _isConnected as it is.
SocketFails ==
  /\ rt.socket = "connecting"
  /\ SocketLost(rt)
  /\ UNCHANGED <<platform, network>>

-----------------------------------------------------------------------------
(* Answers of the streams, whoever's they are.                             *)

StreamOpens(s) ==
  /\ streams[s].phase = "asking"
  /\ streams' = [streams EXCEPT ![s].phase = "open"]
  /\ rt' = [rt EXCEPT !.mode = "sse", !.connected = "yes", !.subscription = s]
  /\ UNCHANGED <<platform, network>>

\* The request fails, is refused or times out, or the stream ends: each
\* stops the stream the service has now, which may be another one.
StreamEnds(s) ==
  /\ streams[s].phase # "free"
  /\ streams' = [Closed(rt, streams) EXCEPT ![s] = Free]
  /\ rt' = ScheduleStream(StopSse(rt), streams[s].user)
  /\ UNCHANGED <<platform, network>>

-----------------------------------------------------------------------------
(* Timers.                                                                 *)

FallbackFires ==
  /\ rt.fallback = "set"
  /\ AskStream([rt EXCEPT !.fallback = "none"], streams)
  /\ UNCHANGED <<platform, network>>

StreamTimerFires ==
  /\ rt.reask # NoUser
  /\ LET t == [rt EXCEPT !.reask = NoUser]
     IN  IF rt.reask = rt.user THEN AskStream(t, streams)
         ELSE rt' = t /\ UNCHANGED streams
  /\ UNCHANGED <<platform, network>>

SocketTimerForgets ==            \* mutated: it fires and nobody connects
  /\ rt.retry # "none"
  /\ rt' = [rt EXCEPT !.retry = "none"]
  /\ UNCHANGED <<platform, streams, network>>
\* A timer set during the cooldown ends with it, no other does.
SocketTimerFires ==
  /\ rt.retry # "none"
  /\ rt.retry = "long" => rt.cooldown = "off"
  /\ ConnectSocket([rt EXCEPT !.retry = "none"], streams)
  /\ UNCHANGED <<platform, network>>

CooldownEnds ==
  /\ rt.cooldown = "on"
  /\ rt' = [rt EXCEPT !.cooldown = "off"]
  /\ UNCHANGED <<platform, streams, network>>

-----------------------------------------------------------------------------
Shell   == (\E u \in Users : Connect(u)) \/ Resume \/ NetworkLost
           \/ NetworkRestored
Socket  == SocketOpens \/ SocketGreets \/ SocketDrops \/ SocketFails
Answers == \E s \in Streams : StreamOpens(s) \/ StreamEnds(s)
Timers  == FallbackFires \/ StreamTimerFires \/ SocketTimerFires
           \/ CooldownEnds
Next == Shell \/ Socket \/ Answers \/ Timers

\* Time passes, and a device that tries again and again connects some day.
Fairness == /\ WF_vars(CooldownEnds)
            /\ WF_vars(SocketTimerFires)
            /\ SF_vars(SocketOpens)
Spec == Init /\ [][Next]_vars /\ Fairness

-----------------------------------------------------------------------------
\* The service and its streams keep their type; the client it holds has a
\* request under way or an open stream (realtime_transport_service.dart,
\* the fields at 64-79).
TypeOK ==
  /\ platform \in {"native", "web"}
  /\ rt \in Transport
  /\ streams \in [Streams -> Stream]
  /\ network \in {"up", "down"}
  /\ rt.client # NoStream => streams[rt.client].phase \in {"asking", "open"}

\* A mode other than polling is never shown while nothing can arrive: behind
\* "socket" is an open socket, behind "sse" a stream that is open, or a
\* socket.  The comments at 408-417 and 458-460 ask for it; five teardowns
\* and three timers set the mode, for sockets and streams of their own.
ModeIsLive ==
  /\ rt.mode = "socket" => rt.socket = "open"
  /\ rt.mode = "sse" =>
       \/ rt.socket = "open"
       \/ rt.subscription # NoStream
          /\ streams[rt.subscription].phase = "open"

\* No path gives the socket up: from the login on there is a socket, an
\* attempt, or a timer that will attempt (automatic reconnection of the
\* socket library is disabled, so nothing else would).
SocketRetried == rt.user # NoUser => rt.socket # "none" \/ rt.retry # "none"

\* After the third failure in a row the server gets no attempt of this
\* device until the cooldown is over, whoever asks: a timer, the return of
\* the app or of the network, a refresh or another login.
QuietCooldown == rt.cooldown = "on" => rt.socket = "none"

\* A logged in device has an open socket again and again.
Reconnects == []<>(rt.user = NoUser \/ rt.socket = "open")
=============================================================================
