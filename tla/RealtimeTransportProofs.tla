----------------------- MODULE RealtimeTransportProofs -----------------------
(***************************************************************************)
(* Proofs about RealtimeTransport, for any users, any number of requests   *)
(* for a stream and any number of failures before the cooldown.            *)
(*                                                                         *)
(* The methods of the service are operators on its fields t and on the     *)
(* streams ss, so the invariant is one on them too: Good(t, ss) is what    *)
(* every method keeps, and an action is a few methods in a row.  TypeOK    *)
(* and the properties are not inductive alone: that the mode is true of an *)
(* open stream rests on SubscriptionIsOpen, which rests on the client      *)
(* pointing to a stream that has not ended.                                *)
(***************************************************************************)
EXTENDS RealtimeTransport, TLAPS

ClientIsAlive(t, ss) ==
  t.client # NoStream => ss[t.client].phase \in {"asking", "open"}
SubscriptionIsOpen(t, ss) ==
  t.subscription # NoStream => ss[t.subscription].phase = "open"
ModeIsTrue(t) ==
  /\ t.mode = "socket" => t.socket = "open"
  /\ t.mode = "sse" => t.socket = "open" \/ t.subscription # NoStream
Quiet(t) == t.cooldown = "on" => t.socket = "none"

Good(t, ss) ==
  /\ t \in Transport
  /\ ss \in [Streams -> Stream]
  /\ ClientIsAlive(t, ss)
  /\ SubscriptionIsOpen(t, ss)
  /\ ModeIsTrue(t)
  /\ Quiet(t)
Retried(t) == t.user # NoUser => t.socket # "none" \/ t.retry # "none"

Inv ==
  /\ platform \in {"native", "web"}
  /\ network \in {"up", "down"}
  /\ Good(rt, streams)
  /\ Retried(rt)

-----------------------------------------------------------------------------
(* What the methods keep.                                                  *)

LEMMA StopSseGood ==
  ASSUME NEW t, NEW ss, Good(t, ss)
  PROVE  /\ Good(StopSse(t), Closed(t, ss))
         /\ StopSse(t).client = NoStream /\ StopSse(t).subscription = NoStream
         /\ StopSse(t).socket = t.socket /\ StopSse(t).user = t.user
         /\ StopSse(t).retry = t.retry /\ StopSse(t).cooldown = t.cooldown
PROOF
<1>1. t \in Transport /\ ss \in [Streams -> Stream]
  BY DEF Good
<1>2. StopSse(t) \in Transport
  BY <1>1 DEF StopSse, Transport
<1>3. Closed(t, ss) \in [Streams -> Stream]
  BY <1>1 DEF Closed, Stream, Free
<1>4. /\ StopSse(t).client = NoStream /\ StopSse(t).subscription = NoStream
      /\ StopSse(t).socket = t.socket /\ StopSse(t).user = t.user
      /\ StopSse(t).retry = t.retry /\ StopSse(t).cooldown = t.cooldown
      /\ StopSse(t).mode = IF t.socket = "open" THEN t.mode ELSE "polling"
  BY <1>1 DEF StopSse, Transport
<1>5. ModeIsTrue(t) /\ Quiet(t)
  BY DEF Good
<1>6. ModeIsTrue(StopSse(t)) /\ Quiet(StopSse(t))
  BY <1>4, <1>5 DEF ModeIsTrue, Quiet
<1> QED
  BY <1>2, <1>3, <1>4, <1>6 DEF Good, ClientIsAlive, SubscriptionIsOpen

LEMMA StopSocketGood ==
  ASSUME NEW t, NEW ss, Good(t, ss)
  PROVE  /\ Good(StopSocket(t), ss)
         /\ StopSocket(t).socket = "none" /\ StopSocket(t).user = t.user
         /\ StopSocket(t).subscription = t.subscription
         /\ StopSocket(t).retry = t.retry
         /\ StopSocket(t).cooldown = t.cooldown
PROOF
<1>1. t \in Transport
  BY DEF Good
<1>2. /\ StopSocket(t) \in Transport
      /\ StopSocket(t).socket = "none" /\ StopSocket(t).user = t.user
      /\ StopSocket(t).client = t.client
      /\ StopSocket(t).subscription = t.subscription
      /\ StopSocket(t).retry = t.retry
      /\ StopSocket(t).cooldown = t.cooldown
      /\ StopSocket(t).mode =
           IF t.subscription = NoStream THEN "polling" ELSE "sse"
  BY <1>1 DEF StopSocket, Transport
<1> QED
  BY <1>2 DEF Good, ClientIsAlive, SubscriptionIsOpen, ModeIsTrue, Quiet

\* Changes of the other fields: the timers, the user, the count of failures.
LEMMA OthersGood ==
  ASSUME NEW t, NEW ss, Good(t, ss), NEW n, n \in Transport,
         n.client = t.client, n.subscription = t.subscription,
         n.socket = t.socket, n.mode = t.mode \/ n.mode = "polling",
         n.cooldown = t.cooldown \/ n.cooldown = "off" \/ t.socket = "none"
  PROVE  Good(n, ss)
BY DEF Good, ClientIsAlive, SubscriptionIsOpen, ModeIsTrue, Quiet

LEMMA ScheduleSocketGood ==
  ASSUME NEW t, NEW ss, Good(t, ss)
  PROVE  /\ Good(ScheduleSocket(t), ss)
         /\ ScheduleSocket(t).retry # "none"
         /\ ScheduleSocket(t).socket = t.socket
         /\ ScheduleSocket(t).user = t.user
PROOF
<1>1. t \in Transport
  BY DEF Good
<1>2. /\ ScheduleSocket(t) \in Transport
      /\ ScheduleSocket(t).retry # "none"
      /\ ScheduleSocket(t).client = t.client
      /\ ScheduleSocket(t).subscription = t.subscription
      /\ ScheduleSocket(t).socket = t.socket
      /\ ScheduleSocket(t).mode = t.mode
      /\ ScheduleSocket(t).cooldown = t.cooldown
      /\ ScheduleSocket(t).user = t.user
  BY <1>1 DEF ScheduleSocket, Transport
<1> QED
  BY <1>2, OthersGood

LEMMA AskStreamGood ==
  ASSUME NEW t, NEW ss, Good(t, ss), AskStream(t, ss)
  PROVE  /\ Good(rt', streams')
         /\ rt'.user = t.user /\ rt'.socket = t.socket /\ rt'.retry = t.retry
PROOF
<1>1. t \in Transport /\ ss \in [Streams -> Stream]
  BY DEF Good
<1>2. CASE /\ NeedsStream(t)
           /\ \E s \in Streams :
                /\ ss[s].phase = "free"
                /\ rt' = [t EXCEPT !.client = s]
                /\ streams' = [ss EXCEPT ![s] = [phase |-> "asking",
                                                 user |-> t.user]]
  <2>1. PICK s \in Streams :
          /\ ss[s].phase = "free"
          /\ rt' = [t EXCEPT !.client = s]
          /\ streams' = [ss EXCEPT ![s] = [phase |-> "asking",
                                           user |-> t.user]]
    BY <1>2
  <2>2. /\ rt' \in Transport
        /\ rt'.client = s /\ rt'.subscription = t.subscription
        /\ rt'.socket = t.socket /\ rt'.mode = t.mode
        /\ rt'.cooldown = t.cooldown /\ rt'.user = t.user
        /\ rt'.retry = t.retry
    BY <1>1, <2>1 DEF Transport
  <2>3. t.user \in Users \cup {NoUser} /\ t.subscription = NoStream
    BY <1>1, <1>2 DEF Transport, NeedsStream
  <2>4. streams' \in [Streams -> Stream] /\ streams'[s].phase = "asking"
    BY <1>1, <2>1, <2>3 DEF Stream
  <2> QED
    BY <2>2, <2>3, <2>4
    DEF Good, ClientIsAlive, SubscriptionIsOpen, ModeIsTrue, Quiet
<1>3. CASE /\ ~NeedsStream(t)
           /\ rt' = IF platform = "web" /\ t.socket # "open"
                    THEN [t EXCEPT !.mode = "polling"] ELSE t
           /\ streams' = ss
  <2>1. /\ rt' \in Transport
        /\ rt'.client = t.client /\ rt'.subscription = t.subscription
        /\ rt'.socket = t.socket
        /\ rt'.mode = t.mode \/ rt'.mode = "polling"
        /\ rt'.cooldown = t.cooldown /\ rt'.user = t.user
        /\ rt'.retry = t.retry
    BY <1>1, <1>3 DEF Transport
  <2>2. Good(rt', ss)
    BY <2>1, OthersGood
  <2> QED
    BY <1>3, <2>1, <2>2
<1>4. CASE /\ NeedsStream(t)
           /\ LET free == {s \in Streams : ss[s].phase = "free"}
                  new  == CHOOSE s \in free : TRUE
              IN  /\ free # {}
                  /\ rt' = Asking(t, new)
                  /\ streams' = [ss EXCEPT ![new] = [phase |-> "asking",
                                                     user |-> t.user]]
  BY <1>2, <1>4 DEF Asking
<1> QED
  BY <1>3, <1>4 DEF AskStream

LEMMA ConnectSocketGood ==
  ASSUME NEW t, NEW ss, Good(t, ss), ConnectSocket(t, ss)
  PROVE  Good(rt', streams') /\ Retried(rt')
PROOF
<1>1. CASE t.cooldown = "on"
  <2>1. Good(ScheduleSocket(t), ss) /\ ScheduleSocket(t).retry # "none"
    BY ScheduleSocketGood
  <2>2. AskStream(ScheduleSocket(t), ss)
    BY <1>1 DEF ConnectSocket
  <2> QED
    BY <2>1, <2>2, AskStreamGood DEF Retried
<1>2. CASE t.cooldown # "on"
  <2>1. rt' = NewSocket(t) /\ streams' = ss
    BY <1>2 DEF ConnectSocket
  <2>2. Good(StopSocket(t), ss) /\ StopSocket(t).cooldown = t.cooldown
    BY StopSocketGood
  <2>3. StopSocket(t).socket = "none"
    BY StopSocketGood
  <2>4. /\ rt' \in Transport
        /\ rt'.client = StopSocket(t).client
        /\ rt'.subscription = StopSocket(t).subscription
        /\ rt'.mode = StopSocket(t).mode
        /\ rt'.cooldown = StopSocket(t).cooldown
        /\ rt'.socket = "connecting"
    BY <2>1, <2>2 DEF NewSocket, Good, Transport
  <2> QED
    BY <1>2, <2>1, <2>2, <2>3, <2>4
    DEF Good, ClientIsAlive, SubscriptionIsOpen, ModeIsTrue, Quiet, Retried
<1> QED
  BY <1>1, <1>2

LEMMA CountFailureGood ==
  ASSUME NEW t, NEW ss, Good(t, ss), t.socket = "none"
  PROVE  Good(CountFailure(t), ss)
PROOF
<1>1. t \in Transport
  BY DEF Good
<1>2. t.failures \in 0..(MaxFailures - 1) /\ MaxFailures \in Nat \ {0}
  BY <1>1, TransportAssumption DEF Transport
<1>3. CountFailure(t) \in Transport
  <2>1. CASE t.failures + 1 < MaxFailures
    <3>1. CountFailure(t) = [t EXCEPT !.failures = t.failures + 1]
      BY <2>1, <1>1 DEF CountFailure, Transport
    <3>2. t.failures + 1 \in 0..(MaxFailures - 1)
      BY <1>2, <2>1
    <3> QED
      BY <1>1, <3>1, <3>2 DEF Transport
  <2>2. CASE ~(t.failures + 1 < MaxFailures)
    <3>1. 0 \in 0..(MaxFailures - 1)
      BY <1>2
    <3> QED
      BY <1>1, <2>2, <3>1 DEF CountFailure, Transport
  <2> QED
    BY <2>1, <2>2
<1>4. /\ CountFailure(t).client = t.client
      /\ CountFailure(t).subscription = t.subscription
      /\ CountFailure(t).socket = t.socket
      /\ CountFailure(t).mode = t.mode
  BY <1>1 DEF CountFailure, Transport
<1> QED
  BY <1>3, <1>4, OthersGood

LEMMA SocketLostGood ==
  ASSUME NEW t, Good(t, streams), SocketLost(t)
  PROVE  Good(rt', streams') /\ Retried(rt')
PROOF
<1> DEFINE down  == [StopSocket(t) EXCEPT !.mode = "polling"]
           count == CountFailure(down)
<1>1. Good(StopSocket(t), streams) /\ StopSocket(t).socket = "none"
  BY StopSocketGood
<1>2. /\ down \in Transport
      /\ down.client = StopSocket(t).client
      /\ down.subscription = StopSocket(t).subscription
      /\ down.socket = "none"
      /\ down.mode = "polling"
      /\ down.cooldown = StopSocket(t).cooldown
  BY <1>1 DEF Good, Transport
<1>3. Good(down, streams)
  BY <1>1, <1>2, OthersGood
<1>4. Good(count, streams)
  BY <1>2, <1>3, CountFailureGood
<1>5. Good(ScheduleSocket(count), streams)
      /\ ScheduleSocket(count).retry # "none"
  BY <1>4, ScheduleSocketGood
<1>6. AskStream(ScheduleSocket(count), streams)
  BY DEF SocketLost
<1> QED
  BY <1>5, <1>6, AskStreamGood DEF Retried

-----------------------------------------------------------------------------
(* The callbacks, one by one.                                              *)

LEMMA InitInv == Init => Inv
PROOF
<1> SUFFICES ASSUME Init PROVE Inv
  OBVIOUS
<1>1. 0 \in 0..(MaxFailures - 1)
  BY TransportAssumption
<1>2. rt \in Transport
  BY <1>1 DEF Init, Transport
<1>3. streams \in [Streams -> Stream]
  BY DEF Init, Stream, Free
<1> QED
  BY <1>2, <1>3 DEF Init, Inv, Good, ClientIsAlive, SubscriptionIsOpen,
                    ModeIsTrue, Quiet, Retried

LEMMA ConnectKeeps ==
  ASSUME Inv, NEW u \in Users, Connect(u)
  PROVE  Good(rt', streams') /\ Retried(rt')
PROOF
<1> DEFINE stopped == StopSocket(rt)
           quiet   == StopSse(stopped)
           fresh   == [Disconnected(rt) EXCEPT !.user = u]
<1>1. rt \in Transport /\ Good(rt, streams)
  BY DEF Inv, Good
<1>2. Good(stopped, streams)
  BY <1>1, StopSocketGood
<1>3. Good(quiet, Closed(stopped, streams))
  BY <1>2, StopSseGood
<1>4. Closed(stopped, streams) = Closed(rt, streams)
  BY <1>1 DEF Closed, StopSocket, Transport
<1>5. quiet \in Transport
  BY <1>3 DEF Good
<1>6. /\ fresh \in Transport
      /\ fresh.client = quiet.client
      /\ fresh.subscription = quiet.subscription
      /\ fresh.socket = quiet.socket
      /\ fresh.mode = "polling"
      /\ fresh.cooldown = quiet.cooldown
  BY <1>5 DEF Disconnected, Transport
<1>7. Good(fresh, Closed(rt, streams))
  BY <1>3, <1>4, <1>6, OthersGood
<1>8. ConnectSocket(fresh, Closed(rt, streams))
  BY DEF Connect
<1> QED
  BY <1>7, <1>8, ConnectSocketGood

LEMMA ReconnectKeeps ==
  ASSUME Inv, ReconnectIfNeeded
  PROVE  Good(rt', streams') /\ Retried(rt')
PROOF
<1>1. CASE rt.socket = "open" \/ rt.subscription # NoStream
  BY <1>1 DEF ReconnectIfNeeded, Inv
<1>2. CASE ~(rt.socket = "open" \/ rt.subscription # NoStream)
  BY <1>2, ConnectSocketGood DEF ReconnectIfNeeded, Inv
<1> QED
  BY <1>1, <1>2

LEMMA SocketOpensKeeps ==
  ASSUME Inv, SocketOpens \/ SocketGreets
  PROVE  Good(rt', streams') /\ Retried(rt')
PROOF
<1> DEFINE up   == [ResetFailures(rt) EXCEPT !.socket = "open"]
           rest == StopSse(up)
<1>1. rt \in Transport /\ Good(rt, streams)
  BY DEF Inv, Good
<1>2. 0 \in 0..(MaxFailures - 1)
  BY TransportAssumption
<1>3. /\ up \in Transport
      /\ up.client = rt.client /\ up.subscription = rt.subscription
      /\ up.socket = "open" /\ up.mode = rt.mode /\ up.cooldown = "off"
  BY ZenonT(60), <1>1, <1>2 DEF ResetFailures, Transport
<1>4. Good(up, streams)
  BY <1>1, <1>3
  DEF Good, ClientIsAlive, SubscriptionIsOpen, ModeIsTrue, Quiet
<1>5. /\ Good(rest, Closed(up, streams)) /\ rest.socket = "open"
      /\ rest.client = NoStream /\ rest.subscription = NoStream
      /\ rest.cooldown = "off"
  BY <1>3, <1>4, StopSseGood
<1>6. Closed(up, streams) = Closed(rt, streams)
  BY <1>3 DEF Closed
<1>7. \/ rt' = [rest EXCEPT !.mode = "socket", !.fallback = "none",
                            !.connected = "yes"]
      \/ rt' = [rest EXCEPT !.mode = "socket", !.connected = "yes"]
  <2>1. CASE SocketOpens
    BY <2>1 DEF SocketOpens
  <2>2. CASE SocketGreets
    <3>1. up = ResetFailures(rt)
      BY <2>2, <1>1 DEF SocketGreets, ResetFailures, Transport
    <3> QED
      BY <2>2, <3>1 DEF SocketGreets
  <2> QED
    BY <2>1, <2>2
<1>8. rest \in Transport
  BY <1>5 DEF Good
<1>9. /\ rt' \in Transport
      /\ rt'.client = NoStream /\ rt'.subscription = NoStream
      /\ rt'.socket = "open" /\ rt'.cooldown = "off"
  BY <1>5, <1>7, <1>8 DEF Transport
<1>10. streams' = Closed(rt, streams)
  BY DEF SocketOpens, SocketGreets
<1>11. streams' \in [Streams -> Stream]
  BY <1>5, <1>6, <1>10 DEF Good
<1> QED
  BY <1>9, <1>11
  DEF Good, ClientIsAlive, SubscriptionIsOpen, ModeIsTrue, Quiet, Retried

LEMMA SocketEndsKeeps ==
  ASSUME Inv, SocketDrops \/ SocketFails
  PROVE  Good(rt', streams') /\ Retried(rt')
PROOF
<1> DEFINE cut == [rt EXCEPT !.connected = "no"]
<1>1. rt \in Transport /\ Good(rt, streams)
  BY DEF Inv, Good
<1>2. /\ cut \in Transport
      /\ cut.client = rt.client /\ cut.subscription = rt.subscription
      /\ cut.socket = rt.socket /\ cut.mode = rt.mode
      /\ cut.cooldown = rt.cooldown
  BY <1>1 DEF Transport
<1>3. Good(cut, streams)
  BY <1>1, <1>2, OthersGood
<1>4. CASE SocketDrops
  BY <1>3, <1>4, SocketLostGood DEF SocketDrops
<1>5. CASE SocketFails
  BY <1>1, <1>5, SocketLostGood DEF SocketFails
<1> QED
  BY <1>4, <1>5

LEMMA StreamOpensKeeps ==
  ASSUME Inv, NEW s \in Streams, StreamOpens(s)
  PROVE  Good(rt', streams') /\ Retried(rt')
PROOF
<1>1. /\ rt \in Transport /\ streams \in [Streams -> Stream]
      /\ ClientIsAlive(rt, streams) /\ Quiet(rt) /\ Retried(rt)
  BY DEF Inv, Good
<1>2. /\ rt' \in Transport
      /\ rt'.client = rt.client /\ rt'.subscription = s
      /\ rt'.socket = rt.socket /\ rt'.mode = "sse"
      /\ rt'.cooldown = rt.cooldown
      /\ rt'.user = rt.user /\ rt'.retry = rt.retry
  BY <1>1 DEF StreamOpens, Transport
<1>3. /\ streams' \in [Streams -> Stream]
      /\ streams'[s].phase = "open"
      /\ \A x \in Streams : x # s => streams'[x] = streams[x]
  BY <1>1 DEF StreamOpens, Stream
<1>4. s # NoStream
  BY TransportAssumption
<1>5. ClientIsAlive(rt', streams')
  BY <1>1, <1>2, <1>3 DEF ClientIsAlive, Transport
<1> QED
  BY <1>1, <1>2, <1>3, <1>4, <1>5
  DEF Good, SubscriptionIsOpen, ModeIsTrue, Quiet, Retried

LEMMA StreamEndsKeeps ==
  ASSUME Inv, NEW s \in Streams, StreamEnds(s)
  PROVE  Good(rt', streams') /\ Retried(rt')
PROOF
<1> DEFINE rest == StopSse(rt)
<1>1. Good(rt, streams) /\ Retried(rt) /\ streams[s].user \in Users \cup {NoUser}
  BY DEF Inv, Good, Stream
<1>2. /\ Good(rest, Closed(rt, streams))
      /\ rest.client = NoStream /\ rest.subscription = NoStream
      /\ rest.socket = rt.socket /\ rest.user = rt.user
      /\ rest.retry = rt.retry
  BY <1>1, StopSseGood
<1>3. rest \in Transport /\ Closed(rt, streams) \in [Streams -> Stream]
  BY <1>2 DEF Good
<1>4. rt' = ScheduleStream(rest, streams[s].user)
  BY DEF StreamEnds
<1>5. /\ rt' \in Transport
      /\ rt'.client = rest.client /\ rt'.subscription = rest.subscription
      /\ rt'.socket = rest.socket /\ rt'.mode = rest.mode
      /\ rt'.cooldown = rest.cooldown
      /\ rt'.user = rest.user /\ rt'.retry = rest.retry
  BY <1>1, <1>3, <1>4 DEF ScheduleStream, Transport
<1>6. streams' \in [Streams -> Stream]
  BY <1>3 DEF StreamEnds, Stream, Free
<1> QED
  BY <1>1, <1>2, <1>5, <1>6
  DEF Good, ClientIsAlive, SubscriptionIsOpen, ModeIsTrue, Quiet, Retried

LEMMA TimersKeep ==
  ASSUME Inv, Timers
  PROVE  Good(rt', streams') /\ Retried(rt')
PROOF
<1>1. rt \in Transport /\ Good(rt, streams) /\ Retried(rt)
  BY DEF Inv, Good
<1>2. CASE FallbackFires
  <2> DEFINE t == [rt EXCEPT !.fallback = "none"]
  <2>1. /\ t \in Transport
        /\ t.client = rt.client /\ t.subscription = rt.subscription
        /\ t.socket = rt.socket /\ t.mode = rt.mode
        /\ t.cooldown = rt.cooldown
        /\ t.user = rt.user /\ t.retry = rt.retry
    BY <1>1 DEF Transport
  <2>2. Good(t, streams)
    BY <1>1, <2>1, OthersGood
  <2>3. AskStream(t, streams)
    BY <1>2 DEF FallbackFires
  <2> QED
    BY <1>1, <2>1, <2>2, <2>3, AskStreamGood DEF Retried
<1>3. CASE StreamTimerFires
  <2> DEFINE t == [rt EXCEPT !.reask = NoUser]
  <2>1. /\ t \in Transport
        /\ t.client = rt.client /\ t.subscription = rt.subscription
        /\ t.socket = rt.socket /\ t.mode = rt.mode
        /\ t.cooldown = rt.cooldown
        /\ t.user = rt.user /\ t.retry = rt.retry
    BY <1>1 DEF Transport
  <2>2. Good(t, streams)
    BY <1>1, <2>1, OthersGood
  <2>3. AskStream(t, streams) \/ (rt' = t /\ streams' = streams)
    BY <1>3 DEF StreamTimerFires
  <2> QED
    BY <1>1, <2>1, <2>2, <2>3, AskStreamGood DEF Retried
<1>4. CASE SocketTimerFires
  <2> DEFINE t == [rt EXCEPT !.retry = "none"]
  <2>1. /\ t \in Transport
        /\ t.client = rt.client /\ t.subscription = rt.subscription
        /\ t.socket = rt.socket /\ t.mode = rt.mode
        /\ t.cooldown = rt.cooldown
    BY <1>1 DEF Transport
  <2>2. Good(t, streams)
    BY <1>1, <2>1, OthersGood
  <2>3. ConnectSocket(t, streams)
    BY <1>4 DEF SocketTimerFires
  <2> QED
    BY <2>2, <2>3, ConnectSocketGood
<1>5. CASE CooldownEnds
  <2>1. /\ rt' \in Transport
        /\ rt'.client = rt.client /\ rt'.subscription = rt.subscription
        /\ rt'.socket = rt.socket /\ rt'.mode = rt.mode
        /\ rt'.cooldown = "off"
        /\ rt'.user = rt.user /\ rt'.retry = rt.retry
    BY <1>1, <1>5 DEF CooldownEnds, Transport
  <2>2. Good(rt', streams)
    BY <1>1, <2>1, OthersGood
  <2> QED
    BY <1>1, <1>5, <2>1, <2>2 DEF CooldownEnds, Retried
<1> QED
  BY <1>2, <1>3, <1>4, <1>5 DEF Timers

LEMMA NextInv == Inv /\ [Next]_vars => Inv'
PROOF
<1> SUFFICES ASSUME Inv, [Next]_vars PROVE Inv'
  OBVIOUS
<1> USE DEF Inv
<1>1. platform' = platform
  BY DEF Next, Shell, Socket, Answers, Timers, Connect, Resume, NetworkLost,
         NetworkRestored, SocketOpens, SocketGreets, SocketDrops, SocketFails,
         StreamOpens, StreamEnds, FallbackFires, StreamTimerFires,
         SocketTimerFires, CooldownEnds, vars
<1>2. network' \in {"up", "down"}
  BY DEF Next, Shell, Socket, Answers, Timers, Connect, Resume, NetworkLost,
         NetworkRestored, SocketOpens, SocketGreets, SocketDrops, SocketFails,
         StreamOpens, StreamEnds, FallbackFires, StreamTimerFires,
         SocketTimerFires, CooldownEnds, vars
<1>3. Good(rt', streams') /\ Retried(rt')
  <2>1. CASE \E u \in Users : Connect(u)
    BY <2>1, ConnectKeeps
  <2>2. CASE Resume \/ NetworkRestored
    BY <2>2, ReconnectKeeps DEF Resume, NetworkRestored
  <2>3. CASE NetworkLost \/ UNCHANGED vars
    BY <2>3 DEF NetworkLost, vars
  <2>4. CASE Socket
    BY <2>4, SocketOpensKeeps, SocketEndsKeeps DEF Socket
  <2>5. CASE Answers
    BY <2>5, StreamOpensKeeps, StreamEndsKeeps DEF Answers
  <2>6. CASE Timers
    BY <2>6, TimersKeep
  <2> QED
    BY <2>1, <2>2, <2>3, <2>4, <2>5, <2>6 DEF Next, Shell
<1>4. Good(rt, streams)' /\ Retried(rt)'
  BY <1>3 DEF Good, ClientIsAlive, SubscriptionIsOpen, ModeIsTrue, Quiet,
              Retried
<1> QED
  BY <1>1, <1>2, <1>4

LEMMA AlwaysInv == Spec => []Inv
PROOF
<1> QED
  BY InitInv, NextInv, PTL DEF Spec

-----------------------------------------------------------------------------
\* The fields keep their type, and the client the service holds belongs to a
\* request or a stream that has not ended.
THEOREM TypeCorrect == Spec => []TypeOK
PROOF
<1>1. Inv => TypeOK
  BY DEF Inv, Good, ClientIsAlive, TypeOK
<1> QED
  BY <1>1, AlwaysInv, PTL

\* Whatever the callbacks' order and however many streams are alive, a mode
\* other than polling is shown only while something can arrive.
THEOREM ModeLive == Spec => []ModeIsLive
PROOF
<1>1. Inv => ModeIsLive
  BY DEF Inv, Good, SubscriptionIsOpen, ModeIsTrue, ModeIsLive
<1> QED
  BY <1>1, AlwaysInv, PTL

\* On every path there is a socket, an attempt or a timer for the next one.
THEOREM SocketNotGivenUp == Spec => []SocketRetried
PROOF
<1>1. Inv => SocketRetried
  BY DEF Inv, Retried, SocketRetried
<1> QED
  BY <1>1, AlwaysInv, PTL

\* There is no attempt and no socket during the cooldown.
THEOREM CooldownKept == Spec => []QuietCooldown
PROOF
<1>1. Inv => QuietCooldown
  BY DEF Inv, Good, Quiet, QuietCooldown
<1> QED
  BY <1>1, AlwaysInv, PTL
=============================================================================
