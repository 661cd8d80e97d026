----------------------------- MODULE WsStreams -----------------------------
(***************************************************************************)
(* The WebSocket endpoint /api/ws/streams/:recipient (wsStreams.ts) for    *)
(* one recipient and one source address.  The connection handler is split  *)
(* at its awaits: snapshot, replay, connection of a Redis subscriber,      *)
(* subscription; from then on the connection is live.  A socket may close  *)
(* at any of them.  Events are numbered in the order of their publication. *)
(* LPUSH and PUBLISH of one event are written to Redis together and are    *)
(* one step unless one of them fails.                                      *)
(***************************************************************************)
EXTENDS Integers, FiniteSets, SequencesExt

CONSTANTS
    Conns,               \* connections, one per upgrade request
    MaxConnectionsPerIp,
    EventBufferSize,
    MaxMissedHeartbeats,
    MaxEvents,           \* bound: events published
    MaxRedisFaults       \* bound: failing Redis operations

ASSUME WsAssumption ==
    /\ IsFiniteSet(Conns)
    /\ MaxConnectionsPerIp \in Nat /\ EventBufferSize \in Nat \ {0}
    /\ MaxMissedHeartbeats \in Nat /\ MaxEvents \in Nat /\ MaxRedisFaults \in Nat

VARIABLES
    conn,        \* per connection: the handler's variables and its socket
    ipCount,     \* _ipConnectionCount of the address
    redisBuffer, \* the list stream:events:buffer, newest first
    localBuffer, \* _localBuffer, newest first
    published,   \* number of events published
    sent,        \* per connection: the events sent to it, in order
    redisFaults

wsVars == <<conn, ipCount, redisBuffer, localBuffer, published, sent, redisFaults>>

\* pc: where the handler is; open: readyState is OPEN; peer: the client still
\* answers; closed: the flag of cleanup; endedIn: pc when cleanup ran.
Unconnected ==
    [pc |-> "none", open |-> FALSE, peer |-> TRUE, closed |-> FALSE,
     timer |-> FALSE, sub |-> "none", missed |-> 0, endedIn |-> "none"]

WsInit ==
    /\ conn = [c \in Conns |-> Unconnected]
    /\ ipCount = 0
    /\ redisBuffer = <<>> /\ localBuffer = <<>>
    /\ published = 0
    /\ sent = [c \in Conns |-> <<>>]
    /\ redisFaults = 0

RedisFault == redisFaults < MaxRedisFaults /\ redisFaults' = redisFaults + 1

-----------------------------------------------------------------------------
(* publishStreamEvent.                                                     *)

Pushed(buffer, e) == SubSeq(<<e>> \o buffer, 1, IF Len(buffer) < EventBufferSize THEN Len(buffer) + 1 ELSE EventBufferSize)

\* A callback is registered on this bus and the socket is open.
Hears(c, bus) == conn[c].open /\ conn[c].sub = bus

Broadcast(e, buses) ==
    sent' = [c \in Conns |-> sent[c] \o IF \E bus \in buses : Hears(c, bus) THEN <<e>> ELSE <<>>]

PublishStreamEvent ==
    /\ published < MaxEvents
    /\ published' = published + 1
    /\ redisBuffer' = Pushed(redisBuffer, published')
    /\ Broadcast(published', {"redis"})
    /\ UNCHANGED <<conn, ipCount, localBuffer, redisFaults>>

\* One of the commands fails, if only LTRIM or an answer on its way back, or there is
\* no client: whatever Redis did, the event then goes to the in-process bus and its
\* buffer.
PublishFallsBack ==
    /\ RedisFault
    /\ published < MaxEvents
    /\ published' = published + 1
    /\ \E did \in SUBSET {"push", "publish"} :
          /\ redisBuffer' = IF "push" \in did THEN Pushed(redisBuffer, published') ELSE redisBuffer
          /\ Broadcast(published', {"local"} \cup IF "publish" \in did THEN {"redis"} ELSE {})
    /\ localBuffer' = Pushed(localBuffer, published')
    /\ UNCHANGED <<conn, ipCount>>

-----------------------------------------------------------------------------
(* The connection handler.                                                 *)

\* The address is counted first; over the limit the count is taken back and
\* the socket closed.
Connect(c) ==
    /\ conn[c].pc = "none"
    /\ IF ipCount + 1 > MaxConnectionsPerIp
       THEN /\ conn' = [conn EXCEPT ![c].pc = "refused"]
            /\ UNCHANGED ipCount
       ELSE /\ conn' = [conn EXCEPT ![c].pc = "snapshot", ![c].open = TRUE]
            /\ ipCount' = ipCount + 1
    /\ UNCHANGED <<redisBuffer, localBuffer, published, sent, redisFaults>>

\* The snapshot is sent, or fails, which is not fatal.
SnapshotSent(c) ==
    /\ conn[c].pc = "snapshot"
    /\ conn' = [conn EXCEPT ![c].pc = "replay"]
    /\ UNCHANGED <<ipCount, redisBuffer, localBuffer, published, sent, redisFaults>>

\* Mutant: the buffer is sent as it is stored.
Replayed_NewestFirst(c, buffer) == IF conn[c].open THEN sent[c] \o buffer ELSE sent[c]

\* LRANGE gives the newest first: the handler reverses it.
Replayed(c, buffer) == IF conn[c].open THEN sent[c] \o Reverse(buffer) ELSE sent[c]

ReplayBuffer(c) ==
    /\ conn[c].pc = "replay"
    /\ conn' = [conn EXCEPT ![c].pc = "connect"]
    /\ \/ /\ sent' = [sent EXCEPT ![c] = Replayed(c, redisBuffer)]
          /\ UNCHANGED redisFaults
       \/ RedisFault /\ sent' = [sent EXCEPT ![c] = Replayed(c, localBuffer)]
    /\ UNCHANGED <<ipCount, redisBuffer, localBuffer, published>>

\* The rest of the handler: the heartbeat interval and the message handler are
\* installed whatever has become of the socket.
Live(c, sub) ==
    conn' = [conn EXCEPT ![c].pc = "live", ![c].sub = sub, ![c].timer = TRUE]

\* createSubscriberClient; without a client the local bus is taken at once.
ConnectSubscriber(c) ==
    /\ conn[c].pc = "connect"
    /\ \/ /\ conn' = [conn EXCEPT ![c].pc = "subscribe", ![c].sub = "connected"]
          /\ UNCHANGED redisFaults
       \/ RedisFault /\ Live(c, "local")
    /\ UNCHANGED <<ipCount, redisBuffer, localBuffer, published, sent>>

\* SUBSCRIBE is answered.  A cleanup in the meantime has set the client to null,
\* and then the local bus is subscribed.
Subscribe(c) ==
    /\ conn[c].pc = "subscribe"
    /\ \/ /\ Live(c, IF conn[c].sub = "connected" THEN "redis" ELSE "local")
          /\ UNCHANGED redisFaults
       \/ RedisFault /\ Live(c, "local")
    /\ UNCHANGED <<ipCount, redisBuffer, localBuffer, published, sent>>

-----------------------------------------------------------------------------
(* Closing.                                                                *)

\* Mutant: the flag is not tested.
CleanUp_Twice(c) ==
    /\ conn' = [conn EXCEPT ![c] = [@ EXCEPT !.open = FALSE, !.closed = TRUE, !.timer = FALSE, !.sub = "none",
                                             !.endedIn = IF @ = "none" THEN conn[c].pc ELSE @]]
    /\ ipCount' = IF ipCount <= 1 THEN 0 ELSE ipCount - 1

\* cleanup() of a socket that is no longer open.
CleanUp(c) ==
    IF conn[c].closed
    THEN conn' = [conn EXCEPT ![c].open = FALSE] /\ UNCHANGED ipCount
    ELSE /\ conn' = [conn EXCEPT ![c] = [@ EXCEPT !.open = FALSE, !.closed = TRUE, !.timer = FALSE, !.sub = "none",
                                                  !.endedIn = conn[c].pc]]
         /\ ipCount' = IF ipCount <= 1 THEN 0 ELSE ipCount - 1

\* The close or the error event; an error is followed by a close.
SocketCloses(c) ==
    /\ conn[c].pc \notin {"none", "refused"}
    /\ conn[c].open
    /\ CleanUp(c)
    /\ UNCHANGED <<redisBuffer, localBuffer, published, sent, redisFaults>>

CloseAfterError(c) ==
    /\ conn[c].closed
    /\ CleanUp(c)
    /\ UNCHANGED <<redisBuffer, localBuffer, published, sent, redisFaults>>

\* The client vanishes without closing its socket.
PeerVanishes(c) ==
    /\ conn[c].open /\ conn[c].peer
    /\ conn' = [conn EXCEPT ![c].peer = FALSE]
    /\ UNCHANGED <<ipCount, redisBuffer, localBuffer, published, sent, redisFaults>>

Heartbeat(c) ==
    /\ conn[c].timer
    /\ IF ~conn[c].open \/ conn[c].missed + 1 > MaxMissedHeartbeats
       THEN CleanUp(c)
       ELSE /\ conn' = [conn EXCEPT ![c].missed = @ + 1]
            /\ UNCHANGED ipCount
    /\ UNCHANGED <<redisBuffer, localBuffer, published, sent, redisFaults>>

\* Mutant: any frame resets the counter, the one of a vanished client too.
Pong_AnyPeer(c) ==
    /\ conn[c].pc = "live" /\ conn[c].open
    /\ conn' = [conn EXCEPT ![c].missed = 0]
    /\ UNCHANGED <<ipCount, redisBuffer, localBuffer, published, sent, redisFaults>>

Pong(c) ==
    /\ conn[c].pc = "live" /\ conn[c].open /\ conn[c].peer
    /\ conn' = [conn EXCEPT ![c].missed = 0]
    /\ UNCHANGED <<ipCount, redisBuffer, localBuffer, published, sent, redisFaults>>

HandlerStep(c) ==
    SnapshotSent(c) \/ ReplayBuffer(c) \/ ConnectSubscriber(c) \/ Subscribe(c)

WsNext ==
    \/ PublishStreamEvent \/ PublishFallsBack
    \/ \E c \in Conns :
          \/ Connect(c) \/ HandlerStep(c)
          \/ SocketCloses(c) \/ CloseAfterError(c) \/ PeerVanishes(c)
          \/ Heartbeat(c) \/ Pong(c)

\* The awaits of a handler are answered and its interval fires; nothing forces
\* a client to connect, to answer or to close, or an event to happen.
WsSpec ==
    /\ WsInit /\ [][WsNext]_wsVars
    /\ \A c \in Conns : WF_wsVars(HandlerStep(c)) /\ WF_wsVars(Heartbeat(c))

-----------------------------------------------------------------------------
(* Properties.                                                             *)

\* The count of an address is the number of its accepted connections that have
\* not been cleaned up, and never above the limit, although close, error and
\* heartbeat may all call cleanup(); and a connection that ends after its set-up
\* leaves no interval and no subscription behind (lines 198-211 and 326-353).
PlacesGivenBack ==
    /\ ipCount = Cardinality({c \in Conns : conn[c].pc \notin {"none", "refused"} /\ ~conn[c].closed})
    /\ ipCount <= MaxConnectionsPerIp
    /\ \A c \in Conns : conn[c].endedIn = "live" => ~conn[c].timer /\ conn[c].sub = "none"

\* No event reaches a connection twice or out of order, across replay, live
\* delivery and the fall-back of either side to the in-process bus
\* (publishStreamEvent, line 167, and lines 389-445).
EventsInOrder ==
    \A c \in Conns : \A i, j \in DOMAIN sent[c] : i < j => sent[c][i] < sent[c][j]

\* The client of a live connection that stops answering is terminated and its
\* place given back (heartbeat, lines 448-462).
VanishedPeersReaped ==
    \A c \in Conns : (conn[c].pc = "live" /\ conn[c].open /\ ~conn[c].peer) ~> conn[c].closed

=============================================================================
