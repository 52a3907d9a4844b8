-------------------------------- MODULE LiveFeed --------------------------------
(***************************************************************************)
(* How live events reach the clients of one backend instance (main.py and  *)
(* MemoryLiveStream): redis_listener_task, the WebSocket ConnectionManager *)
(* and the SSE endpoint.  Both WebSocket routes subscribe every connection *)
(* to all channels, so one set of connections stands for all of them.      *)
(* Steps are separated where the code awaits.                              *)
(***************************************************************************)
EXTENDS Naturals, Sequences

CONSTANTS
  Conns,      \* WebSocket connections, each opened at most once
  Streams,    \* SSE requests, each opened at most once
  Events,     \* events, each published at most once
  Kind,       \* Events -> {"article", "gdelt", "note", "webhook"}
  Listener,   \* the listener as a runner of broadcasts
  Idle        \* a runner without a broadcast

ASSUME KindAssumption ==
  Kind \in [Events -> {"article", "gdelt", "note", "webhook"}]
ASSUME ListenerAssumption == Listener \notin Events

(* Broadcasts are run by the listener, one after the other, and by tasks   *)
(* of their own, at most one per event.                                    *)
Runners == Events \cup {Listener}

VARIABLES
  redisUp,      \* get_redis_pool hands out a connection that works
  listener, redisOnline,
  buffer,       \* what Redis sent and the listener has not handled
  cast,         \* the broadcast each runner is executing
  conn, inbox,  \* per connection: its state, what was sent to it
  sse, queue, got,  \* per stream: its state, its asyncio.Queue, what it sent
  since,        \* per stream: events published in memory before it opened
  unpublished, halfway,
  memLog, redisLog  \* what memory_stream and Redis published, in order

feed    == <<listener, redisOnline, buffer>>
sockets == <<conn, inbox>>
streams == <<sse, queue, got, since>>
source  == <<unpublished, halfway, memLog, redisLog>>
vars == <<redisUp, feed, cast, sockets, streams, source>>

Init ==
  /\ redisUp \in BOOLEAN
  /\ listener = "connecting" /\ redisOnline = FALSE /\ buffer = <<>>
  /\ cast = [r \in Runners |-> Idle]
  /\ conn = [c \in Conns |-> "new"] /\ inbox = [c \in Conns |-> <<>>]
  /\ sse = [s \in Streams |-> "new"] /\ since = [s \in Streams |-> 0]
  /\ queue = [s \in Streams |-> <<>>] /\ got = [s \in Streams |-> <<>>]
  /\ unpublished = Events /\ halfway = {}
  /\ memLog = <<>> /\ redisLog = <<>>

-----------------------------------------------------------------------------
(* ConnectionManager                                                       *)

(* active_connections: a peer that left stays in until that is noticed.    *)
Active == {c \in Conns : conn[c] \in {"open", "gone"}}

(* A broadcast of one event on a sequence of channels: connections it has  *)
(* still to serve on the first one, and those where send_text failed.      *)
NewCast(e, chs) ==
  [event |-> e, channels |-> chs, sending |-> FALSE, left |-> {}, dead |-> {}]

(* list(subscribers): the targets of the channel are fixed.                *)
Snapshot(r) ==
  /\ cast[r] # Idle /\ ~cast[r].sending
  /\ cast' = [cast EXCEPT ![r].sending = TRUE, ![r].left = Active, ![r].dead = {}]
  /\ UNCHANGED <<redisUp, feed, sockets, streams, source>>

(* Mutant of SendText: a connection that fails is tried again.             *)
SendTextRetrying(r, c) ==
  /\ cast[r] # Idle /\ c \in cast[r].left /\ conn[c] = "open"
  /\ inbox' = [inbox EXCEPT ![c] = Append(@, <<Head(cast[r].channels), cast[r].event>>)]
  /\ cast' = [cast EXCEPT ![r].left = @ \ {c}]
  /\ UNCHANGED <<redisUp, feed, conn, streams, source>>

(* One send_text.  A peer that left without a word takes what is buffered  *)
(* for it, or the send raises; an exception marks the connection dead.     *)
SendText(r, c) ==
  /\ cast[r] # Idle /\ c \in cast[r].left
  /\ \/ /\ conn[c] = "open"
        /\ inbox' = [inbox EXCEPT ![c] =
                       Append(@, <<Head(cast[r].channels), cast[r].event>>)]
        /\ cast' = [cast EXCEPT ![r].left = @ \ {c}]
     \/ /\ conn[c] = "gone" /\ UNCHANGED inbox
        /\ cast' = [cast EXCEPT ![r].left = @ \ {c}]
     \/ /\ conn[c] # "open" /\ UNCHANGED inbox
        /\ cast' = [cast EXCEPT ![r].left = @ \ {c}, ![r].dead = @ \cup {c}]
  /\ UNCHANGED <<redisUp, feed, conn, streams, source>>

(* Mutant of EndChannel: the targets that are slow are given up.           *)
EndChannelHasty(r) ==
  /\ cast[r] # Idle /\ cast[r].sending
  /\ conn' = [c \in Conns |-> IF c \in cast[r].dead THEN "closed" ELSE conn[c]]
  /\ cast' = [cast EXCEPT ![r] =
                IF Tail(@.channels) = <<>> THEN Idle
                ELSE NewCast(@.event, Tail(@.channels))]
  /\ UNCHANGED <<redisUp, feed, inbox, streams, source>>

(* All targets tried: the dead are disconnected, the next channel follows. *)
EndChannel(r) ==
  /\ cast[r] # Idle /\ cast[r].sending /\ cast[r].left = {}
  /\ conn' = [c \in Conns |-> IF c \in cast[r].dead THEN "closed" ELSE conn[c]]
  /\ cast' = [cast EXCEPT ![r] =
                IF Tail(@.channels) = <<>> THEN Idle
                ELSE NewCast(@.event, Tail(@.channels))]
  /\ UNCHANGED <<redisUp, feed, inbox, streams, source>>

Connect(c) ==
  /\ conn[c] = "new" /\ conn' = [conn EXCEPT ![c] = "open"]
  /\ UNCHANGED <<redisUp, feed, cast, inbox, streams, source>>

PeerLeaves(c) ==
  /\ conn[c] = "open" /\ conn' = [conn EXCEPT ![c] = "gone"]
  /\ UNCHANGED <<redisUp, feed, cast, inbox, streams, source>>

(* WebSocketDisconnect reaches the receive loop.                           *)
Disconnect(c) ==
  /\ conn[c] = "gone" /\ conn' = [conn EXCEPT ![c] = "closed"]
  /\ UNCHANGED <<redisUp, feed, cast, inbox, streams, source>>

-----------------------------------------------------------------------------
(* MemoryLiveStream and the SSE streams                                    *)

Subscribed(s) == sse[s] \in {"open", "leaked"}

(* Mutant of Offered: a queue of bounded size swallows QueueFull.          *)
OfferedBounded(e) ==
  [s \in Streams |-> IF Subscribed(s) /\ queue[s] = <<>>
                     THEN Append(queue[s], e) ELSE queue[s]]

(* on_event of every subscribed stream.                                    *)
Offered(e) ==
  [s \in Streams |-> IF Subscribed(s) THEN Append(queue[s], e) ELSE queue[s]]

OpenStream(s) ==
  /\ sse[s] = "new" /\ sse' = [sse EXCEPT ![s] = "open"]
  /\ since' = [since EXCEPT ![s] = Len(memLog)]
  /\ UNCHANGED <<redisUp, feed, cast, sockets, queue, got, source>>

YieldEvent(s) ==
  /\ sse[s] = "open" /\ queue[s] # <<>>
  /\ queue' = [queue EXCEPT ![s] = Tail(@)]
  /\ got' = [got EXCEPT ![s] = Append(@, Head(queue[s]))]
  /\ UNCHANGED <<redisUp, feed, cast, sockets, sse, since, source>>

(* The client goes away.  The generator unsubscribes when it is closed at  *)
(* its yield; cancelled while it waits for the queue, it does not.         *)
CloseStream(s) ==
  /\ sse[s] = "open"
  /\ \/ sse' = [sse EXCEPT ![s] = "closed"]
     \/ queue[s] = <<>> /\ sse' = [sse EXCEPT ![s] = "leaked"]
  /\ UNCHANGED <<redisUp, feed, cast, sockets, queue, got, since, source>>

-----------------------------------------------------------------------------
(* Publishers                                                              *)

(* Mutant of PublishMemory: the listener's callback is always registered.  *)
PublishMemoryAlways(e) ==
  /\ e \in unpublished /\ Kind[e] = "article"
  /\ unpublished' = unpublished \ {e} /\ halfway' = halfway \cup {e}
  /\ memLog' = Append(memLog, e)
  /\ queue' = Offered(e)
  /\ cast' = [cast EXCEPT ![e] = NewCast(e, <<"alerts">>)]
  /\ UNCHANGED <<redisUp, feed, sockets, sse, got, since, redisLog>>

(* memory_stream.publish calls every subscriber at once: the streams and,  *)
(* once it has fallen back, the listener's callback, which starts a task.  *)
PublishMemory(e) ==
  /\ e \in unpublished /\ Kind[e] = "article"
  /\ unpublished' = unpublished \ {e} /\ halfway' = halfway \cup {e}
  /\ memLog' = Append(memLog, e)
  /\ queue' = Offered(e)
  /\ cast' = IF listener = "fallback"
             THEN [cast EXCEPT ![e] = NewCast(e, <<"alerts">>)] ELSE cast
  /\ UNCHANGED <<redisUp, feed, sockets, sse, got, since, redisLog>>

(* The WebSub hook starts a broadcast to all connections by itself.        *)
ReceiveWebhook(e) ==
  /\ e \in unpublished /\ Kind[e] = "webhook"
  /\ unpublished' = unpublished \ {e} /\ halfway' = halfway \cup {e}
  /\ cast' = [cast EXCEPT ![e] = NewCast(e, <<"direct">>)]
  /\ UNCHANGED <<redisUp, feed, sockets, streams, memLog, redisLog>>

(* GDELT events and notes are published in Redis only.                     *)
PublishElsewhere(e) ==
  /\ e \in unpublished /\ Kind[e] \in {"gdelt", "note"}
  /\ unpublished' = unpublished \ {e} /\ halfway' = halfway \cup {e}
  /\ UNCHANGED <<redisUp, feed, cast, sockets, streams, memLog, redisLog>>

(* PUBLISH; without Redis it is skipped.                                   *)
PublishRedis(e) ==
  /\ e \in halfway /\ halfway' = halfway \ {e}
  /\ redisLog' = IF redisUp THEN Append(redisLog, e) ELSE redisLog
  /\ buffer' = IF redisUp /\ listener = "listening" THEN Append(buffer, e)
               ELSE buffer
  /\ UNCHANGED <<redisUp, listener, redisOnline, cast, sockets, streams,
                 unpublished, memLog>>

RedisDown ==
  /\ redisUp /\ redisUp' = FALSE
  /\ listener' = IF listener = "listening" THEN "cut" ELSE listener
  /\ UNCHANGED <<redisOnline, buffer, cast, sockets, streams, source>>

RedisReturns ==
  /\ ~redisUp /\ redisUp' = TRUE
  /\ UNCHANGED <<feed, cast, sockets, streams, source>>

-----------------------------------------------------------------------------
(* redis_listener_task                                                     *)

Subscribe ==
  /\ listener = "connecting" /\ redisUp
  /\ listener' = "listening" /\ redisOnline' = TRUE /\ buffer' = <<>>
  /\ UNCHANGED <<redisUp, cast, sockets, streams, source>>

(* Mutant of Recover: the retry is dropped, the task always falls back.    *)
RecoverInMemory == listener' = "fallback"

(* After an error: without Redis from the start the task hands over to the *)
(* memory stream and ends; else it retries in five seconds.                *)
Recover == listener' = IF redisOnline THEN "sleeping" ELSE "fallback"

SubscribeFails ==
  /\ listener = "connecting" /\ ~redisUp
  /\ Recover
  /\ UNCHANGED <<redisUp, redisOnline, buffer, cast, sockets, streams, source>>

(* The subscription breaks: Redis went away, or the socket timed out.      *)
ListenFails ==
  /\ listener \in {"listening", "cut"} /\ cast[Listener] = Idle
  /\ Recover
  /\ buffer' = <<>>
  /\ UNCHANGED <<redisUp, redisOnline, cast, sockets, streams, source>>

WakeUp ==
  /\ listener = "sleeping" /\ listener' = "connecting"
  /\ UNCHANGED <<redisUp, redisOnline, buffer, cast, sockets, streams, source>>

Channels(e) == IF Kind[e] = "note" THEN <<"notes">> ELSE <<"alerts", "map">>

(* Mutant of TakeMessage: the broadcast is not awaited.                    *)
TakeMessageUnawaited ==
  /\ listener \in {"listening", "cut"} /\ buffer # <<>>
  /\ buffer' = Tail(buffer)
  /\ cast' = [cast EXCEPT ![Head(buffer)] = NewCast(Head(buffer), Channels(Head(buffer)))]
  /\ UNCHANGED <<redisUp, listener, redisOnline, sockets, streams, source>>

TakeMessage ==
  /\ listener \in {"listening", "cut"} /\ cast[Listener] = Idle /\ buffer # <<>>
  /\ buffer' = Tail(buffer)
  /\ cast' = [cast EXCEPT ![Listener] = NewCast(Head(buffer), Channels(Head(buffer)))]
  /\ UNCHANGED <<redisUp, listener, redisOnline, sockets, streams, source>>

-----------------------------------------------------------------------------
Listen == Subscribe \/ SubscribeFails \/ ListenFails \/ WakeUp \/ TakeMessage
Deliver(r) == Snapshot(r) \/ EndChannel(r) \/ \E c \in Conns : SendText(r, c)

Next ==
  \/ \E r \in Runners : Deliver(r)
  \/ \E c \in Conns : Connect(c) \/ PeerLeaves(c) \/ Disconnect(c)
  \/ \E s \in Streams : OpenStream(s) \/ YieldEvent(s) \/ CloseStream(s)
  \/ \E e \in Events : \/ PublishMemory(e) \/ ReceiveWebhook(e)
                       \/ PublishElsewhere(e) \/ PublishRedis(e)
  \/ RedisDown \/ RedisReturns
  \/ Listen

Spec == Init /\ [][Next]_vars

(* The event loop runs the listener and every broadcast that can go on.    *)
FairSpec == /\ Spec /\ WF_vars(Listen)
            /\ \A r \in Runners : WF_vars(Deliver(r))

-----------------------------------------------------------------------------
(* The listener, its broadcasts, the connections and the streams.          *)
Cast == [event : Events, sending : BOOLEAN, left : SUBSET Conns,
         dead : SUBSET Conns,
         channels : {<<"alerts", "map">>, <<"map">>, <<"alerts">>, <<"notes">>,
                     <<"direct">>}]

TypeOK ==
  /\ redisUp \in BOOLEAN /\ redisOnline \in BOOLEAN
  /\ listener \in {"connecting", "listening", "cut", "sleeping", "fallback"}
  /\ buffer \in Seq(Events)
  /\ cast \in [Runners -> Cast \cup {Idle}]
  /\ conn \in [Conns -> {"new", "open", "gone", "closed"}]
  /\ inbox \in [Conns -> Seq({"alerts", "map", "notes", "direct"} \X Events)]
  /\ sse \in [Streams -> {"new", "open", "leaked", "closed"}]
  /\ queue \in [Streams -> Seq(Events)] /\ got \in [Streams -> Seq(Events)]
  /\ since \in [Streams -> Nat]
  /\ unpublished \subseteq Events /\ halfway \subseteq Events
  /\ memLog \in Seq(Events) /\ redisLog \in Seq(Events)

(* However often the listener reconnects or falls back, no connection is   *)
(* sent one event twice on a channel.                                      *)
AtMostOncePerChannel ==
  \A c \in Conns : \A i, j \in DOMAIN inbox[c] :
    inbox[c][i] = inbox[c][j] => i = j

(* As long as Redis feeds the listener, a connection gets the signals of a *)
(* channel in the order in which Redis accepted them, whatever it misses.  *)
Precedes(e, f) ==
  \E k, l \in DOMAIN redisLog : k < l /\ redisLog[k] = e /\ redisLog[l] = f
RedisOrderKept ==
  redisOnline =>
    \A c \in Conns : \A i, j \in DOMAIN inbox[c] :
      i < j /\ inbox[c][i][1] = inbox[c][j][1] /\ inbox[c][i][1] # "direct"
        => Precedes(inbox[c][i][2], inbox[c][j][2])

(* What the listener takes from Redis passes over nobody: when a broadcast *)
(* is through with a channel, every open connection that was ever sent     *)
(* something on it was sent this event, whoever else left, failed or was   *)
(* disconnected meanwhile.  Gaps are made by outages only.                 *)
Follows(c, ch) == \E i \in DOMAIN inbox[c] : inbox[c][i][1] = ch
FollowersMissNothing ==
  [][EndChannel(Listener) =>
       \A c \in Conns :
         conn[c] = "open" /\ Follows(c, Head(cast[Listener].channels)) =>
           \E i \in DOMAIN inbox[c] :
             inbox[c][i] = <<Head(cast[Listener].channels), cast[Listener].event>>]_vars

(* An SSE stream sends what memory_stream published since it was opened,   *)
(* without a gap, a repetition or a change of order.                       *)
StreamIsExact ==
  \A s \in Streams :
    sse[s] = "open" => got[s] \o queue[s] = SubSeq(memLog, since[s] + 1, Len(memLog))

(* Connections that vanish in the middle cannot hold up a broadcast.       *)
BroadcastsEnd == \A r \in Runners : cast[r] # Idle ~> cast[r] = Idle

(* Once Redis was reachable, the listener subscribes again and again.      *)
Reconnects ==
  [](redisOnline /\ []redisUp => []<>(listener = "listening"))
================================================================================
