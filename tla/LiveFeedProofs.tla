----------------------------- MODULE LiveFeedProofs -----------------------------
(***************************************************************************)
(* AtMostOncePerChannel, RedisOrderKept, FollowersMissNothing and          *)
(* StreamIsExact, for any number of connections, streams and events.       *)
(*                                                                         *)
(* What a connection was sent says nothing of what it is going to be sent. *)
(* The invariant adds that an event is in one place only: not published,   *)
(* on its way to Redis, in the listener's buffer, or with a broadcast; and *)
(* that a broadcast has nothing left to send that was sent already.  The   *)
(* two ways to the clients exclude each other: memory is used only once    *)
(* the listener has fallen back, and it never comes back from there.       *)
(*                                                                         *)
(* On top of it, OrderOK lines up what was sent, the event the listener is *)
(* broadcasting and its buffer in the order of Redis, StreamsOK pins what  *)
(* each stream sent and has queued to a stretch of the memory log, and     *)
(* NobodyPassedOver accounts for the targets of the listener's broadcast.  *)
(***************************************************************************)
EXTENDS LiveFeed, SequenceTheorems, TLAPS

(* What was sent, what the buffer holds, what a broadcast has to do.       *)
Sent(c) == {inbox[c][i] : i \in DOMAIN inbox[c]}
Waiting == {buffer[k] : k \in DOMAIN buffer}
ChannelsOf(r) == {cast[r].channels[k] : k \in DOMAIN cast[r].channels}
Online == listener \in {"listening", "cut"}

ListenerOK ==
  /\ Online \/ listener = "sleeping" => redisOnline
  /\ listener = "fallback" => ~redisOnline
  /\ ~Online => buffer = <<>> /\ cast[Listener] = Idle

BufferOK ==
  /\ unpublished \cap halfway = {}
  /\ Waiting \cap (unpublished \cup halfway) = {}
  /\ \A i, j \in DOMAIN buffer : buffer[i] = buffer[j] => i = j

CastOK(r) ==
  /\ cast[r].event \notin unpublished
  /\ cast[r].left # {} => cast[r].sending
  /\ r = Listener => /\ cast[r].event \notin halfway \cup Waiting
                     /\ "direct" \notin ChannelsOf(r)
  /\ r # Listener => /\ cast[r].event = r
                     /\ \/ cast[r].channels = <<"direct">>
                        \/ cast[r].channels = <<"alerts">> /\ listener = "fallback"
  /\ \A c \in Conns : \A ch \in ChannelsOf(r) :
       <<ch, cast[r].event>> \in Sent(c) =>
         ch = Head(cast[r].channels) /\ cast[r].sending /\ c \notin cast[r].left
CastsOK == \A r \in Runners : cast[r] # Idle => CastOK(r)

InboxOK ==
  \A c \in Conns : \A x \in Sent(c) :
    /\ x[2] \notin unpublished
    /\ x[1] # "direct" =>
         \/ listener = "fallback"
         \/ redisOnline /\ x[2] \notin halfway \cup Waiting

IInv == TypeOK /\ ListenerOK /\ BufferOK /\ CastsOK /\ InboxOK /\ AtMostOncePerChannel

-----------------------------------------------------------------------------
LEMMA InitInv == Init => IInv
<1> SUFFICES ASSUME Init PROVE IInv
  OBVIOUS
<1>1. TypeOK
  <2>1. cast \in [Runners -> Cast \cup {Idle}]
    BY DEF Init
  <2>2. /\ buffer \in Seq(Events) /\ memLog \in Seq(Events) /\ redisLog \in Seq(Events)
        /\ queue \in [Streams -> Seq(Events)] /\ got \in [Streams -> Seq(Events)]
        /\ inbox \in [Conns -> Seq({"alerts", "map", "notes", "direct"} \X Events)]
    BY EmptySeq DEF Init
  <2> QED BY <2>1, <2>2 DEF Init, TypeOK
<1>2. ListenerOK /\ BufferOK
  BY DEF Init, ListenerOK, BufferOK, Online, Waiting, Runners
<1>3. CastsOK
  BY DEF Init, CastsOK
<1>4. InboxOK /\ AtMostOncePerChannel
  BY DEF Init, InboxOK, AtMostOncePerChannel, Sent
<1> QED BY <1>1, <1>2, <1>3, <1>4 DEF IInv

(* The channels of a broadcast, one by one.                                *)
LEMMA ChannelFacts ==
  ASSUME TypeOK, NEW r \in Runners, cast[r] # Idle
  PROVE  /\ cast[r] \in Cast
         /\ Head(cast[r].channels) \in ChannelsOf(r)
         /\ Head(cast[r].channels) \in {"alerts", "map", "notes", "direct"}
         /\ cast[r].channels = <<"alerts", "map">> \/ Tail(cast[r].channels) = <<>>
<1>1. cast[r] \in Cast
  BY DEF TypeOK
<1>2. \/ cast[r].channels = <<"alerts", "map">>
      \/ \E ch \in {"alerts", "map", "notes", "direct"} : cast[r].channels = <<ch>>
  BY <1>1 DEF Cast
<1>3. CASE cast[r].channels = <<"alerts", "map">>
  BY <1>1, <1>3 DEF ChannelsOf
<1>4. ASSUME NEW ch \in {"alerts", "map", "notes", "direct"}, cast[r].channels = <<ch>>
      PROVE  Head(cast[r].channels) = ch /\ ch \in ChannelsOf(r) /\ Tail(cast[r].channels) = <<>>
  BY <1>4 DEF ChannelsOf
<1> QED BY <1>1, <1>2, <1>3, <1>4

LEMMA NewCastOK ==
  ASSUME NEW e \in Events,
         NEW chs \in {<<"alerts", "map">>, <<"map">>, <<"alerts">>, <<"notes">>, <<"direct">>}
  PROVE  NewCast(e, chs) \in Cast
BY DEF NewCast, Cast

-----------------------------------------------------------------------------
LEMMA TypeStep == TypeOK /\ ListenerOK /\ [Next]_vars => TypeOK'
<1> SUFFICES ASSUME TypeOK, ListenerOK, [Next]_vars PROVE TypeOK'
  OBVIOUS
<1> USE DEF TypeOK, feed, sockets, streams, source
<1>1. ASSUME NEW r \in Runners, Snapshot(r) PROVE TypeOK'
  <2>1. cast[r] \in Cast /\ Active \in SUBSET Conns
    BY <1>1, ChannelFacts DEF Snapshot, Active
  <2>2. [cast[r] EXCEPT !.sending = TRUE, !.left = Active, !.dead = {}] \in Cast
    BY <2>1 DEF Cast
  <2>3. cast' = [cast EXCEPT ![r] = [cast[r] EXCEPT !.sending = TRUE, !.left = Active,
                                                    !.dead = {}]]
    BY <1>1 DEF Snapshot
  <2>4. cast' \in [Runners -> Cast \cup {Idle}]
    BY <2>2, <2>3
  <2> QED BY <1>1, <2>4 DEF Snapshot
<1>2. ASSUME NEW r \in Runners, EndChannel(r) PROVE TypeOK'
  <2>1. cast[r] \in Cast
    BY <1>2, ChannelFacts DEF EndChannel
  <2>2. cast[r].event \in Events /\ Tail(cast[r].channels) \in {<<>>, <<"map">>}
    <3>1. cast[r].channels = <<"alerts", "map">> \/ Tail(cast[r].channels) = <<>>
      BY <1>2, ChannelFacts DEF EndChannel
    <3>2. CASE cast[r].channels = <<"alerts", "map">>
      BY <2>1, <3>2 DEF Cast
    <3>3. CASE Tail(cast[r].channels) = <<>>
      BY <2>1, <3>3 DEF Cast
    <3> QED BY <3>1, <3>2, <3>3
  <2>3. cast' \in [Runners -> Cast \cup {Idle}]
    BY <1>2, <2>2, NewCastOK DEF EndChannel
  <2> QED BY <1>2, <2>3 DEF EndChannel
<1>3. ASSUME NEW r \in Runners, NEW c \in Conns, SendText(r, c) PROVE TypeOK'
  <2>1. cast[r] \in Cast /\ Head(cast[r].channels) \in {"alerts", "map", "notes", "direct"}
    BY <1>3, ChannelFacts DEF SendText
  <2>2. /\ [cast[r] EXCEPT !.left = @ \ {c}] \in Cast
        /\ [cast[r] EXCEPT !.left = @ \ {c}, !.dead = @ \cup {c}] \in Cast
    <3>1. cast[r].left \subseteq Conns /\ cast[r].dead \subseteq Conns
      BY <2>1 DEF Cast
    <3>2. cast[r].left \ {c} \in SUBSET Conns /\ cast[r].dead \cup {c} \in SUBSET Conns
      BY <3>1
    <3> QED BY <2>1, <3>2 DEF Cast
  <2>3. \/ cast' = [cast EXCEPT ![r] = [cast[r] EXCEPT !.left = @ \ {c}]]
        \/ cast' = [cast EXCEPT ![r] = [cast[r] EXCEPT !.left = @ \ {c}, !.dead = @ \cup {c}]]
    BY <1>3 DEF SendText
  <2>4. cast' \in [Runners -> Cast \cup {Idle}]
    BY <2>2, <2>3
  <2>5. inbox' \in [Conns -> Seq({"alerts", "map", "notes", "direct"} \X Events)]
    <3>1. <<Head(cast[r].channels), cast[r].event>> \in {"alerts", "map", "notes", "direct"} \X Events
      BY <2>1 DEF Cast
    <3>2. Append(inbox[c], <<Head(cast[r].channels), cast[r].event>>)
            \in Seq({"alerts", "map", "notes", "direct"} \X Events)
      BY <3>1, AppendProperties
    <3> QED BY <1>3, <3>2 DEF SendText
  <2> QED BY <1>3, <2>4, <2>5 DEF SendText
<1>4. ASSUME NEW c \in Conns, Connect(c) \/ PeerLeaves(c) \/ Disconnect(c) PROVE TypeOK'
  BY <1>4 DEF Connect, PeerLeaves, Disconnect
<1>5. ASSUME NEW s \in Streams, OpenStream(s) \/ YieldEvent(s) \/ CloseStream(s)
      PROVE TypeOK'
  <2>1. CASE OpenStream(s)
    <3>1. Len(memLog) \in Nat
      BY LenProperties
    <3> QED BY <2>1, <3>1 DEF OpenStream
  <2>2. CASE YieldEvent(s)
    <3>1. Head(queue[s]) \in Events /\ Tail(queue[s]) \in Seq(Events)
      BY <2>2, HeadTailProperties DEF YieldEvent
    <3> QED BY <2>2, <3>1 DEF YieldEvent
  <2>3. CASE CloseStream(s)
    BY <2>3 DEF CloseStream
  <2> QED BY <1>5, <2>1, <2>2, <2>3
<1>6. ASSUME NEW e \in Events, PublishMemory(e) \/ ReceiveWebhook(e) PROVE TypeOK'
  <2>1. Offered(e) \in [Streams -> Seq(Events)]
    BY DEF Offered
  <2>2. NewCast(e, <<"alerts">>) \in Cast /\ NewCast(e, <<"direct">>) \in Cast
    BY NewCastOK
  <2>3. cast' \in [Runners -> Cast \cup {Idle}]
    BY <1>6, <2>2 DEF PublishMemory, ReceiveWebhook
  <2>4. Append(memLog, e) \in Seq(Events)
    BY AppendProperties
  <2> QED BY <1>6, <2>1, <2>3, <2>4 DEF PublishMemory, ReceiveWebhook
<1>7. ASSUME NEW e \in Events, PublishElsewhere(e) \/ PublishRedis(e) PROVE TypeOK'
  <2>1. Append(redisLog, e) \in Seq(Events) /\ Append(buffer, e) \in Seq(Events)
    BY AppendProperties
  <2>2. CASE PublishElsewhere(e)
    BY <2>2 DEF PublishElsewhere
  <2>3. CASE PublishRedis(e)
    BY <2>1, <2>3 DEF PublishRedis
  <2> QED BY <1>7, <2>2, <2>3
<1>8. CASE RedisDown \/ RedisReturns
  <2>1. CASE RedisDown
    BY <2>1 DEF RedisDown
  <2>2. CASE RedisReturns
    BY <2>2 DEF RedisReturns
  <2> QED BY <1>8, <2>1, <2>2
<1>9. CASE Subscribe \/ SubscribeFails \/ ListenFails \/ WakeUp
  <2>1. /\ listener' \in {"connecting", "listening", "sleeping", "fallback"}
        /\ redisOnline' \in BOOLEAN /\ buffer' \in Seq(Events)
        /\ UNCHANGED <<redisUp, cast, sockets, streams, source>>
    BY <1>9, EmptySeq DEF Subscribe, SubscribeFails, ListenFails, WakeUp, Recover
  <2> QED BY <2>1
<1>10. CASE TakeMessage
  <2>1. Head(buffer) \in Events /\ Tail(buffer) \in Seq(Events)
    BY <1>10, HeadTailProperties DEF TakeMessage
  <2>2. NewCast(Head(buffer), Channels(Head(buffer))) \in Cast
    BY <2>1, NewCastOK DEF Channels
  <2> QED BY <1>10, <2>1, <2>2 DEF TakeMessage
<1>11. CASE UNCHANGED vars
  BY <1>11 DEF vars
<1> QED BY <1>1, <1>2, <1>3, <1>4, <1>5, <1>6, <1>7, <1>8, <1>9, <1>10, <1>11
        DEF Next, Deliver, Listen

-----------------------------------------------------------------------------
(* Steps of peers, streams and Redis leave the places of events alone.     *)
LEMMA ElsewhereInv ==
  ASSUME IInv, UNCHANGED <<cast, inbox, unpublished, halfway, buffer, redisOnline>>,
         \/ UNCHANGED listener
         \/ listener = "listening" /\ listener' = "cut"
         \/ listener = "sleeping" /\ listener' = "connecting"
         \/ listener = "connecting" /\ redisOnline /\ listener' = "sleeping"
  PROVE  (ListenerOK /\ BufferOK /\ CastsOK /\ InboxOK /\ AtMostOncePerChannel)'
<1> USE DEF IInv
<1>1. ListenerOK'
  BY DEF ListenerOK, Online
<1>2. BufferOK' /\ AtMostOncePerChannel'
  BY DEF BufferOK, Waiting, AtMostOncePerChannel
<1>3. CastsOK'
  BY DEF CastsOK, CastOK, ChannelsOf, Waiting, Sent
<1>4. InboxOK'
  BY DEF InboxOK, Sent, Waiting
<1> QED BY <1>1, <1>2, <1>3, <1>4

(* The connections that are to be served on a channel are fixed.           *)
LEMMA SnapshotInv ==
  ASSUME IInv, NEW r \in Runners, Snapshot(r)
  PROVE  (ListenerOK /\ BufferOK /\ CastsOK /\ InboxOK /\ AtMostOncePerChannel)'
<1> USE DEF IInv
<1> DEFINE b == [cast[r] EXCEPT !.sending = TRUE, !.left = Active, !.dead = {}]
<1>1. cast' = [cast EXCEPT ![r] = b] /\ cast[r] # Idle /\ ~cast[r].sending
  BY DEF Snapshot
<1>2. /\ b.event = cast[r].event /\ b.channels = cast[r].channels /\ b.sending
  BY <1>1, ChannelFacts DEF Cast
<1>3. \A q \in Runners : cast'[q] = IF q = r THEN b ELSE cast[q]
  BY <1>1 DEF TypeOK
<1>4. UNCHANGED <<listener, redisOnline, buffer, inbox, unpublished, halfway>>
  BY DEF Snapshot, feed, sockets, source
<1>5. ListenerOK'
  BY <1>1, <1>3, <1>4 DEF ListenerOK, Online, Runners
<1>6. BufferOK' /\ InboxOK' /\ AtMostOncePerChannel'
  BY <1>4 DEF BufferOK, Waiting, InboxOK, Sent, AtMostOncePerChannel
<1>7. ASSUME NEW q \in Runners, cast'[q] # Idle PROVE CastOK(q)'
  <2>1. /\ Waiting' = Waiting /\ \A c \in Conns : Sent(c)' = Sent(c)
    BY <1>4 DEF Waiting, Sent
  <2>2. CASE q # r
    BY <1>3, <1>4, <1>7, <2>1, <2>2 DEF CastsOK, CastOK, ChannelsOf
  <2>3. CASE q = r
    <3>1. ChannelsOf(r)' = ChannelsOf(r) /\ CastOK(r) /\ cast'[r] = b
      <4>1. CastOK(r)
        BY <1>1 DEF CastsOK
      <4>2. cast'[r].channels = cast[r].channels
        BY <1>2, <1>3
      <4> QED BY <1>3, <4>1, <4>2 DEF ChannelsOf
    <3>2. \A c \in Conns : \A ch \in ChannelsOf(r) :
            <<ch, cast[r].event>> \notin Sent(c)
      BY <1>1, <3>1 DEF CastOK
    <3> QED BY <1>2, <1>4, <2>1, <2>3, <3>1, <3>2 DEF CastOK
  <2> QED BY <2>2, <2>3
<1> QED BY <1>5, <1>6, <1>7 DEF CastsOK

(* A broadcast goes on to its next channel, or ends.                       *)
LEMMA EndChannelInv ==
  ASSUME IInv, NEW r \in Runners, EndChannel(r)
  PROVE  (ListenerOK /\ BufferOK /\ CastsOK /\ InboxOK /\ AtMostOncePerChannel)'
<1> USE DEF IInv
<1> DEFINE b == IF Tail(cast[r].channels) = <<>> THEN Idle
                ELSE NewCast(cast[r].event, Tail(cast[r].channels))
<1>1. cast' = [cast EXCEPT ![r] = b] /\ cast[r] # Idle
  BY DEF EndChannel
<1>2. \A q \in Runners : cast'[q] = IF q = r THEN b ELSE cast[q]
  BY <1>1 DEF TypeOK
<1>3. UNCHANGED <<listener, redisOnline, buffer, inbox, unpublished, halfway>>
  BY DEF EndChannel, feed, streams, source
<1>4. ListenerOK'
  BY <1>1, <1>2, <1>3 DEF ListenerOK, Online, Runners
<1>5. BufferOK' /\ InboxOK' /\ AtMostOncePerChannel'
  BY <1>3 DEF BufferOK, Waiting, InboxOK, Sent, AtMostOncePerChannel
<1>6. ASSUME NEW q \in Runners, cast'[q] # Idle PROVE CastOK(q)'
  <2>1. /\ Waiting' = Waiting /\ \A c \in Conns : Sent(c)' = Sent(c)
    BY <1>3 DEF Waiting, Sent
  <2>2. CASE q # r
    BY <1>2, <1>3, <1>6, <2>1, <2>2 DEF CastsOK, CastOK, ChannelsOf
  <2>3. CASE q = r
    <3>1. /\ CastOK(r) /\ b # Idle /\ cast'[r] = NewCast(cast[r].event, <<"map">>)
          /\ cast[r].channels = <<"alerts", "map">>
      <4>1. CastOK(r)
        BY <1>1 DEF CastsOK
      <4>2. cast'[r] = b /\ b # Idle
        BY <1>2, <1>6, <2>3
      <4>3. Tail(cast[r].channels) # <<>>
        BY <4>2
      <4>4. cast[r].channels = <<"alerts", "map">>
        BY <1>1, <4>3, ChannelFacts
      <4>5. Tail(cast[r].channels) = <<"map">>
        BY <4>4
      <4> QED BY <4>1, <4>2, <4>3, <4>4, <4>5
    <3>2. /\ cast'[r].event = cast[r].event /\ cast'[r].left = {}
          /\ cast'[r].channels = <<"map">> /\ ChannelsOf(r)' = {"map"}
      BY <3>1 DEF NewCast, ChannelsOf
    <3>3. ChannelsOf(r) = {"alerts", "map"} /\ Head(cast[r].channels) = "alerts"
      BY <3>1 DEF ChannelsOf
    <3>4. \A c \in Conns : <<"map", cast[r].event>> \notin Sent(c)
      BY <3>1, <3>3 DEF CastOK
    <3>5. r = Listener
      BY <3>1 DEF CastOK
    <3> QED BY <1>3, <2>1, <2>3, <3>1, <3>2, <3>3, <3>4, <3>5 DEF CastOK
  <2> QED BY <2>2, <2>3
<1> QED BY <1>4, <1>5, <1>6 DEF CastsOK

(* No two broadcasts carry an event to the same channel.                   *)
LEMMA OneCarrier ==
  ASSUME IInv, NEW q \in Runners, NEW r \in Runners, q # r,
         cast[q] # Idle, cast[r] # Idle, cast[q].event = cast[r].event
  PROVE  ChannelsOf(q) \cap ChannelsOf(r) = {}
<1>1. CastOK(q) /\ CastOK(r)
  BY DEF IInv, CastsOK
<1>2. q = Listener \/ r = Listener
  BY <1>1 DEF CastOK
<1>3. listener # "fallback"
  BY <1>2 DEF IInv, ListenerOK, Online
<1>4. ASSUME NEW p \in {q, r}, p # Listener PROVE ChannelsOf(p) = {"direct"}
  <2>1. cast[p].channels = <<"direct">>
    BY <1>1, <1>3, <1>4 DEF CastOK
  <2> QED BY <2>1 DEF ChannelsOf
<1>5. ASSUME NEW p \in {q, r}, p = Listener PROVE "direct" \notin ChannelsOf(p)
  BY <1>1, <1>5 DEF CastOK
<1> QED BY <1>2, <1>4, <1>5

(* A connection is sent the event, or its send fails.                      *)
LEMMA SendTextInv ==
  ASSUME IInv, NEW r \in Runners, NEW c \in Conns, SendText(r, c)
  PROVE  (ListenerOK /\ BufferOK /\ CastsOK /\ InboxOK /\ AtMostOncePerChannel)'
<1> USE DEF IInv
<1> DEFINE ch == Head(cast[r].channels)
           x == <<ch, cast[r].event>>
           b == cast'[r]
<1>1. /\ cast[r] # Idle /\ c \in cast[r].left /\ cast[r] \in Cast /\ CastOK(r)
      /\ ch \in ChannelsOf(r)
  BY ChannelFacts DEF SendText, CastsOK
<1>2. /\ \A q \in Runners : q # r => cast'[q] = cast[q]
      /\ b.event = cast[r].event /\ b.channels = cast[r].channels
      /\ b.sending = cast[r].sending /\ b.left = cast[r].left \ {c}
  <2>1. \/ cast' = [cast EXCEPT ![r] = [cast[r] EXCEPT !.left = @ \ {c}]]
        \/ cast' = [cast EXCEPT ![r] = [cast[r] EXCEPT !.left = @ \ {c}, !.dead = @ \cup {c}]]
    BY DEF SendText
  <2>2. /\ \A q \in Runners : q # r => cast'[q] = cast[q]
        /\ \/ b = [cast[r] EXCEPT !.left = @ \ {c}]
           \/ b = [cast[r] EXCEPT !.left = @ \ {c}, !.dead = @ \cup {c}]
    BY <2>1 DEF TypeOK
  <2> QED BY <1>1, <2>2 DEF Cast
<1>3. \/ UNCHANGED inbox
      \/ inbox' = [inbox EXCEPT ![c] = Append(inbox[c], x)]
  BY DEF SendText
<1>4. UNCHANGED <<listener, redisOnline, buffer, unpublished, halfway>>
  BY DEF SendText, feed, source
<1>5. /\ \A d \in Conns : d # c => inbox'[d] = inbox[d]
      /\ Sent(c)' \subseteq Sent(c) \cup {x}
      /\ \A d \in Conns : d # c => Sent(d)' = Sent(d)
  <2>1. CASE UNCHANGED inbox
    BY <2>1 DEF Sent
  <2>2. CASE inbox' = [inbox EXCEPT ![c] = Append(inbox[c], x)]
    <3>1. /\ inbox'[c] = Append(inbox[c], x)
          /\ \A d \in Conns : d # c => inbox'[d] = inbox[d]
      BY <2>2 DEF TypeOK
    <3>2. \A i \in DOMAIN inbox'[c] : inbox'[c][i] \in Sent(c) \cup {x}
      BY <3>1 DEF TypeOK, Sent
    <3> QED BY <3>1, <3>2 DEF Sent
  <2> QED BY <1>3, <2>1, <2>2
<1>6. x \notin Sent(c)
  BY <1>1 DEF CastOK
<1>7. ListenerOK'
  BY <1>1, <1>2, <1>4 DEF ListenerOK, Online, Runners
<1>8. BufferOK'
  BY <1>4 DEF BufferOK, Waiting
<1>9. AtMostOncePerChannel'
  <2>1. ASSUME NEW i \in DOMAIN inbox'[c], NEW j \in DOMAIN inbox'[c],
               inbox'[c][i] = inbox'[c][j]
        PROVE  i = j
    <3>1. CASE UNCHANGED inbox
      BY <2>1, <3>1 DEF AtMostOncePerChannel
    <3>2. CASE inbox' = [inbox EXCEPT ![c] = Append(inbox[c], x)]
      <4>1. inbox'[c] = Append(inbox[c], x) /\ inbox[c] \in Seq({"alerts", "map", "notes", "direct"} \X Events)
        BY <3>2 DEF TypeOK
      <4>2. \A k \in DOMAIN inbox[c] : inbox[c][k] # x
        BY <1>6 DEF Sent
      <4>3. /\ DOMAIN inbox[c] = 1..Len(inbox[c]) /\ Len(inbox[c]) \in Nat
            /\ DOMAIN inbox'[c] = 1..(Len(inbox[c]) + 1)
            /\ \A k \in 1..Len(inbox[c]) : inbox'[c][k] = inbox[c][k]
            /\ inbox'[c][Len(inbox[c]) + 1] = x
        BY <4>1
      <4>4. \A k \in DOMAIN inbox'[c] : k \in DOMAIN inbox[c] \/ k = Len(inbox[c]) + 1
        BY <4>3
      <4> QED BY <2>1, <4>2, <4>3, <4>4 DEF AtMostOncePerChannel
    <3> QED BY <1>3, <3>1, <3>2
  <2> QED BY <1>5, <2>1 DEF AtMostOncePerChannel
<1>10. InboxOK'
  <2>1. x[1] = ch /\ x[2] = cast[r].event
    OBVIOUS
  <2>2. ch # "direct" => \/ listener = "fallback"
                         \/ redisOnline /\ cast[r].event \notin halfway \cup Waiting
    <3>1. CASE r = Listener
      BY <1>1, <3>1 DEF CastOK, ListenerOK, Online
    <3>2. CASE r # Listener
      <4>1. CASE cast[r].channels = <<"direct">>
        BY <4>1
      <4> QED BY <1>1, <3>2, <4>1 DEF CastOK
    <3> QED BY <3>1, <3>2
  <2>3. cast[r].event \notin unpublished
    BY <1>1 DEF CastOK
  <2>4. \A d \in Conns : \A y \in Sent(d)' : y \in Sent(d) \/ y = x
    BY <1>5
  <2>5. Waiting' = Waiting
    BY <1>4 DEF Waiting
  <2> QED BY <1>4, <2>1, <2>2, <2>3, <2>4, <2>5 DEF InboxOK
<1>11. ASSUME NEW q \in Runners, cast'[q] # Idle PROVE CastOK(q)'
  <2>1. Waiting' = Waiting
    BY <1>4 DEF Waiting
  <2>2. CASE q # r
    <3>1. CastOK(q) /\ cast'[q] = cast[q] /\ ChannelsOf(q)' = ChannelsOf(q)
      BY <1>2, <1>11, <2>2 DEF CastsOK, ChannelsOf
    <3>2. ASSUME NEW d \in Conns, NEW k \in ChannelsOf(q),
                 <<k, cast[q].event>> \in Sent(d)'
          PROVE  <<k, cast[q].event>> \in Sent(d)
      <4>1. <<k, cast[q].event>> # x
        BY <1>1, <1>2, <1>11, <2>2, OneCarrier
      <4> QED BY <1>5, <3>2, <4>1
    <3> QED BY <1>4, <2>1, <3>1, <3>2 DEF CastOK
  <2>3. CASE q = r
    <3>1. ChannelsOf(r)' = ChannelsOf(r) /\ cast[r].sending
      BY <1>1, <1>2 DEF ChannelsOf, CastOK
    <3>2. ASSUME NEW d \in Conns, NEW k \in ChannelsOf(r),
                 <<k, cast[r].event>> \in Sent(d)'
          PROVE  k = ch /\ d \notin cast[r].left \ {c}
      BY <1>1, <1>5, <3>2 DEF CastOK
    <3>3. /\ b.event \notin unpublished' /\ b.sending
          /\ r = Listener => /\ b.event \notin halfway' \cup Waiting'
                             /\ "direct" \notin ChannelsOf(r)'
          /\ r # Listener => /\ b.event = r
                             /\ \/ b.channels = <<"direct">>
                                \/ b.channels = <<"alerts">> /\ listener' = "fallback"
      BY <1>1, <1>2, <1>4, <2>1, <3>1 DEF CastOK
    <3>4. \A d \in Conns : \A k \in ChannelsOf(r)' :
            <<k, b.event>> \in Sent(d)' => k = Head(b.channels) /\ d \notin b.left
      BY <1>2, <3>1, <3>2
    <3> QED BY <2>3, <3>3, <3>4 DEF CastOK
  <2> QED BY <2>2, <2>3
<1> QED BY <1>7, <1>8, <1>9, <1>10, <1>11 DEF CastsOK

-----------------------------------------------------------------------------
(* A signal is published in memory: fallen back, the listener's callback   *)
(* starts the only broadcast there will be of it.                          *)
LEMMA PublishMemoryInv ==
  ASSUME IInv, NEW e \in Events, PublishMemory(e)
  PROVE  (ListenerOK /\ BufferOK /\ CastsOK /\ InboxOK /\ AtMostOncePerChannel)'
<1> USE DEF IInv
<1>1. /\ e \in unpublished /\ unpublished' = unpublished \ {e}
      /\ halfway' = halfway \cup {e}
      /\ UNCHANGED <<listener, redisOnline, buffer, inbox>>
      /\ \/ UNCHANGED cast
         \/ listener = "fallback" /\ cast' = [cast EXCEPT ![e] = NewCast(e, <<"alerts">>)]
  BY DEF PublishMemory, feed, sockets
<1>2. \A q \in Runners : q # e => cast'[q] = cast[q]
  BY <1>1 DEF TypeOK
<1>3. /\ Waiting' = Waiting /\ e \notin Waiting /\ \A c \in Conns : Sent(c)' = Sent(c)
  BY <1>1 DEF Waiting, Sent, BufferOK
<1>4. ListenerOK' /\ BufferOK' /\ AtMostOncePerChannel'
  BY <1>1, <1>2, <1>3, ListenerAssumption
  DEF ListenerOK, Online, Runners, BufferOK, AtMostOncePerChannel
<1>5. InboxOK'
  BY <1>1, <1>3 DEF InboxOK
<1>6. ASSUME NEW q \in Runners, cast'[q] # Idle PROVE CastOK(q)'
  <2>1. CASE cast'[q] = cast[q]
    <3>1. CastOK(q) /\ ChannelsOf(q)' = ChannelsOf(q)
      BY <1>6, <2>1 DEF CastsOK, ChannelsOf
    <3>2. cast[q].event # e
      BY <1>1, <3>1 DEF CastOK
    <3> QED BY <1>1, <1>3, <2>1, <3>1, <3>2 DEF CastOK
  <2>2. CASE cast'[q] # cast[q]
    <3>1. q = e /\ listener = "fallback" /\ cast'[e] = NewCast(e, <<"alerts">>)
      BY <1>1, <1>2, <2>2 DEF TypeOK, Runners
    <3>2. /\ cast'[e].event = e /\ cast'[e].left = {}
          /\ cast'[e].channels = <<"alerts">> /\ ChannelsOf(e)' = {"alerts"}
      BY <3>1 DEF NewCast, ChannelsOf
    <3>3. \A c \in Conns : <<"alerts", e>> \notin Sent(c)
      BY <1>1 DEF InboxOK
    <3> QED BY <1>1, <1>3, <3>1, <3>2, <3>3, ListenerAssumption DEF CastOK
  <2> QED BY <2>1, <2>2
<1> QED BY <1>4, <1>5, <1>6 DEF CastsOK

LEMMA ReceiveWebhookInv ==
  ASSUME IInv, NEW e \in Events, ReceiveWebhook(e)
  PROVE  (ListenerOK /\ BufferOK /\ CastsOK /\ InboxOK /\ AtMostOncePerChannel)'
<1> USE DEF IInv
<1>1. /\ e \in unpublished /\ unpublished' = unpublished \ {e}
      /\ halfway' = halfway \cup {e}
      /\ UNCHANGED <<listener, redisOnline, buffer, inbox>>
      /\ cast' = [cast EXCEPT ![e] = NewCast(e, <<"direct">>)]
  BY DEF ReceiveWebhook, feed, sockets
<1>2. \A q \in Runners : cast'[q] = IF q = e THEN NewCast(e, <<"direct">>) ELSE cast[q]
  BY <1>1 DEF TypeOK
<1>3. /\ Waiting' = Waiting /\ e \notin Waiting /\ \A c \in Conns : Sent(c)' = Sent(c)
  BY <1>1 DEF Waiting, Sent, BufferOK
<1>4. ListenerOK' /\ BufferOK' /\ AtMostOncePerChannel'
  BY <1>1, <1>2, <1>3, ListenerAssumption
  DEF ListenerOK, Online, Runners, BufferOK, AtMostOncePerChannel
<1>5. InboxOK'
  BY <1>1, <1>3 DEF InboxOK
<1>6. ASSUME NEW q \in Runners, cast'[q] # Idle PROVE CastOK(q)'
  <2>1. CASE q # e
    <3>1. CastOK(q) /\ ChannelsOf(q)' = ChannelsOf(q) /\ cast'[q] = cast[q]
      BY <1>2, <1>6, <2>1 DEF CastsOK, ChannelsOf
    <3>2. cast[q].event # e
      BY <1>1, <3>1 DEF CastOK
    <3> QED BY <1>1, <1>3, <2>1, <3>1, <3>2 DEF CastOK
  <2>2. CASE q = e
    <3>1. /\ cast'[e].event = e /\ cast'[e].left = {}
          /\ cast'[e].channels = <<"direct">> /\ ChannelsOf(e)' = {"direct"}
      BY <1>2, <2>2 DEF NewCast, ChannelsOf
    <3>2. \A c \in Conns : <<"direct", e>> \notin Sent(c)
      BY <1>1 DEF InboxOK
    <3> QED BY <1>1, <1>3, <2>2, <3>1, <3>2, ListenerAssumption DEF CastOK
  <2> QED BY <2>1, <2>2
<1> QED BY <1>4, <1>5, <1>6 DEF CastsOK

(* From halfway to the buffer, or nowhere.                                 *)
LEMMA PublishRedisInv ==
  ASSUME IInv, NEW e \in Events, PublishElsewhere(e) \/ PublishRedis(e)
  PROVE  (ListenerOK /\ BufferOK /\ CastsOK /\ InboxOK /\ AtMostOncePerChannel)'
<1> USE DEF IInv
<1>1. UNCHANGED <<listener, redisOnline, cast, inbox>>
  BY DEF PublishElsewhere, PublishRedis, feed, sockets
<1>2. CASE PublishElsewhere(e)
  <2>1. /\ e \in unpublished /\ unpublished' = unpublished \ {e}
        /\ halfway' = halfway \cup {e} /\ UNCHANGED buffer
    BY <1>2 DEF PublishElsewhere, feed
  <2>2. /\ Waiting' = Waiting /\ e \notin Waiting /\ \A c \in Conns : Sent(c)' = Sent(c)
        /\ \A r \in Runners : ChannelsOf(r)' = ChannelsOf(r)
    BY <1>1, <2>1 DEF Waiting, Sent, BufferOK, ChannelsOf
  <2>3. ListenerOK' /\ BufferOK' /\ InboxOK' /\ AtMostOncePerChannel'
    BY <1>1, <2>1, <2>2 DEF ListenerOK, Online, BufferOK, InboxOK, AtMostOncePerChannel
  <2>4. ASSUME NEW r \in Runners, cast[r] # Idle PROVE CastOK(r)'
    BY <1>1, <2>1, <2>2, <2>4 DEF CastsOK, CastOK
  <2> QED BY <1>1, <2>3, <2>4 DEF CastsOK
<1>3. CASE PublishRedis(e)
  <2>1. /\ e \in halfway /\ halfway' = halfway \ {e} /\ UNCHANGED unpublished
        /\ \/ UNCHANGED buffer
           \/ listener = "listening" /\ buffer' = Append(buffer, e)
    BY <1>3 DEF PublishRedis
  <2>2. buffer' = Append(buffer, e) =>
          /\ DOMAIN buffer = 1..Len(buffer) /\ Len(buffer) \in Nat
          /\ DOMAIN buffer' = 1..(Len(buffer) + 1)
          /\ \A k \in 1..Len(buffer) : buffer'[k] = buffer[k]
          /\ buffer'[Len(buffer) + 1] = e
    BY DEF TypeOK
  <2>3. Waiting' \subseteq Waiting \cup {e}
    <3>1. \A k \in DOMAIN buffer' : buffer'[k] \in Waiting \cup {e}
      BY <2>1, <2>2 DEF Waiting
    <3> QED BY <3>1 DEF Waiting
  <2>4. e \notin Waiting
    BY <2>1 DEF BufferOK
  <2>5. /\ \A c \in Conns : Sent(c)' = Sent(c)
        /\ \A r \in Runners : ChannelsOf(r)' = ChannelsOf(r)
    BY <1>1 DEF Sent, ChannelsOf
  <2>6. ListenerOK' /\ AtMostOncePerChannel'
    BY <1>1, <2>1 DEF ListenerOK, Online, AtMostOncePerChannel
  <2>7. BufferOK'
    <3>1. e \notin unpublished
      BY <1>3, <2>1 DEF BufferOK
    <3>2. \A i, j \in DOMAIN buffer' : buffer'[i] = buffer'[j] => i = j
      <4>1. CASE UNCHANGED buffer
        BY <4>1 DEF BufferOK
      <4>2. CASE buffer' = Append(buffer, e)
        <5>1. \A k \in DOMAIN buffer : buffer[k] # e
          BY <2>4 DEF Waiting
        <5>2. \A k \in DOMAIN buffer' : k \in DOMAIN buffer \/ k = Len(buffer) + 1
          BY <2>2, <4>2
        <5> QED BY <2>2, <4>2, <5>1, <5>2 DEF BufferOK
      <4> QED BY <2>1, <4>1, <4>2
    <3> QED BY <2>1, <2>3, <2>4, <3>1, <3>2 DEF BufferOK
  <2>8. InboxOK'
    BY <1>1, <2>1, <2>3, <2>5 DEF InboxOK
  <2>9. ASSUME NEW r \in Runners, cast[r] # Idle PROVE CastOK(r)'
    BY <1>1, <2>1, <2>3, <2>5, <2>9 DEF CastsOK, CastOK
  <2> QED BY <1>1, <2>6, <2>7, <2>8, <2>9 DEF CastsOK
<1> QED BY <1>2, <1>3

-----------------------------------------------------------------------------
(* The listener subscribes: memory was not used so far.                    *)
LEMMA SubscribeInv ==
  ASSUME IInv, Subscribe
  PROVE  (ListenerOK /\ BufferOK /\ CastsOK /\ InboxOK /\ AtMostOncePerChannel)'
<1> USE DEF IInv
<1>1. /\ listener = "connecting" /\ listener' = "listening" /\ redisOnline'
      /\ buffer' = <<>> /\ buffer = <<>>
      /\ UNCHANGED <<cast, inbox, unpublished, halfway>>
  BY DEF Subscribe, sockets, source, ListenerOK, Online
<1>2. /\ Waiting' = Waiting /\ \A c \in Conns : Sent(c)' = Sent(c)
      /\ \A r \in Runners : ChannelsOf(r)' = ChannelsOf(r)
  BY <1>1 DEF Waiting, Sent, ChannelsOf
<1>3. ListenerOK' /\ BufferOK' /\ AtMostOncePerChannel'
  BY <1>1, <1>2 DEF ListenerOK, Online, BufferOK, AtMostOncePerChannel
<1>4. InboxOK'
  BY <1>1, <1>2 DEF InboxOK
<1>5. ASSUME NEW r \in Runners, cast[r] # Idle PROVE CastOK(r)'
  BY <1>1, <1>2, <1>5 DEF CastsOK, CastOK
<1> QED BY <1>1, <1>3, <1>4, <1>5 DEF CastsOK

(* What was not handled is lost; the listener retries, or falls back.      *)
LEMMA RecoverInv ==
  ASSUME IInv, SubscribeFails \/ ListenFails
  PROVE  (ListenerOK /\ BufferOK /\ CastsOK /\ InboxOK /\ AtMostOncePerChannel)'
<1> USE DEF IInv
<1>1. /\ listener # "fallback" /\ cast[Listener] = Idle
      /\ listener' = IF redisOnline THEN "sleeping" ELSE "fallback"
      /\ buffer' = <<>>
      /\ UNCHANGED <<redisOnline, cast, inbox, unpublished, halfway>>
  BY DEF SubscribeFails, ListenFails, Recover, sockets, source, ListenerOK, Online
<1>2. /\ Waiting' = {} /\ \A c \in Conns : Sent(c)' = Sent(c)
      /\ \A r \in Runners : ChannelsOf(r)' = ChannelsOf(r)
  BY <1>1 DEF Waiting, Sent, ChannelsOf
<1>3. ListenerOK' /\ BufferOK' /\ AtMostOncePerChannel'
  BY <1>1, <1>2 DEF ListenerOK, Online, BufferOK, AtMostOncePerChannel
<1>4. InboxOK'
  BY <1>1, <1>2 DEF InboxOK
<1>5. ASSUME NEW r \in Runners, cast[r] # Idle PROVE CastOK(r)'
  BY <1>1, <1>2, <1>5 DEF CastsOK, CastOK
<1> QED BY <1>1, <1>3, <1>4, <1>5 DEF CastsOK

(* The next message leaves the buffer for a broadcast.                     *)
LEMMA TakeMessageInv ==
  ASSUME IInv, TakeMessage
  PROVE  (ListenerOK /\ BufferOK /\ CastsOK /\ InboxOK /\ AtMostOncePerChannel)'
<1> USE DEF IInv
<1> DEFINE e == Head(buffer)  b == NewCast(e, Channels(e))
<1>1. /\ Online /\ cast[Listener] = Idle /\ buffer # <<>> /\ redisOnline
      /\ buffer' = Tail(buffer) /\ cast' = [cast EXCEPT ![Listener] = b]
      /\ UNCHANGED <<listener, redisOnline, inbox, unpublished, halfway>>
  BY DEF TakeMessage, Online, sockets, source, ListenerOK
<1>2. \A q \in Runners : cast'[q] = IF q = Listener THEN b ELSE cast[q]
  BY <1>1 DEF TypeOK
<1>3. /\ DOMAIN buffer = 1..Len(buffer) /\ Len(buffer) \in Nat \ {0}
      /\ DOMAIN buffer' = 1..(Len(buffer) - 1) /\ e = buffer[1]
      /\ \A k \in 1..(Len(buffer) - 1) : buffer'[k] = buffer[k + 1]
  BY <1>1, EmptySeq DEF TypeOK
<1>4. e \in Waiting /\ Waiting' \subseteq Waiting \ {e}
  <2>1. \A k \in DOMAIN buffer' : buffer'[k] \in Waiting \ {e}
    BY <1>3 DEF Waiting, BufferOK
  <2> QED BY <1>3, <2>1 DEF Waiting
<1>5. \A c \in Conns : Sent(c)' = Sent(c)
  BY <1>1 DEF Sent
<1>6. ListenerOK' /\ AtMostOncePerChannel'
  BY <1>1 DEF ListenerOK, Online, AtMostOncePerChannel
<1>7. BufferOK'
  <2>1. \A i, j \in DOMAIN buffer' : buffer'[i] = buffer'[j] => i = j
    <3>1. ASSUME NEW i \in DOMAIN buffer', NEW j \in DOMAIN buffer', buffer'[i] = buffer'[j]
          PROVE  i = j
      <4>1. /\ i \in Nat /\ j \in Nat /\ i + 1 \in DOMAIN buffer /\ j + 1 \in DOMAIN buffer
            /\ buffer[i + 1] = buffer[j + 1]
        BY <1>3, <3>1
      <4>2. i + 1 = j + 1
        BY <4>1 DEF BufferOK
      <4> QED BY <4>1, <4>2
    <3> QED BY <3>1
  <2> QED BY <1>1, <1>4, <2>1 DEF BufferOK
<1>8. InboxOK'
  BY <1>1, <1>4, <1>5 DEF InboxOK
<1>9. ASSUME NEW r \in Runners, cast'[r] # Idle PROVE CastOK(r)'
  <2>1. CASE r # Listener
    <3>1. CastOK(r) /\ ChannelsOf(r)' = ChannelsOf(r) /\ cast'[r] = cast[r]
      BY <1>2, <1>9, <2>1 DEF CastsOK, ChannelsOf
    <3> QED BY <1>1, <1>5, <2>1, <3>1 DEF CastOK
  <2>2. CASE r = Listener
    <3>1. /\ cast'[Listener].event = e /\ cast'[Listener].left = {}
          /\ cast'[Listener].channels = Channels(e)
      BY <1>2, <2>2 DEF NewCast
    <3>2. "direct" \notin ChannelsOf(Listener)'
      BY <3>1 DEF ChannelsOf, Channels
    <3>3. \A c \in Conns : \A ch \in ChannelsOf(Listener)' : <<ch, e>> \notin Sent(c)
      BY <1>1, <1>4, <3>2 DEF InboxOK, Online
    <3> QED BY <1>1, <1>4, <1>5, <2>2, <3>1, <3>2, <3>3 DEF CastOK, BufferOK
  <2> QED BY <2>1, <2>2
<1> QED BY <1>6, <1>7, <1>8, <1>9 DEF CastsOK

-----------------------------------------------------------------------------
LEMMA StepInv == IInv /\ [Next]_vars => IInv'
<1> SUFFICES ASSUME IInv, [Next]_vars PROVE IInv'
  OBVIOUS
<1> DEFINE Rest == ListenerOK /\ BufferOK /\ CastsOK /\ InboxOK /\ AtMostOncePerChannel
<1>1. TypeOK'
  BY TypeStep DEF IInv
<1>2. ASSUME NEW r \in Runners, Deliver(r) PROVE Rest'
  BY <1>2, SnapshotInv, EndChannelInv, SendTextInv DEF Deliver
<1>3. ASSUME NEW c \in Conns, Connect(c) \/ PeerLeaves(c) \/ Disconnect(c) PROVE Rest'
  BY <1>3, ElsewhereInv DEF Connect, PeerLeaves, Disconnect, feed, source
<1>4. ASSUME NEW s \in Streams, OpenStream(s) \/ YieldEvent(s) \/ CloseStream(s) PROVE Rest'
  BY <1>4, ElsewhereInv DEF OpenStream, YieldEvent, CloseStream, feed, sockets, source
<1>5. ASSUME NEW e \in Events, \/ PublishMemory(e) \/ ReceiveWebhook(e)
                               \/ PublishElsewhere(e) \/ PublishRedis(e)
      PROVE Rest'
  BY <1>5, PublishMemoryInv, ReceiveWebhookInv, PublishRedisInv
<1>6. ASSUME RedisDown \/ RedisReturns PROVE Rest'
  <2>1. /\ UNCHANGED <<cast, inbox, unpublished, halfway, buffer, redisOnline>>
        /\ \/ UNCHANGED listener
           \/ listener = "listening" /\ listener' = "cut"
    <3>1. CASE RedisDown
      BY <3>1 DEF RedisDown, sockets, source
    <3>2. CASE RedisReturns
      BY <3>2 DEF RedisReturns, feed, sockets, source
    <3> QED BY <1>6, <3>1, <3>2
  <2> QED BY <2>1, ElsewhereInv
<1>7. ASSUME Listen PROVE Rest'
  <2>1. CASE WakeUp
    <3>1. /\ UNCHANGED <<cast, inbox, unpublished, halfway, buffer, redisOnline>>
          /\ listener = "sleeping" /\ listener' = "connecting"
      BY <2>1 DEF WakeUp, sockets, source
    <3> QED BY <3>1, ElsewhereInv
  <2>2. CASE Subscribe
    BY <2>2, SubscribeInv
  <2>3. CASE SubscribeFails \/ ListenFails
    BY <2>3, RecoverInv
  <2>4. CASE TakeMessage
    BY <2>4, TakeMessageInv
  <2> QED BY <1>7, <2>1, <2>2, <2>3, <2>4 DEF Listen
<1>8. ASSUME UNCHANGED vars PROVE Rest'
  <2>1. UNCHANGED <<cast, inbox, unpublished, halfway, buffer, redisOnline, listener>>
    BY <1>8 DEF vars, feed, sockets, source
  <2> QED BY <2>1, ElsewhereInv
<1>9. Rest'
  BY <1>2, <1>3, <1>4, <1>5, <1>6, <1>7, <1>8 DEF Next
<1> QED BY <1>1, <1>9 DEF IInv

LEMMA Invariant == Spec => []IInv
BY InitInv, StepInv, PTL DEF Spec

(* No connection is sent one event twice on a channel, through outages,    *)
(* reconnections and the fallback (redis_listener_task, ConnectionManager). *)
THEOREM SentAtMostOnce == Spec => []AtMostOncePerChannel
<1>1. IInv => AtMostOncePerChannel
  BY DEF IInv
<1> QED BY <1>1, Invariant, PTL

(* The types of the listener, the broadcasts, the connections, the streams *)
(* and their queues.                                                       *)
THEOREM FeedTypeOK == Spec => []TypeOK
<1>1. IInv => TypeOK
  BY DEF IInv
<1> QED BY <1>1, Invariant, PTL

-----------------------------------------------------------------------------
(* What Redis accepted, and what of it was sent to some connection.        *)
Logged == {redisLog[k] : k \in DOMAIN redisLog}
Forwarded == {e \in Events : \E c \in Conns : \E z \in Sent(c) : z[1] # "direct" /\ z[2] = e}

Before(log, e, f) == \E k, l \in DOMAIN log : k < l /\ log[k] = e /\ log[l] = f

(* What was sent, the event being broadcast and the buffer follow each     *)
(* other in the order of Redis.                                            *)
OrderOK ==
  redisOnline =>
    /\ \A i, j \in DOMAIN buffer : i < j => Before(redisLog, buffer[i], buffer[j])
    /\ Forwarded \cup Waiting \subseteq Logged
    /\ \A e \in Forwarded, f \in Waiting : Before(redisLog, e, f)
    /\ cast[Listener] # Idle =>
         /\ cast[Listener].event \in Logged
         /\ \A f \in Waiting : Before(redisLog, cast[Listener].event, f)
         /\ \A e \in Forwarded :
              e = cast[Listener].event \/ Before(redisLog, e, cast[Listener].event)
SentInOrder ==
  redisOnline =>
    \A c \in Conns : \A i, j \in DOMAIN inbox[c] :
      i < j /\ inbox[c][i][1] = inbox[c][j][1] /\ inbox[c][i][1] # "direct"
        => Before(redisLog, inbox[c][i][2], inbox[c][j][2])
OInv == OrderOK /\ SentInOrder

LEMMA OrderUntouched ==
  ASSUME OInv, UNCHANGED <<redisLog, buffer, inbox, redisOnline>>,
         \/ cast'[Listener] = Idle
         \/ cast[Listener] # Idle /\ cast'[Listener].event = cast[Listener].event
  PROVE  OInv'
<1>1. /\ Waiting' = Waiting /\ Logged' = Logged /\ Forwarded' = Forwarded
  BY DEF Waiting, Logged, Forwarded, Sent
<1>2. SentInOrder'
  BY <1>1 DEF OInv, SentInOrder
<1>3. OrderOK'
  BY <1>1 DEF OInv, OrderOK
<1> QED BY <1>2, <1>3 DEF OInv

(* The log only grows at its end.                                          *)
LEMMA LogGrows ==
  ASSUME TypeOK, NEW e \in Events, redisLog' = Append(redisLog, e)
  PROVE  /\ Logged' = Logged \cup {e}
         /\ \A f, g : Before(redisLog, f, g) => Before(redisLog', f, g)
         /\ \A f \in Logged : Before(redisLog', f, e)
<1> DEFINE n == Len(redisLog)
<1>1. /\ n \in Nat /\ DOMAIN redisLog = 1..n /\ DOMAIN redisLog' = 1..(n + 1)
      /\ redisLog'[n + 1] = e /\ \A k \in 1..n : redisLog'[k] = redisLog[k]
  BY DEF TypeOK
<1> HIDE DEF n
<1>2. Logged' = Logged \cup {e}
  <2>1. \A k \in 1..(n + 1) : k \in 1..n \/ k = n + 1
    BY <1>1
  <2>2. n + 1 \in 1..(n + 1) /\ \A k \in 1..n : k \in 1..(n + 1)
    BY <1>1
  <2> QED BY <1>1, <2>1, <2>2 DEF Logged
<1>3. ASSUME NEW f, NEW g, Before(redisLog, f, g) PROVE Before(redisLog', f, g)
  <2>1. PICK k, l \in 1..n : k < l /\ redisLog[k] = f /\ redisLog[l] = g
    BY <1>1, <1>3 DEF Before
  <2>2. /\ k \in 1..(n + 1) /\ l \in 1..(n + 1)
        /\ redisLog'[k] = f /\ redisLog'[l] = g
    BY <1>1, <2>1
  <2> QED BY <1>1, <2>1, <2>2 DEF Before
<1>4. ASSUME NEW f \in Logged PROVE Before(redisLog', f, e)
  <2>1. PICK k \in 1..n : redisLog[k] = f
    BY <1>1 DEF Logged
  <2>2. k \in 1..(n + 1) /\ n + 1 \in 1..(n + 1) /\ k < n + 1 /\ redisLog'[k] = f
    BY <1>1, <2>1
  <2> QED BY <1>1, <2>2 DEF Before
<1> QED BY <1>2, <1>3, <1>4

(* The listener sends what is due; other broadcasts send webhooks only.    *)
LEMMA SendTextOrder ==
  ASSUME IInv, OInv, NEW r \in Runners, NEW c \in Conns, SendText(r, c)
  PROVE  OInv'
<1> DEFINE ch == Head(cast[r].channels)  x == <<ch, cast[r].event>>
<1>1. /\ cast[r] # Idle /\ c \in cast[r].left /\ cast[r] \in Cast /\ CastOK(r)
      /\ ch \in ChannelsOf(r) /\ TypeOK
  BY ChannelFacts DEF SendText, IInv, CastsOK
<1>2. UNCHANGED <<redisLog, buffer, redisOnline>>
  BY DEF SendText, feed, source
<1>3. cast'[Listener] # Idle =>
        cast[Listener] # Idle /\ cast'[Listener].event = cast[Listener].event
  <2>1. \/ cast' = [cast EXCEPT ![r] = [cast[r] EXCEPT !.left = @ \ {c}]]
        \/ cast' = [cast EXCEPT ![r] = [cast[r] EXCEPT !.left = @ \ {c}, !.dead = @ \cup {c}]]
    BY DEF SendText
  <2>2. CASE r = Listener
    <3>1. cast'[r].event = cast[r].event
      <4>1. \/ cast'[r] = [cast[r] EXCEPT !.left = @ \ {c}]
            \/ cast'[r] = [cast[r] EXCEPT !.left = @ \ {c}, !.dead = @ \cup {c}]
        BY <1>1, <2>1 DEF TypeOK
      <4> QED BY <1>1, <4>1 DEF Cast
    <3> QED BY <1>1, <2>2, <3>1
  <2>3. CASE r # Listener
    BY <1>1, <2>1, <2>3 DEF TypeOK, Runners
  <2> QED BY <2>2, <2>3
<1>4. CASE UNCHANGED inbox
  BY <1>2, <1>3, <1>4, OrderUntouched
<1>5. CASE inbox' = [inbox EXCEPT ![c] = Append(inbox[c], x)]
  <2> SUFFICES ASSUME redisOnline PROVE OInv'
    BY <1>2 DEF OInv, OrderOK, SentInOrder
  <2> DEFINE n == Len(inbox[c])
  <2>1. /\ n \in Nat /\ DOMAIN inbox[c] = 1..n /\ DOMAIN inbox'[c] = 1..(n + 1)
        /\ inbox'[c][n + 1] = x /\ \A k \in 1..n : inbox'[c][k] = inbox[c][k]
        /\ \A d \in Conns : d # c => inbox'[d] = inbox[d]
    <3>1. inbox'[c] = Append(inbox[c], x)
      BY <1>1, <1>5 DEF TypeOK
    <3>2. inbox[c] \in Seq({"alerts", "map", "notes", "direct"} \X Events)
      BY <1>1 DEF TypeOK
    <3> QED BY <1>1, <1>5, <3>1, <3>2 DEF TypeOK
  <2> HIDE DEF n
  <2>2. /\ \A d \in Conns : d # c => Sent(d)' = Sent(d)
        /\ Sent(c)' \subseteq Sent(c) \cup {x}
    <3>1. \A k \in DOMAIN inbox'[c] : inbox'[c][k] \in Sent(c) \cup {x}
      <4>1. \A k \in 1..(n + 1) : k \in 1..n \/ k = n + 1
        BY <2>1
      <4> HIDE DEF x
      <4> QED BY <2>1, <4>1 DEF Sent
    <3> QED BY <2>1, <3>1 DEF Sent
  <2>3. ch # "direct" => r = Listener
    <3>1. CASE cast[r].channels = <<"direct">>
      BY <3>1
    <3>2. listener # "fallback"
      BY DEF IInv, ListenerOK
    <3> QED BY <1>1, <3>1, <3>2 DEF CastOK
  <2>4. \A e \in Forwarded' : e \in Forwarded \/ (r = Listener /\ e = cast[Listener].event)
    <3>1. ASSUME NEW e \in Forwarded'
          PROVE  e \in Forwarded \/ (r = Listener /\ e = cast[Listener].event)
      <4>1. PICK d \in Conns : \E y \in Sent(d)' : y[1] # "direct" /\ y[2] = e
        BY <3>1 DEF Forwarded
      <4>2. PICK y \in Sent(d)' : y[1] # "direct" /\ y[2] = e
        BY <4>1
      <4>3. y \in Sent(d) \/ y = x
        BY <2>2
      <4>4. CASE y \in Sent(d)
        <5>1. e \in Events
          BY <3>1 DEF Forwarded
        <5> QED BY <4>1, <4>2, <4>4, <5>1 DEF Forwarded
      <4>5. CASE y = x
        <5>1. y[1] = ch /\ y[2] = cast[r].event
          BY <4>5
        <5> QED BY <2>3, <4>2, <5>1
      <4> QED BY <4>3, <4>4, <4>5
    <3> QED BY <3>1
  <2>5. /\ Waiting' = Waiting /\ Logged' = Logged
    BY <1>2 DEF Waiting, Logged
  <2>6. OrderOK'
    <3>1. /\ Forwarded' \cup Waiting' \subseteq Logged'
          /\ \A e \in Forwarded', f \in Waiting' : Before(redisLog', e, f)
      BY <1>2, <1>1, <2>4, <2>5 DEF OInv, OrderOK
    <3>2. ASSUME cast'[Listener] # Idle
          PROVE  /\ cast'[Listener].event \in Logged'
                 /\ \A f \in Waiting' : Before(redisLog', cast'[Listener].event, f)
                 /\ \A e \in Forwarded' : \/ e = cast'[Listener].event
                                          \/ Before(redisLog', e, cast'[Listener].event)
      BY <1>2, <1>3, <2>4, <2>5, <3>2 DEF OInv, OrderOK
    <3>3. \A i, j \in DOMAIN buffer' : i < j => Before(redisLog', buffer'[i], buffer'[j])
      BY <1>2, <2>5 DEF OInv, OrderOK
    <3> QED BY <2>5, <3>1, <3>2, <3>3 DEF OrderOK
  <2>7. SentInOrder'
    <3>1. ASSUME NEW i \in 1..n, inbox[c][i][1] = ch, ch # "direct"
          PROVE  Before(redisLog, inbox[c][i][2], cast[r].event)
      <4> DEFINE y == inbox[c][i]
      <4>1. y \in Sent(c)
        BY <2>1 DEF Sent
      <4>2. y \in {"alerts", "map", "notes", "direct"} \X Events
        BY <1>1, <2>1 DEF TypeOK
      <4>3. y[2] \in Forwarded
        BY <3>1, <4>1, <4>2 DEF Forwarded
      <4>4. y[2] # cast[r].event
        <5>1. x \notin Sent(c)
          BY <1>1 DEF CastOK
        <5>2. y = <<y[1], y[2]>>
          BY <4>2
        <5> QED BY <3>1, <4>1, <5>1, <5>2
      <4> QED BY <1>1, <2>3, <3>1, <4>3, <4>4 DEF OInv, OrderOK
    <3>2. ASSUME NEW i \in 1..(n + 1), NEW j \in 1..(n + 1), i < j,
                 inbox'[c][i][1] = inbox'[c][j][1], inbox'[c][i][1] # "direct"
          PROVE  Before(redisLog', inbox'[c][i][2], inbox'[c][j][2])
      <4>1. CASE j = n + 1
        <5>1. i \in 1..n /\ inbox'[c][i] = inbox[c][i] /\ inbox'[c][j] = x
          BY <2>1, <3>2, <4>1
        <5>2. x[1] = ch /\ x[2] = cast[r].event
          OBVIOUS
        <5>3. Before(redisLog, inbox[c][i][2], cast[r].event)
          BY <3>1, <3>2, <5>1, <5>2
        <5> QED BY <1>2, <2>5, <5>1, <5>2, <5>3
      <4>2. CASE j \in 1..n
        <5>1. i \in 1..n /\ inbox'[c][i] = inbox[c][i] /\ inbox'[c][j] = inbox[c][j]
          BY <2>1, <3>2, <4>2
        <5> QED BY <1>2, <2>1, <2>5, <3>2, <4>2, <5>1 DEF OInv, SentInOrder
      <4> QED BY <2>1, <4>1, <4>2
    <3>3. ASSUME NEW d \in Conns, d # c, NEW i \in DOMAIN inbox'[d], NEW j \in DOMAIN inbox'[d],
                 i < j, inbox'[d][i][1] = inbox'[d][j][1], inbox'[d][i][1] # "direct"
          PROVE  Before(redisLog', inbox'[d][i][2], inbox'[d][j][2])
      <4>1. inbox'[d] = inbox[d]
        BY <2>1, <3>3
      <4> QED BY <1>2, <2>5, <3>3, <4>1 DEF OInv, SentInOrder
    <3>4. \A d \in Conns : \A i, j \in DOMAIN inbox'[d] :
            i < j /\ inbox'[d][i][1] = inbox'[d][j][1] /\ inbox'[d][i][1] # "direct"
              => Before(redisLog', inbox'[d][i][2], inbox'[d][j][2])
      BY <2>1, <3>2, <3>3
    <3> QED BY <3>4 DEF SentInOrder
  <2> QED BY <2>6, <2>7 DEF OInv
<1>6. UNCHANGED inbox \/ inbox' = [inbox EXCEPT ![c] = Append(inbox[c], x)]
  BY DEF SendText
<1> QED BY <1>4, <1>5, <1>6

(* Redis accepts an event, which follows all it accepted before.           *)
LEMMA PublishRedisOrder ==
  ASSUME IInv, OInv, NEW e \in Events, PublishRedis(e)
  PROVE  OInv'
<1>1. /\ UNCHANGED <<redisOnline, cast, inbox>> /\ e \in halfway /\ TypeOK
      /\ \/ UNCHANGED <<redisLog, buffer>>
         \/ /\ redisLog' = Append(redisLog, e)
            /\ (UNCHANGED buffer \/ buffer' = Append(buffer, e))
  BY DEF PublishRedis, sockets, IInv
<1>2. CASE UNCHANGED <<redisLog, buffer>>
  BY <1>1, <1>2, OrderUntouched
<1>3. CASE redisLog' = Append(redisLog, e)
  <2> SUFFICES ASSUME redisOnline PROVE OInv'
    BY <1>1 DEF OInv, OrderOK, SentInOrder
  <2>1. /\ Logged' = Logged \cup {e}
        /\ \A f, g : Before(redisLog, f, g) => Before(redisLog', f, g)
        /\ \A f \in Logged : Before(redisLog', f, e)
    BY <1>1, <1>3, LogGrows
  <2>2. Forwarded' = Forwarded
    BY <1>1 DEF Forwarded, Sent
  <2>3. UNCHANGED buffer \/ buffer' = Append(buffer, e)
    BY <1>1, <1>3
  <2>4. /\ \A k \in DOMAIN buffer : buffer[k] \in Waiting
        /\ Waiting \subseteq Logged /\ Forwarded \subseteq Logged
    BY DEF Waiting, OInv, OrderOK
  <2>5. /\ Waiting' \subseteq Waiting \cup {e}
        /\ \A i, j \in DOMAIN buffer' : i < j => Before(redisLog', buffer'[i], buffer'[j])
    <3>1. CASE UNCHANGED buffer
      BY <2>1, <3>1 DEF Waiting, OInv, OrderOK
    <3>2. CASE buffer' = Append(buffer, e)
      <4> DEFINE n == Len(buffer)
      <4>1. /\ n \in Nat /\ DOMAIN buffer = 1..n /\ DOMAIN buffer' = 1..(n + 1)
            /\ buffer'[n + 1] = e /\ \A k \in 1..n : buffer'[k] = buffer[k]
        BY <1>1, <3>2 DEF TypeOK
      <4> HIDE DEF n
      <4>2. \A k \in 1..(n + 1) : k \in 1..n \/ k = n + 1
        BY <4>1
      <4>3. \A k \in DOMAIN buffer' : buffer'[k] \in Waiting \cup {e}
        BY <2>4, <4>1, <4>2
      <4>4. Waiting' \subseteq Waiting \cup {e}
        BY <4>3 DEF Waiting
      <4>5. ASSUME NEW i \in 1..(n + 1), NEW j \in 1..(n + 1), i < j
            PROVE  Before(redisLog', buffer'[i], buffer'[j])
        <5>1. i \in 1..n /\ buffer'[i] = buffer[i] /\ i \in DOMAIN buffer
          BY <4>1, <4>5
        <5>2. CASE j = n + 1
          BY <2>1, <2>4, <4>1, <5>1, <5>2
        <5>3. CASE j \in 1..n
          <6>1. Before(redisLog, buffer[i], buffer[j])
            BY <4>1, <4>5, <5>1, <5>3 DEF OInv, OrderOK
          <6> QED BY <2>1, <4>1, <5>1, <5>3, <6>1
        <5> QED BY <4>2, <5>2, <5>3
      <4> QED BY <4>1, <4>4, <4>5
    <3> QED BY <2>3, <3>1, <3>2
  <2>6. \A f \in Forwarded, g \in Waiting' : Before(redisLog', f, g)
    BY <2>1, <2>4, <2>5 DEF OInv, OrderOK
  <2>7. ASSUME cast[Listener] # Idle
        PROVE  /\ cast[Listener].event \in Logged'
               /\ \A g \in Waiting' : Before(redisLog', cast[Listener].event, g)
               /\ \A f \in Forwarded : \/ f = cast[Listener].event
                                       \/ Before(redisLog', f, cast[Listener].event)
    BY <2>1, <2>5, <2>7 DEF OInv, OrderOK
  <2>8. OrderOK'
    BY <1>1, <2>1, <2>2, <2>4, <2>5, <2>6, <2>7 DEF OrderOK
  <2>9. SentInOrder'
    BY <1>1, <2>1 DEF OInv, SentInOrder
  <2> QED BY <2>8, <2>9 DEF OInv
<1> QED BY <1>1, <1>2, <1>3

(* Before the first subscription, no connection was sent a Redis signal.   *)
LEMMA SubscribeOrder ==
  ASSUME IInv, OInv, Subscribe
  PROVE  OInv'
<1>1. /\ UNCHANGED <<redisLog, cast, inbox>> /\ cast[Listener] = Idle
      /\ buffer = <<>> /\ buffer' = <<>> /\ listener # "fallback"
  BY DEF Subscribe, source, sockets, IInv, ListenerOK, Online
<1>2. CASE redisOnline
  BY <1>1, <1>2, OrderUntouched DEF Subscribe
<1>3. CASE ~redisOnline
  <2>1. \A c \in Conns : \A z \in Sent(c) : z[1] = "direct"
    BY <1>1, <1>3 DEF IInv, InboxOK
  <2>2. Forwarded' = {} /\ Waiting' = {}
    BY <1>1, <2>1 DEF Forwarded, Waiting, Sent
  <2>3. OrderOK'
    BY <1>1, <2>2 DEF OrderOK
  <2>4. \A c \in Conns : \A i \in DOMAIN inbox[c] : inbox[c][i][1] = "direct"
    BY <2>1 DEF Sent
  <2>5. SentInOrder'
    BY <1>1, <2>4 DEF SentInOrder
  <2> QED BY <2>3, <2>5 DEF OInv
<1> QED BY <1>2, <1>3

(* What was not handled is lost, and nothing else is.                      *)
LEMMA RecoverOrder ==
  ASSUME IInv, OInv, SubscribeFails \/ ListenFails
  PROVE  OInv'
<1>1. /\ UNCHANGED <<redisLog, redisOnline, cast, inbox>>
      /\ cast[Listener] = Idle /\ buffer' = <<>>
  BY DEF SubscribeFails, ListenFails, source, sockets, IInv, ListenerOK, Online
<1>2. Waiting' = {} /\ Forwarded' = Forwarded /\ Logged' = Logged
  BY <1>1 DEF Waiting, Forwarded, Sent, Logged
<1>3. OrderOK'
  BY <1>1, <1>2 DEF OInv, OrderOK
<1>4. SentInOrder'
  BY <1>1 DEF OInv, SentInOrder
<1> QED BY <1>3, <1>4 DEF OInv

(* The oldest message goes from the buffer to the listener's broadcast.    *)
LEMMA TakeMessageOrder ==
  ASSUME IInv, OInv, TakeMessage
  PROVE  OInv'
<1> DEFINE n == Len(buffer)  e == buffer[1]
<1>1. /\ UNCHANGED <<redisLog, redisOnline, inbox>> /\ TypeOK /\ redisOnline
      /\ cast[Listener] = Idle /\ buffer # <<>> /\ buffer' = Tail(buffer)
  BY DEF TakeMessage, source, sockets, IInv, ListenerOK, Online
<1>2. /\ n \in Nat \ {0} /\ DOMAIN buffer = 1..n /\ DOMAIN buffer' = 1..(n - 1)
      /\ \A k \in 1..(n - 1) : buffer'[k] = buffer[k + 1]
      /\ Head(buffer) = e
  BY <1>1, EmptySeq DEF TypeOK
<1>3. cast'[Listener].event = e
  BY <1>1, <1>2 DEF TakeMessage, TypeOK, NewCast, Runners
<1> HIDE DEF n, e
<1>4. /\ e \in Waiting
      /\ \A k \in 1..(n - 1) : k + 1 \in 1..n /\ Before(redisLog, e, buffer[k + 1])
  BY <1>1, <1>2 DEF OInv, OrderOK, Waiting, e
<1>5. /\ Waiting' \subseteq Waiting
      /\ \A f \in Waiting' : Before(redisLog, e, f)
  <2>1. ASSUME NEW f \in Waiting' PROVE f \in Waiting /\ Before(redisLog, e, f)
    <3>1. PICK k \in 1..(n - 1) : f = buffer'[k]
      BY <1>2, <2>1 DEF Waiting
    <3>2. f = buffer[k + 1] /\ k + 1 \in DOMAIN buffer
      BY <1>2, <1>4, <3>1
    <3> QED BY <1>4, <3>1, <3>2 DEF Waiting
  <2> QED BY <2>1
<1>6. Forwarded' = Forwarded /\ Logged' = Logged
  BY <1>1 DEF Forwarded, Sent, Logged
<1>7. ASSUME NEW i \in 1..(n - 1), NEW j \in 1..(n - 1), i < j
      PROVE  Before(redisLog, buffer'[i], buffer'[j])
  <2>1. i + 1 \in 1..n /\ j + 1 \in 1..n /\ i + 1 < j + 1
    BY <1>2, <1>7
  <2>2. Before(redisLog, buffer[i + 1], buffer[j + 1])
    BY <1>1, <1>2, <2>1 DEF OInv, OrderOK
  <2> QED BY <1>2, <2>2
<1>8. /\ Forwarded \cup Waiting \subseteq Logged
      /\ \A f \in Forwarded, g \in Waiting : Before(redisLog, f, g)
  BY <1>1 DEF OInv, OrderOK
<1>9. OrderOK'
  BY <1>1, <1>2, <1>3, <1>4, <1>5, <1>6, <1>7, <1>8 DEF OrderOK
<1>10. SentInOrder'
  BY <1>1 DEF OInv, SentInOrder
<1> QED BY <1>9, <1>10 DEF OInv

LEMMA OrderStep == IInv /\ OInv /\ [Next]_vars => OInv'
<1> SUFFICES ASSUME IInv, OInv, [Next]_vars PROVE OInv'
  OBVIOUS
<1> DEFINE Same == /\ UNCHANGED <<redisLog, buffer, inbox, redisOnline>>
                   /\ \/ cast'[Listener] = Idle
                      \/ /\ cast[Listener] # Idle
                         /\ cast'[Listener].event = cast[Listener].event
<1>1. ASSUME Same PROVE OInv'
  BY <1>1, OrderUntouched
<1>2. ASSUME UNCHANGED <<redisLog, buffer, inbox, redisOnline, cast>> PROVE OInv'
  BY <1>1, <1>2
<1>3. ASSUME NEW r \in Runners, Deliver(r) PROVE OInv'
  <2>1. CASE Snapshot(r)
    <3>1. UNCHANGED <<redisLog, buffer, inbox, redisOnline>> /\ cast[r] # Idle /\ TypeOK
      BY <2>1 DEF Snapshot, feed, sockets, source, IInv
    <3>2. cast'[r].event = cast[r].event /\ \A q \in Runners : q # r => cast'[q] = cast[q]
      <4>1. cast[r] \in Cast
        BY <3>1 DEF TypeOK
      <4>2. cast' = [cast EXCEPT ![r] = [cast[r] EXCEPT !.sending = TRUE, !.left = Active,
                                                        !.dead = {}]]
        BY <2>1 DEF Snapshot
      <4>3. /\ cast'[r] = [cast[r] EXCEPT !.sending = TRUE, !.left = Active, !.dead = {}]
            /\ \A q \in Runners : q # r => cast'[q] = cast[q]
        BY <3>1, <4>2 DEF TypeOK
      <4> QED BY <4>1, <4>3 DEF Cast
    <3>3. Listener \in Runners
      BY DEF Runners
    <3> QED BY <1>1, <3>1, <3>2, <3>3
  <2>2. CASE EndChannel(r)
    <3>1. UNCHANGED <<redisLog, buffer, inbox, redisOnline>> /\ cast[r] # Idle /\ TypeOK
      BY <2>2 DEF EndChannel, feed, source, IInv
    <3>2. /\ \/ cast'[r] = Idle
             \/ cast'[r].event = cast[r].event
          /\ \A q \in Runners : q # r => cast'[q] = cast[q]
      BY <2>2, <3>1 DEF EndChannel, NewCast, TypeOK
    <3>3. Listener \in Runners
      BY DEF Runners
    <3> QED BY <1>1, <3>1, <3>2, <3>3
  <2>3. ASSUME NEW c \in Conns, SendText(r, c) PROVE OInv'
    BY <2>3, SendTextOrder
  <2> QED BY <1>3, <2>1, <2>2, <2>3 DEF Deliver
<1>4. ASSUME NEW c \in Conns, Connect(c) \/ PeerLeaves(c) \/ Disconnect(c) PROVE OInv'
  BY <1>2, <1>4 DEF Connect, PeerLeaves, Disconnect, feed, source
<1>5. ASSUME NEW s \in Streams, OpenStream(s) \/ YieldEvent(s) \/ CloseStream(s) PROVE OInv'
  BY <1>2, <1>5 DEF OpenStream, YieldEvent, CloseStream, feed, sockets, source
<1>6. ASSUME NEW e \in Events, PublishMemory(e) \/ ReceiveWebhook(e) PROVE OInv'
  <2>1. UNCHANGED <<redisLog, buffer, inbox, redisOnline>>
    BY <1>6 DEF PublishMemory, ReceiveWebhook, feed, sockets
  <2>2. cast'[Listener] = cast[Listener]
    BY <1>6, ListenerAssumption DEF PublishMemory, ReceiveWebhook, IInv, TypeOK, Runners
  <2> QED BY <1>1, <2>1, <2>2
<1>7. ASSUME NEW e \in Events, PublishElsewhere(e) PROVE OInv'
  BY <1>2, <1>7 DEF PublishElsewhere, feed, sockets
<1>8. ASSUME NEW e \in Events, PublishRedis(e) PROVE OInv'
  BY <1>8, PublishRedisOrder
<1>9. ASSUME RedisDown \/ RedisReturns \/ WakeUp \/ UNCHANGED vars PROVE OInv'
  BY <1>2, <1>9 DEF RedisDown, RedisReturns, WakeUp, vars, feed, sockets, source
<1>10. ASSUME Listen PROVE OInv'
  BY <1>9, <1>10, SubscribeOrder, RecoverOrder, TakeMessageOrder DEF Listen
<1> QED BY <1>3, <1>4, <1>5, <1>6, <1>7, <1>8, <1>9, <1>10 DEF Next

LEMMA OrderInit == Init => OInv
BY DEF Init, OInv, OrderOK, SentInOrder

(* As long as Redis feeds the listener, every connection gets the signals  *)
(* of a channel in the order in which Redis accepted them: the listener's  *)
(* buffer is handled from its front, one broadcast after the other         *)
(* (redis_listener_task).                                                  *)
THEOREM SentInOrderOfRedis == Spec => []RedisOrderKept
<1>1. OInv => RedisOrderKept
  BY DEF OInv, SentInOrder, Before, RedisOrderKept, Precedes
<1> QED BY <1>1, OrderInit, OrderStep, Invariant, PTL DEF Spec

-----------------------------------------------------------------------------
(* A stream sent, and has in its queue, what was published since it opened. *)
Continues(a, b, m, k) ==
  /\ k + Len(a) + Len(b) = Len(m)
  /\ \A i \in 1..Len(a) : a[i] = m[k + i]
  /\ \A i \in 1..Len(b) : b[i] = m[k + Len(a) + i]
StreamOK(s) == Continues(got[s], queue[s], memLog, since[s])
StreamsOK ==
  \A s \in Streams : /\ sse[s] = "new" => got[s] = <<>> /\ queue[s] = <<>>
                     /\ sse[s] = "open" => StreamOK(s)

LEMMA StreamsUntouched ==
  ASSUME StreamsOK, UNCHANGED <<sse, queue, got, since, memLog>> PROVE StreamsOK'
BY DEF StreamsOK, StreamOK, Continues

LEMMA OpenStreamOK ==
  ASSUME TypeOK, StreamsOK, NEW s \in Streams, OpenStream(s) PROVE StreamsOK'
<1>1. /\ UNCHANGED <<queue, got, memLog>> /\ sse[s] = "new"
      /\ sse'[s] = "open" /\ since'[s] = Len(memLog)
      /\ \A t \in Streams : t # s => sse'[t] = sse[t] /\ since'[t] = since[t]
  BY DEF OpenStream, source, TypeOK
<1>2. StreamOK(s)'
  <2>1. got[s] = <<>> /\ queue[s] = <<>>
    BY <1>1 DEF StreamsOK
  <2>2. Len(memLog) \in Nat
    BY DEF TypeOK
  <2> QED BY <1>1, <2>1, <2>2 DEF StreamOK, Continues
<1>3. ASSUME NEW t \in Streams, t # s
      PROVE  /\ sse'[t] = "new" => got'[t] = <<>> /\ queue'[t] = <<>>
             /\ sse'[t] = "open" => StreamOK(t)'
  BY <1>1, <1>3 DEF StreamsOK, StreamOK, Continues
<1> QED BY <1>1, <1>2, <1>3 DEF StreamsOK

LEMMA YieldEventOK ==
  ASSUME TypeOK, StreamsOK, NEW s \in Streams, YieldEvent(s) PROVE StreamsOK'
<1>1. /\ UNCHANGED <<sse, since, memLog>> /\ sse[s] = "open" /\ queue[s] # <<>>
      /\ queue'[s] = Tail(queue[s]) /\ got'[s] = Append(got[s], Head(queue[s]))
      /\ \A t \in Streams : t # s => queue'[t] = queue[t] /\ got'[t] = got[t]
  BY DEF YieldEvent, source, TypeOK
<1>2. StreamOK(s)'
  <2> DEFINE g == Len(got[s])  q == Len(queue[s])
  <2>1. queue[s] \in Seq(Events) /\ got[s] \in Seq(Events) /\ since[s] \in Nat
    BY DEF TypeOK
  <2>2. /\ g \in Nat /\ q \in Nat \ {0}
        /\ Len(queue'[s]) = q - 1 /\ Head(queue[s]) = queue[s][1]
        /\ \A i \in 1..(q - 1) : queue'[s][i] = queue[s][i + 1]
    BY <1>1, <2>1, EmptySeq, HeadTailProperties
  <2>3. /\ Len(got'[s]) = g + 1 /\ got'[s][g + 1] = Head(queue[s])
        /\ \A i \in 1..g : got'[s][i] = got[s][i]
    BY <1>1, <2>1
  <2>4. StreamOK(s)
    BY <1>1 DEF StreamsOK
  <2>5. queue[s][1] = memLog[since[s] + (g + 1)]
    <3>1. 1 \in 1..q /\ since[s] + g + 1 = since[s] + (g + 1)
      BY <2>1, <2>2
    <3> QED BY <2>4, <3>1 DEF StreamOK, Continues
  <2>6. ASSUME NEW i \in 1..(g + 1) PROVE got'[s][i] = memLog[since[s] + i]
    <3>1. CASE i = g + 1
      BY <2>2, <2>3, <2>5, <3>1
    <3>2. CASE i \in 1..g
      BY <2>3, <2>4, <3>2 DEF StreamOK, Continues
    <3> QED BY <2>2, <3>1, <3>2
  <2>7. ASSUME NEW i \in 1..(q - 1)
        PROVE  queue'[s][i] = memLog[since[s] + (g + 1) + i]
    <3>1. i + 1 \in 1..q /\ since[s] + g + (i + 1) = since[s] + (g + 1) + i
      <4>1. g \in Nat /\ q \in Nat \ {0} /\ since[s] \in Nat
        BY <2>1, <2>2
      <4> HIDE DEF g, q
      <4> QED BY <4>1
    <3>2. queue[s][i + 1] = memLog[since[s] + g + (i + 1)]
      BY <2>4, <3>1 DEF StreamOK, Continues
    <3> QED BY <2>2, <3>1, <3>2
  <2>8. since[s] + (g + 1) + (q - 1) = Len(memLog)
    <3>1. since[s] + g + q = Len(memLog)
      BY <2>4 DEF StreamOK, Continues
    <3>2. since[s] \in Nat /\ g \in Nat /\ q \in Nat
      BY <2>1, <2>2
    <3> HIDE DEF g, q
    <3> QED BY <3>1, <3>2
  <2> HIDE DEF g, q
  <2> QED BY <1>1, <2>2, <2>3, <2>6, <2>7, <2>8 DEF StreamOK, Continues
<1>3. ASSUME NEW t \in Streams, t # s
      PROVE  /\ sse'[t] = "new" => got'[t] = <<>> /\ queue'[t] = <<>>
             /\ sse'[t] = "open" => StreamOK(t)'
  BY <1>1, <1>3 DEF StreamsOK, StreamOK, Continues
<1> QED BY <1>1, <1>2, <1>3 DEF StreamsOK

LEMMA CloseStreamOK ==
  ASSUME TypeOK, StreamsOK, NEW s \in Streams, CloseStream(s) PROVE StreamsOK'
<1>1. /\ UNCHANGED <<queue, got, since, memLog>> /\ sse'[s] \in {"closed", "leaked"}
      /\ \A t \in Streams : t # s => sse'[t] = sse[t]
  BY DEF CloseStream, source, TypeOK
<1> QED BY <1>1 DEF StreamsOK, StreamOK, Continues

LEMMA PublishMemoryOK ==
  ASSUME TypeOK, StreamsOK, NEW e \in Events, PublishMemory(e) PROVE StreamsOK'
<1>1. UNCHANGED <<sse, got, since>> /\ memLog' = Append(memLog, e) /\ queue' = Offered(e)
  BY DEF PublishMemory
<1>2. /\ Len(memLog) \in Nat /\ Len(memLog') = Len(memLog) + 1
      /\ memLog'[Len(memLog) + 1] = e
      /\ \A i \in 1..Len(memLog) : memLog'[i] = memLog[i]
  BY <1>1 DEF TypeOK
<1>3. ASSUME NEW s \in Streams, sse[s] = "new" PROVE got'[s] = <<>> /\ queue'[s] = <<>>
  BY <1>1, <1>3 DEF StreamsOK, Offered, Subscribed
<1>4. ASSUME NEW s \in Streams, sse[s] = "open" PROVE StreamOK(s)'
  <2> DEFINE g == Len(got[s])  q == Len(queue[s])
  <2>1. /\ queue[s] \in Seq(Events) /\ got[s] \in Seq(Events) /\ since[s] \in Nat
        /\ g \in Nat /\ q \in Nat
    BY DEF TypeOK
  <2>2. queue'[s] = Append(queue[s], e)
    BY <1>1, <1>4 DEF Offered, Subscribed
  <2>3. /\ Len(queue'[s]) = q + 1 /\ queue'[s][q + 1] = e
        /\ \A i \in 1..q : queue'[s][i] = queue[s][i]
    BY <2>1, <2>2
  <2>4. StreamOK(s)
    BY <1>4 DEF StreamsOK
  <2>5. since[s] + g + q = Len(memLog)
    BY <2>4 DEF StreamOK, Continues
  <2>6. ASSUME NEW i \in 1..g PROVE got[s][i] = memLog'[since[s] + i]
    <3>1. since[s] + i \in 1..Len(memLog)
      BY <1>2, <2>1, <2>5
    <3> QED BY <1>2, <2>4, <3>1 DEF StreamOK, Continues
  <2>7. ASSUME NEW i \in 1..(q + 1)
        PROVE  queue'[s][i] = memLog'[since[s] + g + i]
    <3>1. CASE i = q + 1
      <4>1. since[s] + g + i = Len(memLog) + 1
        <5>1. g \in Nat /\ q \in Nat /\ since[s] \in Nat
          BY <2>1
        <5> HIDE DEF g, q
        <5> QED BY <2>5, <3>1, <5>1
      <4> QED BY <1>2, <2>3, <3>1, <4>1
    <3>2. CASE i \in 1..q
      <4>1. since[s] + g + i \in 1..Len(memLog)
        BY <1>2, <2>1, <2>5, <3>2
      <4> QED BY <1>2, <2>3, <2>4, <3>2, <4>1 DEF StreamOK, Continues
    <3> QED BY <2>1, <3>1, <3>2
  <2>8. since[s] + g + (q + 1) = Len(memLog')
    BY <1>2, <2>1, <2>5
  <2> HIDE DEF q
  <2> QED BY <1>1, <2>3, <2>6, <2>7, <2>8 DEF StreamOK, Continues
<1> QED BY <1>1, <1>3, <1>4 DEF StreamsOK

LEMMA StreamsStep == TypeOK /\ StreamsOK /\ [Next]_vars => StreamsOK'
<1> SUFFICES ASSUME TypeOK, StreamsOK, [Next]_vars PROVE StreamsOK'
  OBVIOUS
<1>1. ASSUME NEW r \in Runners, Deliver(r) PROVE StreamsOK'
  <2>1. UNCHANGED <<sse, queue, got, since, memLog>>
    BY <1>1 DEF Deliver, Snapshot, EndChannel, SendText, streams, source
  <2> QED BY <2>1, StreamsUntouched
<1>2. ASSUME NEW c \in Conns, Connect(c) \/ PeerLeaves(c) \/ Disconnect(c) PROVE StreamsOK'
  <2>1. UNCHANGED <<sse, queue, got, since, memLog>>
    BY <1>2 DEF Connect, PeerLeaves, Disconnect, streams, source
  <2> QED BY <2>1, StreamsUntouched
<1>3. ASSUME NEW s \in Streams, OpenStream(s) \/ YieldEvent(s) \/ CloseStream(s)
      PROVE StreamsOK'
  BY <1>3, OpenStreamOK, YieldEventOK, CloseStreamOK
<1>4. ASSUME NEW e \in Events, \/ PublishMemory(e) \/ ReceiveWebhook(e)
                               \/ PublishElsewhere(e) \/ PublishRedis(e)
      PROVE StreamsOK'
  <2>1. CASE PublishMemory(e)
    BY <2>1, PublishMemoryOK
  <2>2. CASE ReceiveWebhook(e) \/ PublishElsewhere(e) \/ PublishRedis(e)
    <3>1. UNCHANGED <<sse, queue, got, since, memLog>>
      BY <2>2 DEF ReceiveWebhook, PublishElsewhere, PublishRedis, streams
    <3> QED BY <3>1, StreamsUntouched
  <2> QED BY <1>4, <2>1, <2>2
<1>5. ASSUME RedisDown \/ RedisReturns \/ Listen \/ UNCHANGED vars PROVE StreamsOK'
  <2>1. UNCHANGED <<sse, queue, got, since, memLog>>
    <3>1. CASE RedisDown \/ RedisReturns \/ UNCHANGED vars
      BY <3>1 DEF RedisDown, RedisReturns, vars, streams, source
    <3>2. CASE Listen
      BY <3>2 DEF Listen, Subscribe, SubscribeFails, ListenFails, WakeUp, TakeMessage,
                  streams, source
    <3> QED BY <1>5, <3>1, <3>2
  <2> QED BY <2>1, StreamsUntouched
<1> QED BY <1>1, <1>2, <1>3, <1>4, <1>5 DEF Next

LEMMA ConcatIsSubSeq ==
  ASSUME NEW S, NEW a \in Seq(S), NEW b \in Seq(S), NEW m \in Seq(S), NEW k \in Nat,
         Continues(a, b, m, k)
  PROVE  a \o b = SubSeq(m, k + 1, Len(m))
<1> DEFINE g == Len(a)  q == Len(b)  n == Len(m)
           c == a \o b  d == SubSeq(m, k + 1, n)
<1>1. g \in Nat /\ q \in Nat /\ n \in Nat /\ k + g + q = n
  BY LenProperties DEF Continues
<1>2. /\ c \in Seq(S) /\ Len(c) = g + q
      /\ \A i \in 1..(g + q) : c[i] = IF i <= g THEN a[i] ELSE b[i - g]
  BY ConcatProperties
<1>3. /\ d \in Seq(S) /\ Len(d) = IF k + 1 <= n THEN n - (k + 1) + 1 ELSE 0
      /\ \A i \in 1..(n - (k + 1) + 1) : d[i] = m[(k + 1) + i - 1]
  <2>1. \A i \in (k + 1)..n : m[i] \in S
    <3>1. \A i \in (k + 1)..n : i \in 1..n
      <4> HIDE DEF n
      <4> QED BY <1>1
    <3>2. \A i \in 1..n : m[i] \in S
      BY ElementOfSeq
    <3> QED BY <3>1, <3>2
  <2>2. k + 1 \in Int /\ n \in Int
    BY <1>1
  <2> HIDE DEF n
  <2> QED BY <2>1, <2>2, SubSeqProperties
<1>4. \A i \in 1..g : a[i] = m[k + i]
  BY DEF Continues
<1>5. \A i \in 1..q : b[i] = m[k + g + i]
  BY DEF Continues
<1> HIDE DEF g, q, n, c, d
<1>6. Len(d) = g + q
  BY <1>1, <1>3
<1>7. ASSUME NEW i \in 1..(g + q) PROVE c[i] = d[i]
  <2>1. i \in 1..(n - (k + 1) + 1) /\ (k + 1) + i - 1 = k + i
    BY <1>1
  <2>2. d[i] = m[k + i]
    BY <1>3, <2>1
  <2>3. CASE i <= g
    <3>1. i \in 1..g
      BY <1>1, <2>3
    <3>2. a[i] = m[k + i]
      BY <1>4, <3>1
    <3> QED BY <1>2, <2>2, <2>3, <3>2
  <2>4. CASE ~(i <= g)
    <3>1. i - g \in 1..q /\ k + g + (i - g) = k + i
      BY <1>1, <2>4
    <3>2. b[i - g] = m[k + g + (i - g)]
      BY <1>5, <3>1
    <3> QED BY <1>2, <2>2, <2>4, <3>1, <3>2
  <2> QED BY <2>3, <2>4
<1>8. c = d
  BY <1>2, <1>3, <1>6, <1>7, SeqEqual
<1> QED BY <1>8 DEF c, d, n

LEMMA StreamsAreExact == TypeOK /\ StreamsOK => StreamIsExact
<1> SUFFICES ASSUME TypeOK, StreamsOK, NEW s \in Streams, sse[s] = "open"
             PROVE  got[s] \o queue[s] = SubSeq(memLog, since[s] + 1, Len(memLog))
  BY DEF StreamIsExact
<1>1. /\ got[s] \in Seq(Events) /\ queue[s] \in Seq(Events) /\ memLog \in Seq(Events)
      /\ since[s] \in Nat
  BY DEF TypeOK
<1>2. Continues(got[s], queue[s], memLog, since[s])
  BY DEF StreamsOK, StreamOK
<1> QED BY <1>1, <1>2, ConcatIsSubSeq

LEMMA StreamsInit == Init => StreamsOK
BY DEF Init, StreamsOK

(* An SSE stream sends exactly what memory_stream published since it was   *)
(* opened: no gap, no repetition, no change of order (MemoryLiveStream,    *)
(* the generator of the SSE endpoint).                                     *)
THEOREM StreamsSendTheLog == Spec => []StreamIsExact
<1>1. Init => IInv /\ StreamsOK
  BY InitInv, StreamsInit
<1>2. IInv => TypeOK
  BY DEF IInv
<1>3. IInv /\ StreamsOK /\ [Next]_vars => StreamsOK'
  BY <1>2, StreamsStep
<1>4. IInv /\ StreamsOK => StreamIsExact
  BY <1>2, StreamsAreExact
<1> QED BY <1>1, <1>3, <1>4, Invariant, PTL DEF Spec
-----------------------------------------------------------------------------
(* Whoever follows the channel that the listener is serving is still one   *)
(* of its targets or was sent the event: a connection that opened after    *)
(* the targets were fixed has got nothing on the channel yet, since        *)
(* nobody else sends on it.                                                *)
Heard(c, ch) == \E z \in Sent(c) : z[1] = ch
Serving == cast[Listener] # Idle /\ cast[Listener].sending
NewHeardNothing == \A c \in Conns : conn[c] = "new" => Sent(c) = {}
NobodyPassedOver ==
  Serving =>
    \A c \in Conns :
      conn[c] = "open" /\ Heard(c, Head(cast[Listener].channels)) =>
        \/ c \in cast[Listener].left
        \/ <<Head(cast[Listener].channels), cast[Listener].event>> \in Sent(c)
PInv == NewHeardNothing /\ NobodyPassedOver

LEMMA ListenerIsRunner == Listener \in Runners
BY DEF Runners

(* Steps that send nothing and leave the listener's broadcast, or that     *)
(* take it out of sending.                                                 *)
LEMMA PassedUntouched ==
  ASSUME PInv, UNCHANGED inbox,
         UNCHANGED cast[Listener] \/ ~Serving',
         \A c \in Conns : /\ conn'[c] = "open" => conn[c] = "open" \/ Sent(c) = {}
                          /\ conn'[c] = "new" => conn[c] = "new"
  PROVE  PInv'
<1>1. \A c \in Conns : Sent(c)' = Sent(c) /\ \A ch : Heard(c, ch)' = Heard(c, ch)
  BY DEF Sent, Heard
<1>2. NewHeardNothing'
  BY <1>1 DEF PInv, NewHeardNothing
<1>3. NobodyPassedOver'
  <2>1. SUFFICES ASSUME UNCHANGED cast[Listener], Serving', NEW c \in Conns, conn'[c] = "open",
                        Heard(c, Head(cast[Listener].channels))'
                 PROVE  \/ c \in cast[Listener].left
                        \/ <<Head(cast[Listener].channels), cast[Listener].event>> \in Sent(c)
    BY <1>1 DEF NobodyPassedOver
  <2>2. Heard(c, Head(cast[Listener].channels)) /\ Serving
    BY <1>1, <2>1 DEF Serving
  <2>3. conn[c] = "open"
    BY <2>1, <2>2 DEF Heard
  <2> QED BY <2>2, <2>3 DEF PInv, NobodyPassedOver
<1> QED BY <1>2, <1>3 DEF PInv

(* What SendText makes of its runner, of the others and of the inboxes.    *)
LEMMA SendTextFacts ==
  ASSUME IInv, NEW r \in Runners, NEW c \in Conns, SendText(r, c)
  PROVE  /\ UNCHANGED conn
         /\ \A q \in Runners : q # r => cast'[q] = cast[q]
         /\ cast'[r].event = cast[r].event /\ cast'[r].channels = cast[r].channels
         /\ cast'[r].sending = cast[r].sending /\ cast'[r].left = cast[r].left \ {c}
         /\ \A d \in Conns : d # c => Sent(d)' = Sent(d)
         /\ IF conn[c] = "open"
            THEN Sent(c)' = Sent(c) \cup {<<Head(cast[r].channels), cast[r].event>>}
            ELSE Sent(c)' = Sent(c)
<1> DEFINE x == <<Head(cast[r].channels), cast[r].event>>
<1>1. TypeOK /\ cast[r] \in Cast
  BY ChannelFacts DEF IInv, SendText
<1>2. /\ UNCHANGED conn
      /\ \/ cast' = [cast EXCEPT ![r] = [cast[r] EXCEPT !.left = @ \ {c}]]
         \/ cast' = [cast EXCEPT ![r] = [cast[r] EXCEPT !.left = @ \ {c}, !.dead = @ \cup {c}]]
  BY DEF SendText
<1>3. /\ \A q \in Runners : q # r => cast'[q] = cast[q]
      /\ \/ cast'[r] = [cast[r] EXCEPT !.left = @ \ {c}]
         \/ cast'[r] = [cast[r] EXCEPT !.left = @ \ {c}, !.dead = @ \cup {c}]
  BY <1>1, <1>2 DEF TypeOK
<1>4. /\ cast'[r].event = cast[r].event /\ cast'[r].channels = cast[r].channels
      /\ cast'[r].sending = cast[r].sending /\ cast'[r].left = cast[r].left \ {c}
  BY <1>1, <1>3 DEF Cast
<1>5. CASE conn[c] = "open"
  <2>1. inbox' = [inbox EXCEPT ![c] = Append(@, x)]
    BY <1>5 DEF SendText
  <2>2. /\ \A d \in Conns : d # c => inbox'[d] = inbox[d]
        /\ inbox'[c] = Append(inbox[c], x)
    BY <1>1, <2>1 DEF TypeOK
  <2>3. Sent(c)' = Sent(c) \cup {x}
    <3> HIDE DEF x
    <3>1. inbox[c] \in Seq({"alerts", "map", "notes", "direct"} \X Events)
      BY <1>1 DEF TypeOK
    <3>2. /\ DOMAIN Append(inbox[c], x) = DOMAIN inbox[c] \cup {Len(inbox[c]) + 1}
          /\ Append(inbox[c], x)[Len(inbox[c]) + 1] = x
          /\ \A i \in DOMAIN inbox[c] : Append(inbox[c], x)[i] = inbox[c][i]
      BY <3>1
    <3> QED BY <2>2, <3>2 DEF Sent
  <2>4. \A d \in Conns : d # c => Sent(d)' = Sent(d)
    BY <2>2 DEF Sent
  <2> QED BY <1>2, <1>3, <1>4, <1>5, <2>3, <2>4
<1>6. CASE conn[c] # "open"
  <2>1. UNCHANGED inbox
    BY <1>6 DEF SendText
  <2>2. \A d \in Conns : Sent(d)' = Sent(d)
    BY <2>1 DEF Sent
  <2> QED BY <1>2, <1>3, <1>4, <1>6, <2>2
<1> QED BY <1>5, <1>6

LEMMA SendTextPassed ==
  ASSUME IInv, PInv, NEW r \in Runners, NEW c \in Conns, SendText(r, c)
  PROVE  PInv'
<1> DEFINE h == Head(cast[Listener].channels)
           y == <<h, cast[Listener].event>>
<1>1. cast[r] # Idle /\ c \in cast[r].left
  BY DEF SendText
<1>2. NewHeardNothing'
  BY SendTextFacts DEF PInv, NewHeardNothing
<1>3. CASE r = Listener
  <2>1. /\ Head(cast'[Listener].channels) = h /\ cast'[Listener].event = cast[Listener].event
        /\ cast'[Listener].left = cast[Listener].left \ {c}
        /\ cast'[Listener].sending = cast[Listener].sending
        /\ UNCHANGED conn
    BY <1>3, SendTextFacts
  <2>5. NobodyPassedOver' <=>
          (cast'[Listener] # Idle /\ cast[Listener].sending =>
             \A d \in Conns : conn[d] = "open" /\ (\E z \in Sent(d)' : z[1] = h) =>
               d \in cast[Listener].left \ {c} \/ y \in Sent(d)')
    BY <2>1 DEF NobodyPassedOver, Serving, Heard
  <2>2. SUFFICES ASSUME cast[Listener].sending, NEW d \in Conns, conn[d] = "open",
                        \E z \in Sent(d)' : z[1] = h
                 PROVE  d \in cast[Listener].left \ {c} \/ y \in Sent(d)'
    BY <1>2, <2>5 DEF PInv
  <2>3. CASE d = c
    BY <1>3, <2>2, <2>3, SendTextFacts
  <2>4. CASE d # c
    <3>1. Sent(d)' = Sent(d)
      BY <2>4, SendTextFacts
    <3>2. Heard(d, h)
      BY <2>2, <3>1 DEF Heard
    <3>3. d \in cast[Listener].left \/ y \in Sent(d)
      BY <1>1, <1>3, <2>2, <3>2 DEF PInv, NobodyPassedOver, Serving
    <3> QED BY <2>4, <3>1, <3>3
  <2> QED BY <2>3, <2>4
<1>4. CASE r # Listener
  <2>1. cast'[Listener] = cast[Listener] /\ UNCHANGED conn
    BY <1>4, SendTextFacts, ListenerIsRunner
  <2>7. NobodyPassedOver' <=>
          (Serving =>
             \A d \in Conns : conn[d] = "open" /\ (\E z \in Sent(d)' : z[1] = h) =>
               d \in cast[Listener].left \/ y \in Sent(d)')
    BY <2>1 DEF NobodyPassedOver, Serving, Heard
  <2>2. SUFFICES ASSUME Serving, NEW d \in Conns, conn[d] = "open",
                        \E z \in Sent(d)' : z[1] = h
                 PROVE  d \in cast[Listener].left \/ y \in Sent(d)'
    BY <1>2, <2>7 DEF PInv
  <2>3. Head(cast[r].channels) # h
    <3>1. listener # "fallback" /\ CastOK(r) /\ CastOK(Listener)
      BY <1>1, <2>2, ListenerIsRunner DEF IInv, ListenerOK, Online, Serving, CastsOK
    <3>2. cast[r].channels = <<"direct">>
      BY <1>4, <3>1 DEF CastOK
    <3>3. h \in ChannelsOf(Listener) /\ "direct" \notin ChannelsOf(Listener)
      BY <2>2, <3>1, ChannelFacts, ListenerIsRunner DEF CastOK, Serving, IInv
    <3> QED BY <3>2, <3>3
  <2>4. Sent(d) \subseteq Sent(d)' /\ \A z \in Sent(d)' \ Sent(d) : z[1] # h
    BY <2>3, SendTextFacts
  <2>5. Heard(d, h)
    BY <2>2, <2>4 DEF Heard
  <2>6. d \in cast[Listener].left \/ y \in Sent(d)
    BY <2>2, <2>5 DEF PInv, NobodyPassedOver
  <2> QED BY <2>4, <2>6
<1> QED BY <1>3, <1>4

LEMMA SnapshotPassed ==
  ASSUME IInv, PInv, NEW r \in Runners, Snapshot(r)
  PROVE  PInv'
<1>1. TypeOK /\ cast[r] \in Cast /\ UNCHANGED <<conn, inbox>>
  BY ChannelFacts DEF IInv, Snapshot, sockets
<1>2. cast' = [cast EXCEPT ![r] = [cast[r] EXCEPT !.sending = TRUE, !.left = Active, !.dead = {}]]
  BY DEF Snapshot
<1>3. /\ cast'[r] = [cast[r] EXCEPT !.sending = TRUE, !.left = Active, !.dead = {}]
      /\ \A q \in Runners : q # r => cast'[q] = cast[q]
  BY <1>1, <1>2 DEF TypeOK
<1>4. CASE r = Listener
  <2>1. cast'[Listener].left = Active
    BY <1>1, <1>3, <1>4 DEF Cast
  <2>2. \A c \in Conns : conn'[c] = "open" => c \in cast'[Listener].left
    BY <1>1, <2>1 DEF Active
  <2>3. NobodyPassedOver'
    BY <2>2 DEF NobodyPassedOver
  <2>4. NewHeardNothing'
    BY <1>1 DEF PInv, NewHeardNothing, Sent
  <2> QED BY <2>3, <2>4 DEF PInv
<1>5. CASE r # Listener
  <2>1. cast'[Listener] = cast[Listener]
    BY <1>3, <1>5, ListenerIsRunner
  <2> QED BY <1>1, <2>1, PassedUntouched
<1> QED BY <1>4, <1>5

LEMMA EndChannelPassed ==
  ASSUME IInv, PInv, NEW r \in Runners, EndChannel(r)
  PROVE  PInv'
<1>1. TypeOK /\ UNCHANGED inbox
  BY DEF IInv, EndChannel
<1>2. cast'[Listener] = cast[Listener] \/ ~Serving'
  BY <1>1, ListenerIsRunner DEF EndChannel, NewCast, TypeOK, Serving
<1>3. \A c \in Conns : /\ conn'[c] = "open" => conn[c] = "open"
                       /\ conn'[c] = "new" => conn[c] = "new"
  BY DEF EndChannel
<1> QED BY <1>1, <1>2, <1>3, PassedUntouched

LEMMA PassedStep == IInv /\ PInv /\ [Next]_vars => PInv'
<1> SUFFICES ASSUME IInv, PInv, [Next]_vars PROVE PInv'
  OBVIOUS
<1>1. ASSUME UNCHANGED sockets, UNCHANGED cast[Listener] \/ ~Serving' PROVE PInv'
  BY <1>1, PassedUntouched DEF sockets
<1>2. ASSUME UNCHANGED <<sockets, cast>> PROVE PInv'
  BY <1>1, <1>2
<1>3. ASSUME NEW r \in Runners, Deliver(r) PROVE PInv'
  BY <1>3, SnapshotPassed, EndChannelPassed, SendTextPassed DEF Deliver
<1>4. ASSUME NEW c \in Conns, Connect(c) \/ PeerLeaves(c) \/ Disconnect(c) PROVE PInv'
  <2>1. UNCHANGED <<inbox, cast>>
    BY <1>4 DEF Connect, PeerLeaves, Disconnect
  <2>2. ASSUME NEW d \in Conns
        PROVE  /\ conn'[d] = "open" => conn[d] = "open" \/ conn[d] = "new"
               /\ conn'[d] = "new" => conn[d] = "new"
    BY <1>4 DEF Connect, PeerLeaves, Disconnect, IInv, TypeOK
  <2>3. \A d \in Conns : /\ conn'[d] = "open" => conn[d] = "open" \/ Sent(d) = {}
                         /\ conn'[d] = "new" => conn[d] = "new"
    BY <2>2 DEF PInv, NewHeardNothing
  <2> QED BY <2>1, <2>3, PassedUntouched
<1>5. ASSUME NEW s \in Streams, OpenStream(s) \/ YieldEvent(s) \/ CloseStream(s) PROVE PInv'
  BY <1>2, <1>5 DEF OpenStream, YieldEvent, CloseStream
<1>6. ASSUME NEW e \in Events, PublishMemory(e) \/ ReceiveWebhook(e) PROVE PInv'
  <2>1. UNCHANGED sockets
    BY <1>6 DEF PublishMemory, ReceiveWebhook
  <2>2. cast'[Listener] = cast[Listener]
    BY <1>6, ListenerAssumption DEF PublishMemory, ReceiveWebhook, IInv, TypeOK, Runners
  <2> QED BY <1>1, <2>1, <2>2
<1>7. ASSUME NEW e \in Events, PublishElsewhere(e) \/ PublishRedis(e) PROVE PInv'
  BY <1>2, <1>7 DEF PublishElsewhere, PublishRedis
<1>8. ASSUME RedisDown \/ RedisReturns \/ UNCHANGED vars PROVE PInv'
  BY <1>2, <1>8 DEF RedisDown, RedisReturns, vars
<1>9. ASSUME Listen PROVE PInv'
  <2>1. CASE TakeMessage
    <3>1. UNCHANGED sockets
      BY <2>1 DEF TakeMessage
    <3>2. ~Serving'
      BY <2>1, ListenerIsRunner DEF TakeMessage, Serving, NewCast, IInv, TypeOK
    <3> QED BY <1>1, <3>1, <3>2
  <2>2. CASE Subscribe \/ SubscribeFails \/ ListenFails \/ WakeUp
    BY <1>2, <2>2 DEF Subscribe, SubscribeFails, ListenFails, WakeUp
  <2> QED BY <1>9, <2>1, <2>2 DEF Listen
<1> QED BY <1>3, <1>4, <1>5, <1>6, <1>7, <1>8, <1>9 DEF Next

LEMMA PassedInit == Init => PInv
BY ListenerIsRunner DEF Init, PInv, NewHeardNothing, NobodyPassedOver, Serving, Sent

(* Whoever follows a channel is sent every event that the listener takes   *)
(* from Redis and broadcasts on it, although connections open, leave, fail *)
(* and are disconnected while the broadcast goes on, beside broadcasts of  *)
(* the WebSub hook (redis_listener_task, ConnectionManager.broadcast).     *)
THEOREM NoFollowerIsPassedOver == Spec => FollowersMissNothing
<1> DEFINE Passed ==
      EndChannel(Listener) =>
        \A c \in Conns :
          conn[c] = "open" /\ Follows(c, Head(cast[Listener].channels)) =>
            \E i \in DOMAIN inbox[c] :
              inbox[c][i] = <<Head(cast[Listener].channels), cast[Listener].event>>
<1>1. PInv => Passed
  <2> SUFFICES ASSUME PInv, EndChannel(Listener), NEW c \in Conns, conn[c] = "open",
                      Follows(c, Head(cast[Listener].channels))
               PROVE  <<Head(cast[Listener].channels), cast[Listener].event>> \in Sent(c)
    BY DEF Sent
  <2>1. Serving /\ cast[Listener].left = {}
    BY DEF EndChannel, Serving
  <2>2. Heard(c, Head(cast[Listener].channels))
    BY DEF Follows, Heard, Sent
  <2> QED BY <2>1, <2>2 DEF PInv, NobodyPassedOver
<1>2. PInv => [Passed]_vars
  BY <1>1
<1> HIDE DEF Passed
<1>3. Spec => []PInv
  BY PassedInit, PassedStep, Invariant, PTL DEF Spec
<1>4. Spec => [][Passed]_vars
  BY <1>2, <1>3, PTL
<1> QED BY <1>4 DEF FollowersMissNothing, Passed
=================================================================================
