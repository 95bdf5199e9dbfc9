------------------------ MODULE ChannelManager_proofs -----------------------
(* Proofs about ChannelManager for every set of clients and channels.       *)
EXTENDS ChannelManager, FiniteSetTheorems, SequenceTheorems, TLAPS

LEMMA EventTypes ==
  ASSUME NEW c \in Client, NEW ch \in Channel, NEW t \in Client,
         NEW m \in {"subscribe", "signal"}
  PROVE  /\ Join(c, ch) \in Event
         /\ Leave(c, ch) \in Event
         /\ Media(c, ch, t, m) \in Event
  BY DEF Event

LEMMA EventFields ==
  ASSUME NEW e \in Event
  PROVE  /\ e.client \in Client /\ e.channel \in Channel /\ e.target \in Client
         /\ e.type = "JOIN" => e = Join(e.client, e.channel)
         /\ e.type = "LEAVE" => e = Leave(e.client, e.channel)
  <1>1. CASE \E c \in Client, ch \in Channel : e = Join(c, ch)
    <2>1. PICK c \in Client, ch \in Channel : e = Join(c, ch)
      BY <1>1
    <2> QED BY <2>1 DEF Join
  <1>2. CASE \E c \in Client, ch \in Channel : e = Leave(c, ch)
    <2>1. PICK c \in Client, ch \in Channel : e = Leave(c, ch)
      BY <1>2
    <2> QED BY <2>1 DEF Leave
  <1>3. CASE \E c \in Client, ch \in Channel, t \in Client,
                m \in {"subscribe", "signal"} : e = Media(c, ch, t, m)
    <2>1. PICK c \in Client, ch \in Channel, t \in Client,
               m \in {"subscribe", "signal"} : e = Media(c, ch, t, m)
      BY <1>3
    <2> QED BY <2>1 DEF Media
  <1> QED BY <1>1, <1>2, <1>3 DEF Event

LEMMA RoomsFinite == ASSUME TypeOK PROVE Cardinality(rooms) \in Nat
  BY ChannelManagerAssumption, FS_Subset, FS_CardinalityType DEF TypeOK

\* doUserOffline appends one LEAVE of the client for each room.
LEMMA OfflineQueue ==
  ASSUME TypeOK, NEW c \in Client, doUserOffline(c)
  PROVE  /\ queue' \in Seq(Event)
         /\ Len(queue') = Len(queue) + Cardinality(rooms)
         /\ \A i \in 1..Len(queue) : queue'[i] = queue[i]
         /\ \A i \in 1..Len(queue') : i > Len(queue) =>
              \E ch \in rooms : queue'[i] = Leave(c, ch)
         /\ \A ch \in rooms : \E i \in 1..Len(queue') :
              i > Len(queue) /\ queue'[i] = Leave(c, ch)
  <1> DEFINE n == Cardinality(rooms)
  <1>1. n \in Nat /\ Len(queue) \in Nat /\ queue \in Seq(Event) /\ rooms \subseteq Channel
    BY RoomsFinite, LenProperties DEF TypeOK
  <1>2. PICK s \in [1..n -> rooms] :
          /\ {s[i] : i \in DOMAIN s} = rooms
          /\ queue' = queue \o [i \in 1..n |-> Leave(c, s[i])]
    BY DEF doUserOffline
  <1> DEFINE l == [i \in 1..n |-> Leave(c, s[i])]
  <1>3. \A i \in 1..n : Leave(c, s[i]) \in Event /\ s[i] \in rooms
    BY <1>1, EventTypes
  <1>4. l \in Seq(Event) /\ Len(l) = n
    <2> HIDE DEF n
    <2> QED BY <1>1, <1>3
  <1>5. queue' = queue \o l
    BY <1>2
  <1> HIDE DEF l, n
  <1>6. /\ queue' \in Seq(Event)
        /\ Len(queue') = Len(queue) + n
        /\ \A i \in 1..(Len(queue) + n) :
             queue'[i] = IF i <= Len(queue) THEN queue[i] ELSE l[i - Len(queue)]
    BY <1>1, <1>4, <1>5, ConcatProperties
  <1>7. \A i \in 1..n : l[i] = Leave(c, s[i])
    BY DEF l
  <1>8. \A i \in 1..Len(queue) : queue'[i] = queue[i]
    BY <1>1, <1>6
  <1>9. ASSUME NEW i \in 1..Len(queue'), i > Len(queue)
        PROVE  \E ch \in rooms : queue'[i] = Leave(c, ch)
    <2>1. i - Len(queue) \in 1..n /\ queue'[i] = l[i - Len(queue)]
      BY <1>1, <1>6, <1>9
    <2> QED BY <1>3, <1>7, <2>1
  <1>10. ASSUME NEW ch \in rooms
         PROVE  \E i \in 1..Len(queue') : i > Len(queue) /\ queue'[i] = Leave(c, ch)
    <2>1. PICK k \in 1..n : s[k] = ch
      BY <1>2
    <2>2. Len(queue) + k \in 1..Len(queue') /\ Len(queue) + k > Len(queue)
            /\ (Len(queue) + k) - Len(queue) = k
      BY <1>1, <1>6, <2>1
    <2>3. queue'[Len(queue) + k] = l[k]
      BY <1>1, <1>6, <2>2
    <2> QED BY <1>7, <2>1, <2>2, <2>3
  <1> QED BY <1>6, <1>8, <1>9, <1>10 DEF n

\* Taking the front event keeps the queue a sequence of events.
LEMMA TakeType ==
  ASSUME TypeOK, NEW type, TakeEvent(type)
  PROVE  /\ Head(queue) \in Event
         /\ Head(queue).client \in Client
         /\ Head(queue).channel \in Channel
         /\ Head(queue).target \in Client
         /\ type = "JOIN" => Head(queue) = Join(Head(queue).client, Head(queue).channel)
         /\ type = "LEAVE" => Head(queue) = Leave(Head(queue).client, Head(queue).channel)
         /\ queue' \in Seq(Event)
  <1>1. /\ queue \in Seq(Event) /\ queue # <<>> /\ queue' = Tail(queue)
        /\ Head(queue).type = type
    BY DEF TypeOK, TakeEvent
  <1>2. Head(queue) \in Event /\ queue' \in Seq(Event)
    BY <1>1, HeadTailProperties
  <1> QED BY <1>1, <1>2, EventFields

\* A change of m_Clients under the loops: what is left to visit only shrinks or
\* gains the new key, in the loops of that room alone.
LEMMA DisturbFacts ==
  ASSUME TypeOK, NEW ch \in Channel, NEW new \in SUBSET Client,
         Disturb(ch, new) \/ NotDisturbed
  PROVE  /\ telling' \in [Channel -> [Client -> SUBSET Client]]
         /\ torn' \in [Channel -> SUBSET Client]
         /\ \A dh \in Channel, p \in Client :
              /\ telling'[dh][p] \subseteq telling[dh][p] \cup (new \ {p})
              /\ p \notin Looping(dh) => telling'[dh][p] = telling[dh][p]
              /\ telling'[dh][p] # telling[dh][p] => p \in torn'[dh] \cup orphans[dh]
         /\ \A dh \in Channel :
              torn[dh] \subseteq torn'[dh] /\ torn'[dh] \subseteq torn[dh] \cup Loops(dh)
  <1>1. CASE NotDisturbed
    BY <1>1 DEF NotDisturbed, TypeOK
  <1>2. CASE Disturb(ch, new)
    <2>1. PICK t \in [Looping(ch) -> SUBSET Client] :
            /\ \A p \in Looping(ch) : t[p] \subseteq telling[ch][p] \cup (new \ {p})
            /\ telling' = [telling EXCEPT ![ch] =
                             [p \in Client |-> IF p \in Looping(ch) THEN t[p] ELSE @[p]]]
      BY <1>2 DEF Disturb
    <2>2. torn' = [torn EXCEPT ![ch] = @ \cup Loops(ch)]
      BY <1>2 DEF Disturb
    <2>3. /\ telling \in [Channel -> [Client -> SUBSET Client]]
          /\ torn \in [Channel -> SUBSET Client]
          /\ Loops(ch) \subseteq Client
      BY DEF TypeOK, Loops
    <2>4. /\ torn' \in [Channel -> SUBSET Client]
          /\ \A dh \in Channel :
               torn'[dh] = IF dh = ch THEN torn[dh] \cup Loops(dh) ELSE torn[dh]
      BY <2>2, <2>3
    <2>5. \A dh \in Channel, p \in Client :
            telling'[dh][p] = IF dh = ch /\ p \in Looping(ch) THEN t[p] ELSE telling[dh][p]
      BY <2>1, <2>3
    <2>6. telling' \in [Channel -> [Client -> SUBSET Client]]
      BY <2>1, <2>3
    <2>7. \A dh \in Channel, p \in Client :
            /\ telling'[dh][p] \subseteq telling[dh][p] \cup (new \ {p})
            /\ p \notin Looping(dh) => telling'[dh][p] = telling[dh][p]
      BY <2>1, <2>5
    <2>8. \A dh \in Channel, p \in Client :
            telling'[dh][p] # telling[dh][p] => p \in torn'[dh] \cup orphans[dh]
      BY <2>4, <2>5 DEF Looping
    <2> QED BY <2>4, <2>6, <2>7, <2>8
  <1> QED BY <1>1, <1>2

LEMMA LeaveResultType ==
  ASSUME TypeOK, NEW ch \in Channel, NEW c \in Client, LeaveResult(ch, c)
  PROVE  /\ acked' \in [Channel -> SUBSET Client]
         /\ told' \in [Channel -> [Client -> SUBSET Client]]
         /\ published' \in [Channel -> [Client -> SUBSET Client]]
         /\ late' \in [Channel -> [Client -> SUBSET Client]]
  BY DEF TypeOK, LeaveResult

\* Every variable keeps its type (all handlers of cManager, cRoom and cPeer).
LEMMA TypeStep == TypeOK /\ [Next]_vars => TypeOK'
  <1> SUFFICES ASSUME TypeOK, [Next]_vars PROVE TypeOK'
    OBVIOUS
  <1> USE DEF TypeOK
  <1>1. ASSUME NEW c \in Client, Connect(c) PROVE TypeOK'
    BY <1>1 DEF Connect, roomVars, leaveVars, peerVars, loopVars, viewVars
  <1>2. ASSUME NEW c \in Client, SendDisconnect(c) \/ TickClients(c) PROVE TypeOK'
    <2>1. PICK state \in {"kicked", "removed"} : Unreachable(c, state)
      BY <1>2 DEF SendDisconnect, TickClients
    <2> QED BY <2>1 DEF Unreachable, Dropped, roomVars, leaveVars, peerVars, loopVars, viewVars
  <1>3. ASSUME NEW c \in Client, doUserOffline(c) PROVE TypeOK'
    <2>1. queue' \in Seq(Event)
      BY <1>3, OfflineQueue
    <2> QED BY <1>3, <2>1 DEF doUserOffline, roomVars, leaveVars, peerVars, loopVars, viewVars
  <1>4. ASSUME NEW c \in Client, NEW ch \in Channel, HandlePacketJoinRoom(c, ch)
        PROVE  TypeOK'
    BY <1>4, EventTypes DEF HandlePacketJoinRoom, addEvent, PacketFrame, roomVars, leaveVars, peerVars, loopVars, viewVars
  <1>5. ASSUME NEW c \in Client, NEW ch \in Channel, HandlePacketLeftRoom(c, ch)
        PROVE  TypeOK'
    BY <1>5, EventTypes DEF HandlePacketLeftRoom, addEvent, PacketFrame, roomVars, leaveVars, peerVars, loopVars, viewVars
  <1>6. ASSUME NEW c \in Client, NEW ch \in Channel, NEW t \in Client,
               NEW m \in {"subscribe", "signal"}, HandlePacketMsgRoom(c, ch, t, m)
        PROVE  TypeOK'
    <2>1. Media(c, ch, t, m) \in Event
      BY EventTypes
    <2> QED BY <1>6, <2>1 DEF HandlePacketMsgRoom, addEvent, PacketFrame, roomVars, leaveVars, peerVars, loopVars, viewVars
  <1>7. CASE DealJoin
    <2> DEFINE c == Head(queue).client
               ch == Head(queue).channel
    <2>1. queue' \in Seq(Event) /\ c \in Client /\ ch \in Channel
      BY <1>7, TakeType DEF DealJoin
    <2>2. /\ Disturb(ch, {c}) \/ NotDisturbed
          /\ {c} \in SUBSET Client
      BY <1>7, <2>1 DEF DealJoin
    <2>3. /\ telling' \in [Channel -> [Client -> SUBSET Client]]
          /\ torn' \in [Channel -> SUBSET Client]
      <3> HIDE DEF c, ch, TypeOK
      <3>1. TypeOK
        BY DEF TypeOK
      <3> QED BY <2>1, <2>2, <3>1, DisturbFacts
    <2>4. members' = [members EXCEPT ![ch] = @ \cup {c}] \/ members' = members
      BY <1>7 DEF DealJoin
    <2>5. AnnounceOnline(ch, c) \in [Client -> SUBSET Client]
      BY <2>1 DEF AnnounceOnline, Keys
    <2>6. told' = [told EXCEPT ![ch] = AnnounceOnline(ch, c)]
      BY <1>7 DEF DealJoin
    <2>7. told' \in [Channel -> [Client -> SUBSET Client]]
      BY <2>1, <2>5, <2>6
    <2>8. acked' = [acked EXCEPT ![ch] = @ \cup {c}] \/ acked' = acked
      BY <1>7 DEF DealJoin
    <2>9. acked' \in [Channel -> SUBSET Client]
      <3>1. acked \in [Channel -> SUBSET Client]
        OBVIOUS
      <3> HIDE DEF c, ch, TypeOK
      <3>2. CASE acked' = [acked EXCEPT ![ch] = @ \cup {c}]
        BY <2>1, <3>1, <3>2
      <3>3. CASE acked' = acked
        BY <3>1, <3>3
      <3> QED BY <2>8, <3>2, <3>3
    <2>10. members' \in [Channel -> SUBSET Client]
      <3>1. members \in [Channel -> SUBSET Client]
        OBVIOUS
      <3> HIDE DEF c, ch, TypeOK
      <3>2. CASE members' = [members EXCEPT ![ch] = @ \cup {c}]
        BY <2>1, <3>1, <3>2
      <3>3. CASE members' = members
        BY <3>1, <3>3
      <3> QED BY <2>4, <3>2, <3>3
    <2> QED BY <1>7, <2>1, <2>3, <2>7, <2>9, <2>10 DEF DealJoin, roomVars, leaveVars, peerVars, loopVars, viewVars
  <1>8. CASE DealLeaveStranger
    <2> DEFINE c == Head(queue).client
               ch == Head(queue).channel
    <2>1. queue' \in Seq(Event) /\ c \in Client /\ ch \in Channel
      BY <1>8, TakeType DEF DealLeaveStranger
    <2>2. LeaveResult(ch, c) /\ (Disturb(ch, {}) \/ NotDisturbed)
      BY <1>8 DEF DealLeaveStranger
    <2>3. /\ telling' \in [Channel -> [Client -> SUBSET Client]]
          /\ torn' \in [Channel -> SUBSET Client]
      <3> HIDE DEF c, ch, TypeOK
      <3>1. TypeOK /\ {} \in SUBSET Client
        BY DEF TypeOK
      <3> QED BY <2>1, <2>2, <3>1, DisturbFacts
    <2> QED BY <1>8, <2>1, <2>2, <2>3, LeaveResultType
            DEF DealLeaveStranger, RoomsAfterLeave, roomVars, leaveVars, peerVars, loopVars, viewVars
  <1>9. CASE DealLeave
    <2> DEFINE c == Head(queue).client
               ch == Head(queue).channel
    <2>1. queue' \in Seq(Event) /\ c \in Client /\ ch \in Channel
      BY <1>9, TakeType DEF DealLeave
    <2>2. Disturb(ch, {})
      BY <1>9 DEF DealLeave
    <2>3. /\ telling' \in [Channel -> [Client -> SUBSET Client]]
          /\ torn' \in [Channel -> SUBSET Client]
      BY <2>1, <2>2, DisturbFacts
    <2> QED BY <1>9, <2>1, <2>3 DEF DealLeave, Keys, roomVars, leaveVars, peerVars, loopVars, viewVars
  <1>10. CASE DealMedia
    <2>1. queue' \in Seq(Event) /\ Head(queue).client \in Client
            /\ Head(queue).channel \in Channel /\ Head(queue).target \in Client
      BY <1>10, TakeType DEF DealMedia
    <2> QED BY <1>10, <2>1 DEF DealMedia, roomVars, leaveVars, peerVars, loopVars, viewVars
  <1>11. ASSUME NEW ch \in Channel, NEW c \in Client, NEW x \in Client,
                TellOffline(ch, c, x)
         PROVE  TypeOK'
    <2>1. onUnSubscribed(ch, c, x) \in [Client -> SUBSET Client]
      BY DEF onUnSubscribed
    <2>2. subs' \in [Channel -> [Client -> SUBSET Client]]
      BY <1>11, <2>1 DEF TellOffline
    <2> QED BY <1>11, <2>2 DEF TellOffline, roomVars, leaveVars, peerVars, loopVars, viewVars
  <1>12. ASSUME NEW ch \in Channel, NEW c \in Client, TellOfflineNull(ch, c)
         PROVE  TypeOK'
    BY <1>12 DEF TellOfflineNull, roomVars, leaveVars, peerVars, loopVars, viewVars
  <1>13. ASSUME NEW ch \in Channel, NEW c \in Client, LeaveEnds(ch, c)
         PROVE  TypeOK'
    <2>1. LeaveResult(ch, c)
      BY <1>13 DEF LeaveEnds
    <2> QED BY <1>13, <2>1, LeaveResultType
            DEF LeaveEnds, DestroyPeer, RoomsAfterLeave, Loops, roomVars, leaveVars, peerVars, loopVars, viewVars
  <1>14. ASSUME NEW ch \in Channel, NEW p \in Client, onJoinedChannel(ch, p)
         PROVE  TypeOK'
    <2>1. CASE BroadcastJoinChannel(ch, p)
      BY <1>14, <2>1 DEF onJoinedChannel, BroadcastJoinChannel, Keys, roomVars, leaveVars, peerVars, loopVars, viewVars
    <2>2. CASE BroadcastJoinChannelNull(ch, p)
      <3>1. /\ telling' \in [Channel -> [Client -> SUBSET Client]]
            /\ torn' \in [Channel -> SUBSET Client]
        BY <2>2, DisturbFacts DEF BroadcastJoinChannelNull
      <3>2. untold' \in [Channel -> SUBSET Client]
        <4>1. PICK u \in SUBSET (untold[ch] \cup {p}) : untold' = [untold EXCEPT ![ch] = u]
          BY <2>2 DEF BroadcastJoinChannelNull
        <4>2. u \in SUBSET Client
          BY <4>1
        <4> QED BY <4>1, <4>2
      <3>3. media' \in [Channel -> [Client -> {"off", "loop", "done"}]]
        BY <2>2 DEF BroadcastJoinChannelNull
      <3>4. nulls' \in [Channel -> SUBSET Client] /\ haunted' \in [Channel -> SUBSET Client]
        BY <2>2 DEF BroadcastJoinChannelNull
      <3> QED BY <1>14, <3>1, <3>2, <3>3, <3>4 DEF onJoinedChannel, roomVars, leaveVars, peerVars, loopVars, viewVars
    <2> QED BY <1>14, <2>1, <2>2 DEF onJoinedChannel
  <1>15. ASSUME NEW ch \in Channel, NEW p \in Client, NEW x \in Client,
                TellPublisher(ch, p, x)
         PROVE  TypeOK'
    BY <1>15 DEF TellPublisher, SendPublisher, roomVars, leaveVars, peerVars, loopVars, viewVars
  <1>16. ASSUME NEW ch \in Channel, NEW p \in Client, NEW x \in Client,
                HearPublisher(ch, p, x)
         PROVE  TypeOK'
    BY <1>16 DEF HearPublisher, SendPublisher, roomVars, leaveVars, peerVars, loopVars, viewVars
  <1>17. ASSUME NEW ch \in Channel, NEW p \in Client, BroadcastEnds(ch, p)
         PROVE  TypeOK'
    BY <1>17 DEF BroadcastEnds, roomVars, leaveVars, peerVars, loopVars, viewVars
  <1>18. ASSUME NEW ch \in Channel, NEW p \in Client, OrphanEnds(ch, p)
         PROVE  TypeOK'
    BY <1>18 DEF OrphanEnds, roomVars, leaveVars, peerVars, loopVars, viewVars
  <1>19. CASE Stop \/ Start
    BY <1>19 DEF Stop, Start, roomVars, leaveVars, peerVars, loopVars, viewVars
  <1>20. CASE UNCHANGED vars
    BY <1>20 DEF vars, roomVars, leaveVars, peerVars, loopVars, viewVars
  <1> HIDE DEF TypeOK
  <1>21. CASE Execute
    BY <1>7, <1>8, <1>9, <1>10, <1>11, <1>12, <1>13, <1>21
       DEF Execute, dealEvent, onPeerLeaved
  <1>22. CASE BroadcastLoop
    BY <1>15, <1>16, <1>17, <1>18, <1>22 DEF BroadcastLoop
  <1> QED
    BY <1>1, <1>2, <1>3, <1>4, <1>5, <1>6, <1>14, <1>19, <1>20, <1>21, <1>22 DEF Next

\* Type correctness of the conference core, for any clients and channels.
THEOREM TypeCorrect == Spec => []TypeOK
  <1>1. Init => TypeOK
    BY DEF Init, TypeOK, NoneIn, NoneOf
  <1> QED BY <1>1, TypeStep, PTL DEF Spec

-----------------------------------------------------------------------------
(* The inductive invariant.                                                 *)

LEMMA Distinct ==
  ASSUME NEW c \in Client, NEW d \in Client, NEW ch \in Channel, NEW dh \in Channel,
         NEW t \in Client, NEW m \in {"subscribe", "signal"}
  PROVE  /\ Leave(c, ch) # Join(d, dh)
         /\ Media(c, ch, t, m) # Join(d, dh)
         /\ Join(c, ch) = Join(d, dh) => c = d /\ ch = dh
         /\ Leave(c, ch) = Leave(d, dh) => c = d /\ ch = dh
         /\ Leave(c, ch).client = c /\ Join(c, ch).client = c
         /\ Media(c, ch, t, m).client = c
         /\ Leave(c, ch).channel = ch /\ Join(c, ch).channel = ch
         /\ Leave(c, ch).type = "LEAVE" /\ Join(c, ch).type = "JOIN"
  BY DEF Join, Leave, Media

\* Appending an event of a client whose handle exists keeps every pending
\* departure covered and every unconnected id unknown to the queue.
LEMMA AppendKeeps ==
  ASSUME IInv, NEW c \in Client, Ticked(c), NEW e \in Event, e.client = c,
         queue' = Append(queue, e), UNCHANGED <<conn, members, departed>>
  PROVE  /\ DepartureCovered'
         /\ \A d \in Client : conn'[d] = "new" =>
              \A i \in DOMAIN queue' : queue'[i].client # d
  <1>1. queue \in Seq(Event) /\ DepartureCovered /\ NewAreUnknown /\ DepartedAreOffline
    BY DEF IInv, TypeOK
  <1>2. /\ DOMAIN queue' = 1..(Len(queue) + 1) /\ DOMAIN queue = 1..Len(queue)
        /\ Len(queue) \in Nat
        /\ queue'[Len(queue) + 1] = e
        /\ \A i \in 1..Len(queue) : queue'[i] = queue[i]
    BY <1>1, AppendProperties, LenProperties
  <1>3. ASSUME NEW d \in Client, NEW dh \in Channel, dh \in departed'[d],
               d \in members'[dh] \/ Queued(Join(d, dh))'
        PROVE  \E i \in DOMAIN queue' :
                 /\ queue'[i] = Leave(d, dh)
                 /\ \A j \in DOMAIN queue' : j > i => queue'[j] # Join(d, dh)
    <2>1. d # c
      BY <1>1, <1>3 DEF DepartedAreOffline, Ticked
    <2>2. e # Join(d, dh)
      BY <2>1, Distinct
    <2>3. \A i \in DOMAIN queue' : queue'[i] = Join(d, dh) => i \in DOMAIN queue
      BY <1>2, <2>2
    <2>4. d \in members[dh] \/ Queued(Join(d, dh))
      BY <1>2, <1>3, <2>3 DEF Queued
    <2>5. PICK i \in DOMAIN queue :
            /\ queue[i] = Leave(d, dh)
            /\ \A j \in DOMAIN queue : j > i => queue[j] # Join(d, dh)
      BY <1>1, <1>3, <2>4 DEF DepartureCovered
    <2>6. i \in DOMAIN queue' /\ queue'[i] = Leave(d, dh)
      BY <1>2, <2>5
    <2>7. \A j \in DOMAIN queue' : j > i => queue'[j] # Join(d, dh)
      BY <1>2, <2>3, <2>5
    <2> QED BY <2>6, <2>7
  <1>4. DepartureCovered'
    BY <1>3 DEF DepartureCovered, Queued
  <1>5. \A d \in Client : conn'[d] = "new" =>
          \A i \in DOMAIN queue' : queue'[i].client # d
    BY <1>1, <1>2 DEF NewAreUnknown, Ticked
  <1> QED BY <1>4, <1>5

\* Taking the front event keeps the unconnected ids unknown to the queue, and
\* every pending departure covered whose LEAVE is not the event taken.
LEMMA TakeKeeps ==
  ASSUME IInv, NEW type, TakeEvent(type), UNCHANGED <<conn, departed>>
  PROVE  /\ \A d \in Client : conn'[d] = "new" =>
              /\ Head(queue).client # d
              /\ \A i \in DOMAIN queue' : queue'[i].client # d
         /\ \A d \in Client, dh \in Channel :
              /\ dh \in departed'[d]
              /\ (d \in members[dh] /\ Head(queue) # Leave(d, dh))
                 \/ Head(queue) = Join(d, dh) \/ Queued(Join(d, dh))'
              => \E i \in DOMAIN queue' :
                   /\ queue'[i] = Leave(d, dh)
                   /\ \A j \in DOMAIN queue' : j > i => queue'[j] # Join(d, dh)
  <1>1. /\ queue \in Seq(Event) /\ queue # <<>> /\ queue' = Tail(queue)
        /\ DepartureCovered /\ NewAreUnknown
    BY DEF IInv, TypeOK, TakeEvent
  <1>2. /\ Head(queue) = queue[1]
        /\ DOMAIN queue = 1..Len(queue) /\ Len(queue) \in Nat \ {0}
        /\ DOMAIN queue' = 1..(Len(queue) - 1)
        /\ \A i \in 1..(Len(queue) - 1) : queue'[i] = queue[i + 1]
    BY <1>1, HeadTailProperties, LenProperties, EmptySeq
  <1>3. \A i \in DOMAIN queue' : i + 1 \in DOMAIN queue /\ queue'[i] = queue[i + 1]
    BY <1>2
  <1>4. \A d \in Client : conn'[d] = "new" =>
          /\ Head(queue).client # d
          /\ \A i \in DOMAIN queue' : queue'[i].client # d
    BY <1>1, <1>2, <1>3 DEF NewAreUnknown
  <1>5. ASSUME NEW d \in Client, NEW dh \in Channel, dh \in departed'[d],
               (d \in members[dh] /\ Head(queue) # Leave(d, dh))
                 \/ Head(queue) = Join(d, dh) \/ Queued(Join(d, dh))'
        PROVE  \E i \in DOMAIN queue' :
                 /\ queue'[i] = Leave(d, dh)
                 /\ \A j \in DOMAIN queue' : j > i => queue'[j] # Join(d, dh)
    <2>1. ASSUME Queued(Join(d, dh))'
          PROVE  \E k \in DOMAIN queue : k > 1 /\ queue[k] = Join(d, dh)
      <3>1. PICK k \in DOMAIN queue' : queue'[k] = Join(d, dh)
        BY <2>1 DEF Queued
      <3>2. k + 1 \in DOMAIN queue /\ queue[k + 1] = Join(d, dh) /\ k + 1 > 1
        BY <1>2, <1>3, <3>1
      <3> QED BY <3>2
    <2>2. d \in members[dh] \/ Queued(Join(d, dh))
      <3>1. 1 \in DOMAIN queue
        BY <1>2
      <3> QED BY <1>2, <1>5, <2>1, <3>1 DEF Queued
    <2>3. PICK i \in DOMAIN queue :
            /\ queue[i] = Leave(d, dh)
            /\ \A j \in DOMAIN queue : j > i => queue[j] # Join(d, dh)
      BY <1>1, <1>5, <2>2 DEF DepartureCovered
    <2>4. i # 1
      <3>1. SUFFICES ASSUME i = 1 PROVE FALSE
        OBVIOUS
      <3>2. Head(queue) = Leave(d, dh)
        BY <1>2, <2>3, <3>1
      <3>3. Head(queue) # Join(d, dh)
        BY <3>2, Distinct
      <3> QED BY <1>5, <2>1, <2>3, <3>1, <3>2, <3>3
    <2>5. i - 1 \in DOMAIN queue' /\ queue'[i - 1] = Leave(d, dh)
      BY <1>2, <2>3, <2>4
    <2>6. ASSUME NEW j \in DOMAIN queue', j > i - 1 PROVE queue'[j] # Join(d, dh)
      <3>1. j + 1 \in DOMAIN queue /\ j + 1 > i /\ queue'[j] = queue[j + 1]
        BY <1>2, <1>3, <2>6
      <3> QED BY <2>3, <3>1
    <2> QED BY <2>5, <2>6
  <1> QED BY <1>4, <1>5

\* Each part of the invariant speaks of some of the variables only.
LEMMA Frame ==
  ASSUME IInv
  PROVE  /\ UNCHANGED <<rooms, members, nulls, leaving>> => RoomIffOccupied'
         /\ UNCHANGED <<members, nulls, haunted, leaving, untold, acked, told>>
              /\ (\A d \in Client : Online(d)' => Online(d)) => RosterAgrees'
         /\ UNCHANGED <<members, haunted, leaving, untold, published, late>>
              /\ (\A d \in Client : Online(d)' => Online(d)) => NoStalePeerConnection'
         /\ UNCHANGED <<members, leaving, negotiated, subs, media, torn>>
              => MediaOnlyOfMembers'
         /\ UNCHANGED <<queue, members, departed>> => DepartureCovered'
         /\ UNCHANGED <<conn, queue, members, nulls, leaving, acked, told, published, late>>
              => NewAreUnknown'
         /\ UNCHANGED <<conn, departed>> => DepartedAreOffline'
         /\ UNCHANGED <<members, nulls, haunted, leaving, untold>> => OneLeaver'
         /\ UNCHANGED <<media, telling, hearing, orphans>> => LoopsAreSane'
         /\ UNCHANGED <<members, media, telling, hearing, torn, published>>
              /\ (\A d \in Client : Online(d)' => Online(d)) => PairsAreServed'
  <1>1. UNCHANGED <<rooms, members, nulls, leaving>> => RoomIffOccupied'
    BY DEF IInv, RoomIffOccupied
  <1>2. UNCHANGED <<members, nulls, haunted, leaving, untold, acked, told>>
          /\ (\A d \in Client : Online(d)' => Online(d)) => RosterAgrees'
    BY DEF IInv, RosterAgrees, Keys
  <1>3. UNCHANGED <<members, haunted, leaving, untold, published, late>>
          /\ (\A d \in Client : Online(d)' => Online(d)) => NoStalePeerConnection'
    BY DEF IInv, NoStalePeerConnection, Peers
  <1>4. UNCHANGED <<members, leaving, negotiated, subs, media, torn>> => MediaOnlyOfMembers'
    BY DEF IInv, MediaOnlyOfMembers, Peers
  <1>5. UNCHANGED <<queue, members, departed>> => DepartureCovered'
    BY DEF IInv, DepartureCovered, Queued
  <1>6. UNCHANGED <<conn, queue, members, nulls, leaving, acked, told, published, late>>
          => NewAreUnknown'
    BY DEF IInv, NewAreUnknown
  <1>7. UNCHANGED <<conn, departed>> => DepartedAreOffline'
    BY DEF IInv, DepartedAreOffline
  <1>8. UNCHANGED <<members, nulls, haunted, leaving, untold>> => OneLeaver'
    BY DEF IInv, OneLeaver, Keys
  <1>9. UNCHANGED <<media, telling, hearing, orphans>> => LoopsAreSane'
    BY DEF IInv, LoopsAreSane, Looping, Loops
  <1>10. UNCHANGED <<members, media, telling, hearing, torn, published>>
           /\ (\A d \in Client : Online(d)' => Online(d)) => PairsAreServed'
    <2> SUFFICES ASSUME UNCHANGED <<members, media, telling, hearing, torn, published>>,
                        \A d \in Client : Online(d)' => Online(d),
                        NEW ch \in Channel, NEW p \in members[ch], NEW q \in members[ch],
                        p # q
                 PROVE  \/ Told(ch, p, q)' /\ Told(ch, q, p)'
                        \/ Pending(ch, p, q)'
                        \/ Pending(ch, q, p)'
      BY DEF PairsAreServed
    <2>1. p \in Client /\ q \in Client
      BY DEF IInv, TypeOK
    <2>2. Told(ch, p, q) => Told(ch, p, q)'
      BY <2>1 DEF Told
    <2>3. Told(ch, q, p) => Told(ch, q, p)'
      BY <2>1 DEF Told
    <2>4. Pending(ch, p, q) => Pending(ch, p, q)'
      BY <2>2 DEF Pending
    <2>5. Pending(ch, q, p) => Pending(ch, q, p)'
      BY <2>3 DEF Pending
    <2>6. (Told(ch, p, q) /\ Told(ch, q, p)) \/ Pending(ch, p, q) \/ Pending(ch, q, p)
      BY DEF IInv, PairsAreServed
    <2> QED BY <2>2, <2>3, <2>4, <2>5, <2>6
  <1> QED BY <1>1, <1>2, <1>3, <1>4, <1>5, <1>6, <1>7, <1>8, <1>9, <1>10

\* Starting and stopping the manager, and a crash, keep rooms, queue and views.
LEMMA StillKeeps ==
  ASSUME IInv, TypeOK',
         UNCHANGED <<conn, queue, roomVars, leaveVars, peerVars, loopVars, viewVars, departed>>
  PROVE  IInv'
  <1>1. UNCHANGED <<conn, queue, rooms, members, nulls, haunted, leaving, untold,
                    negotiated, subs, media, telling, hearing, orphans, torn,
                    acked, told, published, late, departed>>
    BY DEF roomVars, leaveVars, peerVars, loopVars, viewVars
  <1>2. \A d \in Client : Online(d)' => Online(d)
    BY <1>1 DEF Online
  <1> QED BY <1>1, <1>2, Frame DEF IInv

\* A packet of a connected client only appends an event of that client.
LEMMA PacketKeeps ==
  ASSUME IInv, NEW c \in Client, Ticked(c), NEW e \in Event, e.client = c,
         addEvent(e), PacketFrame, TypeOK'
  PROVE  IInv'
  <1>1. UNCHANGED <<conn, rooms, members, nulls, haunted, leaving, untold,
                    negotiated, subs, media, telling, hearing, orphans, torn,
                    acked, told, published, late, departed>>
    BY DEF PacketFrame, roomVars, leaveVars, peerVars, loopVars, viewVars
  <1>2. queue' = Append(queue, e) /\ UNCHANGED <<conn, members, departed>>
    BY <1>1 DEF addEvent
  <1>3. /\ DepartureCovered'
        /\ \A d \in Client : conn'[d] = "new" =>
             \A i \in DOMAIN queue' : queue'[i].client # d
    BY <1>2, AppendKeeps
  <1>4. NewAreUnknown'
    BY <1>1, <1>3 DEF IInv, NewAreUnknown
  <1>5. \A d \in Client : Online(d)' => Online(d)
    BY <1>1 DEF Online
  <1> QED BY <1>1, <1>3, <1>4, <1>5, Frame DEF IInv

LEMMA ConnectKeeps ==
  ASSUME IInv, NEW c \in Client, Connect(c), TypeOK' PROVE IInv'
  <1>1. UNCHANGED <<queue, rooms, members, nulls, haunted, leaving, untold,
                    negotiated, subs, media, telling, hearing, orphans, torn,
                    acked, told, published, late, departed>>
    BY DEF Connect, roomVars, leaveVars, peerVars, loopVars, viewVars
  <1>2. conn[c] = "new" /\ \A d \in Client : conn'[d] = IF d = c THEN "online" ELSE conn[d]
    BY DEF Connect, IInv, TypeOK
  <1>3. \A ch \in Channel :
          /\ c \notin members[ch] \cup nulls[ch] \cup leaving[ch] \cup acked[ch]
          /\ told[ch][c] = {} /\ published[ch][c] = {} /\ late[ch][c] = {}
    BY <1>2 DEF IInv, NewAreUnknown
  <1>4. \A d \in Client : d # c /\ Online(d)' => Online(d)
    BY <1>2 DEF Online
  <1>5. RosterAgrees'
    BY <1>1, <1>3, <1>4 DEF IInv, RosterAgrees, Keys
  <1>6. NoStalePeerConnection'
    BY <1>1, <1>3, <1>4 DEF IInv, NoStalePeerConnection, Peers
  <1>7. NewAreUnknown'
    BY <1>1, <1>2 DEF IInv, NewAreUnknown
  <1>8. DepartedAreOffline'
    BY <1>1, <1>2 DEF IInv, DepartedAreOffline
  <1>9. PairsAreServed'
    <2> SUFFICES ASSUME NEW ch \in Channel, NEW p \in members[ch], NEW q \in members[ch],
                        p # q
                 PROVE  \/ Told(ch, p, q)' /\ Told(ch, q, p)'
                        \/ Pending(ch, p, q)'
                        \/ Pending(ch, q, p)'
      BY <1>1 DEF PairsAreServed
    <2>1. p \in Client /\ q \in Client /\ p # c /\ q # c
      BY <1>3 DEF IInv, TypeOK
    <2>2. Told(ch, p, q) => Told(ch, p, q)'
      BY <1>1, <1>4, <2>1 DEF Told
    <2>3. Told(ch, q, p) => Told(ch, q, p)'
      BY <1>1, <1>4, <2>1 DEF Told
    <2>4. Pending(ch, p, q) => Pending(ch, p, q)'
      BY <1>1, <2>2 DEF Pending
    <2>5. Pending(ch, q, p) => Pending(ch, q, p)'
      BY <1>1, <2>3 DEF Pending
    <2>6. (Told(ch, p, q) /\ Told(ch, q, p)) \/ Pending(ch, p, q) \/ Pending(ch, q, p)
      BY DEF IInv, PairsAreServed
    <2> QED BY <2>2, <2>3, <2>4, <2>5, <2>6
  <1> QED BY <1>1, <1>5, <1>6, <1>7, <1>8, <1>9, Frame DEF IInv

\* A pair of members stays served if what they were told is not taken back and
\* their loops are where they were, or were disturbed.
LEMMA PairKeeps ==
  ASSUME IInv, NEW ch \in Channel, NEW p \in members[ch], NEW q \in members[ch], p # q,
         Online(p)' => Online(p), Online(q)' => Online(q),
         q \in published[ch][p] => q \in published'[ch][p],
         p \in published[ch][q] => p \in published'[ch][q],
         \A d \in {p, q} :
           /\ media'[ch][d] = media[ch][d]
           /\ hearing'[ch][d] = hearing[ch][d]
           /\ d \in torn[ch] => d \in torn'[ch]
           /\ telling'[ch][d] # telling[ch][d] => d \in torn'[ch] \cup orphans[ch]
  PROVE  \/ Told(ch, p, q)' /\ Told(ch, q, p)'
         \/ Pending(ch, p, q)'
         \/ Pending(ch, q, p)'
  <1>1. Told(ch, p, q) => Told(ch, p, q)'
    BY DEF Told
  <1>2. Told(ch, q, p) => Told(ch, q, p)'
    BY DEF Told
  <1>3. p \in Client /\ q \in Client
    BY DEF IInv, TypeOK
  <1>4. \A d \in {p, q} : d \in orphans[ch] => media[ch][d] = "off"
    BY <1>3 DEF IInv, LoopsAreSane
  <1>5. Pending(ch, p, q) => Pending(ch, p, q)'
    BY <1>1, <1>4 DEF Pending
  <1>6. Pending(ch, q, p) => Pending(ch, q, p)'
    BY <1>2, <1>4 DEF Pending
  <1>7. (Told(ch, p, q) /\ Told(ch, q, p)) \/ Pending(ch, p, q) \/ Pending(ch, q, p)
    BY DEF IInv, PairsAreServed
  <1> QED BY <1>1, <1>2, <1>5, <1>6, <1>7

\* A client that nothing reaches any more has no picture to keep right.
LEMMA UnreachableKeeps ==
  ASSUME IInv, NEW c \in Client, Ticked(c), NEW state \in {"kicked", "removed"},
         Unreachable(c, state), TypeOK'
  PROVE  IInv'
  <1>1. UNCHANGED <<queue, rooms, members, nulls, haunted, leaving, untold,
                    negotiated, subs, media, telling, hearing, orphans, torn, departed>>
    BY DEF Unreachable, roomVars, leaveVars, peerVars, loopVars
  <1>2. TypeOK /\ \A d \in Client : conn'[d] = IF d = c THEN state ELSE conn[d]
    BY DEF Unreachable, IInv, TypeOK
  <1>3. \A ch \in Channel, d \in Client : d # c =>
          /\ d \in acked'[ch] <=> d \in acked[ch]
          /\ told'[ch][d] = told[ch][d] /\ published'[ch][d] = published[ch][d]
          /\ late'[ch][d] = late[ch][d]
    BY <1>2 DEF Unreachable, Dropped, TypeOK
  <1>4. ~Online(c)' /\ \A d \in Client : Online(d)' => Online(d)
    BY <1>2 DEF Online
  <1>5. RosterAgrees'
    BY <1>1, <1>3, <1>4 DEF IInv, RosterAgrees, Keys
  <1>6. NoStalePeerConnection'
    BY <1>1, <1>3, <1>4 DEF IInv, NoStalePeerConnection, Peers
  <1>7. DepartedAreOffline'
    BY <1>1, <1>2 DEF IInv, DepartedAreOffline, Ticked
  <1>8. NewAreUnknown'
    BY <1>1, <1>2, <1>3 DEF IInv, NewAreUnknown
  <1>9. PairsAreServed'
    <2> SUFFICES ASSUME NEW ch \in Channel, NEW p \in members[ch], NEW q \in members[ch],
                        p # q
                 PROVE  \/ Told(ch, p, q)' /\ Told(ch, q, p)'
                        \/ Pending(ch, p, q)'
                        \/ Pending(ch, q, p)'
      BY <1>1 DEF PairsAreServed
    <2>1. p \in Client /\ q \in Client
      BY <1>2 DEF TypeOK
    <2>2. Told(ch, p, q) => Told(ch, p, q)'
      BY <1>3, <1>4, <2>1 DEF Told
    <2>3. Told(ch, q, p) => Told(ch, q, p)'
      BY <1>3, <1>4, <2>1 DEF Told
    <2>4. Pending(ch, p, q) => Pending(ch, p, q)'
      BY <1>1, <2>2 DEF Pending
    <2>5. Pending(ch, q, p) => Pending(ch, q, p)'
      BY <1>1, <2>3 DEF Pending
    <2>6. (Told(ch, p, q) /\ Told(ch, q, p)) \/ Pending(ch, p, q) \/ Pending(ch, q, p)
      BY DEF IInv, PairsAreServed
    <2> QED BY <2>2, <2>3, <2>4, <2>5, <2>6
  <1> QED BY <1>1, <1>5, <1>6, <1>7, <1>8, <1>9, Frame DEF IInv

LEMMA OfflineKeeps ==
  ASSUME IInv, NEW c \in Client, doUserOffline(c), TypeOK' PROVE IInv'
  <1>1. /\ UNCHANGED <<rooms, members, nulls, haunted, leaving, untold,
                       negotiated, subs, media, telling, hearing, orphans, torn,
                       acked, told, published, late>>
        /\ conn[c] = "removed"
        /\ conn' = [conn EXCEPT ![c] = "offline"]
        /\ departed' = [departed EXCEPT ![c] = rooms]
        /\ TypeOK
    BY DEF doUserOffline, roomVars, leaveVars, peerVars, loopVars, viewVars, IInv
  <1>2. \A d \in Client : /\ conn'[d] = IF d = c THEN "offline" ELSE conn[d]
                          /\ departed'[d] = IF d = c THEN rooms ELSE departed[d]
    BY <1>1 DEF TypeOK
  <1>3. \A d \in Client : Online(d)' => Online(d)
    BY <1>2 DEF Online
  <1>8. DepartedAreOffline'
    BY <1>2 DEF IInv, DepartedAreOffline
  <1>9. /\ DOMAIN queue = 1..Len(queue) /\ DOMAIN queue' = 1..Len(queue')
        /\ Len(queue) \in Nat /\ Len(queue') \in Nat /\ Len(queue) <= Len(queue')
    BY <1>1, OfflineQueue, RoomsFinite, LenProperties DEF TypeOK
  <1>10. \A i \in DOMAIN queue' :
           \/ i \in DOMAIN queue /\ queue'[i] = queue[i]
           \/ i > Len(queue) /\ \E ch \in rooms : queue'[i] = Leave(c, ch)
    BY <1>1, <1>9, OfflineQueue
  <1>11. NewAreUnknown'
    <2>1. ASSUME NEW d \in Client, conn'[d] = "new", NEW i \in DOMAIN queue'
          PROVE  queue'[i].client # d
      <3>1. conn[d] = "new" /\ d # c
        BY <1>1, <1>2, <2>1
      <3>2. CASE i \in DOMAIN queue /\ queue'[i] = queue[i]
        BY <3>1, <3>2 DEF IInv, NewAreUnknown
      <3>3. CASE \E ch \in rooms : queue'[i] = Leave(c, ch)
        <4>1. PICK ch \in rooms : queue'[i] = Leave(c, ch)
          BY <3>3
        <4>2. Leave(c, ch).client = c
          BY DEF Leave
        <4> QED BY <3>1, <4>1, <4>2
      <3> QED BY <1>10, <3>2, <3>3
    <2> QED BY <1>1, <1>2, <2>1 DEF IInv, NewAreUnknown
  <1>12. ASSUME NEW d \in Client, NEW dh \in Channel, dh \in departed'[d],
                d \in members'[dh] \/ Queued(Join(d, dh))'
         PROVE  \E i \in DOMAIN queue' :
                  /\ queue'[i] = Leave(d, dh)
                  /\ \A j \in DOMAIN queue' : j > i => queue'[j] # Join(d, dh)
    <2>1. \A j \in DOMAIN queue' : queue'[j] = Join(d, dh) =>
            j \in DOMAIN queue /\ queue[j] = Join(d, dh)
      <3> SUFFICES ASSUME NEW j \in DOMAIN queue', queue'[j] = Join(d, dh)
                   PROVE  j \in DOMAIN queue /\ queue[j] = Join(d, dh)
        OBVIOUS
      <3>1. ~ \E ch \in rooms : queue'[j] = Leave(c, ch)
        <4>1. \A ch \in rooms : Leave(c, ch) # Join(d, dh)
          BY DEF Join, Leave
        <4> QED BY <4>1
      <3> QED BY <1>10, <3>1, Zenon
    <2>2. CASE d = c
      <3>1. PICK i \in DOMAIN queue' : i > Len(queue) /\ queue'[i] = Leave(c, dh)
        <4>1. dh \in rooms
          BY <1>2, <1>12, <2>2
        <4>2. \E i \in 1..Len(queue') : i > Len(queue) /\ queue'[i] = Leave(c, dh)
          BY <1>1, <4>1, OfflineQueue
        <4> QED BY <1>9, <4>2
      <3>2. \A j \in DOMAIN queue' : j > i => queue'[j] # Join(d, dh)
        BY <1>9, <2>1, <3>1
      <3> QED BY <2>2, <3>1, <3>2
    <2>3. CASE d # c
      <3>1. dh \in departed[d] /\ (d \in members[dh] \/ Queued(Join(d, dh)))
        BY <1>1, <1>2, <1>12, <2>1, <2>3 DEF Queued
      <3>2. PICK i \in DOMAIN queue :
              /\ queue[i] = Leave(d, dh)
              /\ \A j \in DOMAIN queue : j > i => queue[j] # Join(d, dh)
        BY <3>1 DEF IInv, DepartureCovered
      <3>3. i \in DOMAIN queue' /\ queue'[i] = Leave(d, dh)
        BY <1>1, <1>9, <3>2, OfflineQueue
      <3> QED BY <2>1, <3>2, <3>3
    <2> QED BY <2>2, <2>3
  <1>13. DepartureCovered'
    BY <1>12 DEF DepartureCovered, Queued
  <1> QED BY <1>1, <1>3, <1>8, <1>11, <1>13, Frame DEF IInv

\* While no LEAVE is under way nobody is leaving, and no loop of it runs.
LEMMA NobodyLeaves ==
  ASSUME IInv, ~Busy, NEW ch \in Channel
  PROVE  leaving[ch] = {} /\ untold[ch] = {}
  BY DEF IInv, OneLeaver, Busy

LEMMA DealJoinKeeps ==
  ASSUME IInv, DealJoin, TypeOK' PROVE IInv'
  <1> DEFINE c == Head(queue).client
             ch == Head(queue).channel
  <1>1. /\ TypeOK /\ TakeEvent("JOIN") /\ ~Busy
        /\ c \in Client /\ ch \in Channel /\ {c} \in SUBSET Client
        /\ Head(queue) = Join(c, ch)
    BY TakeType DEF DealJoin, IInv, TakeEvent
  <1>2. /\ UNCHANGED <<conn, nulls, haunted, leaving, untold, negotiated, subs, media,
                       hearing, orphans, published, late, departed>>
        /\ rooms' = rooms \cup {ch}
        /\ \/ c \notin Keys(ch) /\ members' = [members EXCEPT ![ch] = @ \cup {c}]
           \/ c \in Keys(ch) /\ members' = members
        /\ Disturb(ch, {c}) \/ NotDisturbed
        /\ told' = [told EXCEPT ![ch] = AnnounceOnline(ch, c)]
        /\ acked' = IF Online(c) THEN [acked EXCEPT ![ch] = @ \cup {c}] ELSE acked
    BY DEF DealJoin, leaveVars, peerVars
  <1> HIDE DEF c, ch
  <1>3. \A dh \in Channel :
          /\ members[dh] \subseteq members'[dh]
          /\ members'[dh] \subseteq members[dh] \cup (IF dh = ch THEN {c} ELSE {})
    <2>1. members \in [Channel -> SUBSET Client]
      BY <1>1 DEF TypeOK
    <2>2. CASE members' = members
      BY <2>2
    <2>3. CASE members' = [members EXCEPT ![ch] = @ \cup {c}]
      BY <1>1, <2>1, <2>3
    <2> QED BY <1>2, <2>2, <2>3
  <1>4. c \in members'[ch] \cup nulls[ch]
    <2>1. members \in [Channel -> SUBSET Client]
      BY <1>1 DEF TypeOK
    <2> QED BY <1>1, <1>2, <2>1 DEF Keys
  <1>5. \A dh \in Channel, d \in Client :
          told'[dh][d] = IF dh # ch \/ ~Online(d) THEN told[dh][d]
                         ELSE IF d = c THEN told[dh][d] \cup Keys(dh)
                         ELSE IF d \in Keys(dh) THEN told[dh][d] \cup {c}
                         ELSE told[dh][d]
    <2>1. told \in [Channel -> [Client -> SUBSET Client]]
      BY <1>1 DEF TypeOK
    <2>2. \A dh \in Channel :
            told'[dh] = IF dh = ch THEN AnnounceOnline(ch, c) ELSE told[dh]
      BY <1>1, <1>2, <2>1
    <2> QED BY <1>1, <2>2 DEF AnnounceOnline
  <1>6. \A dh \in Channel, d \in Client :
          d \in acked'[dh] <=> d \in acked[dh] \/ (dh = ch /\ d = c /\ Online(c))
    <2>1. acked \in [Channel -> SUBSET Client]
      BY <1>1 DEF TypeOK
    <2>2. CASE Online(c)
      BY <1>1, <1>2, <2>1, <2>2
    <2>3. CASE ~Online(c)
      BY <1>2, <2>3
    <2> QED BY <2>2, <2>3
  <1>7. \A dh \in Channel : leaving[dh] = {} /\ untold[dh] = {}
    BY <1>1, NobodyLeaves
  <1>8. \A d \in Client : Online(d)' <=> Online(d)
    BY <1>2 DEF Online
  <1>9. /\ \A dh \in Channel, p \in Client :
             /\ telling'[dh][p] \subseteq telling[dh][p] \cup ({c} \ {p})
             /\ p \notin Looping(dh) => telling'[dh][p] = telling[dh][p]
             /\ telling'[dh][p] # telling[dh][p] => p \in torn'[dh] \cup orphans[dh]
        /\ \A dh \in Channel :
             torn[dh] \subseteq torn'[dh] /\ torn'[dh] \subseteq torn[dh] \cup Loops(dh)
    BY <1>1, <1>2, DisturbFacts
  <1>10. \A dh \in Channel : nulls[dh] \subseteq haunted[dh]
    BY DEF IInv, OneLeaver
  <1>11. RoomIffOccupied'
    <2> SUFFICES ASSUME NEW dh \in Channel
                 PROVE  dh \in rooms' <=> members'[dh] \cup nulls[dh] \cup leaving[dh] # {}
      BY <1>2 DEF RoomIffOccupied
    <2>1. dh \in rooms <=> members[dh] \cup nulls[dh] \cup leaving[dh] # {}
      BY DEF IInv, RoomIffOccupied
    <2>2. CASE dh = ch
      BY <1>2, <1>4, <2>2
    <2>3. CASE dh # ch
      BY <1>2, <1>3, <2>1, <2>3
    <2> QED BY <2>2, <2>3
  <1>12. RosterAgrees'
    <2> SUFFICES ASSUME NEW dh \in Channel, NEW d \in Client, Online(d)
                 PROVE  /\ d \in members'[dh] =>
                             d \in acked'[dh] /\ members'[dh] \ {d} \subseteq told'[dh][d]
                        /\ told'[dh][d] \ {d} \subseteq members'[dh] \cup haunted[dh]
                        /\ d \notin members'[dh] \cup nulls[dh] =>
                             d \notin acked'[dh] /\ told'[dh][d] = {}
      BY <1>2, <1>7, <1>8 DEF RosterAgrees, Keys
    <2>1. /\ d \in members[dh] => d \in acked[dh] /\ members[dh] \ {d} \subseteq told[dh][d]
          /\ told[dh][d] \ {d} \subseteq members[dh] \cup haunted[dh]
          /\ d \notin members[dh] \cup nulls[dh] => d \notin acked[dh] /\ told[dh][d] = {}
      BY <1>7 DEF IInv, RosterAgrees, Keys
    <2>2. CASE dh # ch
      <3>1. members'[dh] = members[dh] /\ told'[dh][d] = told[dh][d]
        BY <1>3, <1>5, <2>2
      <3>2. d \in acked'[dh] <=> d \in acked[dh]
        BY <1>6, <2>2
      <3> QED BY <2>1, <3>1, <3>2
    <2>3. CASE dh = ch /\ d = c
      <3>1. told'[dh][d] = told[dh][d] \cup members[dh] \cup nulls[dh] /\ d \in acked'[dh]
        BY <1>5, <1>6, <2>3 DEF Keys
      <3> QED BY <1>3, <1>4, <1>10, <2>1, <2>3, <3>1
    <2>4. CASE dh = ch /\ d # c /\ d \in Keys(dh)
      <3>1. told'[dh][d] = told[dh][d] \cup {c} /\ (d \in acked'[dh] <=> d \in acked[dh])
        BY <1>5, <1>6, <2>4
      <3>2. d \in members'[dh] => d \in members[dh]
        BY <1>3, <2>4
      <3>3. d \in members[dh] \cup nulls[dh]
        BY <2>4 DEF Keys
      <3> QED BY <1>3, <1>4, <1>10, <2>1, <2>4, <3>1, <3>2, <3>3
    <2>5. CASE dh = ch /\ d # c /\ d \notin Keys(dh)
      <3>1. told'[dh][d] = told[dh][d] /\ (d \in acked'[dh] <=> d \in acked[dh])
        BY <1>5, <1>6, <2>5
      <3>2. d \notin members[dh] \cup nulls[dh]
        BY <2>5 DEF Keys
      <3>3. d \notin members'[dh]
        BY <1>3, <2>5, <3>2
      <3> QED BY <2>1, <3>1, <3>2, <3>3
    <2> QED BY <2>2, <2>3, <2>4, <2>5
  <1>13. NoStalePeerConnection'
    <2> SUFFICES ASSUME NEW dh \in Channel, NEW d \in Client, Online(d)
                 PROVE  published[dh][d] \subseteq late[dh][d] \cup
                          (IF d \in members'[dh]
                           THEN (members'[dh] \ {d}) \cup haunted[dh] ELSE {})
      BY <1>2, <1>7, <1>8 DEF NoStalePeerConnection, Peers
    <2>1. published[dh][d] \subseteq late[dh][d] \cup
            (IF d \in members[dh] THEN (members[dh] \ {d}) \cup haunted[dh] ELSE {})
      BY <1>7 DEF IInv, NoStalePeerConnection, Peers
    <2> QED BY <1>3, <2>1
  <1>14. MediaOnlyOfMembers'
    <2> SUFFICES ASSUME NEW dh \in Channel
                 PROVE  /\ negotiated[dh] \cup torn'[dh] \subseteq members'[dh] \cup leaving[dh]
                        /\ \A p \in Client :
                             /\ media[dh][p] # "off" => p \in negotiated[dh]
                             /\ p \notin members'[dh] \cup leaving[dh] => subs[dh][p] = {}
      BY <1>2 DEF MediaOnlyOfMembers, Peers
    <2>1. /\ negotiated[dh] \cup torn[dh] \subseteq members[dh] \cup leaving[dh]
          /\ \A p \in Client :
               /\ media[dh][p] # "off" => p \in negotiated[dh]
               /\ p \notin members[dh] \cup leaving[dh] => subs[dh][p] = {}
      BY DEF IInv, MediaOnlyOfMembers, Peers
    <2>2. Loops(dh) \subseteq negotiated[dh]
      BY <2>1 DEF Loops
    <2> QED BY <1>3, <1>9, <2>1, <2>2
  <1>15. DepartureCovered'
    <2> SUFFICES ASSUME NEW d \in Client, NEW dh \in Channel, dh \in departed'[d],
                        d \in members'[dh] \/ Queued(Join(d, dh))'
                 PROVE  \E i \in DOMAIN queue' :
                          /\ queue'[i] = Leave(d, dh)
                          /\ \A j \in DOMAIN queue' : j > i => queue'[j] # Join(d, dh)
      BY DEF DepartureCovered, Queued
    <2>1. Head(queue) # Leave(d, dh)
      BY <1>1, Distinct
    <2>2. d \in members'[dh] => d \in members[dh] \/ Head(queue) = Join(d, dh)
      BY <1>1, <1>3
    <2> QED BY <1>1, <1>2, <2>1, <2>2, TakeKeeps
  <1>16. NewAreUnknown'
    <2>1. \A d \in Client : conn'[d] = "new" =>
            d # c /\ \A i \in DOMAIN queue' : queue'[i].client # d
      BY <1>1, <1>2, TakeKeeps DEF c
    <2>2. ASSUME NEW d \in Client, conn'[d] = "new", NEW dh \in Channel
          PROVE  /\ d \notin members'[dh] \cup nulls'[dh] \cup leaving'[dh] \cup acked'[dh]
                 /\ told'[dh][d] = {} /\ published'[dh][d] = {} /\ late'[dh][d] = {}
      <3>1. /\ d # c /\ ~Online(d)
            /\ d \notin members[dh] \cup nulls[dh] \cup leaving[dh] \cup acked[dh]
            /\ told[dh][d] = {} /\ published[dh][d] = {} /\ late[dh][d] = {}
        BY <1>2, <2>1, <2>2 DEF IInv, NewAreUnknown, Online
      <3> QED BY <1>2, <1>3, <1>5, <1>6, <3>1
    <2> QED BY <2>1, <2>2 DEF NewAreUnknown
  <1>17. OneLeaver'
    <2>1. \A dh \in Channel : nulls[dh] \cap members'[dh] = {}
      <3> SUFFICES ASSUME NEW dh \in Channel PROVE nulls[dh] \cap members'[dh] = {}
        OBVIOUS
      <3>1. nulls[dh] \cap members[dh] = {}
        BY DEF IInv, OneLeaver
      <3>2. CASE members' = members
        BY <3>1, <3>2
      <3>3. CASE c \notin Keys(ch)
        BY <1>3, <3>1, <3>3 DEF Keys
      <3> QED BY <1>2, <3>2, <3>3
    <2> QED BY <1>2, <1>3, <1>7, <1>10, <2>1 DEF OneLeaver, Keys
  <1>18. LoopsAreSane'
    <2>1. \A dh \in Channel : Looping(dh)' = Looping(dh)
      BY <1>2 DEF Looping, Loops
    <2> QED BY <1>2, <1>9, <2>1 DEF IInv, LoopsAreSane
  <1>19. PairsAreServed'
    <2> SUFFICES ASSUME NEW dh \in Channel, NEW p \in members'[dh], NEW q \in members'[dh],
                        p # q
                 PROVE  \/ Told(dh, p, q)' /\ Told(dh, q, p)'
                        \/ Pending(dh, p, q)'
                        \/ Pending(dh, q, p)'
      BY DEF PairsAreServed
    <2>1. p \in Client /\ q \in Client
      BY DEF TypeOK
    <2>2. CASE p \in members[dh] /\ q \in members[dh]
      BY <1>2, <1>8, <1>9, <2>1, <2>2, PairKeeps
    <2>3. \A d \in Client : d \notin members[dh] => media'[dh][d] = "off"
      BY <1>2, <1>7 DEF IInv, MediaOnlyOfMembers, Peers
    <2>4. CASE p \notin members[dh]
      BY <2>1, <2>3, <2>4 DEF Pending
    <2>5. CASE q \notin members[dh]
      BY <2>1, <2>3, <2>5 DEF Pending
    <2> QED BY <2>2, <2>4, <2>5
  <1>20. DepartedAreOffline'
    BY <1>2, Frame
  <1> QED BY <1>11, <1>12, <1>13, <1>14, <1>15, <1>16, <1>17, <1>18, <1>19, <1>20 DEF IInv

\* The result packet of a LEAVE changes the leaver's view only.
LEMMA LeaveResultFacts ==
  ASSUME TypeOK, NEW ch \in Channel, NEW c \in Client, LeaveResult(ch, c)
  PROVE  \A dh \in Channel, d \in Client :
           IF dh = ch /\ d = c
           THEN /\ d \notin acked'[dh]
                /\ told'[dh][d] = {} /\ published'[dh][d] = {} /\ late'[dh][d] = {}
           ELSE /\ d \in acked'[dh] <=> d \in acked[dh]
                /\ told'[dh][d] = told[dh][d] /\ published'[dh][d] = published[dh][d]
                /\ late'[dh][d] = late[dh][d]
  BY DEF TypeOK, LeaveResult

LEMMA DealLeaveStrangerKeeps ==
  ASSUME IInv, DealLeaveStranger, TypeOK' PROVE IInv'
  <1> DEFINE c == Head(queue).client
             ch == Head(queue).channel
  <1>1. /\ TypeOK /\ TakeEvent("LEAVE") /\ ~Busy
        /\ c \in Client /\ ch \in Channel
        /\ Head(queue) = Leave(c, ch)
    BY TakeType DEF DealLeaveStranger, IInv, TakeEvent
  <1>2. /\ UNCHANGED <<conn, members, leaving, untold, negotiated, subs, media,
                       hearing, orphans, departed>>
        /\ c \notin members[ch]
        /\ nulls' = [nulls EXCEPT ![ch] = @ \ {c}]
        /\ Disturb(ch, {}) \/ NotDisturbed
        /\ LeaveResult(ch, c)
        /\ rooms' = RoomsAfterLeave(ch, Keys(ch) \ {c})
        /\ haunted' = [haunted EXCEPT ![ch] = IF Keys(ch) \ {c} = {} THEN {} ELSE @]
    BY DEF DealLeaveStranger, leaveVars, peerVars
  <1> HIDE DEF c, ch
  <1>3. \A dh \in Channel : nulls'[dh] = IF dh = ch THEN nulls[dh] \ {c} ELSE nulls[dh]
    BY <1>1, <1>2 DEF TypeOK
  <1>4. \A dh \in Channel :
          haunted'[dh] = IF dh = ch /\ Keys(dh) \ {c} = {} THEN {} ELSE haunted[dh]
    BY <1>1, <1>2 DEF TypeOK
  <1>5. \A dh \in Channel, d \in Client :
          IF dh = ch /\ d = c
          THEN /\ d \notin acked'[dh]
               /\ told'[dh][d] = {} /\ published'[dh][d] = {} /\ late'[dh][d] = {}
          ELSE /\ d \in acked'[dh] <=> d \in acked[dh]
               /\ told'[dh][d] = told[dh][d] /\ published'[dh][d] = published[dh][d]
               /\ late'[dh][d] = late[dh][d]
    BY <1>1, <1>2, LeaveResultFacts
  <1>6. \A dh \in Channel : leaving[dh] = {} /\ untold[dh] = {}
    BY <1>1, NobodyLeaves
  <1>7. \A d \in Client : Online(d)' <=> Online(d)
    BY <1>2 DEF Online
  <1>8. /\ \A dh \in Channel, p \in Client :
             /\ telling'[dh][p] \subseteq telling[dh][p]
             /\ telling'[dh][p] # telling[dh][p] => p \in torn'[dh] \cup orphans[dh]
        /\ \A dh \in Channel :
             torn[dh] \subseteq torn'[dh] /\ torn'[dh] \subseteq torn[dh] \cup Loops(dh)
    <2>1. {} \in SUBSET Client
      OBVIOUS
    <2> QED BY <1>1, <1>2, <2>1, DisturbFacts
  <1>9. \A dh \in Channel : nulls[dh] \subseteq haunted[dh]
    BY DEF IInv, OneLeaver
  <1>10. RoomIffOccupied'
    <2> SUFFICES ASSUME NEW dh \in Channel
                 PROVE  dh \in rooms' <=> members[dh] \cup nulls'[dh] # {}
      BY <1>2, <1>6 DEF RoomIffOccupied
    <2>1. dh \in rooms <=> members[dh] \cup nulls[dh] # {}
      BY <1>6 DEF IInv, RoomIffOccupied
    <2>2. CASE dh = ch
      BY <1>2, <1>3, <2>1, <2>2 DEF RoomsAfterLeave, Keys
    <2>3. CASE dh # ch
      BY <1>2, <1>3, <2>1, <2>3 DEF RoomsAfterLeave
    <2> QED BY <2>2, <2>3
  <1>11. RosterAgrees'
    <2> SUFFICES ASSUME NEW dh \in Channel, NEW d \in Client, Online(d)
                 PROVE  /\ d \in members[dh] =>
                             d \in acked'[dh] /\ members[dh] \ {d} \subseteq told'[dh][d]
                        /\ told'[dh][d] \ {d} \subseteq members[dh] \cup haunted'[dh]
                        /\ d \notin members[dh] \cup nulls'[dh] =>
                             d \notin acked'[dh] /\ told'[dh][d] = {}
      BY <1>2, <1>6, <1>7 DEF RosterAgrees, Keys
    <2>1. /\ d \in members[dh] => d \in acked[dh] /\ members[dh] \ {d} \subseteq told[dh][d]
          /\ told[dh][d] \ {d} \subseteq members[dh] \cup haunted[dh]
          /\ d \notin members[dh] \cup nulls[dh] => d \notin acked[dh] /\ told[dh][d] = {}
      BY <1>6 DEF IInv, RosterAgrees, Keys
    <2>2. CASE dh = ch /\ d = c
      BY <1>2, <1>5, <2>2
    <2>3. CASE ~(dh = ch /\ d = c)
      <3>1. (d \in acked'[dh] <=> d \in acked[dh]) /\ told'[dh][d] = told[dh][d]
        BY <1>5, <2>3
      <3>2. d \in nulls'[dh] <=> d \in nulls[dh]
        BY <1>3, <2>3
      <3>3. haunted'[dh] = haunted[dh] \/ d \notin members[dh] \cup nulls[dh]
        BY <1>4, <2>3 DEF Keys
      <3> QED BY <2>1, <3>1, <3>2, <3>3
    <2> QED BY <2>2, <2>3
  <1>12. NoStalePeerConnection'
    <2> SUFFICES ASSUME NEW dh \in Channel, NEW d \in Client, Online(d)
                 PROVE  published'[dh][d] \subseteq late'[dh][d] \cup
                          (IF d \in members[dh]
                           THEN (members[dh] \ {d}) \cup haunted'[dh] ELSE {})
      BY <1>2, <1>6, <1>7 DEF NoStalePeerConnection, Peers
    <2>1. published[dh][d] \subseteq late[dh][d] \cup
            (IF d \in members[dh] THEN (members[dh] \ {d}) \cup haunted[dh] ELSE {})
      BY <1>6 DEF IInv, NoStalePeerConnection, Peers
    <2>2. CASE dh = ch /\ d = c
      BY <1>5, <2>2
    <2>3. CASE ~(dh = ch /\ d = c)
      <3>1. published'[dh][d] = published[dh][d] /\ late'[dh][d] = late[dh][d]
        BY <1>5, <2>3
      <3>2. haunted'[dh] = haunted[dh] \/ d \notin members[dh]
        BY <1>4, <2>3 DEF Keys
      <3> QED BY <2>1, <3>1, <3>2
    <2> QED BY <2>2, <2>3
  <1>13. MediaOnlyOfMembers'
    <2>1. \A dh \in Channel : Loops(dh) \subseteq negotiated[dh]
      BY DEF IInv, MediaOnlyOfMembers, Loops
    <2> QED BY <1>2, <1>8, <2>1 DEF IInv, MediaOnlyOfMembers, Peers
  <1>14. DepartureCovered'
    <2> SUFFICES ASSUME NEW d \in Client, NEW dh \in Channel, dh \in departed'[d],
                        d \in members'[dh] \/ Queued(Join(d, dh))'
                 PROVE  \E i \in DOMAIN queue' :
                          /\ queue'[i] = Leave(d, dh)
                          /\ \A j \in DOMAIN queue' : j > i => queue'[j] # Join(d, dh)
      BY DEF DepartureCovered, Queued
    <2>1. d \in members'[dh] => d \in members[dh] /\ Head(queue) # Leave(d, dh)
      BY <1>1, <1>2, Distinct
    <2> QED BY <1>1, <1>2, <2>1, TakeKeeps
  <1>15. NewAreUnknown'
    <2>1. \A d \in Client : conn'[d] = "new" =>
            d # c /\ \A i \in DOMAIN queue' : queue'[i].client # d
      BY <1>1, <1>2, TakeKeeps DEF c
    <2> QED BY <1>2, <1>3, <1>5, <2>1 DEF IInv, NewAreUnknown
  <1>16. OneLeaver'
    <2> SUFFICES ASSUME NEW dh \in Channel
                 PROVE  nulls'[dh] \cap members[dh] = {} /\ nulls'[dh] \subseteq haunted'[dh]
      BY <1>2, <1>6 DEF OneLeaver
    <2>1. nulls[dh] \cap members[dh] = {}
      BY DEF IInv, OneLeaver
    <2> QED BY <1>3, <1>4, <1>9, <2>1 DEF Keys
  <1>17. LoopsAreSane'
    <2>1. \A dh \in Channel : Looping(dh)' = Looping(dh)
      BY <1>2 DEF Looping, Loops
    <2> QED BY <1>2, <1>8, <2>1 DEF IInv, LoopsAreSane
  <1>18. PairsAreServed'
    <2> SUFFICES ASSUME NEW dh \in Channel, NEW p \in members[dh], NEW q \in members[dh],
                        p # q
                 PROVE  \/ Told(dh, p, q)' /\ Told(dh, q, p)'
                        \/ Pending(dh, p, q)'
                        \/ Pending(dh, q, p)'
      BY <1>2 DEF PairsAreServed
    <2>1. p \in Client /\ q \in Client
      BY <1>1 DEF TypeOK
    <2>2. published'[dh][p] = published[dh][p] /\ published'[dh][q] = published[dh][q]
      BY <1>2, <1>5, <2>1
    <2> QED BY <1>2, <1>7, <1>8, <2>1, <2>2, PairKeeps
  <1>19. DepartedAreOffline'
    BY <1>2, Frame
  <1> QED BY <1>10, <1>11, <1>12, <1>13, <1>14, <1>15, <1>16, <1>17, <1>18, <1>19 DEF IInv

LEMMA DealLeaveKeeps ==
  ASSUME IInv, DealLeave, TypeOK' PROVE IInv'
  <1> DEFINE c == Head(queue).client
             ch == Head(queue).channel
  <1>1. /\ TypeOK /\ TakeEvent("LEAVE") /\ ~Busy
        /\ c \in Client /\ ch \in Channel
        /\ Head(queue) = Leave(c, ch)
    BY TakeType DEF DealLeave, IInv, TakeEvent
  <1>2. /\ UNCHANGED <<conn, rooms, nulls, haunted, negotiated, subs, media,
                       hearing, orphans, acked, told, published, late, departed>>
        /\ c \in members[ch]
        /\ members' = [members EXCEPT ![ch] = @ \ {c}]
        /\ leaving' = [leaving EXCEPT ![ch] = {c}]
        /\ untold' = [untold EXCEPT ![ch] = Keys(ch) \ {c}]
        /\ Disturb(ch, {}) \/ NotDisturbed
    BY DEF DealLeave, peerVars, viewVars
  <1> HIDE DEF c, ch
  <1>3. \A dh \in Channel : members'[dh] = IF dh = ch THEN members[dh] \ {c} ELSE members[dh]
    BY <1>1, <1>2 DEF TypeOK
  <1>4. \A dh \in Channel : leaving[dh] = {} /\ untold[dh] = {}
    BY <1>1, NobodyLeaves
  <1>5. \A dh \in Channel :
          /\ leaving'[dh] = IF dh = ch THEN {c} ELSE {}
          /\ untold'[dh] = IF dh = ch THEN (members[dh] \cup nulls[dh]) \ {c} ELSE {}
    BY <1>1, <1>2, <1>4 DEF TypeOK, Keys
  <1>6. \A d \in Client : Online(d)' <=> Online(d)
    BY <1>2 DEF Online
  <1>7. /\ \A dh \in Channel, p \in Client :
             /\ telling'[dh][p] \subseteq telling[dh][p]
             /\ telling'[dh][p] # telling[dh][p] => p \in torn'[dh] \cup orphans[dh]
        /\ \A dh \in Channel :
             torn[dh] \subseteq torn'[dh] /\ torn'[dh] \subseteq torn[dh] \cup Loops(dh)
    <2>1. {} \in SUBSET Client
      OBVIOUS
    <2> QED BY <1>1, <1>2, <2>1, DisturbFacts
  <1>8. RoomIffOccupied'
    <2> SUFFICES ASSUME NEW dh \in Channel
                 PROVE  dh \in rooms <=> members'[dh] \cup nulls[dh] \cup leaving'[dh] # {}
      BY <1>2 DEF RoomIffOccupied
    <2>1. dh \in rooms <=> members[dh] \cup nulls[dh] # {}
      BY <1>4 DEF IInv, RoomIffOccupied
    <2> QED BY <1>2, <1>3, <1>5, <2>1
  <1>9. RosterAgrees'
    <2> SUFFICES ASSUME NEW dh \in Channel, NEW d \in Client, Online(d)
                 PROVE  /\ d \in members'[dh] =>
                             d \in acked[dh] /\ members'[dh] \ {d} \subseteq told[dh][d]
                        /\ told[dh][d] \ {d} \subseteq members'[dh] \cup haunted[dh]
                             \cup (IF d \in untold'[dh] THEN leaving'[dh] ELSE {})
                        /\ d \notin members'[dh] \cup nulls[dh] \cup leaving'[dh] =>
                             d \notin acked[dh] /\ told[dh][d] = {}
      BY <1>2, <1>6 DEF RosterAgrees, Keys
    <2>1. /\ d \in members[dh] => d \in acked[dh] /\ members[dh] \ {d} \subseteq told[dh][d]
          /\ told[dh][d] \ {d} \subseteq members[dh] \cup haunted[dh]
          /\ d \notin members[dh] \cup nulls[dh] => d \notin acked[dh] /\ told[dh][d] = {}
      BY <1>4 DEF IInv, RosterAgrees, Keys
    <2>2. CASE dh # ch
      BY <1>3, <1>5, <2>1, <2>2
    <2>3. CASE dh = ch /\ d = c
      BY <1>3, <1>5, <2>1, <2>3
    <2>4. CASE dh = ch /\ d # c
      <3>1. /\ members'[dh] = members[dh] \ {c} /\ leaving'[dh] = {c}
            /\ d \in untold'[dh] <=> d \in members[dh] \cup nulls[dh]
        BY <1>3, <1>5, <2>4
      <3> QED BY <2>1, <2>4, <3>1
    <2> QED BY <2>2, <2>3, <2>4
  <1>10. NoStalePeerConnection'
    <2> SUFFICES ASSUME NEW dh \in Channel, NEW d \in Client, Online(d)
                 PROVE  published[dh][d] \subseteq late[dh][d] \cup
                          (IF d \in members'[dh] \cup leaving'[dh]
                           THEN (members'[dh] \ {d}) \cup haunted[dh]
                                  \cup (IF d \in untold'[dh] THEN leaving'[dh] ELSE {})
                           ELSE {})
      BY <1>2, <1>6 DEF NoStalePeerConnection, Peers
    <2>1. published[dh][d] \subseteq late[dh][d] \cup
            (IF d \in members[dh] THEN (members[dh] \ {d}) \cup haunted[dh] ELSE {})
      BY <1>4 DEF IInv, NoStalePeerConnection, Peers
    <2>2. CASE dh # ch
      BY <1>3, <1>5, <2>1, <2>2
    <2>3. CASE dh = ch /\ d = c
      <3>1. members'[dh] \ {d} = members[dh] \ {d} /\ d \in leaving'[dh]
        BY <1>3, <1>5, <2>3
      <3> QED BY <2>1, <3>1
    <2>4. CASE dh = ch /\ d # c
      <3>1. /\ members'[dh] = members[dh] \ {c} /\ leaving'[dh] = {c}
            /\ d \in members[dh] => d \in untold'[dh]
        BY <1>3, <1>5, <2>4
      <3> QED BY <2>1, <2>4, <3>1
    <2> QED BY <2>2, <2>3, <2>4
  <1>11. MediaOnlyOfMembers'
    <2>1. ASSUME NEW dh \in Channel PROVE Peers(dh)' = Peers(dh)
      <3>1. CASE dh = ch
        <4>1. members'[dh] = members[dh] \ {c} /\ leaving'[dh] = {c} /\ leaving[dh] = {}
          BY <1>3, <1>4, <1>5, <3>1
        <4> QED BY <1>2, <3>1, <4>1 DEF Peers
      <3>2. CASE dh # ch
        <4>1. members'[dh] = members[dh] /\ leaving'[dh] = {} /\ leaving[dh] = {}
          BY <1>3, <1>4, <1>5, <3>2
        <4> QED BY <4>1 DEF Peers
      <3> QED BY <3>1, <3>2
    <2>2. \A dh \in Channel : Loops(dh) \subseteq negotiated[dh]
      BY DEF IInv, MediaOnlyOfMembers, Loops
    <2> QED BY <1>2, <1>7, <2>1, <2>2 DEF IInv, MediaOnlyOfMembers
  <1>12. DepartureCovered'
    <2> SUFFICES ASSUME NEW d \in Client, NEW dh \in Channel, dh \in departed'[d],
                        d \in members'[dh] \/ Queued(Join(d, dh))'
                 PROVE  \E i \in DOMAIN queue' :
                          /\ queue'[i] = Leave(d, dh)
                          /\ \A j \in DOMAIN queue' : j > i => queue'[j] # Join(d, dh)
      BY DEF DepartureCovered, Queued
    <2>1. d \in members'[dh] => d \in members[dh] /\ ~(dh = ch /\ d = c)
      BY <1>3
    <2>2. Leave(c, ch) = Leave(d, dh) => c = d /\ ch = dh
      BY <1>1, Distinct
    <2> QED BY <1>1, <1>2, <2>1, <2>2, TakeKeeps
  <1>13. NewAreUnknown'
    <2>1. \A d \in Client : conn'[d] = "new" =>
            d # c /\ \A i \in DOMAIN queue' : queue'[i].client # d
      BY <1>1, <1>2, TakeKeeps DEF c
    <2> QED BY <1>2, <1>3, <1>5, <2>1 DEF IInv, NewAreUnknown
  <1>14. OneLeaver'
    <2>1. \A dh \in Channel : nulls[dh] \cap members[dh] = {} /\ nulls[dh] \subseteq haunted[dh]
      BY DEF IInv, OneLeaver
    <2>2. \A dh, eh \in Channel : leaving'[dh] # {} /\ leaving'[eh] # {} => dh = eh
      BY <1>5
    <2>3. ASSUME NEW dh \in Channel
          PROVE  /\ \A d, e \in leaving'[dh] : d = e
                 /\ leaving'[dh] \cap members'[dh] = {}
                 /\ nulls'[dh] \cap members'[dh] = {}
                 /\ nulls'[dh] \subseteq haunted'[dh]
                 /\ untold'[dh] \subseteq members'[dh] \cup nulls'[dh]
                 /\ leaving'[dh] = {} => untold'[dh] = {}
      <3>1. CASE dh = ch
        <4>1. /\ members'[dh] = members[dh] \ {c} /\ leaving'[dh] = {c}
              /\ untold'[dh] = (members[dh] \cup nulls[dh]) \ {c}
          BY <1>3, <1>5, <3>1
        <4> QED BY <1>2, <2>1, <4>1
      <3>2. CASE dh # ch
        <4>1. members'[dh] = members[dh] /\ leaving'[dh] = {} /\ untold'[dh] = {}
          BY <1>3, <1>5, <3>2
        <4> QED BY <1>2, <2>1, <4>1
      <3> QED BY <3>1, <3>2
    <2> QED BY <2>2, <2>3 DEF OneLeaver, Keys
  <1>15. LoopsAreSane'
    <2>1. \A dh \in Channel : Looping(dh)' = Looping(dh)
      BY <1>2 DEF Looping, Loops
    <2> QED BY <1>2, <1>7, <2>1 DEF IInv, LoopsAreSane
  <1>16. PairsAreServed'
    <2> SUFFICES ASSUME NEW dh \in Channel, NEW p \in members'[dh], NEW q \in members'[dh],
                        p # q
                 PROVE  \/ Told(dh, p, q)' /\ Told(dh, q, p)'
                        \/ Pending(dh, p, q)'
                        \/ Pending(dh, q, p)'
      BY DEF PairsAreServed
    <2>1. p \in Client /\ q \in Client /\ p \in members[dh] /\ q \in members[dh]
      BY <1>1, <1>3 DEF TypeOK
    <2> QED BY <1>2, <1>6, <1>7, <2>1, PairKeeps
  <1>17. DepartedAreOffline'
    BY <1>2, Frame
  <1> QED BY <1>8, <1>9, <1>10, <1>11, <1>12, <1>13, <1>14, <1>15, <1>16, <1>17 DEF IInv

LEMMA DealMediaKeeps ==
  ASSUME IInv, DealMedia, TypeOK' PROVE IInv'
  <1> DEFINE e == Head(queue)
  <1>1. /\ TypeOK /\ TakeEvent("MEDIA")
        /\ e.client \in Client /\ e.channel \in Channel /\ e.target \in Client
        /\ e.type = "MEDIA"
    BY TakeType DEF DealMedia, IInv, TakeEvent
  <1>2. /\ UNCHANGED <<conn, rooms, members, nulls, haunted, leaving, untold, media, telling,
                       hearing, orphans, torn, acked, told, published, late, departed>>
        /\ \/ subs' = subs
           \/ /\ e.target \in members[e.channel]
              /\ subs' = [subs EXCEPT ![e.channel][e.target] = @ \cup {e.client}]
        /\ \/ negotiated' = negotiated
           \/ /\ e.client \in members[e.channel]
              /\ negotiated' = [negotiated EXCEPT ![e.channel] = @ \cup {e.client}]
    BY DEF DealMedia, roomVars, leaveVars, loopVars, viewVars
  <1>3. \A d \in Client : Online(d)' => Online(d)
    BY <1>2 DEF Online
  <1>4. MediaOnlyOfMembers'
    <2> HIDE DEF e
    <2> SUFFICES ASSUME NEW dh \in Channel
                 PROVE  /\ negotiated'[dh] \cup torn[dh] \subseteq members[dh] \cup leaving[dh]
                        /\ \A p \in Client :
                             /\ media[dh][p] # "off" => p \in negotiated'[dh]
                             /\ p \notin members[dh] \cup leaving[dh] => subs'[dh][p] = {}
      BY <1>2 DEF MediaOnlyOfMembers, Peers
    <2>1. /\ negotiated[dh] \cup torn[dh] \subseteq members[dh] \cup leaving[dh]
          /\ \A p \in Client :
               /\ media[dh][p] # "off" => p \in negotiated[dh]
               /\ p \notin members[dh] \cup leaving[dh] => subs[dh][p] = {}
      BY DEF IInv, MediaOnlyOfMembers, Peers
    <2>2. \/ negotiated'[dh] = negotiated[dh]
          \/ negotiated'[dh] = negotiated[dh] \cup {e.client} /\ e.client \in members[dh]
      <3>1. negotiated \in [Channel -> SUBSET Client]
        BY <1>1 DEF TypeOK
      <3> QED BY <1>1, <1>2, <3>1
    <2>3. ASSUME NEW p \in Client, p \notin members[dh] \cup leaving[dh]
          PROVE  subs'[dh][p] = {}
      <3>1. subs[dh][p] = {} /\ subs \in [Channel -> [Client -> SUBSET Client]]
        BY <1>1, <2>1, <2>3 DEF TypeOK
      <3>2. CASE dh # e.channel \/ p # e.target
        BY <1>1, <1>2, <3>1, <3>2
      <3>3. CASE dh = e.channel /\ p = e.target
        BY <1>2, <2>3, <3>1, <3>3
      <3> QED BY <3>2, <3>3
    <2> QED BY <2>1, <2>2, <2>3
  <1>5. NewAreUnknown'
    <2>1. \A d \in Client : conn'[d] = "new" =>
            \A i \in DOMAIN queue' : queue'[i].client # d
      BY <1>1, <1>2, TakeKeeps
    <2> QED BY <1>2, <2>1 DEF IInv, NewAreUnknown
  <1>6. DepartureCovered'
    <2> SUFFICES ASSUME NEW d \in Client, NEW dh \in Channel, dh \in departed'[d],
                        d \in members'[dh] \/ Queued(Join(d, dh))'
                 PROVE  \E i \in DOMAIN queue' :
                          /\ queue'[i] = Leave(d, dh)
                          /\ \A j \in DOMAIN queue' : j > i => queue'[j] # Join(d, dh)
      BY DEF DepartureCovered, Queued
    <2>1. Head(queue) # Leave(d, dh)
      BY <1>1, Distinct
    <2> QED BY <1>1, <1>2, <2>1, TakeKeeps
  <1> QED BY <1>2, <1>3, <1>4, <1>5, <1>6, Frame DEF IInv

\* One turn of onPeerLeaved's loop.
LEMMA TellOfflineKeeps ==
  ASSUME IInv, NEW ch \in Channel, NEW c \in Client, NEW x \in Client,
         TellOffline(ch, c, x), TypeOK'
  PROVE  IInv'
  <1>1. /\ UNCHANGED <<conn, queue, rooms, members, nulls, haunted, leaving, negotiated,
                       media, telling, hearing, orphans, torn, acked, departed>>
        /\ c \in leaving[ch]
        /\ untold' = [untold EXCEPT ![ch] = @ \ {x}]
        /\ subs' = [subs EXCEPT ![ch] = onUnSubscribed(ch, c, x)]
        /\ told' = [told EXCEPT ![ch][x] = @ \ {c}]
        /\ published' = [published EXCEPT ![ch][x] = @ \ {c}]
        /\ late' = [late EXCEPT ![ch][x] = @ \ {c}]
        /\ TypeOK
    BY DEF TellOffline, roomVars, loopVars, IInv
  <1>2. leaving[ch] = {c} /\ c \notin members[ch]
    BY <1>1 DEF IInv, OneLeaver
  <1>3. \A dh \in Channel : untold'[dh] = IF dh = ch THEN untold[dh] \ {x} ELSE untold[dh]
    BY <1>1 DEF TypeOK
  <1>4. \A dh \in Channel, d \in Client :
          IF dh = ch /\ d = x
          THEN /\ told'[dh][d] = told[dh][d] \ {c}
               /\ published'[dh][d] = published[dh][d] \ {c}
               /\ late'[dh][d] = late[dh][d] \ {c}
          ELSE /\ told'[dh][d] = told[dh][d] /\ published'[dh][d] = published[dh][d]
               /\ late'[dh][d] = late[dh][d]
    BY <1>1 DEF TypeOK
  <1>5. \A dh \in Channel, d \in Client : subs'[dh][d] \subseteq subs[dh][d]
    <2>1. \A dh \in Channel :
            subs'[dh] = IF dh = ch THEN onUnSubscribed(ch, c, x) ELSE subs[dh]
      BY <1>1 DEF TypeOK
    <2>2. \A d \in Client : onUnSubscribed(ch, c, x)[d] \subseteq subs[ch][d]
      BY DEF onUnSubscribed
    <2> QED BY <2>1, <2>2
  <1>6. \A d \in Client : Online(d)' <=> Online(d)
    BY <1>1 DEF Online
  <1>7. RosterAgrees'
    <2> SUFFICES ASSUME NEW dh \in Channel, NEW d \in Client, Online(d)
                 PROVE  /\ d \in members[dh] =>
                             d \in acked[dh] /\ members[dh] \ {d} \subseteq told'[dh][d]
                        /\ told'[dh][d] \ {d} \subseteq members[dh] \cup haunted[dh]
                             \cup (IF d \in untold'[dh] THEN leaving[dh] ELSE {})
                        /\ d \notin members[dh] \cup nulls[dh] \cup leaving[dh] =>
                             d \notin acked[dh] /\ told'[dh][d] = {}
      BY <1>1, <1>6 DEF RosterAgrees, Keys
    <2>1. /\ d \in members[dh] => d \in acked[dh] /\ members[dh] \ {d} \subseteq told[dh][d]
          /\ told[dh][d] \ {d} \subseteq members[dh] \cup haunted[dh]
               \cup (IF d \in untold[dh] THEN leaving[dh] ELSE {})
          /\ d \notin members[dh] \cup nulls[dh] \cup leaving[dh] =>
               d \notin acked[dh] /\ told[dh][d] = {}
      BY DEF IInv, RosterAgrees, Keys
    <2>2. CASE dh = ch /\ d = x
      <3>1. told'[dh][d] = told[dh][d] \ {c}
        BY <1>4, <2>2
      <3> QED BY <1>2, <2>1, <2>2, <3>1
    <2>3. CASE ~(dh = ch /\ d = x)
      <3>1. told'[dh][d] = told[dh][d] /\ (d \in untold'[dh] <=> d \in untold[dh])
        BY <1>3, <1>4, <2>3
      <3> QED BY <2>1, <3>1
    <2> QED BY <2>2, <2>3
  <1>8. NoStalePeerConnection'
    <2> SUFFICES ASSUME NEW dh \in Channel, NEW d \in Client, Online(d)
                 PROVE  published'[dh][d] \subseteq late'[dh][d] \cup
                          (IF d \in Peers(dh)
                           THEN (members[dh] \ {d}) \cup haunted[dh]
                                  \cup (IF d \in untold'[dh] THEN leaving[dh] ELSE {})
                           ELSE {})
      BY <1>1, <1>6 DEF NoStalePeerConnection, Peers
    <2>1. published[dh][d] \subseteq late[dh][d] \cup
            (IF d \in Peers(dh)
             THEN (members[dh] \ {d}) \cup haunted[dh]
                    \cup (IF d \in untold[dh] THEN leaving[dh] ELSE {})
             ELSE {})
      BY DEF IInv, NoStalePeerConnection
    <2>2. CASE dh = ch /\ d = x
      <3>1. published'[dh][d] = published[dh][d] \ {c} /\ late'[dh][d] = late[dh][d] \ {c}
        BY <1>4, <2>2
      <3> QED BY <1>2, <2>1, <2>2, <3>1
    <2>3. CASE ~(dh = ch /\ d = x)
      <3>1. /\ published'[dh][d] = published[dh][d] /\ late'[dh][d] = late[dh][d]
            /\ d \in untold'[dh] <=> d \in untold[dh]
        BY <1>3, <1>4, <2>3
      <3> QED BY <2>1, <3>1
    <2> QED BY <2>2, <2>3
  <1>9. MediaOnlyOfMembers'
    BY <1>1, <1>5 DEF IInv, MediaOnlyOfMembers, Peers
  <1>10. NewAreUnknown'
    BY <1>1, <1>4 DEF IInv, NewAreUnknown
  <1>11. OneLeaver'
    BY <1>1, <1>3 DEF IInv, OneLeaver, Keys
  <1>12. PairsAreServed'
    <2> SUFFICES ASSUME NEW dh \in Channel, NEW p \in members[dh], NEW q \in members[dh],
                        p # q
                 PROVE  \/ Told(dh, p, q)' /\ Told(dh, q, p)'
                        \/ Pending(dh, p, q)'
                        \/ Pending(dh, q, p)'
      BY <1>1 DEF PairsAreServed
    <2>1. p \in Client /\ q \in Client /\ (dh = ch => p # c /\ q # c)
      BY <1>1, <1>2 DEF TypeOK
    <2>2. /\ q \in published[dh][p] => q \in published'[dh][p]
          /\ p \in published[dh][q] => p \in published'[dh][q]
      BY <1>4, <2>1
    <2> QED BY <1>1, <1>6, <2>1, <2>2, PairKeeps
  <1> QED BY <1>1, <1>7, <1>8, <1>9, <1>10, <1>11, <1>12, Frame DEF IInv

\* The end of onPeerLeaved: what is left of the leaver is the loop of an orphan.
LEMMA LeaveEndsKeeps ==
  ASSUME IInv, NEW ch \in Channel, NEW c \in Client, LeaveEnds(ch, c), TypeOK'
  PROVE  IInv'
  <1>1. /\ UNCHANGED <<conn, queue, members, nulls, untold, telling, hearing, departed>>
        /\ c \in leaving[ch] /\ untold[ch] = {}
        /\ leaving' = [leaving EXCEPT ![ch] = {}]
        /\ orphans' = [orphans EXCEPT ![ch] = @ \cup ({c} \cap Loops(ch))]
        /\ negotiated' = [negotiated EXCEPT ![ch] = @ \ {c}]
        /\ media' = [media EXCEPT ![ch][c] = "off"]
        /\ torn' = [torn EXCEPT ![ch] = @ \ {c}]
        /\ subs' = [subs EXCEPT ![ch][c] = {}]
        /\ rooms' = RoomsAfterLeave(ch, Keys(ch))
        /\ haunted' = [haunted EXCEPT ![ch] = IF Keys(ch) = {} THEN {} ELSE @]
        /\ LeaveResult(ch, c)
        /\ TypeOK
    BY DEF LeaveEnds, DestroyPeer, IInv
  <1>2. leaving[ch] = {c} /\ c \notin members[ch]
    BY <1>1 DEF IInv, OneLeaver
  <1>3. \A dh \in Channel :
          /\ leaving'[dh] = {}
          /\ dh # ch => leaving[dh] = {} /\ untold[dh] = {}
    <2>1. \A dh \in Channel : dh # ch => leaving[dh] = {} /\ untold[dh] = {}
      BY <1>1 DEF IInv, OneLeaver
    <2> QED BY <1>1, <2>1 DEF TypeOK
  <1>4. \A dh \in Channel : untold[dh] = {}
    BY <1>1, <1>3
  <1>5. \A dh \in Channel :
          /\ haunted'[dh] = IF dh = ch /\ Keys(dh) = {} THEN {} ELSE haunted[dh]
          /\ negotiated'[dh] = IF dh = ch THEN negotiated[dh] \ {c} ELSE negotiated[dh]
          /\ torn'[dh] = IF dh = ch THEN torn[dh] \ {c} ELSE torn[dh]
          /\ orphans'[dh] = IF dh = ch THEN orphans[dh] \cup ({c} \cap Loops(dh))
                            ELSE orphans[dh]
    <2>1. /\ haunted \in [Channel -> SUBSET Client] /\ negotiated \in [Channel -> SUBSET Client]
          /\ torn \in [Channel -> SUBSET Client] /\ orphans \in [Channel -> SUBSET Client]
      BY <1>1 DEF TypeOK
    <2>2. \A dh \in Channel :
            haunted'[dh] = IF dh = ch /\ Keys(dh) = {} THEN {} ELSE haunted[dh]
      BY <1>1, <2>1
    <2>3. \A dh \in Channel :
            /\ negotiated'[dh] = IF dh = ch THEN negotiated[dh] \ {c} ELSE negotiated[dh]
            /\ torn'[dh] = IF dh = ch THEN torn[dh] \ {c} ELSE torn[dh]
      BY <1>1, <2>1
    <2>4. \A dh \in Channel :
            orphans'[dh] = IF dh = ch THEN orphans[dh] \cup ({c} \cap Loops(dh))
                           ELSE orphans[dh]
      BY <1>1, <2>1
    <2> QED BY <2>2, <2>3, <2>4
  <1>6. \A dh \in Channel, d \in Client :
          /\ media'[dh][d] = IF dh = ch /\ d = c THEN "off" ELSE media[dh][d]
          /\ subs'[dh][d] = IF dh = ch /\ d = c THEN {} ELSE subs[dh][d]
    BY <1>1 DEF TypeOK
  <1>7. \A dh \in Channel, d \in Client :
          IF dh = ch /\ d = c
          THEN /\ d \notin acked'[dh]
               /\ told'[dh][d] = {} /\ published'[dh][d] = {} /\ late'[dh][d] = {}
          ELSE /\ d \in acked'[dh] <=> d \in acked[dh]
               /\ told'[dh][d] = told[dh][d] /\ published'[dh][d] = published[dh][d]
               /\ late'[dh][d] = late[dh][d]
    BY <1>1, LeaveResultFacts
  <1>8. \A d \in Client : Online(d)' <=> Online(d)
    BY <1>1 DEF Online
  <1>9. RoomIffOccupied'
    <2> SUFFICES ASSUME NEW dh \in Channel
                 PROVE  dh \in rooms' <=> members[dh] \cup nulls[dh] # {}
      BY <1>1, <1>3 DEF RoomIffOccupied
    <2>1. CASE dh = ch
      BY <1>1, <2>1 DEF RoomsAfterLeave, Keys
    <2>2. CASE dh # ch
      <3>1. dh \in rooms <=> members[dh] \cup nulls[dh] # {}
        BY <1>3, <2>2 DEF IInv, RoomIffOccupied
      <3> QED BY <1>1, <2>2, <3>1 DEF RoomsAfterLeave
    <2> QED BY <2>1, <2>2
  <1>10. RosterAgrees'
    <2> SUFFICES ASSUME NEW dh \in Channel, NEW d \in Client, Online(d)
                 PROVE  /\ d \in members[dh] =>
                             d \in acked'[dh] /\ members[dh] \ {d} \subseteq told'[dh][d]
                        /\ told'[dh][d] \ {d} \subseteq members[dh] \cup haunted'[dh]
                        /\ d \notin members[dh] \cup nulls[dh] =>
                             d \notin acked'[dh] /\ told'[dh][d] = {}
      BY <1>1, <1>3, <1>4, <1>8 DEF RosterAgrees, Keys
    <2>1. /\ d \in members[dh] => d \in acked[dh] /\ members[dh] \ {d} \subseteq told[dh][d]
          /\ told[dh][d] \ {d} \subseteq members[dh] \cup haunted[dh]
          /\ d \notin members[dh] \cup nulls[dh] \cup leaving[dh] =>
               d \notin acked[dh] /\ told[dh][d] = {}
      BY <1>4 DEF IInv, RosterAgrees, Keys
    <2>2. CASE dh = ch /\ d = c
      BY <1>2, <1>7, <2>2
    <2>3. CASE ~(dh = ch /\ d = c)
      <3>1. (d \in acked'[dh] <=> d \in acked[dh]) /\ told'[dh][d] = told[dh][d]
        BY <1>7, <2>3
      <3>2. d \notin leaving[dh]
        BY <1>2, <1>3, <2>3
      <3>3. haunted'[dh] = haunted[dh] \/ d \notin members[dh] \cup nulls[dh]
        BY <1>5 DEF Keys
      <3> QED BY <2>1, <3>1, <3>2, <3>3
    <2> QED BY <2>2, <2>3
  <1>11. NoStalePeerConnection'
    <2> SUFFICES ASSUME NEW dh \in Channel, NEW d \in Client, Online(d)
                 PROVE  published'[dh][d] \subseteq late'[dh][d] \cup
                          (IF d \in members[dh]
                           THEN (members[dh] \ {d}) \cup haunted'[dh] ELSE {})
      BY <1>1, <1>3, <1>4, <1>8 DEF NoStalePeerConnection, Peers
    <2>1. published[dh][d] \subseteq late[dh][d] \cup
            (IF d \in members[dh] \cup leaving[dh]
             THEN (members[dh] \ {d}) \cup haunted[dh] ELSE {})
      BY <1>4 DEF IInv, NoStalePeerConnection, Peers
    <2>2. CASE dh = ch /\ d = c
      BY <1>7, <2>2
    <2>3. CASE ~(dh = ch /\ d = c)
      <3>1. published'[dh][d] = published[dh][d] /\ late'[dh][d] = late[dh][d]
        BY <1>7, <2>3
      <3>2. d \notin leaving[dh]
        BY <1>2, <1>3, <2>3
      <3>3. haunted'[dh] = haunted[dh] \/ d \notin members[dh]
        BY <1>5 DEF Keys
      <3> QED BY <2>1, <3>1, <3>2, <3>3
    <2> QED BY <2>2, <2>3
  <1>12. MediaOnlyOfMembers'
    <2> SUFFICES ASSUME NEW dh \in Channel
                 PROVE  /\ negotiated'[dh] \cup torn'[dh] \subseteq members[dh]
                        /\ \A p \in Client :
                             /\ media'[dh][p] # "off" => p \in negotiated'[dh]
                             /\ p \notin members[dh] => subs'[dh][p] = {}
      BY <1>1, <1>3 DEF MediaOnlyOfMembers, Peers
    <2>1. /\ negotiated[dh] \cup torn[dh] \subseteq members[dh] \cup leaving[dh]
          /\ \A p \in Client :
               /\ media[dh][p] # "off" => p \in negotiated[dh]
               /\ p \notin members[dh] \cup leaving[dh] => subs[dh][p] = {}
      BY DEF IInv, MediaOnlyOfMembers, Peers
    <2>2. CASE dh = ch
      <3>1. /\ negotiated'[dh] = negotiated[dh] \ {c} /\ torn'[dh] = torn[dh] \ {c}
            /\ leaving[dh] = {c}
        BY <1>2, <1>5, <2>2
      <3>2. \A p \in Client :
              /\ media'[dh][p] # "off" => p # c /\ media[dh][p] # "off"
              /\ subs'[dh][p] = IF p = c THEN {} ELSE subs[dh][p]
        BY <1>6, <2>2
      <3> QED BY <2>1, <3>1, <3>2
    <2>3. CASE dh # ch
      BY <1>3, <1>5, <1>6, <2>1, <2>3
    <2> QED BY <2>2, <2>3
  <1>13. NewAreUnknown'
    <2> SUFFICES ASSUME NEW d \in Client, conn[d] = "new", NEW dh \in Channel
                 PROVE  /\ d \notin members[dh] \cup nulls[dh] \cup leaving'[dh] \cup acked'[dh]
                        /\ told'[dh][d] = {} /\ published'[dh][d] = {} /\ late'[dh][d] = {}
      BY <1>1 DEF IInv, NewAreUnknown
    <2>1. /\ d \notin members[dh] \cup nulls[dh] \cup leaving[dh] \cup acked[dh]
          /\ told[dh][d] = {} /\ published[dh][d] = {} /\ late[dh][d] = {}
      BY DEF IInv, NewAreUnknown
    <2> QED BY <1>3, <1>7, <2>1
  <1>14. OneLeaver'
    <2> SUFFICES ASSUME NEW dh \in Channel
                 PROVE  nulls[dh] \cap members[dh] = {} /\ nulls[dh] \subseteq haunted'[dh]
      BY <1>1, <1>3, <1>4 DEF OneLeaver
    <2>1. nulls[dh] \cap members[dh] = {} /\ nulls[dh] \subseteq haunted[dh]
      BY DEF IInv, OneLeaver
    <2> QED BY <1>5, <2>1 DEF Keys
  <1>15. LoopsAreSane'
    <2> SUFFICES ASSUME NEW dh \in Channel, NEW p \in Client
                 PROVE  /\ p \notin telling[dh][p] \cup hearing[dh][p]
                        /\ telling[dh][p] \cup hearing[dh][p] # {} =>
                             media'[dh][p] = "loop" \/ p \in orphans'[dh]
                        /\ p \in orphans'[dh] => media'[dh][p] = "off"
                        /\ \A x, y \in hearing[dh][p] : x = y
      BY <1>1 DEF LoopsAreSane, Looping, Loops
    <2>1. /\ p \notin telling[dh][p] \cup hearing[dh][p]
          /\ telling[dh][p] \cup hearing[dh][p] # {} =>
               media[dh][p] = "loop" \/ p \in orphans[dh]
          /\ p \in orphans[dh] => media[dh][p] = "off"
          /\ \A x, y \in hearing[dh][p] : x = y
      BY DEF IInv, LoopsAreSane, Looping, Loops
    <2>2. CASE dh = ch /\ p = c
      <3>1. /\ media'[dh][p] = "off"
            /\ media[dh][p] = "loop" \/ p \in orphans[dh] => p \in orphans'[dh]
        BY <1>5, <1>6, <2>2 DEF Loops
      <3> QED BY <2>1, <3>1
    <2>3. CASE ~(dh = ch /\ p = c)
      <3>1. media'[dh][p] = media[dh][p] /\ (p \in orphans'[dh] <=> p \in orphans[dh])
        BY <1>5, <1>6, <2>3
      <3> QED BY <2>1, <3>1
    <2> QED BY <2>2, <2>3
  <1>16. PairsAreServed'
    <2> SUFFICES ASSUME NEW dh \in Channel, NEW p \in members[dh], NEW q \in members[dh],
                        p # q
                 PROVE  \/ Told(dh, p, q)' /\ Told(dh, q, p)'
                        \/ Pending(dh, p, q)'
                        \/ Pending(dh, q, p)'
      BY <1>1 DEF PairsAreServed
    <2>1. p \in Client /\ q \in Client
      BY <1>1 DEF TypeOK
    <2>2. ~(dh = ch /\ p = c) /\ ~(dh = ch /\ q = c)
      BY <1>2
    <2>3. \A d \in Client : ~(dh = ch /\ d = c) =>
            /\ media'[dh][d] = media[dh][d] /\ published'[dh][d] = published[dh][d]
            /\ d \in torn[dh] => d \in torn'[dh]
      BY <1>5, <1>6, <1>7
    <2> QED BY <1>1, <1>8, <2>1, <2>2, <2>3, PairKeeps
  <1> QED BY <1>1, <1>9, <1>10, <1>11, <1>12, <1>13, <1>14, <1>15, <1>16, Frame DEF IInv

\* The loop of BroadcastJoinChannel begins.
LEMMA BroadcastKeeps ==
  ASSUME IInv, NEW ch \in Channel, NEW p \in Client, onJoinedChannel(ch, p),
         BroadcastJoinChannel(ch, p), TypeOK'
  PROVE  IInv'
  <1>1. /\ UNCHANGED <<conn, queue, rooms, members, nulls, haunted, leaving, untold,
                       negotiated, subs, hearing, orphans, torn, acked, told, published,
                       late, departed>>
        /\ p \in negotiated[ch] /\ p \notin orphans[ch] /\ media[ch][p] = "off"
        /\ p \in members[ch]
        /\ media' = [media EXCEPT ![ch][p] = "loop"]
        /\ telling' = [telling EXCEPT ![ch][p] = Keys(ch) \ {p}]
        /\ TypeOK
    BY DEF onJoinedChannel, BroadcastJoinChannel, peerVars, viewVars, IInv
  <1>2. \A dh \in Channel, d \in Client :
          /\ media'[dh][d] = IF dh = ch /\ d = p THEN "loop" ELSE media[dh][d]
          /\ telling'[dh][d] = IF dh = ch /\ d = p THEN Keys(ch) \ {p} ELSE telling[dh][d]
    BY <1>1 DEF TypeOK
  <1>3. \A d \in Client : Online(d)' <=> Online(d)
    BY <1>1 DEF Online
  <1>4. MediaOnlyOfMembers'
    BY <1>1, <1>2 DEF IInv, MediaOnlyOfMembers, Peers
  <1>5. LoopsAreSane'
    <2> SUFFICES ASSUME NEW dh \in Channel, NEW d \in Client
                 PROVE  /\ d \notin telling'[dh][d] \cup hearing[dh][d]
                        /\ telling'[dh][d] \cup hearing[dh][d] # {} =>
                             media'[dh][d] = "loop" \/ d \in orphans[dh]
                        /\ d \in orphans[dh] => media'[dh][d] = "off"
                        /\ \A x, y \in hearing[dh][d] : x = y
      BY <1>1 DEF LoopsAreSane, Looping, Loops
    <2>1. /\ d \notin telling[dh][d] \cup hearing[dh][d]
          /\ telling[dh][d] \cup hearing[dh][d] # {} =>
               media[dh][d] = "loop" \/ d \in orphans[dh]
          /\ d \in orphans[dh] => media[dh][d] = "off"
          /\ \A x, y \in hearing[dh][d] : x = y
      BY DEF IInv, LoopsAreSane, Looping, Loops
    <2>2. CASE dh = ch /\ d = p
      BY <1>1, <1>2, <2>1, <2>2
    <2>3. CASE ~(dh = ch /\ d = p)
      BY <1>2, <2>1, <2>3
    <2> QED BY <2>2, <2>3
  <1>6. PairsAreServed'
    <2> SUFFICES ASSUME NEW dh \in Channel, NEW q \in members[dh], NEW r \in members[dh],
                        q # r
                 PROVE  \/ Told(dh, q, r)' /\ Told(dh, r, q)'
                        \/ Pending(dh, q, r)'
                        \/ Pending(dh, r, q)'
      BY <1>1 DEF PairsAreServed
    <2>1. q \in Client /\ r \in Client /\ q \in Keys(dh) /\ r \in Keys(dh)
      BY <1>1 DEF TypeOK, Keys
    <2>2. CASE dh = ch /\ q = p
      BY <1>2, <2>1, <2>2 DEF Pending
    <2>3. CASE dh = ch /\ r = p
      BY <1>2, <2>1, <2>3 DEF Pending
    <2>4. CASE ~(dh = ch /\ q = p) /\ ~(dh = ch /\ r = p)
      <3>1. \A d \in {q, r} : media'[dh][d] = media[dh][d] /\ telling'[dh][d] = telling[dh][d]
        BY <1>2, <2>1, <2>4
      <3> QED BY <1>1, <1>3, <2>1, <3>1, PairKeeps
    <2> QED BY <2>2, <2>3, <2>4
  <1> QED BY <1>1, <1>3, <1>4, <1>5, <1>6, Frame DEF IInv

\* m_Clients[p] inserts a null entry for the leaver p.
LEMMA NullEntryKeeps ==
  ASSUME IInv, NEW ch \in Channel, NEW p \in Client, onJoinedChannel(ch, p),
         BroadcastJoinChannelNull(ch, p), TypeOK'
  PROVE  IInv'
  <1>1. /\ UNCHANGED <<conn, queue, rooms, members, leaving, negotiated, subs, hearing,
                       orphans, acked, told, published, late, departed>>
        /\ p \in negotiated[ch] /\ p \notin orphans[ch] /\ media[ch][p] = "off"
        /\ p \notin members[ch] /\ {p} \in SUBSET Client
        /\ nulls' = [nulls EXCEPT ![ch] = @ \cup {p}]
        /\ haunted' = [haunted EXCEPT ![ch] = @ \cup {p}]
        /\ media' = [media EXCEPT ![ch][p] = "done"]
        /\ Disturb(ch, {p}) \/ NotDisturbed
        /\ TypeOK
    BY DEF onJoinedChannel, BroadcastJoinChannelNull, peerVars, viewVars, IInv
  <1>2. PICK u \in SUBSET (untold[ch] \cup {p}) : untold' = [untold EXCEPT ![ch] = u]
    BY DEF BroadcastJoinChannelNull
  <1>3. p \in leaving[ch] /\ leaving[ch] = {p}
    <2>1. p \in leaving[ch]
      BY <1>1 DEF IInv, MediaOnlyOfMembers, Peers
    <2> QED BY <2>1 DEF IInv, OneLeaver
  <1>4. \A dh \in Channel :
          /\ nulls'[dh] = IF dh = ch THEN nulls[dh] \cup {p} ELSE nulls[dh]
          /\ haunted'[dh] = IF dh = ch THEN haunted[dh] \cup {p} ELSE haunted[dh]
          /\ untold'[dh] = IF dh = ch THEN u ELSE untold[dh]
    BY <1>1, <1>2 DEF TypeOK
  <1>5. \A dh \in Channel, d \in Client :
          media'[dh][d] = IF dh = ch /\ d = p THEN "done" ELSE media[dh][d]
    BY <1>1 DEF TypeOK
  <1>6. /\ \A dh \in Channel, d \in Client :
             /\ telling'[dh][d] \subseteq telling[dh][d] \cup ({p} \ {d})
             /\ d \notin Looping(dh) => telling'[dh][d] = telling[dh][d]
             /\ telling'[dh][d] # telling[dh][d] => d \in torn'[dh] \cup orphans[dh]
        /\ \A dh \in Channel :
             torn[dh] \subseteq torn'[dh] /\ torn'[dh] \subseteq torn[dh] \cup Loops(dh)
    BY <1>1, DisturbFacts
  <1>7. \A d \in Client : Online(d)' <=> Online(d)
    BY <1>1 DEF Online
  <1>8. RoomIffOccupied'
    <2> SUFFICES ASSUME NEW dh \in Channel
                 PROVE  dh \in rooms <=> members[dh] \cup nulls'[dh] \cup leaving[dh] # {}
      BY <1>1 DEF RoomIffOccupied
    <2>1. dh \in rooms <=> members[dh] \cup nulls[dh] \cup leaving[dh] # {}
      BY DEF IInv, RoomIffOccupied
    <2> QED BY <1>3, <1>4, <2>1
  <1>9. RosterAgrees'
    <2> SUFFICES ASSUME NEW dh \in Channel, NEW d \in Client, Online(d)
                 PROVE  /\ d \in members[dh] =>
                             d \in acked[dh] /\ members[dh] \ {d} \subseteq told[dh][d]
                        /\ told[dh][d] \ {d} \subseteq members[dh] \cup haunted'[dh]
                             \cup (IF d \in untold'[dh] THEN leaving[dh] ELSE {})
                        /\ d \notin members[dh] \cup nulls'[dh] \cup leaving[dh] =>
                             d \notin acked[dh] /\ told[dh][d] = {}
      BY <1>1, <1>7 DEF RosterAgrees, Keys
    <2>1. /\ d \in members[dh] => d \in acked[dh] /\ members[dh] \ {d} \subseteq told[dh][d]
          /\ told[dh][d] \ {d} \subseteq members[dh] \cup haunted[dh]
               \cup (IF d \in untold[dh] THEN leaving[dh] ELSE {})
          /\ d \notin members[dh] \cup nulls[dh] \cup leaving[dh] =>
               d \notin acked[dh] /\ told[dh][d] = {}
      BY DEF IInv, RosterAgrees, Keys
    <2>2. CASE dh = ch
      <3>1. nulls[dh] \subseteq nulls'[dh] /\ haunted'[dh] = haunted[dh] \cup leaving[dh]
        BY <1>3, <1>4, <2>2
      <3> QED BY <2>1, <3>1
    <2>3. CASE dh # ch
      <3>1. /\ nulls'[dh] = nulls[dh] /\ haunted'[dh] = haunted[dh]
            /\ untold'[dh] = untold[dh]
        BY <1>4, <2>3
      <3> QED BY <2>1, <3>1
    <2> QED BY <2>2, <2>3
  <1>10. NoStalePeerConnection'
    <2> SUFFICES ASSUME NEW dh \in Channel, NEW d \in Client, Online(d)
                 PROVE  published[dh][d] \subseteq late[dh][d] \cup
                          (IF d \in Peers(dh)
                           THEN (members[dh] \ {d}) \cup haunted'[dh]
                                  \cup (IF d \in untold'[dh] THEN leaving[dh] ELSE {})
                           ELSE {})
      BY <1>1, <1>7 DEF NoStalePeerConnection, Peers
    <2>1. published[dh][d] \subseteq late[dh][d] \cup
            (IF d \in Peers(dh)
             THEN (members[dh] \ {d}) \cup haunted[dh]
                    \cup (IF d \in untold[dh] THEN leaving[dh] ELSE {})
             ELSE {})
      BY DEF IInv, NoStalePeerConnection
    <2>2. CASE dh = ch
      <3>1. haunted'[dh] = haunted[dh] \cup leaving[dh]
        BY <1>3, <1>4, <2>2
      <3> QED BY <2>1, <3>1
    <2>3. CASE dh # ch
      <3>1. haunted'[dh] = haunted[dh] /\ untold'[dh] = untold[dh]
        BY <1>4, <2>3
      <3> QED BY <2>1, <3>1
    <2> QED BY <2>2, <2>3
  <1>11. MediaOnlyOfMembers'
    <2>1. \A dh \in Channel : Loops(dh) \subseteq negotiated[dh]
      BY DEF IInv, MediaOnlyOfMembers, Loops
    <2> QED BY <1>1, <1>5, <1>6, <2>1 DEF IInv, MediaOnlyOfMembers, Peers
  <1>12. NewAreUnknown'
    <2>1. conn[p] # "new"
      BY <1>3 DEF IInv, NewAreUnknown
    <2> QED BY <1>1, <1>4, <2>1 DEF IInv, NewAreUnknown
  <1>13. OneLeaver'
    <2>1. ASSUME NEW dh \in Channel
          PROVE  /\ nulls'[dh] \cap members[dh] = {}
                 /\ nulls'[dh] \subseteq haunted'[dh]
                 /\ untold'[dh] \subseteq members[dh] \cup nulls'[dh]
                 /\ leaving[dh] = {} => untold'[dh] = {}
      <3>1. /\ nulls[dh] \cap members[dh] = {}
            /\ nulls[dh] \subseteq haunted[dh]
            /\ untold[dh] \subseteq members[dh] \cup nulls[dh]
            /\ leaving[dh] = {} => untold[dh] = {}
        BY DEF IInv, OneLeaver, Keys
      <3>2. CASE dh = ch
        <4>1. /\ nulls'[dh] = nulls[dh] \cup {p} /\ haunted'[dh] = haunted[dh] \cup {p}
              /\ untold'[dh] \subseteq untold[dh] \cup {p}
          BY <1>4, <3>2
        <4> QED BY <1>1, <1>3, <3>1, <3>2, <4>1
      <3>3. CASE dh # ch
        BY <1>4, <3>1, <3>3
      <3> QED BY <3>2, <3>3
    <2> QED BY <1>1, <2>1 DEF IInv, OneLeaver, Keys
  <1>14. LoopsAreSane'
    <2> SUFFICES ASSUME NEW dh \in Channel, NEW d \in Client
                 PROVE  /\ d \notin telling'[dh][d] \cup hearing[dh][d]
                        /\ telling'[dh][d] \cup hearing[dh][d] # {} =>
                             media'[dh][d] = "loop" \/ d \in orphans[dh]
                        /\ d \in orphans[dh] => media'[dh][d] = "off"
                        /\ \A x, y \in hearing[dh][d] : x = y
      BY <1>1 DEF LoopsAreSane, Looping, Loops
    <2>1. /\ d \notin telling[dh][d] \cup hearing[dh][d]
          /\ telling[dh][d] \cup hearing[dh][d] # {} => d \in Looping(dh)
          /\ d \in orphans[dh] => media[dh][d] = "off"
          /\ \A x, y \in hearing[dh][d] : x = y
      BY DEF IInv, LoopsAreSane
    <2>2. d \in Looping(dh) <=> media[dh][d] = "loop" \/ d \in orphans[dh]
      BY DEF Looping, Loops
    <2>3. CASE dh = ch /\ d = p
      <3>1. d \notin Looping(dh)
        BY <1>1, <2>2, <2>3
      <3>2. telling'[dh][d] = {} /\ hearing[dh][d] = {}
        BY <1>6, <2>1, <3>1
      <3> QED BY <1>1, <2>3, <3>2
    <2>4. CASE ~(dh = ch /\ d = p)
      <3>1. media'[dh][d] = media[dh][d]
        BY <1>5, <2>4
      <3>2. d \notin telling'[dh][d] /\ (d \notin Looping(dh) => telling'[dh][d] = telling[dh][d])
        BY <1>6, <2>1
      <3> QED BY <2>1, <2>2, <3>1, <3>2
    <2> QED BY <2>3, <2>4
  <1>15. PairsAreServed'
    <2> SUFFICES ASSUME NEW dh \in Channel, NEW q \in members[dh], NEW r \in members[dh],
                        q # r
                 PROVE  \/ Told(dh, q, r)' /\ Told(dh, r, q)'
                        \/ Pending(dh, q, r)'
                        \/ Pending(dh, r, q)'
      BY <1>1 DEF PairsAreServed
    <2>1. q \in Client /\ r \in Client /\ ~(dh = ch /\ q = p) /\ ~(dh = ch /\ r = p)
      BY <1>1 DEF TypeOK
    <2>2. media'[dh][q] = media[dh][q] /\ media'[dh][r] = media[dh][r]
      BY <1>5, <2>1
    <2> QED BY <1>1, <1>6, <1>7, <2>1, <2>2, PairKeeps
  <1> QED BY <1>1, <1>8, <1>9, <1>10, <1>11, <1>12, <1>13, <1>14, <1>15, Frame DEF IInv

\* One "publisher" message: it names a member to a member, or is late.
LEMMA SendPublisherFacts ==
  ASSUME IInv, NEW ch \in Channel, NEW x \in Client, NEW v \in Client, x # v,
         SendPublisher(ch, x, v),
         UNCHANGED <<conn, members, nulls, haunted, leaving, untold, queue, acked, told>>
  PROVE  /\ \A dh \in Channel, d \in Client :
              /\ published[dh][d] \subseteq published'[dh][d]
              /\ published'[dh][d] # published[dh][d] => Online(d)
         /\ Online(x) => v \in published'[ch][x]
         /\ NoStalePeerConnection'
         /\ NewAreUnknown'
  <1>1. /\ published \in [Channel -> [Client -> SUBSET Client]]
        /\ late \in [Channel -> [Client -> SUBSET Client]]
    BY DEF IInv, TypeOK
  <1>2. \A dh \in Channel, d \in Client :
          published'[dh][d] = IF dh = ch /\ d = x /\ Online(x) THEN published[dh][d] \cup {v}
                              ELSE published[dh][d]
    <2>1. CASE Online(x)
      BY <1>1, <2>1 DEF SendPublisher
    <2>2. CASE ~Online(x)
      BY <2>2 DEF SendPublisher
    <2> QED BY <2>1, <2>2
  <1>3. \A dh \in Channel, d \in Client :
          late'[dh][d] = IF dh = ch /\ d = x /\ Online(x) /\ ~({x, v} \subseteq members[ch])
                         THEN late[dh][d] \cup {v} ELSE late[dh][d]
    <2>1. CASE Online(x) /\ ~({x, v} \subseteq members[ch])
      BY <1>1, <2>1 DEF SendPublisher
    <2>2. CASE ~(Online(x) /\ ~({x, v} \subseteq members[ch]))
      BY <2>2 DEF SendPublisher
    <2> QED BY <2>1, <2>2
  <1>4. \A d \in Client : Online(d)' <=> Online(d)
    BY DEF Online
  <1>5. NoStalePeerConnection'
    <2> SUFFICES ASSUME NEW dh \in Channel, NEW d \in Client, Online(d)
                 PROVE  published'[dh][d] \subseteq late'[dh][d] \cup
                          (IF d \in Peers(dh)
                           THEN (members[dh] \ {d}) \cup haunted[dh]
                                  \cup (IF d \in untold[dh] THEN leaving[dh] ELSE {})
                           ELSE {})
      BY <1>4 DEF NoStalePeerConnection, Peers
    <2>1. published[dh][d] \subseteq late[dh][d] \cup
            (IF d \in Peers(dh)
             THEN (members[dh] \ {d}) \cup haunted[dh]
                    \cup (IF d \in untold[dh] THEN leaving[dh] ELSE {})
             ELSE {})
      BY DEF IInv, NoStalePeerConnection
    <2>2. CASE dh = ch /\ d = x /\ x \in members[ch] /\ v \in members[ch]
      <3>1. published'[dh][d] = published[dh][d] \cup {v} /\ late'[dh][d] = late[dh][d]
        BY <1>2, <1>3, <2>2
      <3>2. d \in Peers(dh) /\ v \in members[dh] \ {d}
        BY <2>2 DEF Peers
      <3> QED BY <2>1, <3>1, <3>2
    <2>3. CASE dh = ch /\ d = x /\ ~(x \in members[ch] /\ v \in members[ch])
      <3>1. /\ published'[dh][d] = published[dh][d] \cup {v}
            /\ late'[dh][d] = late[dh][d] \cup {v}
        BY <1>2, <1>3, <2>3
      <3> QED BY <2>1, <3>1
    <2>4. CASE ~(dh = ch /\ d = x)
      <3>1. published'[dh][d] = published[dh][d] /\ late'[dh][d] = late[dh][d]
        BY <1>2, <1>3, <2>4
      <3> QED BY <2>1, <3>1
    <2> QED BY <2>2, <2>3, <2>4
  <1>6. NewAreUnknown'
    <2>1. \A d \in Client : conn[d] = "new" => ~Online(d)
      BY DEF Online
    <2>2. \A dh \in Channel, d \in Client : ~Online(d) =>
            published'[dh][d] = published[dh][d] /\ late'[dh][d] = late[dh][d]
      BY <1>2, <1>3
    <2> QED BY <2>1, <2>2 DEF IInv, NewAreUnknown
  <1>7. \A dh \in Channel, d \in Client :
          /\ published[dh][d] \subseteq published'[dh][d]
          /\ published'[dh][d] # published[dh][d] => Online(d)
    BY <1>2
  <1>8. Online(x) => v \in published'[ch][x]
    BY <1>2
  <1> QED BY <1>5, <1>6, <1>7, <1>8

\* Half a turn of a media thread's loop: only the pair it visits is affected.
LEMMA LoopPairs ==
  ASSUME IInv, NEW ch \in Channel, NEW p \in Client, NEW x \in Client, p # x,
         UNCHANGED <<conn, members, media, orphans, torn>>,
         \A dh \in Channel, d \in Client : published[dh][d] \subseteq published'[dh][d],
         \A dh \in Channel, d \in Client : ~(dh = ch /\ d = p) =>
           telling'[dh][d] = telling[dh][d] /\ hearing'[dh][d] = hearing[dh][d],
         telling[ch][p] \ {x} \subseteq telling'[ch][p],
         hearing[ch][p] \subseteq {x},
         \/ x \in hearing'[ch][p] /\ Told(ch, p, x)'
         \/ /\ Told(ch, p, x) => Told(ch, x, p)' /\ Told(ch, p, x)'
            /\ x \in telling[ch][p] => x \in telling'[ch][p]
  PROVE  PairsAreServed'
  <1> SUFFICES ASSUME NEW dh \in Channel, NEW q \in members[dh], NEW r \in members[dh], q # r
               PROVE  \/ Told(dh, q, r)' /\ Told(dh, r, q)'
                      \/ Pending(dh, q, r)'
                      \/ Pending(dh, r, q)'
    BY DEF PairsAreServed
  <1>1. q \in Client /\ r \in Client
    BY DEF IInv, TypeOK
  <1>2. \A d \in Client : Online(d)' <=> Online(d)
    BY DEF Online
  <1>3. \A d, e \in Client : Told(dh, d, e) => Told(dh, d, e)'
    BY <1>2 DEF Told
  <1>4. (Told(dh, q, r) /\ Told(dh, r, q)) \/ Pending(dh, q, r) \/ Pending(dh, r, q)
    BY DEF IInv, PairsAreServed
  <1>5. ASSUME NEW d \in Client, NEW e \in Client, Pending(dh, d, e), d # e
        PROVE  Pending(dh, d, e)' \/ (Told(dh, d, e)' /\ Told(dh, e, d)')
    <2>1. CASE ~(dh = ch /\ d = p)
      <3>1. telling'[dh][d] = telling[dh][d] /\ hearing'[dh][d] = hearing[dh][d]
        BY <2>1
      <3> QED BY <1>3, <1>5, <3>1 DEF Pending
    <2>2. CASE dh = ch /\ d = p /\ e # x
      <3>1. e \in telling[dh][d] => e \in telling'[dh][d]
        BY <2>2
      <3>2. e \notin hearing[dh][d]
        BY <2>2
      <3> QED BY <1>5, <3>1, <3>2 DEF Pending
    <2>3. CASE dh = ch /\ d = p /\ e = x
      BY <1>5, <2>3 DEF Pending
    <2> QED BY <2>1, <2>2, <2>3
  <1> QED BY <1>1, <1>3, <1>4, <1>5

\* x is told of p, and p has still to be told of x.
LEMMA TellPublisherKeeps ==
  ASSUME IInv, NEW ch \in Channel, NEW p \in Client, NEW x \in Client,
         TellPublisher(ch, p, x), TypeOK'
  PROVE  IInv'
  <1>1. /\ UNCHANGED <<conn, queue, rooms, members, nulls, haunted, leaving, untold,
                       negotiated, subs, media, orphans, torn, acked, told, departed>>
        /\ p \in Looping(ch) /\ x \in telling[ch][p] /\ hearing[ch][p] = {}
        /\ SendPublisher(ch, x, p)
        /\ telling' = [telling EXCEPT ![ch][p] = @ \ {x}]
        /\ hearing' = [hearing EXCEPT ![ch][p] = {x}]
        /\ TypeOK
    BY DEF TellPublisher, roomVars, leaveVars, peerVars, IInv
  <1>2. x # p
    BY <1>1 DEF IInv, LoopsAreSane
  <1>3. \A dh \in Channel, d \in Client :
          /\ telling'[dh][d] = IF dh = ch /\ d = p THEN telling[dh][d] \ {x} ELSE telling[dh][d]
          /\ hearing'[dh][d] = IF dh = ch /\ d = p THEN {x} ELSE hearing[dh][d]
    <2>1. /\ telling \in [Channel -> [Client -> SUBSET Client]]
          /\ hearing \in [Channel -> [Client -> SUBSET Client]]
      BY <1>1 DEF TypeOK
    <2>2. \A dh \in Channel, d \in Client :
            telling'[dh][d] = IF dh = ch /\ d = p THEN telling[dh][d] \ {x}
                              ELSE telling[dh][d]
      BY <1>1, <2>1
    <2>3. \A dh \in Channel, d \in Client :
            hearing'[dh][d] = IF dh = ch /\ d = p THEN {x} ELSE hearing[dh][d]
      BY <1>1, <2>1
    <2> QED BY <2>2, <2>3
  <1>4. /\ \A dh \in Channel, d \in Client : published[dh][d] \subseteq published'[dh][d]
        /\ Online(x) => p \in published'[ch][x]
        /\ NoStalePeerConnection'
        /\ NewAreUnknown'
    BY <1>1, <1>2, SendPublisherFacts
  <1>5. \A d \in Client : Online(d)' => Online(d)
    BY <1>1 DEF Online
  <1>6. LoopsAreSane'
    <2> SUFFICES ASSUME NEW dh \in Channel, NEW d \in Client
                 PROVE  /\ d \notin telling'[dh][d] \cup hearing'[dh][d]
                        /\ telling'[dh][d] \cup hearing'[dh][d] # {} => d \in Looping(dh)
                        /\ d \in orphans[dh] => media[dh][d] = "off"
                        /\ \A y, z \in hearing'[dh][d] : y = z
      BY <1>1 DEF LoopsAreSane, Looping, Loops
    <2>1. /\ d \notin telling[dh][d] \cup hearing[dh][d]
          /\ telling[dh][d] \cup hearing[dh][d] # {} => d \in Looping(dh)
          /\ d \in orphans[dh] => media[dh][d] = "off"
          /\ \A y, z \in hearing[dh][d] : y = z
      BY DEF IInv, LoopsAreSane
    <2>2. CASE dh = ch /\ d = p
      BY <1>1, <1>2, <1>3, <2>1, <2>2
    <2>3. CASE ~(dh = ch /\ d = p)
      BY <1>3, <2>1, <2>3
    <2> QED BY <2>2, <2>3
  <1>7. PairsAreServed'
    <2>1. x \in hearing'[ch][p] /\ Told(ch, p, x)'
      BY <1>3, <1>4, <1>5 DEF Told
    <2>2. telling[ch][p] \ {x} \subseteq telling'[ch][p] /\ hearing[ch][p] \subseteq {x}
      BY <1>1, <1>3
    <2>3. \A dh \in Channel, d \in Client : ~(dh = ch /\ d = p) =>
            telling'[dh][d] = telling[dh][d] /\ hearing'[dh][d] = hearing[dh][d]
      BY <1>3
    <2> QED BY <1>1, <1>2, <1>4, <2>1, <2>2, <2>3, LoopPairs
  <1> QED BY <1>1, <1>4, <1>5, <1>6, <1>7, Frame DEF IInv

\* p is told of x: the two now know of each other.
LEMMA HearPublisherKeeps ==
  ASSUME IInv, NEW ch \in Channel, NEW p \in Client, NEW x \in Client,
         HearPublisher(ch, p, x), TypeOK'
  PROVE  IInv'
  <1>1. /\ UNCHANGED <<conn, queue, rooms, members, nulls, haunted, leaving, untold,
                       negotiated, subs, media, telling, orphans, torn, acked, told, departed>>
        /\ x \in hearing[ch][p]
        /\ SendPublisher(ch, p, x)
        /\ hearing' = [hearing EXCEPT ![ch][p] = {}]
        /\ TypeOK
    BY DEF HearPublisher, roomVars, leaveVars, peerVars, IInv
  <1>2. x # p /\ hearing[ch][p] \subseteq {x}
    BY <1>1 DEF IInv, LoopsAreSane
  <1>3. \A dh \in Channel, d \in Client :
          hearing'[dh][d] = IF dh = ch /\ d = p THEN {} ELSE hearing[dh][d]
    BY <1>1 DEF TypeOK
  <1>4. /\ \A dh \in Channel, d \in Client : published[dh][d] \subseteq published'[dh][d]
        /\ Online(p) => x \in published'[ch][p]
        /\ NoStalePeerConnection'
        /\ NewAreUnknown'
    BY <1>1, <1>2, SendPublisherFacts
  <1>5. \A d \in Client : Online(d)' => Online(d)
    BY <1>1 DEF Online
  <1>6. LoopsAreSane'
    BY <1>1, <1>3 DEF IInv, LoopsAreSane, Looping, Loops
  <1>7. PairsAreServed'
    <2>1. Told(ch, x, p)' /\ (Told(ch, p, x) => Told(ch, p, x)')
      BY <1>4, <1>5 DEF Told
    <2>2. \A dh \in Channel, d \in Client : ~(dh = ch /\ d = p) =>
            telling'[dh][d] = telling[dh][d] /\ hearing'[dh][d] = hearing[dh][d]
      BY <1>1, <1>3
    <2> QED BY <1>1, <1>2, <1>4, <2>1, <2>2, LoopPairs
  <1> QED BY <1>1, <1>4, <1>5, <1>6, <1>7, Frame DEF IInv

\* The loop is over: nobody is left that it would have to visit.
LEMMA BroadcastEndsKeeps ==
  ASSUME IInv, NEW ch \in Channel, NEW p \in Client, BroadcastEnds(ch, p), TypeOK'
  PROVE  IInv'
  <1>1. /\ UNCHANGED <<conn, queue, rooms, members, nulls, haunted, leaving, untold,
                       negotiated, subs, telling, hearing, orphans, torn, acked, told,
                       published, late, departed>>
        /\ media[ch][p] = "loop" /\ telling[ch][p] = {} /\ hearing[ch][p] = {}
        /\ media' = [media EXCEPT ![ch][p] = "done"]
        /\ TypeOK
    BY DEF BroadcastEnds, roomVars, leaveVars, peerVars, viewVars, IInv
  <1>2. \A dh \in Channel, d \in Client :
          media'[dh][d] = IF dh = ch /\ d = p THEN "done" ELSE media[dh][d]
    BY <1>1 DEF TypeOK
  <1>3. \A d \in Client : Online(d)' <=> Online(d)
    BY <1>1 DEF Online
  <1>4. MediaOnlyOfMembers'
    BY <1>1, <1>2 DEF IInv, MediaOnlyOfMembers, Peers
  <1>5. LoopsAreSane'
    <2> SUFFICES ASSUME NEW dh \in Channel, NEW d \in Client
                 PROVE  /\ d \notin telling[dh][d] \cup hearing[dh][d]
                        /\ telling[dh][d] \cup hearing[dh][d] # {} =>
                             media'[dh][d] = "loop" \/ d \in orphans[dh]
                        /\ d \in orphans[dh] => media'[dh][d] = "off"
                        /\ \A x, y \in hearing[dh][d] : x = y
      BY <1>1 DEF LoopsAreSane, Looping, Loops
    <2>1. /\ d \notin telling[dh][d] \cup hearing[dh][d]
          /\ telling[dh][d] \cup hearing[dh][d] # {} =>
               media[dh][d] = "loop" \/ d \in orphans[dh]
          /\ d \in orphans[dh] => media[dh][d] = "off"
          /\ \A x, y \in hearing[dh][d] : x = y
      BY DEF IInv, LoopsAreSane, Looping, Loops
    <2>2. CASE dh = ch /\ d = p
      BY <1>1, <2>1, <2>2
    <2>3. CASE ~(dh = ch /\ d = p)
      BY <1>2, <2>1, <2>3
    <2> QED BY <2>2, <2>3
  <1>6. PairsAreServed'
    <2> SUFFICES ASSUME NEW dh \in Channel, NEW q \in members[dh], NEW r \in members[dh],
                        q # r
                 PROVE  \/ Told(dh, q, r)' /\ Told(dh, r, q)'
                        \/ Pending(dh, q, r)'
                        \/ Pending(dh, r, q)'
      BY <1>1 DEF PairsAreServed
    <2>1. q \in Client /\ r \in Client
      BY <1>1 DEF TypeOK
    <2>2. (Told(dh, q, r) /\ Told(dh, r, q)) \/ Pending(dh, q, r) \/ Pending(dh, r, q)
      BY DEF IInv, PairsAreServed
    <2>3. \A d, e \in Client : Told(dh, d, e) => Told(dh, d, e)'
      BY <1>1, <1>3 DEF Told
    <2>4. \A d, e \in Client : Pending(dh, d, e) => Pending(dh, d, e)'
      <3> SUFFICES ASSUME NEW d \in Client, NEW e \in Client, Pending(dh, d, e)
                   PROVE  Pending(dh, d, e)'
        OBVIOUS
      <3>1. CASE dh = ch /\ d = p
        BY <1>1, <3>1 DEF Pending
      <3>2. CASE ~(dh = ch /\ d = p)
        <4>1. media'[dh][d] = media[dh][d]
          BY <1>2, <3>2
        <4> QED BY <1>1, <2>3, <4>1 DEF Pending
      <3> QED BY <3>1, <3>2
    <2> QED BY <2>1, <2>2, <2>3, <2>4
  <1> QED BY <1>1, <1>3, <1>4, <1>5, <1>6, Frame DEF IInv

\* The loop of an orphan is over.
LEMMA OrphanEndsKeeps ==
  ASSUME IInv, NEW ch \in Channel, NEW p \in Client, OrphanEnds(ch, p), TypeOK'
  PROVE  IInv'
  <1>1. /\ UNCHANGED <<conn, queue, rooms, members, nulls, haunted, leaving, untold,
                       negotiated, subs, media, telling, hearing, torn, acked, told,
                       published, late, departed>>
        /\ telling[ch][p] = {} /\ hearing[ch][p] = {}
        /\ orphans' = [orphans EXCEPT ![ch] = @ \ {p}]
        /\ TypeOK
    BY DEF OrphanEnds, roomVars, leaveVars, peerVars, viewVars, IInv
  <1>2. \A dh \in Channel :
          orphans'[dh] = IF dh = ch THEN orphans[dh] \ {p} ELSE orphans[dh]
    BY <1>1 DEF TypeOK
  <1>3. \A d \in Client : Online(d)' => Online(d)
    BY <1>1 DEF Online
  <1>4. LoopsAreSane'
    BY <1>1, <1>2 DEF IInv, LoopsAreSane, Looping, Loops
  <1> QED BY <1>1, <1>3, <1>4, Frame DEF IInv

\* The invariant is inductive: one case per step of the three kinds of thread.
LEMMA Inductive == IInv /\ [Next]_vars => IInv'
  <1> SUFFICES ASSUME IInv, [Next]_vars PROVE IInv'
    OBVIOUS
  <1>0. TypeOK'
    BY TypeStep DEF IInv
  <1>1. ASSUME NEW c \in Client, Connect(c) PROVE IInv'
    BY <1>0, <1>1, ConnectKeeps
  <1>2. ASSUME NEW c \in Client, SendDisconnect(c) PROVE IInv'
    BY <1>0, <1>2, UnreachableKeeps DEF SendDisconnect, Online, Ticked
  <1>3. ASSUME NEW c \in Client, TickClients(c) PROVE IInv'
    BY <1>0, <1>3, UnreachableKeeps DEF TickClients
  <1>4. ASSUME NEW c \in Client, doUserOffline(c) PROVE IInv'
    BY <1>0, <1>4, OfflineKeeps
  <1>5. ASSUME NEW c \in Client, NEW ch \in Channel, HandlePacketJoinRoom(c, ch)
        PROVE  IInv'
    <2>1. Join(c, ch) \in Event /\ Join(c, ch).client = c
      BY EventTypes DEF Join
    <2> QED BY <1>0, <1>5, <2>1, PacketKeeps DEF HandlePacketJoinRoom
  <1>6. ASSUME NEW c \in Client, NEW ch \in Channel, HandlePacketLeftRoom(c, ch)
        PROVE  IInv'
    <2>1. Leave(c, ch) \in Event /\ Leave(c, ch).client = c
      BY EventTypes DEF Leave
    <2> QED BY <1>0, <1>6, <2>1, PacketKeeps DEF HandlePacketLeftRoom
  <1>7. ASSUME NEW c \in Client, NEW ch \in Channel, NEW t \in Client,
               NEW m \in {"subscribe", "signal"}, HandlePacketMsgRoom(c, ch, t, m)
        PROVE  IInv'
    <2>1. Media(c, ch, t, m) \in Event
      BY EventTypes
    <2>2. Media(c, ch, t, m).client = c
      BY DEF Media
    <2> QED BY <1>0, <1>7, <2>1, <2>2, PacketKeeps DEF HandlePacketMsgRoom
  <1>8. ASSUME NEW ch \in Channel, NEW p \in Client, onJoinedChannel(ch, p)
        PROVE  IInv'
    <2>1. BroadcastJoinChannel(ch, p) \/ BroadcastJoinChannelNull(ch, p)
      BY <1>8 DEF onJoinedChannel
    <2> QED BY <1>0, <1>8, <2>1, BroadcastKeeps, NullEntryKeeps
  <1>9. CASE dealEvent
    BY <1>0, <1>9, DealJoinKeeps, DealLeaveStrangerKeeps, DealLeaveKeeps, DealMediaKeeps
       DEF dealEvent
  <1>10. ASSUME NEW ch \in Channel, NEW c \in Client, TellOfflineNull(ch, c) PROVE IInv'
    BY <1>0, <1>10, StillKeeps DEF TellOfflineNull
  <1>11. ASSUME NEW ch \in Channel, NEW c \in Client, LeaveEnds(ch, c) PROVE IInv'
    BY <1>0, <1>11, LeaveEndsKeeps
  <1>12. ASSUME NEW ch \in Channel, NEW c \in Client, NEW x \in Client,
                TellOffline(ch, c, x)
         PROVE  IInv'
    BY <1>0, <1>12, TellOfflineKeeps
  <1>13. ASSUME NEW ch \in Channel, NEW p \in Client, NEW x \in Client,
                TellPublisher(ch, p, x) \/ HearPublisher(ch, p, x)
         PROVE  IInv'
    BY <1>0, <1>13, TellPublisherKeeps, HearPublisherKeeps
  <1>14. ASSUME NEW ch \in Channel, NEW p \in Client,
                BroadcastEnds(ch, p) \/ OrphanEnds(ch, p)
         PROVE  IInv'
    BY <1>0, <1>14, BroadcastEndsKeeps, OrphanEndsKeeps
  <1>15. CASE Stop \/ Start
    BY <1>0, <1>15, StillKeeps DEF Stop, Start
  <1>16. CASE UNCHANGED vars
    BY <1>0, <1>16, StillKeeps DEF vars
  <1>17. CASE Execute
    BY <1>9, <1>10, <1>11, <1>12, <1>17 DEF Execute, onPeerLeaved
  <1>18. CASE BroadcastLoop
    BY <1>13, <1>14, <1>18 DEF BroadcastLoop
  <1> QED
    BY <1>1, <1>2, <1>3, <1>4, <1>5, <1>6, <1>7, <1>8, <1>15, <1>16, <1>17, <1>18 DEF Next

\* The inductive invariant holds in every reachable state, with the loops of
\* onPeerLeaved and of BroadcastJoinChannel interleaved step by step.
THEOREM Invariant == Spec => []IInv
  <1>1. Init => IInv
    <2> SUFFICES ASSUME Init PROVE IInv
      OBVIOUS
    <2>1. TypeOK
      BY DEF Init, TypeOK, NoneIn, NoneOf
    <2>2. /\ RoomIffOccupied /\ RosterAgrees /\ NoStalePeerConnection
          /\ DepartureCovered /\ NewAreUnknown /\ DepartedAreOffline
      BY DEF Init, NoneIn, NoneOf, RoomIffOccupied, RosterAgrees, NoStalePeerConnection,
             DepartureCovered, NewAreUnknown, DepartedAreOffline, Online
    <2>3. MediaOnlyOfMembers /\ OneLeaver
      BY DEF Init, NoneIn, NoneOf, MediaOnlyOfMembers, OneLeaver, Keys, Peers
    <2>4. LoopsAreSane /\ PairsAreServed
      BY DEF Init, NoneIn, NoneOf, LoopsAreSane, PairsAreServed
    <2> QED BY <2>1, <2>2, <2>3, <2>4 DEF IInv
  <1> QED BY <1>1, Inductive, PTL DEF Spec

-----------------------------------------------------------------------------
(* What makes the conference core correct, for any clients and channels.    *)

\* cManager::rooms holds exactly the rooms with a key in m_Clients or a peer
\* that is being destroyed, whatever BroadcastJoinChannel inserts.
THEOREM RoomsCorrect == Spec => []RoomIffOccupied
  <1>1. IInv => RoomIffOccupied
    BY DEF IInv
  <1> QED BY <1>1, Invariant, PTL

\* The online and offline messages of onPeerJoined and onPeerLeaved give every
\* connected client the right picture of the room, but for the users that a
\* null entry of BroadcastJoinChannel has made appear in it.
THEOREM RosterCorrect == Spec => []RosterAgrees
  <1>1. IInv => RosterAgrees
    BY DEF IInv
  <1> QED BY <1>1, Invariant, PTL

\* The loops of BroadcastJoinChannel make connected publishers known to each
\* other, however they interleave, if m_Clients does not change under them.
THEOREM PublishersCorrect == Spec => []PublishersKnown
  <1>1. IInv => PublishersKnown
    <2> SUFFICES ASSUME IInv, NEW ch \in Channel, NEW p \in members[ch],
                        NEW q \in members[ch], p # q, Online(q),
                        media[ch][p] = "done", media[ch][q] = "done",
                        p \notin torn[ch], q \notin torn[ch]
                 PROVE  p \in published[ch][q]
      BY DEF PublishersKnown
    <2>1. p \in Client /\ q \in Client
      BY DEF IInv, TypeOK
    <2>2. \A d \in {p, q} : telling[ch][d] = {} /\ hearing[ch][d] = {}
      BY <2>1 DEF IInv, LoopsAreSane, Looping, Loops
    <2>3. ~Pending(ch, p, q) /\ ~Pending(ch, q, p)
      BY <2>2 DEF Pending
    <2>4. Told(ch, p, q)
      BY <2>3 DEF IInv, PairsAreServed
    <2> QED BY <2>4 DEF Told
  <1> QED BY <1>1, Invariant, PTL

\* A connected client keeps peer connections for other members of its own room
\* only: the offline messages of onPeerLeaved undo the publisher messages of
\* BroadcastJoinChannel for those who left, but for the messages sent late.
THEOREM PeerConnectionsCorrect == Spec => []NoStalePeerConnection
  <1>1. IInv => NoStalePeerConnection
    BY DEF IInv
  <1> QED BY <1>1, Invariant, PTL

\* A peer that left holds no media connection (onPeerLeaved, onMsgFromPeer).
THEOREM MediaCorrect == Spec => []MediaOnlyOfMembers
  <1>1. IInv => MediaOnlyOfMembers
    BY DEF IInv
  <1> QED BY <1>1, Invariant, PTL

\* doUserOffline loses no departure: the LEAVE it queued stays behind every
\* JOIN of that client until it is dealt with.
THEOREM DeparturesCorrect == Spec => []DepartureCovered
  <1>1. IInv => DepartureCovered
    BY DEF IInv
  <1> QED BY <1>1, Invariant, PTL

=============================================================================
