--------------------------- MODULE ChannelManager ---------------------------
(***************************************************************************)
(* The conference core of the server: cManager's event queue and its       *)
(* worker thread, the cRoom objects it owns, the cPeer objects of a room,  *)
(* and what the notifications sent to the connected clients have told      *)
(* them (Src/Server/Channel/{Manager,Room,Peer}.cpp).                      *)
(*                                                                         *)
(* Threads.  The tick thread parses packets and appends events             *)
(* (HandlePacketJoinRoom, HandlePacketLeftRoom, HandlePacketMsgRoom,       *)
(* doUserOffline); the manager thread takes them from the front and deals  *)
(* with one at a time under m_CSChannels; the media thread of a publisher  *)
(* runs onJoinedChannel and BroadcastJoinChannel without a lock.  Every    *)
(* message of BroadcastJoinChannel's loop is a step, and so is every turn  *)
(* of onPeerLeaved's.  A JOIN, and the LEAVE of someone who has no peer,   *)
(* are one step: no media thread sees or changes what they do before the   *)
(* key is inserted or erased.                                              *)
(*                                                                         *)
(* Both threads change the std::map m_Clients while the other loops over   *)
(* it.  The loop then visits any of the keys it had left and any new one   *)
(* (Disturb); that the process may also crash there ends a behaviour and   *)
(* adds no state.  The histories haunted, torn and late record what such a *)
(* race has cost, so that the properties can say what holds without it.    *)
(***************************************************************************)
EXTENDS Naturals, Sequences, FiniteSets

CONSTANTS
  Client,     \* unique ids of client connections; an id is never reused
  Channel,    \* channel names
  Requests,   \* the events that packets of clients ask for
  MaxQueue    \* clients send nothing while so many events are queued

ASSUME ChannelManagerAssumption ==
  /\ IsFiniteSet(Channel)
  /\ MaxQueue \in Nat

VARIABLES
  alive,       \* the process has not crashed
  conn,        \* a client id's handle: not made yet, logged in, sent a disconnect
               \* packet, taken out of m_Clients, deleted
  running,     \* the manager thread runs (between cManager::Start and Stop)
  queue,       \* cManager::m_Queue
  rooms,       \* the names in cManager::rooms
  members,     \* the keys of each room's cRoom::m_Clients that have a peer
  nulls,       \* the keys that have a null pointer
  haunted,     \* history: users whose key has been null while the room existed
  leaving,     \* whom onPeerLeaved has erased and not yet destroyed
  untold,      \* the keys its loop still has to visit
  negotiated,  \* peers whose publisher connection has the client's SDP
  subs,        \* subs[ch][p]: the keys of peer p's subscribers, listeners and sinks
  media,       \* media[ch][p]: where p's media thread is in onJoinedChannel
  telling,     \* telling[ch][p]: the keys its loop still has to visit
  hearing,     \* hearing[ch][p]: the key told of p, of which p is told next
  orphans,     \* leavers whose media thread is inside its loop, and holds the peer
  torn,        \* history: peers whose loop met a change of m_Clients
  acked,       \* clients whose last result packet for the channel says "joined"
  told,        \* told[ch][c]: users c was told are online, less the offline ones
  published,   \* published[ch][c]: c's peer_connections_ made by "publisher" messages
  late,        \* history: those of them sent when c or the user was no member
  departed     \* history: the rooms doUserOffline found when c's handle was deleted

roomVars == <<rooms, members, nulls, haunted>>
leaveVars == <<leaving, untold>>
peerVars == <<negotiated, subs>>
loopVars == <<media, telling, hearing, orphans, torn>>
viewVars == <<acked, told, published, late>>
vars == <<alive, conn, running, queue, roomVars, leaveVars, peerVars, loopVars,
          viewVars, departed>>

-----------------------------------------------------------------------------
(* Events (cMediaEvent).  JOIN and LEAVE never read m_TargetID and m_Msg.   *)

Join(c, ch) ==
  [type |-> "JOIN", client |-> c, channel |-> ch, target |-> c, msg |-> ""]

Leave(c, ch) ==
  [type |-> "LEAVE", client |-> c, channel |-> ch, target |-> c, msg |-> ""]

\* "subscribe" asks the target to forward its stream to the sender; "signal"
\* stands for an offer, an answer or an ICE candidate.
Media(c, ch, t, m) ==
  [type |-> "MEDIA", client |-> c, channel |-> ch, target |-> t, msg |-> m]

Event ==
  {Join(c, ch) : c \in Client, ch \in Channel}
    \cup {Leave(c, ch) : c \in Client, ch \in Channel}
    \cup {Media(c, ch, t, m) : c \in Client, ch \in Channel, t \in Client,
                              m \in {"subscribe", "signal"}}

\* Packets for a client reach it: its handle is in m_Clients, m_HasSentDC is false.
Online(c) == conn[c] = "online"

\* Packets of a client are handled: ServerTick runs for its handle.
Ticked(c) == alive /\ conn[c] \in {"online", "kicked"}

Queued(e) == \E i \in DOMAIN queue : queue[i] = e

\* The keys of m_Clients.
Keys(ch) == members[ch] \cup nulls[ch]

\* Whose cPeer object exists.
Peers(ch) == members[ch] \cup leaving[ch]

\* The manager thread is inside onPeerLeaved and holds m_CSChannels.
Busy == \E ch \in Channel : leaving[ch] # {}

TypeOK ==
  /\ alive \in BOOLEAN
  /\ conn \in [Client -> {"new", "online", "kicked", "removed", "offline"}]
  /\ running \in BOOLEAN
  /\ queue \in Seq(Event)
  /\ rooms \in SUBSET Channel
  /\ members \in [Channel -> SUBSET Client]
  /\ nulls \in [Channel -> SUBSET Client]
  /\ haunted \in [Channel -> SUBSET Client]
  /\ leaving \in [Channel -> SUBSET Client]
  /\ untold \in [Channel -> SUBSET Client]
  /\ negotiated \in [Channel -> SUBSET Client]
  /\ subs \in [Channel -> [Client -> SUBSET Client]]
  /\ media \in [Channel -> [Client -> {"off", "loop", "done"}]]
  /\ telling \in [Channel -> [Client -> SUBSET Client]]
  /\ hearing \in [Channel -> [Client -> SUBSET Client]]
  /\ orphans \in [Channel -> SUBSET Client]
  /\ torn \in [Channel -> SUBSET Client]
  /\ acked \in [Channel -> SUBSET Client]
  /\ told \in [Channel -> [Client -> SUBSET Client]]
  /\ published \in [Channel -> [Client -> SUBSET Client]]
  /\ late \in [Channel -> [Client -> SUBSET Client]]
  /\ departed \in [Client -> SUBSET Channel]

NoneIn == [ch \in Channel |-> {}]
NoneOf == [ch \in Channel |-> [c \in Client |-> {}]]

Init ==
  /\ alive = TRUE
  /\ conn = [c \in Client |-> "new"]
  /\ running = TRUE
  /\ queue = <<>>
  /\ rooms = {}
  /\ members = NoneIn /\ nulls = NoneIn /\ haunted = NoneIn
  /\ leaving = NoneIn /\ untold = NoneIn
  /\ negotiated = NoneIn /\ subs = NoneOf
  /\ media = [ch \in Channel |-> [c \in Client |-> "off"]]
  /\ telling = NoneOf /\ hearing = NoneOf /\ orphans = NoneIn /\ torn = NoneIn
  /\ acked = NoneIn /\ told = NoneOf /\ published = NoneOf /\ late = NoneOf
  /\ departed = [c \in Client |-> {}]

-----------------------------------------------------------------------------
(* The tick thread.                                                         *)

\* A connection is accepted and logs in; login itself is module ClientHandle.
Connect(c) ==
  /\ alive
  /\ running
  /\ conn[c] = "new"
  /\ conn' = [conn EXCEPT ![c] = "online"]
  /\ UNCHANGED <<alive, running, queue, roomVars, leaveVars, peerVars, loopVars,
                 viewVars, departed>>

\* cManager::addEvent
addEvent(e) ==
  /\ e \in Requests
  /\ Len(queue) < MaxQueue
  /\ queue' = Append(queue, e)

\* What a packet of a client leaves alone.
PacketFrame ==
  UNCHANGED <<alive, conn, running, roomVars, leaveVars, peerVars, loopVars,
              viewVars, departed>>

HandlePacketJoinRoom(c, ch) ==
  /\ Ticked(c)
  /\ addEvent(Join(c, ch))
  /\ PacketFrame

HandlePacketLeftRoom(c, ch) ==
  /\ Ticked(c)
  /\ addEvent(Leave(c, ch))
  /\ PacketFrame

\* Mutant: the channel and the target are read in the wrong order.
HandlePacketMsgRoom_Swapped(c, ch, t, m) ==
  /\ Ticked(c)
  /\ Media(c, ch, t, m) \in Requests
  /\ Len(queue) < MaxQueue
  /\ queue' = Append(queue, Media(c, t, ch, m))
  /\ PacketFrame

\* The client never subscribes to itself: BroadcastJoinChannel does not name it.
HandlePacketMsgRoom(c, ch, t, m) ==
  /\ Ticked(c)
  /\ m = "subscribe" => t # c
  /\ addEvent(Media(c, ch, t, m))
  /\ PacketFrame

\* view[ch][c] for every channel after c has dropped it.
Dropped(view, c) == [ch \in Channel |-> [view[ch] EXCEPT ![c] = {}]]

\* What a client was told counts no more once nothing reaches it.
Unreachable(c, state) ==
  /\ conn' = [conn EXCEPT ![c] = state]
  /\ acked' = [ch \in Channel |-> acked[ch] \ {c}]
  /\ told' = Dropped(told, c)
  /\ published' = Dropped(published, c)
  /\ late' = Dropped(late, c)
  /\ UNCHANGED <<alive, running, queue, roomVars, leaveVars, peerVars, loopVars,
                 departed>>

\* A disconnect packet is sent (timeout, bad packet, full buffer): from then on
\* cClientHandle::SendData drops everything, while its packets are still handled.
SendDisconnect(c) == Online(c) /\ alive /\ Unreachable(c, "kicked")

\* cServer::TickClients takes a destroyed handle out of m_Clients.
TickClients(c) == Ticked(c) /\ Unreachable(c, "removed")

\* Mutant: the LEAVE events are pushed to the front of the queue.
doUserOffline_PushFront(c) ==
  /\ alive
  /\ conn[c] = "removed"
  /\ ~Busy
  /\ \E s \in [1..Cardinality(rooms) -> rooms] :
       /\ {s[i] : i \in DOMAIN s} = rooms
       /\ queue' = [i \in 1..Cardinality(rooms) |-> Leave(c, s[i])] \o queue
  /\ conn' = [conn EXCEPT ![c] = "offline"]
  /\ departed' = [departed EXCEPT ![c] = rooms]
  /\ UNCHANGED <<alive, running, roomVars, leaveVars, peerVars, loopVars, viewVars>>

\* The handle is deleted later, outside m_CSClients: ~cProtocol_impl calls
\* doUserOffline, which takes m_CSChannels and queues a LEAVE for each room
\* that exists now.
doUserOffline(c) ==
  /\ alive
  /\ conn[c] = "removed"
  /\ ~Busy
  /\ \E s \in [1..Cardinality(rooms) -> rooms] :
       /\ {s[i] : i \in DOMAIN s} = rooms
       /\ queue' = queue \o [i \in 1..Cardinality(rooms) |-> Leave(c, s[i])]
  /\ conn' = [conn EXCEPT ![c] = "offline"]
  /\ departed' = [departed EXCEPT ![c] = rooms]
  /\ UNCHANGED <<alive, running, roomVars, leaveVars, peerVars, loopVars, viewVars>>

-----------------------------------------------------------------------------
(* The manager thread: cManager::Execute waits for an event, takes the      *)
(* front one, and dealEvent handles it under m_CSChannels.                  *)

TakeEvent(type) ==
  /\ alive
  /\ running
  /\ ~Busy
  /\ queue # <<>>
  /\ Head(queue).type = type
  /\ queue' = Tail(queue)

\* The peers whose media threads are inside the loop of BroadcastJoinChannel.
Loops(ch) == {p \in Client : media[ch][p] = "loop"}

Looping(ch) == Loops(ch) \cup orphans[ch]

\* m_Clients is changed, by the insertion of new or by an erasure, under the
\* loops of the media threads: a data race, and an iterator that may dangle.
Disturb(ch, new) ==
  /\ \E t \in [Looping(ch) -> SUBSET Client] :
       /\ \A p \in Looping(ch) : t[p] \subseteq telling[ch][p] \cup (new \ {p})
       /\ telling' = [telling EXCEPT ![ch] =
                        [p \in Client |-> IF p \in Looping(ch) THEN t[p] ELSE @[p]]]
  /\ torn' = [torn EXCEPT ![ch] = @ \cup Loops(ch)]

NotDisturbed == UNCHANGED <<telling, torn>>

\* Mutant: the newcomer is not told who is there already.
AnnounceOnline_OneWay(ch, c) ==
  [x \in Client |->
     IF Online(x) /\ x \in Keys(ch) THEN told[ch][x] \cup {c} ELSE told[ch][x]]

\* cRoom::onPeerJoined: "online" goes both ways between the newcomer and
\* every key of m_Clients, the null ones included.
AnnounceOnline(ch, c) ==
  [x \in Client |->
     IF ~Online(x) THEN told[ch][x]
     ELSE IF x = c THEN told[ch][x] \cup Keys(ch)
     ELSE IF x \in Keys(ch) THEN told[ch][x] \cup {c}
     ELSE told[ch][x]]

\* The new peer is inserted unless the key exists, with a peer or without.
DealJoin ==
  /\ TakeEvent("JOIN")
  /\ LET c  == Head(queue).client
         ch == Head(queue).channel
     IN  /\ rooms' = rooms \cup {ch}
         /\ \/ c \notin Keys(ch) /\ members' = [members EXCEPT ![ch] = @ \cup {c}]
                                 /\ Disturb(ch, {c})
            \/ c \in Keys(ch) /\ UNCHANGED members /\ NotDisturbed
         /\ told' = [told EXCEPT ![ch] = AnnounceOnline(ch, c)]
         /\ acked' = IF Online(c) THEN [acked EXCEPT ![ch] = @ \cup {c}] ELSE acked
  /\ UNCHANGED <<alive, conn, running, nulls, haunted, leaveVars, peerVars, media, hearing,
                 orphans, published, late, departed>>

\* Mutant: an empty room is not released.
RoomsAfterLeave_Leaks(ch, left) == rooms \cup {ch}

\* A room with no key left is deleted (doReleaseRoom); one that doGetRoomSet
\* made for the LEAVE of a stranger goes the same way.
RoomsAfterLeave(ch, left) ==
  IF left = {} THEN rooms \ {ch} ELSE rooms \cup {ch}

\* The result packet makes the leaver drop all its peer connections
\* (Conductor::OnLeaveChannel).
LeaveResult(ch, c) ==
  /\ acked' = [acked EXCEPT ![ch] = @ \ {c}]
  /\ told' = [told EXCEPT ![ch][c] = {}]
  /\ published' = [published EXCEPT ![ch][c] = {}]
  /\ late' = [late EXCEPT ![ch][c] = {}]

\* cRoom::onPeerLeaved returns early if the client has no peer; a null entry
\* of it is erased.
DealLeaveStranger ==
  /\ TakeEvent("LEAVE")
  /\ LET c  == Head(queue).client
         ch == Head(queue).channel
     IN  /\ c \notin members[ch]
         /\ nulls' = [nulls EXCEPT ![ch] = @ \ {c}]
         /\ IF c \in nulls[ch] THEN Disturb(ch, {}) ELSE NotDisturbed
         /\ LeaveResult(ch, c)
         /\ rooms' = RoomsAfterLeave(ch, Keys(ch) \ {c})
         /\ haunted' = [haunted EXCEPT ![ch] = IF Keys(ch) \ {c} = {} THEN {} ELSE @]
  /\ UNCHANGED <<alive, conn, running, members, leaveVars, peerVars, media, hearing, orphans,
                 departed>>

\* A member's entry is erased before anyone is told.
DealLeave ==
  /\ TakeEvent("LEAVE")
  /\ LET c  == Head(queue).client
         ch == Head(queue).channel
     IN  /\ c \in members[ch]
         /\ members' = [members EXCEPT ![ch] = @ \ {c}]
         /\ leaving' = [leaving EXCEPT ![ch] = {c}]
         /\ untold' = [untold EXCEPT ![ch] = Keys(ch) \ {c}]
         /\ Disturb(ch, {})
  /\ UNCHANGED <<alive, conn, running, rooms, nulls, haunted, peerVars, media, hearing,
                 orphans, viewVars, departed>>

\* cPeer::onUnSubscribed, both ways between c and x.
onUnSubscribed(ch, c, x) ==
  [p \in Client |-> subs[ch][p] \ (IF p = c THEN {x} ELSE IF p = x THEN {c} ELSE {})]

\* onPeerLeaved's loop: the leaver c and x unsubscribe each other, and x is told
\* "offline", which closes its peer connection to c.
TellOffline(ch, c, x) ==
  /\ alive
  /\ c \in leaving[ch]
  /\ x \in untold[ch] \ nulls[ch]
  /\ untold' = [untold EXCEPT ![ch] = @ \ {x}]
  /\ subs' = [subs EXCEPT ![ch] = onUnSubscribed(ch, c, x)]
  /\ told' = [told EXCEPT ![ch][x] = @ \ {c}]
  /\ published' = [published EXCEPT ![ch][x] = @ \ {c}]
  /\ late' = [late EXCEPT ![ch][x] = @ \ {c}]
  /\ UNCHANGED <<alive, conn, running, queue, roomVars, leaving, negotiated, loopVars,
                 acked, departed>>

\* The loop meets a null entry and calls onUnSubscribed through it.
TellOfflineNull(ch, x) ==
  /\ alive
  /\ x \in untold[ch] \cap nulls[ch]
  /\ alive' = FALSE
  /\ UNCHANGED <<conn, running, queue, roomVars, leaveVars, peerVars, loopVars,
                 viewVars, departed>>

\* Mutant: the leaver's own subscribers stay connected.
DestroyPeer_KeepsSubscribers(ch, c) ==
  /\ negotiated' = [negotiated EXCEPT ![ch] = @ \ {c}]
  /\ media' = [media EXCEPT ![ch][c] = "off"]
  /\ torn' = [torn EXCEPT ![ch] = @ \ {c}]
  /\ UNCHANGED subs

\* ~cPeer: the publisher, whose media thread is joined, and all subscribers go.
\* A media thread inside its loop has a copy of the pointer to its own peer: the
\* manager's is not the last, and the loop goes on.
DestroyPeer(ch, c) ==
  /\ negotiated' = [negotiated EXCEPT ![ch] = @ \ {c}]
  /\ media' = [media EXCEPT ![ch][c] = "off"]
  /\ torn' = [torn EXCEPT ![ch] = @ \ {c}]
  /\ subs' = [subs EXCEPT ![ch][c] = {}]

\* onPeerLeaved returns; the result packet, and the end of an empty room.
LeaveEnds(ch, c) ==
  /\ alive
  /\ c \in leaving[ch]
  /\ untold[ch] = {}
  /\ leaving' = [leaving EXCEPT ![ch] = {}]
  /\ orphans' = [orphans EXCEPT ![ch] = @ \cup ({c} \cap Loops(ch))]
  /\ DestroyPeer(ch, c)
  /\ LeaveResult(ch, c)
  /\ rooms' = RoomsAfterLeave(ch, Keys(ch))
  /\ haunted' = [haunted EXCEPT ![ch] = IF Keys(ch) = {} THEN {} ELSE @]
  /\ UNCHANGED <<alive, conn, running, queue, members, nulls, untold, telling, hearing,
                 departed>>

\* cRoom::onMsgFromPeer looks up the target only, and calls through a null entry;
\* cPeer::onMsgFromPeer adds a subscriber, or hands an SDP to the connection the
\* sender's id names.
DealMedia ==
  /\ TakeEvent("MEDIA")
  /\ LET e  == Head(queue)
         ch == e.channel
     IN  /\ alive' = (e.target \notin nulls[ch])
         /\ subs' = IF e.target \in members[ch] /\ e.msg = "subscribe"
                    THEN [subs EXCEPT ![ch][e.target] = @ \cup {e.client}] ELSE subs
         /\ negotiated' = IF e.target \in members[ch] /\ e.msg = "signal"
                               /\ e.client = e.target
                          THEN [negotiated EXCEPT ![ch] = @ \cup {e.client}]
                          ELSE negotiated
  /\ UNCHANGED <<conn, running, roomVars, leaveVars, loopVars, viewVars, departed>>

dealEvent == DealJoin \/ DealLeaveStranger \/ DealLeave \/ DealMedia

onPeerLeaved ==
  \E ch \in Channel, c \in Client :
    \/ TellOfflineNull(ch, c)
    \/ LeaveEnds(ch, c)
    \/ \E x \in Client : TellOffline(ch, c, x)

Execute == dealEvent \/ onPeerLeaved

-----------------------------------------------------------------------------
(* The media thread of a publisher p, under no lock.                        *)

\* Mutant: the test that leaves the new publisher itself out is missing.
BroadcastJoinChannel_Self(ch, p) ==
  /\ p \in members[ch]
  /\ media' = [media EXCEPT ![ch][p] = "loop"]
  /\ telling' = [telling EXCEPT ![ch][p] = Keys(ch)]
  /\ UNCHANGED <<nulls, haunted, untold, torn>>

\* cRoom::BroadcastJoinChannel finds the peer and begins its loop.
BroadcastJoinChannel(ch, p) ==
  /\ p \in members[ch]
  /\ media' = [media EXCEPT ![ch][p] = "loop"]
  /\ telling' = [telling EXCEPT ![ch][p] = Keys(ch) \ {p}]
  /\ UNCHANGED <<nulls, haunted, untold, torn>>

\* If onPeerLeaved has erased p, m_Clients[p] inserts a null entry under the
\* loop of the manager and the loops of other media threads, and it returns.
BroadcastJoinChannelNull(ch, p) ==
  /\ p \notin members[ch]
  /\ nulls' = [nulls EXCEPT ![ch] = @ \cup {p}]
  /\ haunted' = [haunted EXCEPT ![ch] = @ \cup {p}]
  /\ media' = [media EXCEPT ![ch][p] = "done"]
  /\ \E u \in SUBSET (untold[ch] \cup {p}) : untold' = [untold EXCEPT ![ch] = u]
  /\ Disturb(ch, {p})

\* CONN_READY, which the test of notifyEvent lets through once.  The manager
\* joins the thread in ~cPeer, so that p's peer exists; nobody reads its ready.
\* Two loops of one user, an orphan's and that of a new peer, are left out.
onJoinedChannel(ch, p) ==
  /\ alive
  /\ p \in negotiated[ch] \ orphans[ch]
  /\ media[ch][p] = "off"
  /\ BroadcastJoinChannel(ch, p) \/ BroadcastJoinChannelNull(ch, p)
  /\ UNCHANGED <<alive, conn, running, queue, rooms, members, leaving, peerVars, hearing,
                 orphans, viewVars, departed>>

\* A "publisher" message that names u is sent to x.
SendPublisher(ch, x, u) ==
  /\ published' = IF Online(x) THEN [published EXCEPT ![ch][x] = @ \cup {u}] ELSE published
  /\ late' = IF Online(x) /\ ~({x, u} \subseteq members[ch])
             THEN [late EXCEPT ![ch][x] = @ \cup {u}] ELSE late

\* Mutant: only the others are told, the new publisher is not.
TellPublisher_OneWay(ch, p, x) ==
  /\ alive
  /\ p \in Looping(ch)
  /\ x \in telling[ch][p]
  /\ hearing[ch][p] = {}
  /\ SendPublisher(ch, x, p)
  /\ telling' = [telling EXCEPT ![ch][p] = @ \ {x}]
  /\ UNCHANGED <<alive, conn, running, queue, roomVars, leaveVars, peerVars, media,
                 hearing, orphans, torn, acked, told, departed>>

\* One turn of the loop: x is told of p ...
TellPublisher(ch, p, x) ==
  /\ alive
  /\ p \in Looping(ch)
  /\ x \in telling[ch][p]
  /\ hearing[ch][p] = {}
  /\ SendPublisher(ch, x, p)
  /\ telling' = [telling EXCEPT ![ch][p] = @ \ {x}]
  /\ hearing' = [hearing EXCEPT ![ch][p] = {x}]
  /\ UNCHANGED <<alive, conn, running, queue, roomVars, leaveVars, peerVars, media,
                 orphans, torn, acked, told, departed>>

\* ... and p is told of x.
HearPublisher(ch, p, x) ==
  /\ alive
  /\ x \in hearing[ch][p]
  /\ SendPublisher(ch, p, x)
  /\ hearing' = [hearing EXCEPT ![ch][p] = {}]
  /\ UNCHANGED <<alive, conn, running, queue, roomVars, leaveVars, peerVars, media,
                 telling, orphans, torn, acked, told, departed>>

BroadcastEnds(ch, p) ==
  /\ alive
  /\ media[ch][p] = "loop"
  /\ telling[ch][p] = {}
  /\ hearing[ch][p] = {}
  /\ media' = [media EXCEPT ![ch][p] = "done"]
  /\ UNCHANGED <<alive, conn, running, queue, roomVars, leaveVars, peerVars, telling,
                 hearing, orphans, torn, viewVars, departed>>

\* An orphan's thread lets go of its peer: ~cPeer runs on the very thread it
\* joins, and boost throws.  A turn of another loop may hold the peer still.
OrphanEnds(ch, p) ==
  /\ alive
  /\ p \in orphans[ch]
  /\ telling[ch][p] = {}
  /\ hearing[ch][p] = {}
  /\ alive' \in {FALSE, \E q \in Client : p \in hearing[ch][q]}
  /\ orphans' = [orphans EXCEPT ![ch] = @ \ {p}]
  /\ UNCHANGED <<conn, running, queue, roomVars, leaveVars, peerVars, media, telling,
                 hearing, torn, viewVars, departed>>

BroadcastLoop ==
  \E ch \in Channel, p \in Client :
    \/ \E x \in Client : TellPublisher(ch, p, x) \/ HearPublisher(ch, p, x)
    \/ BroadcastEnds(ch, p)
    \/ OrphanEnds(ch, p)

-----------------------------------------------------------------------------
(* cRoot::Start's stop and restart: cServer::Shutdown has emptied m_Clients *)
(* before the manager stops (a handle its link still holds is deleted       *)
(* later), and the manager keeps its rooms and its queue.                   *)

\* The thread ends between two events.
Stop ==
  /\ alive
  /\ running
  /\ \A c \in Client : ~Ticked(c)
  /\ ~Busy
  /\ running' = FALSE
  /\ UNCHANGED <<alive, conn, queue, roomVars, leaveVars, peerVars, loopVars, viewVars,
                 departed>>

Start ==
  /\ alive
  /\ ~running
  /\ running' = TRUE
  /\ UNCHANGED <<alive, conn, queue, roomVars, leaveVars, peerVars,
                 loopVars, viewVars, departed>>

Next ==
  \/ \E c \in Client :
       Connect(c) \/ SendDisconnect(c) \/ TickClients(c) \/ doUserOffline(c)
  \/ \E c \in Client, ch \in Channel :
       \/ HandlePacketJoinRoom(c, ch)
       \/ HandlePacketLeftRoom(c, ch)
       \/ \E t \in Client, m \in {"subscribe", "signal"} :
            HandlePacketMsgRoom(c, ch, t, m)
       \/ onJoinedChannel(ch, c)
  \/ Execute
  \/ BroadcastLoop
  \/ Stop
  \/ Start

Spec == Init /\ [][Next]_vars

\* The manager thread waits only for m_QueueNonempty, which is set while the
\* queue is not empty, for m_CSClients, a lock held briefly, and in ~cPeer for a
\* media thread that has not begun its loop.
FairSpec == Spec /\ WF_vars(Execute)

-----------------------------------------------------------------------------
(* Safety.                                                                  *)

\* A room object exists exactly while m_Clients has a key or the peer of the
\* last leaver is being destroyed: JOIN creates it, and no other LEAVE than the
\* one that takes the last key away deletes it.  A null entry of
\* BroadcastJoinChannel is such a key: nobody is in that room, and it stays.
RoomIffOccupied ==
  \A ch \in Channel : ch \in rooms <=> members[ch] \cup nulls[ch] \cup leaving[ch] # {}

\* A connected client's picture of a channel: a member has been told that it
\* joined and of every other member; it knows of nobody else, but users whose
\* key has been null and the leaver whose "offline" is still to come; a client
\* without a key believes it is in no room and knows nobody, however joins,
\* leaves and rejoins interleave (onPeerJoined, onPeerLeaved).
RosterAgrees ==
  \A ch \in Channel, c \in Client :
    Online(c) =>
      /\ c \in members[ch] => c \in acked[ch] /\ members[ch] \ {c} \subseteq told[ch][c]
      /\ told[ch][c] \ {c} \subseteq
           members[ch] \cup haunted[ch] \cup (IF c \in untold[ch] THEN leaving[ch] ELSE {})
      /\ c \notin Keys(ch) \cup leaving[ch] => c \notin acked[ch] /\ told[ch][c] = {}

\* Any two members whose media threads are done have been announced to each
\* other as publishers, in whatever order their loops ran and interleaved,
\* unless m_Clients changed under one of the loops.
PublishersKnown ==
  \A ch \in Channel : \A p, q \in members[ch] :
    /\ p # q /\ Online(q)
    /\ media[ch][p] = "done" /\ media[ch][q] = "done"
    /\ p \notin torn[ch] /\ q \notin torn[ch]
    => p \in published[ch][q]

\* A connected client keeps no peer connection for a user that has left the
\* room: every "publisher" it was sent is followed by an "offline" or by its
\* own leave result, unless the loop of a media thread sent it late, when one of
\* the two had left already, or the user left a null entry behind.
NoStalePeerConnection ==
  \A ch \in Channel, c \in Client :
    Online(c) =>
      published[ch][c] \subseteq
        late[ch][c] \cup
          (IF c \in Peers(ch)
           THEN (members[ch] \ {c}) \cup haunted[ch]
                  \cup (IF c \in untold[ch] THEN leaving[ch] ELSE {})
           ELSE {})

\* Only existing peers hold connections, and media threads: nothing of a peer
\* that has left is negotiated, runs or forwards, also when it left twice or was
\* named as the target of a late message.  Of an orphan only the loop is kept.
MediaOnlyOfMembers ==
  \A ch \in Channel :
    /\ negotiated[ch] \cup torn[ch] \subseteq Peers(ch)
    /\ \A p \in Client :
         /\ media[ch][p] # "off" => p \in negotiated[ch]
         /\ p \notin Peers(ch) => subs[ch][p] = {}

\* No LEAVE is lost: while a client whose connection is gone is still in a
\* room that existed when it went, its LEAVE is still queued, and no JOIN of
\* it comes after that LEAVE (FIFO order of m_Queue, also over a restart).
DepartureCovered ==
  \A c \in Client, ch \in Channel :
    ch \in departed[c] /\ (c \in members[ch] \/ Queued(Join(c, ch))) =>
      \E i \in DOMAIN queue :
        /\ queue[i] = Leave(c, ch)
        /\ \A j \in DOMAIN queue : j > i => queue[j] # Join(c, ch)

\* An id that has not connected yet has left no trace.
NewAreUnknown ==
  \A c \in Client : conn[c] = "new" =>
    /\ \A i \in DOMAIN queue : queue[i].client # c
    /\ \A ch \in Channel :
         /\ c \notin members[ch] \cup nulls[ch] \cup leaving[ch] \cup acked[ch]
         /\ told[ch][c] = {} /\ published[ch][c] = {} /\ late[ch][c] = {}

\* Only deleted handles have departed, so nothing new of them is queued.
DepartedAreOffline ==
  \A c \in Client : departed[c] # {} => conn[c] = "offline"

\* onPeerLeaved deals with one client of one room, and its loop is over keys.
OneLeaver ==
  /\ \A ch, dh \in Channel : leaving[ch] # {} /\ leaving[dh] # {} => ch = dh
  /\ \A ch \in Channel :
       /\ \A c, d \in leaving[ch] : c = d
       /\ leaving[ch] \cap members[ch] = {}
       /\ nulls[ch] \cap members[ch] = {}
       /\ nulls[ch] \subseteq haunted[ch]
       /\ untold[ch] \subseteq Keys(ch)
       /\ leaving[ch] = {} => untold[ch] = {}

\* A media thread visits other clients only, and only inside its loop.
LoopsAreSane ==
  \A ch \in Channel, p \in Client :
    /\ p \notin telling[ch][p] \cup hearing[ch][p]
    /\ telling[ch][p] \cup hearing[ch][p] # {} => p \in Looping(ch)
    /\ p \in orphans[ch] => media[ch][p] = "off"
    /\ \A x, y \in hearing[ch][p] : x = y

\* q has been told of p, if anything reaches it.
Told(ch, p, q) == Online(q) => p \in published[ch][q]

\* p's media thread has still to come to the pair p, q, or was disturbed.
Pending(ch, p, q) ==
  \/ media[ch][p] = "off"
  \/ p \in torn[ch]
  \/ q \in telling[ch][p]
  \/ q \in hearing[ch][p] /\ Told(ch, p, q)

\* Two members know of each other, or a media thread will tell them.
PairsAreServed ==
  \A ch \in Channel : \A p, q \in members[ch] :
    p # q => \/ Told(ch, p, q) /\ Told(ch, q, p)
             \/ Pending(ch, p, q)
             \/ Pending(ch, q, p)

\* The inductive invariant.
IInv ==
  /\ TypeOK
  /\ RoomIffOccupied
  /\ RosterAgrees
  /\ NoStalePeerConnection
  /\ MediaOnlyOfMembers
  /\ DepartureCovered
  /\ NewAreUnknown
  /\ DepartedAreOffline
  /\ OneLeaver
  /\ LoopsAreSane
  /\ PairsAreServed

-----------------------------------------------------------------------------
(* Liveness, under FairSpec.                                                *)

\* A client that was in a room when its connection went is removed from it,
\* unless the server stops or the process crashes first.
DepartedAreRemoved ==
  \A c \in Client, ch \in Channel :
    (ch \in departed[c] /\ c \in members[ch])
      ~> (c \notin members[ch] \/ ~running \/ ~alive)

-----------------------------------------------------------------------------
(* What a comment of the code says, and the code does not do.               *)

\* Room.h: m_Clients holds "Clients that are connected to the server": a
\* member whose connection is gone has at least its LEAVE on the way.
MembersAreConnected ==
  \A c \in Client, ch \in Channel :
    conn[c] = "offline" /\ c \in members[ch] => Queued(Leave(c, ch))
=============================================================================
