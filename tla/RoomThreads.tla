----------------------------- MODULE RoomThreads -----------------------------
(***************************************************************************)
(* One room under its four kinds of threads, at the grain of their locks:   *)
(* the tick thread, the manager thread, the media thread of each publisher  *)
(* and the main thread in cServer::Shutdown.  ChannelManager has what they  *)
(* tell the clients; here is what they wait for, and who destroys a peer.   *)
(*                                                                         *)
(* m_CSClients is taken by the tick for a whole round, by Shutdown, and by  *)
(* every SendMsgToPeer and result packet (the latter hold nothing else long *)
(* enough to matter: they are steps that need the lock to be free).         *)
(* m_CSChannels is held by dealEvent from beginning to end and taken by     *)
(* doUserOffline in whichever thread deletes a handle.  The media threads   *)
(* use cRoom::m_Clients without any lock, and copy shared pointers to peers *)
(* out of it: to their own, and to that of the client whose turn it is.     *)
(***************************************************************************)
EXTENDS Naturals, Sequences, FiniteSets

CONSTANTS
  Client,    \* unique ids of clients
  MaxQueue   \* clients send nothing while so many events are queued

ASSUME RoomThreadsAssumption ==
  /\ MaxQueue \in Nat
  /\ Client \cap {"tick", "manager", "main", "free", "none"} = {}

VARIABLES
  csClients,   \* the thread that holds m_CSClients
  csChannels,  \* the thread that holds m_CSChannels
  handle,      \* where the handle of a client is
  queue,       \* cManager::m_Queue
  exists,      \* the room is in cManager::rooms
  members,     \* keys of cRoom::m_Clients that have a peer
  nulls,       \* keys of cRoom::m_Clients that have a null pointer
  manager,     \* the manager thread: where it is in dealEvent
  media,       \* media[c]: the media thread of c's publisher
  telling,     \* telling[c]: whom that thread still has to tell of c
  holding,     \* holding[c]: the peer that the turn of its loop has a copy of
  lingering,   \* clients that have left while another thread held their peer
  tick,        \* the tick thread
  server       \* the main thread: running, or how far Shutdown has come

lockVars == <<csClients, csChannels>>
roomVars == <<exists, members, nulls>>
mediaVars == <<media, telling, holding, lingering>>
vars == <<lockVars, handle, queue, roomVars, manager, mediaVars, tick, server>>

Event == [type : {"JOIN", "LEAVE", "MEDIA"}, client : Client]

Idle == [at |-> "idle", type |-> "NONE", client |-> "none", todo |-> {}]

Thread == {"tick", "manager", "main"} \cup Client

TypeOK ==
  /\ csClients \in {"free", "tick", "main"}
  /\ csChannels \in {"free", "manager"}
  /\ handle \in [Client -> {"none", "listed", "closed", "dropping", "detached", "gone"}]
  /\ queue \in Seq(Event)
  /\ exists \in BOOLEAN
  /\ members \in SUBSET Client
  /\ nulls \in SUBSET Client
  /\ manager \in [at : {"idle", "lock", "announce", "destroy", "result", "crashed"},
                  type : {"NONE", "JOIN", "LEAVE", "MEDIA"},
                  client : Client \cup {"none"}, todo : SUBSET Client]
  /\ media \in [Client -> {"off", "running", "lookup", "announce", "connected", "crashed"}]
  /\ telling \in [Client -> SUBSET Client]
  /\ holding \in [Client -> SUBSET Client]
  /\ lingering \in SUBSET Client
  /\ tick \in {"idle", "round", "delete"}
  /\ server \in {"running", "stopping", "ticked", "clear", "done"}

Init ==
  /\ csClients = "free"
  /\ csChannels = "free"
  /\ handle = [c \in Client |-> "none"]
  /\ queue = <<>>
  /\ exists = FALSE
  /\ members = {}
  /\ nulls = {}
  /\ manager = Idle
  /\ media = [c \in Client |-> "off"]
  /\ telling = [c \in Client |-> {}]
  /\ holding = [c \in Client |-> {}]
  /\ lingering = {}
  /\ tick = "idle"
  /\ server = "running"

-----------------------------------------------------------------------------
(* The network thread.                                                      *)

OnConnectionAccepted(c) ==
  /\ server = "running"
  /\ handle[c] = "none"
  /\ csClients = "free"
  /\ handle' = [handle EXCEPT ![c] = "listed"]
  /\ UNCHANGED <<lockVars, queue, roomVars, manager, mediaVars, tick, server>>

\* The link is closed: Destroy, and the link lets go of the handle.
SocketClosed(c) ==
  /\ handle[c] = "listed"
  /\ handle' = [handle EXCEPT ![c] = "closed"]
  /\ UNCHANGED <<lockVars, queue, roomVars, manager, mediaVars, tick, server>>

\* The last reference to a handle goes: ~cProtocol_impl calls doUserOffline.
doUserOffline(c) ==
  /\ csChannels = "free"
  /\ handle' = [handle EXCEPT ![c] = "gone"]
  /\ queue' = IF exists THEN Append(queue, [type |-> "LEAVE", client |-> c]) ELSE queue
  /\ UNCHANGED <<lockVars, roomVars, manager, mediaVars>>

\* After Shutdown the handle goes when its link is closed.
LinkRelease(c) ==
  /\ handle[c] = "detached"
  /\ doUserOffline(c)
  /\ UNCHANGED <<tick, server>>

-----------------------------------------------------------------------------
(* The tick thread.                                                         *)

TickStart ==
  /\ tick = "idle"
  /\ server \in {"running", "stopping"}
  /\ csClients = "free"
  /\ csClients' = "tick"
  /\ tick' = "round"
  /\ UNCHANGED <<csChannels, handle, queue, roomVars, manager, mediaVars, server>>

\* A client signs out after a leave and comes back with a new id: no JOIN of it
\* follows a LEAVE that is not dealt with, or a peer that lingers.
HasLeft(c) ==
  \/ c \in lingering
  \/ manager.type = "LEAVE" /\ manager.client = c
  \/ \E i \in DOMAIN queue : queue[i] = [type |-> "LEAVE", client |-> c]

\* Mutant: the type of the event is not set.
HandlePacket_NoType(c, type) ==
  /\ tick = "round"
  /\ handle[c] = "listed"
  /\ type = "JOIN" => ~HasLeft(c)
  /\ Len(queue) < MaxQueue
  /\ queue' = Append(queue, [type |-> "NONE", client |-> c])
  /\ UNCHANGED <<lockVars, handle, roomVars, manager, mediaVars, tick, server>>

\* A packet of a client is handled; addEvent needs m_CS only for itself.
HandlePacket(c, type) ==
  /\ tick = "round"
  /\ handle[c] = "listed"
  /\ type = "JOIN" => ~HasLeft(c)
  /\ Len(queue) < MaxQueue
  /\ queue' = Append(queue, [type |-> type, client |-> c])
  /\ UNCHANGED <<lockVars, handle, roomVars, manager, mediaVars, tick, server>>

\* A destroyed handle goes to RemoveClients.
TickRemove(c) ==
  /\ tick = "round"
  /\ handle[c] = "closed"
  /\ handle' = [handle EXCEPT ![c] = "dropping"]
  /\ UNCHANGED <<lockVars, queue, roomVars, manager, mediaVars, tick, server>>

\* Mutant: RemoveClients is cleared while m_CSClients is still held.
TickUnlock_Later ==
  /\ tick = "round"
  /\ csClients' = IF \E c \in Client : handle[c] = "dropping" THEN "tick" ELSE "free"
  /\ tick' = "delete"
  /\ UNCHANGED <<csChannels, handle, queue, roomVars, manager, mediaVars, server>>

TickUnlock ==
  /\ tick = "round"
  /\ csClients' = "free"
  /\ tick' = "delete"
  /\ UNCHANGED <<csChannels, handle, queue, roomVars, manager, mediaVars, server>>

TickDelete(c) ==
  /\ tick = "delete"
  /\ handle[c] = "dropping"
  /\ doUserOffline(c)
  /\ UNCHANGED <<tick, server>>

TickEnd ==
  /\ tick = "delete"
  /\ \A c \in Client : handle[c] # "dropping"
  /\ tick' = "idle"
  /\ server' = IF server = "stopping" THEN "ticked" ELSE server
  /\ UNCHANGED <<lockVars, handle, queue, roomVars, manager, mediaVars>>

TickThread ==
  \/ TickStart \/ TickUnlock \/ TickEnd
  \/ \E c \in Client : TickRemove(c) \/ TickDelete(c)

-----------------------------------------------------------------------------
(* The manager thread.                                                      *)

Execute ==
  /\ manager = Idle
  /\ queue # <<>>
  /\ queue' = Tail(queue)
  /\ manager' = [at |-> "lock", type |-> Head(queue).type,
                 client |-> Head(queue).client, todo |-> {}]
  /\ UNCHANGED <<lockVars, handle, roomVars, mediaVars, tick, server>>

DealJoin(c) ==
  /\ manager.type = "JOIN"
  /\ exists' = TRUE
  /\ manager' = [manager EXCEPT !.at = "announce", !.todo = members \cup nulls]
  /\ UNCHANGED <<members, nulls, mediaVars>>

\* Without a peer onPeerLeaved returns early, and the null pointer is erased.
DealLeave(c) ==
  /\ manager.type = "LEAVE"
  /\ exists' = TRUE
  /\ members' = members \ {c}
  /\ nulls' = nulls \ {c}
  /\ manager' = IF c \in members
                THEN [manager EXCEPT !.at = "announce", !.todo = (members \cup nulls) \ {c}]
                ELSE [manager EXCEPT !.at = "result"]
  /\ UNCHANGED mediaVars

\* A session description for the publisher: its transport and threads start.
DealMedia(c) ==
  /\ manager.type = "MEDIA"
  /\ exists /\ c \in members \cup nulls
  /\ manager' = [manager EXCEPT !.at = IF c \in nulls THEN "crashed" ELSE "result"]
  /\ media' = IF c \in members /\ media[c] = "off"
              THEN [media EXCEPT ![c] = "running"] ELSE media
  /\ UNCHANGED <<roomVars, telling, holding, lingering>>

\* Without the room, or the target in it, nothing is done.
DealMediaNobody ==
  /\ manager.at = "lock"
  /\ csChannels = "free"
  /\ manager.type = "MEDIA"
  /\ ~(exists /\ manager.client \in members \cup nulls)
  /\ manager' = Idle
  /\ UNCHANGED <<lockVars, handle, queue, roomVars, mediaVars, tick, server>>

dealEvent ==
  /\ manager.at = "lock"
  /\ csChannels = "free"
  /\ csChannels' = "manager"
  /\ DealJoin(manager.client) \/ DealLeave(manager.client) \/ DealMedia(manager.client)
  /\ UNCHANGED <<csClients, handle, queue, tick, server>>

\* "online" or "offline" for one other key; onPeerLeaved also uses its pointer.
Announce(x) ==
  /\ manager.at = "announce"
  /\ x \in manager.todo
  /\ csClients = "free"
  /\ manager' = IF manager.type = "LEAVE" /\ x \in nulls
                THEN [manager EXCEPT !.at = "crashed"]
                ELSE [manager EXCEPT !.todo = @ \ {x}]
  /\ UNCHANGED <<lockVars, handle, queue, roomVars, mediaVars, tick, server>>

\* The newcomer is inserted, unless there is an entry; the leaver's peer goes.
AnnounceEnd ==
  /\ manager.at = "announce"
  /\ manager.todo = {}
  /\ manager' = [manager EXCEPT !.at = IF manager.type = "JOIN" THEN "result" ELSE "destroy"]
  /\ members' = IF manager.type = "JOIN" /\ manager.client \notin nulls
                THEN members \cup {manager.client} ELSE members
  /\ UNCHANGED <<lockVars, handle, queue, exists, nulls, mediaVars, tick, server>>

\* A media thread has a copy of the pointer to c's peer: its own thread inside
\* the loop, or that of another whose loop is at c.
Held(c) == media[c] = "announce" \/ \E p \in Client : c \in holding[p]

\* Mutant: the media thread is told to stop, and not waited for.
DestroyPeer_NoJoin(c) ==
  media' = IF media[c] = "lookup" THEN media ELSE [media EXCEPT ![c] = "off"]

\* ~cPeer, ~WebRtcConnection and DtlsTransport::close, which joins the thread.
DestroyPeer(c) ==
  /\ media[c] \in {"off", "running", "connected"}
  /\ media' = [media EXCEPT ![c] = "off"]

\* onPeerLeaved returns and lets go of the leaver's peer, which is destroyed here
\* if no media thread holds it.
Destroy ==
  /\ manager.at = "destroy"
  /\ \/ Held(manager.client) /\ lingering' = lingering \cup {manager.client}
                              /\ UNCHANGED media
     \/ ~Held(manager.client) /\ DestroyPeer(manager.client)
                               /\ UNCHANGED lingering
  /\ manager' = [manager EXCEPT !.at = "result"]
  /\ UNCHANGED <<lockVars, handle, queue, roomVars, telling, holding, tick, server>>

\* The result packet (the answer, for MEDIA); an empty room is released.
Result ==
  /\ manager.at = "result"
  /\ csClients = "free"
  /\ csChannels' = "free"
  /\ exists' = IF manager.type = "LEAVE" /\ members \cup nulls = {} THEN FALSE ELSE exists
  /\ manager' = Idle
  /\ UNCHANGED <<csClients, handle, queue, members, nulls, mediaVars, tick, server>>

ManagerThread ==
  \/ Execute \/ dealEvent \/ DealMediaNobody \/ AnnounceEnd \/ Destroy \/ Result
  \/ \E x \in Client : Announce(x)

-----------------------------------------------------------------------------
(* The media thread of a publisher.                                         *)

\* The handshake is completed: CONN_READY.
onJoinedChannel(c) ==
  /\ media[c] = "running"
  /\ media' = [media EXCEPT ![c] = "lookup"]
  /\ UNCHANGED <<lockVars, handle, queue, roomVars, manager, telling, holding, lingering,
                 tick, server>>

\* m_Clients[a_ClientID] finds the peer, and the loop over m_Clients begins.
LookupPeer(c) ==
  /\ c \in members
  /\ media' = [media EXCEPT ![c] = "announce"]
  /\ telling' = [telling EXCEPT ![c] = (members \cup nulls) \ {c}]
  /\ UNCHANGED <<nulls, manager>>

\* It makes an entry if there is none.  A loop of the manager over m_Clients finds
\* the entry or does not, depending on the order of the keys.
LookupNull(c) ==
  /\ exists /\ c \notin members
  /\ media' = [media EXCEPT ![c] = "connected"]
  /\ nulls' = nulls \cup {c}
  /\ \/ UNCHANGED manager
     \/ /\ manager.at = "announce"
        /\ manager' = [manager EXCEPT !.todo = @ \cup {c}]
  /\ UNCHANGED telling

\* The room may be gone under a peer that lingers: the entry is in freed memory.
LookupFreed(c) ==
  /\ c \in lingering \ members
  /\ media' = [media EXCEPT ![c] = "connected"]
  /\ UNCHANGED <<nulls, manager, telling>>

Lookup(c) ==
  /\ media[c] = "lookup"
  /\ LookupPeer(c) \/ LookupNull(c) \/ LookupFreed(c)
  /\ UNCHANGED <<lockVars, handle, queue, exists, members, holding, lingering, tick, server>>

\* A turn of the loop copies the entry of x, and the pointer to x's peer with it.
Turn(c, x) ==
  /\ media[c] = "announce"
  /\ holding[c] = {}
  /\ x \in telling[c] \cap members
  /\ telling' = [telling EXCEPT ![c] = @ \ {x}]
  /\ holding' = [holding EXCEPT ![c] = {x}]
  /\ UNCHANGED <<lockVars, handle, queue, roomVars, manager, media, lingering, tick, server>>

\* "publisher", both ways between c and x, where x has no peer any more.
TellNull(c, x) ==
  /\ media[c] = "announce"
  /\ holding[c] = {}
  /\ x \in telling[c] \ members
  /\ csClients = "free"
  /\ telling' = [telling EXCEPT ![c] = @ \ {x}]
  /\ UNCHANGED <<lockVars, handle, queue, roomVars, manager, media, holding, lingering,
                 tick, server>>

\* The copy that c's turn has is the last pointer to x's peer.
HasLast(c, x) ==
  /\ x \in lingering
  /\ media[x] # "announce"
  /\ \A p \in Client \ {c} : x \notin holding[p]

\* "publisher", both ways; the turn ends and lets go of x's peer.
Tell(c, x) ==
  /\ media[c] = "announce"
  /\ x \in holding[c]
  /\ csClients = "free"
  /\ holding' = [holding EXCEPT ![c] = {}]
  /\ \/ HasLast(c, x) /\ DestroyPeer(x) /\ lingering' = lingering \ {x}
     \/ ~HasLast(c, x) /\ UNCHANGED <<media, lingering>>
  /\ UNCHANGED <<lockVars, handle, queue, roomVars, manager, telling, tick, server>>

\* BroadcastJoinChannel returns and lets go of c's own peer.  If that pointer is
\* the last, ~cPeer joins the thread it runs on, and boost throws.
TellEnd(c) ==
  /\ media[c] = "announce"
  /\ telling[c] = {}
  /\ holding[c] = {}
  /\ media' = [media EXCEPT ![c] =
                 IF c \in lingering /\ \A p \in Client : c \notin holding[p]
                 THEN "crashed" ELSE "connected"]
  /\ UNCHANGED <<lockVars, handle, queue, roomVars, manager, telling, holding, lingering,
                 tick, server>>

MediaThread(c) ==
  \/ Lookup(c)
  \/ TellEnd(c)
  \/ \E x \in Client : Turn(c, x) \/ TellNull(c, x) \/ Tell(c, x)

-----------------------------------------------------------------------------
(* The main thread: cServer::Shutdown.                                      *)

Shutdown ==
  /\ server = "running"
  /\ server' = "stopping"
  /\ UNCHANGED <<lockVars, handle, queue, roomVars, manager, mediaVars, tick>>

ShutdownLock ==
  /\ server = "ticked"
  /\ csClients = "free"
  /\ csClients' = "main"
  /\ server' = "clear"
  /\ UNCHANGED <<csChannels, handle, queue, roomVars, manager, mediaVars, tick>>

\* m_Clients.clear() is the last to let go of a handle that was closed.
ShutdownDelete(c) ==
  /\ server = "clear"
  /\ handle[c] = "closed"
  /\ doUserOffline(c)
  /\ UNCHANGED <<tick, server>>

ShutdownEnd ==
  /\ server = "clear"
  /\ \A c \in Client : handle[c] # "closed"
  /\ handle' = [c \in Client |-> IF handle[c] = "listed" THEN "detached" ELSE handle[c]]
  /\ csClients' = "free"
  /\ server' = "done"
  /\ UNCHANGED <<csChannels, queue, roomVars, manager, mediaVars, tick>>

Next ==
  \/ \E c \in Client :
       \/ OnConnectionAccepted(c)
       \/ SocketClosed(c)
       \/ LinkRelease(c)
       \/ \E type \in {"JOIN", "LEAVE", "MEDIA"} : HandlePacket(c, type)
       \/ onJoinedChannel(c)
       \/ MediaThread(c)
       \/ ShutdownDelete(c)
  \/ TickThread
  \/ ManagerThread
  \/ Shutdown
  \/ ShutdownLock
  \/ ShutdownEnd

Spec == Init /\ [][Next]_vars

-----------------------------------------------------------------------------
(* Properties.                                                              *)

\* The threads that thread t waits for: the holder of the lock its next step
\* needs, or the media thread it joins.
WaitsFor(t) ==
  CASE t = "manager" ->
         ({csChannels} \cap (IF manager.at = "lock" THEN Thread ELSE {}))
           \cup ({csClients} \cap
                  (IF manager.at = "result" \/ (manager.at = "announce" /\ manager.todo # {})
                   THEN Thread ELSE {}))
           \cup (IF manager.at = "destroy" /\ ~Held(manager.client)
                      /\ media[manager.client] = "lookup"
                 THEN {manager.client} ELSE {})
    [] t = "tick" ->
         IF tick = "delete" /\ \E c \in Client : handle[c] = "dropping"
         THEN {csChannels} \cap Thread ELSE {}
    [] t = "main" ->
         IF server = "clear" /\ \E c \in Client : handle[c] = "closed"
         THEN {csChannels} \cap Thread ELSE {}
    [] OTHER ->
         (IF media[t] = "announce" /\ telling[t] \cup holding[t] # {}
          THEN {csClients} \cap Thread ELSE {})
           \cup {x \in holding[t] : HasLast(t, x) /\ media[x] = "lookup"}

\* No threads wait for each other in a circle: "Delete the client later, when CS
\* is not held, to avoid deadlock" (TickClients).
NoCircularWait ==
  \A S \in (SUBSET Thread) \ {{}} : \E t \in S : WaitsFor(t) \cap S = {}

\* While the server is not being shut down the threads wait in order: a round of
\* the tick, the event being dealt with and the join of a publisher's media
\* thread never close a circle.
WaitsInOrder == server = "running" => NoCircularWait

\* A room is not deleted under a media thread that is inside its
\* BroadcastJoinChannel: the join in the destructor of the leaver's peer is all
\* that keeps cRoom alive, no lock does.  It fails exactly for the threads whose
\* peer another thread, or they themselves, held when it left.
RoomOutlivesMedia ==
  \A c \in Client : media[c] \in {"lookup", "announce"} /\ c \notin lingering => exists

=============================================================================
