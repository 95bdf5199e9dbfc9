# licode-windows: TLA+ specifications

licode-windows is a video-conference server (an MCU that forwards WebRTC streams) and its Windows
client. A client logs in over a small binary protocol on TCP, joins a *channel* (a room), publishes
its stream to the server over WebRTC and subscribes to the streams of the others. The server is C++
with one tick thread, one manager thread, one authenticator thread, libevent's network thread and
several media threads per WebRTC connection.

This directory holds TLA+ modules for the part that coordinates all this: the life of a connection,
the login, the rooms, their threads and locks, the ring buffer and the packets under the protocol, and
the media connections with their threads and the relay between them. The TLC runs
check them on small instances; each of the eight detailed modules has TLAPS proofs for every instance. Paths below are
relative to `src/Src/`.

## 1. Inventory

### Server: rooms (`Server/Channel/{Manager,Room,Peer}.cpp`)

* **cManager** keeps `m_Queue` (events JOIN, LEAVE, MEDIA), guarded by `m_CS`, and `rooms`, guarded by
  `m_CSChannels`. `doUserJoinChannel`, `doUserLeftChannel` and `OnMsgFromPeer` append events, on the
  tick thread. `doUserOffline` appends one LEAVE for every room that exists; it runs in the destructor
  of a protocol object, so on whichever thread drops the last reference to a handle. `Execute` takes
  one event at a time and `dealEvent` handles it with `m_CSChannels` held from beginning to end.
* **cRoom** keeps `m_Clients`, a map from client ids to peers. `onPeerJoined` tells the others
  "online" and the newcomer of the others; `onPeerLeaved` tells "offline" and cancels subscriptions;
  `onMsgFromPeer` passes a message to its target; `BroadcastJoinChannel` announces a publisher to all
  and all to the publisher. The last is called from a media thread, without a lock.
* **cPeer** keeps the publisher's WebRTC connection, `ready`, and one connection and event listener
  per subscriber. Its destructor destroys them, which joins their threads.
* *Hard:* every message is queued and dealt with when its sender, its target or its room may have
  gone; the readiness of a publisher comes from another thread; locks are taken in several orders.
* *Correct means:* a room exists while it is occupied; a client's picture of the room agrees with the
  room; publishers learn of each other; nothing is kept for those who left; who disconnects is
  removed; no thread waits for ever; no room is deleted under a thread that uses it.

### Server: connections (`Server/{Server,ClientHandle}.cpp`, `Server/OSSupport/TCPLinkImpl.cpp`)

* **cServer** keeps `m_Clients` under `m_CSClients`. `Tick` visits every handle under the lock every
  50 ms, moves destroyed ones to a local list and clears that after the lock is released. `Shutdown`
  stops the tick thread, then destroys and clears all handles.
* **cClientHandle** keeps `m_State` (csConnected ... csDestroyed), received data and `m_HasSentDC`. It
  is owned by `m_Clients` and by its link; the network thread appends data and calls `Destroy` when
  the link closes; the tick thread runs the protocol; the authenticator completes the login.
* *Hard:* `m_State` is tested and set by four threads, in part without a lock; who drops the last
  reference runs the destructor.
* *Correct means:* deleted handles were destroyed and are used by nobody; a destroyed handle is
  deleted; a login is decided and both state machines (handle and protocol) agree on it.

### Server and client: protocol (`Server/Protocol/*.cpp`, `Client/{ConnectionClient,conductor,MainFrame}.cpp`)

* **cProtocol_impl** and **ConnectionClient** keep the protocol state (1 status, 2 login, 3 work), the
  encryption flag and ciphers, and a ring buffer of received data. Packet types are small numbers
  that mean something else in every state; nothing in a packet says whether it is encrypted.
* **cAuthenticator** is a queue and a thread. `AuthFromDBPoll` accepts everybody in this code.
* **Conductor** and **MainFrame** make the client join, leave, send and sign out.
* *Hard:* both ends change state and switch to encryption on their own, in the middle of a stream; the
  client reuses one object for all its connections, and sockets overlap.
* *Correct means:* what was encrypted is decrypted and nothing else; a packet is read in the state it
  was written for; nobody works in the clear; joins and leaves complete.

### Common: `cByteBuffer` (`Common/ByteBuffer.cpp`, a copy in `Client/`)

A ring with three positions (data start, read, write) and one unused cell. *Correct means:* it is a
queue of bytes with a read mark that can be committed or reset, whatever wraps around.

### Packets (`Server/Protocol/Packetizer.{h,cpp}`, `Client/ConnectionClient.cpp`)

A packet is a length, a type and fields, the first two as VarInts. **cPacketizer** composes it in the
connection's one `m_OutPacketBuffer` (64 KiB) under `m_CSPacket` and sends it in its destructor; a field
that does not fit ends the process (`VERIFY`). The client collects chunks in `m_ReceivedData` (16 KiB)
and handles what is complete. *Hard:* several threads compose; chunks end anywhere; a packet may exceed
the reader's buffer. *Correct means:* packets arrive whole, once, in order, and none that is complete
waits.

### Media (`media/`)

* **WebRtcConnection**: the state the listener is told of (`updateState`), a send queue of at most 1000
  packets with its thread (`sendLoop`), and a destructor that joins everything.
* **DtlsTransport** and **Resender**: the handshake, a thread that takes received packets
  (`getNiceDataLoop`), a resend timer on an `io_service` run by a third thread.
* **NiceConnection**: the ICE state, the packet queue, the thread of the agent's main loop, `close`.
* **OneToManyProcessor**: a publisher's subscribers under `myMonitor_`, delivery and feedback.
* *Hard:* states tested and set by five threads without a lock, wakeups without the mutex, a cancelled
  timer whose handler runs anyway, an unsigned counter below zero, destructors that join threads while
  they hold a lock.
* *Correct means:* the listener hears of gathered, ready and failed in order and once; queued packets are
  served; no thread outlives what it uses; nothing freed is used; every destructor ends.

### The rest

Not modelled: SDP text, RTCP and header rewriting, OpenSSL/libsrtp/PolarSSL wrappers (no shared
state), recording and transcoding (`media/media`, unused by the server), RtpSink, RtpSource and
RtpPacketQueue (no code makes one), the slide-show mode of WebRtcConnection (no code turns it on),
the GUI and rendering, logging, settings, the console, UDP and lookups (unused), and everything under
`ThirdParty/`. `PROJECT.json` lists the components one by one.

## 2. Modules

| module | models | composes |
|---|---|---|
| `ChannelManager` | the queue, rooms and peers, and what the clients have been told | all of cManager, cRoom, cPeer, with the connections that feed it |
| `ChannelManager_proofs` | | theorems about it |
| `RoomThreads` | one room under the tick, manager, media and main threads, lock by lock | cServer, cManager, cRoom and the media threads |
| `RoomThreads_proofs` | | theorems about it |
| `ClientHandle` | a handle between the network, tick, authenticator and main threads | cServer, cClientHandle, cProtocol_impl, cAuthenticator |
| `ClientHandle_proofs` | | theorems about it |
| `Login` | one client program and its connections' protocol objects on the server | ConnectionClient, Conductor, cProtocol_impl |
| `Login_proofs` | | theorems about it |
| `ByteQueue` | the abstract specification: a bounded queue with a read mark | |
| `ByteBuffer` | the ring buffer, which implements `ByteQueue` | |
| `ByteBuffer_proofs` | | theorems about it, the refinement included |
| `PacketStream` | the abstract specification: packets are handled whole, once and in order until the stream breaks | |
| `Framing` | packets from the server's threads to the client, byte by byte; implements `PacketStream` | cPacketizer, cProtocol_impl, ConnectionClient, the buffers as sequences |
| `Framing_proofs` | | theorems about it, the refinement included |
| `MediaConnection` | one connection with its transport under five threads | WebRtcConnection, DtlsTransport, Resender, NiceConnection |
| `MediaConnection_proofs` | | theorems about it |
| `MediaRelay` | one peer with its publisher and subscribers under three kinds of threads | cPeer, OneToManyProcessor, the life of their connections |
| `MediaRelay_proofs` | | theorems about it |

The `MC*` modules only define the model values; the `.cfg` files give the constants their values.
Definitions named `X_Something` and commented "Mutant" are wrong versions of `X`: put in its place,
each makes the property it was written for fail.

### ChannelManager

Three kinds of threads interleave. A packet handler on the tick thread is a step, and so is each stage of
a connection's end (a disconnect packet, removal from `m_Clients`, deletion with `doUserOffline`). The manager
deals with a JOIN, a MEDIA and the LEAVE of someone without a peer in one step; the LEAVE of a member is
`DealLeave` (the key is erased), a `TellOffline` for each turn of `onPeerLeaved`'s loop, and `LeaveEnds`. A
media thread runs `onJoinedChannel` under no lock: `BroadcastJoinChannel` finds the peer and begins its loop,
and each of the two messages of a turn is a step (`TellPublisher`, `HearPublisher`).

`conn` is the stage a connection has reached, `queue` is `m_Queue`; `rooms`, `members`, `nulls`, `negotiated` and
`subs` are rooms and peers; `leaving` and `untold` are where the manager is in `onPeerLeaved`; `media`,
`telling` and `hearing` where each media thread is in its loop. `acked`, `told` and `published` are the
clients' side: what the result, online/offline and publisher messages add up to (a message to a handle that
is gone, or was sent a disconnect packet, is lost: `Unreachable`). `Stop` and `Start` are the restart of
`cRoot`, over which rooms and queue survive. Four variables are history: `departed` (the rooms `doUserOffline`
found), `haunted`, `torn` and `late`. The last three record what the unlocked media threads spoil:

* `BroadcastJoinChannelNull`: `m_Clients[a_ClientID]` (`Server/Channel/Room.cpp:106`) inserts a null pointer if the manager
  has just erased the key. The entry keeps a room with nobody in it, is announced as online to newcomers and
  named as a publisher, and crashes the process when a LEAVE or a message comes to it (`TellOfflineNull`,
  `DealMedia`). Its users are `haunted` until the room goes.
* `SendPublisher`: a message of a loop may come when one of the two has left. The client then keeps a peer
  connection that no "offline" closes: it is `late`.
* `Disturb`: an insertion or an erasure under a loop over the `std::map` is a data race. The loop then visits
  any of the keys it had left and any new one, and its peer is `torn`.
* `orphans`: a thread inside its loop has copied the shared pointer to its own peer. The leave does not join
  it then; the loop goes on, and at its end `~cPeer` runs on the thread that `DtlsTransport::close` joins,
  which boost refuses with an exception (`OrphanEnds`).

Session descriptions and candidates are one kind of message ("signal"). `WebRtcConnection::init` always
returns true, so joining cannot fail. Simplifications: a lookup in the map is one step; a result packet goes out
with the insertion or the end it reports; the copy of another peer's pointer that a turn holds is counted
only where the orphan ends (`RoomThreads` counts it everywhere); of an orphan only the loop is kept; a loop in a
room that was freed under it is disturbed like any other; two loops for one id (an orphan's and that of a new
peer) are left out; a crash by the race itself would end a behaviour and is not an action.

### RoomThreads

The same code for one room, with the locks `m_CSClients` and `m_CSChannels` as variables and a step
for each piece between two lock operations: `ChannelManager` is about what is told, this module about who
waits for whom and who destroys a peer. The manager's program counter is `manager.at`, the media
thread's `media[c]`. `members` are entries of `m_Clients` with a peer and `nulls` those with a null
pointer. A thread that uses a null pointer stops (`crashed`); the others go on in the model, which only adds
behaviours. `holding` are the shared pointers that the turns of media threads have copied, and a
thread inside its loop holds its own peer as well: whoever lets go last destroys the peer. It is the manager in
`Destroy`, which then waits for the leaver's media thread as `DtlsTransport::close` does; or another media thread
(`Tell`); or the peer's own thread (`TellEnd`), which cannot join itself. A leaver whose peer was held is
`lingering`: nothing keeps the room alive for its thread (`LookupFreed`). `HasLeft` bounds what is sent: this
repository's client signs out after a leave (`Conductor::OnLeaveChannel`) and comes back under a new id, so that no JOIN of
the old one follows.

`m_CS`, `m_CSOutgoingData` and `myMonitor_` are taken and released inside one step, with no other of these
locks taken meanwhile. `updateStateMutex_` of a connection is held over its whole `updateState`
(`media/WebRtcConnection.cpp:518-618`), hence over `notifyEvent`, `BroadcastJoinChannel` and the `m_CSClients` of its
messages. It is no variable here: each connection has its own, only that connection's threads take it, and the
manager, which joins them, neither takes nor holds it (NICE_FINISHED reports no transport state), so that it closes
no circle between the threads of this module; the thread that destroys its own peer holds it, and fails at
the join. Left out:
subscribers' connections, and the undefined behaviour of the media thread's iteration over a map that changes
(`Disturb` in `ChannelManager`).

### ClientHandle

`state` is `m_State`, `proto` the protocol's state. A test of `m_State` and the assignment after it are
two steps where the network thread can come in between (`Promote`/`PromoteEnd`,
`AuthenticateUser`/`AuthenticateEnd`, `Destroy`/`DestroyEnd`). `listed`, `dropping`, `detached` and
`deleted` say who still owns the handle. A packet is a type and one of good, bad (refused by its
handler), short (fields missing) and empty; packets arrive whole. The timeout may strike at any tick
(the counter is also written by the network thread without a lock). The ASSERTs of the code do nothing
here; they are among the properties. `Destroy` from `Shutdown` is one step:
both of its assignments are made by the main thread inside the critical section `m_CSClients`, after the
tick thread has stopped.

### Login

A packet is its type, the protocol state it was written for and whether it was encrypted; `up` and
`down` are the TCP streams of each socket. `Decode` is `DataReceived`: one decision for all data of a
call. A packet of another state meets whatever handler its type has there, and `ClientReads` /
`ServerReads` say whether that handler can read its fields. The client is one thread: its steps are
window messages. `Fault` says what may go wrong: the server's end closes, the server's timeout strikes,
the user joins again while a connection is being made. `SignOut` inside a handler deletes the
decryptor that the loop of `DataReceived` may use again: the client then stops (`crashed`). An end that reads
garbage (ciphertext as plain text, or plain text through a cipher) stops reading; what a handler would make of
the garbage is not modelled.

### ByteBuffer and ByteQueue

Every call is one step; `out` is what it returned. `Queue` is the refinement mapping: `done` are the
bytes between data start and read position, `todo` those from there to the write position.

### Framing and PacketStream

`out` is `m_OutPacketBuffer`, `lock` is `m_CSPacket`, `wire` the TCP stream, `received` is
`m_ReceivedData`. A step is the constructor of a packetizer, one of its writes, its destructor, the
arrival of a chunk, or one turn of the client's loop. `Base` is 128 in the code and 2 in the run, so that
lengths and types of two bytes, cut anywhere, are small. `VerificationFails` is the end of the process;
what was not sent by then is lost. Encryption keeps lengths and order and is left to `Login`. `SendPacket` makes
two calls of `SendData`, one for the length and one for the rest, and they are one step: that `m_HasSentDC`
may be set between them, so that the last packet of a connection loses its second part, is not modelled. A chunk that
does not fit is dropped (`lost`); `PacketBufferFull` does nothing in this client, which goes on in the
middle of a packet: `PacketStream` promises nothing from there, but says that only a `Fatal` packet (longer
than the buffer allows, or refused with more behind it) can cause it.

### MediaConnection

The case the server makes: bundle, one component with rtcp-mux, trickle off; `isServer` is the DTLS role (a
subscriber's connection is the server, a publisher's the client). `owner` is the manager thread, `sender`
is `sendLoop`, `main` the main loop, `recv` is `getNiceDataLoop`, `resender` the timer's thread. A step ends
wherever another thread can come between a read and its use: the test and the set of `iceState_`, the
assignment of `state_` and the `updateState` it leads to (`report`), the test of the send queue and the wait,
`timer.cancel()` and the join (`flight`). A timer whose handler is due cannot be cancelled any more, and an
`io_service` that ran out of work is `stopped` and runs nothing again, as boost has it. A cancelled timer
makes the handler run with `operation_aborted`. Members are destroyed in the reverse order of their
declaration, the mutexes before the transport.
Left out: what the listener does (in `RoomThreads` and `ChannelManager`); the GATHERED that `createOffer` may
tell by itself; sending through an agent that is being freed (`sendData` tests and sends in one step); a
second transport; payload types and rate control. When the last candidate came is left to the choice of
whether a component fails. The destructor runs on a thread other than the connection's own, here and in
`MediaRelay`; the case in which it does not is the orphan of `ChannelManager` and the `TellEnd` of `RoomThreads`.

### MediaRelay

`subscribers` is the processor's map of shared pointers, `raw` and `listeners` are the two maps of cPeer.
Dropping a shared pointer is two steps: the connection is told to end, and its media thread is gone; what
is between them in the destructor is `MediaConnection`. `monitor` is `myMonitor_`; `deliverFeedback_` tests
and uses `feedbackSink_` without it. Only the operations that the manager can reach are there: a client
that subscribes to itself would be skipped by `~cPeer` and left to `closeAll`, but no client of this
repository does that; the branch for "feedback in wrong path" is not reached by what the connection
delivers.

## 3. Runs

| run | checks | bounds and why they are enough |
|---|---|---|
| `conference` | type; `RoomIffOccupied`, `RosterAgrees`, `PublishersKnown`, `NoStalePeerConnection`, `MediaOnlyOfMembers`, `DepartureCovered`; liveness `DepartedAreRemoved` | 2 clients, 1 channel, at most 1 event queued by packets (and any number by `doUserOffline`): both join and publish, one subscribes, the other leaves and comes back while the media threads are anywhere in their loops, and both may disconnect. One leaver suffices for the races, which are between one leave and one loop. The safety properties are also proved for every instance. 740,803 states, 3 minutes. |
| `ghost` (violation) | `MembersAreConnected` | the same instance |
| `handle_life` | type; `DeletedAreDestroyed`, `NoUseAfterDelete`, `LoginAgrees`; liveness `DestroyedAreDeleted`, `LoginIsDecided` | 1 handle (handles only share the lock, which `auth` and `tick` contend for with one as well), 2 packets at a time into a buffer of 2, so that it overflows |
| `login_leave` | type; `ReadAsWritten`, `MeantForReader`; liveness `JoinCompletes`, `LeaveCompletes` | 3 connections one after the other, 4 spontaneous packets (keep-alives, room messages, leaves): each leave is followed by a login in the state the last one left |
| `login_faults` | `WorkIsEncrypted` | 2 overlapping connections, all faults |
| `login_reconnect` (violation) | `ReadAsWritten` | connections that the server closes |
| `ring_buffer` | type; `InOrder`; `QueueSpec` (refinement) | capacity 3, calls of up to 4 bytes: full, too long, wrapped. Proved for every capacity. |
| `threads_stop` | type; `WaitsInOrder`, `RoomOutlivesMedia` | 2 clients (one leaves while the other is told, and holds the other's peer), a shutdown at any time; 1.3 million states up to symmetry, 1 minute |
| `threads_deadlock` (violation) | `NoCircularWait` | 2 clients and a shutdown |
| `framing` | type; `NothingCompleteWaits`; `PacketsInOrder` (refinement) | 2 threads, 3 packets of up to 4 bytes with a length and types of up to two, chunks of up to 3, a buffer of 7: a packet in several chunks, several in one, a field that does not fit, a refused packet, a full buffer. `MCFraming` also checks that a VarInt is read as written. |
| `media_connection` | type; `EventsInOrder`, `NoResendAfterTimeout`, `ThreadsAreJoined`; liveness `QueuesAreServed`, `DestructionEnds` | queues of 2 (full, empty, and two packets behind one event), 1 resend and a counter modulo 4 (it reaches zero and wraps), 2 flights (the second meets the timer of the first), both roles, the destructor at any moment; 1.1 million states, 3 minutes |
| `relay` | type; `NothingDangles`, `MapsAgree`; liveness `OperationsEnd` | 2 subscribers, 4 connections: each subscribes, is replaced, leaves and comes again, under a relay and feedback |

All bounds are constants: `MaxQueue`, `MaxIncoming`, `MaxLogins`, `BufferSize`, `MaxSockets`,
`MaxChatter`, `Capacity`, `MaxCall`, `MaxSend`, `MaxNice`, `MaxResends`, `Width`, `MaxFlights`, `MaxConn`,
`OutSize`, `InSize`, `MaxChunk`, `MaxFields`, `MaxSent`. TLC's deadlock check is off where the system may rightly stop (a
deleted handle, a user who does nothing more, a server shut down, a process that died).

### What the violations show

* `ghost`: `doUserOffline` looks only at the rooms that exist. If the client's JOIN is still queued and
  the room does not exist yet, the JOIN makes a member that nothing removes.
* `login_reconnect`: `OnClose` keeps the cipher and the state; the next connection's first packet is
  encrypted and the server cannot read it. Only `SignOut` resets them.
* `threads_deadlock`: `Shutdown` runs destructors under `m_CSClients`, which take `m_CSChannels`;
  `dealEvent` takes the two in the other order. `TickClients` has a comment about exactly this.

`RosterAgrees`, `PublishersKnown` and `NoStalePeerConnection` hold but for what the histories record. Each exception
is needed: without it the run reaches a room that a null entry alone keeps, a member that goes on believing in
a user who has left, and a peer connection made by a "publisher" that comes behind the "offline". A pair of publishers that
a disturbed loop skips takes a third client, whose leave disturbs it; the theorem covers that, the run does not. What the
properties still claim is that there is no other way to a wrong picture, whatever joins, leaves, disconnects,
restarts and loops interleave.

`QueuesAreServed` is recurring progress, because a producer may keep a queue from ever being empty: again and again it is
empty or nobody sends, or again and again its first packet is taken. Both queues are FIFO, so each packet is
served in its turn; two packets that came with one notification are served both.

`DestructionEnds` holds with four exceptions, each a state of the model that the code really reaches (it is stated
as "again and again the owner is not inside the destructor, or one of them holds", which comes to the same, as the
destructor is entered once):

* `SendMissed`: the destructor clears `sending_` and notifies without `receiveVideoMutex_`; a send loop that
  has found the queue empty and does not wait yet misses it (`media/WebRtcConnection.cpp:59`).
* `QuitMissed`: `close` calls `g_main_loop_quit` before the new thread has entered `g_main_loop_run`, which
  then runs for ever (`media/NiceConnection.cpp:116`).
* `IceSpoiled`: a callback that passed the test of `updateIceState` overwrites FINISHED, so the receive loop
  looks at the queue again and waits for an event that was used up (`media/NiceConnection.cpp:472`).
* `crashed`: after an ICE failure the state is never FINISHED, `~NiceConnection` closes a second time and
  joins a thread that was joined (`media/NiceConnection.cpp:127`).

The manager thread runs these destructors with `m_CSChannels` held, so each of the first three stops every
room. On the other hand a counter that wraps below zero is harmless only because the `io_service` is never
reset: `NoResendAfterTimeout` holds for that reason, and by it a second flight is never resent at all.

Modelling also met disagreements that are not kept as runs. The network thread can set csDestroyed between the
test and the assignment of another thread (`HandleLogin`, `Authenticate`, `ServerTick`), which overwrites it;
nothing destroys the handle again, and it stays in `m_Clients` and its rooms (`DestroyedAreDeleted` speaks of a
handle that is csDestroyed while nobody holds `m_CSClients`). A leave while the publisher's media thread is in
`BroadcastJoinChannel` leaves a null entry, a late announcement, or a peer that its own thread destroys (see
`ChannelManager`, section 2). When the second of two publishers becomes ready, both are announced to each other
again, against the assertion in `Conductor::CreatePeerConnection`; a new publisher is told of all members as
publishers, ready or not; a subscribe that is dealt with after its sender left stays until the target leaves; a
second join before the first connection stands, and a kick followed by a join, make the client send packets in
the wrong protocol state (the reason why `login_leave` has no faults). Some of the code next to what is modelled
is doubtful by reading alone: `createOffer` and `updateState` can both tell the listener of the offer; a
sequence number 0 is not rewritten by `queueData`; the test for a wrapped receiver report at
`media/WebRtcConnection.cpp:441` can never succeed.

### Fairness

* `ChannelManager`: weak fairness of `dealEvent`. The manager thread is a loop that waits only for the
  queue, for locks that are held briefly and, in `~cPeer`, for a media thread that has not begun its loop;
  `m_QueueNonempty` is an auto-reset event that stays set until it is waited for. The turns of
  `onPeerLeaved` are part of it. Nothing is assumed of clients, media threads or restarts.
* `ClientHandle`: the tick and authenticator threads and the shutdown get `m_CSClients` if it is free
  again and again (strong fairness): the tick sleeps up to 50 ms between rounds. The network thread
  finishes a callback it has begun.
* `Login`: the client's message loop and the server's threads go on, and a connection being made is made;
  users and faults owe nothing.
* `MediaConnection`: weak fairness of each of the five threads (a join, a wait for an event and a wait for a
  mutex that is held for one step are all enabled for good once they are enabled), and the timer expires.
  Nothing is assumed of the agent, the remote end or the owner's wish to destroy.
* `MediaRelay`: weak fairness of the media threads; strong fairness of the manager, which gets `myMonitor_`
  between two packets of the publisher, however many come.

`RoomThreads` and `Framing` are checked for safety only; that no circle of waits arises is `WaitsInOrder`.

## 4. Proofs

**ChannelManager_proofs** proves for every set of clients, every finite set of channels and every bound on
the queue: `TypeCorrect`, `RoomsCorrect`, `RosterCorrect`, `PublishersCorrect`, `PeerConnectionsCorrect`, `MediaCorrect` and
`DeparturesCorrect`, all from `Invariant`. None of the six properties is inductive by itself. `OneLeaver` says
that the manager is inside `onPeerLeaved` for one client of one room, that its loop is over keys, and that a key is
not both null and a peer's; `RoomIffOccupied` needs it, or a room could be released under the leave of another.
`RosterAgrees` needs it for the leaver whose "offline" is still to come, and the fact that a client that has
not connected has left no trace (`NewAreUnknown`), or `Connect` could bring a client with old messages to life.
`NoStalePeerConnection` needs `LoopsAreSane`: a thread visits others only, and only inside its loop.
`PublishersKnown` is about two finished loops; `PairsAreServed` says of any two members, at any
moment, that they know of each other or that one of the loops still has to come to the pair (`Pending`), was
disturbed or has not begun. `DepartureCovered` needs that a departed client queues nothing any more
(`DepartedAreOffline`), so that no JOIN comes behind its LEAVE. `IInv` is the conjunction of all. There is a
lemma for each action, with one step per conjunct that the action can disturb; `DisturbFacts` says what a change of
the map may do to the loops, and sequence lemmas what appending to and taking from the queue does to "is queued".
Assumption: `ChannelManagerAssumption`.

**ByteBuffer_proofs** proves for every capacity and alphabet: `TypeCorrect`, `OrderCorrect` and `Refinement`
(`Spec => QueueSpec`). The inductive invariant is `TypeOK /\ InOrder`: the three positions are in order
around the ring, so distances add up. The argument is three lemmas about `Segment`, the bytes from a
position on: two adjacent segments join, a segment can be cut, and writing behind a segment leaves it
alone and adds what was written; then each call maps to the call of the queue. Assumption:
`ByteBufferAssumption`.

**ClientHandle_proofs** proves for every set of handles: `TypeCorrect`, `DestructorAssertion`, `HandleSafety` and
`LoginSafety`. The properties say what holds of a handle that is deleted; the invariant has to say who owns
it before. Its parts are `Threads` (which thread holds `m_CSClients`, and that the handle it works on is in
`m_Clients` meanwhile), `Ownership` (a handle is owned by the list, by RemoveClients, by its link, or by nobody),
`Destruction` (what has left `m_Clients` is csDestroyed, or about to be by the thread inside `Destroy`) and
`Logins` (the two windows in which `m_State` and the protocol's state differ). Assumption:
`ClientHandleAssumption` (the names of the threads and the mark for "no client" are no clients).

**MediaRelay_proofs** proves for every set of subscribers and any number of connections: `TypeCorrect`,
`RelaySafety` and `MapSafety`. `Entry` says for each stage of an operation on a target what the three maps
hold and what has become of the connection; that no connection serves two targets keeps the operation on one
from disturbing the others; `Emptied` is the progress of `~cPeer`. Assumption: `MediaRelayAssumption`.

**RoomThreads_proofs** proves for every set of clients and every bound on the queue: `TypeCorrect`, `RoomSafety`,
`OnlyShutdownBlocks` and `DeadlockFreedom`. `RoomSafety` follows from `ThreadsOfPeers` (a media thread belongs to a
member, to the peer the manager is about to join, or to one that lingers) and `RoomIsThere`. A thread that joins waits for a
thread before its loop, and that waits for nobody. For the circles, `Locks` says which thread is inside
which critical section; from it every thread's set of awaited threads is computed, and a set of threads that
wait in a circle is led to a thread that waits for nobody in it. `OnlyShutdownBlocks` is the other side of the
run `threads_deadlock`: outside the one stage of `Shutdown` where the clients are cleared under the lock there
is no circle at all. Assumption: `RoomThreadsAssumption`.

**MediaConnection_proofs** proves for every size of the queues, every number of resends and every width of the
counter: `TypeCorrect`, `ResendSafety`, `JoinSafety` and `EventOrder`. `Joins` follows the destructor through
its joins; `Inside` ties what a thread is about to report to where it is; `Resends` says that the counter
wraps once, with the service stopped or about to be. `EventOrder` is the long argument: that READY never comes
first needs `Quiet` (until the end of gathering is told nothing is received, sent or reported) and `Reports`
(which thread reports which state), and `Heard` lists the six histories of a listener. Assumption:
`MediaConnectionAssumption`.

**Login_proofs** proves in two parts. For any number of connections and any faults: `TypeCorrect` and
`WorkSafety`. Here `Streams` says which packets are never on their way in the clear (a LoginInfo upwards; the
permission, the success and all work downwards) and that data decoded with a key belong to an end that has
one; `Keys` adds that a login that waits in the authenticator came encrypted or is of a client that was
kicked: that closes the gap that the server itself does not ask for the key exchange. Without faults
(`Fault = {}`, which is how `login_leave` is checked; `login_reconnect` shows that a lost connection breaks it):
`SessionPhases`, hence `DecodingSafety` and `DispatchSafety`. The phases are the argument: before the success one
packet is on its way in one direction, or the login waits, and the phase fixes the state and the flag of both
ends; then both streams hold work only, behind the success while the client has not handled it; and the
connections other than the one of `sock_` are closed or not made. "On its way" spans the line and the
receiver's buffer (`Carries`, `Flows`), so reading any number of packets at once stays in the phase.
Assumption: `LoginAssumption`.

**Framing_proofs** proves for any threads, types, fields and sizes: `RoundTrip` and `FiveBytes` about VarInts, and
of the packet layer `TypeCorrect`, `DeliverySafety`, `LossNeedsFatal` and `OrderRefinement`
(`Spec => PacketsInOrder`). It needs what `VarInt`, `Digits` and the frames of a sequence of packets compute for
every argument. The library's induction rules take a predicate as a parameter, which the provers cannot
instantiate; `Least` (a set of numbers that is not empty has a least one, from `WFMin`) takes a set instead, and
an argument by the least counterexample stands in for each induction. `Recursion` uses it to show that a
function defined by recursion along a measure exists, whence `VarIntDef`, `DigitsDef` and `EncodedDef`: the
functions satisfy their definitions. Then `VarIntBytes` says what a VarInt looks like, and `RoundTrip` that it is
read back from any stream it begins and from no proper prefix. `FrameRead` and `PendingFirst` carry this to
streams: if a stream is a prefix of the frames of some packets, or all of them, then a complete packet in it is
the first of them. The inductive invariant is `TypeOK` with three parts. `Composing`: whoever composes has the
lock, and `out` is his draft, otherwise `out` is empty, so that two threads never mix their bytes. `Delivery`:
until a chunk is dropped, `handled` is a prefix of `sent`, and `received` followed by `wire` is the frames of the
rest (a prefix of them once the server has died); and `held` has a refused packet behind it. `Waiting`: an idle
reader that is not held has no complete packet. `LossNeedsFatal` adds that a fatal packet stays in `sent`.
Assumptions: `FramingAssumption` and `TypesFit` (the type of a packet fits into an empty `m_OutPacketBuffer`: by
`FiveBytes` it takes at most 5 of its 64 Ki bytes).

Only model-checked: everything about liveness, which is outside the prover's reach, as is the existence of a
next step (TLC's deadlock check). Every invariant and every refinement that a passing run checks is also a theorem.

## 5. Plan

Done: `ChannelManager`, `ClientHandle`, `Login`, `ByteBuffer` with `ByteQueue`, `RoomThreads`, then the media path
(`MediaConnection`, `MediaRelay`) and the packets (`Framing` with `PacketStream`). The sequence numbers of the
slide-show mode and `RtpPacketQueue` were planned and left out: no code of the server reaches them. The proofs of
`ClientHandle`, `MediaRelay`, `RoomThreads`, `MediaConnection`, `Login` and `Framing` followed. What is left is a
theorem about `Login` when only time-outs may happen, on the first connection of a client: what then remains of
`MeantForReader`. The ten phases do not cover it, because the disconnect packet crosses the stream in any of them.
