---------------------------- MODULE ClientHandle ----------------------------
(***************************************************************************)
(* The life of client handles on the server: from OnConnectionAccepted to  *)
(* the destructor (Src/Server/{ClientHandle,Server}.cpp), the login it     *)
(* goes through (Src/Server/Protocol/{cProtocol_impl,Authenticator}.cpp)   *)
(* and cServer::Shutdown.                                                  *)
(*                                                                         *)
(* Threads.  The network thread accepts links, appends received data and   *)
(* destroys the handle of a link that closed; the tick thread visits every *)
(* handle in m_Clients under m_CSClients; the authenticator thread calls   *)
(* cClientHandle::Authenticate under the same lock; the main thread shuts  *)
(* the server down.  m_State is read and written by all of them, and the   *)
(* network thread does not take m_CSClients to do it: a test of m_State    *)
(* and the assignment that follows it are two steps here.                  *)
(***************************************************************************)
EXTENDS Naturals, Sequences, FiniteSets

CONSTANTS
  Client,       \* unique ids of handles, assigned once each
  Packet,       \* what clients send: a type number and whether it is acceptable
  MaxIncoming,  \* bound on the packets waiting in m_IncomingData
  MaxLogins,    \* clients send nothing while so many logins wait for the authenticator
  BufferSize    \* the capacity of m_ReceivedData, in packets

ASSUME ClientHandleAssumption ==
  /\ Packet \subseteq [type : {0, 1, 2, 9}, content : {"good", "bad", "short", "empty"}]
  /\ MaxIncoming \in Nat
  /\ MaxLogins \in Nat
  /\ BufferSize \in Nat
  /\ "none" \notin Client

VARIABLES
  link,       \* the TCP link of a handle, which owns a reference to it
  state,      \* cClientHandle::m_State
  proto,      \* cProtocol_impl::m_State: 1 status, 2 login, 3 work
  hasSentDC,  \* handles with m_HasSentDC
  requested,  \* history: handles that have made a request to the channel manager
  incoming,   \* m_IncomingData
  received,   \* cProtocol_impl::m_ReceivedData
  listed,     \* cServer::m_Clients
  dropping,   \* TickClients' local RemoveClients
  detached,   \* handles that only their link still owns
  deleted,    \* handles whose destructor has run
  lock,       \* the holder of m_CSClients
  tick,       \* the tick thread: where it is in TickClients
  todo,       \* the handles this tick still has to visit
  authQueue,  \* cAuthenticator::m_Queue
  auth,       \* the authenticator thread: where it is in Execute
  server      \* cServer::Shutdown: running, m_bRestarting set, ticked out, done

handleVars == <<link, state, proto, hasSentDC, requested, incoming, received>>
listVars == <<listed, dropping, detached, deleted>>
tickVars == <<tick, todo>>
authVars == <<authQueue, auth>>
vars == <<handleVars, listVars, lock, tickVars, authVars, server>>

NoClient == "none"

State == {"csConnected", "csAuthenticating", "csAuthenticated", "csWorking",
          "csDestroying", "csDestroyed"}

\* m_State >= csDestroying
Destroyed(c) == state[c] \in {"csDestroying", "csDestroyed"}

TypeOK ==
  /\ link \in [Client -> {"none", "open", "destroying", "closing", "closed"}]
  /\ state \in [Client -> State]
  /\ proto \in [Client -> 1..3]
  /\ hasSentDC \in SUBSET Client
  /\ requested \in SUBSET Client
  /\ incoming \in [Client -> Seq(Packet)]
  /\ received \in [Client -> Seq(Packet)]
  /\ listed \in SUBSET Client
  /\ dropping \in SUBSET Client
  /\ detached \in SUBSET Client
  /\ deleted \in SUBSET Client
  /\ lock \in {"free", "tick", "auth"}
  /\ tick \in [at : {"idle", "visit", "packets", "flush", "promote", "count",
                     "clear"},
               client : Client \cup {NoClient}]
  /\ todo \in SUBSET Client
  /\ authQueue \in Seq(Client)
  /\ auth \in [at : {"idle", "popped", "success"}, client : Client \cup {NoClient}]
  /\ server \in {"running", "stopping", "ticked", "done"}

Init ==
  /\ link = [c \in Client |-> "none"]
  /\ state = [c \in Client |-> "csConnected"]
  /\ proto = [c \in Client |-> 1]
  /\ hasSentDC = {} /\ requested = {}
  /\ incoming = [c \in Client |-> <<>>]
  /\ received = [c \in Client |-> <<>>]
  /\ listed = {} /\ dropping = {} /\ detached = {} /\ deleted = {}
  /\ lock = "free"
  /\ tick = [at |-> "idle", client |-> NoClient]
  /\ todo = {}
  /\ authQueue = <<>>
  /\ auth = [at |-> "idle", client |-> NoClient]
  /\ server = "running"

-----------------------------------------------------------------------------
(* The network thread.                                                      *)

OnConnectionAccepted(c) ==
  /\ server = "running"
  /\ link[c] = "none"
  /\ lock = "free"
  /\ link' = [link EXCEPT ![c] = "open"]
  /\ listed' = listed \cup {c}
  /\ UNCHANGED <<state, proto, hasSentDC, requested, incoming, received,
                 dropping, detached, deleted, lock, tickVars, authVars, server>>

OnReceivedData(c, p) ==
  /\ link[c] = "open"
  /\ Len(incoming[c]) < MaxIncoming
  /\ Len(authQueue) < MaxLogins
  /\ incoming' = [incoming EXCEPT ![c] = Append(@, p)]
  /\ UNCHANGED <<link, state, proto, hasSentDC, requested, received,
                 listVars, lock, tickVars, authVars, server>>

\* OnRemoteClosed and OnError call SocketClosed and that Destroy: the first half
\* sets csDestroying under m_CSDestroyingState, unless that was done before.
Destroy(c) ==
  /\ link[c] = "open"
  /\ link' = [link EXCEPT ![c] = IF Destroyed(c) THEN "closing" ELSE "destroying"]
  /\ state' = [state EXCEPT ![c] = IF Destroyed(c) THEN @ ELSE "csDestroying"]
  /\ UNCHANGED <<proto, hasSentDC, requested, incoming, received,
                 listVars, lock, tickVars, authVars, server>>

\* The second half, after m_CSDestroyingState is released.
DestroyEnd(c) ==
  /\ link[c] = "destroying"
  /\ link' = [link EXCEPT ![c] = "closing"]
  /\ state' = [state EXCEPT ![c] = "csDestroyed"]
  /\ UNCHANGED <<proto, hasSentDC, requested, incoming, received,
                 listVars, lock, tickVars, authVars, server>>

\* Mutant: the link drops its reference without a look at who else owns the handle.
LinkRelease_Unowned(c) ==
  /\ link[c] = "closing"
  /\ link' = [link EXCEPT ![c] = "closed"]
  /\ detached' = detached \ {c}
  /\ deleted' = deleted \cup {c}
  /\ UNCHANGED <<state, proto, hasSentDC, requested, incoming, received,
                 listed, dropping, lock, tickVars, authVars, server>>

\* The callback returns and the link lets go of the handle (cTCPLinkImpl::
\* EventCallback); the last owner of a handle runs its destructor.
LinkRelease(c) ==
  /\ link[c] = "closing"
  /\ link' = [link EXCEPT ![c] = "closed"]
  /\ detached' = detached \ {c}
  /\ deleted' = deleted \cup ({c} \cap detached)
  /\ UNCHANGED <<state, proto, hasSentDC, requested, incoming, received,
                 listed, dropping, lock, tickVars, authVars, server>>

\* References in S are dropped: without a link the handle goes with them.
Drop(S) ==
  /\ deleted' = deleted \cup {c \in S : link[c] = "closed"}
  /\ detached' = detached \cup {c \in S : link[c] # "closed"}

-----------------------------------------------------------------------------
(* The tick thread: cServer::TickClients and cClientHandle::ServerTick.     *)

TickAt(at, c) == tick' = [at |-> at, client |-> c]

TickStart ==
  /\ tick.at = "idle"
  /\ server \in {"running", "stopping"}
  /\ lock = "free"
  /\ lock' = "tick"
  /\ todo' = listed
  /\ TickAt("visit", NoClient)
  /\ UNCHANGED <<handleVars, listVars, authVars, server>>

\* Mutant: a handle that is being destroyed is kept, one that is destroyed is ticked.
TickRemove_Inverted(c) ==
  /\ tick.at = "visit"
  /\ c \in todo
  /\ state[c] = "csDestroying"
  /\ todo' = todo \ {c}
  /\ listed' = listed \ {c}
  /\ dropping' = dropping \cup {c}
  /\ UNCHANGED <<handleVars, detached, deleted, lock, tick, authVars, server>>

TickRemove(c) ==
  /\ tick.at = "visit"
  /\ c \in todo
  /\ state[c] = "csDestroyed"
  /\ todo' = todo \ {c}
  /\ listed' = listed \ {c}
  /\ dropping' = dropping \cup {c}
  /\ UNCHANGED <<handleVars, detached, deleted, lock, tick, authVars, server>>

\* cClientHandle::SendDisconnect: the handle is destroyed only when its link closes.
SendDisconnect(c) == hasSentDC' = hasSentDC \cup {c}

\* ServerTick takes the received data over; without any, the protocol does not
\* look at its buffer, and data that do not fit are dropped (PacketBufferFull).
ServerTick(c) ==
  /\ tick.at = "visit"
  /\ c \in todo
  /\ state[c] # "csDestroyed"
  /\ todo' = todo \ {c}
  /\ incoming' = [incoming EXCEPT ![c] = <<>>]
  /\ \/ /\ incoming[c] = <<>>
        /\ TickAt("flush", c)
        /\ UNCHANGED <<received, hasSentDC>>
     \/ /\ incoming[c] # <<>>
        /\ Len(received[c]) + Len(incoming[c]) <= BufferSize
        /\ received' = [received EXCEPT ![c] = @ \o incoming[c]]
        /\ TickAt("packets", c)
        /\ UNCHANGED hasSentDC
     \/ /\ incoming[c] # <<>>
        /\ Len(received[c]) + Len(incoming[c]) > BufferSize
        /\ SendDisconnect(c)
        /\ TickAt("flush", c)
        /\ UNCHANGED received
  /\ UNCHANGED <<link, state, proto, requested, listVars, lock, authVars, server>>

\* The packet types that cProtocol_impl::HandlePacket knows in each state.
Known(c, p) ==
  p.type \in CASE proto[c] = 1 -> {0, 1}
               [] proto[c] = 2 -> {0, 1, 2}
               [] proto[c] = 3 -> {0, 1, 2, 9}

\* A packet of length 0 has no type: it ends the loop of AddReceivedData without
\* a word, and what is behind it waits until more data comes.
PacketEmpty(c, p) ==
  /\ p.content = "empty"
  /\ TickAt("flush", c)
  /\ UNCHANGED <<state, proto, hasSentDC, requested, authQueue>>

\* A packet of an unknown type ends the loop as well, and the client is kicked.
PacketUnknown(c, p) ==
  /\ p.content # "empty"
  /\ ~Known(c, p)
  /\ SendDisconnect(c)
  /\ TickAt("flush", c)
  /\ UNCHANGED <<state, proto, requested, authQueue>>

\* A handler that could not read its fields changes nothing; the length check
\* after it reports PacketError.  (Bytes that are left over have the effect of a
\* good packet followed by a short one.)
PacketError(c, p) ==
  /\ Known(c, p)
  /\ p.content = "short"
  /\ SendDisconnect(c)
  /\ UNCHANGED <<state, proto, requested, authQueue, tick>>

\* A status request for another application, or a wrong encryption response.
Kick(c, p) ==
  /\ p.content = "bad"
  /\ <<proto[c], p.type>> \in {<<1, 0>>, <<2, 1>>}
  /\ SendDisconnect(c)
  /\ UNCHANGED <<state, proto, requested, authQueue, tick>>

\* Mutant: the range of the state the client asks for is not checked.
HandlePacketStatusRequest_Unchecked(c, p) ==
  /\ proto[c] = 1 /\ p.type = 0 /\ p.content \in {"good", "bad"}
  /\ proto' = [proto EXCEPT ![c] = IF p.content = "good" THEN 2 ELSE 4]
  /\ UNCHANGED <<state, hasSentDC, requested, authQueue, tick>>

\* The client names the next state, status again or login.
HandlePacketStatusRequest(c, p) ==
  /\ proto[c] = 1 /\ p.type = 0 /\ p.content = "good"
  /\ \E s \in 1..2 : proto' = [proto EXCEPT ![c] = s]
  /\ UNCHANGED <<state, hasSentDC, requested, authQueue, tick>>

\* Mutant: the login packet is also accepted from a client that works.
HandleLogin_AnyState(c, p) ==
  /\ proto[c] \in {2, 3} /\ p.type = 2 /\ p.content \in {"good", "bad"}
  /\ state' = [state EXCEPT ![c] = "csAuthenticating"]
  /\ authQueue' = Append(authQueue, c)
  /\ UNCHANGED <<proto, hasSentDC, requested, tick>>

\* Mutant: the authenticator is not asked.
HandleLogin_NotQueued(c, p) ==
  /\ proto[c] = 2 /\ p.type = 2 /\ p.content \in {"good", "bad"}
  /\ state' = [state EXCEPT ![c] = "csAuthenticating"]
  /\ UNCHANGED <<authQueue, proto, hasSentDC, requested, tick>>

\* HandlePacketLoginInfo: the assignment to m_State is unconditional.
HandleLogin(c, p) ==
  /\ proto[c] = 2 /\ p.type = 2 /\ p.content \in {"good", "bad"}
  /\ state' = [state EXCEPT ![c] = "csAuthenticating"]
  /\ authQueue' = Append(authQueue, c)
  /\ UNCHANGED <<proto, hasSentDC, requested, tick>>

\* HandlePacketJoinRoom, HandlePacketMsgRoom and HandlePacketLeftRoom.
HandlePacketRoom(c, p) ==
  /\ proto[c] = 3 /\ p.type \in {1, 2, 9} /\ p.content \in {"good", "bad"}
  /\ requested' = requested \cup {c}
  /\ UNCHANGED <<state, proto, hasSentDC, authQueue, tick>>

\* Ping, LoginStart, an accepted encryption response and KeepAlive are answered
\* or measured and change nothing that the lifecycle depends on.
HandlePacketReply(c, p) ==
  /\ \/ p.content = "good" /\ <<proto[c], p.type>> \in {<<1, 1>>, <<2, 0>>, <<2, 1>>, <<3, 0>>}
     \/ p.content = "bad" /\ <<proto[c], p.type>> \in {<<1, 1>>, <<2, 0>>, <<3, 0>>}
  /\ UNCHANGED <<state, proto, hasSentDC, requested, authQueue, tick>>

HandlePacket ==
  LET c == tick.client
      p == Head(received[c])
  IN  /\ tick.at = "packets"
      /\ received[c] # <<>>
      /\ received' = [received EXCEPT ![c] = Tail(@)]
      /\ \/ PacketEmpty(c, p)
         \/ PacketUnknown(c, p)
         \/ PacketError(c, p)
         \/ Kick(c, p)
         \/ HandlePacketStatusRequest(c, p)
         \/ HandleLogin(c, p)
         \/ HandlePacketRoom(c, p)
         \/ HandlePacketReply(c, p)
      /\ UNCHANGED <<link, incoming, listVars, lock, todo, auth, server>>

\* All complete packets are handled.
PacketsEnd ==
  /\ tick.at = "packets"
  /\ received[tick.client] = <<>>
  /\ TickAt("flush", tick.client)
  /\ UNCHANGED <<handleVars, listVars, lock, todo, authVars, server>>

\* The test m_State == csAuthenticated ...
Promote ==
  /\ tick.at = "flush"
  /\ TickAt(IF state[tick.client] = "csAuthenticated" THEN "promote" ELSE "count",
            tick.client)
  /\ UNCHANGED <<handleVars, listVars, lock, todo, authVars, server>>

\* ... and the assignment of csWorking.
PromoteEnd ==
  /\ tick.at = "promote"
  /\ state' = [state EXCEPT ![tick.client] = "csWorking"]
  /\ TickAt("count", tick.client)
  /\ UNCHANGED <<link, proto, hasSentDC, requested, incoming, received,
                 listVars, lock, todo, authVars, server>>

\* The end of ServerTick: m_TicksSinceLastPacket may have reached its limit.
TickCount ==
  /\ tick.at = "count"
  /\ SendDisconnect(tick.client) \/ UNCHANGED hasSentDC
  /\ TickAt("visit", NoClient)
  /\ UNCHANGED <<link, state, proto, requested, incoming, received,
                 listVars, lock, todo, authVars, server>>

\* m_CSClients is released ...
TickEnd ==
  /\ tick.at = "visit"
  /\ todo = {}
  /\ lock' = "free"
  /\ TickAt("clear", NoClient)
  /\ UNCHANGED <<handleVars, listVars, todo, authVars, server>>

\* ... before RemoveClients is cleared; a tick that finds m_bRestarting is the last.
TickClear ==
  /\ tick.at = "clear"
  /\ Drop(dropping)
  /\ dropping' = {}
  /\ TickAt("idle", NoClient)
  /\ server' = IF server = "stopping" THEN "ticked" ELSE server
  /\ UNCHANGED <<handleVars, listed, lock, todo, authVars>>

TickThread ==
  \/ TickStart
  \/ \E c \in Client : TickRemove(c) \/ ServerTick(c)
  \/ HandlePacket
  \/ PacketsEnd
  \/ Promote
  \/ PromoteEnd
  \/ TickCount
  \/ TickEnd
  \/ TickClear

-----------------------------------------------------------------------------
(* The authenticator thread: cAuthenticator::Execute.  HandleLogin passes   *)
(* the user name as the password, so AuthFromDBPoll accepts everybody.      *)

AuthPop ==
  /\ auth.at = "idle"
  /\ authQueue # <<>>
  /\ authQueue' = Tail(authQueue)
  /\ auth' = [at |-> "popped", client |-> Head(authQueue)]
  /\ UNCHANGED <<handleVars, listVars, lock, tickVars, server>>

\* Mutant: AuthenticateUser releases m_CSClients before it calls Authenticate.
AuthenticateUser_Unlocked ==
  /\ auth.at = "popped"
  /\ lock = "free"
  /\ LET c == auth.client
     IN  IF c \in listed /\ state[c] = "csAuthenticating"
         THEN /\ proto' = [proto EXCEPT ![c] = 3]
              /\ auth' = [at |-> "success", client |-> c]
         ELSE /\ auth' = [at |-> "idle", client |-> NoClient]
              /\ UNCHANGED proto
  /\ UNCHANGED <<link, state, hasSentDC, requested, incoming, received,
                 listVars, lock, tickVars, authQueue, server>>

\* cServer::AuthenticateUser takes m_CSClients and looks the handle up;
\* Authenticate tests m_State and sends the login success ...
AuthenticateUser ==
  /\ auth.at = "popped"
  /\ lock = "free"
  /\ LET c == auth.client
     IN  IF c \in listed /\ state[c] = "csAuthenticating"
         THEN /\ proto' = [proto EXCEPT ![c] = 3]
              /\ auth' = [at |-> "success", client |-> c]
              /\ lock' = "auth"
         ELSE /\ auth' = [at |-> "idle", client |-> NoClient]
              /\ UNCHANGED <<proto, lock>>
  /\ UNCHANGED <<link, state, hasSentDC, requested, incoming, received,
                 listVars, tickVars, authQueue, server>>

\* ... and then sets csAuthenticated.
AuthenticateEnd ==
  /\ auth.at = "success"
  /\ state' = [state EXCEPT ![auth.client] = "csAuthenticated"]
  /\ auth' = [at |-> "idle", client |-> NoClient]
  /\ lock' = IF lock = "auth" THEN "free" ELSE lock
  /\ UNCHANGED <<link, proto, hasSentDC, requested, incoming, received,
                 listVars, tickVars, authQueue, server>>

AuthThread == AuthPop \/ AuthenticateUser \/ AuthenticateEnd

-----------------------------------------------------------------------------
(* The main thread: cServer::Shutdown.                                      *)

Shutdown ==
  /\ server = "running"
  /\ server' = "stopping"
  /\ UNCHANGED <<handleVars, listVars, lock, tickVars, authVars>>

\* Every handle is destroyed and m_Clients cleared under m_CSClients.
ShutdownClients ==
  /\ server = "ticked"
  /\ lock = "free"
  /\ state' = [c \in Client |->
                 IF c \in listed /\ ~Destroyed(c) THEN "csDestroyed" ELSE state[c]]
  /\ listed' = {}
  /\ Drop(listed)
  /\ server' = "done"
  /\ UNCHANGED <<link, proto, hasSentDC, requested, incoming, received,
                 dropping, lock, tickVars, authVars>>

NetThread(c) == DestroyEnd(c) \/ LinkRelease(c)

Next ==
  \/ \E c \in Client :
       \/ OnConnectionAccepted(c)
       \/ \E p \in Packet : OnReceivedData(c, p)
       \/ Destroy(c)
       \/ NetThread(c)
  \/ TickThread
  \/ AuthThread
  \/ Shutdown
  \/ ShutdownClients

Spec == Init /\ [][Next]_vars

\* Threads that can go on do so; the tick thread sleeps between two ticks, so
\* nobody is kept from m_CSClients for ever.  Clients and operators owe nothing.
FairSpec ==
  /\ Spec
  /\ SF_vars(TickThread)
  /\ SF_vars(AuthThread)
  /\ SF_vars(ShutdownClients)
  /\ \A c \in Client : WF_vars(NetThread(c))

-----------------------------------------------------------------------------
(* Properties.                                                              *)

\* The destructor finds what it asserts: a handle that is out of m_Clients has
\* been destroyed for good, whichever thread destroyed it and whichever thread
\* drops the last reference (ASSERT in ~cClientHandle).
DeletedAreDestroyed ==
  \A c \in Client :
    /\ c \in deleted => state[c] = "csDestroyed"
    /\ c \in dropping \cup detached => Destroyed(c)

\* A handle that is deleted is referenced by nobody: not by m_Clients, by an
\* open link, by the tick in progress or by the authenticator inside Authenticate.
NoUseAfterDelete ==
  \A c \in deleted :
    /\ c \notin listed \cup dropping \cup detached \cup todo
    /\ link[c] = "closed"
    /\ tick.client # c
    /\ auth.at = "success" => auth.client # c

\* SendLoginSuccess finds protocol state 2 (its ASSERT), and a client that works
\* cannot fall back into the login: the handle's state and the protocol's state
\* agree whenever no login is being completed.
LoginAgrees ==
  \A c \in Client :
    ~(auth.at = "success" /\ auth.client = c) =>
      /\ state[c] = "csAuthenticating" => proto[c] = 2
      /\ state[c] \in {"csAuthenticated", "csWorking"} => proto[c] = 3
      /\ c \in requested => state[c] \notin {"csConnected", "csAuthenticating"}

\* m_CSClients is free when a destroyed handle is in m_Clients: nothing can
\* bring it back any more, and the tick thread takes it out and deletes it.
DestroyedAreDeleted ==
  \A c \in Client :
    (lock = "free" /\ c \in listed /\ state[c] = "csDestroyed") ~> c \in deleted

\* A login that reached the authenticator is decided.
LoginIsDecided ==
  \A c \in Client :
    state[c] = "csAuthenticating" ~> state[c] # "csAuthenticating"

=============================================================================
