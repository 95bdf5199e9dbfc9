------------------------- MODULE ClientHandle_proofs ------------------------
(* Proofs about ClientHandle for every set of handles and packets.          *)
EXTENDS ClientHandle, SequenceTheorems, TLAPS

(***************************************************************************)
(* The inductive invariant.                                                *)
(***************************************************************************)

\* The thread that holds m_CSClients, and the handle it may work on: it is in
\* m_Clients for as long as the lock is held.
Threads ==
  /\ lock = "tick" <=> tick.at \in {"visit", "packets", "flush", "promote", "count"}
  /\ lock = "auth" <=> auth.at = "success"
  /\ IF tick.at \in {"packets", "flush", "promote", "count"}
       THEN tick.client \in listed
       ELSE tick.client = NoClient
  /\ auth.at = "success" => auth.client \in listed
  /\ todo \subseteq listed
  /\ tick.at \in {"idle", "clear"} => todo = {}
  /\ server \in {"ticked", "done"} => tick.at = "idle"

\* A handle is owned in one way: by m_Clients, by the tick's RemoveClients, only
\* by its link, or not at all any more.
Ownership ==
  \A c \in Client :
    /\ c \in listed => c \notin dropping \cup detached \cup deleted
    /\ c \in dropping => c \notin detached \cup deleted
    /\ c \in detached => c \notin deleted
    /\ link[c] = "none" => c \notin listed \cup dropping \cup detached \cup deleted
    /\ c \in detached => link[c] # "closed"
    /\ c \in deleted => link[c] = "closed"

\* csDestroying lasts as long as the network thread is inside Destroy, and what
\* has left m_Clients is destroyed.
Destruction ==
  \A c \in Client :
    /\ state[c] = "csDestroying" => link[c] = "destroying"
    /\ c \in dropping \cup deleted => state[c] = "csDestroyed"
    /\ c \in detached => Destroyed(c)

\* The handle's state and the protocol's, with the two windows between a test of
\* m_State and the assignment that follows it.
Logins ==
  \A c \in Client :
    /\ auth.at = "success" /\ auth.client = c => proto[c] = 3
    /\ tick.at = "promote" /\ tick.client = c => proto[c] = 3
    /\ c \in requested => proto[c] = 3
    /\ ~(auth.at = "success" /\ auth.client = c) =>
         /\ state[c] = "csAuthenticating" => proto[c] = 2
         /\ state[c] \in {"csAuthenticated", "csWorking"} => proto[c] = 3
         /\ proto[c] = 3 => state[c] \notin {"csConnected", "csAuthenticating"}

IInv == TypeOK /\ Threads /\ Ownership /\ Destruction /\ Logins

LEMMA InitHolds == Init => IInv
  BY ClientHandleAssumption
     DEF Init, IInv, TypeOK, Threads, Ownership, Destruction, Logins, State, NoClient,
         Destroyed

\* What HandlePacket may do, whichever handler runs: the handle stays the same,
\* the protocol moves between status and login only, a login makes the state
\* csAuthenticating and queues the handle, and only a working client requests.
LEMMA HandlePacketEffect ==
  ASSUME IInv, HandlePacket
  PROVE  LET c == tick.client IN
         /\ tick.at = "packets" /\ c \in Client /\ c \in listed
         /\ received' \in [Client -> Seq(Packet)]
         /\ tick' = tick \/ tick' = [at |-> "flush", client |-> c]
         /\ hasSentDC' \in SUBSET Client
         /\ \/ requested' = requested
            \/ proto[c] = 3 /\ requested' = requested \cup {c}
         /\ \/ proto' = proto
            \/ /\ proto[c] = 1
               /\ \E s \in 1..2 : proto' = [proto EXCEPT ![c] = s]
         /\ \/ state' = state /\ authQueue' = authQueue
            \/ /\ proto[c] = 2 /\ proto' = proto
               /\ state' = [state EXCEPT ![c] = "csAuthenticating"]
               /\ authQueue' \in Seq(Client)
         /\ UNCHANGED <<link, incoming, listVars, lock, todo, auth, server>>
  <1> DEFINE c == tick.client
             p == Head(received[c])
  <1>1. tick.at = "packets" /\ c \in listed /\ c \in Client
    BY DEF HandlePacket, IInv, Threads, TypeOK
  <1>2. received' \in [Client -> Seq(Packet)]
    <2>1. received[c] \in Seq(Packet) /\ received[c] # <<>>
      BY <1>1 DEF HandlePacket, IInv, TypeOK
    <2>2. Tail(received[c]) \in Seq(Packet)
      BY <2>1, HeadTailProperties
    <2> QED BY <1>1, <2>2 DEF HandlePacket, IInv, TypeOK
  <1>3. hasSentDC \in SUBSET Client /\ hasSentDC \cup {c} \in SUBSET Client
    BY <1>1 DEF IInv, TypeOK
  <1>4. Append(authQueue, c) \in Seq(Client)
    BY <1>1, AppendProperties DEF IInv, TypeOK
  <1>5. \/ PacketEmpty(c, p)
        \/ PacketUnknown(c, p)
        \/ PacketError(c, p)
        \/ Kick(c, p)
        \/ HandlePacketStatusRequest(c, p)
        \/ HandleLogin(c, p)
        \/ HandlePacketRoom(c, p)
        \/ HandlePacketReply(c, p)
    BY DEF HandlePacket
  <1>6. UNCHANGED <<link, incoming, listVars, lock, todo, auth, server>>
    BY DEF HandlePacket
  <1> HIDE DEF c, p
  <1>7. /\ tick' = tick \/ tick' = [at |-> "flush", client |-> c]
        /\ hasSentDC' \in SUBSET Client
        /\ \/ requested' = requested
           \/ proto[c] = 3 /\ requested' = requested \cup {c}
        /\ \/ proto' = proto
           \/ /\ proto[c] = 1
              /\ \E s \in 1..2 : proto' = [proto EXCEPT ![c] = s]
        /\ \/ state' = state /\ authQueue' = authQueue
           \/ /\ proto[c] = 2 /\ proto' = proto
              /\ state' = [state EXCEPT ![c] = "csAuthenticating"]
              /\ authQueue' \in Seq(Client)
    <2>1. CASE PacketEmpty(c, p)
      BY <1>3, <2>1 DEF PacketEmpty, TickAt
    <2>2. CASE PacketUnknown(c, p)
      BY <1>3, <2>2 DEF PacketUnknown, SendDisconnect, TickAt
    <2>3. CASE PacketError(c, p)
      BY <1>3, <2>3 DEF PacketError, SendDisconnect
    <2>4. CASE Kick(c, p)
      BY <1>3, <2>4 DEF Kick, SendDisconnect
    <2>5. CASE HandlePacketStatusRequest(c, p)
      BY <1>3, <2>5 DEF HandlePacketStatusRequest
    <2>6. CASE HandleLogin(c, p)
      BY <1>3, <1>4, <2>6 DEF HandleLogin
    <2>7. CASE HandlePacketRoom(c, p)
      BY <1>3, <2>7 DEF HandlePacketRoom
    <2>8. CASE HandlePacketReply(c, p)
      BY <1>3, <2>8 DEF HandlePacketReply
    <2> QED BY <1>5, <2>1, <2>2, <2>3, <2>4, <2>5, <2>6, <2>7, <2>8
  <1> QED BY <1>1, <1>2, <1>6, <1>7 DEF c

\* AuthenticateUser completes a login that is still wanted, or gives it up.
LEMMA AuthenticateUserEffect ==
  ASSUME IInv, AuthenticateUser
  PROVE  LET c == auth.client IN
         /\ auth.at = "popped" /\ lock = "free"
         /\ \/ /\ c \in listed /\ c \in Client /\ state[c] = "csAuthenticating"
               /\ proto' = [proto EXCEPT ![c] = 3]
               /\ auth' = [at |-> "success", client |-> c]
               /\ lock' = "auth"
            \/ /\ auth' = [at |-> "idle", client |-> NoClient]
               /\ proto' = proto /\ lock' = lock
         /\ UNCHANGED <<link, state, hasSentDC, requested, incoming, received,
                        listVars, tickVars, authQueue, server>>
  <1>2. auth.at = "popped" /\ lock = "free"
    BY DEF AuthenticateUser
  <1>3. UNCHANGED <<link, state, hasSentDC, requested, incoming, received,
                    listVars, tickVars, authQueue, server>>
    BY DEF AuthenticateUser
  <1>4. CASE auth.client \in listed /\ state[auth.client] = "csAuthenticating"
    <2>1. auth.client \in Client
      BY <1>4 DEF IInv, TypeOK
    <2> QED BY <1>2, <1>3, <1>4, <2>1 DEF AuthenticateUser
  <1>5. CASE ~(auth.client \in listed /\ state[auth.client] = "csAuthenticating")
    BY <1>2, <1>3, <1>5 DEF AuthenticateUser
  <1> QED BY <1>4, <1>5

\* Every variable keeps its type, whichever thread takes the step.
LEMMA TypeStep == ASSUME IInv, [Next]_vars PROVE TypeOK'
  <1> USE DEF IInv, TypeOK, State, Threads, vars, handleVars, listVars, tickVars, authVars
  <1>1. ASSUME NEW c \in Client, OnConnectionAccepted(c) PROVE TypeOK'
    BY <1>1 DEF OnConnectionAccepted
  <1>2. ASSUME NEW c \in Client, NEW p \in Packet, OnReceivedData(c, p)
        PROVE  TypeOK'
    <2>1. Append(incoming[c], p) \in Seq(Packet)
      BY AppendProperties
    <2> QED BY <1>2, <2>1 DEF OnReceivedData
  <1>3. ASSUME NEW c \in Client, Destroy(c) PROVE TypeOK'
    BY <1>3 DEF Destroy
  <1>4. ASSUME NEW c \in Client, DestroyEnd(c) PROVE TypeOK'
    BY <1>4 DEF DestroyEnd
  <1>5. ASSUME NEW c \in Client, LinkRelease(c) PROVE TypeOK'
    BY <1>5 DEF LinkRelease
  <1>6. ASSUME TickStart PROVE TypeOK'
    BY <1>6 DEF TickStart, TickAt
  <1>7. ASSUME NEW c \in Client, TickRemove(c) PROVE TypeOK'
    BY <1>7 DEF TickRemove
  <1>8. ASSUME NEW c \in Client, ServerTick(c) PROVE TypeOK'
    <2>1. received[c] \in Seq(Packet) /\ incoming[c] \in Seq(Packet) /\ <<>> \in Seq(Packet)
      BY EmptySeq
    <2>2. received[c] \o incoming[c] \in Seq(Packet)
      BY <2>1, ConcatProperties
    <2>3. \A at \in {"flush", "packets"} :
            [at |-> at, client |-> c] \in [at : {"idle", "visit", "packets", "flush",
                     "promote", "count", "clear"}, client : Client \cup {NoClient}]
      OBVIOUS
    <2>4. tick' \in [at : {"idle", "visit", "packets", "flush", "promote", "count",
                            "clear"},
                      client : Client \cup {NoClient}]
      BY <1>8, <2>3 DEF ServerTick, TickAt
    <2>5. received' \in [Client -> Seq(Packet)] /\ incoming' \in [Client -> Seq(Packet)]
      <3>1. incoming' = [incoming EXCEPT ![c] = <<>>]
        BY <1>8 DEF ServerTick
      <3>2. received' = received \/ received' = [received EXCEPT ![c] = @ \o incoming[c]]
        BY <1>8 DEF ServerTick
      <3>3. received \in [Client -> Seq(Packet)] /\ incoming \in [Client -> Seq(Packet)]
        OBVIOUS
      <3> QED BY ONLY <2>1, <2>2, <3>1, <3>2, <3>3, c \in Client
    <2>6. hasSentDC' \in SUBSET Client /\ todo' \in SUBSET Client
      BY <1>8 DEF ServerTick, SendDisconnect
    <2> QED BY <1>8, <2>4, <2>5, <2>6 DEF ServerTick
  <1>9. ASSUME HandlePacket PROVE TypeOK'
    <2>1. tick' \in [at : {"idle", "visit", "packets", "flush", "promote", "count",
                            "clear"},
                      client : Client \cup {NoClient}]
      BY <1>9, HandlePacketEffect
    <2>2. tick.client \in Client
      BY <1>9, HandlePacketEffect
    <2>3. proto' \in [Client -> 1..3]
      <3>1. proto \in [Client -> 1..3]
        OBVIOUS
      <3>2. proto' = proto \/ \E s \in 1..2 : proto' = [proto EXCEPT ![tick.client] = s]
        BY <1>9, HandlePacketEffect
      <3> QED BY ONLY <2>2, <3>1, <3>2
    <2>4. state' \in [Client -> State] /\ authQueue' \in Seq(Client)
      BY <1>9, <2>2, HandlePacketEffect
    <2>5. requested' \in SUBSET Client
      BY <1>9, <2>2, HandlePacketEffect
    <2> QED BY <1>9, <2>1, <2>3, <2>4, <2>5, HandlePacketEffect
  <1>10. ASSUME PacketsEnd PROVE TypeOK'
    BY <1>10, EmptySeq DEF PacketsEnd, TickAt
  <1>11. ASSUME Promote PROVE TypeOK'
    BY <1>11 DEF Promote, TickAt
  <1>12. ASSUME PromoteEnd PROVE TypeOK'
    BY <1>12 DEF PromoteEnd, TickAt
  <1>13. ASSUME TickCount PROVE TypeOK'
    BY <1>13 DEF TickCount, TickAt, SendDisconnect
  <1>14. ASSUME TickEnd PROVE TypeOK'
    BY <1>14 DEF TickEnd, TickAt
  <1>15. ASSUME TickClear PROVE TypeOK'
    BY <1>15 DEF TickClear, TickAt, Drop
  <1>16. ASSUME AuthPop PROVE TypeOK'
    <2>1. Head(authQueue) \in Client /\ Tail(authQueue) \in Seq(Client)
      BY <1>16, HeadTailProperties DEF AuthPop
    <2> QED BY <1>16, <2>1 DEF AuthPop
  <1>17. ASSUME AuthenticateUser PROVE TypeOK'
    BY <1>17, AuthenticateUserEffect
  <1>18. ASSUME AuthenticateEnd PROVE TypeOK'
    BY <1>18 DEF AuthenticateEnd
  <1>19. ASSUME Shutdown PROVE TypeOK'
    BY <1>19 DEF Shutdown
  <1>20. ASSUME ShutdownClients PROVE TypeOK'
    BY <1>20 DEF ShutdownClients, Drop
  <1>21. CASE UNCHANGED vars
    BY <1>21 DEF vars
  <1> QED
    BY <1>1, <1>2, <1>3, <1>4, <1>5, <1>6, <1>7, <1>8, <1>9, <1>10, <1>11, <1>12, <1>13, <1>14, <1>15, <1>16, <1>17, <1>18, <1>19, <1>20, <1>21
       DEF Next, NetThread, TickThread, AuthThread

\* The holder of m_CSClients is the thread that needs it, and its handle is listed.
LEMMA ThreadsStep == ASSUME IInv, [Next]_vars PROVE Threads'
  <1> USE DEF IInv, TypeOK, Threads, NoClient, vars, handleVars, listVars, tickVars, authVars
  <1>1. ASSUME NEW c \in Client, OnConnectionAccepted(c) PROVE Threads'
    BY <1>1 DEF OnConnectionAccepted
  <1>2. ASSUME NEW c \in Client, NEW p \in Packet, OnReceivedData(c, p)
        PROVE  Threads'
    BY <1>2 DEF OnReceivedData
  <1>3. ASSUME NEW c \in Client, Destroy(c) PROVE Threads'
    BY <1>3 DEF Destroy
  <1>4. ASSUME NEW c \in Client, DestroyEnd(c) PROVE Threads'
    BY <1>4 DEF DestroyEnd
  <1>5. ASSUME NEW c \in Client, LinkRelease(c) PROVE Threads'
    BY <1>5 DEF LinkRelease
  <1>6. ASSUME TickStart PROVE Threads'
    BY <1>6 DEF TickStart, TickAt
  <1>7. ASSUME NEW c \in Client, TickRemove(c) PROVE Threads'
    BY <1>7 DEF TickRemove
  <1>8. ASSUME NEW c \in Client, ServerTick(c) PROVE Threads'
    BY <1>8 DEF ServerTick, TickAt, SendDisconnect
  <1>9. ASSUME HandlePacket PROVE Threads'
    BY <1>9, HandlePacketEffect
  <1>10. ASSUME PacketsEnd PROVE Threads'
    BY <1>10 DEF PacketsEnd, TickAt
  <1>11. ASSUME Promote PROVE Threads'
    BY <1>11 DEF Promote, TickAt
  <1>12. ASSUME PromoteEnd PROVE Threads'
    BY <1>12 DEF PromoteEnd, TickAt
  <1>13. ASSUME TickCount PROVE Threads'
    BY <1>13 DEF TickCount, TickAt, SendDisconnect
  <1>14. ASSUME TickEnd PROVE Threads'
    BY <1>14 DEF TickEnd, TickAt
  <1>15. ASSUME TickClear PROVE Threads'
    BY <1>15 DEF TickClear, TickAt, Drop
  <1>16. ASSUME AuthPop PROVE Threads'
    BY <1>16 DEF AuthPop
  <1>17. ASSUME AuthenticateUser PROVE Threads'
    BY <1>17, AuthenticateUserEffect
  <1>18. ASSUME AuthenticateEnd PROVE Threads'
    BY <1>18 DEF AuthenticateEnd
  <1>19. ASSUME Shutdown PROVE Threads'
    BY <1>19 DEF Shutdown
  <1>20. ASSUME ShutdownClients PROVE Threads'
    BY <1>20 DEF ShutdownClients, Drop
  <1>21. CASE UNCHANGED vars
    BY <1>21 DEF vars
  <1> QED
    BY <1>1, <1>2, <1>3, <1>4, <1>5, <1>6, <1>7, <1>8, <1>9, <1>10, <1>11, <1>12, <1>13, <1>14, <1>15, <1>16, <1>17, <1>18, <1>19, <1>20, <1>21
       DEF Next, NetThread, TickThread, AuthThread

\* A step moves a handle from one owner to the next and never gives it two.
LEMMA OwnershipStep == ASSUME IInv, [Next]_vars PROVE Ownership'
  <1> USE DEF IInv, TypeOK, Threads, Ownership, vars, handleVars, listVars, tickVars, authVars
  <1>1. ASSUME NEW c \in Client, OnConnectionAccepted(c) PROVE Ownership'
    BY <1>1 DEF OnConnectionAccepted
  <1>2. ASSUME NEW c \in Client, NEW p \in Packet, OnReceivedData(c, p)
        PROVE  Ownership'
    BY <1>2 DEF OnReceivedData
  <1>3. ASSUME NEW c \in Client, Destroy(c) PROVE Ownership'
    BY <1>3 DEF Destroy
  <1>4. ASSUME NEW c \in Client, DestroyEnd(c) PROVE Ownership'
    BY <1>4 DEF DestroyEnd
  <1>5. ASSUME NEW c \in Client, LinkRelease(c) PROVE Ownership'
    BY <1>5 DEF LinkRelease
  <1>6. ASSUME TickStart PROVE Ownership'
    BY <1>6 DEF TickStart, TickAt
  <1>7. ASSUME NEW c \in Client, TickRemove(c) PROVE Ownership'
    BY <1>7 DEF TickRemove
  <1>8. ASSUME NEW c \in Client, ServerTick(c) PROVE Ownership'
    BY <1>8 DEF ServerTick, TickAt, SendDisconnect
  <1>9. ASSUME HandlePacket PROVE Ownership'
    BY <1>9, HandlePacketEffect
  <1>10. ASSUME PacketsEnd PROVE Ownership'
    BY <1>10 DEF PacketsEnd, TickAt
  <1>11. ASSUME Promote PROVE Ownership'
    BY <1>11 DEF Promote, TickAt
  <1>12. ASSUME PromoteEnd PROVE Ownership'
    BY <1>12 DEF PromoteEnd, TickAt
  <1>13. ASSUME TickCount PROVE Ownership'
    BY <1>13 DEF TickCount, TickAt, SendDisconnect
  <1>14. ASSUME TickEnd PROVE Ownership'
    BY <1>14 DEF TickEnd, TickAt
  <1>15. ASSUME TickClear PROVE Ownership'
    BY <1>15 DEF TickClear, TickAt, Drop
  <1>16. ASSUME AuthPop PROVE Ownership'
    BY <1>16 DEF AuthPop
  <1>17. ASSUME AuthenticateUser PROVE Ownership'
    BY <1>17, AuthenticateUserEffect
  <1>18. ASSUME AuthenticateEnd PROVE Ownership'
    BY <1>18 DEF AuthenticateEnd
  <1>19. ASSUME Shutdown PROVE Ownership'
    BY <1>19 DEF Shutdown
  <1>20. ASSUME ShutdownClients PROVE Ownership'
    BY <1>20 DEF ShutdownClients, Drop
  <1>21. CASE UNCHANGED vars
    BY <1>21 DEF vars
  <1> QED
    BY <1>1, <1>2, <1>3, <1>4, <1>5, <1>6, <1>7, <1>8, <1>9, <1>10, <1>11, <1>12, <1>13, <1>14, <1>15, <1>16, <1>17, <1>18, <1>19, <1>20, <1>21
       DEF Next, NetThread, TickThread, AuthThread

\* No thread brings a handle back that has left m_Clients.
LEMMA DestructionStep == ASSUME IInv, [Next]_vars PROVE Destruction'
  <1> USE DEF IInv, TypeOK, Threads, Ownership, Destruction, Destroyed, vars, handleVars, listVars, tickVars, authVars
  <1>1. ASSUME NEW c \in Client, OnConnectionAccepted(c) PROVE Destruction'
    BY <1>1 DEF OnConnectionAccepted
  <1>2. ASSUME NEW c \in Client, NEW p \in Packet, OnReceivedData(c, p)
        PROVE  Destruction'
    BY <1>2 DEF OnReceivedData
  <1>3. ASSUME NEW c \in Client, Destroy(c) PROVE Destruction'
    BY <1>3 DEF Destroy
  <1>4. ASSUME NEW c \in Client, DestroyEnd(c) PROVE Destruction'
    BY <1>4 DEF DestroyEnd
  <1>5. ASSUME NEW c \in Client, LinkRelease(c) PROVE Destruction'
    BY <1>5 DEF LinkRelease
  <1>6. ASSUME TickStart PROVE Destruction'
    BY <1>6 DEF TickStart, TickAt
  <1>7. ASSUME NEW c \in Client, TickRemove(c) PROVE Destruction'
    BY <1>7 DEF TickRemove
  <1>8. ASSUME NEW c \in Client, ServerTick(c) PROVE Destruction'
    BY <1>8 DEF ServerTick, TickAt, SendDisconnect
  <1>9. ASSUME HandlePacket PROVE Destruction'
    <2>1. CASE state' = state
      BY <1>9, <2>1, HandlePacketEffect
    <2>2. CASE state' = [state EXCEPT ![tick.client] = "csAuthenticating"]
      <3>1. /\ tick.client \in listed /\ tick.client \in Client
            /\ UNCHANGED <<link, listVars>>
        BY <1>9, HandlePacketEffect
      <3>2. \A c \in Client : c # tick.client => state'[c] = state[c]
        BY <2>2
      <3>3. state'[tick.client] = "csAuthenticating"
        BY <2>2, <3>1
      <3> QED BY <3>1, <3>2, <3>3
    <2> QED BY <1>9, <2>1, <2>2, HandlePacketEffect
  <1>10. ASSUME PacketsEnd PROVE Destruction'
    BY <1>10 DEF PacketsEnd, TickAt
  <1>11. ASSUME Promote PROVE Destruction'
    BY <1>11 DEF Promote, TickAt
  <1>12. ASSUME PromoteEnd PROVE Destruction'
    BY <1>12 DEF PromoteEnd, TickAt
  <1>13. ASSUME TickCount PROVE Destruction'
    BY <1>13 DEF TickCount, TickAt, SendDisconnect
  <1>14. ASSUME TickEnd PROVE Destruction'
    BY <1>14 DEF TickEnd, TickAt
  <1>15. ASSUME TickClear PROVE Destruction'
    BY <1>15 DEF TickClear, TickAt, Drop
  <1>16. ASSUME AuthPop PROVE Destruction'
    BY <1>16 DEF AuthPop
  <1>17. ASSUME AuthenticateUser PROVE Destruction'
    BY <1>17, AuthenticateUserEffect
  <1>18. ASSUME AuthenticateEnd PROVE Destruction'
    BY <1>18 DEF AuthenticateEnd
  <1>19. ASSUME Shutdown PROVE Destruction'
    BY <1>19 DEF Shutdown
  <1>20. ASSUME ShutdownClients PROVE Destruction'
    BY <1>20 DEF ShutdownClients, Drop
  <1>21. CASE UNCHANGED vars
    BY <1>21 DEF vars
  <1> QED
    BY <1>1, <1>2, <1>3, <1>4, <1>5, <1>6, <1>7, <1>8, <1>9, <1>10, <1>11, <1>12, <1>13, <1>14, <1>15, <1>16, <1>17, <1>18, <1>19, <1>20, <1>21
       DEF Next, NetThread, TickThread, AuthThread

\* Handle and protocol agree outside the windows of the two threads.
LEMMA LoginsStep == ASSUME IInv, [Next]_vars PROVE Logins'
  <1> USE DEF IInv, TypeOK, Threads, Logins, Destroyed, State, vars, handleVars, listVars, tickVars, authVars
  <1>1. ASSUME NEW c \in Client, OnConnectionAccepted(c) PROVE Logins'
    BY <1>1 DEF OnConnectionAccepted
  <1>2. ASSUME NEW c \in Client, NEW p \in Packet, OnReceivedData(c, p)
        PROVE  Logins'
    BY <1>2 DEF OnReceivedData
  <1>3. ASSUME NEW c \in Client, Destroy(c) PROVE Logins'
    BY <1>3 DEF Destroy
  <1>4. ASSUME NEW c \in Client, DestroyEnd(c) PROVE Logins'
    BY <1>4 DEF DestroyEnd
  <1>5. ASSUME NEW c \in Client, LinkRelease(c) PROVE Logins'
    BY <1>5 DEF LinkRelease
  <1>6. ASSUME TickStart PROVE Logins'
    BY <1>6 DEF TickStart, TickAt
  <1>7. ASSUME NEW c \in Client, TickRemove(c) PROVE Logins'
    BY <1>7 DEF TickRemove
  <1>8. ASSUME NEW c \in Client, ServerTick(c) PROVE Logins'
    BY <1>8 DEF ServerTick, TickAt, SendDisconnect
  <1>9. ASSUME HandlePacket PROVE Logins'
    BY <1>9, HandlePacketEffect
  <1>10. ASSUME PacketsEnd PROVE Logins'
    BY <1>10 DEF PacketsEnd, TickAt
  <1>11. ASSUME Promote PROVE Logins'
    BY <1>11 DEF Promote, TickAt
  <1>12. ASSUME PromoteEnd PROVE Logins'
    BY <1>12 DEF PromoteEnd, TickAt
  <1>13. ASSUME TickCount PROVE Logins'
    BY <1>13 DEF TickCount, TickAt, SendDisconnect
  <1>14. ASSUME TickEnd PROVE Logins'
    BY <1>14 DEF TickEnd, TickAt
  <1>15. ASSUME TickClear PROVE Logins'
    BY <1>15 DEF TickClear, TickAt, Drop
  <1>16. ASSUME AuthPop PROVE Logins'
    BY <1>16 DEF AuthPop
  <1>17. ASSUME AuthenticateUser PROVE Logins'
    BY <1>17, AuthenticateUserEffect
  <1>18. ASSUME AuthenticateEnd PROVE Logins'
    BY <1>18 DEF AuthenticateEnd
  <1>19. ASSUME Shutdown PROVE Logins'
    BY <1>19 DEF Shutdown
  <1>20. ASSUME ShutdownClients PROVE Logins'
    BY <1>20 DEF ShutdownClients, Drop
  <1>21. CASE UNCHANGED vars
    BY <1>21 DEF vars
  <1> QED
    BY <1>1, <1>2, <1>3, <1>4, <1>5, <1>6, <1>7, <1>8, <1>9, <1>10, <1>11, <1>12, <1>13, <1>14, <1>15, <1>16, <1>17, <1>18, <1>19, <1>20, <1>21
       DEF Next, NetThread, TickThread, AuthThread

LEMMA Inductive == IInv /\ [Next]_vars => IInv'
  <1> SUFFICES ASSUME IInv, [Next]_vars PROVE IInv'
    OBVIOUS
  <1> QED
    BY TypeStep, ThreadsStep, OwnershipStep, DestructionStep, LoginsStep DEF IInv

\* Ownership of handles, the lock discipline and the two login states hold
\* together in every reachable state of the server.
THEOREM Invariant == Spec => []IInv
  BY InitHolds, Inductive, PTL DEF Spec

\* Every variable of the handles, the lists and the threads keeps its type.
THEOREM TypeCorrect == Spec => []TypeOK
  <1>1. IInv => TypeOK
    BY DEF IInv
  <1> QED BY <1>1, Invariant, PTL

\* ~cClientHandle finds m_State == csDestroyed, for any number of handles and any
\* interleaving of the network, tick, authenticator and main threads.
THEOREM DestructorAssertion == Spec => []DeletedAreDestroyed
  <1>1. IInv => DeletedAreDestroyed
    BY DEF IInv, Destruction, DeletedAreDestroyed, Destroyed
  <1> QED BY <1>1, Invariant, PTL

\* No thread holds a handle whose destructor has run: not the list, the link, the
\* tick in progress or Authenticate.
THEOREM HandleSafety == Spec => []NoUseAfterDelete
  <1>1. IInv => NoUseAfterDelete
    BY ClientHandleAssumption
       DEF IInv, TypeOK, Threads, Ownership, NoUseAfterDelete, NoClient
  <1> QED BY <1>1, Invariant, PTL

\* The state of the handle and the state of its protocol agree, so that
\* SendLoginSuccess finds its assertion and a working client stays logged in.
THEOREM LoginSafety == Spec => []LoginAgrees
  <1>1. IInv => LoginAgrees
    BY DEF IInv, Logins, LoginAgrees
  <1> QED BY <1>1, Invariant, PTL

=============================================================================
