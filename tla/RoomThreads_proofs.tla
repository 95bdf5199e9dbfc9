------------------------- MODULE RoomThreads_proofs -------------------------
(* Proofs about RoomThreads for every set of clients and any queue length.  *)
EXTENDS RoomThreads, SequenceTheorems, TLAPS

(***************************************************************************)
(* The inductive invariant.                                                *)
(***************************************************************************)

\* A lock is held by the thread that is inside its critical section.
Locks ==
  /\ csClients = "tick" <=> tick = "round"
  /\ csClients = "main" <=> server = "clear"
  /\ csChannels = "manager" <=>
       manager.at \in {"announce", "destroy", "result", "crashed"}
  /\ manager.at = "idle" => manager = Idle
  /\ manager.at # "idle" => manager.client \in Client

\* The peer whose destructor the manager is on its way to.
Leaving(c) ==
  /\ manager.client = c
  /\ manager.type = "LEAVE"
  /\ manager.at \in {"announce", "destroy", "crashed"}

\* A media thread belongs to a member, to the peer that is leaving, which ends
\* the thread before the event is dealt with, or to one that lingers.  Only
\* inside its loop does it hold the peer of another.
ThreadsOfPeers ==
  \A c \in Client :
    /\ media[c] # "off" => c \in members \/ Leaving(c) \/ c \in lingering
    /\ holding[c] # {} => media[c] = "announce"

\* The room is there while it has an entry and while an event of it is dealt with.
RoomIsThere ==
  /\ members \cup nulls # {} => exists
  /\ csChannels = "manager" => exists

IInv == TypeOK /\ Locks /\ ThreadsOfPeers /\ RoomIsThere

LEMMA InitHolds == Init => IInv
  <1> SUFFICES ASSUME Init PROVE IInv
    OBVIOUS
  <1> USE DEF Init, Idle
  <1>1. <<>> \in Seq(Event)
    BY EmptySeq
  <1>2. TypeOK
    BY <1>1 DEF TypeOK
  <1>3. Locks /\ ThreadsOfPeers /\ RoomIsThere
    BY DEF Locks, ThreadsOfPeers, RoomIsThere
  <1> QED BY <1>2, <1>3 DEF IInv

\* doUserOffline appends at most one event.
LEMMA OfflineQueue ==
  ASSUME TypeOK, NEW c \in Client, doUserOffline(c)
  PROVE  queue' \in Seq(Event)
  <1>1. [type |-> "LEAVE", client |-> c] \in Event /\ queue \in Seq(Event)
    BY DEF TypeOK, Event
  <1> QED BY <1>1, AppendProperties DEF doUserOffline

\* Every variable keeps its type.
LEMMA TypeStep == ASSUME IInv, [Next]_vars PROVE TypeOK'
  <1> USE DEF IInv, TypeOK, Locks, lockVars, roomVars, mediaVars
  <1>1. ASSUME NEW c \in Client, OnConnectionAccepted(c) PROVE TypeOK'
    BY <1>1 DEF OnConnectionAccepted
  <1>2. ASSUME NEW c \in Client, SocketClosed(c) PROVE TypeOK'
    BY <1>2 DEF SocketClosed
  <1>3. ASSUME NEW c \in Client, LinkRelease(c) PROVE TypeOK'
    <2>1. queue' \in Seq(Event)
      BY <1>3, OfflineQueue DEF LinkRelease
    <2> QED BY <1>3, <2>1 DEF LinkRelease, doUserOffline
  <1>4. ASSUME NEW c \in Client, NEW type \in {"JOIN", "LEAVE", "MEDIA"}, HandlePacket(c, type)
        PROVE  TypeOK'
    <2>1. [type |-> type, client |-> c] \in Event /\ queue \in Seq(Event)
      BY DEF Event
    <2>2. Append(queue, [type |-> type, client |-> c]) \in Seq(Event)
      BY <2>1, AppendProperties
    <2> QED BY <1>4, <2>2 DEF HandlePacket
  <1>5. ASSUME NEW c \in Client, onJoinedChannel(c) PROVE TypeOK'
    BY <1>5 DEF onJoinedChannel
  <1>6. ASSUME NEW c \in Client, Lookup(c) PROVE TypeOK'
    BY <1>6 DEF Lookup, LookupPeer, LookupNull, LookupFreed
  <1>7. ASSUME NEW c \in Client, TellEnd(c) PROVE TypeOK'
    BY <1>7 DEF TellEnd
  <1>8. ASSUME NEW c \in Client, NEW x \in Client, Turn(c, x) \/ TellNull(c, x)
        PROVE  TypeOK'
    BY <1>8 DEF Turn, TellNull
  <1>26. ASSUME NEW c \in Client, NEW x \in Client, Tell(c, x) PROVE TypeOK'
    <2>1. CASE HasLast(c, x) /\ DestroyPeer(x) /\ lingering' = lingering \ {x}
      BY <1>26, <2>1 DEF Tell, DestroyPeer
    <2>2. CASE UNCHANGED <<media, lingering>>
      BY <1>26, <2>2 DEF Tell
    <2> QED BY <1>26, <2>1, <2>2 DEF Tell
  <1>9. ASSUME NEW c \in Client, ShutdownDelete(c) PROVE TypeOK'
    <2>1. queue' \in Seq(Event)
      BY <1>9, OfflineQueue DEF ShutdownDelete
    <2> QED BY <1>9, <2>1 DEF ShutdownDelete, doUserOffline
  <1>10. ASSUME TickStart PROVE TypeOK'
    BY <1>10 DEF TickStart
  <1>11. ASSUME TickUnlock PROVE TypeOK'
    BY <1>11 DEF TickUnlock
  <1>12. ASSUME TickEnd PROVE TypeOK'
    BY <1>12 DEF TickEnd
  <1>13. ASSUME NEW c \in Client, TickRemove(c) PROVE TypeOK'
    BY <1>13 DEF TickRemove
  <1>14. ASSUME NEW c \in Client, TickDelete(c) PROVE TypeOK'
    <2>1. queue' \in Seq(Event)
      BY <1>14, OfflineQueue DEF TickDelete
    <2> QED BY <1>14, <2>1 DEF TickDelete, doUserOffline
  <1>15. ASSUME Execute PROVE TypeOK'
    <2>1. queue \in Seq(Event) /\ queue # <<>>
      BY <1>15 DEF Execute
    <2>2. Head(queue) \in Event /\ Tail(queue) \in Seq(Event)
      BY <2>1, HeadTailProperties
    <2>3. Head(queue).type \in {"JOIN", "LEAVE", "MEDIA"} /\ Head(queue).client \in Client
      BY <2>2 DEF Event
    <2> QED BY <1>15, <2>2, <2>3 DEF Execute
  <1>16. ASSUME dealEvent PROVE TypeOK'
    <2>1. CASE DealJoin(manager.client)
      BY <1>16, <2>1 DEF dealEvent, DealJoin
    <2>2. CASE DealLeave(manager.client)
      BY <1>16, <2>2 DEF dealEvent, DealLeave
    <2>3. CASE DealMedia(manager.client)
      BY <1>16, <2>3 DEF dealEvent, DealMedia
    <2> QED BY <1>16, <2>1, <2>2, <2>3 DEF dealEvent
  <1>17. ASSUME DealMediaNobody PROVE TypeOK'
    BY <1>17 DEF DealMediaNobody, Idle
  <1>18. ASSUME AnnounceEnd PROVE TypeOK'
    BY <1>18 DEF AnnounceEnd
  <1>19. ASSUME Destroy PROVE TypeOK'
    BY <1>19 DEF Destroy, DestroyPeer
  <1>20. ASSUME Result PROVE TypeOK'
    BY <1>20 DEF Result, Idle
  <1>21. ASSUME NEW x \in Client, Announce(x) PROVE TypeOK'
    BY <1>21 DEF Announce
  <1>22. ASSUME Shutdown PROVE TypeOK'
    BY <1>22 DEF Shutdown
  <1>23. ASSUME ShutdownLock PROVE TypeOK'
    BY <1>23 DEF ShutdownLock
  <1>24. ASSUME ShutdownEnd PROVE TypeOK'
    BY <1>24 DEF ShutdownEnd
  <1>25. CASE UNCHANGED vars
    BY <1>25 DEF vars, lockVars, roomVars, mediaVars
  <1> QED
    BY <1>1, <1>2, <1>3, <1>4, <1>5, <1>6, <1>7, <1>8, <1>9, <1>10, <1>11,
       <1>12, <1>13, <1>14, <1>15, <1>16, <1>17, <1>18, <1>19, <1>20, <1>21,
       <1>22, <1>23, <1>24, <1>25, <1>26
       DEF Next, MediaThread, TickThread, ManagerThread

\* A lock has the holder whose critical section it guards.
LEMMA LocksStep == ASSUME IInv, [Next]_vars PROVE Locks'
  <1> USE DEF IInv, TypeOK, Locks, lockVars, roomVars, mediaVars
  <1>1. ASSUME NEW c \in Client, OnConnectionAccepted(c) PROVE Locks'
    BY <1>1 DEF OnConnectionAccepted
  <1>2. ASSUME NEW c \in Client, SocketClosed(c) PROVE Locks'
    BY <1>2 DEF SocketClosed
  <1>3. ASSUME NEW c \in Client, LinkRelease(c) PROVE Locks'
    BY <1>3 DEF LinkRelease, doUserOffline
  <1>4. ASSUME NEW c \in Client, NEW type \in {"JOIN", "LEAVE", "MEDIA"}, HandlePacket(c, type)
        PROVE  Locks'
    BY <1>4 DEF HandlePacket
  <1>5. ASSUME NEW c \in Client, onJoinedChannel(c) PROVE Locks'
    BY <1>5 DEF onJoinedChannel
  <1>6. ASSUME NEW c \in Client, Lookup(c) PROVE Locks'
    BY <1>6 DEF Lookup, LookupPeer, LookupNull, LookupFreed
  <1>7. ASSUME NEW c \in Client, TellEnd(c) PROVE Locks'
    BY <1>7 DEF TellEnd
  <1>8. ASSUME NEW c \in Client, NEW x \in Client, Turn(c, x) \/ TellNull(c, x)
        PROVE  Locks'
    BY <1>8 DEF Turn, TellNull
  <1>26. ASSUME NEW c \in Client, NEW x \in Client, Tell(c, x) PROVE Locks'
    <2>1. CASE HasLast(c, x) /\ DestroyPeer(x) /\ lingering' = lingering \ {x}
      BY <1>26, <2>1 DEF Tell, DestroyPeer
    <2>2. CASE UNCHANGED <<media, lingering>>
      BY <1>26, <2>2 DEF Tell
    <2> QED BY <1>26, <2>1, <2>2 DEF Tell
  <1>9. ASSUME NEW c \in Client, ShutdownDelete(c) PROVE Locks'
    BY <1>9 DEF ShutdownDelete, doUserOffline
  <1>10. ASSUME TickStart PROVE Locks'
    BY <1>10 DEF TickStart
  <1>11. ASSUME TickUnlock PROVE Locks'
    BY <1>11 DEF TickUnlock
  <1>12. ASSUME TickEnd PROVE Locks'
    BY <1>12 DEF TickEnd
  <1>13. ASSUME NEW c \in Client, TickRemove(c) PROVE Locks'
    BY <1>13 DEF TickRemove
  <1>14. ASSUME NEW c \in Client, TickDelete(c) PROVE Locks'
    BY <1>14 DEF TickDelete, doUserOffline
  <1>15. ASSUME Execute PROVE Locks'
    <2>1. Head(queue) \in Event
      BY <1>15, HeadTailProperties DEF Execute
    <2>2. Head(queue).client \in Client
      BY <2>1 DEF Event
    <2> QED BY <1>15, <2>2 DEF Execute, Idle
  <1>16. ASSUME dealEvent PROVE Locks'
    BY <1>16 DEF dealEvent, DealJoin, DealLeave, DealMedia
  <1>17. ASSUME DealMediaNobody PROVE Locks'
    BY <1>17 DEF DealMediaNobody, Idle
  <1>18. ASSUME AnnounceEnd PROVE Locks'
    BY <1>18 DEF AnnounceEnd
  <1>19. ASSUME Destroy PROVE Locks'
    BY <1>19 DEF Destroy, DestroyPeer
  <1>20. ASSUME Result PROVE Locks'
    BY <1>20 DEF Result, Idle
  <1>21. ASSUME NEW x \in Client, Announce(x) PROVE Locks'
    BY <1>21 DEF Announce
  <1>22. ASSUME Shutdown PROVE Locks'
    BY <1>22 DEF Shutdown
  <1>23. ASSUME ShutdownLock PROVE Locks'
    BY <1>23 DEF ShutdownLock
  <1>24. ASSUME ShutdownEnd PROVE Locks'
    BY <1>24 DEF ShutdownEnd
  <1>25. CASE UNCHANGED vars
    BY <1>25 DEF vars, lockVars, roomVars, mediaVars
  <1> QED
    BY <1>1, <1>2, <1>3, <1>4, <1>5, <1>6, <1>7, <1>8, <1>9, <1>10, <1>11,
       <1>12, <1>13, <1>14, <1>15, <1>16, <1>17, <1>18, <1>19, <1>20, <1>21,
       <1>22, <1>23, <1>24, <1>25, <1>26
       DEF Next, MediaThread, TickThread, ManagerThread

\* A peer leaves the room without its media thread, or joins it first.
LEMMA ThreadsStep == ASSUME IInv, [Next]_vars PROVE ThreadsOfPeers'
  <1> USE DEF IInv, TypeOK, Locks, ThreadsOfPeers, Leaving, lockVars, roomVars,
              mediaVars
  <1>1. ASSUME NEW c \in Client, OnConnectionAccepted(c) PROVE ThreadsOfPeers'
    BY <1>1 DEF OnConnectionAccepted
  <1>2. ASSUME NEW c \in Client, SocketClosed(c) PROVE ThreadsOfPeers'
    BY <1>2 DEF SocketClosed
  <1>3. ASSUME NEW c \in Client, LinkRelease(c) PROVE ThreadsOfPeers'
    BY <1>3 DEF LinkRelease, doUserOffline
  <1>4. ASSUME NEW c \in Client, NEW type \in {"JOIN", "LEAVE", "MEDIA"}, HandlePacket(c, type)
        PROVE  ThreadsOfPeers'
    BY <1>4 DEF HandlePacket
  <1>5. ASSUME NEW c \in Client, onJoinedChannel(c) PROVE ThreadsOfPeers'
    BY <1>5 DEF onJoinedChannel
  <1>6. ASSUME NEW c \in Client, Lookup(c) PROVE ThreadsOfPeers'
    BY <1>6 DEF Lookup, LookupPeer, LookupNull, LookupFreed
  <1>7. ASSUME NEW c \in Client, TellEnd(c) PROVE ThreadsOfPeers'
    BY <1>7 DEF TellEnd
  <1>8. ASSUME NEW c \in Client, NEW x \in Client, Turn(c, x) \/ TellNull(c, x)
        PROVE  ThreadsOfPeers'
    BY <1>8 DEF Turn, TellNull
  <1>26. ASSUME NEW c \in Client, NEW x \in Client, Tell(c, x) PROVE ThreadsOfPeers'
    <2>1. CASE HasLast(c, x) /\ DestroyPeer(x) /\ lingering' = lingering \ {x}
      BY <1>26, <2>1 DEF Tell, DestroyPeer
    <2>2. CASE UNCHANGED <<media, lingering>>
      BY <1>26, <2>2 DEF Tell
    <2> QED BY <1>26, <2>1, <2>2 DEF Tell
  <1>9. ASSUME NEW c \in Client, ShutdownDelete(c) PROVE ThreadsOfPeers'
    BY <1>9 DEF ShutdownDelete, doUserOffline
  <1>10. ASSUME TickStart PROVE ThreadsOfPeers'
    BY <1>10 DEF TickStart
  <1>11. ASSUME TickUnlock PROVE ThreadsOfPeers'
    BY <1>11 DEF TickUnlock
  <1>12. ASSUME TickEnd PROVE ThreadsOfPeers'
    BY <1>12 DEF TickEnd
  <1>13. ASSUME NEW c \in Client, TickRemove(c) PROVE ThreadsOfPeers'
    BY <1>13 DEF TickRemove
  <1>14. ASSUME NEW c \in Client, TickDelete(c) PROVE ThreadsOfPeers'
    BY <1>14 DEF TickDelete, doUserOffline
  <1>15. ASSUME Execute PROVE ThreadsOfPeers'
    BY <1>15 DEF Execute, Idle
  <1>16. ASSUME dealEvent PROVE ThreadsOfPeers'
    <2>1. CASE DealJoin(manager.client)
      BY <1>16, <2>1 DEF dealEvent, DealJoin
    <2>2. CASE DealLeave(manager.client)
      BY <1>16, <2>2 DEF dealEvent, DealLeave
    <2>3. CASE DealMedia(manager.client)
      BY <1>16, <2>3 DEF dealEvent, DealMedia
    <2> QED BY <1>16, <2>1, <2>2, <2>3 DEF dealEvent
  <1>17. ASSUME DealMediaNobody PROVE ThreadsOfPeers'
    BY <1>17 DEF DealMediaNobody, Idle
  <1>18. ASSUME AnnounceEnd PROVE ThreadsOfPeers'
    BY <1>18 DEF AnnounceEnd
  <1>19. ASSUME Destroy PROVE ThreadsOfPeers'
    BY <1>19 DEF Destroy, DestroyPeer
  <1>20. ASSUME Result PROVE ThreadsOfPeers'
    BY <1>20 DEF Result, Idle
  <1>21. ASSUME NEW x \in Client, Announce(x) PROVE ThreadsOfPeers'
    BY <1>21 DEF Announce
  <1>22. ASSUME Shutdown PROVE ThreadsOfPeers'
    BY <1>22 DEF Shutdown
  <1>23. ASSUME ShutdownLock PROVE ThreadsOfPeers'
    BY <1>23 DEF ShutdownLock
  <1>24. ASSUME ShutdownEnd PROVE ThreadsOfPeers'
    BY <1>24 DEF ShutdownEnd
  <1>25. CASE UNCHANGED vars
    BY <1>25 DEF vars, lockVars, roomVars, mediaVars
  <1> QED
    BY <1>1, <1>2, <1>3, <1>4, <1>5, <1>6, <1>7, <1>8, <1>9, <1>10, <1>11,
       <1>12, <1>13, <1>14, <1>15, <1>16, <1>17, <1>18, <1>19, <1>20, <1>21,
       <1>22, <1>23, <1>24, <1>25, <1>26
       DEF Next, MediaThread, TickThread, ManagerThread

\* Only the last leaver takes the room away.
LEMMA RoomStep == ASSUME IInv, [Next]_vars PROVE RoomIsThere'
  <1> USE DEF IInv, TypeOK, Locks, ThreadsOfPeers, RoomIsThere, Leaving,
              lockVars, roomVars, mediaVars
  <1>1. ASSUME NEW c \in Client, OnConnectionAccepted(c) PROVE RoomIsThere'
    BY <1>1 DEF OnConnectionAccepted
  <1>2. ASSUME NEW c \in Client, SocketClosed(c) PROVE RoomIsThere'
    BY <1>2 DEF SocketClosed
  <1>3. ASSUME NEW c \in Client, LinkRelease(c) PROVE RoomIsThere'
    BY <1>3 DEF LinkRelease, doUserOffline
  <1>4. ASSUME NEW c \in Client, NEW type \in {"JOIN", "LEAVE", "MEDIA"}, HandlePacket(c, type)
        PROVE  RoomIsThere'
    BY <1>4 DEF HandlePacket
  <1>5. ASSUME NEW c \in Client, onJoinedChannel(c) PROVE RoomIsThere'
    BY <1>5 DEF onJoinedChannel
  <1>6. ASSUME NEW c \in Client, Lookup(c) PROVE RoomIsThere'
    BY <1>6 DEF Lookup, LookupPeer, LookupNull, LookupFreed
  <1>7. ASSUME NEW c \in Client, TellEnd(c) PROVE RoomIsThere'
    BY <1>7 DEF TellEnd
  <1>8. ASSUME NEW c \in Client, NEW x \in Client, Turn(c, x) \/ TellNull(c, x)
        PROVE  RoomIsThere'
    BY <1>8 DEF Turn, TellNull
  <1>26. ASSUME NEW c \in Client, NEW x \in Client, Tell(c, x) PROVE RoomIsThere'
    <2>1. CASE HasLast(c, x) /\ DestroyPeer(x) /\ lingering' = lingering \ {x}
      BY <1>26, <2>1 DEF Tell, DestroyPeer
    <2>2. CASE UNCHANGED <<media, lingering>>
      BY <1>26, <2>2 DEF Tell
    <2> QED BY <1>26, <2>1, <2>2 DEF Tell
  <1>9. ASSUME NEW c \in Client, ShutdownDelete(c) PROVE RoomIsThere'
    BY <1>9 DEF ShutdownDelete, doUserOffline
  <1>10. ASSUME TickStart PROVE RoomIsThere'
    BY <1>10 DEF TickStart
  <1>11. ASSUME TickUnlock PROVE RoomIsThere'
    BY <1>11 DEF TickUnlock
  <1>12. ASSUME TickEnd PROVE RoomIsThere'
    BY <1>12 DEF TickEnd
  <1>13. ASSUME NEW c \in Client, TickRemove(c) PROVE RoomIsThere'
    BY <1>13 DEF TickRemove
  <1>14. ASSUME NEW c \in Client, TickDelete(c) PROVE RoomIsThere'
    BY <1>14 DEF TickDelete, doUserOffline
  <1>15. ASSUME Execute PROVE RoomIsThere'
    BY <1>15 DEF Execute, Idle
  <1>16. ASSUME dealEvent PROVE RoomIsThere'
    BY <1>16 DEF dealEvent, DealJoin, DealLeave, DealMedia
  <1>17. ASSUME DealMediaNobody PROVE RoomIsThere'
    BY <1>17 DEF DealMediaNobody, Idle
  <1>18. ASSUME AnnounceEnd PROVE RoomIsThere'
    BY <1>18 DEF AnnounceEnd
  <1>19. ASSUME Destroy PROVE RoomIsThere'
    BY <1>19 DEF Destroy, DestroyPeer
  <1>20. ASSUME Result PROVE RoomIsThere'
    BY <1>20 DEF Result, Idle
  <1>21. ASSUME NEW x \in Client, Announce(x) PROVE RoomIsThere'
    BY <1>21 DEF Announce
  <1>22. ASSUME Shutdown PROVE RoomIsThere'
    BY <1>22 DEF Shutdown
  <1>23. ASSUME ShutdownLock PROVE RoomIsThere'
    BY <1>23 DEF ShutdownLock
  <1>24. ASSUME ShutdownEnd PROVE RoomIsThere'
    BY <1>24 DEF ShutdownEnd
  <1>25. CASE UNCHANGED vars
    BY <1>25 DEF vars, lockVars, roomVars, mediaVars
  <1> QED
    BY <1>1, <1>2, <1>3, <1>4, <1>5, <1>6, <1>7, <1>8, <1>9, <1>10, <1>11,
       <1>12, <1>13, <1>14, <1>15, <1>16, <1>17, <1>18, <1>19, <1>20, <1>21,
       <1>22, <1>23, <1>24, <1>25, <1>26
       DEF Next, MediaThread, TickThread, ManagerThread

LEMMA Inductive == IInv /\ [Next]_vars => IInv'
  <1> SUFFICES ASSUME IInv, [Next]_vars PROVE IInv'
    OBVIOUS
  <1> QED BY TypeStep, LocksStep, ThreadsStep, RoomStep DEF IInv

\* Locks, media threads and the room fit together in every reachable state.
THEOREM Invariant == Spec => []IInv
  BY InitHolds, Inductive, PTL DEF Spec

\* Every variable of the room and its threads keeps its type.
THEOREM TypeCorrect == Spec => []TypeOK
  <1>1. IInv => TypeOK
    BY DEF IInv
  <1> QED BY <1>1, Invariant, PTL

\* For any number of clients, cRoom is not deleted while a media thread whose peer
\* no media thread held when it left is inside BroadcastJoinChannel, although no
\* lock protects it there.
THEOREM RoomSafety == Spec => []RoomOutlivesMedia
  <1>1. IInv => RoomOutlivesMedia
    BY DEF IInv, TypeOK, Locks, ThreadsOfPeers, Leaving, RoomIsThere, RoomOutlivesMedia
  <1> QED BY <1>1, Invariant, PTL

(***************************************************************************)
(* Deadlock.                                                               *)
(***************************************************************************)

\* The media threads that have not begun their loops: the ones that are joined.
Looking == {c \in Client : media[c] = "lookup"}

\* Whom each kind of thread can wait for while Shutdown does not clear m_Clients.
LEMMA Waits ==
  ASSUME IInv, server # "clear"
  PROVE  /\ WaitsFor("main") = {}
         /\ tick # "delete" => WaitsFor("tick") = {}
         /\ WaitsFor("tick") \subseteq {"manager"}
         /\ WaitsFor("manager") \subseteq ({csClients} \cup Looking) \ {"free"}
         /\ \A c \in Client : WaitsFor(c) \subseteq ({csClients} \cup Looking) \ {"free"}
         /\ \A c \in Looking : WaitsFor(c) = {}
  <1> USE RoomThreadsAssumption DEF IInv, TypeOK, Locks, Thread
  <1>1. WaitsFor("main") = {}
    BY DEF WaitsFor
  <1>2. WaitsFor("tick") \subseteq {"manager"} /\ (tick # "delete" => WaitsFor("tick") = {})
    BY DEF WaitsFor
  <1>3. WaitsFor("manager") \subseteq ({csClients} \cup Looking) \ {"free"}
    BY DEF WaitsFor, Looking
  <1>4. ASSUME NEW c \in Client
        PROVE  WaitsFor(c) \subseteq ({csClients} \cup Looking) \ {"free"}
    BY DEF WaitsFor, Looking
  <1>5. ASSUME NEW c \in Looking PROVE WaitsFor(c) = {}
    <2>1. c \in Client /\ media[c] = "lookup" /\ holding[c] = {}
      BY DEF Looking, ThreadsOfPeers
    <2> QED BY <2>1 DEF WaitsFor
  <1> QED BY <1>1, <1>2, <1>3, <1>4, <1>5

\* In any set of threads one waits for nobody in it: a media thread that has not
\* begun its loop, else the main thread, else the tick during its round, else the
\* manager, else any other media thread.
LEMMA SomeoneGoesOn ==
  ASSUME IInv, server # "clear", NEW S \in (SUBSET Thread) \ {{}}
  PROVE  \E t \in S : WaitsFor(t) \cap S = {}
  <1>1. csClients \in {"free", "tick"} /\ (tick = "delete" => csClients = "free")
    BY DEF IInv, TypeOK, Locks
  <1>2. CASE S \cap Looking # {}
    BY <1>2, Waits
  <1>3. CASE "main" \in S
    BY <1>3, Waits
  <1>4. CASE "tick" \in S /\ tick # "delete"
    BY <1>4, Waits
  <1>5. CASE "manager" \in S /\ S \cap Looking = {} /\ ("tick" \in S => tick = "delete")
    BY <1>1, <1>5, Waits
  <1>6. CASE "tick" \in S /\ tick = "delete" /\ "manager" \notin S
    BY <1>6, Waits
  <1>7. CASE S \cap Looking = {} /\ S \cap {"main", "tick", "manager"} = {}
    <2>1. PICK t \in S : t \in Client
      BY <1>7 DEF Thread
    <2> QED BY <1>1, <1>7, <2>1, Waits
  <1> QED BY <1>2, <1>3, <1>4, <1>5, <1>6, <1>7

\* The circle of run threads_deadlock is the only one: before and after Shutdown
\* clears m_Clients with m_CSClients held, no set of threads waits in a circle.
THEOREM OnlyShutdownBlocks == Spec => [](server # "clear" => NoCircularWait)
  <1>1. IInv => (server # "clear" => NoCircularWait)
    BY SomeoneGoesOn DEF NoCircularWait
  <1> QED BY <1>1, Invariant, PTL

\* While the server runs no set of threads waits in a circle, with any number of
\* clients and media threads: m_CSClients is not held when handles are deleted,
\* and the manager, which holds m_CSChannels when it joins a media thread, is not
\* waited for by any media thread.
THEOREM DeadlockFreedom == Spec => []WaitsInOrder
  <1>1. IInv => WaitsInOrder
    BY SomeoneGoesOn DEF WaitsInOrder, NoCircularWait
  <1> QED BY <1>1, Invariant, PTL

=============================================================================
