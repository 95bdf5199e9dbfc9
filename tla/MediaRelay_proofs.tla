-------------------------- MODULE MediaRelay_proofs -------------------------
(* Proofs about MediaRelay for every set of subscribers and any number of   *)
(* connections.                                                             *)
EXTENDS MediaRelay, TLAPS

(***************************************************************************)
(* The inductive invariant.                                                *)
(***************************************************************************)

\* The manager's operation and the phase of the peer it belongs to.
Phases ==
  /\ manager.at = "idle" => manager = Idle
  /\ manager.at \in {"add", "replace", "offer", "remove", "join", "delete"} =>
       manager.target \in Target
  /\ peer \in {"none", "gone"} => manager.at = "idle"
  /\ peer = "none" => relay = "off"
  /\ peer = "joined" => manager.at \notin {"leave", "close", "clear"}
  /\ peer = "leaving" => manager.at \notin {"idle", "add", "replace", "offer"}
  /\ publisher \in {"joining", "freed"} => peer = "gone" \/ manager.at \in {"close", "clear"}

\* myMonitor_ is held by the thread that is inside its critical section.
Monitor ==
  /\ monitor = "manager" <=> manager.at \in {"replace", "join"}
  /\ monitor = "publisher" <=> relay = "deliver"

\* Where the operation on target t has got to, seen in the maps.
Entry(t) ==
  LET busy(ops) == manager.target = t /\ manager.at \in ops
      alive(c, s) == c # None => conn[c] = s
  IN  /\ busy({"add", "replace", "offer"}) => raw[t] # None /\ conn[raw[t]] = "made"
      /\ busy({"add"}) => subscribers[t] # raw[t] /\ alive(subscribers[t], "live")
      /\ busy({"replace"}) => subscribers[t] # raw[t] /\ alive(subscribers[t], "joining")
      /\ busy({"offer"}) => subscribers[t] = raw[t]
      /\ busy({"join"}) => subscribers[t] = raw[t] /\ alive(raw[t], "joining")
      /\ busy({"delete"}) => subscribers[t] = None /\ alive(raw[t], "freed")
      /\ ~busy({"add", "replace", "offer", "join", "delete"}) =>
           subscribers[t] = raw[t] /\ alive(raw[t], "live")

\* The three maps: pointer and listener are always of the same subscription, no
\* connection serves two targets, and one that is not free is in a map.
Maps ==
  /\ listeners = raw
  /\ \A t \in Target : Entry(t)
  /\ \A t, u \in Target : t # u =>
       /\ raw[t] # None => raw[t] # raw[u] /\ raw[t] # subscribers[u]
       /\ subscribers[t] # None => subscribers[t] # subscribers[u]
  /\ \A c \in Conn : conn[c] \in {"made", "live", "joining"} =>
       \E t \in Target : raw[t] = c \/ subscribers[t] = c

\* ~cPeer empties the maps before the processor goes.
Emptied ==
  /\ peer = "none" => \A t \in Target : raw[t] = None
  /\ peer = "leaving" => \A t \in Target : raw[t] # None =>
       t \in manager.left \/ (manager.at \in {"remove", "join", "delete"} /\ manager.target = t)
  /\ peer = "gone" \/ manager.at \in {"close", "clear"} =>
       \A t \in Target : raw[t] = None /\ subscribers[t] = None

\* Media threads live between createOffer and the join, listeners longer.
MediaThreads ==
  /\ \A c \in Conn : feedback[c] # "off" => conn[c] \in {"live", "joining"}
  /\ \A c \in deleted : conn[c] = "freed"
  /\ relay = "deliver" =>
       \A t \in todo : subscribers[t] # None /\ conn[subscribers[t]] \in {"made", "live"}

IInv == TypeOK /\ Phases /\ Monitor /\ Maps /\ Emptied /\ MediaThreads

LEMMA ConnNumbers == Conn \subseteq Nat /\ None \notin Conn
  BY MediaRelayAssumption DEF Conn, None

LEMMA InitHolds == Init => IInv
  <1> SUFFICES ASSUME Init PROVE IInv
    OBVIOUS
  <1> USE ConnNumbers DEF Init, Idle
  <1>1. TypeOK
    BY DEF TypeOK
  <1>2. Phases /\ Monitor
    BY DEF Phases, Monitor
  <1>3. Maps /\ Emptied /\ MediaThreads
    BY DEF Maps, Entry, Emptied, MediaThreads
  <1> QED BY <1>1, <1>2, <1>3 DEF IInv

\* Every variable keeps its type.
LEMMA TypeStep == ASSUME IInv, [Next]_vars PROVE TypeOK'
  <1> USE DEF IInv, TypeOK, Phases, peerVars, muxVars, pubVars, connVars
  <1>1. ASSUME doJoin PROVE TypeOK'
    BY <1>1 DEF doJoin
  <1>2. ASSUME DestroyPeer PROVE TypeOK'
    BY <1>2 DEF DestroyPeer, Idle, ListenersLeft
  <1>3. ASSUME RelayPacket PROVE TypeOK'
    BY <1>3 DEF RelayPacket
  <1>4. ASSUME addSubscriber PROVE TypeOK'
    BY <1>4 DEF addSubscriber, Erased
  <1>5. ASSUME Replaced PROVE TypeOK'
    BY <1>5 DEF Replaced, Joined
  <1>6. ASSUME createOffer PROVE TypeOK'
    BY <1>6 DEF createOffer, Idle
  <1>7. ASSUME removeSubscriber PROVE TypeOK'
    BY <1>7 DEF removeSubscriber, Erased
  <1>8. ASSUME Removed PROVE TypeOK'
    BY <1>8 DEF Removed, Joined
  <1>9. ASSUME DeleteListener PROVE TypeOK'
    BY <1>9 DEF DeleteListener, ListenerOf, RawWithout, Idle
  <1>10. ASSUME RemoveNext PROVE TypeOK'
    BY <1>10 DEF RemoveNext
  <1>11. ASSUME closeAll PROVE TypeOK'
    BY <1>11 DEF closeAll
  <1>12. ASSUME PublisherJoined PROVE TypeOK'
    BY <1>12 DEF PublisherJoined
  <1>13. ASSUME ClearSubscribers PROVE TypeOK'
    BY <1>13 DEF ClearSubscribers, Joined, Idle
  <1>14. ASSUME RelayLock PROVE TypeOK'
    BY <1>14 DEF RelayLock
  <1>15. ASSUME Deliver PROVE TypeOK'
    BY <1>15 DEF Deliver
  <1>16. ASSUME RelayUnlock PROVE TypeOK'
    BY <1>16 DEF RelayUnlock
  <1>17. ASSUME RelayEnds PROVE TypeOK'
    BY <1>17 DEF RelayEnds
  <1>18. ASSUME NEW t \in Target, onSubscribed(t) PROVE TypeOK'
    <2>1. PICK c \in Conn :
            /\ conn' = [conn EXCEPT ![c] = "made"]
            /\ raw' = [raw EXCEPT ![t] = c]
            /\ listeners' = [listeners EXCEPT ![t] = c]
      BY <1>18 DEF onSubscribed
    <2>2. conn' \in [Conn -> {"unused", "made", "live", "joining", "freed"}]
      BY <2>1
    <2>3. /\ raw' \in [Target -> Conn \cup {None}]
          /\ listeners' \in [Target -> Conn \cup {None}]
      BY <2>1
    <2> QED BY <1>18, <2>2, <2>3 DEF onSubscribed, Idle
  <1>19. ASSUME NEW t \in Target, onUnSubscribed(t) PROVE TypeOK'
    BY <1>19 DEF onUnSubscribed, Idle
  <1>20. ASSUME NEW c \in Conn, FeedbackTest(c) PROVE TypeOK'
    BY <1>20 DEF FeedbackTest
  <1>21. ASSUME NEW c \in Conn, FeedbackDeliver(c) PROVE TypeOK'
    BY <1>21 DEF FeedbackDeliver
  <1>22. ASSUME NEW c \in Conn, FeedbackEnds(c) PROVE TypeOK'
    BY <1>22 DEF FeedbackEnds
  <1>23. CASE UNCHANGED vars
    BY <1>23 DEF vars, peerVars, muxVars, pubVars, connVars
  <1> QED
    BY <1>1, <1>2, <1>3, <1>4, <1>5, <1>6, <1>7, <1>8, <1>9, <1>10, <1>11,
       <1>12, <1>13, <1>14, <1>15, <1>16, <1>17, <1>18, <1>19, <1>20, <1>21,
       <1>22, <1>23
       DEF Next, ManagerStep, RelayStep, FeedbackStep

\* An operation of the manager belongs to the phase its peer is in.
LEMMA PhasesStep == ASSUME IInv, [Next]_vars PROVE Phases'
  <1> USE DEF IInv, TypeOK, Phases, peerVars, muxVars, pubVars, connVars
  <1>1. ASSUME doJoin PROVE Phases'
    BY <1>1 DEF doJoin
  <1>2. ASSUME DestroyPeer PROVE Phases'
    BY <1>2 DEF DestroyPeer, Idle, ListenersLeft
  <1>3. ASSUME RelayPacket PROVE Phases'
    BY <1>3 DEF RelayPacket
  <1>4. ASSUME addSubscriber PROVE Phases'
    BY <1>4 DEF addSubscriber, Erased
  <1>5. ASSUME Replaced PROVE Phases'
    BY <1>5 DEF Replaced, Joined
  <1>6. ASSUME createOffer PROVE Phases'
    BY <1>6 DEF createOffer, Idle
  <1>7. ASSUME removeSubscriber PROVE Phases'
    BY <1>7 DEF removeSubscriber, Erased
  <1>8. ASSUME Removed PROVE Phases'
    BY <1>8 DEF Removed, Joined
  <1>9. ASSUME DeleteListener PROVE Phases'
    BY <1>9 DEF DeleteListener, ListenerOf, RawWithout, Idle
  <1>10. ASSUME RemoveNext PROVE Phases'
    BY <1>10 DEF RemoveNext
  <1>11. ASSUME closeAll PROVE Phases'
    BY <1>11 DEF closeAll
  <1>12. ASSUME PublisherJoined PROVE Phases'
    BY <1>12 DEF PublisherJoined
  <1>13. ASSUME ClearSubscribers PROVE Phases'
    BY <1>13 DEF ClearSubscribers, Joined, Idle
  <1>14. ASSUME RelayLock PROVE Phases'
    BY <1>14 DEF RelayLock
  <1>15. ASSUME Deliver PROVE Phases'
    BY <1>15 DEF Deliver
  <1>16. ASSUME RelayUnlock PROVE Phases'
    BY <1>16 DEF RelayUnlock
  <1>17. ASSUME RelayEnds PROVE Phases'
    BY <1>17 DEF RelayEnds
  <1>18. ASSUME NEW t \in Target, onSubscribed(t) PROVE Phases'
    BY <1>18 DEF onSubscribed, Idle
  <1>19. ASSUME NEW t \in Target, onUnSubscribed(t) PROVE Phases'
    BY <1>19 DEF onUnSubscribed, Idle
  <1>20. ASSUME NEW c \in Conn, FeedbackTest(c) PROVE Phases'
    BY <1>20 DEF FeedbackTest
  <1>21. ASSUME NEW c \in Conn, FeedbackDeliver(c) PROVE Phases'
    BY <1>21 DEF FeedbackDeliver
  <1>22. ASSUME NEW c \in Conn, FeedbackEnds(c) PROVE Phases'
    BY <1>22 DEF FeedbackEnds
  <1>23. CASE UNCHANGED vars
    BY <1>23 DEF vars, peerVars, muxVars, pubVars, connVars
  <1> QED
    BY <1>1, <1>2, <1>3, <1>4, <1>5, <1>6, <1>7, <1>8, <1>9, <1>10, <1>11,
       <1>12, <1>13, <1>14, <1>15, <1>16, <1>17, <1>18, <1>19, <1>20, <1>21,
       <1>22, <1>23
       DEF Next, ManagerStep, RelayStep, FeedbackStep

\* The manager and the relay exclude each other with myMonitor_.
LEMMA MonitorStep == ASSUME IInv, [Next]_vars PROVE Monitor'
  <1> USE DEF IInv, TypeOK, Phases, Monitor, peerVars, muxVars, pubVars,
              connVars
  <1>1. ASSUME doJoin PROVE Monitor'
    BY <1>1 DEF doJoin
  <1>2. ASSUME DestroyPeer PROVE Monitor'
    BY <1>2 DEF DestroyPeer, Idle, ListenersLeft
  <1>3. ASSUME RelayPacket PROVE Monitor'
    BY <1>3 DEF RelayPacket
  <1>4. ASSUME addSubscriber PROVE Monitor'
    BY <1>4 DEF addSubscriber, Erased
  <1>5. ASSUME Replaced PROVE Monitor'
    BY <1>5 DEF Replaced, Joined
  <1>6. ASSUME createOffer PROVE Monitor'
    BY <1>6 DEF createOffer, Idle
  <1>7. ASSUME removeSubscriber PROVE Monitor'
    BY <1>7 DEF removeSubscriber, Erased
  <1>8. ASSUME Removed PROVE Monitor'
    BY <1>8 DEF Removed, Joined
  <1>9. ASSUME DeleteListener PROVE Monitor'
    BY <1>9 DEF DeleteListener, ListenerOf, RawWithout, Idle
  <1>10. ASSUME RemoveNext PROVE Monitor'
    BY <1>10 DEF RemoveNext
  <1>11. ASSUME closeAll PROVE Monitor'
    BY <1>11 DEF closeAll
  <1>12. ASSUME PublisherJoined PROVE Monitor'
    BY <1>12 DEF PublisherJoined
  <1>13. ASSUME ClearSubscribers PROVE Monitor'
    BY <1>13 DEF ClearSubscribers, Joined, Idle
  <1>14. ASSUME RelayLock PROVE Monitor'
    BY <1>14 DEF RelayLock
  <1>15. ASSUME Deliver PROVE Monitor'
    BY <1>15 DEF Deliver
  <1>16. ASSUME RelayUnlock PROVE Monitor'
    BY <1>16 DEF RelayUnlock
  <1>17. ASSUME RelayEnds PROVE Monitor'
    BY <1>17 DEF RelayEnds
  <1>18. ASSUME NEW t \in Target, onSubscribed(t) PROVE Monitor'
    BY <1>18 DEF onSubscribed, Idle
  <1>19. ASSUME NEW t \in Target, onUnSubscribed(t) PROVE Monitor'
    BY <1>19 DEF onUnSubscribed, Idle
  <1>20. ASSUME NEW c \in Conn, FeedbackTest(c) PROVE Monitor'
    BY <1>20 DEF FeedbackTest
  <1>21. ASSUME NEW c \in Conn, FeedbackDeliver(c) PROVE Monitor'
    BY <1>21 DEF FeedbackDeliver
  <1>22. ASSUME NEW c \in Conn, FeedbackEnds(c) PROVE Monitor'
    BY <1>22 DEF FeedbackEnds
  <1>23. CASE UNCHANGED vars
    BY <1>23 DEF vars, peerVars, muxVars, pubVars, connVars
  <1> QED
    BY <1>1, <1>2, <1>3, <1>4, <1>5, <1>6, <1>7, <1>8, <1>9, <1>10, <1>11,
       <1>12, <1>13, <1>14, <1>15, <1>16, <1>17, <1>18, <1>19, <1>20, <1>21,
       <1>22, <1>23
       DEF Next, ManagerStep, RelayStep, FeedbackStep

\* No subscription is left when the publisher is dropped.
LEMMA EmptiedStep == ASSUME IInv, [Next]_vars PROVE Emptied'
  <1> USE ConnNumbers DEF IInv, TypeOK, Phases, Maps, Entry, Emptied, peerVars, muxVars,
              pubVars, connVars
  <1>1. ASSUME doJoin PROVE Emptied'
    BY <1>1 DEF doJoin
  <1>2. ASSUME DestroyPeer PROVE Emptied'
    BY <1>2 DEF DestroyPeer, Idle, ListenersLeft
  <1>3. ASSUME RelayPacket PROVE Emptied'
    BY <1>3 DEF RelayPacket
  <1>4. ASSUME addSubscriber PROVE Emptied'
    BY <1>4 DEF addSubscriber, Erased
  <1>5. ASSUME Replaced PROVE Emptied'
    BY <1>5 DEF Replaced, Joined
  <1>6. ASSUME createOffer PROVE Emptied'
    BY <1>6 DEF createOffer, Idle
  <1>7. ASSUME removeSubscriber PROVE Emptied'
    BY <1>7 DEF removeSubscriber, Erased
  <1>8. ASSUME Removed PROVE Emptied'
    BY <1>8 DEF Removed, Joined
  <1>9. ASSUME DeleteListener PROVE Emptied'
    BY <1>9 DEF DeleteListener, ListenerOf, RawWithout, Idle
  <1>10. ASSUME RemoveNext PROVE Emptied'
    BY <1>10 DEF RemoveNext
  <1>11. ASSUME closeAll PROVE Emptied'
    BY <1>11 DEF closeAll
  <1>12. ASSUME PublisherJoined PROVE Emptied'
    BY <1>12 DEF PublisherJoined
  <1>13. ASSUME ClearSubscribers PROVE Emptied'
    BY <1>13 DEF ClearSubscribers, Joined, Idle
  <1>14. ASSUME RelayLock PROVE Emptied'
    BY <1>14 DEF RelayLock
  <1>15. ASSUME Deliver PROVE Emptied'
    BY <1>15 DEF Deliver
  <1>16. ASSUME RelayUnlock PROVE Emptied'
    BY <1>16 DEF RelayUnlock
  <1>17. ASSUME RelayEnds PROVE Emptied'
    BY <1>17 DEF RelayEnds
  <1>18. ASSUME NEW t \in Target, onSubscribed(t) PROVE Emptied'
    BY <1>18 DEF onSubscribed, Idle
  <1>19. ASSUME NEW t \in Target, onUnSubscribed(t) PROVE Emptied'
    BY <1>19 DEF onUnSubscribed, Idle
  <1>20. ASSUME NEW c \in Conn, FeedbackTest(c) PROVE Emptied'
    BY <1>20 DEF FeedbackTest
  <1>21. ASSUME NEW c \in Conn, FeedbackDeliver(c) PROVE Emptied'
    BY <1>21 DEF FeedbackDeliver
  <1>22. ASSUME NEW c \in Conn, FeedbackEnds(c) PROVE Emptied'
    BY <1>22 DEF FeedbackEnds
  <1>23. CASE UNCHANGED vars
    BY <1>23 DEF vars, peerVars, muxVars, pubVars, connVars
  <1> QED
    BY <1>1, <1>2, <1>3, <1>4, <1>5, <1>6, <1>7, <1>8, <1>9, <1>10, <1>11,
       <1>12, <1>13, <1>14, <1>15, <1>16, <1>17, <1>18, <1>19, <1>20, <1>21,
       <1>22, <1>23
       DEF Next, ManagerStep, RelayStep, FeedbackStep

\* The maps of a peer and the connections they name move together.
LEMMA MapsStep == ASSUME IInv, [Next]_vars PROVE Maps'
  <1> USE ConnNumbers DEF IInv, TypeOK, Phases, Maps, Entry, Emptied, peerVars, muxVars,
              pubVars, connVars
  <1>1. ASSUME doJoin PROVE Maps'
    BY <1>1 DEF doJoin
  <1>2. ASSUME DestroyPeer PROVE Maps'
    BY <1>2 DEF DestroyPeer, Idle, ListenersLeft
  <1>3. ASSUME RelayPacket PROVE Maps'
    BY <1>3 DEF RelayPacket
  <1>4. ASSUME addSubscriber PROVE Maps'
    BY <1>4 DEF addSubscriber, Erased
  <1>5. ASSUME Replaced PROVE Maps'
    BY <1>5 DEF Replaced, Joined
  <1>6. ASSUME createOffer PROVE Maps'
    BY <1>6 DEF createOffer, Idle
  <1>7. ASSUME removeSubscriber PROVE Maps'
    BY <1>7 DEF removeSubscriber, Erased
  <1>8. ASSUME Removed PROVE Maps'
    BY <1>8 DEF Removed, Joined
  <1>9. ASSUME DeleteListener PROVE Maps'
    BY <1>9 DEF DeleteListener, ListenerOf, RawWithout, Idle
  <1>10. ASSUME RemoveNext PROVE Maps'
    BY <1>10 DEF RemoveNext
  <1>11. ASSUME closeAll PROVE Maps'
    BY <1>11 DEF closeAll
  <1>12. ASSUME PublisherJoined PROVE Maps'
    BY <1>12 DEF PublisherJoined
  <1>13. ASSUME ClearSubscribers PROVE Maps'
    BY <1>13 DEF ClearSubscribers, Joined, Idle
  <1>14. ASSUME RelayLock PROVE Maps'
    BY <1>14 DEF RelayLock
  <1>15. ASSUME Deliver PROVE Maps'
    BY <1>15 DEF Deliver
  <1>16. ASSUME RelayUnlock PROVE Maps'
    BY <1>16 DEF RelayUnlock
  <1>17. ASSUME RelayEnds PROVE Maps'
    BY <1>17 DEF RelayEnds
  <1>18. ASSUME NEW t \in Target, onSubscribed(t) PROVE Maps'
    BY <1>18 DEF onSubscribed, Idle
  <1>19. ASSUME NEW t \in Target, onUnSubscribed(t) PROVE Maps'
    BY <1>19 DEF onUnSubscribed, Idle
  <1>20. ASSUME NEW c \in Conn, FeedbackTest(c) PROVE Maps'
    BY <1>20 DEF FeedbackTest
  <1>21. ASSUME NEW c \in Conn, FeedbackDeliver(c) PROVE Maps'
    BY <1>21 DEF FeedbackDeliver
  <1>22. ASSUME NEW c \in Conn, FeedbackEnds(c) PROVE Maps'
    BY <1>22 DEF FeedbackEnds
  <1>23. CASE UNCHANGED vars
    BY <1>23 DEF vars, peerVars, muxVars, pubVars, connVars
  <1> QED
    BY <1>1, <1>2, <1>3, <1>4, <1>5, <1>6, <1>7, <1>8, <1>9, <1>10, <1>11,
       <1>12, <1>13, <1>14, <1>15, <1>16, <1>17, <1>18, <1>19, <1>20, <1>21,
       <1>22, <1>23
       DEF Next, ManagerStep, RelayStep, FeedbackStep

\* No media thread outlives what it uses.
LEMMA MediaThreadsStep == ASSUME IInv, [Next]_vars PROVE MediaThreads'
  <1> USE ConnNumbers DEF IInv, TypeOK, Phases, Monitor, Maps, Entry, Emptied, MediaThreads,
              peerVars, muxVars, pubVars, connVars
  <1>1. ASSUME doJoin PROVE MediaThreads'
    BY <1>1 DEF doJoin
  <1>2. ASSUME DestroyPeer PROVE MediaThreads'
    BY <1>2 DEF DestroyPeer, Idle, ListenersLeft
  <1>3. ASSUME RelayPacket PROVE MediaThreads'
    BY <1>3 DEF RelayPacket
  <1>4. ASSUME addSubscriber PROVE MediaThreads'
    BY <1>4 DEF addSubscriber, Erased
  <1>5. ASSUME Replaced PROVE MediaThreads'
    BY <1>5 DEF Replaced, Joined
  <1>6. ASSUME createOffer PROVE MediaThreads'
    BY <1>6 DEF createOffer, Idle
  <1>7. ASSUME removeSubscriber PROVE MediaThreads'
    BY <1>7 DEF removeSubscriber, Erased
  <1>8. ASSUME Removed PROVE MediaThreads'
    BY <1>8 DEF Removed, Joined
  <1>9. ASSUME DeleteListener PROVE MediaThreads'
    BY <1>9 DEF DeleteListener, ListenerOf, RawWithout, Idle
  <1>10. ASSUME RemoveNext PROVE MediaThreads'
    BY <1>10 DEF RemoveNext
  <1>11. ASSUME closeAll PROVE MediaThreads'
    BY <1>11 DEF closeAll
  <1>12. ASSUME PublisherJoined PROVE MediaThreads'
    BY <1>12 DEF PublisherJoined
  <1>13. ASSUME ClearSubscribers PROVE MediaThreads'
    BY <1>13 DEF ClearSubscribers, Joined, Idle
  <1>14. ASSUME RelayLock PROVE MediaThreads'
    BY <1>14 DEF RelayLock
  <1>15. ASSUME Deliver PROVE MediaThreads'
    BY <1>15 DEF Deliver
  <1>16. ASSUME RelayUnlock PROVE MediaThreads'
    BY <1>16 DEF RelayUnlock
  <1>17. ASSUME RelayEnds PROVE MediaThreads'
    BY <1>17 DEF RelayEnds
  <1>18. ASSUME NEW t \in Target, onSubscribed(t) PROVE MediaThreads'
    BY <1>18 DEF onSubscribed, Idle
  <1>19. ASSUME NEW t \in Target, onUnSubscribed(t) PROVE MediaThreads'
    BY <1>19 DEF onUnSubscribed, Idle
  <1>20. ASSUME NEW c \in Conn, FeedbackTest(c) PROVE MediaThreads'
    BY <1>20 DEF FeedbackTest
  <1>21. ASSUME NEW c \in Conn, FeedbackDeliver(c) PROVE MediaThreads'
    BY <1>21 DEF FeedbackDeliver
  <1>22. ASSUME NEW c \in Conn, FeedbackEnds(c) PROVE MediaThreads'
    BY <1>22 DEF FeedbackEnds
  <1>23. CASE UNCHANGED vars
    BY <1>23 DEF vars, peerVars, muxVars, pubVars, connVars
  <1> QED
    BY <1>1, <1>2, <1>3, <1>4, <1>5, <1>6, <1>7, <1>8, <1>9, <1>10, <1>11,
       <1>12, <1>13, <1>14, <1>15, <1>16, <1>17, <1>18, <1>19, <1>20, <1>21,
       <1>22, <1>23
       DEF Next, ManagerStep, RelayStep, FeedbackStep

LEMMA Inductive == IInv /\ [Next]_vars => IInv'
  <1> SUFFICES ASSUME IInv, [Next]_vars PROVE IInv'
    OBVIOUS
  <1> QED
    BY TypeStep, PhasesStep, MonitorStep, MapsStep, EmptiedStep, MediaThreadsStep
       DEF IInv

\* Operations, monitor, maps and media threads of a peer fit together in every
\* reachable state.
THEOREM Invariant == Spec => []IInv
  BY InitHolds, Inductive, PTL DEF Spec

\* Every variable of the peer, its processor and the connections keeps its type.
THEOREM TypeCorrect == Spec => []TypeOK
  <1>1. IInv => TypeOK
    BY DEF IInv
  <1> QED BY <1>1, Invariant, PTL

\* For any number of subscribers and re-subscriptions, no packet goes to a
\* connection that is being destroyed, no feedback to a publisher that is freed,
\* and no listener is deleted before its connection's threads are joined.
THEOREM RelaySafety == Spec => []NothingDangles
  <1>1. IInv => NothingDangles
    BY ConnNumbers
       DEF IInv, TypeOK, Phases, Maps, Entry, Emptied, MediaThreads, NothingDangles
  <1> QED BY <1>1, Invariant, PTL

\* Between two operations the connection that gets the media, the pointer that
\* gets the answers and the listener are those of one live subscription.
THEOREM MapSafety == Spec => []MapsAgree
  <1>1. IInv => MapsAgree
    BY ConnNumbers DEF IInv, TypeOK, Maps, Entry, MapsAgree, Idle
  <1> QED BY <1>1, Invariant, PTL

=============================================================================
