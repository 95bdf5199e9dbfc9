----------------------------- MODULE MediaRelay -----------------------------
(***************************************************************************)
(* The media of one peer: cPeer with its OneToManyProcessor, the connection *)
(* of its publisher and those of its subscribers, under three kinds of      *)
(* threads: the manager thread (subscribe, unsubscribe, leave), the         *)
(* publisher's media thread (which relays under myMonitor_) and the         *)
(* subscribers' media threads (which return feedback without a lock).  A    *)
(* connection is destroyed where its last shared_ptr goes: its media thread *)
(* is joined there, with the monitor held or not.  MediaConnection has the  *)
(* inside of a connection and of its destructor.                            *)
(***************************************************************************)
EXTENDS Naturals, FiniteSets

CONSTANTS
  Target,   \* clients that subscribe to the peer
  MaxConn   \* subscriber connections ever made

ASSUME MediaRelayAssumption == MaxConn \in Nat

Conn == 1..MaxConn
None == 0

VARIABLES
  peer,         \* the cPeer: none, joined, leaving or gone
  manager,      \* the manager thread: the operation, its target, what is left of it
  monitor,      \* who holds myMonitor_ of the processor
  feedbackSink, \* feedbackSink_ # NULL
  publisher,    \* the publisher's connection
  relay,        \* its media thread
  todo,         \* subscribers this packet still goes to
  subscribers,  \* OneToManyProcessor::subscribers
  raw,          \* cPeer::subscribers, which owns nothing
  listeners,    \* cPeer::eventListeners: the listener made for a connection
  conn,         \* conn[c]: a subscriber's connection
  feedback,     \* its media thread
  deleted       \* connections whose listener was deleted

peerVars == <<peer, raw, listeners, deleted>>
muxVars == <<feedbackSink, subscribers>>
pubVars == <<publisher, relay, todo>>
connVars == <<conn, feedback>>
vars == <<peerVars, manager, monitor, muxVars, pubVars, connVars>>

Idle == [at |-> "idle", target |-> None, left |-> {}]

TypeOK ==
  /\ peer \in {"none", "joined", "leaving", "gone"}
  /\ manager \in [at : {"idle", "add", "replace", "offer", "remove", "join", "delete",
                        "leave", "close", "clear"},
                  target : Target \cup {None}, left : SUBSET Target]
  /\ monitor \in {"free", "manager", "publisher"}
  /\ feedbackSink \in BOOLEAN
  /\ publisher \in {"none", "live", "joining", "freed"}
  /\ relay \in {"idle", "lock", "deliver", "off"}
  /\ todo \in SUBSET Target
  /\ subscribers \in [Target -> Conn \cup {None}]
  /\ raw \in [Target -> Conn \cup {None}]
  /\ listeners \in [Target -> Conn \cup {None}]
  /\ conn \in [Conn -> {"unused", "made", "live", "joining", "freed"}]
  /\ feedback \in [Conn -> {"idle", "tested", "off"}]
  /\ deleted \in SUBSET Conn

Init ==
  /\ peer = "none"
  /\ manager = Idle
  /\ monitor = "free"
  /\ feedbackSink = FALSE
  /\ publisher = "none" /\ relay = "off" /\ todo = {}
  /\ subscribers = [t \in Target |-> None]
  /\ raw = [t \in Target |-> None]
  /\ listeners = [t \in Target |-> None]
  /\ conn = [c \in Conn |-> "unused"]
  /\ feedback = [c \in Conn |-> "off"]
  /\ deleted = {}

-----------------------------------------------------------------------------
(* The manager thread.                                                      *)

\* new cPeer and doJoin: the publisher is made and given to the processor.
doJoin ==
  /\ peer = "none"
  /\ peer' = "joined"
  /\ feedbackSink' = TRUE
  /\ publisher' = "live"
  /\ relay' = "idle"
  /\ UNCHANGED <<raw, listeners, deleted, manager, monitor, subscribers, todo, connVars>>

\* onSubscribed up to addSubscriber; a listener that is replaced is leaked.
onSubscribed(t) ==
  /\ peer = "joined"
  /\ manager = Idle
  /\ \E c \in Conn :
       /\ conn[c] = "unused"
       /\ \A d \in 1..(c - 1) : conn[d] # "unused"
       /\ conn' = [conn EXCEPT ![c] = "made"]
       /\ raw' = [raw EXCEPT ![t] = c]
       /\ listeners' = [listeners EXCEPT ![t] = c]
  /\ manager' = [Idle EXCEPT !.at = "add", !.target = t]
  /\ UNCHANGED <<peer, deleted, monitor, muxVars, pubVars, feedback>>

\* subscribers.erase: the destructor of the connection, if there is one, tells
\* its threads to end and waits for them in the step after this one.
Erased(t) ==
  LET c == subscribers[t] IN
    /\ conn' = IF c = None THEN conn ELSE [conn EXCEPT ![c] = "joining"]
    /\ UNCHANGED feedback

\* addSubscriber takes the monitor.
addSubscriber ==
  /\ manager.at = "add"
  /\ monitor = "free"
  /\ monitor' = "manager"
  /\ Erased(manager.target)
  /\ manager' = [manager EXCEPT !.at = "replace"]
  /\ UNCHANGED <<peerVars, muxVars, pubVars>>

\* The media thread of a connection that is being destroyed has ended.
Joined(c) == c # None => feedback[c] = "off"

\* The replaced connection is gone, the new one is in; the monitor is released.
Replaced ==
  LET t == manager.target
      c == subscribers[t]
  IN  /\ manager.at = "replace"
      /\ Joined(c)
      /\ conn' = IF c = None THEN conn ELSE [conn EXCEPT ![c] = "freed"]
      /\ subscribers' = [subscribers EXCEPT ![t] = raw[t]]
      /\ monitor' = "free"
      /\ manager' = [manager EXCEPT !.at = "offer"]
      /\ UNCHANGED <<peerVars, feedbackSink, pubVars, feedback>>

\* createOffer starts the transport and its threads.
createOffer ==
  LET c == raw[manager.target] IN
    /\ manager.at = "offer"
    /\ conn' = [conn EXCEPT ![c] = "live"]
    /\ feedback' = [feedback EXCEPT ![c] = "idle"]
    /\ manager' = Idle
    /\ UNCHANGED <<peerVars, monitor, muxVars, pubVars>>

onUnSubscribed(t) ==
  /\ peer = "joined"
  /\ manager = Idle
  /\ manager' = [Idle EXCEPT !.at = "remove", !.target = t]
  /\ UNCHANGED <<peerVars, monitor, muxVars, pubVars, connVars>>

removeSubscriber ==
  /\ manager.at = "remove"
  /\ monitor = "free"
  /\ monitor' = "manager"
  /\ Erased(manager.target)
  /\ manager' = [manager EXCEPT !.at = "join"]
  /\ UNCHANGED <<peerVars, muxVars, pubVars>>

Removed ==
  LET t == manager.target
      c == subscribers[t]
  IN  /\ manager.at = "join"
      /\ Joined(c)
      /\ conn' = IF c = None THEN conn ELSE [conn EXCEPT ![c] = "freed"]
      /\ subscribers' = [subscribers EXCEPT ![t] = None]
      /\ monitor' = "free"
      /\ manager' = [manager EXCEPT !.at = "delete"]
      /\ UNCHANGED <<peerVars, feedbackSink, pubVars, feedback>>

\* Mutant: the pointer stays when the connection it points to is gone.
RawWithout_Kept(t) == raw

RawWithout(t) == [raw EXCEPT ![t] = None]

\* Mutant: what eventListeners.find returned is deleted without a look at it.
ListenerOf_Unchecked(t) == {listeners[t]}

\* The listener that is deleted, if the target has one.
ListenerOf(t) == {listeners[t]} \ {None}

\* The pointer and the listener of the target are erased and the listener is
\* deleted; in ~cPeer the maps go with the peer.
DeleteListener ==
  LET t == manager.target IN
    /\ manager.at = "delete"
    /\ deleted' = deleted \cup ListenerOf(t)
    /\ raw' = RawWithout(t)
    /\ listeners' = [listeners EXCEPT ![t] = None]
    /\ manager' = IF peer = "leaving"
                  THEN [manager EXCEPT !.at = "leave", !.target = None]
                  ELSE Idle
    /\ UNCHANGED <<peer, monitor, muxVars, pubVars, connVars>>

\* Mutant: the subscribers are left to closeAll.
ListenersLeft_None == {}

\* What ~cPeer iterates over.
ListenersLeft == {t \in Target : listeners[t] # None}

\* ~cPeer.
DestroyPeer ==
  /\ peer = "joined"
  /\ manager = Idle
  /\ peer' = "leaving"
  /\ manager' = [Idle EXCEPT !.at = "leave", !.left = ListenersLeft]
  /\ UNCHANGED <<raw, listeners, deleted, monitor, muxVars, pubVars, connVars>>

RemoveNext ==
  /\ manager.at = "leave"
  /\ \E t \in manager.left :
       manager' = [at |-> "remove", target |-> t, left |-> manager.left \ {t}]
  /\ UNCHANGED <<peerVars, monitor, muxVars, pubVars, connVars>>

\* Mutant: closeAll takes the monitor before it lets go of the publisher.
closeAll_LockedFirst ==
  /\ manager.at = "leave" /\ manager.left = {}
  /\ monitor = "free"
  /\ monitor' = "manager"
  /\ feedbackSink' = FALSE
  /\ publisher' = "joining"
  /\ manager' = [manager EXCEPT !.at = "close"]
  /\ UNCHANGED <<peerVars, subscribers, relay, todo, connVars>>

\* delete muxer: closeAll drops the publisher without the monitor.
closeAll ==
  /\ manager.at = "leave" /\ manager.left = {}
  /\ feedbackSink' = FALSE
  /\ publisher' = "joining"
  /\ manager' = [manager EXCEPT !.at = "close"]
  /\ UNCHANGED <<peerVars, monitor, subscribers, relay, todo, connVars>>

PublisherJoined ==
  /\ manager.at = "close"
  /\ relay = "off"
  /\ publisher' = "freed"
  /\ manager' = [manager EXCEPT !.at = "clear"]
  /\ UNCHANGED <<peerVars, monitor, muxVars, relay, todo, connVars>>

\* What is left of the subscribers is told to end, and when it has, processor
\* and peer are gone (the monitor is free: the publisher's thread has ended).
ClearSubscribers ==
  /\ manager.at = "clear"
  /\ conn' = [c \in Conn |-> IF \E t \in Target : subscribers[t] = c THEN "joining" ELSE conn[c]]
  /\ IF \A t \in Target : Joined(subscribers[t])
     THEN peer' = "gone" /\ manager' = Idle
     ELSE UNCHANGED <<peer, manager>>
  /\ UNCHANGED <<raw, listeners, deleted, monitor, muxVars, pubVars, feedback>>

-----------------------------------------------------------------------------
(* The publisher's media thread.                                            *)

\* onTransportData hands a packet to deliverAudioData or deliverVideoData.
RelayPacket ==
  /\ relay = "idle"
  /\ publisher = "live"
  /\ relay' = "lock"
  /\ UNCHANGED <<peerVars, manager, monitor, muxVars, publisher, todo, connVars>>

RelayLock ==
  /\ relay = "lock"
  /\ monitor = "free"
  /\ monitor' = "publisher"
  /\ relay' = "deliver"
  /\ todo' = {t \in Target : subscribers[t] # None}
  /\ UNCHANGED <<peerVars, manager, muxVars, publisher, connVars>>

\* The packet goes to the send queue of one subscriber.
Deliver ==
  /\ relay = "deliver"
  /\ \E t \in todo : todo' = todo \ {t}
  /\ UNCHANGED <<peerVars, manager, monitor, muxVars, publisher, relay, connVars>>

RelayUnlock ==
  /\ relay = "deliver"
  /\ todo = {}
  /\ monitor' = "free"
  /\ relay' = "idle"
  /\ UNCHANGED <<peerVars, manager, muxVars, publisher, todo, connVars>>

\* getNiceDataLoop of the publisher ends.
RelayEnds ==
  /\ relay = "idle"
  /\ publisher = "joining"
  /\ relay' = "off"
  /\ UNCHANGED <<peerVars, manager, monitor, muxVars, publisher, todo, connVars>>

-----------------------------------------------------------------------------
(* A subscriber's media thread.                                             *)

\* deliverFeedback_ finds a sink; without one it returns.
FeedbackTest(c) ==
  /\ feedback[c] = "idle"
  /\ conn[c] = "live"
  /\ feedbackSink
  /\ feedback' = [feedback EXCEPT ![c] = "tested"]
  /\ UNCHANGED <<peerVars, manager, monitor, muxVars, pubVars, conn>>

\* The publisher's connection queues the feedback.
FeedbackDeliver(c) ==
  /\ feedback[c] = "tested"
  /\ feedback' = [feedback EXCEPT ![c] = "idle"]
  /\ UNCHANGED <<peerVars, manager, monitor, muxVars, pubVars, conn>>

FeedbackEnds(c) ==
  /\ feedback[c] = "idle"
  /\ conn[c] = "joining"
  /\ feedback' = [feedback EXCEPT ![c] = "off"]
  /\ UNCHANGED <<peerVars, manager, monitor, muxVars, pubVars, conn>>

-----------------------------------------------------------------------------

ManagerStep ==
  \/ addSubscriber \/ Replaced \/ createOffer
  \/ removeSubscriber \/ Removed \/ DeleteListener
  \/ RemoveNext \/ closeAll \/ PublisherJoined \/ ClearSubscribers

RelayStep == RelayLock \/ Deliver \/ RelayUnlock \/ RelayEnds

FeedbackStep(c) == FeedbackDeliver(c) \/ FeedbackEnds(c)

Next ==
  \/ doJoin \/ DestroyPeer \/ RelayPacket \/ ManagerStep \/ RelayStep
  \/ \E t \in Target : onSubscribed(t) \/ onUnSubscribed(t)
  \/ \E c \in Conn : FeedbackTest(c) \/ FeedbackStep(c)

\* Threads are scheduled; a mutex that is freed again and again is got in the
\* end (the relay waits for a packet between any two times it holds it).
Fairness ==
  /\ SF_vars(ManagerStep)
  /\ WF_vars(RelayStep)
  /\ \A c \in Conn : WF_vars(FeedbackStep(c))

Spec == Init /\ [][Next]_vars /\ Fairness

-----------------------------------------------------------------------------

\* No thread is about to use what is freed: a packet under way goes to live
\* subscribers only, feedback under way to a publisher that is still there,
\* and the listener of a connection outlives its threads.
NothingDangles ==
  /\ relay = "deliver" =>
       \A t \in todo : subscribers[t] # None /\ conn[subscribers[t]] \in {"made", "live"}
  /\ \A c \in Conn : feedback[c] = "tested" => publisher # "freed" /\ peer # "gone"
  /\ \A c \in deleted : conn[c] = "freed"

\* The three maps of a peer agree between two operations of the manager: the
\* pointer that offers and answers are given to, the connection that gets the
\* media and the listener are of the same subscription, and it is alive.
MapsAgree ==
  manager = Idle /\ peer = "joined" =>
    /\ subscribers = raw
    /\ listeners = raw
    /\ \A c \in Conn : conn[c] = "live" <=> \E t \in Target : raw[t] = c

\* Every operation of the manager ends although it joins media threads with
\* the monitor held that the relay needs, and a peer that leaves is gone.
OperationsEnd ==
  /\ manager.at # "idle" ~> manager.at = "idle"
  /\ peer = "leaving" ~> peer = "gone"
====
