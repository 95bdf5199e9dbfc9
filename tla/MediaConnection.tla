--------------------------- MODULE MediaConnection ---------------------------
(***************************************************************************)
(* One WebRtcConnection of the server with its transport: the bundle case,  *)
(* one DtlsTransport over one ICE component with rtcp-mux, trickle off.     *)
(* Five threads meet in it: its owner (the manager thread, which opens the  *)
(* connection and runs its destructor), sendLoop, the main loop of the ICE  *)
(* agent, getNiceDataLoop and the thread of the Resender.                   *)
(*                                                                         *)
(* Steps are split where the code reads something in one place and uses it *)
(* in another without a lock over both: the test and the set of iceState_,  *)
(* the assignment of state_ and the updateState it leads to, the test of    *)
(* the send queue and the wait, the cancel of the resend timer and the join *)
(* of its thread.  The calls of the event listener are recorded; what the   *)
(* listener does with them is in RoomThreads and ChannelManager.            *)
(***************************************************************************)
EXTENDS Naturals, Sequences

CONSTANTS
  MaxSend,     \* packets in sendQueue_ (1000 in the code)
  MaxNice,     \* packets in niceQueue_ (1000 in the code)
  MaxResends,  \* kMaxResends: resends of one flight before the timeout
  Width,       \* values of an unsigned int, which max_resends_ is
  MaxFlights   \* handshake flights this side sends

ASSUME MediaConnectionAssumption ==
  /\ {MaxSend, MaxNice, MaxResends, Width, MaxFlights} \subseteq Nat
  /\ MaxResends + 1 < Width
  /\ MaxFlights > 0

VARIABLES
  isServer,      \* the DTLS role: a subscriber is offered to and is the server
  \* WebRtcConnection
  owner,         \* how far the owner is with opening or destroying
  globalState,   \* globalState_
  hasListener,   \* connEventListener_ # NULL
  events,        \* the events updateState told the listener (history)
  sending,       \* sending_
  sendQueue,     \* number of packets in sendQueue_
  sender,        \* where sendLoop is; in "empty" it holds receiveVideoMutex_
  \* DtlsTransport and its Resender
  state,         \* state_
  running,       \* running_
  recv,          \* where getNiceDataLoop is
  report,        \* report[t]: the state t assigned and has yet to tell of
  flight,        \* flight[t]: how far t is in ScheduleResend
  started,       \* dtlsRtp->started
  flights,       \* flights sent, resends not counted
  completed,     \* mHandshakeCompleted
  timer,         \* the resend timer
  resends,       \* max_resends_
  resender,      \* where the thread of the Resender is
  stopped,       \* the io_service ran out of work once
  \* NiceConnection
  iceState,      \* iceState_
  raise,         \* the ICE state a callback is about to set
  niceListener,  \* listener_ # NULL
  spoiled,       \* a callback set iceState_ below what it was (history)
  main,          \* where the thread of the main loop is
  loop,          \* loop_ # NULL
  quit,          \* the running main loop was told to quit
  niceQueue,     \* niceQueue_
  cond           \* cond_: the event is set

ownVars == <<isServer, owner, hasListener>>
stateVars == <<globalState, events>>
sendVars == <<sending, sendQueue, sender>>
dtlsVars == <<started, flights, completed>>
resendVars == <<timer, resends, resender, stopped>>
iceVars == <<iceState, raise, niceListener, spoiled>>
loopVars == <<main, loop, quit>>
packetVars == <<niceQueue, cond>>
vars == <<ownVars, stateVars, sendVars, state, running, recv, report, flight,
          dtlsVars, resendVars, iceVars, loopVars, packetVars>>

\* The order of enum IceState.
INITIAL == 0
CANDIDATES_RECEIVED == 1
READY == 2
FINISHED == 3
FAILED == 4

MediaThread == {"nice", "recv", "resend"}

\* Stages of ~WebRtcConnection and of the destructors it runs.
Closing == {"joinSend", "closeTest", "closeSet", "closeQuit", "joinMain", "joinRecv",
            "members", "again", "cancel", "joinResender", "destroyNice"}

TypeOK ==
  /\ isServer \in BOOLEAN
  /\ owner \in {"made", "open", "gone", "crashed"} \cup Closing
  /\ globalState \in {"INITIAL", "GATHERED", "READY", "FINISHED", "FAILED"}
  /\ hasListener \in BOOLEAN
  /\ events \in Seq({"GATHERED", "READY", "FAILED"})
  /\ sending \in BOOLEAN
  /\ sendQueue \in 0..MaxSend
  /\ sender \in {"test", "empty", "waiting", "woken", "done"}
  /\ state \in {"INITIAL", "GATHERED", "READY", "FINISHED", "FAILED"}
  /\ running \in BOOLEAN
  /\ recv \in {"none", "test", "take", "wait", "done"}
  /\ report \in [MediaThread -> {"none", "GATHERED", "READY", "FAILED"}]
  /\ flight \in [{"nice", "recv"} -> {"none", "due", "join"}]
  /\ started \in BOOLEAN
  /\ flights \in 0..MaxFlights
  /\ completed \in BOOLEAN
  /\ timer \in {"off", "armed", "aborted"}
  /\ resends \in 0..(Width - 1)
  /\ resender \in {"none", "running", "handler", "failed", "done"}
  /\ stopped \in BOOLEAN
  /\ iceState \in INITIAL..FAILED
  /\ raise \in {CANDIDATES_RECEIVED, READY, FAILED}
  /\ niceListener \in BOOLEAN
  /\ spoiled \in BOOLEAN
  /\ main \in {"none", "start", "enter", "loop", "set", "tell", "done"}
  /\ loop \in BOOLEAN
  /\ quit \in BOOLEAN
  /\ niceQueue \in Seq({"dtls", "media"}) /\ Len(niceQueue) <= MaxNice
  /\ cond \in BOOLEAN

\* After the constructor and init(): sendLoop runs, there is no transport.
Init ==
  /\ isServer \in BOOLEAN
  /\ owner = "made"
  /\ globalState = "INITIAL" /\ hasListener = TRUE /\ events = <<>>
  /\ sending = TRUE /\ sendQueue = 0 /\ sender = "test"
  /\ state = "INITIAL" /\ running = FALSE /\ recv = "none"
  /\ report = [t \in MediaThread |-> "none"]
  /\ flight = [t \in {"nice", "recv"} |-> "none"]
  /\ started = FALSE /\ flights = 0 /\ completed = FALSE
  /\ timer = "off" /\ resends = MaxResends /\ resender = "none" /\ stopped = FALSE
  /\ iceState = INITIAL /\ raise = CANDIDATES_RECEIVED
  /\ niceListener = TRUE /\ spoiled = FALSE
  /\ main = "none" /\ loop = FALSE /\ quit = FALSE
  /\ niceQueue = <<>> /\ cond = FALSE

-----------------------------------------------------------------------------
(* The states of transport and connection.                                  *)

\* cond_.notify_one(), with or without receiveVideoMutex_.
notify_one == sender' = IF sender = "waiting" THEN "woken" ELSE sender

\* A media thread is free when it is not inside one of the calls below.
Free(t) == report[t] = "none" /\ (t # "resend" => flight[t] = "none")

\* Transport::updateTransportState up to its call of updateState.
updateTransportState(t, s) ==
  /\ state' = s
  /\ report' = IF state = s THEN report ELSE [report EXCEPT ![t] = s]

\* Mutant: a failed connection takes reports like any other.
AlreadyFailed_Never == FALSE

AlreadyFailed == globalState = "FAILED"

\* WebRtcConnection::updateState, under updateStateMutex_.
updateState(t) ==
  /\ report[t] # "none"
  /\ report' = [report EXCEPT ![t] = "none"]
  /\ IF AlreadyFailed
     THEN UNCHANGED <<stateVars, sending, sender>>
     ELSE /\ globalState' = report[t]
          /\ events' = IF globalState # report[t] /\ hasListener
                       THEN Append(events, report[t]) ELSE events
          /\ IF report[t] = "FAILED"
             THEN sending' = FALSE /\ notify_one
             ELSE UNCHANGED <<sending, sender>>
  /\ UNCHANGED <<ownVars, sendQueue, state, running, recv, flight, dtlsVars, resendVars,
                 iceVars, loopVars, packetVars>>

-----------------------------------------------------------------------------
(* The send queue.                                                          *)

\* Mutant: the packet is queued without receiveVideoMutex_.
MayQueue_Unlocked == sending

\* receiveVideoMutex_ is free and the connection still sends.
MayQueue == sender # "empty" /\ sending

\* Mutant: the limit of the queue is not looked at.
Pushed_Unbounded == sendQueue + 1

\* The queue after push, or after the packet is discarded.
Pushed == IF sendQueue < MaxSend THEN sendQueue + 1 ELSE sendQueue

\* queueData by any thread that has media or feedback for the remote end.
queueData ==
  /\ owner = "open"
  /\ MayQueue
  /\ sendQueue' = Pushed
  /\ notify_one
  /\ UNCHANGED <<ownVars, stateVars, sending, state, running, recv, report, flight,
                 dtlsVars, resendVars, iceVars, loopVars, packetVars>>

\* sendLoop with the mutex: pop and write a packet, or find the queue empty.
\* (sending_ going FALSE before the lock is like its going FALSE after it.)
TakePacket ==
  IF sendQueue > 0
  THEN sendQueue' = sendQueue - 1 /\ sender' = "test"
  ELSE sender' = "empty" /\ UNCHANGED sendQueue

SendStep ==
  /\ \/ sender \in {"test", "woken"} /\ sending /\ TakePacket
     \/ /\ sender \in {"test", "woken"} /\ ~sending
        /\ sender' = "done" /\ UNCHANGED sendQueue
     \/ sender = "empty" /\ sender' = "waiting" /\ UNCHANGED sendQueue
  /\ UNCHANGED <<ownVars, stateVars, sending, state, running, recv, report, flight,
                 dtlsVars, resendVars, iceVars, loopVars, packetVars>>

-----------------------------------------------------------------------------
(* The Resender.                                                            *)

\* timer.cancel(): a handler that is already due is not taken back.
Cancelled == IF timer = "armed" THEN "aborted" ELSE timer

\* ScheduleResend: cancel and write the flight.
ScheduleResend(t) ==
  /\ flight[t] = "due"
  /\ report[t] = "none"
  /\ timer' = Cancelled
  /\ flight' = [flight EXCEPT ![t] = "join"]
  /\ UNCHANGED <<ownVars, stateVars, sendVars, state, running, recv, report, dtlsVars,
                 resends, resender, stopped, iceVars, loopVars, packetVars>>

\* Mutant: the service is reset before the thread is started.
Run_Reset == "running"

\* service.run() in a new thread returns at once if the service is stopped.
Run == IF stopped THEN "done" ELSE "running"

\* Once the old thread is joined: arm the timer and start a thread.
StartResender(t) ==
  /\ flight[t] = "join"
  /\ resender \in {"none", "done"}
  /\ timer' = "armed"
  /\ resender' = Run
  /\ flight' = [flight EXCEPT ![t] = "none"]
  /\ UNCHANGED <<ownVars, stateVars, sendVars, state, running, recv, report, dtlsVars,
                 resends, stopped, iceVars, loopVars, packetVars>>

\* The timer expires in service.run(): the handler is due and cannot be
\* cancelled any more.
TimerExpires ==
  /\ resender = "running"
  /\ timer = "armed"
  /\ timer' = "off"
  /\ resender' = "handler"
  /\ UNCHANGED <<ownVars, stateVars, sendVars, state, running, recv, report, flight,
                 dtlsVars, resends, stopped, iceVars, loopVars, packetVars>>

\* Resender::Resend with operation_aborted returns, and run() has no work left.
ResendAborted ==
  /\ resender = "running"
  /\ timer = "aborted"
  /\ timer' = "off"
  /\ resender' = "done"
  /\ stopped' = TRUE
  /\ UNCHANGED <<ownVars, stateVars, sendVars, state, running, recv, report, flight,
                 dtlsVars, resends, iceVars, loopVars, packetVars>>

\* Resender::Resend: write the flight again, or give the handshake up.
Resend ==
  /\ resender = "handler"
  /\ resends' = (resends + Width - 1) % Width
  /\ IF resends > 0
     THEN /\ timer' = "armed"
          /\ resender' = "running"
          /\ UNCHANGED <<running, state, report>>
     ELSE /\ resender' = "failed"
          /\ running' = FALSE
          /\ updateTransportState("resend", "FAILED")
          /\ UNCHANGED timer
  /\ UNCHANGED <<ownVars, stateVars, sendVars, recv, flight, dtlsVars, stopped, iceVars,
                 loopVars, packetVars>>

\* The handler that gave up returns and run() finds no work.
ResenderEnds ==
  /\ resender = "failed"
  /\ report["resend"] = "none"
  /\ resender' = "done"
  /\ stopped' = TRUE
  /\ UNCHANGED <<ownVars, stateVars, sendVars, state, running, recv, report, flight,
                 dtlsVars, timer, resends, iceVars, loopVars, packetVars>>

-----------------------------------------------------------------------------
(* The ICE agent's thread.                                                  *)

\* mainLoop reads loop_.
MainStart ==
  /\ main = "start"
  /\ main' = IF loop THEN "enter" ELSE "done"
  /\ UNCHANGED <<ownVars, stateVars, sendVars, state, running, recv, report, flight,
                 dtlsVars, resendVars, iceVars, loop, quit, packetVars>>

\* g_main_loop_run marks the loop as running; on a loop that was freed after
\* it was read it may run or return.
MainRun ==
  /\ main = "enter"
  /\ main' \in IF loop THEN {"loop"} ELSE {"loop", "done"}
  /\ UNCHANGED <<ownVars, stateVars, sendVars, state, running, recv, report, flight,
                 dtlsVars, resendVars, iceVars, loop, quit, packetVars>>

MainQuit ==
  /\ main = "loop"
  /\ quit
  /\ Free("nice")
  /\ main' = "done"
  /\ UNCHANGED <<ownVars, stateVars, sendVars, state, running, recv, report, flight,
                 dtlsVars, resendVars, iceVars, loop, quit, packetVars>>

\* What updateComponentState passes on.  The agent has no pair and no failure
\* to report before it has gathered.  A failure also needs the last candidate
\* to have come; setReceivedLastCandidate does nothing else, so that when it
\* came is left to the choice of the failure.
updateComponentState(s) == s > CANDIDATES_RECEIVED => iceState # INITIAL

\* A callback (gatheringDone, a selected pair, a failed component) passes the
\* test of NiceConnection::updateIceState.
IceTest(s) ==
  /\ main = "loop"
  /\ Free("nice")
  /\ updateComponentState(s)
  /\ s > iceState
  /\ raise' = s
  /\ main' = "set"
  /\ UNCHANGED <<ownVars, stateVars, sendVars, state, running, recv, report, flight,
                 dtlsVars, resendVars, iceState, niceListener, spoiled, loop,
                 quit, packetVars>>

IceSet ==
  /\ main = "set"
  /\ iceState' = raise
  /\ spoiled' = (spoiled \/ raise < iceState)
  /\ main' = "tell"
  /\ UNCHANGED <<ownVars, stateVars, sendVars, state, running, recv, report, flight,
                 dtlsVars, resendVars, raise, niceListener, loop, quit,
                 packetVars>>

\* DtlsTransport::updateIceState, if the listener is still there.
updateIceState ==
  /\ main = "tell"
  /\ main' = "loop"
  /\ IF ~niceListener
     THEN UNCHANGED <<running, state, report, started, flight, flights>>
     ELSE CASE raise = CANDIDATES_RECEIVED ->
                 /\ updateTransportState("nice", "GATHERED")
                 /\ UNCHANGED <<running, started, flight, flights>>
            [] raise = FAILED ->
                 /\ running' = FALSE
                 /\ updateTransportState("nice", "FAILED")
                 /\ UNCHANGED <<started, flight, flights>>
            [] raise = READY /\ ~isServer /\ ~started ->
                 /\ started' = TRUE
                 /\ flight' = [flight EXCEPT !["nice"] = "due"]
                 /\ flights' = 1
                 /\ UNCHANGED <<running, state, report>>
            [] OTHER -> UNCHANGED <<running, state, report, started, flight, flights>>
  /\ UNCHANGED <<ownVars, stateVars, sendVars, recv, completed, resendVars, iceVars, loop,
                 quit, packetVars>>

\* cb_nice_recv.  The remote end of an active client speaks when spoken to.
NiceData(p) ==
  /\ main = "loop"
  /\ Free("nice")
  /\ iceState = READY
  /\ p = "dtls" => isServer \/ started
  /\ Len(niceQueue) < MaxNice
  /\ niceQueue' = Append(niceQueue, p)
  /\ cond' = TRUE
  /\ UNCHANGED <<ownVars, stateVars, sendVars, state, running, recv, report, flight,
                 dtlsVars, resendVars, iceVars, loopVars>>

-----------------------------------------------------------------------------
(* getNiceDataLoop.                                                         *)

RecvTest ==
  /\ recv = "test"
  /\ Free("recv")
  /\ recv' = IF running THEN "take" ELSE "done"
  /\ UNCHANGED <<ownVars, stateVars, sendVars, state, running, report, flight, dtlsVars,
                 resendVars, iceVars, loopVars, packetVars>>

\* getPacket finds niceQueue_ empty.
RecvEmpty ==
  /\ recv = "take"
  /\ niceQueue = <<>>
  /\ recv' = "wait"
  /\ UNCHANGED <<ownVars, stateVars, sendVars, state, running, report, flight, dtlsVars,
                 resendVars, iceVars, loopVars, packetVars>>

\* Mutant: only a failed connection counts as finished.
NiceFinished_Failed == iceState > FINISHED

NiceFinished == iceState >= FINISHED

\* The event is set: getPacket returns the packet of length -1 in a finished
\* connection, which ends the loop, or looks at the queue again.
RecvWoken ==
  /\ recv = "wait"
  /\ cond
  /\ cond' = FALSE
  /\ IF NiceFinished
     THEN recv' = "done" /\ running' = FALSE
     ELSE recv' = "take" /\ UNCHANGED running
  /\ UNCHANGED <<ownVars, stateVars, sendVars, state, report, flight, dtlsVars, resendVars,
                 iceVars, loopVars, niceQueue>>

PopPacket(p) ==
  /\ recv = "take"
  /\ niceQueue # <<>>
  /\ Head(niceQueue) = p
  /\ niceQueue' = Tail(niceQueue)
  /\ recv' = "test"

\* onNiceData with media: the sinks get it if state_ is READY.
RecvMedia ==
  /\ PopPacket("media")
  /\ UNCHANGED <<ownVars, stateVars, sendVars, state, running, report, flight, dtlsVars,
                 resendVars, iceVars, loopVars, cond>>

\* onHandshakeCompleted: the keys are good, or setRtpParams refuses them.
onHandshakeCompleted ==
  /\ flights > 0
  /\ completed' = TRUE
  /\ \E s \in {"READY", "FAILED"} : updateTransportState("recv", s)
  /\ UNCHANGED running

onHandshakeFailed ==
  /\ running' = FALSE
  /\ updateTransportState("recv", "FAILED")
  /\ UNCHANGED completed

\* doHandshakeIteration on a packet, under handshakeMutex_, which start() holds
\* as long as it is in ScheduleResend: the outcome of SSL_do_handshake, then a
\* flight if it wrote one (the server's last flight goes out after completion).
RecvDtls ==
  /\ PopPacket("dtls")
  /\ flight["nice"] = "none"
  /\ timer' = Cancelled
  /\ IF completed
     THEN UNCHANGED <<running, state, report, flight, flights, completed>>
     ELSE \E wrote \in BOOLEAN :
            /\ \/ onHandshakeCompleted /\ wrote = isServer
               \/ onHandshakeFailed
               \/ UNCHANGED <<running, state, report, completed>>
            /\ wrote => flights < MaxFlights
            /\ flights' = IF wrote THEN flights + 1 ELSE flights
            /\ flight' = IF wrote THEN [flight EXCEPT !["recv"] = "due"] ELSE flight
  /\ UNCHANGED <<ownVars, stateVars, sendVars, started, resends, resender, stopped, iceVars,
                 loopVars, cond>>

-----------------------------------------------------------------------------
(* The owner.                                                               *)

\* createOffer or the first setRemoteSdp: new DtlsTransport, nice_->start().
Open ==
  /\ owner = "made"
  /\ owner' = "open"
  /\ running' = TRUE
  /\ recv' = "test"
  /\ main' = "start"
  /\ loop' = TRUE
  /\ UNCHANGED <<isServer, hasListener, stateVars, sendVars, state, report, flight,
                 dtlsVars, resendVars, iceVars, quit, packetVars>>

\* ~WebRtcConnection begins; the mutex is not taken.
Destroy ==
  /\ owner \in {"made", "open"}
  /\ owner' = "joinSend"
  /\ sending' = FALSE
  /\ notify_one
  /\ UNCHANGED <<isServer, hasListener, stateVars, sendQueue, state, running, recv, report,
                 flight, dtlsVars, resendVars, iceVars, loopVars, packetVars>>

\* send_Thread_.join(), then videoTransport_->close() if there is a transport.
JoinSend ==
  /\ owner = "joinSend"
  /\ sender = "done"
  /\ IF recv = "none"
     THEN /\ owner' = "gone"
          /\ globalState' = "FINISHED"
          /\ hasListener' = FALSE
          /\ UNCHANGED <<running, niceListener>>
     ELSE /\ owner' = "closeTest"
          /\ running' = FALSE
          /\ niceListener' = FALSE
          /\ UNCHANGED <<globalState, hasListener>>
  /\ UNCHANGED <<isServer, events, sendVars, state, recv, report, flight, dtlsVars,
                 resendVars, iceState, raise, spoiled, loopVars, packetVars>>

\* NiceConnection::close tests for FINISHED, and updateIceState tests again.
CloseTest ==
  /\ owner = "closeTest"
  /\ owner' = CASE iceState = FINISHED -> "joinRecv"
                [] iceState > FINISHED -> "closeQuit"
                [] OTHER -> "closeSet"
  /\ state' = IF iceState = FINISHED THEN "FINISHED" ELSE state
  /\ UNCHANGED <<isServer, hasListener, stateVars, sendVars, running, recv, report, flight,
                 dtlsVars, resendVars, iceVars, loopVars, packetVars>>

CloseSet ==
  /\ owner = "closeSet"
  /\ owner' = "closeQuit"
  /\ iceState' = FINISHED
  /\ UNCHANGED <<isServer, hasListener, stateVars, sendVars, state, running, recv, report,
                 flight, dtlsVars, resendVars, raise, niceListener, spoiled,
                 loopVars, packetVars>>

\* g_main_loop_quit does nothing to a loop that has not begun to run.
CloseQuit ==
  /\ owner = "closeQuit"
  /\ owner' = "joinMain"
  /\ quit' = (main \in {"loop", "set", "tell"})
  /\ loop' = FALSE
  /\ cond' = TRUE
  /\ UNCHANGED <<isServer, hasListener, stateVars, sendVars, state, running, recv, report,
                 flight, dtlsVars, resendVars, iceVars, main, niceQueue>>

\* m_Thread_.join(), the agent is freed, state_ = TRANSPORT_FINISHED.
JoinMain ==
  /\ owner = "joinMain"
  /\ main = "done"
  /\ owner' = "joinRecv"
  /\ state' = "FINISHED"
  /\ UNCHANGED <<isServer, hasListener, stateVars, sendVars, running, recv, report, flight,
                 dtlsVars, resendVars, iceVars, loopVars, packetVars>>

\* Mutant: close() does not wait for getNiceDataLoop.
RecvJoined_Never == TRUE

\* getNice_Thread_.join() returns.
RecvJoined == recv = "done"

\* The transport is closed; the destructor's body ends.
JoinRecv ==
  /\ owner = "joinRecv"
  /\ RecvJoined
  /\ owner' = "members"
  /\ globalState' = "FINISHED"
  /\ hasListener' = FALSE
  /\ UNCHANGED <<isServer, events, sendVars, state, running, recv, report, flight, dtlsVars,
                 resendVars, iceVars, loopVars, packetVars>>

\* The members are destroyed, the mutexes before the transport; ~DtlsTransport
\* closes again if state_ was changed after close() set it.
DestroyMembers ==
  /\ owner = "members"
  /\ owner' = IF state # "FINISHED" THEN "again" ELSE "cancel"
  /\ UNCHANGED <<isServer, hasListener, stateVars, sendVars, state, running, recv, report,
                 flight, dtlsVars, resendVars, iceVars, loopVars, packetVars>>

\* NiceConnection::close once more: in a finished connection it returns, else
\* it joins a thread that was joined and std::thread throws.
CloseAgain(next) ==
  /\ owner' = IF iceState = FINISHED THEN next ELSE "crashed"
  /\ UNCHANGED <<isServer, hasListener, stateVars, sendVars, state, running, recv, report,
                 flight, dtlsVars, resendVars, iceVars, loopVars, packetVars>>

\* ~Resender.
CancelResender ==
  /\ owner = "cancel"
  /\ owner' = "joinResender"
  /\ timer' = Cancelled
  /\ UNCHANGED <<isServer, hasListener, stateVars, sendVars, state, running, recv, report,
                 flight, dtlsVars, resends, resender, stopped, iceVars, loopVars, packetVars>>

JoinResender ==
  /\ owner = "joinResender"
  /\ resender \in {"none", "done"}
  /\ owner' = "destroyNice"
  /\ UNCHANGED <<isServer, hasListener, stateVars, sendVars, state, running, recv, report,
                 flight, dtlsVars, resendVars, iceVars, loopVars, packetVars>>

OwnerStep ==
  \/ JoinSend \/ CloseTest \/ CloseSet \/ CloseQuit \/ JoinMain \/ JoinRecv
  \/ DestroyMembers \/ CancelResender \/ JoinResender
  \/ owner = "again" /\ CloseAgain("cancel")
  \/ owner = "destroyNice" /\ CloseAgain("gone")

-----------------------------------------------------------------------------

NiceStep ==
  \/ MainStart \/ MainRun \/ MainQuit \/ IceSet \/ updateIceState
  \/ updateState("nice") \/ ScheduleResend("nice") \/ StartResender("nice")

RecvStep ==
  \/ RecvTest \/ RecvEmpty \/ RecvWoken \/ RecvMedia \/ RecvDtls
  \/ updateState("recv") \/ ScheduleResend("recv") \/ StartResender("recv")

ResendStep ==
  \/ TimerExpires \/ ResendAborted \/ Resend \/ ResenderEnds \/ updateState("resend")

\* What the remote end, the network and the room do.
Environment ==
  \/ Open \/ Destroy
  \/ queueData
  \/ \E s \in {CANDIDATES_RECEIVED, READY, FAILED} : IceTest(s)
  \/ \E p \in {"dtls", "media"} : NiceData(p)

\* A process that crashed takes no step.
Next ==
  /\ owner # "crashed"
  /\ SendStep \/ NiceStep \/ RecvStep \/ ResendStep \/ OwnerStep \/ Environment

\* Every thread is scheduled, the timer expires; nobody else has to act.
Fairness ==
  /\ WF_vars(owner # "crashed" /\ SendStep)
  /\ WF_vars(owner # "crashed" /\ NiceStep)
  /\ WF_vars(owner # "crashed" /\ RecvStep)
  /\ WF_vars(owner # "crashed" /\ ResendStep)
  /\ WF_vars(owner # "crashed" /\ OwnerStep)

Spec == Init /\ [][Next]_vars /\ Fairness

-----------------------------------------------------------------------------

Rank(e) == CASE e = "GATHERED" -> 1 [] e = "READY" -> 2 [] e = "FAILED" -> 3

\* The listener hears GATHERED, READY and FAILED from updateState in this
\* order and each at most once, whichever threads report them and however
\* late; READY is never the first event.
EventsInOrder ==
  /\ \A i, j \in 1..Len(events) : i < j => Rank(events[i]) < Rank(events[j])
  /\ events # <<>> => events[1] # "READY"

\* max_resends_ wraps around when the timeout finds it zero: from then on no
\* thread dispatches the timer, so the handshake given up is never resent.
NoResendAfterTimeout ==
  resends > MaxResends => resender \notin {"running", "handler"}

\* When the mutexes of the connection are destroyed, no thread but the
\* Resender's is left that could use them, and in the end not that one either.
ThreadsAreJoined ==
  /\ owner \in {"members", "again", "cancel", "joinResender", "destroyNice", "gone"}
       => sender = "done" /\ main \in {"none", "done"} /\ recv \in {"none", "done"}
  /\ owner \in {"destroyNice", "gone"} => resender \in {"none", "done"}

\* Each queue is served in order again and again: while packets wait, one is
\* taken, so every queued packet is sent unless the connection fails or is
\* destroyed, and every received one is taken unless the receive loop ends.
\* Neither the condition variable nor the auto-reset event, which is set once for
\* several packets, loses a wakeup for good.
QueuesAreServed ==
  /\ []<>(sendQueue = 0 \/ ~sending) \/ []<><<sendQueue' < sendQueue>>_sendQueue
  /\ \/ []<>(niceQueue = <<>> \/ recv = "done")
     \/ []<><<Len(niceQueue') < Len(niceQueue)>>_niceQueue

\* The three ways in which a join of the destructor waits forever.
SendMissed == owner = "joinSend" /\ sender = "waiting"
QuitMissed == owner = "joinMain" /\ main = "loop" /\ ~quit
IceSpoiled == owner = "joinRecv" /\ recv = "wait" /\ ~cond /\ spoiled

\* The destructor ends, or the process ends in a second join, except for the
\* notification that sendLoop misses, the quit that comes before the loop runs
\* and the FINISHED that a callback overwrites: nothing else blocks it, the
\* joins of the Resender's thread in the middle of a handshake included.  (No
\* stage of it is entered twice: it is not left but to be gone or crashed.)
DestructionEnds ==
  []<>(owner \notin Closing \/ SendMissed \/ QuitMissed \/ IceSpoiled)
====
