----------------------- MODULE MediaConnection_proofs -----------------------
(* Proofs about MediaConnection for every size of its queues, every number  *)
(* of resends and every width of the counter.                               *)
EXTENDS MediaConnection, SequenceTheorems, TLAPS

(***************************************************************************)
(* The inductive invariant.                                                *)
(***************************************************************************)

\* The two halves of the type invariant.
Flags ==
  /\ isServer \in BOOLEAN /\ hasListener \in BOOLEAN /\ sending \in BOOLEAN
  /\ running \in BOOLEAN /\ started \in BOOLEAN /\ completed \in BOOLEAN
  /\ stopped \in BOOLEAN /\ niceListener \in BOOLEAN /\ spoiled \in BOOLEAN
  /\ loop \in BOOLEAN /\ quit \in BOOLEAN /\ cond \in BOOLEAN

Values ==
  /\ owner \in {"made", "open", "gone", "crashed"} \cup Closing
  /\ globalState \in {"INITIAL", "GATHERED", "READY", "FINISHED", "FAILED"}
  /\ events \in Seq({"GATHERED", "READY", "FAILED"})
  /\ sendQueue \in 0..MaxSend
  /\ sender \in {"test", "empty", "waiting", "woken", "done"}
  /\ state \in {"INITIAL", "GATHERED", "READY", "FINISHED", "FAILED"}
  /\ recv \in {"none", "test", "take", "wait", "done"}
  /\ report \in [MediaThread -> {"none", "GATHERED", "READY", "FAILED"}]
  /\ flight \in [{"nice", "recv"} -> {"none", "due", "join"}]
  /\ flights \in 0..MaxFlights
  /\ timer \in {"off", "armed", "aborted"}
  /\ resends \in 0..(Width - 1)
  /\ resender \in {"none", "running", "handler", "failed", "done"}
  /\ iceState \in INITIAL..FAILED
  /\ raise \in {CANDIDATES_RECEIVED, READY, FAILED}
  /\ main \in {"none", "start", "enter", "loop", "set", "tell", "done"}
  /\ niceQueue \in Seq({"dtls", "media"}) /\ Len(niceQueue) <= MaxNice

LEMMA TypeParts == TypeOK <=> Flags /\ Values
  BY DEF TypeOK, Flags, Values

\* The stages of the destructor after the threads of the connection are joined.
Late == {"members", "again", "cancel", "joinResender", "destroyNice"}

\* What the joins of the owner leave behind.
Joins ==
  /\ owner \notin {"made", "open", "joinSend", "crashed"} => sender = "done"
  /\ owner \in {"joinRecv", "crashed"} \cup Late => main = "done"
  /\ owner \in {"crashed"} \cup Late => recv = "done"
  /\ owner = "gone" => main \in {"none", "done"} /\ recv \in {"none", "done"}
  /\ owner \in {"destroyNice", "gone"} => resender \in {"none", "done"}
  /\ owner \in {"made", "open", "joinSend", "closeTest", "closeSet"} => iceState # FINISHED
  /\ hasListener => owner \notin {"gone", "crashed"} \cup Late
  /\ owner \in {"made", "open", "joinSend", "closeTest", "closeSet", "closeQuit",
                "joinMain", "joinRecv"} => hasListener
  /\ niceListener => owner \in {"made", "open", "joinSend", "gone"}
  /\ owner \in {"made", "open", "joinSend"} => niceListener
  /\ ~niceListener => ~running

\* A thread is where it is while it reports a state or sends a flight.
Inside ==
  /\ flight["nice"] # "none" \/ report["nice"] # "none" => main = "loop"
  /\ flight["recv"] # "none" \/ report["recv"] # "none" => recv = "test"
  /\ report["resend"] # "none" => resender = "failed"
  /\ main = "tell" \/ (main = "set" /\ raise # CANDIDATES_RECEIVED) => iceState # INITIAL
  /\ report["nice"] = "GATHERED" => iceState # INITIAL
  /\ recv = "none" <=> main = "none"
  /\ recv = "none" => resender = "none" /\ niceQueue = <<>> /\ iceState = INITIAL
  /\ owner = "made" => recv = "none"
  /\ recv = "none" => owner \in {"made", "joinSend", "gone"}

\* The counter wraps once, and then the io_service is stopped or about to be.
Resends ==
  resends > MaxResends => resender = "failed" \/ (resender = "done" /\ stopped)

\* The end of gathering has not been told yet.
Gathering ==
  \/ iceState = INITIAL
  \/ main \in {"set", "tell"} /\ raise = CANDIDATES_RECEIVED
  \/ report["nice"] = "GATHERED"

\* Nothing is received, sent or reported before the end of gathering is told.
Quiet ==
  /\ Gathering =>
       /\ niceQueue = <<>> /\ flights = 0 /\ resender = "none"
       /\ flight = [t \in {"nice", "recv"} |-> "none"]
       /\ report["recv"] = "none" /\ report["resend"] = "none"
       /\ report["nice"] \in {"none", "GATHERED"}
       /\ globalState \in {"INITIAL", "FINISHED"}
       /\ report["nice"] = "none" => state # "GATHERED"
  /\ niceListener /\ ~Gathering => globalState # "INITIAL"

\* READY is reported by the receive thread only and GATHERED by the ICE thread,
\* and a connection that sent a flight has gathered, or is being closed.
Reports ==
  /\ report["nice"] # "READY" /\ report["resend"] \in {"none", "FAILED"}
  /\ report["recv"] # "GATHERED"
  /\ report["recv"] = "READY" => globalState # "INITIAL"
  /\ flights > 0 => globalState # "INITIAL" \/ (~running /\ recv \in {"test", "done"})

\* What the listener has heard.
Histories == {<<>>, <<"GATHERED">>, <<"GATHERED", "READY">>, <<"FAILED">>,
              <<"GATHERED", "FAILED">>, <<"GATHERED", "READY", "FAILED">>}

Heard ==
  /\ events \in Histories
  /\ globalState = "INITIAL" => events = <<>>
  /\ globalState = "GATHERED" => events = <<"GATHERED">>
  /\ globalState = "READY" => events = <<"GATHERED", "READY">>
  /\ globalState = "FINISHED" => ~hasListener

IInv == TypeOK /\ Joins /\ Inside /\ Resends /\ Quiet /\ Reports /\ Heard

LEMMA InitHolds == Init => IInv
  <1> SUFFICES ASSUME Init PROVE IInv
    OBVIOUS
  <1> USE MediaConnectionAssumption
      DEF Init, INITIAL, CANDIDATES_RECEIVED, READY, FINISHED, FAILED
  <1>1. /\ <<>> \in Seq({"GATHERED", "READY", "FAILED"})
        /\ <<>> \in Seq({"dtls", "media"}) /\ Len(<<>>) = 0
    BY EmptySeq
  <1>2. Flags
    BY DEF Flags
  <1>3. Values
    BY <1>1 DEF Values, MediaThread
  <1>4. Joins /\ Inside /\ Resends
    BY DEF Joins, Inside, Resends, Late, MediaThread
  <1>5. Quiet /\ Reports /\ Heard
    BY DEF Quiet, Gathering, Reports, Heard, Histories, MediaThread
  <1> QED BY <1>2, <1>3, <1>4, <1>5, TypeParts DEF IInv

\* The counter of resends counts down, and wraps at zero.
LEMMA Countdown ==
  ASSUME NEW r \in 0..(Width - 1)
  PROVE  /\ r > 0 => (r + Width - 1) % Width = r - 1
         /\ r = 0 => (r + Width - 1) % Width = Width - 1
  <1>1. Width \in Nat /\ Width > 0 /\ r \in Nat /\ r < Width
    BY MediaConnectionAssumption
  <1>2. CASE r > 0
    <2>1. r + Width - 1 = 1 * Width + (r - 1) /\ r - 1 \in 0..(Width - 1)
      BY <1>1, <1>2
    <2> QED BY <1>1, <1>2, <2>1
  <1>3. CASE r = 0
    BY <1>1, <1>3
  <1> QED BY <1>1, <1>2, <1>3

\* DtlsTransport::updateIceState does nothing, reports the end of gathering or a
\* failure, or sends the first flight of a client.
IceNothing ==
  /\ ~niceListener \/ raise = READY
  /\ UNCHANGED <<running, state, report, started, flight, flights>>

IceGathered ==
  /\ niceListener /\ raise = CANDIDATES_RECEIVED
  /\ updateTransportState("nice", "GATHERED")
  /\ UNCHANGED <<running, started, flight, flights>>

IceFailed ==
  /\ niceListener /\ raise = FAILED
  /\ running' = FALSE
  /\ updateTransportState("nice", "FAILED")
  /\ UNCHANGED <<started, flight, flights>>

IceReady ==
  /\ niceListener /\ raise = READY
  /\ started' = TRUE
  /\ flight' = [flight EXCEPT !["nice"] = "due"]
  /\ flights' = 1
  /\ UNCHANGED <<running, state, report>>

LEMMA IceEffect ==
  ASSUME IInv, updateIceState
  PROVE  /\ IceNothing \/ IceGathered \/ IceFailed \/ IceReady
         /\ main = "tell" /\ main' = "loop"
         /\ UNCHANGED <<ownVars, stateVars, sendVars, recv, completed, resendVars, iceVars,
                        loop, quit, packetVars>>
  <1>1. raise \in {CANDIDATES_RECEIVED, READY, FAILED}
    BY DEF IInv, TypeOK
  <1>2. CANDIDATES_RECEIVED # READY /\ READY # FAILED /\ CANDIDATES_RECEIVED # FAILED
    BY DEF CANDIDATES_RECEIVED, READY, FAILED
  <1>3. CASE ~niceListener
    BY <1>3 DEF updateIceState, IceNothing
  <1>4. CASE niceListener /\ raise = CANDIDATES_RECEIVED
    BY <1>2, <1>4 DEF updateIceState, IceGathered
  <1>5. CASE niceListener /\ raise = FAILED
    BY <1>2, <1>5 DEF updateIceState, IceFailed
  <1>6. CASE niceListener /\ raise = READY /\ ~isServer /\ ~started
    BY <1>2, <1>6 DEF updateIceState, IceReady
  <1>7. CASE niceListener /\ raise = READY /\ ~(~isServer /\ ~started)
    BY <1>2, <1>7 DEF updateIceState, IceNothing
  <1> QED BY <1>1, <1>3, <1>4, <1>5, <1>6, <1>7

\* A thread reports a state that is new to it, and only then.
LEMMA ReportEffect ==
  ASSUME TypeOK, NEW t \in MediaThread, NEW s \in {"GATHERED", "READY", "FAILED"},
         updateTransportState(t, s)
  PROVE  /\ state' = s
         /\ report' \in [MediaThread -> {"none", "GATHERED", "READY", "FAILED"}]
         /\ report'[t] = IF state = s THEN report[t] ELSE s
         /\ \A u \in MediaThread : u # t => report'[u] = report[u]
  BY DEF TypeOK, updateTransportState

\* WebRtcConnection::updateState ignores a report after a failure, else takes it.
LEMMA UpdateEffect ==
  ASSUME IInv, NEW t \in MediaThread, updateState(t)
  PROVE  /\ report[t] \in {"GATHERED", "READY", "FAILED"}
         /\ report' \in [MediaThread -> {"none", "GATHERED", "READY", "FAILED"}]
         /\ report'[t] = "none"
         /\ \A u \in MediaThread : u # t => report'[u] = report[u]
         /\ \/ /\ globalState = "FAILED"
               /\ UNCHANGED <<globalState, events, sending, sender>>
            \/ /\ globalState # "FAILED" /\ globalState' = report[t]
               /\ events' = IF globalState # report[t] /\ hasListener
                            THEN Append(events, report[t]) ELSE events
               /\ sender' = sender \/ (sender = "waiting" /\ sender' = "woken")
         /\ UNCHANGED <<ownVars, sendQueue, state, running, recv, flight, dtlsVars,
                        resendVars, iceVars, loopVars, packetVars>>
  <1>1. /\ report[t] \in {"GATHERED", "READY", "FAILED"}
        /\ report' \in [MediaThread -> {"none", "GATHERED", "READY", "FAILED"}]
        /\ report'[t] = "none"
        /\ \A u \in MediaThread : u # t => report'[u] = report[u]
    BY DEF updateState, IInv, TypeOK
  <1>2. UNCHANGED <<ownVars, sendQueue, state, running, recv, flight, dtlsVars,
                    resendVars, iceVars, loopVars, packetVars>>
    BY DEF updateState
  <1>3. CASE AlreadyFailed
    BY <1>1, <1>2, <1>3 DEF updateState, AlreadyFailed, stateVars
  <1>4. CASE ~AlreadyFailed
    BY <1>1, <1>2, <1>4 DEF updateState, AlreadyFailed, notify_one
  <1> QED BY <1>3, <1>4

\* The step of updateIceState keeps the quiet before the end of gathering.
LEMMA QuietIce == ASSUME IInv, updateIceState PROVE Quiet'
  <1> USE DEF MediaThread
  <1>1. /\ report \in [MediaThread -> {"none", "GATHERED", "READY", "FAILED"}]
        /\ report["nice"] = "none" /\ iceState # INITIAL /\ main = "tell" /\ TypeOK
    BY IceEffect DEF IInv, TypeOK, Inside
  <1>2. /\ UNCHANGED <<globalState, resender, iceState, raise, niceListener, niceQueue>>
        /\ main' = "loop"
    BY IceEffect DEF stateVars, resendVars, iceVars, packetVars
  <1>3. Gathering => raise = CANDIDATES_RECEIVED
    BY <1>1 DEF Gathering
  <1>4. raise = CANDIDATES_RECEIVED => Gathering
    BY <1>1 DEF Gathering
  <1>5. CANDIDATES_RECEIVED # READY /\ READY # FAILED /\ CANDIDATES_RECEIVED # FAILED
    BY DEF CANDIDATES_RECEIVED, READY, FAILED
  <1>6. Gathering' <=> report'["nice"] = "GATHERED"
    BY <1>1, <1>2 DEF Gathering
  <1>7. niceListener /\ raise # CANDIDATES_RECEIVED => globalState # "INITIAL"
    BY <1>3 DEF IInv, Quiet
  <1>8. CASE IceNothing
    <2>1. ~Gathering' /\ (niceListener => raise # CANDIDATES_RECEIVED)
      BY <1>1, <1>5, <1>6, <1>8 DEF IceNothing
    <2> QED BY <1>2, <1>7, <2>1 DEF Quiet
  <1>9. CASE IceGathered
    <2>1. /\ niceQueue = <<>> /\ flights = 0 /\ resender = "none"
          /\ flight = [t \in {"nice", "recv"} |-> "none"]
          /\ report["recv"] = "none" /\ report["resend"] = "none"
          /\ globalState \in {"INITIAL", "FINISHED"}
          /\ state # "GATHERED"
      BY <1>1, <1>4, <1>9 DEF IInv, Quiet, IceGathered
    <2>2. /\ report'["nice"] = "GATHERED" /\ report'["recv"] = "none"
          /\ report'["resend"] = "none"
      BY <1>1, <1>9, <2>1, ReportEffect DEF IceGathered
    <2>3. flights' = flights /\ flight' = flight
      BY <1>9 DEF IceGathered
    <2> QED BY <1>2, <1>6, <2>1, <2>2, <2>3 DEF Quiet
  <1>10. CASE IceFailed
    <2>1. report'["nice"] # "GATHERED"
      BY <1>1, <1>10, ReportEffect DEF IceFailed
    <2> QED BY <1>2, <1>5, <1>6, <1>7, <1>10, <2>1 DEF Quiet, IceFailed
  <1>11. CASE IceReady
    <2>1. report'["nice"] # "GATHERED"
      BY <1>1, <1>11 DEF IceReady
    <2> QED BY <1>2, <1>5, <1>6, <1>7, <1>11, <2>1 DEF Quiet, IceReady
  <1> QED BY <1>8, <1>9, <1>10, <1>11, IceEffect

\* A flight is sent when gathering was told.
LEMMA ReportsIce == ASSUME IInv, updateIceState PROVE Reports'
  <1> USE DEF MediaThread
  <1>1. /\ report \in [MediaThread -> {"none", "GATHERED", "READY", "FAILED"}]
        /\ report["nice"] = "none" /\ iceState # INITIAL /\ main = "tell" /\ TypeOK
    BY IceEffect DEF IInv, TypeOK, Inside
  <1>2. UNCHANGED <<globalState, recv>>
    BY IceEffect DEF stateVars
  <1>3. Reports
    BY DEF IInv
  <1>4. CASE IceNothing
    BY <1>2, <1>3, <1>4 DEF IceNothing, Reports
  <1>5. CASE IceGathered
    <2>1. /\ report'["nice"] # "READY" /\ report'["recv"] = report["recv"]
          /\ report'["resend"] = report["resend"] /\ UNCHANGED <<flights, running>>
      BY <1>1, <1>5, ReportEffect DEF IceGathered
    <2> QED BY <1>2, <1>3, <2>1 DEF Reports
  <1>6. CASE IceFailed
    <2>1. /\ report'["nice"] # "READY" /\ report'["recv"] = report["recv"]
          /\ report'["resend"] = report["resend"] /\ flights' = flights /\ ~running'
      BY <1>1, <1>6, ReportEffect DEF IceFailed
    <2> QED BY <1>2, <1>3, <2>1 DEF Reports
  <1>7. CASE IceReady
    <2>1. raise # CANDIDATES_RECEIVED /\ niceListener
      BY <1>7 DEF IceReady, READY, CANDIDATES_RECEIVED
    <2>2. ~Gathering
      BY <1>1, <2>1 DEF Gathering
    <2>3. globalState # "INITIAL"
      BY <2>1, <2>2 DEF IInv, Quiet
    <2> QED BY <1>2, <1>3, <1>7, <2>3 DEF Reports, IceReady
  <1> QED BY <1>4, <1>5, <1>6, <1>7, IceEffect

\* The report of the end of gathering is taken when nothing else was reported.
LEMMA QuietUpdate ==
  ASSUME IInv, NEW t \in MediaThread, updateState(t)
  PROVE  Quiet'
  <1>1. /\ UNCHANGED <<resender, iceState, raise, niceListener, main, niceQueue, flights,
                       flight, state>>
        /\ report[t] \in {"GATHERED", "READY", "FAILED"}
        /\ report'[t] = "none"
        /\ \A u \in MediaThread : u # t => report'[u] = report[u]
        /\ globalState' = IF globalState = "FAILED" THEN globalState ELSE report[t]
    BY UpdateEffect DEF resendVars, iceVars, loopVars, packetVars, dtlsVars
  <1>2. Quiet /\ Inside /\ "nice" \in MediaThread /\ "recv" \in MediaThread
          /\ "resend" \in MediaThread
    BY DEF IInv, MediaThread
  <1>3. CASE Gathering
    <2>1. t = "nice" /\ report["nice"] = "GATHERED"
      BY <1>1, <1>2, <1>3 DEF Quiet, MediaThread
    <2>2. main = "loop"
      BY <1>2, <2>1 DEF Inside
    <2>3. iceState # INITIAL
      BY <1>2, <2>1 DEF Inside
    <2>4. ~Gathering'
      BY <1>1, <2>1, <2>2, <2>3 DEF Gathering
    <2>5. globalState' = "GATHERED"
      BY <1>1, <1>2, <1>3, <2>1 DEF Quiet
    <2> QED BY <2>4, <2>5 DEF Quiet
  <1>4. CASE ~Gathering
    <2>1. ~Gathering'
      BY <1>1, <1>2, <1>4 DEF Gathering
    <2>2. niceListener => globalState' # "INITIAL"
      BY <1>1, <1>2, <1>4 DEF Quiet
    <2> QED BY <1>1, <2>1, <2>2 DEF Quiet
  <1> QED BY <1>3, <1>4

\* When appending an element to one sequence gives another.
LEMMA AppendIs ==
  ASSUME NEW S, NEW s \in Seq(S), NEW t \in Seq(S), NEW x \in S,
         Len(t) = Len(s) + 1, \A i \in 1..Len(s) : t[i] = s[i], t[Len(t)] = x
  PROVE  Append(s, x) = t
  <1>1. Len(s) \in Nat /\ Len(t) \in Nat
    BY LenProperties
  <1>2. \A i \in 1..Len(t) : Append(s, x)[i] = t[i]
    <2> TAKE i \in 1..Len(t)
    <2>1. i \in 1..Len(s) \/ i = Len(s) + 1
      BY <1>1
    <2> QED BY <1>1, <2>1, AppendProperties
  <1> QED BY <1>1, <1>2, AppendProperties, SeqEqual

LEMMA Append2 ==
  ASSUME NEW S, NEW x \in S, NEW y \in S
  PROVE  Append(<<x>>, y) = <<x, y>>
  <1> DEFINE s == <<x>>
             t == <<x, y>>
  <1>1. s \in Seq(S) /\ Len(s) = 1 /\ s[1] = x
    OBVIOUS
  <1>2. t \in Seq(S) /\ Len(t) = 2 /\ t[1] = x /\ t[2] = y
    OBVIOUS
  <1> HIDE DEF s, t
  <1>3. Len(t) = Len(s) + 1 /\ t[Len(t)] = y /\ \A i \in 1..Len(s) : t[i] = s[i]
    BY <1>1, <1>2
  <1>4. Append(s, y) = t
    BY <1>1, <1>2, <1>3, AppendIs
  <1> QED BY <1>4 DEF s, t

LEMMA Append3 ==
  ASSUME NEW S, NEW x \in S, NEW y \in S, NEW z \in S
  PROVE  Append(<<x, y>>, z) = <<x, y, z>>
  <1> DEFINE s == <<x, y>>
             t == <<x, y, z>>
  <1>1. s \in Seq(S) /\ Len(s) = 2 /\ s[1] = x /\ s[2] = y
    OBVIOUS
  <1>2. t \in Seq(S) /\ Len(t) = 3 /\ t[1] = x /\ t[2] = y /\ t[3] = z
    OBVIOUS
  <1> HIDE DEF s, t
  <1>3. Len(t) = Len(s) + 1 /\ t[Len(t)] = z /\ \A i \in 1..Len(s) : t[i] = s[i]
    BY <1>1, <1>2
  <1>4. Append(s, z) = t
    BY <1>1, <1>2, <1>3, AppendIs
  <1> QED BY <1>4 DEF s, t

LEMMA NextHistories ==
  /\ Append(<<"GATHERED">>, "READY") = <<"GATHERED", "READY">>
  /\ Append(<<"GATHERED">>, "FAILED") = <<"GATHERED", "FAILED">>
  /\ Append(<<"GATHERED", "READY">>, "FAILED") = <<"GATHERED", "READY", "FAILED">>
  <1> DEFINE E == {"GATHERED", "READY", "FAILED"}
  <1>1. "GATHERED" \in E /\ "READY" \in E /\ "FAILED" \in E
    OBVIOUS
  <1> HIDE DEF E
  <1> QED BY <1>1, Append2, Append3

\* What is reported to the listener is the next of the events it may hear.
LEMMA HeardUpdate ==
  ASSUME IInv, NEW t \in MediaThread, updateState(t)
  PROVE  Heard'
  <1>1. Heard /\ Reports /\ Quiet /\ Inside /\ Joins /\ TypeOK
    BY DEF IInv
  <1>2. hasListener' = hasListener
    BY UpdateEffect DEF ownVars
  <1>3. CASE UNCHANGED <<globalState, events>>
    BY <1>1, <1>2, <1>3 DEF Heard
  <1>4. CASE globalState # "FAILED" /\ globalState' = report[t] /\ events' = events
             /\ (globalState = report[t] \/ ~hasListener)
    <2>1. report[t] # "FINISHED" /\ report[t] # "INITIAL" /\ report[t] # "none"
      BY UpdateEffect
    <2>2. CASE globalState = report[t]
      BY <1>1, <1>2, <1>4, <2>2 DEF Heard
    <2>3. CASE ~hasListener
      <3>1. t = "resend" /\ report[t] = "FAILED"
        BY <1>1, <2>1, <2>3 DEF Joins, Inside, Reports, MediaThread, Late, TypeOK, Closing
      <3> QED BY <1>1, <1>2, <1>4, <3>1 DEF Heard
    <2> QED BY <1>4, <2>2, <2>3
  <1>5. CASE /\ globalState # "FAILED" /\ globalState' = report[t]
             /\ globalState # report[t] /\ hasListener
             /\ events' = Append(events, report[t])
    <2>1. globalState \in {"INITIAL", "GATHERED", "READY"}
      BY <1>1, <1>5 DEF Heard, TypeOK
    <2>2. /\ report[t] = "GATHERED" => globalState = "INITIAL"
          /\ report[t] = "READY" => globalState = "GATHERED"
      <3>1. report[t] = "GATHERED" => t = "nice"
        BY <1>1 DEF Reports, MediaThread
      <3>2. report[t] = "GATHERED" => Gathering
        BY <3>1 DEF Gathering
      <3>3. report[t] = "READY" => t = "recv"
        BY <1>1 DEF Reports, MediaThread
      <3> QED BY <1>1, <1>5, <2>1, <3>2, <3>3 DEF Quiet, Reports
    <2>3. CASE globalState = "INITIAL"
      <3>1. events = <<>>
        BY <1>1, <2>3 DEF Heard
      <3>2. CASE report[t] = "GATHERED"
        BY <1>2, <1>5, <3>1, <3>2 DEF Heard, Histories
      <3>3. CASE report[t] = "FAILED"
        BY <1>2, <1>5, <3>1, <3>3 DEF Heard, Histories
      <3> QED BY <2>2, <2>3, <3>2, <3>3, UpdateEffect
    <2>4. CASE globalState = "GATHERED"
      <3>1. events = <<"GATHERED">>
        BY <1>1, <2>4 DEF Heard
      <3>2. CASE report[t] = "READY"
        <4>1. events' = <<"GATHERED", "READY">>
          BY <1>5, <3>1, <3>2, NextHistories
        <4> QED BY <1>2, <1>5, <3>2, <4>1 DEF Heard, Histories
      <3>3. CASE report[t] = "FAILED"
        <4>1. events' = <<"GATHERED", "FAILED">>
          BY <1>5, <3>1, <3>3, NextHistories
        <4> QED BY <1>2, <1>5, <3>3, <4>1 DEF Heard, Histories
      <3> QED BY <2>2, <2>4, <3>2, <3>3, UpdateEffect
    <2>5. CASE globalState = "READY"
      <3>1. events = <<"GATHERED", "READY">>
        BY <1>1, <2>5 DEF Heard
      <3>2. report[t] = "FAILED"
        BY <2>2, <2>5, UpdateEffect
      <3>3. events' = <<"GATHERED", "READY", "FAILED">>
        BY <1>5, <3>1, <3>2, NextHistories
      <3> QED BY <1>2, <1>5, <3>2, <3>3 DEF Heard, Histories
    <2> QED BY <2>1, <2>3, <2>4, <2>5
  <1> QED BY <1>3, <1>4, <1>5, UpdateEffect

\* Every flag of the connection stays a Boolean.
LEMMA FlagsStep == ASSUME IInv, Flags, [Next]_vars PROVE Flags'
  <1> USE DEF Flags, ownVars, stateVars, sendVars, dtlsVars, resendVars,
              iceVars, loopVars, packetVars
  <1>1. ASSUME SendStep PROVE Flags'
    BY <1>1 DEF SendStep, TakePacket
  <1>2. ASSUME MainStart PROVE Flags'
    BY <1>2 DEF MainStart
  <1>3. ASSUME MainRun PROVE Flags'
    BY <1>3 DEF MainRun
  <1>4. ASSUME MainQuit PROVE Flags'
    BY <1>4 DEF MainQuit, Free
  <1>5. ASSUME IceSet PROVE Flags'
    BY <1>5 DEF IceSet
  <1>6. ASSUME updateIceState PROVE Flags'
    <2>1. CASE IceNothing
      BY <1>6, <2>1, IceEffect DEF IceNothing
    <2>2. CASE IceGathered
      BY <1>6, <2>2, IceEffect DEF IceGathered
    <2>3. CASE IceFailed
      BY <1>6, <2>3, IceEffect DEF IceFailed
    <2>4. CASE IceReady
      BY <1>6, <2>4, IceEffect DEF IceReady
    <2> QED BY <1>6, <2>1, <2>2, <2>3, <2>4, IceEffect
  <1>7. ASSUME NEW t \in MediaThread, updateState(t) PROVE Flags'
    BY <1>7 DEF updateState, AlreadyFailed, notify_one
  <1>8. ASSUME NEW t \in {"nice", "recv"}, ScheduleResend(t) PROVE Flags'
    BY <1>8 DEF ScheduleResend, Cancelled
  <1>9. ASSUME NEW t \in {"nice", "recv"}, StartResender(t) PROVE Flags'
    BY <1>9 DEF StartResender, Run
  <1>10. ASSUME RecvTest PROVE Flags'
    BY <1>10 DEF RecvTest, Free
  <1>11. ASSUME RecvEmpty PROVE Flags'
    BY <1>11 DEF RecvEmpty
  <1>12. ASSUME RecvWoken PROVE Flags'
    BY <1>12 DEF RecvWoken, NiceFinished
  <1>13. ASSUME RecvMedia PROVE Flags'
    BY <1>13 DEF RecvMedia, PopPacket
  <1>14. ASSUME RecvDtls PROVE Flags'
    BY <1>14 DEF RecvDtls, PopPacket, Cancelled, onHandshakeCompleted, onHandshakeFailed, updateTransportState
  <1>15. ASSUME TimerExpires PROVE Flags'
    BY <1>15 DEF TimerExpires
  <1>16. ASSUME ResendAborted PROVE Flags'
    BY <1>16 DEF ResendAborted
  <1>17. ASSUME Resend PROVE Flags'
    BY <1>17 DEF Resend, updateTransportState
  <1>18. ASSUME ResenderEnds PROVE Flags'
    BY <1>18 DEF ResenderEnds
  <1>19. ASSUME JoinSend PROVE Flags'
    BY <1>19 DEF JoinSend
  <1>20. ASSUME CloseTest PROVE Flags'
    BY <1>20 DEF CloseTest
  <1>21. ASSUME CloseSet PROVE Flags'
    BY <1>21 DEF CloseSet
  <1>22. ASSUME CloseQuit PROVE Flags'
    <2>1. quit' \in BOOLEAN
      <3>1. CASE main \in {"loop", "set", "tell"}
        BY <1>22, <3>1 DEF CloseQuit
      <3>2. CASE main \notin {"loop", "set", "tell"}
        BY <1>22, <3>2 DEF CloseQuit
      <3> QED BY <3>1, <3>2
    <2> QED BY <1>22, <2>1 DEF CloseQuit
  <1>23. ASSUME JoinMain PROVE Flags'
    BY <1>23 DEF JoinMain
  <1>24. ASSUME JoinRecv PROVE Flags'
    BY <1>24 DEF JoinRecv, RecvJoined
  <1>25. ASSUME DestroyMembers PROVE Flags'
    BY <1>25 DEF DestroyMembers
  <1>26. ASSUME CancelResender PROVE Flags'
    BY <1>26 DEF CancelResender, Cancelled
  <1>27. ASSUME JoinResender PROVE Flags'
    BY <1>27 DEF JoinResender
  <1>28. ASSUME owner = "again" /\ CloseAgain("cancel") PROVE Flags'
    BY <1>28 DEF CloseAgain
  <1>29. ASSUME owner = "destroyNice" /\ CloseAgain("gone") PROVE Flags'
    BY <1>29 DEF CloseAgain
  <1>30. ASSUME Open PROVE Flags'
    BY <1>30 DEF Open
  <1>31. ASSUME Destroy PROVE Flags'
    BY <1>31 DEF Destroy, notify_one
  <1>32. ASSUME queueData PROVE Flags'
    BY <1>32 DEF queueData, MayQueue, Pushed, notify_one
  <1>33. ASSUME NEW s \in {CANDIDATES_RECEIVED, READY, FAILED}, IceTest(s)
        PROVE  Flags'
    BY <1>33 DEF IceTest, Free, updateComponentState
  <1>34. ASSUME NEW p \in {"dtls", "media"}, NiceData(p) PROVE Flags'
    BY <1>34 DEF NiceData, Free
  <1>35. CASE UNCHANGED vars
    BY <1>35 DEF vars, ownVars, stateVars, sendVars, dtlsVars, resendVars, iceVars, loopVars, packetVars
  <1> QED
    BY <1>1, <1>2, <1>3, <1>4, <1>5, <1>6, <1>7, <1>8, <1>9, <1>10, <1>11,
       <1>12, <1>13, <1>14, <1>15, <1>16, <1>17, <1>18, <1>19, <1>20, <1>21,
       <1>22, <1>23, <1>24, <1>25, <1>26, <1>27, <1>28, <1>29, <1>30, <1>31,
       <1>32, <1>33, <1>34, <1>35
       DEF Next, NiceStep, RecvStep, ResendStep, OwnerStep, Environment, MediaThread

\* Every other variable keeps its type, the queues keep their limits.
LEMMA ValuesStep == ASSUME IInv, TypeOK, Values, [Next]_vars PROVE Values'
  <1> USE MediaConnectionAssumption DEF Values, Closing, MediaThread, INITIAL, CANDIDATES_RECEIVED, READY,
              FINISHED, FAILED, ownVars, stateVars, sendVars, dtlsVars,
              resendVars, iceVars, loopVars, packetVars
  <1>1. ASSUME SendStep PROVE Values'
    BY <1>1 DEF SendStep, TakePacket
  <1>2. ASSUME MainStart PROVE Values'
    BY <1>2 DEF MainStart
  <1>3. ASSUME MainRun PROVE Values'
    BY <1>3 DEF MainRun
  <1>4. ASSUME MainQuit PROVE Values'
    BY <1>4 DEF MainQuit, Free
  <1>5. ASSUME IceSet PROVE Values'
    BY <1>5 DEF IceSet
  <1>6. ASSUME updateIceState PROVE Values'
    <2>1. CASE IceNothing
      BY <1>6, <2>1, IceEffect DEF IceNothing
    <2>2. CASE IceGathered
      <3>1. "nice" \in MediaThread
        BY DEF MediaThread
      <3> QED BY <1>6, <2>2, <3>1, IceEffect, ReportEffect DEF IceGathered
    <2>3. CASE IceFailed
      <3>1. "nice" \in MediaThread
        BY DEF MediaThread
      <3> QED BY <1>6, <2>3, <3>1, IceEffect, ReportEffect DEF IceFailed
    <2>4. CASE IceReady
      BY <1>6, <2>4, IceEffect DEF IceReady
    <2> QED BY <1>6, <2>1, <2>2, <2>3, <2>4, IceEffect
  <1>7. ASSUME NEW t \in MediaThread, updateState(t) PROVE Values'
    <2>1. events' \in Seq({"GATHERED", "READY", "FAILED"})
      <3> DEFINE E == {"GATHERED", "READY", "FAILED"}
      <3>1. events' = events \/ events' = Append(events, report[t])
        BY <1>7, UpdateEffect
      <3>2. report[t] \in E /\ events \in Seq(E)
        BY <1>7, UpdateEffect
      <3> HIDE DEF E
      <3>3. events' \in Seq(E)
        BY ONLY <3>1, <3>2, AppendProperties
      <3> QED BY <3>3 DEF E
    <2>2. report' \in [MediaThread -> {"none", "GATHERED", "READY", "FAILED"}]
      BY <1>7, UpdateEffect
    <2>3. globalState' \in {"INITIAL", "GATHERED", "READY", "FINISHED", "FAILED"}
      BY <1>7, UpdateEffect
    <2>4. sender' \in {"test", "empty", "waiting", "woken", "done"}
      BY <1>7, UpdateEffect
    <2>5. UNCHANGED <<ownVars, sendQueue, state, running, recv, flight, dtlsVars,
                      resendVars, iceVars, loopVars, packetVars>>
      BY <1>7, UpdateEffect
    <2> QED BY <2>1, <2>2, <2>3, <2>4, <2>5
  <1>8. ASSUME NEW t \in {"nice", "recv"}, ScheduleResend(t) PROVE Values'
    BY <1>8 DEF ScheduleResend, Cancelled
  <1>9. ASSUME NEW t \in {"nice", "recv"}, StartResender(t) PROVE Values'
    BY <1>9 DEF StartResender, Run
  <1>10. ASSUME RecvTest PROVE Values'
    BY <1>10 DEF RecvTest, Free
  <1>11. ASSUME RecvEmpty PROVE Values'
    BY <1>11 DEF RecvEmpty
  <1>12. ASSUME RecvWoken PROVE Values'
    BY <1>12 DEF RecvWoken, NiceFinished
  <1>13. ASSUME RecvMedia PROVE Values'
    BY <1>13 DEF RecvMedia, PopPacket
  <1>14. ASSUME RecvDtls PROVE Values'
    <2>1. niceQueue' \in Seq({"dtls", "media"}) /\ Len(niceQueue') <= MaxNice
      <3>1. niceQueue # <<>> /\ niceQueue' = Tail(niceQueue)
        BY <1>14 DEF RecvDtls, PopPacket
      <3>2. Len(niceQueue) \in Nat /\ Len(niceQueue') = Len(niceQueue) - 1
        BY <3>1, LenProperties, HeadTailProperties
      <3> QED BY <3>1, <3>2, HeadTailProperties
    <2>2. state' \in {"INITIAL", "GATHERED", "READY", "FINISHED", "FAILED"}
          /\ report' \in [MediaThread -> {"none", "GATHERED", "READY", "FAILED"}]
      <3>1. \/ UNCHANGED <<state, report>>
            \/ \E s \in {"READY", "FAILED"} : updateTransportState("recv", s)
        BY <1>14 DEF RecvDtls, onHandshakeCompleted, onHandshakeFailed
      <3> QED BY <3>1, ReportEffect
    <2>3. flights' \in 0..MaxFlights
      BY <1>14 DEF RecvDtls
    <2>4. flight' \in [{"nice", "recv"} -> {"none", "due", "join"}]
      BY <1>14 DEF RecvDtls
    <2> QED BY <1>14, <2>1, <2>2, <2>3, <2>4 DEF RecvDtls, PopPacket, Cancelled
  <1>15. ASSUME TimerExpires PROVE Values'
    BY <1>15 DEF TimerExpires
  <1>16. ASSUME ResendAborted PROVE Values'
    BY <1>16 DEF ResendAborted
  <1>17. ASSUME Resend PROVE Values'
    <2>1. resends' \in 0..(Width - 1)
      <3>1. resends' = (resends + Width - 1) % Width /\ resends \in 0..(Width - 1)
        BY <1>17 DEF Resend
      <3> QED BY <3>1, Countdown
    <2>2. state' \in {"INITIAL", "GATHERED", "READY", "FINISHED", "FAILED"}
          /\ report' \in [MediaThread -> {"none", "GATHERED", "READY", "FAILED"}]
      BY <1>17, ReportEffect DEF Resend
    <2> QED BY <1>17, <2>1, <2>2 DEF Resend
  <1>18. ASSUME ResenderEnds PROVE Values'
    BY <1>18 DEF ResenderEnds
  <1>19. ASSUME JoinSend PROVE Values'
    BY <1>19 DEF JoinSend
  <1>20. ASSUME CloseTest PROVE Values'
    BY <1>20 DEF CloseTest
  <1>21. ASSUME CloseSet PROVE Values'
    BY <1>21 DEF CloseSet
  <1>22. ASSUME CloseQuit PROVE Values'
    BY <1>22 DEF CloseQuit
  <1>23. ASSUME JoinMain PROVE Values'
    BY <1>23 DEF JoinMain
  <1>24. ASSUME JoinRecv PROVE Values'
    BY <1>24 DEF JoinRecv, RecvJoined
  <1>25. ASSUME DestroyMembers PROVE Values'
    BY <1>25 DEF DestroyMembers
  <1>26. ASSUME CancelResender PROVE Values'
    BY <1>26 DEF CancelResender, Cancelled
  <1>27. ASSUME JoinResender PROVE Values'
    BY <1>27 DEF JoinResender
  <1>28. ASSUME owner = "again" /\ CloseAgain("cancel") PROVE Values'
    BY <1>28 DEF CloseAgain
  <1>29. ASSUME owner = "destroyNice" /\ CloseAgain("gone") PROVE Values'
    BY <1>29 DEF CloseAgain
  <1>30. ASSUME Open PROVE Values'
    BY <1>30 DEF Open
  <1>31. ASSUME Destroy PROVE Values'
    BY <1>31 DEF Destroy, notify_one
  <1>32. ASSUME queueData PROVE Values'
    BY <1>32 DEF queueData, MayQueue, Pushed, notify_one
  <1>33. ASSUME NEW s \in {CANDIDATES_RECEIVED, READY, FAILED}, IceTest(s)
        PROVE  Values'
    BY <1>33 DEF IceTest, Free, updateComponentState
  <1>34. ASSUME NEW p \in {"dtls", "media"}, NiceData(p) PROVE Values'
    BY <1>34 DEF NiceData, Free
  <1>35. CASE UNCHANGED vars
    BY <1>35 DEF vars, ownVars, stateVars, sendVars, dtlsVars, resendVars, iceVars, loopVars, packetVars
  <1> QED
    BY <1>1, <1>2, <1>3, <1>4, <1>5, <1>6, <1>7, <1>8, <1>9, <1>10, <1>11,
       <1>12, <1>13, <1>14, <1>15, <1>16, <1>17, <1>18, <1>19, <1>20, <1>21,
       <1>22, <1>23, <1>24, <1>25, <1>26, <1>27, <1>28, <1>29, <1>30, <1>31,
       <1>32, <1>33, <1>34, <1>35
       DEF Next, NiceStep, RecvStep, ResendStep, OwnerStep, Environment, MediaThread

LEMMA TypeStep == ASSUME IInv, [Next]_vars PROVE TypeOK'
  <1>1. (Flags /\ Values)' => TypeOK'
    BY TypeParts DEF TypeOK, Flags, Values
  <1> QED BY <1>1, TypeParts, FlagsStep, ValuesStep DEF IInv

\* What a join has waited for stays ended.
LEMMA JoinsStep == ASSUME IInv, [Next]_vars PROVE Joins'
  <1> USE DEF IInv, TypeOK, Joins, Inside, Late, Closing, INITIAL,
              CANDIDATES_RECEIVED, READY, FINISHED, FAILED, ownVars, stateVars,
              sendVars, dtlsVars, resendVars, iceVars, loopVars, packetVars
  <1>1. ASSUME SendStep PROVE Joins'
    BY <1>1 DEF SendStep, TakePacket
  <1>2. ASSUME MainStart PROVE Joins'
    BY <1>2 DEF MainStart
  <1>3. ASSUME MainRun PROVE Joins'
    BY <1>3 DEF MainRun
  <1>4. ASSUME MainQuit PROVE Joins'
    BY <1>4 DEF MainQuit, Free
  <1>5. ASSUME IceSet PROVE Joins'
    BY <1>5 DEF IceSet
  <1>6. ASSUME updateIceState PROVE Joins'
    <2>1. CASE IceNothing
      BY <1>6, <2>1, IceEffect DEF IceNothing
    <2>2. CASE IceGathered
      <3>1. "nice" \in MediaThread
        BY DEF MediaThread
      <3> QED BY <1>6, <2>2, <3>1, IceEffect, ReportEffect DEF IceGathered
    <2>3. CASE IceFailed
      <3>1. "nice" \in MediaThread
        BY DEF MediaThread
      <3> QED BY <1>6, <2>3, <3>1, IceEffect, ReportEffect DEF IceFailed
    <2>4. CASE IceReady
      BY <1>6, <2>4, IceEffect DEF IceReady
    <2> QED BY <1>6, <2>1, <2>2, <2>3, <2>4, IceEffect
  <1>7. ASSUME NEW t \in MediaThread, updateState(t) PROVE Joins'
    BY <1>7, UpdateEffect
  <1>8. ASSUME NEW t \in {"nice", "recv"}, ScheduleResend(t) PROVE Joins'
    BY <1>8 DEF ScheduleResend, Cancelled
  <1>9. ASSUME NEW t \in {"nice", "recv"}, StartResender(t) PROVE Joins'
    BY <1>9 DEF StartResender, Run
  <1>10. ASSUME RecvTest PROVE Joins'
    BY <1>10 DEF RecvTest, Free
  <1>11. ASSUME RecvEmpty PROVE Joins'
    BY <1>11 DEF RecvEmpty
  <1>12. ASSUME RecvWoken PROVE Joins'
    BY <1>12 DEF RecvWoken, NiceFinished
  <1>13. ASSUME RecvMedia PROVE Joins'
    BY <1>13 DEF RecvMedia, PopPacket
  <1>14. ASSUME RecvDtls PROVE Joins'
    BY <1>14 DEF RecvDtls, PopPacket, Cancelled, onHandshakeCompleted, onHandshakeFailed, updateTransportState
  <1>15. ASSUME TimerExpires PROVE Joins'
    BY <1>15 DEF TimerExpires
  <1>16. ASSUME ResendAborted PROVE Joins'
    BY <1>16 DEF ResendAborted
  <1>17. ASSUME Resend PROVE Joins'
    BY <1>17 DEF Resend, updateTransportState
  <1>18. ASSUME ResenderEnds PROVE Joins'
    BY <1>18 DEF ResenderEnds
  <1>19. ASSUME JoinSend PROVE Joins'
    BY <1>19 DEF JoinSend
  <1>20. ASSUME CloseTest PROVE Joins'
    BY <1>20 DEF CloseTest
  <1>21. ASSUME CloseSet PROVE Joins'
    BY <1>21 DEF CloseSet
  <1>22. ASSUME CloseQuit PROVE Joins'
    BY <1>22 DEF CloseQuit
  <1>23. ASSUME JoinMain PROVE Joins'
    BY <1>23 DEF JoinMain
  <1>24. ASSUME JoinRecv PROVE Joins'
    BY <1>24 DEF JoinRecv, RecvJoined
  <1>25. ASSUME DestroyMembers PROVE Joins'
    BY <1>25 DEF DestroyMembers
  <1>26. ASSUME CancelResender PROVE Joins'
    BY <1>26 DEF CancelResender, Cancelled
  <1>27. ASSUME JoinResender PROVE Joins'
    BY <1>27 DEF JoinResender
  <1>28. ASSUME owner = "again" /\ CloseAgain("cancel") PROVE Joins'
    BY <1>28 DEF CloseAgain
  <1>29. ASSUME owner = "destroyNice" /\ CloseAgain("gone") PROVE Joins'
    BY <1>29 DEF CloseAgain
  <1>30. ASSUME Open PROVE Joins'
    BY <1>30 DEF Open
  <1>31. ASSUME Destroy PROVE Joins'
    BY <1>31 DEF Destroy, notify_one
  <1>32. ASSUME queueData PROVE Joins'
    BY <1>32 DEF queueData, MayQueue, Pushed, notify_one
  <1>33. ASSUME NEW s \in {CANDIDATES_RECEIVED, READY, FAILED}, IceTest(s)
        PROVE  Joins'
    BY <1>33 DEF IceTest, Free, updateComponentState
  <1>34. ASSUME NEW p \in {"dtls", "media"}, NiceData(p) PROVE Joins'
    BY <1>34 DEF NiceData, Free
  <1>35. CASE UNCHANGED vars
    BY <1>35 DEF vars, ownVars, stateVars, sendVars, dtlsVars, resendVars, iceVars, loopVars, packetVars
  <1> QED
    BY <1>1, <1>2, <1>3, <1>4, <1>5, <1>6, <1>7, <1>8, <1>9, <1>10, <1>11,
       <1>12, <1>13, <1>14, <1>15, <1>16, <1>17, <1>18, <1>19, <1>20, <1>21,
       <1>22, <1>23, <1>24, <1>25, <1>26, <1>27, <1>28, <1>29, <1>30, <1>31,
       <1>32, <1>33, <1>34, <1>35
       DEF Next, NiceStep, RecvStep, ResendStep, OwnerStep, Environment, MediaThread

\* A thread that reports or sends a flight is where its call was made.
LEMMA InsideStep == ASSUME IInv, [Next]_vars PROVE Inside'
  <1> USE DEF IInv, TypeOK, Joins, Inside, MediaThread, Late, INITIAL,
              CANDIDATES_RECEIVED, READY, FINISHED, FAILED, ownVars, stateVars,
              sendVars, dtlsVars, resendVars, iceVars, loopVars, packetVars
  <1>1. ASSUME SendStep PROVE Inside'
    BY <1>1 DEF SendStep, TakePacket
  <1>2. ASSUME MainStart PROVE Inside'
    BY <1>2 DEF MainStart
  <1>3. ASSUME MainRun PROVE Inside'
    BY <1>3 DEF MainRun
  <1>4. ASSUME MainQuit PROVE Inside'
    BY <1>4 DEF MainQuit, Free
  <1>5. ASSUME IceSet PROVE Inside'
    BY <1>5 DEF IceSet
  <1>6. ASSUME updateIceState PROVE Inside'
    <2>1. CASE IceNothing
      BY <1>6, <2>1, IceEffect DEF IceNothing
    <2>2. CASE IceGathered
      <3>1. "nice" \in MediaThread
        BY DEF MediaThread
      <3> QED BY <1>6, <2>2, <3>1, IceEffect, ReportEffect DEF IceGathered
    <2>3. CASE IceFailed
      <3>1. "nice" \in MediaThread
        BY DEF MediaThread
      <3> QED BY <1>6, <2>3, <3>1, IceEffect, ReportEffect DEF IceFailed
    <2>4. CASE IceReady
      BY <1>6, <2>4, IceEffect DEF IceReady
    <2> QED BY <1>6, <2>1, <2>2, <2>3, <2>4, IceEffect
  <1>7. ASSUME NEW t \in MediaThread, updateState(t) PROVE Inside'
    BY <1>7, UpdateEffect
  <1>8. ASSUME NEW t \in {"nice", "recv"}, ScheduleResend(t) PROVE Inside'
    BY <1>8 DEF ScheduleResend, Cancelled
  <1>9. ASSUME NEW t \in {"nice", "recv"}, StartResender(t) PROVE Inside'
    BY <1>9 DEF StartResender, Run
  <1>10. ASSUME RecvTest PROVE Inside'
    BY <1>10 DEF RecvTest, Free
  <1>11. ASSUME RecvEmpty PROVE Inside'
    BY <1>11 DEF RecvEmpty
  <1>12. ASSUME RecvWoken PROVE Inside'
    BY <1>12 DEF RecvWoken, NiceFinished
  <1>13. ASSUME RecvMedia PROVE Inside'
    BY <1>13 DEF RecvMedia, PopPacket
  <1>14. ASSUME RecvDtls PROVE Inside'
    BY <1>14 DEF RecvDtls, PopPacket, Cancelled, onHandshakeCompleted, onHandshakeFailed, updateTransportState
  <1>15. ASSUME TimerExpires PROVE Inside'
    BY <1>15 DEF TimerExpires
  <1>16. ASSUME ResendAborted PROVE Inside'
    BY <1>16 DEF ResendAborted
  <1>17. ASSUME Resend PROVE Inside'
    BY <1>17 DEF Resend, updateTransportState
  <1>18. ASSUME ResenderEnds PROVE Inside'
    BY <1>18 DEF ResenderEnds
  <1>19. ASSUME JoinSend PROVE Inside'
    BY <1>19 DEF JoinSend
  <1>20. ASSUME CloseTest PROVE Inside'
    BY <1>20 DEF CloseTest
  <1>21. ASSUME CloseSet PROVE Inside'
    BY <1>21 DEF CloseSet
  <1>22. ASSUME CloseQuit PROVE Inside'
    BY <1>22 DEF CloseQuit
  <1>23. ASSUME JoinMain PROVE Inside'
    BY <1>23 DEF JoinMain
  <1>24. ASSUME JoinRecv PROVE Inside'
    BY <1>24 DEF JoinRecv, RecvJoined
  <1>25. ASSUME DestroyMembers PROVE Inside'
    BY <1>25 DEF DestroyMembers
  <1>26. ASSUME CancelResender PROVE Inside'
    BY <1>26 DEF CancelResender, Cancelled
  <1>27. ASSUME JoinResender PROVE Inside'
    BY <1>27 DEF JoinResender
  <1>28. ASSUME owner = "again" /\ CloseAgain("cancel") PROVE Inside'
    BY <1>28 DEF CloseAgain
  <1>29. ASSUME owner = "destroyNice" /\ CloseAgain("gone") PROVE Inside'
    BY <1>29 DEF CloseAgain
  <1>30. ASSUME Open PROVE Inside'
    BY <1>30 DEF Open
  <1>31. ASSUME Destroy PROVE Inside'
    BY <1>31 DEF Destroy, notify_one
  <1>32. ASSUME queueData PROVE Inside'
    BY <1>32 DEF queueData, MayQueue, Pushed, notify_one
  <1>33. ASSUME NEW s \in {CANDIDATES_RECEIVED, READY, FAILED}, IceTest(s)
        PROVE  Inside'
    BY <1>33 DEF IceTest, Free, updateComponentState
  <1>34. ASSUME NEW p \in {"dtls", "media"}, NiceData(p) PROVE Inside'
    BY <1>34 DEF NiceData, Free
  <1>35. CASE UNCHANGED vars
    BY <1>35 DEF vars, ownVars, stateVars, sendVars, dtlsVars, resendVars, iceVars, loopVars, packetVars
  <1> QED
    BY <1>1, <1>2, <1>3, <1>4, <1>5, <1>6, <1>7, <1>8, <1>9, <1>10, <1>11,
       <1>12, <1>13, <1>14, <1>15, <1>16, <1>17, <1>18, <1>19, <1>20, <1>21,
       <1>22, <1>23, <1>24, <1>25, <1>26, <1>27, <1>28, <1>29, <1>30, <1>31,
       <1>32, <1>33, <1>34, <1>35
       DEF Next, NiceStep, RecvStep, ResendStep, OwnerStep, Environment, MediaThread

\* A stopped service is not run again.
LEMMA ResendsStep == ASSUME IInv, [Next]_vars PROVE Resends'
  <1> USE MediaConnectionAssumption, Countdown DEF IInv, TypeOK, Resends, Inside, ownVars, stateVars, sendVars,
              dtlsVars, resendVars, iceVars, loopVars, packetVars
  <1>1. ASSUME SendStep PROVE Resends'
    BY <1>1 DEF SendStep, TakePacket
  <1>2. ASSUME MainStart PROVE Resends'
    BY <1>2 DEF MainStart
  <1>3. ASSUME MainRun PROVE Resends'
    BY <1>3 DEF MainRun
  <1>4. ASSUME MainQuit PROVE Resends'
    BY <1>4 DEF MainQuit, Free
  <1>5. ASSUME IceSet PROVE Resends'
    BY <1>5 DEF IceSet
  <1>6. ASSUME updateIceState PROVE Resends'
    <2>1. CASE IceNothing
      BY <1>6, <2>1, IceEffect DEF IceNothing
    <2>2. CASE IceGathered
      <3>1. "nice" \in MediaThread
        BY DEF MediaThread
      <3> QED BY <1>6, <2>2, <3>1, IceEffect, ReportEffect DEF IceGathered
    <2>3. CASE IceFailed
      <3>1. "nice" \in MediaThread
        BY DEF MediaThread
      <3> QED BY <1>6, <2>3, <3>1, IceEffect, ReportEffect DEF IceFailed
    <2>4. CASE IceReady
      BY <1>6, <2>4, IceEffect DEF IceReady
    <2> QED BY <1>6, <2>1, <2>2, <2>3, <2>4, IceEffect
  <1>7. ASSUME NEW t \in MediaThread, updateState(t) PROVE Resends'
    BY <1>7, UpdateEffect
  <1>8. ASSUME NEW t \in {"nice", "recv"}, ScheduleResend(t) PROVE Resends'
    BY <1>8 DEF ScheduleResend, Cancelled
  <1>9. ASSUME NEW t \in {"nice", "recv"}, StartResender(t) PROVE Resends'
    BY <1>9 DEF StartResender, Run
  <1>10. ASSUME RecvTest PROVE Resends'
    BY <1>10 DEF RecvTest, Free
  <1>11. ASSUME RecvEmpty PROVE Resends'
    BY <1>11 DEF RecvEmpty
  <1>12. ASSUME RecvWoken PROVE Resends'
    BY <1>12 DEF RecvWoken, NiceFinished
  <1>13. ASSUME RecvMedia PROVE Resends'
    BY <1>13 DEF RecvMedia, PopPacket
  <1>14. ASSUME RecvDtls PROVE Resends'
    BY <1>14 DEF RecvDtls, PopPacket, Cancelled, onHandshakeCompleted, onHandshakeFailed, updateTransportState
  <1>15. ASSUME TimerExpires PROVE Resends'
    BY <1>15 DEF TimerExpires
  <1>16. ASSUME ResendAborted PROVE Resends'
    BY <1>16 DEF ResendAborted
  <1>17. ASSUME Resend PROVE Resends'
    BY <1>17 DEF Resend, updateTransportState
  <1>18. ASSUME ResenderEnds PROVE Resends'
    BY <1>18 DEF ResenderEnds
  <1>19. ASSUME JoinSend PROVE Resends'
    BY <1>19 DEF JoinSend
  <1>20. ASSUME CloseTest PROVE Resends'
    BY <1>20 DEF CloseTest
  <1>21. ASSUME CloseSet PROVE Resends'
    BY <1>21 DEF CloseSet
  <1>22. ASSUME CloseQuit PROVE Resends'
    BY <1>22 DEF CloseQuit
  <1>23. ASSUME JoinMain PROVE Resends'
    BY <1>23 DEF JoinMain
  <1>24. ASSUME JoinRecv PROVE Resends'
    BY <1>24 DEF JoinRecv, RecvJoined
  <1>25. ASSUME DestroyMembers PROVE Resends'
    BY <1>25 DEF DestroyMembers
  <1>26. ASSUME CancelResender PROVE Resends'
    BY <1>26 DEF CancelResender, Cancelled
  <1>27. ASSUME JoinResender PROVE Resends'
    BY <1>27 DEF JoinResender
  <1>28. ASSUME owner = "again" /\ CloseAgain("cancel") PROVE Resends'
    BY <1>28 DEF CloseAgain
  <1>29. ASSUME owner = "destroyNice" /\ CloseAgain("gone") PROVE Resends'
    BY <1>29 DEF CloseAgain
  <1>30. ASSUME Open PROVE Resends'
    BY <1>30 DEF Open
  <1>31. ASSUME Destroy PROVE Resends'
    BY <1>31 DEF Destroy, notify_one
  <1>32. ASSUME queueData PROVE Resends'
    BY <1>32 DEF queueData, MayQueue, Pushed, notify_one
  <1>33. ASSUME NEW s \in {CANDIDATES_RECEIVED, READY, FAILED}, IceTest(s)
        PROVE  Resends'
    BY <1>33 DEF IceTest, Free, updateComponentState
  <1>34. ASSUME NEW p \in {"dtls", "media"}, NiceData(p) PROVE Resends'
    BY <1>34 DEF NiceData, Free
  <1>35. CASE UNCHANGED vars
    BY <1>35 DEF vars, ownVars, stateVars, sendVars, dtlsVars, resendVars, iceVars, loopVars, packetVars
  <1> QED
    BY <1>1, <1>2, <1>3, <1>4, <1>5, <1>6, <1>7, <1>8, <1>9, <1>10, <1>11,
       <1>12, <1>13, <1>14, <1>15, <1>16, <1>17, <1>18, <1>19, <1>20, <1>21,
       <1>22, <1>23, <1>24, <1>25, <1>26, <1>27, <1>28, <1>29, <1>30, <1>31,
       <1>32, <1>33, <1>34, <1>35
       DEF Next, NiceStep, RecvStep, ResendStep, OwnerStep, Environment, MediaThread

\* Gathering is told before anything else happens.
LEMMA QuietStep == ASSUME IInv, [Next]_vars PROVE Quiet'
  <1> USE DEF IInv, TypeOK, Joins, Inside, Quiet, Gathering, Reports,
              MediaThread, Late, INITIAL, CANDIDATES_RECEIVED, READY, FINISHED,
              FAILED, ownVars, stateVars, sendVars, dtlsVars, resendVars,
              iceVars, loopVars, packetVars
  <1>1. ASSUME SendStep PROVE Quiet'
    BY <1>1 DEF SendStep, TakePacket
  <1>2. ASSUME MainStart PROVE Quiet'
    BY <1>2 DEF MainStart
  <1>3. ASSUME MainRun PROVE Quiet'
    BY <1>3 DEF MainRun
  <1>4. ASSUME MainQuit PROVE Quiet'
    BY <1>4 DEF MainQuit, Free
  <1>5. ASSUME IceSet PROVE Quiet'
    BY <1>5 DEF IceSet
  <1>6. ASSUME updateIceState PROVE Quiet'
    BY <1>6, QuietIce
  <1>7. ASSUME NEW t \in MediaThread, updateState(t) PROVE Quiet'
    BY <1>7, QuietUpdate
  <1>8. ASSUME NEW t \in {"nice", "recv"}, ScheduleResend(t) PROVE Quiet'
    BY <1>8 DEF ScheduleResend, Cancelled
  <1>9. ASSUME NEW t \in {"nice", "recv"}, StartResender(t) PROVE Quiet'
    BY <1>9 DEF StartResender, Run
  <1>10. ASSUME RecvTest PROVE Quiet'
    BY <1>10 DEF RecvTest, Free
  <1>11. ASSUME RecvEmpty PROVE Quiet'
    BY <1>11 DEF RecvEmpty
  <1>12. ASSUME RecvWoken PROVE Quiet'
    BY <1>12 DEF RecvWoken, NiceFinished
  <1>13. ASSUME RecvMedia PROVE Quiet'
    BY <1>13 DEF RecvMedia, PopPacket
  <1>14. ASSUME RecvDtls PROVE Quiet'
    BY <1>14 DEF RecvDtls, PopPacket, Cancelled, onHandshakeCompleted, onHandshakeFailed, updateTransportState
  <1>15. ASSUME TimerExpires PROVE Quiet'
    BY <1>15 DEF TimerExpires
  <1>16. ASSUME ResendAborted PROVE Quiet'
    BY <1>16 DEF ResendAborted
  <1>17. ASSUME Resend PROVE Quiet'
    BY <1>17 DEF Resend, updateTransportState
  <1>18. ASSUME ResenderEnds PROVE Quiet'
    BY <1>18 DEF ResenderEnds
  <1>19. ASSUME JoinSend PROVE Quiet'
    BY <1>19 DEF JoinSend
  <1>20. ASSUME CloseTest PROVE Quiet'
    BY <1>20 DEF CloseTest
  <1>21. ASSUME CloseSet PROVE Quiet'
    BY <1>21 DEF CloseSet
  <1>22. ASSUME CloseQuit PROVE Quiet'
    BY <1>22 DEF CloseQuit
  <1>23. ASSUME JoinMain PROVE Quiet'
    BY <1>23 DEF JoinMain
  <1>24. ASSUME JoinRecv PROVE Quiet'
    BY <1>24 DEF JoinRecv, RecvJoined
  <1>25. ASSUME DestroyMembers PROVE Quiet'
    BY <1>25 DEF DestroyMembers
  <1>26. ASSUME CancelResender PROVE Quiet'
    BY <1>26 DEF CancelResender, Cancelled
  <1>27. ASSUME JoinResender PROVE Quiet'
    BY <1>27 DEF JoinResender
  <1>28. ASSUME owner = "again" /\ CloseAgain("cancel") PROVE Quiet'
    BY <1>28 DEF CloseAgain
  <1>29. ASSUME owner = "destroyNice" /\ CloseAgain("gone") PROVE Quiet'
    BY <1>29 DEF CloseAgain
  <1>30. ASSUME Open PROVE Quiet'
    BY <1>30 DEF Open
  <1>31. ASSUME Destroy PROVE Quiet'
    BY <1>31 DEF Destroy, notify_one
  <1>32. ASSUME queueData PROVE Quiet'
    BY <1>32 DEF queueData, MayQueue, Pushed, notify_one
  <1>33. ASSUME NEW s \in {CANDIDATES_RECEIVED, READY, FAILED}, IceTest(s)
        PROVE  Quiet'
    BY <1>33 DEF IceTest, Free, updateComponentState
  <1>34. ASSUME NEW p \in {"dtls", "media"}, NiceData(p) PROVE Quiet'
    BY <1>34 DEF NiceData, Free
  <1>35. CASE UNCHANGED vars
    BY <1>35 DEF vars, ownVars, stateVars, sendVars, dtlsVars, resendVars, iceVars, loopVars, packetVars
  <1> QED
    BY <1>1, <1>2, <1>3, <1>4, <1>5, <1>6, <1>7, <1>8, <1>9, <1>10, <1>11,
       <1>12, <1>13, <1>14, <1>15, <1>16, <1>17, <1>18, <1>19, <1>20, <1>21,
       <1>22, <1>23, <1>24, <1>25, <1>26, <1>27, <1>28, <1>29, <1>30, <1>31,
       <1>32, <1>33, <1>34, <1>35
       DEF Next, NiceStep, RecvStep, ResendStep, OwnerStep, Environment, MediaThread

\* A report of READY comes after the connection has gathered.
LEMMA ReportsStep == ASSUME IInv, [Next]_vars PROVE Reports'
  <1> USE DEF IInv, TypeOK, Joins, Inside, Quiet, Gathering, Reports,
              MediaThread, Late, INITIAL, CANDIDATES_RECEIVED, READY, FINISHED,
              FAILED, ownVars, stateVars, sendVars, dtlsVars, resendVars,
              iceVars, loopVars, packetVars
  <1>1. ASSUME SendStep PROVE Reports'
    BY <1>1 DEF SendStep, TakePacket
  <1>2. ASSUME MainStart PROVE Reports'
    BY <1>2 DEF MainStart
  <1>3. ASSUME MainRun PROVE Reports'
    BY <1>3 DEF MainRun
  <1>4. ASSUME MainQuit PROVE Reports'
    BY <1>4 DEF MainQuit, Free
  <1>5. ASSUME IceSet PROVE Reports'
    BY <1>5 DEF IceSet
  <1>6. ASSUME updateIceState PROVE Reports'
    BY <1>6, ReportsIce
  <1>7. ASSUME NEW t \in MediaThread, updateState(t) PROVE Reports'
    BY <1>7, UpdateEffect
  <1>8. ASSUME NEW t \in {"nice", "recv"}, ScheduleResend(t) PROVE Reports'
    BY <1>8 DEF ScheduleResend, Cancelled
  <1>9. ASSUME NEW t \in {"nice", "recv"}, StartResender(t) PROVE Reports'
    BY <1>9 DEF StartResender, Run
  <1>10. ASSUME RecvTest PROVE Reports'
    BY <1>10 DEF RecvTest, Free
  <1>11. ASSUME RecvEmpty PROVE Reports'
    BY <1>11 DEF RecvEmpty
  <1>12. ASSUME RecvWoken PROVE Reports'
    BY <1>12 DEF RecvWoken, NiceFinished
  <1>13. ASSUME RecvMedia PROVE Reports'
    BY <1>13 DEF RecvMedia, PopPacket
  <1>14. ASSUME RecvDtls PROVE Reports'
    BY <1>14 DEF RecvDtls, PopPacket, Cancelled, onHandshakeCompleted, onHandshakeFailed, updateTransportState
  <1>15. ASSUME TimerExpires PROVE Reports'
    BY <1>15 DEF TimerExpires
  <1>16. ASSUME ResendAborted PROVE Reports'
    BY <1>16 DEF ResendAborted
  <1>17. ASSUME Resend PROVE Reports'
    BY <1>17 DEF Resend, updateTransportState
  <1>18. ASSUME ResenderEnds PROVE Reports'
    BY <1>18 DEF ResenderEnds
  <1>19. ASSUME JoinSend PROVE Reports'
    BY <1>19 DEF JoinSend
  <1>20. ASSUME CloseTest PROVE Reports'
    BY <1>20 DEF CloseTest
  <1>21. ASSUME CloseSet PROVE Reports'
    BY <1>21 DEF CloseSet
  <1>22. ASSUME CloseQuit PROVE Reports'
    BY <1>22 DEF CloseQuit
  <1>23. ASSUME JoinMain PROVE Reports'
    BY <1>23 DEF JoinMain
  <1>24. ASSUME JoinRecv PROVE Reports'
    BY <1>24 DEF JoinRecv, RecvJoined
  <1>25. ASSUME DestroyMembers PROVE Reports'
    BY <1>25 DEF DestroyMembers
  <1>26. ASSUME CancelResender PROVE Reports'
    BY <1>26 DEF CancelResender, Cancelled
  <1>27. ASSUME JoinResender PROVE Reports'
    BY <1>27 DEF JoinResender
  <1>28. ASSUME owner = "again" /\ CloseAgain("cancel") PROVE Reports'
    BY <1>28 DEF CloseAgain
  <1>29. ASSUME owner = "destroyNice" /\ CloseAgain("gone") PROVE Reports'
    BY <1>29 DEF CloseAgain
  <1>30. ASSUME Open PROVE Reports'
    BY <1>30 DEF Open
  <1>31. ASSUME Destroy PROVE Reports'
    BY <1>31 DEF Destroy, notify_one
  <1>32. ASSUME queueData PROVE Reports'
    BY <1>32 DEF queueData, MayQueue, Pushed, notify_one
  <1>33. ASSUME NEW s \in {CANDIDATES_RECEIVED, READY, FAILED}, IceTest(s)
        PROVE  Reports'
    BY <1>33 DEF IceTest, Free, updateComponentState
  <1>34. ASSUME NEW p \in {"dtls", "media"}, NiceData(p) PROVE Reports'
    BY <1>34 DEF NiceData, Free
  <1>35. CASE UNCHANGED vars
    BY <1>35 DEF vars, ownVars, stateVars, sendVars, dtlsVars, resendVars, iceVars, loopVars, packetVars
  <1> QED
    BY <1>1, <1>2, <1>3, <1>4, <1>5, <1>6, <1>7, <1>8, <1>9, <1>10, <1>11,
       <1>12, <1>13, <1>14, <1>15, <1>16, <1>17, <1>18, <1>19, <1>20, <1>21,
       <1>22, <1>23, <1>24, <1>25, <1>26, <1>27, <1>28, <1>29, <1>30, <1>31,
       <1>32, <1>33, <1>34, <1>35
       DEF Next, NiceStep, RecvStep, ResendStep, OwnerStep, Environment, MediaThread

\* The listener hears what the state of the connection becomes.
LEMMA HeardStep == ASSUME IInv, [Next]_vars PROVE Heard'
  <1> USE DEF IInv, TypeOK, Joins, Inside, Quiet, Gathering, Reports, Heard,
              Histories, MediaThread, Late, ownVars, stateVars, sendVars,
              dtlsVars, resendVars, iceVars, loopVars, packetVars
  <1>1. ASSUME SendStep PROVE Heard'
    BY <1>1 DEF SendStep, TakePacket
  <1>2. ASSUME MainStart PROVE Heard'
    BY <1>2 DEF MainStart
  <1>3. ASSUME MainRun PROVE Heard'
    BY <1>3 DEF MainRun
  <1>4. ASSUME MainQuit PROVE Heard'
    BY <1>4 DEF MainQuit, Free
  <1>5. ASSUME IceSet PROVE Heard'
    BY <1>5 DEF IceSet
  <1>6. ASSUME updateIceState PROVE Heard'
    <2>1. CASE IceNothing
      BY <1>6, <2>1, IceEffect DEF IceNothing
    <2>2. CASE IceGathered
      <3>1. "nice" \in MediaThread
        BY DEF MediaThread
      <3> QED BY <1>6, <2>2, <3>1, IceEffect, ReportEffect DEF IceGathered
    <2>3. CASE IceFailed
      <3>1. "nice" \in MediaThread
        BY DEF MediaThread
      <3> QED BY <1>6, <2>3, <3>1, IceEffect, ReportEffect DEF IceFailed
    <2>4. CASE IceReady
      BY <1>6, <2>4, IceEffect DEF IceReady
    <2> QED BY <1>6, <2>1, <2>2, <2>3, <2>4, IceEffect
  <1>7. ASSUME NEW t \in MediaThread, updateState(t) PROVE Heard'
    BY <1>7, HeardUpdate
  <1>8. ASSUME NEW t \in {"nice", "recv"}, ScheduleResend(t) PROVE Heard'
    BY <1>8 DEF ScheduleResend, Cancelled
  <1>9. ASSUME NEW t \in {"nice", "recv"}, StartResender(t) PROVE Heard'
    BY <1>9 DEF StartResender, Run
  <1>10. ASSUME RecvTest PROVE Heard'
    BY <1>10 DEF RecvTest, Free
  <1>11. ASSUME RecvEmpty PROVE Heard'
    BY <1>11 DEF RecvEmpty
  <1>12. ASSUME RecvWoken PROVE Heard'
    BY <1>12 DEF RecvWoken, NiceFinished
  <1>13. ASSUME RecvMedia PROVE Heard'
    BY <1>13 DEF RecvMedia, PopPacket
  <1>14. ASSUME RecvDtls PROVE Heard'
    BY <1>14 DEF RecvDtls, PopPacket, Cancelled, onHandshakeCompleted, onHandshakeFailed, updateTransportState
  <1>15. ASSUME TimerExpires PROVE Heard'
    BY <1>15 DEF TimerExpires
  <1>16. ASSUME ResendAborted PROVE Heard'
    BY <1>16 DEF ResendAborted
  <1>17. ASSUME Resend PROVE Heard'
    BY <1>17 DEF Resend, updateTransportState
  <1>18. ASSUME ResenderEnds PROVE Heard'
    BY <1>18 DEF ResenderEnds
  <1>19. ASSUME JoinSend PROVE Heard'
    BY <1>19 DEF JoinSend
  <1>20. ASSUME CloseTest PROVE Heard'
    BY <1>20 DEF CloseTest
  <1>21. ASSUME CloseSet PROVE Heard'
    BY <1>21 DEF CloseSet
  <1>22. ASSUME CloseQuit PROVE Heard'
    BY <1>22 DEF CloseQuit
  <1>23. ASSUME JoinMain PROVE Heard'
    BY <1>23 DEF JoinMain
  <1>24. ASSUME JoinRecv PROVE Heard'
    BY <1>24 DEF JoinRecv, RecvJoined
  <1>25. ASSUME DestroyMembers PROVE Heard'
    BY <1>25 DEF DestroyMembers
  <1>26. ASSUME CancelResender PROVE Heard'
    BY <1>26 DEF CancelResender, Cancelled
  <1>27. ASSUME JoinResender PROVE Heard'
    BY <1>27 DEF JoinResender
  <1>28. ASSUME owner = "again" /\ CloseAgain("cancel") PROVE Heard'
    BY <1>28 DEF CloseAgain
  <1>29. ASSUME owner = "destroyNice" /\ CloseAgain("gone") PROVE Heard'
    BY <1>29 DEF CloseAgain
  <1>30. ASSUME Open PROVE Heard'
    BY <1>30 DEF Open
  <1>31. ASSUME Destroy PROVE Heard'
    BY <1>31 DEF Destroy, notify_one
  <1>32. ASSUME queueData PROVE Heard'
    BY <1>32 DEF queueData, MayQueue, Pushed, notify_one
  <1>33. ASSUME NEW s \in {CANDIDATES_RECEIVED, READY, FAILED}, IceTest(s)
        PROVE  Heard'
    BY <1>33 DEF IceTest, Free, updateComponentState
  <1>34. ASSUME NEW p \in {"dtls", "media"}, NiceData(p) PROVE Heard'
    BY <1>34 DEF NiceData, Free
  <1>35. CASE UNCHANGED vars
    BY <1>35 DEF vars, ownVars, stateVars, sendVars, dtlsVars, resendVars, iceVars, loopVars, packetVars
  <1> QED
    BY <1>1, <1>2, <1>3, <1>4, <1>5, <1>6, <1>7, <1>8, <1>9, <1>10, <1>11,
       <1>12, <1>13, <1>14, <1>15, <1>16, <1>17, <1>18, <1>19, <1>20, <1>21,
       <1>22, <1>23, <1>24, <1>25, <1>26, <1>27, <1>28, <1>29, <1>30, <1>31,
       <1>32, <1>33, <1>34, <1>35
       DEF Next, NiceStep, RecvStep, ResendStep, OwnerStep, Environment, MediaThread

LEMMA Inductive == IInv /\ [Next]_vars => IInv'
  <1> SUFFICES ASSUME IInv, [Next]_vars PROVE IInv'
    OBVIOUS
  <1> QED
    BY TypeStep, JoinsStep, InsideStep, ResendsStep, QuietStep, ReportsStep, HeardStep
       DEF IInv

\* Threads, reports, the resend timer and what the listener heard fit together in
\* every reachable state of a connection.
THEOREM Invariant == Spec => []IInv
  BY InitHolds, Inductive, PTL DEF Spec

\* Every variable of the connection and its transport keeps its type; the queues
\* keep their limits and flights theirs.
THEOREM TypeCorrect == Spec => []TypeOK
  <1>1. IInv => TypeOK
    BY DEF IInv
  <1> QED BY <1>1, Invariant, PTL

\* Whatever kMaxResends and the width of max_resends_ are, a handshake that was
\* given up is not resent: the counter that wrapped around is not used again.
THEOREM ResendSafety == Spec => []NoResendAfterTimeout
  <1>1. IInv => NoResendAfterTimeout
    BY DEF IInv, Resends, NoResendAfterTimeout
  <1> QED BY <1>1, Invariant, PTL

\* The destructor of the connection outlives the threads that use its members.
THEOREM JoinSafety == Spec => []ThreadsAreJoined
  <1>1. IInv => ThreadsAreJoined
    BY DEF IInv, Joins, Late, ThreadsAreJoined
  <1> QED BY <1>1, Invariant, PTL

\* The listener hears GATHERED, READY and FAILED in this order, each once at most,
\* whichever of the three threads reports them.
THEOREM EventOrder == Spec => []EventsInOrder
  <1>1. ASSUME NEW h \in Histories
        PROVE  /\ \A i, j \in 1..Len(h) : i < j => Rank(h[i]) < Rank(h[j])
               /\ h # <<>> => h[1] # "READY"
    BY DEF Histories, Rank
  <1>2. IInv => EventsInOrder
    BY <1>1 DEF IInv, Heard, EventsInOrder
  <1> QED BY <1>2, Invariant, PTL

=============================================================================
