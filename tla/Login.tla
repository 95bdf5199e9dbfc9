-------------------------------- MODULE Login --------------------------------
(***************************************************************************)
(* One client program (Src/Client/{ConnectionClient,conductor,MainFrame}    *)
(* .cpp) and the protocol objects the server makes for its connections      *)
(* (Src/Server/Protocol/cProtocol_impl.cpp): status, login, key exchange,   *)
(* joining and leaving a room, signing out and coming back.                 *)
(*                                                                         *)
(* Both ends keep a protocol state and an encryption flag and advance them  *)
(* on their own.  The packet types are small numbers that mean something    *)
(* else in every protocol state, and nothing in a packet says whether it is *)
(* encrypted: the two ends have to be in step.  A packet is its type, the   *)
(* protocol state it was written for and whether it was encrypted.          *)
(*                                                                         *)
(* The client is single-threaded: all its steps are window messages.        *)
(***************************************************************************)
EXTENDS Naturals, Sequences, FiniteSets

CONSTANTS
  MaxSockets,  \* how often the client may connect
  MaxChatter,  \* bound on keep-alives, room messages and time-outs
  Fault        \* what may go wrong: see FaultKind

FaultKind == {"close",      \* the server's end of a connection goes away
              "timeout",    \* the server kicks a client it has not heard of
              "impatient"}  \* the user joins again while a connection is being made

ASSUME LoginAssumption ==
  /\ MaxSockets \in Nat
  /\ MaxChatter \in Nat
  /\ Fault \subseteq FaultKind

Socket == 1..MaxSockets

VARIABLES
  sock,        \* sock_, 0 if there is none
  connected,   \* m_bConnect
  state,       \* m_State
  encrypted,   \* m_IsEncrypted
  cipher,      \* m_Encryptor and m_Decryptor are allocated
  received,    \* data read from a socket and not handled yet
  reading,     \* the client is in the loop of AddReceivedData
  room,        \* roomName_ is not empty and there are peer connections
  crashed,     \* a null m_Decryptor was used
  link,        \* the TCP connection of each socket
  up,          \* packets on their way to the server
  down,        \* packets on their way to the client
  sstate,      \* cProtocol_impl::m_State
  sencrypted,  \* cProtocol_impl::m_IsEncrypted
  hasSentDC,   \* cClientHandle::m_HasSentDC
  sreceived,   \* data the protocol was given and has not handled yet
  login,       \* a login waits in the authenticator
  requests,    \* requests that wait in the channel manager
  chatter      \* how many packets were sent that answer no other

clientVars == <<sock, connected, state, encrypted, cipher, received, reading,
                room, crashed>>
serverVars == <<sstate, sencrypted, hasSentDC, sreceived, login, requests>>
vars == <<clientVars, link, up, down, serverVars, chatter>>

Packet == [type : {0, 1, 2, 3, 9, 64}, state : 1..3, enc : BOOLEAN]

\* Data in a receive buffer: ok if it was decrypted the way it was encrypted.
Data == [type : {0, 1, 2, 3, 9, 64}, state : 1..3, enc : BOOLEAN, ok : BOOLEAN]

TypeOK ==
  /\ sock \in Socket \cup {0}
  /\ connected \in BOOLEAN
  /\ state \in 1..3
  /\ encrypted \in BOOLEAN
  /\ cipher \in BOOLEAN
  /\ received \in Seq(Data)
  /\ reading \in BOOLEAN
  /\ room \in BOOLEAN
  /\ crashed \in BOOLEAN
  /\ link \in [Socket -> {"none", "connecting", "established", "connected", "closed"}]
  /\ up \in [Socket -> Seq(Packet)]
  /\ down \in [Socket -> Seq(Packet)]
  /\ sstate \in [Socket -> 1..3]
  /\ sencrypted \in [Socket -> BOOLEAN]
  /\ hasSentDC \in [Socket -> BOOLEAN]
  /\ sreceived \in [Socket -> Seq(Data)]
  /\ login \in [Socket -> BOOLEAN]
  /\ requests \in [Socket -> Seq({"join", "left"})]
  /\ chatter \in 0..MaxChatter

Init ==
  /\ sock = 0
  /\ connected = FALSE
  /\ state = 1
  /\ encrypted = FALSE
  /\ cipher = FALSE
  /\ received = <<>>
  /\ reading = FALSE
  /\ room = FALSE
  /\ crashed = FALSE
  /\ link = [k \in Socket |-> "none"]
  /\ up = [k \in Socket |-> <<>>]
  /\ down = [k \in Socket |-> <<>>]
  /\ sstate = [k \in Socket |-> 1]
  /\ sencrypted = [k \in Socket |-> FALSE]
  /\ hasSentDC = [k \in Socket |-> FALSE]
  /\ sreceived = [k \in Socket |-> <<>>]
  /\ login = [k \in Socket |-> FALSE]
  /\ requests = [k \in Socket |-> <<>>]
  /\ chatter = 0

\* DataReceived decides once for all the data of a call whether to decrypt it.
Decode(s, enc) ==
  [i \in 1..Len(s) |-> [type |-> s[i].type, state |-> s[i].state,
                        enc |-> s[i].enc, ok |-> s[i].enc = enc]]

-----------------------------------------------------------------------------
(* The client.                                                              *)

\* cPacketizer and SendData: the packet goes to sock_, if that is connected.
Send(type, st, enc) ==
  up' = IF sock # 0 /\ link[sock] \in {"established", "connected"}
        THEN [up EXCEPT ![sock] = Append(@, [type |-> type, state |-> st, enc |-> enc])]
        ELSE up

\* The user asks for a room.  With a connection only the room's name is kept;
\* without one ConnectToServer makes a new socket.
JoinChannel(k) ==
  /\ ~reading /\ ~crashed
  /\ ~connected
  /\ link[k] = "none" /\ \A j \in 1..(k - 1) : link[j] # "none"
  /\ "impatient" \in Fault \/ \A j \in Socket : link[j] \in {"none", "closed"}
  /\ link' = [link EXCEPT ![k] = "connecting"]
  /\ sock' = k
  /\ UNCHANGED <<connected, state, encrypted, cipher, received, reading, room,
                 crashed, up, down, serverVars, chatter>>

\* The connection is made; FD_CONNECT is not handled yet.
Established(k) ==
  /\ link[k] = "connecting"
  /\ link' = [link EXCEPT ![k] = "established"]
  /\ UNCHANGED <<clientVars, up, down, serverVars, chatter>>

\* FD_CONNECT with an error: OnNetwork calls OnClose.
ConnectFails(k) ==
  /\ ~reading /\ ~crashed
  /\ link[k] = "connecting"
  /\ link' = [link EXCEPT ![k] = "closed"]
  /\ connected' = FALSE
  /\ UNCHANGED <<sock, state, encrypted, cipher, received, reading, room, crashed,
                 up, down, serverVars, chatter>>

\* Mutant: the new connection starts in the login state.
OnConnect_Login(k) ==
  /\ ~reading /\ ~crashed
  /\ link[k] = "established"
  /\ link' = [link EXCEPT ![k] = "connected"]
  /\ connected' = TRUE
  /\ state' = 2
  /\ Send(0, 1, encrypted)
  /\ UNCHANGED <<sock, encrypted, cipher, received, reading, room, crashed,
                 down, serverVars, chatter>>

OnConnect(k) ==
  /\ ~reading /\ ~crashed
  /\ link[k] = "established"
  /\ link' = [link EXCEPT ![k] = "connected"]
  /\ connected' = TRUE
  /\ Send(0, 1, encrypted)
  /\ UNCHANGED <<sock, state, encrypted, cipher, received, reading, room, crashed,
                 down, serverVars, chatter>>

\* FD_CLOSE: the flag is cleared, the session's state stays.
OnClose(k) ==
  /\ "close" \in Fault
  /\ ~reading /\ ~crashed
  /\ link[k] \in {"established", "connected"}
  /\ link' = [link EXCEPT ![k] = "closed"]
  /\ up' = [up EXCEPT ![k] = <<>>]
  /\ down' = [down EXCEPT ![k] = <<>>]
  /\ connected' = FALSE
  /\ UNCHANGED <<sock, state, encrypted, cipher, received, reading, room, crashed,
                 serverVars, chatter>>

OnRead(k) ==
  /\ ~reading /\ ~crashed
  /\ link[k] = "connected"
  /\ \E n \in 1..Len(down[k]) :
       /\ received' = received \o Decode(SubSeq(down[k], 1, n), encrypted)
       /\ down' = [down EXCEPT ![k] = SubSeq(@, n + 1, Len(@))]
  /\ reading' = TRUE
  /\ UNCHANGED <<sock, connected, state, encrypted, cipher, room, crashed,
                 link, up, serverVars, chatter>>

\* Mutant: the protocol state is cleared instead of reset.
SignOut_Zero ==
  /\ link' = IF sock = 0 THEN link ELSE [link EXCEPT ![sock] = "closed"]
  /\ up' = IF sock = 0 THEN up ELSE [up EXCEPT ![sock] = <<>>]
  /\ down' = IF sock = 0 THEN down ELSE [down EXCEPT ![sock] = <<>>]
  /\ sock' = 0
  /\ connected' = FALSE
  /\ state' = 0
  /\ encrypted' = FALSE
  /\ cipher' = FALSE
  /\ received' = <<>>
  /\ reading' = FALSE
  /\ \/ UNCHANGED crashed
     \/ /\ Len(received) > 1
        /\ Head(received).enc
        /\ crashed' = TRUE

\* The socket is closed and the login forgotten.  If the data being read have
\* another encrypted chunk, DataReceived goes on with the deleted decryptor.
SignOut ==
  /\ link' = IF sock = 0 THEN link ELSE [link EXCEPT ![sock] = "closed"]
  /\ up' = IF sock = 0 THEN up ELSE [up EXCEPT ![sock] = <<>>]
  /\ down' = IF sock = 0 THEN down ELSE [down EXCEPT ![sock] = <<>>]
  /\ sock' = 0
  /\ connected' = FALSE
  /\ state' = 1
  /\ encrypted' = FALSE
  /\ cipher' = FALSE
  /\ received' = <<>>
  /\ reading' = FALSE
  /\ \/ UNCHANGED crashed
     \/ /\ Len(received) > 1
        /\ Head(received).enc
        /\ crashed' = TRUE

\* Can the handler for p.type read the fields it needs from p?  It can if p was
\* written for this protocol state, and sometimes if it was not.
ClientReads(p) ==
  \/ p.state = state
  \/ <<state, p.type, p.state>> \in {<<2, 0, 1>>, <<2, 2, 3>>, <<3, 0, 1>>, <<3, 0, 2>>}

ClientKnown(p) ==
  p.type \in CASE state = 1 -> {0}
               [] state = 2 -> {0, 1, 2, 3}
               [] state = 3 -> {0, 1, 2, 9, 64}

\* The loop goes on with the next packet.
Handled(p) ==
  /\ received' = Tail(received)
  /\ UNCHANGED <<reading, crashed, link, down>>

\* Mutant: the login is not begun.
HandlePacketStatusRequest_Silent(p) ==
  /\ state = 1 /\ p.type = 0 /\ ClientReads(p)
  /\ state' = 2
  /\ Handled(p)
  /\ UNCHANGED <<sock, connected, encrypted, cipher, room, up>>

\* Mutant: the client gives its name at once.
HandlePacketStatusRequest_NoKey(p) ==
  /\ state = 1 /\ p.type = 0 /\ ClientReads(p)
  /\ state' = 2
  /\ Send(2, 2, encrypted)
  /\ Handled(p)
  /\ UNCHANGED <<sock, connected, encrypted, cipher, room>>

\* StatusRequest answered: on to the login.
HandlePacketStatusRequest(p) ==
  /\ state = 1 /\ p.type = 0 /\ ClientReads(p)
  /\ state' = 2
  /\ Send(0, 2, encrypted)
  /\ Handled(p)
  /\ UNCHANGED <<sock, connected, encrypted, cipher, room>>

\* HandlePacketLoginDisconnect and HandlePacketErrorCode: HandleErrorCode calls
\* OnLoginError, and that SignOut.
HandleErrorCode(p) ==
  /\ <<state, p.type>> \in {<<2, 0>>, <<3, 64>>} /\ ClientReads(p)
  /\ SignOut
  /\ UNCHANGED room

\* Mutant: the client starts to encrypt before it sends its key.
SendEncryptionKeyResponse_Early(p) ==
  /\ state = 2 /\ p.type = 1 /\ ClientReads(p)
  /\ Send(1, 2, TRUE)
  /\ cipher' = TRUE
  /\ encrypted' = TRUE
  /\ Handled(p)
  /\ UNCHANGED <<sock, connected, state, room>>

\* HandlePacketLoginEncryptionKeyRequest.
SendEncryptionKeyResponse(p) ==
  /\ state = 2 /\ p.type = 1 /\ ClientReads(p)
  /\ Send(1, 2, encrypted)
  /\ cipher' = TRUE
  /\ encrypted' = TRUE
  /\ Handled(p)
  /\ UNCHANGED <<sock, connected, state, room>>

HandlePacketLoginAllow(p) ==
  /\ state = 2 /\ p.type = 2 /\ ClientReads(p)
  /\ Send(2, 2, encrypted)
  /\ Handled(p)
  /\ UNCHANGED <<sock, connected, state, encrypted, cipher, room>>

\* The client works, and asks for the room the user named.
HandlePacketLoginSuccess(p) ==
  /\ state = 2 /\ p.type = 3 /\ ClientReads(p)
  /\ state' = 3
  /\ Send(1, 3, encrypted)
  /\ Handled(p)
  /\ UNCHANGED <<sock, connected, encrypted, cipher, room>>

HandlePacketKeepAlive(p) ==
  /\ state = 3 /\ p.type = 0 /\ ClientReads(p)
  /\ Send(0, 3, encrypted)
  /\ Handled(p)
  /\ UNCHANGED <<sock, connected, state, encrypted, cipher, room>>

\* OnJoinedChannel makes the client's own peer connection and notes the room.
HandlePacketRoomJoin(p) ==
  /\ state = 3 /\ p.type = 1 /\ ClientReads(p)
  /\ room' = TRUE
  /\ Handled(p)
  /\ UNCHANGED <<sock, connected, state, encrypted, cipher, up>>

\* Room messages are ChannelManager's subject.
HandlePacketChannelMsg(p) ==
  /\ state = 3 /\ p.type = 2 /\ ClientReads(p)
  /\ Handled(p)
  /\ UNCHANGED <<sock, connected, state, encrypted, cipher, room, up>>

\* Mutant: the user's room is forgotten, the session is not.
HandlePacketRoomLeft_Stays(p) ==
  /\ state = 3 /\ p.type = 9 /\ ClientReads(p)
  /\ room' = FALSE
  /\ Handled(p)
  /\ UNCHANGED <<sock, connected, state, encrypted, cipher, up>>

\* OnLeaveChannel deletes the peer connections, forgets the room and signs out.
HandlePacketRoomLeft(p) ==
  /\ state = 3 /\ p.type = 9 /\ ClientReads(p)
  /\ room' = FALSE
  /\ SignOut

\* PacketError: the user is told, nothing else happens.
PacketError(p) ==
  /\ ClientKnown(p) /\ ~ClientReads(p)
  /\ Handled(p)
  /\ UNCHANGED <<sock, connected, state, encrypted, cipher, room, up>>

\* PacketUnknown ends the loop; the rest waits for more data.
PacketUnknown(p) ==
  /\ ~ClientKnown(p)
  /\ received' = Tail(received)
  /\ reading' = FALSE
  /\ UNCHANGED <<sock, connected, state, encrypted, cipher, room, crashed, link,
                 up, down>>

HandlePacket ==
  /\ reading
  /\ received # <<>>
  /\ LET p == Head(received)
     IN  /\ p.ok
         /\ \/ HandlePacketStatusRequest(p)
            \/ HandleErrorCode(p)
            \/ SendEncryptionKeyResponse(p)
            \/ HandlePacketLoginAllow(p)
            \/ HandlePacketLoginSuccess(p)
            \/ HandlePacketKeepAlive(p)
            \/ HandlePacketRoomJoin(p)
            \/ HandlePacketChannelMsg(p)
            \/ HandlePacketRoomLeft(p)
            \/ PacketError(p)
            \/ PacketUnknown(p)
  /\ UNCHANGED <<serverVars, chatter>>

\* No complete packet is left.
ReadEnd ==
  /\ reading
  /\ received = <<>>
  /\ reading' = FALSE
  /\ UNCHANGED <<sock, connected, state, encrypted, cipher, received, room, crashed,
                 link, up, down, serverVars, chatter>>

\* The user leaves the room (doLeftRoom).
LeaveChannel ==
  /\ ~reading /\ ~crashed
  /\ room
  /\ chatter < MaxChatter /\ chatter' = chatter + 1
  /\ Send(9, state, encrypted)
  /\ UNCHANGED <<clientVars, link, down, serverVars>>

\* A peer connection has an answer or a candidate to send (UIThreadCallback).
SendToChannel ==
  /\ ~reading /\ ~crashed
  /\ room
  /\ connected
  /\ chatter < MaxChatter /\ chatter' = chatter + 1
  /\ Send(2, 3, encrypted)
  /\ UNCHANGED <<clientVars, link, down, serverVars>>

-----------------------------------------------------------------------------
(* The server.  What it does with a connection that the client has closed   *)
(* is the subject of ClientHandle and ChannelManager.                       *)

Live(k) == link[k] \in {"established", "connected"}

\* After a disconnect packet cClientHandle::SendData sends nothing.
Written(k, types, enc) ==
  IF hasSentDC[k] THEN down[k]
  ELSE down[k] \o [i \in 1..Len(types) |->
                     [type |-> types[i], state |-> sstate[k], enc |-> enc]]

Write(k, types, enc) == down' = [down EXCEPT ![k] = Written(k, types, enc)]

\* The disconnect packet of each protocol state; there is none in state 1.
Disconnect(k) ==
  CASE sstate[k] = 1 -> <<>>
    [] sstate[k] = 2 -> <<0>>
    [] sstate[k] = 3 -> <<64>>

\* ServerTick hands all the data over that has arrived.
ServerTick(k) ==
  /\ Live(k)
  /\ sreceived[k] = <<>>
  /\ \E n \in 1..Len(up[k]) :
       /\ sreceived' = [sreceived EXCEPT ![k] = Decode(SubSeq(up[k], 1, n), sencrypted[k])]
       /\ up' = [up EXCEPT ![k] = SubSeq(@, n + 1, Len(@))]
  /\ UNCHANGED <<clientVars, link, down, sstate, sencrypted, hasSentDC, login,
                 requests, chatter>>

ServerKnown(k, p) ==
  p.type \in CASE sstate[k] = 1 -> {0, 1}
               [] sstate[k] = 2 -> {0, 1, 2}
               [] sstate[k] = 3 -> {0, 1, 2, 9}

\* As ClientReads.  A packet written for another state has bytes to spare or
\* lacks some: whether or not its handler acts, the client is kicked for it.
ServerReads(k, p) ==
  \/ p.state = sstate[k]
  \/ <<sstate[k], p.type, p.state>> \in {<<1, 1, 2>>, <<2, 0, 1>>, <<2, 0, 3>>,
                                         <<2, 2, 3>>, <<3, 0, 1>>, <<3, 1, 2>>}

\* What a handler writes, followed by the disconnect packet of PacketError.
Reply(k, p, types, enc) ==
  IF p.state = sstate[k]
  THEN /\ Write(k, types, enc)
       /\ UNCHANGED hasSentDC
  ELSE /\ Write(k, types \o Disconnect(k), enc)
       /\ hasSentDC' = [hasSentDC EXCEPT ![k] = TRUE]

ServerStatusRequest(k, p) ==
  /\ sstate[k] = 1 /\ p.type = 0 /\ ServerReads(k, p)
  /\ sstate' = [sstate EXCEPT ![k] = 2]
  /\ Reply(k, p, <<0>>, sencrypted[k])
  /\ UNCHANGED <<sencrypted, login, requests>>

\* HandlePacketLoginStart: a key request, and HandlePacketStatusPing: a reply.
ServerLoginStart(k, p) ==
  /\ <<sstate[k], p.type>> \in {<<2, 0>>, <<1, 1>>} /\ ServerReads(k, p)
  /\ Reply(k, p, <<1>>, sencrypted[k])
  /\ UNCHANGED <<sstate, sencrypted, login, requests>>

\* HandlePacketLoginEncryptionResponse.
StartEncryption(k, p) ==
  /\ sstate[k] = 2 /\ p.type = 1 /\ ServerReads(k, p)
  /\ sencrypted' = [sencrypted EXCEPT ![k] = TRUE]
  /\ Reply(k, p, <<2>>, TRUE)
  /\ UNCHANGED <<sstate, login, requests>>

ServerLoginInfo(k, p) ==
  /\ sstate[k] = 2 /\ p.type = 2 /\ ServerReads(k, p)
  /\ login' = [login EXCEPT ![k] = TRUE]
  /\ Reply(k, p, <<>>, sencrypted[k])
  /\ UNCHANGED <<sstate, sencrypted, requests>>

\* A keep-alive or a room message.
ServerWork(k, p) ==
  /\ sstate[k] = 3 /\ p.type \in {0, 2} /\ ServerReads(k, p)
  /\ Reply(k, p, <<>>, sencrypted[k])
  /\ UNCHANGED <<sstate, sencrypted, login, requests>>

ServerRoom(k, p) ==
  /\ sstate[k] = 3 /\ p.type \in {1, 9} /\ ServerReads(k, p)
  /\ requests' = [requests EXCEPT ![k] = Append(@, IF p.type = 1 THEN "join" ELSE "left")]
  /\ Reply(k, p, <<>>, sencrypted[k])
  /\ UNCHANGED <<sstate, sencrypted, login>>

\* PacketUnknown and PacketError.
ServerKick(k, p) ==
  /\ ~ServerKnown(k, p) \/ ~ServerReads(k, p)
  /\ Write(k, Disconnect(k), sencrypted[k])
  /\ hasSentDC' = [hasSentDC EXCEPT ![k] = TRUE]
  /\ UNCHANGED <<sstate, sencrypted, login, requests>>

ServerHandlePacket(k) ==
  /\ Live(k)
  /\ sreceived[k] # <<>>
  /\ sreceived' = [sreceived EXCEPT ![k] = Tail(@)]
  /\ LET p == Head(sreceived[k])
     IN  /\ p.ok
         /\ \/ ServerStatusRequest(k, p)
            \/ ServerLoginStart(k, p)
            \/ StartEncryption(k, p)
            \/ ServerLoginInfo(k, p)
            \/ ServerWork(k, p)
            \/ ServerRoom(k, p)
            \/ ServerKick(k, p)
  /\ UNCHANGED <<clientVars, link, up, chatter>>

\* The authenticator accepts the login.
SendLoginSuccess(k) ==
  /\ Live(k)
  /\ login[k]
  /\ login' = [login EXCEPT ![k] = FALSE]
  /\ Write(k, <<3>>, sencrypted[k])
  /\ sstate' = [sstate EXCEPT ![k] = 3]
  /\ UNCHANGED <<clientVars, link, up, sencrypted, hasSentDC, sreceived, requests,
                 chatter>>

\* The channel manager answers a join or a leave.
ChannelResult(k) ==
  /\ Live(k)
  /\ requests[k] # <<>>
  /\ requests' = [requests EXCEPT ![k] = Tail(@)]
  /\ Write(k, IF Head(requests[k]) = "join" THEN <<1>> ELSE <<9>>, sencrypted[k])
  /\ UNCHANGED <<clientVars, link, up, sstate, sencrypted, hasSentDC, sreceived,
                 login, chatter>>

\* A keep-alive (of a client that works) or a message of another member.
ServerTalk(k, type) ==
  /\ Live(k)
  /\ sstate[k] = 3 /\ ~login[k]
  /\ chatter < MaxChatter /\ chatter' = chatter + 1
  /\ Write(k, <<type>>, sencrypted[k])
  /\ UNCHANGED <<clientVars, link, up, serverVars>>

\* 30 seconds without data.
Timeout(k) ==
  /\ "timeout" \in Fault
  /\ Live(k)
  /\ ~hasSentDC[k]
  /\ chatter < MaxChatter /\ chatter' = chatter + 1
  /\ Write(k, Disconnect(k), sencrypted[k])
  /\ hasSentDC' = [hasSentDC EXCEPT ![k] = TRUE]
  /\ UNCHANGED <<clientVars, link, up, sstate, sencrypted, sreceived, login, requests>>

ClientStep ==
  \/ \E k \in Socket : OnConnect(k) \/ OnRead(k)
  \/ HandlePacket
  \/ ReadEnd

ServerStep(k) ==
  \/ Established(k)
  \/ ServerTick(k)
  \/ ServerHandlePacket(k)
  \/ SendLoginSuccess(k)
  \/ ChannelResult(k)

Next ==
  \/ ClientStep
  \/ LeaveChannel
  \/ SendToChannel
  \/ \E k \in Socket :
       \/ JoinChannel(k)
       \/ ConnectFails(k)
       \/ OnClose(k)
       \/ ServerStep(k)
       \/ \E type \in {0, 2} : ServerTalk(k, type)
       \/ Timeout(k)

Spec == Init /\ [][Next]_vars

\* The client's message loop and the server's threads run; the user and the
\* network owe nothing beyond the connection that was asked for.
FairSpec ==
  /\ Spec
  /\ WF_vars(ClientStep)
  /\ \A k \in Socket : WF_vars(ServerStep(k))

-----------------------------------------------------------------------------
(* Properties.                                                              *)

\* The data an end is about to handle was decrypted the way it was encrypted,
\* although each end decides on its own, and once per call of DataReceived.
\* (The one exception is the disconnect packet of a time-out that crosses the
\* client's key response.)
ReadAsWritten ==
  /\ \A i \in 1..Len(received) : received[i].ok \/ <<received[i].state, received[i].type>> = <<2, 0>>
  /\ \A k \in Socket : \A i \in 1..Len(sreceived[k]) : sreceived[k][i].ok

\* A packet meets the handler it was written for: the next packet to be handled
\* was written for the protocol state its reader is in (else the reader runs into
\* its assertion "Read wrong number of bytes!", or takes one packet for another).
MeantForReader ==
  /\ reading /\ received # <<>> /\ Head(received).ok => Head(received).state = state
  /\ \A k \in Socket :
       Live(k) /\ sreceived[k] # <<>> => Head(sreceived[k]).state = sstate[k]

\* Nobody works in the clear, and nobody encrypts without a key: a client in
\* state 3 encrypts, and so does a server in state 3 unless it has kicked the
\* client; m_Encryptor is there whenever SendData would use it.  The server
\* accepts a LoginInfo without a key exchange; it is the order of the client's
\* packets, and the kick for a packet of another state, that keep this up.
WorkIsEncrypted ==
  /\ state = 3 => encrypted
  /\ encrypted => cipher
  /\ \A k \in Socket : sstate[k] = 3 /\ ~hasSentDC[k] => sencrypted[k]

\* A connection that is made leads to the room the user asked for, unless it is
\* lost or kicked.
JoinCompletes ==
  \A k \in Socket :
    link[k] = "established" ~> room \/ link[k] = "closed"

\* A user that leaves is signed out, and may join again.
LeaveCompletes ==
  \A k \in Socket :
    (link[k] = "connected" /\ \E i \in 1..Len(up[k]) : up[k][i].type = 9) ~> link[k] = "closed"
=============================================================================
