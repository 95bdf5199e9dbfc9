---------------------------- MODULE Login_proofs ----------------------------
(* Proofs about Login for any number of connections and any faults.         *)
EXTENDS Login, SequenceTheorems, TLAPS

(***************************************************************************)
(* What is on its way.                                                     *)
(***************************************************************************)

Types == {0, 1, 2, 3, 9, 64}

\* The client gives its name (LoginInfo, type 2 of state 2) encrypted only.
UpPacket == {p \in Packet : p.type = 2 /\ p.state = 2 => p.enc}

\* The server allows the login, confirms it and works encrypted only.
Confidential(p) == p.state = 3 \/ (p.state = 2 /\ p.type \in {2, 3})

DownPacket == {p \in Packet : Confidential(p) => p.enc}

\* The same after decoding; what was read with a key was read by an end that has
\* one and keeps it as long as it keeps the data.
ClientData(key) ==
  {d \in Data : (Confidential(d) => d.enc) /\ (d.ok /\ d.enc => key)}

ServerData(key) ==
  {d \in Data : (d.type = 2 /\ d.state = 2 => d.enc) /\ (d.ok /\ d.enc => key)}

Streams ==
  /\ up \in [Socket -> Seq(UpPacket)]
  /\ down \in [Socket -> Seq(DownPacket)]
  /\ received \in Seq(ClientData(encrypted))
  /\ \A k \in Socket : sreceived[k] \in Seq(ServerData(sencrypted[k]))

\* A login that waits in the authenticator was received encrypted, or is of a
\* client that has been kicked.
Keys ==
  /\ WorkIsEncrypted
  /\ \A k \in Socket : login[k] /\ ~hasSentDC[k] => sencrypted[k]

IInv == TypeOK /\ Streams /\ Keys

(***************************************************************************)
(* Lemmas about the operators of the model.                                *)
(***************************************************************************)

\* Any part of a sequence is a sequence of the same elements.
LEMMA PartType ==
  ASSUME NEW S, NEW s \in Seq(S), NEW n \in 1..Len(s)
  PROVE  /\ SubSeq(s, 1, n) \in Seq(S)
         /\ SubSeq(s, n + 1, Len(s)) \in Seq(S)
         /\ Len(SubSeq(s, 1, n)) = n
         /\ Len(SubSeq(s, n + 1, Len(s))) = Len(s) - n
         /\ \A i \in 1..n : SubSeq(s, 1, n)[i] = s[i]
         /\ \A i \in 1..(Len(s) - n) : SubSeq(s, n + 1, Len(s))[i] = s[n + i]
  <1>1. Len(s) \in Nat /\ n \in Nat /\ n <= Len(s)
    BY LenProperties
  <1>2. (\A i \in 1..n : s[i] \in S) /\ (\A i \in (n + 1)..Len(s) : s[i] \in S)
    BY <1>1, ElementOfSeq
  <1>3. /\ SubSeq(s, 1, n) \in Seq(S)
        /\ Len(SubSeq(s, 1, n)) = n
        /\ \A i \in 1..n : SubSeq(s, 1, n)[i] = s[i]
    <2>1. 1 \in Int /\ n \in Int /\ 1 <= n /\ n - 1 + 1 = n
      BY <1>1
    <2>2. \A i \in 1..n : 1 + i - 1 = i
      OBVIOUS
    <2> QED BY <1>2, <2>1, <2>2, SubSeqProperties
  <1>4. /\ SubSeq(s, n + 1, Len(s)) \in Seq(S)
        /\ Len(SubSeq(s, n + 1, Len(s))) = Len(s) - n
        /\ \A i \in 1..(Len(s) - n) : SubSeq(s, n + 1, Len(s))[i] = s[n + i]
    <2> DEFINE m == n + 1
    <2>1. /\ m \in Int /\ Len(s) \in Int
          /\ Len(s) - m + 1 = Len(s) - n
          /\ (IF m <= Len(s) THEN Len(s) - m + 1 ELSE 0) = Len(s) - n
      BY <1>1
    <2>2. \A i \in 1..(Len(s) - n) : m + i - 1 = n + i
      BY <1>1
    <2>3. \A i \in m..Len(s) : s[i] \in S
      BY <1>2
    <2> HIDE DEF m
    <2>4. /\ SubSeq(s, m, Len(s)) \in Seq(S)
          /\ Len(SubSeq(s, m, Len(s))) = IF m <= Len(s) THEN Len(s) - m + 1 ELSE 0
          /\ \A i \in 1..(Len(s) - m + 1) : SubSeq(s, m, Len(s))[i] = s[m + i - 1]
      BY <2>1, <2>3, SubSeqProperties
    <2> QED BY <2>1, <2>2, <2>4 DEF m
  <1> QED BY <1>3, <1>4

\* Decode keeps type, state and encryption of every packet and adds whether the
\* reader's idea of the encryption was right.
LEMMA DecodeElements ==
  ASSUME NEW s \in Seq(Packet), NEW e \in BOOLEAN
  PROVE  /\ Len(Decode(s, e)) = Len(s)
         /\ \A i \in 1..Len(s) :
              /\ s[i] \in Packet
              /\ Decode(s, e)[i] \in Data
              /\ Decode(s, e)[i].type = s[i].type
              /\ Decode(s, e)[i].state = s[i].state
              /\ Decode(s, e)[i].enc = s[i].enc
              /\ Decode(s, e)[i].ok <=> s[i].enc = e
         /\ Decode(s, e) \in Seq(Data)
  <1>1. Len(s) \in Nat
    BY LenProperties
  <1>2. ASSUME NEW i \in 1..Len(s)
        PROVE  /\ s[i] \in Packet
               /\ [type |-> s[i].type, state |-> s[i].state, enc |-> s[i].enc,
                   ok |-> s[i].enc = e] \in Data
    <2>1. s[i] \in Packet
      BY ElementOfSeq
    <2>2. (s[i].enc = e) \in BOOLEAN
      OBVIOUS
    <2> QED BY <2>1, <2>2 DEF Packet, Data
  <1>3. Decode(s, e) = [i \in 1..Len(s) |-> [type |-> s[i].type, state |-> s[i].state,
                                             enc |-> s[i].enc, ok |-> s[i].enc = e]]
    BY DEF Decode
  <1>4. Decode(s, e) \in Seq(Data) /\ Len(Decode(s, e)) = Len(s)
    BY <1>1, <1>2, <1>3
  <1>5. ASSUME NEW i \in 1..Len(s)
        PROVE  /\ s[i] \in Packet
               /\ Decode(s, e)[i] \in Data
               /\ Decode(s, e)[i].type = s[i].type
               /\ Decode(s, e)[i].state = s[i].state
               /\ Decode(s, e)[i].enc = s[i].enc
               /\ Decode(s, e)[i].ok <=> s[i].enc = e
    <2>1. Decode(s, e)[i] = [type |-> s[i].type, state |-> s[i].state,
                             enc |-> s[i].enc, ok |-> s[i].enc = e]
      BY <1>1, <1>3
    <2>2. /\ s[i] \in Packet
          /\ Decode(s, e)[i] \in Data
          /\ Decode(s, e)[i].type = s[i].type
          /\ Decode(s, e)[i].state = s[i].state
      BY <1>2, <2>1
    <2>3. Decode(s, e)[i].enc = s[i].enc
      BY <2>1
    <2>4. Decode(s, e)[i].ok = (s[i].enc = e)
      BY <2>1
    <2>5. Decode(s, e)[i].ok <=> s[i].enc = e
      BY <2>4
    <2> QED BY <2>2, <2>3, <2>5
  <1> QED BY <1>4, <1>5

\* A sequence whose elements are in S is a sequence over S.
LEMMA SeqElements ==
  ASSUME NEW S, NEW T, NEW t \in Seq(T), \A i \in 1..Len(t) : t[i] \in S
  PROVE  t \in Seq(S)
  <1>1. Len(t) \in Nat /\ t \in [1..Len(t) -> T] /\ DOMAIN t = 1..Len(t)
    BY LenProperties
  <1>2. t \in [1..Len(t) -> S]
    BY <1>1
  <1> QED BY <1>1, <1>2

\* A key that is kept or made leaves the data what they were.
LEMMA KeyKept ==
  ASSUME NEW e \in BOOLEAN, NEW f \in BOOLEAN, e => f
  PROVE  ClientData(e) \subseteq ClientData(f) /\ ServerData(e) \subseteq ServerData(f)
  BY DEF ClientData, ServerData

LEMMA ReadDown ==
  ASSUME NEW s \in Seq(DownPacket), NEW e \in BOOLEAN
  PROVE  Decode(s, e) \in Seq(ClientData(e))
  <1>1. s \in Seq(Packet)
    BY SeqMonotonic DEF DownPacket
  <1>2. ASSUME NEW i \in 1..Len(s) PROVE Decode(s, e)[i] \in ClientData(e)
    <2>1. s[i] \in DownPacket
      BY ElementOfSeq
    <2>2. Confidential(Decode(s, e)[i]) <=> Confidential(s[i])
      BY <1>1, DecodeElements DEF Confidential
    <2>3. Confidential(Decode(s, e)[i]) => Decode(s, e)[i].enc
      BY <1>1, <2>1, <2>2, DecodeElements DEF DownPacket
    <2>4. Decode(s, e)[i].ok /\ Decode(s, e)[i].enc => e
      BY <1>1, <2>1, DecodeElements DEF DownPacket, Packet
    <2> QED BY <1>1, <2>3, <2>4, DecodeElements DEF ClientData
  <1>3. Decode(s, e) \in Seq(Data) /\ Len(Decode(s, e)) = Len(s)
    BY <1>1, DecodeElements
  <1> QED BY <1>2, <1>3, SeqElements

LEMMA ReadUp ==
  ASSUME NEW s \in Seq(UpPacket), NEW e \in BOOLEAN
  PROVE  Decode(s, e) \in Seq(ServerData(e))
  <1>1. s \in Seq(Packet)
    BY SeqMonotonic DEF UpPacket
  <1>2. ASSUME NEW i \in 1..Len(s) PROVE Decode(s, e)[i] \in ServerData(e)
    <2>1. s[i] \in UpPacket
      BY ElementOfSeq
    <2>2. /\ Decode(s, e)[i].type = 2 /\ Decode(s, e)[i].state = 2 => Decode(s, e)[i].enc
      BY <1>1, <2>1, DecodeElements DEF UpPacket
    <2>3. Decode(s, e)[i].ok /\ Decode(s, e)[i].enc => e
      BY <1>1, <2>1, DecodeElements DEF UpPacket, Packet
    <2> QED BY <1>1, <2>2, <2>3, DecodeElements DEF ServerData
  <1>3. Decode(s, e) \in Seq(Data) /\ Len(Decode(s, e)) = Len(s)
    BY <1>1, DecodeElements
  <1> QED BY <1>2, <1>3, SeqElements

\* What is sent up or written down keeps to the kind of packet it is meant to be.
LEMMA SendStream ==
  ASSUME NEW S, up \in [Socket -> Seq(S)], sock \in Socket \cup {0},
         NEW type, NEW st, NEW enc, [type |-> type, state |-> st, enc |-> enc] \in S,
         Send(type, st, enc)
  PROVE  up' \in [Socket -> Seq(S)]
  <1> DEFINE p == [type |-> type, state |-> st, enc |-> enc]
  <1>1. p \in S
    OBVIOUS
  <1>2. up' = up \/ (sock \in Socket /\ up' = [up EXCEPT ![sock] = Append(up[sock], p)])
    BY DEF Send
  <1> HIDE DEF p
  <1>3. sock \in Socket => Append(up[sock], p) \in Seq(S)
    BY <1>1, AppendProperties
  <1> QED BY <1>2, <1>3

LEMMA WriteStream ==
  ASSUME NEW S, down \in [Socket -> Seq(S)], NEW k \in Socket,
         NEW T, NEW ts \in Seq(T), NEW enc,
         ~hasSentDC[k] => \A i \in 1..Len(ts) :
            [type |-> ts[i], state |-> sstate[k], enc |-> enc] \in S,
         Write(k, ts, enc)
  PROVE  down' \in [Socket -> Seq(S)]
  <1> DEFINE w == [i \in 1..Len(ts) |-> [type |-> ts[i], state |-> sstate[k], enc |-> enc]]
  <1>1. Len(ts) \in Nat
    BY LenProperties
  <1>2. ~hasSentDC[k] => w \in Seq(S)
    BY <1>1
  <1>3. down' = [down EXCEPT ![k] = IF hasSentDC[k] THEN down[k] ELSE down[k] \o w]
    BY DEF Write, Written
  <1> HIDE DEF w
  <1>4. ~hasSentDC[k] => down[k] \o w \in Seq(S)
    BY <1>2, ConcatProperties
  <1> QED BY <1>3, <1>4

(***************************************************************************)
(* The handlers of the two ends.                                           *)
(***************************************************************************)

\* A packet the client handles is one of the data it has read, and was read with
\* the key it was written with.
LEMMA ClientHead ==
  ASSUME IInv, HandlePacket
  PROVE  /\ Head(received) \in Data /\ Head(received).ok
         /\ Confidential(Head(received)) => encrypted
         /\ Tail(received) \in Seq(ClientData(encrypted))
  <1>1. received # <<>> /\ received \in Seq(ClientData(encrypted)) /\ Head(received).ok
    BY DEF IInv, Streams, HandlePacket
  <1>2. Head(received) \in ClientData(encrypted)
          /\ Tail(received) \in Seq(ClientData(encrypted))
    BY <1>1, HeadTailProperties
  <1> QED BY <1>1, <1>2 DEF ClientData

\* A packet that goes up is typed, and a LoginInfo is encrypted.
LEMMA SendUp ==
  ASSUME IInv, NEW type \in Types, NEW st \in 1..3, NEW enc \in BOOLEAN,
         type = 2 /\ st = 2 => enc, Send(type, st, enc)
  PROVE  up' \in [Socket -> Seq(UpPacket)]
  <1>1. [type |-> type, state |-> st, enc |-> enc] \in UpPacket
    BY DEF UpPacket, Packet, Types
  <1> QED BY <1>1, SendStream DEF IInv, TypeOK, Streams

\* What a packet does to the client: it is forgotten with the session, or taken
\* from the data, with a step of the login and an answer.
Answered ==
  /\ received' = Tail(received)
  /\ up' \in [Socket -> Seq(UpPacket)]
  /\ \/ state' = state
     \/ state = 1 /\ state' = 2
     \/ state = 2 /\ state' = 3 /\ encrypted
  /\ \/ encrypted' = encrypted /\ cipher' = cipher
     \/ encrypted' = TRUE /\ cipher' = TRUE
  /\ reading' = reading \/ reading' = FALSE
  /\ room' = room \/ room' = TRUE
  /\ UNCHANGED <<sock, connected, crashed, link, down>>

SignedOut == SignOut /\ (room' = room \/ room' = FALSE)

LEMMA ClientHandles ==
  ASSUME IInv, HandlePacket
  PROVE  (Answered \/ SignedOut) /\ UNCHANGED <<serverVars, chatter>>
  <1> DEFINE p == Head(received)
  <1>1. /\ p \in Data /\ p.ok /\ (Confidential(p) => encrypted)
        /\ up \in [Socket -> Seq(UpPacket)] /\ state \in 1..3 /\ encrypted \in BOOLEAN
    BY ClientHead DEF IInv, TypeOK, Streams
  <1>2. UNCHANGED <<serverVars, chatter>>
    BY DEF HandlePacket
  <1>3. \/ HandlePacketStatusRequest(p)
        \/ HandleErrorCode(p)
        \/ SendEncryptionKeyResponse(p)
        \/ HandlePacketLoginAllow(p)
        \/ HandlePacketLoginSuccess(p)
        \/ HandlePacketKeepAlive(p)
        \/ HandlePacketRoomJoin(p)
        \/ HandlePacketChannelMsg(p)
        \/ HandlePacketRoomLeft(p)
        \/ PacketError(p)
        \/ PacketUnknown(p)
    BY DEF HandlePacket
  <1> HIDE DEF p
  <1> USE DEF Handled, Types
  <1>4. CASE HandlePacketStatusRequest(p)
    <2>1. up' \in [Socket -> Seq(UpPacket)]
      BY <1>1, <1>4, SendUp DEF HandlePacketStatusRequest
    <2> QED BY <1>2, <1>4, <2>1 DEF HandlePacketStatusRequest, Answered
  <1>5. CASE HandleErrorCode(p)
    BY <1>2, <1>5 DEF HandleErrorCode, SignedOut
  <1>6. CASE SendEncryptionKeyResponse(p)
    <2>1. up' \in [Socket -> Seq(UpPacket)]
      BY <1>1, <1>6, SendUp DEF SendEncryptionKeyResponse
    <2> QED BY <1>2, <1>6, <2>1 DEF SendEncryptionKeyResponse, Answered
  <1>7. CASE HandlePacketLoginAllow(p)
    <2>1. Confidential(p)
      BY <1>7 DEF HandlePacketLoginAllow, ClientReads, Confidential
    <2>2. up' \in [Socket -> Seq(UpPacket)]
      BY <1>1, <1>7, <2>1, SendUp DEF HandlePacketLoginAllow
    <2> QED BY <1>2, <1>7, <2>2 DEF HandlePacketLoginAllow, Answered
  <1>8. CASE HandlePacketLoginSuccess(p)
    <2>1. Confidential(p)
      BY <1>8 DEF HandlePacketLoginSuccess, ClientReads, Confidential
    <2>2. up' \in [Socket -> Seq(UpPacket)]
      BY <1>1, <1>8, SendUp DEF HandlePacketLoginSuccess
    <2> QED BY <1>1, <1>2, <1>8, <2>1, <2>2 DEF HandlePacketLoginSuccess, Answered
  <1>9. CASE HandlePacketKeepAlive(p)
    <2>1. up' \in [Socket -> Seq(UpPacket)]
      BY <1>1, <1>9, SendUp DEF HandlePacketKeepAlive
    <2> QED BY <1>2, <1>9, <2>1 DEF HandlePacketKeepAlive, Answered
  <1>10. CASE HandlePacketRoomJoin(p)
    BY <1>1, <1>2, <1>10 DEF HandlePacketRoomJoin, Answered
  <1>11. CASE HandlePacketChannelMsg(p)
    BY <1>1, <1>2, <1>11 DEF HandlePacketChannelMsg, Answered
  <1>12. CASE HandlePacketRoomLeft(p)
    BY <1>2, <1>12 DEF HandlePacketRoomLeft, SignedOut
  <1>13. CASE PacketError(p)
    BY <1>1, <1>2, <1>13 DEF PacketError, Answered
  <1>14. CASE PacketUnknown(p)
    BY <1>1, <1>2, <1>14 DEF PacketUnknown, Answered
  <1> QED BY <1>3, <1>4, <1>5, <1>6, <1>7, <1>8, <1>9, <1>10, <1>11, <1>12, <1>13, <1>14

\* A packet the server handles was read with the key it was written with.
LEMMA ServerHead ==
  ASSUME IInv, NEW k \in Socket, ServerHandlePacket(k)
  PROVE  /\ Head(sreceived[k]) \in Data /\ Head(sreceived[k]).ok
         /\ Head(sreceived[k]).type = 2 /\ Head(sreceived[k]).state = 2 => sencrypted[k]
         /\ Tail(sreceived[k]) \in Seq(ServerData(sencrypted[k]))
  <1>1. /\ sreceived[k] # <<>> /\ sreceived[k] \in Seq(ServerData(sencrypted[k]))
        /\ Head(sreceived[k]).ok
    BY DEF IInv, Streams, ServerHandlePacket
  <1>2. Head(sreceived[k]) \in ServerData(sencrypted[k])
          /\ Tail(sreceived[k]) \in Seq(ServerData(sencrypted[k]))
    BY <1>1, HeadTailProperties
  <1> QED BY <1>1, <1>2 DEF ServerData

\* What the server writes with its own flag is in the clear only before the key
\* exchange, and then it is a status reply, a key request or a kick.
LEMMA WriteDown ==
  ASSUME IInv, NEW k \in Socket, NEW ts \in Seq(Types), NEW enc \in BOOLEAN,
         sencrypted[k] => enc,
         enc \/ \A i \in 1..Len(ts) : ts[i] \notin {2, 3}, Write(k, ts, enc)
  PROVE  down' \in [Socket -> Seq(DownPacket)]
  <1>1. ASSUME ~hasSentDC[k], NEW i \in 1..Len(ts)
        PROVE  [type |-> ts[i], state |-> sstate[k], enc |-> enc] \in DownPacket
    <2>1. ts[i] \in Types /\ sstate[k] \in 1..3
      BY ElementOfSeq DEF IInv, TypeOK
    <2>2. sstate[k] = 3 => enc
      BY <1>1 DEF IInv, Keys, WorkIsEncrypted
    <2> QED BY <2>1, <2>2 DEF DownPacket, Packet, Confidential, Types
  <1> QED BY <1>1, WriteStream DEF IInv, Streams

\* The sequences of one packet type that the handlers write.
LEMMA OneType ==
  ASSUME NEW t \in Types
  PROVE  <<t>> \in Seq(Types) /\ Len(<<t>>) = 1 /\ <<t>>[1] = t
  <1> HIDE DEF Types
  <1> QED OBVIOUS

\* A disconnect packet is none that has to be encrypted before the work begins.
LEMMA DisconnectTypes ==
  ASSUME IInv, NEW k \in Socket
  PROVE  /\ Disconnect(k) \in Seq(Types)
         /\ \A i \in 1..Len(Disconnect(k)) : Disconnect(k)[i] \notin {2, 3}
  <1>1. sstate[k] \in 1..3
    BY DEF IInv, TypeOK
  <1>2. Disconnect(k) = <<>> \/ Disconnect(k) = <<0>> \/ Disconnect(k) = <<64>>
    BY <1>1 DEF Disconnect
  <1>3. CASE Disconnect(k) = <<>>
    BY <1>3, EmptySeq
  <1>4. CASE Disconnect(k) = <<0>>
    <2>1. 0 \in Types
      BY DEF Types
    <2> QED BY <1>4, <2>1, OneType
  <1>5. CASE Disconnect(k) = <<64>>
    <2>1. 64 \in Types
      BY DEF Types
    <2> QED BY <1>5, <2>1, OneType
  <1> QED BY <1>2, <1>3, <1>4, <1>5

LEMMA ReplyDown ==
  ASSUME IInv, NEW k \in Socket, NEW p, NEW ts \in Seq(Types), NEW enc \in BOOLEAN,
         sencrypted[k] => enc, enc \/ \A i \in 1..Len(ts) : ts[i] \notin {2, 3},
         Reply(k, p, ts, enc)
  PROVE  /\ down' \in [Socket -> Seq(DownPacket)]
         /\ hasSentDC' = hasSentDC \/ hasSentDC' = [hasSentDC EXCEPT ![k] = TRUE]
         /\ p.state # sstate[k] => hasSentDC' = [hasSentDC EXCEPT ![k] = TRUE]
  <1>1. CASE p.state = sstate[k]
    BY <1>1, WriteDown DEF Reply
  <1>2. CASE p.state # sstate[k]
    <2> DEFINE d == Disconnect(k)
    <2>1. d \in Seq(Types) /\ \A i \in 1..Len(d) : d[i] \notin {2, 3}
      BY DisconnectTypes
    <2>2. Write(k, ts \o d, enc) /\ hasSentDC' = [hasSentDC EXCEPT ![k] = TRUE]
      BY <1>2 DEF Reply
    <2> HIDE DEF d
    <2>3. ts \o d \in Seq(Types)
      BY <2>1, ConcatProperties
    <2>4. enc \/ \A i \in 1..Len(ts \o d) : (ts \o d)[i] \notin {2, 3}
      <3>1. /\ Len(ts) \in Nat /\ Len(d) \in Nat
            /\ Len(ts \o d) = Len(ts) + Len(d)
            /\ \A i \in 1..(Len(ts) + Len(d)) :
                 (ts \o d)[i] = IF i <= Len(ts) THEN ts[i] ELSE d[i - Len(ts)]
        BY <2>1, ConcatProperties, LenProperties
      <3> QED BY <2>1, <3>1
    <2> QED BY <1>2, <2>2, <2>3, <2>4, WriteDown
  <1> QED BY <1>1, <1>2

\* A handler that answers with the server's own flag: nothing, a status reply, or
\* a key request.
LEMMA PlainReply ==
  ASSUME IInv, NEW k \in Socket, NEW p, NEW ts, ts = <<>> \/ ts = << 0 >> \/ ts = << 1 >>,
         Reply(k, p, ts, sencrypted[k])
  PROVE  /\ down' \in [Socket -> Seq(DownPacket)]
         /\ hasSentDC' = hasSentDC \/ hasSentDC' = [hasSentDC EXCEPT ![k] = TRUE]
         /\ p.state # sstate[k] => hasSentDC' = [hasSentDC EXCEPT ![k] = TRUE]
  <1>1. 0 \in Types /\ 1 \in Types
    BY DEF Types
  <1>2. ts \in Seq(Types) /\ \A i \in 1..Len(ts) : ts[i] \notin {2, 3}
    <2>1. CASE ts = <<>>
      BY <2>1, EmptySeq
    <2>2. CASE ts = <<0>>
      BY <1>1, <2>2, OneType
    <2>3. CASE ts = <<1>>
      BY <1>1, <2>3, OneType
    <2> QED BY <2>1, <2>2, <2>3
  <1>3. sencrypted[k] \in BOOLEAN
    BY DEF IInv, TypeOK
  <1> QED BY <1>2, <1>3, ReplyDown

\* What a packet does to the server's end: an answer, at most one step of the
\* state and of the encryption, a login that was received encrypted or is of a
\* client that is kicked for it.
Served(k) ==
  /\ sreceived' = [sreceived EXCEPT ![k] = Tail(sreceived[k])]
  /\ down' \in [Socket -> Seq(DownPacket)]
  /\ hasSentDC' = hasSentDC \/ hasSentDC' = [hasSentDC EXCEPT ![k] = TRUE]
  /\ sstate' = sstate \/ sstate' = [sstate EXCEPT ![k] = 2]
  /\ sencrypted' = sencrypted \/ sencrypted' = [sencrypted EXCEPT ![k] = TRUE]
  /\ \/ login' = login
     \/ /\ login' = [login EXCEPT ![k] = TRUE]
        /\ sencrypted[k] \/ hasSentDC' = [hasSentDC EXCEPT ![k] = TRUE]
  /\ \/ requests' = requests
     \/ \E r \in {"join", "left"} : requests' = [requests EXCEPT ![k] = Append(requests[k], r)]
  /\ UNCHANGED <<clientVars, link, up, chatter>>

LEMMA ServerHandles ==
  ASSUME IInv, NEW k \in Socket, ServerHandlePacket(k)
  PROVE  Served(k)
  <1> DEFINE p == Head(sreceived[k])
  <1>1. /\ p \in Data /\ (p.type = 2 /\ p.state = 2 => sencrypted[k])
        /\ sencrypted[k] \in BOOLEAN /\ sstate[k] \in 1..3
    BY ServerHead DEF IInv, TypeOK
  <1>2. /\ sreceived' = [sreceived EXCEPT ![k] = Tail(sreceived[k])]
        /\ UNCHANGED <<clientVars, link, up, chatter>>
    BY DEF ServerHandlePacket
  <1>3. \/ ServerStatusRequest(k, p)
        \/ ServerLoginStart(k, p)
        \/ StartEncryption(k, p)
        \/ ServerLoginInfo(k, p)
        \/ ServerWork(k, p)
        \/ ServerRoom(k, p)
        \/ ServerKick(k, p)
    BY DEF ServerHandlePacket
  <1> HIDE DEF p
  <1>4. 2 \in Types
    BY DEF Types
  <1>5. <<2>> \in Seq(Types)
    BY <1>4, OneType
  <1>6. CASE ServerStatusRequest(k, p)
    BY <1>2, <1>6, PlainReply DEF ServerStatusRequest, Served
  <1>7. CASE ServerLoginStart(k, p)
    BY <1>2, <1>7, PlainReply DEF ServerLoginStart, Served
  <1>8. CASE StartEncryption(k, p)
    BY <1>1, <1>2, <1>5, <1>8, ReplyDown DEF StartEncryption, Served
  <1>9. CASE ServerLoginInfo(k, p)
    <2>1. /\ down' \in [Socket -> Seq(DownPacket)]
          /\ hasSentDC' = hasSentDC \/ hasSentDC' = [hasSentDC EXCEPT ![k] = TRUE]
          /\ p.state # sstate[k] => hasSentDC' = [hasSentDC EXCEPT ![k] = TRUE]
      BY <1>9, PlainReply DEF ServerLoginInfo
    <2>2. sencrypted[k] \/ hasSentDC' = [hasSentDC EXCEPT ![k] = TRUE]
      BY <1>1, <1>9, <2>1 DEF ServerLoginInfo
    <2> QED BY <1>2, <1>9, <2>1, <2>2 DEF ServerLoginInfo, Served
  <1>10. CASE ServerWork(k, p)
    BY <1>2, <1>10, PlainReply DEF ServerWork, Served
  <1>11. CASE ServerRoom(k, p)
    <2>1. /\ down' \in [Socket -> Seq(DownPacket)]
          /\ hasSentDC' = hasSentDC \/ hasSentDC' = [hasSentDC EXCEPT ![k] = TRUE]
      BY <1>11, PlainReply DEF ServerRoom
    <2> QED BY <1>2, <1>11, <2>1 DEF ServerRoom, Served
  <1>12. CASE ServerKick(k, p)
    <2> DEFINE d == Disconnect(k)
    <2>1. /\ d \in Seq(Types) /\ (\A i \in 1..Len(d) : d[i] \notin {2, 3})
          /\ Write(k, d, sencrypted[k])
      BY <1>12, DisconnectTypes DEF ServerKick
    <2> HIDE DEF d
    <2>2. down' \in [Socket -> Seq(DownPacket)]
      BY <1>1, <2>1, WriteDown
    <2> QED BY <1>2, <1>12, <2>2 DEF ServerKick, Served
  <1> QED BY <1>3, <1>6, <1>7, <1>8, <1>9, <1>10, <1>11, <1>12

\* The parts of TypeOK: the flags, and what is no flag.
Flags ==
  /\ connected \in BOOLEAN
  /\ encrypted \in BOOLEAN
  /\ cipher \in BOOLEAN
  /\ reading \in BOOLEAN
  /\ room \in BOOLEAN
  /\ crashed \in BOOLEAN
  /\ sencrypted \in [Socket -> BOOLEAN]
  /\ hasSentDC \in [Socket -> BOOLEAN]
  /\ login \in [Socket -> BOOLEAN]

Values ==
  /\ sock \in Socket \cup {0}
  /\ state \in 1..3
  /\ link \in [Socket -> {"none", "connecting", "established", "connected", "closed"}]
  /\ sstate \in [Socket -> 1..3]
  /\ requests \in [Socket -> Seq({"join", "left"})]
  /\ chatter \in 0..MaxChatter
  /\ DOMAIN sreceived = Socket
  /\ sreceived = [k \in Socket |-> sreceived[k]]

LEMMA TypeParts ==
  /\ TypeOK => Flags /\ Values
  /\ Flags /\ Values /\ Streams => TypeOK
  <1>1. TypeOK => Flags /\ Values
    BY DEF TypeOK, Flags, Values
  <1>2. ASSUME Flags, Values, Streams PROVE TypeOK
    <2>1. up \in [Socket -> Seq(Packet)] /\ down \in [Socket -> Seq(Packet)]
      <3>1. Seq(UpPacket) \subseteq Seq(Packet) /\ Seq(DownPacket) \subseteq Seq(Packet)
        BY SeqMonotonic DEF UpPacket, DownPacket
      <3> QED BY <1>2, <3>1 DEF Streams
    <2>2. received \in Seq(Data)
      <3>1. Seq(ClientData(encrypted)) \subseteq Seq(Data)
        BY SeqMonotonic DEF ClientData
      <3> QED BY <1>2, <3>1 DEF Streams
    <2>3. sreceived \in [Socket -> Seq(Data)]
      <3>1. ASSUME NEW k \in Socket PROVE sreceived[k] \in Seq(Data)
        <4>1. Seq(ServerData(sencrypted[k])) \subseteq Seq(Data)
          BY SeqMonotonic DEF ServerData
        <4> QED BY <1>2, <4>1 DEF Streams
      <3> QED BY <1>2, <3>1 DEF Values
    <2> QED BY <1>2, <2>1, <2>2, <2>3 DEF TypeOK, Flags, Values
  <1> QED BY <1>1, <1>2

LEMMA InitHolds == Init => IInv
  <1> SUFFICES ASSUME Init PROVE IInv
    OBVIOUS
  <1> USE LoginAssumption DEF Init
  <1>1. Flags
    BY DEF Flags
  <1>2. Values
    <2>1. <<>> \in Seq({"join", "left"})
      BY EmptySeq
    <2> QED BY <2>1 DEF Values
  <1>3. Streams
    <2>1. /\ <<>> \in Seq(UpPacket) /\ <<>> \in Seq(DownPacket)
          /\ \A e : <<>> \in Seq(ClientData(e)) /\ <<>> \in Seq(ServerData(e))
      BY EmptySeq
    <2> QED BY <2>1 DEF Streams
  <1>4. Keys
    BY DEF Keys, WorkIsEncrypted
  <1> QED BY <1>1, <1>2, <1>3, <1>4, TypeParts DEF IInv

\* Every action keeps the types of the flags.
LEMMA FlagsStep == ASSUME IInv, Flags, [Next]_vars PROVE Flags'
  <1> USE DEF Flags, clientVars, serverVars
  <1>1. ASSUME NEW k \in Socket, OnConnect(k) PROVE Flags'
    BY <1>1 DEF OnConnect
  <1>2. ASSUME NEW k \in Socket, OnRead(k) PROVE Flags'
    BY <1>2 DEF OnRead
  <1>3. ASSUME HandlePacket PROVE Flags'
    BY <1>3, ClientHandles DEF Answered, SignedOut, SignOut
  <1>4. ASSUME ReadEnd PROVE Flags'
    BY <1>4 DEF ReadEnd
  <1>5. ASSUME LeaveChannel PROVE Flags'
    BY <1>5 DEF LeaveChannel
  <1>6. ASSUME SendToChannel PROVE Flags'
    BY <1>6 DEF SendToChannel
  <1>7. ASSUME NEW k \in Socket, JoinChannel(k) PROVE Flags'
    BY <1>7 DEF JoinChannel
  <1>8. ASSUME NEW k \in Socket, ConnectFails(k) PROVE Flags'
    BY <1>8 DEF ConnectFails
  <1>9. ASSUME NEW k \in Socket, OnClose(k) PROVE Flags'
    BY <1>9 DEF OnClose
  <1>10. ASSUME NEW k \in Socket, Established(k) PROVE Flags'
    BY <1>10 DEF Established
  <1>11. ASSUME NEW k \in Socket, ServerTick(k) PROVE Flags'
    BY <1>11 DEF ServerTick
  <1>12. ASSUME NEW k \in Socket, ServerHandlePacket(k) PROVE Flags'
    BY <1>12, ServerHandles DEF Served
  <1>13. ASSUME NEW k \in Socket, SendLoginSuccess(k) PROVE Flags'
    BY <1>13 DEF SendLoginSuccess
  <1>14. ASSUME NEW k \in Socket, ChannelResult(k) PROVE Flags'
    BY <1>14 DEF ChannelResult
  <1>15. ASSUME NEW k \in Socket, NEW type \in {0, 2}, ServerTalk(k, type)
        PROVE  Flags'
    BY <1>15 DEF ServerTalk
  <1>16. ASSUME NEW k \in Socket, Timeout(k) PROVE Flags'
    BY <1>16 DEF Timeout
  <1>17. CASE UNCHANGED vars
    BY <1>17 DEF vars, clientVars, serverVars
  <1> QED
    BY <1>1, <1>2, <1>3, <1>4, <1>5, <1>6, <1>7, <1>8, <1>9, <1>10, <1>11,
       <1>12, <1>13, <1>14, <1>15, <1>16, <1>17
       DEF Next, ClientStep, ServerStep

\* Every action keeps the types of the rest.
LEMMA ValuesStep == ASSUME IInv, Values, [Next]_vars PROVE Values'
  <1> USE LoginAssumption DEF Values, clientVars, serverVars
  <1>1. ASSUME NEW k \in Socket, OnConnect(k) PROVE Values'
    BY <1>1 DEF OnConnect
  <1>2. ASSUME NEW k \in Socket, OnRead(k) PROVE Values'
    BY <1>2 DEF OnRead
  <1>3. ASSUME HandlePacket PROVE Values'
    <2>1. CASE Answered
      BY <1>3, <2>1, ClientHandles DEF Answered
    <2>2. CASE SignedOut
      <3>1. link' = link \/ (sock \in Socket /\ link' = [link EXCEPT ![sock] = "closed"])
        BY <2>2 DEF SignedOut, SignOut
      <3>2. sock' = 0 /\ state' = 1
        BY <2>2 DEF SignedOut, SignOut
      <3>3. UNCHANGED <<sstate, requests, chatter, sreceived>>
        BY <1>3, ClientHandles
      <3> QED BY <3>1, <3>2, <3>3
    <2> QED BY <1>3, <2>1, <2>2, ClientHandles
  <1>4. ASSUME ReadEnd PROVE Values'
    BY <1>4 DEF ReadEnd
  <1>5. ASSUME LeaveChannel PROVE Values'
    BY <1>5 DEF LeaveChannel
  <1>6. ASSUME SendToChannel PROVE Values'
    BY <1>6 DEF SendToChannel
  <1>7. ASSUME NEW k \in Socket, JoinChannel(k) PROVE Values'
    BY <1>7 DEF JoinChannel
  <1>8. ASSUME NEW k \in Socket, ConnectFails(k) PROVE Values'
    BY <1>8 DEF ConnectFails
  <1>9. ASSUME NEW k \in Socket, OnClose(k) PROVE Values'
    BY <1>9 DEF OnClose
  <1>10. ASSUME NEW k \in Socket, Established(k) PROVE Values'
    BY <1>10 DEF Established
  <1>11. ASSUME NEW k \in Socket, ServerTick(k) PROVE Values'
    BY <1>11 DEF ServerTick
  <1>12. ASSUME NEW k \in Socket, ServerHandlePacket(k) PROVE Values'
    <2>1. Served(k)
      BY <1>12, ServerHandles
    <2> DEFINE E == {"join", "left"}
    <2>2. requests[k] \in Seq(E)
      OBVIOUS
    <2> HIDE DEF E
    <2>3. \A r \in E : Append(requests[k], r) \in Seq(E)
      BY <2>2, AppendProperties
    <2>4. requests' \in [Socket -> Seq({"join", "left"})]
      <3>1. requests' = requests \/ \E r \in E : requests' = [requests EXCEPT ![k] = Append(requests[k], r)]
        BY <2>1 DEF Served, E
      <3>2. requests \in [Socket -> Seq(E)]
        BY DEF E
      <3>3. requests' \in [Socket -> Seq(E)]
        BY ONLY <2>3, <3>1, <3>2, k \in Socket
      <3> QED BY <3>3 DEF E
    <2>5. sstate' \in [Socket -> 1..3]
      <3>1. sstate' = sstate \/ sstate' = [sstate EXCEPT ![k] = 2]
        BY <2>1 DEF Served
      <3>2. sstate \in [Socket -> 1..3] /\ 2 \in 1..3
        OBVIOUS
      <3> QED BY ONLY <3>1, <3>2
    <2> QED BY <2>1, <2>4, <2>5 DEF Served
  <1>13. ASSUME NEW k \in Socket, SendLoginSuccess(k) PROVE Values'
    BY <1>13 DEF SendLoginSuccess
  <1>14. ASSUME NEW k \in Socket, ChannelResult(k) PROVE Values'
    <2> DEFINE E == {"join", "left"}
    <2>1. requests[k] \in Seq(E) /\ requests[k] # <<>>
      BY <1>14 DEF ChannelResult
    <2> HIDE DEF E
    <2>2. Tail(requests[k]) \in Seq(E)
      BY <2>1, HeadTailProperties
    <2>3. requests' \in [Socket -> Seq({"join", "left"})]
      BY <1>14, <2>2 DEF ChannelResult, E
    <2> QED BY <1>14, <2>3 DEF ChannelResult
  <1>15. ASSUME NEW k \in Socket, NEW type \in {0, 2}, ServerTalk(k, type)
        PROVE  Values'
    BY <1>15 DEF ServerTalk
  <1>16. ASSUME NEW k \in Socket, Timeout(k) PROVE Values'
    BY <1>16 DEF Timeout
  <1>17. CASE UNCHANGED vars
    BY <1>17 DEF vars, clientVars, serverVars
  <1> QED
    BY <1>1, <1>2, <1>3, <1>4, <1>5, <1>6, <1>7, <1>8, <1>9, <1>10, <1>11,
       <1>12, <1>13, <1>14, <1>15, <1>16, <1>17
       DEF Next, ClientStep, ServerStep

\* Every action keeps what is on its way what it is.
LEMMA StreamsStep == ASSUME IInv, Streams, [Next]_vars PROVE Streams'
  <1> USE DEF Streams, clientVars, serverVars
  <1>1. ASSUME NEW k \in Socket, OnConnect(k) PROVE Streams'
    <2>1. Send(0, 1, encrypted)
      BY <1>1 DEF OnConnect
    <2>2. 0 \in Types /\ 1 \in 1..3 /\ encrypted \in BOOLEAN
      BY DEF Types, IInv, TypeOK
    <2>3. up' \in [Socket -> Seq(UpPacket)]
      BY <2>1, <2>2, SendUp
    <2> QED BY <1>1, <2>3 DEF OnConnect
  <1>2. ASSUME NEW k \in Socket, OnRead(k) PROVE Streams'
    <2>1. PICK n \in 1..Len(down[k]) :
            /\ received' = received \o Decode(SubSeq(down[k], 1, n), encrypted)
            /\ down' = [down EXCEPT ![k] = SubSeq(down[k], n + 1, Len(down[k]))]
      BY <1>2 DEF OnRead
    <2>2. /\ SubSeq(down[k], 1, n) \in Seq(DownPacket)
          /\ SubSeq(down[k], n + 1, Len(down[k])) \in Seq(DownPacket)
      BY PartType
    <2>3. Decode(SubSeq(down[k], 1, n), encrypted) \in Seq(ClientData(encrypted))
      BY <2>2, ReadDown DEF IInv, TypeOK
    <2>4. received' \in Seq(ClientData(encrypted))
      BY <2>1, <2>3, ConcatProperties
    <2>5. down' \in [Socket -> Seq(DownPacket)]
      BY <2>1, <2>2
    <2> QED BY <1>2, <2>4, <2>5 DEF OnRead
  <1>3. ASSUME HandlePacket PROVE Streams'
    <2>1. CASE Answered
      <3>1. encrypted \in BOOLEAN /\ encrypted' \in BOOLEAN /\ (encrypted => encrypted')
        BY <2>1 DEF Answered, IInv, TypeOK
      <3>2. received' \in Seq(ClientData(encrypted))
        BY <1>3, <2>1, ClientHead DEF Answered
      <3>3. received' \in Seq(ClientData(encrypted'))
        BY <3>1, <3>2, KeyKept, SeqMonotonic
      <3>4. UNCHANGED <<sreceived, sencrypted>>
        BY <1>3, ClientHandles DEF serverVars
      <3> QED BY <2>1, <3>3, <3>4 DEF Answered
    <2>2. CASE SignedOut
      <3>1. received' = <<>>
        BY <2>2 DEF SignedOut, SignOut
      <3>2. received' \in Seq(ClientData(encrypted'))
        BY <3>1, EmptySeq
      <3>3. up' = up \/ (sock \in Socket /\ up' = [up EXCEPT ![sock] = <<>>])
        BY <2>2 DEF SignedOut, SignOut, IInv, TypeOK
      <3>4. down' = down \/ (sock \in Socket /\ down' = [down EXCEPT ![sock] = <<>>])
        BY <2>2 DEF SignedOut, SignOut, IInv, TypeOK
      <3>5. up' \in [Socket -> Seq(UpPacket)] /\ down' \in [Socket -> Seq(DownPacket)]
        BY <3>3, <3>4, EmptySeq
      <3>6. UNCHANGED <<sreceived, sencrypted>>
        BY <1>3, ClientHandles DEF serverVars
      <3> QED BY <3>2, <3>5, <3>6
    <2> QED BY <1>3, <2>1, <2>2, ClientHandles
  <1>4. ASSUME ReadEnd PROVE Streams'
    BY <1>4 DEF ReadEnd
  <1>5. ASSUME LeaveChannel PROVE Streams'
    <2>1. Send(9, state, encrypted)
      BY <1>5 DEF LeaveChannel
    <2>2. 9 \in Types /\ state \in 1..3 /\ encrypted \in BOOLEAN
      BY DEF Types, IInv, TypeOK
    <2>3. up' \in [Socket -> Seq(UpPacket)]
      BY <2>1, <2>2, SendUp
    <2> QED BY <1>5, <2>3 DEF LeaveChannel
  <1>6. ASSUME SendToChannel PROVE Streams'
    <2>1. Send(2, 3, encrypted)
      BY <1>6 DEF SendToChannel
    <2>2. 2 \in Types /\ 3 \in 1..3 /\ encrypted \in BOOLEAN
      BY DEF Types, IInv, TypeOK
    <2>3. up' \in [Socket -> Seq(UpPacket)]
      BY <2>1, <2>2, SendUp
    <2> QED BY <1>6, <2>3 DEF SendToChannel
  <1>7. ASSUME NEW k \in Socket, JoinChannel(k) PROVE Streams'
    BY <1>7 DEF JoinChannel
  <1>8. ASSUME NEW k \in Socket, ConnectFails(k) PROVE Streams'
    BY <1>8 DEF ConnectFails
  <1>9. ASSUME NEW k \in Socket, OnClose(k) PROVE Streams'
    <2>1. up' \in [Socket -> Seq(UpPacket)] /\ down' \in [Socket -> Seq(DownPacket)]
      BY <1>9, EmptySeq DEF OnClose
    <2> QED BY <1>9, <2>1 DEF OnClose
  <1>10. ASSUME NEW k \in Socket, Established(k) PROVE Streams'
    BY <1>10 DEF Established
  <1>11. ASSUME NEW k \in Socket, ServerTick(k) PROVE Streams'
    <2>1. PICK n \in 1..Len(up[k]) :
            /\ sreceived' = [sreceived EXCEPT ![k] = Decode(SubSeq(up[k], 1, n), sencrypted[k])]
            /\ up' = [up EXCEPT ![k] = SubSeq(up[k], n + 1, Len(up[k]))]
      BY <1>11 DEF ServerTick
    <2>2. /\ SubSeq(up[k], 1, n) \in Seq(UpPacket)
          /\ SubSeq(up[k], n + 1, Len(up[k])) \in Seq(UpPacket)
      BY PartType
    <2>3. Decode(SubSeq(up[k], 1, n), sencrypted[k]) \in Seq(ServerData(sencrypted[k]))
      BY <2>2, ReadUp DEF IInv, TypeOK
    <2>4. \A j \in Socket : sreceived'[j] \in Seq(ServerData(sencrypted[j]))
      BY <2>1, <2>3 DEF IInv, TypeOK
    <2>5. up' \in [Socket -> Seq(UpPacket)]
      BY <2>1, <2>2
    <2> QED BY <1>11, <2>4, <2>5 DEF ServerTick
  <1>12. ASSUME NEW k \in Socket, ServerHandlePacket(k) PROVE Streams'
    <2>1. Served(k)
      BY <1>12, ServerHandles
    <2>2. ASSUME NEW j \in Socket PROVE sreceived'[j] \in Seq(ServerData(sencrypted'[j]))
      <3>1. /\ sencrypted[j] \in BOOLEAN /\ sencrypted'[j] \in BOOLEAN
            /\ sencrypted[j] => sencrypted'[j]
        BY <2>1 DEF Served, IInv, TypeOK
      <3>2. sreceived'[j] = IF j = k THEN Tail(sreceived[k]) ELSE sreceived[j]
        BY <2>1 DEF Served, IInv, TypeOK
      <3>3. sreceived'[j] \in Seq(ServerData(sencrypted[j]))
        BY <1>12, <3>2, ServerHead
      <3> QED BY <3>1, <3>3, KeyKept, SeqMonotonic
    <2> QED BY <2>1, <2>2 DEF Served, clientVars
  <1>13. ASSUME NEW k \in Socket, SendLoginSuccess(k) PROVE Streams'
    <2>1. 3 \in Types
      BY DEF Types
    <2>2. <<3>> \in Seq(Types) /\ Write(k, <<3>>, sencrypted[k])
      BY <1>13, <2>1, OneType DEF SendLoginSuccess
    <2>3. sencrypted[k] \in BOOLEAN /\ hasSentDC[k] \in BOOLEAN
      BY DEF IInv, TypeOK
    <2>4. sencrypted[k] \/ hasSentDC[k]
      BY <1>13, <2>3 DEF SendLoginSuccess, IInv, Keys
    <2>5. CASE sencrypted[k]
      <3>1. down' \in [Socket -> Seq(DownPacket)]
        BY <2>2, <2>3, <2>5, WriteDown
      <3> QED BY <1>13, <3>1 DEF SendLoginSuccess
    <2>6. CASE hasSentDC[k]
      <3>1. down' = down
        BY <2>2, <2>6 DEF Write, Written
      <3> QED BY <1>13, <3>1 DEF SendLoginSuccess
    <2> QED BY <2>4, <2>5, <2>6
  <1>14. ASSUME NEW k \in Socket, ChannelResult(k) PROVE Streams'
    <2>1. PICK t \in {1, 9} : Write(k, <<t>>, sencrypted[k])
      BY <1>14 DEF ChannelResult
    <2>2. t \in Types /\ t \notin {2, 3}
      BY DEF Types
    <2> DEFINE ts == <<t>>
    <2>3. ts \in Seq(Types) /\ (\A i \in 1..Len(ts) : ts[i] \notin {2, 3})
      BY <2>2, OneType
    <2> HIDE DEF ts
    <2>4. sencrypted[k] \in BOOLEAN
      BY DEF IInv, TypeOK
    <2>5. Write(k, ts, sencrypted[k])
      BY <2>1 DEF ts
    <2>6. down' \in [Socket -> Seq(DownPacket)]
      BY <2>3, <2>4, <2>5, WriteDown
    <2> QED BY <1>14, <2>6 DEF ChannelResult
  <1>15. ASSUME NEW k \in Socket, NEW type \in {0, 2}, ServerTalk(k, type)
        PROVE  Streams'
    <2>1. type \in Types /\ Write(k, <<type>>, sencrypted[k])
      BY <1>15 DEF Types, ServerTalk
    <2>2. <<type>> \in Seq(Types)
      BY <2>1, OneType
    <2>3. sencrypted[k] \in BOOLEAN /\ hasSentDC[k] \in BOOLEAN
      BY DEF IInv, TypeOK
    <2>4. sencrypted[k] \/ hasSentDC[k]
      BY <1>15, <2>3 DEF ServerTalk, IInv, Keys, WorkIsEncrypted
    <2>5. CASE sencrypted[k]
      <3>1. down' \in [Socket -> Seq(DownPacket)]
        BY <2>1, <2>2, <2>3, <2>5, WriteDown
      <3> QED BY <1>15, <3>1 DEF ServerTalk
    <2>6. CASE hasSentDC[k]
      <3>1. down' = down
        BY <2>1, <2>6 DEF Write, Written
      <3> QED BY <1>15, <3>1 DEF ServerTalk
    <2> QED BY <2>4, <2>5, <2>6
  <1>16. ASSUME NEW k \in Socket, Timeout(k) PROVE Streams'
    <2> DEFINE d == Disconnect(k)
    <2>1. /\ d \in Seq(Types) /\ (\A i \in 1..Len(d) : d[i] \notin {2, 3})
          /\ Write(k, d, sencrypted[k])
      BY <1>16, DisconnectTypes DEF Timeout
    <2> HIDE DEF d
    <2>2. down' \in [Socket -> Seq(DownPacket)]
      BY <2>1, WriteDown DEF IInv, TypeOK
    <2> QED BY <1>16, <2>2 DEF Timeout
  <1>17. CASE UNCHANGED vars
    BY <1>17 DEF vars, clientVars, serverVars
  <1> QED
    BY <1>1, <1>2, <1>3, <1>4, <1>5, <1>6, <1>7, <1>8, <1>9, <1>10, <1>11,
       <1>12, <1>13, <1>14, <1>15, <1>16, <1>17
       DEF Next, ClientStep, ServerStep

\* Every action keeps the keys of those who work.
LEMMA KeysStep == ASSUME IInv, Flags, Values, Keys, [Next]_vars PROVE Keys'
  <1> USE DEF Flags, Values, Keys, WorkIsEncrypted, clientVars, serverVars
  <1>1. ASSUME NEW k \in Socket, OnConnect(k) PROVE Keys'
    BY <1>1 DEF OnConnect
  <1>2. ASSUME NEW k \in Socket, OnRead(k) PROVE Keys'
    BY <1>2 DEF OnRead
  <1>3. ASSUME HandlePacket PROVE Keys'
    <2>1. UNCHANGED <<sstate, sencrypted, hasSentDC, login>>
      BY <1>3, ClientHandles
    <2>2. CASE Answered
      <3>1. (encrypted => encrypted') /\ (state' = 3 => encrypted)
        BY <2>2 DEF Answered
      <3>2. encrypted' => cipher'
        <4>1. \/ encrypted' = encrypted /\ cipher' = cipher
              \/ encrypted' = TRUE /\ cipher' = TRUE
          BY <2>2 DEF Answered
        <4>2. CASE encrypted' = encrypted /\ cipher' = cipher
          BY <4>2
        <4>3. CASE encrypted' = TRUE /\ cipher' = TRUE
          BY <4>3
        <4> QED BY <4>1, <4>2, <4>3
      <3> QED BY <2>1, <3>1, <3>2
    <2>3. CASE SignedOut
      <3>1. state' = 1 /\ encrypted' = FALSE
        BY <2>3 DEF SignedOut, SignOut
      <3> QED BY <2>1, <3>1
    <2> QED BY <1>3, <2>2, <2>3, ClientHandles
  <1>4. ASSUME ReadEnd PROVE Keys'
    BY <1>4 DEF ReadEnd
  <1>5. ASSUME LeaveChannel PROVE Keys'
    BY <1>5 DEF LeaveChannel
  <1>6. ASSUME SendToChannel PROVE Keys'
    BY <1>6 DEF SendToChannel
  <1>7. ASSUME NEW k \in Socket, JoinChannel(k) PROVE Keys'
    BY <1>7 DEF JoinChannel
  <1>8. ASSUME NEW k \in Socket, ConnectFails(k) PROVE Keys'
    BY <1>8 DEF ConnectFails
  <1>9. ASSUME NEW k \in Socket, OnClose(k) PROVE Keys'
    BY <1>9 DEF OnClose
  <1>10. ASSUME NEW k \in Socket, Established(k) PROVE Keys'
    BY <1>10 DEF Established
  <1>11. ASSUME NEW k \in Socket, ServerTick(k) PROVE Keys'
    BY <1>11 DEF ServerTick
  <1>12. ASSUME NEW k \in Socket, ServerHandlePacket(k) PROVE Keys'
    <2>1. Served(k)
      BY <1>12, ServerHandles
    <2>2. UNCHANGED <<state, encrypted, cipher>>
      BY <2>1 DEF Served
    <2>3. ASSUME NEW j \in Socket
          PROVE  /\ sencrypted[j] => sencrypted'[j]
                 /\ hasSentDC[j] => hasSentDC'[j]
                 /\ sstate'[j] = 3 => sstate[j] = 3
      BY <2>1 DEF Served
    <2>4. ASSUME NEW j \in Socket
          PROVE  login'[j] => login[j] \/ sencrypted[j] \/ hasSentDC'[j]
      BY <2>1 DEF Served
    <2> QED BY <2>2, <2>3, <2>4
  <1>13. ASSUME NEW k \in Socket, SendLoginSuccess(k) PROVE Keys'
    BY <1>13 DEF SendLoginSuccess
  <1>14. ASSUME NEW k \in Socket, ChannelResult(k) PROVE Keys'
    BY <1>14 DEF ChannelResult
  <1>15. ASSUME NEW k \in Socket, NEW type \in {0, 2}, ServerTalk(k, type)
        PROVE  Keys'
    BY <1>15 DEF ServerTalk
  <1>16. ASSUME NEW k \in Socket, Timeout(k) PROVE Keys'
    BY <1>16 DEF Timeout
  <1>17. CASE UNCHANGED vars
    BY <1>17 DEF vars, clientVars, serverVars
  <1> QED
    BY <1>1, <1>2, <1>3, <1>4, <1>5, <1>6, <1>7, <1>8, <1>9, <1>10, <1>11,
       <1>12, <1>13, <1>14, <1>15, <1>16, <1>17
       DEF Next, ClientStep, ServerStep

LEMMA Inductive == IInv /\ [Next]_vars => IInv'
  <1> SUFFICES ASSUME IInv, [Next]_vars PROVE IInv'
    OBVIOUS
  <1>1. Flags /\ Values /\ Streams /\ Keys
    BY TypeParts DEF IInv
  <1>2. Flags' /\ Values' /\ Streams' /\ Keys'
    BY <1>1, FlagsStep, ValuesStep, StreamsStep, KeysStep
  <1>3. Flags' /\ Values' /\ Streams' => TypeOK'
    BY TypeParts, PTL
  <1> QED BY <1>2, <1>3 DEF IInv

(***************************************************************************)
(* Theorems.                                                               *)
(***************************************************************************)

\* The inductive invariant holds for any number of connections and any faults.
THEOREM Invariant == Spec => []IInv
  <1>1. Init => IInv
    BY InitHolds
  <1>2. IInv /\ [Next]_vars => IInv'
    BY Inductive
  <1> QED BY <1>1, <1>2, PTL DEF Spec

\* Every variable of the two ends keeps its type.
THEOREM TypeCorrect == Spec => []TypeOK
  <1>1. IInv => TypeOK
    BY DEF IInv
  <1> QED BY <1>1, Invariant, PTL

\* Nobody works in the clear and nobody encrypts without a key, although the
\* server takes a LoginInfo without asking for the key exchange: whatever is
\* closed, kicked or joined again in between (WorkIsEncrypted).
THEOREM WorkSafety == Spec => []WorkIsEncrypted
  <1>1. IInv => WorkIsEncrypted
    BY DEF IInv, Keys
  <1> QED BY <1>1, Invariant, PTL

(***************************************************************************)
(* A session without faults: before the login has succeeded one packet is   *)
(* on its way, or the login waits in the authenticator.                     *)
(***************************************************************************)

\* The packets of a client that works.
IsWork(p) == p.state = 3 /\ p.type \in {0, 1, 2, 9} /\ p.enc

\* A stream is what an end has received and what is on the way to it.  It holds
\* nothing but work, if any (work), or a given packet first and work after it.
OnlyWork(s, work) == \A i \in 1..Len(s) : work /\ IsWork(s[i])

Begins(s, type, st, enc, work) ==
  /\ Len(s) > 0
  /\ s[1].type = type /\ s[1].state = st /\ (s[1].enc <=> enc)
  /\ \A i \in 2..Len(s) : work /\ IsWork(s[i])

Flows(buffer, line, work) == OnlyWork(buffer, work) /\ OnlyWork(line, work)

Carries(buffer, line, type, st, enc, work) ==
  \/ buffer = <<>> /\ Begins(line, type, st, enc, work)
  \/ Begins(buffer, type, st, enc, work) /\ OnlyWork(line, work)

\* Where the two ends of a connection stand.
Ends(k, st, enc, sst, senc) ==
  /\ state = st /\ (encrypted <=> enc)
  /\ sstate[k] = sst /\ (sencrypted[k] <=> senc)

\* The packet on its way up or down.
Asked(k, type, st, enc) ==
  /\ Carries(sreceived[k], up[k], type, st, enc, FALSE)
  /\ Flows(received, down[k], FALSE)
  /\ ~login[k] /\ ~room /\ requests[k] = <<>>

Told(k, type, st, enc, work) ==
  /\ Flows(sreceived[k], up[k], FALSE)
  /\ Carries(received, down[k], type, st, enc, work)
  /\ ~login[k] /\ ~room /\ requests[k] = <<>>

Waits(k) ==
  /\ Flows(sreceived[k], up[k], FALSE)
  /\ Flows(received, down[k], FALSE)
  /\ login[k] /\ ~room /\ requests[k] = <<>>

Works(k) ==
  /\ Flows(sreceived[k], up[k], TRUE)
  /\ Flows(received, down[k], TRUE)
  /\ ~login[k]

\* The phases of a session.
StatusAsked(k) == Ends(k, 1, FALSE, 1, FALSE) /\ Asked(k, 0, 1, FALSE)
StatusTold(k) == Ends(k, 1, FALSE, 2, FALSE) /\ Told(k, 0, 1, FALSE, FALSE)
LoginStarted(k) == Ends(k, 2, FALSE, 2, FALSE) /\ Asked(k, 0, 2, FALSE)
KeyRequested(k) == Ends(k, 2, FALSE, 2, FALSE) /\ Told(k, 1, 2, FALSE, FALSE)
KeyGiven(k) == Ends(k, 2, TRUE, 2, FALSE) /\ Asked(k, 1, 2, FALSE)
LoginAllowed(k) == Ends(k, 2, TRUE, 2, TRUE) /\ Told(k, 2, 2, TRUE, FALSE)
LoginGiven(k) == Ends(k, 2, TRUE, 2, TRUE) /\ Asked(k, 2, 2, TRUE)
LoginWaits(k) == Ends(k, 2, TRUE, 2, TRUE) /\ Waits(k)
LoginSucceeded(k) == Ends(k, 2, TRUE, 3, TRUE) /\ Told(k, 3, 2, TRUE, TRUE)
Working(k) == Ends(k, 3, TRUE, 3, TRUE) /\ Works(k)

Talks(k) ==
  \/ StatusAsked(k)
  \/ StatusTold(k)
  \/ LoginStarted(k)
  \/ KeyRequested(k)
  \/ KeyGiven(k)
  \/ LoginAllowed(k)
  \/ LoginGiven(k)
  \/ LoginWaits(k)
  \/ LoginSucceeded(k)
  \/ Working(k)

\* A connection nothing has been sent on.
Fresh(k) ==
  /\ sstate[k] = 1 /\ ~sencrypted[k] /\ ~login[k] /\ requests[k] = <<>>
  /\ up[k] = <<>> /\ down[k] = <<>> /\ sreceived[k] = <<>>

\* A client without a session.
SignedOff == state = 1 /\ ~encrypted /\ received = <<>> /\ ~room

AllOk ==
  /\ \A i \in 1..Len(received) : received[i].ok
  /\ \A k \in Socket : \A i \in 1..Len(sreceived[k]) : sreceived[k][i].ok

Session ==
  /\ \A k \in Socket : link[k] \in {"none", "connecting", "established"} => Fresh(k)
  /\ \A k \in Socket : ~hasSentDC[k]
  /\ \A k \in Socket : link[k] \in {"connecting", "established", "connected"} => sock = k
  /\ \A k \in Socket : link[k] = "connected" => Talks(k)
  /\ (\A k \in Socket : link[k] # "connected") => SignedOff
  /\ AllOk

\* A stream without work is empty.
LEMMA NoWork ==
  ASSUME NEW S, NEW s \in Seq(S)
  PROVE  /\ OnlyWork(s, FALSE) <=> s = <<>>
         /\ \A work : OnlyWork(<<>>, work)
  <1>1. Len(s) \in Nat /\ (Len(s) = 0 <=> s = <<>>)
    BY LenProperties, EmptySeq
  <1>2. OnlyWork(s, FALSE) => Len(s) = 0
    <2>1. ASSUME OnlyWork(s, FALSE), Len(s) # 0 PROVE FALSE
      <3>1. 1 \in 1..Len(s)
        BY <1>1, <2>1
      <3> QED BY <2>1, <3>1 DEF OnlyWork
    <2> QED BY <2>1
  <1>3. \A work : OnlyWork(<<>>, work)
    BY DEF OnlyWork
  <1> QED BY <1>1, <1>2, <1>3

\* One more packet at the end of a line.
Extends(s, t, type, st, enc) ==
  /\ Len(t) = Len(s) + 1
  /\ \A i \in 1..Len(s) : t[i] = s[i]
  /\ t[Len(s) + 1].type = type /\ t[Len(s) + 1].state = st /\ (t[Len(s) + 1].enc <=> enc)

LEMMA SendExtends ==
  ASSUME IInv, NEW type, NEW st, NEW enc, Send(type, st, enc), sock # 0,
         link[sock] \in {"established", "connected"}
  PROVE  /\ sock \in Socket
         /\ Extends(up[sock], up'[sock], type, st, enc)
         /\ \A j \in Socket : j # sock => up'[j] = up[j]
  <1> DEFINE p == [type |-> type, state |-> st, enc |-> enc]
  <1>1. sock \in Socket /\ up \in [Socket -> Seq(Packet)]
    BY DEF IInv, TypeOK
  <1>2. up' = [up EXCEPT ![sock] = Append(up[sock], p)]
    BY DEF Send
  <1>3. p.type = type /\ p.state = st /\ p.enc = enc
    OBVIOUS
  <1> HIDE DEF p
  <1>4. up[sock] \in Seq(Packet)
    BY <1>1
  <1>5. /\ Len(Append(up[sock], p)) = Len(up[sock]) + 1
        /\ \A i \in 1..Len(up[sock]) : Append(up[sock], p)[i] = up[sock][i]
        /\ Append(up[sock], p)[Len(up[sock]) + 1] = p
    <2>1. up[sock] \in Seq(Packet \cup {p}) /\ p \in Packet \cup {p}
      BY <1>4, SeqMonotonic
    <2> QED BY <2>1, AppendProperties
  <1> QED BY <1>1, <1>2, <1>3, <1>5 DEF Extends

LEMMA WriteExtends ==
  ASSUME IInv, NEW k \in Socket, ~hasSentDC[k], NEW type, NEW enc, Write(k, <<type>>, enc)
  PROVE  /\ Extends(down[k], down'[k], type, sstate[k], enc)
         /\ \A j \in Socket : j # k => down'[j] = down[j]
  <1> DEFINE ts == <<type>>
             w == [i \in 1..Len(ts) |-> [type |-> ts[i], state |-> sstate[k], enc |-> enc]]
  <1>1. Len(ts) = 1 /\ ts[1] = type
    OBVIOUS
  <1>2. down' = [down EXCEPT ![k] = down[k] \o w]
    BY DEF Write, Written
  <1> HIDE DEF ts
  <1>3. w = [i \in 1..1 |-> [type |-> ts[i], state |-> sstate[k], enc |-> enc]]
    BY <1>1
  <1>4. /\ DOMAIN w = 1..1 /\ w[1].type = type /\ w[1].state = sstate[k] /\ w[1].enc = enc
    BY <1>1, <1>3
  <1> DEFINE S == Packet \cup {w[1]}
  <1>5. w \in [1..1 -> S]
    BY <1>3, <1>4
  <1> HIDE DEF w
  <1>6. down[k] \in Seq(S) /\ down \in [Socket -> Seq(Packet)]
    BY SeqMonotonic DEF IInv, TypeOK
  <1> HIDE DEF S
  <1>7. w \in Seq(S) /\ Len(w) = 1
    <2>1. w \in Seq(S)
      BY <1>5, SeqDef
    <2>2. Len(w) \in Nat /\ DOMAIN w = 1..Len(w)
      BY <2>1, LenProperties
    <2>3. 1 \in 1..Len(w)
      BY <1>4, <2>2
    <2>4. Len(w) \in 1..1
      BY <1>4, <2>2, <2>3
    <2> QED BY <2>1, <2>4
  <1>8. /\ Len(down[k] \o w) = Len(down[k]) + 1
        /\ \A i \in 1..Len(down[k]) : (down[k] \o w)[i] = down[k][i]
        /\ (down[k] \o w)[Len(down[k]) + 1] = w[1]
    <2>1. Len(down[k]) \in Nat
      BY <1>6, LenProperties
    <2>2. /\ Len(down[k] \o w) = Len(down[k]) + Len(w)
          /\ \A i \in 1..(Len(down[k]) + Len(w)) :
               (down[k] \o w)[i] = IF i <= Len(down[k]) THEN down[k][i] ELSE w[i - Len(down[k])]
      BY <1>6, <1>7, ConcatProperties
    <2>3. Len(down[k]) + 1 - Len(down[k]) = 1
      BY <2>1
    <2>4. Len(down[k]) + 1 \in 1..(Len(down[k]) + Len(w))
      BY <1>7, <2>1
    <2> QED BY <1>7, <2>1, <2>2, <2>3, <2>4
  <1> QED BY <1>2, <1>4, <1>6, <1>8 DEF Extends

\* A packet sent where nothing was on its way is alone on its way.
LEMMA PutFirst ==
  ASSUME NEW s \in Seq(Packet), NEW t \in Seq(Packet), NEW buffer \in Seq(Data),
         NEW type, NEW st, NEW enc, NEW work, Extends(s, t, type, st, enc),
         Flows(buffer, s, FALSE)
  PROVE  Carries(buffer, t, type, st, enc, work)
  <1>1. buffer = <<>> /\ s = <<>>
    BY NoWork DEF Flows
  <1>2. Len(s) = 0
    BY <1>1
  <1>3. Len(t) = 1 /\ t[1].type = type /\ t[1].state = st /\ (t[1].enc <=> enc)
    BY <1>2 DEF Extends
  <1> QED BY <1>1, <1>3 DEF Carries, Begins

\* Work is added to work, and to what is followed by work.
LEMMA PutWork ==
  ASSUME NEW s \in Seq(Packet), NEW t \in Seq(Packet), NEW buffer,
         NEW type \in {0, 1, 2, 9}, Extends(s, t, type, 3, TRUE)
  PROVE  /\ Flows(buffer, s, TRUE) => Flows(buffer, t, TRUE)
         /\ \A u, st, enc : Carries(buffer, s, u, st, enc, TRUE)
                              => Carries(buffer, t, u, st, enc, TRUE)
  <1>1. Len(s) \in Nat /\ Len(t) \in Nat /\ Len(t) = Len(s) + 1
    BY LenProperties DEF Extends
  <1>2. /\ \A i \in 1..Len(s) : t[i] = s[i]
        /\ IsWork(t[Len(t)])
    BY <1>1 DEF Extends, IsWork
  <1>3. ASSUME OnlyWork(s, TRUE) PROVE OnlyWork(t, TRUE)
    <2>1. ASSUME NEW i \in 1..Len(t) PROVE IsWork(t[i])
      <3>1. i \in 1..Len(s) \/ i = Len(t)
        BY <1>1
      <3> QED BY <1>2, <1>3, <3>1 DEF OnlyWork
    <2> QED BY <2>1 DEF OnlyWork
  <1>4. ASSUME NEW u, NEW st, NEW enc, Begins(s, u, st, enc, TRUE)
        PROVE  Begins(t, u, st, enc, TRUE)
    <2>1. Len(s) > 0 /\ 1 \in 1..Len(s) /\ t[1] = s[1]
      BY <1>1, <1>2, <1>4 DEF Begins
    <2>2. ASSUME NEW i \in 2..Len(t) PROVE IsWork(t[i])
      <3>1. (i \in 1..Len(s) /\ i \in 2..Len(s)) \/ i = Len(t)
        BY <1>1
      <3> QED BY <1>2, <1>4, <3>1 DEF Begins
    <2> QED BY <1>1, <1>4, <2>1, <2>2 DEF Begins
  <1> QED BY <1>3, <1>4 DEF Flows, Carries

\* The packet an end takes from what it has received is the one on its way, or
\* work.
LEMMA TakeFirst ==
  ASSUME NEW buffer \in Seq(Data), buffer # <<>>, NEW line
  PROVE  /\ \A type, st, enc, work :
              Carries(buffer, line, type, st, enc, work) =>
                /\ Head(buffer).type = type /\ Head(buffer).state = st
                /\ Head(buffer).enc <=> enc
                /\ Flows(Tail(buffer), line, work)
         /\ \A work : Flows(buffer, line, work) =>
              work /\ IsWork(Head(buffer)) /\ Flows(Tail(buffer), line, work)
  <1>1. /\ Len(buffer) \in Nat /\ Len(buffer) > 0 /\ Head(buffer) = buffer[1]
        /\ Len(Tail(buffer)) = Len(buffer) - 1
        /\ \A i \in 1..(Len(buffer) - 1) : Tail(buffer)[i] = buffer[i + 1]
    BY LenProperties, HeadTailProperties, EmptySeq
  <1>2. \A i \in 1..(Len(buffer) - 1) : i + 1 \in 2..Len(buffer) /\ i + 1 \in 1..Len(buffer)
    BY <1>1
  <1>3. ASSUME NEW type, NEW st, NEW enc, NEW work,
               Carries(buffer, line, type, st, enc, work)
        PROVE  /\ Head(buffer).type = type /\ Head(buffer).state = st
               /\ Head(buffer).enc <=> enc
               /\ Flows(Tail(buffer), line, work)
    <2>1. Begins(buffer, type, st, enc, work) /\ OnlyWork(line, work)
      BY <1>3 DEF Carries
    <2>2. OnlyWork(Tail(buffer), work)
      BY <1>1, <1>2, <2>1 DEF Begins, OnlyWork
    <2> QED BY <1>1, <2>1, <2>2 DEF Begins, Flows
  <1>4. ASSUME NEW work, Flows(buffer, line, work)
        PROVE  work /\ IsWork(Head(buffer)) /\ Flows(Tail(buffer), line, work)
    <2>1. 1 \in 1..Len(buffer)
      BY <1>1
    <2>2. OnlyWork(Tail(buffer), work)
      BY <1>1, <1>2, <1>4 DEF Flows, OnlyWork
    <2> QED BY <1>1, <1>4, <2>1, <2>2 DEF Flows, OnlyWork
  <1> QED BY <1>3, <1>4

\* Data that are read move from the line to the buffer, and are decoded the right
\* way if the reader's flag is that of the packet on its way.
Moves(buffer, line, n, key, read, rest) ==
  /\ Len(read) = Len(buffer) + n
  /\ \A i \in 1..Len(buffer) : read[i] = buffer[i]
  /\ \A i \in 1..n : /\ read[Len(buffer) + i].type = line[i].type
                     /\ read[Len(buffer) + i].state = line[i].state
                     /\ read[Len(buffer) + i].enc = line[i].enc
                     /\ read[Len(buffer) + i].ok <=> line[i].enc = key
                     /\ line[i].enc \in BOOLEAN
  /\ Len(rest) = Len(line) - n
  /\ \A i \in 1..(Len(line) - n) : rest[i] = line[n + i]

LEMMA ReadParts ==
  ASSUME NEW buffer \in Seq(Data), NEW line \in Seq(Packet), NEW n \in 1..Len(line),
         NEW key \in BOOLEAN
  PROVE  Moves(buffer, line, n, key, buffer \o Decode(SubSeq(line, 1, n), key),
               SubSeq(line, n + 1, Len(line)))
  <1> DEFINE part == SubSeq(line, 1, n)
             new == Decode(part, key)
             rest == SubSeq(line, n + 1, Len(line))
  <1>1. /\ part \in Seq(Packet) /\ Len(part) = n
        /\ \A i \in 1..n : part[i] = line[i]
        /\ Len(rest) = Len(line) - n
        /\ \A i \in 1..(Len(line) - n) : rest[i] = line[n + i]
    BY PartType
  <1> HIDE DEF part, rest
  <1>2. /\ Len(new) = n /\ new \in Seq(Data)
        /\ \A i \in 1..n : /\ new[i].type = line[i].type
                           /\ new[i].state = line[i].state
                           /\ new[i].enc = line[i].enc
                           /\ new[i].ok <=> line[i].enc = key
                           /\ line[i] \in Packet
    BY ONLY <1>1, key \in BOOLEAN, DecodeElements DEF new
  <1> HIDE DEF new
  <1>3. /\ Len(buffer) \in Nat /\ Len(buffer \o new) = Len(buffer) + n
        /\ \A i \in 1..(Len(buffer) + n) :
             (buffer \o new)[i] = IF i <= Len(buffer) THEN buffer[i] ELSE new[i - Len(buffer)]
    BY <1>2, ConcatProperties, LenProperties
  <1>4. Len(line) \in Nat /\ n \in Nat /\ n > 0
    BY LenProperties
  <1>5. ASSUME NEW i \in 1..n PROVE (buffer \o new)[Len(buffer) + i] = new[i]
    <2>1. Len(buffer) + i \in 1..(Len(buffer) + n) /\ ~(Len(buffer) + i <= Len(buffer))
      BY <1>3, <1>4
    <2>2. Len(buffer) + i - Len(buffer) = i
      BY <1>3, <1>4
    <2> QED BY <1>3, <2>1, <2>2
  <1>6. \A i \in 1..Len(buffer) : (buffer \o new)[i] = buffer[i]
    <2>1. \A i \in 1..Len(buffer) : i \in 1..(Len(buffer) + n) /\ i <= Len(buffer)
      BY <1>3, <1>4
    <2> QED BY <1>3, <2>1
  <1>7. \A i \in 1..n : line[i].enc \in BOOLEAN
    BY <1>2 DEF Packet
  <1> QED BY <1>1, <1>2, <1>3, <1>5, <1>6, <1>7 DEF Moves, part, new, rest

AllRight(s) == \A i \in 1..Len(s) : s[i].ok

LEMMA ReadOn ==
  ASSUME NEW buffer \in Seq(Data), NEW line \in Seq(Packet), NEW n \in 1..Len(line),
         NEW key \in BOOLEAN, NEW work \in BOOLEAN, work => key, AllRight(buffer),
         NEW read, NEW rest, Moves(buffer, line, n, key, read, rest)
  PROVE  /\ Flows(buffer, line, work) => Flows(read, rest, work) /\ AllRight(read)
         /\ \A type, st, enc :
              Carries(buffer, line, type, st, enc, work) /\ (enc <=> key)
                => Carries(read, rest, type, st, enc, work) /\ AllRight(read)
  <1> DEFINE m == Len(buffer)
  <1>1. /\ m \in Nat /\ Len(line) \in Nat /\ n \in Nat /\ n > 0 /\ n <= Len(line)
        /\ m = 0 <=> buffer = <<>>
    BY LenProperties, EmptySeq
  <1>2. /\ Len(read) = m + n
        /\ \A i \in 1..m : read[i] = buffer[i]
        /\ \A i \in 1..n : /\ read[m + i].type = line[i].type
                           /\ read[m + i].state = line[i].state
                           /\ read[m + i].enc = line[i].enc
                           /\ read[m + i].ok <=> line[i].enc = key
                           /\ line[i].enc \in BOOLEAN
        /\ Len(rest) = Len(line) - n
        /\ \A i \in 1..(Len(line) - n) : rest[i] = line[n + i]
    BY DEF Moves, m
  <1> HIDE DEF m
  <1>3. ASSUME NEW i \in 1..(m + n) PROVE i \in 1..m \/ \E j \in 1..n : i = m + j
    <2>1. CASE i <= m
      BY <1>1, <2>1
    <2>2. CASE i > m
      <3>1. i - m \in 1..n /\ i = m + (i - m)
        BY <1>1, <2>2
      <3> QED BY <3>1
    <2> QED BY <1>1, <2>1, <2>2
  <1>4. ASSUME NEW i \in 1..n, IsWork(line[i]), key
        PROVE  IsWork(read[m + i]) /\ read[m + i].ok
    BY <1>2, <1>4 DEF IsWork
  <1>5. ASSUME OnlyWork(line, work) PROVE OnlyWork(rest, work)
    <2>1. \A i \in 1..(Len(line) - n) : n + i \in 1..Len(line)
      BY <1>1
    <2> QED BY <1>2, <1>5, <2>1 DEF OnlyWork
  <1>6. \A i \in 1..n : i \in 1..Len(line)
    BY <1>1
  <1>7. ASSUME Flows(buffer, line, work)
        PROVE  Flows(read, rest, work) /\ AllRight(read)
    <2>1. ASSUME NEW i \in 1..(m + n) PROVE work /\ IsWork(read[i]) /\ read[i].ok
      <3>1. CASE i \in 1..m
        BY <1>2, <1>7, <3>1 DEF Flows, OnlyWork, AllRight, m
      <3>2. ASSUME NEW j \in 1..n, i = m + j PROVE work /\ IsWork(read[i]) /\ read[i].ok
        <4>1. work /\ IsWork(line[j])
          BY <1>6, <1>7 DEF Flows, OnlyWork
        <4> QED BY <1>4, <3>2, <4>1
      <3> QED BY <1>3, <3>1, <3>2
    <2> QED BY <1>2, <1>5, <1>7, <2>1 DEF Flows, OnlyWork, AllRight
  <1>8. ASSUME NEW type, NEW st, NEW enc, Carries(buffer, line, type, st, enc, work),
               enc <=> key
        PROVE  Carries(read, rest, type, st, enc, work) /\ AllRight(read)
    <2>1. CASE buffer = <<>> /\ Begins(line, type, st, enc, work)
      <3>1. m = 0 /\ \A i \in 1..n : m + i = i
        BY <1>1, <2>1
      <3>2. 1 \in 1..n
        BY <1>1
      <3>3. /\ read[1].type = type /\ read[1].state = st /\ (read[1].enc <=> enc)
            /\ read[1].ok
        BY <1>2, <1>8, <2>1, <3>1, <3>2 DEF Begins
      <3>4. ASSUME NEW i \in 2..n PROVE work /\ IsWork(read[i]) /\ read[i].ok
        <4>1. i \in 2..Len(line) /\ i \in 1..n
          BY <1>1
        <4> QED BY <1>4, <2>1, <3>1, <4>1 DEF Begins
      <3>5. \A i \in 1..(Len(line) - n) : n + i \in 2..Len(line)
        BY <1>1
      <3>6. OnlyWork(rest, work)
        BY <1>2, <2>1, <3>5 DEF OnlyWork, Begins
      <3>7. Len(read) = n /\ \A i \in 1..n : i = 1 \/ i \in 2..n
        BY <1>1, <1>2, <3>1
      <3>8. Begins(read, type, st, enc, work)
        BY <1>1, <3>3, <3>4, <3>7 DEF Begins
      <3>9. AllRight(read)
        BY <3>3, <3>4, <3>7 DEF AllRight
      <3> QED BY <3>6, <3>8, <3>9 DEF Carries
    <2>2. CASE Begins(buffer, type, st, enc, work) /\ OnlyWork(line, work)
      <3>1. m > 0 /\ 1 \in 1..m
        BY <1>1, <2>2 DEF Begins, m
      <3>2. ASSUME NEW j \in 1..n PROVE work /\ IsWork(read[m + j]) /\ read[m + j].ok
        <4>1. work /\ IsWork(line[j])
          BY <1>6, <2>2 DEF OnlyWork
        <4> QED BY <1>4, <4>1
      <3>3. ASSUME NEW i \in 2..(m + n) PROVE work /\ IsWork(read[i])
        <4>1. i \in 1..(m + n)
          BY <1>1
        <4>2. CASE i \in 1..m
          <5>1. i \in 2..m
            BY <1>1, <4>2
          <5> QED BY <1>2, <2>2, <4>2, <5>1 DEF Begins, m
        <4> QED BY <1>3, <3>2, <4>1, <4>2
      <3>4. ASSUME NEW i \in 1..(m + n) PROVE read[i].ok
        <4>1. CASE i \in 1..m
          BY <1>2, <4>1 DEF AllRight, m
        <4> QED BY <1>3, <3>2, <4>1
      <3>5. Begins(read, type, st, enc, work)
        BY <1>1, <1>2, <2>2, <3>1, <3>3 DEF Begins
      <3>6. AllRight(read)
        BY <1>2, <3>4 DEF AllRight
      <3> QED BY <1>5, <2>2, <3>5, <3>6 DEF Carries
    <2> QED BY <1>8, <2>1, <2>2 DEF Carries
  <1> QED BY <1>7, <1>8

(***************************************************************************)
(* The sessions.                                                           *)
(***************************************************************************)

LEMMA SessionInit == Init => Session
  <1> SUFFICES ASSUME Init PROVE Session
    OBVIOUS
  <1> USE DEF Init
  <1>1. Len(<<>>) = 0
    BY EmptySeq
  <1>2. AllOk
    BY <1>1 DEF AllOk
  <1> QED BY <1>2 DEF Session, Fresh, SignedOff

\* The other connections are closed or not made yet.
LEMMA OneSession ==
  ASSUME Session, NEW k \in Socket, link[k] \in {"connecting", "established", "connected"},
         NEW j \in Socket, j # k
  PROVE  link[j] \notin {"connecting", "established", "connected"}
  BY DEF Session

\* A step of one session that keeps to its phases.
LEMMA SessionGoesOn ==
  ASSUME IInv, Session, NEW k \in Socket, link[k] = "connected",
         UNCHANGED <<link, sock, hasSentDC>>,
         \A j \in Socket \ {k} :
           /\ sstate'[j] = sstate[j] /\ sencrypted'[j] = sencrypted[j]
           /\ login'[j] = login[j] /\ requests'[j] = requests[j]
           /\ up'[j] = up[j] /\ down'[j] = down[j] /\ sreceived'[j] = sreceived[j],
         Talks(k)', AllRight(received'), AllRight(sreceived'[k])
  PROVE  Session'
  <1>1. ASSUME NEW j \in Socket, link'[j] \in {"none", "connecting", "established"}
        PROVE  Fresh(j)'
    <2>1. j # k
      BY <1>1
    <2>2. Fresh(j)
      BY <1>1 DEF Session
    <2> QED BY <2>1, <2>2 DEF Fresh
  <1>2. ASSUME NEW j \in Socket, link'[j] = "connected" PROVE Talks(j)'
    <2>1. j = k
      BY <1>2, OneSession
    <2> QED BY <2>1
  <1>3. AllOk'
    <2>1. ASSUME NEW j \in Socket PROVE AllRight(sreceived'[j])
      <3>1. j # k => sreceived'[j] = sreceived[j]
        OBVIOUS
      <3> QED BY <3>1 DEF Session, AllOk, AllRight
    <2> QED BY <2>1 DEF AllOk, AllRight
  <1> QED BY <1>1, <1>2, <1>3 DEF Session

\* OnRead moves packets from the line to the client's buffer.
LEMMA ReadSession ==
  ASSUME IInv, Session, NEW k \in Socket, OnRead(k)
  PROVE  Session'
  <1>1. /\ link[k] = "connected" /\ Talks(k) /\ encrypted \in BOOLEAN
        /\ received \in Seq(Data) /\ down[k] \in Seq(Packet) /\ AllRight(received)
    BY DEF IInv, TypeOK, Session, OnRead, AllOk, AllRight
  <1>2. /\ UNCHANGED <<sock, state, encrypted, room, link, up, serverVars>>
        /\ \A j \in Socket : j # k => down'[j] = down[j]
    BY DEF OnRead, IInv, TypeOK
  <1>3. PICK n \in 1..Len(down[k]) : Moves(received, down[k], n, encrypted, received', down'[k])
    <2>1. PICK n \in 1..Len(down[k]) :
            /\ received' = received \o Decode(SubSeq(down[k], 1, n), encrypted)
            /\ down' = [down EXCEPT ![k] = SubSeq(down[k], n + 1, Len(down[k]))]
      BY DEF OnRead
    <2>2. down'[k] = SubSeq(down[k], n + 1, Len(down[k]))
      BY <2>1 DEF IInv, TypeOK
    <2>3. Moves(received, down[k], n, encrypted, received', down'[k])
      BY <1>1, <2>1, <2>2, ReadParts
    <2> QED BY <2>3
  <1>4. ASSUME NEW work \in BOOLEAN, work => encrypted, Flows(received, down[k], work)
        PROVE  Flows(received', down'[k], work) /\ AllRight(received')
    BY <1>1, <1>3, <1>4, ReadOn
  <1>5. ASSUME NEW work \in BOOLEAN, work => encrypted, NEW type, NEW st, NEW enc,
               enc <=> encrypted, Carries(received, down[k], type, st, enc, work)
        PROVE  Carries(received', down'[k], type, st, enc, work) /\ AllRight(received')
    BY <1>1, <1>3, <1>5, ReadOn
  <1>6. Talks(k)' /\ AllRight(received')
    <2> USE DEF serverVars, Ends
    <2>1. CASE StatusAsked(k)
      BY <1>2, <1>4, <2>1 DEF Talks, StatusAsked, Asked
    <2>2. CASE StatusTold(k)
      BY <1>2, <1>5, <2>2 DEF Talks, StatusTold, Told
    <2>3. CASE LoginStarted(k)
      BY <1>2, <1>4, <2>3 DEF Talks, LoginStarted, Asked
    <2>4. CASE KeyRequested(k)
      BY <1>2, <1>5, <2>4 DEF Talks, KeyRequested, Told
    <2>5. CASE KeyGiven(k)
      BY <1>2, <1>4, <2>5 DEF Talks, KeyGiven, Asked
    <2>6. CASE LoginAllowed(k)
      BY <1>2, <1>5, <2>6 DEF Talks, LoginAllowed, Told
    <2>7. CASE LoginGiven(k)
      BY <1>2, <1>4, <2>7 DEF Talks, LoginGiven, Asked
    <2>8. CASE LoginWaits(k)
      BY <1>2, <1>4, <2>8 DEF Talks, LoginWaits, Waits
    <2>9. CASE LoginSucceeded(k)
      BY <1>2, <1>5, <2>9 DEF Talks, LoginSucceeded, Told
    <2>10. CASE Working(k)
      BY <1>2, <1>4, <2>10 DEF Talks, Working, Works
    <2> QED BY <1>1, <2>1, <2>2, <2>3, <2>4, <2>5, <2>6, <2>7, <2>8, <2>9, <2>10 DEF Talks
  <1>7. AllRight(sreceived'[k])
    BY <1>2 DEF Session, AllOk, AllRight, serverVars
  <1> QED BY <1>1, <1>2, <1>6, <1>7, SessionGoesOn DEF serverVars

\* The server works for a connection only after the client has sent on it.
LEMMA LiveTalks ==
  ASSUME IInv, Session, NEW k \in Socket, Live(k),
         up[k] # <<>> \/ sreceived[k] # <<>> \/ login[k] \/ requests[k] # <<>> \/ sstate[k] = 3
  PROVE  link[k] = "connected" /\ Talks(k) /\ ~hasSentDC[k]
  <1>1. ~Fresh(k)
    BY DEF Fresh
  <1> QED BY <1>1 DEF Session, Live

\* ServerTick moves packets from the line to the server's buffer.
LEMMA TickSession ==
  ASSUME IInv, Session, NEW k \in Socket, ServerTick(k)
  PROVE  Session'
  <1>1. /\ sencrypted[k] \in BOOLEAN /\ sreceived[k] \in Seq(Data) /\ up[k] \in Seq(Packet)
        /\ AllRight(sreceived[k])
    BY DEF IInv, TypeOK, Session, AllOk, AllRight
  <1>2. /\ UNCHANGED <<clientVars, link, down, sstate, sencrypted, hasSentDC, login, requests>>
        /\ \A j \in Socket : j # k => up'[j] = up[j] /\ sreceived'[j] = sreceived[j]
    BY DEF ServerTick, IInv, TypeOK
  <1>3. PICK n \in 1..Len(up[k]) :
           Moves(sreceived[k], up[k], n, sencrypted[k], sreceived'[k], up'[k])
    <2>1. PICK n \in 1..Len(up[k]) :
            /\ sreceived' = [sreceived EXCEPT ![k] = Decode(SubSeq(up[k], 1, n), sencrypted[k])]
            /\ up' = [up EXCEPT ![k] = SubSeq(up[k], n + 1, Len(up[k]))]
      BY DEF ServerTick
    <2> DEFINE new == Decode(SubSeq(up[k], 1, n), sencrypted[k])
    <2>2. up'[k] = SubSeq(up[k], n + 1, Len(up[k])) /\ sreceived'[k] = new
      BY <2>1 DEF IInv, TypeOK
    <2>3. new \in Seq(Data)
      BY <1>1, PartType, DecodeElements
    <2>4. Moves(sreceived[k], up[k], n, sencrypted[k], sreceived[k] \o new, up'[k])
      BY <1>1, <2>2, ReadParts
    <2> HIDE DEF new
    <2>5. sreceived[k] \o new = new
      <3>1. sreceived[k] = <<>>
        BY DEF ServerTick
      <3> QED BY <2>3, <3>1, ConcatEmptySeq
    <2> QED BY <2>2, <2>4, <2>5
  <1>4. link[k] = "connected" /\ Talks(k)
    <2>1. up[k] # <<>>
      <3>1. up[k] = <<>> => Len(up[k]) = 0
        BY EmptySeq
      <3> QED BY <1>3, <3>1
    <2> QED BY <2>1, LiveTalks DEF ServerTick
  <1>5. ASSUME NEW work \in BOOLEAN, work => sencrypted[k], Flows(sreceived[k], up[k], work)
        PROVE  Flows(sreceived'[k], up'[k], work) /\ AllRight(sreceived'[k])
    BY <1>1, <1>3, <1>5, ReadOn
  <1>6. ASSUME NEW work \in BOOLEAN, work => sencrypted[k], NEW type, NEW st, NEW enc,
               enc <=> sencrypted[k], Carries(sreceived[k], up[k], type, st, enc, work)
        PROVE  Carries(sreceived'[k], up'[k], type, st, enc, work) /\ AllRight(sreceived'[k])
    BY <1>1, <1>3, <1>6, ReadOn
  <1>7. Talks(k)' /\ AllRight(sreceived'[k])
    <2> USE DEF clientVars, Ends
    <2>1. CASE StatusAsked(k)
      BY <1>2, <1>6, <2>1 DEF Talks, StatusAsked, Asked
    <2>2. CASE StatusTold(k)
      BY <1>2, <1>5, <2>2 DEF Talks, StatusTold, Told
    <2>3. CASE LoginStarted(k)
      BY <1>2, <1>6, <2>3 DEF Talks, LoginStarted, Asked
    <2>4. CASE KeyRequested(k)
      BY <1>2, <1>5, <2>4 DEF Talks, KeyRequested, Told
    <2>5. CASE KeyGiven(k)
      BY <1>2, <1>6, <2>5 DEF Talks, KeyGiven, Asked
    <2>6. CASE LoginAllowed(k)
      BY <1>2, <1>5, <2>6 DEF Talks, LoginAllowed, Told
    <2>7. CASE LoginGiven(k)
      BY <1>2, <1>6, <2>7 DEF Talks, LoginGiven, Asked
    <2>8. CASE LoginWaits(k)
      BY <1>2, <1>5, <2>8 DEF Talks, LoginWaits, Waits
    <2>9. CASE LoginSucceeded(k)
      BY <1>2, <1>5, <2>9 DEF Talks, LoginSucceeded, Told
    <2>10. CASE Working(k)
      BY <1>2, <1>5, <2>10 DEF Talks, Working, Works
    <2> QED BY <1>4, <2>1, <2>2, <2>3, <2>4, <2>5, <2>6, <2>7, <2>8, <2>9, <2>10 DEF Talks
  <1>8. AllRight(received')
    BY <1>2 DEF Session, AllOk, AllRight, clientVars
  <1> QED BY <1>2, <1>4, <1>7, <1>8, SessionGoesOn DEF clientVars

\* What is taken from a buffer leaves nothing wrong behind.
LEMMA TailRight ==
  ASSUME NEW s \in Seq(Data), s # <<>>, AllRight(s)
  PROVE  AllRight(Tail(s))
  <1>1. /\ Len(s) \in Nat /\ Len(Tail(s)) = Len(s) - 1
        /\ \A i \in 1..(Len(s) - 1) : Tail(s)[i] = s[i + 1]
    BY LenProperties, HeadTailProperties
  <1>2. \A i \in 1..(Len(s) - 1) : i + 1 \in 1..Len(s)
    BY <1>1
  <1> QED BY <1>1, <1>2 DEF AllRight

\* The server answers the packet on its way, with the packet of the next phase,
\* or hands the login or a request of a client that works on.
LEMMA ServerSession ==
  ASSUME IInv, Session, NEW k \in Socket, ServerHandlePacket(k)
  PROVE  Session'
  <1> DEFINE p == Head(sreceived[k])
             left == Tail(sreceived[k])
  <1>1. /\ sreceived[k] # <<>> /\ sreceived[k] \in Seq(Data) /\ AllRight(sreceived[k])
        /\ down[k] \in Seq(Packet) /\ received \in Seq(Data) /\ sencrypted[k] \in BOOLEAN
        /\ sreceived \in [Socket -> Seq(Data)]
    BY DEF IInv, TypeOK, Session, ServerHandlePacket, AllOk, AllRight
  <1>2. link[k] = "connected" /\ Talks(k) /\ ~hasSentDC[k]
    BY <1>1, LiveTalks DEF ServerHandlePacket
  <1>3. /\ sreceived'[k] = left /\ (\A j \in Socket : j # k => sreceived'[j] = sreceived[j])
        /\ UNCHANGED <<clientVars, link, up, chatter>>
    BY <1>1 DEF ServerHandlePacket
  <1>4. \/ ServerStatusRequest(k, p)
        \/ ServerLoginStart(k, p)
        \/ StartEncryption(k, p)
        \/ ServerLoginInfo(k, p)
        \/ ServerWork(k, p)
        \/ ServerRoom(k, p)
        \/ ServerKick(k, p)
    BY DEF ServerHandlePacket
  <1>5. /\ \A type, st, enc, work :
              Carries(sreceived[k], up[k], type, st, enc, work) =>
                /\ p.type = type /\ p.state = st
                /\ p.enc <=> enc
                /\ Flows(left, up[k], work)
        /\ \A work : Flows(sreceived[k], up[k], work) =>
              work /\ IsWork(p) /\ Flows(left, up[k], work)
    BY <1>1, TakeFirst
  <1>6. AllRight(left)
    BY <1>1, TailRight
  <1>7. down' \in [Socket -> Seq(Packet)]
    <2>1. down' \in [Socket -> Seq(DownPacket)]
      BY ServerHandles DEF Served
    <2>2. Seq(DownPacket) \subseteq Seq(Packet)
      BY SeqMonotonic DEF DownPacket
    <2> QED BY <2>1, <2>2
  <1>8. \A j \in Socket : j # k =>
          /\ sstate'[j] = sstate[j] /\ sencrypted'[j] = sencrypted[j]
          /\ login'[j] = login[j] /\ requests'[j] = requests[j]
    <2>1. /\ sstate \in [Socket -> 1..3] /\ sencrypted \in [Socket -> BOOLEAN]
          /\ login \in [Socket -> BOOLEAN] /\ requests \in [Socket -> Seq({"join", "left"})]
          /\ Served(k)
      BY ServerHandles DEF IInv, TypeOK
    <2>2. \A j \in Socket : j # k => sstate'[j] = sstate[j]
      BY <2>1 DEF Served
    <2>3. \A j \in Socket : j # k => sencrypted'[j] = sencrypted[j]
      BY <2>1 DEF Served
    <2>4. \A j \in Socket : j # k => login'[j] = login[j]
      BY <2>1 DEF Served
    <2>5. \A j \in Socket : j # k => requests'[j] = requests[j]
      BY <2>1 DEF Served
    <2> QED BY <2>2, <2>3, <2>4, <2>5
  <1> HIDE DEF p, left
  <1>9. ASSUME NEW types, NEW enc, Reply(k, p, types, enc), p.state = sstate[k]
        PROVE  Write(k, types, enc) /\ UNCHANGED hasSentDC
    BY <1>9 DEF Reply
  <1>10. ASSUME NEW enc, Write(k, <<>>, enc) PROVE UNCHANGED down
    <2>1. [i \in 1..Len(<<>>) |-> [type |-> <<>>[i], state |-> sstate[k], enc |-> enc]] = <<>>
      BY EmptySeq
    <2>2. down[k] \o <<>> = down[k]
      BY <1>1, ConcatEmptySeq
    <2> QED BY <1>2, <1>10, <2>1, <2>2 DEF Write, Written, IInv, TypeOK
  <1>11. ASSUME NEW type, NEW enc, Write(k, <<type>>, enc), Flows(received, down[k], FALSE)
         PROVE  /\ Carries(received, down'[k], type, sstate[k], enc, FALSE)
                /\ \A j \in Socket : j # k => down'[j] = down[j]
    <2>1. /\ Extends(down[k], down'[k], type, sstate[k], enc)
          /\ \A j \in Socket : j # k => down'[j] = down[j]
      BY <1>2, <1>11, WriteExtends
    <2>2. down'[k] \in Seq(Packet)
      BY <1>7
    <2> QED BY <1>1, <1>11, <2>1, <2>2, PutFirst
  <1>12. ASSUME Talks(k)', UNCHANGED hasSentDC,
                \A j \in Socket : j # k => down'[j] = down[j]
         PROVE  Session'
    <2>1. AllRight(received') /\ AllRight(sreceived'[k])
      BY <1>3, <1>6 DEF Session, AllOk, AllRight, clientVars
    <2> QED BY <1>2, <1>3, <1>8, <1>12, <2>1, SessionGoesOn DEF clientVars
  <1> USE DEF clientVars, Ends
  <1>13. CASE StatusAsked(k)
    <2>1. /\ p.type = 0 /\ p.state = 1 /\ Flows(left, up[k], FALSE) /\ sstate[k] = 1
          /\ Flows(received, down[k], FALSE) /\ (sencrypted[k] <=> FALSE)
      <3>1. /\ Carries(sreceived[k], up[k], 0, 1, FALSE, FALSE) /\ sstate[k] = 1
            /\ Flows(received, down[k], FALSE) /\ (sencrypted[k] <=> FALSE)
        BY <1>13 DEF StatusAsked, Asked
      <3>2. \A type, st, enc, work :
              Carries(sreceived[k], up[k], type, st, enc, work) =>
                p.type = type /\ p.state = st /\ Flows(left, up[k], work)
        BY <1>5
      <3>3. p.type = 0 /\ p.state = 1 /\ Flows(left, up[k], FALSE)
        BY ONLY <3>1, <3>2, Zenon
      <3> QED BY <3>1, <3>3
    <2>2. ServerStatusRequest(k, p)
      BY <1>4, <2>1 DEF ServerLoginStart, StartEncryption, ServerLoginInfo,
                        ServerWork, ServerRoom, ServerKick, ServerKnown,
                        ServerReads
    <2>3. Write(k, <<0>>, sencrypted[k]) /\ UNCHANGED hasSentDC
      BY <1>9, <2>1, <2>2 DEF ServerStatusRequest
    <2>4. /\ Carries(received, down'[k], 0, 1, sencrypted[k], FALSE)
          /\ \A j \in Socket : j # k => down'[j] = down[j]
      BY <1>11, <2>1, <2>3
    <2>5. Carries(received, down'[k], 0, 1, FALSE, FALSE)
      BY <1>1, <2>1, <2>4
    <2>6. StatusTold(k)'
      BY <1>3, <1>13, <2>1, <2>2, <2>5
         DEF ServerStatusRequest, StatusAsked, Asked, StatusTold, Told, IInv, TypeOK
    <2> QED BY <1>12, <2>3, <2>4, <2>6 DEF Talks
  <1>14. CASE LoginStarted(k)
    <2>1. /\ p.type = 0 /\ p.state = 2 /\ Flows(left, up[k], FALSE) /\ sstate[k] = 2
          /\ Flows(received, down[k], FALSE) /\ (sencrypted[k] <=> FALSE)
      <3>1. /\ Carries(sreceived[k], up[k], 0, 2, FALSE, FALSE) /\ sstate[k] = 2
            /\ Flows(received, down[k], FALSE) /\ (sencrypted[k] <=> FALSE)
        BY <1>14 DEF LoginStarted, Asked
      <3>2. \A type, st, enc, work :
              Carries(sreceived[k], up[k], type, st, enc, work) =>
                p.type = type /\ p.state = st /\ Flows(left, up[k], work)
        BY <1>5
      <3>3. p.type = 0 /\ p.state = 2 /\ Flows(left, up[k], FALSE)
        BY ONLY <3>1, <3>2, Zenon
      <3> QED BY <3>1, <3>3
    <2>2. ServerLoginStart(k, p)
      BY <1>4, <2>1 DEF ServerStatusRequest, StartEncryption, ServerLoginInfo,
                        ServerWork, ServerRoom, ServerKick, ServerKnown,
                        ServerReads
    <2>3. Write(k, <<1>>, sencrypted[k]) /\ UNCHANGED hasSentDC
      BY <1>9, <2>1, <2>2 DEF ServerLoginStart
    <2>4. /\ Carries(received, down'[k], 1, 2, sencrypted[k], FALSE)
          /\ \A j \in Socket : j # k => down'[j] = down[j]
      BY <1>11, <2>1, <2>3
    <2>5. Carries(received, down'[k], 1, 2, FALSE, FALSE)
      BY <1>1, <2>1, <2>4
    <2>6. KeyRequested(k)'
      BY <1>3, <1>14, <2>1, <2>2, <2>5
         DEF ServerLoginStart, LoginStarted, Asked, KeyRequested, Told, IInv, TypeOK
    <2> QED BY <1>12, <2>3, <2>4, <2>6 DEF Talks
  <1>15. CASE KeyGiven(k)
    <2>1. /\ p.type = 1 /\ p.state = 2 /\ Flows(left, up[k], FALSE) /\ sstate[k] = 2
          /\ Flows(received, down[k], FALSE) /\ (sencrypted[k] <=> FALSE)
      <3>1. /\ Carries(sreceived[k], up[k], 1, 2, FALSE, FALSE) /\ sstate[k] = 2
            /\ Flows(received, down[k], FALSE) /\ (sencrypted[k] <=> FALSE)
        BY <1>15 DEF KeyGiven, Asked
      <3>2. \A type, st, enc, work :
              Carries(sreceived[k], up[k], type, st, enc, work) =>
                p.type = type /\ p.state = st /\ Flows(left, up[k], work)
        BY <1>5
      <3>3. p.type = 1 /\ p.state = 2 /\ Flows(left, up[k], FALSE)
        BY ONLY <3>1, <3>2, Zenon
      <3> QED BY <3>1, <3>3
    <2>2. StartEncryption(k, p)
      BY <1>4, <2>1 DEF ServerStatusRequest, ServerLoginStart, ServerLoginInfo,
                        ServerWork, ServerRoom, ServerKick, ServerKnown,
                        ServerReads
    <2>3. Write(k, <<2>>, TRUE) /\ UNCHANGED hasSentDC
      BY <1>9, <2>1, <2>2 DEF StartEncryption
    <2>4. /\ Carries(received, down'[k], 2, 2, TRUE, FALSE)
          /\ \A j \in Socket : j # k => down'[j] = down[j]
      BY <1>11, <2>1, <2>3
    <2>5. Carries(received, down'[k], 2, 2, TRUE, FALSE)
      BY <1>1, <2>1, <2>4
    <2>6. LoginAllowed(k)'
      BY <1>3, <1>15, <2>1, <2>2, <2>5
         DEF StartEncryption, KeyGiven, Asked, LoginAllowed, Told, IInv, TypeOK
    <2> QED BY <1>12, <2>3, <2>4, <2>6 DEF Talks
  <1>16. CASE LoginGiven(k)
    <2>1. /\ p.type = 2 /\ p.state = 2 /\ Flows(left, up[k], FALSE) /\ sstate[k] = 2
          /\ Flows(received, down[k], FALSE)
      BY <1>5, <1>16 DEF LoginGiven, Asked
    <2>2. ServerLoginInfo(k, p)
      BY <1>4, <2>1 DEF ServerStatusRequest, ServerLoginStart, StartEncryption,
                        ServerWork, ServerRoom, ServerKick, ServerKnown,
                        ServerReads
    <2>3. UNCHANGED <<down, hasSentDC>>
      BY <1>9, <1>10, <2>1, <2>2 DEF ServerLoginInfo
    <2>4. LoginWaits(k)'
      BY <1>3, <1>16, <2>1, <2>2, <2>3
         DEF ServerLoginInfo, LoginGiven, Asked, LoginWaits, Waits, IInv, TypeOK
    <2> QED BY <1>12, <2>3, <2>4 DEF Talks
  <1>17. CASE Working(k)
    <2>1. IsWork(p) /\ Flows(left, up[k], TRUE) /\ sstate[k] = 3
      BY <1>5, <1>17 DEF Working, Works
    <2>2. p.state = 3 /\ p.type \in {0, 1, 2, 9}
      BY <2>1 DEF IsWork
    <2>3. ServerWork(k, p) \/ ServerRoom(k, p)
      BY <1>4, <2>1, <2>2
         DEF ServerStatusRequest, ServerLoginStart, StartEncryption,
             ServerLoginInfo, ServerKick, ServerKnown, ServerReads
    <2>4. UNCHANGED <<down, hasSentDC, sstate, sencrypted, login>>
      BY <1>9, <1>10, <2>1, <2>2, <2>3 DEF ServerWork, ServerRoom
    <2>5. Working(k)'
      BY <1>3, <1>17, <2>1, <2>4 DEF Working, Works
    <2> QED BY <1>12, <2>4, <2>5 DEF Talks
  <1>18. ~Flows(sreceived[k], up[k], FALSE)
    BY <1>1, NoWork DEF Flows
  <1>19. ~StatusTold(k) /\ ~KeyRequested(k) /\ ~LoginAllowed(k) /\ ~LoginSucceeded(k)
    BY <1>18 DEF StatusTold, KeyRequested, LoginAllowed, LoginSucceeded, Told
  <1>20. ~LoginWaits(k)
    BY <1>18 DEF LoginWaits, Waits
  <1> QED BY <1>2, <1>13, <1>14, <1>15, <1>16, <1>17, <1>19, <1>20 DEF Talks

\* A step of the client that answers within its session.
LEMMA ClientSession ==
  ASSUME IInv, IInv', Session, HandlePacket
  PROVE  Session'
  <1> DEFINE p == Head(received)
             left == Tail(received)
  <1>1. /\ received # <<>> /\ received \in Seq(Data) /\ AllRight(received)
        /\ encrypted \in BOOLEAN
    BY DEF IInv, TypeOK, Session, HandlePacket, AllOk, AllRight
  <1>2. PICK k \in Socket : link[k] = "connected" /\ Talks(k) /\ sock = k
    BY <1>1 DEF Session, SignedOff
  <1>3. /\ down[k] \in Seq(Packet) /\ sreceived[k] \in Seq(Data) /\ up[k] \in Seq(Packet)
        /\ up'[k] \in Seq(Packet) /\ sock # 0 /\ up \in [Socket -> Seq(Packet)]
    BY <1>2 DEF IInv, TypeOK, Socket
  <1>4. UNCHANGED <<serverVars, chatter>>
    BY DEF HandlePacket
  <1>5. \/ HandlePacketStatusRequest(p)
        \/ HandleErrorCode(p)
        \/ SendEncryptionKeyResponse(p)
        \/ HandlePacketLoginAllow(p)
        \/ HandlePacketLoginSuccess(p)
        \/ HandlePacketKeepAlive(p)
        \/ HandlePacketRoomJoin(p)
        \/ HandlePacketChannelMsg(p)
        \/ HandlePacketRoomLeft(p)
        \/ PacketError(p)
        \/ PacketUnknown(p)
    BY DEF HandlePacket
  <1>6. /\ \A type, st, enc, work :
              Carries(received, down[k], type, st, enc, work) =>
                p.type = type /\ p.state = st /\ Flows(left, down[k], work)
        /\ \A work : Flows(received, down[k], work) =>
              work /\ IsWork(p) /\ Flows(left, down[k], work)
    <2>1. /\ \A type, st, enc, work :
               Carries(received, down[k], type, st, enc, work) =>
                 /\ p.type = type /\ p.state = st
                 /\ p.enc <=> enc
                 /\ Flows(left, down[k], work)
          /\ \A work : Flows(received, down[k], work) =>
               work /\ IsWork(p) /\ Flows(left, down[k], work)
      BY <1>1, TakeFirst
    <2> QED BY <2>1
  <1>7. AllRight(left)
    BY <1>1, TailRight
  <1> HIDE DEF p, left
  <1>8. ASSUME NEW type, NEW st, NEW enc, Send(type, st, enc)
        PROVE  /\ Extends(up[k], up'[k], type, st, enc)
               /\ \A j \in Socket : j # k => up'[j] = up[j]
    BY <1>2, <1>3, <1>8, SendExtends
  <1>9. ASSUME NEW type, NEW st, NEW enc, Send(type, st, enc),
               Flows(sreceived[k], up[k], FALSE)
        PROVE  /\ Carries(sreceived[k], up'[k], type, st, enc, FALSE)
               /\ \A j \in Socket : j # k => up'[j] = up[j]
    BY <1>3, <1>8, <1>9, PutFirst
  <1>10. ASSUME Talks(k)', UNCHANGED <<link, sock, down>>, received' = left,
                \A j \in Socket : j # k => up'[j] = up[j]
         PROVE  Session'
    <2>1. AllRight(received') /\ AllRight(sreceived'[k])
      BY <1>4, <1>7, <1>10 DEF Session, AllOk, AllRight, serverVars
    <2> QED BY <1>2, <1>4, <1>10, <2>1, SessionGoesOn DEF serverVars
  <1> USE DEF serverVars, Ends
  <1>11. CASE StatusTold(k)
    <2>1. /\ p.type = 0 /\ p.state = 1 /\ Flows(left, down[k], FALSE) /\ state = 1
          /\ Flows(sreceived[k], up[k], FALSE) /\ (encrypted <=> FALSE)
      <3>1. /\ Carries(received, down[k], 0, 1, FALSE, FALSE) /\ state = 1
            /\ Flows(sreceived[k], up[k], FALSE) /\ (encrypted <=> FALSE)
        BY <1>11 DEF StatusTold, Told
      <3>2. p.type = 0 /\ p.state = 1 /\ Flows(left, down[k], FALSE)
        BY ONLY <1>6, <3>1, Zenon
      <3> QED BY <3>1, <3>2
    <2>2. HandlePacketStatusRequest(p)
      BY <1>5, <2>1
         DEF HandleErrorCode, SendEncryptionKeyResponse, HandlePacketLoginAllow,
             HandlePacketLoginSuccess, HandlePacketKeepAlive,
             HandlePacketRoomJoin, HandlePacketChannelMsg, HandlePacketRoomLeft,
             PacketError, PacketUnknown, ClientKnown, ClientReads
    <2>3. Send(0, 2, encrypted)
      BY <2>2 DEF HandlePacketStatusRequest
    <2>4. /\ Carries(sreceived[k], up'[k], 0, 2, encrypted, FALSE)
          /\ \A j \in Socket : j # k => up'[j] = up[j]
      BY <1>9, <2>1, <2>3
    <2>5. Carries(sreceived[k], up'[k], 0, 2, FALSE, FALSE)
      BY <1>1, <2>1, <2>4
    <2>6. LoginStarted(k)'
      BY <1>4, <1>11, <2>1, <2>2, <2>5
         DEF HandlePacketStatusRequest, Handled, StatusTold, Told, LoginStarted, Asked, left
    <2> QED BY <1>10, <2>2, <2>4, <2>6 DEF HandlePacketStatusRequest, Handled, Talks, left
  <1>12. CASE KeyRequested(k)
    <2>1. /\ p.type = 1 /\ p.state = 2 /\ Flows(left, down[k], FALSE) /\ state = 2
          /\ Flows(sreceived[k], up[k], FALSE) /\ (encrypted <=> FALSE)
      <3>1. /\ Carries(received, down[k], 1, 2, FALSE, FALSE) /\ state = 2
            /\ Flows(sreceived[k], up[k], FALSE) /\ (encrypted <=> FALSE)
        BY <1>12 DEF KeyRequested, Told
      <3>2. p.type = 1 /\ p.state = 2 /\ Flows(left, down[k], FALSE)
        BY ONLY <1>6, <3>1, Zenon
      <3> QED BY <3>1, <3>2
    <2>2. SendEncryptionKeyResponse(p)
      BY <1>5, <2>1
         DEF HandlePacketStatusRequest, HandleErrorCode, HandlePacketLoginAllow,
             HandlePacketLoginSuccess, HandlePacketKeepAlive,
             HandlePacketRoomJoin, HandlePacketChannelMsg, HandlePacketRoomLeft,
             PacketError, PacketUnknown, ClientKnown, ClientReads
    <2>3. Send(1, 2, encrypted)
      BY <2>2 DEF SendEncryptionKeyResponse
    <2>4. /\ Carries(sreceived[k], up'[k], 1, 2, encrypted, FALSE)
          /\ \A j \in Socket : j # k => up'[j] = up[j]
      BY <1>9, <2>1, <2>3
    <2>5. Carries(sreceived[k], up'[k], 1, 2, FALSE, FALSE)
      BY <1>1, <2>1, <2>4
    <2>6. KeyGiven(k)'
      BY <1>4, <1>12, <2>1, <2>2, <2>5
         DEF SendEncryptionKeyResponse, Handled, KeyRequested, Told, KeyGiven, Asked, left
    <2> QED BY <1>10, <2>2, <2>4, <2>6 DEF SendEncryptionKeyResponse, Handled, Talks, left
  <1>13. CASE LoginAllowed(k)
    <2>1. /\ p.type = 2 /\ p.state = 2 /\ Flows(left, down[k], FALSE) /\ state = 2
          /\ Flows(sreceived[k], up[k], FALSE) /\ (encrypted <=> TRUE)
      <3>1. /\ Carries(received, down[k], 2, 2, TRUE, FALSE) /\ state = 2
            /\ Flows(sreceived[k], up[k], FALSE) /\ (encrypted <=> TRUE)
        BY <1>13 DEF LoginAllowed, Told
      <3>2. p.type = 2 /\ p.state = 2 /\ Flows(left, down[k], FALSE)
        BY ONLY <1>6, <3>1, Zenon
      <3> QED BY <3>1, <3>2
    <2>2. HandlePacketLoginAllow(p)
      BY <1>5, <2>1
         DEF HandlePacketStatusRequest, HandleErrorCode,
             SendEncryptionKeyResponse, HandlePacketLoginSuccess,
             HandlePacketKeepAlive, HandlePacketRoomJoin,
             HandlePacketChannelMsg, HandlePacketRoomLeft, PacketError,
             PacketUnknown, ClientKnown, ClientReads
    <2>3. Send(2, 2, encrypted)
      BY <2>2 DEF HandlePacketLoginAllow
    <2>4. /\ Carries(sreceived[k], up'[k], 2, 2, encrypted, FALSE)
          /\ \A j \in Socket : j # k => up'[j] = up[j]
      BY <1>9, <2>1, <2>3
    <2>5. Carries(sreceived[k], up'[k], 2, 2, TRUE, FALSE)
      BY <1>1, <2>1, <2>4
    <2>6. LoginGiven(k)'
      BY <1>4, <1>13, <2>1, <2>2, <2>5
         DEF HandlePacketLoginAllow, Handled, LoginAllowed, Told, LoginGiven, Asked, left
    <2> QED BY <1>10, <2>2, <2>4, <2>6 DEF HandlePacketLoginAllow, Handled, Talks, left
  <1>14. CASE LoginSucceeded(k)
    <2>1. /\ p.type = 3 /\ p.state = 2 /\ Flows(left, down[k], TRUE) /\ state = 2
          /\ Flows(sreceived[k], up[k], FALSE) /\ encrypted
      <3>1. /\ Carries(received, down[k], 3, 2, TRUE, TRUE) /\ state = 2
            /\ Flows(sreceived[k], up[k], FALSE) /\ encrypted
        BY <1>14 DEF LoginSucceeded, Told
      <3>2. p.type = 3 /\ p.state = 2 /\ Flows(left, down[k], TRUE)
        BY ONLY <1>6, <3>1, Zenon
      <3> QED BY <3>1, <3>2
    <2>2. HandlePacketLoginSuccess(p)
      BY <1>5, <2>1
         DEF HandlePacketStatusRequest, HandleErrorCode,
             SendEncryptionKeyResponse, HandlePacketLoginAllow,
             HandlePacketKeepAlive, HandlePacketRoomJoin,
             HandlePacketChannelMsg, HandlePacketRoomLeft, PacketError,
             PacketUnknown, ClientKnown, ClientReads
    <2>3. /\ Extends(up[k], up'[k], 1, 3, TRUE)
          /\ \A j \in Socket : j # k => up'[j] = up[j]
      <3>1. Extends(up[k], up'[k], 1, 3, encrypted)
              /\ \A j \in Socket : j # k => up'[j] = up[j]
        BY <1>8, <2>2 DEF HandlePacketLoginSuccess
      <3> QED BY <2>1, <3>1 DEF Extends
    <2>4. Flows(sreceived[k], up[k], TRUE)
      BY <1>3, <2>1, NoWork DEF Flows
    <2>5. Flows(sreceived[k], up'[k], TRUE)
      BY <1>3, <2>3, <2>4, PutWork
    <2>6. Working(k)'
      BY <1>4, <1>14, <2>1, <2>2, <2>5
         DEF HandlePacketLoginSuccess, Handled, LoginSucceeded, Told, Working, Works, left
    <2> QED BY <1>10, <2>2, <2>3, <2>6 DEF HandlePacketLoginSuccess, Handled, Talks, left
  <1>15. CASE Working(k)
    <2>1. /\ IsWork(p) /\ Flows(left, down[k], TRUE) /\ state = 3 /\ encrypted
          /\ Flows(sreceived[k], up[k], TRUE)
      BY <1>6, <1>15 DEF Working, Works
    <2>2. p.state = 3 /\ p.type \in {0, 1, 2, 9}
      BY <2>1 DEF IsWork
    <2>3. \/ HandlePacketKeepAlive(p)
          \/ HandlePacketRoomJoin(p)
          \/ HandlePacketChannelMsg(p)
          \/ HandlePacketRoomLeft(p)
      <3>1. ClientKnown(p) /\ ClientReads(p)
        BY <2>1, <2>2 DEF ClientKnown, ClientReads
      <3>2. ~PacketError(p) /\ ~PacketUnknown(p)
        BY <3>1 DEF PacketError, PacketUnknown
      <3>3. ~HandleErrorCode(p)
        BY <2>1, <2>2 DEF HandleErrorCode
      <3>4. /\ ~HandlePacketStatusRequest(p) /\ ~SendEncryptionKeyResponse(p)
            /\ ~HandlePacketLoginAllow(p) /\ ~HandlePacketLoginSuccess(p)
        BY <2>1 DEF HandlePacketStatusRequest, SendEncryptionKeyResponse,
                    HandlePacketLoginAllow, HandlePacketLoginSuccess
      <3> QED BY <1>5, <3>2, <3>3, <3>4
    <2>4. CASE HandlePacketKeepAlive(p)
      <3>1. /\ Extends(up[k], up'[k], 0, 3, TRUE)
            /\ \A j \in Socket : j # k => up'[j] = up[j]
        <4>1. Extends(up[k], up'[k], 0, 3, encrypted)
                /\ \A j \in Socket : j # k => up'[j] = up[j]
          BY <1>8, <2>4 DEF HandlePacketKeepAlive
        <4> QED BY <2>1, <4>1 DEF Extends
      <3>2. Flows(sreceived[k], up'[k], TRUE)
        BY <1>3, <2>1, <3>1, PutWork
      <3>3. Working(k)'
        BY <1>4, <1>15, <2>1, <2>4, <3>2
           DEF HandlePacketKeepAlive, Handled, Working, Works, left
      <3> QED BY <1>10, <2>4, <3>1, <3>3 DEF HandlePacketKeepAlive, Handled, Talks, left
    <2>5. CASE HandlePacketRoomJoin(p) \/ HandlePacketChannelMsg(p)
      <3>1. /\ received' = left
            /\ UNCHANGED <<sock, state, encrypted, up, down, link>>
        BY <2>5 DEF HandlePacketRoomJoin, HandlePacketChannelMsg, Handled, left
      <3>2. Working(k)'
        BY <1>4, <1>15, <2>1, <3>1 DEF Working, Works
      <3> QED BY <1>10, <3>1, <3>2 DEF Talks
    <2>6. CASE HandlePacketRoomLeft(p)
      <3>1. /\ link' = [link EXCEPT ![k] = "closed"]
            /\ up' = [up EXCEPT ![k] = <<>>]
            /\ down' = [down EXCEPT ![k] = <<>>]
            /\ sock' = 0 /\ SignedOff'
        BY <1>2, <1>3, <2>6 DEF HandlePacketRoomLeft, SignOut, SignedOff
      <3>2. link'[k] = "closed" /\ \A j \in Socket : j # k => link'[j] = link[j]
        BY <3>1 DEF IInv, TypeOK
      <3>3. ASSUME NEW j \in Socket
            PROVE  link'[j] \notin {"connecting", "established", "connected"}
        BY <1>2, <3>2, OneSession
      <3>4. ASSUME NEW j \in Socket, link'[j] \in {"none", "connecting", "established"}
            PROVE  Fresh(j)'
        <4>1. j # k /\ link[j] = link'[j]
          BY <3>2, <3>4
        <4>2. Fresh(j)
          BY <3>4, <4>1 DEF Session
        <4> QED BY <1>4, <3>1, <4>1, <4>2 DEF Fresh, IInv, TypeOK
      <3>5. AllOk'
        <4>1. received' = <<>> /\ Len(<<>>) = 0
          BY <3>1, EmptySeq DEF SignedOff
        <4> QED BY <1>4, <4>1 DEF Session, AllOk
      <3> QED BY <1>4, <3>1, <3>3, <3>4, <3>5 DEF Session
    <2> QED BY <2>3, <2>4, <2>5, <2>6
  <1>16. ~Flows(received, down[k], FALSE)
    BY <1>1, NoWork DEF Flows
  <1>17. ~StatusAsked(k) /\ ~LoginStarted(k) /\ ~KeyGiven(k) /\ ~LoginGiven(k)
    BY <1>16 DEF StatusAsked, LoginStarted, KeyGiven, LoginGiven, Asked
  <1>18. ~LoginWaits(k)
    BY <1>16 DEF LoginWaits, Waits
  <1> QED BY <1>2, <1>11, <1>12, <1>13, <1>14, <1>15, <1>17, <1>18 DEF Talks

\* A step that no session notices.
LEMMA SessionStays ==
  ASSUME Session, UNCHANGED <<sock, state, encrypted, received, room, link, up, down, serverVars>>
  PROVE  Session'
  <1>1. ASSUME NEW k \in Socket, Talks(k) PROVE Talks(k)'
    BY <1>1 DEF Talks, StatusAsked, StatusTold, LoginStarted, KeyRequested, KeyGiven,
                LoginAllowed, LoginGiven, LoginWaits, LoginSucceeded, Working,
                Ends, Asked, Told, Waits, Works, serverVars
  <1>2. ASSUME NEW k \in Socket, Fresh(k) PROVE Fresh(k)'
    BY <1>2 DEF Fresh, serverVars
  <1>3. SignedOff => SignedOff'
    BY DEF SignedOff
  <1>4. AllOk => AllOk'
    BY DEF AllOk, serverVars
  <1> QED BY <1>1, <1>2, <1>3, <1>4 DEF Session, serverVars

\* A step of a connection while no client talks.
LEMMA SessionWaits ==
  ASSUME Session, NEW k \in Socket,
         UNCHANGED <<state, encrypted, received, room, up, down, serverVars>>,
         \A j \in Socket : j # k => link'[j] = link[j] /\ link[j] \in {"none", "closed"},
         link[k] # "connected", link'[k] # "connected",
         link'[k] \in {"none", "connecting", "established"} => Fresh(k),
         link'[k] \in {"connecting", "established"} => sock' = k
  PROVE  Session'
  <1>1. SignedOff
    BY DEF Session
  <1>2. SignedOff'
    BY <1>1 DEF SignedOff
  <1>3. ASSUME NEW j \in Socket, link'[j] \in {"none", "connecting", "established"}
        PROVE  Fresh(j)'
    <2>1. Fresh(j)
      BY <1>3 DEF Session
    <2> QED BY <2>1 DEF Fresh, serverVars
  <1>4. AllOk'
    BY DEF Session, AllOk, serverVars
  <1>5. \A j \in Socket : link'[j] # "connected"
    OBVIOUS
  <1>6. \A j \in Socket : link'[j] \in {"connecting", "established", "connected"} => sock' = j
    OBVIOUS
  <1>7. \A j \in Socket : ~hasSentDC'[j]
    BY DEF Session, serverVars
  <1> QED BY <1>2, <1>3, <1>4, <1>5, <1>6, <1>7 DEF Session

\* The first packet of a session.
LEMMA ConnectSession ==
  ASSUME IInv, IInv', Session, NEW k \in Socket, OnConnect(k)
  PROVE  Session'
  <1>1. /\ link[k] = "established" /\ sock = k /\ k # 0 /\ Fresh(k)
        /\ Send(0, 1, encrypted) /\ encrypted \in BOOLEAN
    BY DEF OnConnect, Session, IInv, TypeOK, Socket
  <1>2. \A j \in Socket : j # k => link[j] \notin {"connecting", "established", "connected"}
    BY <1>1, OneSession
  <1>3. SignedOff
    BY <1>1, <1>2 DEF Session
  <1>4. /\ link' = [link EXCEPT ![k] = "connected"]
        /\ UNCHANGED <<sock, state, encrypted, received, room, down, serverVars>>
    BY DEF OnConnect
  <1>5. link'[k] = "connected" /\ \A j \in Socket : j # k => link'[j] = link[j]
    BY <1>4 DEF IInv, TypeOK
  <1>6. /\ Extends(up[k], up'[k], 0, 1, encrypted)
        /\ \A j \in Socket : j # k => up'[j] = up[j]
    BY <1>1, SendExtends
  <1>7. /\ up[k] \in Seq(Packet) /\ up'[k] \in Seq(Packet) /\ sreceived[k] \in Seq(Data)
        /\ Flows(sreceived[k], up[k], FALSE) /\ Flows(received, down[k], FALSE)
    <2>1. /\ up[k] \in Seq(Packet) /\ up'[k] \in Seq(Packet) /\ sreceived[k] \in Seq(Data)
          /\ received \in Seq(Data) /\ down[k] \in Seq(Packet)
      BY DEF IInv, TypeOK
    <2> QED BY <1>1, <1>3, <2>1, NoWork DEF Fresh, SignedOff, Flows
  <1>8. Carries(sreceived[k], up'[k], 0, 1, FALSE, FALSE)
    <2>1. Extends(up[k], up'[k], 0, 1, FALSE)
      BY <1>1, <1>3, <1>6 DEF SignedOff
    <2> QED BY <1>7, <2>1, PutFirst
  <1>9. StatusAsked(k)'
    BY <1>1, <1>3, <1>4, <1>7, <1>8
       DEF StatusAsked, Ends, Asked, Fresh, SignedOff, serverVars
  <1>10. ASSUME NEW j \in Socket, link'[j] \in {"none", "connecting", "established"}
         PROVE  Fresh(j)'
    <2>1. j # k /\ Fresh(j)
      BY <1>5, <1>10 DEF Session
    <2> QED BY <1>4, <1>6, <2>1 DEF Fresh, serverVars
  <1>11. AllOk'
    BY <1>4 DEF Session, AllOk, serverVars
  <1>12. \A j \in Socket : link'[j] \in {"connecting", "established", "connected"} => j = k
    BY <1>2, <1>5
  <1> QED BY <1>1, <1>4, <1>5, <1>9, <1>10, <1>11, <1>12 DEF Session, Talks, serverVars

\* Only a client that works has a room.
LEMMA RoomWorks ==
  ASSUME IInv, Session, room
  PROVE  \E k \in Socket : link[k] = "connected" /\ Working(k) /\ sock = k
  <1>1. PICK k \in Socket : link[k] = "connected" /\ Talks(k) /\ sock = k
    BY DEF Session, SignedOff
  <1>2. Working(k)
    BY <1>1 DEF Talks, StatusAsked, StatusTold, LoginStarted, KeyRequested, KeyGiven,
                LoginAllowed, LoginGiven, LoginWaits, LoginSucceeded, Asked, Told, Waits
  <1> QED BY <1>1, <1>2

\* What a user or a peer connection makes a client send that works.
LEMMA ChatSession ==
  ASSUME IInv, IInv', Session, room, NEW type \in {2, 9}, Send(type, 3, encrypted),
         UNCHANGED <<clientVars, link, down, serverVars>>
  PROVE  Session'
  <1>1. PICK k \in Socket : link[k] = "connected" /\ Working(k) /\ sock = k
    BY RoomWorks
  <1>2. /\ k # 0 /\ up[k] \in Seq(Packet) /\ up'[k] \in Seq(Packet) /\ encrypted
    BY <1>1 DEF IInv, TypeOK, Socket, Working, Ends
  <1>3. /\ Extends(up[k], up'[k], type, 3, encrypted)
        /\ \A j \in Socket : j # k => up'[j] = up[j]
    BY <1>1, <1>2, SendExtends
  <1>4. Extends(up[k], up'[k], type, 3, TRUE)
    BY <1>2, <1>3 DEF Extends
  <1>5. Flows(sreceived[k], up'[k], TRUE)
    BY <1>1, <1>2, <1>4, PutWork DEF Working, Works
  <1>6. Working(k)'
    BY <1>1, <1>5 DEF Working, Works, Ends, clientVars, serverVars
  <1>7. AllRight(received') /\ AllRight(sreceived'[k])
    BY DEF Session, AllOk, AllRight, clientVars, serverVars
  <1> QED BY <1>1, <1>3, <1>6, <1>7, SessionGoesOn DEF Talks, clientVars, serverVars

\* The login succeeds.
LEMMA SuccessSession ==
  ASSUME IInv, IInv', Session, NEW k \in Socket, SendLoginSuccess(k)
  PROVE  Session'
  <1>1. link[k] = "connected" /\ Talks(k) /\ ~hasSentDC[k] /\ login[k]
    BY LiveTalks DEF SendLoginSuccess
  <1>2. LoginWaits(k)
    BY <1>1 DEF Talks, StatusAsked, StatusTold, LoginStarted, KeyRequested, KeyGiven,
                LoginAllowed, LoginGiven, LoginSucceeded, Working, Asked, Told, Works
  <1>3. /\ sstate[k] = 2 /\ sencrypted[k] /\ Flows(received, down[k], FALSE)
        /\ Write(k, <<3>>, sencrypted[k])
    BY <1>2 DEF LoginWaits, Ends, Waits, SendLoginSuccess
  <1>4. /\ Extends(down[k], down'[k], 3, 2, sencrypted[k])
        /\ \A j \in Socket : j # k => down'[j] = down[j]
    BY <1>1, <1>3, WriteExtends
  <1>5. Extends(down[k], down'[k], 3, 2, TRUE)
    BY <1>3, <1>4 DEF Extends
  <1>6. Carries(received, down'[k], 3, 2, TRUE, TRUE)
    <2>1. down[k] \in Seq(Packet) /\ down'[k] \in Seq(Packet) /\ received \in Seq(Data)
      BY DEF IInv, TypeOK
    <2> QED BY <1>3, <1>5, <2>1, PutFirst
  <1>7. /\ sstate'[k] = 3 /\ ~login'[k]
        /\ UNCHANGED <<clientVars, link, up, sencrypted, hasSentDC, sreceived, requests>>
        /\ \A j \in Socket : j # k => sstate'[j] = sstate[j] /\ login'[j] = login[j]
    BY DEF SendLoginSuccess, IInv, TypeOK
  <1>8. LoginSucceeded(k)'
    BY <1>2, <1>6, <1>7 DEF LoginWaits, Waits, LoginSucceeded, Told, Ends, clientVars
  <1>9. AllRight(received') /\ AllRight(sreceived'[k])
    BY <1>7 DEF Session, AllOk, AllRight, clientVars
  <1> QED BY <1>1, <1>4, <1>7, <1>8, <1>9, SessionGoesOn DEF Talks, clientVars

\* Work the server writes.
LEMMA WorkSession ==
  ASSUME IInv, IInv', Session, NEW k \in Socket, link[k] = "connected",
         LoginSucceeded(k) \/ Working(k), ~hasSentDC[k],
         NEW type \in {0, 1, 2, 9}, Write(k, <<type>>, sencrypted[k]),
         UNCHANGED <<clientVars, link, up, sstate, sencrypted, hasSentDC, sreceived, login>>,
         \A j \in Socket : j # k => requests'[j] = requests[j],
         LoginSucceeded(k) => requests'[k] = requests[k]
  PROVE  Session'
  <1>1. sstate[k] = 3 /\ sencrypted[k]
    BY DEF LoginSucceeded, Working, Ends
  <1>2. /\ Extends(down[k], down'[k], type, 3, sencrypted[k])
        /\ \A j \in Socket : j # k => down'[j] = down[j]
    BY <1>1, WriteExtends
  <1>3. Extends(down[k], down'[k], type, 3, TRUE)
    BY <1>1, <1>2 DEF Extends
  <1>4. down[k] \in Seq(Packet) /\ down'[k] \in Seq(Packet)
    BY DEF IInv, TypeOK
  <1>5. AllRight(received') /\ AllRight(sreceived'[k])
    BY DEF Session, AllOk, AllRight, clientVars
  <1>6. Talks(k)'
    <2>1. CASE LoginSucceeded(k)
      <3>1. Carries(received, down'[k], 3, 2, TRUE, TRUE)
        BY <1>3, <1>4, <2>1, PutWork DEF LoginSucceeded, Told
      <3>2. LoginSucceeded(k)'
        BY <2>1, <3>1 DEF LoginSucceeded, Told, Ends, clientVars
      <3> QED BY <3>2 DEF Talks
    <2>2. CASE Working(k)
      <3>1. Flows(received, down'[k], TRUE)
        BY <1>3, <1>4, <2>2, PutWork DEF Working, Works
      <3>2. Working(k)'
        BY <2>2, <3>1 DEF Working, Works, Ends, clientVars
      <3> QED BY <3>2 DEF Talks
    <2> QED BY <2>1, <2>2
  <1> QED BY <1>2, <1>5, <1>6, SessionGoesOn DEF clientVars

\* Without faults every step keeps to the phases of the sessions.
LEMMA SessionStep ==
  ASSUME Fault = {}, IInv, IInv', Session, [Next]_vars
  PROVE  Session'
  <1>1. ASSUME NEW k \in Socket, OnConnect(k) PROVE Session'
    BY <1>1, ConnectSession
  <1>2. ASSUME NEW k \in Socket, OnRead(k) PROVE Session'
    BY <1>2, ReadSession
  <1>3. ASSUME HandlePacket PROVE Session'
    BY <1>3, ClientSession
  <1>4. ASSUME ReadEnd PROVE Session'
    BY <1>4, SessionStays DEF ReadEnd
  <1>5. ASSUME LeaveChannel PROVE Session'
    <2>1. room /\ Send(9, state, encrypted) /\ UNCHANGED <<clientVars, link, down, serverVars>>
      BY <1>5 DEF LeaveChannel
    <2>2. state = 3
      BY <2>1, RoomWorks DEF Working, Ends
    <2>3. Send(9, 3, encrypted)
      BY <2>1, <2>2
    <2> QED BY <2>1, <2>3, ChatSession
  <1>6. ASSUME SendToChannel PROVE Session'
    BY <1>6, ChatSession DEF SendToChannel
  <1>7. ASSUME NEW k \in Socket, JoinChannel(k) PROVE Session'
    <2>1. /\ link[k] = "none" /\ Fresh(k) /\ sock' = k
          /\ \A j \in Socket : link[j] \in {"none", "closed"}
          /\ UNCHANGED <<state, encrypted, received, room, up, down, serverVars>>
      BY <1>7 DEF JoinChannel, Session
    <2>2. link'[k] = "connecting" /\ \A j \in Socket : j # k => link'[j] = link[j]
      BY <1>7 DEF JoinChannel, IInv, TypeOK
    <2> QED BY <2>1, <2>2, SessionWaits
  <1>8. ASSUME NEW k \in Socket, ConnectFails(k) \/ Established(k) PROVE Session'
    <2>1. /\ link[k] = "connecting" /\ Fresh(k) /\ sock' = k
          /\ UNCHANGED <<state, encrypted, received, room, up, down, serverVars>>
      BY <1>8 DEF ConnectFails, Established, Session, clientVars
    <2>2. \A j \in Socket : j # k => link[j] \in {"none", "closed"}
      BY <2>1, OneSession DEF IInv, TypeOK
    <2>3. /\ link'[k] \in {"closed", "established"}
          /\ \A j \in Socket : j # k => link'[j] = link[j]
      BY <1>8 DEF ConnectFails, Established, IInv, TypeOK
    <2> QED BY <2>1, <2>2, <2>3, SessionWaits
  <1>9. ASSUME NEW k \in Socket, OnClose(k) \/ Timeout(k) PROVE Session'
    BY <1>9 DEF OnClose, Timeout
  <1>10. ASSUME NEW k \in Socket, ServerTick(k) PROVE Session'
    BY <1>10, TickSession
  <1>11. ASSUME NEW k \in Socket, ServerHandlePacket(k) PROVE Session'
    BY <1>11, ServerSession
  <1>12. ASSUME NEW k \in Socket, SendLoginSuccess(k) PROVE Session'
    BY <1>12, SuccessSession
  <1>13. ASSUME NEW k \in Socket, ChannelResult(k) PROVE Session'
    <2>1. link[k] = "connected" /\ Talks(k) /\ ~hasSentDC[k] /\ requests[k] # <<>>
      BY <1>13, LiveTalks DEF ChannelResult
    <2>2. Working(k)
      BY <2>1 DEF Talks, StatusAsked, StatusTold, LoginStarted, KeyRequested, KeyGiven,
                  LoginAllowed, LoginGiven, LoginWaits, LoginSucceeded, Asked, Told, Waits
    <2>3. ~LoginSucceeded(k)
      BY <2>2 DEF Working, LoginSucceeded, Ends
    <2>4. PICK type \in {1, 9} : Write(k, <<type>>, sencrypted[k])
      BY <1>13 DEF ChannelResult
    <2>5. /\ UNCHANGED <<clientVars, link, up, sstate, sencrypted, hasSentDC, sreceived, login>>
          /\ \A j \in Socket : j # k => requests'[j] = requests[j]
      BY <1>13 DEF ChannelResult, IInv, TypeOK
    <2> QED BY <2>1, <2>2, <2>3, <2>4, <2>5, WorkSession
  <1>14. ASSUME NEW k \in Socket, NEW type \in {0, 2}, ServerTalk(k, type) PROVE Session'
    <2>1. link[k] = "connected" /\ Talks(k) /\ ~hasSentDC[k] /\ sstate[k] = 3
      BY <1>14, LiveTalks DEF ServerTalk
    <2>2. LoginSucceeded(k) \/ Working(k)
      BY <2>1 DEF Talks, StatusAsked, StatusTold, LoginStarted, KeyRequested, KeyGiven,
                  LoginAllowed, LoginGiven, LoginWaits, Ends
    <2>3. /\ Write(k, <<type>>, sencrypted[k])
          /\ UNCHANGED <<clientVars, link, up, sstate, sencrypted, hasSentDC, sreceived, login>>
          /\ UNCHANGED requests
      BY <1>14 DEF ServerTalk, serverVars
    <2> QED BY <2>1, <2>2, <2>3, WorkSession
  <1>15. CASE UNCHANGED vars
    BY <1>15, SessionStays DEF vars, clientVars
  <1> QED
    BY <1>1, <1>2, <1>3, <1>4, <1>5, <1>6, <1>7, <1>8, <1>9, <1>10, <1>11, <1>12, <1>13,
       <1>14, <1>15
       DEF Next, ClientStep, ServerStep

\* The next packet of an end was written for the state the end is in.
LEMMA SessionMeant ==
  ASSUME IInv, Session
  PROVE  MeantForReader
  <1>1. ASSUME received # <<>> PROVE Head(received).state = state
    <2>1. PICK k \in Socket : Talks(k)
      BY <1>1 DEF Session, SignedOff
    <2>2. received \in Seq(Data)
      BY DEF IInv, TypeOK
    <2>3. /\ ~Flows(received, down[k], FALSE)
          /\ Flows(received, down[k], TRUE) => IsWork(Head(received))
      BY <1>1, <2>2, NoWork, TakeFirst DEF Flows
    <2>4. \A type, st, enc, work :
            Carries(received, down[k], type, st, enc, work) => Head(received).state = st
      BY <1>1, <2>2, TakeFirst
    <2>5. CASE \/ StatusTold(k) \/ KeyRequested(k) \/ LoginAllowed(k) \/ LoginSucceeded(k)
      BY <2>4, <2>5 DEF StatusTold, KeyRequested, LoginAllowed, LoginSucceeded, Ends, Told
    <2>6. CASE Working(k)
      BY <2>3, <2>6 DEF Working, Works, Ends, IsWork
    <2> QED BY <2>1, <2>3, <2>5, <2>6
            DEF Talks, StatusAsked, LoginStarted, KeyGiven, LoginGiven, LoginWaits, Asked, Waits
  <1>2. ASSUME NEW k \in Socket, Live(k), sreceived[k] # <<>>
        PROVE  Head(sreceived[k]).state = sstate[k]
    <2>1. Talks(k)
      BY <1>2, LiveTalks
    <2>2. sreceived[k] \in Seq(Data)
      BY DEF IInv, TypeOK
    <2>3. /\ ~Flows(sreceived[k], up[k], FALSE)
          /\ Flows(sreceived[k], up[k], TRUE) => IsWork(Head(sreceived[k]))
      BY <1>2, <2>2, NoWork, TakeFirst DEF Flows
    <2>4. \A type, st, enc, work :
            Carries(sreceived[k], up[k], type, st, enc, work) => Head(sreceived[k]).state = st
      BY <1>2, <2>2, TakeFirst
    <2>5. CASE \/ StatusAsked(k) \/ LoginStarted(k) \/ KeyGiven(k) \/ LoginGiven(k)
      BY <2>4, <2>5 DEF StatusAsked, LoginStarted, KeyGiven, LoginGiven, Ends, Asked
    <2>6. CASE Working(k)
      BY <2>3, <2>6 DEF Working, Works, Ends, IsWork
    <2> QED BY <2>1, <2>3, <2>5, <2>6
            DEF Talks, StatusTold, KeyRequested, LoginAllowed, LoginSucceeded, LoginWaits,
                Told, Waits
  <1> QED BY <1>1, <1>2 DEF MeantForReader

\* Without faults the sessions keep to their phases.
THEOREM SessionPhases == ASSUME Fault = {} PROVE Spec => [](IInv /\ Session)
  <1>1. Init => IInv /\ Session
    BY InitHolds, SessionInit
  <1>2. IInv /\ Session /\ [Next]_vars => (IInv /\ Session)'
    <2> SUFFICES ASSUME IInv, Session, [Next]_vars PROVE IInv' /\ Session'
      OBVIOUS
    <2>1. IInv'
      BY Inductive
    <2> QED BY <2>1, SessionStep
  <1> QED BY <1>1, <1>2, PTL DEF Spec

\* Without faults both ends decode all data the way they were encoded, although
\* each decides on its own and once per call of DataReceived (ReadAsWritten).
THEOREM DecodingSafety == ASSUME Fault = {} PROVE Spec => []ReadAsWritten
  <1>1. IInv /\ Session => ReadAsWritten
    BY DEF Session, AllOk, ReadAsWritten
  <1> QED BY <1>1, SessionPhases, PTL

\* Without faults every packet meets the handler it was written for, although the
\* ends advance their protocol states on their own (MeantForReader).
THEOREM DispatchSafety == ASSUME Fault = {} PROVE Spec => []MeantForReader
  <1>1. IInv /\ Session => MeantForReader
    BY SessionMeant
  <1> QED BY <1>1, SessionPhases, PTL

=============================================================================
