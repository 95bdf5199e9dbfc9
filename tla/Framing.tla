------------------------------- MODULE Framing -------------------------------
(***************************************************************************)
(* The packet layer from the server to a client.  On the server several     *)
(* threads compose packets in the one m_OutPacketBuffer of the connection,  *)
(* each with a cPacketizer, whose destructor sends the length and the       *)
(* packet.  The client reads the byte stream in chunks of any size, collects*)
(* them in m_ReceivedData and handles what is complete.  Encryption keeps   *)
(* lengths and order and is left to Login; the ring buffers are sequences,  *)
(* which is what ByteBuffer shows them to be.                               *)
(***************************************************************************)
EXTENDS Naturals, Sequences

CONSTANTS
  Base,      \* values of the low bits of a byte of a VarInt (128 in the code)
  Writer,    \* threads of the server that send
  Type,      \* packet types
  Refused,   \* types HandlePacket does not know in the client's state
  Field,     \* what a Write call of the packetizer puts into a packet
  OutSize,   \* size of m_OutPacketBuffer (64 KiB)
  InSize,    \* size of m_ReceivedData (16 KiB)
  MaxChunk,  \* bytes of one AddReceivedData (512 decrypted, 64 Ki in the clear)
  MaxFields, \* bound on the fields of a packet
  MaxSent    \* bound on the packets sent

Byte == 0..(2 * Base - 1)

Free == "free"

ASSUME FramingAssumption ==
  /\ Base \in Nat \ {0, 1}
  /\ {OutSize, InSize, MaxChunk, MaxFields, MaxSent} \subseteq Nat
  /\ Type \subseteq Nat
  /\ Refused \subseteq Type
  /\ Field \subseteq Seq(Byte)
  /\ Free \notin Writer

VARIABLES
  alive,    \* the server's process has not left through VERIFY
  lock,     \* the thread that holds m_CSPacket
  out,      \* m_OutPacketBuffer
  draft,    \* draft[w]: the packet w is composing (history)
  fields,   \* fields[w]: how many fields it has been given
  wire,     \* bytes on their way
  received, \* m_ReceivedData
  reader,   \* the client's thread: waiting for data or in the loop over packets
  held,     \* it left the loop at a packet that HandlePacket refused
  lost,     \* a chunk did not fit into m_ReceivedData
  sent,     \* packets whose packetizer was destroyed (history)
  handled   \* packets given to HandlePacket (history)

writeVars == <<alive, lock, out, draft, fields, sent>>
readVars == <<received, reader, held, lost, handled>>
vars == <<writeVars, wire, readVars>>

TypeOK ==
  /\ alive \in BOOLEAN
  /\ lock \in Writer \cup {Free}
  /\ out \in Seq(Byte) /\ Len(out) <= OutSize
  /\ draft \in [Writer -> Seq(Byte)]
  /\ fields \in [Writer -> 0..MaxFields]
  /\ wire \in Seq(Byte)
  /\ received \in Seq(Byte) /\ Len(received) <= InSize
  /\ reader \in {"idle", "loop"}
  /\ held \in BOOLEAN
  /\ lost \in BOOLEAN
  /\ sent \in Seq(Seq(Byte)) /\ Len(sent) <= MaxSent
  /\ handled \in Seq(Seq(Byte))

Init ==
  /\ alive = TRUE
  /\ lock = Free
  /\ out = <<>>
  /\ draft = [w \in Writer |-> <<>>]
  /\ fields = [w \in Writer |-> 0]
  /\ wire = <<>>
  /\ received = <<>>
  /\ reader = "idle"
  /\ held = FALSE
  /\ lost = FALSE
  /\ sent = <<>>
  /\ handled = <<>>

-----------------------------------------------------------------------------
(* VarInts: digits, the lowest first, all but the last marked.              *)

\* WriteVarInt32.
VarInt[n \in Nat] ==
  IF n < Base THEN <<n>> ELSE <<Base + (n % Base)>> \o VarInt[n \div Base]

WriteVarInt32(n) == VarInt[n]

\* ReadVarInt32: how many bytes it reads, 0 when it runs out of bytes.
VarIntSize(s) ==
  LET ends == {k \in 1..Len(s) : s[k] < Base}
  IN  IF ends = {} THEN 0 ELSE CHOOSE k \in ends : \A j \in ends : k <= j

\* The number that digits make.
Digits[s \in Seq(Byte)] ==
  IF s = <<>> THEN 0 ELSE (Head(s) % Base) + Base * Digits[Tail(s)]

ReadVarInt32(s) == Digits[SubSeq(s, 1, VarIntSize(s))]

\* An empty buffer takes every type: a VarInt has at most 5 bytes in the code.
ASSUME TypesFit == \A type \in Type : Len(WriteVarInt32(type)) <= OutSize

-----------------------------------------------------------------------------
(* The server.                                                              *)

\* Mutant: the packetizer does not lock m_CSPacket.
MayCompose_Unlocked(w) == draft[w] = <<>>

MayCompose(w) == lock = Free

\* Mutant: a field is written without a look at the free space.
Fits_Always(s) == TRUE

\* PUTBYTES.
Fits(s) == Len(out) + Len(s) <= OutSize

\* The constructor of cPacketizer, which does not look at the result of the
\* write.
Packetizer(w, type) ==
  /\ alive
  /\ Len(sent) < MaxSent
  /\ draft[w] = <<>>
  /\ MayCompose(w)
  /\ lock' = w
  /\ out' = IF Fits(WriteVarInt32(type)) THEN out \o WriteVarInt32(type) ELSE out
  /\ draft' = [draft EXCEPT ![w] = WriteVarInt32(type)]
  /\ UNCHANGED <<alive, fields, sent, wire, readVars>>

\* A Write of the packetizer.
WriteField(w, s) ==
  /\ alive
  /\ draft[w] # <<>>
  /\ fields[w] < MaxFields
  /\ Fits(s)
  /\ fields' = [fields EXCEPT ![w] = @ + 1]
  /\ out' = out \o s
  /\ draft' = [draft EXCEPT ![w] = @ \o s]
  /\ UNCHANGED <<alive, lock, sent, wire, readVars>>

\* VERIFY ends the process when a field does not fit; what the system has not
\* sent by then is gone.
VerificationFails(w, s) ==
  /\ alive
  /\ draft[w] # <<>>
  /\ fields[w] < MaxFields
  /\ ~Fits(s)
  /\ alive' = FALSE
  /\ \E n \in 0..Len(wire) : wire' = SubSeq(wire, 1, n)
  /\ UNCHANGED <<lock, out, draft, fields, sent, readVars>>

\* ~cPacketizer and SendPacket; then the lock goes.
SendPacket(w) ==
  /\ alive
  /\ draft[w] # <<>>
  /\ wire' = wire \o WriteVarInt32(Len(out)) \o out
  /\ out' = <<>>
  /\ sent' = Append(sent, draft[w])
  /\ draft' = [draft EXCEPT ![w] = <<>>]
  /\ fields' = [fields EXCEPT ![w] = 0]
  /\ lock' = Free
  /\ UNCHANGED <<alive, readVars>>

-----------------------------------------------------------------------------
(* The client.                                                              *)

\* What is left of m_ReceivedData.
HasRoom(n) == Len(received) + n <= InSize

\* OnRead and DataReceived bring a chunk; AddReceivedData writes it to the
\* buffer or, if it does not fit, reports and drops it.
DataReceived(n) ==
  /\ reader = "idle"
  /\ n <= Len(wire)
  /\ wire' = SubSeq(wire, n + 1, Len(wire))
  /\ IF HasRoom(n)
     THEN /\ received' = received \o SubSeq(wire, 1, n)
          /\ reader' = "loop"
          /\ held' = FALSE
          /\ UNCHANGED lost
     ELSE lost' = TRUE /\ UNCHANGED <<received, reader, held>>
  /\ UNCHANGED <<writeVars, handled>>

\* ReadVarInt and CanReadBytes succeed.
Complete ==
  LET k == VarIntSize(received)
  IN  k > 0 /\ k + ReadVarInt32(received) <= Len(received)

\* One of them fails: ResetRead, and the loop waits for more data.
LoopEnds ==
  /\ reader = "loop"
  /\ ~Complete
  /\ reader' = "idle"
  /\ UNCHANGED <<writeVars, wire, received, held, lost, handled>>

\* The packet has a type, and one that HandlePacket knows.
Known(packet) == VarIntSize(packet) > 0 /\ ReadVarInt32(packet) \notin Refused

\* Mutant: the loop is left after every packet.
Continues_Never(packet) == FALSE

\* Whether the loop goes on after a packet: not if it has no type, and not if
\* HandlePacket refuses it.
Continues(packet) == Known(packet)

\* A complete packet is cut out, committed and given to HandlePacket if it
\* has a type.
HandlePacket ==
  LET k == VarIntSize(received)
      n == k + ReadVarInt32(received)
      packet == SubSeq(received, k + 1, n)
  IN  /\ reader = "loop"
      /\ Complete
      /\ received' = SubSeq(received, n + 1, Len(received))
      /\ handled' = IF VarIntSize(packet) > 0 THEN Append(handled, packet) ELSE handled
      /\ reader' = IF Continues(packet) THEN "loop" ELSE "idle"
      /\ held' = ~Known(packet)
      /\ UNCHANGED <<writeVars, wire, lost>>

-----------------------------------------------------------------------------

ReaderStep == LoopEnds \/ HandlePacket \/ \E n \in 1..MaxChunk : DataReceived(n)

Next ==
  \/ \E w \in Writer :
       \/ \E type \in Type : Packetizer(w, type)
       \/ \E s \in Field : WriteField(w, s) \/ VerificationFails(w, s)
       \/ SendPacket(w)
  \/ ReaderStep

Spec == Init /\ [][Next]_vars

-----------------------------------------------------------------------------

\* A packet that can make the client drop a chunk: with its length and a chunk
\* it exceeds the buffer, or it is refused and the rest of a chunk waits
\* behind it.
Fatal(packet) ==
  \/ Len(WriteVarInt32(Len(packet))) + Len(packet) + MaxChunk > InSize + 1
  \/ ReadVarInt32(packet) \in Refused

\* The handlers get the packets whole, once and in the order in which the
\* threads released m_CSPacket, until a chunk is dropped; and none is dropped
\* (AddReceivedData, "Too much data") unless one of the packets was fatal.
Stream == INSTANCE PacketStream WITH broken <- lost
PacketsInOrder == Stream!Spec

\* When the client goes back to wait for data, no complete packet is left in
\* its buffer, so that with nothing on the wire everything a live server
\* sent has been handled; the exception is what follows a refused packet, which waits for
\* data that may never come.
NothingCompleteWaits ==
  reader = "idle" /\ ~lost /\ ~held =>
    /\ ~Complete
    /\ alive /\ wire = <<>> => handled = sent
====
