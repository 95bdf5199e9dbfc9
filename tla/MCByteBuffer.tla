---------------------------- MODULE MCByteBuffer ----------------------------
(* Bytes for ByteBuffer: two values are enough to see a byte out of place.  *)
EXTENDS ByteBuffer

CONSTANTS x, y

TwoBytes == {x, y}
=============================================================================
