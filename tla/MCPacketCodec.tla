--------------------------- MODULE MCPacketCodec ---------------------------
(* Instantiation of PacketCodec for TLC.  Two-bit bytes and four-byte      *)
(* buffers: the buffers below have every length from 0 to buf.Size, so    *)
(* MultiLengthPacketWriter keeps some (1 and 2 bytes) and drops the rest  *)
(* (0, 3 = buf.Size-1 and 4 = buf.Size), and LengthPacketWriter frames    *)
(* packets longer than one buffer, which the reader splits again.  The    *)
(* payload bytes differ, so a misplaced byte is told apart.               *)
EXTENDS PacketCodec

MCByteBits == 2
MCBufSize == 4
MCBuffers == {<<>>, <<1>>, <<2, 1>>, <<1, 2, 2>>, <<2, 2, 1, 1>>}
MCMaxBuffers == 2
MCMaxCalls == 3

(* A single call of four full buffers: 16 bytes, one more than the        *)
(* 2-byte length field holds at this width (65536 bytes in the code).     *)
MCWideBuffers == {<<1, 1, 1, 1>>}
MCWideMaxBuffers == 4
MCWideMaxCalls == 1
=============================================================================
