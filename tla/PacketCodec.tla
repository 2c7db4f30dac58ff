---------------------------- MODULE PacketCodec ----------------------------
(***************************************************************************)
(* The length-prefixed datagram framing of src/unnamed/part_000: one       *)
(* stream, written by LengthPacketWriter or MultiLengthPacketWriter and    *)
(* read by LengthPacketReader at the other end.  The writer's calls, the   *)
(* bytes on the wire and the reader's calls interleave; the underlying     *)
(* io.Writer may fail after writing any prefix of a call's bytes, and the  *)
(* writer's side may close the stream.  Bytes are ByteBits wide (8 in the  *)
(* code) and a buf.Buffer holds BufSize of them (buf.Size, 8192 in the     *)
(* code); both are scaled down together so that the 16-bit length field    *)
(* and the buffer capacity are reachable.                                  *)
(***************************************************************************)
EXTENDS Naturals, Sequences, SequencesExt

CONSTANTS
    ByteBits,     \* width of a byte
    BufSize,      \* capacity of a buf.Buffer
    Buffers,      \* the buffers a caller may hand to WriteMultiBuffer
    MaxBuffers,   \* bound on the buffers of one multi-buffer
    MaxCalls      \* bound on WriteMultiBuffer calls

ByteRange == 0 .. (2^ByteBits - 1)

ASSUME /\ BufSize >= 2
       /\ Buffers \subseteq Seq(ByteRange)
       /\ \A b \in Buffers : Len(b) <= BufSize

VARIABLES
    kind,       \* which writer the stream was built with
    cache,      \* LengthPacketWriter.cache between calls
    wire,       \* bytes written and not yet read
    wstate,     \* "open", "failed" (a Write returned an error), "closed"
    calls,      \* WriteMultiBuffer calls made
    sent,       \* payload of every packet a call framed, in order
    committed,  \* packets of calls that returned nil
    rstate,     \* "reading" or the error ReadMultiBuffer returned
    delivered   \* multi-buffers ReadMultiBuffer returned, in order

vars == <<kind, cache, wire, wstate, calls, sent, committed, rstate, delivered>>

MultiBuffers == BoundedSeq(Buffers, MaxBuffers)

\* byte(x): the low ByteBits bits
Byte(x) == x % 2^ByteBits

\* byte(length>>8), byte(length)
LengthHeader(l) == <<Byte(l \div 2^ByteBits), Byte(l)>>

\* Mutant: the length bytes read in the wrong order.
HeaderLengthSwapped(hi, lo) == lo * 2^ByteBits + hi

\* int32(cache[0])<<8 | int32(cache[1])
HeaderLength(hi, lo) == hi * 2^ByteBits + lo

\* Mutant: the filter leaves room for one header byte only.
RetainedOffByOne(b) == Len(b) # 0 /\ Len(b) + 1 <= BufSize

\* length == 0 || length+2 > buf.Size drops the buffer
Retained(b) == Len(b) # 0 /\ Len(b) + 2 <= BufSize

\* eb := buf.New(); the header bytes, then eb.Write(b.Bytes()), which
\* copies only what fits in the buffer's capacity and reports no error
PacketFrame(b) ==
    LET f == LengthHeader(Len(b)) \o b
    IN  IF Len(f) > BufSize THEN SubSeq(f, 1, BufSize) ELSE f

\* the loop of ReadMultiBuffer: buffers of at most buf.Size bytes, in order
RECURSIVE ReadChunks(_)
ReadChunks(s) ==
    IF s = <<>> THEN <<>>
    ELSE LET size == IF Len(s) > BufSize THEN BufSize ELSE Len(s)
         IN  <<SubSeq(s, 1, size)>> \o ReadChunks(SubSeq(s, size + 1, Len(s)))

Init == /\ kind \in {"length", "multi"}
        /\ cache = <<>>
        /\ wire = <<>>
        /\ wstate = "open"
        /\ calls = 0
        /\ sent = <<>>
        /\ committed = 0
        /\ rstate = "reading"
        /\ delivered = <<>>

\* The io.Writer (or buf.Writer) call that ends a WriteMultiBuffer: it
\* writes all of out and returns nil, or writes a prefix and fails.
WriteOut(out, packets) ==
    /\ sent' = sent \o packets
    /\ \/ /\ wire' = wire \o out
          /\ committed' = committed + Len(packets)
          /\ UNCHANGED wstate
       \/ /\ \E k \in 0 .. (Len(out) - 1) : wire' = wire \o SubSeq(out, 1, k)
          /\ wstate' = "failed"
          /\ UNCHANGED committed

\* Mutant: the deferred cache reset is missing.
WriteLengthPacketNoReset(mb) ==
    LET payload == FlattenSeq(mb)
        out     == cache \o LengthHeader(Len(payload)) \o payload
    IN  IF Len(payload) = 0
        THEN UNCHANGED <<cache, wire, wstate, sent, committed>>
        ELSE /\ cache' = out
             /\ WriteOut(out, <<payload>>)

\* LengthPacketWriter.WriteMultiBuffer: one header for the whole
\* multi-buffer; the deferred reset empties the cache on every return.
WriteLengthPacket(mb) ==
    LET payload == FlattenSeq(mb)
        out     == cache \o LengthHeader(Len(payload)) \o payload
    IN  IF Len(payload) = 0
        THEN UNCHANGED <<cache, wire, wstate, sent, committed>>
        ELSE /\ cache' = <<>>
             /\ WriteOut(out, <<payload>>)

\* MultiLengthPacketWriter.WriteMultiBuffer: one frame per retained buffer,
\* committed as one write; nothing is written when none is retained.
WriteMultiLengthPacket(mb) ==
    LET kept == SelectSeq(mb, Retained)
    IN  /\ UNCHANGED cache
        /\ IF kept = <<>>
           THEN UNCHANGED <<wire, wstate, sent, committed>>
           ELSE WriteOut(FlattenSeq([i \in 1 .. Len(kept) |-> PacketFrame(kept[i])]),
                         kept)

\* A caller's WriteMultiBuffer on the open stream.
WriteMultiBuffer ==
    /\ wstate = "open"
    /\ calls < MaxCalls
    /\ calls' = calls + 1
    /\ \E mb \in MultiBuffers :
          IF kind = "length" THEN WriteLengthPacket(mb)
                             ELSE WriteMultiLengthPacket(mb)
    /\ UNCHANGED <<kind, rstate, delivered>>

\* The writing side closes the connection.
CloseWriter ==
    /\ wstate = "open"
    /\ wstate' = "closed"
    /\ UNCHANGED <<kind, cache, wire, calls, sent, committed, rstate, delivered>>

\* LengthPacketReader.ReadMultiBuffer: io.ReadFull of the 2-byte length,
\* then ReadFullFrom of the payload in chunks.  Each read blocks until its
\* bytes arrive; once the writer is gone a short read is an error.
ReadPacket ==
    /\ rstate = "reading"
    /\ \/ /\ Len(wire) >= 2
          /\ LET length == HeaderLength(wire[1], wire[2])
             IN  \/ /\ Len(wire) >= 2 + length
                    /\ delivered' = Append(delivered, ReadChunks(SubSeq(wire, 3, 2 + length)))
                    /\ wire' = SubSeq(wire, 3 + length, Len(wire))
                    /\ UNCHANGED rstate
                 \/ /\ Len(wire) < 2 + length
                    /\ wstate # "open"
                    /\ rstate' = "payloadError"
                    /\ UNCHANGED <<wire, delivered>>
       \/ /\ Len(wire) < 2
          /\ wstate # "open"
          /\ rstate' = "lengthError"
          /\ UNCHANGED <<wire, delivered>>
    /\ UNCHANGED <<kind, cache, wstate, calls, sent, committed>>

Next == WriteMultiBuffer \/ CloseWriter \/ ReadPacket

Spec == Init /\ [][Next]_vars /\ WF_vars(ReadPacket)

-----------------------------------------------------------------------------

TypeOK ==
    /\ kind \in {"length", "multi"}
    /\ cache = <<>>
    /\ wire \in Seq(ByteRange)
    /\ wstate \in {"open", "failed", "closed"}
    /\ calls \in 0 .. MaxCalls
    /\ sent \in Seq(Seq(ByteRange))
    /\ committed \in 0 .. Len(sent)
    /\ rstate \in {"reading", "lengthError", "payloadError"}
    /\ delivered \in Seq(Seq(Seq(ByteRange)))

\* What the reader returns is what the writer framed (spec 5.1 and 5.2):
\* the i-th multi-buffer ReadMultiBuffer returns holds exactly the bytes
\* of the i-th packet a WriteMultiBuffer call framed, split into
\* ceil(L/buf.Size) buffers of at most buf.Size bytes; the reader never
\* returns a packet no call framed, however the writer's calls, its
\* failures and the reader's calls interleave.
DecodedPacketsMatchSent ==
    /\ Len(delivered) <= Len(sent)
    /\ \A i \in 1 .. Len(delivered) :
          /\ FlattenSeq(delivered[i]) = sent[i]
          /\ Len(delivered[i]) = (Len(sent[i]) + BufSize - 1) \div BufSize
          /\ \A j \in 1 .. Len(delivered[i]) : Len(delivered[i][j]) <= BufSize

\* Every packet of a WriteMultiBuffer call that returned nil is eventually
\* returned by the reader's ReadMultiBuffer, whatever the writer does later.
CommittedPacketsDelivered ==
    \A n \in 1 .. MaxCalls * MaxBuffers :
        (committed >= n) ~> (Len(delivered) >= n)

=============================================================================
