CONSTANTS
    ByteBits <- MCByteBits
    BufSize <- MCBufSize
    Buffers <- MCBuffers
    MaxBuffers <- MCMaxBuffers
    MaxCalls <- MCMaxCalls

SPECIFICATION Spec

INVARIANT TypeOK
INVARIANT DecodedPacketsMatchSent

PROPERTY CommittedPacketsDelivered

\* After its last call the writer may keep the stream open: the reader then
\* blocks in io.ReadFull, as the code does.
CHECK_DEADLOCK FALSE
