\* A multi-buffer of more bytes than the 2-byte length field holds.
CONSTANTS
    ByteBits <- MCByteBits
    BufSize <- MCBufSize
    Buffers <- MCWideBuffers
    MaxBuffers <- MCWideMaxBuffers
    MaxCalls <- MCWideMaxCalls

SPECIFICATION Spec

INVARIANT DecodedPacketsMatchSent

CHECK_DEADLOCK FALSE
