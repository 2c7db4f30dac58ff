CONSTANTS
    ByteBits <- MCByteBits
    XRV <- MCXRV
    Flows <- MCFlows
    PeerPaddings <- MCPeerPaddings
    PeerDelays <- MCPeerDelays
    PeerSchedulers <- MCPeerSchedulers
    None = None

SPECIFICATION Spec

INVARIANT TypeOK
INVARIANT AddonsRoundTrip
INVARIANT CheckSeedMatchesReference

\* The handshake ends: the client has checked the response or failed.
CHECK_DEADLOCK FALSE
