\* A length byte narrower than a fully populated record.
CONSTANTS
    ByteBits <- MCNarrowByteBits
    XRV <- MCXRV
    Flows <- MCFlows
    PeerPaddings <- MCPeerPaddings
    PeerDelays <- MCPeerDelays
    PeerSchedulers <- MCPeerSchedulers
    None = None

SPECIFICATION Spec

INVARIANT AddonsRoundTrip

\* The handshake ends: the client has checked the response or failed.
CHECK_DEADLOCK FALSE
