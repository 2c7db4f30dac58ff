CONSTANTS
    GuestBuffers <- MCGuestBuffers
    RemoteBuffers <- MCRemoteBuffers

SPECIFICATION Spec

INVARIANT TypeOK

PROPERTY FlowReleased

\* A flow that has returned, with both halves finished, has nothing left to do.
CHECK_DEADLOCK FALSE
