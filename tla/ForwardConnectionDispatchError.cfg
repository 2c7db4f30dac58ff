\* routing.Dispatcher.Dispatch may return an error with a nil link.
CONSTANTS
    GuestBuffers <- MCGuestBuffers
    RemoteBuffers <- MCRemoteBuffers

SPECIFICATION Spec

INVARIANT NoNilLinkDereference

CHECK_DEADLOCK FALSE
