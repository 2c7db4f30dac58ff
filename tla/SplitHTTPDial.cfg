CONSTANTS
    MaxConcurrentUploads <- MCMaxConcurrentUploads
    MaxUploadSize <- MCMaxUploadSize
    MaxWrites <- MCMaxWrites
    UseTLS = TRUE

SPECIFICATION Spec

INVARIANT TypeOK
INVARIANT PermitsMatchInFlight
INVARIANT UploadConservation

PROPERTY ClosedConnDrainsUploads
PROPERTY RefinesUploadStream

\* Dial may fail and the caller may stop; then every goroutine has finished
\* or is parked forever, so a state without successors is a real end state.
CHECK_DEADLOCK FALSE
