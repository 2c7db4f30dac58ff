\* Dial failing after the producer goroutine was started: the 2-byte
\* initial read of the download response fails.
CONSTANTS
    MaxConcurrentUploads <- MCMaxConcurrentUploads
    MaxUploadSize <- MCMaxUploadSize
    MaxWrites <- MCMaxWrites
    UseTLS = TRUE

SPECIFICATION Spec

PROPERTY FailedDialLeavesNoProducer

CHECK_DEADLOCK FALSE
