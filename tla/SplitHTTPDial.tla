--------------------------- MODULE SplitHTTPDial ---------------------------
(***************************************************************************)
(* The SplitHTTP client dialer (splithttp Dial, getHTTPClient and          *)
(* uploadWriter in src/features/dns/fakedns.go).                           *)
(*                                                                         *)
(* Actors: the dialing goroutine, the caller using the returned splitConn, *)
(* the producer goroutine that drains the upload pipe, and one uploader    *)
(* goroutine per POST.  Caller writes are abstracted to items 1, 2, ...    *)
(* (the i-th Write carries item i), each of one unit of pipe size; a POST  *)
(* body is the sequence of items the producer read in one                  *)
(* ReadMultiBuffer.  The pipe and the semaphore are xray library code      *)
(* outside src/, modelled from the spec (sections 3, 4.4 and 4.5).         *)
(***************************************************************************)
EXTENDS Naturals, Sequences, FiniteSets, SequencesExt

CONSTANTS
    MaxConcurrentUploads,  \* GetNormalizedMaxConcurrentUploads()
    MaxUploadSize,         \* GetNormalizedMaxUploadSize(), in items
    MaxWrites,             \* bound on the caller's Write calls
    UseTLS                 \* tls.ConfigFromStreamSettings(...) # nil

ASSUME /\ MaxConcurrentUploads \in Nat \ {0}
       /\ MaxUploadSize \in Nat
       /\ MaxWrites \in Nat
       /\ UseTLS \in BOOLEAN

VARIABLES
    dialPc,     \* control point of the Dial goroutine
    client,     \* transport of the cached http.Client ("none", "h1", "h2")
    bodyOpen,   \* the download GET response body is open
    pipeState,  \* upload pipe: "none" before pipe.New, "open", "closed"
    pipe,       \* items buffered in the upload pipe
    written,    \* every item a caller Write handed to the pipe, in order
    producer,   \* producer goroutine: "none", "read", "wait", "exited"
    chunk,      \* the multi-buffer the producer holds between read and spawn
    permits,    \* free tokens of requestsLimiter
    counter,    \* requestCounter
    uploads     \* one record per spawned uploader goroutine

vars == <<dialPc, client, bodyOpen, pipeState, pipe, written, producer,
          chunk, permits, counter, uploads>>

Items == 1..MaxWrites
UploadStates == {"inflight", "delivered", "lost"}

InFlight == {u \in uploads : u.st = "inflight"}


-----------------------------------------------------------------------------
(* Dial *)

Init ==
    /\ dialPc = "start"
    /\ client = "none"
    /\ bodyOpen = FALSE
    /\ pipeState = "none"
    /\ pipe = <<>>
    /\ written = <<>>
    /\ producer = "none"
    /\ chunk = <<>>
    /\ permits = 0
    /\ counter = 0
    /\ uploads = {}

\* getHTTPClient: under the global mutex, build a fresh client (the cache
\* lookup is commented out) and store it in globalDialerMap; HTTP/2 when TLS
\* settings are present, HTTP/1 otherwise.
GetHTTPClient ==
    /\ dialPc = "start"
    /\ client' = IF UseTLS THEN "h2" ELSE "h1"
    /\ dialPc' = "get"
    /\ UNCHANGED <<bodyOpen, pipeState, pipe, written, producer, chunk,
                   permits, counter, uploads>>

\* The download GET: httpClient.Do fails, or answers a non-200 status (the
\* response body is left open), or answers 200; then the pipe is created and
\* the producer goroutine started, before the initial response is read.
DialDownload ==
    /\ dialPc = "get"
    /\ \/ /\ dialPc' = "failed"
          /\ UNCHANGED <<bodyOpen, pipeState, producer, permits, counter>>
       \/ /\ dialPc' = "failed"
          /\ bodyOpen' = TRUE
          /\ UNCHANGED <<pipeState, producer, permits, counter>>
       \/ /\ dialPc' = "readHeader"
          /\ bodyOpen' = TRUE
          /\ pipeState' = "open"
          /\ producer' = "read"
          /\ permits' = MaxConcurrentUploads
          /\ counter' = 0
    /\ UNCHANGED <<client, pipe, written, chunk, uploads>>

\* io.ReadFull of the two-byte "ok" header: on failure Dial returns an error
\* and nothing closes the pipe or the body; on success splitConn is returned.
ReadInitialResponse ==
    /\ dialPc = "readHeader"
    /\ dialPc' \in {"connected", "failed"}
    /\ UNCHANGED <<client, bodyOpen, pipeState, pipe, written, producer, chunk,
                   permits, counter, uploads>>

-----------------------------------------------------------------------------
(* The caller of the returned connection *)

\* Variant of PipeWrite: the pipe built with DiscardOverflow drops a write
\* that finds it full instead of blocking the writer.
PipeWriteDiscarding(item) ==
    /\ pipeState = "open"
    /\ IF Len(pipe) > MaxUploadSize
       THEN UNCHANGED pipe
       ELSE pipe' = Append(pipe, item)

\* pipe.WriteMultiBuffer under WithSizeLimit: blocks while the buffered data
\* exceeds the limit, then merges the write (it may overshoot the limit).
PipeWrite(item) ==
    /\ pipeState = "open"
    /\ Len(pipe) <= MaxUploadSize
    /\ pipe' = Append(pipe, item)

\* uploadWriter.Write: BufferedWriter.Write then Flush, so each Write reaches
\* the pipe before it returns.
UploadWriterWrite ==
    /\ dialPc = "connected"
    /\ Len(written) < MaxWrites
    /\ PipeWrite(Len(written) + 1)
    /\ written' = Append(written, Len(written) + 1)
    /\ UNCHANGED <<dialPc, client, bodyOpen, pipeState, producer, chunk,
                   permits, counter, uploads>>

\* splitConn.Close: closes the upload writer (and so the pipe) and the
\* download response body.
SplitConnClose ==
    /\ dialPc = "connected"
    /\ pipeState = "open"
    /\ pipeState' = "closed"
    /\ bodyOpen' = FALSE
    /\ UNCHANGED <<dialPc, client, pipe, written, producer, chunk, permits,
                   counter, uploads>>

-----------------------------------------------------------------------------
(* The producer goroutine and the uploaders *)

\* ReadMultiBuffer returns everything buffered; after Close the remaining
\* data is still returned, and only an empty closed pipe yields EOF.
ProducerReadMultiBuffer ==
    /\ producer = "read"
    /\ pipe # <<>>
    /\ chunk' = pipe
    /\ pipe' = <<>>
    /\ producer' = "wait"
    /\ UNCHANGED <<dialPc, client, bodyOpen, pipeState, written, permits,
                   counter, uploads>>

ProducerExit ==
    /\ producer = "read"
    /\ pipe = <<>>
    /\ pipeState = "closed"
    /\ producer' = "exited"
    /\ UNCHANGED <<dialPc, client, bodyOpen, pipeState, pipe, written, chunk,
                   permits, counter, uploads>>

\* Variant of ProducerSpawnUpload: a non-blocking receive on
\* requestsLimiter whose failure is ignored, so the goroutine is spawned
\* whether or not a token was free.
ProducerSpawnUngated ==
    /\ producer = "wait"
    /\ permits' = IF permits > 0 THEN permits - 1 ELSE 0
    /\ uploads' = uploads \cup {[seq |-> counter, body |-> chunk, st |-> "inflight"]}
    /\ counter' = counter + 1
    /\ chunk' = <<>>
    /\ producer' = "read"
    /\ UNCHANGED <<dialPc, client, bodyOpen, pipeState, pipe, written>>

\* <-requestsLimiter.Wait(); url := uploadUrl + requestCounter;
\* requestCounter += 1; go upload(url, chunk).
ProducerSpawnUpload ==
    /\ producer = "wait"
    /\ permits > 0
    /\ permits' = permits - 1
    /\ uploads' = uploads \cup {[seq |-> counter, body |-> chunk, st |-> "inflight"]}
    /\ counter' = counter + 1
    /\ chunk' = <<>>
    /\ producer' = "read"
    /\ UNCHANGED <<dialPc, client, bodyOpen, pipeState, pipe, written>>

\* Variant of UploadRequest: an explicit Signal on the error path on top of
\* the deferred one.
UploadRequestDoubleSignal(u) ==
    /\ u \in InFlight
    /\ \E o \in {"delivered", "lost"} :
          /\ uploads' = (uploads \ {u}) \cup {[u EXCEPT !.st = o]}
          /\ permits' = IF o = "lost" THEN permits + 2 ELSE permits + 1
    /\ UNCHANGED <<dialPc, client, bodyOpen, pipeState, pipe, written, producer,
                   chunk, counter>>

\* Variant of UploadRequest: the permit is given back only on the success
\* path instead of by the deferred Signal.
UploadRequestSignalOnSuccess(u) ==
    /\ u \in InFlight
    /\ \E o \in {"delivered", "lost"} :
          /\ uploads' = (uploads \ {u}) \cup {[u EXCEPT !.st = o]}
          /\ permits' = IF o = "delivered" THEN permits + 1 ELSE permits
    /\ UNCHANGED <<dialPc, client, bodyOpen, pipeState, pipe, written, producer,
                   chunk, counter>>

\* Variant of UploadRequest: a lost POST is sent again under the same seq,
\* taking a permit again.
UploadRequestRetry(u) ==
    \/ /\ u \in InFlight
       /\ \E o \in {"delivered", "lost"} :
             uploads' = (uploads \ {u}) \cup {[u EXCEPT !.st = o]}
       /\ permits' = permits + 1
       /\ UNCHANGED <<dialPc, client, bodyOpen, pipeState, pipe, written, producer,
                      chunk, counter>>
    \/ /\ u.st = "lost"
       /\ permits > 0
       /\ uploads' = (uploads \ {u}) \cup {[u EXCEPT !.st = "inflight"]}
       /\ permits' = permits - 1
       /\ UNCHANGED <<dialPc, client, bodyOpen, pipeState, pipe, written, producer,
                      chunk, counter>>

\* The uploader goroutine: POST with the chunk as body; a transport error or
\* a non-200 status is only logged (the chunk is lost to the server); the
\* deferred requestsLimiter.Signal() returns the permit on every path.
UploadRequest(u) ==
    /\ u \in InFlight
    /\ \E o \in {"delivered", "lost"} :
          uploads' = (uploads \ {u}) \cup {[u EXCEPT !.st = o]}
    /\ permits' = permits + 1
    /\ UNCHANGED <<dialPc, client, bodyOpen, pipeState, pipe, written, producer,
                   chunk, counter>>

-----------------------------------------------------------------------------

Producer == ProducerReadMultiBuffer \/ ProducerExit \/ ProducerSpawnUpload
Dialer == GetHTTPClient \/ DialDownload \/ ReadInitialResponse
Caller == UploadWriterWrite \/ SplitConnClose

Next ==
    \/ Dialer
    \/ Caller
    \/ Producer
    \/ \E u \in uploads : UploadRequest(u)

\* Goroutines that can run are eventually scheduled, and every POST
\* eventually returns (with a response or a transport error).  The caller is
\* not obliged to write or to close.
UploadsReturn ==
    \A s \in 0..MaxWrites : WF_vars(\E u \in uploads : u.seq = s /\ UploadRequest(u))

Fairness == WF_vars(Dialer) /\ WF_vars(Producer) /\ UploadsReturn

Spec == Init /\ [][Next]_vars /\ Fairness


-----------------------------------------------------------------------------
(* Properties *)

TypeOK ==
    /\ dialPc \in {"start", "get", "readHeader", "connected", "failed"}
    /\ client \in {"none", "h1", "h2"}
    /\ bodyOpen \in BOOLEAN
    /\ pipeState \in {"none", "open", "closed"}
    /\ pipe \in Seq(Items)
    /\ written \in Seq(Items)
    /\ producer \in {"none", "read", "wait", "exited"}
    /\ chunk \in Seq(Items)
    /\ permits \in 0..MaxConcurrentUploads
    /\ counter \in Nat
    /\ uploads \subseteq [seq : Nat, body : Seq(Items), st : UploadStates]

\* The upload bodies in seq order: what a server that reassembles by seq sees.
BodyOfSeq(s) == (CHOOSE u \in uploads : u.seq = s).body
BodiesInSeqOrder == [i \in 1..counter |-> BodyOfSeq(i - 1)]

StatusOfSeq(s) == (CHOOSE u \in uploads : u.seq = s).st

\* The refinement mapping: POSTs by seq with their bodies and outcomes; the
\* stream is open until the caller closes the pipe.
Stream == INSTANCE UploadStream
              WITH Data  <- Items,
                   posts <- [i \in 1 .. counter |-> [body |-> BodyOfSeq(i - 1),
                                                      st   |-> StatusOfSeq(i - 1)]],
                   open  <- pipeState # "closed"

\* Dial, the pipe, the producer's batching, requestsLimiter and the
\* uploaders together implement the upload stream: every step either
\* leaves the caller's view unchanged or is a write, a close, the next POST
\* of the next bytes, or the answer of an unanswered POST, and the posting
\* and answering the stream promises do happen.
RefinesUploadStream == Stream!Spec

\* requestsLimiter's tokens are conserved: once the session's semaphore
\* exists, the free tokens and the uploader goroutines holding a POST in
\* flight add up to MaxConcurrentUploads, whatever order producer and
\* uploaders run in and whichever path each POST ends on.  It bounds the
\* POSTs in flight, and no path of an uploader leaks or mints a token.
PermitsMatchInFlight ==
    pipeState # "none" => permits + Cardinality(InFlight) = MaxConcurrentUploads

\* The seqs in use are 0 .. requestCounter - 1, one POST each, so that the
\* bodies can be read in seq order.
SeqNumbersContiguous ==
    /\ {u.seq : u \in uploads} = 0..(counter - 1)
    /\ \A u, v \in uploads : u.seq = v.seq => u = v

\* No byte is lost, duplicated or reordered between the caller's Writes and
\* the POST bodies: the bodies in seq order, then the chunk the producer
\* holds, then the pipe's contents, are exactly what the caller wrote.
UploadConservation ==
    SeqNumbersContiguous =>
        FlattenSeq(BodiesInSeqOrder) \o chunk \o pipe = written

\* Once the caller closes a connected splitConn, the producer drains the
\* pipe, every POST finishes, all permits are returned and the producer
\* goroutine exits.
ClosedConnDrainsUploads ==
    (dialPc = "connected" /\ pipeState = "closed")
        ~> (/\ producer = "exited"
            /\ InFlight = {}
            /\ permits = MaxConcurrentUploads
            /\ pipe = <<>>)

\* A failed Dial leaves no goroutine behind (spec section 7: "returned to
\* caller, no partial state left"): if Dial started the producer before it
\* failed, the producer eventually exits.
FailedDialLeavesNoProducer ==
    (dialPc = "failed") ~> (producer \in {"none", "exited"})

=============================================================================
