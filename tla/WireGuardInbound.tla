------------------------- MODULE WireGuardInbound -------------------------
(***************************************************************************)
(* The WireGuard inbound server: Server.Process, the queue-based bind it   *)
(* feeds and the TCP/UDP forwarders of the userspace stack                 *)
(* (src/proxy/wireguard/server.go).                                        *)
(*                                                                         *)
(* Actors: one Process goroutine per inbound UDP connection (one per       *)
(* peer), the device's receive goroutines, each blocked in bind receive    *)
(* on readQueue, and one forwarder goroutine per flow the userspace stack  *)
(* intercepts.  The bind (readQueue, receive, Close) is library code       *)
(* outside src/, modelled from the spec (section 4.7).  What the device    *)
(* does with a datagram (decrypt, route into the stack) is abstracted to   *)
(* "may open a new flow".  routingInfo is identified by the connection     *)
(* whose Process wrote it.                                                 *)
(***************************************************************************)
EXTENDS Naturals, FiniteSets

CONSTANTS
    Conns,          \* inbound connections, one per peer
    Workers,        \* the device's goroutines receiving from the bind
    MaxDatagrams,   \* bound on datagrams read from each connection
    MaxFlows,       \* bound on flows the stack intercepts
    None

ASSUME /\ MaxDatagrams \in Nat /\ MaxFlows \in Nat
       /\ None \notin Conns

VARIABLES
    proc,       \* proc[c]: Process(c) "idle", "reading", "handoff", "returned"
    payload,    \* payload[c]: the datagram Process(c) holds: "data" or "empty"
    reads,      \* reads[c]: datagrams read from c
    connOpen,   \* connOpen[c]: c can still be read
    info,       \* s.info: the connection whose Process wrote it, or None
    epConn,     \* epConn[c]: nep.conn of c's endpoint: "unset", "conn", "nil"
    deviceUp,   \* readQueue is open
    worker,     \* worker[w]: "idle", "posted" (blocked on readQueue), "filled",
                \* "exited"
    slot,       \* slot[w]: the element the worker posted: [from, kind]
    syns,       \* flows the stack intercepted, not yet taken by a forwarder
    flows       \* forwarder outcomes: [origin, proto, id, info, st]

vars == <<proc, payload, reads, connOpen, info, epConn, deviceUp, worker,
          slot, syns, flows>>

Kinds == {"data", "empty"}
Protos == {"tcp", "udp"}
EmptySlot == [from |-> None, kind |-> "data"]

Init ==
    /\ proc = [c \in Conns |-> "idle"]
    /\ payload = [c \in Conns |-> "data"]
    /\ reads = [c \in Conns |-> 0]
    /\ connOpen = [c \in Conns |-> TRUE]
    /\ info = None
    /\ epConn = [c \in Conns |-> "unset"]
    /\ deviceUp = TRUE
    /\ worker = [w \in Workers |-> "idle"]
    /\ slot = [w \in Workers |-> EmptySlot]
    /\ syns = {}
    /\ flows = {}

-----------------------------------------------------------------------------
(* Server.Process *)

\* Variant of ProcessStart: s.info is not written.
ProcessStartNoInfo(c) ==
    /\ proc[c] = "idle"
    /\ epConn' = [epConn EXCEPT ![c] = "conn"]
    /\ proc' = [proc EXCEPT ![c] = "reading"]
    /\ UNCHANGED <<payload, reads, connOpen, info, deviceUp, worker, slot,
                   syns, flows>>

\* s.info = routingInfo{...} for this call; ParseEndpoint(conn.RemoteAddr());
\* nep.conn = conn.
ProcessStart(c) ==
    /\ proc[c] = "idle"
    /\ info' = c
    /\ epConn' = [epConn EXCEPT ![c] = "conn"]
    /\ proc' = [proc EXCEPT ![c] = "reading"]
    /\ UNCHANGED <<payload, reads, connOpen, deviceUp, worker, slot, syns, flows>>

\* reader.ReadMultiBuffer() on the packet reader: one datagram, possibly of
\* zero bytes; any read error returns it from Process as is.
ProcessRead(c) ==
    /\ proc[c] = "reading"
    /\ \/ /\ connOpen[c] /\ reads[c] < MaxDatagrams
          /\ \E k \in Kinds : payload' = [payload EXCEPT ![c] = k]
          /\ reads' = [reads EXCEPT ![c] = @ + 1]
          /\ proc' = [proc EXCEPT ![c] = "handoff"]
       \/ /\ ~connOpen[c]
          /\ proc' = [proc EXCEPT ![c] = "returned"]
          /\ UNCHANGED <<payload, reads>>
    /\ UNCHANGED <<connOpen, info, epConn, deviceUp, worker, slot, syns, flows>>

\* Variant of ProcessHandoff: v.endpoint is not set.
ProcessHandoffNoEndpoint(c) ==
    /\ proc[c] = "handoff"
    /\ \/ /\ deviceUp
          /\ \E w \in Workers :
                /\ worker[w] = "posted"
                /\ worker' = [worker EXCEPT ![w] = "filled"]
                /\ slot' = [slot EXCEPT ![w] = [from |-> None, kind |-> payload[c]]]
          /\ IF payload[c] = "empty"
             THEN /\ epConn' = [epConn EXCEPT ![c] = "nil"]
                  /\ proc' = [proc EXCEPT ![c] = "returned"]
             ELSE /\ proc' = [proc EXCEPT ![c] = "reading"]
                  /\ UNCHANGED epConn
       \/ /\ ~deviceUp
          /\ proc' = [proc EXCEPT ![c] = "returned"]
          /\ UNCHANGED <<worker, slot, epConn>>
    /\ UNCHANGED <<payload, reads, connOpen, info, deviceUp, syns, flows>>

\* v, ok := <-readQueue; copy the payload into v.buff and set v.bytes,
\* v.endpoint, v.err, then v.waiter.Done().  A closed readQueue ends
\* Process; a zero-byte payload makes payload.Read return io.EOF, which
\* clears nep.conn and ends Process.
ProcessHandoff(c) ==
    /\ proc[c] = "handoff"
    /\ \/ /\ deviceUp
          /\ \E w \in Workers :
                /\ worker[w] = "posted"
                /\ worker' = [worker EXCEPT ![w] = "filled"]
                /\ slot' = [slot EXCEPT ![w] = [from |-> c, kind |-> payload[c]]]
          /\ IF payload[c] = "empty"
             THEN /\ epConn' = [epConn EXCEPT ![c] = "nil"]
                  /\ proc' = [proc EXCEPT ![c] = "returned"]
             ELSE /\ proc' = [proc EXCEPT ![c] = "reading"]
                  /\ UNCHANGED epConn
       \/ /\ ~deviceUp
          /\ proc' = [proc EXCEPT ![c] = "returned"]
          /\ UNCHANGED <<worker, slot, epConn>>
    /\ UNCHANGED <<payload, reads, connOpen, info, deviceUp, syns, flows>>

\* The inbound connection is closed by its owner (the UDP hub).
ConnClose(c) ==
    /\ connOpen[c]
    /\ connOpen' = [connOpen EXCEPT ![c] = FALSE]
    /\ UNCHANGED <<proc, payload, reads, info, epConn, deviceUp, worker, slot,
                   syns, flows>>

-----------------------------------------------------------------------------
(* The bind and the device *)

\* bind receive: post an element with waiter.Add(1) on readQueue and block.
WorkerPost(w) ==
    /\ deviceUp
    /\ worker[w] = "idle"
    /\ worker' = [worker EXCEPT ![w] = "posted"]
    /\ UNCHANGED <<proc, payload, reads, connOpen, info, epConn, deviceUp, slot,
                   syns, flows>>

\* Variant of WorkerDeliver: the receive goroutine stops after one packet.
WorkerDeliverOnce(w) ==
    /\ worker[w] = "filled"
    /\ worker' = [worker EXCEPT ![w] = "exited"]
    /\ slot' = [slot EXCEPT ![w] = EmptySlot]
    /\ UNCHANGED <<proc, payload, reads, connOpen, info, epConn, deviceUp,
                   syns, flows>>

\* waiter.Wait() returns; the device takes the datagram.  A data datagram
\* may carry the first packet of a flow, which the stack hands to its TCP or
\* UDP forwarder.
WorkerDeliver(w) ==
    /\ worker[w] = "filled"
    /\ worker' = [worker EXCEPT ![w] = "idle"]
    /\ slot' = [slot EXCEPT ![w] = EmptySlot]
    /\ \/ UNCHANGED syns
       \/ /\ slot[w].kind = "data"
          /\ Cardinality(syns) + Cardinality(flows) < MaxFlows
          /\ \E p \in Protos :
                syns' = syns \cup {[origin |-> slot[w].from, proto |-> p,
                                    id |-> Cardinality(syns) + Cardinality(flows)]}
    /\ UNCHANGED <<proc, payload, reads, connOpen, info, epConn, deviceUp, flows>>

\* bind.Close closes readQueue; a receive blocked on it fails with
\* net.ErrClosed and its goroutine ends.
DeviceClose ==
    /\ deviceUp
    /\ deviceUp' = FALSE
    /\ worker' = [w \in Workers |-> IF worker[w] = "posted" THEN "exited" ELSE worker[w]]
    /\ UNCHANGED <<proc, payload, reads, connOpen, info, epConn, slot, syns, flows>>

\* A receive goroutine that finds the bind closed ends.
WorkerExit(w) ==
    /\ ~deviceUp
    /\ worker[w] = "idle"
    /\ worker' = [worker EXCEPT ![w] = "exited"]
    /\ UNCHANGED <<proc, payload, reads, connOpen, info, epConn, deviceUp, slot,
                   syns, flows>>

-----------------------------------------------------------------------------
(* setConnectionHandler: the forwarder goroutines *)

\* Record of a flow handed to forwardConnection(s.info, ...): s.info is read
\* when the forwarder goroutine runs; a nil dispatcher drops the flow.
FlowOf(s, i, st) ==
    [origin |-> s.origin, proto |-> s.proto, id |-> s.id, info |-> i, st |-> st]

Forwarded(s) == FlowOf(s, info, IF info = None THEN "dropped" ELSE "forwarded")

\* TCP: CreateEndpoint (three-way handshake); on error Complete(true) sends
\* RST; else Complete(false), keep-alive on, forwardConnection.
TCPForward(s) ==
    /\ s \in syns /\ s.proto = "tcp"
    /\ syns' = syns \ {s}
    /\ \/ flows' = flows \cup {FlowOf(s, None, "rst")}
       \/ flows' = flows \cup {Forwarded(s)}
    /\ UNCHANGED <<proc, payload, reads, connOpen, info, epConn, deviceUp,
                   worker, slot>>

\* UDP: CreateEndpoint; on error only logged; else a 15 s linger and
\* forwardConnection.
UDPForward(s) ==
    /\ s \in syns /\ s.proto = "udp"
    /\ syns' = syns \ {s}
    /\ \/ flows' = flows \cup {FlowOf(s, None, "failed")}
       \/ flows' = flows \cup {Forwarded(s)}
    /\ UNCHANGED <<proc, payload, reads, connOpen, info, epConn, deviceUp,
                   worker, slot>>

-----------------------------------------------------------------------------

ProcessStep(c) == ProcessStart(c) \/ ProcessRead(c) \/ ProcessHandoff(c)

Next ==
    \/ \E c \in Conns : ProcessStep(c) \/ ConnClose(c)
    \/ \E w \in Workers : WorkerPost(w) \/ WorkerDeliver(w) \/ WorkerExit(w)
    \/ DeviceClose
    \/ \E s \in syns : TCPForward(s) \/ UDPForward(s)

\* Go schedules every runnable goroutine.  A Process blocked on readQueue
\* competes with the other Process calls for posted elements; the runtime
\* serves blocked receivers of a channel in FIFO order, which is strong
\* fairness for each of them.  The start of Process, the peer closing its
\* connection and the device going down are not owed.
Spec ==
    /\ Init /\ [][Next]_vars
    /\ \A c \in Conns : WF_vars(ProcessRead(c)) /\ SF_vars(ProcessHandoff(c))
    /\ \A w \in Workers : WF_vars(WorkerPost(w)) /\ WF_vars(WorkerDeliver(w))
    /\ WF_vars(\E s \in syns : TCPForward(s) \/ UDPForward(s))

-----------------------------------------------------------------------------
(* Properties *)

FlowStates == {"rst", "failed", "dropped", "forwarded"}

TypeOK ==
    /\ proc \in [Conns -> {"idle", "reading", "handoff", "returned"}]
    /\ payload \in [Conns -> Kinds]
    /\ reads \in [Conns -> 0..MaxDatagrams]
    /\ connOpen \in [Conns -> BOOLEAN]
    /\ info \in Conns \cup {None}
    /\ epConn \in [Conns -> {"unset", "conn", "nil"}]
    /\ deviceUp \in BOOLEAN
    /\ worker \in [Workers -> {"idle", "posted", "filled", "exited"}]
    /\ slot \in [Workers -> [from : Conns \cup {None}, kind : Kinds]]
    /\ \A w \in Workers : (worker[w] = "filled") = (slot[w].from # None)
    /\ syns \subseteq [origin : Conns, proto : Protos, id : 0..MaxFlows]
    /\ flows \subseteq [origin : Conns, proto : Protos, id : 0..MaxFlows,
                        info : Conns \cup {None}, st : FlowStates]

\* forwardConnection never meets "unexpected: dispatcher == nil": every flow
\* the stack intercepts was carried by a datagram some Process handed to the
\* device, and that Process wrote s.info before its first read.
NoFlowWithoutDispatcher ==
    \A f \in flows : f.st # "dropped"

\* A datagram read by Process while the device is up is eventually taken by
\* one of the device's receive goroutines, however many peers compete for
\* them.
DatagramsReachDevice ==
    \A c \in Conns :
        (proc[c] = "handoff" /\ deviceUp) ~> (proc[c] # "handoff" \/ ~deviceUp)

\* A flow is routed with the routingInfo (dispatcher, inbound tag, detached
\* context) of the Process call that carried its packets.
FlowRoutedByOwnPeerInfo ==
    \A f \in flows : f.st = "forwarded" => f.info = f.origin

\* Once Process returns because its connection ended, the endpoint no longer
\* holds that connection (spec section 3: "cleared to nil on EOF so the
\* device stops using it").
EndpointDetachedOnReturn ==
    \A c \in Conns : proc[c] = "returned" /\ ~connOpen[c] => epConn[c] # "conn"

\* Process serves its connection until the connection or the device ends
\* (spec 4.8: "read multi-buffers from conn until error ... on EOF return
\* nil"): it never returns, and stops feeding the device from that peer,
\* while both are still up.
ProcessServesOpenConnection ==
    \A c \in Conns : proc[c] = "returned" => ~connOpen[c] \/ ~deviceUp

=============================================================================
