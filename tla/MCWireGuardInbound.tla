------------------------ MODULE MCWireGuardInbound ------------------------
(* Instantiation of WireGuardInbound for TLC: two peers competing for one   *)
(* receive goroutine, two datagrams per peer and two flows, enough for a   *)
(* flow of one peer to be forwarded after the other peer's Process started *)
(* and for a peer to wait while the other holds the receiver.              *)
EXTENDS WireGuardInbound

CONSTANTS c1, c2, w1

MCConns == {c1, c2}
MCWorkers == {w1}
MCMaxDatagrams == 2
MCMaxFlows == 2
=============================================================================
