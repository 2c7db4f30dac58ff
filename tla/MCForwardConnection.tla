------------------------ MODULE MCForwardConnection ------------------------
(* Instantiation of ForwardConnection for TLC.  Two buffers each way let a  *)
(* half fail or be cancelled between two copies, after the first one.       *)
EXTENDS ForwardConnection

MCGuestBuffers == 2
MCRemoteBuffers == 2
=============================================================================
