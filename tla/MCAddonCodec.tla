--------------------------- MODULE MCAddonCodec ---------------------------
(* Instantiation of AddonCodec for TLC.  A fully populated record          *)
(* marshals to 14 units, so a 4-bit length byte holds every record and a  *)
(* 3-bit one (MCNarrowByteBits) does not.  Each peer sub-record differs   *)
(* from PopulateSeed's in the last field CheckSeed compares.              *)
EXTENDS AddonCodec

MCByteBits == 4
MCNarrowByteBits == 3
MCXRV == "xtls-rprx-vision"
MCFlows == {"", "xtls-rprx-vision"}
MCPeerPaddings == {[SeedPadding EXCEPT !.LongMax = 1500]}
MCPeerDelays == {[SeedDelay EXCEPT !.MaxMillis = 800]}
MCPeerSchedulers == {[SeedScheduler EXCEPT !.TimeoutMillis = 900]}
=============================================================================
