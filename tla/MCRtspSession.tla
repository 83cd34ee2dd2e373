---------------------------- MODULE MCRtspSession ----------------------------
(* Small instances of RtspSession for TLC. *)
EXTENDS RtspSession

AllUdp == [u \in Urls |-> {"udp"}]
Mixed == [u \in Urls |-> IF u = "audio" THEN {"tcp", "udp"} ELSE {"udp"}]
=============================================================================
