--------------------------- MODULE MCDashSegmenter ---------------------------
(* Small instances of DashSegmenter for TLC. *)
EXTENDS DashSegmenter

AllFailures == {"mkdir", "init", "fragment"}
=============================================================================
