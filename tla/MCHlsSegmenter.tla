--------------------------- MODULE MCHlsSegmenter ---------------------------
(* Small instances of HlsSegmenter for TLC. *)
EXTENDS HlsSegmenter, TLC

NoFailures == {}
OpenFailures == {"mkdir", "create"}
WriteFailures == {"write"}
MkdirFailure == {"mkdir"}

WaiterSymmetry == Permutations(Waiters)
=============================================================================
