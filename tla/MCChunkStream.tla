---------------------------- MODULE MCChunkStream ----------------------------
(* Small instances of ChunkStream. *)
EXTENDS ChunkStream

MCMediaCs == {4}
MCControlCs == 11
\* The first part is of a kind the server skips; the times are the encoder's own.
MCAggregates == {<<[type |-> "other", ts |-> 5], [type |-> "audio", ts |-> 6]>>}
TwoMediaCs == {4, 9}

\* A header without a predecessor is an error the server must end on.
PlainHabits == {"abbreviates first"}
CountsHeaders == {"counts headers"}
StopsAnywhere == {"stops anywhere"}
ShrinksWindow == {"shrinks window"}
Interleaves == {"interleaves"}
Aborts == {"aborts"}

=============================================================================
