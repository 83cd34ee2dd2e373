-------------------------- MODULE MCStreamRegistry --------------------------
(* Instances of StreamRegistry for TLC: two names, of which pulls and SRT    *)
(* endpoints use the first.                                                   *)
EXTENDS StreamRegistry, TLC

CONSTANTS n1, n2

OneName == {n1}
TwoNames == {n1, n2}
MCStreamOf == [c \in PullConns \cup SrtBridges |-> n1]

ConnSymmetry == Permutations(RtmpConns) \cup Permutations(Viewers)
=============================================================================
