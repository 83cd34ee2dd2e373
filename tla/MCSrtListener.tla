---------------------------- MODULE MCSrtListener ----------------------------
(* Small instances of SrtListener for TLC. *)
EXTENDS SrtListener, TLC

CONSTANTS a, b

\* Packets of a cross the wrap of the sequence numbers.
IsnNearWrap == [p \in Peers |-> M - 2]
IsnZero == [p \in Peers |-> 0]

NoDuplicates == {}
DupDataAndInduction == {"data", "induction"}
DupAll == {"data", "induction", "conclusion"}
=============================================================================
