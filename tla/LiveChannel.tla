----------------------------- MODULE LiveChannel -----------------------------
(***************************************************************************)
(* What a live transport without a reorder buffer promises to the handler   *)
(* behind it: the packets of each sender come out in the order they were    *)
(* sent, none of them twice, and any of them may be skipped for good.       *)
(***************************************************************************)
EXTENDS Integers, Sequences

CONSTANTS
    Peers,      \* senders
    MaxSend     \* packets a sender may send

VARIABLES
    sent,       \* how many packets each sent; they are numbered from 0
    out         \* the numbers handed over, oldest first

vars == <<sent, out>>

Init ==
    /\ sent = [p \in Peers |-> 0]
    /\ out = [p \in Peers |-> <<>>]

Send(p) ==
    /\ sent[p] < MaxSend
    /\ sent' = [sent EXCEPT ![p] = @ + 1]
    /\ UNCHANGED out

HandOver(p, i) ==
    /\ out[p] = <<>> \/ out[p][Len(out[p])] < i
    /\ out' = [out EXCEPT ![p] = Append(@, i)]
    /\ UNCHANGED sent

Next == \E p \in Peers : Send(p) \/ \E i \in 0 .. sent[p] - 1 : HandOver(p, i)

Spec == Init /\ [][Next]_vars
=============================================================================
