----------------------------- MODULE SrtListener -----------------------------
(***************************************************************************)
(* libsrt.Listener: the receiving end of SRT on one UDP socket.  A single   *)
(* goroutine (Run) handles one datagram after the other: the induction and  *)
(* conclusion of the handshake, data with sequence numbers, shutdown.  Data *)
(* goes to one handler, which the bridge of srt_server.go hangs in front of *)
(* its one MPEG-TS demuxer.                                                 *)
(*                                                                          *)
(* The network loses, reorders and duplicates datagrams.  Replies of the    *)
(* listener are remembered, and a caller may act on them at any later time  *)
(* or never.  Callers are outside this repository: what they send follows   *)
(* the client of listener_e2e_test.go.                                      *)
(*                                                                          *)
(* There are 2 * Half sequence numbers (2^31 in the code), and the uint32   *)
(* variables that hold them have room for twice as many.                    *)
(***************************************************************************)
EXTENDS Integers, Sequences, FiniteSets, SequencesExt

CONSTANTS
    Peers,          \* callers, by UDP address
    Half,           \* half as many as there are sequence numbers
    InitialSequence,\* peer -> the sequence number of its first packet
    DupKinds,       \* kinds of datagram that may arrive more than once
    HandlerFails,   \* onData may answer an error
    MaxSend,        \* bound on the packets a caller sends
    MaxCookies,     \* bound on the inductions answered
    MaxFed          \* bound on the packets of a caller handed to onData

M == 2 * Half
Register == 2 * M
Indices == 0 .. MaxSend - 1
Cookies == 1 .. MaxCookies

ASSUME SrtAssumption ==
    /\ Half \in Nat \ {0}
    /\ InitialSequence \in [Peers -> 0 .. M - 1]
    /\ DupKinds \subseteq {"induction", "conclusion", "data"}
    /\ HandlerFails \in BOOLEAN
    /\ MaxSend \in Nat /\ MaxSend < Half
    /\ MaxCookies \in Nat /\ MaxFed \in Nat

VARIABLES
    caller,     \* what each caller has done
    net,        \* datagrams on their way to the listener
    sessions,   \* the peers in the sessions map
    sess,       \* the session of each of them
    nCookies,   \* cookies minted
    cookies,    \* peer -> cookies the listener replied
    accepted,   \* peers whose conclusion was answered
    fed,        \* peer -> indices of its packets handed to onData, in order
    late,       \* <<peer, index>> of the packets dropped as late
    naked,      \* peer -> indices that a NAK named
    acks,       \* <<peer, LastAckedSeq, length of fed[peer]>> of each ACK sent
    errors      \* peers for whose data onData answered an error

listenerVars == <<sessions, sess, nCookies, cookies, accepted, fed, late, naked,
                  acks, errors>>
vars == <<caller, net, listenerVars>>

NoSession == [cookie |-> 0, concluded |-> FALSE, expected |-> 0, acked |-> FALSE]

Datagram == [kind : {"induction", "shutdown"}, peer : Peers]
            \cup [kind : {"conclusion"}, peer : Peers, cookie : Cookies]
            \cup [kind : {"data"}, peer : Peers, index : Indices]

TypeOK ==
    /\ caller \in [Peers -> [phase : {"new", "inducing", "concluding", "live", "gone"},
                             sent : 0 .. MaxSend]]
    /\ net \subseteq Datagram
    /\ sessions \subseteq Peers
    /\ sess \in [Peers -> [cookie : 0 .. MaxCookies, concluded : BOOLEAN,
                           expected : 0 .. Register - 1, acked : BOOLEAN]]
    /\ nCookies \in 0 .. MaxCookies
    /\ cookies \in [Peers -> SUBSET Cookies]
    /\ accepted \subseteq Peers
    /\ fed \in [Peers -> Seq(Indices)]
    /\ late \subseteq Peers \X Indices
    /\ naked \in [Peers -> SUBSET Indices]
    /\ acks \subseteq Peers \X (0 .. Register - 1) \X (0 .. MaxFed)
    /\ errors \subseteq Peers

Init ==
    /\ caller = [p \in Peers |-> [phase |-> "new", sent |-> 0]]
    /\ net = {}
    /\ sessions = {}
    /\ sess = [p \in Peers |-> NoSession]
    /\ nCookies = 0
    /\ cookies = [p \in Peers |-> {}]
    /\ accepted = {}
    /\ fed = [p \in Peers |-> <<>>]
    /\ late = {}
    /\ naked = [p \in Peers |-> {}]
    /\ acks = {}
    /\ errors = {}

-----------------------------------------------------------------------------
(* Callers.  A datagram that a caller repeats is one the network repeats. *)

Say(p, phase, m) ==
    /\ caller' = [caller EXCEPT ![p].phase = phase]
    /\ net' = net \cup {m}
    /\ UNCHANGED listenerVars

SendInduction(p) ==
    /\ caller[p].phase = "new"
    /\ Say(p, "inducing", [kind |-> "induction", peer |-> p])

SendConclusion(p) ==
    /\ caller[p].phase = "inducing"
    /\ \E c \in cookies[p] :
          Say(p, "concluding", [kind |-> "conclusion", peer |-> p, cookie |-> c])

SendData(p) ==
    /\ caller[p].phase \in {"concluding", "live"}
    /\ p \in accepted
    /\ caller[p].sent < MaxSend
    /\ caller' = [caller EXCEPT ![p] = [phase |-> "live", sent |-> @.sent + 1]]
    /\ net' = net \cup {[kind |-> "data", peer |-> p, index |-> caller[p].sent]}
    /\ UNCHANGED listenerVars

\* A NAK reached the caller.
Retransmit(p, i) ==
    /\ caller[p].phase = "live"
    /\ i \in naked[p]
    /\ Say(p, "live", [kind |-> "data", peer |-> p, index |-> i])

SendShutdown(p) ==
    /\ caller[p].phase = "live"
    /\ Say(p, "gone", [kind |-> "shutdown", peer |-> p])

\* The caller crashes, or its network does.
Vanish(p) ==
    /\ caller[p].phase # "gone"
    /\ caller' = [caller EXCEPT ![p].phase = "gone"]
    /\ UNCHANGED <<net, listenerVars>>

-----------------------------------------------------------------------------
(* The listener: handlePacket, one datagram at a time. *)

\* Datagram m arrives; a copy of it may come again.
Arrive(m) ==
    /\ m \in net
    /\ \/ net' = net \ {m}
       \/ m.kind \in DupKinds /\ net' = net

\* handleHandshake creates the session of a peer it does not know.
Session(p) == IF p \in sessions THEN sess[p] ELSE NoSession

\* INDUCTION: mint a cookie and reply it.
HandleInduction(p) ==
    LET c == nCookies + 1 IN
    /\ nCookies < MaxCookies
    /\ Arrive([kind |-> "induction", peer |-> p])
    /\ sessions' = sessions \cup {p}
    /\ sess' = [sess EXCEPT ![p] = [Session(p) EXCEPT !.cookie = c]]
    /\ nCookies' = c
    /\ cookies' = [cookies EXCEPT ![p] = @ \cup {c}]
    /\ UNCHANGED <<caller, accepted, fed, late, naked, acks, errors>>

\* Mutant of HandleConclusion: InitialSequence is not looked at.
ConclusionWithoutSequence(p) ==
    \E c \in Cookies :
        /\ Arrive([kind |-> "conclusion", peer |-> p, cookie |-> c])
        /\ sessions' = sessions \cup {p}
        /\ IF c = Session(p).cookie
           THEN /\ sess' = [sess EXCEPT ![p] = [Session(p) EXCEPT !.concluded = TRUE]]
                /\ accepted' = accepted \cup {p}
           ELSE /\ sess' = [sess EXCEPT ![p] = Session(p)]
                /\ UNCHANGED accepted
        /\ UNCHANGED <<caller, nCookies, cookies, fed, late, naked, acks, errors>>

\* CONCLUSION: a wrong cookie is dropped, though the session stays.
HandleConclusion(p) ==
    \E c \in Cookies :
        /\ Arrive([kind |-> "conclusion", peer |-> p, cookie |-> c])
        /\ sessions' = sessions \cup {p}
        /\ IF c = Session(p).cookie
           THEN /\ sess' = [sess EXCEPT ![p] =
                              [Session(p) EXCEPT !.concluded = TRUE,
                                                 !.expected = InitialSequence[p]]]
                /\ accepted' = accepted \cup {p}
           ELSE /\ sess' = [sess EXCEPT ![p] = Session(p)]
                /\ UNCHANGED accepted
        /\ UNCHANGED <<caller, nCookies, cookies, fed, late, naked, acks, errors>>

HandleShutdown(p) ==
    /\ Arrive([kind |-> "shutdown", peer |-> p])
    /\ sessions' = sessions \ {p}
    /\ UNCHANGED <<caller, sess, nCookies, cookies, accepted, fed, late, naked,
                   acks, errors>>

\* a - b in the modular arithmetic of sequence numbers.
SeqDiff(a, b) ==
    LET d == (a - b) % M
    IN  IF d > Half THEN d - M ELSE d

SeqNumber(p, i) == (InitialSequence[p] + i) % M
IndexOf(p, s) == (s - InitialSequence[p]) % M

\* The first data packet of a session that expects 0 sets the baseline.
Expected(p, seq) ==
    IF sess[p].expected = 0 /\ ~sess[p].acked THEN seq ELSE sess[p].expected

\* Data of a peer that has no concluded session is ignored.
IgnoreData(p, i) ==
    /\ Arrive([kind |-> "data", peer |-> p, index |-> i])
    /\ p \notin sessions \/ ~sess[p].concluded
    /\ UNCHANGED <<caller, listenerVars>>

\* The packet is behind the one expected: dropped.
DropLate(p, i) ==
    /\ Arrive([kind |-> "data", peer |-> p, index |-> i])
    /\ p \in sessions /\ sess[p].concluded
    /\ SeqDiff(SeqNumber(p, i), Expected(p, SeqNumber(p, i))) < 0
    /\ late' = late \cup {<<p, i>>}
    /\ UNCHANGED <<caller, sessions, sess, nCookies, cookies, accepted, fed, naked,
                   acks, errors>>

\* Mutant of Gap: the packet that revealed the gap is named too.
GapInclusive(p, seq) ==
    {IndexOf(p, Expected(p, seq) + k) : k \in 0 .. SeqDiff(seq, Expected(p, seq))}

\* The packets a NAK names when seq arrives: from the one expected up to seq.
Gap(p, seq) ==
    {IndexOf(p, Expected(p, seq) + k) : k \in 0 .. SeqDiff(seq, Expected(p, seq)) - 1}

\* Mutant of NextExpected: no fast-forward past a gap.
NextExpectedWaits(p, seq) ==
    IF SeqDiff(seq, Expected(p, seq)) = 0
    THEN (Expected(p, seq) + 1) % Register
    ELSE Expected(p, seq)

\* The register after seq was taken; only a gap brings it back under M.
NextExpected(p, seq) ==
    IF SeqDiff(seq, Expected(p, seq)) = 0
    THEN (Expected(p, seq) + 1) % Register
    ELSE seq + 1

\* The packet is taken: a NAK for a gap before it, then onData, whose error is
\* dropped, then an ACK unless one was sent within the last 10 ms.
TakeData(p, i) ==
    LET seq == SeqNumber(p, i)
        next == NextExpected(p, seq)
    IN  /\ Len(fed[p]) < MaxFed
        /\ Arrive([kind |-> "data", peer |-> p, index |-> i])
        /\ p \in sessions /\ sess[p].concluded
        /\ SeqDiff(seq, Expected(p, seq)) >= 0
        /\ naked' = [naked EXCEPT ![p] = @ \cup Gap(p, seq)]
        /\ fed' = [fed EXCEPT ![p] = Append(@, i)]
        /\ \/ UNCHANGED errors
           \/ HandlerFails /\ errors' = errors \cup {p}
        /\ \E ack \in BOOLEAN :
              /\ ~sess[p].acked => ack
              /\ sess' = [sess EXCEPT ![p].expected = next, ![p].acked = @ \/ ack]
              /\ acks' = IF ack THEN acks \cup {<<p, next, Len(fed[p]) + 1>>} ELSE acks
        /\ UNCHANGED <<caller, sessions, nCookies, cookies, accepted, late>>

-----------------------------------------------------------------------------
Caller(p) ==
    \/ SendInduction(p)
    \/ SendConclusion(p)
    \/ SendData(p)
    \/ \E i \in Indices : Retransmit(p, i)
    \/ SendShutdown(p)
    \/ Vanish(p)

HandleData(p, i) == IgnoreData(p, i) \/ DropLate(p, i) \/ TakeData(p, i)

HandlePacket(p) ==
    \/ HandleInduction(p)
    \/ HandleConclusion(p)
    \/ HandleShutdown(p)
    \/ \E i \in Indices : HandleData(p, i)

Next == \E p \in Peers : Caller(p) \/ HandlePacket(p)

Spec == Init /\ [][Next]_vars

(* Run goes on reading; what is in flight need not arrive, so this only says   *)
(* that the listener is not the one to stop.                                   *)
FairSpec == Spec /\ \A p \in Peers : WF_vars(HandlePacket(p))

-----------------------------------------------------------------------------
(* What should hold. *)

Channel == INSTANCE LiveChannel WITH sent <- [p \in Peers |-> caller[p].sent],
                                     out <- fed

(* To its handler the listener is a live channel for each caller: in order,    *)
(* nothing twice, whatever the network reorders and duplicates, and across the *)
(* wrap of the sequence numbers ("we don't keep a reorder buffer",             *)
(* listener.go:145).                                                           *)
ImplementsLiveChannel == Channel!Spec

(* A packet that was passed over was named in a NAK ("out-of-order arrivals    *)
(* trigger a NAK for the gap", listener.go:144).                               *)
GapsReported ==
    \A p \in Peers : \A i \in ToSet(fed[p]) :
        \A j \in 0 .. i : j \in ToSet(fed[p]) \/ j \in naked[p]

(* A NAK never asks for what the handler already has: a caller would spend the *)
(* link on packets that are then dropped.                                      *)
NakOnlyMissing ==
    [][\A p \in Peers : \A i \in naked'[p] \ naked[p] : i \notin ToSet(fed'[p])]_vars

(* onData "is invoked once per data packet" (listener.go:17), even if the      *)
(* caller's CONCLUSION is repeated.                                            *)
OncePerPacket == \A p \in Peers : IsInjective(fed[p])

(* The packets dropped as late were "already delivered" (listener.go:160).     *)
LateMeansDelivered == \A x \in late : x[2] \in ToSet(fed[x[1]])

(* An ACK carries the "sequence number AFTER the last in-order packet"         *)
(* (control.go:13): everything before it was received.                         *)
AckMeansReceived ==
    \A a \in acks :
        \A i \in 0 .. IndexOf(a[1], a[2]) - 1 :
            i \in ToSet(SubSeq(fed[a[1]], 1, a[3]))

(* What an ACK carries is a sequence number: it fits its 31 bits.              *)
AckIsSequenceNumber == \A a \in acks : a[2] < M

(* After onData "returning an error stops the session" (listener.go:20).       *)
HandlerErrorStops == errors \cap sessions = {}

(* All packets the demuxer gets are of one session ("One Demuxer per session", *)
(* tsdemux.go:46).                                                             *)
OneSessionPerDemuxer == \A p, q \in Peers : fed[p] # <<>> /\ fed[q] # <<>> => p = q

(* A session ends when its peer "stops sending for a while" (listener.go:25).  *)
SilentSessionEnds ==
    \A p \in Peers : <>(caller[p].phase = "gone") => <>[](p \notin sessions)
=============================================================================
