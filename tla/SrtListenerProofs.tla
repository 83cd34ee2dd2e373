-------------------------- MODULE SrtListenerProofs --------------------------
(***************************************************************************)
(* The SRT listener is a live channel for each caller, for any number of    *)
(* callers, initial sequence numbers and size of the numbers, over a        *)
(* network that loses and reorders everything and repeats everything but    *)
(* the CONCLUSION.                                                          *)
(***************************************************************************)
EXTENDS SrtListener, TLAPS

(* The number s stands for the packet with index e.  The register is only      *)
(* brought back under M by a gap, so it may be one turn ahead.                 *)
Position(p, s, e) == s = InitialSequence[p] + e \/ s = InitialSequence[p] + e - M

ExpectsAnIndex ==
    \A p \in Peers : sess[p].concluded =>
        \E e \in 0 .. MaxSend : Position(p, sess[p].expected, e)
TypeInv == TypeOK /\ ExpectsAnIndex

LastFed(p) == fed[p][Len(fed[p])]

(* The conclusion of a caller is handled at most once: it is said once, by a   *)
(* caller that was not accepted yet.                                           *)
OneConclusion ==
    /\ \A m \in net : m.kind = "conclusion" =>
          m.peer \notin accepted /\ caller[m.peer].phase \in {"concluding", "gone"}
    /\ \A m, n \in net : m.kind = "conclusion" /\ n.kind = "conclusion" /\ m.peer = n.peer
          => m = n
    /\ \A p \in Peers : caller[p].phase \in {"new", "inducing"} => p \notin accepted
Fresh ==
    \A p \in Peers \ accepted :
        ~sess[p].concluded /\ ~sess[p].acked /\ fed[p] = <<>>
(* What was handed over, asked for or is on its way was sent.                  *)
Sent ==
    /\ \A m \in net : m.kind = "data" => m.index < caller[m.peer].sent
    /\ \A p \in Peers : \A i \in naked[p] : i < caller[p].sent
    /\ \A p \in Peers : fed[p] # <<>> => LastFed(p) < caller[p].sent
(* A session expects what follows the last packet it handed over.              *)
Follows ==
    \A p \in Peers :
        /\ \A k \in 1 .. Len(fed[p]) : fed[p][k] <= LastFed(p)
        /\ sess[p].concluded /\ fed[p] = <<>> =>
              sess[p].expected = InitialSequence[p] /\ ~sess[p].acked
        /\ sess[p].concluded /\ fed[p] # <<>> =>
              sess[p].acked /\ Position(p, sess[p].expected, LastFed(p) + 1)
ChannelInv == OneConclusion /\ Fresh /\ Sent /\ Follows

-----------------------------------------------------------------------------
(* Sequence numbers.  As long as fewer packets are on their way than half of   *)
(* the numbers, SeqDiff tells how far apart two packets are.                   *)

LEMMA ModuloUnique ==
  ASSUME NEW y \in 0 .. M - 1
  PROVE  y % M = y /\ (y + M) % M = y /\ (y - M) % M = y /\ (y - 2 * M) % M = y
<1> USE SrtAssumption DEF SrtAssumption, M
<1>1. y % M = y
  OBVIOUS
<1>2. (y + M) % M = y
  OBVIOUS
<1>3. (y - M) % M = y
  OBVIOUS
<1>4. (y - 2 * M) % M = y
  OBVIOUS
<1> QED
  BY <1>1, <1>2, <1>3, <1>4

LEMMA NumberTypes ==
  /\ Half \in Nat /\ Half > 0 /\ M = 2 * Half /\ Register = 2 * M /\ M \in Nat
  /\ MaxSend \in Nat /\ MaxSend < Half
  /\ \A p \in Peers : InitialSequence[p] \in 0 .. M - 1
  /\ \A i \in Indices : i \in Nat /\ i < MaxSend /\ i + 1 \in 0 .. MaxSend
  BY SrtAssumption DEF SrtAssumption, M, Register, Indices

LEMMA SeqNumberPosition ==
  ASSUME NEW p \in Peers, NEW i \in Indices
  PROVE  SeqNumber(p, i) \in 0 .. M - 1 /\ Position(p, SeqNumber(p, i), i)
<1> DEFINE x == InitialSequence[p] + i
<1>1. InitialSequence[p] \in 0 .. M - 1 /\ i \in Nat /\ i < M /\ M \in Nat /\ M > 0
  BY NumberTypes
<1>2. CASE x < M
  <2>1. x \in 0 .. M - 1
    BY <1>1, <1>2
  <2> HIDE DEF x
  <2>2. x % M = x
    BY <2>1, ModuloUnique
  <2> QED
    BY <2>1, <2>2 DEF x, SeqNumber, Position
<1>3. CASE ~(x < M)
  <2> DEFINE y == x - M
  <2>1. y \in 0 .. M - 1 /\ x = y + M /\ y = InitialSequence[p] + i - M
    BY <1>1, <1>3
  <2> HIDE DEF y
  <2>2. (y + M) % M = y
    BY <2>1, ModuloUnique
  <2>3. x % M = y
    BY <2>1, <2>2
  <2>4. SeqNumber(p, i) = y
    BY <2>3 DEF SeqNumber
  <2> QED
    BY <2>1, <2>4 DEF Position
<1> QED
  BY <1>2, <1>3

LEMMA Difference ==
  ASSUME NEW p \in Peers, NEW s \in Int, NEW t \in Int,
         NEW i \in 0 .. MaxSend, NEW e \in 0 .. MaxSend,
         Position(p, s, i), Position(p, t, e)
  PROVE  SeqDiff(s, t) = i - e
<1> DEFINE y == IF i >= e THEN i - e ELSE i - e + M
<1>1. /\ InitialSequence[p] \in Int /\ i \in Int /\ e \in Int /\ M \in Int /\ Half \in Int
      /\ M = 2 * Half /\ Half > 0 /\ i - e < Half /\ e - i < Half /\ 0 <= i /\ 0 <= e
  BY NumberTypes
<1>2. y \in 0 .. M - 1
  BY <1>1
<1>3. s - t = y \/ s - t = y + M \/ s - t = y - M \/ s - t = y - 2 * M
  <2>1. s - t = i - e \/ s - t = i - e + M \/ s - t = i - e - M
    BY <1>1 DEF Position
  <2> QED
    BY <1>1, <2>1
<1> HIDE DEF y
<1>4. (s - t) % M = y
  <2>1. y % M = y /\ (y + M) % M = y /\ (y - M) % M = y /\ (y - 2 * M) % M = y
    BY <1>2, ModuloUnique
  <2> QED
    BY <1>3, <2>1
<1>5. CASE i >= e
  BY <1>1, <1>4, <1>5 DEF SeqDiff, y
<1>6. CASE ~(i >= e)
  <2>1. y = i - e + M /\ y > Half
    BY <1>1, <1>6 DEF y
  <2>2. y - M = i - e
    BY <1>1, <2>1
  <2> QED
    BY <1>4, <2>1, <2>2 DEF SeqDiff
<1> QED
  BY <1>5, <1>6

LEMMA IndexOfPosition ==
  ASSUME NEW p \in Peers, NEW s \in Int, NEW e \in 0 .. MaxSend, Position(p, s, e)
  PROVE  IndexOf(p, s) = e
<1>1. e \in 0 .. M - 1 /\ InitialSequence[p] \in Int /\ M \in Int
  BY NumberTypes
<1>2. s - InitialSequence[p] = e \/ s - InitialSequence[p] = e - M
  BY <1>1 DEF Position
<1>3. e % M = e /\ (e - M) % M = e
  BY <1>1, ModuloUnique
<1> QED
  BY <1>2, <1>3 DEF IndexOf

\* The packets between the one expected and the one that arrived.
LEMMA GapBetween ==
  ASSUME NEW p \in Peers, NEW i \in Indices, NEW e \in 0 .. MaxSend,
         Expected(p, SeqNumber(p, i)) \in Int,
         Position(p, Expected(p, SeqNumber(p, i)), e)
  PROVE  Gap(p, SeqNumber(p, i)) = e .. i - 1
<1> DEFINE E == Expected(p, SeqNumber(p, i))
<1>0. /\ i \in 0 .. MaxSend /\ i \in Int /\ e \in Int /\ InitialSequence[p] \in Int
      /\ M \in Int /\ MaxSend \in Nat
  BY NumberTypes
<1>1. SeqDiff(SeqNumber(p, i), E) = i - e
  BY <1>0, NumberTypes, SeqNumberPosition, Difference
<1> HIDE DEF E
<1>2. E \in Int /\ Position(p, E, e)
  BY DEF E
<1>3. ASSUME NEW k \in 0 .. i - e - 1 PROVE IndexOf(p, E + k) = e + k
  <2>1. e + k \in 0 .. MaxSend /\ E + k \in Int
    BY <1>0, <1>2
  <2>2. Position(p, E + k, e + k)
    BY <1>0, <1>2 DEF Position
  <2> QED
    BY <2>1, <2>2, IndexOfPosition
<1>4. Gap(p, SeqNumber(p, i)) = {IndexOf(p, E + k) : k \in 0 .. i - e - 1}
  BY <1>1 DEF Gap, E
<1>5. ASSUME NEW j \in e .. i - 1 PROVE j \in Gap(p, SeqNumber(p, i))
  <2> DEFINE k == j - e
  <2>1. k \in 0 .. i - e - 1 /\ e + k = j
    BY <1>0
  <2> HIDE DEF k
  <2> QED
    BY <1>3, <1>4, <2>1
<1>6. ASSUME NEW j \in Gap(p, SeqNumber(p, i)) PROVE j \in e .. i - 1
  <2>1. PICK k \in 0 .. i - e - 1 : j = e + k
    BY <1>3, <1>4
  <2> QED
    BY <1>0, <2>1
<1> QED
  BY <1>5, <1>6

\* The register steps to the packet after the one taken.
LEMMA NextPosition ==
  ASSUME NEW p \in Peers, NEW i \in Indices, NEW e \in 0 .. i,
         Expected(p, SeqNumber(p, i)) \in 0 .. Register - 1,
         Position(p, Expected(p, SeqNumber(p, i)), e)
  PROVE  LET next == NextExpected(p, SeqNumber(p, i))
         IN  next \in 0 .. Register - 1 /\ Position(p, next, i + 1)
<1> DEFINE E == Expected(p, SeqNumber(p, i))
           seq == SeqNumber(p, i)
           next == NextExpected(p, seq)
<1>0. /\ i \in 0 .. MaxSend /\ e \in 0 .. MaxSend /\ InitialSequence[p] \in 0 .. M - 1
      /\ M \in Nat /\ i < M - 1 /\ Register = 2 * M
  BY NumberTypes
<1>1. seq \in 0 .. M - 1 /\ Position(p, seq, i)
  BY SeqNumberPosition
<1> HIDE DEF E, seq
<1>2. E \in 0 .. Register - 1 /\ Position(p, E, e)
  BY DEF E, seq
<1>3. SeqDiff(seq, E) = i - e
  <2>1. E \in Int /\ seq \in Int
    BY <1>0, <1>1, <1>2
  <2> QED
    BY <1>0, <1>1, <1>2, <2>1, Difference
<1>4. Expected(p, seq) = E
  BY DEF E, seq
<1>5. next = IF i = e THEN (E + 1) % Register ELSE seq + 1
  <2>1. SeqDiff(seq, E) = 0 <=> i = e
    BY <1>0, <1>3
  <2> QED
    BY <1>4, <2>1 DEF NextExpected
<1>6. CASE i = e
  <2>1. next = (E + 1) % Register
    BY <1>6, <1>5
  <2>2. E + 1 \in 0 .. Register - 1 /\ Position(p, E + 1, i + 1)
    BY <1>0, <1>2, <1>6 DEF Position
  <2>3. (E + 1) % Register = E + 1
    BY <1>0, <2>2
  <2> QED
    BY <2>1, <2>2, <2>3 DEF seq
<1>7. CASE i # e
  <2>1. next = seq + 1
    BY <1>7, <1>5
  <2>2. seq + 1 \in 0 .. Register - 1 /\ Position(p, seq + 1, i + 1)
    BY <1>0, <1>1 DEF Position
  <2> QED
    BY <2>1, <2>2 DEF seq
<1> QED
  BY <1>6, <1>7

-----------------------------------------------------------------------------
(* Types. *)

Call == [phase : {"new", "inducing", "concluding", "live", "gone"}, sent : 0 .. MaxSend]
Sess == [cookie : 0 .. MaxCookies, concluded : BOOLEAN, expected : 0 .. Register - 1,
         acked : BOOLEAN]

LEMMA DatagramKinds ==
  ASSUME NEW m \in Datagram
  PROVE  /\ m.peer \in Peers
         /\ m.kind = "data" => m.index \in Indices
         /\ m.kind = "conclusion" => m.cookie \in Cookies
  BY DEF Datagram

LEMMA SessionType ==
  ASSUME TypeOK, NEW p \in Peers
  PROVE  Session(p) \in Sess
<1>1. 0 \in 0 .. MaxCookies /\ 0 \in 0 .. Register - 1
  BY SrtAssumption, NumberTypes DEF SrtAssumption
<1>2. NoSession \in Sess
  BY <1>1 DEF NoSession, Sess
<1>3. sess[p] \in Sess
  BY DEF TypeOK, Sess
<1> QED
  BY <1>2, <1>3 DEF Session

LEMMA TypeInit == Init => TypeInv
<1> SUFFICES ASSUME Init PROVE TypeInv
  OBVIOUS
<1>1. 0 \in 0 .. MaxCookies /\ 0 \in 0 .. Register - 1 /\ 0 \in 0 .. MaxSend
  BY SrtAssumption, NumberTypes DEF SrtAssumption
<1>2. NoSession \in Sess
  BY <1>1 DEF NoSession, Sess
<1>3. caller \in [Peers -> Call] /\ sess \in [Peers -> Sess]
  BY <1>1, <1>2 DEF Init, Call
<1>4. fed \in [Peers -> Seq(Indices)]
  BY DEF Init
<1>5. TypeOK
  BY <1>1, <1>3, <1>4 DEF Init, TypeOK, Call, Sess
<1>6. ExpectsAnIndex
  BY DEF Init, ExpectsAnIndex, NoSession
<1> QED
  BY <1>5, <1>6 DEF TypeInv

\* The callers' steps say nothing about sessions and send only datagrams.
LEMMA CallerType ==
  ASSUME TypeInv, NEW p \in Peers, Caller(p)
  PROVE  TypeInv' /\ UNCHANGED listenerVars
<1>0. /\ caller \in [Peers -> Call] /\ net \subseteq Datagram /\ MaxSend \in Nat
      /\ naked[p] \subseteq Indices /\ cookies[p] \subseteq Cookies
  BY NumberTypes DEF TypeInv, TypeOK, Call
<1>1. UNCHANGED listenerVars
  BY DEF Caller, SendInduction, SendConclusion, SendData, Retransmit, SendShutdown, Vanish, Say
<1>2. caller' \in [Peers -> Call]
  <2>1. CASE SendData(p)
    <3>1. /\ caller' = [caller EXCEPT ![p] = [phase |-> "live", sent |-> @.sent + 1]]
          /\ caller[p].sent < MaxSend /\ caller[p].sent \in 0 .. MaxSend
      BY <1>0, <2>1 DEF SendData, Call
    <3>2. caller[p].sent + 1 \in 0 .. MaxSend
      BY <1>0, <3>1
    <3> QED
      BY <1>0, <3>1, <3>2 DEF Call
  <2>2. CASE ~SendData(p)
    <3>1. PICK ph \in {"inducing", "concluding", "live", "gone"} :
            caller' = [caller EXCEPT ![p].phase = ph]
      BY <2>2 DEF Caller, SendInduction, SendConclusion, Retransmit, SendShutdown, Vanish, Say
    <3> QED
      BY <1>0, <3>1 DEF Call
  <2> QED
    BY <2>1, <2>2
<1>3. net' \subseteq Datagram
  <2>1. CASE SendData(p)
    <3>1. /\ net' = net \cup {[kind |-> "data", peer |-> p, index |-> caller[p].sent]}
          /\ caller[p].sent < MaxSend /\ caller[p].sent \in 0 .. MaxSend
      BY <1>0, <2>1 DEF SendData, Call
    <3>2. caller[p].sent \in Indices
      BY <1>0, <3>1 DEF Indices
    <3> QED
      BY <1>0, <3>1, <3>2 DEF Datagram
  <2>2. CASE SendConclusion(p)
    BY <1>0, <2>2 DEF SendConclusion, Say, Datagram
  <2>3. CASE \E i \in Indices : Retransmit(p, i)
    BY <1>0, <2>3 DEF Retransmit, Say, Datagram
  <2>4. CASE SendInduction(p) \/ SendShutdown(p) \/ Vanish(p)
    BY <1>0, <2>4 DEF SendInduction, SendShutdown, Vanish, Say, Datagram
  <2> QED
    BY <2>1, <2>2, <2>3, <2>4 DEF Caller
<1>4. TypeOK'
  BY <1>1, <1>2, <1>3 DEF TypeInv, TypeOK, listenerVars, Call
<1>5. ExpectsAnIndex'
  BY <1>1 DEF TypeInv, ExpectsAnIndex, listenerVars
<1> QED
  BY <1>1, <1>4, <1>5 DEF TypeInv

\* What the session of p expects when its packet i arrives.
LEMMA ExpectedType ==
  ASSUME TypeInv, NEW p \in Peers, NEW i \in Indices, sess[p].concluded
  PROVE  /\ Expected(p, SeqNumber(p, i)) \in 0 .. Register - 1
         /\ \E e \in 0 .. MaxSend : Position(p, Expected(p, SeqNumber(p, i)), e)
<1>1. /\ SeqNumber(p, i) \in 0 .. M - 1 /\ Position(p, SeqNumber(p, i), i)
      /\ i \in 0 .. MaxSend /\ 0 .. M - 1 \subseteq 0 .. Register - 1
  BY NumberTypes, SeqNumberPosition
<1>2. /\ sess[p].expected \in 0 .. Register - 1
      /\ \E e \in 0 .. MaxSend : Position(p, sess[p].expected, e)
  BY DEF TypeInv, TypeOK, ExpectsAnIndex
<1> QED
  BY <1>1, <1>2 DEF Expected

\* What taking a packet does, in terms of indices: e is the one expected.
LEMMA TakeFacts ==
  ASSUME TypeInv, NEW p \in Peers, NEW i \in Indices, TakeData(p, i),
         NEW e \in 0 .. MaxSend, Position(p, Expected(p, SeqNumber(p, i)), e)
  PROVE  /\ e <= i
         /\ p \in sessions /\ sess[p].concluded
         /\ [kind |-> "data", peer |-> p, index |-> i] \in net /\ net' \subseteq net
         /\ fed' = [fed EXCEPT ![p] = Append(@, i)]
         /\ \E next \in 0 .. Register - 1, ack \in BOOLEAN :
               /\ Position(p, next, i + 1)
               /\ ~sess[p].acked => ack
               /\ sess' = [sess EXCEPT ![p].expected = next, ![p].acked = @ \/ ack]
               /\ acks' = IF ack THEN acks \cup {<<p, next, Len(fed[p]) + 1>>} ELSE acks
         /\ UNCHANGED <<caller, sessions, nCookies, cookies, accepted, late>>
         /\ errors' \subseteq errors \cup {p} /\ Len(fed[p]) < MaxFed
<1> DEFINE seq == SeqNumber(p, i)
           next == NextExpected(p, seq)
<1>0. sess[p].concluded /\ p \in sessions
  BY DEF TakeData
<1>1. /\ Expected(p, seq) \in 0 .. Register - 1 /\ Expected(p, seq) \in Int
      /\ seq \in Int /\ Position(p, seq, i) /\ i \in 0 .. MaxSend /\ i \in Int /\ e \in Nat
  BY <1>0, NumberTypes, SeqNumberPosition, ExpectedType
<1>2. SeqDiff(seq, Expected(p, seq)) = i - e
  BY <1>1, Difference
<1>3. e <= i
  <2>1. i - e >= 0
    BY <1>2 DEF TakeData
  <2> QED
    BY <1>1, <2>1
<1>4. next \in 0 .. Register - 1 /\ Position(p, next, i + 1)
  BY <1>1, <1>3, NextPosition
<1>5. \E ack \in BOOLEAN :
        /\ ~sess[p].acked => ack
        /\ sess' = [sess EXCEPT ![p].expected = next, ![p].acked = @ \/ ack]
        /\ acks' = IF ack THEN acks \cup {<<p, next, Len(fed[p]) + 1>>} ELSE acks
  BY DEF TakeData
<1>6. /\ fed' = [fed EXCEPT ![p] = Append(@, i)]
      /\ [kind |-> "data", peer |-> p, index |-> i] \in net /\ net' \subseteq net
      /\ UNCHANGED <<caller, sessions, nCookies, cookies, accepted, late>>
      /\ errors' \subseteq errors \cup {p} /\ Len(fed[p]) < MaxFed
  BY DEF TakeData, Arrive
<1> HIDE DEF next
<1> QED
  BY <1>0, <1>3, <1>4, <1>5, <1>6

(* What a packet taken in adds to what was named: all that was passed over.    *)
LEMMA TakeNames ==
  ASSUME TypeInv, NEW p \in Peers, NEW i \in Indices, TakeData(p, i),
         NEW e \in 0 .. MaxSend, Position(p, Expected(p, SeqNumber(p, i)), e)
  PROVE  naked' = [naked EXCEPT ![p] = @ \cup (e .. i - 1)]
<1> DEFINE seq == SeqNumber(p, i)
<1>1. e <= i
  BY TakeFacts
<1>2. Gap(p, seq) = e .. i - 1
  <2>1. /\ Expected(p, seq) \in 0 .. Register - 1 /\ Expected(p, seq) \in Int
        /\ seq \in Int /\ Position(p, seq, i) /\ i \in 0 .. MaxSend /\ i \in Int /\ e \in Nat
    BY NumberTypes, SeqNumberPosition, ExpectedType DEF TakeData
  <2> QED
    BY <1>1, <2>1, GapBetween
<1>3. naked' = [naked EXCEPT ![p] = @ \cup Gap(p, seq)]
  BY DEF TakeData
<1> QED
  BY <1>2, <1>3

LEMMA HandshakeType ==
  ASSUME TypeInv, NEW p \in Peers, HandleInduction(p) \/ HandleConclusion(p)
  PROVE  TypeInv'
<1>0. /\ sess \in [Peers -> Sess] /\ Session(p) \in Sess /\ InitialSequence[p] \in 0 .. M - 1
      /\ InitialSequence[p] \in 0 .. Register - 1
      /\ nCookies \in 0 .. MaxCookies /\ MaxCookies \in Nat
      /\ cookies \in [Peers -> SUBSET Cookies]
  <2>1. TypeOK /\ MaxCookies \in Nat
    BY SrtAssumption DEF TypeInv, SrtAssumption
  <2>2. Session(p) \in Sess
    BY <2>1, SessionType
  <2>3. InitialSequence[p] \in 0 .. M - 1 /\ 0 .. M - 1 \subseteq 0 .. Register - 1
    BY NumberTypes
  <2> QED
    BY <2>1, <2>2, <2>3 DEF TypeOK, Sess
<1>1. net' \subseteq net
  BY DEF HandleInduction, HandleConclusion, Arrive
<1>2. CASE HandleInduction(p)
  <2> DEFINE c == nCookies + 1
             x == [Session(p) EXCEPT !.cookie = c]
  <2>1. /\ sess' = [sess EXCEPT ![p] = x] /\ nCookies' = c
        /\ cookies' = [cookies EXCEPT ![p] = @ \cup {c}] /\ nCookies < MaxCookies
        /\ sessions' = sessions \cup {p}
        /\ UNCHANGED <<caller, accepted, fed, late, naked, acks, errors>>
    BY <1>2 DEF HandleInduction
  <2>2. c \in 0 .. MaxCookies /\ c \in Cookies
    BY <1>0, <2>1 DEF Cookies
  <2> HIDE DEF c
  <2>3. /\ x \in Sess /\ x.concluded = Session(p).concluded
        /\ x.expected = Session(p).expected
    BY <1>0, <2>2 DEF Sess
  <2> HIDE DEF x
  <2>4. sess' \in [Peers -> Sess] /\ cookies' \in [Peers -> SUBSET Cookies]
    BY <1>0, <2>1, <2>2, <2>3
  <2>5. TypeOK'
    BY <1>1, <2>1, <2>2, <2>4 DEF TypeInv, TypeOK, Sess
  <2>6. ExpectsAnIndex'
    <3>1. Session(p).concluded => Session(p) = sess[p]
      BY DEF Session, NoSession
    <3> QED
      BY <1>0, <2>1, <2>3, <3>1 DEF TypeInv, ExpectsAnIndex
  <2> QED
    BY <2>5, <2>6 DEF TypeInv
<1>3. CASE HandleConclusion(p)
  <2> DEFINE x == [Session(p) EXCEPT !.concluded = TRUE, !.expected = InitialSequence[p]]
  <2>1. /\ sess' = [sess EXCEPT ![p] = x] \/ sess' = [sess EXCEPT ![p] = Session(p)]
        /\ sessions' = sessions \cup {p} /\ accepted' \subseteq accepted \cup {p}
        /\ UNCHANGED <<caller, nCookies, cookies, fed, late, naked, acks, errors>>
    BY <1>3 DEF HandleConclusion
  <2>2. x \in Sess /\ x.expected = InitialSequence[p]
    BY <1>0 DEF Sess
  <2> HIDE DEF x
  <2>3. sess' \in [Peers -> Sess]
    BY <1>0, <2>1, <2>2
  <2>4. TypeOK'
    BY <1>1, <2>1, <2>3 DEF TypeInv, TypeOK, Sess
  <2>5. \E e \in 0 .. MaxSend : Position(p, x.expected, e)
    <3>1. 0 \in 0 .. MaxSend /\ Position(p, x.expected, 0)
      BY <1>0, <2>2, NumberTypes DEF Position
    <3> QED
      BY <3>1
  <2>6. ExpectsAnIndex'
    <3>1. Session(p).concluded => Session(p) = sess[p]
      BY DEF Session, NoSession
    <3> QED
      BY <1>0, <2>1, <2>5, <3>1 DEF TypeInv, ExpectsAnIndex
  <2> QED
    BY <2>4, <2>6 DEF TypeInv
<1> QED
  BY <1>2, <1>3

LEMMA TakeType ==
  ASSUME TypeInv, NEW p \in Peers, NEW i \in Indices, TakeData(p, i)
  PROVE  TypeInv'
<1>0. /\ sess \in [Peers -> Sess] /\ fed \in [Peers -> Seq(Indices)]
      /\ naked \in [Peers -> SUBSET Indices] /\ Len(fed[p]) \in Nat /\ i \in Nat
      /\ MaxSend \in Nat /\ MaxFed \in Nat /\ i + 1 \in 0 .. MaxSend
      /\ acks \subseteq Peers \X (0 .. Register - 1) \X (0 .. MaxFed)
  <2>1. TypeOK /\ MaxFed \in Nat
    BY SrtAssumption DEF TypeInv, SrtAssumption
  <2>2. fed \in [Peers -> Seq(Indices)] /\ Len(fed[p]) \in Nat
    BY <2>1 DEF TypeOK
  <2>3. i \in Nat /\ MaxSend \in Nat /\ i + 1 \in 0 .. MaxSend
    BY NumberTypes
  <2> QED
    BY <2>1, <2>2, <2>3 DEF TypeOK, Sess
<1>1. PICK e \in 0 .. MaxSend : Position(p, Expected(p, SeqNumber(p, i)), e)
  BY ExpectedType DEF TakeData
<1>2. PICK next \in 0 .. Register - 1, ack \in BOOLEAN :
        /\ Position(p, next, i + 1)
        /\ sess' = [sess EXCEPT ![p].expected = next, ![p].acked = @ \/ ack]
        /\ acks' = IF ack THEN acks \cup {<<p, next, Len(fed[p]) + 1>>} ELSE acks
  BY <1>1, TakeFacts
<1>3. /\ naked' = [naked EXCEPT ![p] = @ \cup (e .. i - 1)]
      /\ fed' = [fed EXCEPT ![p] = Append(@, i)]
      /\ net' \subseteq net /\ errors' \subseteq errors \cup {p} /\ Len(fed[p]) < MaxFed
      /\ UNCHANGED <<caller, sessions, nCookies, cookies, accepted, late>>
  <2>1. naked' = [naked EXCEPT ![p] = @ \cup (e .. i - 1)]
    BY <1>1, TakeNames
  <2> QED
    BY <2>1 DEF TakeData, Arrive
<1>4. e .. i - 1 \subseteq Indices
  BY <1>0 DEF Indices
<1>5. naked' \in [Peers -> SUBSET Indices] /\ fed' \in [Peers -> Seq(Indices)]
  BY <1>0, <1>3, <1>4
<1>6. sess' \in [Peers -> Sess]
  BY <1>0, <1>2 DEF Sess
<1>7. acks' \subseteq Peers \X (0 .. Register - 1) \X (0 .. MaxFed)
  <2>1. Len(fed[p]) + 1 \in 0 .. MaxFed
    BY <1>0, <1>3
  <2> QED
    BY <1>0, <1>2, <2>1
<1>8. TypeOK'
  BY <1>3, <1>5, <1>6, <1>7 DEF TypeInv, TypeOK, Sess
<1>9. ExpectsAnIndex'
  <2> SUFFICES ASSUME NEW q \in Peers, sess'[q].concluded
               PROVE  \E d \in 0 .. MaxSend : Position(q, sess'[q].expected, d)
    BY DEF ExpectsAnIndex
  <2>1. CASE q = p
    <3>1. sess'[p].expected = next
      BY <1>0, <1>2 DEF Sess
    <3> QED
      BY <1>0, <1>2, <2>1, <3>1
  <2>2. CASE q # p
    BY <1>0, <1>2, <2>2 DEF TypeInv, ExpectsAnIndex
  <2> QED
    BY <2>1, <2>2
<1> QED
  BY <1>8, <1>9 DEF TypeInv

LEMMA TypeStep == TypeInv /\ [Next]_vars => TypeInv'
<1> SUFFICES ASSUME TypeInv, [Next]_vars PROVE TypeInv'
  OBVIOUS
<1>1. ASSUME NEW p \in Peers, Caller(p) PROVE TypeInv'
  BY <1>1, CallerType
<1>2. ASSUME NEW p \in Peers, HandleInduction(p) \/ HandleConclusion(p) PROVE TypeInv'
  BY <1>2, HandshakeType
<1>3. ASSUME NEW p \in Peers, HandleShutdown(p) PROVE TypeInv'
  <2>1. /\ net' \subseteq net /\ sessions' \subseteq sessions
        /\ UNCHANGED <<caller, sess, nCookies, cookies, accepted, fed, late, naked, acks, errors>>
    BY <1>3 DEF HandleShutdown, Arrive
  <2> QED
    BY <2>1 DEF TypeInv, TypeOK, ExpectsAnIndex
<1>4. ASSUME NEW p \in Peers, NEW i \in Indices, IgnoreData(p, i) \/ DropLate(p, i)
      PROVE  TypeInv'
  <2>1. /\ net' \subseteq net /\ late' \subseteq late \cup {<<p, i>>}
        /\ UNCHANGED <<caller, sessions, sess, nCookies, cookies, accepted, fed, naked, acks,
                       errors>>
    BY <1>4 DEF IgnoreData, DropLate, Arrive, listenerVars
  <2> QED
    BY <2>1 DEF TypeInv, TypeOK, ExpectsAnIndex
<1>5. ASSUME NEW p \in Peers, NEW i \in Indices, TakeData(p, i) PROVE TypeInv'
  BY <1>5, TakeType
<1>6. CASE UNCHANGED vars
  BY <1>6 DEF vars, listenerVars, TypeInv, TypeOK, ExpectsAnIndex
<1> QED
  BY <1>1, <1>2, <1>3, <1>4, <1>5, <1>6 DEF Next, HandlePacket, HandleData

(* Whatever the network repeats, the CONCLUSION too: the expected number fits  *)
(* its 32 bits and stands for a packet of the caller, and a NAK names packets  *)
(* that the caller can have sent.                                              *)
THEOREM TypeCorrect == Spec => []TypeOK
<1>1. Spec => []TypeInv
  BY TypeInit, TypeStep, PTL DEF Spec
<1> QED
  BY <1>1, PTL DEF TypeInv

-----------------------------------------------------------------------------
(* The channel. *)

LEMMA ChannelInit == Init => ChannelInv
  BY DEF Init, ChannelInv, OneConclusion, Fresh, Sent, Follows, NoSession

LEMMA ConclusionNext ==
  ASSUME TypeInv, ChannelInv, "conclusion" \notin DupKinds,
         NEW p \in Peers, Caller(p) \/ HandlePacket(p)
  PROVE  OneConclusion'
<1>0. OneConclusion /\ net \subseteq Datagram /\ caller \in [Peers -> Call]
  BY DEF ChannelInv, TypeInv, TypeOK, Call
<1>1. CASE SendConclusion(p)
  <2>1. PICK c \in cookies[p] :
          /\ caller[p].phase = "inducing"
          /\ caller' = [caller EXCEPT ![p].phase = "concluding"]
          /\ net' = net \cup {[kind |-> "conclusion", peer |-> p, cookie |-> c]}
          /\ accepted' = accepted
    BY <1>1 DEF SendConclusion, Say, listenerVars
  <2>2. p \notin accepted /\ \A m \in net : m.kind = "conclusion" => m.peer # p
    BY <1>0, <2>1 DEF OneConclusion
  <2>3. caller'[p].phase = "concluding" /\ \A q \in Peers \ {p} : caller'[q] = caller[q]
    BY <1>0, <2>1 DEF Call
  <2>4. \A m \in net' : m \in net \/ (m.kind = "conclusion" /\ m.peer = p
                                     /\ m = [kind |-> "conclusion", peer |-> p, cookie |-> c])
    BY <2>1
  <2>5. \A m \in net : m.peer \in Peers
    BY <1>0, DatagramKinds
  <2>6. \A m \in net' : m.kind = "conclusion" =>
          m.peer \notin accepted /\ caller'[m.peer].phase \in {"concluding", "gone"}
    BY <1>0, <2>2, <2>3, <2>4, <2>5 DEF OneConclusion
  <2>7. \A m, n \in net' : m.kind = "conclusion" /\ n.kind = "conclusion" /\ m.peer = n.peer
          => m = n
    BY <1>0, <2>2, <2>4 DEF OneConclusion
  <2>8. \A q \in Peers : caller'[q].phase \in {"new", "inducing"} => q \notin accepted
    BY <1>0, <2>3 DEF OneConclusion
  <2> QED
    BY <2>1, <2>6, <2>7, <2>8 DEF OneConclusion
<1>2. CASE Caller(p) /\ ~SendConclusion(p)
  <2>1. /\ \A m \in net' : m \in net \/ m.kind # "conclusion"
        /\ accepted' = accepted
    BY <1>2 DEF Caller, SendInduction, SendData, Retransmit, SendShutdown, Vanish, Say,
         listenerVars
  <2>2. \A q \in Peers \ {p} : caller'[q] = caller[q]
    BY <1>0, <1>2 DEF Caller, SendInduction, SendData, Retransmit, SendShutdown, Vanish, Say
  <2>3. \/ caller'[p].phase = "gone"
        \/ caller'[p].phase = "live" /\ (caller[p].phase = "live" \/ p \in accepted)
        \/ caller'[p].phase = "inducing" /\ caller[p].phase = "new"
    BY <1>0, <1>2
       DEF Caller, SendInduction, SendData, Retransmit, SendShutdown, Vanish, Say, Call
  <2>4. \A m \in net : m.peer \in Peers
    BY <1>0, DatagramKinds
  <2> QED
    BY <1>0, <2>1, <2>2, <2>3, <2>4 DEF OneConclusion
<1>3. CASE HandleConclusion(p)
  <2>1. PICK c \in Cookies :
          /\ [kind |-> "conclusion", peer |-> p, cookie |-> c] \in net
          /\ net' = net \ {[kind |-> "conclusion", peer |-> p, cookie |-> c]}
          /\ accepted' \subseteq accepted \cup {p} /\ caller' = caller
    BY <1>3 DEF HandleConclusion, Arrive
  <2> DEFINE m0 == [kind |-> "conclusion", peer |-> p, cookie |-> c]
  <2>2. m0.kind = "conclusion" /\ m0.peer = p /\ m0 \in net /\ net' = net \ {m0}
    BY <2>1
  <2> HIDE DEF m0
  <2>3. /\ \A m \in net' : m.kind = "conclusion" => m.peer # p
        /\ caller[p].phase \in {"concluding", "gone"}
    BY <1>0, <2>2 DEF OneConclusion
  <2> QED
    BY <1>0, <2>1, <2>2, <2>3 DEF OneConclusion
<1>4. CASE HandlePacket(p) /\ ~HandleConclusion(p)
  <2>1. net' \subseteq net /\ UNCHANGED <<accepted, caller>>
    BY <1>4 DEF HandlePacket, HandleInduction, HandleShutdown, HandleData, IgnoreData, DropLate,
         TakeData, Arrive, listenerVars
  <2> QED
    BY <1>0, <2>1 DEF OneConclusion
<1> QED
  BY <1>1, <1>2, <1>3, <1>4

\* A caller says what it sent, or sends the next packet.
LEMMA CallerSends ==
  ASSUME TypeInv, ChannelInv, NEW p \in Peers, Caller(p)
  PROVE  Sent'
<1>0. /\ Sent /\ net \subseteq Datagram /\ caller \in [Peers -> Call]
      /\ UNCHANGED <<fed, naked>>
      /\ \A q \in Peers : caller[q].sent \in Nat
      /\ fed \in [Peers -> Seq(Indices)] /\ naked \in [Peers -> SUBSET Indices]
      /\ Indices \subseteq Nat
  <2>1. UNCHANGED <<fed, naked>>
    BY CallerType DEF listenerVars
  <2> QED
    BY <2>1 DEF ChannelInv, TypeInv, TypeOK, Call, Indices
<1>1. \A q \in Peers : caller'[q].sent \in Nat /\ caller[q].sent <= caller'[q].sent
  <2>1. CASE SendData(p)
    BY <1>0, <2>1 DEF SendData, Call
  <2>2. CASE ~SendData(p)
    <3>1. PICK ph \in {"inducing", "concluding", "live", "gone"} :
            caller' = [caller EXCEPT ![p].phase = ph]
      BY <2>2 DEF Caller, SendInduction, SendConclusion, Retransmit, SendShutdown, Vanish, Say
    <3> QED
      BY <1>0, <3>1 DEF Call
  <2> QED
    BY <2>1, <2>2
<1>2. \A m \in net : m.peer \in Peers /\ (m.kind = "data" => m.index \in Nat)
  BY <1>0, DatagramKinds
<1>3. \A m \in net' : m.kind = "data" => m.index < caller'[m.peer].sent
  <2> SUFFICES ASSUME NEW m \in net', m.kind = "data"
               PROVE  m.index < caller'[m.peer].sent
    OBVIOUS
  <2>1. CASE m \in net
    BY <1>0, <1>1, <1>2, <2>1 DEF Sent
  <2>2. CASE SendData(p) /\ m \notin net
    <3>1. m.peer = p /\ m.index = caller[p].sent /\ caller'[p].sent = caller[p].sent + 1
      BY <1>0, <2>2 DEF SendData, Call
    <3> QED
      BY <1>0, <3>1
  <2>3. CASE ~SendData(p) /\ m \notin net
    <3>1. PICK i \in Indices : Retransmit(p, i)
      BY <2>3 DEF Caller, SendInduction, SendConclusion, SendShutdown, Vanish, Say
    <3>2. m.peer = p /\ m.index = i /\ i \in naked[p]
      BY <2>3, <3>1 DEF Retransmit, Say
    <3>3. i < caller[p].sent
      BY <1>0, <3>2 DEF Sent
    <3> QED
      BY <1>0, <1>1, <3>2, <3>3
  <2> QED
    BY <2>1, <2>2, <2>3
<1>4. \A q \in Peers : \A i \in naked[q] : i < caller'[q].sent
  BY <1>0, <1>1 DEF Sent
<1>5. \A q \in Peers : fed[q] # <<>> => LastFed(q) < caller'[q].sent
  <2> SUFFICES ASSUME NEW q \in Peers, fed[q] # <<>> PROVE LastFed(q) < caller'[q].sent
    OBVIOUS
  <2>1. LastFed(q) \in Nat
    <3>1. fed[q] \in Seq(Indices)
      BY <1>0
    <3>2. fed[q][Len(fed[q])] \in Indices
      BY <3>1
    <3> QED
      BY <1>0, <3>2 DEF LastFed
  <2>2. LastFed(q) < caller[q].sent
    BY <1>0 DEF Sent
  <2> QED
    BY <1>0, <1>1, <2>1, <2>2
<1> QED
  BY <1>0, <1>3, <1>4, <1>5 DEF Sent, LastFed

\* The last element of a sequence that got one more.
LEMMA AppendLast ==
  ASSUME NEW s \in Seq(Indices), NEW i \in Indices
  PROVE  /\ Append(s, i) \in Seq(Indices) /\ Append(s, i) # <<>>
         /\ Len(Append(s, i)) = Len(s) + 1
         /\ Append(s, i)[Len(Append(s, i))] = i
         /\ \A k \in 1 .. Len(s) : Append(s, i)[k] = s[k]
         /\ ToSet(Append(s, i)) = ToSet(s) \cup {i}
<1>1. /\ Append(s, i) \in Seq(Indices) /\ Append(s, i) # <<>>
      /\ Len(Append(s, i)) = Len(s) + 1
      /\ Append(s, i)[Len(Append(s, i))] = i
      /\ \A k \in 1 .. Len(s) : Append(s, i)[k] = s[k]
  OBVIOUS
<1>2. /\ DOMAIN s = 1 .. Len(s) /\ DOMAIN Append(s, i) = 1 .. Len(s) + 1 /\ Len(s) \in Nat
  OBVIOUS
<1>3. ASSUME NEW x \in ToSet(Append(s, i)) PROVE x \in ToSet(s) \cup {i}
  <2>1. PICK k \in 1 .. Len(s) + 1 : x = Append(s, i)[k]
    BY <1>2 DEF ToSet
  <2>2. k \in 1 .. Len(s) \/ k = Len(s) + 1
    BY <1>2
  <2> QED
    BY <1>1, <1>2, <2>1, <2>2 DEF ToSet
<1>4. ASSUME NEW x \in ToSet(s) \cup {i} PROVE x \in ToSet(Append(s, i))
  <2>1. CASE x = i
    <3>1. Len(s) + 1 \in DOMAIN Append(s, i) /\ Append(s, i)[Len(s) + 1] = i
      BY <1>1, <1>2
    <3> QED
      BY <2>1, <3>1 DEF ToSet
  <2>2. CASE x # i
    <3>1. PICK k \in 1 .. Len(s) : x = s[k]
      BY <1>2, <2>2 DEF ToSet
    <3>2. k \in DOMAIN Append(s, i) /\ Append(s, i)[k] = x
      BY <1>1, <1>2, <3>1
    <3> QED
      BY <3>2 DEF ToSet
  <2> QED
    BY <2>1, <2>2
<1> QED
  BY <1>1, <1>3, <1>4

\* A packet that is taken is later than all that were, and the one expected is
\* at most that: the first of the session when none was taken yet.
LEMMA TakenIsLater ==
  ASSUME TypeInv, ChannelInv, NEW p \in Peers, NEW i \in Indices, TakeData(p, i)
  PROVE  \E e \in 0 .. MaxSend :
            /\ Position(p, Expected(p, SeqNumber(p, i)), e)
            /\ fed[p] # <<>> => e = LastFed(p) + 1 /\ LastFed(p) < i /\ LastFed(p) \in Nat
            /\ fed[p] = <<>> => e = 0 \/ (InitialSequence[p] = 0 /\ e = i)
            /\ e <= i /\ i < caller[p].sent
            /\ \A k \in 1 .. Len(fed[p]) : fed[p][k] < e
<1>0. /\ sess[p].concluded /\ fed[p] \in Seq(Indices) /\ Indices \subseteq Nat
      /\ i \in 0 .. MaxSend /\ i \in Nat
      /\ [kind |-> "data", peer |-> p, index |-> i] \in net
  BY NumberTypes DEF TakeData, Arrive, TypeInv, TypeOK, Indices
<1>1. i < caller[p].sent
  <2> DEFINE m == [kind |-> "data", peer |-> p, index |-> i]
  <2>1. m.kind = "data" /\ m.peer = p /\ m.index = i /\ m \in net
    BY <1>0
  <2> HIDE DEF m
  <2> QED
    BY <2>1 DEF ChannelInv, Sent
<1>2. Position(p, SeqNumber(p, i), i)
  BY SeqNumberPosition
<1>3. CASE fed[p] # <<>>
  <2>1. /\ sess[p].acked /\ Position(p, sess[p].expected, LastFed(p) + 1)
        /\ \A k \in 1 .. Len(fed[p]) : fed[p][k] <= LastFed(p)
    BY <1>0, <1>3 DEF ChannelInv, Follows
  <2>2. LastFed(p) \in Indices /\ \A k \in 1 .. Len(fed[p]) : fed[p][k] \in Nat
    <3>1. \A k \in 1 .. Len(fed[p]) : fed[p][k] \in Indices
      BY <1>0
    <3>2. Len(fed[p]) \in 1 .. Len(fed[p])
      BY <1>0, <1>3
    <3> QED
      BY <1>0, <3>1, <3>2 DEF LastFed
  <2>3. LastFed(p) + 1 \in 0 .. MaxSend /\ LastFed(p) \in Nat
    BY <2>2, NumberTypes
  <2>4. Position(p, Expected(p, SeqNumber(p, i)), LastFed(p) + 1)
    BY <2>1 DEF Expected
  <2>5. LastFed(p) + 1 <= i
    BY <2>3, <2>4, TakeFacts
  <2>6. \A k \in 1 .. Len(fed[p]) : fed[p][k] < LastFed(p) + 1
    BY <2>1, <2>2, <2>3
  <2>7. LastFed(p) < i
    BY <1>0, <2>3, <2>5
  <2> QED
    BY <1>1, <1>3, <2>3, <2>4, <2>5, <2>6, <2>7
<1>4. CASE fed[p] = <<>>
  <2>1. sess[p].expected = InitialSequence[p] /\ ~sess[p].acked
    BY <1>0, <1>4 DEF ChannelInv, Follows
  <2>2. Len(fed[p]) = 0
    BY <1>4
  <2>3. CASE InitialSequence[p] = 0
    <3>1. Expected(p, SeqNumber(p, i)) = SeqNumber(p, i)
      BY <2>1, <2>3 DEF Expected
    <3>2. Position(p, Expected(p, SeqNumber(p, i)), i) /\ i <= i
      BY <1>0, <1>2, <3>1
    <3> QED
      BY <1>0, <1>1, <1>4, <2>2, <2>3, <3>2
  <2>4. CASE InitialSequence[p] # 0
    <3>1. Expected(p, SeqNumber(p, i)) = InitialSequence[p]
      BY <2>1, <2>4 DEF Expected
    <3>2. 0 \in 0 .. MaxSend /\ Position(p, Expected(p, SeqNumber(p, i)), 0) /\ 0 <= i
      BY <1>0, <3>1, NumberTypes DEF Position
    <3> QED
      BY <1>1, <1>4, <2>2, <3>2
  <2> QED
    BY <2>3, <2>4
<1> QED
  BY <1>3, <1>4

LEMMA TakeChannel ==
  ASSUME TypeInv, ChannelInv, NEW p \in Peers, NEW i \in Indices, TakeData(p, i)
  PROVE  Fresh' /\ Sent' /\ Follows'
<1>0. /\ sess \in [Peers -> Sess] /\ fed \in [Peers -> Seq(Indices)]
      /\ naked \in [Peers -> SUBSET Indices] /\ Indices \subseteq Nat
      /\ i \in Nat /\ caller \in [Peers -> Call] /\ caller[p].sent \in Nat
  BY DEF TypeInv, TypeOK, Sess, Call, Indices
<1>1. PICK e \in 0 .. MaxSend :
        /\ Position(p, Expected(p, SeqNumber(p, i)), e)
        /\ fed[p] # <<>> => e = LastFed(p) + 1 /\ LastFed(p) < i /\ LastFed(p) \in Nat
        /\ e <= i /\ i < caller[p].sent
        /\ \A k \in 1 .. Len(fed[p]) : fed[p][k] < e
  BY TakenIsLater
<1>2. Position(p, Expected(p, SeqNumber(p, i)), e)
  BY <1>1
<1>3. PICK next \in 0 .. Register - 1, ack \in BOOLEAN :
        /\ Position(p, next, i + 1)
        /\ ~sess[p].acked => ack
        /\ sess' = [sess EXCEPT ![p].expected = next, ![p].acked = @ \/ ack]
        /\ acks' = IF ack THEN acks \cup {<<p, next, Len(fed[p]) + 1>>} ELSE acks
  BY <1>2, TakeFacts
<1>4. naked' = [naked EXCEPT ![p] = @ \cup (e .. i - 1)]
  BY <1>2, TakeNames
<1>5. /\ fed' = [fed EXCEPT ![p] = Append(@, i)] /\ sess[p].concluded
      /\ net' \subseteq net /\ UNCHANGED <<caller, accepted>>
  BY DEF TakeData, Arrive
<1>6. /\ sess'[p].expected = next /\ sess'[p].acked /\ sess'[p].concluded
      /\ \A q \in Peers \ {p} : sess'[q] = sess[q]
  <2>1. sess'[p].acked = (sess[p].acked \/ ack)
    BY <1>0, <1>3 DEF Sess
  <2>2. sess'[p].expected = next /\ sess'[p].concluded = sess[p].concluded
    BY <1>0, <1>3 DEF Sess
  <2>3. \A q \in Peers \ {p} : sess'[q] = sess[q]
    BY <1>0, <1>3
  <2> QED
    BY <1>3, <1>5, <2>1, <2>2, <2>3
<1>7. /\ fed'[p] = Append(fed[p], i) /\ \A q \in Peers \ {p} : fed'[q] = fed[q]
  BY <1>0, <1>5
<1>8. /\ fed'[p] # <<>> /\ fed'[p][Len(fed'[p])] = i /\ Len(fed'[p]) = Len(fed[p]) + 1
      /\ \A k \in 1 .. Len(fed[p]) : fed'[p][k] = fed[p][k]
      /\ fed[p] \in Seq(Indices) /\ Len(fed[p]) \in Nat
  BY <1>0, <1>7, AppendLast
<1>9. Fresh'
  <2>1. p \in accepted
    BY <1>5 DEF ChannelInv, Fresh
  <2> QED
    BY <1>5, <1>6, <1>7, <2>1 DEF ChannelInv, Fresh
<1>10. Sent'
  <2>1. \A m \in net' : m.kind = "data" => m.index < caller'[m.peer].sent
    BY <1>5 DEF ChannelInv, Sent
  <2>2. ASSUME NEW q \in Peers, NEW j \in naked'[q] PROVE j < caller'[q].sent
    <3>1. CASE j \in naked[q]
      BY <1>5, <3>1 DEF ChannelInv, Sent
    <3>2. CASE j \notin naked[q]
      <4>1. q = p /\ j \in e .. i - 1
        BY <1>0, <1>4, <3>2
      <4> QED
        BY <1>0, <1>1, <1>5, <4>1
    <3> QED
      BY <3>1, <3>2
  <2>3. \A q \in Peers : fed'[q] # <<>> => fed'[q][Len(fed'[q])] < caller'[q].sent
    BY <1>1, <1>5, <1>7, <1>8 DEF ChannelInv, Sent, LastFed
  <2> QED
    BY <2>1, <2>2, <2>3 DEF Sent, LastFed
<1>11. Follows'
  <2> SUFFICES ASSUME NEW q \in Peers
               PROVE  /\ \A k \in 1 .. Len(fed'[q]) : fed'[q][k] <= fed'[q][Len(fed'[q])]
                      /\ sess'[q].concluded /\ fed'[q] = <<>> =>
                            sess'[q].expected = InitialSequence[q] /\ ~sess'[q].acked
                      /\ sess'[q].concluded /\ fed'[q] # <<>> =>
                            /\ sess'[q].acked
                            /\ Position(q, sess'[q].expected, fed'[q][Len(fed'[q])] + 1)
    BY DEF Follows, LastFed
  <2>1. CASE q = p
    <3>1. ASSUME NEW k \in 1 .. Len(fed'[p]) PROVE fed'[p][k] <= i
      <4>1. CASE k = Len(fed[p]) + 1
        BY <1>0, <1>8, <4>1
      <4>2. CASE k # Len(fed[p]) + 1
        <5>1. k \in 1 .. Len(fed[p])
          BY <1>8, <4>2
        <5>2. fed'[p][k] < e /\ fed[p][k] \in Nat /\ fed'[p][k] = fed[p][k]
          <6>1. fed'[p][k] = fed[p][k] /\ fed[p][k] < e
            BY <1>1, <1>8, <5>1
          <6>2. fed[p][k] \in Indices
            BY <1>8, <5>1
          <6> QED
            BY <1>0, <6>1, <6>2
        <5> QED
          BY <1>0, <1>1, <5>2
      <4> QED
        BY <4>1, <4>2
    <3> QED
      BY <1>3, <1>6, <1>8, <2>1, <3>1
  <2>2. CASE q # p
    BY <1>6, <1>7, <2>2 DEF ChannelInv, Follows, LastFed
  <2> QED
    BY <2>1, <2>2
<1> QED
  BY <1>9, <1>10, <1>11

LEMMA ChannelNext ==
  ASSUME TypeInv, ChannelInv, "conclusion" \notin DupKinds, Next
  PROVE  ChannelInv'
<1>0. /\ sess \in [Peers -> Sess] /\ TypeOK /\ OneConclusion /\ Fresh /\ Sent /\ Follows
      /\ fed \in [Peers -> Seq(Indices)]
  BY DEF TypeInv, TypeOK, Sess, ChannelInv
<1>1. PICK p \in Peers : Caller(p) \/ HandlePacket(p)
  BY DEF Next
<1>2. OneConclusion'
  BY <1>1, ConclusionNext
<1>3. CASE Caller(p)
  <2>1. UNCHANGED listenerVars
    BY <1>3, CallerType
  <2>2. Sent'
    BY <1>3, CallerSends
  <2>3. Fresh' /\ Follows'
    BY <1>0, <2>1 DEF listenerVars, Fresh, Follows, LastFed
  <2> QED
    BY <1>2, <2>2, <2>3 DEF ChannelInv
<1>4. CASE HandleConclusion(p)
  <2>1. p \notin accepted
    <3>1. PICK c \in Cookies : [kind |-> "conclusion", peer |-> p, cookie |-> c] \in net
      BY <1>4 DEF HandleConclusion, Arrive
    <3> DEFINE m == [kind |-> "conclusion", peer |-> p, cookie |-> c]
    <3>2. m \in net /\ m.kind = "conclusion" /\ m.peer = p
      BY <3>1
    <3> HIDE DEF m
    <3> QED
      BY <1>0, <3>2 DEF OneConclusion
  <2>2. ~sess[p].concluded /\ ~sess[p].acked /\ fed[p] = <<>>
    BY <1>0, <2>1 DEF Fresh
  <2>3. /\ UNCHANGED <<caller, fed, naked>> /\ net' \subseteq net
        /\ accepted \subseteq accepted' /\ accepted' \subseteq accepted \cup {p}
    BY <1>4 DEF HandleConclusion, Arrive
  <2>4. \A q \in Peers \ {p} : sess'[q] = sess[q]
    BY <1>0, <1>4 DEF HandleConclusion
  <2>5. Session(p) \in Sess /\ ~Session(p).concluded /\ ~Session(p).acked
    BY <1>0, <2>2, SessionType DEF Session, NoSession
  <2>6. \/ p \in accepted' /\ sess'[p].expected = InitialSequence[p] /\ ~sess'[p].acked
        \/ ~sess'[p].concluded /\ ~sess'[p].acked
    <3>1. CASE /\ sess' = [sess EXCEPT ![p] =
                             [Session(p) EXCEPT !.concluded = TRUE,
                                                !.expected = InitialSequence[p]]]
               /\ accepted' = accepted \cup {p}
      BY <1>0, <2>5, <3>1 DEF Sess
    <3>2. CASE sess' = [sess EXCEPT ![p] = Session(p)]
      BY <1>0, <2>5, <3>2
    <3> QED
      BY <1>4, <3>1, <3>2 DEF HandleConclusion
  <2>7. Fresh'
    BY <1>0, <2>3, <2>4, <2>6, <2>2 DEF Fresh
  <2>8. Sent'
    BY <1>0, <2>3 DEF Sent, LastFed
  <2>9. Follows'
    BY <1>0, <2>2, <2>3, <2>4, <2>6 DEF Follows, LastFed
  <2> QED
    BY <1>2, <2>7, <2>8, <2>9 DEF ChannelInv
<1>5. CASE HandleInduction(p)
  <2>1. /\ UNCHANGED <<caller, fed, naked, accepted>> /\ net' \subseteq net
        /\ sess' = [sess EXCEPT ![p] = [Session(p) EXCEPT !.cookie = nCookies + 1]]
    BY <1>5 DEF HandleInduction, Arrive
  <2>2. \A q \in Peers \ {p} : sess'[q] = sess[q]
    BY <1>0, <2>1
  <2>3. Session(p) = sess[p] \/ (~Session(p).concluded /\ ~Session(p).acked)
    BY DEF Session, NoSession
  <2>4. Session(p) \in Sess
    BY <1>0, SessionType
  <2>5. /\ sess'[p].concluded = Session(p).concluded /\ sess'[p].acked = Session(p).acked
        /\ sess'[p].expected = Session(p).expected
    BY <1>0, <2>1, <2>4 DEF Sess
  <2>6. Fresh'
    BY <1>0, <2>1, <2>2, <2>3, <2>5 DEF Fresh
  <2>7. Sent'
    BY <1>0, <2>1 DEF Sent, LastFed
  <2>8. Follows'
    <3>1. ASSUME NEW q \in Peers
          PROVE  \/ sess'[q].acked = sess[q].acked /\ sess'[q].expected = sess[q].expected
                    /\ sess'[q].concluded = sess[q].concluded
                 \/ ~sess'[q].concluded
      BY <2>2, <2>3, <2>5
    <3> QED
      BY <1>0, <2>1, <3>1 DEF Follows, LastFed
  <2> QED
    BY <1>2, <2>6, <2>7, <2>8 DEF ChannelInv
<1>6. ASSUME NEW i \in Indices, TakeData(p, i) PROVE ChannelInv'
  BY <1>2, <1>6, TakeChannel DEF ChannelInv
<1>7. CASE HandleShutdown(p) \/ \E i \in Indices : IgnoreData(p, i) \/ DropLate(p, i)
  <2>1. UNCHANGED <<caller, sess, fed, naked, accepted>> /\ net' \subseteq net
    BY <1>7 DEF HandleShutdown, IgnoreData, DropLate, Arrive, listenerVars
  <2>2. Fresh' /\ Sent' /\ Follows'
    BY <1>0, <2>1 DEF Fresh, Sent, Follows, LastFed
  <2> QED
    BY <1>2, <2>2 DEF ChannelInv
<1> QED
  BY <1>1, <1>3, <1>4, <1>5, <1>6, <1>7 DEF HandlePacket, HandleData

LEMMA ChannelAlways ==
  ASSUME "conclusion" \notin DupKinds
  PROVE  Spec => [](TypeInv /\ ChannelInv)
<1>1. ChannelInv /\ UNCHANGED vars => ChannelInv'
  BY DEF ChannelInv, OneConclusion, Fresh, Sent, Follows, LastFed, vars, listenerVars
<1>2. TypeInv /\ ChannelInv /\ [Next]_vars => (TypeInv /\ ChannelInv)'
  BY <1>1, TypeStep, ChannelNext
<1> QED
  BY <1>2, TypeInit, ChannelInit, PTL DEF Spec

\* Of all the steps, only taking a packet hands one over or names one.
LEMMA OnlyTakes ==
  ASSUME TypeInv, NEW p \in Peers, HandlePacket(p), \A i \in Indices : ~TakeData(p, i)
  PROVE  UNCHANGED <<caller, fed, naked>>
  BY DEF HandlePacket, HandleInduction, HandleConclusion, HandleShutdown, HandleData, IgnoreData,
       DropLate, listenerVars

LEMMA StepRefines ==
  ASSUME TypeInv, ChannelInv, Next
  PROVE  [Channel!Next]_Channel!vars
<1> DEFINE sent == [p \in Peers |-> caller[p].sent]
<1>0. caller \in [Peers -> Call] /\ fed \in [Peers -> Seq(Indices)]
  BY DEF TypeInv, TypeOK, Call
<1>1. PICK p \in Peers : Caller(p) \/ HandlePacket(p)
  BY DEF Next
<1>2. CASE SendData(p)
  <2>1. /\ caller' = [caller EXCEPT ![p] = [phase |-> "live", sent |-> @.sent + 1]]
        /\ caller[p].sent < MaxSend /\ fed' = fed
    BY <1>2 DEF SendData, listenerVars
  <2>2. sent' = [sent EXCEPT ![p] = @ + 1] /\ sent[p] < MaxSend
    BY <1>0, <2>1 DEF Call
  <2>3. Channel!Send(p)
    BY <2>1, <2>2 DEF Channel!Send
  <2> QED
    BY <2>3 DEF Channel!Next
<1>3. CASE Caller(p) /\ ~SendData(p)
  <2>1. PICK ph \in {"inducing", "concluding", "live", "gone"} :
          caller' = [caller EXCEPT ![p].phase = ph]
    BY <1>3 DEF Caller, SendInduction, SendConclusion, Retransmit, SendShutdown, Vanish, Say
  <2>2. sent' = sent
    BY <1>0, <2>1 DEF Call
  <2>3. fed' = fed
    BY <1>3, CallerType DEF listenerVars
  <2> QED
    BY <2>2, <2>3 DEF Channel!vars
<1>4. ASSUME NEW i \in Indices, TakeData(p, i)
      PROVE  Channel!Next
  <2>1. /\ i < caller[p].sent
        /\ fed[p] # <<>> => LastFed(p) < i
    BY <1>4, TakenIsLater
  <2>2. fed' = [fed EXCEPT ![p] = Append(@, i)] /\ caller' = caller
    BY <1>4 DEF TakeData
  <2>3. i \in 0 .. sent[p] - 1
    BY <1>0, <2>1 DEF Indices, Call
  <2>4. Channel!HandOver(p, i)
    BY <2>1, <2>2 DEF Channel!HandOver, LastFed
  <2> QED
    BY <2>3, <2>4 DEF Channel!Next
<1>5. CASE HandlePacket(p) /\ \A i \in Indices : ~TakeData(p, i)
  <2>1. UNCHANGED <<caller, fed>>
    BY <1>5, OnlyTakes
  <2> QED
    BY <2>1 DEF Channel!vars
<1> QED
  BY <1>1, <1>2, <1>3, <1>4, <1>5

(* To its handler the listener is a live channel for each of any number of     *)
(* callers: nothing twice, nothing out of order and nothing that was not sent, *)
(* across the wrap of the numbers, unless a CONCLUSION arrives twice.          *)
THEOREM RefinesLiveChannel ==
  ASSUME "conclusion" \notin DupKinds
  PROVE  Spec => ImplementsLiveChannel
<1>1. Init => Channel!Init
  BY DEF Init, Channel!Init
<1>2. TypeInv /\ ChannelInv /\ [Next]_vars => [Channel!Next]_Channel!vars
  <2>1. UNCHANGED vars => UNCHANGED Channel!vars
    BY DEF vars, listenerVars, Channel!vars
  <2> QED
    BY <2>1, StepRefines
<1> QED
  BY <1>1, <1>2, ChannelAlways, PTL DEF Spec, ImplementsLiveChannel, Channel!Spec

-----------------------------------------------------------------------------
(* Gaps. *)

LEMMA GapsNext ==
  ASSUME TypeInv, ChannelInv, GapsReported, \A p \in Peers : InitialSequence[p] # 0, Next
  PROVE  GapsReported'
<1>0. /\ fed \in [Peers -> Seq(Indices)] /\ naked \in [Peers -> SUBSET Indices]
      /\ Indices \subseteq Nat
  BY DEF TypeInv, TypeOK, Indices
<1>1. PICK p \in Peers : Caller(p) \/ HandlePacket(p)
  BY DEF Next
<1>2. CASE Caller(p) \/ (HandlePacket(p) /\ \A i \in Indices : ~TakeData(p, i))
  <2>1. UNCHANGED <<fed, naked>>
    BY <1>2, CallerType, OnlyTakes DEF listenerVars
  <2> QED
    BY <2>1 DEF GapsReported
<1>3. ASSUME NEW i \in Indices, TakeData(p, i) PROVE GapsReported'
  <2>1. PICK e \in 0 .. MaxSend :
          /\ Position(p, Expected(p, SeqNumber(p, i)), e)
          /\ fed[p] # <<>> => e = LastFed(p) + 1 /\ LastFed(p) \in Nat
          /\ fed[p] = <<>> => e = 0
    BY <1>3, TakenIsLater
  <2>2. Position(p, Expected(p, SeqNumber(p, i)), e)
    BY <2>1
  <2>3. naked' = [naked EXCEPT ![p] = @ \cup (e .. i - 1)]
    BY <1>3, <2>2, TakeNames
  <2>4. fed' = [fed EXCEPT ![p] = Append(@, i)]
    BY <1>3 DEF TakeData
  <2>5. /\ ToSet(fed'[p]) = ToSet(fed[p]) \cup {i}
        /\ \A q \in Peers \ {p} : fed'[q] = fed[q]
    <3>1. ToSet(Append(fed[p], i)) = ToSet(fed[p]) \cup {i}
      BY <1>0, AppendLast
    <3>2. fed'[p] = Append(fed[p], i) /\ \A q \in Peers \ {p} : fed'[q] = fed[q]
      BY <1>0, <2>4
    <3> QED
      BY <3>1, <3>2
  <2>6. \A j \in 0 .. e - 1 : j \in ToSet(fed[p]) \/ j \in naked[p]
    <3>1. CASE fed[p] = <<>>
      BY <2>1, <3>1
    <3>2. CASE fed[p] # <<>>
      <4>1. LastFed(p) \in ToSet(fed[p])
        <5>1. fed[p] \in Seq(Indices)
          BY <1>0
        <5>2. Len(fed[p]) \in DOMAIN fed[p]
          BY <3>2, <5>1
        <5> QED
          BY <5>2 DEF LastFed, ToSet
      <4>2. \A j \in 0 .. LastFed(p) : j \in ToSet(fed[p]) \/ j \in naked[p]
        BY <4>1 DEF GapsReported
      <4> QED
        BY <2>1, <3>2, <4>2
    <3> QED
      BY <3>1, <3>2
  <2>7. \A j \in 0 .. i : j \in ToSet(fed'[p]) \/ j \in naked'[p]
    <3> SUFFICES ASSUME NEW j \in 0 .. i PROVE j \in ToSet(fed'[p]) \/ j \in naked'[p]
      OBVIOUS
    <3>1. j \in 0 .. e - 1 \/ j \in e .. i - 1 \/ j = i
      BY <1>0
    <3> QED
      BY <1>0, <2>3, <2>5, <2>6, <3>1
  <2>8. ASSUME NEW q \in Peers, NEW n \in ToSet(fed'[q]), NEW j \in 0 .. n
        PROVE  j \in ToSet(fed'[q]) \/ j \in naked'[q]
    <3>1. CASE q = p /\ n = i
      BY <2>7, <3>1
    <3>2. CASE ~(q = p /\ n = i)
      <4>1. n \in ToSet(fed[q]) /\ ToSet(fed[q]) \subseteq ToSet(fed'[q])
        BY <2>5, <3>2
      <4>2. naked[q] \subseteq naked'[q]
        BY <1>0, <2>3
      <4> QED
        BY <4>1, <4>2 DEF GapsReported
    <3> QED
      BY <3>1, <3>2
  <2> QED
    BY <2>8 DEF GapsReported
<1> QED
  BY <1>1, <1>2, <1>3 DEF HandlePacket, HandleData

(* Every packet that was passed over was named in a NAK, whatever was lost and *)
(* reordered, unless a CONCLUSION arrives twice or a caller begins with the    *)
(* number that stands for "no number yet".                                     *)
THEOREM GapsReportedCorrect ==
  ASSUME "conclusion" \notin DupKinds, \A p \in Peers : InitialSequence[p] # 0
  PROVE  Spec => []GapsReported
<1>1. Init => GapsReported
  BY DEF Init, GapsReported, ToSet
<1>2. GapsReported /\ UNCHANGED vars => GapsReported'
  BY DEF GapsReported, vars, listenerVars
<1>3. TypeInv /\ ChannelInv /\ GapsReported /\ [Next]_vars => GapsReported'
  BY <1>2, GapsNext
<1> QED
  BY <1>1, <1>3, ChannelAlways, PTL DEF Spec

(* A NAK names nothing that the handler has: what it names lies between the    *)
(* last packet handed over and the one that is now.                            *)
LEMMA NakStep ==
  ASSUME TypeInv, ChannelInv, Next, NEW q \in Peers, NEW j \in naked'[q] \ naked[q]
  PROVE  j \notin ToSet(fed'[q])
<1>0. /\ fed \in [Peers -> Seq(Indices)] /\ naked \in [Peers -> SUBSET Indices]
      /\ Indices \subseteq Nat
  BY DEF TypeInv, TypeOK, Indices
<1>1. PICK p \in Peers : Caller(p) \/ HandlePacket(p)
  BY DEF Next
<1>2. PICK i \in Indices : TakeData(p, i)
  BY <1>1, CallerType, OnlyTakes DEF listenerVars
<1>3. PICK e \in 0 .. MaxSend :
        /\ Position(p, Expected(p, SeqNumber(p, i)), e)
        /\ e <= i /\ \A k \in 1 .. Len(fed[p]) : fed[p][k] < e
  BY <1>2, TakenIsLater
<1>4. Position(p, Expected(p, SeqNumber(p, i)), e)
  BY <1>3
<1>5. naked' = [naked EXCEPT ![p] = @ \cup (e .. i - 1)]
  BY <1>2, <1>4, TakeNames
<1>6. q = p /\ j \in e .. i - 1
  BY <1>0, <1>5
<1>7. ToSet(fed'[p]) = ToSet(fed[p]) \cup {i}
  <2>1. fed'[p] = Append(fed[p], i)
    BY <1>0, <1>2 DEF TakeData
  <2> QED
    BY <1>0, <2>1, AppendLast
<1>8. \A x \in ToSet(fed[p]) : x < e /\ x \in Nat
  <2>1. DOMAIN fed[p] = 1 .. Len(fed[p]) /\ \A k \in DOMAIN fed[p] : fed[p][k] \in Indices
    BY <1>0
  <2> QED
    BY <1>0, <1>3, <2>1 DEF ToSet
<1> QED
  BY <1>0, <1>6, <1>7, <1>8

(* A NAK asks only for what is missing, across the wrap and for any number of  *)
(* callers, unless a CONCLUSION arrives twice.                                 *)
THEOREM NakOnlyMissingCorrect ==
  ASSUME "conclusion" \notin DupKinds
  PROVE  Spec => NakOnlyMissing
<1> DEFINE Good == \A p \in Peers : \A i \in naked'[p] \ naked[p] : i \notin ToSet(fed'[p])
<1>1. TypeInv /\ ChannelInv /\ [Next]_vars => [Good]_vars
  BY NakStep
<1> QED
  BY <1>1, ChannelAlways, PTL DEF Spec, NakOnlyMissing
=============================================================================
