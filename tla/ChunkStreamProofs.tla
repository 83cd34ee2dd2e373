-------------------------- MODULE ChunkStreamProofs --------------------------
(***************************************************************************)
(* The reader of an RTMP connection stays in frame: for any chunk streams,  *)
(* message lengths, chunk sizes and timestamps, and whatever header formats *)
(* an encoder uses that sends one message after the other, ParseChunk takes *)
(* each token for what it is.                                               *)
(*                                                                          *)
(* What is on the wire is a run of whole chunks.  An abstract state says    *)
(* where between two chunks one stands: the message, how much of it has     *)
(* passed, the chunk size, and the last header of each chunk stream.  The   *)
(* chunks on the wire lead from the reader's state to the encoder's; to     *)
(* write is to add a chunk at one end, to read is to take one at the other. *)
(***************************************************************************)
EXTENDS ChunkStream, SequenceTheorems, WellFoundedInduction, TLAPS

MessageTypes == {"audio", "video", "aggregate", "setChunkSize", "windowAckSize",
                 "abort", "ping", "ignored", "badCommand"}
Values == ChunkSizes \cup Windows \cup MediaCs \cup Aggregates \cup {0, <<>>}
Message == [type : MessageTypes, len : Nat \ {0}, ts : Uint, val : Values]
SubMessage == [type : STRING, ts : Uint]

Token == [k : {"hdr"}, fmt : 0 .. 3, cs : AllCs, ts : Int, len : Nat, type : MessageTypes]
         \cup [k : {"ext"}, ts : Int]
         \cup [k : {"pay"}, id : Nat, i : Nat]
Payload(id, i) == [k |-> "pay", id |-> id, i |-> i]

EncoderHeader == [type : MessageTypes, len : Nat \ {0}, ts : Uint, ext : BOOLEAN,
                  delta : Int, relative : BOOLEAN]

ValueFits(m) ==
    /\ m.type = "setChunkSize" => m.val \in Nat \ {0} /\ m.len = 1
    /\ m.type = "abort" => m.val \in MediaCs /\ m.len = 1
    /\ m.type = "aggregate" => m.val \in Seq(SubMessage)

\* A relative header that is repeated needs the extension it had before.
DeltaExtended ==
    \A c \in AllCs : encLast[c] # None /\ encLast[c].relative =>
        (encLast[c].ext <=> encLast[c].delta >= Sentinel)

EncoderTypes ==
    /\ sent \in Seq(Message)
    /\ \A i \in 1 .. Len(sent) : ValueFits(sent[i])
    /\ wire \in Seq(Token)
    /\ encChunkSize \in Nat \ {0}
    /\ left \in [AllCs -> [id : Nat, units : Nat]]
    /\ encLast \in [AllCs -> EncoderHeader \cup {None}]
    /\ DeltaExtended

-----------------------------------------------------------------------------
(* The state between two chunks, and what a chunk makes of it. *)

Summary == [type : MessageTypes, len : Nat \ {0}, ext : BOOLEAN, ts : Uint, delta : Int]
State == [id : Nat, got : Nat, size : Nat \ {0}, has : SUBSET AllCs, prev : [AllCs -> Summary]]

\* The units of message m that the next chunk has; whether it is extended.
Cut(s, m) == IF m.len - s.got <= s.size THEN m.len - s.got ELSE s.size
Ext(s, hd) == IF hd.fmt = 3 THEN s.prev[hd.cs].ext ELSE hd.ts = Sentinel
Heads(s, hd) == IF Ext(s, hd) THEN 2 ELSE 1

\* The timestamp that the header amounts to is that of the message.
TimeFits(s, m, fmt, c, field) ==
    /\ fmt = 0 => field = m.ts
    /\ fmt \in {1, 2} /\ c \in s.has => (s.prev[c].ts + field) % Wrap = m.ts
    /\ fmt = 3 /\ s.got = 0 => (s.prev[c].ts + s.prev[c].delta) % Wrap = m.ts
    /\ fmt = 3 /\ s.got # 0 => s.prev[c].ts = m.ts
Carried(w, p, ext) == IF ext THEN w[p + 1].ts ELSE w[p].ts
Delta(s, fmt, c, field) ==
    IF fmt = 0 THEN 0 ELSE IF fmt = 3 THEN s.prev[c].delta ELSE field

Leads(s, m, c, ext, delta, t) ==
    /\ t.prev = [s.prev EXCEPT ![c] = [type |-> m.type, len |-> m.len, ext |-> ext,
                                       ts |-> m.ts, delta |-> delta]]
    /\ IF s.got + Cut(s, m) < m.len
       THEN /\ t.id = s.id
            /\ t.got = s.got + Cut(s, m)
            /\ t.size = s.size
            /\ t.has = s.has \cup {c}
       ELSE /\ t.id = s.id + 1
            /\ t.got = 0
            /\ t.size = IF m.type = "setChunkSize" THEN m.val ELSE s.size
            /\ t.has = (s.has \cup {c}) \ (IF m.type = "abort" THEN {m.val} ELSE {})

\* From p to q, w has the next chunk of message s.id, and it leads from s to t.
Chunk(w, msgs, s, t, p, q) ==
    /\ s.id \in 1 .. Len(msgs)
    /\ s.got < msgs[s.id].len
    /\ w[p].k = "hdr" /\ w[p].cs \in AllCs /\ w[p].fmt \in 0 .. 3
    /\ w[p].fmt \in {0, 1} => w[p].type = msgs[s.id].type /\ w[p].len = msgs[s.id].len
    /\ w[p].fmt \in {2, 3} => /\ w[p].cs \in s.has
                              /\ s.prev[w[p].cs].type = msgs[s.id].type
                              /\ s.prev[w[p].cs].len = msgs[s.id].len
    /\ q = p + Heads(s, w[p]) + Cut(s, msgs[s.id])
    /\ Ext(s, w[p]) => w[p + 1].k = "ext"
    /\ \A i \in 1 .. Cut(s, msgs[s.id]) :
          w[p + Heads(s, w[p]) + i - 1] = Payload(s.id, s.got + i)
    /\ LET field == Carried(w, p, Ext(s, w[p])) IN
          /\ TimeFits(s, msgs[s.id], w[p].fmt, w[p].cs, field)
          /\ Leads(s, msgs[s.id], w[p].cs, Ext(s, w[p]), Delta(s, w[p].fmt, w[p].cs, field), t)

\* w is n chunks, the j-th of which begins at B[j] and leads from St[j] on.
Trace(w, msgs, n, B, St) ==
    /\ n \in Nat
    /\ B \in [1 .. n + 1 -> Int]
    /\ St \in [1 .. n + 1 -> State]
    /\ B[1] = 1
    /\ B[n + 1] = Len(w) + 1
    /\ \A i, j \in 1 .. n + 1 : i < j => B[i] < B[j]
    /\ \A i, j \in 1 .. n + 1 : i < j => St[i].id <= St[j].id
    /\ \A j \in 1 .. n : Chunk(w, msgs, St[j], St[j + 1], B[j], B[j + 1])

\* w is a run of whole chunks, which lead from s to t.
Run(w, msgs, s, t) ==
    \E n, B, St : Trace(w, msgs, n, B, St) /\ St[1] = s /\ St[n + 1] = t

\* msgs2 has the messages of msgs, and perhaps more.
Knows(msgs2, msgs) ==
    /\ msgs2 \in Seq(Message)
    /\ Len(msgs) <= Len(msgs2)
    /\ \A i \in 1 .. Len(msgs) : msgs2[i] = msgs[i]

\* The last headers in f are those of state s.
Agrees(s, f) ==
    \A c \in AllCs :
        /\ c \in s.has <=> f[c] # None
        /\ c \in s.has => /\ f[c].type = s.prev[c].type
                          /\ f[c].len = s.prev[c].len
                          /\ f[c].ext = s.prev[c].ext
                          /\ f[c].ts = s.prev[c].ts

\* The encoder stands at s: between two messages, or inside the last it began.
InMessage(s, c) ==
    /\ left[c].id = s.id
    /\ left[c].units = sent[s.id].len - s.got
    /\ s.got < sent[s.id].len
    /\ c \in s.has
    /\ s.prev[c].type = sent[s.id].type
    /\ s.prev[c].len = sent[s.id].len
    /\ s.prev[c].ts = sent[s.id].ts
    /\ \A d \in AllCs \ {c} : Idle(d)
\* It has completed all messages but that one.
Completed(s) ==
    /\ complete \in Seq(Nat)
    /\ Len(complete) = s.id - 1
    /\ \A k \in 1 .. s.id - 1 : complete[k] = k
EncoderAt(s) ==
    /\ s.size = encChunkSize
    /\ Agrees(s, encLast)
    /\ \A c \in s.has : encLast[c].relative => encLast[c].delta = s.prev[c].delta
    /\ Completed(s)
    /\ IF s.got = 0 THEN s.id = Len(sent) + 1 /\ \A c \in AllCs : Idle(c)
       ELSE s.id = Len(sent) /\ sent # <<>> /\ \E c \in AllCs : InMessage(s, c)

\* What the first n messages mean to the room.
Told(n) == FlattenSeq([k \in 1 .. n |-> Meaning(k)])
Heard(s) == s.id \in 1 .. Len(sent) + 1 /\ room = Told(s.id - 1)

\* So does the reader; its message is what has passed of the one at s.
ReaderAt(s) ==
    /\ s.size = peerMaxChunkSize
    /\ DOMAIN lastChunk = AllCs
    /\ Agrees(s, lastChunk)
    /\ \A c \in s.has : lastChunk[c].delta = s.prev[c].delta
    /\ Heard(s)
    /\ IF message = None THEN s.got = 0
       ELSE /\ DOMAIN message = {"type", "len", "ts", "payload"}
            /\ s.id \in 1 .. Len(sent)
            /\ s.got # 0
            /\ message.ts = sent[s.id].ts
            /\ message.type = sent[s.id].type
            /\ message.len = sent[s.id].len
            /\ message.payload \in Seq(Token)
            /\ Len(message.payload) = s.got
            /\ \A i \in 1 .. s.got : message.payload[i] = Payload(s.id, i)

InStep == \E s, t \in State : Run(wire, sent, s, t) /\ ReaderAt(s) /\ EncoderAt(t)

\* The room has a part of what was meant, also when the connection has ended.
Meant == FlattenSeq([k \in 1 .. Len(complete) |-> Meaning(complete[k])])
FrameInv ==
    /\ conn # "lost"
    /\ conn = "open" => EncoderTypes /\ InStep
    /\ conn # "open" => IsPrefix(room, Meant)

-----------------------------------------------------------------------------
(* Sequences of sequences, end to end. *)

\* Induction, as a least counterexample.
LEMMA LeastOf ==
  ASSUME NEW T \in SUBSET Nat, T # {} PROVE \E n \in T : \A k \in T : n <= k
<1>1. PICK n \in T : \A k \in T : ~(<<k, n>> \in OpToRel(<, Nat))
  BY WFMin, NatLessThanWellFounded
<1>2. \A k \in T : ~(k < n)
  BY <1>1 DEF OpToRel
<1> QED
  BY <1>2

\* f[i] is the concatenation of the first i sequences of q, for i up to n.
Joins(f, q, n, S) ==
    /\ f \in [0 .. n -> Seq(S)]
    /\ f[0] = <<>>
    /\ \A i \in 1 .. n : f[i] = f[i - 1] \o q[i]

LEMMA JoinsNext ==
  ASSUME NEW S, NEW q \in Seq(Seq(S)), NEW n \in 1 .. Len(q), NEW f, Joins(f, q, n - 1, S)
  PROVE  \E g : Joins(g, q, n, S)
<1> DEFINE g == [i \in 0 .. n |-> IF i = n THEN f[n - 1] \o q[n] ELSE f[i]]
<1>1. f[n - 1] \in Seq(S) /\ q[n] \in Seq(S)
  BY DEF Joins
<1>2. f[n - 1] \o q[n] \in Seq(S)
  BY <1>1
<1>3. g \in [0 .. n -> Seq(S)] /\ g[0] = <<>>
  BY <1>2 DEF Joins
<1>4. ASSUME NEW i \in 1 .. n PROVE g[i] = g[i - 1] \o q[i]
  <2>1. i \in 0 .. n /\ i - 1 \in 0 .. n /\ i - 1 # n
    OBVIOUS
  <2>2. g[i - 1] = f[i - 1] /\ g[i] = IF i = n THEN f[n - 1] \o q[n] ELSE f[i]
    BY <2>1
  <2> HIDE DEF g
  <2>3. CASE i = n
    BY <2>2, <2>3
  <2>4. CASE i # n
    <3>1. i \in 1 .. n - 1
      BY <2>4
    <3> QED
      BY <2>2, <2>4, <3>1 DEF Joins
  <2> QED
    BY <2>3, <2>4
<1> HIDE DEF g
<1> QED
  BY <1>3, <1>4 DEF Joins

LEMMA JoinsExists ==
  ASSUME NEW S, NEW q \in Seq(Seq(S)) PROVE \E f : Joins(f, q, Len(q), S)
<1> DEFINE Missing(n) == ~\E f : Joins(f, q, n, S)
           T == {n \in 0 .. Len(q) : Missing(n)}
<1>1. SUFFICES ASSUME Missing(Len(q)) PROVE FALSE
  OBVIOUS
<1> HIDE DEF Missing
<1>2. T \in SUBSET Nat /\ Len(q) \in T
  BY <1>1
<1>3. \A n : n \in T <=> n \in 0 .. Len(q) /\ Missing(n)
  OBVIOUS
<1> HIDE DEF T
<1>4. PICK n \in T : \A k \in T : n <= k
  BY <1>2, LeastOf
<1>5. n # 0
  <2>1. Joins([i \in 0 .. 0 |-> <<>>], q, 0, S)
    BY DEF Joins
  <2> QED
    BY <1>3, <2>1 DEF Missing
<1>6. n \in 1 .. Len(q) /\ n - 1 \in 0 .. Len(q) /\ ~(n <= n - 1)
  BY <1>3, <1>5
<1>7. ~Missing(n - 1)
  BY <1>3, <1>4, <1>6
<1>8. ~Missing(n)
  BY <1>6, <1>7, JoinsNext DEF Missing
<1> QED
  BY <1>3, <1>8

LEMMA FlattenIs ==
  ASSUME NEW S, NEW q \in Seq(Seq(S)), NEW f, Joins(f, q, Len(q), S)
  PROVE  FlattenSeq(q) = f[Len(q)]
<1>1. CASE Len(q) = 0
  BY <1>1 DEF FlattenSeq, Joins
<1>2. CASE Len(q) # 0
  <2> DEFINE Eq(g) == g = [i \in 1 .. Len(q) |-> IF i = 1 THEN q[i] ELSE g[i - 1] \o q[i]]
             w == CHOOSE g : Eq(g)
             p == [i \in 1 .. Len(q) |-> f[i]]
  <2>0. f[1] = <<>> \o q[1] /\ 1 \in 1 .. Len(q)
    <3>1. 1 \in 1 .. Len(q) /\ 1 - 1 = 0
      BY <1>2
    <3>2. f[1] = f[1 - 1] \o q[1]
      BY <3>1 DEF Joins
    <3> QED
      BY <3>1, <3>2 DEF Joins
  <2>1. FlattenSeq(q) = w[Len(q)]
    BY <1>2 DEF FlattenSeq
  <2>2. Eq(p)
    <3>1. ASSUME NEW i \in 1 .. Len(q)
          PROVE  p[i] = IF i = 1 THEN q[i] ELSE p[i - 1] \o q[i]
      <4>1. CASE i = 1
        <5>1. q[1] \in Seq(S)
          BY <1>2
        <5>2. f[1] = <<>> \o q[1]
          BY <2>0
        <5> QED
          BY <4>1, <5>1, <5>2
      <4>2. CASE i # 1
        <5>1. i - 1 \in 1 .. Len(q)
          BY <4>2
        <5> QED
          BY <4>2, <5>1 DEF Joins
      <4> QED
        BY <4>1, <4>2
    <3> QED
      BY <3>1
  <2> HIDE DEF p
  <2>3. Eq(w)
    BY <2>2
  <2>4. /\ w[1] = q[1]
        /\ \A i \in 2 .. Len(q) : w[i] = w[i - 1] \o q[i]
    <3> HIDE DEF w
    <3>1. \A i \in 1 .. Len(q) : w[i] = IF i = 1 THEN q[i] ELSE w[i - 1] \o q[i]
      BY <2>3
    <3>2. \A i \in 2 .. Len(q) : i \in 1 .. Len(q) /\ i # 1
      OBVIOUS
    <3> QED
      BY <2>0, <3>1, <3>2
  <2> HIDE DEF w
  <2> DEFINE T == {i \in 1 .. Len(q) : w[i] # f[i]}
  <2>5. \A i : i \in T <=> i \in 1 .. Len(q) /\ w[i] # f[i]
    OBVIOUS
  <2>6. T \in SUBSET Nat
    OBVIOUS
  <2> HIDE DEF T
  <2>7. CASE T = {}
    <3>1. Len(q) \in 1 .. Len(q)
      BY <1>2
    <3> QED
      BY <2>1, <2>5, <2>7, <3>1
  <2>8. CASE T # {}
    <3>1. PICK n \in T : \A k \in T : n <= k
      BY <2>6, <2>8, LeastOf
    <3>2. n # 1
      <4>1. f[1] = <<>> \o q[1] /\ q[1] \in Seq(S)
        BY <1>2, <2>0
      <4> QED
        BY <2>4, <2>5, <4>1
    <3>3. n \in 2 .. Len(q) /\ n - 1 \in 1 .. Len(q) /\ ~(n <= n - 1)
      BY <2>5, <3>2
    <3>4. w[n - 1] = f[n - 1]
      BY <2>5, <3>1, <3>3
    <3>5. f[n] = f[n - 1] \o q[n]
      <4>1. n \in 1 .. Len(q)
        BY <2>5
      <4> QED
        BY <4>1 DEF Joins
    <3> QED
      BY <2>4, <2>5, <3>3, <3>4, <3>5
  <2> QED
    BY <2>7, <2>8
<1> QED
  BY <1>1, <1>2

LEMMA FlattenMore ==
  ASSUME NEW S, NEW q \in Seq(Seq(S)), NEW x \in Seq(S)
  PROVE  /\ FlattenSeq(q) \in Seq(S)
         /\ FlattenSeq(Append(q, x)) = FlattenSeq(q) \o x
<1> DEFINE n == Len(q)
           r == Append(q, x)
<1>1. n \in Nat /\ r \in Seq(Seq(S)) /\ Len(r) = n + 1 /\ r[n + 1] = x
      /\ \A i \in 1 .. n : r[i] = q[i]
  OBVIOUS
<1>2. PICK f : Joins(f, q, n, S)
  BY JoinsExists
<1> HIDE DEF r
<1> DEFINE g == [i \in 0 .. n + 1 |-> IF i = n + 1 THEN f[n] \o x ELSE f[i]]
<1>3. f[n] \in Seq(S) /\ f[n] \o x \in Seq(S)
  <2>1. f[n] \in Seq(S)
    <3>1. n \in 0 .. n
      BY <1>1
    <3> HIDE DEF n
    <3> QED
      BY <1>2, <3>1 DEF Joins
  <2> QED
    BY <2>1
<1>4. g \in [0 .. n + 1 -> Seq(S)] /\ g[0] = <<>> /\ g[n + 1] = f[n] \o x
  BY <1>1, <1>2, <1>3 DEF Joins
<1>5. ASSUME NEW i \in 1 .. n + 1 PROVE g[i] = g[i - 1] \o r[i]
  <2>1. i \in 0 .. n + 1 /\ i - 1 \in 0 .. n + 1 /\ i - 1 # n + 1 /\ n + 1 - 1 = n
    BY <1>1
  <2>2. g[i - 1] = f[i - 1] /\ g[i] = IF i = n + 1 THEN f[n] \o x ELSE f[i]
    BY <2>1
  <2> HIDE DEF g, n
  <2>3. CASE i = n + 1
    <3>1. i - 1 = n /\ r[i] = x
      BY <1>1, <2>3
    <3> QED
      BY <2>2, <2>3, <3>1
  <2>4. CASE i # n + 1
    <3>1. i \in 1 .. n
      BY <1>1, <2>4
    <3>2. f[i] = f[i - 1] \o q[i]
      BY <1>2, <3>1 DEF Joins
    <3> QED
      BY <1>1, <2>2, <2>4, <3>1, <3>2
  <2> QED
    BY <2>3, <2>4
<1> HIDE DEF g, n
<1>6. Joins(g, r, Len(r), S)
  BY <1>1, <1>4, <1>5 DEF Joins
<1>7. FlattenSeq(r) = g[n + 1]
  BY <1>1, <1>6, FlattenIs
<1>8. FlattenSeq(q) = f[n]
  BY <1>2, FlattenIs DEF n
<1> QED
  BY <1>3, <1>4, <1>7, <1>8 DEF r

\* s is how t begins.
StartsWith(s, t) == Len(s) <= Len(t) /\ \A i \in 1 .. Len(s) : s[i] = t[i]

LEMMA StartsPrefix ==
  ASSUME NEW S, NEW s \in Seq(S), NEW t \in Seq(S), StartsWith(s, t) PROVE IsPrefix(s, t)
<1>1. SubSeq(s, 1, Len(s)) = s
  OBVIOUS
<1>2. SubSeq(t, 1, Len(s)) = s
  <2>1. /\ SubSeq(t, 1, Len(s)) \in Seq(S) /\ Len(SubSeq(t, 1, Len(s))) = Len(s)
        /\ \A i \in 1 .. Len(s) : SubSeq(t, 1, Len(s))[i] = t[i]
    BY DEF StartsWith
  <2> QED
    BY <2>1 DEF StartsWith
<1> QED
  BY <1>1, <1>2 DEF StartsWith, IsPrefix

LEMMA JoinsStart ==
  ASSUME NEW S, NEW q \in Seq(Seq(S)), NEW f, Joins(f, q, Len(q), S),
         NEW a \in 0 .. Len(q)
  PROVE  StartsWith(f[a], f[Len(q)])
<1> DEFINE T == {n \in 0 .. Len(q) : a <= n /\ ~StartsWith(f[a], f[n])}
<1>1. \A n : n \in T <=> n \in 0 .. Len(q) /\ a <= n /\ ~StartsWith(f[a], f[n])
  OBVIOUS
<1>2. T \in SUBSET Nat
  OBVIOUS
<1> HIDE DEF T
<1>3. CASE T = {}
  <2>1. Len(q) \in 0 .. Len(q) /\ a <= Len(q)
    OBVIOUS
  <2> QED
    BY <1>1, <1>3, <2>1
<1>4. CASE T # {}
  <2>1. PICK n \in T : \A k \in T : n <= k
    BY <1>2, <1>4, LeastOf
  <2>2. f[a] \in Seq(S)
    BY DEF Joins
  <2>3. StartsWith(f[a], f[a])
    BY <2>2 DEF StartsWith
  <2>4. n # a
    BY <1>1, <2>3
  <2>5. n \in 1 .. Len(q) /\ n - 1 \in 0 .. Len(q) /\ ~(n <= n - 1) /\ a <= n - 1
    BY <1>1, <2>4
  <2>6. StartsWith(f[a], f[n - 1])
    BY <1>1, <2>1, <2>5
  <2>7. f[n] = f[n - 1] \o q[n] /\ f[n - 1] \in Seq(S) /\ q[n] \in Seq(S)
    <3>1. q[n] \in Seq(S)
      BY <2>5
    <3>2. f[n] = f[n - 1] \o q[n] /\ f[n - 1] \in Seq(S)
      BY <2>5 DEF Joins
    <3> QED
      BY <3>1, <3>2
  <2>8. StartsWith(f[a], f[n])
    <3> DEFINE u == f[n - 1]
               v == q[n]
    <3>1. u \in Seq(S) /\ v \in Seq(S) /\ StartsWith(f[a], u) /\ f[n] = u \o v
      BY <2>6, <2>7
    <3> HIDE DEF u, v
    <3>2. Len(u \o v) = Len(u) + Len(v) /\ \A i \in 1 .. Len(u) : (u \o v)[i] = u[i]
      BY <3>1
    <3>3. Len(u) \in Nat /\ Len(v) \in Nat /\ Len(f[a]) \in Nat
      BY <2>2, <3>1
    <3>4. StartsWith(f[a], u \o v)
      BY <3>1, <3>2, <3>3 DEF StartsWith
    <3> QED
      BY <3>1, <3>4
  <2> QED
    BY <1>1, <2>8
<1> QED
  BY <1>3, <1>4

LEMMA FlattenPrefix ==
  ASSUME NEW S, NEW q \in Seq(Seq(S)), NEW p \in Seq(Seq(S)), StartsWith(p, q)
  PROVE  IsPrefix(FlattenSeq(p), FlattenSeq(q))
<1>1. PICK f : Joins(f, q, Len(q), S)
  BY JoinsExists
<1> DEFINE a == Len(p)
           g == [i \in 0 .. a |-> f[i]]
<1>2. a \in 0 .. Len(q) /\ \A i \in 1 .. a : p[i] = q[i]
  BY DEF StartsWith
<1>3. Joins(g, p, a, S)
  <2>1. g \in [0 .. a -> Seq(S)] /\ g[0] = <<>>
    BY <1>1, <1>2 DEF Joins
  <2>2. ASSUME NEW i \in 1 .. a PROVE g[i] = g[i - 1] \o p[i]
    <3>1. i \in 0 .. a /\ i - 1 \in 0 .. a /\ i \in 1 .. Len(q)
      BY <1>2
    <3>2. f[i] = f[i - 1] \o q[i]
      BY <1>1, <3>1 DEF Joins
    <3> QED
      BY <1>2, <3>1, <3>2
  <2> HIDE DEF g
  <2> QED
    BY <2>1, <2>2 DEF Joins
<1>4. g[a] = f[a] /\ f[a] \in Seq(S) /\ f[Len(q)] \in Seq(S)
  <2>1. a \in 0 .. a /\ Len(q) \in 0 .. Len(q)
    BY <1>2
  <2> QED
    BY <1>1, <1>2, <2>1 DEF Joins
<1> HIDE DEF g
<1>5. FlattenSeq(p) = f[a] /\ FlattenSeq(q) = f[Len(q)]
  BY <1>1, <1>3, <1>4, FlattenIs
<1>6. StartsWith(f[a], f[Len(q)])
  BY <1>1, <1>2, JoinsStart
<1> QED
  BY <1>4, <1>5, <1>6, StartsPrefix

-----------------------------------------------------------------------------
(* What the room hears. *)

Tag == [type : {"audio", "video"}, ts : Int, body : Seq(Nat \X Nat) \cup (Nat \X Nat)]

\* A timestamp's distance from another.
LEMMA DeltaInt ==
  ASSUME NEW a \in Int PROVE a % Wrap \in Int
<1>1. Wrap \in Nat \ {0}
  BY ChunkAssumption DEF Uint
<1> QED
  BY <1>1

\* The tags of an aggregate of these parts.
Parts(id, ts, subs) ==
    FlattenSeq([j \in 1 .. Len(subs) |->
        IF subs[j].type \in {"audio", "video"}
        THEN <<[type |-> subs[j].type, ts |-> (ts + subs[j].ts - subs[1].ts) % Wrap,
                body |-> <<id, j>>]>>
        ELSE <<>>])

LEMMA TagsAre ==
  ASSUME NEW m PROVE Tags(m) = Parts(m.payload[1].id, m.ts, sent[m.payload[1].id].val)
BY DEF Tags, Parts, Value

LEMMA MeaningIs ==
  ASSUME NEW id
  PROVE  Meaning(id) =
           CASE sent[id].type \in {"audio", "video"} ->
                  <<[type |-> sent[id].type, ts |-> sent[id].ts,
                     body |-> [i \in 1 .. sent[id].len |-> <<id, i>>]]>>
             [] sent[id].type = "aggregate" -> Parts(id, sent[id].ts, sent[id].val)
             [] OTHER -> <<>>
<1> DEFINE m == [ts |-> sent[id].ts, payload |-> <<[id |-> id, i |-> 1]>>]
<1>1. m.payload[1].id = id /\ m.ts = sent[id].ts
  OBVIOUS
<1>2. Tags(m) = Parts(id, sent[id].ts, sent[id].val)
  <2> HIDE DEF m
  <2> QED
    BY <1>1, TagsAre
<1> QED
  BY <1>2 DEF Meaning

LEMMA PartsType ==
  ASSUME NEW id \in Nat, NEW ts \in Int, NEW subs \in Seq(SubMessage)
  PROVE  Parts(id, ts, subs) \in Seq(Tag)
<1> DEFINE part(j) == IF subs[j].type \in {"audio", "video"}
                      THEN <<[type |-> subs[j].type, ts |-> (ts + subs[j].ts - subs[1].ts) % Wrap,
                              body |-> <<id, j>>]>>
                      ELSE <<>>
           q == [j \in 1 .. Len(subs) |-> part(j)]
<1>1. ASSUME NEW j \in 1 .. Len(subs) PROVE part(j) \in Seq(Tag)
  <2>1. subs[j].ts \in Int /\ subs[1].ts \in Int /\ j \in Nat
    <3>1. 1 \in 1 .. Len(subs)
      OBVIOUS
    <3>2. subs[1] \in SubMessage /\ subs[j] \in SubMessage
      BY <3>1
    <3> QED
      BY <3>2 DEF SubMessage, Uint
  <2>2. ts + subs[j].ts - subs[1].ts \in Int
    BY <2>1
  <2>3. (ts + subs[j].ts - subs[1].ts) % Wrap \in Int
    BY <2>2, DeltaInt
  <2>4. <<id, j>> \in Nat \X Nat
    BY <2>1
  <2> DEFINE time == (ts + subs[j].ts - subs[1].ts) % Wrap
             body == <<id, j>>
             one == [type |-> subs[j].type, ts |-> time, body |-> body]
  <2>5. part(j) = IF subs[j].type \in {"audio", "video"} THEN <<one>> ELSE <<>>
    OBVIOUS
  <2>6. time \in Int /\ body \in Nat \X Nat
    BY <2>3, <2>4
  <2> HIDE DEF part, time, body
  <2>7. subs[j].type \in {"audio", "video"} => one \in Tag
    BY <2>6 DEF Tag
  <2> HIDE DEF one
  <2> QED
    BY <2>5, <2>7
<1> HIDE DEF part
<1>2. q \in Seq(Seq(Tag))
  BY <1>1
<1>3. FlattenSeq(q) \in Seq(Tag)
  <2> HIDE DEF q
  <2>1. <<>> \in Seq(Tag)
    OBVIOUS
  <2> QED
    BY <1>2, <2>1, FlattenMore
<1> QED
  BY <1>3 DEF Parts, part

LEMMA MeaningType ==
  ASSUME EncoderTypes, NEW id \in 1 .. Len(sent) PROVE Meaning(id) \in Seq(Tag)
<1> DEFINE m == sent[id]
<1>1. m \in Message /\ ValueFits(m) /\ id \in Nat
  BY DEF EncoderTypes
<1> HIDE DEF m
<1>2. CASE m.type \in {"audio", "video"}
  <2> DEFINE body == [i \in 1 .. m.len |-> <<id, i>>]
  <2>1. m.len \in Nat /\ m.ts \in Int
    BY <1>1 DEF Message, Uint
  <2>2. body \in Seq(Nat \X Nat)
    BY <1>1, <2>1
  <2> HIDE DEF body
  <2>3. <<[type |-> m.type, ts |-> m.ts, body |-> body]>> \in Seq(Tag)
    BY <1>2, <2>1, <2>2 DEF Tag
  <2> QED
    BY <1>2, <2>3, MeaningIs DEF m, body
<1>3. CASE m.type = "aggregate"
  <2>1. m.val \in Seq(SubMessage) /\ m.ts \in Int
    BY <1>1, <1>3 DEF ValueFits, Message, Uint
  <2>2. Parts(id, m.ts, m.val) \in Seq(Tag)
    BY <1>1, <2>1, PartsType
  <2> QED
    BY <1>3, <2>2, MeaningIs DEF m
<1>4. CASE m.type \notin {"audio", "video", "aggregate"}
  <2>1. Meaning(id) = <<>>
    BY <1>4, MeaningIs DEF m
  <2> QED
    BY <2>1
<1> QED
  BY <1>2, <1>3, <1>4

\* One message more.
LEMMA ToldMore ==
  ASSUME EncoderTypes, NEW n \in 1 .. Len(sent)
  PROVE  Told(n) = Told(n - 1) \o Meaning(n)
<1> DEFINE q == [k \in 1 .. n - 1 |-> Meaning(k)]
           p == [k \in 1 .. n |-> Meaning(k)]
<1>1. Len(sent) \in Nat
  BY DEF EncoderTypes
<1>2. \A k \in 1 .. n : Meaning(k) \in Seq(Tag)
  BY <1>1, MeaningType
<1>3. q \in Seq(Seq(Tag)) /\ Len(q) = n - 1 /\ Meaning(n) \in Seq(Tag)
  BY <1>1, <1>2
<1>4. p = Append(q, Meaning(n))
  <2>1. /\ p \in Seq(Seq(Tag)) /\ Len(p) = n
        /\ \A k \in 1 .. n : p[k] = Meaning(k)
    BY <1>1, <1>2
  <2>2. /\ Append(q, Meaning(n)) \in Seq(Seq(Tag)) /\ Len(Append(q, Meaning(n))) = n
        /\ \A k \in 1 .. n : Append(q, Meaning(n))[k] = Meaning(k)
    BY <1>1, <1>3
  <2> HIDE DEF p, q
  <2> QED
    BY <2>1, <2>2
<1> HIDE DEF p, q
<1>5. FlattenSeq(p) = FlattenSeq(q) \o Meaning(n)
  BY <1>3, <1>4, FlattenMore
<1> QED
  BY <1>5 DEF Told, p, q

\* What was told is how it goes on.
LEMMA ToldPrefix ==
  ASSUME EncoderTypes, NEW n \in 0 .. Len(sent), NEW k \in 0 .. n
  PROVE  IsPrefix(Told(k), Told(n))
<1> DEFINE p == [j \in 1 .. k |-> Meaning(j)]
           q == [j \in 1 .. n |-> Meaning(j)]
<1>1. Len(sent) \in Nat
  BY DEF EncoderTypes
<1>2. \A j \in 1 .. n : Meaning(j) \in Seq(Tag)
  BY <1>1, MeaningType
<1>3. p \in Seq(Seq(Tag)) /\ q \in Seq(Seq(Tag)) /\ Len(p) = k /\ Len(q) = n
  BY <1>1, <1>2
<1>4. StartsWith(p, q)
  BY <1>1, <1>3 DEF StartsWith
<1> HIDE DEF p, q
<1>5. IsPrefix(FlattenSeq(p), FlattenSeq(q))
  BY <1>3, <1>4, FlattenPrefix
<1> QED
  BY <1>5 DEF Told, p, q

\* More messages change nothing of what the first mean.
LEMMA ToldKept ==
  ASSUME Knows(sent', sent), sent \in Seq(Message), NEW n \in 0 .. Len(sent)
  PROVE  Told(n)' = Told(n)
<1>1. ASSUME NEW k \in 1 .. n PROVE Meaning(k)' = Meaning(k)
  <2>1. sent'[k] = sent[k]
    BY DEF Knows
  <2>2. <<[id |-> k, i |-> 1]>>[1].id = k
    OBVIOUS
  <2> QED
    BY <2>1, <2>2 DEF Meaning, Tags, Value
<1>2. [k \in 1 .. n |-> Meaning(k)'] = [k \in 1 .. n |-> Meaning(k)]
  BY <1>1
<1> QED
  BY <1>2 DEF Told

-----------------------------------------------------------------------------
(* Chunks and traces. *)

LEMMA SmallestIs ==
  ASSUME NEW S \in SUBSET Int, NEW x \in S, \A y \in S : x <= y PROVE Smallest(S) = x
<1>1. \A z \in S : (\A y \in S : z <= y) => z = x
  OBVIOUS
<1> QED
  BY <1>1 DEF Smallest

\* A chunk has a unit at least.
LEMMA CutType ==
  ASSUME NEW s \in State, NEW m \in Message, s.got < m.len
  PROVE  /\ Cut(s, m) \in Nat \ {0}
         /\ s.got + Cut(s, m) <= m.len
BY DEF State, Message, Cut

LEMMA LeadsType ==
  ASSUME NEW s \in State, NEW m \in Message, ValueFits(m), s.got < m.len,
         NEW c \in AllCs, NEW ext \in BOOLEAN, NEW delta \in Int
  PROVE  \E t \in State : Leads(s, m, c, ext, delta, t)
<1>1. Cut(s, m) \in Nat
  BY CutType
<1>2. [s.prev EXCEPT ![c] = [type |-> m.type, len |-> m.len, ext |-> ext,
                             ts |-> m.ts, delta |-> delta]]
        \in [AllCs -> Summary]
  BY DEF State, Message, Summary
<1>3. s.id \in Nat /\ s.got \in Nat /\ s.size \in Nat \ {0} /\ s.has \in SUBSET AllCs
  BY DEF State
<1>4. CASE s.got + Cut(s, m) < m.len
  <2> DEFINE t == [id |-> s.id, got |-> s.got + Cut(s, m), size |-> s.size,
                   has |-> s.has \cup {c},
                   prev |-> [s.prev EXCEPT ![c] =
                               [type |-> m.type, len |-> m.len, ext |-> ext,
                                ts |-> m.ts, delta |-> delta]]]
  <2>1. t \in State
    BY <1>1, <1>2, <1>3 DEF State
  <2>2. Leads(s, m, c, ext, delta, t)
    BY <1>4 DEF Leads
  <2> QED
    BY <2>1, <2>2
<1>5. CASE ~(s.got + Cut(s, m) < m.len)
  <2> DEFINE size == IF m.type = "setChunkSize" THEN m.val ELSE s.size
             t == [id |-> s.id + 1, got |-> 0, size |-> size,
                   has |-> (s.has \cup {c}) \ (IF m.type = "abort" THEN {m.val} ELSE {}),
                   prev |-> [s.prev EXCEPT ![c] =
                               [type |-> m.type, len |-> m.len, ext |-> ext,
                                ts |-> m.ts, delta |-> delta]]]
  <2>1. size \in Nat \ {0}
    BY <1>3 DEF ValueFits
  <2>2. t \in State
    BY <1>2, <1>3, <2>1 DEF State
  <2>3. Leads(s, m, c, ext, delta, t)
    BY <1>5 DEF Leads
  <2> QED
    BY <2>2, <2>3
<1> QED
  BY <1>4, <1>5

LEMMA ExtType ==
  ASSUME NEW s \in State, NEW hd, hd.cs \in AllCs
  PROVE  Ext(s, hd) \in BOOLEAN /\ Heads(s, hd) \in {1, 2}
BY DEF Ext, Heads, State, Summary

\* A chunk stays one when more is written behind it.
LEMMA ChunkGrows ==
  ASSUME NEW w \in Seq(Token), NEW more \in Seq(Token),
         NEW msgs \in Seq(Message), NEW msgs2,
         Len(msgs2) \in Nat, Len(msgs) <= Len(msgs2),
         \A i \in 1 .. Len(msgs) : msgs2[i] = msgs[i],
         NEW s \in State, NEW t, NEW p \in 1 .. Len(w), NEW q \in Int, q <= Len(w) + 1,
         Chunk(w, msgs, s, t, p, q)
  PROVE  Chunk(w \o more, msgs2, s, t, p, q)
<1>1. \A i \in 1 .. Len(w) : (w \o more)[i] = w[i]
  OBVIOUS
<1> DEFINE hd == w[p]
           m == msgs[s.id]
<1>2. s.id \in 1 .. Len(msgs) /\ s.id \in 1 .. Len(msgs2) /\ msgs2[s.id] = m /\ m \in Message
  BY DEF Chunk
<1>3. (w \o more)[p] = hd /\ hd.cs \in AllCs /\ s.got < m.len
  BY <1>1 DEF Chunk
<1>4. Cut(s, m) \in Nat \ {0} /\ Heads(s, hd) \in {1, 2} /\ Ext(s, hd) \in BOOLEAN
  BY <1>2, <1>3, CutType, ExtType
<1>5. q = p + Heads(s, hd) + Cut(s, m)
  BY DEF Chunk
<1>6. Ext(s, hd) => (w \o more)[p + 1] = w[p + 1]
  <2>1. SUFFICES ASSUME Ext(s, hd) PROVE p + 1 \in 1 .. Len(w)
    BY <1>1
  <2> QED
    BY <1>4, <1>5, <2>1 DEF Heads
<1>8. Carried(w \o more, p, Ext(s, hd)) = Carried(w, p, Ext(s, hd))
  BY <1>3, <1>6 DEF Carried
<1>7. ASSUME NEW i \in 1 .. Cut(s, m)
      PROVE  (w \o more)[p + Heads(s, hd) + i - 1] = Payload(s.id, s.got + i)
  <2>1. p + Heads(s, hd) + i - 1 \in 1 .. Len(w)
    BY <1>4, <1>5
  <2>2. w[p + Heads(s, hd) + i - 1] = Payload(s.id, s.got + i)
    BY DEF Chunk
  <2> QED
    BY <1>1, <2>1, <2>2
<1> QED
  BY <1>2, <1>3, <1>5, <1>6, <1>7, <1>8 DEF Chunk

\* A chunk stays one when what is before it has been read.
LEMMA ChunkShifts ==
  ASSUME NEW w \in Seq(Token), NEW msgs \in Seq(Message),
         NEW from \in 1 .. Len(w) + 1,
         NEW s \in State, NEW t, NEW p \in from .. Len(w), NEW q \in Int, q <= Len(w) + 1,
         Chunk(w, msgs, s, t, p, q)
  PROVE  Chunk(SubSeq(w, from, Len(w)), msgs, s, t, p - from + 1, q - from + 1)
<1> DEFINE v == SubSeq(w, from, Len(w))
           o == p - from + 1
           hd == w[p]
           m == msgs[s.id]
<1>1. \A i \in from .. Len(w) : v[i - from + 1] = w[i]
  OBVIOUS
<1>2. s.id \in 1 .. Len(msgs) /\ m \in Message /\ s.got < m.len /\ hd.cs \in AllCs
  BY DEF Chunk
<1>3. v[o] = hd
  BY <1>1
<1>4. Cut(s, m) \in Nat \ {0} /\ Heads(s, hd) \in {1, 2} /\ Ext(s, hd) \in BOOLEAN
  BY <1>2, CutType, ExtType
<1>5. q = p + Heads(s, hd) + Cut(s, m)
  BY DEF Chunk
<1> DEFINE units == Cut(s, m)
           heads == Heads(s, hd)
<1>a. /\ units \in Nat \ {0} /\ heads \in {1, 2} /\ q = p + heads + units
      /\ p \in Int /\ q \in Int /\ from \in Int /\ from <= p /\ q <= Len(w) + 1 /\ Len(w) \in Nat
  BY <1>4, <1>5
<1> HIDE DEF v, o, units, heads
<1>6. Ext(s, hd) => v[o + 1] = w[p + 1]
  <2>1. SUFFICES ASSUME Ext(s, hd) PROVE v[o + 1] = w[p + 1]
    OBVIOUS
  <2>2. p + 1 \in from .. Len(w) /\ o + 1 = (p + 1) - from + 1
    BY <1>4, <1>5, <2>1 DEF Heads, o
  <2> QED
    BY <1>1, <2>2
<1>7. ASSUME NEW i \in 1 .. Cut(s, m)
      PROVE  v[o + Heads(s, hd) + i - 1] = Payload(s.id, s.got + i)
  <2> DEFINE x == p + Heads(s, hd) + i - 1
  <2>1. x \in from .. Len(w) /\ o + Heads(s, hd) + i - 1 = x - from + 1
    <3>1. x = p + heads + i - 1 /\ i \in 1 .. units
      BY DEF heads, units
    <3>2. x \in from .. Len(w) /\ o + heads + i - 1 = x - from + 1
      BY <1>a, <3>1 DEF o
    <3> QED
      BY <3>2 DEF heads
  <2>2. w[x] = Payload(s.id, s.got + i)
    BY DEF Chunk
  <2> HIDE DEF x
  <2> QED
    BY <1>1, <2>1, <2>2
<1>8. q - from + 1 = o + Heads(s, hd) + Cut(s, m)
  <2>1. q - from + 1 = o + heads + units
    BY <1>a DEF o
  <2> QED
    BY <2>1 DEF heads, units
<1>9. Carried(v, o, Ext(s, hd)) = Carried(w, p, Ext(s, hd))
  BY <1>3, <1>6 DEF Carried
<1>10. Chunk(v, msgs, s, t, o, q - from + 1)
  BY <1>2, <1>3, <1>6, <1>7, <1>8, <1>9 DEF Chunk
<1> QED
  BY <1>10 DEF v, o

\* Messages come in order.
LEMMA ChunkAscends ==
  ASSUME NEW w, NEW msgs, NEW s \in State, NEW t \in State, NEW p, NEW q,
         Chunk(w, msgs, s, t, p, q)
  PROVE  t.id \in {s.id, s.id + 1} /\ s.id <= t.id /\ s.id \in 1 .. Len(msgs)
<1>1. s.id \in Nat /\ t.id \in Nat
  BY DEF State
<1>2. t.id = s.id \/ t.id = s.id + 1
  BY DEF Chunk, Leads
<1> QED
  BY <1>1, <1>2 DEF Chunk

LEMMA RunExtends ==
  ASSUME NEW w \in Seq(Token), NEW more \in Seq(Token),
         NEW msgs \in Seq(Message), NEW msgs2, Knows(msgs2, msgs),
         NEW r, NEW s, Run(w, msgs, r, s), more # <<>>,
         NEW t \in State,
         Chunk(w \o more, msgs2, s, t, Len(w) + 1, Len(w) + Len(more) + 1)
  PROVE  Run(w \o more, msgs2, r, t)
<1>a. PICK n, B, St : Trace(w, msgs, n, B, St) /\ St[1] = r /\ St[n + 1] = s
  BY DEF Run
<1>b. /\ Len(msgs2) \in Nat /\ Len(msgs) <= Len(msgs2)
      /\ \A i \in 1 .. Len(msgs) : msgs2[i] = msgs[i]
  BY DEF Knows
<1> DEFINE k == n + 1
           B2 == [j \in 1 .. k + 1 |-> IF j = k + 1 THEN Len(w) + Len(more) + 1 ELSE B[j]]
           St2 == [j \in 1 .. k + 1 |-> IF j = k + 1 THEN t ELSE St[j]]
<1>1. /\ n \in Nat /\ k \in Nat /\ k = n + 1
      /\ B \in [1 .. k -> Int] /\ St \in [1 .. k -> State]
      /\ B[1] = 1 /\ B[k] = Len(w) + 1
      /\ \A i, j \in 1 .. k : i < j => B[i] < B[j]
      /\ \A i, j \in 1 .. k : i < j => St[i].id <= St[j].id
      /\ \A j \in 1 .. n : Chunk(w, msgs, St[j], St[j + 1], B[j], B[j + 1])
      /\ St[1] = r /\ St[k] = s
  BY <1>a DEF Trace
<1>2. Len(w \o more) = Len(w) + Len(more) /\ Len(w) \in Nat /\ Len(more) \in Nat \ {0}
  OBVIOUS
<1> HIDE DEF k
<1>3. /\ B2 \in [1 .. k + 1 -> Int] /\ St2 \in [1 .. k + 1 -> State]
      /\ B2[1] = 1 /\ B2[k + 1] = Len(w \o more) + 1
      /\ St2[1] = r /\ St2[k + 1] = t /\ St2[k] = s /\ B2[k] = Len(w) + 1
      /\ \A j \in 1 .. k : B2[j] = B[j] /\ St2[j] = St[j]
  BY <1>1, <1>2
<1> HIDE DEF B2, St2
<1>4. ASSUME NEW i \in 1 .. k + 1, NEW j \in 1 .. k + 1, i < j PROVE B2[i] < B2[j]
  <2>1. i \in 1 .. k
    BY <1>1, <1>4
  <2>2. B[i] <= Len(w) + 1
    <3>1. CASE i = k
      BY <1>1, <3>1
    <3>2. CASE i # k
      <4>1. i < k /\ k \in 1 .. k
        BY <1>1, <2>1, <3>2
      <4> QED
        BY <1>1, <1>2, <2>1, <4>1
    <3> QED
      BY <3>1, <3>2
  <2>3. CASE j = k + 1
    BY <1>1, <1>2, <1>3, <2>1, <2>2, <2>3
  <2>4. CASE j # k + 1
    BY <1>1, <1>3, <1>4, <2>1, <2>4
  <2> QED
    BY <2>3, <2>4
<1>7. ASSUME NEW i \in 1 .. k + 1, NEW j \in 1 .. k + 1, i < j
      PROVE  St2[i].id <= St2[j].id
  <2>1. i \in 1 .. k
    BY <1>1, <1>7
  <2>2. St[i].id <= s.id
    <3>1. CASE i = k
      BY <1>1, <3>1 DEF State
    <3>2. CASE i # k
      <4>1. i < k /\ k \in 1 .. k
        BY <1>1, <2>1, <3>2
      <4> QED
        BY <1>1, <2>1, <4>1
    <3> QED
      BY <3>1, <3>2
  <2>3. CASE j = k + 1
    <3>1. s \in State
      BY <1>1
    <3>2. s.id <= t.id
      BY <3>1, ChunkAscends
    <3>3. St[i].id \in Nat /\ s.id \in Nat /\ t.id \in Nat
      BY <1>1, <2>1, <3>1 DEF State
    <3> QED
      BY <1>3, <2>1, <2>2, <2>3, <3>2, <3>3
  <2>4. CASE j # k + 1
    <3>1. j \in 1 .. k
      BY <1>1, <2>4
    <3> QED
      BY <1>1, <1>3, <1>7, <2>1, <3>1
  <2> QED
    BY <2>3, <2>4
<1>5. ASSUME NEW j \in 1 .. k
      PROVE  Chunk(w \o more, msgs2, St2[j], St2[j + 1], B2[j], B2[j + 1])
  <2>1. CASE j = k
    BY <1>1, <1>2, <1>3, <2>1
  <2>2. CASE j # k
    <3>1. j \in 1 .. n /\ j + 1 \in 1 .. k /\ 1 \in 1 .. k
      BY <1>1, <2>2
    <3>2. Chunk(w, msgs, St[j], St[j + 1], B[j], B[j + 1])
      BY <1>1, <3>1
    <3>3. B[j] \in 1 .. Len(w)
      <4>1. B[j] >= 1
        <5>1. CASE j = 1
          BY <1>1, <5>1
        <5>2. CASE j # 1
          <6>1. 1 < j
            BY <3>1, <5>2
          <6> QED
            BY <1>1, <3>1, <6>1
        <5> QED
          BY <5>1, <5>2
      <4>2. B[j] < Len(w) + 1
        BY <1>1, <3>1
      <4> QED
        BY <1>1, <1>2, <3>1, <4>1, <4>2
    <3>4. B[j + 1] \in Int /\ B[j + 1] <= Len(w) + 1
      <4>1. CASE j + 1 = k
        BY <1>1, <1>2, <4>1
      <4>2. CASE j + 1 # k
        <5>1. j + 1 < k /\ k \in 1 .. k
          BY <1>1, <3>1, <4>2
        <5> QED
          BY <1>1, <1>2, <3>1, <5>1
      <4> QED
        BY <4>1, <4>2
    <3>5. St[j] \in State
      BY <1>1
    <3>6. Chunk(w \o more, msgs2, St[j], St[j + 1], B[j], B[j + 1])
      BY <1>b, <3>2, <3>3, <3>4, <3>5, ChunkGrows
    <3> QED
      BY <1>3, <3>1, <3>6
  <2> QED
    BY <2>1, <2>2
<1>6. Trace(w \o more, msgs2, k, B2, St2)
  BY <1>1, <1>3, <1>4, <1>5, <1>7 DEF Trace
<1> QED
  BY <1>3, <1>6 DEF Run

LEMMA RunDrops ==
  ASSUME NEW w \in Seq(Token), NEW msgs \in Seq(Message),
         NEW r \in State, NEW s, Run(w, msgs, r, s), w # <<>>
  PROVE  \E t \in State, q \in 2 .. Len(w) + 1 :
            Chunk(w, msgs, r, t, 1, q) /\ Run(SubSeq(w, q, Len(w)), msgs, t, s)
<1>a. PICK n, B, St : Trace(w, msgs, n, B, St) /\ St[1] = r /\ St[n + 1] = s
  BY DEF Run
<1> DEFINE k == n - 1
           from == B[2]
           v == SubSeq(w, from, Len(w))
           B2 == [j \in 1 .. k + 1 |-> B[j + 1] - from + 1]
           St2 == [j \in 1 .. k + 1 |-> St[j + 1]]
<1>1. /\ n \in Nat /\ k \in Nat /\ k + 1 = n
      /\ B \in [1 .. n + 1 -> Int] /\ St \in [1 .. n + 1 -> State]
      /\ B[1] = 1 /\ B[n + 1] = Len(w) + 1
      /\ \A i, j \in 1 .. n + 1 : i < j => B[i] < B[j]
      /\ \A i, j \in 1 .. n + 1 : i < j => St[i].id <= St[j].id
      /\ \A j \in 1 .. n : Chunk(w, msgs, St[j], St[j + 1], B[j], B[j + 1])
  <2>1. n # 0
    <3>1. n = 0 => Len(w) + 1 = 1
      BY <1>a DEF Trace
    <3> QED
      BY <3>1
  <2> QED
    BY <1>a, <2>1 DEF Trace
<1>2. from \in 2 .. Len(w) + 1 /\ Len(w) \in Nat
  <2>1. 1 \in 1 .. n + 1 /\ 2 \in 1 .. n + 1 /\ n + 1 \in 1 .. n + 1
    BY <1>1
  <2>2. B[2] \in Int /\ B[1] < B[2]
    BY <1>1, <2>1
  <2>3. B[2] <= B[n + 1]
    <3>1. CASE n = 1
      BY <1>1, <2>2, <3>1
    <3>2. CASE n # 1
      <4>1. 2 < n + 1
        BY <1>1, <3>2
      <4> QED
        BY <1>1, <2>1, <4>1
    <3> QED
      BY <3>1, <3>2
  <2> QED
    BY <1>1, <2>2, <2>3
<1>3. v \in Seq(Token) /\ Len(v) = Len(w) - from + 1
  BY <1>2
<1> HIDE DEF k, from, v
<1>4. /\ B2 \in [1 .. k + 1 -> Int] /\ St2 \in [1 .. k + 1 -> State]
      /\ \A j \in 1 .. k + 1 : B2[j] = B[j + 1] - from + 1 /\ St2[j] = St[j + 1]
                               /\ j + 1 \in 1 .. n + 1
  BY <1>1, <1>2
<1> HIDE DEF B2, St2
<1>5. B2[1] = 1 /\ B2[k + 1] = Len(v) + 1 /\ St2[1] = St[2] /\ St2[k + 1] = St[n + 1]
  <2>1. 1 \in 1 .. k + 1 /\ k + 1 \in 1 .. k + 1
    BY <1>1
  <2>2. B2[1] = from - from + 1
    BY <1>4, <2>1 DEF from
  <2>3. B2[k + 1] = Len(w) + 1 - from + 1 /\ St2[k + 1] = St[n + 1]
    <3>1. (k + 1) + 1 = n + 1
      BY <1>1
    <3>2. B2[k + 1] = B[(k + 1) + 1] - from + 1 /\ St2[k + 1] = St[(k + 1) + 1]
      BY <1>4, <2>1
    <3>3. B[(k + 1) + 1] = Len(w) + 1 /\ St[(k + 1) + 1] = St[n + 1]
      BY <1>1, <3>1
    <3> QED
      BY <1>2, <3>2, <3>3
  <2> QED
    BY <1>2, <1>3, <1>4, <2>1, <2>2, <2>3
<1>6. ASSUME NEW i \in 1 .. k + 1, NEW j \in 1 .. k + 1, i < j PROVE B2[i] < B2[j]
  <2>1. B[i + 1] < B[j + 1]
    BY <1>1, <1>4, <1>6
  <2>2. B[i + 1] \in Int /\ B[j + 1] \in Int
    BY <1>1, <1>4
  <2> QED
    BY <1>2, <1>4, <2>1, <2>2
<1>11. ASSUME NEW i \in 1 .. k + 1, NEW j \in 1 .. k + 1, i < j PROVE St2[i].id <= St2[j].id
  <2>1. i + 1 \in 1 .. n + 1 /\ j + 1 \in 1 .. n + 1 /\ i + 1 < j + 1
    BY <1>4, <1>11
  <2>2. St[i + 1].id <= St[j + 1].id
    BY <1>1, <2>1
  <2> QED
    BY <1>4, <2>2
<1>7. ASSUME NEW j \in 1 .. k
      PROVE  Chunk(v, msgs, St2[j], St2[j + 1], B2[j], B2[j + 1])
  <2>1. j \in 1 .. k + 1 /\ j + 1 \in 1 .. k + 1 /\ j + 1 \in 1 .. n /\ j + 1 \in Nat
        /\ j + 1 \in 1 .. n + 1 /\ j + 2 \in 1 .. n + 1 /\ n + 1 \in 1 .. n + 1 /\ 2 \in 1 .. n + 1
    BY <1>1
  <2>2. Chunk(w, msgs, St[j + 1], St[j + 2], B[j + 1], B[j + 2])
    BY <1>1, <2>1
  <2>3. B[j + 1] \in from .. Len(w)
    <3>1. B[j + 1] >= from /\ B[j + 1] \in Int
      <4>1. CASE j = 1
        BY <1>1, <1>2, <2>1, <4>1 DEF from
      <4>2. CASE j # 1
        <5>1. 2 < j + 1
          BY <1>1, <4>2
        <5> QED
          BY <1>1, <1>2, <2>1, <5>1 DEF from
      <4> QED
        BY <4>1, <4>2
    <3>2. B[j + 1] < Len(w) + 1
      <4>1. j + 1 < n + 1
        BY <1>1
      <4> QED
        BY <1>1, <2>1, <4>1
    <3> QED
      BY <1>2, <3>1, <3>2
  <2>4. B[j + 2] \in Int /\ B[j + 2] <= Len(w) + 1
    <3>1. CASE j + 2 = n + 1
      BY <1>1, <1>2, <3>1
    <3>2. CASE j + 2 # n + 1
      <4>1. j + 2 < n + 1
        BY <1>1, <2>1, <3>2
      <4> QED
        BY <1>1, <1>2, <2>1, <4>1
    <3> QED
      BY <3>1, <3>2
  <2>5. St[j + 1] \in State
    BY <1>1, <2>1
  <2>6. Chunk(v, msgs, St[j + 1], St[j + 2], B[j + 1] - from + 1, B[j + 2] - from + 1)
    BY <1>2, <2>2, <2>3, <2>4, <2>5, ChunkShifts DEF v
  <2>7. /\ B2[j] = B[j + 1] - from + 1 /\ St2[j] = St[j + 1]
        /\ B2[j + 1] = B[j + 2] - from + 1 /\ St2[j + 1] = St[j + 2]
    <3>1. (j + 1) + 1 = j + 2
      OBVIOUS
    <3> QED
      BY <1>4, <2>1, <3>1
  <2> QED
    BY <2>6, <2>7
<1>8. Trace(v, msgs, k, B2, St2)
  BY <1>1, <1>4, <1>5, <1>6, <1>7, <1>11 DEF Trace
<1>9. Run(v, msgs, St[2], s)
  BY <1>5, <1>8, <1>a DEF Run
<1>10. Chunk(w, msgs, r, St[2], 1, from) /\ St[2] \in State
  <2>1. 1 \in 1 .. n /\ 2 \in 1 .. n + 1 /\ 1 + 1 = 2
    BY <1>1
  <2>2. Chunk(w, msgs, St[1], St[1 + 1], B[1], B[1 + 1])
    BY <1>1, <2>1
  <2> QED
    BY <1>1, <1>a, <2>1, <2>2 DEF from
<1> QED
  BY <1>2, <1>9, <1>10 DEF v

-----------------------------------------------------------------------------
(* The encoder writes a chunk. *)

LEMMA ConcatIs ==
  ASSUME NEW u \in Seq(Token), NEW v \in Seq(Token)
  PROVE  /\ u \o v \in Seq(Token)
         /\ Len(u \o v) = Len(u) + Len(v)
         /\ \A i \in 1 .. Len(u) : (u \o v)[i] = u[i]
         /\ \A j \in 1 .. Len(v) : (u \o v)[Len(u) + j] = v[j]
OBVIOUS

\* The next chunk after s may have this header, of message m.
HeaderFits(msgs, s, m, fmt, c, field, ext) ==
    /\ s \in State /\ m \in Message /\ fmt \in 0 .. 3 /\ c \in AllCs
    /\ field \in Int /\ ext \in BOOLEAN
    /\ msgs \in Seq(Message) /\ s.id \in 1 .. Len(msgs) /\ msgs[s.id] = m
    /\ s.got < m.len /\ ValueFits(m)
    /\ fmt = 3 => ext = s.prev[c].ext
    /\ fmt # 3 => (ext <=> field >= Sentinel)
    /\ fmt \in {2, 3} => /\ c \in s.has
                         /\ s.prev[c].type = m.type
                         /\ s.prev[c].len = m.len
    /\ TimeFits(s, m, fmt, c, field)

Width(ext) == IF ext THEN 2 ELSE 1

\* The tokens of such a chunk, with n units of the message from unit i on.
Written(tokens, fmt, c, field, ext, len, type, id, i, n) ==
    /\ tokens \in Seq(Token)
    /\ Len(tokens) = Width(ext) + n
    /\ tokens[1].k = "hdr" /\ tokens[1].fmt = fmt /\ tokens[1].cs = c
    /\ tokens[1].type = type /\ tokens[1].len = len
    /\ tokens[1].ts = IF field < Sentinel THEN field ELSE Sentinel
    /\ ext => tokens[2].k = "ext" /\ tokens[2].ts = field
    /\ \A j \in 1 .. n : tokens[Width(ext) + j] = Payload(id, i + j - 1)

LEMMA SubSeqIs ==
  ASSUME NEW w \in Seq(Token), NEW a \in Nat, NEW n \in Nat, a + n <= Len(w)
  PROVE  /\ SubSeq(w, a + 1, a + n) \in Seq(Token)
         /\ Len(SubSeq(w, a + 1, a + n)) = n
         /\ \A j \in 1 .. n : SubSeq(w, a + 1, a + n)[j] = w[a + j]
<1>1. \A i \in a + 1 .. a + n : i \in 1 .. Len(w)
  OBVIOUS
<1>2. /\ SubSeq(w, a + 1, a + n) \in Seq(Token)
      /\ Len(SubSeq(w, a + 1, a + n)) = n
  BY <1>1
<1>3. ASSUME NEW j \in 1 .. n PROVE SubSeq(w, a + 1, a + n)[j] = w[a + j]
  <2>1. SubSeq(w, a + 1, a + n)[j] = w[a + 1 + j - 1]
    BY <1>1
  <2>2. a + 1 + j - 1 = a + j
    OBVIOUS
  <2> QED
    BY <2>1, <2>2
<1> QED
  BY <1>2, <1>3

LEMMA TokensAre ==
  ASSUME NEW fmt \in 0 .. 3, NEW c \in AllCs, NEW field \in Int, NEW ext \in BOOLEAN,
         NEW len \in Nat, NEW type \in MessageTypes, NEW id \in Nat, NEW i \in Nat, NEW n \in Nat
  PROVE  Written(ChunkTokens(fmt, c, field, ext, len, type, id, i, n),
                 fmt, c, field, ext, len, type, id, i, n)
<1> DEFINE hd == [k |-> "hdr", fmt |-> fmt, cs |-> c,
                  ts |-> IF field < Sentinel THEN field ELSE Sentinel,
                  len |-> len, type |-> type]
           mid == IF ext THEN <<[k |-> "ext", ts |-> field]>> ELSE <<>>
           pay == [j \in 1 .. n |-> [k |-> "pay", id |-> id, i |-> i + j - 1]]
           heads == IF ext THEN 2 ELSE 1
           front == <<hd>> \o mid
           tokens == front \o pay
<1>1. hd \in Token
  BY ChunkAssumption DEF Token, Uint
<1>2. [k |-> "ext", ts |-> field] \in Token
  BY DEF Token
<1>3. \A j \in 1 .. n : [k |-> "pay", id |-> id, i |-> i + j - 1] \in Token
  BY DEF Token
<1>4. /\ hd.k = "hdr" /\ hd.fmt = fmt /\ hd.cs = c /\ hd.type = type /\ hd.len = len
      /\ hd.ts = IF field < Sentinel THEN field ELSE Sentinel
  OBVIOUS
<1> HIDE DEF hd
<1>5. /\ front \in Seq(Token) /\ Len(front) = heads /\ front[1] = hd
      /\ ext => front[2] = [k |-> "ext", ts |-> field]
  BY <1>1, <1>2
<1>6. pay \in Seq(Token) /\ Len(pay) = n
  BY <1>3
<1>7. \A j \in 1 .. n : pay[j] = Payload(id, i + j - 1)
  BY DEF Payload
<1>a. heads \in {1, 2} /\ (ext => heads = 2) /\ heads = Width(ext)
  BY DEF Width
<1> HIDE DEF front, pay, heads
<1>8. /\ tokens \in Seq(Token) /\ Len(tokens) = heads + n
      /\ \A x \in 1 .. Len(front) : tokens[x] = front[x]
      /\ \A j \in 1 .. Len(pay) : tokens[Len(front) + j] = pay[j]
  BY <1>5, <1>6, ConcatIs
<1>9. tokens[1] = hd /\ (ext => tokens[2] = [k |-> "ext", ts |-> field])
  BY <1>5, <1>8, <1>a
<1>10. \A j \in 1 .. n : tokens[heads + j] = Payload(id, i + j - 1)
  BY <1>5, <1>6, <1>7, <1>8
<1>11. tokens = ChunkTokens(fmt, c, field, ext, len, type, id, i, n)
  BY DEF ChunkTokens, hd, front, pay
<1> HIDE DEF tokens
<1>12. [k |-> "ext", ts |-> field].k = "ext" /\ [k |-> "ext", ts |-> field].ts = field
  OBVIOUS
<1>13. Written(tokens, fmt, c, field, ext, len, type, id, i, n)
  BY <1>4, <1>8, <1>9, <1>10, <1>12, <1>a DEF Written
<1> QED
  BY <1>11, <1>13

\* Those tokens, behind the rest, are a chunk.
LEMMA ChunkWritten ==
  ASSUME NEW w \in Seq(Token), NEW more, NEW msgs, NEW s, NEW t, NEW m,
         NEW fmt, NEW c, NEW field, NEW ext, HeaderFits(msgs, s, m, fmt, c, field, ext),
         Written(more, fmt, c, field, ext, m.len, m.type, s.id, s.got + 1, Cut(s, m)),
         Leads(s, m, c, ext, Delta(s, fmt, c, field), t)
  PROVE  /\ more \in Seq(Token)
         /\ more # <<>>
         /\ Chunk(w \o more, msgs, s, t, Len(w) + 1, Len(w) + Len(more) + 1)
<1>c. /\ s \in State /\ m \in Message /\ fmt \in 0 .. 3 /\ c \in AllCs
      /\ field \in Int /\ ext \in BOOLEAN
      /\ msgs \in Seq(Message) /\ s.id \in 1 .. Len(msgs) /\ msgs[s.id] = m
      /\ s.got < m.len /\ ValueFits(m)
  BY DEF HeaderFits
<1> DEFINE units == Cut(s, m)
           heads == Width(ext)
           p == Len(w) + 1
           v == w \o more
<1>1. units \in Nat \ {0} /\ s.id \in Nat /\ s.got \in Nat
  BY <1>c, CutType DEF State, Message
<1>a. heads \in {1, 2} /\ (ext => heads = 2) /\ p = Len(w) + 1 /\ Len(w) \in Nat
  BY <1>c DEF Width
<1>2. /\ more \in Seq(Token)
      /\ Len(more) = heads + units
      /\ more[1].k = "hdr" /\ more[1].fmt = fmt /\ more[1].cs = c
      /\ more[1].type = m.type /\ more[1].len = m.len
      /\ more[1].ts = IF field < Sentinel THEN field ELSE Sentinel
      /\ ext => more[2].k = "ext" /\ more[2].ts = field
      /\ \A j \in 1 .. units : more[heads + j] = Payload(s.id, s.got + 1 + j - 1)
  BY DEF Written
<1> HIDE DEF units, heads, p
<1>4. /\ v \in Seq(Token) /\ Len(v) = Len(w) + Len(more)
      /\ \A j \in 1 .. Len(more) : v[Len(w) + j] = more[j]
  BY <1>2, ConcatIs
<1> HIDE DEF v
<1>6. v[p] = more[1] /\ (ext => v[p + 1] = more[2])
  <2>1. 1 \in 1 .. Len(more) /\ (ext => 2 \in 1 .. Len(more))
    BY <1>1, <1>2, <1>a
  <2>2. p + 1 = Len(w) + 2
    BY <1>a
  <2> QED
    BY <1>4, <1>a, <2>1, <2>2
<1>7. Ext(s, v[p]) = ext
  <2>1. fmt # 3 => (ext <=> more[1].ts = Sentinel)
    BY <1>2, <1>c, ChunkAssumption DEF Uint, HeaderFits
  <2>2. fmt # 3 => (ext = (more[1].ts = Sentinel))
    BY <1>c, <2>1
  <2> QED
    BY <1>2, <1>6, <2>2 DEF Ext, HeaderFits
<1>b. Heads(s, v[p]) = heads
  BY <1>7 DEF Heads, heads, Width
<1>8. ASSUME NEW i \in 1 .. units
      PROVE  v[p + heads + i - 1] = Payload(s.id, s.got + i)
  <2>1. heads + i \in 1 .. Len(more) /\ p + heads + i - 1 = Len(w) + (heads + i)
    BY <1>1, <1>2, <1>a
  <2>2. s.got + 1 + i - 1 = s.got + i
    BY <1>1
  <2>3. more[heads + i] = Payload(s.id, s.got + i)
    BY <1>2, <2>2
  <2> QED
    BY <1>4, <2>1, <2>3
<1>9. Len(w) + Len(more) + 1 = p + heads + units
  BY <1>1, <1>2, <1>a
<1>d. fmt # 3 => Carried(v, p, ext) = field
  <2>1. ~ext /\ fmt # 3 => more[1].ts = field
    BY <1>2, <1>c, ChunkAssumption DEF Uint, HeaderFits
  <2> QED
    BY <1>2, <1>6, <2>1 DEF Carried
<1>e. /\ TimeFits(s, m, fmt, c, Carried(v, p, ext))
      /\ Delta(s, fmt, c, Carried(v, p, ext)) = Delta(s, fmt, c, field)
  <2>1. TimeFits(s, m, fmt, c, field)
    BY DEF HeaderFits
  <2> QED
    BY <1>d, <2>1 DEF TimeFits, Delta
<1>10. Chunk(v, msgs, s, t, p, Len(w) + Len(more) + 1)
  <2>1. /\ v[p].k = "hdr" /\ v[p].cs = c /\ v[p].fmt = fmt
        /\ v[p].type = m.type /\ v[p].len = m.len
        /\ ext => v[p + 1].k = "ext"
    BY <1>2, <1>6
  <2>2. fmt \in {2, 3} => /\ c \in s.has
                          /\ s.prev[c].type = m.type
                          /\ s.prev[c].len = m.len
    BY DEF HeaderFits
  <2>3. Len(w) + Len(more) + 1 = p + Heads(s, v[p]) + Cut(s, m)
    BY <1>9, <1>b DEF units
  <2>4. \A i \in 1 .. Cut(s, m) : v[p + Heads(s, v[p]) + i - 1] = Payload(s.id, s.got + i)
    BY <1>8, <1>b DEF units
  <2> QED
    BY <1>7, <1>c, <1>e, <2>1, <2>2, <2>3, <2>4 DEF Chunk
<1>11. more # <<>>
  BY <1>1, <1>2, <1>a
<1> QED
  BY <1>2, <1>10, <1>11 DEF v, p

\* Another chunk makes the run longer.
LEMMA RunGrows ==
  ASSUME NEW w \in Seq(Token), NEW msgs \in Seq(Message), NEW msgs2, Knows(msgs2, msgs),
         NEW r, NEW s, Run(w, msgs, r, s), NEW m,
         NEW fmt, NEW c, NEW field, NEW ext, NEW more,
         HeaderFits(msgs2, s, m, fmt, c, field, ext),
         Written(more, fmt, c, field, ext, m.len, m.type, s.id, s.got + 1, Cut(s, m))
  PROVE  \E t \in State : /\ Leads(s, m, c, ext, Delta(s, fmt, c, field), t)
                           /\ Run(w \o more, msgs2, r, t)
<1>4. Delta(s, fmt, c, field) \in Int
  BY DEF HeaderFits, Delta, State, Summary
<1>1. PICK t \in State : Leads(s, m, c, ext, Delta(s, fmt, c, field), t)
  BY <1>4, LeadsType DEF HeaderFits
<1>2. /\ more \in Seq(Token) /\ more # <<>>
      /\ Chunk(w \o more, msgs2, s, t, Len(w) + 1, Len(w) + Len(more) + 1)
  BY <1>1, ChunkWritten
<1>3. Run(w \o more, msgs2, r, t)
  BY <1>2, RunExtends
<1> QED
  BY <1>1, <1>3

\* The reader stands where it stood: it knows no message that is new.
LEMMA ReaderKept ==
  ASSUME sent \in Seq(Message), Knows(sent', sent),
         UNCHANGED <<lastChunk, message, peerMaxChunkSize, room>>, NEW s, ReaderAt(s)
  PROVE  ReaderAt(s)'
<1>1. /\ s.size = peerMaxChunkSize' /\ DOMAIN lastChunk' = AllCs /\ Agrees(s, lastChunk')
  BY DEF ReaderAt
<1>2. s.id \in 1 .. Len(sent) => s.id \in 1 .. Len(sent') /\ sent'[s.id] = sent[s.id]
  BY DEF Knows
<1>3. s.id - 1 \in 0 .. Len(sent) /\ s.id \in 1 .. Len(sent') + 1 /\ room = Told(s.id - 1)
  BY DEF ReaderAt, Heard, Knows
<1>4. Told(s.id - 1)' = Told(s.id - 1)
  BY <1>3, ToldKept
<1>5. Heard(s)'
  BY <1>3, <1>4 DEF Heard
<1>6. \A c \in s.has : lastChunk'[c].delta = s.prev[c].delta
  BY DEF ReaderAt
<1>7. message' = message /\ (message # None => s.id \in 1 .. Len(sent))
  BY DEF ReaderAt
<1> QED
  BY <1>1, <1>2, <1>5, <1>6, <1>7 DEF ReaderAt

\* The encoder writes the next chunk of its only unfinished message.
EncoderSends(s, m, c, ext, delta) ==
    /\ \A d \in AllCs \ {c} : Idle(d)
    /\ s.id = Len(sent')
    /\ left' = [left EXCEPT ![c] = IF Cut(s, m) = m.len - s.got THEN [id |-> 0, units |-> 0]
                                   ELSE [id |-> s.id, units |-> m.len - s.got - Cut(s, m)]]
    /\ m.type # "abort"
    /\ encChunkSize' = IF m.type = "setChunkSize" /\ s.got = 0 THEN m.val ELSE encChunkSize
    /\ encLast' \in [AllCs -> EncoderHeader \cup {None}]
    /\ \A d \in AllCs \ {c} : encLast'[d] = encLast[d]
    /\ encLast'[c] # None
    /\ encLast'[c].type = m.type /\ encLast'[c].len = m.len /\ encLast'[c].ext = ext
    /\ encLast'[c].ts = m.ts
    /\ encLast'[c].relative => encLast'[c].delta = delta
    /\ complete' = IF Cut(s, m) = m.len - s.got THEN Append(complete, s.id) ELSE complete

LEMMA CompletedNext ==
  ASSUME NEW n \in Nat, complete \in Seq(Nat), Len(complete) = n - 1,
         \A k \in 1 .. n - 1 : complete[k] = k,
         complete' = Append(complete, n), NEW t, t.id = n + 1
  PROVE  Completed(t)'
<1>1. /\ complete' \in Seq(Nat) /\ Len(complete') = n /\ complete'[n] = n
      /\ \A k \in 1 .. n - 1 : complete'[k] = complete[k]
  OBVIOUS
<1>2. ASSUME NEW k \in 1 .. n PROVE complete'[k] = k
  <2>1. k = n \/ k \in 1 .. n - 1
    OBVIOUS
  <2> QED
    BY <1>1, <2>1
<1>3. t.id - 1 = n
  OBVIOUS
<1> QED
  BY <1>1, <1>2, <1>3 DEF Completed

LEMMA EncoderMoves ==
  ASSUME EncoderTypes, NEW s, NEW t \in State, NEW m, NEW fmt, NEW c, NEW field, NEW ext,
         HeaderFits(sent', s, m, fmt, c, field, ext),
         EncoderAt(s), Leads(s, m, c, ext, Delta(s, fmt, c, field), t),
         EncoderSends(s, m, c, ext, Delta(s, fmt, c, field))
  PROVE  EncoderAt(t)'
<1>a. /\ s \in State /\ m \in Message /\ c \in AllCs /\ ext \in BOOLEAN
      /\ sent' \in Seq(Message) /\ s.id \in 1 .. Len(sent') /\ sent'[s.id] = m
      /\ s.got < m.len /\ ValueFits(m)
  BY DEF HeaderFits
<1>1. /\ s.id \in Nat /\ s.got \in Nat /\ m.len \in Nat /\ Cut(s, m) \in Nat \ {0}
      /\ s.got + Cut(s, m) <= m.len
      /\ s.has \in SUBSET AllCs
  BY <1>a, CutType DEF State, Message
<1> DEFINE delta == Delta(s, fmt, c, field)
<1> HIDE DEF delta
<1>d. Leads(s, m, c, ext, delta, t) /\ EncoderSends(s, m, c, ext, delta)
  BY DEF delta
<1>2. /\ t.prev[c].type = m.type /\ t.prev[c].len = m.len /\ t.prev[c].ext = ext
      /\ t.prev[c].ts = m.ts /\ t.prev[c].delta = delta
      /\ \A d \in AllCs \ {c} : t.prev[d] = s.prev[d]
      /\ t.has = s.has \cup {c}
  BY <1>a, <1>d DEF Leads, State, EncoderSends
<1>b. /\ \A d \in AllCs \ {c} : encLast'[d] = encLast[d]
      /\ encLast'[c] # None
      /\ encLast'[c].type = m.type /\ encLast'[c].len = m.len /\ encLast'[c].ext = ext
      /\ encLast'[c].ts = m.ts
      /\ encLast'[c].relative => encLast'[c].delta = delta
  BY <1>d DEF EncoderSends
<1>3. Agrees(t, encLast')
  BY <1>2, <1>b DEF Agrees, EncoderAt
<1>e. \A d \in t.has : encLast'[d].relative => encLast'[d].delta = t.prev[d].delta
  <2>1. ASSUME NEW d \in t.has, encLast'[d].relative
        PROVE  encLast'[d].delta = t.prev[d].delta
    <3>1. CASE d = c
      BY <1>2, <1>b, <2>1, <3>1
    <3>2. CASE d # c
      <4>1. d \in s.has /\ d \in AllCs \ {c}
        BY <1>1, <1>2, <3>2
      <4>2. encLast'[d] = encLast[d] /\ t.prev[d] = s.prev[d]
        BY <1>2, <1>b, <4>1
      <4> QED
        BY <2>1, <4>1, <4>2 DEF EncoderAt
    <3> QED
      BY <3>1, <3>2
  <2> QED
    BY <2>1
<1>f. /\ complete \in Seq(Nat) /\ Len(complete) = s.id - 1
      /\ \A k \in 1 .. s.id - 1 : complete[k] = k
      /\ complete' = IF Cut(s, m) = m.len - s.got THEN Append(complete, s.id) ELSE complete
  BY <1>d DEF EncoderAt, Completed, EncoderSends
<1>c. /\ \A d \in AllCs \ {c} : left[d].id = 0
      /\ left \in [AllCs -> [id : Nat, units : Nat]]
      /\ left' = [left EXCEPT ![c] =
                    IF Cut(s, m) = m.len - s.got THEN [id |-> 0, units |-> 0]
                    ELSE [id |-> s.id, units |-> m.len - s.got - Cut(s, m)]]
      /\ s.size = encChunkSize /\ s.id = Len(sent') /\ sent' # <<>>
  BY <1>a, <1>d DEF EncoderTypes, Idle, EncoderSends, EncoderAt
<1>4. \A d \in AllCs \ {c} : left'[d].id = 0
  BY <1>c
<1>5. CASE s.got + Cut(s, m) < m.len
  <2>1. t.id = s.id /\ t.got = s.got + Cut(s, m) /\ t.size = s.size
    BY <1>5, <1>d DEF Leads
  <2>2. m.len # 1
    BY <1>1, <1>5
  <2>3. t.size = encChunkSize'
    BY <1>a, <1>c, <1>d, <2>1, <2>2 DEF ValueFits, EncoderSends
  <2>4. left'[c] = [id |-> s.id, units |-> m.len - s.got - Cut(s, m)]
    BY <1>a, <1>1, <1>5, <1>c
  <2>5. m.len - s.got - Cut(s, m) = m.len - t.got
    BY <1>1, <2>1
  <2>6. InMessage(t, c)'
    BY <1>a, <1>2, <1>4, <1>5, <2>1, <2>4, <2>5 DEF InMessage, Idle
  <2>7. t.got # 0
    BY <1>1, <2>1
  <2>8. Completed(t)'
    <3>1. Cut(s, m) # m.len - s.got
      BY <1>1, <1>5
    <3> QED
      BY <1>f, <2>1, <3>1 DEF Completed
  <2> QED
    BY <1>a, <1>3, <1>c, <1>e, <2>1, <2>3, <2>6, <2>7, <2>8 DEF EncoderAt
<1>6. CASE ~(s.got + Cut(s, m) < m.len)
  <2>1. /\ t.id = s.id + 1 /\ t.got = 0
        /\ t.size = IF m.type = "setChunkSize" THEN m.val ELSE s.size
    BY <1>6, <1>d DEF Leads, EncoderSends
  <2>2. Cut(s, m) = m.len - s.got
    BY <1>1, <1>6
  <2>3. left'[c].id = 0
    BY <1>a, <1>c, <2>2
  <2>4. m.type = "setChunkSize" => s.got = 0
    BY <1>a, <1>1 DEF ValueFits
  <2>5. t.size = encChunkSize'
    BY <1>c, <1>d, <2>1, <2>4 DEF EncoderSends
  <2>6. Completed(t)'
    BY <1>1, <1>f, <2>1, <2>2, CompletedNext
  <2> QED
    BY <1>3, <1>4, <1>c, <1>e, <2>1, <2>3, <2>5, <2>6 DEF EncoderAt, Idle
<1> QED
  BY <1>5, <1>6

LEMMA Sends ==
  ASSUME EncoderTypes, NEW r \in State, NEW s, Run(wire, sent, r, s), ReaderAt(r), EncoderAt(s),
         Knows(sent', sent), NEW m, NEW fmt, NEW c, NEW field, NEW ext, NEW more,
         HeaderFits(sent', s, m, fmt, c, field, ext),
         Written(more, fmt, c, field, ext, m.len, m.type, s.id, s.got + 1, Cut(s, m)),
         wire' = wire \o more,
         EncoderSends(s, m, c, ext, Delta(s, fmt, c, field)),
         UNCHANGED <<lastChunk, message, peerMaxChunkSize, room>>
  PROVE  wire' \in Seq(Token) /\ InStep'
<1>1. sent \in Seq(Message) /\ wire \in Seq(Token)
  BY DEF EncoderTypes
<1>2. PICK t \in State : /\ Leads(s, m, c, ext, Delta(s, fmt, c, field), t)
                          /\ Run(wire \o more, sent', r, t)
  BY <1>1, RunGrows
<1>3. EncoderAt(t)'
  BY <1>2, EncoderMoves
<1>4. ReaderAt(r)'
  BY <1>1, ReaderKept
<1>5. more \in Seq(Token)
  BY DEF Written
<1> QED
  BY <1>1, <1>2, <1>3, <1>4, <1>5, ConcatIs DEF InStep

-----------------------------------------------------------------------------
(* The encoder's actions. *)

Sequential == "interleaves" \notin Habits /\ "aborts" \notin Habits

\* WriteChunk writes what is left of the message, up to a chunk.
LEMMA WriteIs ==
  ASSUME EncoderTypes, NEW msgs, NEW s, NEW m, NEW fmt, NEW c, NEW field, NEW ext,
         HeaderFits(msgs, s, m, fmt, c, field, ext), s.size = encChunkSize,
         WriteChunk(fmt, c, field, ext, m, s.id, m.len - s.got)
  PROVE  /\ \E more :
               /\ Written(more, fmt, c, field, ext, m.len, m.type, s.id, s.got + 1, Cut(s, m))
               /\ wire' = wire \o more
         /\ left' = [left EXCEPT ![c] = IF Cut(s, m) = m.len - s.got THEN [id |-> 0, units |-> 0]
                                        ELSE [id |-> s.id, units |-> m.len - s.got - Cut(s, m)]]
         /\ left' \in [AllCs -> [id : Nat, units : Nat]]
         /\ complete' = IF Cut(s, m) = m.len - s.got THEN Append(complete, s.id) ELSE complete
<1>b. /\ s \in State /\ m \in Message /\ fmt \in 0 .. 3 /\ c \in AllCs
      /\ field \in Int /\ ext \in BOOLEAN /\ s.got < m.len
  BY DEF HeaderFits
<1> DEFINE rest == m.len - s.got
<1>a. WriteChunk(fmt, c, field, ext, m, s.id, rest)
  OBVIOUS
<1>1. /\ s.got \in Nat /\ m.len \in Nat /\ s.size \in Nat \ {0} /\ rest \in Nat
      /\ s.got + 1 \in Nat /\ m.len - rest + 1 = s.got + 1
      /\ m.type \in MessageTypes /\ rest = m.len - s.got /\ s.id \in Nat
  BY <1>b DEF State, Message
<1> HIDE DEF rest
<1>2. Smallest({rest, encChunkSize}) = Cut(s, m)
  <2>1. CASE rest <= s.size
    <3>1. Smallest({rest, s.size}) = rest
      <4>1. {rest, s.size} \in SUBSET Int /\ rest \in {rest, s.size}
            /\ \A y \in {rest, s.size} : rest <= y
        BY <1>1, <2>1
      <4> QED
        BY <4>1, SmallestIs
    <3> QED
      BY <2>1, <3>1, <1>1 DEF Cut
  <2>2. CASE ~(rest <= s.size)
    <3>1. Smallest({rest, s.size}) = s.size
      <4>1. {rest, s.size} \in SUBSET Int /\ s.size \in {rest, s.size}
            /\ \A y \in {rest, s.size} : s.size <= y
        BY <1>1, <2>2
      <4> QED
        BY <4>1, SmallestIs
    <3> QED
      BY <2>2, <3>1, <1>1 DEF Cut
  <2> QED
    BY <2>1, <2>2
<1> DEFINE units == Cut(s, m)
           more == ChunkTokens(fmt, c, field, ext, m.len, m.type, s.id, s.got + 1, units)
<1>3. units \in Nat /\ s.got + units <= m.len
  BY <1>b, CutType
<1>4. /\ wire' = wire \o more
      /\ left' = [left EXCEPT ![c] = IF units = rest THEN [id |-> 0, units |-> 0]
                                     ELSE [id |-> s.id, units |-> rest - units]]
      /\ complete' = IF units = rest THEN Append(complete, s.id) ELSE complete
  BY <1>1, <1>2, <1>a DEF WriteChunk
<1>5. Written(more, fmt, c, field, ext, m.len, m.type, s.id, s.got + 1, units)
  <2> HIDE DEF units
  <2> QED
    BY <1>1, <1>3, <1>b, TokensAre
<1>6. left' \in [AllCs -> [id : Nat, units : Nat]]
  <2>1. rest - units \in Nat
    BY <1>1, <1>3
  <2> HIDE DEF units
  <2> QED
    BY <1>1, <1>4, <1>b, <2>1 DEF EncoderTypes
<1> QED
  BY <1>4, <1>5, <1>6 DEF rest

\* A timestamp's distance from another leads to it.
LEMMA DeltaLeads ==
  ASSUME NEW a \in Uint, NEW b \in Uint
  PROVE  (b + ((a - b) % Wrap)) % Wrap = a
<1>1. Wrap \in Nat /\ a \in Nat /\ b \in Nat /\ a < Wrap /\ b < Wrap
  BY ChunkAssumption DEF Uint
<1>2. CASE a >= b
  <2>1. a - b \in 0 .. Wrap - 1
    BY <1>1, <1>2
  <2>2. (a - b) % Wrap = a - b
    BY <1>1, <2>1
  <2>3. b + (a - b) = a /\ a % Wrap = a
    BY <1>1
  <2> QED
    BY <2>2, <2>3
<1>3. CASE ~(a >= b)
  <2>1. a - b + Wrap \in 0 .. Wrap - 1
    BY <1>1, <1>3
  <2>2. (a - b) % Wrap = a - b + Wrap
    BY <1>1, <1>3, <2>1
  <2>3. b + (a - b + Wrap) = a + Wrap /\ (a + Wrap) % Wrap = a
    BY <1>1
  <2> QED
    BY <2>2, <2>3
<1> QED
  BY <1>2, <1>3

\* An encoder that may begin a message stands between two.
LEMMA Between ==
  ASSUME EncoderTypes, NEW s, EncoderAt(s), \A d \in AllCs : Idle(d)
  PROVE  s.got = 0 /\ s.id = Len(sent) + 1
<1>1. Len(sent) \in Nat /\ (sent # <<>> => Len(sent) # 0)
  BY DEF EncoderTypes
<1> QED
  BY <1>1 DEF EncoderAt, InMessage, Idle

LEMMA Appended ==
  ASSUME EncoderTypes, NEW m \in Message, ValueFits(m), sent' = Append(sent, m)
  PROVE  /\ Knows(sent', sent)
         /\ sent' \in Seq(Message) /\ Len(sent') = Len(sent) + 1 /\ sent'[Len(sent) + 1] = m
         /\ Len(sent) \in Nat
         /\ \A i \in 1 .. Len(sent') : ValueFits(sent'[i])
<1>1. sent \in Seq(Message) /\ \A i \in 1 .. Len(sent) : ValueFits(sent[i])
  BY DEF EncoderTypes
<1>2. /\ sent' \in Seq(Message) /\ Len(sent') = Len(sent) + 1 /\ Len(sent) \in Nat
      /\ sent'[Len(sent) + 1] = m
      /\ \A i \in 1 .. Len(sent) : sent'[i] = sent[i]
  BY <1>1
<1> QED
  BY <1>1, <1>2 DEF Knows

\* A message begun.
LEMMA Begins ==
  ASSUME Sequential, EncoderTypes, InStep, NEW c \in AllCs, NEW m \in Message,
         NEW fmt \in 0 .. 3, ValueFits(m), m.type # "abort", Begin(c, m, fmt),
         encChunkSize' = IF m.type = "setChunkSize" THEN m.val ELSE encChunkSize
  PROVE  EncoderTypes' /\ InStep'
<1> DEFINE delta == IF encLast[c] = None THEN 0 ELSE (m.ts - encLast[c].ts) % Wrap
           field == Field(fmt, m.ts, delta)
           ext == field >= Sentinel
<1>1. PICK r \in State, s \in State : Run(wire, sent, r, s) /\ ReaderAt(r) /\ EncoderAt(s)
  BY DEF InStep
<1>2. \A d \in AllCs : Idle(d)
  BY DEF Begin, MayBegin, Sequential
<1>3. s.got = 0 /\ s.id = Len(sent) + 1
  BY <1>1, <1>2, Between
<1>4. delta \in Int
  <2>1. CASE encLast[c] = None
    BY <2>1
  <2>2. CASE encLast[c] # None
    <3>1. m.ts \in Int /\ encLast[c].ts \in Int
      BY <2>2 DEF EncoderTypes, Message, EncoderHeader, Uint
    <3>2. m.ts - encLast[c].ts \in Int
      BY <3>1
    <3> QED
      BY <2>2, <3>2, DeltaInt
  <2> QED
    BY <2>1, <2>2
<1>5. Fits(fmt, c, m.type, m.len, delta)
  BY DEF Begin
<1>6. /\ sent' = Append(sent, m)
      /\ encLast' = [encLast EXCEPT ![c] =
           [type |-> m.type, len |-> m.len, ts |-> m.ts, ext |-> ext,
            delta |-> delta, relative |-> fmt # 0]]
      /\ WriteChunk(fmt, c, field, ext, m, Len(sent) + 1, m.len)
      /\ UNCHANGED <<lastChunk, message, peerMaxChunkSize, room>>
  BY DEF Begin, readVars
<1>a. encLast[c] # None =>
        /\ encLast[c].ts \in Uint /\ c \in s.has /\ encLast[c].ts = s.prev[c].ts
        /\ (s.prev[c].ts + delta) % Wrap = m.ts
  <2>1. ASSUME encLast[c] # None
        PROVE  encLast[c].ts \in Uint /\ c \in s.has /\ encLast[c].ts = s.prev[c].ts
    BY <1>1, <2>1 DEF EncoderTypes, EncoderHeader, EncoderAt, Agrees
  <2>2. ASSUME encLast[c] # None PROVE (s.prev[c].ts + delta) % Wrap = m.ts
    <3>1. m.ts \in Uint /\ delta = (m.ts - encLast[c].ts) % Wrap
      BY <2>2 DEF Message
    <3> QED
      BY <2>1, <2>2, <3>1, DeltaLeads
  <2> QED
    BY <2>1, <2>2
<1> HIDE DEF delta
<1>7. field \in Int /\ (fmt # 0 => field = delta) /\ (fmt = 0 => field = m.ts)
  BY <1>4 DEF Field, Message, Uint
<1> HIDE DEF field
<1>8. ext \in BOOLEAN /\ (ext <=> field >= Sentinel)
  OBVIOUS
<1> HIDE DEF ext
<1>9. /\ sent' \in Seq(Message) /\ Len(sent') = Len(sent) + 1 /\ sent'[Len(sent) + 1] = m
      /\ Len(sent) \in Nat /\ Knows(sent', sent)
      /\ \A i \in 1 .. Len(sent') : ValueFits(sent'[i])
  BY <1>6, Appended
<1>10. /\ m.len \in Nat \ {0} /\ m.type \in MessageTypes /\ m.ts \in Int /\ m.ts \in Uint
  BY DEF Message, Uint
<1>11. HeaderFits(sent', s, m, fmt, c, field, ext)
  <2>1. fmt \in {2, 3} => /\ c \in s.has
                          /\ s.prev[c].type = m.type
                          /\ s.prev[c].len = m.len
    <3>1. ASSUME fmt \in {2, 3}
          PROVE  encLast[c] # None /\ encLast[c].type = m.type /\ encLast[c].len = m.len
      <4>1. fmt # 0 /\ fmt # 1
        BY <3>1
      <4> QED
        BY <1>5, <3>1, <4>1 DEF Fits
    <3>2. Agrees(s, encLast)
      BY <1>1 DEF EncoderAt
    <3> QED
      BY <3>1, <3>2 DEF Agrees
  <2>2. ASSUME fmt = 3 PROVE ext = s.prev[c].ext
    <3>1. encLast[c] # None /\ encLast[c].relative /\ encLast[c].delta = delta
      BY <1>5, <2>2 DEF Fits
    <3>2. encLast[c].ext <=> delta >= Sentinel
      BY <3>1 DEF EncoderTypes, DeltaExtended
    <3>3. encLast[c].ext = s.prev[c].ext /\ encLast[c].ext \in BOOLEAN
      BY <1>1, <3>1 DEF EncoderAt, Agrees, EncoderTypes, EncoderHeader
    <3> QED
      BY <1>7, <1>8, <2>2, <3>2, <3>3
  <2>3. s.id \in 1 .. Len(sent') /\ sent'[s.id] = m /\ s.got < m.len
    BY <1>3, <1>9, <1>10
  <2>4. Agrees(s, encLast) /\ \A d \in s.has : encLast[d].relative => encLast[d].delta = s.prev[d].delta
    BY <1>1 DEF EncoderAt
  <2>5. TimeFits(s, m, fmt, c, field)
    <3>1. fmt \in {1, 2} /\ c \in s.has => (s.prev[c].ts + field) % Wrap = m.ts
      BY <1>7, <1>a, <2>4 DEF Agrees
    <3>2. fmt = 3 => (s.prev[c].ts + s.prev[c].delta) % Wrap = m.ts
      <4>1. ASSUME fmt = 3
            PROVE  encLast[c] # None /\ encLast[c].relative /\ encLast[c].delta = delta
        BY <1>5, <4>1 DEF Fits
      <4> QED
        BY <1>a, <2>4, <4>1
    <3> QED
      BY <1>3, <1>7, <3>1, <3>2 DEF TimeFits
  <2> QED
    BY <1>7, <1>8, <1>9, <2>1, <2>2, <2>3, <2>5 DEF HeaderFits
<1>12. /\ \E more :
               /\ Written(more, fmt, c, field, ext, m.len, m.type, s.id, s.got + 1, Cut(s, m))
               /\ wire' = wire \o more
       /\ left' = [left EXCEPT ![c] = IF Cut(s, m) = m.len - s.got THEN [id |-> 0, units |-> 0]
                                      ELSE [id |-> s.id, units |-> m.len - s.got - Cut(s, m)]]
       /\ left' \in [AllCs -> [id : Nat, units : Nat]]
       /\ complete' = IF Cut(s, m) = m.len - s.got THEN Append(complete, s.id) ELSE complete
  <2>1. s.size = encChunkSize /\ m.len = m.len - s.got
    BY <1>1, <1>3, <1>10 DEF EncoderAt
  <2>2. WriteChunk(fmt, c, field, ext, m, s.id, m.len - s.got)
    BY <1>3, <1>6, <2>1
  <2> QED
    BY <1>11, <2>1, <2>2, WriteIs
<1>13. /\ encLast' \in [AllCs -> EncoderHeader \cup {None}]
       /\ \A d \in AllCs \ {c} : encLast'[d] = encLast[d]
       /\ encLast'[c] = [type |-> m.type, len |-> m.len, ts |-> m.ts, ext |-> ext,
                         delta |-> delta, relative |-> fmt # 0]
  <2>1. [type |-> m.type, len |-> m.len, ts |-> m.ts, ext |-> ext,
         delta |-> delta, relative |-> fmt # 0] \in EncoderHeader
    BY <1>4, <1>8, <1>10 DEF EncoderHeader
  <2> QED
    BY <1>6, <2>1 DEF EncoderTypes
<1>14. encLast'[c] # None
  BY <1>13 DEF None
<1>15. EncoderSends(s, m, c, ext, Delta(s, fmt, c, field))
  <2>1. encLast'[c].type = m.type /\ encLast'[c].len = m.len /\ encLast'[c].ext = ext
    BY <1>13
  <2>4. encLast'[c].ts = m.ts
    BY <1>13
  <2>5. encLast'[c].relative => encLast'[c].delta = Delta(s, fmt, c, field)
    <3>1. encLast'[c].relative = (fmt # 0) /\ encLast'[c].delta = delta
      BY <1>13
    <3>2. ASSUME fmt # 0 PROVE Delta(s, fmt, c, field) = delta
      <4>1. CASE fmt = 3
        <5>1. encLast[c] # None /\ encLast[c].relative /\ encLast[c].delta = delta
          BY <1>5, <4>1 DEF Fits
        <5>2. encLast[c].delta = s.prev[c].delta
          BY <1>1, <1>a, <5>1 DEF EncoderAt
        <5> QED
          BY <4>1, <5>1, <5>2 DEF Delta
      <4>2. CASE fmt # 3
        BY <1>7, <3>2, <4>2 DEF Delta
      <4> QED
        BY <4>1, <4>2
    <3>3. ASSUME encLast'[c].relative PROVE fmt # 0
      BY <3>1, <3>3, Zenon
    <3> QED
      BY <3>1, <3>2, <3>3
  <2>2. encChunkSize' = IF m.type = "setChunkSize" /\ s.got = 0 THEN m.val ELSE encChunkSize
    BY <1>3
  <2>3. s.id = Len(sent') /\ \A d \in AllCs \ {c} : Idle(d)
    BY <1>2, <1>3, <1>9
  <2> QED
    BY <1>12, <1>13, <1>14, <2>1, <2>2, <2>3, <2>4, <2>5 DEF EncoderSends
<1>16. wire' \in Seq(Token) /\ InStep'
  BY <1>1, <1>6, <1>9, <1>11, <1>12, <1>15, Sends
<1>17. DeltaExtended'
  <2>1. ASSUME NEW d \in AllCs, encLast'[d] # None, encLast'[d].relative
        PROVE  encLast'[d].ext <=> encLast'[d].delta >= Sentinel
    <3>1. CASE d = c
      <4>1. encLast'[c].ext = ext /\ encLast'[c].delta = delta
        BY <1>13
      <4>2. encLast'[c].relative = (fmt # 0)
        BY <1>13
      <4>3. encLast'[c].relative
        BY <2>1, <3>1
      <4>4. fmt # 0
        BY <4>2, <4>3, Zenon
      <4> QED
        BY <1>7, <1>8, <3>1, <4>1, <4>4
    <3>2. CASE d # c
      BY <1>13, <2>1, <3>2 DEF EncoderTypes, DeltaExtended
    <3> QED
      BY <3>1, <3>2
  <2> QED
    BY <2>1 DEF DeltaExtended
<1>18. encChunkSize' \in Nat \ {0}
  BY DEF EncoderTypes, ValueFits
<1> QED
  BY <1>9, <1>12, <1>13, <1>16, <1>17, <1>18 DEF EncoderTypes

\* A message gone on with.
LEMMA Continues ==
  ASSUME EncoderTypes, InStep, NEW c \in AllCs, EncodeContinuation(c)
  PROVE  EncoderTypes' /\ InStep'
<1> DEFINE hd == encLast[c]
           field == IF hd.relative THEN hd.delta ELSE hd.ts
           m == sent[left[c].id]
<1>1. PICK r \in State, s \in State : Run(wire, sent, r, s) /\ ReaderAt(r) /\ EncoderAt(s)
  BY DEF InStep
<1>2. /\ ~Idle(c)
      /\ WriteChunk(3, c, field, hd.ext, m, left[c].id, left[c].units)
      /\ UNCHANGED <<sent, encLast, encChunkSize, lastChunk, message, peerMaxChunkSize, room>>
  BY DEF EncodeContinuation, readVars
<1>3. /\ s.got # 0 /\ s.id = Len(sent) /\ sent # <<>> /\ InMessage(s, c)
      /\ s.size = encChunkSize /\ Agrees(s, encLast)
  BY <1>1, <1>2 DEF EncoderAt, InMessage
<1>4. /\ left[c].id = s.id /\ left[c].units = m.len - s.got /\ s.got < m.len
      /\ c \in s.has /\ s.prev[c].type = m.type /\ s.prev[c].len = m.len
      /\ s.prev[c].ts = m.ts
      /\ \A d \in AllCs \ {c} : Idle(d)
  BY <1>3 DEF InMessage
<1>5. /\ s.id \in 1 .. Len(sent) /\ sent[s.id] = m /\ sent \in Seq(Message)
      /\ m \in Message /\ ValueFits(m)
  BY <1>3, <1>4 DEF EncoderTypes
<1>6. /\ hd # None /\ hd.ext = s.prev[c].ext /\ hd.type = m.type /\ hd.len = m.len
      /\ hd.ts = m.ts
  BY <1>3, <1>4 DEF Agrees
<1>7. hd \in EncoderHeader
  BY <1>6 DEF EncoderTypes
<1>8. field \in Int /\ hd.ext \in BOOLEAN
  BY <1>7 DEF EncoderHeader, Uint
<1> HIDE DEF field, hd
<1>9. HeaderFits(sent', s, m, 3, c, field, hd.ext)
  <2>1. TimeFits(s, m, 3, c, field)
    BY <1>3, <1>4 DEF TimeFits
  <2> QED
    BY <1>2, <1>4, <1>5, <1>6, <1>8, <2>1 DEF HeaderFits
<1>10. WriteChunk(3, c, field, hd.ext, m, s.id, m.len - s.got)
  BY <1>2, <1>4
<1> HIDE DEF m
<1>11. /\ \E more :
               /\ Written(more, 3, c, field, hd.ext, m.len, m.type, s.id, s.got + 1, Cut(s, m))
               /\ wire' = wire \o more
       /\ left' = [left EXCEPT ![c] = IF Cut(s, m) = m.len - s.got THEN [id |-> 0, units |-> 0]
                                      ELSE [id |-> s.id, units |-> m.len - s.got - Cut(s, m)]]
       /\ left' \in [AllCs -> [id : Nat, units : Nat]]
       /\ complete' = IF Cut(s, m) = m.len - s.got THEN Append(complete, s.id) ELSE complete
  BY <1>3, <1>9, <1>10, WriteIs
<1>12. m.type # "abort" /\ m.type # "setChunkSize"
  <2>1. m.len # 1
    BY <1>3, <1>4, <1>5 DEF State, Message
  <2> QED
    BY <1>5, <2>1 DEF ValueFits
<1>13. EncoderSends(s, m, c, hd.ext, Delta(s, 3, c, field))
  <2>1. encLast' = encLast /\ encLast[c] = hd /\ encLast \in [AllCs -> EncoderHeader \cup {None}]
    BY <1>2 DEF hd, EncoderTypes
  <2>2. s.id = Len(sent') /\ encChunkSize' = encChunkSize
    BY <1>2, <1>3
  <2>3. encLast'[c].relative => encLast'[c].delta = Delta(s, 3, c, field)
    BY <1>1, <1>4, <2>1 DEF EncoderAt, Delta
  <2> QED
    BY <1>4, <1>6, <1>11, <1>12, <2>1, <2>2, <2>3 DEF EncoderSends
<1>14. Knows(sent', sent)
  BY <1>2, <1>5 DEF Knows
<1>15. wire' \in Seq(Token) /\ InStep'
  BY <1>1, <1>2, <1>9, <1>11, <1>13, <1>14, Sends
<1> QED
  BY <1>2, <1>11, <1>15 DEF EncoderTypes, DeltaExtended

\* An abort forgets a chunk stream on both sides.
LEMMA Aborts ==
  ASSUME Sequential, EncoderTypes, InStep, NEW c \in MediaCs, EncodeAbort(c)
  PROVE  EncoderTypes' /\ InStep'
<1> DEFINE m == Control("abort", c)
           hd == [type |-> "abort", len |-> 1, ts |-> 0, ext |-> FALSE,
                  delta |-> 0, relative |-> FALSE]
           more == ChunkTokens(0, ControlCs, 0, FALSE, 1, "abort", Len(sent) + 1, 1, 1)
<1>1. PICK r \in State, s \in State : Run(wire, sent, r, s) /\ ReaderAt(r) /\ EncoderAt(s)
  BY DEF InStep
<1>2. \A d \in AllCs : Idle(d)
  BY DEF EncodeAbort, Sequential
<1>3. s.got = 0 /\ s.id = Len(sent) + 1 /\ s.size = encChunkSize /\ Agrees(s, encLast)
  BY <1>1, <1>2, Between DEF EncoderAt
<1>4. /\ wire' = wire \o more
      /\ sent' = Append(sent, m)
      /\ encLast' = [encLast EXCEPT ![c] = None, ![ControlCs] = hd]
      /\ left' = [left EXCEPT ![c] = [id |-> 0, units |-> 0]]
      /\ complete' = Append(complete, Len(sent) + 1)
      /\ UNCHANGED <<encChunkSize, lastChunk, message, peerMaxChunkSize, room>>
  BY DEF EncodeAbort, readVars
<1>5. /\ m \in Message /\ ValueFits(m) /\ m.type = "abort" /\ m.len = 1 /\ m.val = c
      /\ hd \in EncoderHeader /\ hd # None /\ hd.type = "abort" /\ hd.len = 1
      /\ hd.ext = FALSE /\ hd.relative = FALSE /\ hd.ts = 0 /\ m.ts = 0
  BY ChunkAssumption DEF Control, Message, MessageTypes, Values, ValueFits, EncoderHeader, None, Uint
<1> HIDE DEF m, hd
<1>6. /\ sent' \in Seq(Message) /\ Len(sent') = Len(sent) + 1 /\ sent'[Len(sent) + 1] = m
      /\ Len(sent) \in Nat /\ Knows(sent', sent)
      /\ \A i \in 1 .. Len(sent') : ValueFits(sent'[i])
  BY <1>4, <1>5, Appended
<1>7. ControlCs \in AllCs /\ c \in AllCs /\ c # ControlCs /\ 0 < Sentinel /\ Sentinel \in Nat
  BY ChunkAssumption DEF AllCs, Uint
<1>8. HeaderFits(sent', s, m, 0, ControlCs, 0, FALSE)
  <2>1. s.id \in 1 .. Len(sent') /\ sent'[s.id] = m /\ s.got < m.len
    BY <1>3, <1>5, <1>6
  <2>2. ~(0 >= Sentinel)
    BY <1>7
  <2>3. TimeFits(s, m, 0, ControlCs, 0)
    BY <1>5 DEF TimeFits
  <2> QED
    BY <1>5, <1>6, <1>7, <2>1, <2>2, <2>3 DEF HeaderFits
<1>9. Cut(s, m) = 1
  BY <1>3, <1>5 DEF Cut, State
<1>10. Written(more, 0, ControlCs, 0, FALSE, m.len, m.type, s.id, s.got + 1, Cut(s, m))
  <2>1. Written(more, 0, ControlCs, 0, FALSE, 1, "abort", Len(sent) + 1, 1, 1)
    <3>1. /\ 0 \in 0 .. 3 /\ 0 \in Int /\ FALSE \in BOOLEAN /\ 1 \in Nat
          /\ "abort" \in MessageTypes /\ Len(sent) + 1 \in Nat
      BY <1>6 DEF MessageTypes
    <3> QED
      BY <1>7, <3>1, TokensAre
  <2> HIDE DEF more
  <2>2. s.got + 1 = 1
    BY <1>3
  <2> QED
    BY <1>3, <1>5, <1>9, <2>1, <2>2
<1> HIDE DEF more
<1>11. sent \in Seq(Message) /\ wire \in Seq(Token)
  BY DEF EncoderTypes
<1>a. Delta(s, 0, ControlCs, 0) = 0
  BY DEF Delta
<1>12. PICK t \in State : Leads(s, m, ControlCs, FALSE, 0, t) /\ Run(wire \o more, sent', r, t)
  <2>1. \E t \in State : /\ Leads(s, m, ControlCs, FALSE, Delta(s, 0, ControlCs, 0), t)
                         /\ Run(wire \o more, sent', r, t)
    BY <1>1, <1>6, <1>8, <1>10, <1>11, RunGrows
  <2> QED
    BY <1>a, <2>1
<1>13. /\ t.id = s.id + 1 /\ t.got = 0 /\ t.size = s.size
       /\ t.has = (s.has \cup {ControlCs}) \ {c}
       /\ t.prev[ControlCs].type = "abort" /\ t.prev[ControlCs].len = 1
       /\ t.prev[ControlCs].ext = FALSE /\ t.prev[ControlCs].ts = 0
       /\ \A d \in AllCs \ {ControlCs} : t.prev[d] = s.prev[d]
  <2>1. ~(s.got + Cut(s, m) < m.len)
    BY <1>3, <1>5, <1>9
  <2> QED
    BY <1>5, <1>7, <1>12, <2>1 DEF Leads, State
<1>14. /\ encLast' \in [AllCs -> EncoderHeader \cup {None}]
       /\ encLast'[c] = None /\ encLast'[ControlCs] = hd
       /\ \A d \in AllCs \ {c, ControlCs} : encLast'[d] = encLast[d]
  BY <1>4, <1>5, <1>7 DEF EncoderTypes
<1>15. /\ left' \in [AllCs -> [id : Nat, units : Nat]]
       /\ \A d \in AllCs : left'[d].id = 0
  BY <1>2, <1>4, <1>7 DEF EncoderTypes, Idle
<1>16. Agrees(t, encLast')
  <2>1. \A d \in AllCs \ {c, ControlCs} :
          d \in t.has <=> d \in s.has
    BY <1>13
  <2>2. ASSUME NEW d \in AllCs
        PROVE  /\ d \in t.has <=> encLast'[d] # None
               /\ d \in t.has => /\ encLast'[d].type = t.prev[d].type
                                 /\ encLast'[d].len = t.prev[d].len
                                 /\ encLast'[d].ext = t.prev[d].ext
                                 /\ encLast'[d].ts = t.prev[d].ts
    <3>1. CASE d = c
      BY <1>13, <1>14, <3>1
    <3>2. CASE d = ControlCs
      BY <1>5, <1>7, <1>13, <1>14, <3>2
    <3>3. CASE d # c /\ d # ControlCs
      BY <1>3, <1>13, <1>14, <2>1, <3>3 DEF Agrees
    <3> QED
      BY <3>1, <3>2, <3>3
  <2> QED
    BY <2>2 DEF Agrees
<1>17. EncoderAt(t)'
  <2>1. Completed(t)'
    <3>1. s.id \in Nat /\ t.id = s.id + 1
      BY <1>13 DEF State
    <3>2. /\ complete \in Seq(Nat) /\ Len(complete) = s.id - 1
          /\ \A k \in 1 .. s.id - 1 : complete[k] = k
      BY <1>1 DEF EncoderAt, Completed
    <3>3. complete' = Append(complete, s.id)
      BY <1>3, <1>4
    <3> QED
      BY <3>1, <3>2, <3>3, CompletedNext
  <2>2. \A d \in t.has : encLast'[d].relative => encLast'[d].delta = t.prev[d].delta
    <3>1. ASSUME NEW d \in t.has, encLast'[d].relative
          PROVE  encLast'[d].delta = t.prev[d].delta
      <4>1. d # c /\ d \in AllCs
        BY <1>7, <1>13 DEF State
      <4>2. d # ControlCs
        BY <1>5, <1>14, <3>1
      <4>3. d \in s.has /\ encLast'[d] = encLast[d] /\ t.prev[d] = s.prev[d]
        BY <1>13, <1>14, <4>1, <4>2
      <4> QED
        BY <1>1, <3>1, <4>3 DEF EncoderAt
    <3> QED
      BY <3>1
  <2> QED
    BY <1>3, <1>4, <1>6, <1>13, <1>15, <1>16, <2>1, <2>2 DEF EncoderAt, Idle
<1>18. ReaderAt(r)'
  BY <1>1, <1>4, <1>6, <1>11, ReaderKept
<1>19. wire' \in Seq(Token)
  <2>1. more \in Seq(Token)
    BY <1>10 DEF Written
  <2> QED
    BY <1>4, <1>11, <2>1, ConcatIs
<1>20. InStep'
  BY <1>4, <1>12, <1>17, <1>18 DEF InStep
<1>21. DeltaExtended'
  BY <1>5, <1>7, <1>14 DEF EncoderTypes, DeltaExtended
<1> QED
  BY <1>4, <1>6, <1>14, <1>15, <1>19, <1>20, <1>21 DEF EncoderTypes

-----------------------------------------------------------------------------
(* The reader takes a chunk. *)

\* The reader stands at r, before a chunk that ends at q and leads to t.
Facing(r, t, q) ==
    /\ r \in State
    /\ ReaderAt(r)
    /\ wire # <<>>
    /\ q \in 2 .. Len(wire) + 1
    /\ Chunk(wire, sent, r, t, 1, q)

\* The timestamp field of the chunk, and what reading it makes of r.
Carries(r) == Carried(wire, 1, Ext(r, h))
Turns(r, t) ==
    /\ TimeFits(r, sent[r.id], h.fmt, h.cs, Carries(r))
    /\ Leads(r, sent[r.id], h.cs, Ext(r, h), Delta(r, h.fmt, h.cs, Carries(r)), t)

LEMMA Faced ==
  ASSUME EncoderTypes, NEW r, NEW t, NEW q, Facing(r, t, q)
  PROVE  /\ h = wire[1]
         /\ r.id \in 1 .. Len(sent) /\ sent[r.id] \in Message /\ ValueFits(sent[r.id])
         /\ r.got \in Nat /\ r.size \in Nat \ {0} /\ sent[r.id].len \in Nat \ {0}
         /\ r.got < sent[r.id].len
         /\ Cut(r, sent[r.id]) \in Nat \ {0}
         /\ r.got + Cut(r, sent[r.id]) <= sent[r.id].len
         /\ h.cs \in AllCs /\ h.k = "hdr" /\ h.fmt \in 0 .. 3
         /\ Ext(r, h) \in BOOLEAN /\ Heads(r, h) \in {1, 2}
         /\ q = 1 + Heads(r, h) + Cut(r, sent[r.id])
         /\ Heads(r, h) + Cut(r, sent[r.id]) <= Len(wire)
         /\ Turns(r, t)
<1>1. wire \in Seq(Token) /\ sent \in Seq(Message) /\ wire # <<>>
  BY DEF EncoderTypes, Facing
<1>2. h = wire[1] /\ Len(wire) \in Nat
  BY <1>1 DEF h
<1> HIDE DEF h
<1>3. /\ r \in State /\ r.id \in 1 .. Len(sent) /\ r.got < sent[r.id].len
      /\ h.cs \in AllCs /\ h.k = "hdr" /\ h.fmt \in 0 .. 3
      /\ q = 1 + Heads(r, h) + Cut(r, sent[r.id])
      /\ Turns(r, t)
      /\ q \in 2 .. Len(wire) + 1
  BY <1>2 DEF Facing, Chunk, Turns, Carries
<1>4. sent[r.id] \in Message /\ ValueFits(sent[r.id])
  BY <1>1, <1>3 DEF EncoderTypes
<1>5. /\ Cut(r, sent[r.id]) \in Nat \ {0}
      /\ r.got + Cut(r, sent[r.id]) <= sent[r.id].len
      /\ Ext(r, h) \in BOOLEAN /\ Heads(r, h) \in {1, 2}
  BY <1>3, <1>4, CutType, ExtType
<1>6. r.got \in Nat /\ r.size \in Nat \ {0} /\ sent[r.id].len \in Nat \ {0}
  BY <1>3, <1>4 DEF State, Message
<1>7. Heads(r, h) + Cut(r, sent[r.id]) <= Len(wire)
  BY <1>2, <1>3, <1>5
<1> QED
  BY <1>2, <1>3, <1>4, <1>5, <1>6, <1>7

\* ParseChunk finds the length, the type and the extension the encoder meant.
LEMMA Parsed ==
  ASSUME EncoderTypes, NEW r, NEW t, NEW q, Facing(r, t, q)
  PROVE  /\ HeaderTokens = Heads(r, h)
         /\ ChunkLength = Cut(r, sent[r.id])
         /\ Header.type = sent[r.id].type
         /\ Header.len = sent[r.id].len
         /\ Header.ext = Ext(r, h)
<1> DEFINE m == sent[r.id]
<1>1. /\ h = wire[1] /\ h.cs \in AllCs /\ h.fmt \in 0 .. 3
      /\ r.got \in Nat /\ r.size \in Nat \ {0} /\ m.len \in Nat \ {0} /\ r.got < m.len
  BY Faced
<1>2. /\ h.fmt \in {0, 1} => h.type = m.type /\ h.len = m.len
      /\ h.fmt \in {2, 3} => /\ h.cs \in r.has
                             /\ r.prev[h.cs].type = m.type
                             /\ r.prev[h.cs].len = m.len
  BY <1>1 DEF Facing, Chunk
<1> HIDE DEF h
<1>3. h.fmt \in {2, 3} => /\ last.type = m.type
                          /\ last.len = m.len
                          /\ last.ext = r.prev[h.cs].ext
  BY <1>1, <1>2 DEF Facing, ReaderAt, Agrees, last
<1>4. Extended = Ext(r, h)
  BY <1>3 DEF Extended, Ext
<1>5. HeaderTokens = Heads(r, h)
  BY <1>4 DEF HeaderTokens, Heads
<1>6. h.fmt \in {0, 1} \/ h.fmt \in {2, 3}
  BY <1>1
<1>7. /\ (IF h.fmt \in {0, 1} THEN h.type ELSE last.type) = m.type
      /\ (IF h.fmt \in {0, 1} THEN h.len ELSE last.len) = m.len
  BY <1>2, <1>3, <1>6
<1>8. Header.type = m.type /\ Header.len = m.len /\ Header.ext = Ext(r, h)
  BY <1>4, <1>7 DEF Header
<1>9. ChunkLength = Cut(r, m)
  <2> DEFINE S == {m.len, peerMaxChunkSize}
                  \cup (IF message = None THEN {} ELSE {message.len - Len(message.payload)})
  <2>1. ChunkLength = Smallest(S)
    BY <1>7 DEF ChunkLength
  <2>2. /\ peerMaxChunkSize = r.size
        /\ message = None => r.got = 0
        /\ message # None => message.len = m.len /\ Len(message.payload) = r.got
    BY DEF Facing, ReaderAt
  <2>3. message = None => S = {m.len, r.size}
    BY <2>2
  <2>4. message # None => S = {m.len, r.size, m.len - r.got}
    BY <2>2
  <2> HIDE DEF S, m
  <2>5. Cut(r, m) \in S /\ S \in SUBSET Int /\ \A y \in S : Cut(r, m) <= y
    BY <1>1, <2>2, <2>3, <2>4 DEF Cut
  <2> QED
    BY <2>1, <2>5, SmallestIs
<1> QED
  BY <1>5, <1>8, <1>9

\* And, if it has the header before, the timestamp.
LEMMA HeaderTime ==
  ASSUME EncoderTypes, NEW r, NEW t, NEW q, Facing(r, t, q), Fault = "none"
  PROVE  /\ Header.ts = sent[r.id].ts
         /\ Header.delta = Delta(r, h.fmt, h.cs, Carries(r))
<1>1. h = wire[1] /\ h.cs \in AllCs /\ h.fmt \in 0 .. 3 /\ h.k = "hdr" /\ Turns(r, t)
  BY Faced
<1>2. HeaderTokens = Heads(r, h) /\ Header.ext = Ext(r, h)
  BY Parsed
<1> DEFINE field == IF Extended THEN wire[2].ts ELSE h.ts
<1>3. field = Carries(r)
  <2>1. Extended = Ext(r, h)
    BY <1>2 DEF Header
  <2> QED
    BY <1>1, <2>1 DEF Carries, Carried
<1>4. /\ Header.ts = CASE h.fmt = 0 -> field
                       [] h.fmt \in {1, 2} -> (last.ts + field) % Wrap
                       [] h.fmt = 3 /\ message = None -> (last.ts + last.delta) % Wrap
                       [] OTHER -> last.ts
      /\ Header.delta = CASE h.fmt = 0 -> 0
                          [] h.fmt \in {1, 2} -> field
                          [] OTHER -> last.delta
  BY DEF Header
<1>5. h.fmt # 0 => last # None
  BY <1>1 DEF Fault
<1> HIDE DEF field, h
<1>6. h.fmt # 0 => /\ h.cs \in r.has
                   /\ last.ts = r.prev[h.cs].ts /\ last.delta = r.prev[h.cs].delta
  BY <1>1, <1>5 DEF Facing, ReaderAt, Agrees, last
<1>7. message = None <=> r.got = 0
  BY DEF Facing, ReaderAt
<1>8. TimeFits(r, sent[r.id], h.fmt, h.cs, field)
  BY <1>1, <1>3 DEF Turns
<1>9. Header.ts = sent[r.id].ts
  <2>1. CASE h.fmt = 0
    <3>1. Header.ts = field /\ field = sent[r.id].ts
      BY <1>4, <1>8, <2>1 DEF TimeFits
    <3> QED
      BY <3>1
  <2>2. CASE h.fmt \in {1, 2}
    <3>1. Header.ts = (last.ts + field) % Wrap
      BY <1>4, <2>2
    <3>2. (r.prev[h.cs].ts + field) % Wrap = sent[r.id].ts
      BY <1>6, <1>8, <2>2 DEF TimeFits
    <3>3. last.ts = r.prev[h.cs].ts
      BY <1>6, <2>2
    <3> QED
      BY <3>1, <3>2, <3>3
  <2>3. CASE h.fmt = 3
    BY <1>4, <1>6, <1>7, <1>8, <2>3 DEF TimeFits
  <2> QED
    BY <1>1, <2>1, <2>2, <2>3
<1>10. Header.delta = Delta(r, h.fmt, h.cs, field)
  <2>1. CASE h.fmt = 0
    BY <1>4, <2>1 DEF Delta
  <2>2. CASE h.fmt \in {1, 2}
    BY <1>4, <2>2 DEF Delta
  <2>3. CASE h.fmt = 3
    BY <1>4, <1>6, <2>3 DEF Delta
  <2> QED
    BY <1>1, <2>1, <2>2, <2>3
<1> QED
  BY <1>3, <1>9, <1>10

\* Where the units of the message are.
LEMMA Units ==
  ASSUME EncoderTypes, NEW r, NEW t, NEW q, Facing(r, t, q),
         NEW i \in Heads(r, h) + 1 .. Heads(r, h) + Cut(r, sent[r.id])
  PROVE  wire[i] = Payload(r.id, r.got + (i - Heads(r, h)))
<1> DEFINE heads == Heads(r, h)
           units == Cut(r, sent[r.id])
           j == i - heads
<1>1. h = wire[1] /\ heads \in {1, 2} /\ units \in Nat \ {0}
  BY Faced
<1>2. \A x \in 1 .. units : wire[1 + heads + x - 1] = Payload(r.id, r.got + x)
  BY <1>1 DEF Facing, Chunk
<1> HIDE DEF heads, units
<1>3. j \in 1 .. units /\ 1 + heads + j - 1 = i
  <2>1. i \in heads + 1 .. heads + units
    BY DEF heads, units
  <2> QED
    BY <1>1, <2>1
<1>4. wire[1 + heads + j - 1] = Payload(r.id, r.got + j)
  BY <1>2, <1>3
<1> QED
  BY <1>3, <1>4 DEF heads

\* Nothing in the chunk is out of place.
LEMMA NotLost ==
  ASSUME EncoderTypes, NEW r, NEW t, NEW q, Facing(r, t, q)
  PROVE  Fault # "lost"
<1> DEFINE m == sent[r.id]
           end == Heads(r, h) + Cut(r, m)
<1>1. /\ h = wire[1] /\ h.k = "hdr" /\ Heads(r, h) \in {1, 2} /\ Cut(r, m) \in Nat \ {0}
      /\ end <= Len(wire) /\ Ext(r, h) \in BOOLEAN
  BY Faced
<1>2. HeaderTokens = Heads(r, h) /\ ChunkLength = Cut(r, m)
  BY Parsed
<1>3. Smallest({Len(wire), HeaderTokens + ChunkLength}) = end
  <2>1. Len(wire) \in Nat
    BY DEF EncoderTypes
  <2>2. end \in Int
    BY <1>1
  <2>3. end \in {Len(wire), end} /\ {Len(wire), end} \in SUBSET Int
        /\ \A y \in {Len(wire), end} : end <= y
    <3> HIDE DEF end
    <3> QED
      BY <1>1, <2>1, <2>2
  <2>4. Smallest({Len(wire), end}) = end
    <3> HIDE DEF end
    <3> QED
      BY <2>3, SmallestIs
  <2> QED
    BY <1>2, <2>4
<1>4. ASSUME NEW i \in 1 .. end PROVE InPlace(i)
  <2>1. CASE i = 1
    BY <1>1, <2>1 DEF InPlace
  <2>2. CASE i # 1 /\ i <= Heads(r, h)
    <3>1. i = 2 /\ Heads(r, h) = 2
      BY <1>1, <2>2
    <3>2. Ext(r, h)
      BY <3>1 DEF Heads
    <3>3. wire[1 + 1].k = "ext"
      BY <1>1, <3>2 DEF Facing, Chunk
    <3> QED
      BY <1>2, <2>2, <3>1, <3>3 DEF InPlace
  <2>3. CASE i # 1 /\ ~(i <= Heads(r, h))
    <3>1. i \in Heads(r, h) + 1 .. Heads(r, h) + Cut(r, m)
      BY <1>1, <2>3
    <3>2. wire[i] = Payload(r.id, r.got + (i - Heads(r, h)))
      BY <3>1, Units
    <3>3. wire[i].k = "pay"
      BY <3>2 DEF Payload
    <3> QED
      BY <1>2, <2>3, <3>3 DEF InPlace
  <2> QED
    BY <2>1, <2>2, <2>3
<1> HIDE DEF end
<1>5. \A i \in 1 .. Smallest({Len(wire), HeaderTokens + ChunkLength}) : InPlace(i)
  BY <1>3, <1>4
<1> QED
  BY <1>1, <1>5 DEF Fault

\* What the reader has of the message with this chunk.
LEMMA AssembledIs ==
  ASSUME EncoderTypes, NEW r, NEW t, NEW q, Facing(r, t, q), Fault = "none"
  PROVE  /\ DOMAIN Assembled = {"type", "len", "ts", "payload"}
         /\ Assembled.type = sent[r.id].type
         /\ Assembled.len = sent[r.id].len
         /\ Assembled.ts = sent[r.id].ts
         /\ Assembled.payload \in Seq(Token)
         /\ Len(Assembled.payload) = r.got + Cut(r, sent[r.id])
         /\ \A i \in 1 .. r.got + Cut(r, sent[r.id]) :
               Assembled.payload[i] = Payload(r.id, i)
<1> DEFINE m == sent[r.id]
           units == Cut(r, m)
           heads == Heads(r, h)
           body == SubSeq(wire, HeaderTokens + 1, HeaderTokens + ChunkLength)
<1>1. /\ heads \in {1, 2} /\ units \in Nat \ {0} /\ heads + units <= Len(wire)
      /\ r.got \in Nat
  BY Faced
<1>2. HeaderTokens = heads /\ ChunkLength = units
  BY Parsed
<1>3. Header.type = m.type /\ Header.len = m.len /\ Header.ts = m.ts
  BY Parsed, HeaderTime
<1>4. \A i \in heads + 1 .. heads + units : wire[i] = Payload(r.id, r.got + (i - heads))
  BY Units
<1>5. wire \in Seq(Token) /\ Len(wire) \in Nat
  BY DEF EncoderTypes
<1> HIDE DEF units, heads
<1>6. /\ body \in Seq(Token) /\ Len(body) = units
      /\ \A j \in 1 .. units : body[j] = Payload(r.id, r.got + j)
  <2>1. body = SubSeq(wire, heads + 1, heads + units)
    BY <1>2
  <2>2. /\ body \in Seq(Token) /\ Len(body) = units
        /\ \A j \in 1 .. units : body[j] = wire[heads + j]
    <3>1. heads \in Nat /\ units \in Nat /\ heads + units <= Len(wire) /\ wire \in Seq(Token)
      BY <1>1, <1>5
    <3>2. /\ SubSeq(wire, heads + 1, heads + units) \in Seq(Token)
          /\ Len(SubSeq(wire, heads + 1, heads + units)) = units
          /\ \A j \in 1 .. units : SubSeq(wire, heads + 1, heads + units)[j] = wire[heads + j]
      BY <3>1, SubSeqIs
    <3> QED
      BY <2>1, <3>2
  <2>3. ASSUME NEW j \in 1 .. units PROVE wire[heads + j] = Payload(r.id, r.got + j)
    <3>1. heads + j \in heads + 1 .. heads + units /\ (heads + j) - heads = j
      BY <1>1
    <3> QED
      BY <1>4, <3>1
  <2> QED
    BY <2>2, <2>3
<1> HIDE DEF body
<1>7. CASE message = None
  <2>1. r.got = 0
    BY <1>7 DEF Facing, ReaderAt
  <2>2. Assembled = [type |-> Header.type, len |-> Header.len, ts |-> Header.ts, payload |-> body]
    BY <1>7 DEF Assembled, body
  <2>3. r.got + units = units /\ \A j \in 1 .. units : r.got + j = j
    BY <1>1, <2>1
  <2>4. \A i \in 1 .. units : body[i] = Payload(r.id, i)
    BY <1>6, <2>3
  <2>5. /\ DOMAIN Assembled = {"type", "len", "ts", "payload"}
        /\ Assembled.type = m.type /\ Assembled.len = m.len /\ Assembled.payload = body
        /\ Assembled.ts = m.ts
    BY <1>3, <2>2
  <2> QED
    BY <1>6, <2>3, <2>4, <2>5 DEF units
<1>8. CASE message # None
  <2>1. /\ DOMAIN message = {"type", "len", "ts", "payload"}
        /\ message.type = m.type /\ message.len = m.len
        /\ message.payload \in Seq(Token) /\ Len(message.payload) = r.got
        /\ \A i \in 1 .. r.got : message.payload[i] = Payload(r.id, i)
    BY <1>8 DEF Facing, ReaderAt
  <2>2. Assembled = [message EXCEPT !.ts = Header.ts, !.payload = message.payload \o body]
    BY <1>8 DEF Assembled, body
  <2>3. /\ DOMAIN Assembled = {"type", "len", "ts", "payload"}
        /\ Assembled.type = m.type /\ Assembled.len = m.len
        /\ Assembled.payload = message.payload \o body
        /\ Assembled.ts = m.ts
    BY <1>3, <2>1, <2>2
  <2> DEFINE old == message.payload
             payload == old \o body
  <2>4. /\ payload \in Seq(Token) /\ Len(payload) = r.got + units
        /\ \A i \in 1 .. r.got : payload[i] = old[i]
        /\ \A j \in 1 .. units : payload[r.got + j] = body[j]
    <3>1. old \in Seq(Token) /\ Len(old) = r.got
      BY <2>1
    <3> HIDE DEF old
    <3>2. body \in Seq(Token) /\ Len(body) = units
      BY <1>6
    <3>3. /\ payload \in Seq(Token) /\ Len(payload) = Len(old) + Len(body)
          /\ \A i \in 1 .. Len(old) : payload[i] = old[i]
          /\ \A j \in 1 .. Len(body) : payload[Len(old) + j] = body[j]
      BY <3>1, <3>2, ConcatIs
    <3> QED
      BY <3>1, <3>2, <3>3
  <2> HIDE DEF payload
  <2>5. ASSUME NEW i \in 1 .. r.got + units PROVE payload[i] = Payload(r.id, i)
    <3>1. CASE i <= r.got
      BY <1>1, <2>1, <2>4, <3>1
    <3>2. CASE ~(i <= r.got)
      <4> DEFINE j == i - r.got
      <4>1. j \in 1 .. units /\ r.got + j = i
        BY <1>1, <3>2
      <4>2. payload[r.got + j] = body[j] /\ body[j] = Payload(r.id, r.got + j)
        BY <1>6, <2>4, <4>1
      <4> QED
        BY <4>1, <4>2
    <3> QED
      BY <3>1, <3>2
  <2> QED
    BY <2>3, <2>4, <2>5 DEF payload, units
<1> QED
  BY <1>7, <1>8

\* The reader that may read a chunk faces one.
LEMMA Faces ==
  ASSUME EncoderTypes, InStep, wire # <<>>
  PROVE  \E r, s, t \in State, q \in 2 .. Len(wire) + 1 :
            Facing(r, t, q) /\ Run(SubSeq(wire, q, Len(wire)), sent, t, s) /\ EncoderAt(s)
<1>1. PICK r \in State, s \in State : Run(wire, sent, r, s) /\ ReaderAt(r) /\ EncoderAt(s)
  BY DEF InStep
<1>2. wire \in Seq(Token) /\ sent \in Seq(Message)
  BY DEF EncoderTypes
<1>3. PICK t \in State, q \in 2 .. Len(wire) + 1 :
          Chunk(wire, sent, r, t, 1, q) /\ Run(SubSeq(wire, q, Len(wire)), sent, t, s)
  BY <1>1, <1>2, RunDrops
<1>4. Facing(r, t, q)
  BY <1>1, <1>3 DEF Facing
<1> QED
  BY <1>1, <1>3, <1>4

\* The encoder's side of reading a chunk.
LEMMA Taken ==
  ASSUME EncoderTypes, NEW r, NEW t \in State, NEW q, NEW s \in State, Facing(r, t, q),
         Run(SubSeq(wire, q, Len(wire)), sent, t, s), EncoderAt(s), TakeChunk, ReaderAt(t)'
  PROVE  EncoderTypes' /\ InStep'
<1>1. /\ q = 1 + Heads(r, h) + Cut(r, sent[r.id]) /\ Heads(r, h) \in {1, 2}
      /\ Cut(r, sent[r.id]) \in Nat
  BY Faced
<1>2. HeaderTokens = Heads(r, h) /\ ChunkLength = Cut(r, sent[r.id])
  BY Parsed
<1>3. q = HeaderTokens + ChunkLength + 1
  BY <1>1, <1>2
<1>4. wire' = SubSeq(wire, q, Len(wire)) /\ UNCHANGED encVars
  BY <1>3 DEF TakeChunk
<1>5. wire' \in Seq(Token)
  <2>1. wire \in Seq(Token) /\ q \in 1 .. Len(wire) + 1
    BY DEF EncoderTypes, Facing
  <2> QED
    BY <1>4, <2>1
<1>6. EncoderTypes'
  BY <1>4, <1>5 DEF EncoderTypes, DeltaExtended, encVars
<1>7. EncoderAt(s)'
  BY <1>4 DEF EncoderAt, Completed, InMessage, Idle, encVars
<1>8. Run(wire', sent', t, s)
  BY <1>4 DEF encVars
<1> QED
  BY <1>6, <1>7, <1>8 DEF InStep

\* The reader files the header it read as the last of its chunk stream.
LEMMA FiledIs ==
  ASSUME EncoderTypes, NEW r, NEW t, NEW q, Facing(r, t, q), Fault = "none"
  PROVE  /\ DOMAIN Filed = AllCs
         /\ \A d \in AllCs :
               /\ d \in r.has \cup {h.cs} <=> Filed[d] # None
               /\ d \in r.has \cup {h.cs} => /\ Filed[d].type = t.prev[d].type
                                             /\ Filed[d].len = t.prev[d].len
                                             /\ Filed[d].ext = t.prev[d].ext
                                             /\ Filed[d].ts = t.prev[d].ts
                                             /\ Filed[d].delta = t.prev[d].delta
<1> DEFINE delta == Delta(r, h.fmt, h.cs, Carries(r))
<1>1. h.cs \in AllCs /\ Leads(r, sent[r.id], h.cs, Ext(r, h), delta, t)
  BY Faced DEF Turns
<1>2. /\ Header.type = sent[r.id].type /\ Header.len = sent[r.id].len
      /\ Header.ext = Ext(r, h) /\ Header.ts = sent[r.id].ts /\ Header.delta = delta
  BY Parsed, HeaderTime
<1>3. Header # None
  BY DEF Header, None
<1>4. /\ r \in State /\ DOMAIN lastChunk = AllCs /\ Agrees(r, lastChunk)
      /\ \A d \in r.has : lastChunk[d].delta = r.prev[d].delta
  BY DEF Facing, ReaderAt
<1>5. t.prev = [r.prev EXCEPT ![h.cs] = [type |-> sent[r.id].type, len |-> sent[r.id].len,
                                          ext |-> Ext(r, h), ts |-> sent[r.id].ts,
                                          delta |-> delta]]
  BY <1>1 DEF Leads
<1>6. r.prev \in [AllCs -> Summary]
  BY <1>4 DEF State
<1> HIDE DEF h, delta
<1>7. DOMAIN Filed = AllCs /\ Filed[h.cs] = Header
      /\ \A d \in AllCs \ {h.cs} : Filed[d] = lastChunk[d]
  BY <1>1, <1>4 DEF Filed
<1>8. /\ \A d \in AllCs \ {h.cs} : t.prev[d] = r.prev[d]
      /\ t.prev[h.cs].type = sent[r.id].type /\ t.prev[h.cs].len = sent[r.id].len
      /\ t.prev[h.cs].ext = Ext(r, h) /\ t.prev[h.cs].ts = sent[r.id].ts
      /\ t.prev[h.cs].delta = delta
  BY <1>1, <1>5, <1>6
<1> QED
  BY <1>2, <1>3, <1>4, <1>7, <1>8 DEF Agrees

\* The messages are the same, and so is what they mean.
LEMMA ToldSame ==
  ASSUME sent' = sent, NEW n PROVE Told(n)' = Told(n)
BY DEF Told, Meaning, Tags, Value

LEMMA PartRead ==
  ASSUME EncoderTypes, InStep, ReadPart
  PROVE  EncoderTypes' /\ InStep'
<1>1. /\ TakeChunk /\ ~Done /\ wire # <<>> /\ Fault = "none" /\ room' = room
      /\ message' = Assembled /\ lastChunk' = Filed /\ peerMaxChunkSize' = peerMaxChunkSize
  BY DEF ReadPart, TakeChunk, ChunkReady
<1>2. PICK r \in State, s \in State, t \in State, q \in 2 .. Len(wire) + 1 :
         Facing(r, t, q) /\ Run(SubSeq(wire, q, Len(wire)), sent, t, s) /\ EncoderAt(s)
  BY <1>1, Faces
<1> DEFINE m == sent[r.id]
           got == r.got + Cut(r, m)
<1>3. /\ r.id \in 1 .. Len(sent) /\ m.len \in Nat /\ r.got \in Nat
      /\ Cut(r, m) \in Nat \ {0} /\ got <= m.len
      /\ Leads(r, m, h.cs, Ext(r, h), Delta(r, h.fmt, h.cs, Carries(r)), t)
  BY <1>2, Faced DEF Turns
<1>4. /\ DOMAIN Assembled = {"type", "len", "ts", "payload"}
      /\ Assembled.type = m.type /\ Assembled.len = m.len /\ Assembled.ts = m.ts
      /\ Assembled.payload \in Seq(Token) /\ Len(Assembled.payload) = got
      /\ \A i \in 1 .. got : Assembled.payload[i] = Payload(r.id, i)
  BY <1>1, <1>2, AssembledIs
<1>5. got < m.len
  <2>1. got # m.len
    BY <1>1, <1>4 DEF Done
  <2>2. got \in Nat
    BY <1>3
  <2> QED
    BY <1>3, <2>1, <2>2
<1>6. t.id = r.id /\ t.got = got /\ t.size = r.size /\ t.has = r.has \cup {h.cs} /\ t.got # 0
  BY <1>3, <1>5 DEF Leads
<1> HIDE DEF got
<1>7. Assembled # None
  <2>1. "len" \notin DOMAIN None
    BY DEF None
  <2>2. "len" \in DOMAIN Assembled
    BY <1>4
  <2> QED
    BY <2>1, <2>2
<1>8. /\ DOMAIN lastChunk' = AllCs /\ Agrees(t, lastChunk')
      /\ \A c \in t.has : lastChunk'[c].delta = t.prev[c].delta
  <2>1. t.has \in SUBSET AllCs
    BY <1>2 DEF State
  <2> QED
    BY <1>1, <1>2, <1>6, <2>1, FiledIs DEF Agrees
<1>9. t.size = peerMaxChunkSize'
  BY <1>1, <1>2, <1>6 DEF Facing, ReaderAt
<1>10. sent' = sent
  BY <1>1 DEF TakeChunk, encVars
<1>12. Heard(t)'
  <2>1. Heard(r)
    BY <1>2 DEF Facing, ReaderAt
  <2>2. Told(r.id - 1)' = Told(r.id - 1)
    BY <1>10, ToldSame
  <2> QED
    BY <1>1, <1>6, <1>10, <2>1, <2>2 DEF Heard
<1>11. ReaderAt(t)'
  BY <1>1, <1>3, <1>4, <1>6, <1>7, <1>8, <1>9, <1>10, <1>12 DEF ReaderAt
<1> QED
  BY <1>1, <1>2, <1>11, Taken

\* What the room gets of the message.
Outcome ==
    CASE Assembled.type \in {"audio", "video"} ->
           <<[type |-> Assembled.type, ts |-> Assembled.ts, body |-> Places(Assembled.payload)]>>
      [] Assembled.type = "aggregate" -> Tags(Assembled)
      [] OTHER -> <<>>

\* The whole message is what it was meant to be.
LEMMA OutcomeIs ==
  ASSUME EncoderTypes, NEW r, NEW t, NEW q, Facing(r, t, q), Fault = "none", Done
  PROVE  Outcome = Meaning(r.id) /\ Intact(Assembled)
<1> DEFINE m == sent[r.id]
           got == r.got + Cut(r, m)
           whole == Assembled
<1>1. /\ whole.type = m.type /\ whole.len = m.len /\ whole.ts = m.ts
      /\ Len(whole.payload) = got
      /\ \A i \in 1 .. got : whole.payload[i] = Payload(r.id, i)
  BY AssembledIs
<1>2. got = m.len /\ m.len \in Nat \ {0}
  BY <1>1, Faced DEF Done
<1> HIDE DEF got, whole
<1>3. ASSUME NEW i \in 1 .. m.len PROVE whole.payload[i].id = r.id /\ whole.payload[i].i = i
  <2>1. i \in 1 .. got
    BY <1>2
  <2>2. whole.payload[i] = Payload(r.id, i)
    BY <1>1, <2>1
  <2> QED
    BY <2>2 DEF Payload
<1>4. whole.payload[1].id = r.id
  BY <1>2, <1>3
<1>5. Intact(whole)
  BY <1>1, <1>3, <1>4 DEF Intact
<1>6. Tags(whole) = Parts(r.id, m.ts, m.val)
  BY <1>1, <1>4, TagsAre
<1>7. Places(whole.payload) = [i \in 1 .. m.len |-> <<r.id, i>>]
  BY <1>1, <1>2, <1>3 DEF Places
<1>8. Outcome = CASE m.type \in {"audio", "video"} ->
                       <<[type |-> m.type, ts |-> m.ts, body |-> [i \in 1 .. m.len |-> <<r.id, i>>]]>>
                  [] m.type = "aggregate" -> Parts(r.id, m.ts, m.val)
                  [] OTHER -> <<>>
  <2>1. Outcome = CASE whole.type \in {"audio", "video"} ->
                         <<[type |-> whole.type, ts |-> whole.ts, body |-> Places(whole.payload)]>>
                    [] whole.type = "aggregate" -> Tags(whole)
                    [] OTHER -> <<>>
    BY DEF Outcome, whole
  <2> QED
    BY <1>1, <1>6, <1>7, <2>1
<1> QED
  BY <1>5, <1>8, MeaningIs DEF whole

LEMMA MessageRead ==
  ASSUME EncoderTypes, InStep, NEW types, NEW answer, Complete(types, answer),
         lastChunk' = IF Assembled.type = "abort" THEN [Filed EXCEPT ![Value(Assembled)] = None]
                      ELSE Filed,
         peerMaxChunkSize' = IF Assembled.type = "setChunkSize" THEN Value(Assembled)
                             ELSE peerMaxChunkSize,
         room' = room \o Outcome
  PROVE  EncoderTypes' /\ InStep'
<1>1. TakeChunk /\ Done /\ wire # <<>> /\ Fault = "none" /\ message' = None
  BY DEF Complete, TakeChunk, ChunkReady
<1>2. PICK r \in State, s \in State, t \in State, q \in 2 .. Len(wire) + 1 :
         Facing(r, t, q) /\ Run(SubSeq(wire, q, Len(wire)), sent, t, s) /\ EncoderAt(s)
  BY <1>1, Faces
<1> DEFINE m == sent[r.id]
           got == r.got + Cut(r, m)
<1>3. /\ r.id \in 1 .. Len(sent) /\ m.len \in Nat /\ r.got \in Nat
      /\ Cut(r, m) \in Nat \ {0} /\ got <= m.len /\ ValueFits(m)
      /\ Leads(r, m, h.cs, Ext(r, h), Delta(r, h.fmt, h.cs, Carries(r)), t)
  BY <1>2, Faced DEF Turns
<1>4. /\ Assembled.type = m.type /\ Assembled.len = m.len
      /\ Len(Assembled.payload) = got
      /\ \A i \in 1 .. got : Assembled.payload[i] = Payload(r.id, i)
  BY <1>1, <1>2, AssembledIs
<1>5. got = m.len /\ 1 \in 1 .. got
  BY <1>1, <1>3, <1>4 DEF Done
<1>6. /\ t.id = r.id + 1 /\ t.got = 0
      /\ t.size = IF m.type = "setChunkSize" THEN m.val ELSE r.size
      /\ t.has = (r.has \cup {h.cs}) \ (IF m.type = "abort" THEN {m.val} ELSE {})
  <2>1. ~(got < m.len)
    BY <1>3, <1>5
  <2> QED
    BY <1>3, <2>1 DEF Leads
<1> HIDE DEF got
<1>7. Value(Assembled) = m.val
  <2>1. Assembled.payload[1] = Payload(r.id, 1)
    BY <1>4, <1>5
  <2>2. Assembled.payload[1].id = r.id
    BY <2>1 DEF Payload
  <2> QED
    BY <2>2 DEF Value
<1>8. t.size = peerMaxChunkSize'
  BY <1>2, <1>4, <1>6, <1>7 DEF Facing, ReaderAt
<1>9. /\ DOMAIN Filed = AllCs
      /\ \A d \in AllCs :
            /\ d \in r.has \cup {h.cs} <=> Filed[d] # None
            /\ d \in r.has \cup {h.cs} => /\ Filed[d].type = t.prev[d].type
                                          /\ Filed[d].len = t.prev[d].len
                                          /\ Filed[d].ext = t.prev[d].ext
                                          /\ Filed[d].ts = t.prev[d].ts
                                          /\ Filed[d].delta = t.prev[d].delta
  BY <1>1, <1>2, FiledIs
<1>a. t.has \in SUBSET AllCs
  BY <1>2 DEF State
<1>10. /\ DOMAIN lastChunk' = AllCs /\ Agrees(t, lastChunk')
       /\ \A d \in t.has : lastChunk'[d].delta = t.prev[d].delta
  <2>1. CASE m.type = "abort"
    <3>1. lastChunk' = [Filed EXCEPT ![m.val] = None] /\ m.val \in AllCs
      BY <1>3, <1>4, <1>7, <2>1 DEF ValueFits, AllCs
    <3>2. /\ DOMAIN lastChunk' = AllCs /\ lastChunk'[m.val] = None
          /\ \A d \in AllCs \ {m.val} : lastChunk'[d] = Filed[d]
      BY <1>9, <3>1
    <3>3. t.has = (r.has \cup {h.cs}) \ {m.val}
      BY <1>6, <2>1
    <3> QED
      BY <1>9, <1>a, <3>2, <3>3 DEF Agrees
  <2>2. CASE m.type # "abort"
    BY <1>4, <1>6, <1>9, <1>a, <2>2 DEF Agrees
  <2> QED
    BY <2>1, <2>2
<1>12. Heard(t)'
  <2>1. Heard(r) /\ sent' = sent /\ Len(sent) \in Nat /\ r.id \in Nat
    BY <1>1, <1>2 DEF Facing, ReaderAt, TakeChunk, encVars, EncoderTypes, State
  <2>2. Outcome = Meaning(r.id)
    BY <1>1, <1>2, OutcomeIs
  <2>3. Told(r.id) = Told(r.id - 1) \o Meaning(r.id)
    BY <1>3, ToldMore
  <2>4. Told(r.id)' = Told(r.id) /\ t.id - 1 = r.id
    BY <1>6, <2>1, ToldSame
  <2>5. room' = Told(r.id)
    BY <2>1, <2>2, <2>3 DEF Heard
  <2>6. t.id \in 1 .. Len(sent') + 1
    BY <1>3, <1>6, <2>1
  <2> QED
    BY <2>4, <2>5, <2>6 DEF Heard
<1>11. ReaderAt(t)'
  BY <1>1, <1>6, <1>8, <1>10, <1>12 DEF ReaderAt
<1> QED
  BY <1>1, <1>2, <1>11, Taken

-----------------------------------------------------------------------------
(* The theorem. *)

LEMMA Unmoved ==
  ASSUME EncoderTypes, InStep,
         UNCHANGED <<sent, complete, left, encLast, encChunkSize, wire, lastChunk, message,
                     peerMaxChunkSize, room>>
  PROVE  EncoderTypes' /\ InStep'
<1>1. EncoderTypes'
  BY DEF EncoderTypes, DeltaExtended
<1>2. PICK r \in State, s \in State : Run(wire, sent, r, s) /\ ReaderAt(r) /\ EncoderAt(s)
  BY DEF InStep
<1>3. ReaderAt(r)'
  <2>1. sent \in Seq(Message) /\ Knows(sent', sent)
    BY DEF EncoderTypes, Knows
  <2> QED
    BY <1>2, <2>1, ReaderKept
<1>4. EncoderAt(s)'
  BY <1>2 DEF EncoderAt, Completed, InMessage, Idle
<1>5. Run(wire', sent', r, s)
  BY <1>2
<1> QED
  BY <1>1, <1>3, <1>4, <1>5 DEF InStep

\* What the room has is a part of what the encoder meant, and all of it when
\* nothing is left to read.
LEMMA Whole ==
  ASSUME EncoderTypes, InStep
  PROVE  IsPrefix(room, Meant) /\ (wire = <<>> => room = Meant)
<1>1. PICK r \in State, s \in State : Run(wire, sent, r, s) /\ ReaderAt(r) /\ EncoderAt(s)
  BY DEF InStep
<1>2. PICK n, B, St : Trace(wire, sent, n, B, St) /\ St[1] = r /\ St[n + 1] = s
  BY <1>1 DEF Run
<1>3. r.id <= s.id
  <2>1. n \in Nat /\ (n # 0 => 1 \in 1 .. n + 1 /\ n + 1 \in 1 .. n + 1 /\ 1 < n + 1)
    BY <1>2 DEF Trace
  <2>2. CASE n = 0
    <3>1. r = s
      BY <1>2, <2>2
    <3> QED
      BY <3>1 DEF State
  <2>3. CASE n # 0
    BY <1>2, <2>1, <2>3 DEF Trace
  <2> QED
    BY <2>2, <2>3
<1>4. r.id \in 1 .. Len(sent) + 1 /\ room = Told(r.id - 1) /\ Len(sent) \in Nat
  BY <1>1 DEF ReaderAt, Heard, EncoderTypes
<1>5. s.id \in Nat /\ s.id <= Len(sent) + 1
  BY <1>1, <1>4 DEF State, EncoderAt
<1>6. Meant = Told(s.id - 1)
  <2>1. Len(complete) = s.id - 1 /\ \A k \in 1 .. s.id - 1 : complete[k] = k
    BY <1>1 DEF EncoderAt, Completed
  <2>2. [k \in 1 .. Len(complete) |-> Meaning(complete[k])] = [k \in 1 .. s.id - 1 |-> Meaning(k)]
    BY <2>1
  <2> QED
    BY <2>2 DEF Meant, Told
<1>7. IsPrefix(room, Meant)
  <2>1. s.id - 1 \in 0 .. Len(sent) /\ r.id - 1 \in 0 .. s.id - 1
    BY <1>3, <1>4, <1>5
  <2> QED
    BY <1>4, <1>6, <2>1, ToldPrefix
<1>8. ASSUME wire = <<>> PROVE r = s
  <2>1. n \in Nat /\ B[1] = 1 /\ B[n + 1] = 1 /\ B \in [1 .. n + 1 -> Int]
        /\ \A i, j \in 1 .. n + 1 : i < j => B[i] < B[j]
    BY <1>2, <1>8 DEF Trace
  <2>2. n = 0
    <3>1. ASSUME n # 0 PROVE FALSE
      <4>1. 1 \in 1 .. n + 1 /\ n + 1 \in 1 .. n + 1 /\ 1 < n + 1
        BY <2>1, <3>1
      <4>2. B[1] < B[n + 1]
        BY <2>1, <4>1
      <4> QED
        BY <2>1, <4>2
    <3> QED
      BY <3>1
  <2> QED
    BY <1>2, <2>2
<1> QED
  BY <1>4, <1>6, <1>7, <1>8

\* The same when neither the messages nor the room are touched.
LEMMA StaysPrefix ==
  ASSUME IsPrefix(room, Meant), UNCHANGED <<sent, complete, room>>
  PROVE  IsPrefix(room, Meant)'
<1>2. [k \in 1 .. Len(complete') |-> Meaning(complete[k])'] =
      [k \in 1 .. Len(complete) |-> Meaning(complete[k])]
  <2>1. complete' = complete /\ sent' = sent
    OBVIOUS
  <2> QED
    BY <2>1 DEF Meaning, Tags, Value
<1>1. Meant' = Meant
  BY <1>2 DEF Meant
<1> QED
  BY <1>1

LEMMA FrameInit ==
  ASSUME Init PROVE FrameInv
<1> DEFINE s == [id |-> 1, got |-> 0, size |-> DefaultChunkSize, has |-> {},
                 prev |-> [c \in AllCs |-> [type |-> "audio", len |-> 1, ext |-> FALSE,
                                           ts |-> 0, delta |-> 0]]]
           B == [i \in 1 .. 0 + 1 |-> 1]
           St == [i \in 1 .. 0 + 1 |-> s]
<1>1. DefaultChunkSize \in Nat \ {0} /\ 0 \in Uint
  BY ChunkAssumption DEF Uint
<1>2. s \in State
  BY <1>1 DEF State, Summary, MessageTypes
<1>3. s.id = 1 /\ s.got = 0 /\ s.size = DefaultChunkSize /\ s.has = {}
  OBVIOUS
<1> HIDE DEF s
<1>4. sent = <<>> /\ wire = <<>> /\ Len(<<>>) = 0
  BY DEF Init
<1>5. /\ encChunkSize = DefaultChunkSize /\ peerMaxChunkSize = DefaultChunkSize
      /\ left = [c \in AllCs |-> [id |-> 0, units |-> 0]]
      /\ encLast = [c \in AllCs |-> None] /\ lastChunk = [c \in AllCs |-> None]
      /\ message = None /\ conn = "open" /\ complete = <<>> /\ room = <<>>
  BY DEF Init
<1>6. EncoderTypes
  BY <1>1, <1>4, <1>5 DEF EncoderTypes, DeltaExtended
<1>7. Trace(wire, sent, 0, B, St)
  <2>1. B \in [1 .. 0 + 1 -> Int] /\ St \in [1 .. 0 + 1 -> State] /\ B[1] = 1 /\ B[0 + 1] = 1
    BY <1>2
  <2> HIDE DEF B, St
  <2> QED
    BY <1>4, <2>1 DEF Trace
<1>8. St[1] = s /\ St[0 + 1] = s
  OBVIOUS
<1>9. Run(wire, sent, s, s)
  <2> HIDE DEF B, St
  <2> QED
    BY <1>7, <1>8 DEF Run
<1>10. EncoderAt(s) /\ ReaderAt(s)
  <2>1. Told(0) = <<>>
    BY DEF Told, FlattenSeq
  <2>2. Heard(s) /\ Completed(s)
    BY <1>3, <1>4, <1>5, <2>1 DEF Heard, Completed
  <2> QED
    BY <1>3, <1>4, <1>5, <2>2 DEF EncoderAt, ReaderAt, Agrees, Idle
<1> QED
  BY <1>2, <1>5, <1>6, <1>9, <1>10 DEF FrameInv, InStep

LEMMA EncoderStep ==
  ASSUME Sequential, EncoderTypes, InStep,
         EncodeFrame \/ EncodeAggregate \/ AnnounceChunkSize \/ AnnounceWindow
         \/ EncodePing \/ EncodeIgnored \/ EncodeBadCommand \/ Abort \/ Continue
         \/ EncoderReceives
  PROVE  EncoderTypes' /\ InStep' /\ conn' = conn
<1>1. ASSUME NEW c \in MediaCs, NEW type \in {"audio", "video", "aggregate"},
             NEW len \in Lengths, NEW ts \in Times, NEW subs \in Aggregates \cup {<<>>},
             NEW fmt \in 0 .. 3, EncodeMedia(c, type, len, ts, subs, fmt)
      PROVE  EncoderTypes' /\ InStep' /\ conn' = conn
  <2> DEFINE m == [type |-> type, len |-> len, ts |-> ts, val |-> subs]
  <2>1. m \in Message /\ ValueFits(m) /\ m.type # "abort" /\ m.type # "setChunkSize"
    <3>1. len \in Nat \ {0} /\ ts \in Uint /\ subs \in Values
      BY ChunkAssumption DEF Values
    <3>2. subs \in Seq(SubMessage)
      <4>1. CASE subs = <<>>
        BY <4>1
      <4>2. CASE subs \in Aggregates
        BY <4>2, ChunkAssumption DEF SubMessage
      <4> QED
        BY <4>1, <4>2
    <3> QED
      BY <3>1, <3>2 DEF Message, MessageTypes, ValueFits
  <2>2. Begin(c, m, fmt) /\ encChunkSize' = encChunkSize /\ c \in AllCs
    BY <1>1 DEF EncodeMedia, AllCs
  <2> HIDE DEF m
  <2>3. EncoderTypes' /\ InStep'
    BY <2>1, <2>2, Begins
  <2> QED
    BY <2>2, <2>3 DEF Begin, readVars
<1>2. ASSUME NEW type \in MessageTypes \ {"abort", "aggregate"}, NEW val \in Values,
             type = "setChunkSize" => val \in ChunkSizes,
             Begin(ControlCs, Control(type, val), 0),
             encChunkSize' = IF type = "setChunkSize" THEN val ELSE encChunkSize
      PROVE  EncoderTypes' /\ InStep' /\ conn' = conn
  <2> DEFINE m == Control(type, val)
  <2>1. /\ m \in Message /\ ValueFits(m) /\ m.type # "abort" /\ ControlCs \in AllCs
        /\ encChunkSize' = IF m.type = "setChunkSize" THEN m.val ELSE encChunkSize
    <3>1. /\ m = [type |-> type, len |-> 1, ts |-> 0, val |-> val]
          /\ m.type = type /\ m.len = 1 /\ m.val = val
      BY DEF Control
    <3>2. m \in Message
      <4>1. 0 \in Uint
        BY ChunkAssumption DEF Uint
      <4> QED
        BY <3>1, <4>1 DEF Message
    <3> HIDE DEF m
    <3>3. ValueFits(m)
      BY <1>2, <3>1, ChunkAssumption DEF ValueFits
    <3> QED
      BY <1>2, <3>1, <3>2, <3>3 DEF AllCs
  <2>2. Begin(ControlCs, m, 0) /\ 0 \in 0 .. 3
    BY <1>2
  <2> HIDE DEF m
  <2>3. EncoderTypes' /\ InStep'
    BY <2>1, <2>2, Begins
  <2> QED
    BY <2>2, <2>3 DEF Begin, readVars
<1>3. CASE EncodeFrame
  <2>1. PICK c \in MediaCs, type \in FrameTypes, len \in Lengths, ts \in Times, fmt \in 0 .. 3 :
            EncodeMedia(c, type, len, ts, <<>>, fmt)
    BY <1>3 DEF EncodeFrame
  <2>2. type \in {"audio", "video", "aggregate"} /\ <<>> \in Aggregates \cup {<<>>}
    BY ChunkAssumption
  <2> QED
    BY <1>1, <2>1, <2>2
<1>4. CASE EncodeAggregate
  BY <1>1, <1>4 DEF EncodeAggregate
<1>5. CASE AnnounceChunkSize
  <2>1. PICK size \in ChunkSizes : EncodeChunkSize(size)
    BY <1>5 DEF AnnounceChunkSize
  <2>2. "setChunkSize" \in MessageTypes \ {"abort", "aggregate"} /\ size \in Values
    BY DEF MessageTypes, Values
  <2> QED
    BY <1>2, <2>1, <2>2 DEF EncodeChunkSize
<1>6. CASE AnnounceWindow
  <2>1. PICK size \in Windows : EncodeWindow(size)
    BY <1>6 DEF AnnounceWindow
  <2>2. "windowAckSize" \in MessageTypes \ {"abort", "aggregate"} /\ size \in Values
    BY DEF MessageTypes, Values
  <2> QED
    BY <1>2, <2>1, <2>2 DEF EncodeWindow
<1>7. CASE EncodePing \/ EncodeIgnored \/ EncodeBadCommand
  <2>1. PICK type \in {"ping", "ignored", "badCommand"} : EncodeOther(type)
    BY <1>7 DEF EncodePing, EncodeIgnored, EncodeBadCommand
  <2>2. type \in MessageTypes \ {"abort", "aggregate"} /\ type # "setChunkSize" /\ 0 \in Values
    BY DEF MessageTypes, Values
  <2> QED
    BY <1>2, <2>1, <2>2 DEF EncodeOther
<1>8. CASE Abort
  <2>1. PICK c \in MediaCs : EncodeAbort(c)
    BY <1>8 DEF Abort
  <2> QED
    BY <2>1, Aborts DEF EncodeAbort, readVars
<1>9. CASE Continue
  <2>1. PICK c \in AllCs : EncodeContinuation(c)
    BY <1>9 DEF Continue
  <2> QED
    BY <2>1, Continues DEF EncodeContinuation, readVars
<1>10. CASE EncoderReceives
  BY <1>10, Unmoved DEF EncoderReceives, readVars
<1> QED
  BY <1>3, <1>4, <1>5, <1>6, <1>7, <1>8, <1>9, <1>10

LEMMA RoomType ==
  ASSUME EncoderTypes, InStep PROVE room \in Seq(Tag)
<1>1. PICK r \in State, s \in State : Run(wire, sent, r, s) /\ ReaderAt(r) /\ EncoderAt(s)
  BY DEF InStep
<1> DEFINE n == r.id - 1
           q == [k \in 1 .. n |-> Meaning(k)]
<1>2. n \in 0 .. Len(sent) /\ room = Told(n) /\ Len(sent) \in Nat
  BY <1>1 DEF ReaderAt, Heard, EncoderTypes
<1> HIDE DEF n
<1>3. \A k \in 1 .. n : Meaning(k) \in Seq(Tag)
  BY <1>2, MeaningType
<1>4. q \in Seq(Seq(Tag)) /\ <<>> \in Seq(Tag)
  BY <1>2, <1>3
<1> HIDE DEF q
<1>5. FlattenSeq(q) \in Seq(Tag)
  BY <1>4, FlattenMore
<1> QED
  BY <1>2, <1>5 DEF Told, q

LEMMA AppendIs ==
  ASSUME NEW u \in Seq(Tag), NEW x PROVE Append(u, x) = u \o <<x>>
OBVIOUS

LEMMA ReaderStep ==
  ASSUME EncoderTypes, InStep, conn = "open", ReadChunk
  PROVE  /\ conn' # "lost"
         /\ conn' = "open" => EncoderTypes' /\ InStep'
         /\ conn' # "open" => IsPrefix(room, Meant)'
<1>1. ASSUME NEW types, types \cap {"abort", "setChunkSize"} = {}, Complete(types, <<>>),
             lastChunk' = Filed, peerMaxChunkSize' = peerMaxChunkSize, room' = room \o Outcome
      PROVE  EncoderTypes' /\ InStep'
  <2>1. Assembled.type # "abort" /\ Assembled.type # "setChunkSize"
    BY <1>1 DEF Complete
  <2> QED
    BY <1>1, <2>1, MessageRead
<1>a. room \o <<>> = room
  <2>1. room \in Seq(Tag)
    BY RoomType
  <2> QED
    BY <2>1
<1>b. ASSUME NEW types, types \cap {"audio", "video", "aggregate"} = {},
             NEW answer, Complete(types, answer), room' = room
      PROVE  room' = room \o Outcome
  <2>1. Assembled.type \notin {"audio", "video", "aggregate"}
    BY <1>b DEF Complete
  <2>2. Outcome = <<>>
    BY <2>1 DEF Outcome
  <2> QED
    BY <1>a, <1>b, <2>2
<1>2. CASE ReadPart
  BY <1>2, PartRead DEF ReadPart
<1>3. CASE ReadMedia
  <2>1. Assembled.type \in {"audio", "video"}
    BY <1>3 DEF ReadMedia, Complete
  <2>2. room' = room \o Outcome
    <3>1. room \in Seq(Tag)
      BY RoomType
    <3>2. room' = Append(room, [type |-> Assembled.type, ts |-> Assembled.ts,
                                body |-> Places(Assembled.payload)])
      BY <1>3 DEF ReadMedia
    <3>3. Outcome = <<[type |-> Assembled.type, ts |-> Assembled.ts,
                       body |-> Places(Assembled.payload)]>>
      BY <2>1 DEF Outcome
    <3> QED
      BY <3>1, <3>2, <3>3, AppendIs
  <2> QED
    BY <1>1, <1>3, <2>2 DEF ReadMedia
<1>4. CASE ReadAggregate
  <2>1. /\ Complete({"aggregate"}, <<>>) /\ Assembled.type = "aggregate" /\ Done
        /\ Fault = "none" /\ wire # <<>>
    BY <1>4 DEF ReadAggregate, Complete, TakeChunk, ChunkReady
  <2>2. Intact(Assembled)
    <3>1. PICK r \in State, s \in State, t \in State, q \in 2 .. Len(wire) + 1 :
             Facing(r, t, q)
      BY <2>1, Faces
    <3> QED
      BY <2>1, <3>1, OutcomeIs
  <2>3. room' = room \o Tags(Assembled) /\ conn' = conn
    BY <1>4, <2>2 DEF ReadAggregate
  <2>4. room' = room \o Outcome
    BY <2>1, <2>3 DEF Outcome
  <2>5. EncoderTypes' /\ InStep'
    BY <1>1, <1>4, <2>1, <2>4 DEF ReadAggregate
  <2> QED
    BY <2>3, <2>5
<1>5. CASE ReadChunkSize
  <2>1. /\ Complete({"setChunkSize"}, <<>>) /\ lastChunk' = Filed
        /\ peerMaxChunkSize' = Value(Assembled) /\ conn' = conn /\ room' = room
    BY <1>5 DEF ReadChunkSize
  <2>2. Assembled.type = "setChunkSize"
    BY <2>1 DEF Complete
  <2>3. room' = room \o Outcome
    BY <1>b, <2>1
  <2> QED
    BY <2>1, <2>2, <2>3, MessageRead
<1>6. CASE ReadWindow
  <2>1. room' = room \o Outcome
    BY <1>b, <1>6 DEF ReadWindow
  <2> QED
    BY <1>1, <1>6, <2>1 DEF ReadWindow
<1>7. CASE ReadAbort
  <2>1. /\ Complete({"abort"}, <<>>) /\ lastChunk' = [Filed EXCEPT ![Value(Assembled)] = None]
        /\ peerMaxChunkSize' = peerMaxChunkSize /\ conn' = conn /\ room' = room
    BY <1>7 DEF ReadAbort
  <2>2. Assembled.type = "abort"
    BY <2>1 DEF Complete
  <2>3. room' = room \o Outcome
    BY <1>b, <2>1
  <2> QED
    BY <2>1, <2>2, <2>3, MessageRead
<1>8. CASE ReadPing
  <2>1. /\ Complete({"ping"}, <<[type |-> "pong", val |-> Value(Assembled)]>>)
        /\ lastChunk' = Filed /\ peerMaxChunkSize' = peerMaxChunkSize /\ conn' = conn
        /\ room' = room
    BY <1>8 DEF ReadPing
  <2>2. Assembled.type = "ping"
    BY <2>1 DEF Complete
  <2>3. room' = room \o Outcome
    BY <1>b, <2>1
  <2> QED
    BY <2>1, <2>2, <2>3, MessageRead
<1>9. CASE ReadIgnored
  <2>1. room' = room \o Outcome
    BY <1>b, <1>9 DEF ReadIgnored
  <2> QED
    BY <1>1, <1>9, <2>1 DEF ReadIgnored
<1>10. CASE ReadFails
  <2>3. UNCHANGED <<sent, complete, room>>
    BY <1>10 DEF ReadFails, Complete, TakeChunk, encVars
  <2>4. IsPrefix(room, Meant)'
    BY <2>3, Whole, StaysPrefix
  <2>1. CASE wire # <<>> /\ Fault # "none" /\ conn' = Fault
    <3>1. PICK r \in State, s \in State, t \in State, q \in 2 .. Len(wire) + 1 :
             Facing(r, t, q)
      BY <2>1, Faces
    <3>2. Fault # "lost"
      BY <3>1, NotLost
    <3>3. Fault \in {"lost", "closed", "none"}
      BY DEF Fault
    <3> QED
      BY <2>1, <2>4, <3>2, <3>3
  <2>2. CASE conn' = "closed"
    BY <2>2, <2>4
  <2> QED
    BY <1>10, <2>1, <2>2 DEF ReadFails
<1> QED
  BY <1>2, <1>3, <1>4, <1>5, <1>6, <1>7, <1>8, <1>9, <1>10 DEF ReadChunk

LEMMA FrameNext ==
  ASSUME Sequential, FrameInv, [Next]_vars PROVE FrameInv'
<1>1. CASE UNCHANGED vars
  <2>1. UNCHANGED <<sent, complete, left, encLast, encChunkSize, wire, lastChunk, message,
                    peerMaxChunkSize, conn, room>>
    BY <1>1 DEF vars, encVars, readVars
  <2> QED
    BY <2>1, Unmoved, StaysPrefix DEF FrameInv
<1>2. CASE EncodeFrame \/ EncodeAggregate \/ AnnounceChunkSize \/ AnnounceWindow
           \/ EncodePing \/ EncodeIgnored \/ EncodeBadCommand \/ Abort \/ Continue
           \/ EncoderReceives
  <2>1. CASE conn = "open"
    BY <1>2, <2>1, EncoderStep DEF FrameInv
  <2>2. CASE conn # "open"
    <3>1. ASSUME NEW c, NEW m, NEW fmt PROVE ~Begin(c, m, fmt)
      BY <2>2 DEF Begin, MayBegin
    <3>2. ~(EncodeFrame \/ EncodeAggregate \/ AnnounceChunkSize \/ AnnounceWindow
            \/ EncodePing \/ EncodeIgnored \/ EncodeBadCommand)
      BY <3>1 DEF EncodeFrame, EncodeAggregate, AnnounceChunkSize, AnnounceWindow,
         EncodePing, EncodeIgnored, EncodeBadCommand,
         EncodeMedia, EncodeChunkSize, EncodeWindow, EncodeOther
    <3>3. ~Abort /\ ~Continue
      BY <2>2 DEF Abort, Continue, EncodeAbort, EncodeContinuation
    <3>4. conn' = conn /\ UNCHANGED <<sent, complete, room>>
      BY <1>2, <3>2, <3>3 DEF EncoderReceives, readVars
    <3> QED
      BY <2>2, <3>4, StaysPrefix DEF FrameInv
  <2> QED
    BY <2>1, <2>2
<1>3. CASE ReadChunk
  <2>1. conn = "open"
    BY <1>3 DEF ReadChunk, ReadPart, ReadMedia, ReadAggregate, ReadChunkSize, ReadWindow,
       ReadAbort, ReadPing, ReadIgnored, ReadFails, Complete, TakeChunk, ChunkReady
  <2> QED
    BY <1>3, <2>1, ReaderStep DEF FrameInv
<1> QED
  BY <1>1, <1>2, <1>3 DEF Next

\* The reader never loses the framing of the stream, for an encoder that
\* sends its messages one after the other: chunk sizes, lengths and extended
\* timestamps are agreed on at every byte, whatever formats of header it uses
\* and wherever its window stops it (chunk.go:71-205, message.go:114-190).
THEOREM StaysInFrame ==
  ASSUME Sequential
  PROVE  Spec => []InFrame
<1>1. Init => FrameInv
  BY FrameInit
<1>2. FrameInv /\ [Next]_vars => FrameInv'
  BY FrameNext
<1>3. FrameInv => InFrame
  BY DEF FrameInv, InFrame
<1> QED
  BY <1>1, <1>2, <1>3, PTL DEF Spec

\* Whatever formats of header the encoder uses, and wherever its window stops
\* it between two chunks, the room gets every message it completed, whole, in
\* order and at the time it was sent at; and once the stream has been read,
\* nothing is missing (chunk.go:71-205, message.go:114-190,
\* aggregate_message.go:34-99).
THEOREM MessagesArriveWhole ==
  ASSUME Sequential
  PROVE  Spec => []MessagesWhole
<1>1. Init => FrameInv
  BY FrameInit
<1>2. FrameInv /\ [Next]_vars => FrameInv'
  BY FrameNext
<1>3. FrameInv => MessagesWhole
  BY Whole DEF FrameInv, MessagesWhole, Meant
<1> QED
  BY <1>1, <1>2, <1>3, PTL DEF Spec

=============================================================================
