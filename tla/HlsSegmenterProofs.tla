------------------------- MODULE HlsSegmenterProofs -------------------------
(***************************************************************************)
(* An HLS instance is a live window, for every window size, clock and       *)
(* number of requests, with Stop in another goroutine at any point; the    *)
(* parts of a segment tile it; and, as long as writes do not fail, every    *)
(* segment begins with a key frame.                                         *)
(***************************************************************************)
EXTENDS HlsSegmenter, TLAPS

Segment == [seq : Seqs, parts : Seq(Part), bytes : Bytes, first : Firsts]

-----------------------------------------------------------------------------
(* Types.  The bounds on bytes and segments are guards of Read, and what was   *)
(* read is written and recorded later: what is left then is known by where the *)
(* writer stands.                                                              *)

BytesLeft == (wpc = "open" => cur.bytes = 0) /\ (wpc = "mux" => cur.bytes < MaxBytes)
SegmentsLeft ==
    /\ wpc = "record" => ~file
    /\ wpc \in {"create", "record"} \/ file => nextSeq < MaxSegments
    /\ wpc \in {"tail", "close", "record"} /\ ~exiting => nextSeq + 1 < MaxSegments
TypeInv == TypeOK /\ BytesLeft /\ SegmentsLeft

LEMMA ElapsedType == \A a, b \in Int : Elapsed(a, b) \in 0 .. Wrap - 1
  BY SegmenterAssumption DEF SegmenterAssumption, Elapsed

\* Waking, answering and expiring keep a request a request.
Request == [at : {"idle", "check", "parked", "answered"}, msn : Seqs, part : 0 .. 1,
            expired : BOOLEAN, timer : BOOLEAN]
LEMMA BroadcastType ==
  ASSUME waiters \in [Waiters -> Request], Broadcast
  PROVE  waiters' \in [Waiters -> Request]
  BY DEF Broadcast, Request

LEMMA WaitersType ==
  ASSUME waiters \in [Waiters -> Request],
         NEW w \in Waiters, Ask(w) \/ Check(w) \/ Expire(w) \/ SleeperWakes(w)
  PROVE  waiters' \in [Waiters -> Request]
<1> USE DEF Request
<1>1. CASE Ask(w)
  BY <1>1 DEF Ask
<1>2. CASE Check(w)
  BY <1>2 DEF Check
<1>3. CASE Expire(w)
  BY <1>3 DEF Expire
<1>4. CASE SleeperWakes(w)
  BY <1>4 DEF SleeperWakes
<1> QED
  BY <1>1, <1>2, <1>3, <1>4

\* A recorded part is a part.
LEMMA ClosePartType ==
  ASSUME TypeOK, NEW t \in Times, ClosePart(t) \/ UNCHANGED <<parts, cur, waiters>>
  PROVE  /\ parts' \in Seq(Part)
         /\ cur' \in [start : Times, end : Times, pstart : Times, poff : Bytes,
                      bytes : Bytes, first : Firsts]
         /\ cur'.bytes = cur.bytes /\ cur'.first = cur.first
         /\ waiters' \in [Waiters -> Request]
<1> USE SegmenterAssumption DEF SegmenterAssumption, TypeOK
<1>1. CASE UNCHANGED <<parts, cur, waiters>>
  BY <1>1 DEF Request
<1>2. CASE ClosePart(t) /\ ~UNCHANGED <<parts, cur, waiters>>
  <2> DEFINE part == [off |-> cur.poff, len |-> cur.bytes - cur.poff,
                      dur |-> Elapsed(t, cur.pstart)]
  <2>1. /\ cur.bytes > cur.poff
        /\ parts' = Append(parts, part)
        /\ cur' = [cur EXCEPT !.pstart = t, !.poff = cur.bytes]
        /\ Broadcast
    BY <1>2 DEF ClosePart
  <2>2. cur.bytes \in Nat /\ cur.poff \in Nat /\ t \in Int /\ cur.pstart \in Int
    BY DEF Times, Bytes
  <2>3. cur.bytes - cur.poff \in Bytes
    BY <2>1, <2>2 DEF Bytes
  <2>4. part \in Part
    BY <2>2, <2>3, ElapsedType DEF Part
  <2> HIDE DEF part
  <2>5. waiters' \in [Waiters -> Request]
    BY <2>1, BroadcastType DEF Request
  <2>6. parts' \in Seq(Part)
    BY <2>1, <2>4
  <2>7. t \in Times /\ cur.bytes \in Bytes
    OBVIOUS
  <2> QED
    BY <2>1, <2>5, <2>6, <2>7
<1> QED
  BY <1>1, <1>2

LEMMA WindowType ==
  ASSUME NEW S, NEW s \in Seq(S)
  PROVE  /\ Window(s) \in Seq(S)
         /\ Len(Window(s)) = IF Len(s) > WindowSize THEN WindowSize ELSE Len(s)
         /\ \A i \in 1 .. Len(Window(s)) : Window(s)[i] = s[Len(s) - Len(Window(s)) + i]
<1>0. WindowSize \in Nat \ {0}
  BY SegmenterAssumption DEF SegmenterAssumption
<1>1. CASE Len(s) > WindowSize
  <2> DEFINE m == Len(s) - WindowSize + 1
  <2>1. m \in 1 .. Len(s) /\ Len(s) \in Nat /\ Window(s) = SubSeq(s, m, Len(s))
    BY <1>0, <1>1 DEF Window
  <2> HIDE DEF m
  <2>2. SubSeq(s, m, Len(s)) \in Seq(S) /\ Len(SubSeq(s, m, Len(s))) = Len(s) - m + 1
    BY <2>1
  <2>3. \A i \in 1 .. Len(s) - m + 1 : SubSeq(s, m, Len(s))[i] = s[m + i - 1]
    BY <2>1
  <2> QED
    BY <1>0, <1>1, <2>1, <2>2, <2>3 DEF m
<1>2. CASE ~(Len(s) > WindowSize)
  BY <1>0, <1>2 DEF Window
<1> QED
  BY <1>1, <1>2

(* The types of each group of variables, and the steps that disturb them.      *)
WriterTypes ==
    /\ wpc \in {"mkdir", "loop", "read", "create", "open", "mux", "part", "tail",
                "close", "record", "return", "returned", "panic"}
    /\ exiting \in BOOLEAN
    /\ tag \in [kind : Kinds, dts : Times]
    /\ clock \in Times
HandleTypes == file \in BOOLEAN /\ writable \in BOOLEAN
Cur == [start : Times, end : Times, pstart : Times, poff : Bytes, bytes : Bytes,
        first : Firsts]
PartTypes == cur \in Cur /\ parts \in Seq(Part) /\ waiters \in [Waiters -> Request]
WindowTypes ==
    /\ segments \in Seq(Segment)
    /\ nextSeq \in Seqs
    /\ disk \subseteq Seqs /\ doomed \subseteq Seqs
FlagTypes ==
    /\ dead \in BOOLEAN /\ named \in BOOLEAN /\ ready \in BOOLEAN
    /\ spc \in {"none", "close", "nil", "lock", "remove", "ready", "done"}

LEMMA TypeGroups ==
  TypeOK <=> WriterTypes /\ HandleTypes /\ PartTypes /\ WindowTypes /\ FlagTypes
  BY DEF TypeOK, WriterTypes, HandleTypes, PartTypes, WindowTypes, FlagTypes, Cur, Segment,
         Request

LEMMA TypeInit == Init => TypeInv
<1> SUFFICES ASSUME Init PROVE TypeInv
  OBVIOUS
<1>1. 0 \in Times /\ 0 \in Seqs /\ 0 \in Bytes
  BY SegmenterAssumption DEF SegmenterAssumption, Times, Seqs, Bytes
<1>2. WriterTypes /\ HandleTypes /\ FlagTypes
  BY <1>1 DEF Init, WriterTypes, HandleTypes, FlagTypes, Kinds
<1>3. PartTypes
  BY <1>1 DEF Init, PartTypes, Cur, Firsts, Request
<1>4. WindowTypes
  BY <1>1 DEF Init, WindowTypes
<1>5. BytesLeft /\ SegmentsLeft
  BY DEF Init, BytesLeft, SegmentsLeft
<1> QED
  BY <1>2, <1>3, <1>4, <1>5, TypeGroups DEF TypeInv

LEMMA WriterNext == TypeInv /\ Next => WriterTypes' /\ HandleTypes' /\ FlagTypes'
<1> SUFFICES ASSUME TypeInv, Next PROVE WriterTypes' /\ HandleTypes' /\ FlagTypes'
  OBVIOUS
<1>0. WriterTypes /\ HandleTypes /\ FlagTypes
  BY TypeGroups DEF TypeInv
<1>1. CASE Read
  <2>1. PICK k \in Kinds, t \in Times :
         /\ IF k = "audio"
            THEN t \in clock - AudioLag .. clock /\ UNCHANGED clock
            ELSE t \in clock .. clock + 1 /\ clock' = t
         /\ tag' = [kind |-> k, dts |-> t]
         /\ wpc' = AfterRead([kind |-> k, dts |-> t])
    BY <1>1 DEF Read
  <2>2. wpc' \in {"create", "loop", "tail", "mux"} /\ clock' \in Times
    BY <1>0, <2>1 DEF AfterRead, WriterTypes
  <2> QED
    BY <1>0, <1>1, <2>1, <2>2
       DEF Read, WriterTypes, HandleTypes, FlagTypes, fileVars, shared, stopVars
<1>2. CASE ~Read
  <2>1. UNCHANGED <<tag, clock>>
    BY <1>2 DEF Next, Writer, Stop, Mkdir, Loop, ReadDead, CreateFile, CreateFails, OpenSegment,
         Mux, MuxFails, PartBoundary, FinaliseTail, FinaliseClose, FinaliseRecord, Return,
         PublisherGone, StopBegin, StopClose, StopNil, StopTakesSegments, StopRemove, StopReady,
         Ask, Check, Expire, SleeperWakes, writerVars
  <2>2. /\ wpc' \in {"mkdir", "loop", "read", "create", "open", "mux", "part", "tail",
                     "close", "record", "return", "returned", "panic"}
        /\ exiting' \in BOOLEAN
    BY <1>0, <1>2
       DEF WriterTypes, Next, Writer, Stop, Mkdir, Loop, ReadDead, CreateFile, CreateFails,
         OpenSegment, Mux, MuxFails, PartBoundary, FinaliseTail, FinaliseClose, FinaliseRecord,
         Return, PublisherGone, StopBegin, StopClose, StopNil, StopTakesSegments, StopRemove,
         StopReady, Ask, Check, Expire, SleeperWakes, writerVars, Fail, AfterFinalise
  <2>3. HandleTypes'
    BY <1>0, <1>2
       DEF HandleTypes, Next, Writer, Stop, Mkdir, Loop, ReadDead, CreateFile, CreateFails,
         OpenSegment, Mux, MuxFails, PartBoundary, FinaliseTail, FinaliseClose, FinaliseRecord,
         Return, PublisherGone, StopBegin, StopClose, StopNil, StopTakesSegments, StopRemove,
         StopReady, Ask, Check, Expire, SleeperWakes, fileVars
  <2>4. FlagTypes'
    BY <1>0, <1>2
       DEF FlagTypes, Next, Writer, Stop, Mkdir, Loop, ReadDead, CreateFile, CreateFails,
         OpenSegment, Mux, MuxFails, PartBoundary, FinaliseTail, FinaliseClose, FinaliseRecord,
         Return, PublisherGone, StopBegin, StopClose, StopNil, StopTakesSegments, StopRemove,
         StopReady, Ask, Check, Expire, SleeperWakes, shared, stopVars
  <2> QED
    BY <1>0, <2>1, <2>2, <2>3, <2>4 DEF WriterTypes
<1> QED
  BY <1>1, <1>2

LEMMA PartNext == TypeInv /\ Next => PartTypes'
<1> SUFFICES ASSUME TypeInv, Next PROVE PartTypes'
  OBVIOUS
<1>0. PartTypes /\ WriterTypes /\ TypeOK /\ BytesLeft /\ MaxBytes \in Nat /\ MaxBytes >= 2
  BY TypeGroups, SegmenterAssumption DEF TypeInv, SegmenterAssumption
<1>1. CASE CreateFile
  <2>1. cur' = NewSegment(tag.dts) /\ UNCHANGED <<parts, waiters>>
    BY <1>1 DEF CreateFile, shared
  <2> QED
    BY <1>0, <2>1 DEF NewSegment, PartTypes, Cur, Firsts, Bytes, WriterTypes
<1>2. CASE OpenSegment
  <2>1. parts' = <<>> /\ UNCHANGED waiters
        /\ (cur' = cur \/ (cur.bytes = 0 /\ cur' = [cur EXCEPT !.bytes = @ + 1]))
    BY <1>0, <1>2 DEF OpenSegment, BytesLeft
  <2> QED
    BY <1>0, <2>1 DEF PartTypes, Cur, Bytes
<1>3. CASE Mux
  <2>1. cur.bytes < MaxBytes /\ UNCHANGED <<parts, waiters>>
        /\ cur' = [cur EXCEPT !.bytes = @ + 1,
                              !.end = IF tag.dts > @ THEN tag.dts ELSE @,
                              !.first = IF @ = "nothing" THEN tag.kind ELSE @]
    BY <1>0, <1>3 DEF Mux, BytesLeft, shared
  <2>2. cur \in Cur /\ tag.kind \in Kinds /\ tag.dts \in Times
    BY <1>0 DEF PartTypes, WriterTypes
  <2>3. /\ cur.bytes + 1 \in Bytes
        /\ (IF tag.dts > cur.end THEN tag.dts ELSE cur.end) \in Times
        /\ (IF cur.first = "nothing" THEN tag.kind ELSE cur.first) \in Firsts
    BY <1>0, <2>1, <2>2 DEF Cur, Bytes, Firsts
  <2>4. cur' \in Cur
    BY <2>1, <2>2, <2>3 DEF Cur
  <2> QED
    BY <1>0, <2>1, <2>4 DEF PartTypes
<1>4. CASE PartBoundary \/ FinaliseTail
  <2>1. PICK t \in Times : ClosePart(t) \/ UNCHANGED <<parts, cur, waiters>>
    BY <1>0, <1>4 DEF PartBoundary, FinaliseTail, PartTypes, WriterTypes, Cur
  <2> QED
    BY <1>0, <2>1, ClosePartType DEF PartTypes, Cur
<1>5. CASE FinaliseRecord
  <2>1. parts' = <<>> /\ cur' = cur /\ Broadcast
    BY <1>5 DEF FinaliseRecord, fileVars
  <2> QED
    BY <1>0, <2>1, BroadcastType DEF PartTypes
<1>6. CASE StopTakesSegments
  <2>1. UNCHANGED <<parts, cur>> /\ Broadcast
    BY <1>6 DEF StopTakesSegments, fileVars
  <2> QED
    BY <1>0, <2>1, BroadcastType DEF PartTypes
<1>7. CASE \E w \in Waiters : Ask(w) \/ Check(w) \/ Expire(w) \/ SleeperWakes(w)
  <2>1. UNCHANGED <<parts, cur>>
    BY <1>7 DEF Ask, Check, Expire, SleeperWakes, fileVars, shared
  <2> QED
    BY <1>0, <1>7, <2>1, WaitersType DEF PartTypes
<1>8. CASE \/ Mkdir \/ Loop \/ ReadDead \/ CreateFails \/ MuxFails \/ FinaliseClose \/ Return
           \/ Read \/ PublisherGone
           \/ StopBegin \/ StopClose \/ StopNil \/ StopRemove \/ StopReady
  <2>1. UNCHANGED <<cur, parts, waiters>>
    BY <1>8 DEF Mkdir, Loop, ReadDead, CreateFails, MuxFails, FinaliseClose, Return, Read,
         PublisherGone, StopBegin, StopClose, StopNil, StopRemove, StopReady, fileVars, shared
  <2> QED
    BY <1>0, <2>1 DEF PartTypes
<1> QED
  BY <1>1, <1>2, <1>3, <1>4, <1>5, <1>6, <1>7, <1>8 DEF Next, Writer, Stop

LEMMA WindowTypesNext == TypeInv /\ Next => WindowTypes'
<1> SUFFICES ASSUME TypeInv, Next PROVE WindowTypes'
  OBVIOUS
<1>0. WindowTypes /\ PartTypes /\ SegmentsLeft /\ MaxSegments \in Nat
  BY TypeGroups, SegmenterAssumption DEF TypeInv, SegmenterAssumption
<1>1. CASE FinaliseRecord
  <2> DEFINE seg == [seq |-> nextSeq, parts |-> parts, bytes |-> cur.bytes,
                     first |-> cur.first]
             all == Append(segments, seg)
  <2>1. /\ wpc = "record" /\ segments' = Window(all) /\ disk' = disk \ Reaped(all)
        /\ nextSeq' = nextSeq + 1 /\ doomed' = doomed
    BY <1>1 DEF FinaliseRecord, stopVars
  <2>2. seg \in Segment
    BY <1>0 DEF WindowTypes, PartTypes, Segment, Cur
  <2>3. all \in Seq(Segment)
    BY <1>0, <2>2 DEF WindowTypes
  <2>4. nextSeq + 1 \in Seqs
    BY <1>0, <2>1 DEF WindowTypes, SegmentsLeft, Seqs
  <2> HIDE DEF all
  <2> QED
    BY <1>0, <2>1, <2>3, <2>4, WindowType DEF WindowTypes
<1>2. CASE StopTakesSegments
  <2>1. /\ segments' = <<>> /\ doomed' = {s.seq : s \in ToSet(segments)}
        /\ UNCHANGED <<nextSeq, disk>>
    BY <1>2 DEF StopTakesSegments
  <2>2. \A i \in DOMAIN segments : segments[i].seq \in Seqs
    <3>1. \A i \in DOMAIN segments : segments[i] \in Segment
      BY <1>0 DEF WindowTypes
    <3> QED
      BY <3>1 DEF Segment
  <2>3. doomed' \subseteq Seqs
    BY <2>1, <2>2 DEF ToSet
  <2> QED
    BY <1>0, <2>1, <2>3 DEF WindowTypes
<1>3. CASE CreateFile \/ StopRemove
  <2>1. disk' \subseteq disk \cup {nextSeq} /\ UNCHANGED <<segments, nextSeq, doomed>>
    BY <1>3 DEF CreateFile, StopRemove, shared, stopVars
  <2> QED
    BY <1>0, <2>1 DEF WindowTypes
<1>4. CASE \/ Mkdir \/ Loop \/ ReadDead \/ CreateFails \/ OpenSegment \/ Mux \/ MuxFails
           \/ PartBoundary \/ FinaliseTail \/ FinaliseClose \/ Return \/ Read \/ PublisherGone
           \/ StopBegin \/ StopClose \/ StopNil \/ StopReady
           \/ \E w \in Waiters : Ask(w) \/ Check(w) \/ Expire(w) \/ SleeperWakes(w)
  <2>1. UNCHANGED <<segments, nextSeq, disk, doomed>>
    BY <1>4 DEF Mkdir, Loop, ReadDead, CreateFails, OpenSegment, Mux, MuxFails, PartBoundary,
         FinaliseTail, FinaliseClose, Return, Read, PublisherGone, StopBegin, StopClose, StopNil,
         StopReady, Ask, Check, Expire, SleeperWakes, shared, stopVars
  <2> QED
    BY <1>0, <2>1 DEF WindowTypes
<1> QED
  BY <1>1, <1>2, <1>3, <1>4 DEF Next, Writer, Stop

LEMMA BytesLeftNext == TypeInv /\ Next => BytesLeft'
<1> SUFFICES ASSUME TypeInv, Next PROVE BytesLeft'
  OBVIOUS
<1>0. PartTypes /\ WriterTypes /\ BytesLeft /\ MaxBytes \in Nat /\ MaxBytes >= 2
  BY TypeGroups, SegmenterAssumption DEF TypeInv, SegmenterAssumption
<1>1. CASE Read
  <2>1. cur' = cur /\ (file => cur.bytes < MaxBytes)
        /\ \E t \in [kind : Kinds, dts : Times] : wpc' = AfterRead(t)
    BY <1>1 DEF Read, fileVars
  <2> QED
    BY <2>1 DEF AfterRead, BytesLeft
<1>2. CASE CreateFile
  BY <1>2 DEF CreateFile, NewSegment, BytesLeft
<1>3. CASE OpenSegment
  <2>1. wpc = "open" /\ (\/ wpc' = "mux" /\ cur' = [cur EXCEPT !.bytes = @ + 1]
                        \/ wpc' = "tail")
    BY <1>3 DEF OpenSegment, Fail
  <2> QED
    BY <1>0, <2>1 DEF PartTypes, Cur, BytesLeft
<1>4. CASE \/ Mkdir \/ Loop \/ ReadDead \/ CreateFails \/ Mux \/ MuxFails \/ PartBoundary
           \/ FinaliseTail \/ FinaliseClose \/ FinaliseRecord \/ Return
  BY <1>4 DEF Mkdir, Loop, ReadDead, CreateFails, Mux, MuxFails, PartBoundary, FinaliseTail,
       FinaliseClose, FinaliseRecord, Return, Fail, AfterFinalise, BytesLeft
<1>5. CASE PublisherGone \/ Stop
           \/ \E w \in Waiters : Ask(w) \/ Check(w) \/ Expire(w) \/ SleeperWakes(w)
  <2>1. UNCHANGED <<wpc, cur>>
    BY <1>5 DEF PublisherGone, Stop, StopBegin, StopClose, StopNil, StopTakesSegments, StopRemove,
         StopReady, Ask, Check, Expire, SleeperWakes, writerVars, fileVars
  <2> QED
    BY <1>0, <2>1 DEF BytesLeft
<1> QED
  BY <1>1, <1>2, <1>3, <1>4, <1>5 DEF Next, Writer

LEMMA SegmentsLeftNext == TypeInv /\ Next => SegmentsLeft'
<1> SUFFICES ASSUME TypeInv, Next PROVE SegmentsLeft'
  OBVIOUS
<1>0. WindowTypes /\ SegmentsLeft /\ MaxSegments \in Nat /\ nextSeq \in Nat
  BY TypeGroups, SegmenterAssumption DEF TypeInv, SegmenterAssumption, WindowTypes, Seqs
<1>1. CASE Read
  <2>1. PICK k \in Kinds, t \in Times :
          /\ k = "key" => nextSeq + 1 < MaxSegments
          /\ wpc' = AfterRead([kind |-> k, dts |-> t])
    BY <1>1 DEF Read
  <2>2. wpc' \in {"create", "tail"} => k = "key"
    BY <2>1 DEF AfterRead
  <2>3. wpc' \in {"create", "loop", "tail", "mux"} /\ UNCHANGED <<file, nextSeq, exiting>>
    BY <1>1, <2>1 DEF AfterRead, Read, fileVars, shared
  <2> QED
    BY <1>0, <2>1, <2>2, <2>3 DEF SegmentsLeft
<1>2. CASE FinaliseRecord
  <2>1. wpc = "record" /\ nextSeq' = nextSeq + 1 /\ UNCHANGED <<file, exiting>>
        /\ wpc' = IF exiting THEN "return" ELSE "create"
    BY <1>2 DEF FinaliseRecord, AfterFinalise, fileVars
  <2> QED
    BY <1>0, <2>1 DEF SegmentsLeft
<1>3. CASE \/ Mkdir \/ Loop \/ ReadDead \/ CreateFile \/ CreateFails \/ OpenSegment \/ Mux
           \/ MuxFails \/ PartBoundary \/ FinaliseTail \/ FinaliseClose \/ Return
  <2>1. UNCHANGED nextSeq
    BY <1>3 DEF Mkdir, Loop, ReadDead, CreateFile, CreateFails, OpenSegment, Mux, MuxFails,
         PartBoundary, FinaliseTail, FinaliseClose, Return, shared
  <2> QED
    BY <1>0, <1>3, <2>1 DEF Mkdir, Loop, ReadDead, CreateFile, CreateFails, OpenSegment, Mux,
         MuxFails, PartBoundary, FinaliseTail, FinaliseClose, Return, Fail, AfterFinalise,
         fileVars, SegmentsLeft
<1>4. CASE PublisherGone \/ Stop
           \/ \E w \in Waiters : Ask(w) \/ Check(w) \/ Expire(w) \/ SleeperWakes(w)
  <2>1. UNCHANGED <<wpc, exiting, nextSeq>>
    BY <1>4 DEF PublisherGone, Stop, StopBegin, StopClose, StopNil, StopTakesSegments, StopRemove,
         StopReady, Ask, Check, Expire, SleeperWakes, writerVars, shared
  <2>2. file' = file \/ file' = FALSE
    BY <1>4 DEF PublisherGone, Stop, StopBegin, StopClose, StopNil, StopTakesSegments, StopRemove,
         StopReady, Ask, Check, Expire, SleeperWakes, fileVars
  <2> QED
    BY <1>0, <2>1, <2>2 DEF SegmentsLeft
<1> QED
  BY <1>1, <1>2, <1>3, <1>4 DEF Next, Writer

LEMMA TypeStep == TypeInv /\ [Next]_vars => TypeInv'
<1>1. TypeInv /\ Next => TypeInv'
  BY WriterNext, PartNext, WindowTypesNext, BytesLeftNext, SegmentsLeftNext, TypeGroups, PTL
     DEF TypeInv
<1>2. TypeInv /\ UNCHANGED vars => TypeInv'
  BY DEF TypeInv, TypeOK, BytesLeft, SegmentsLeft, vars, writerVars, fileVars, shared, stopVars
<1> QED
  BY <1>1, <1>2

(* Whatever the disk refuses and whenever Stop comes, the segmenter's state    *)
(* stays in its types: no offset, part or segment number leaves its range.     *)
THEOREM TypeCorrect == Spec => []TypeOK
<1>1. Spec => []TypeInv
  BY TypeInit, TypeStep, PTL DEF Spec
<1> QED
  BY <1>1, PTL DEF TypeInv
-----------------------------------------------------------------------------
(* The window.  It numbers the segments before nextSeq, the file of the        *)
(* segment in progress is there as soon as it has a handle or a name, and what *)
(* Stop is about to remove is older and no longer listed.                      *)

Numbered ==
    \A i \in 1 .. Len(segments) : segments[i].seq = nextSeq - Len(segments) + i - 1
ListedOnDisk == \A i \in 1 .. Len(segments) : segments[i].seq \in disk
BegunOnDisk == file \/ named \/ wpc \in {"open", "record"} => nextSeq \in disk
DoomedUnlisted ==
    spc = "remove" => \A d \in doomed : d < nextSeq - Len(segments)
WindowInv == Numbered /\ ListedOnDisk /\ BegunOnDisk /\ DoomedUnlisted
\* Numbers that run through a sequence run through its window, and those before
\* them are the ones reaped.
LEMMA NumberedWindow ==
  ASSUME NEW s \in Seq(Segment), Len(s) > 0, NEW f \in Int,
         \A i \in 1 .. Len(s) : s[i].seq = f + i
  PROVE  /\ Window(s) \in Seq(Segment) /\ Len(Window(s)) \in 1 .. Len(s)
         /\ \A i \in 1 .. Len(Window(s)) :
               Window(s)[i].seq = f + (Len(s) - Len(Window(s)) + i)
         /\ Reaped(s) = f + 1 .. f + Len(s) - Len(Window(s))
<1> DEFINE n == Len(s)
           m == Len(Window(s))
<1>1. WindowSize \in Nat \ {0} /\ n \in Nat \ {0}
  BY SegmenterAssumption DEF SegmenterAssumption
<1>2. /\ Window(s) \in Seq(Segment)
      /\ m = IF n > WindowSize THEN WindowSize ELSE n
      /\ \A i \in 1 .. m : Window(s)[i] = s[n - m + i]
  BY WindowType
<1>3. m \in 1 .. n
  BY <1>1, <1>2
<1>4. ASSUME NEW i \in 1 .. m PROVE Window(s)[i].seq = f + (n - m + i)
  <2>1. Window(s)[i] = s[n - m + i]
    BY <1>2
  <2>2. n - m + i \in 1 .. n
    <3> HIDE DEF n, m
    <3> QED
      BY <1>1, <1>3
  <2> QED
    BY <2>1, <2>2
<1>5. Reaped(s) = f + 1 .. f + n - m
  <2>1. ASSUME NEW d \in Reaped(s) PROVE d \in f + 1 .. f + n - m
    <3>1. PICK i \in DOMAIN s : i <= n - WindowSize /\ d = s[i].seq
      BY DEF Reaped
    <3>2. i \in 1 .. n /\ n > WindowSize /\ d = f + i
      BY <1>1, <3>1
    <3>3. m = WindowSize
      BY <1>2, <3>2
    <3> HIDE DEF n, m
    <3> QED
      BY <1>1, <3>1, <3>2, <3>3
  <2>2. ASSUME NEW d \in f + 1 .. f + n - m PROVE d \in Reaped(s)
    <3> DEFINE i == d - f
    <3>1. i \in DOMAIN s /\ i <= n - WindowSize
      BY <1>1, <1>2, <1>3
    <3>2. s[i].seq = d
      BY <1>1, <3>1
    <3> HIDE DEF i
    <3> QED
      BY <3>1, <3>2 DEF Reaped
  <2> QED
    BY <2>1, <2>2
<1> QED
  BY <1>2, <1>3, <1>4, <1>5

\* The segment finaliseCurrent adds, and the list before old ones leave it.
Added == [seq |-> nextSeq, parts |-> parts, bytes |-> cur.bytes, first |-> cur.first]
All == Append(segments, Added)

\* The numbers of a window are an interval that ends below nextSeq, and what
\* FinaliseRecord reaps is the part of it that the new window leaves behind.
LEMMA RecordFacts ==
  ASSUME TypeInv, WindowInv, FinaliseRecord
  PROVE  /\ wpc = "record" /\ ~file /\ nextSeq \in disk
         /\ All \in Seq(Segment) /\ Len(All) = Len(segments) + 1
         /\ segments' = Window(All) /\ segments' \in Seq(Segment)
         /\ nextSeq' = nextSeq + 1 /\ disk' = disk \ Reaped(All)
         /\ Len(segments') \in 1 .. Len(segments) + 1
         /\ Numbered'
         /\ Reaped(All) = (nextSeq - Len(segments)) .. (nextSeq - Len(segments'))
<1> DEFINE n == Len(segments)
<1>1. WindowTypes /\ PartTypes /\ SegmentsLeft
  BY TypeGroups DEF TypeInv
<1>2. /\ wpc = "record" /\ segments' = Window(All) /\ disk' = disk \ Reaped(All)
      /\ nextSeq' = nextSeq + 1
  BY DEF FinaliseRecord, All, Added
<1>3. ~file /\ nextSeq \in disk /\ nextSeq \in Nat /\ n \in Nat
  BY <1>1, <1>2 DEF SegmentsLeft, WindowInv, BegunOnDisk, WindowTypes, Seqs
<1>4. Added \in Segment
  BY <1>1 DEF WindowTypes, PartTypes, Segment, Cur, Added
<1>5. All \in Seq(Segment) /\ Len(All) = n + 1
  BY <1>1, <1>4 DEF WindowTypes, All
<1>6. \A i \in 1 .. n + 1 : All[i].seq = (nextSeq - n - 1) + i
  <2> SUFFICES ASSUME NEW i \in 1 .. n + 1 PROVE All[i].seq = (nextSeq - n - 1) + i
    OBVIOUS
  <2>1. CASE i = n + 1
    <3>1. All[i] = Added
      BY <1>1, <1>4, <2>1 DEF All, WindowTypes
    <3> QED
      BY <1>3, <2>1, <3>1 DEF Added
  <2>2. CASE i # n + 1
    <3>1. i \in 1 .. n
      BY <1>3, <2>2
    <3>2. All[i] = segments[i]
      BY <1>1, <1>4, <3>1 DEF All, WindowTypes
    <3>3. segments[i].seq = nextSeq - n + i - 1
      BY <3>1 DEF WindowInv, Numbered
    <3> QED
      BY <1>3, <3>1, <3>2, <3>3
  <2> QED
    BY <2>1, <2>2
<1>7. nextSeq - n - 1 \in Int /\ Len(All) > 0
  BY <1>3, <1>5
<1>8. \A i \in 1 .. Len(All) : All[i].seq = (nextSeq - n - 1) + i
  BY <1>5, <1>6
<1>9. /\ Window(All) \in Seq(Segment) /\ Len(Window(All)) \in 1 .. Len(All)
      /\ \A i \in 1 .. Len(Window(All)) :
            Window(All)[i].seq = (nextSeq - n - 1) + (Len(All) - Len(Window(All)) + i)
      /\ Reaped(All) = (nextSeq - n - 1) + 1 .. (nextSeq - n - 1) + Len(All) - Len(Window(All))
  BY <1>5, <1>7, <1>8, NumberedWindow
<1>10. /\ segments' \in Seq(Segment) /\ Len(segments') \in 1 .. n + 1
       /\ Reaped(All) = (nextSeq - n) .. (nextSeq - Len(segments'))
  BY <1>2, <1>3, <1>5, <1>9
<1>11. Numbered'
  <2> SUFFICES ASSUME NEW i \in 1 .. Len(Window(All))
               PROVE  Window(All)[i].seq = nextSeq' - Len(Window(All)) + i - 1
    BY <1>2 DEF Numbered
  <2>1. Window(All)[i].seq = (nextSeq - n - 1) + (n + 1 - Len(Window(All)) + i)
    BY <1>5, <1>9
  <2> QED
    BY <1>2, <1>3, <1>9, <2>1
<1> QED
  BY <1>2, <1>3, <1>5, <1>10, <1>11

\* The steps that touch neither the list, nor its number, nor the files.
Elsewhere ==
    \/ Mkdir \/ Loop \/ ReadDead \/ CreateFails \/ OpenSegment \/ Mux \/ MuxFails
    \/ PartBoundary \/ FinaliseTail \/ FinaliseClose \/ Return \/ Read \/ PublisherGone
    \/ StopBegin \/ StopClose \/ StopNil \/ StopReady
    \/ \E w \in Waiters : Ask(w) \/ Check(w) \/ Expire(w) \/ SleeperWakes(w)
LEMMA Splits ==
  Next => CreateFile \/ FinaliseRecord \/ StopTakesSegments \/ StopRemove \/ Elsewhere
  BY DEF Next, Writer, Stop, Elsewhere
LEMMA ElsewhereLeaves == Elsewhere => UNCHANGED <<segments, nextSeq, disk, doomed>>
  BY DEF Elsewhere, Mkdir, Loop, ReadDead, CreateFails, OpenSegment, Mux, MuxFails, PartBoundary,
       FinaliseTail, FinaliseClose, Return, Read, PublisherGone, StopBegin, StopClose, StopNil,
       StopReady, Ask, Check, Expire, SleeperWakes, shared, stopVars

LEMMA WindowInit == Init => WindowInv
  BY DEF Init, WindowInv, Numbered, ListedOnDisk, BegunOnDisk, DoomedUnlisted

LEMMA WindowNext ==
  ASSUME TypeInv, WindowInv, Next
  PROVE  WindowInv'
<1>0. WindowTypes /\ SegmentsLeft /\ nextSeq \in Nat /\ Len(segments) \in Nat
  BY TypeGroups DEF TypeInv, WindowTypes, Seqs
<1>1. CASE CreateFile
  <2>1. disk' = disk \cup {nextSeq} /\ UNCHANGED <<segments, nextSeq, spc, doomed>>
    BY <1>1 DEF CreateFile, shared, stopVars
  <2> QED
    BY <2>1 DEF WindowInv, Numbered, ListedOnDisk, BegunOnDisk, DoomedUnlisted
<1>2. CASE FinaliseRecord
  <2>1. /\ nextSeq \in disk /\ nextSeq' = nextSeq + 1 /\ disk' = disk \ Reaped(All)
        /\ segments' = Window(All) /\ Len(segments') \in 1 .. Len(segments) + 1
        /\ Numbered' /\ All \in Seq(Segment) /\ ~file
        /\ Reaped(All) = (nextSeq - Len(segments)) .. (nextSeq - Len(segments'))
    BY <1>2, RecordFacts
  <2>2. ~file' /\ ~named' /\ wpc' \in {"return", "create"} /\ UNCHANGED <<spc, doomed>>
    BY <1>2, <2>1 DEF FinaliseRecord, AfterFinalise, fileVars, stopVars
  <2>3. ListedOnDisk'
    <3> SUFFICES ASSUME NEW i \in 1 .. Len(segments') PROVE segments'[i].seq \in disk'
      BY DEF ListedOnDisk
    <3> DEFINE d == segments'[i].seq
               j == Len(segments) + 1 - Len(segments') + i
    <3>1. d = nextSeq + 1 - Len(segments') + i - 1
      <4>1. segments'[i].seq = nextSeq' - Len(segments') + i - 1
        BY <2>1 DEF Numbered
      <4> QED
        BY <1>0, <2>1, <4>1
    <3>2. d \notin Reaped(All)
      BY <1>0, <2>1, <3>1
    <3>3. d = nextSeq \/ (j \in 1 .. Len(segments) /\ d = nextSeq - Len(segments) + j - 1)
      BY <1>0, <2>1, <3>1
    <3> HIDE DEF d, j
    <3>4. d \in disk
      BY <2>1, <3>3 DEF WindowInv, Numbered, ListedOnDisk
    <3> QED
      BY <2>1, <3>2, <3>4 DEF d
  <2>4. BegunOnDisk'
    BY <2>2 DEF BegunOnDisk
  <2>5. DoomedUnlisted'
    <3> SUFFICES ASSUME spc = "remove", NEW d \in doomed
                 PROVE  d < nextSeq' - Len(segments')
      BY <2>2 DEF DoomedUnlisted
    <3>1. d < nextSeq - Len(segments) /\ d \in Nat
      BY <1>0 DEF WindowInv, DoomedUnlisted, WindowTypes, Seqs
    <3> QED
      BY <1>0, <2>1, <3>1
  <2> QED
    BY <2>1, <2>3, <2>4, <2>5 DEF WindowInv
<1>3. CASE StopTakesSegments
  <2>1. /\ segments' = <<>> /\ doomed' = {s.seq : s \in ToSet(segments)} /\ ~named'
        /\ UNCHANGED <<nextSeq, disk, wpc, file>>
    BY <1>3 DEF StopTakesSegments, writerVars, fileVars
  <2>2. \A d \in doomed' : \E i \in 1 .. Len(segments) : d = segments[i].seq
    BY <1>0, <2>1 DEF ToSet, WindowTypes
  <2>3. \A d \in doomed' : d < nextSeq
    BY <1>0, <2>2 DEF WindowInv, Numbered
  <2> QED
    BY <1>0, <2>1, <2>3 DEF WindowInv, Numbered, ListedOnDisk, BegunOnDisk, DoomedUnlisted
<1>4. CASE StopRemove
  <2>1. /\ spc = "remove" /\ spc' = "ready" /\ disk' = disk \ doomed
        /\ UNCHANGED <<segments, nextSeq, doomed, wpc, file, named>>
    BY <1>4 DEF StopRemove, writerVars, fileVars, shared
  <2>2. nextSeq \notin doomed
    BY <1>0, <2>1 DEF WindowInv, DoomedUnlisted
  <2>3. \A i \in 1 .. Len(segments) : segments[i].seq \notin doomed
    BY <1>0, <2>1 DEF WindowInv, Numbered, DoomedUnlisted, WindowTypes, Seqs
  <2> QED
    BY <2>1, <2>2, <2>3 DEF WindowInv, Numbered, ListedOnDisk, BegunOnDisk, DoomedUnlisted
<1>5. CASE Elsewhere
  <2>1. UNCHANGED <<segments, nextSeq, disk, doomed>>
    BY <1>5, ElsewhereLeaves
  <2>2. spc' = "remove" => spc = "remove"
    BY <1>5 DEF Elsewhere, Mkdir, Loop, ReadDead, CreateFails, OpenSegment, Mux, MuxFails,
         PartBoundary, FinaliseTail, FinaliseClose, Return, Read, PublisherGone, StopBegin,
         StopClose, StopNil, StopReady, Ask, Check, Expire, SleeperWakes, stopVars
  <2>3. file' \/ named' \/ wpc' \in {"open", "record"}
          => file \/ named \/ wpc \in {"open", "record"}
    BY <1>5 DEF Elsewhere, Mkdir, Loop, ReadDead, CreateFails, OpenSegment, Mux, MuxFails,
         PartBoundary, FinaliseTail, FinaliseClose, Return, Read, PublisherGone, StopBegin,
         StopClose, StopNil, StopReady, Ask, Check, Expire, SleeperWakes, shared, fileVars,
         writerVars, Fail, AfterFinalise, AfterRead
  <2> QED
    BY <2>1, <2>2, <2>3 DEF WindowInv, Numbered, ListedOnDisk, BegunOnDisk, DoomedUnlisted
<1> QED
  BY <1>1, <1>2, <1>3, <1>4, <1>5, Splits

LEMMA WindowAlways == Spec => [](TypeInv /\ WindowInv)
<1>1. WindowInv /\ UNCHANGED vars => WindowInv'
  BY DEF WindowInv, Numbered, ListedOnDisk, BegunOnDisk, DoomedUnlisted, vars, writerVars,
         fileVars, shared, stopVars
<1>2. TypeInv /\ WindowInv /\ [Next]_vars => (TypeInv /\ WindowInv)'
  BY <1>1, TypeStep, WindowNext
<1> QED
  BY <1>2, TypeInit, WindowInit, PTL DEF Spec

(* What the playlist names can be fetched, whatever reaping and Stop remove.   *)
THEOREM PlaylistFilesCorrect == Spec => []PlaylistFilesExist
<1>1. TypeInv /\ WindowInv => PlaylistFilesExist
  BY TypeGroups
     DEF TypeInv, WindowTypes, WindowInv, ListedOnDisk, BegunOnDisk, PlaylistFilesExist, ToSet
<1> QED
  BY <1>1, WindowAlways, PTL
-----------------------------------------------------------------------------
(* The refinement.  What LiveWindow lists is the numbers of the segments.      *)

NumbersOf(s) == [i \in DOMAIN s |-> s[i].seq]

LEMMA NumbersOfType ==
  ASSUME NEW s \in Seq(Segment)
  PROVE  /\ NumbersOf(s) \in Seq(Seqs) /\ Len(NumbersOf(s)) = Len(s)
         /\ \A i \in 1 .. Len(s) : NumbersOf(s)[i] = s[i].seq
<1>1. \A i \in 1 .. Len(s) : s[i] \in Segment
  OBVIOUS
<1>2. \A i \in 1 .. Len(s) : s[i].seq \in Seqs
  BY <1>1 DEF Segment
<1>3. DOMAIN s = 1 .. Len(s) /\ Len(s) \in Nat
  OBVIOUS
<1>4. NumbersOf(s) = [i \in 1 .. Len(s) |-> s[i].seq]
  BY <1>3 DEF NumbersOf
<1> QED
  BY <1>2, <1>3, <1>4

\* Two sequences of one length with the same elements are one sequence.
LEMMA SameSequence ==
  ASSUME NEW S, NEW s \in Seq(S), NEW t \in Seq(S), Len(s) = Len(t),
         \A i \in 1 .. Len(s) : s[i] = t[i]
  PROVE  s = t
  OBVIOUS

\* The numbers of the window are the window of the numbers.
LEMMA NewestNumbers ==
  ASSUME NEW s \in Seq(Segment)
  PROVE  LiveWindow!Newest(NumbersOf(s)) = NumbersOf(Window(s))
<1> DEFINE n == Len(s)
           q == NumbersOf(s)
<1>0. WindowSize \in Nat \ {0} /\ n \in Nat
  BY SegmenterAssumption DEF SegmenterAssumption
<1>1. q \in Seq(Seqs) /\ Len(q) = n /\ \A i \in 1 .. n : q[i] = s[i].seq
  BY NumbersOfType
<1>2. CASE n > WindowSize
  <2> DEFINE m == n - WindowSize + 1
  <2>1. /\ Window(s) \in Seq(Segment) /\ Len(Window(s)) = WindowSize
        /\ \A i \in 1 .. WindowSize : Window(s)[i] = s[n - WindowSize + i]
    BY <1>2, WindowType
  <2>2. /\ NumbersOf(Window(s)) \in Seq(Seqs) /\ Len(NumbersOf(Window(s))) = WindowSize
        /\ \A i \in 1 .. WindowSize : NumbersOf(Window(s))[i] = s[n - WindowSize + i].seq
    BY <2>1, NumbersOfType
  <2>3. LiveWindow!Newest(q) = SubSeq(q, m, n)
    BY <1>1, <1>2 DEF LiveWindow!Newest
  <2>4. m \in 1 .. n /\ n - m + 1 = WindowSize
    BY <1>0, <1>2
  <2> HIDE DEF q, m
  <2>5. /\ SubSeq(q, m, n) \in Seq(Seqs) /\ Len(SubSeq(q, m, n)) = n - m + 1
        /\ \A i \in 1 .. n - m + 1 : SubSeq(q, m, n)[i] = q[m + i - 1]
    BY <1>0, <1>1, <2>4
  <2>6. ASSUME NEW i \in 1 .. WindowSize
        PROVE  SubSeq(q, m, n)[i] = NumbersOf(Window(s))[i]
    <3>1. SubSeq(q, m, n)[i] = q[m + i - 1] /\ m + i - 1 = n - WindowSize + i
      BY <1>0, <2>4, <2>5 DEF m
    <3>2. n - WindowSize + i \in 1 .. n
      BY <1>0, <1>2
    <3> QED
      BY <1>1, <2>2, <3>1, <3>2
  <2>7. SubSeq(q, m, n) = NumbersOf(Window(s))
    BY <2>2, <2>4, <2>5, <2>6, SameSequence
  <2> QED
    BY <2>3, <2>7 DEF q
<1>3. CASE ~(n > WindowSize)
  BY <1>1, <1>3 DEF LiveWindow!Newest, Window
<1> QED
  BY <1>2, <1>3

LEMMA NumbersAppend ==
  ASSUME NEW s \in Seq(Segment), NEW x \in Segment
  PROVE  NumbersOf(Append(s, x)) = Append(NumbersOf(s), x.seq)
<1>1. /\ Append(s, x) \in Seq(Segment) /\ Len(Append(s, x)) = Len(s) + 1
      /\ x.seq \in Seqs
  BY DEF Segment
<1>2. /\ NumbersOf(s) \in Seq(Seqs) /\ Len(NumbersOf(s)) = Len(s)
      /\ \A i \in 1 .. Len(s) : NumbersOf(s)[i] = s[i].seq
  BY NumbersOfType
<1>3. /\ NumbersOf(Append(s, x)) \in Seq(Seqs) /\ Len(NumbersOf(Append(s, x))) = Len(s) + 1
      /\ \A i \in 1 .. Len(s) + 1 : NumbersOf(Append(s, x))[i] = Append(s, x)[i].seq
  BY <1>1, NumbersOfType
<1>4. /\ Append(NumbersOf(s), x.seq) \in Seq(Seqs)
      /\ Len(Append(NumbersOf(s), x.seq)) = Len(s) + 1
  BY <1>1, <1>2
<1>5. ASSUME NEW i \in 1 .. Len(s) + 1
      PROVE  NumbersOf(Append(s, x))[i] = Append(NumbersOf(s), x.seq)[i]
  <2>1. CASE i = Len(s) + 1
    <3>1. Append(s, x)[i] = x /\ Append(NumbersOf(s), x.seq)[i] = x.seq
      BY <1>1, <1>2, <2>1
    <3> QED
      BY <1>3, <3>1
  <2>2. CASE i # Len(s) + 1
    <3>1. i \in 1 .. Len(s)
      BY <2>2
    <3>2. Append(s, x)[i] = s[i]
      BY <3>1
    <3>3. Append(NumbersOf(s), x.seq)[i] = NumbersOf(s)[i]
      BY <1>1, <1>2, <3>1
    <3> QED
      BY <1>2, <1>3, <3>1, <3>2, <3>3
  <2> QED
    BY <2>1, <2>2
<1> QED
  BY <1>3, <1>4, <1>5, SameSequence
\* Consecutive numbers in a sequence fill an interval.
LEMMA Interval ==
  ASSUME NEW s, Len(s) \in Nat, DOMAIN s = 1 .. Len(s), NEW a \in Int,
         \A i \in 1 .. Len(s) : s[i] = a + i
  PROVE  ToSet(s) = a + 1 .. a + Len(s)
<1>1. ASSUME NEW d \in ToSet(s) PROVE d \in a + 1 .. a + Len(s)
  <2>1. PICK i \in 1 .. Len(s) : d = s[i]
    BY DEF ToSet
  <2> QED
    BY <2>1
<1>2. ASSUME NEW d \in a + 1 .. a + Len(s) PROVE d \in ToSet(s)
  <2> DEFINE i == d - a
  <2>1. i \in 1 .. Len(s)
    OBVIOUS
  <2>2. s[i] = d
    BY <2>1
  <2> HIDE DEF i
  <2> QED
    BY <2>1, <2>2 DEF ToSet
<1> QED
  BY <1>1, <1>2

\* Every step is one of LiveWindow, or leaves what it sees alone: recording
\* lists, Stop clears and then unlinks, and opening creates.
LEMMA StepRefines ==
  ASSUME TypeInv, WindowInv, Next
  PROVE  [LiveWindow!Next]_LiveWindow!vars
<1> DEFINE listed == NumbersOf(segments)
<1>0. /\ WindowTypes /\ nextSeq \in Nat /\ segments \in Seq(Segment) /\ Len(segments) \in Nat
      /\ listed = [i \in DOMAIN segments |-> segments[i].seq]
      /\ listed' = [i \in DOMAIN segments' |-> segments'[i].seq]
  BY TypeGroups DEF TypeInv, WindowTypes, Seqs, NumbersOf
<1>1. CASE CreateFile
  <2>1. disk' = disk \cup {nextSeq} /\ UNCHANGED <<segments, nextSeq>>
    BY <1>1 DEF CreateFile, shared
  <2> QED
    BY <2>1 DEF LiveWindow!Next, LiveWindow!Create
<1>2. CASE FinaliseRecord
  <2>1. /\ nextSeq \in disk /\ nextSeq' = nextSeq + 1 /\ disk' = disk \ Reaped(All)
        /\ segments' = Window(All) /\ segments' \in Seq(Segment)
        /\ Len(segments') \in 1 .. Len(segments) + 1 /\ Numbered' /\ All \in Seq(Segment)
        /\ Reaped(All) = (nextSeq - Len(segments)) .. (nextSeq - Len(segments'))
    BY <1>2, RecordFacts
  <2>2. listed' = LiveWindow!Newest(Append(listed, nextSeq))
    <3>1. Added \in Segment /\ Added.seq = nextSeq
      BY TypeGroups DEF TypeInv, WindowTypes, PartTypes, Segment, Cur, Added
    <3>2. NumbersOf(All) = Append(listed, nextSeq)
      BY <1>0, <3>1, NumbersAppend DEF All
    <3>3. LiveWindow!Newest(NumbersOf(All)) = NumbersOf(Window(All))
      BY <2>1, NewestNumbers
    <3>4. listed' = NumbersOf(Window(All))
      BY <1>0, <2>1 DEF NumbersOf
    <3> QED
      BY <3>2, <3>3, <3>4
  <2>3. ToSet(listed) = nextSeq - Len(segments) .. nextSeq - 1
    <3>1. /\ DOMAIN listed = 1 .. Len(segments)
          /\ \A i \in 1 .. Len(segments) : listed[i] = nextSeq - Len(segments) + i - 1
      BY <1>0 DEF WindowInv, Numbered
    <3>2. /\ nextSeq - Len(segments) - 1 \in Int /\ Len(listed) = Len(segments)
          /\ \A i \in 1 .. Len(listed) : listed[i] = (nextSeq - Len(segments) - 1) + i
      BY <1>0, <3>1, NumbersOfType
    <3> HIDE DEF listed
    <3>3. ToSet(listed) = nextSeq - Len(segments) - 1 + 1
                            .. nextSeq - Len(segments) - 1 + Len(segments)
      BY <1>0, <3>1, <3>2, Interval
    <3> QED
      BY <1>0, <3>3
  <2>4. ToSet(listed') = nextSeq + 1 - Len(segments') .. nextSeq
    <3> DEFINE w == Window(All)
    <3>1. w \in Seq(Segment) /\ \A i \in 1 .. Len(w) : w[i].seq = nextSeq + 1 - Len(w) + i - 1
      <4>1. segments' = w
        BY <2>1
      <4>2. \A i \in 1 .. Len(segments') :
               segments'[i].seq = nextSeq' - Len(segments') + i - 1
        BY <2>1 DEF Numbered
      <4> HIDE DEF w
      <4>3. \A i \in 1 .. Len(w) : w[i].seq = nextSeq' - Len(w) + i - 1
        BY <4>1, <4>2
      <4>4. w \in Seq(Segment) /\ nextSeq' = nextSeq + 1
        BY <2>1, <4>1
      <4> QED
        BY <1>0, <4>3, <4>4
    <3>2. Len(w) \in Nat /\ listed' = NumbersOf(w) /\ Len(segments') = Len(w)
      BY <1>0, <2>1 DEF NumbersOf
    <3> HIDE DEF w
    <3>3. /\ DOMAIN NumbersOf(w) = 1 .. Len(w) /\ Len(NumbersOf(w)) = Len(w)
          /\ \A i \in 1 .. Len(w) : NumbersOf(w)[i] = nextSeq - Len(w) + i
      <4>1. /\ NumbersOf(w) \in Seq(Seqs) /\ Len(NumbersOf(w)) = Len(w)
            /\ \A i \in 1 .. Len(w) : NumbersOf(w)[i] = w[i].seq
        BY <3>1, NumbersOfType
      <4> QED
        BY <1>0, <3>1, <3>2, <4>1
    <3>4. nextSeq - Len(w) \in Int
      BY <1>0, <3>2
    <3>5. ToSet(NumbersOf(w)) = nextSeq - Len(w) + 1 .. nextSeq - Len(w) + Len(w)
      BY <3>2, <3>3, <3>4, Interval
    <3> QED
      BY <1>0, <3>2, <3>5
  <2>5. disk' = disk \ (ToSet(listed) \ ToSet(listed'))
    <3>1. ASSUME NEW d
          PROVE  d \in Reaped(All) <=> d \in ToSet(listed) \ ToSet(listed')
      <4> HIDE DEF listed
      <4> QED
        BY <1>0, <2>1, <2>3, <2>4
    <3> HIDE DEF listed
    <3> QED
      BY <2>1, <3>1
  <2>6. LiveWindow!List
    BY <2>1, <2>2, <2>5 DEF LiveWindow!List, NumbersOf, ToSet, LiveWindow!ToSet
  <2> QED
    BY <2>6 DEF LiveWindow!Next
<1>3. CASE StopTakesSegments
  <2>1. segments' = <<>> /\ UNCHANGED <<nextSeq, disk>>
    BY <1>3 DEF StopTakesSegments
  <2>2. [i \in DOMAIN segments' |-> segments'[i].seq] = <<>>
    BY <2>1
  <2>3. LiveWindow!Clear
    BY <2>1, <2>2 DEF LiveWindow!Clear
  <2> QED
    BY <2>3 DEF LiveWindow!Next
<1>4. CASE StopRemove
  <2>1. /\ spc = "remove" /\ disk' = disk \ doomed
        /\ UNCHANGED <<segments, nextSeq>>
    BY <1>4 DEF StopRemove, shared
  <2>2. \A d \in doomed : d \in Nat /\ d < nextSeq - Len(segments)
    BY <1>0, <2>1 DEF WindowInv, DoomedUnlisted, WindowTypes, Seqs
  <2>3. \A d \in doomed : d < nextSeq
    BY <1>0, <2>2
  <2>4. \A d \in doomed : d \notin ToSet(listed)
    <3>1. /\ DOMAIN listed = 1 .. Len(segments)
          /\ \A i \in 1 .. Len(segments) : listed[i] = nextSeq - Len(segments) + i - 1
      BY <1>0 DEF WindowInv, Numbered
    <3> HIDE DEF listed
    <3> QED
      BY <1>0, <2>2, <3>1 DEF ToSet
  <2>5. /\ doomed \cap disk \in SUBSET {f \in disk : f < nextSeq /\ f \notin ToSet(listed)}
        /\ disk' = disk \ (doomed \cap disk)
    BY <2>1, <2>3, <2>4
  <2>6. LiveWindow!Unlink
    BY <2>1, <2>5 DEF LiveWindow!Unlink, NumbersOf, ToSet, LiveWindow!ToSet
  <2> QED
    BY <2>6 DEF LiveWindow!Next
<1>5. CASE Elsewhere
  <2>1. UNCHANGED <<segments, nextSeq, disk>>
    BY <1>5, ElsewhereLeaves
  <2> QED
    BY <2>1 DEF LiveWindow!vars
<1> QED
  BY <1>1, <1>2, <1>3, <1>4, <1>5, Splits

(* The segmenter is a live window for every window size and bound, with Stop   *)
(* in another goroutine: what it lists has a file, files are reaped in the     *)
(* step that unlists them, and Stop removes only what is not listed.           *)
THEOREM RefinesLiveWindow == Spec => ImplementsLiveWindow
<1>1. Init => LiveWindow!Init
  BY DEF Init, LiveWindow!Init
<1>2. TypeInv /\ WindowInv /\ [Next]_vars => [LiveWindow!Next]_LiveWindow!vars
  <2>1. UNCHANGED vars => UNCHANGED LiveWindow!vars
    BY DEF vars, shared, LiveWindow!vars
  <2> QED
    BY <2>1, StepRefines
<1> QED
  BY <1>1, <1>2, WindowAlways, PTL DEF Spec, ImplementsLiveWindow, LiveWindow!Spec

(* What a reader of the playlist has from that, for every window size.        *)

LEMMA NewestAmong ==
  ASSUME NEW s \in Seq(Seqs)
  PROVE  /\ Len(LiveWindow!Newest(s)) <= WindowSize
         /\ LiveWindow!ToSet(LiveWindow!Newest(s)) \subseteq LiveWindow!ToSet(s)
<1>0. WindowSize \in Nat \ {0} /\ Len(s) \in Nat /\ DOMAIN s = 1 .. Len(s)
  BY SegmenterAssumption DEF SegmenterAssumption
<1>1. CASE Len(s) > WindowSize
  <2> DEFINE m == Len(s) - WindowSize + 1
  <2>1. m \in 1 .. Len(s) /\ Len(s) - m + 1 = WindowSize
    BY <1>0, <1>1
  <2>2. LiveWindow!Newest(s) = SubSeq(s, m, Len(s))
    BY <1>1 DEF LiveWindow!Newest
  <2> HIDE DEF m
  <2>3. PICK t : t = SubSeq(s, m, Len(s))
    OBVIOUS
  <2>4. t \in Seq(Seqs) /\ Len(t) = WindowSize /\ \A i \in 1 .. WindowSize : t[i] = s[m + i - 1]
    BY <2>1, <2>3
  <2>5. ASSUME NEW i \in 1 .. WindowSize PROVE m + i - 1 \in 1 .. Len(s)
    BY <1>0, <2>1
  <2>6. DOMAIN t = 1 .. WindowSize
    BY <2>4
  <2>7. LiveWindow!ToSet(t) \subseteq LiveWindow!ToSet(s)
    BY <1>0, <2>4, <2>5, <2>6 DEF LiveWindow!ToSet
  <2> QED
    BY <1>0, <2>2, <2>3, <2>4, <2>7
<1>2. CASE ~(Len(s) > WindowSize)
  BY <1>0, <1>2 DEF LiveWindow!Newest
<1> QED
  BY <1>1, <1>2

\* What the window lists is short and has files.
Promised == Len(segments) <= WindowSize /\ LiveWindow!ToSet(NumbersOf(segments)) \subseteq disk

LEMMA PromiseStep ==
  ASSUME TypeInv, WindowInv, Promised, Next
  PROVE  Promised'
<1>1. PICK q : q = NumbersOf(segments)
  OBVIOUS
<1>2. PICK r : r = NumbersOf(segments')
  OBVIOUS
<1>3. segments \in Seq(Segment) /\ segments' \in Seq(Segment) /\ nextSeq \in Seqs
  <2>1. segments \in Seq(Segment) /\ nextSeq \in Seqs
    BY TypeGroups DEF TypeInv, WindowTypes
  <2>2. TypeOK'
    BY TypeStep DEF TypeInv
  <2>3. segments' \in Seq(Segment)
    BY <2>2 DEF TypeOK, Segment
  <2> QED
    BY <2>1, <2>3
<1>4. /\ q \in Seq(Seqs) /\ Len(q) = Len(segments) /\ r \in Seq(Seqs) /\ Len(r) = Len(segments')
      /\ DOMAIN q = 1 .. Len(q)
  BY <1>1, <1>2, <1>3, NumbersOfType
<1>5. Len(q) <= WindowSize /\ LiveWindow!ToSet(q) \subseteq disk
  BY <1>1, <1>4 DEF Promised
<1>6. SUFFICES Len(r) <= WindowSize /\ LiveWindow!ToSet(r) \subseteq disk'
  BY <1>2, <1>4 DEF Promised
<1>7. [LiveWindow!Next]_LiveWindow!vars
  BY StepRefines
<1>8. CASE LiveWindow!List
  <2>1. /\ nextSeq \in disk /\ r = LiveWindow!Newest(Append(q, nextSeq))
        /\ disk' = disk \ (LiveWindow!ToSet(q) \ LiveWindow!ToSet(r))
    BY <1>1, <1>2, <1>8 DEF LiveWindow!List, NumbersOf, LiveWindow!ToSet
  <2>2. PICK all : all = Append(q, nextSeq)
    OBVIOUS
  <2>3. all \in Seq(Seqs) /\ LiveWindow!ToSet(all) = LiveWindow!ToSet(q) \cup {nextSeq}
    <3>1. /\ all \in Seq(Seqs) /\ Len(all) = Len(q) + 1 /\ DOMAIN all = 1 .. Len(q) + 1
          /\ all[Len(q) + 1] = nextSeq /\ \A i \in 1 .. Len(q) : all[i] = q[i]
      BY <1>3, <1>4, <2>2
    <3>2. Len(q) \in Nat
      BY <1>4
    <3>3. \A i \in DOMAIN all : i \in 1 .. Len(q) \/ i = Len(q) + 1
      BY <3>1, <3>2
    <3>4. 1 .. Len(q) \subseteq DOMAIN all /\ Len(q) + 1 \in DOMAIN all
      BY <3>1, <3>2
    <3> QED
      BY <1>4, <3>1, <3>3, <3>4 DEF LiveWindow!ToSet
  <2>4. Len(r) <= WindowSize /\ LiveWindow!ToSet(r) \subseteq LiveWindow!ToSet(all)
    BY <2>1, <2>2, <2>3, NewestAmong
  <2> QED
    BY <1>5, <2>1, <2>3, <2>4
<1>9. CASE LiveWindow!Clear
  <2>1. r = <<>>
    BY <1>2, <1>9 DEF LiveWindow!Clear, NumbersOf
  <2>2. Len(r) = 0 /\ LiveWindow!ToSet(r) = {}
    BY <2>1 DEF LiveWindow!ToSet
  <2>3. WindowSize \in Nat
    BY SegmenterAssumption DEF SegmenterAssumption
  <2> QED
    BY <2>2, <2>3
<1>10. CASE LiveWindow!Create \/ UNCHANGED LiveWindow!vars
  <2>1. r = q /\ disk \subseteq disk'
    BY <1>1, <1>2, <1>10 DEF LiveWindow!Create, LiveWindow!vars, NumbersOf
  <2> QED
    BY <1>5, <2>1
<1>11. CASE LiveWindow!Unlink
  <2>1. /\ r = q
        /\ \E F \in SUBSET {f \in disk : f < nextSeq /\ f \notin LiveWindow!ToSet(q)} : disk' = disk \ F
    BY <1>1, <1>2, <1>11 DEF LiveWindow!Unlink, NumbersOf, LiveWindow!ToSet
  <2> QED
    BY <1>5, <2>1
<1> QED
  BY <1>7, <1>8, <1>9, <1>10, <1>11 DEF LiveWindow!Next

LEMMA PromiseAlways == Spec => [](TypeInv /\ WindowInv /\ Promised)
<1>1. Init => Promised
  BY SegmenterAssumption DEF SegmenterAssumption, Init, Promised, NumbersOf, LiveWindow!ToSet
<1>2. Promised /\ UNCHANGED vars => Promised'
  BY DEF Promised, vars, shared, NumbersOf, LiveWindow!ToSet
<1>3. TypeInv /\ WindowInv /\ Promised /\ [Next]_vars => Promised'
  BY <1>2, PromiseStep
<1> QED
  BY <1>1, <1>3, WindowAlways, PTL DEF Spec

(* A playlist always numbers consecutive segments, the newest last and at     *)
(* most as many as the window holds, so that the first number says which they *)
(* are: buildPlaylist of m3u8.go.                                             *)
THEOREM WindowConsecutive == Spec => []LiveWindow!Consecutive
<1>1. TypeInv /\ WindowInv /\ Promised => LiveWindow!Consecutive
  <2> SUFFICES ASSUME TypeInv, WindowInv, Promised PROVE LiveWindow!Consecutive
    OBVIOUS
  <2>1. segments \in Seq(Segment)
    BY TypeGroups DEF TypeInv, WindowTypes
  <2>2. PICK q : q = NumbersOf(segments)
    OBVIOUS
  <2>3. Len(q) = Len(segments) /\ \A i \in 1 .. Len(segments) : q[i] = segments[i].seq
    BY <2>1, <2>2, NumbersOfType
  <2>4. Len(q) <= WindowSize /\ \A i \in 1 .. Len(q) : q[i] = nextSeq - Len(q) + i - 1
    BY <2>3 DEF Promised, WindowInv, Numbered
  <2> QED
    BY <2>2, <2>4 DEF LiveWindow!Consecutive, NumbersOf
<1> QED
  BY <1>1, PromiseAlways, PTL

(* What a playlist names can be fetched at the moment it is made.             *)
THEOREM WindowFetchable == Spec => []LiveWindow!Fetchable
<1>1. Promised => LiveWindow!Fetchable
  BY DEF Promised, LiveWindow!Fetchable, NumbersOf, LiveWindow!ToSet
<1> QED
  BY <1>1, PromiseAlways, PTL

-----------------------------------------------------------------------------
(* What a segment begins with, as long as the disk takes what is written.  A   *)
(* segment is opened only for a key frame, and the first frame muxed after the *)
(* tables is that one; when Stop closed the handle, nothing is muxed at all.   *)

Began ==
    /\ cur.first \in {"key", "nothing"}
    /\ wpc \in {"create", "open"} => tag.kind = "key"
    /\ wpc \in {"tail", "close", "record"} /\ ~exiting => tag.kind = "key"
    /\ wpc = "mux" /\ writable => tag.kind = "key" \/ cur.first # "nothing"
    /\ file /\ writable /\ wpc \notin {"open", "mux"} => cur.first # "nothing"
FirstInv == Began /\ \A s \in ToSet(segments) : s.first \in {"key", "nothing"}
LEMMA FirstInit == Init => FirstInv
  BY DEF Init, FirstInv, Began, ToSet

LEMMA FirstNext ==
  ASSUME TypeInv, FirstInv, Next, "write" \notin Failures
  PROVE  FirstInv'
<1>0. /\ PartTypes /\ WriterTypes /\ segments \in Seq(Segment) /\ Began
      /\ \A i \in 1 .. Len(segments) : segments[i].first \in {"key", "nothing"}
  BY TypeGroups DEF TypeInv, FirstInv, WindowTypes, ToSet
<1>1. CASE FinaliseRecord
  <2>1. /\ segments' = Window(All) /\ cur' = cur /\ UNCHANGED <<tag, exiting, file, writable>>
        /\ wpc = "record" /\ wpc' = IF exiting THEN "return" ELSE "create"
    BY <1>1 DEF FinaliseRecord, All, Added, fileVars, AfterFinalise
  <2>2. ~file /\ WindowTypes
    BY <2>1, TypeGroups DEF TypeInv, SegmentsLeft
  <2>3. Began'
    BY <1>0, <2>1, <2>2 DEF Began
  <2>4. Added \in Segment /\ Added.first \in {"key", "nothing"}
    BY <1>0, <2>2 DEF Added, Segment, WindowTypes, PartTypes, Cur, Began
  <2>5. /\ All \in Seq(Segment)
        /\ \A i \in 1 .. Len(All) : All[i].first \in {"key", "nothing"}
    BY <1>0, <2>4 DEF All
  <2>6. /\ Window(All) \in Seq(Segment)
        /\ \A i \in 1 .. Len(Window(All)) : \E j \in 1 .. Len(All) : Window(All)[i] = All[j]
    <3> HIDE DEF All
    <3>1. WindowSize \in Nat \ {0}
      BY SegmenterAssumption DEF SegmenterAssumption
    <3>2. /\ Window(All) \in Seq(Segment)
          /\ Len(Window(All)) = IF Len(All) > WindowSize THEN WindowSize ELSE Len(All)
          /\ \A i \in 1 .. Len(Window(All)) :
                Window(All)[i] = All[Len(All) - Len(Window(All)) + i]
      BY <2>5, WindowType
    <3>3. ASSUME NEW i \in 1 .. Len(Window(All))
          PROVE  Len(All) - Len(Window(All)) + i \in 1 .. Len(All)
      BY <2>5, <3>1, <3>2
    <3> QED
      BY <3>2, <3>3
  <2>7. \A x \in ToSet(segments') : x.first \in {"key", "nothing"}
    BY <2>1, <2>5, <2>6 DEF ToSet
  <2> QED
    BY <2>3, <2>7 DEF FirstInv
<1>2. CASE StopTakesSegments
  <2>1. segments' = <<>> /\ UNCHANGED <<cur, wpc, tag, exiting, file, writable>>
    BY <1>2 DEF StopTakesSegments, writerVars, fileVars
  <2> QED
    BY <1>0, <2>1 DEF FirstInv, Began, ToSet
<1>3. CASE PartBoundary \/ FinaliseTail
  <2>1. PICK t \in Times : ClosePart(t) \/ UNCHANGED <<parts, cur, waiters>>
    BY <1>0, <1>3 DEF PartBoundary, FinaliseTail, PartTypes, WriterTypes, Cur
  <2>2. cur'.first = cur.first /\ UNCHANGED segments
    BY <1>3, <2>1, ClosePartType DEF TypeInv, PartBoundary, FinaliseTail
  <2>3. Began'
    BY <1>0, <1>3, <2>2 DEF PartBoundary, FinaliseTail, Began, AfterFinalise
  <2> QED
    BY <2>2, <2>3 DEF FirstInv
<1>4. CASE Mux
  <2>1. /\ wpc = "mux" /\ writable /\ wpc' \in {"part", "loop"}
        /\ cur'.first = IF cur.first = "nothing" THEN tag.kind ELSE cur.first
        /\ UNCHANGED <<segments, tag>>
    BY <1>0, <1>4 DEF Mux, shared, PartTypes, Cur
  <2> QED
    BY <1>0, <2>1 DEF FirstInv, Began
<1>5. CASE OpenSegment
  <2>1. wpc = "open" /\ UNCHANGED <<segments, tag, file, writable>>
    BY <1>5 DEF OpenSegment
  <2>2. (writable /\ wpc' = "mux") \/ (~writable /\ wpc' = "tail" /\ exiting' = TRUE)
    BY <1>5 DEF OpenSegment, Fail
  <2>3. cur' = cur \/ cur' = [cur EXCEPT !.bytes = @ + 1]
    BY <1>5 DEF OpenSegment
  <2>4. cur'.first = cur.first
    BY <1>0, <2>3 DEF PartTypes, Cur
  <2> QED
    BY <1>0, <2>1, <2>2, <2>4 DEF FirstInv, Began
<1>6. CASE CreateFile
  <2>1. wpc = "create" /\ wpc' = "open" /\ cur'.first = "nothing" /\ UNCHANGED <<segments, tag>>
    BY <1>6 DEF CreateFile, NewSegment, shared
  <2> QED
    BY <1>0, <2>1 DEF FirstInv, Began
<1>7. CASE Read
  <2>1. PICK k \in Kinds, t \in Times :
          /\ tag' = [kind |-> k, dts |-> t]
          /\ wpc' = AfterRead([kind |-> k, dts |-> t])
    BY <1>7 DEF Read
  <2>2. /\ wpc = "read" /\ UNCHANGED <<segments, cur, exiting, file, writable>>
        /\ wpc' \in {"create", "loop", "tail", "mux"} /\ tag'.kind = k
        /\ (wpc' \in {"create", "tail"} => k = "key") /\ (wpc' = "mux" => file)
    BY <1>0, <1>7, <2>1 DEF Read, fileVars, shared, AfterRead
  <2> QED
    BY <1>0, <2>2 DEF FirstInv, Began
<1>8. CASE \/ Mkdir \/ Loop \/ ReadDead \/ CreateFails \/ MuxFails \/ FinaliseClose \/ Return
  <2>1. UNCHANGED <<segments, cur, tag>>
    BY <1>8 DEF Mkdir, Loop, ReadDead, CreateFails, MuxFails, FinaliseClose, Return, shared,
         fileVars, writerVars
  <2>2. Began'
    BY <1>0, <1>8, <2>1 DEF Mkdir, Loop, ReadDead, CreateFails, MuxFails, FinaliseClose, Return,
         Fail, fileVars, Began
  <2> QED
    BY <2>1, <2>2 DEF FirstInv
<1>9. CASE \/ PublisherGone \/ StopBegin \/ StopClose \/ StopNil \/ StopRemove \/ StopReady
           \/ \E w \in Waiters : Ask(w) \/ Check(w) \/ Expire(w) \/ SleeperWakes(w)
  <2>1. UNCHANGED <<segments, cur, tag, wpc, exiting>>
    BY <1>9 DEF PublisherGone, StopBegin, StopClose, StopNil, StopRemove, StopReady, Ask, Check,
         Expire, SleeperWakes, writerVars, fileVars, shared
  <2>2. (file' = file \/ file' = FALSE) /\ (writable' = writable \/ writable' = FALSE)
    BY <1>9 DEF PublisherGone, StopBegin, StopClose, StopNil, StopRemove, StopReady, Ask, Check,
         Expire, SleeperWakes, fileVars
  <2> QED
    BY <1>0, <2>1, <2>2 DEF FirstInv, Began
<1> QED
  BY <1>1, <1>2, <1>3, <1>4, <1>5, <1>6, <1>7, <1>8, <1>9 DEF Next, Writer, Stop

(* Every segment begins with a key frame unless the disk fails a write; Stop   *)
(* closing the handle under the writer, a directory or file that cannot be     *)
(* made, late audio: nothing else gets another frame in front of it.           *)
THEOREM KeyFirstCorrect ==
  ASSUME "write" \notin Failures
  PROVE  Spec => []KeyFirst
<1>1. FirstInv /\ UNCHANGED vars => FirstInv'
  BY DEF FirstInv, Began, vars, writerVars, fileVars, shared
<1>2. TypeInv /\ FirstInv /\ [Next]_vars => (TypeInv /\ FirstInv)'
  BY <1>1, TypeStep, FirstNext
<1>3. FirstInv => KeyFirst
  BY DEF FirstInv, Began, KeyFirst
<1> QED
  BY <1>2, <1>3, TypeInit, FirstInit, PTL DEF Spec
-----------------------------------------------------------------------------
(* No lost wake-up.  Every step that adds a part or a segment broadcasts under *)
(* mu, and a request parks in the step that tests.                             *)

LEMMA WakesNext ==
  ASSUME TypeInv, PartWakesWaiters, Next
  PROVE  PartWakesWaiters'
<1>0. /\ waiters \in [Waiters -> Request] /\ parts \in Seq(Part) /\ nextSeq \in Nat
      /\ Len(parts) \in Nat
  BY TypeGroups DEF TypeInv, PartTypes, WindowTypes, Seqs
<1>1. CASE Broadcast
  <2>1. \A w \in Waiters : waiters'[w].at # "parked"
    BY <1>0, <1>1 DEF Broadcast, Request
  <2> QED
    BY <2>1 DEF PartWakesWaiters
<1>2. CASE OpenSegment
  <2>1. parts' = <<>> /\ UNCHANGED <<waiters, nextSeq>>
    BY <1>2 DEF OpenSegment
  <2>2. \A w \in Waiters : ~(waiters[w].part < 0)
    BY <1>0 DEF Request
  <2> QED
    BY <2>1, <2>2 DEF PartWakesWaiters
<1>3. CASE PartBoundary \/ FinaliseTail
  <2>1. CASE UNCHANGED <<parts, waiters>>
    BY <1>3, <2>1 DEF PartBoundary, FinaliseTail, PartWakesWaiters
  <2>2. CASE ~UNCHANGED <<parts, waiters>>
    <3>1. Broadcast
      BY <1>3, <2>2 DEF PartBoundary, FinaliseTail, ClosePart
    <3> QED
      BY <1>1, <3>1
  <2> QED
    BY <2>1, <2>2
<1>4. CASE FinaliseRecord \/ StopTakesSegments
  BY <1>1, <1>4 DEF FinaliseRecord, StopTakesSegments
<1>5. ASSUME NEW w \in Waiters, Check(w)
      PROVE  PartWakesWaiters'
  <2>1. UNCHANGED <<nextSeq, named, parts>>
    BY <1>5 DEF Check, shared
  <2>2. \A v \in Waiters : v # w => waiters'[v] = waiters[v]
    BY <1>0, <1>5 DEF Check
  <2>3. waiters'[w].at = "parked" => /\ ~Satisfied(waiters[w])
                                     /\ waiters'[w].msn = waiters[w].msn
                                     /\ waiters'[w].part = waiters[w].part
    BY <1>0, <1>5 DEF Check, Request
  <2>4. /\ waiters[w].msn \in Int /\ waiters[w].part \in Int
    BY <1>0 DEF Request, Seqs
  <2>5. ~Satisfied(waiters[w]) =>
          /\ waiters[w].msn >= nextSeq - 1
          /\ ~(named /\ waiters[w].msn = nextSeq /\ waiters[w].part < Len(parts))
    BY <1>0, <2>4 DEF Satisfied
  <2> QED
    BY <2>1, <2>2, <2>3, <2>5 DEF PartWakesWaiters
<1>6. ASSUME NEW w \in Waiters, Ask(w) \/ Expire(w) \/ SleeperWakes(w)
      PROVE  PartWakesWaiters'
  <2>1. UNCHANGED <<nextSeq, named, parts>>
    BY <1>6 DEF Ask, Expire, SleeperWakes, shared
  <2>2. \A v \in Waiters : waiters'[v].at = "parked" =>
           waiters[v].at = "parked" /\ waiters'[v].msn = waiters[v].msn
           /\ waiters'[v].part = waiters[v].part
    <3>1. CASE Ask(w)
      BY <1>0, <3>1 DEF Ask, Request
    <3>2. CASE Expire(w)
      BY <1>0, <3>2 DEF Expire, Request
    <3>3. CASE SleeperWakes(w)
      BY <1>0, <3>3 DEF SleeperWakes, Request
    <3> QED
      BY <1>6, <3>1, <3>2, <3>3
  <2> QED
    BY <2>1, <2>2 DEF PartWakesWaiters
<1>7. CASE \/ Mkdir \/ Loop \/ ReadDead \/ CreateFile \/ CreateFails \/ Mux \/ MuxFails
           \/ FinaliseClose \/ Return \/ Read \/ PublisherGone
           \/ StopBegin \/ StopClose \/ StopNil \/ StopRemove \/ StopReady
  <2>1. UNCHANGED <<waiters, nextSeq, named, parts>>
    BY <1>7 DEF Mkdir, Loop, ReadDead, CreateFile, CreateFails, Mux, MuxFails, FinaliseClose,
         Return, Read, PublisherGone, StopBegin, StopClose, StopNil, StopRemove, StopReady, shared
  <2> QED
    BY <2>1 DEF PartWakesWaiters
<1> QED
  BY <1>2, <1>3, <1>4, <1>5, <1>6, <1>7 DEF Next, Writer, Stop

(* No request sleeps on a part or a segment that is already there, for any     *)
(* number of requests: WaitForPlaylist tests and parks under the mutex that    *)
(* every part and every segment is added under.                                *)
THEOREM NoLostWakeUp == Spec => []PartWakesWaiters
<1>1. Init => PartWakesWaiters
  BY DEF Init, PartWakesWaiters
<1>2. PartWakesWaiters /\ UNCHANGED vars => PartWakesWaiters'
  BY DEF PartWakesWaiters, vars, shared
<1>3. TypeInv /\ PartWakesWaiters /\ [Next]_vars => (TypeInv /\ PartWakesWaiters)'
  BY <1>2, TypeStep, WakesNext
<1> QED
  BY <1>1, <1>3, TypeInit, PTL DEF Spec
-----------------------------------------------------------------------------
(* Parts.  The part in progress starts where the last recorded one ended.  The *)
(* list is for the segment in progress, which has a name from openSegment to   *)
(* the section that records it, as long as Stop does not take the name away.   *)

PartStarts ==
    /\ cur.poff <= cur.bytes
    /\ wpc = "open" => cur.poff = 0
NamedWhileOpen ==
    ~stopped =>
        /\ named => wpc = "record" \/ (file /\ wpc \notin {"create", "open"})
        /\ wpc = "record" \/ (file /\ wpc # "open") => named
        /\ wpc = "open" => file
PartInv == PartStarts /\ NamedWhileOpen /\ PartsTile

\* What closeCurrentPart adds to the parts, if anything.
LEMMA CloseFacts ==
  ASSUME TypeOK, NEW t \in Times, ClosePart(t) \/ UNCHANGED <<parts, cur, waiters>>
  PROVE  /\ cur'.bytes = cur.bytes
         /\ \/ parts' = parts /\ cur'.poff = cur.poff
            \/ \E p \in Part : /\ p.off = cur.poff /\ p.len = cur.bytes - cur.poff
                               /\ parts' = Append(parts, p) /\ cur'.poff = cur.bytes
<1>0. cur \in Cur
  BY TypeGroups DEF PartTypes
<1>1. CASE UNCHANGED <<parts, cur, waiters>>
  BY <1>1
<1>2. CASE ClosePart(t) /\ ~UNCHANGED <<parts, cur, waiters>>
  <2> DEFINE part == [off |-> cur.poff, len |-> cur.bytes - cur.poff,
                      dur |-> Elapsed(t, cur.pstart)]
  <2>1. /\ cur.bytes > cur.poff
        /\ parts' = Append(parts, part)
        /\ cur' = [cur EXCEPT !.pstart = t, !.poff = cur.bytes]
    BY <1>2 DEF ClosePart
  <2>2. /\ cur.bytes \in Nat /\ cur.poff \in Nat /\ t \in Int /\ cur.pstart \in Int
        /\ MaxBytes \in Nat /\ cur.bytes <= MaxBytes
    BY <1>0, SegmenterAssumption DEF SegmenterAssumption, Times, Bytes, Cur
  <2>3. cur.bytes - cur.poff \in Bytes /\ cur.poff \in Bytes
    BY <2>1, <2>2 DEF Bytes
  <2>4. part \in Part
    BY <2>2, <2>3, ElapsedType DEF Part
  <2>5. cur'.bytes = cur.bytes /\ cur'.poff = cur.bytes
    BY <1>0, <2>1 DEF Cur
  <2> QED
    BY <2>1, <2>4, <2>5
<1> QED
  BY <1>1, <1>2

\* A part that starts where the parts before it end continues the tiling.
LEMMA TileAppend ==
  ASSUME NEW ps \in Seq(Part), NEW p \in Part, NEW n \in Nat, NEW m \in Nat,
         p.off = n, p.len = m - n, Tile(ps, n)
  PROVE  Tile(Append(ps, p), m)
<1> DEFINE qs == Append(ps, p)
           begins(i) == IF i <= Len(qs) THEN qs[i].off ELSE m
           ends(i) == IF i = 1 THEN 0 ELSE qs[i - 1].off + qs[i - 1].len
<1>1. /\ Len(qs) = Len(ps) + 1 /\ Len(ps) \in Nat
      /\ qs[Len(ps) + 1] = p
      /\ \A i \in 1 .. Len(ps) : qs[i] = ps[i]
  OBVIOUS
<1> HIDE DEF qs
<1>2. ASSUME NEW i \in 1 .. Len(ps) + 2 PROVE begins(i) = ends(i)
  <2>1. CASE i = Len(ps) + 2
    <3>1. i - 1 = Len(ps) + 1 /\ ~(i <= Len(qs)) /\ i # 1
      BY <1>1, <2>1
    <3> QED
      BY <1>1, <3>1
  <2>2. CASE i = Len(ps) + 1
    <3>1. begins(i) = n
      BY <1>1, <2>2
    <3>2. n = IF i = 1 THEN 0 ELSE ps[i - 1].off + ps[i - 1].len
      BY <1>1, <2>2 DEF Tile
    <3>3. i # 1 => qs[i - 1] = ps[i - 1]
      BY <1>1, <2>2
    <3> QED
      BY <3>1, <3>2, <3>3
  <2>3. CASE i <= Len(ps)
    <3>1. qs[i] = ps[i] /\ (i # 1 => qs[i - 1] = ps[i - 1])
      BY <1>1, <2>3
    <3>2. ps[i].off = IF i = 1 THEN 0 ELSE ps[i - 1].off + ps[i - 1].len
      BY <1>1, <2>3 DEF Tile
    <3> QED
      BY <1>1, <2>3, <3>1, <3>2
  <2> QED
    BY <1>1, <2>1, <2>2, <2>3
<1> QED
  BY <1>1, <1>2 DEF Tile, qs

LEMMA TileEmpty == Tile(<<>>, 0)
  BY DEF Tile

LEMMA PartStartsNext ==
  ASSUME TypeInv, PartStarts, Next
  PROVE  PartStarts'
<1>0. /\ TypeOK /\ cur \in Cur /\ tag \in [kind : Kinds, dts : Times]
      /\ cur.bytes \in Nat /\ cur.poff \in Nat
  BY TypeGroups DEF TypeInv, PartTypes, WriterTypes, Cur, Bytes
<1>1. CASE CreateFile
  BY <1>1 DEF CreateFile, NewSegment, PartStarts
<1>2. CASE OpenSegment \/ Mux
  <2>1. /\ cur'.poff = cur.poff
        /\ cur'.bytes = cur.bytes \/ cur'.bytes = cur.bytes + 1
        /\ wpc' # "open"
    BY <1>0, <1>2 DEF OpenSegment, Mux, Fail, Cur
  <2> QED
    BY <1>0, <2>1 DEF PartStarts
<1>3. CASE PartBoundary \/ FinaliseTail
  <2>1. PICK t \in Times : ClosePart(t) \/ UNCHANGED <<parts, cur, waiters>>
    BY <1>0, <1>3 DEF PartBoundary, FinaliseTail, Cur
  <2>2. cur'.bytes = cur.bytes /\ (cur'.poff = cur.poff \/ cur'.poff = cur.bytes)
    BY <1>0, <2>1, CloseFacts
  <2>3. wpc' # "open"
    BY <1>3 DEF PartBoundary, FinaliseTail, AfterFinalise
  <2> QED
    BY <1>0, <2>2, <2>3 DEF PartStarts
<1>4. CASE Read
  <2>1. cur' = cur /\ \E t \in [kind : Kinds, dts : Times] : wpc' = AfterRead(t)
    BY <1>4 DEF Read, fileVars
  <2> QED
    BY <2>1 DEF AfterRead, PartStarts
<1>5. CASE \/ Mkdir \/ Loop \/ ReadDead \/ CreateFails \/ MuxFails \/ FinaliseClose
           \/ FinaliseRecord \/ Return
  BY <1>5 DEF Mkdir, Loop, ReadDead, CreateFails, MuxFails, FinaliseClose, FinaliseRecord,
       Return, Fail, AfterFinalise, fileVars, PartStarts
<1>6. CASE PublisherGone \/ Stop
           \/ \E w \in Waiters : Ask(w) \/ Check(w) \/ Expire(w) \/ SleeperWakes(w)
  <2>1. UNCHANGED <<wpc, cur>>
    BY <1>6 DEF PublisherGone, Stop, StopBegin, StopClose, StopNil, StopTakesSegments, StopRemove,
         StopReady, Ask, Check, Expire, SleeperWakes, writerVars, fileVars
  <2> QED
    BY <2>1 DEF PartStarts
<1> QED
  BY <1>1, <1>2, <1>3, <1>4, <1>5, <1>6 DEF Next, Writer

LEMMA NamedNext ==
  ASSUME TypeInv, NamedWhileOpen, Next
  PROVE  NamedWhileOpen'
<1>0. (wpc = "record" => ~file) /\ file \in BOOLEAN /\ named \in BOOLEAN
  BY TypeGroups DEF TypeInv, SegmentsLeft, HandleTypes, FlagTypes
<1>1. CASE Read
  <2>1. UNCHANGED <<file, named, spc>> /\ wpc = "read"
        /\ \E t \in [kind : Kinds, dts : Times] : wpc' = AfterRead(t)
    BY <1>1 DEF Read, fileVars, shared, stopVars
  <2>2. wpc' \in {"create", "loop", "tail", "mux"} /\ (wpc' = "create" => ~file)
    BY <2>1 DEF AfterRead
  <2> QED
    BY <2>1, <2>2 DEF NamedWhileOpen, stopped
<1>2. CASE Mkdir \/ Loop \/ ReadDead \/ CreateFails \/ Mux \/ MuxFails \/ PartBoundary \/ Return
  <2>1. UNCHANGED <<file, named, spc>> /\ wpc' \notin {"create", "open", "record"}
        /\ wpc \notin {"open", "record"}
    BY <1>2 DEF Mkdir, Loop, ReadDead, CreateFails, Mux, MuxFails, PartBoundary, Return, Fail,
         fileVars, shared, stopVars
  <2> QED
    BY <2>1 DEF NamedWhileOpen, stopped
<1>3. CASE CreateFile \/ OpenSegment \/ FinaliseTail \/ FinaliseClose \/ FinaliseRecord
  <2>1. CASE CreateFile
    BY <2>1 DEF CreateFile, shared, stopVars, NamedWhileOpen, stopped
  <2>2. CASE OpenSegment
    BY <2>2 DEF OpenSegment, Fail, stopVars, NamedWhileOpen, stopped
  <2>3. CASE FinaliseTail
    BY <2>3 DEF FinaliseTail, AfterFinalise, stopVars, NamedWhileOpen, stopped
  <2>4. CASE FinaliseClose
    BY <2>4 DEF FinaliseClose, shared, stopVars, NamedWhileOpen, stopped
  <2>5. CASE FinaliseRecord
    BY <1>0, <2>5 DEF FinaliseRecord, AfterFinalise, fileVars, stopVars, NamedWhileOpen, stopped
  <2> QED
    BY <1>3, <2>1, <2>2, <2>3, <2>4, <2>5
<1>4. CASE Stop
  BY <1>4 DEF Stop, StopBegin, StopClose, StopNil, StopTakesSegments, StopRemove, StopReady,
       NamedWhileOpen, stopped
<1>5. CASE PublisherGone
           \/ \E w \in Waiters : Ask(w) \/ Check(w) \/ Expire(w) \/ SleeperWakes(w)
  <2>1. UNCHANGED <<wpc, file, named, spc>>
    BY <1>5 DEF PublisherGone, Ask, Check, Expire, SleeperWakes, writerVars, fileVars, shared,
         stopVars
  <2> QED
    BY <2>1 DEF NamedWhileOpen, stopped
<1> QED
  BY <1>1, <1>2, <1>3, <1>4, <1>5 DEF Next, Writer

\* The segments of PartsTile, by position.
LEMMA TiledSegments ==
  PartsTile <=> (~stopped =>
                   /\ named => Tile(parts, cur.poff)
                   /\ \A i \in DOMAIN segments :
                         \E n \in 0 .. segments[i].bytes : Tile(segments[i].parts, n))
  BY DEF PartsTile, ToSet

LEMMA TileNext ==
  ASSUME TypeInv, PartInv, Next
  PROVE  PartsTile'
<1>0. /\ TypeOK /\ cur \in Cur /\ tag \in [kind : Kinds, dts : Times] /\ parts \in Seq(Part)
      /\ segments \in Seq(Segment) /\ nextSeq \in Seqs
      /\ cur.bytes \in Nat /\ cur.poff \in Nat /\ cur.poff <= cur.bytes
  BY TypeGroups DEF TypeInv, PartTypes, WriterTypes, WindowTypes, Cur, Bytes, PartInv, PartStarts
<1>1. CASE OpenSegment
  <2>1. UNCHANGED <<segments, spc>> /\ parts' = <<>> /\ cur'.poff = cur.poff /\ wpc = "open"
    BY <1>0, <1>1 DEF OpenSegment, Cur, stopVars
  <2>2. cur.poff = 0
    BY <2>1 DEF PartInv, PartStarts
  <2> QED
    BY <2>1, <2>2, TileEmpty DEF PartInv, PartsTile, stopped
<1>2. CASE PartBoundary \/ FinaliseTail
  <2>1. PICK t \in Times : ClosePart(t) \/ UNCHANGED <<parts, cur, waiters>>
    BY <1>0, <1>2 DEF PartBoundary, FinaliseTail, Cur
  <2>2. UNCHANGED <<segments, spc, named>>
    BY <1>2 DEF PartBoundary, FinaliseTail, stopVars
  <2>3. ASSUME Tile(parts, cur.poff) PROVE Tile(parts', cur'.poff)
    <3>1. CASE parts' = parts /\ cur'.poff = cur.poff
      BY <2>3, <3>1
    <3>2. ASSUME NEW p \in Part, p.off = cur.poff, p.len = cur.bytes - cur.poff,
                 parts' = Append(parts, p), cur'.poff = cur.bytes
          PROVE  Tile(parts', cur'.poff)
      BY <1>0, <2>3, <3>2, TileAppend
    <3> QED
      BY <1>0, <2>1, <3>1, <3>2, CloseFacts
  <2> QED
    BY <2>2, <2>3 DEF PartInv, PartsTile, stopped
<1>3. CASE FinaliseRecord
  <2> DEFINE seg == [seq |-> nextSeq, parts |-> parts, bytes |-> cur.bytes,
                     first |-> cur.first]
             all == Append(segments, seg)
  <2>1. /\ segments' = Window(all) /\ named' = FALSE /\ UNCHANGED spc /\ wpc = "record"
    BY <1>3 DEF FinaliseRecord, stopVars
  <2>2. all \in Seq(Segment)
    BY <1>0 DEF Segment, Cur
  <2>3. ASSUME ~stopped, NEW j \in 1 .. Len(all)
        PROVE  \E n \in 0 .. all[j].bytes : Tile(all[j].parts, n)
    <3>1. CASE j = Len(segments) + 1
      <4>1. Tile(parts, cur.poff)
        BY <2>1, <2>3 DEF PartInv, NamedWhileOpen, PartsTile
      <4>2. all[j] = seg
        BY <1>0, <3>1
      <4> QED
        BY <1>0, <4>1, <4>2
    <3>2. CASE j # Len(segments) + 1
      <4>1. j \in DOMAIN segments /\ all[j] = segments[j]
        BY <1>0, <3>2
      <4> QED
        BY <2>3, <4>1, TiledSegments DEF PartInv
    <3> QED
      BY <3>1, <3>2
  <2> HIDE DEF all
  <2>4. ASSUME NEW i \in 1 .. Len(Window(all))
        PROVE  \E j \in 1 .. Len(all) : Window(all)[i] = all[j]
    <3>1. /\ Len(Window(all)) = IF Len(all) > WindowSize THEN WindowSize ELSE Len(all)
          /\ Window(all)[i] = all[Len(all) - Len(Window(all)) + i]
          /\ Window(all) \in Seq(Segment)
      BY <2>2, WindowType
    <3>2. /\ Len(Window(all)) \in Nat /\ Len(all) \in Nat /\ Len(Window(all)) <= Len(all)
          /\ i \in Int /\ 1 <= i /\ i <= Len(Window(all))
      BY <2>2, <3>1
    <3>3. Len(all) - Len(Window(all)) + i \in 1 .. Len(all)
      BY <3>2
    <3> QED
      BY <3>1, <3>3
  <2>5. segments' \in Seq(Segment)
    BY <2>1, <2>2, WindowType
  <2>6. ASSUME ~stopped, NEW i \in DOMAIN segments'
        PROVE  \E n \in 0 .. segments'[i].bytes : Tile(segments'[i].parts, n)
    <3>1. i \in 1 .. Len(Window(all))
      BY <2>1, <2>5
    <3> QED
      BY <2>1, <2>3, <2>4, <2>6, <3>1
  <2> QED
    BY <2>1, <2>6 DEF PartsTile, ToSet, stopped
<1>4. CASE CreateFile
  <2>1. UNCHANGED <<segments, spc, named>> /\ wpc = "create"
    BY <1>4 DEF CreateFile, shared, stopVars
  <2> QED
    BY <2>1 DEF PartInv, NamedWhileOpen, PartsTile, stopped
<1>5. CASE Stop
  <2>1. stopped'
    BY <1>5 DEF Stop, StopBegin, StopClose, StopNil, StopTakesSegments, StopRemove, StopReady,
         stopped
  <2> QED
    BY <2>1 DEF PartsTile
<1>6. CASE \/ Mkdir \/ Loop \/ ReadDead \/ CreateFails \/ Mux \/ MuxFails \/ FinaliseClose
           \/ Return \/ Read \/ PublisherGone
           \/ \E w \in Waiters : Ask(w) \/ Check(w) \/ Expire(w) \/ SleeperWakes(w)
  <2>1. UNCHANGED <<segments, parts, named, spc>> /\ cur'.poff = cur.poff
    BY <1>0, <1>6 DEF Mkdir, Loop, ReadDead, CreateFails, Mux, MuxFails, FinaliseClose, Return,
         Read, PublisherGone, Ask, Check, Expire, SleeperWakes, fileVars, shared, stopVars, Cur
  <2> QED
    BY <2>1 DEF PartInv, PartsTile, stopped
<1> QED
  BY <1>1, <1>2, <1>3, <1>4, <1>5, <1>6 DEF Next, Writer

(* The byte ranges of the parts in progress tile the file up to the part that  *)
(* is being written, whatever writes fail, for any part target and however far *)
(* the audio trails; a finished segment keeps such a list.                     *)
THEOREM PartsTileCorrect == Spec => []PartsTile
<1>1. Init => PartInv
  BY DEF Init, PartInv, PartStarts, NamedWhileOpen, PartsTile, ToSet
<1>2. PartInv /\ UNCHANGED vars => PartInv'
  BY DEF PartInv, PartStarts, NamedWhileOpen, PartsTile, stopped, vars, writerVars, fileVars,
         shared, stopVars
<1>3. TypeInv /\ PartInv /\ Next => PartInv'
  BY PartStartsNext, NamedNext, TileNext DEF PartInv
<1>4. TypeInv /\ PartInv /\ [Next]_vars => (TypeInv /\ PartInv)'
  BY <1>2, <1>3, TypeStep
<1> QED
  BY <1>1, <1>4, TypeInit, PTL DEF Spec, PartInv
=============================================================================
