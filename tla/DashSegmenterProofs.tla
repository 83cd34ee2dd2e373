------------------------- MODULE DashSegmenterProofs -------------------------
(***************************************************************************)
(* A DASH instance is a live window of decodable fragments, for every       *)
(* window size, target duration, clock and number of frames, with writes    *)
(* that fail and Stop in another goroutine at any point.                    *)
(***************************************************************************)
EXTENDS DashSegmenter, TLAPS

Sample == [n : Numbers, dts : Times]
Fragment == [seq : Seqs, first : Numbers, last : Numbers]

-----------------------------------------------------------------------------
(* The frames.  A fragment takes two of them at least, which is what keeps its *)
(* number in range: the frames before those that wait are done with.           *)

Flushing == wpc \in {"flush", "write", "record", "clear"}
Done == IF wpc = "clear" THEN taken ELSE taken - Len(samples)

RoomLeft ==
    /\ exiting => Flushing \/ wpc \in {"return", "returned"}
    /\ (wpc = "take" \/ Flushing) /\ ~exiting => taken < MaxFrames
    /\ wpc \in {"write", "record", "clear"} => Len(samples) >= 2
NumbersLeft == 2 * nextSeq <= Done
InARow ==
    /\ keys \subseteq 1 .. taken
    /\ \A i \in 1 .. Len(samples) : samples[i].n = taken - Len(samples) + i
TypeInv == TypeOK /\ RoomLeft /\ NumbersLeft /\ InARow

(* Every fragment ends before the frames that wait, and what follows the last  *)
(* one of the window is key frames that stood alone.                           *)
BeginsWithKey ==
    /\ samples # <<>> => samples[1].n \in keys
    /\ wpc = "take" /\ samples = <<>> => tag.key
    /\ Flushing /\ ~exiting => tag.key
Behind == \A i \in 1 .. Len(segments) : segments[i].last <= Done
Alone ==
    segments # <<>> => segments[Len(segments)].last + 1 .. Done \subseteq keys
FrameInv == BeginsWithKey /\ Behind /\ Alone /\ FragmentsDecodable /\ NothingLostBetween

(* The window.                                                                 *)
InSequence ==
    \A i \in 1 .. Len(segments) : segments[i].seq = nextSeq - Len(segments) + i - 1
WrittenOnDisk == wpc = "record" => nextSeq \in disk
DoomedUnlisted == spc = "remove" => \A d \in doomed : d < nextSeq - Len(segments)
WindowInv == InSequence /\ WrittenOnDisk /\ DoomedUnlisted

(* The init file.                                                              *)
HeaderInv ==
    /\ init = headers
    /\ wpc \in {"header", "written"} => headers > 0
    /\ headers = 0 \/ (headers = 1 /\ wpc = "header") => ~initWritten
    /\ headers <= 1 /\ spc \notin {"ready", "done"} /\ (initWritten \/ wpc = "written")
          => initFile # 0

(* After Stop has emptied the window.  The writer that listed a fragment since  *)
(* then has not enough left for another, and finds Stop at the top of its loop. *)
Emptied == spc \notin {"none", "lock"}
Settled ==
    \/ wpc \in {"clear", "return", "returned"}
    \/ wpc = "take" /\ samples = <<>>
    \/ wpc \in {"loop", "flush"} /\ Len(samples) <= 1
LateInv == Emptied /\ segments # <<>> => Len(segments) = 1 /\ Settled

-----------------------------------------------------------------------------
(* Types, by group of variables. *)

WriterTypes ==
    /\ wpc \in {"mkdir", "loop", "read", "header", "written", "flush", "write",
                "record", "clear", "take", "return", "returned"}
    /\ exiting \in BOOLEAN
    /\ tag \in [key : BOOLEAN, dts : Times]
    /\ clock \in Times /\ headers \in 0 .. MaxHeaders /\ dead \in BOOLEAN
InitTypes ==
    init \in 0 .. MaxHeaders /\ initFile \in 0 .. MaxHeaders /\ initWritten \in BOOLEAN
FrameTypes == samples \in Seq(Sample) /\ taken \in 0 .. MaxFrames /\ keys \subseteq Numbers
WindowTypes ==
    /\ disk \subseteq Seqs /\ doomed \subseteq Seqs
    /\ segments \in Seq(Fragment)
    /\ nextSeq \in Seqs
FlagTypes ==
    /\ ready \in BOOLEAN
    /\ spc \in {"none", "lock", "remove", "unlink", "ready", "done"}

LEMMA TypeGroups ==
  TypeOK <=> WriterTypes /\ InitTypes /\ FrameTypes /\ WindowTypes /\ FlagTypes
  BY DEF TypeOK, WriterTypes, InitTypes, FrameTypes, WindowTypes, FlagTypes, Sample, Fragment

LEMMA TypeInit == Init => TypeInv
<1> SUFFICES ASSUME Init PROVE TypeInv
  OBVIOUS
<1>1. 0 \in Times /\ 0 \in Seqs /\ 0 \in 0 .. MaxHeaders /\ 0 \in 0 .. MaxFrames
  BY DashAssumption DEF DashAssumption, Times, Seqs
<1>2. WriterTypes /\ InitTypes /\ FrameTypes /\ WindowTypes /\ FlagTypes
  <2>1. WriterTypes
    BY <1>1 DEF Init, WriterTypes
  <2>2. InitTypes
    BY <1>1 DEF Init, InitTypes
  <2>3. FrameTypes
    BY <1>1 DEF Init, FrameTypes
  <2>4. WindowTypes
    BY <1>1 DEF Init, WindowTypes
  <2>5. FlagTypes
    BY DEF Init, FlagTypes
  <2> QED
    BY <2>1, <2>2, <2>3, <2>4, <2>5
<1>3. RoomLeft /\ NumbersLeft /\ InARow
  BY DEF Init, RoomLeft, NumbersLeft, Done, InARow, Flushing
<1> QED
  BY <1>2, <1>3, TypeGroups DEF TypeInv

(* The steps that touch neither the frames nor their place in the window, and  *)
(* those that touch no part of the window.                                     *)
NoFrame ==
    \/ Mkdir \/ Loop \/ ReadDead \/ WriteInit \/ WriteInitFails \/ InitWritten
    \/ WriteFragment \/ WriteFragmentFails \/ Return \/ ReadHeader \/ PublisherGone
    \/ StopBegin \/ StopRemove \/ StopUnlink \/ StopReady
LEMMA Splits ==
  Next => \/ ReadFrame \/ TakeFrame \/ Flush \/ Record \/ ClearSamples \/ StopTakesSegments
          \/ NoFrame
  BY DEF Next, Writer, Stop, NoFrame
LEMMA NoFrameLeaves ==
  NoFrame => UNCHANGED <<samples, taken, keys, segments, nextSeq, Done, tag>>
<1>1. NoFrame => UNCHANGED <<samples, taken, keys, segments, nextSeq, tag>>
  BY DEF NoFrame, Mkdir, Loop, ReadDead, WriteInit, WriteInitFails, InitWritten, WriteFragment,
       WriteFragmentFails, Return, ReadHeader, PublisherGone, StopBegin, StopRemove, StopUnlink,
       StopReady, frames, shared, writerVars
<1>2. NoFrame => (wpc' = "clear" <=> wpc = "clear")
  BY DEF NoFrame, Mkdir, Loop, ReadDead, WriteInit, WriteInitFails, InitWritten, WriteFragment,
       WriteFragmentFails, Return, ReadHeader, PublisherGone, StopBegin, StopRemove, StopUnlink,
       StopReady, writerVars, AfterFlush
<1> QED
  BY <1>1, <1>2 DEF Done

LEMMA WriterNext == TypeInv /\ Next => WriterTypes' /\ InitTypes' /\ FlagTypes'
<1> SUFFICES ASSUME TypeInv, Next PROVE WriterTypes' /\ InitTypes' /\ FlagTypes'
  OBVIOUS
<1>0. WriterTypes /\ InitTypes /\ FlagTypes /\ MaxHeaders \in Nat
  BY TypeGroups, DashAssumption DEF TypeInv, DashAssumption
<1>1. CASE ReadFrame
  <2>1. PICK k \in BOOLEAN, t \in {clock, clock + 1} \cap Times :
          /\ clock' = t
          /\ tag' = [key |-> k, dts |-> t]
          /\ wpc' = AfterFrame([key |-> k, dts |-> t])
    BY <1>1 DEF ReadFrame
  <2>2. wpc' \in {"flush", "loop", "take"}
    BY <2>1 DEF AfterFrame
  <2> QED
    BY <1>0, <1>1, <2>1, <2>2
       DEF ReadFrame, WriterTypes, InitTypes, FlagTypes, initVars, stopVars
<1>2. CASE ReadHeader
  BY <1>0, <1>2 DEF ReadHeader, WriterTypes, InitTypes, FlagTypes, stopVars
<1>3. CASE ~ReadFrame /\ ~ReadHeader
  <2>1. /\ UNCHANGED <<tag, clock, headers>>
        /\ wpc' \in {"mkdir", "loop", "read", "header", "written", "flush", "write",
                     "record", "clear", "take", "return", "returned"}
        /\ exiting' \in BOOLEAN /\ dead' \in BOOLEAN
    BY <1>0, <1>3
       DEF WriterTypes, Next, Writer, Stop, Mkdir, Loop, ReadDead, WriteInit, WriteInitFails,
         InitWritten, TakeFrame, Flush, WriteFragment, WriteFragmentFails, Record, ClearSamples,
         Return, PublisherGone, StopBegin, StopTakesSegments, StopRemove, StopUnlink, StopReady,
         writerVars, input, AfterFlush
  <2>2. InitTypes'
    <3>1. /\ init' = init /\ (initWritten' = initWritten \/ initWritten' = TRUE)
          /\ initFile' = initFile \/ initFile' = init \/ initFile' = 0
      BY <1>3
         DEF Next, Writer, Stop, Mkdir, Loop, ReadDead, WriteInit, WriteInitFails, InitWritten,
           TakeFrame, Flush, WriteFragment, WriteFragmentFails, Record, ClearSamples, Return,
           PublisherGone, StopBegin, StopTakesSegments, StopRemove, StopUnlink, StopReady,
           initVars
    <3>2. 0 \in 0 .. MaxHeaders
      BY <1>0
    <3> QED
      BY <1>0, <3>1, <3>2 DEF InitTypes
  <2>3. FlagTypes'
    BY <1>0, <1>3
       DEF FlagTypes, Next, Writer, Stop, Mkdir, Loop, ReadDead, WriteInit, WriteInitFails,
         InitWritten, TakeFrame, Flush, WriteFragment, WriteFragmentFails, Record, ClearSamples,
         Return, PublisherGone, StopBegin, StopTakesSegments, StopRemove, StopUnlink, StopReady,
         stopVars
  <2> QED
    BY <1>0, <2>1, <2>2, <2>3 DEF WriterTypes
<1> QED
  BY <1>1, <1>2, <1>3

LEMMA FrameTypesNext == TypeInv /\ Next => FrameTypes'
<1> SUFFICES ASSUME TypeInv, Next PROVE FrameTypes'
  OBVIOUS
<1>0. FrameTypes /\ WriterTypes /\ RoomLeft /\ MaxFrames \in Nat
  BY TypeGroups, DashAssumption DEF TypeInv, DashAssumption
<1>1. CASE TakeFrame
  <2>1. CASE init = 0
    BY <1>0, <1>1, <2>1 DEF TakeFrame, frames, FrameTypes
  <2>2. CASE init # 0
    <3>1. /\ taken' = taken + 1 /\ keys' \subseteq keys \cup {taken + 1}
          /\ samples' = Append(samples, [n |-> taken + 1, dts |-> tag.dts])
          /\ taken < MaxFrames
      BY <1>0, <1>1, <2>2 DEF TakeFrame, RoomLeft, Flushing
    <3>2. taken + 1 \in Numbers /\ taken + 1 \in 0 .. MaxFrames /\ tag.dts \in Times
      BY <1>0, <3>1 DEF FrameTypes, WriterTypes, Numbers
    <3>3. [n |-> taken + 1, dts |-> tag.dts] \in Sample
      BY <3>2 DEF Sample
    <3> QED
      BY <1>0, <3>1, <3>2, <3>3 DEF FrameTypes
  <2> QED
    BY <2>1, <2>2
<1>2. CASE Flush \/ ClearSamples
  <2>1. (samples' = samples \/ samples' = <<>>) /\ UNCHANGED <<taken, keys>>
    BY <1>2 DEF Flush, ClearSamples
  <2>2. <<>> \in Seq(Sample) /\ samples \in Seq(Sample)
    BY <1>0 DEF FrameTypes
  <2> QED
    BY <1>0, <2>1, <2>2 DEF FrameTypes
<1>3. CASE ReadFrame \/ Record \/ StopTakesSegments \/ NoFrame
  <2>1. UNCHANGED <<samples, taken, keys>>
    BY <1>3, NoFrameLeaves DEF ReadFrame, Record, StopTakesSegments, frames
  <2> QED
    BY <1>0, <2>1 DEF FrameTypes
<1> QED
  BY <1>1, <1>2, <1>3, Splits

LEMMA RoomNext == TypeInv /\ Next => RoomLeft'
<1> SUFFICES ASSUME TypeInv, Next PROVE RoomLeft'
  OBVIOUS
<1>0. FrameTypes /\ RoomLeft /\ MaxFrames \in Nat
  BY TypeGroups, DashAssumption DEF TypeInv, DashAssumption
<1>1. CASE ReadFrame
  <2>1. /\ wpc = "read" /\ taken < MaxFrames /\ wpc' \in {"flush", "loop", "take"}
        /\ UNCHANGED <<exiting, taken, samples>>
    BY <1>1 DEF ReadFrame, AfterFrame, frames
  <2> QED
    BY <1>0, <2>1 DEF RoomLeft, Flushing
<1>2. CASE TakeFrame
  BY <1>0, <1>2 DEF TakeFrame, RoomLeft, Flushing
<1>3. CASE Flush
  BY <1>0, <1>3 DEF Flush, AfterFlush, RoomLeft, Flushing, FrameTypes
<1>4. CASE Record \/ ClearSamples \/ StopTakesSegments
  BY <1>0, <1>4 DEF Record, ClearSamples, StopTakesSegments, AfterFlush, RoomLeft, Flushing,
       frames, writerVars
<1>5. CASE NoFrame
  BY <1>0, <1>5 DEF NoFrame, Mkdir, Loop, ReadDead, WriteInit, WriteInitFails, InitWritten,
       WriteFragment, WriteFragmentFails, Return, ReadHeader, PublisherGone, StopBegin,
       StopRemove, StopUnlink, StopReady, frames, writerVars, AfterFlush, RoomLeft, Flushing
<1> QED
  BY <1>1, <1>2, <1>3, <1>4, <1>5, Splits

LEMMA InARowNext == TypeInv /\ Next => InARow'
<1> SUFFICES ASSUME TypeInv, Next PROVE InARow'
  OBVIOUS
<1>0. FrameTypes /\ InARow /\ Len(samples) \in Nat /\ taken \in Nat
  BY TypeGroups DEF TypeInv, FrameTypes
<1>1. CASE TakeFrame
  <2>1. CASE init = 0
    BY <1>0, <1>1, <2>1 DEF TakeFrame, frames, InARow
  <2>2. CASE init # 0
    <3> DEFINE s == [n |-> taken + 1, dts |-> tag.dts]
    <3>1. /\ taken' = taken + 1 /\ keys' \subseteq keys \cup {taken + 1}
          /\ samples' = Append(samples, s) /\ s.n = taken + 1
      BY <1>1, <2>2 DEF TakeFrame
    <3> HIDE DEF s
    <3>2. Len(samples') = Len(samples) + 1
      BY <1>0, <3>1 DEF FrameTypes
    <3>3. ASSUME NEW i \in 1 .. Len(samples) + 1
          PROVE  samples'[i].n = taken - Len(samples) + i
      <4>1. CASE i = Len(samples) + 1
        <5>1. samples'[i] = s
          BY <1>0, <3>1, <4>1 DEF FrameTypes
        <5> QED
          BY <1>0, <3>1, <4>1, <5>1
      <4>2. CASE i # Len(samples) + 1
        <5>1. i \in 1 .. Len(samples)
          BY <1>0, <4>2
        <5>2. samples'[i] = samples[i]
          BY <1>0, <3>1, <5>1 DEF FrameTypes
        <5> QED
          BY <1>0, <5>1, <5>2 DEF InARow
      <4> QED
        BY <4>1, <4>2
    <3>4. keys' \subseteq 1 .. taken'
      BY <1>0, <3>1 DEF InARow
    <3> QED
      BY <1>0, <3>1, <3>2, <3>3, <3>4 DEF InARow
  <2> QED
    BY <2>1, <2>2
<1>2. CASE Flush \/ ClearSamples
  <2>1. (samples' = samples \/ samples' = <<>>) /\ UNCHANGED <<taken, keys>>
    BY <1>2 DEF Flush, ClearSamples
  <2> QED
    BY <1>0, <2>1 DEF InARow
<1>3. CASE ReadFrame \/ Record \/ StopTakesSegments \/ NoFrame
  <2>1. UNCHANGED <<samples, taken, keys>>
    BY <1>3, NoFrameLeaves DEF ReadFrame, Record, StopTakesSegments, frames
  <2> QED
    BY <1>0, <2>1 DEF InARow
<1> QED
  BY <1>1, <1>2, <1>3, Splits

(* Frames are done with, never undone.                                         *)
LEMMA DoneNext ==
  TypeInv /\ Next => Done \in Nat /\ Done' \in Nat /\ Done <= Done' /\ Done' <= MaxFrames
<1> SUFFICES ASSUME TypeInv, Next
             PROVE  Done \in Nat /\ Done' \in Nat /\ Done <= Done' /\ Done' <= MaxFrames
  OBVIOUS
<1>0. /\ FrameTypes /\ RoomLeft /\ InARow /\ Len(samples) \in Nat /\ taken \in Nat
      /\ MaxFrames \in Nat /\ taken <= MaxFrames /\ NumbersLeft /\ nextSeq \in Nat
  BY TypeGroups, DashAssumption DEF TypeInv, DashAssumption, FrameTypes, WindowTypes, Seqs
<1>1. Done \in Nat
  BY <1>0 DEF Done, NumbersLeft
<1>2. CASE TakeFrame
  <2>1. wpc = "take" /\ wpc' = "loop" /\ taken < MaxFrames
    BY <1>0, <1>2 DEF TakeFrame, RoomLeft, Flushing
  <2>2. \/ UNCHANGED <<taken, samples>>
        \/ taken' = taken + 1 /\ Len(samples') = Len(samples) + 1
    BY <1>0, <1>2 DEF TakeFrame, FrameTypes, frames
  <2> QED
    BY <1>0, <1>1, <2>1, <2>2 DEF Done
<1>3. CASE Flush
  <2>1. wpc = "flush" /\ taken' = taken /\ (samples' = samples \/ samples' = <<>>)
        /\ wpc' \in {"return", "take", "write"}
    BY <1>3 DEF Flush, AfterFlush
  <2> QED
    BY <1>0, <1>1, <2>1 DEF Done
<1>4. CASE ClearSamples
  <2>1. wpc = "clear" /\ taken' = taken /\ samples' = <<>> /\ wpc' \in {"return", "take"}
    BY <1>4 DEF ClearSamples, AfterFlush
  <2> QED
    BY <1>0, <1>1, <2>1 DEF Done
<1>5. CASE Record
  <2>1. wpc = "record" /\ wpc' = "clear" /\ UNCHANGED <<taken, samples>>
    BY <1>5 DEF Record, frames
  <2> QED
    BY <1>0, <1>1, <2>1 DEF Done
<1>6. CASE ReadFrame \/ StopTakesSegments \/ NoFrame
  <2>1. Done' = Done
    BY <1>6, NoFrameLeaves DEF ReadFrame, StopTakesSegments, frames, Done, AfterFrame, writerVars
  <2>2. Done <= MaxFrames
    BY <1>0 DEF Done
  <2> QED
    BY <1>1, <2>1, <2>2
<1> QED
  BY <1>2, <1>3, <1>4, <1>5, <1>6, Splits

LEMMA NumbersNext == TypeInv /\ Next => NumbersLeft'
<1> SUFFICES ASSUME TypeInv, Next PROVE NumbersLeft'
  OBVIOUS
<1>0. /\ RoomLeft /\ NumbersLeft /\ nextSeq \in Nat /\ Done \in Nat /\ Done' \in Nat
      /\ Done <= Done' /\ Len(samples) \in Nat /\ taken \in Nat
  BY TypeGroups, DoneNext DEF TypeInv, WindowTypes, FrameTypes, Seqs
<1>1. CASE Record
  <2>1. /\ wpc = "record" /\ wpc' = "clear" /\ nextSeq' = nextSeq + 1
        /\ UNCHANGED <<taken, samples>> /\ Len(samples) >= 2
    BY <1>0, <1>1 DEF Record, frames, RoomLeft
  <2> QED
    BY <1>0, <2>1 DEF NumbersLeft, Done
<1>2. CASE ~Record
  <2>1. UNCHANGED nextSeq
    BY <1>2, Splits, NoFrameLeaves
       DEF ReadFrame, TakeFrame, Flush, ClearSamples, StopTakesSegments, shared
  <2> QED
    BY <1>0, <2>1 DEF NumbersLeft
<1> QED
  BY <1>1, <1>2

\* The window of a sequence is its end: how long it is and what stands in it.
LEMMA WindowIsSuffix ==
  ASSUME NEW S, NEW s \in Seq(S)
  PROVE  /\ Window(s) \in Seq(S)
         /\ Len(Window(s)) = IF Len(s) > WindowSize THEN WindowSize ELSE Len(s)
         /\ \A i \in 1 .. Len(Window(s)) : Window(s)[i] = s[Len(s) - Len(Window(s)) + i]
<1>0. WindowSize \in Nat \ {0}
  BY DashAssumption DEF DashAssumption
<1>1. CASE Len(s) > WindowSize
  <2> DEFINE m == Len(s) - WindowSize + 1
  <2>1. m \in 1 .. Len(s) /\ Len(s) \in Nat /\ Window(s) = SubSeq(s, m, Len(s))
    BY <1>0, <1>1 DEF Window
  <2> HIDE DEF m
  <2>2. SubSeq(s, m, Len(s)) \in Seq(S) /\ Len(SubSeq(s, m, Len(s))) = Len(s) - m + 1
    BY <2>1
  <2>3. \A i \in 1 .. Len(s) - m + 1 : SubSeq(s, m, Len(s))[i] = s[m + i - 1]
    BY <2>1
  <2> QED
    BY <1>0, <1>1, <2>1, <2>2, <2>3 DEF m
<1>2. CASE ~(Len(s) > WindowSize)
  BY <1>0, <1>2 DEF Window
<1> QED
  BY <1>1, <1>2

\* The fragment that Record adds, and the window before old ones leave it.
Added == [seq |-> nextSeq, first |-> samples[1].n, last |-> samples[Len(samples)].n]
All == Append(segments, Added)

\* What Record does to the window: it holds the newest of All, at least the one
\* added, which is made of all the frames taken since the last one.
LEMMA RecordFacts ==
  ASSUME TypeInv, Record
  PROVE  /\ wpc = "record" /\ wpc' = "clear"
         /\ nextSeq' = nextSeq + 1 /\ segments' = Window(All)
         /\ disk' = disk \ (Numbered(All) \ Numbered(Window(All)))
         /\ UNCHANGED <<samples, taken, keys, spc, doomed, tag, exiting>>
         /\ Added \in Fragment /\ Added.seq = nextSeq
         /\ Added.first = Done + 1 /\ Added.last = taken /\ Added.first < Added.last
         /\ Done' = taken
         /\ Added.first = samples[1].n /\ samples # <<>>
         /\ All \in Seq(Fragment) /\ Len(All) = Len(segments) + 1
         /\ \A i \in 1 .. Len(segments) : All[i] = segments[i]
         /\ All[Len(segments) + 1] = Added
<1>0. /\ FrameTypes /\ WindowTypes /\ Len(samples) \in Nat /\ Len(segments) \in Nat
      /\ taken \in Nat /\ InARow /\ RoomLeft /\ nextSeq \in Seqs
      /\ segments \in Seq(Fragment) /\ samples \in Seq(Sample)
  BY TypeGroups DEF TypeInv, FrameTypes, WindowTypes, Seqs
<1>1. /\ wpc = "record" /\ wpc' = "clear"
      /\ nextSeq' = nextSeq + 1 /\ segments' = Window(All)
      /\ disk' = disk \ (Numbered(All) \ Numbered(Window(All)))
      /\ UNCHANGED <<samples, taken, keys, spc, doomed, tag, exiting>>
  BY DEF Record, All, Added, frames, stopVars
<1>2. Len(samples) >= 2 /\ Done = taken - Len(samples) /\ Done' = taken
  BY <1>0, <1>1 DEF RoomLeft, Done
<1>3. samples[1].n = taken - Len(samples) + 1 /\ samples[Len(samples)].n = taken
  <2>1. 1 \in 1 .. Len(samples) /\ Len(samples) \in 1 .. Len(samples)
    BY <1>0, <1>2
  <2>2. /\ samples[1].n = taken - Len(samples) + 1
        /\ samples[Len(samples)].n = taken - Len(samples) + Len(samples)
    BY <1>0, <2>1 DEF InARow
  <2> QED
    BY <1>0, <2>2
<1>4. samples[1].n \in Numbers /\ samples[Len(samples)].n \in Numbers
  <2>1. samples[1] \in Sample /\ samples[Len(samples)] \in Sample
    BY <1>0, <1>2
  <2> QED
    BY <2>1 DEF Sample
<1>5. Added \in Fragment
  BY <1>0, <1>4 DEF Added, Fragment
<1>6. /\ Added.seq = nextSeq /\ Added.first = Done + 1 /\ Added.last = taken
      /\ Added.first < Added.last /\ Added.first = samples[1].n /\ samples # <<>>
  BY <1>0, <1>2, <1>3 DEF Added
<1>7. /\ All \in Seq(Fragment) /\ Len(All) = Len(segments) + 1
      /\ \A i \in 1 .. Len(segments) : All[i] = segments[i]
      /\ All[Len(segments) + 1] = Added
  BY <1>0, <1>5 DEF All
<1> QED
  BY <1>1, <1>2, <1>5, <1>6, <1>7

LEMMA WindowTypesNext == TypeInv /\ Next => WindowTypes'
<1> SUFFICES ASSUME TypeInv, Next PROVE WindowTypes'
  OBVIOUS
<1>0. /\ WindowTypes /\ nextSeq \in Seqs /\ nextSeq \in Nat /\ MaxFrames \in Nat
      /\ segments \in Seq(Fragment)
  BY TypeGroups, DashAssumption DEF TypeInv, WindowTypes, Seqs, DashAssumption
<1>1. CASE Record
  <2>1. nextSeq' = nextSeq + 1 /\ segments' = Window(All) /\ All \in Seq(Fragment)
    BY <1>1, RecordFacts
  <2>2. disk' \subseteq disk /\ doomed' = doomed
    BY <1>1, RecordFacts
  <2>3. segments' \in Seq(Fragment)
    <3> HIDE DEF All
    <3> QED
      BY <2>1, WindowIsSuffix
  <2>4. 2 * nextSeq' <= MaxFrames
    <3>1. 2 * nextSeq' <= Done' /\ Done' <= MaxFrames /\ Done' \in Nat
      BY NumbersNext, DoneNext DEF NumbersLeft
    <3> QED
      BY <1>0, <2>1, <3>1
  <2>5. nextSeq' \in Seqs
    BY <1>0, <2>1, <2>4 DEF Seqs
  <2> QED
    BY <1>0, <2>2, <2>3, <2>5 DEF WindowTypes
<1>2. CASE StopTakesSegments
  <2>1. segments' = <<>> /\ doomed' = Numbered(segments) /\ UNCHANGED <<nextSeq, disk>>
    BY <1>2 DEF StopTakesSegments
  <2>2. \A i \in DOMAIN segments : segments[i].seq \in Seqs
    <3>1. \A i \in DOMAIN segments : segments[i] \in Fragment
      BY <1>0
    <3> QED
      BY <3>1 DEF Fragment
  <2>3. doomed' \subseteq Seqs
    BY <2>1, <2>2 DEF ToSet, Numbered
  <2> QED
    BY <1>0, <2>1, <2>3 DEF WindowTypes
<1>3. CASE ReadFrame \/ TakeFrame \/ Flush \/ ClearSamples \/ NoFrame
  <2>1. UNCHANGED <<segments, nextSeq>>
    BY <1>3, NoFrameLeaves DEF ReadFrame, TakeFrame, Flush, ClearSamples, shared
  <2>2. disk' \subseteq disk \cup {nextSeq} /\ doomed' = doomed
    BY <1>3 DEF ReadFrame, TakeFrame, Flush, ClearSamples, NoFrame, Mkdir, Loop, ReadDead,
         WriteInit, WriteInitFails, InitWritten, WriteFragment, WriteFragmentFails, Return,
         ReadHeader, PublisherGone, StopBegin, StopRemove, StopUnlink, StopReady, stopVars
  <2> QED
    BY <1>0, <2>1, <2>2 DEF WindowTypes
<1> QED
  BY <1>1, <1>2, <1>3, Splits

LEMMA TypeStep == TypeInv /\ [Next]_vars => TypeInv'
<1>1. TypeInv /\ Next => TypeInv'
  BY WriterNext, FrameTypesNext, WindowTypesNext, RoomNext, InARowNext, NumbersNext, TypeGroups,
     PTL DEF TypeInv
<1>2. TypeInv /\ UNCHANGED vars => TypeInv'
  BY DEF TypeInv, TypeOK, RoomLeft, NumbersLeft, InARow, Done, Flushing, vars, writerVars, input,
       initVars, frames, shared, stopVars
<1> QED
  BY <1>1, <1>2

(* Whatever the disk refuses and whenever Stop comes, the state stays in its   *)
(* types: a fragment of two frames at least is what bounds the numbers, and no *)
(* frame is read that the bound has no room for.                               *)
THEOREM TypeCorrect == Spec => []TypeOK
<1>1. Spec => []TypeInv
  BY TypeInit, TypeStep, PTL DEF Spec
<1> QED
  BY <1>1, PTL DEF TypeInv

-----------------------------------------------------------------------------
(* What the fragments hold. *)

LEMMA FrameInit == Init => FrameInv
  BY DEF Init, FrameInv, BeginsWithKey, Behind, Alone, FragmentsDecodable, NothingLostBetween,
       Flushing, Done, ToSet

LEMMA BeginsNext == TypeInv /\ BeginsWithKey /\ Next => BeginsWithKey'
<1> SUFFICES ASSUME TypeInv, BeginsWithKey, Next PROVE BeginsWithKey'
  OBVIOUS
<1>0. FrameTypes /\ RoomLeft /\ samples \in Seq(Sample) /\ Len(samples) \in Nat
  BY TypeGroups DEF TypeInv, FrameTypes
<1>1. CASE ReadFrame
  <2>1. PICK k \in BOOLEAN, t \in Times :
          /\ tag' = [key |-> k, dts |-> t]
          /\ wpc' = AfterFrame([key |-> k, dts |-> t])
    BY <1>1 DEF ReadFrame
  <2>2. /\ UNCHANGED <<samples, keys, exiting>> /\ tag'.key = k
        /\ wpc' \in {"flush", "loop", "take"}
        /\ wpc' = "flush" => k
        /\ wpc' = "take" /\ samples = <<>> => k
    BY <1>1, <2>1 DEF ReadFrame, AfterFrame, frames
  <2> QED
    BY <2>2 DEF BeginsWithKey, Flushing
<1>2. CASE TakeFrame
  <2>1. wpc = "take" /\ wpc' = "loop" /\ tag' = tag
    BY <1>2 DEF TakeFrame
  <2>2. CASE init = 0
    BY <1>2, <2>1, <2>2 DEF TakeFrame, BeginsWithKey, Flushing, frames
  <2>3. CASE init # 0
    <3> DEFINE s == [n |-> taken + 1, dts |-> tag.dts]
    <3>1. /\ samples' = Append(samples, s) /\ s.n = taken + 1
          /\ keys' = IF tag.key THEN keys \cup {taken + 1} ELSE keys
      BY <1>2, <2>3 DEF TakeFrame
    <3> HIDE DEF s
    <3>2. CASE samples = <<>>
      <4>1. samples'[1] = s /\ tag.key
        BY <2>1, <3>1, <3>2 DEF BeginsWithKey
      <4> QED
        BY <2>1, <3>1, <4>1 DEF BeginsWithKey, Flushing
    <3>3. CASE samples # <<>>
      <4>1. samples'[1] = samples[1] /\ samples[1].n \in keys
        BY <1>0, <3>1, <3>3 DEF BeginsWithKey
      <4> QED
        BY <2>1, <3>1, <4>1 DEF BeginsWithKey, Flushing
    <3> QED
      BY <3>2, <3>3
  <2> QED
    BY <2>2, <2>3
<1>3. CASE Flush \/ ClearSamples
  <2>1. /\ samples' = samples \/ samples' = <<>>
        /\ UNCHANGED <<keys, tag, exiting>>
        /\ Flushing /\ wpc' \in {"return", "take", "write"}
    BY <1>3 DEF Flush, ClearSamples, AfterFlush, Flushing
  <2>2. wpc' = "take" => ~exiting
    BY <1>3 DEF Flush, ClearSamples, AfterFlush
  <2> QED
    BY <2>1, <2>2 DEF BeginsWithKey, Flushing
<1>4. CASE Record \/ StopTakesSegments
  BY <1>4 DEF Record, StopTakesSegments, BeginsWithKey, Flushing, frames, writerVars
<1>5. CASE NoFrame
  <2>1. UNCHANGED <<samples, keys, tag>>
    BY <1>5, NoFrameLeaves
  <2>2. wpc' = "take" => wpc = "take" \/ (Flushing /\ ~exiting)
    BY <1>5 DEF NoFrame, Mkdir, Loop, ReadDead, WriteInit, WriteInitFails, InitWritten,
         WriteFragment, WriteFragmentFails, Return, ReadHeader, PublisherGone, StopBegin,
         StopRemove, StopUnlink, StopReady, writerVars, AfterFlush, Flushing
  <2>3. Flushing' /\ ~exiting' => Flushing /\ ~exiting
    BY <1>5 DEF NoFrame, Mkdir, Loop, ReadDead, WriteInit, WriteInitFails, InitWritten,
         WriteFragment, WriteFragmentFails, Return, ReadHeader, PublisherGone, StopBegin,
         StopRemove, StopUnlink, StopReady, writerVars, AfterFlush, Flushing
  <2> QED
    BY <2>1, <2>2, <2>3 DEF BeginsWithKey
<1> QED
  BY <1>1, <1>2, <1>3, <1>4, <1>5, Splits

\* What the window held: indices of the new window in the old one and Added.
LEMMA WindowMember ==
  ASSUME TypeInv, Record, NEW i \in 1 .. Len(segments')
  PROVE  LET j == Len(All) - Len(segments') + i
         IN  /\ j \in 1 .. Len(All) /\ segments'[i] = All[j]
             /\ j = Len(All) <=> i = Len(segments')
<1>1. segments' = Window(All) /\ All \in Seq(Fragment) /\ Len(All) \in Nat
  BY RecordFacts
<1>2. WindowSize \in Nat
  BY DashAssumption DEF DashAssumption
<1> HIDE DEF All
<1>3. /\ Len(segments') = IF Len(All) > WindowSize THEN WindowSize ELSE Len(All)
      /\ segments'[i] = All[Len(All) - Len(segments') + i]
  BY <1>1, WindowIsSuffix
<1> QED
  BY <1>1, <1>2, <1>3

\* Old fragments lie behind what is done; the added one is what was left.
LEMMA AddedLast ==
  ASSUME TypeInv, Record
  PROVE  segments' # <<>> /\ segments'[Len(segments')] = Added
<1>1. /\ segments' = Window(All) /\ All \in Seq(Fragment)
      /\ Len(All) = Len(segments) + 1 /\ All[Len(segments) + 1] = Added
  BY RecordFacts
<1>2. WindowSize \in Nat \ {0} /\ Len(segments) \in Nat
  BY TypeGroups, DashAssumption DEF DashAssumption, TypeInv, WindowTypes
<1> HIDE DEF All
<1>3. /\ Window(All) \in Seq(Fragment)
      /\ Len(Window(All)) = IF Len(All) > WindowSize THEN WindowSize ELSE Len(All)
      /\ \A i \in 1 .. Len(Window(All)) :
            Window(All)[i] = All[Len(All) - Len(Window(All)) + i]
  BY <1>1, WindowIsSuffix
<1>4. Len(Window(All)) \in 1 .. Len(All)
  BY <1>1, <1>2, <1>3
<1>5. Window(All)[Len(Window(All))] = All[Len(All) - Len(Window(All)) + Len(Window(All))]
  <2>1. Len(Window(All)) \in 1 .. Len(Window(All))
    BY <1>1, <1>4
  <2> QED
    BY <1>3, <2>1
<1>6. Len(All) - Len(Window(All)) + Len(Window(All)) = Len(segments) + 1
  BY <1>1, <1>2, <1>4
<1>7. Window(All) # <<>>
  BY <1>3, <1>4
<1> QED
  BY <1>1, <1>5, <1>6, <1>7

LEMMA FrameNext ==
  ASSUME TypeInv, FrameInv, Next
  PROVE  FrameInv'
<1>0. /\ BeginsWithKey' /\ FrameTypes /\ WindowTypes /\ InARow
      /\ Done \in Nat /\ Done' \in Nat /\ Done <= Done'
      /\ segments \in Seq(Fragment) /\ Len(segments) \in Nat
      /\ samples \in Seq(Sample) /\ Len(samples) \in Nat /\ taken \in Nat
  BY TypeGroups, BeginsNext, DoneNext DEF FrameInv, TypeInv, FrameTypes, WindowTypes
<1>1. \A i \in 1 .. Len(segments) : segments[i].first \in Nat /\ segments[i].last \in Nat
  <2>1. \A i \in 1 .. Len(segments) : segments[i] \in Fragment
    BY <1>0
  <2> QED
    BY <2>1 DEF Fragment, Numbers
<1>2. \A i \in 1 .. Len(segments) :
        /\ segments[i].first \in keys /\ segments[i].first < segments[i].last
        /\ segments[i].last <= Done
  BY <1>0 DEF FrameInv, FragmentsDecodable, Behind, ToSet
<1>3. CASE Record
  <2>1. /\ Added.first = Done + 1 /\ Added.last = taken /\ Added.first < Added.last
        /\ Done' = taken /\ keys' = keys
        /\ Added.first \in keys
        /\ All \in Seq(Fragment) /\ Len(All) = Len(segments) + 1
        /\ \A i \in 1 .. Len(segments) : All[i] = segments[i]
        /\ All[Len(segments) + 1] = Added
    BY <1>3, RecordFacts DEF FrameInv, BeginsWithKey
  <2> HIDE DEF All, Added
  <2>2. \A j \in 1 .. Len(All) :
          /\ All[j].first \in keys /\ All[j].first < All[j].last /\ All[j].last <= Done'
    <3> SUFFICES ASSUME NEW j \in 1 .. Len(All)
                 PROVE  /\ All[j].first \in keys /\ All[j].first < All[j].last
                        /\ All[j].last <= Done'
      OBVIOUS
    <3>1. CASE j = Len(segments) + 1
      BY <1>0, <2>1, <3>1
    <3>2. CASE j # Len(segments) + 1
      <4>1. j \in 1 .. Len(segments) /\ All[j] = segments[j]
        BY <1>0, <2>1, <3>2
      <4> QED
        BY <1>0, <1>1, <1>2, <4>1
    <3> QED
      BY <3>1, <3>2
  <2>3. \A j \in 1 .. Len(All) - 1 :
          /\ All[j].last < All[j + 1].first
          /\ All[j].last + 1 .. All[j + 1].first - 1 \subseteq keys
    <3> SUFFICES ASSUME NEW j \in 1 .. Len(All) - 1
                 PROVE  /\ All[j].last < All[j + 1].first
                        /\ All[j].last + 1 .. All[j + 1].first - 1 \subseteq keys
      OBVIOUS
    <3>1. j \in 1 .. Len(segments) /\ All[j] = segments[j]
      BY <1>0, <2>1
    <3>2. CASE j = Len(segments)
      <4>1. All[j + 1] = Added /\ segments # <<>>
        BY <1>0, <2>1, <3>1, <3>2
      <4>2. segments[j].last + 1 .. Done \subseteq keys
        BY <3>2, <4>1 DEF FrameInv, Alone
      <4> QED
        BY <1>0, <1>1, <1>2, <2>1, <3>1, <4>1, <4>2
    <3>3. CASE j # Len(segments)
      <4>1. j \in 1 .. Len(segments) - 1 /\ j + 1 \in 1 .. Len(segments)
        BY <1>0, <3>1, <3>3
      <4>2. All[j + 1] = segments[j + 1]
        BY <2>1, <4>1
      <4> QED
        BY <3>1, <4>1, <4>2 DEF FrameInv, NothingLostBetween
    <3> QED
      BY <3>2, <3>3
  <2>4. /\ segments' # <<>> /\ segments'[Len(segments')] = Added
        /\ segments' \in Seq(Fragment) /\ Len(segments') \in Nat
    <3>1. segments' \in Seq(Fragment)
      BY WindowTypesNext DEF WindowTypes
    <3> QED
      BY <1>3, <3>1, AddedLast
  <2>5. Behind'
    BY <1>3, <2>2, WindowMember DEF Behind
  <2>6. Alone'
    BY <1>0, <2>1, <2>4 DEF Alone
  <2>7. FragmentsDecodable'
    <3>1. DOMAIN segments' = 1 .. Len(segments')
      BY <2>4
    <3> QED
      BY <1>3, <2>1, <2>2, <3>1, WindowMember DEF FragmentsDecodable, ToSet
  <2>8. NothingLostBetween'
    <3> SUFFICES ASSUME NEW i \in 1 .. Len(segments') - 1
                 PROVE  /\ segments'[i].last < segments'[i + 1].first
                        /\ segments'[i].last + 1 .. segments'[i + 1].first - 1 \subseteq keys
      BY <2>1 DEF NothingLostBetween
    <3> DEFINE j == Len(All) - Len(segments') + i
    <3>1. i \in 1 .. Len(segments') /\ i + 1 \in 1 .. Len(segments') /\ i # Len(segments')
      BY <2>4
    <3>2. j \in 1 .. Len(All) /\ segments'[i] = All[j] /\ j # Len(All)
      BY <1>3, <3>1, WindowMember
    <3>3. segments'[i + 1] = All[Len(All) - Len(segments') + (i + 1)]
      BY <1>3, <3>1, WindowMember
    <3>4. Len(All) - Len(segments') + (i + 1) = j + 1
      BY <1>0, <2>1, <2>4
    <3> HIDE DEF j
    <3>5. j \in 1 .. Len(All) - 1
      BY <1>0, <2>1, <3>2
    <3> QED
      BY <2>3, <3>2, <3>3, <3>4, <3>5
  <2> QED
    BY <1>0, <2>5, <2>6, <2>7, <2>8 DEF FrameInv
<1>4. CASE StopTakesSegments
  <2>1. segments' = <<>>
    BY <1>4 DEF StopTakesSegments
  <2> QED
    BY <1>0, <2>1 DEF FrameInv, Behind, Alone, FragmentsDecodable, NothingLostBetween, ToSet
<1>5. CASE TakeFrame \/ Flush \/ ClearSamples \/ ReadFrame \/ NoFrame
  <2>1. segments' = segments /\ keys \subseteq keys'
    BY <1>5, NoFrameLeaves DEF TakeFrame, Flush, ClearSamples, ReadFrame, frames, shared
  <2>2. Behind'
    BY <1>0, <1>1, <1>2, <2>1 DEF Behind
  <2>3. Done + 1 .. Done' \subseteq keys'
    <3>1. CASE Flush
      <4>1. /\ wpc = "flush" /\ wpc' # "clear" /\ UNCHANGED <<taken, keys>>
            /\ \/ UNCHANGED samples
               \/ Len(samples) < 2 /\ samples' = <<>>
        BY <3>1 DEF Flush, AfterFlush
      <4>0. Len(<<>>) = 0
        OBVIOUS
      <4>2. CASE Len(samples) = 1
        <5>1. samples # <<>> /\ samples[1].n = taken
          <6>1. 1 \in 1 .. Len(samples) /\ samples # <<>>
            BY <4>0, <4>2
          <6>2. samples[1].n = taken - Len(samples) + 1
            BY <1>0, <6>1 DEF InARow
          <6> QED
            BY <1>0, <4>2, <6>1, <6>2
        <5>2. taken \in keys /\ Done = taken - 1
          BY <1>0, <4>1, <4>2, <5>1 DEF FrameInv, BeginsWithKey, Done
        <5>3. Done' <= taken
          BY <1>0, <4>1, <4>2 DEF Done
        <5> QED
          BY <1>0, <4>1, <5>2, <5>3
      <4>3. CASE Len(samples) # 1
        <5>1. Done' = Done
          <6>1. Len(samples') = Len(samples)
            <7>1. Len(samples) < 2 => Len(samples) = 0
              <8>1. \A n \in Nat : n < 2 /\ n # 1 => n = 0
                OBVIOUS
              <8> QED
                BY <1>0, <4>3, <8>1
            <7> QED
              BY <4>0, <4>1, <7>1
          <6> QED
            BY <1>0, <4>1, <6>1 DEF Done
        <5> QED
          BY <1>0, <5>1
      <4> QED
        BY <4>2, <4>3
    <3>2. CASE ~Flush
      <4>1. Done' = Done
        <5>1. CASE TakeFrame
          <6>1. wpc = "take" /\ wpc' = "loop"
            BY <5>1 DEF TakeFrame
          <6>2. \/ UNCHANGED <<taken, samples>>
                \/ taken' = taken + 1 /\ Len(samples') = Len(samples) + 1
            BY <1>0, <5>1 DEF TakeFrame, frames
          <6> QED
            BY <1>0, <6>1, <6>2 DEF Done
        <5>2. CASE ClearSamples
          BY <1>0, <5>2 DEF ClearSamples, AfterFlush, Done
        <5>3. CASE ReadFrame \/ NoFrame
          BY <5>3, NoFrameLeaves DEF ReadFrame, frames, Done, AfterFrame
        <5> QED
          BY <1>5, <3>2, <5>1, <5>2, <5>3
      <4> QED
        BY <1>0, <4>1
    <3> QED
      BY <3>1, <3>2
  <2>4. Alone'
    <3> SUFFICES ASSUME segments # <<>>, NEW n \in segments[Len(segments)].last + 1 .. Done'
                 PROVE  n \in keys'
      BY <2>1 DEF Alone
    <3>1. segments[Len(segments)].last \in Nat
      BY <1>0, <1>1
    <3>2. n \in segments[Len(segments)].last + 1 .. Done => n \in keys
      BY DEF FrameInv, Alone
    <3> QED
      BY <1>0, <2>1, <2>3, <3>1, <3>2
  <2>5. FragmentsDecodable'
    BY <2>1 DEF FrameInv, FragmentsDecodable
  <2>6. NothingLostBetween'
    BY <2>1 DEF FrameInv, NothingLostBetween
  <2> QED
    BY <1>0, <2>2, <2>4, <2>5, <2>6 DEF FrameInv
<1> QED
  BY <1>3, <1>4, <1>5, Splits

LEMMA FrameAlways == Spec => [](TypeInv /\ FrameInv)
<1>1. FrameInv /\ UNCHANGED vars => FrameInv'
  BY DEF FrameInv, BeginsWithKey, Behind, Alone, FragmentsDecodable, NothingLostBetween,
       Flushing, Done, vars, writerVars, frames, shared
<1>2. TypeInv /\ FrameInv /\ [Next]_vars => (TypeInv /\ FrameInv)'
  BY <1>1, TypeStep, FrameNext
<1> QED
  BY <1>2, TypeInit, FrameInit, PTL DEF Spec

(* Every fragment begins with a key frame and has two frames: frames are       *)
(* refused while nothing waits unless they are key frames, and flushCurrent    *)
(* leaves nothing behind or everything.                                        *)
THEOREM DecodableCorrect == Spec => []FragmentsDecodable
  BY FrameAlways, PTL DEF FrameInv

(* Between two fragments of a manifest only key frames that stood alone are    *)
(* missing, however many writes failed in between.                             *)
THEOREM NothingLostCorrect == Spec => []NothingLostBetween
  BY FrameAlways, PTL DEF FrameInv

-----------------------------------------------------------------------------
(* The init file. *)

LEMMA HeaderNext == TypeInv /\ HeaderInv /\ Next => HeaderInv'
<1> SUFFICES ASSUME TypeInv, HeaderInv, Next PROVE HeaderInv'
  OBVIOUS
<1>0. headers \in Nat
  BY TypeGroups, DashAssumption DEF TypeInv, WriterTypes, DashAssumption
<1>1. CASE ReadHeader
  BY <1>0, <1>1 DEF ReadHeader, HeaderInv, stopped, stopVars
<1>2. CASE WriteInit \/ WriteInitFails \/ InitWritten
  BY <1>0, <1>2 DEF WriteInit, WriteInitFails, InitWritten, HeaderInv, stopped, stopVars, input
<1>3. CASE ReadFrame
  <2>1. wpc' \notin {"header", "written"} /\ UNCHANGED <<headers, init, initFile, initWritten, spc>>
    BY <1>3 DEF ReadFrame, AfterFrame, initVars, stopVars
  <2> QED
    BY <2>1 DEF HeaderInv, stopped
<1>4. CASE Stop \/ PublisherGone
  <2>1. /\ UNCHANGED <<wpc, headers, init, initWritten>>
        /\ spc \in {"ready", "done"} => spc' \in {"ready", "done"}
        /\ initFile' = initFile \/ spc' = "ready"
    BY <1>4 DEF Stop, PublisherGone, StopBegin, StopTakesSegments, StopRemove, StopUnlink,
         StopReady, writerVars, input, initVars, stopVars
  <2> QED
    BY <2>1 DEF HeaderInv
<1>5. CASE \/ Mkdir \/ Loop \/ ReadDead \/ TakeFrame \/ Flush \/ WriteFragment
           \/ WriteFragmentFails \/ Record \/ ClearSamples \/ Return
  <2>1. /\ UNCHANGED <<headers, init, initFile, initWritten, spc>>
        /\ wpc' \notin {"header", "written"}
    BY <1>5 DEF Mkdir, Loop, ReadDead, TakeFrame, Flush, WriteFragment, WriteFragmentFails,
         Record, ClearSamples, Return, input, initVars, stopVars, AfterFlush
  <2> QED
    BY <2>1 DEF HeaderInv, stopped
<1> QED
  BY <1>1, <1>2, <1>3, <1>4, <1>5 DEF Next, Writer

(* As long as the stream sent one header at most, and until Stop removes it,   *)
(* an instance that answers with a manifest has the init file it names: a      *)
(* failed write is tried again by no one, but then the manifest stays back.    *)
THEOREM ManifestHasInitCorrect == Spec => []ManifestHasInit
<1>1. Init => HeaderInv
  BY DEF Init, HeaderInv
<1>2. HeaderInv /\ UNCHANGED vars => HeaderInv'
  BY DEF HeaderInv, vars, writerVars, input, initVars, stopVars, stopped
<1>3. TypeInv /\ HeaderInv /\ [Next]_vars => (TypeInv /\ HeaderInv)'
  BY <1>2, TypeStep, HeaderNext
<1>4. HeaderInv => ManifestHasInit
  BY DEF HeaderInv, ManifestHasInit
<1> QED
  BY <1>1, <1>3, <1>4, TypeInit, PTL DEF Spec

-----------------------------------------------------------------------------
(* What the writer lists after Stop. *)

LEMMA Zero == \A s : s = <<>> => Len(s) = 0 /\ Len(s) <= 1
OBVIOUS

LEMMA LateNext == TypeInv /\ LateInv /\ Next => LateInv'
<1> SUFFICES ASSUME TypeInv, LateInv, Next, Emptied', segments' # <<>>
             PROVE  Len(segments') = 1 /\ Settled'
  BY DEF LateInv
<1>0. samples \in Seq(Sample) /\ segments \in Seq(Fragment)
  BY TypeGroups DEF TypeInv, FrameTypes, WindowTypes
<1>1. CASE StopTakesSegments
  BY <1>1 DEF StopTakesSegments
<1>2. ASSUME ~StopTakesSegments PROVE Emptied
  <2>1. spc' = spc \/ spc' = "lock" \/ Emptied
    BY <1>2 DEF Next, Writer, Stop, Mkdir, Loop, ReadDead, WriteInit, WriteInitFails,
         InitWritten, TakeFrame, Flush, WriteFragment, WriteFragmentFails, Record,
         ClearSamples, Return, ReadHeader, ReadFrame, PublisherGone, StopBegin, StopRemove,
         StopUnlink, StopReady, stopVars, Emptied
  <2> QED
    BY <2>1 DEF Emptied
<1>3. CASE Record
  <2>1. /\ All \in Seq(Fragment) /\ Len(All) = Len(segments) + 1
        /\ segments' = Window(All) /\ wpc = "record" /\ wpc' = "clear"
    BY <1>3, RecordFacts
  <2>2. ~StopTakesSegments
    BY <1>3 DEF Record, StopTakesSegments, stopVars
  <2>3. segments = <<>>
    BY <1>2, <2>1, <2>2 DEF LateInv, Settled
  <2>4. Len(Window(All)) = 1
    <3>1. Len(All) = 1
      BY <2>1, <2>3
    <3>2. WindowSize \in Nat \ {0}
      BY DashAssumption DEF DashAssumption
    <3> QED
      BY <2>1, <3>1, <3>2, WindowIsSuffix
  <2> QED
    BY <2>1, <2>4 DEF Settled
<1>4. CASE ~Record /\ ~StopTakesSegments
  <2>1. Emptied /\ segments' = segments
    BY <1>2, <1>4, Splits, NoFrameLeaves
      DEF ReadFrame, TakeFrame, Flush, ClearSamples, shared
  <2>2. Len(segments) = 1 /\ Settled
    BY <2>1 DEF LateInv
  <2>3. stopped
    BY <2>1 DEF Emptied, stopped
  <2>4. CASE Stop \/ PublisherGone
    <3>1. UNCHANGED <<wpc, samples>>
      BY <1>4, <2>4 DEF Stop, PublisherGone, StopBegin, StopRemove, StopUnlink, StopReady,
           writerVars, frames
    <3> QED
      BY <2>1, <2>2, <3>1 DEF Settled
  <2>5. CASE TakeFrame
    <3>1. wpc' = "loop" /\ samples = <<>>
      BY <2>2, <2>5 DEF TakeFrame, Settled
    <3>2. PICK x : samples' = samples \/ samples' = Append(samples, x)
      BY <2>5 DEF TakeFrame, frames
    <3>3. Len(Append(samples, x)) = Len(samples) + 1 /\ Len(samples) = 0
      BY <1>0, <3>1, Zero
    <3>4. Len(samples') <= 1
      BY <3>2, <3>3
    <3> QED
      BY <2>1, <2>2, <3>1, <3>4 DEF Settled
  <2>6. CASE Loop
    BY <2>1, <2>2, <2>3, <2>6 DEF Loop, Settled, frames
  <2>7. CASE Flush
    <3>1. Len(samples) < 2
      BY <1>0, <2>2, <2>7 DEF Flush, Settled
    <3> QED
      BY <2>1, <2>2, <2>7, <3>1 DEF Flush, Settled, AfterFlush
  <2>8. CASE ClearSamples
    BY <2>1, <2>2, <2>8 DEF ClearSamples, Settled, AfterFlush
  <2>9. CASE Return
    BY <2>1, <2>2, <2>9 DEF Return, Settled
  <2>10. CASE \/ Mkdir \/ ReadDead \/ WriteInit \/ WriteInitFails \/ InitWritten
              \/ WriteFragment \/ WriteFragmentFails \/ ReadHeader \/ ReadFrame
    BY <2>2, <2>10 DEF Settled, Mkdir, ReadDead, WriteInit, WriteInitFails, InitWritten,
         WriteFragment, WriteFragmentFails, ReadHeader, ReadFrame
  <2> QED
    BY <1>4, <2>4, <2>5, <2>6, <2>7, <2>8, <2>9, <2>10 DEF Next, Writer, Stop
<1> QED
  BY <1>1, <1>3, <1>4

(* Once Stop has emptied the window the writer lists one fragment more at the  *)
(* most, wherever Stop met it and whatever the disk refuses.                   *)
THEOREM OneLateFragmentCorrect == Spec => []OneLateFragment
<1>1. Init => LateInv
  BY DEF Init, LateInv, Emptied
<1>2. LateInv /\ UNCHANGED vars => LateInv'
  BY DEF LateInv, Emptied, Settled, vars, writerVars, frames, shared, stopVars
<1>3. TypeInv /\ LateInv /\ [Next]_vars => (TypeInv /\ LateInv)'
  BY <1>2, TypeStep, LateNext
<1>4. LateInv => OneLateFragment
  <2>1. segments = <<>> => Len(segments) <= 1
    BY Zero
  <2>2. Len(segments) = 1 => Len(segments) <= 1
    OBVIOUS
  <2> QED
    BY <2>1, <2>2 DEF LateInv, OneLateFragment, Emptied
<1> QED
  BY <1>1, <1>3, <1>4, TypeInit, PTL DEF Spec

-----------------------------------------------------------------------------
(* The window.  What Stop is about to remove is older than what is listed.     *)

LEMMA WindowInit == Init => WindowInv
  BY DEF Init, WindowInv, InSequence, WrittenOnDisk, DoomedUnlisted

\* The new window is numbered up to the fragment added, and no longer than by one.
LEMMA RecordNumbers ==
  ASSUME TypeInv, InSequence, Record
  PROVE  InSequence' /\ Len(segments') \in 1 .. Len(segments) + 1
<1>0. /\ nextSeq \in Nat /\ Len(segments) \in Nat /\ nextSeq' = nextSeq + 1
      /\ Len(All) = Len(segments) + 1 /\ Added.seq = nextSeq
      /\ \A i \in 1 .. Len(segments) : All[i] = segments[i]
      /\ All[Len(segments) + 1] = Added
      /\ segments' = Window(All) /\ All \in Seq(Fragment)
  BY RecordFacts, TypeGroups DEF TypeInv, WindowTypes, Seqs
<1>1. WindowSize \in Nat \ {0}
  BY DashAssumption DEF DashAssumption
<1> HIDE DEF All, Added
<1>2. Len(segments') \in 1 .. Len(segments) + 1
  <2>1. Len(Window(All)) = IF Len(All) > WindowSize THEN WindowSize ELSE Len(All)
    BY <1>0, WindowIsSuffix
  <2> QED
    BY <1>0, <1>1, <2>1
<1>3. ASSUME NEW i \in 1 .. Len(segments')
      PROVE  segments'[i].seq = nextSeq' - Len(segments') + i - 1
  <2> DEFINE j == Len(All) - Len(segments') + i
  <2>1. j \in 1 .. Len(All) /\ segments'[i] = All[j]
    BY <1>3, WindowMember
  <2>2. j = Len(segments) + 1 - Len(segments') + i
    BY <1>0
  <2> HIDE DEF j
  <2>3. CASE j = Len(segments) + 1
    <3>1. segments'[i].seq = nextSeq
      BY <1>0, <2>1, <2>3
    <3> QED
      BY <1>0, <1>2, <2>2, <2>3, <3>1
  <2>4. CASE j # Len(segments) + 1
    <3>1. j \in 1 .. Len(segments)
      BY <1>0, <2>1, <2>4
    <3>2. segments'[i].seq = nextSeq - Len(segments) + j - 1
      BY <1>0, <2>1, <3>1 DEF InSequence
    <3> QED
      BY <1>0, <1>2, <2>2, <3>1, <3>2
  <2> QED
    BY <2>3, <2>4
<1> QED
  BY <1>2, <1>3 DEF InSequence

LEMMA WindowNext ==
  ASSUME TypeInv, WindowInv, Next
  PROVE  WindowInv'
<1>0. WindowTypes /\ nextSeq \in Nat /\ Len(segments) \in Nat /\ segments \in Seq(Fragment)
      /\ \A d \in doomed : d \in Nat
  BY TypeGroups DEF TypeInv, WindowTypes, Seqs
<1>1. CASE Record
  <2>1. /\ InSequence' /\ Len(segments') \in 1 .. Len(segments) + 1
        /\ nextSeq' = nextSeq + 1 /\ wpc' = "clear" /\ UNCHANGED <<spc, doomed>>
    BY <1>1, RecordNumbers, RecordFacts DEF WindowInv
  <2>2. DoomedUnlisted'
    <3> SUFFICES ASSUME spc = "remove", NEW d \in doomed
                 PROVE  d < nextSeq' - Len(segments')
      BY <2>1 DEF DoomedUnlisted
    <3>1. d < nextSeq - Len(segments) /\ d \in Nat
      BY <1>0 DEF WindowInv, DoomedUnlisted
    <3> QED
      BY <1>0, <2>1, <3>1
  <2> QED
    BY <2>1, <2>2 DEF WindowInv, WrittenOnDisk
<1>2. CASE StopTakesSegments
  <2>1. /\ segments' = <<>> /\ doomed' = Numbered(segments)
        /\ UNCHANGED <<nextSeq, disk, wpc>>
    BY <1>2 DEF StopTakesSegments, writerVars
  <2>2. \A d \in doomed' : \E i \in 1 .. Len(segments) : d = segments[i].seq
    BY <1>0, <2>1 DEF ToSet, Numbered
  <2>3. \A d \in doomed' : d < nextSeq
    BY <1>0, <2>2 DEF WindowInv, InSequence
  <2> QED
    BY <1>0, <2>1, <2>3 DEF WindowInv, InSequence, WrittenOnDisk, DoomedUnlisted
<1>3. CASE StopRemove
  <2>1. /\ spc = "remove" /\ spc' = "unlink" /\ disk' = disk \ doomed
        /\ UNCHANGED <<segments, nextSeq, wpc>>
    BY <1>3 DEF StopRemove, writerVars, shared
  <2>2. nextSeq \notin doomed
    BY <1>0, <2>1 DEF WindowInv, DoomedUnlisted
  <2> QED
    BY <2>1, <2>2 DEF WindowInv, InSequence, WrittenOnDisk, DoomedUnlisted
<1>4. CASE Next /\ ~Record /\ ~StopTakesSegments /\ ~StopRemove
  <2>1. UNCHANGED <<segments, nextSeq>> /\ disk \subseteq disk'
    BY <1>4 DEF Next, Writer, Stop, Mkdir, Loop, ReadDead, WriteInit, WriteInitFails, InitWritten,
         TakeFrame, Flush, WriteFragment, WriteFragmentFails, ClearSamples, Return, ReadHeader,
         ReadFrame, PublisherGone, StopBegin, StopUnlink, StopReady, shared
  <2>2. doomed' = doomed /\ (spc' = "remove" => spc = "remove")
    BY <1>4 DEF Next, Writer, Stop, Mkdir, Loop, ReadDead, WriteInit, WriteInitFails, InitWritten,
         TakeFrame, Flush, WriteFragment, WriteFragmentFails, ClearSamples, Return, ReadHeader,
         ReadFrame, PublisherGone, StopBegin, StopUnlink, StopReady, stopVars
  <2>3. wpc' = "record" => wpc = "record" \/ nextSeq \in disk'
    BY <1>4 DEF Next, Writer, Stop, Mkdir, Loop, ReadDead, WriteInit, WriteInitFails, InitWritten,
         TakeFrame, Flush, WriteFragment, WriteFragmentFails, ClearSamples, Return, ReadHeader,
         ReadFrame, PublisherGone, StopBegin, StopUnlink, StopReady, writerVars, AfterFlush,
         AfterFrame
  <2> QED
    BY <2>1, <2>2, <2>3 DEF WindowInv, InSequence, WrittenOnDisk, DoomedUnlisted
<1> QED
  BY <1>1, <1>2, <1>3, <1>4

LEMMA WindowAlways == Spec => [](TypeInv /\ WindowInv)
<1>1. WindowInv /\ UNCHANGED vars => WindowInv'
  BY DEF WindowInv, InSequence, WrittenOnDisk, DoomedUnlisted, vars, writerVars, shared, stopVars
<1>2. TypeInv /\ WindowInv /\ [Next]_vars => (TypeInv /\ WindowInv)'
  BY <1>1, TypeStep, WindowNext
<1> QED
  BY <1>2, TypeInit, WindowInit, PTL DEF Spec

-----------------------------------------------------------------------------
(* The refinement.  What LiveWindow lists is the numbers of the fragments.     *)

NumbersOf(s) == [i \in DOMAIN s |-> s[i].seq]

LEMMA NumbersOfType ==
  ASSUME NEW s \in Seq(Fragment)
  PROVE  /\ NumbersOf(s) \in Seq(Seqs) /\ Len(NumbersOf(s)) = Len(s)
         /\ \A i \in 1 .. Len(s) : NumbersOf(s)[i] = s[i].seq
<1>1. \A i \in 1 .. Len(s) : s[i] \in Fragment
  OBVIOUS
<1>2. \A i \in 1 .. Len(s) : s[i].seq \in Seqs
  BY <1>1 DEF Fragment
<1>3. DOMAIN s = 1 .. Len(s) /\ Len(s) \in Nat
  OBVIOUS
<1>4. NumbersOf(s) = [i \in 1 .. Len(s) |-> s[i].seq]
  BY <1>3 DEF NumbersOf
<1> QED
  BY <1>2, <1>3, <1>4

\* Numbered is the set of those numbers.
LEMMA NumberedIsElements ==
  ASSUME NEW s \in Seq(Fragment)
  PROVE  Numbered(s) = LiveWindow!ToSet(NumbersOf(s))
<1>1. DOMAIN s = DOMAIN NumbersOf(s) /\ \A i \in DOMAIN s : NumbersOf(s)[i] = s[i].seq
  BY DEF NumbersOf
<1>2. ASSUME NEW d \in Numbered(s) PROVE d \in LiveWindow!ToSet(NumbersOf(s))
  <2>1. PICK i \in DOMAIN s : d = s[i].seq
    BY DEF Numbered, ToSet
  <2> QED
    BY <1>1, <2>1 DEF LiveWindow!ToSet
<1>3. ASSUME NEW d \in LiveWindow!ToSet(NumbersOf(s)) PROVE d \in Numbered(s)
  <2>1. PICK i \in DOMAIN s : d = s[i].seq
    BY <1>1 DEF LiveWindow!ToSet
  <2> QED
    BY <2>1 DEF Numbered, ToSet
<1> QED
  BY <1>2, <1>3

\* Two sequences of one length with the same elements are one sequence.
LEMMA SameSequence ==
  ASSUME NEW S, NEW s \in Seq(S), NEW t \in Seq(S), Len(s) = Len(t),
         \A i \in 1 .. Len(s) : s[i] = t[i]
  PROVE  s = t
  OBVIOUS

\* The numbers of the window are the window of the numbers.
LEMMA NewestNumbers ==
  ASSUME NEW s \in Seq(Fragment)
  PROVE  LiveWindow!Newest(NumbersOf(s)) = NumbersOf(Window(s))
<1> DEFINE n == Len(s)
           q == NumbersOf(s)
<1>0. WindowSize \in Nat \ {0} /\ n \in Nat
  BY DashAssumption DEF DashAssumption
<1>1. q \in Seq(Seqs) /\ Len(q) = n /\ \A i \in 1 .. n : q[i] = s[i].seq
  BY NumbersOfType
<1>2. CASE n > WindowSize
  <2> DEFINE m == n - WindowSize + 1
  <2>1. /\ Window(s) \in Seq(Fragment) /\ Len(Window(s)) = WindowSize
        /\ \A i \in 1 .. WindowSize : Window(s)[i] = s[n - WindowSize + i]
    BY <1>2, WindowIsSuffix
  <2>2. /\ NumbersOf(Window(s)) \in Seq(Seqs) /\ Len(NumbersOf(Window(s))) = WindowSize
        /\ \A i \in 1 .. WindowSize : NumbersOf(Window(s))[i] = s[n - WindowSize + i].seq
    BY <2>1, NumbersOfType
  <2>3. LiveWindow!Newest(q) = SubSeq(q, m, n)
    BY <1>1, <1>2 DEF LiveWindow!Newest
  <2>4. m \in 1 .. n /\ n - m + 1 = WindowSize
    BY <1>0, <1>2
  <2> HIDE DEF q, m
  <2>5. /\ SubSeq(q, m, n) \in Seq(Seqs) /\ Len(SubSeq(q, m, n)) = n - m + 1
        /\ \A i \in 1 .. n - m + 1 : SubSeq(q, m, n)[i] = q[m + i - 1]
    BY <1>0, <1>1, <2>4
  <2>6. ASSUME NEW i \in 1 .. WindowSize
        PROVE  SubSeq(q, m, n)[i] = NumbersOf(Window(s))[i]
    <3>1. SubSeq(q, m, n)[i] = q[m + i - 1] /\ m + i - 1 = n - WindowSize + i
      BY <1>0, <2>4, <2>5 DEF m
    <3>2. n - WindowSize + i \in 1 .. n
      BY <1>0, <1>2
    <3> QED
      BY <1>1, <2>2, <3>1, <3>2
  <2>7. SubSeq(q, m, n) = NumbersOf(Window(s))
    BY <2>2, <2>4, <2>5, <2>6, SameSequence
  <2> QED
    BY <2>3, <2>7 DEF q
<1>3. CASE ~(n > WindowSize)
  BY <1>1, <1>3 DEF LiveWindow!Newest, Window
<1> QED
  BY <1>2, <1>3

LEMMA NumbersAppend ==
  ASSUME NEW s \in Seq(Fragment), NEW x \in Fragment
  PROVE  NumbersOf(Append(s, x)) = Append(NumbersOf(s), x.seq)
<1>1. /\ Append(s, x) \in Seq(Fragment) /\ Len(Append(s, x)) = Len(s) + 1
      /\ x.seq \in Seqs
  BY DEF Fragment
<1>2. /\ NumbersOf(s) \in Seq(Seqs) /\ Len(NumbersOf(s)) = Len(s)
      /\ \A i \in 1 .. Len(s) : NumbersOf(s)[i] = s[i].seq
  BY NumbersOfType
<1>3. /\ NumbersOf(Append(s, x)) \in Seq(Seqs) /\ Len(NumbersOf(Append(s, x))) = Len(s) + 1
      /\ \A i \in 1 .. Len(s) + 1 : NumbersOf(Append(s, x))[i] = Append(s, x)[i].seq
  BY <1>1, NumbersOfType
<1>4. /\ Append(NumbersOf(s), x.seq) \in Seq(Seqs)
      /\ Len(Append(NumbersOf(s), x.seq)) = Len(s) + 1
  BY <1>1, <1>2
<1>5. ASSUME NEW i \in 1 .. Len(s) + 1
      PROVE  NumbersOf(Append(s, x))[i] = Append(NumbersOf(s), x.seq)[i]
  <2>1. CASE i = Len(s) + 1
    <3>1. Append(s, x)[i] = x /\ Append(NumbersOf(s), x.seq)[i] = x.seq
      BY <1>1, <1>2, <2>1
    <3> QED
      BY <1>3, <3>1
  <2>2. CASE i # Len(s) + 1
    <3>1. i \in 1 .. Len(s)
      BY <2>2
    <3>2. Append(s, x)[i] = s[i]
      BY <3>1
    <3>3. Append(NumbersOf(s), x.seq)[i] = NumbersOf(s)[i]
      BY <1>1, <1>2, <3>1
    <3> QED
      BY <1>2, <1>3, <3>1, <3>2, <3>3
  <2> QED
    BY <2>1, <2>2
<1> QED
  BY <1>3, <1>4, <1>5, SameSequence

\* Every step is one of LiveWindow, or leaves what it sees alone: Record lists,
\* Stop clears and then unlinks, and a write creates, even one that fails.
LEMMA StepRefines ==
  ASSUME TypeInv, WindowInv, Next
  PROVE  [LiveWindow!Next]_LiveWindow!vars
<1>0. /\ WindowTypes /\ nextSeq \in Nat /\ segments \in Seq(Fragment)
      /\ Len(segments) \in Nat
      /\ NumbersOf(segments) = [i \in DOMAIN segments |-> segments[i].seq]
      /\ NumbersOf(segments)' = [i \in DOMAIN segments' |-> segments'[i].seq]
  BY TypeGroups DEF TypeInv, WindowTypes, Seqs, NumbersOf
<1>1. CASE WriteFragment \/ WriteFragmentFails
  <2>1. /\ disk' = disk \/ disk' = disk \cup {nextSeq}
        /\ UNCHANGED <<segments, nextSeq>>
    BY <1>1 DEF WriteFragment, WriteFragmentFails, shared
  <2> QED
    BY <2>1 DEF LiveWindow!Next, LiveWindow!Create, LiveWindow!vars
<1>2. CASE Record
  <2>1. /\ nextSeq \in disk /\ nextSeq' = nextSeq + 1
        /\ segments' = Window(All) /\ All \in Seq(Fragment)
        /\ disk' = disk \ (Numbered(All) \ Numbered(Window(All)))
        /\ Added \in Fragment /\ Added.seq = nextSeq
    BY <1>2, RecordFacts DEF WindowInv, WrittenOnDisk
  <2>2. segments' \in Seq(Fragment)
    BY WindowTypesNext DEF WindowTypes
  <2>3. NumbersOf(segments)' = LiveWindow!Newest(Append(NumbersOf(segments), nextSeq))
    <3>1. NumbersOf(All) = Append(NumbersOf(segments), nextSeq)
      BY <1>0, <2>1, NumbersAppend DEF All
    <3>2. LiveWindow!Newest(NumbersOf(All)) = NumbersOf(Window(All))
      BY <2>1, NewestNumbers
    <3>3. NumbersOf(segments)' = NumbersOf(Window(All))
      BY <1>0, <2>1 DEF NumbersOf
    <3> QED
      BY <3>1, <3>2, <3>3, Zero
  <2>4. Numbered(All) = Numbered(segments) \cup {nextSeq} /\ nextSeq \in Numbered(segments')
    <3>1. /\ DOMAIN All = 1 .. Len(segments) + 1 /\ DOMAIN segments = 1 .. Len(segments)
          /\ DOMAIN segments' = 1 .. Len(segments')
          /\ \A i \in 1 .. Len(segments) : All[i] = segments[i]
          /\ All[Len(segments) + 1] = Added
      BY <1>0, <1>2, <2>1, <2>2, RecordFacts
    <3>2. Len(segments') \in DOMAIN segments' /\ segments'[Len(segments')] = Added
      <4>1. segments' # <<>> /\ segments'[Len(segments')] = Added
        BY <1>2, AddedLast
      <4> QED
        BY <2>2, <3>1, <4>1
    <3>3. nextSeq \in Numbered(segments')
      BY <2>1, <3>2 DEF Numbered, ToSet
    <3>4. ASSUME NEW d \in Numbered(All) PROVE d \in Numbered(segments) \cup {nextSeq}
      <4>1. PICK i \in 1 .. Len(segments) + 1 : d = All[i].seq
        BY <3>1 DEF Numbered, ToSet
      <4>2. i \in 1 .. Len(segments) \/ i = Len(segments) + 1
        BY <1>0
      <4> QED
        BY <2>1, <3>1, <4>1, <4>2 DEF Numbered, ToSet
    <3>5. ASSUME NEW d \in Numbered(segments) \cup {nextSeq} PROVE d \in Numbered(All)
      <4>1. CASE d = nextSeq
        <5>1. Len(segments) + 1 \in DOMAIN All
          BY <1>0, <3>1
        <5> QED
          BY <2>1, <3>1, <4>1, <5>1 DEF Numbered, ToSet
      <4>2. CASE d # nextSeq
        <5>1. PICK i \in 1 .. Len(segments) : d = segments[i].seq
          BY <3>1, <4>2 DEF Numbered, ToSet
        <5>2. i \in DOMAIN All /\ All[i] = segments[i]
          BY <1>0, <3>1
        <5> QED
          BY <5>1, <5>2 DEF Numbered, ToSet
      <4> QED
        BY <4>1, <4>2
    <3> QED
      BY <3>3, <3>4, <3>5
  <2>5. disk' = disk \ (Numbered(segments) \ Numbered(segments'))
    BY <2>1, <2>4
  <2>6. /\ Numbered(segments) = LiveWindow!ToSet(NumbersOf(segments))
        /\ Numbered(segments') = LiveWindow!ToSet(NumbersOf(segments)')
    BY <1>0, <2>2, NumberedIsElements DEF NumbersOf
  <2>7. LiveWindow!List
    BY <2>1, <2>3, <2>5, <2>6 DEF LiveWindow!List, NumbersOf, LiveWindow!ToSet
  <2> QED
    BY <2>7 DEF LiveWindow!Next
<1>3. CASE StopTakesSegments
  <2>1. segments' = <<>> /\ UNCHANGED <<nextSeq, disk>>
    BY <1>3 DEF StopTakesSegments
  <2>2. [i \in DOMAIN segments' |-> segments'[i].seq] = <<>>
    BY <2>1
  <2>3. LiveWindow!Clear
    BY <2>1, <2>2 DEF LiveWindow!Clear
  <2> QED
    BY <2>3 DEF LiveWindow!Next
<1>4. CASE StopRemove
  <2>1. /\ spc = "remove" /\ disk' = disk \ doomed
        /\ UNCHANGED <<segments, nextSeq>>
    BY <1>4 DEF StopRemove, shared
  <2>2. \A d \in doomed : d \in Nat /\ d < nextSeq - Len(segments)
    BY <1>0, <2>1 DEF WindowInv, DoomedUnlisted, WindowTypes, Seqs
  <2>3. \A d \in doomed : d < nextSeq
    BY <1>0, <2>2
  <2>4. \A d \in doomed : d \notin Numbered(segments)
    <3>1. DOMAIN segments = 1 .. Len(segments)
      BY <1>0
    <3> QED
      BY <1>0, <2>2, <3>1 DEF Numbered, ToSet, WindowInv, InSequence
  <2>5. Numbered(segments) = LiveWindow!ToSet(NumbersOf(segments))
    BY <1>0, NumberedIsElements
  <2>6. /\ doomed \cap disk \in
             SUBSET {f \in disk : f < nextSeq /\ f \notin LiveWindow!ToSet(NumbersOf(segments))}
        /\ disk' = disk \ (doomed \cap disk)
    BY <2>1, <2>3, <2>4, <2>5
  <2>7. LiveWindow!Unlink
    BY <2>1, <2>6 DEF LiveWindow!Unlink, NumbersOf, LiveWindow!ToSet
  <2> QED
    BY <2>7 DEF LiveWindow!Next
<1>5. CASE ~Record /\ ~StopTakesSegments /\ ~StopRemove /\ ~WriteFragment /\ ~WriteFragmentFails
  <2>1. UNCHANGED <<segments, nextSeq, disk>>
    BY <1>5 DEF Next, Writer, Stop, Mkdir, Loop, ReadDead, WriteInit, WriteInitFails, InitWritten,
         TakeFrame, Flush, ClearSamples, Return, ReadHeader, ReadFrame, PublisherGone, StopBegin,
         StopUnlink, StopReady, shared
  <2> QED
    BY <2>1 DEF LiveWindow!vars
<1> QED
  BY <1>1, <1>2, <1>3, <1>4, <1>5

(* The segmenter is a live window for every window size and bound, with Stop   *)
(* in another goroutine and writes that fail: what it lists has a file, files  *)
(* are reaped in the step that unlists them, and Stop removes only what is not *)
(* listed.                                                                     *)
THEOREM RefinesLiveWindow == Spec => ImplementsLiveWindow
<1>1. Init => LiveWindow!Init
  BY DEF Init, LiveWindow!Init
<1>2. TypeInv /\ WindowInv /\ [Next]_vars => [LiveWindow!Next]_LiveWindow!vars
  <2>1. UNCHANGED vars => UNCHANGED LiveWindow!vars
    BY DEF vars, shared, LiveWindow!vars
  <2> QED
    BY <2>1, StepRefines
<1> QED
  BY <1>1, <1>2, WindowAlways, PTL DEF Spec, ImplementsLiveWindow, LiveWindow!Spec

(* What a reader of the playlist has from that, for every window size.        *)

LEMMA NewestAmong ==
  ASSUME NEW s \in Seq(Seqs)
  PROVE  /\ Len(LiveWindow!Newest(s)) <= WindowSize
         /\ LiveWindow!ToSet(LiveWindow!Newest(s)) \subseteq LiveWindow!ToSet(s)
<1>0. WindowSize \in Nat \ {0} /\ Len(s) \in Nat /\ DOMAIN s = 1 .. Len(s)
  BY DashAssumption DEF DashAssumption
<1>1. CASE Len(s) > WindowSize
  <2> DEFINE m == Len(s) - WindowSize + 1
  <2>1. m \in 1 .. Len(s) /\ Len(s) - m + 1 = WindowSize
    BY <1>0, <1>1
  <2>2. LiveWindow!Newest(s) = SubSeq(s, m, Len(s))
    BY <1>1 DEF LiveWindow!Newest
  <2> HIDE DEF m
  <2>3. PICK t : t = SubSeq(s, m, Len(s))
    OBVIOUS
  <2>4. t \in Seq(Seqs) /\ Len(t) = WindowSize /\ \A i \in 1 .. WindowSize : t[i] = s[m + i - 1]
    BY <2>1, <2>3
  <2>5. ASSUME NEW i \in 1 .. WindowSize PROVE m + i - 1 \in 1 .. Len(s)
    BY <1>0, <2>1
  <2>6. DOMAIN t = 1 .. WindowSize
    BY <2>4
  <2>7. LiveWindow!ToSet(t) \subseteq LiveWindow!ToSet(s)
    BY <1>0, <2>4, <2>5, <2>6 DEF LiveWindow!ToSet
  <2> QED
    BY <1>0, <2>2, <2>3, <2>4, <2>7
<1>2. CASE ~(Len(s) > WindowSize)
  BY <1>0, <1>2 DEF LiveWindow!Newest
<1> QED
  BY <1>1, <1>2

\* What the window lists is short and has files.
Promised == Len(segments) <= WindowSize /\ LiveWindow!ToSet(NumbersOf(segments)) \subseteq disk

LEMMA PromiseStep ==
  ASSUME TypeInv, WindowInv, Promised, Next
  PROVE  Promised'
<1>1. PICK q : q = NumbersOf(segments)
  OBVIOUS
<1>2. PICK r : r = NumbersOf(segments')
  OBVIOUS
<1>3. segments \in Seq(Fragment) /\ segments' \in Seq(Fragment) /\ nextSeq \in Seqs
  <2>1. segments \in Seq(Fragment) /\ nextSeq \in Seqs
    BY TypeGroups DEF TypeInv, WindowTypes
  <2>2. TypeOK'
    BY TypeStep DEF TypeInv
  <2>3. segments' \in Seq(Fragment)
    BY <2>2 DEF TypeOK, Fragment
  <2> QED
    BY <2>1, <2>3
<1>4. /\ q \in Seq(Seqs) /\ Len(q) = Len(segments) /\ r \in Seq(Seqs) /\ Len(r) = Len(segments')
      /\ DOMAIN q = 1 .. Len(q)
  BY <1>1, <1>2, <1>3, NumbersOfType
<1>5. Len(q) <= WindowSize /\ LiveWindow!ToSet(q) \subseteq disk
  BY <1>1, <1>4 DEF Promised
<1>6. SUFFICES Len(r) <= WindowSize /\ LiveWindow!ToSet(r) \subseteq disk'
  BY <1>2, <1>4 DEF Promised
<1>7. [LiveWindow!Next]_LiveWindow!vars
  BY StepRefines
<1>8. CASE LiveWindow!List
  <2>1. /\ nextSeq \in disk /\ r = LiveWindow!Newest(Append(q, nextSeq))
        /\ disk' = disk \ (LiveWindow!ToSet(q) \ LiveWindow!ToSet(r))
    BY <1>1, <1>2, <1>8 DEF LiveWindow!List, NumbersOf, LiveWindow!ToSet
  <2>2. PICK all : all = Append(q, nextSeq)
    OBVIOUS
  <2>3. all \in Seq(Seqs) /\ LiveWindow!ToSet(all) = LiveWindow!ToSet(q) \cup {nextSeq}
    <3>1. /\ all \in Seq(Seqs) /\ Len(all) = Len(q) + 1 /\ DOMAIN all = 1 .. Len(q) + 1
          /\ all[Len(q) + 1] = nextSeq /\ \A i \in 1 .. Len(q) : all[i] = q[i]
      BY <1>3, <1>4, <2>2
    <3>2. Len(q) \in Nat
      BY <1>4
    <3>3. \A i \in DOMAIN all : i \in 1 .. Len(q) \/ i = Len(q) + 1
      BY <3>1, <3>2
    <3>4. 1 .. Len(q) \subseteq DOMAIN all /\ Len(q) + 1 \in DOMAIN all
      BY <3>1, <3>2
    <3> QED
      BY <1>4, <3>1, <3>3, <3>4 DEF LiveWindow!ToSet
  <2>4. Len(r) <= WindowSize /\ LiveWindow!ToSet(r) \subseteq LiveWindow!ToSet(all)
    BY <2>1, <2>2, <2>3, NewestAmong
  <2> QED
    BY <1>5, <2>1, <2>3, <2>4
<1>9. CASE LiveWindow!Clear
  <2>1. r = <<>>
    BY <1>2, <1>9 DEF LiveWindow!Clear, NumbersOf
  <2>2. Len(r) = 0 /\ LiveWindow!ToSet(r) = {}
    BY <2>1 DEF LiveWindow!ToSet
  <2>3. WindowSize \in Nat
    BY DashAssumption DEF DashAssumption
  <2> QED
    BY <2>2, <2>3
<1>10. CASE LiveWindow!Create \/ UNCHANGED LiveWindow!vars
  <2>1. r = q /\ disk \subseteq disk'
    BY <1>1, <1>2, <1>10 DEF LiveWindow!Create, LiveWindow!vars, NumbersOf
  <2> QED
    BY <1>5, <2>1
<1>11. CASE LiveWindow!Unlink
  <2>1. /\ r = q
        /\ \E F \in SUBSET {f \in disk : f < nextSeq /\ f \notin LiveWindow!ToSet(q)} : disk' = disk \ F
    BY <1>1, <1>2, <1>11 DEF LiveWindow!Unlink, NumbersOf, LiveWindow!ToSet
  <2> QED
    BY <1>5, <2>1
<1> QED
  BY <1>7, <1>8, <1>9, <1>10, <1>11 DEF LiveWindow!Next

LEMMA PromiseAlways == Spec => [](TypeInv /\ WindowInv /\ Promised)
<1>1. Init => Promised
  BY DashAssumption DEF DashAssumption, Init, Promised, NumbersOf, LiveWindow!ToSet
<1>2. Promised /\ UNCHANGED vars => Promised'
  BY DEF Promised, vars, shared, NumbersOf, LiveWindow!ToSet
<1>3. TypeInv /\ WindowInv /\ Promised /\ [Next]_vars => Promised'
  BY <1>2, PromiseStep
<1> QED
  BY <1>1, <1>3, WindowAlways, PTL DEF Spec

(* A manifest always numbers consecutive fragments, the newest last and at    *)
(* most as many as the window holds, so that the first number says which they *)
(* are: buildMPD of mpd.go.                                                   *)
THEOREM WindowConsecutive == Spec => []LiveWindow!Consecutive
<1>1. TypeInv /\ WindowInv /\ Promised => LiveWindow!Consecutive
  <2> SUFFICES ASSUME TypeInv, WindowInv, Promised PROVE LiveWindow!Consecutive
    OBVIOUS
  <2>1. segments \in Seq(Fragment)
    BY TypeGroups DEF TypeInv, WindowTypes
  <2>2. PICK q : q = NumbersOf(segments)
    OBVIOUS
  <2>3. Len(q) = Len(segments) /\ \A i \in 1 .. Len(segments) : q[i] = segments[i].seq
    BY <2>1, <2>2, NumbersOfType
  <2>4. Len(q) <= WindowSize /\ \A i \in 1 .. Len(q) : q[i] = nextSeq - Len(q) + i - 1
    BY <2>3 DEF Promised, WindowInv, InSequence
  <2> QED
    BY <2>2, <2>4 DEF LiveWindow!Consecutive, NumbersOf
<1> QED
  BY <1>1, PromiseAlways, PTL

(* What a manifest names can be fetched at the moment it is made.             *)
THEOREM WindowFetchable == Spec => []LiveWindow!Fetchable
<1>1. Promised => LiveWindow!Fetchable
  BY DEF Promised, LiveWindow!Fetchable, NumbersOf, LiveWindow!ToSet
<1> QED
  BY <1>1, PromiseAlways, PTL
=============================================================================
