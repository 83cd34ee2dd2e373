---------------------------- MODULE HlsSegmenter ----------------------------
(***************************************************************************)
(* One HLS instance (libhls/hls.go).  Three kinds of goroutine share it:    *)
(*                                                                          *)
(*   - the writer, HLS.Start: reads the room's broadcast, cuts it into      *)
(*     segment files, keeps the sliding window of the playlist              *)
(*   - HLS.Stop, called by App.Delete while the writer runs                 *)
(*   - HTTP requests in WaitForPlaylist, parked on the condition variable   *)
(*     until the segment and part they ask for exist or their time is up    *)
(*                                                                          *)
(* A section under mu is one step.  What the code calls writer-only state   *)
(* has no lock, and Stop touches some of it: its accesses are steps too.    *)
(* Media time is a small clock; a frame, like a PAT/PMT pair, is one unit   *)
(* of bytes.  A file is named after the number of its segment.              *)
(***************************************************************************)
EXTENDS Integers, Sequences, FiniteSets, SequencesExt

CONSTANTS
    LowLatency,     \* WithLowLatency: partial segments
    TargetDur,      \* targetDur
    PartTarget,     \* partTargetDur
    WindowSize,     \* windowSize
    Wrap,           \* uint64 differences are taken modulo this
    AudioLag,       \* how far an audio batch's PTS may trail the video clock
    Waiters,        \* HTTP requests in WaitForPlaylist
    StopAllowed,    \* Stop is called at some time
    Failures,       \* which of "mkdir", "create", "write" the disk may fail
    MaxClock,       \* bound on the media clock
    MaxSegments,    \* bound on the segments opened
    MaxBytes        \* bound on the bytes of a segment

ASSUME SegmenterAssumption ==
    /\ LowLatency \in BOOLEAN /\ StopAllowed \in BOOLEAN
    /\ TargetDur \in Nat \ {0} /\ PartTarget \in Nat \ {0}
    /\ WindowSize \in Nat \ {0}
    /\ AudioLag \in Nat /\ MaxClock \in Nat /\ MaxSegments \in Nat
    /\ MaxBytes \in Nat /\ MaxBytes >= 2
    /\ Wrap \in Nat /\ Wrap > MaxClock
    /\ Failures \subseteq {"mkdir", "create", "write"}

VARIABLES
    wpc,        \* where the writer stands
    exiting,    \* it is in Start's deferred function
    tag,        \* the PES it is handling
    clock,      \* DTS of the newest video frame sent by the publisher
    dead,       \* the broadcast was closed: Read answers alive = false
    file,       \* currentFile # nil
    writable,   \* the handle inside currentWriter is open
    cur,        \* the writer's bookkeeping of the segment in progress
    disk,       \* segment files in the directory
    segments,   \* the window of finished segments
    nextSeq,
    parts,      \* currentParts
    named,      \* currentSegName # ""
    ready,      \* the ready channel is closed
    spc,        \* where Stop stands
    doomed,     \* the files Stop copied to remove
    waiters     \* what each request asks for and where it stands

writerVars == <<wpc, exiting, tag>>
fileVars == <<file, writable, cur>>
shared == <<segments, nextSeq, parts, named>>
stopVars == <<spc, doomed>>
vars == <<writerVars, clock, dead, fileVars, disk, shared, ready, stopVars, waiters>>

Times == 0 .. MaxClock
Seqs == 0 .. MaxSegments
Bytes == 0 .. MaxBytes
Kinds == {"key", "frame", "audio"}
Firsts == Kinds \cup {"nothing"}
Part == [off : Bytes, len : Bytes, dur : 0 .. Wrap - 1]

\* The writer's bookkeeping of a segment that starts at t.
NewSegment(t) == [start |-> t, end |-> t, pstart |-> t, poff |-> 0,
                  bytes |-> 0, first |-> "nothing"]

TypeOK ==
    /\ wpc \in {"mkdir", "loop", "read", "create", "open", "mux", "part", "tail",
                "close", "record", "return", "returned", "panic"}
    /\ exiting \in BOOLEAN
    /\ tag \in [kind : Kinds, dts : Times]
    /\ clock \in Times
    /\ dead \in BOOLEAN /\ file \in BOOLEAN /\ writable \in BOOLEAN
    /\ cur \in [start : Times, end : Times, pstart : Times, poff : Bytes,
                bytes : Bytes, first : Firsts]
    /\ disk \subseteq Seqs
    /\ segments \in Seq([seq : Seqs, parts : Seq(Part), bytes : Bytes, first : Firsts])
    /\ nextSeq \in Seqs
    /\ parts \in Seq(Part)
    /\ named \in BOOLEAN /\ ready \in BOOLEAN
    /\ spc \in {"none", "close", "nil", "lock", "remove", "ready", "done"}
    /\ doomed \subseteq Seqs
    /\ waiters \in [Waiters -> [at : {"idle", "check", "parked", "answered"},
                                msn : Seqs, part : 0 .. 1,
                                expired : BOOLEAN, timer : BOOLEAN]]

Init ==
    /\ wpc = "mkdir"
    /\ exiting = FALSE
    /\ tag = [kind |-> "frame", dts |-> 0]
    /\ clock = 0
    /\ dead = FALSE
    /\ file = FALSE
    /\ writable = FALSE
    /\ cur = [start |-> 0, end |-> 0, pstart |-> 0, poff |-> 0,
              bytes |-> 0, first |-> "nothing"]
    /\ disk = {}
    /\ segments = <<>>
    /\ nextSeq = 0
    /\ parts = <<>>
    /\ named = FALSE
    /\ ready = FALSE
    /\ spc = "none"
    /\ doomed = {}
    /\ waiters = [w \in Waiters |-> [at |-> "idle", msn |-> 0, part |-> 0,
                                     expired |-> FALSE, timer |-> FALSE]]

stopped == spc # "none"

\* cond.Broadcast: every parked request will look again.
Broadcast ==
    waiters' = [w \in Waiters |->
                  [waiters[w] EXCEPT !.at = IF @ = "parked" THEN "check" ELSE @]]

-----------------------------------------------------------------------------
(* The writer: HLS.Start. *)

\* MkdirAll; when it fails Start returns before the deferred function is set.
Mkdir ==
    /\ wpc = "mkdir"
    /\ \/ wpc' = "loop"
       \/ "mkdir" \in Failures /\ wpc' = "returned"
    /\ UNCHANGED <<exiting, tag, clock, dead, fileVars, disk, shared, ready,
                   stopVars, waiters>>

\* The top of the loop asks for Stop; on the way out the deferred function runs.
Loop ==
    /\ wpc = "loop"
    /\ IF stopped
       THEN wpc' = "tail" /\ exiting' = TRUE
       ELSE wpc' = "read" /\ UNCHANGED exiting
    /\ UNCHANGED <<tag, clock, dead, fileVars, disk, shared, ready, stopVars, waiters>>

\* The media time from b to a, as the code computes it in uint64.
Elapsed(a, b) == (a - b) % Wrap

\* Mutant of AfterRead: any video frame may begin a segment.
AfterReadAnyFrame(t) ==
    CASE ~file /\ t.kind # "audio" -> "create"
      [] ~file /\ t.kind = "audio" -> "loop"
      [] file /\ t.kind # "audio" /\ Elapsed(t.dts, cur.start) >= TargetDur -> "tail"
      [] OTHER -> "mux"

\* Only a key frame opens a segment or, once the target is reached, rotates.
AfterRead(t) ==
    CASE ~file /\ t.kind = "key" -> "create"
      [] ~file /\ t.kind # "key" -> "loop"
      [] file /\ t.kind = "key" /\ Elapsed(t.dts, cur.start) >= TargetDur -> "tail"
      [] OTHER -> "mux"

\* Read returns a tag and toPES lifts it.  Video comes in the order of its
\* clock; the PTS of an audio batch is that of its first frame, sent earlier.
Read ==
    /\ wpc = "read"
    /\ ~dead
    /\ file => cur.bytes < MaxBytes
    /\ \E k \in Kinds, t \in Times :
          /\ IF k = "audio"
             THEN t \in clock - AudioLag .. clock /\ UNCHANGED clock
             ELSE t \in clock .. clock + 1 /\ clock' = t
          /\ k = "key" => nextSeq + 1 < MaxSegments
          /\ tag' = [kind |-> k, dts |-> t]
          /\ wpc' = AfterRead([kind |-> k, dts |-> t])
    /\ UNCHANGED <<exiting, dead, fileVars, disk, shared, ready, stopVars, waiters>>

\* Read answers alive = false: the publisher is gone.
ReadDead ==
    /\ wpc = "read"
    /\ dead
    /\ wpc' = "tail"
    /\ exiting' = TRUE
    /\ UNCHANGED <<tag, clock, dead, fileVars, disk, shared, ready, stopVars, waiters>>

\* An error inside the loop makes Start return, through the deferred function.
Fail == wpc' = "tail" /\ exiting' = TRUE

\* openSegment: create the file, reset the writer's bookkeeping.
CreateFile ==
    /\ wpc = "create"
    /\ disk' = disk \cup {nextSeq}
    /\ file' = TRUE
    /\ writable' = TRUE
    /\ cur' = NewSegment(tag.dts)
    /\ wpc' = "open"
    /\ UNCHANGED <<exiting, tag, clock, dead, shared, ready, stopVars, waiters>>

CreateFails ==
    /\ wpc = "create"
    /\ "create" \in Failures
    /\ Fail
    /\ UNCHANGED <<tag, clock, dead, fileVars, disk, shared, ready, stopVars, waiters>>

\* openSegment goes on: name the segment in progress under mu, then write the
\* PAT and PMT, which fails on a closed handle or a full disk.
OpenSegment ==
    /\ wpc = "open"
    /\ named' = TRUE
    /\ parts' = <<>>
    /\ \/ /\ writable
          /\ cur' = [cur EXCEPT !.bytes = @ + 1]
          /\ wpc' = "mux"
          /\ UNCHANGED exiting
       \/ /\ ~writable \/ "write" \in Failures
          /\ Fail
          /\ UNCHANGED cur
    /\ UNCHANGED <<tag, clock, dead, file, writable, disk, segments, nextSeq,
                   ready, stopVars, waiters>>

\* Mux the frame.  (A PAT/PMT pair that falls due is one with the frame.)
Mux ==
    /\ wpc = "mux"
    /\ writable
    /\ cur' = [cur EXCEPT !.bytes = @ + 1,
                          !.end = IF tag.dts > @ THEN tag.dts ELSE @,
                          !.first = IF @ = "nothing" THEN tag.kind ELSE @]
    /\ wpc' = IF LowLatency THEN "part" ELSE "loop"
    /\ UNCHANGED <<exiting, tag, clock, dead, file, writable, disk, shared, ready,
                   stopVars, waiters>>

\* A write that fails drops the frame; if a PAT/PMT pair was due, Start returns.
MuxFails ==
    /\ wpc = "mux"
    /\ ~writable \/ "write" \in Failures
    /\ \/ wpc' = "loop" /\ UNCHANGED exiting
       \/ Fail
    /\ UNCHANGED <<tag, clock, dead, fileVars, disk, shared, ready, stopVars, waiters>>

\* Mutant of ClosePart: the next part starts where this one did.
ClosePartInPlace(t) ==
    IF file /\ Elapsed(t, cur.pstart) > 0 /\ cur.bytes > cur.poff
    THEN /\ parts' = Append(parts, [off |-> cur.poff, len |-> cur.bytes - cur.poff,
                                    dur |-> Elapsed(t, cur.pstart)])
         /\ cur' = [cur EXCEPT !.pstart = t]
         /\ Broadcast
    ELSE UNCHANGED <<parts, cur, waiters>>

\* Mutant of ClosePart: nobody is woken.
ClosePartQuietly(t) ==
    IF file /\ Elapsed(t, cur.pstart) > 0 /\ cur.bytes > cur.poff
    THEN /\ parts' = Append(parts, [off |-> cur.poff, len |-> cur.bytes - cur.poff,
                                    dur |-> Elapsed(t, cur.pstart)])
         /\ cur' = [cur EXCEPT !.pstart = t, !.poff = cur.bytes]
         /\ UNCHANGED waiters
    ELSE UNCHANGED <<parts, cur, waiters>>

\* closeCurrentPart: an empty or timeless part is not recorded.
ClosePart(t) ==
    IF file /\ Elapsed(t, cur.pstart) > 0 /\ cur.bytes > cur.poff
    THEN /\ parts' = Append(parts, [off |-> cur.poff, len |-> cur.bytes - cur.poff,
                                    dur |-> Elapsed(t, cur.pstart)])
         /\ cur' = [cur EXCEPT !.pstart = t, !.poff = cur.bytes]
         /\ Broadcast
    ELSE UNCHANGED <<parts, cur, waiters>>

\* The part boundary check after a frame.
PartBoundary ==
    /\ wpc = "part"
    /\ IF Elapsed(tag.dts, cur.pstart) >= PartTarget
       THEN ClosePart(tag.dts)
       ELSE UNCHANGED <<parts, cur, waiters>>
    /\ wpc' = "loop"
    /\ UNCHANGED <<exiting, tag, clock, dead, file, writable, disk, segments,
                   nextSeq, named, ready, stopVars>>

\* finaliseCurrent returns to rotate, which opens, or to the deferred function.
AfterFinalise == IF exiting THEN "return" ELSE "create"

\* finaliseCurrent begins: nothing to do without a file, else the tail part.
FinaliseTail ==
    /\ wpc = "tail"
    /\ IF file
       THEN /\ IF LowLatency /\ cur.bytes > cur.poff
               THEN ClosePart(cur.end)
               ELSE UNCHANGED <<parts, cur, waiters>>
            /\ wpc' = "close"
       ELSE wpc' = AfterFinalise /\ UNCHANGED <<parts, cur, waiters>>
    /\ UNCHANGED <<exiting, tag, clock, dead, file, writable, disk, segments,
                   nextSeq, named, ready, stopVars>>

\* finaliseCurrent goes on: currentFile.Name(), which a nil pointer does not
\* survive, then Close.
FinaliseClose ==
    /\ wpc = "close"
    /\ IF file
       THEN /\ wpc' = "record"
            /\ file' = FALSE
            /\ writable' = FALSE
       ELSE wpc' = "panic" /\ UNCHANGED <<file, writable>>
    /\ UNCHANGED <<exiting, tag, clock, dead, cur, disk, shared, ready, stopVars, waiters>>

\* The segments that stay in the sliding window.
Window(s) ==
    IF Len(s) > WindowSize THEN SubSeq(s, Len(s) - WindowSize + 1, Len(s)) ELSE s

\* The files of the segments that leave it.
Reaped(s) == {s[i].seq : i \in {j \in DOMAIN s : j <= Len(s) - WindowSize}}

\* finaliseCurrent ends: the segment joins the window under mu, old ones leave
\* with their files, every waiting request looks again, ready is closed.
FinaliseRecord ==
    LET seg == [seq |-> nextSeq, parts |-> parts, bytes |-> cur.bytes,
                first |-> cur.first]
        all == Append(segments, seg)
    IN  /\ wpc = "record"
        /\ segments' = Window(all)
        /\ disk' = disk \ Reaped(all)
        /\ parts' = <<>>
        /\ named' = FALSE
        /\ nextSeq' = nextSeq + 1
        /\ Broadcast
        /\ ready' = TRUE
        /\ wpc' = AfterFinalise
        /\ UNCHANGED <<exiting, tag, clock, dead, fileVars, stopVars>>

\* The deferred function closes ready and Start returns.
Return ==
    /\ wpc = "return"
    /\ ready' = TRUE
    /\ wpc' = "returned"
    /\ UNCHANGED <<exiting, tag, clock, dead, fileVars, disk, shared, stopVars, waiters>>

\* Room.Close: the broadcast is not alive any more.
PublisherGone ==
    /\ ~dead
    /\ dead' = TRUE
    /\ UNCHANGED <<writerVars, clock, fileVars, disk, shared, ready, stopVars, waiters>>

-----------------------------------------------------------------------------
(* HLS.Stop, in the goroutine of whoever deletes the stream. *)

StopBegin ==
    /\ StopAllowed
    /\ spc = "none"
    /\ spc' = "close"
    /\ UNCHANGED <<writerVars, clock, dead, fileVars, disk, shared, ready, doomed, waiters>>

\* The test of currentFile and its Close (Close of an os.File that meanwhile
\* became nil only answers an error).
StopClose ==
    /\ spc = "close"
    /\ IF file
       THEN writable' = FALSE /\ spc' = "nil"
       ELSE spc' = "lock" /\ UNCHANGED writable
    /\ UNCHANGED <<writerVars, clock, dead, file, cur, disk, shared, ready, doomed, waiters>>

StopNil ==
    /\ spc = "nil"
    /\ file' = FALSE
    /\ spc' = "lock"
    /\ UNCHANGED <<writerVars, clock, dead, writable, cur, disk, shared, ready,
                   doomed, waiters>>

\* Mutant of StopTakesSegments: the window is copied but not emptied.
StopCopiesSegments ==
    /\ spc = "lock"
    /\ named' = FALSE
    /\ doomed' = {s.seq : s \in ToSet(segments)}
    /\ Broadcast
    /\ spc' = "remove"
    /\ UNCHANGED <<writerVars, clock, dead, fileVars, disk, nextSeq, parts, segments, ready>>

\* The section under mu.
StopTakesSegments ==
    /\ spc = "lock"
    /\ named' = FALSE
    /\ doomed' = {s.seq : s \in ToSet(segments)}
    /\ segments' = <<>>
    /\ Broadcast
    /\ spc' = "remove"
    /\ UNCHANGED <<writerVars, clock, dead, fileVars, disk, nextSeq, parts, ready>>

StopRemove ==
    /\ spc = "remove"
    /\ disk' = disk \ doomed
    /\ spc' = "ready"
    /\ UNCHANGED <<writerVars, clock, dead, fileVars, shared, ready, doomed, waiters>>

StopReady ==
    /\ spc = "ready"
    /\ ready' = TRUE
    /\ spc' = "done"
    /\ UNCHANGED <<writerVars, clock, dead, fileVars, disk, shared, doomed, waiters>>

-----------------------------------------------------------------------------
(* WaitForPlaylist, in the goroutine of an HTTP request. *)

Ask(w) ==
    /\ waiters[w].at = "idle"
    /\ \E m \in Seqs, p \in 0 .. 1 :
          waiters' = [waiters EXCEPT ![w] = [@ EXCEPT !.at = "check", !.msn = m, !.part = p]]
    /\ UNCHANGED <<writerVars, clock, dead, fileVars, disk, shared, ready, stopVars>>

\* The test the loop makes under mu.
Satisfied(q) ==
    LET latestMSN == IF named THEN nextSeq ELSE nextSeq - 1
        latestPart == IF named THEN Len(parts) - 1 ELSE -1
    IN  q.msn < latestMSN \/ (q.msn = latestMSN /\ q.part <= latestPart)

\* One turn of the loop: answer, or start a sleeper for the time left and park.
Check(w) ==
    LET q == waiters[w] IN
    /\ q.at = "check"
    /\ waiters' = [waiters EXCEPT ![w] =
                     IF ~LowLatency \/ Satisfied(q) \/ q.expired
                     THEN [q EXCEPT !.at = "answered"]
                     ELSE [q EXCEPT !.at = "parked", !.timer = TRUE]]
    /\ UNCHANGED <<writerVars, clock, dead, fileVars, disk, shared, ready, stopVars>>

\* The deadline of a request passes.
Expire(w) ==
    /\ waiters[w].at \in {"check", "parked"}
    /\ ~waiters[w].expired
    /\ waiters' = [waiters EXCEPT ![w].expired = TRUE]
    /\ UNCHANGED <<writerVars, clock, dead, fileVars, disk, shared, ready, stopVars>>

\* Mutant of SleeperWakes: the sleeper ends without a Broadcast.
SleeperSilent(w) ==
    /\ waiters[w].timer /\ waiters[w].expired
    /\ waiters' = [waiters EXCEPT ![w].timer = FALSE]
    /\ UNCHANGED <<writerVars, clock, dead, fileVars, disk, shared, ready, stopVars>>

\* The sleepers of a request end at its deadline and broadcast under mu (later
\* ones of the same request only repeat it).
SleeperWakes(w) ==
    /\ waiters[w].timer /\ waiters[w].expired
    /\ waiters' = [v \in Waiters |->
                     [waiters[v] EXCEPT !.at = IF @ = "parked" THEN "check" ELSE @,
                                        !.timer = @ /\ v # w]]
    /\ UNCHANGED <<writerVars, clock, dead, fileVars, disk, shared, ready, stopVars>>

-----------------------------------------------------------------------------
\* What the writer does without waiting for the publisher.
Writer ==
    \/ Mkdir \/ Loop \/ ReadDead
    \/ CreateFile \/ CreateFails \/ OpenSegment
    \/ Mux \/ MuxFails \/ PartBoundary
    \/ FinaliseTail \/ FinaliseClose \/ FinaliseRecord \/ Return

Stop == StopBegin \/ StopClose \/ StopNil \/ StopTakesSegments \/ StopRemove \/ StopReady

\* A panic in the writer's goroutine ends the process.
Next ==
    /\ wpc # "panic"
    /\ \/ Writer
       \/ Read
       \/ PublisherGone
       \/ Stop
       \/ \E w \in Waiters : Ask(w) \/ Check(w) \/ Expire(w) \/ SleeperWakes(w)

Spec == Init /\ [][Next]_vars

(* Running goroutines run on, mu is held only briefly, and time passes; the    *)
(* publisher owes us neither tags nor an end.                                  *)
FairSpec ==
    /\ Spec
    /\ WF_vars(Writer)
    /\ \A w \in Waiters : WF_vars(Check(w)) /\ WF_vars(Expire(w)) /\ WF_vars(SleeperWakes(w))

-----------------------------------------------------------------------------
(* What should hold. *)

(* Every file a playlist can name exists: a listed segment's, and that of the  *)
(* segment in progress, whatever reaping and Stop remove at that moment.       *)
PlaylistFilesExist ==
    /\ \A s \in ToSet(segments) : s.seq \in disk
    /\ named => nextSeq \in disk

LiveWindow == INSTANCE LiveWindow WITH
                  listed <- [i \in DOMAIN segments |-> segments[i].seq],
                  files <- disk,
                  next <- nextSeq

(* The segmenter is a live window, with Stop in another goroutine.             *)
ImplementsLiveWindow == LiveWindow!Spec

(* Every segment begins with a key frame ("so every .ts begins with an IDR     *)
(* frame and is independently decodable", hls.go:329), also when Stop closes   *)
(* files under the writer.                                                     *)
KeyFirst ==
    /\ cur.first \in {"key", "nothing"}
    /\ \A s \in ToSet(segments) : s.first \in {"key", "nothing"}

\* Consecutive byte ranges from 0 to n.
Tile(ps, n) ==
    \A i \in 1 .. Len(ps) + 1 :
        (IF i <= Len(ps) THEN ps[i].off ELSE n)
            = (IF i = 1 THEN 0 ELSE ps[i - 1].off + ps[i - 1].len)

(* The byte ranges of the parts in progress tile the file up to the current    *)
(* write offset's part: EXT-X-PRELOAD-HINT names the byte where the next one   *)
(* will start.  Finished segments keep such a list, within their file.         *)
PartsTile ==
    ~stopped =>
        /\ named => Tile(parts, cur.poff)
        /\ \A s \in ToSet(segments) :
              \E n \in 0 .. s.bytes : Tile(s.parts, n)

(* No request sleeps on a part that is already recorded in the segment in      *)
(* progress, or on a segment older than the last finished one: no wake-up is   *)
(* lost between the test of WaitForPlaylist and its Wait.                      *)
PartWakesWaiters ==
    \A w \in Waiters :
        waiters[w].at = "parked" =>
            /\ waiters[w].msn >= nextSeq - 1
            /\ ~(named /\ waiters[w].msn = nextSeq /\ waiters[w].part < Len(parts))

(* No request sleeps while what it asks for "has become available"             *)
(* (hls.go:190-191): WaitForPlaylist's own test is false of every parked request.  *)
NoSleepPastAvailable ==
    \A w \in Waiters : waiters[w].at = "parked" => ~Satisfied(waiters[w])

(* The writer never meets a nil file: the only writer to currentFile is the    *)
(* goroutine of Start (hls.go:53).                                             *)
NoPanic == wpc # "panic"

(* Once Stop and the writer are done no segment file lingers (hls.go:261).     *)
StopCleansDir == spc = "done" /\ wpc = "returned" => disk = {}

(* WaitFirstSegment does not block once Start has returned (hls.go:254).       *)
ReadyAfterReturn == wpc = "returned" => ready

(* A finished segment has "a complete partial-segment record" (hls.go:686):    *)
(* its parts cover its bytes.                                                  *)
TailRecorded ==
    LowLatency /\ ~stopped => \A s \in ToSet(segments) : Tile(s.parts, s.bytes)

(* A part is cut "once it has accumulated at least PART-TARGET seconds"        *)
(* (hls.go:376), so it never claims more media than was ever sent.             *)
PartDurationsReal ==
    \A i \in DOMAIN parts : parts[i].dur <= MaxClock

(* A blocking reload is answered, at the latest after its deadline, and who    *)
(* waits for the first segment is let go when the publisher leaves, even if no *)
(* segment was ever opened.                                                    *)
WaitersAnswered ==
    /\ \A w \in Waiters : waiters[w].at = "check" ~> waiters[w].at = "answered"
    /\ dead ~> ready
=============================================================================
