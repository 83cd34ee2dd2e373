---------------------------- MODULE DashSegmenter ----------------------------
(***************************************************************************)
(* One DASH instance (libdash/dash.go): the writer, DASH.Start, gathers     *)
(* video frames and cuts them into fragments on key frames; DASH.Stop is    *)
(* called by App.Delete while it runs; requests read the manifest under mu, *)
(* and the init segment and the fragments from the directory.               *)
(*                                                                          *)
(* A section under mu is one step.  Frames are numbered in the order they   *)
(* are taken; media time is a small clock.                                  *)
(***************************************************************************)
EXTENDS Integers, Sequences, FiniteSets, SequencesExt

CONSTANTS
    TargetDur,      \* targetDur
    WindowSize,     \* windowSize
    Failures,       \* which of "mkdir", "init", "fragment" the disk may fail
    MaxClock,       \* bound on the media clock
    MaxFrames,      \* bound on the frames taken
    MaxHeaders      \* bound on the sequence headers sent

ASSUME DashAssumption ==
    /\ TargetDur \in Nat \ {0} /\ WindowSize \in Nat \ {0}
    /\ Failures \subseteq {"mkdir", "init", "fragment"}
    /\ MaxClock \in Nat /\ MaxFrames \in Nat /\ MaxHeaders \in Nat

VARIABLES
    wpc,        \* where the writer stands
    exiting,    \* it is in Start's deferred function
    tag,        \* the frame it is handling
    clock,      \* timestamp of the newest frame sent
    headers,    \* sequence headers sent
    dead,       \* the broadcast was closed
    init,       \* the header initBytes was built from, 0 for none
    initFile,   \* the header in the init file, 0 for no file
    initWritten,
    samples,    \* currentSamples
    taken,      \* frames taken so far
    keys,       \* those of them that are key frames
    disk,       \* fragments in the directory
    segments,   \* the window of fragments
    nextSeq,
    ready,      \* the ready channel is closed
    spc,        \* where Stop stands
    doomed      \* the fragments Stop copied to remove

writerVars == <<wpc, exiting, tag>>
input == <<clock, headers, dead>>
initVars == <<init, initFile, initWritten>>
frames == <<samples, taken, keys>>
shared == <<segments, nextSeq>>
stopVars == <<spc, doomed>>
vars == <<writerVars, input, initVars, frames, disk, shared, ready, stopVars>>

Times == 0 .. MaxClock
Numbers == 1 .. MaxFrames
Seqs == 0 .. MaxFrames \div 2       \* a fragment has at least two frames

TypeOK ==
    /\ wpc \in {"mkdir", "loop", "read", "header", "written", "flush", "write",
                "record", "clear", "take", "return", "returned"}
    /\ exiting \in BOOLEAN
    /\ tag \in [key : BOOLEAN, dts : Times]
    /\ clock \in Times /\ headers \in 0 .. MaxHeaders /\ dead \in BOOLEAN
    /\ init \in 0 .. MaxHeaders /\ initFile \in 0 .. MaxHeaders
    /\ initWritten \in BOOLEAN
    /\ samples \in Seq([n : Numbers, dts : Times])
    /\ taken \in 0 .. MaxFrames /\ keys \subseteq Numbers
    /\ disk \subseteq Seqs
    /\ segments \in Seq([seq : Seqs, first : Numbers, last : Numbers])
    /\ nextSeq \in Seqs
    /\ ready \in BOOLEAN
    /\ spc \in {"none", "lock", "remove", "unlink", "ready", "done"}
    /\ doomed \subseteq Seqs

Init ==
    /\ wpc = "mkdir"
    /\ exiting = FALSE
    /\ tag = [key |-> FALSE, dts |-> 0]
    /\ clock = 0
    /\ headers = 0
    /\ dead = FALSE
    /\ init = 0
    /\ initFile = 0
    /\ initWritten = FALSE
    /\ samples = <<>>
    /\ taken = 0
    /\ keys = {}
    /\ disk = {}
    /\ segments = <<>>
    /\ nextSeq = 0
    /\ ready = FALSE
    /\ spc = "none"
    /\ doomed = {}

stopped == spc # "none"

-----------------------------------------------------------------------------
(* The writer: DASH.Start. *)

\* MkdirAll; when it fails Start returns before the deferred function is set.
Mkdir ==
    /\ wpc = "mkdir"
    /\ \/ wpc' = "loop"
       \/ "mkdir" \in Failures /\ wpc' = "returned"
    /\ UNCHANGED <<exiting, tag, input, initVars, frames, disk, shared, ready, stopVars>>

\* The top of the loop asks for Stop; on the way out the deferred function runs.
Loop ==
    /\ wpc = "loop"
    /\ IF stopped
       THEN wpc' = "flush" /\ exiting' = TRUE
       ELSE wpc' = "read" /\ UNCHANGED exiting
    /\ UNCHANGED <<tag, input, initVars, frames, disk, shared, ready, stopVars>>

ReadDead ==
    /\ wpc = "read"
    /\ dead
    /\ wpc' = "flush"
    /\ exiting' = TRUE
    /\ UNCHANGED <<tag, input, initVars, frames, disk, shared, ready, stopVars>>

\* A sequence header: initBytes is built from it under mu.
ReadHeader ==
    /\ wpc = "read"
    /\ ~dead
    /\ headers < MaxHeaders
    /\ headers' = headers + 1
    /\ init' = headers + 1
    /\ wpc' = "header"
    /\ UNCHANGED <<exiting, tag, clock, dead, initFile, initWritten, frames, disk,
                   shared, ready, stopVars>>

\* handleSequenceHeader goes on: the init file is written over.
WriteInit ==
    /\ wpc = "header"
    /\ initFile' = init
    /\ wpc' = "written"
    /\ UNCHANGED <<exiting, tag, input, init, initWritten, frames, disk, shared,
                   ready, stopVars>>

\* Mutant of WriteInitFails: the error is only logged.
WriteInitFailsQuietly ==
    /\ wpc = "header"
    /\ "init" \in Failures
    /\ initFile' \in {initFile, 0}
    /\ wpc' = "written"
    /\ UNCHANGED <<exiting, tag, input, init, initWritten, frames, disk, shared,
                   ready, stopVars>>

\* The write fails, before or after it truncated the file; the writer goes on.
WriteInitFails ==
    /\ wpc = "header"
    /\ "init" \in Failures
    /\ initFile' \in {initFile, 0}
    /\ wpc' = "loop"
    /\ UNCHANGED <<exiting, tag, input, init, initWritten, frames, disk, shared,
                   ready, stopVars>>

InitWritten ==
    /\ wpc = "written"
    /\ initWritten' = TRUE
    /\ wpc' = "loop"
    /\ UNCHANGED <<exiting, tag, input, init, initFile, frames, disk, shared,
                   ready, stopVars>>

\* Mutant of AfterFrame: a frame is taken whatever it is.
AfterFrameTakesAny(t) ==
    IF t.key /\ samples # <<>> /\ t.dts - samples[1].dts >= TargetDur
    THEN "flush" ELSE "take"

\* A key frame past the target duration flushes first; no fragment begins with
\* another frame; nothing is taken before the first sequence header.
AfterFrame(t) ==
    CASE t.key /\ samples # <<>> /\ t.dts - samples[1].dts >= TargetDur -> "flush"
      [] ~t.key /\ samples = <<>> -> "loop"
      [] OTHER -> "take"

ReadFrame ==
    /\ wpc = "read"
    /\ ~dead
    /\ taken < MaxFrames
    /\ \E k \in BOOLEAN, t \in {clock, clock + 1} \cap Times :
          /\ clock' = t
          /\ tag' = [key |-> k, dts |-> t]
          /\ wpc' = AfterFrame([key |-> k, dts |-> t])
    /\ UNCHANGED <<exiting, headers, dead, initVars, frames, disk, shared, ready,
                   stopVars>>

\* The frame joins currentSamples, unless there is no init segment yet.
TakeFrame ==
    /\ wpc = "take"
    /\ IF init = 0
       THEN UNCHANGED frames
       ELSE /\ taken' = taken + 1
            /\ keys' = IF tag.key THEN keys \cup {taken + 1} ELSE keys
            /\ samples' = Append(samples, [n |-> taken + 1, dts |-> tag.dts])
    /\ wpc' = "loop"
    /\ UNCHANGED <<exiting, tag, input, initVars, disk, shared, ready, stopVars>>

\* flushCurrent returns to the loop's key frame or to the deferred function.
AfterFlush == IF exiting THEN "return" ELSE "take"

\* flushCurrent begins: a sample alone is dropped.
Flush ==
    /\ wpc = "flush"
    /\ IF Len(samples) < 2
       THEN samples' = <<>> /\ wpc' = AfterFlush
       ELSE wpc' = "write" /\ UNCHANGED samples
    /\ UNCHANGED <<exiting, tag, input, initVars, taken, keys, disk, shared, ready,
                   stopVars>>

WriteFragment ==
    /\ wpc = "write"
    /\ disk' = disk \cup {nextSeq}
    /\ wpc' = "record"
    /\ UNCHANGED <<exiting, tag, input, initVars, frames, shared, ready, stopVars>>

\* Mutant of WriteFragmentFails: the samples are given up.
WriteFragmentDrops ==
    /\ wpc = "write"
    /\ "fragment" \in Failures
    /\ disk' \in {disk, disk \cup {nextSeq}}
    /\ samples' = <<>>
    /\ wpc' = AfterFlush
    /\ UNCHANGED <<exiting, tag, input, initVars, taken, keys, shared, ready, stopVars>>

\* The write fails, perhaps half-way: the samples stay and go into the next try.
WriteFragmentFails ==
    /\ wpc = "write"
    /\ "fragment" \in Failures
    /\ disk' \in {disk, disk \cup {nextSeq}}
    /\ wpc' = AfterFlush
    /\ UNCHANGED <<exiting, tag, input, initVars, frames, shared, ready, stopVars>>

\* Mutant of Window: the newest fragment is the one that leaves.
WindowOldest(s) == IF Len(s) > WindowSize THEN SubSeq(s, 1, WindowSize) ELSE s

\* The fragments that stay in the sliding window.
Window(s) ==
    IF Len(s) > WindowSize THEN SubSeq(s, Len(s) - WindowSize + 1, Len(s)) ELSE s

Numbered(s) == {f.seq : f \in ToSet(s)}

\* The section under mu: the fragment joins the window, old ones leave it with
\* their files.
Record ==
    LET all == Append(segments, [seq |-> nextSeq, first |-> samples[1].n,
                                 last |-> samples[Len(samples)].n])
    IN  /\ wpc = "record"
        /\ segments' = Window(all)
        /\ disk' = disk \ (Numbered(all) \ Numbered(Window(all)))
        /\ nextSeq' = nextSeq + 1
        /\ wpc' = "clear"
        /\ UNCHANGED <<exiting, tag, input, initVars, frames, ready, stopVars>>

\* Mutant of ClearSamples: what was written stays queued.
ClearSamplesKeeps ==
    /\ wpc = "clear"
    /\ ready' = TRUE
    /\ wpc' = AfterFlush
    /\ UNCHANGED <<exiting, tag, input, initVars, frames, disk, shared, stopVars>>

ClearSamples ==
    /\ wpc = "clear"
    /\ samples' = <<>>
    /\ ready' = TRUE
    /\ wpc' = AfterFlush
    /\ UNCHANGED <<exiting, tag, input, initVars, taken, keys, disk, shared, stopVars>>

\* Mutant of Return: the deferred function only flushes.
ReturnQuietly ==
    /\ wpc = "return"
    /\ wpc' = "returned"
    /\ UNCHANGED <<exiting, tag, input, initVars, frames, disk, shared, ready, stopVars>>

\* The deferred function closes ready and Start returns.
Return ==
    /\ wpc = "return"
    /\ ready' = TRUE
    /\ wpc' = "returned"
    /\ UNCHANGED <<exiting, tag, input, initVars, frames, disk, shared, stopVars>>

\* Room.Close: the broadcast is not alive any more.
PublisherGone ==
    /\ ~dead
    /\ dead' = TRUE
    /\ UNCHANGED <<writerVars, clock, headers, initVars, frames, disk, shared, ready,
                   stopVars>>

-----------------------------------------------------------------------------
(* DASH.Stop, in the goroutine of whoever deletes the stream. *)

StopBegin ==
    /\ spc = "none"
    /\ spc' = "lock"
    /\ UNCHANGED <<writerVars, input, initVars, frames, disk, shared, ready, doomed>>

StopTakesSegments ==
    /\ spc = "lock"
    /\ doomed' = Numbered(segments)
    /\ segments' = <<>>
    /\ spc' = "remove"
    /\ UNCHANGED <<writerVars, input, initVars, frames, disk, nextSeq, ready>>

StopRemove ==
    /\ spc = "remove"
    /\ disk' = disk \ doomed
    /\ spc' = "unlink"
    /\ UNCHANGED <<writerVars, input, initVars, frames, shared, ready, doomed>>

\* The init file is removed.
StopUnlink ==
    /\ spc = "unlink"
    /\ initFile' = 0
    /\ spc' = "ready"
    /\ UNCHANGED <<writerVars, input, init, initWritten, frames, disk, shared, ready, doomed>>

StopReady ==
    /\ spc = "ready"
    /\ ready' = TRUE
    /\ spc' = "done"
    /\ UNCHANGED <<writerVars, input, initVars, frames, disk, shared, doomed>>

-----------------------------------------------------------------------------
\* What the writer does without waiting for the publisher.
Writer ==
    \/ Mkdir \/ Loop \/ ReadDead
    \/ WriteInit \/ WriteInitFails \/ InitWritten
    \/ TakeFrame
    \/ Flush \/ WriteFragment \/ WriteFragmentFails \/ Record \/ ClearSamples
    \/ Return

Stop == StopBegin \/ StopTakesSegments \/ StopRemove \/ StopUnlink \/ StopReady

Next == Writer \/ ReadHeader \/ ReadFrame \/ PublisherGone \/ Stop

Spec == Init /\ [][Next]_vars

(* The writer runs on; tags, the end of the stream and Stop are the others'.   *)
FairSpec == Spec /\ WF_vars(Writer)

-----------------------------------------------------------------------------
(* What should hold. *)

LiveWindow == INSTANCE LiveWindow WITH
                  listed <- [i \in DOMAIN segments |-> segments[i].seq],
                  files <- disk,
                  next <- nextSeq

(* The segmenter is a live window, with Stop in another goroutine and writes   *)
(* that fail: the fragments a manifest names are consecutive and have files.   *)
ImplementsLiveWindow == LiveWindow!Spec

(* Every fragment is independently decodable ("the first sample of any segment *)
(* must itself be a keyframe", dash.go:213), and has the two samples that a    *)
(* duration needs (dash.go:441).                                               *)
FragmentsDecodable ==
    \A s \in ToSet(segments) : s.first \in keys /\ s.first < s.last

(* Consecutive fragments of the manifest leave out no frame but key frames     *)
(* that stood alone between two others; what a failed write holds up comes     *)
(* with the next fragment.                                                     *)
NothingLostBetween ==
    \A i \in 1 .. Len(segments) - 1 :
        /\ segments[i].last < segments[i + 1].first
        /\ segments[i].last + 1 .. segments[i + 1].first - 1 \subseteq keys

(* Until Stop has removed it, an instance that answers with a manifest has the   *)
(* init segment that the manifest names, even when its first write failed: then   *)
(* the manifest stays back.  (A stream that sends a second header may lose the    *)
(* file to a failing second write.)                                               *)
ManifestHasInit ==
    headers <= 1 /\ initWritten /\ segments # <<>> /\ spc \notin {"ready", "done"}
        => initFile # 0

(* The same with no regard to Stop.  The code does not keep it: the deferred      *)
(* flush may list a fragment after Stop has removed the init file (dash.go:171).  *)
ManifestAlwaysHasInit ==
    headers <= 1 /\ initWritten /\ segments # <<>> => initFile # 0

(* How much can come so late: once Stop has emptied the window, at most one       *)
(* fragment is listed again, wherever Stop met the writer and whichever writes    *)
(* failed, be it flushed by a key frame or by the deferred function.  Nobody      *)
(* removes its file.                                                              *)
OneLateFragment == spc \notin {"none", "lock"} => Len(segments) <= 1

(* Once the writer is in its loop, whoever waits for the first fragment is let   *)
(* go when the publisher leaves, even if the stream never had a sequence header. *)
DeadUnblocksWaiters == dead /\ wpc \notin {"mkdir", "returned"} ~> ready
=============================================================================
