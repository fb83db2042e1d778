--------------------------- MODULE NativeCapture ---------------------------
(***************************************************************************)
(* run_live_native_timing_ab.sh and the two probes it starts: each probe   *)
(* subscribes to the robot's microphone with its own QoS and writes two    *)
(* files, a line per frame to each.  What a probe hands to stdio reaches   *)
(* its file when stdio's buffer fills up, at Flush or when the file is     *)
(* closed, and not at all when the process is killed: until then any       *)
(* prefix may be there, the last line torn.                                *)
(*                                                                         *)
(* One tick of now is one 20 ms period of the source: the frame published  *)
(* in it carries its number as time_frame.                                 *)
(***************************************************************************)
EXTENDS Naturals, Sequences

CONSTANTS
  LastTick,  \* bound on now
  Duration   \* --duration-s, in ticks

VARIABLES
  now,
  runner,    \* where the script is
  pc,        \* where each lane's probe is
  frames,    \* each lane's frames.jsonl
  metadata,  \* each lane's metadata.jsonl
  heard      \* the frames the lane's callback was called with (history)

captureVars == <<now, runner, pc, frames, metadata, heard>>

Lanes == {"reliable", "best_effort"}

\* Lines; the lane stands for its callbacks' time stamps.
Header(l) == [kind |-> "capture_start", lane |-> l, at |-> now]
Row(l, n) == [kind |-> "frame", lane |-> l, at |-> n]
Trailer(l, count, elapsed) ==
  [kind |-> "capture_end", lane |-> l, count |-> count, elapsed |-> elapsed]
Torn == [kind |-> "torn"]

(***************************************************************************)
(* A file: what was handed to stdio, and how many lines surely arrived.    *)
(* Seen is what a reader may find now; Before, whole lines that one may    *)
(* have found at some earlier time.                                        *)
(***************************************************************************)
NoFile == [there |-> FALSE, lines |-> <<>>, safe |-> 0]
NewFile == [NoFile EXCEPT !.there = TRUE]
Written(f, line) == [f EXCEPT !.lines = Append(@, line)]
Flushed(f) == [f EXCEPT !.safe = Len(f.lines)]
Seen(f) ==
  {SubSeq(f.lines, 1, k) : k \in f.safe..Len(f.lines)}
    \cup {Append(SubSeq(f.lines, 1, k), Torn) : k \in f.safe..Len(f.lines) - 1}

Before(f) == {SubSeq(f.lines, 1, k) : k \in 0..Len(f.lines)}

CaptureInit ==
  /\ now = 0
  /\ runner = "idle"
  /\ pc = [l \in Lanes |-> "off"]
  /\ frames = [l \in Lanes |-> NoFile] /\ metadata = [l \in Lanes |-> NoFile]
  /\ heard = [l \in Lanes |-> <<>>]

At(l, place) == pc[l] = place
Goto(l, place) == pc' = [pc EXCEPT ![l] = place]
Ended(l) == pc[l] \in {"done", "failed", "killed"}

\* The source publishes a frame; a subscription delivers it or loses it.
Publish(lost) ==
  /\ now < LastTick
  /\ now' = now + 1
  /\ LET Gets(l) == At(l, "capturing") /\ l \notin lost IN
     /\ frames' = [l \in Lanes |->
                     IF Gets(l) THEN Written(frames[l], Row(l, now')) ELSE frames[l]]
     /\ metadata' = [l \in Lanes |->
                       IF Gets(l) THEN Written(metadata[l], Row(l, now')) ELSE metadata[l]]
     /\ heard' = [l \in Lanes |-> IF Gets(l) THEN Append(heard[l], now') ELSE heard[l]]
  /\ UNCHANGED <<runner, pc>>

\* docker run, the reliable lane first.
StartLane(l) ==
  /\ \/ runner = "idle" /\ l = "reliable" /\ runner' = "half"
     \/ runner = "half" /\ l = "best_effort" /\ runner' = "waiting"
  /\ Goto(l, "opening")
  /\ UNCHANGED <<now, frames, metadata, heard>>

\* Both ExclusiveFiles and the header; a second file that fails removes the first.
OpenFiles(l) ==
  /\ At(l, "opening")
  /\ frames' = [frames EXCEPT ![l] = NewFile]
  /\ metadata' = [metadata EXCEPT ![l] = Written(NewFile, Header(l))]
  /\ Goto(l, "capturing")
  /\ UNCHANGED <<now, runner, heard>>

Started(l) == metadata[l].lines[1].at

\* Faulty variant: the count in the trailer is taken before the last frame.
WriteTrailer_CountsOneShort(l) ==
  /\ At(l, "capturing")
  /\ runner = "stopped" \/ now >= Started(l) + Duration
  /\ metadata' = [metadata EXCEPT
       ![l] = Written(@, Trailer(l, IF heard[l] = <<>> THEN 0 ELSE Len(heard[l]) - 1,
                                 now - Started(l)))]
  /\ Goto(l, "written")
  /\ UNCHANGED <<now, runner, frames, heard>>

\* The loop ends at the deadline, or at once when rclcpp::ok() is false.
WriteTrailer(l) ==
  /\ At(l, "capturing")
  /\ runner = "stopped" \/ now >= Started(l) + Duration
  /\ metadata' = [metadata EXCEPT
                    ![l] = Written(@, Trailer(l, Len(heard[l]), now - Started(l)))]
  /\ Goto(l, "written")
  /\ UNCHANGED <<now, runner, frames, heard>>

FlushFrames(l) ==
  /\ At(l, "written")
  /\ frames' = [frames EXCEPT ![l] = Flushed(@)]
  /\ Goto(l, "frames flushed")
  /\ UNCHANGED <<now, runner, metadata, heard>>

\* The metadata's flush, and then the two Commits, unless nothing was received.
FlushMetadata(l) ==
  /\ At(l, "frames flushed")
  /\ metadata' = [metadata EXCEPT ![l] = Flushed(@)]
  /\ Goto(l, IF heard[l] = <<>> THEN "unlinking metadata" ELSE "done")
  /\ UNCHANGED <<now, runner, frames, heard>>

\* A write or a flush fails: the exception unwinds main.
WriteFails(l) ==
  /\ pc[l] \in {"capturing", "written", "frames flushed"}
  /\ Goto(l, "unlinking metadata")
  /\ UNCHANGED <<now, runner, frames, metadata, heard>>

\* ~ExclusiveFile of what was not committed, in the reverse order.
Unlink(l) ==
  /\ \/ /\ At(l, "unlinking metadata")
        /\ metadata' = [metadata EXCEPT ![l] = NoFile]
        /\ Goto(l, "unlinking frames")
        /\ UNCHANGED frames
     \/ /\ At(l, "unlinking frames")
        /\ frames' = [frames EXCEPT ![l] = NoFile]
        /\ Goto(l, "failed")
        /\ UNCHANGED metadata
  /\ UNCHANGED <<now, runner, heard>>

\* The process is killed; a prefix of what it handed to stdio is left.
Kill(l) ==
  /\ ~At(l, "off") /\ ~Ended(l)
  /\ Goto(l, "killed")
  /\ UNCHANGED <<now, runner, frames, metadata, heard>>

\* A signal, or a command that fails under set -e: cleanup stops both.
Cleanup ==
  /\ runner \in {"half", "waiting"}
  /\ runner' = "stopped"
  /\ UNCHANGED <<now, pc, frames, metadata, heard>>

\* docker wait has returned twice: the exit codes decide.
Finish ==
  /\ runner = "waiting"
  /\ \A l \in Lanes : Ended(l)
  /\ runner' = IF \A l \in Lanes : At(l, "done") THEN "completed" ELSE "failed"
  /\ UNCHANGED <<now, pc, frames, metadata, heard>>

CaptureNext ==
  \/ \E lost \in SUBSET Lanes : Publish(lost)
  \/ \E l \in Lanes :
       \/ StartLane(l) \/ OpenFiles(l) \/ WriteTrailer(l)
       \/ FlushFrames(l) \/ FlushMetadata(l)
       \/ WriteFails(l) \/ Unlink(l) \/ Kill(l)
  \/ Cleanup
  \/ Finish
=============================================================================
