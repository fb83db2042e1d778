---------------------------- MODULE MCSimBridge ----------------------------
(***************************************************************************)
(* An instance of the simulator's AudioBridge.  Its halves share no state, *)
(* so a behaviour here has the steps of one of them and the shutdown of    *)
(* both: what one half does is not interleaved with what the other does.   *)
(*                                                                         *)
(* The speaker is sent chunks of one or two samples of two streams, in two *)
(* formats, that end at most MaxOffset samples into their stream.          *)
(***************************************************************************)
EXTENDS SimBridge

VARIABLE half

MaxOffset == 4

SpeakerChunks ==
  [chunk: {c \in [sid: Streams, seq: 0..3, off: 0..MaxOffset, len: {1, 2},
                  start: BOOLEAN, end: BOOLEAN, disc: BOOLEAN, wellFormed: BOOLEAN] :
             /\ c.seq <= c.off /\ c.off + c.len <= MaxOffset
             /\ (c.start \/ c.seq > 0)
             /\ ~c.wellFormed => c.start},
   format: Formats]

MCInit ==
  /\ half \in {"microphone", "speaker"}
  /\ BridgeInit
  /\ half = "microphone" => ~enabled

MCNext ==
  /\ UNCHANGED half
  /\ \/ half = "microphone" /\ Serves /\ UNCHANGED speakerVars
     \/ half = "speaker" /\ ServeSpeaker
     \/ half = "speaker" /\ SpeakerCoolDown /\ UNCHANGED vars
     \/ BridgeShutdown

MCSpec ==
  /\ MCInit /\ [][MCNext]_<<half, vars, speakerVars>>
  /\ half = "microphone" => Fairness

-----------------------------------------------------------------------------
\* In the microphone's behaviours mic_raw never goes dark: see SimMic.
MicStaysAlive == half = "microphone" => StaysAlive
=============================================================================
