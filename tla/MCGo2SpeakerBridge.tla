------------------------- MODULE MCGo2SpeakerBridge -------------------------
(***************************************************************************)
(* Instances of Go2SpeakerBridge: two streams, utterances of up to three   *)
(* samples in chunks of one or two, uploaded two WAV units to a block, so  *)
(* that an upload has one or two blocks, the last of them full or not.     *)
(***************************************************************************)
EXTENDS Go2SpeakerBridge

MaxOffset == 3  \* bound: no chunk of the instance begins further into a stream

ChunksOf(lens, discs) ==
  {c \in [sid: Streams, seq: 0..2, off: 0..MaxOffset, len: lens, start: BOOLEAN,
          end: BOOLEAN, disc: discs, wellFormed: {TRUE}] :
     /\ c.seq <= c.off /\ (c.start \/ c.seq > 0)
     /\ c.start => c.off = 0
     /\ c.disc => c.start}

Malformed ==
  [sid: Streams, seq: {0}, off: {0}, len: {1}, start: {TRUE}, end: {FALSE},
   disc: {FALSE}, wellFormed: {FALSE}]

MCChunks == ChunksOf({1, 2}, BOOLEAN) \cup Malformed
=============================================================================
