-------------------------- MODULE MCG1VoiceBridge --------------------------
(***************************************************************************)
(* Instances of G1VoiceBridge.  One unit of length stands for half a       *)
(* request, one unit of time for the idle deadline (150 ms); gap and       *)
(* answer deadlines keep their order: idle < gap < timeout.  The           *)
(* resampler runs at 4:3, close to 22.05:16.                               *)
(***************************************************************************)
EXTENDS G1VoiceBridge, TLC

MCPlaybackLimits == [maxChunk |-> 2, target |-> 2, maxBuffer |-> 3, maxGap |-> 1, idle |-> 1]
MCSourceLimits == [maxChunk |-> 2, target |-> 2, maxBuffer |-> 3, maxGap |-> 1, idle |-> 1]

MaxOffset == 3  \* bound: no chunk of the instance begins further into a stream

ChunksOf(rates, lens, discs) ==
  {c \in [sid: Streams, seq: 0..2, off: 0..MaxOffset, len: lens, rate: rates,
          start: BOOLEAN, end: BOOLEAN, disc: discs, wellFormed: {TRUE}] :
     /\ c.seq <= c.off /\ (c.start \/ c.seq > 0)
     /\ c.start => c.off = 0
     /\ c.disc => c.start}

\* Chunks whose form alone makes them refused.
Malformed ==
  [sid: Streams, seq: {0}, off: {0}, len: {1}, rate: {PlayRate},
   start: {TRUE}, end: {FALSE}, disc: {FALSE}, wellFormed: {FALSE}]

DirectChunks == ChunksOf({PlayRate}, {1, 2}, BOOLEAN) \cup Malformed
\* 22.05 kHz streams, and 16 kHz streams that begin in between.
ResampledChunks ==
  ChunksOf({SourceRate}, {1, 2}, BOOLEAN) \cup {c \in ChunksOf({PlayRate}, {1}, BOOLEAN) : c.start /\ c.end}
PlainChunks == ChunksOf({PlayRate}, {1}, {FALSE})

\* Streams are only compared with each other.
StreamSymmetry == Permutations(Streams)
=============================================================================
