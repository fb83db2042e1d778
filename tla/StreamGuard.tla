---------------------------- MODULE StreamGuard ----------------------------
(***************************************************************************)
(* The continuity guard of the AudioChunk contract, as the simulator's     *)
(* StreamGuard and the Go2 adapter's AudioStreamGuard implement it.  The   *)
(* two classes differ only in the PCM format they insist on; whether a     *)
(* chunk has that format (version, encoding, identifier, flags known,      *)
(* rate, whole frames, size) is the field `wellFormed' of a chunk.         *)
(*                                                                         *)
(* A guard is a record [sid, seq, off]: the stream being accepted, or      *)
(* NoStream, and the sequence number and sample offset it expects next.    *)
(* `accept' either moves the guard on or rejects the chunk; a rejection    *)
(* always resets the guard, so nothing is accepted again until a START.    *)
(***************************************************************************)
EXTENDS Integers

CONSTANTS
  Streams,   \* stream identifiers
  NoStream   \* Python's None: no stream is open

ASSUME NoStreamAssumption == NoStream \notin Streams

\* An AudioChunk, with the payload reduced to its number of samples.
Chunk ==
  [sid: Streams, seq: Nat, off: Nat, len: Nat \ {0},
   start: BOOLEAN, end: BOOLEAN, disc: BOOLEAN, wellFormed: BOOLEAN]

Guard == [sid: Streams \cup {NoStream}, seq: Nat, off: Nat]

\* reset(): forget the stream.
ResetGuard == [sid |-> NoStream, seq |-> 0, off |-> 0]

\* A START makes the chunk's stream the current one before it is compared.
GuardOpened(g, c) == IF c.start THEN [sid |-> c.sid, seq |-> 0, off |-> 0] ELSE g

(***************************************************************************)
(* accept(): the conjunction of every condition that does not reject.      *)
(***************************************************************************)
GuardAccepts(g, c) ==
  /\ c.wellFormed
  /\ c.disc => c.start
  /\ c.start => c.seq = 0 /\ c.off = 0 /\ (g.sid = NoStream \/ c.disc)
  /\ LET h == GuardOpened(g, c)
     IN /\ h.sid = c.sid
        /\ h.seq = c.seq
        /\ h.off = c.off

\* The guard an accepted chunk leaves behind: END closes the stream.
GuardAfter(g, c) ==
  IF c.end THEN ResetGuard
  ELSE [sid |-> c.sid, seq |-> c.seq + 1, off |-> c.off + c.len]
=============================================================================
