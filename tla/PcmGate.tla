------------------------------ MODULE PcmGate ------------------------------
(***************************************************************************)
(* PcmGate: the G1 adapter's continuity guard with its bounded PCM buffer. *)
(* A gate is a record                                                      *)
(*   buf    the samples not yet popped, oldest first; a sample is          *)
(*          <<stream, offset>>, so that a splice of two streams, a gap or  *)
(*          a repetition shows in the buffer;                              *)
(*   age    time units since the last accepted chunk, Never before one     *)
(*          (the code keeps the steady time stamp itself); it stops        *)
(*          growing at MaxAge, beyond every deadline it is compared with;  *)
(*   sid, seq, off    the open stream and the counters it expects next;    *)
(*   ended  END was accepted and the stream waits for its tail to be       *)
(*          popped: unlike StreamGuard, the gate stays on the stream.      *)
(*                                                                         *)
(* The limits of a gate (PcmContract) are the record `k', in samples and   *)
(* time units.  Steady time never runs backwards, so the code's three      *)
(* checks for a clock that does are not modelled.                          *)
(***************************************************************************)
EXTENDS Integers, Sequences

CONSTANTS
  Streams,   \* stream identifiers
  NoStream,  \* Python's None
  MaxAge     \* where a recorded age stops growing

ASSUME GateAssumption == /\ NoStream \notin Streams
                         /\ MaxAge \in Nat

Never == -1

Sample == Streams \X Nat

\* A chunk as one of the gates sees it; `rate' is looked at by the bridge.
Chunk ==
  [sid: Streams, seq: Nat, off: Nat, len: Nat \ {0}, rate: Nat,
   start: BOOLEAN, end: BOOLEAN, disc: BOOLEAN, wellFormed: BOOLEAN]

\* PcmContract.__post_init__: the request target fits in the buffer.
Contract ==
  {k \in [maxChunk: Nat \ {0}, target: Nat \ {0}, maxBuffer: Nat \ {0},
          maxGap: Nat, idle: Nat \ {0}] :
     k.target <= k.maxBuffer /\ k.maxGap < MaxAge /\ k.idle <= MaxAge}

Gate == [buf: Seq(Sample), age: Never..MaxAge, sid: Streams \cup {NoStream},
         seq: Nat, off: Nat, ended: BOOLEAN]

\* __init__ and clear()
ClearGate == [buf |-> <<>>, age |-> Never, sid |-> NoStream,
              seq |-> 0, off |-> 0, ended |-> FALSE]

\* The samples a chunk carries.
Pcm(c) == [i \in 1..c.len |-> <<c.sid, c.off + i - 1>>]

\* Faulty variant: a START leaves the samples of the replaced stream.
GateOpened_KeepsBuffer(g, c) ==
  IF c.start THEN [ClearGate EXCEPT !.sid = c.sid, !.buf = g.buf] ELSE g

\* A START clears the gate and opens the chunk's stream before the comparisons.
GateOpened(g, c) == IF c.start THEN [ClearGate EXCEPT !.sid = c.sid] ELSE g

\* Faulty variant: the buffer takes every chunk.
GateAccepts_NoOverflowCheck(g, c, k) ==
  /\ c.wellFormed
  /\ c.len <= k.maxChunk
  /\ c.disc => c.start
  /\ c.start => c.seq = 0 /\ c.off = 0 /\ (g.sid = NoStream \/ c.disc)
  /\ LET h == GateOpened(g, c)
     IN /\ ~h.ended
        /\ h.sid = c.sid
        /\ h.seq = c.seq
        /\ h.off = c.off
        /\ h.age <= k.maxGap

(***************************************************************************)
(* accept(): the conjunction of every condition that does not reject, and  *)
(* the gate it leaves behind.                                              *)
(***************************************************************************)
GateAccepts(g, c, k) ==
  /\ c.wellFormed
  /\ c.len <= k.maxChunk
  /\ c.disc => c.start
  /\ c.start => c.seq = 0 /\ c.off = 0 /\ (g.sid = NoStream \/ c.disc)
  /\ LET h == GateOpened(g, c)
     IN /\ ~h.ended
        /\ h.sid = c.sid
        /\ h.seq = c.seq
        /\ h.off = c.off
        /\ h.age <= k.maxGap
        /\ Len(h.buf) + c.len <= k.maxBuffer

GateAfter(g, c) ==
  [buf |-> GateOpened(g, c).buf \o Pcm(c), age |-> 0, sid |-> c.sid,
   seq |-> c.seq + 1, off |-> c.off + c.len, ended |-> c.end]

\* discard_buffer(): the samples go, and the stream with them once it ended.
GateDiscarded(g) == IF g.ended THEN ClearGate ELSE [g EXCEPT !.buf = <<>>]

\* Faulty variant: an idle stream that has not ended keeps its samples.
GateReady_NeverIdle(g, k) == Len(g.buf) >= k.target \/ (g.buf # <<>> /\ g.ended)

\* ready(): a full request, the tail of an ended stream, or an idle stream.
GateReady(g, k) ==
  \/ Len(g.buf) >= k.target
  \/ /\ g.buf # <<>>
     /\ g.ended \/ (g.age # Never /\ g.age >= k.idle)

PopCount(g, k) == IF Len(g.buf) <= k.target THEN Len(g.buf) ELSE k.target

\* Faulty variant: the request is copied out but stays in the buffer.
GatePopped_KeepsBuffer(g, k) == g

\* pop_request(): the payload, and the gate it leaves behind.
PopPayload(g, k) == SubSeq(g.buf, 1, PopCount(g, k))

GatePopped(g, k) ==
  IF g.ended /\ PopCount(g, k) = Len(g.buf) THEN ClearGate
  ELSE [g EXCEPT !.buf = SubSeq(g.buf, PopCount(g, k) + 1, Len(g.buf))]

\* One unit of steady time passes between two receptions.
GateAged(g) == [g EXCEPT !.age = IF g.age \in {Never, MaxAge} THEN @ ELSE @ + 1]
=============================================================================
