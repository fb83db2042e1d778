--------------------------- MODULE PcmGateProofs ---------------------------
(***************************************************************************)
(* Lemmas about the operators of PcmGate: what each makes of a gate, and   *)
(* that the buffer stays the unbroken tail of the stream that is open.     *)
(***************************************************************************)
EXTENDS PcmGate, TLAPS, SequenceTheorems

\* The part of Chunk the operators use; the chunks the bridge makes up itself,
\* out of resampled PCM, have it too.
PlainChunk(c) ==
  /\ c.sid \in Streams
  /\ c.seq \in Nat /\ c.off \in Nat /\ c.len \in Nat
  /\ c.start \in BOOLEAN /\ c.end \in BOOLEAN

\* The buffer is the tail, up to offset g.off, of stream g.sid.
IsTail(g) ==
  /\ Len(g.buf) <= g.off
  /\ \A i \in 1..Len(g.buf) : g.buf[i] = <<g.sid, g.off - Len(g.buf) + i - 1>>
  /\ g.sid = NoStream => g.buf = <<>>

\* A gate with nothing in it is a gate, and a tail of no stream.
LEMMA ClearGateIsGate == ClearGate \in Gate /\ IsTail(ClearGate)
<1>1. <<>> \in Seq(Sample) /\ Len(<<>>) = 0
  BY EmptySeq
<1>2. -1 \in Never..MaxAge
  BY GateAssumption DEF Never
<1> QED
  BY <1>1, <1>2 DEF ClearGate, Gate, IsTail, Never

\* The samples of a chunk, as a sequence.
LEMMA PcmIsSeq ==
  ASSUME NEW c, PlainChunk(c)
  PROVE  /\ Pcm(c) \in Seq(Sample)
         /\ Len(Pcm(c)) = c.len
         /\ \A i \in 1..c.len : Pcm(c)[i] = <<c.sid, c.off + i - 1>>
<1>1. \A i \in 1..c.len : c.off + i - 1 \in Nat
  BY DEF PlainChunk
<1>2. Pcm(c) \in [1..c.len -> Sample]
  BY <1>1 DEF Pcm, Sample, PlainChunk
<1>3. Pcm(c) \in Seq(Sample)
  BY <1>2, SeqDef DEF PlainChunk
<1>4. Len(Pcm(c)) = c.len
  BY <1>2, <1>3, LenProperties DEF PlainChunk
<1> QED
  BY <1>3, <1>4 DEF Pcm

\* An accepted chunk finds its gate on the chunk's stream and at its offset.
LEMMA AcceptedContinues ==
  ASSUME NEW g \in Gate, NEW c, NEW k, PlainChunk(c), GateAccepts(g, c, k)
  PROVE  /\ GateOpened(g, c) \in Gate
         /\ GateOpened(g, c).sid = c.sid
         /\ GateOpened(g, c).off = c.off
         /\ Len(GateOpened(g, c).buf) + c.len <= k.maxBuffer
         /\ IsTail(g) => IsTail(GateOpened(g, c))
<1>1. GateOpened(g, c) \in Gate
  BY ClearGateIsGate DEF GateOpened, Gate, PlainChunk, ClearGate
<1>2. IsTail([ClearGate EXCEPT !.sid = c.sid])
  BY ClearGateIsGate DEF IsTail, ClearGate, PlainChunk
<1> QED
  BY <1>1, <1>2 DEF GateAccepts, GateOpened

\* Appending the samples of an accepted chunk keeps the buffer a tail.
LEMMA GateAfterIsGate ==
  ASSUME NEW g \in Gate, NEW c, NEW k, PlainChunk(c), GateAccepts(g, c, k)
  PROVE  /\ GateAfter(g, c) \in Gate
         /\ Len(GateAfter(g, c).buf) <= k.maxBuffer
         /\ IsTail(g) => IsTail(GateAfter(g, c))
<1> DEFINE h == GateOpened(g, c)
           n == Len(h.buf)
           buf == h.buf \o Pcm(c)
<1>1. /\ h \in Gate /\ h.sid = c.sid /\ h.off = c.off
      /\ n + c.len <= k.maxBuffer
      /\ IsTail(g) => IsTail(h)
  BY AcceptedContinues
<1>2. h.buf \in Seq(Sample) /\ n \in Nat
  BY <1>1, LenProperties DEF Gate
<1>3. /\ buf \in Seq(Sample) /\ Len(buf) = n + c.len
      /\ \A i \in 1..(n + c.len) :
           buf[i] = IF i <= n THEN h.buf[i] ELSE Pcm(c)[i - n]
  BY <1>2, PcmIsSeq, ConcatProperties
<1>4. 0 \in Never..MaxAge
  BY GateAssumption DEF Never
<1>5. GateAfter(g, c) \in Gate
  <2>1. c.seq + 1 \in Nat /\ c.off + c.len \in Nat
    BY DEF PlainChunk
  <2>2. c.sid \in Streams \cup {NoStream} /\ c.end \in BOOLEAN
    BY DEF PlainChunk
  <2> HIDE DEF h
  <2>3. h.buf \o Pcm(c) \in Seq(Sample)
    BY <1>3
  <2> QED
    BY <2>1, <2>2, <2>3, <1>4 DEF GateAfter, Gate, h
<1>6. ASSUME IsTail(g)
      PROVE  IsTail(GateAfter(g, c))
  <2>1. \A i \in 1..n : h.buf[i] = <<c.sid, c.off - n + i - 1>>
    BY <1>1, <1>6 DEF IsTail
  <2>2. \A i \in (n + 1)..(n + c.len) : Pcm(c)[i - n] = <<c.sid, c.off + (i - n) - 1>>
    <3>1. \A i \in (n + 1)..(n + c.len) : i - n \in 1..c.len
      BY <1>2 DEF PlainChunk
    <3> QED
      BY <3>1, PcmIsSeq
  <2>3. \A i \in 1..(n + c.len) :
           buf[i] = <<c.sid, (c.off + c.len) - (n + c.len) + i - 1>>
    <3> SUFFICES ASSUME NEW i \in 1..(n + c.len)
                 PROVE  buf[i] = <<c.sid, (c.off + c.len) - (n + c.len) + i - 1>>
      OBVIOUS
    <3>1. (c.off + c.len) - (n + c.len) + i - 1 = c.off - n + i - 1
      BY <1>2 DEF PlainChunk
    <3>2. CASE i <= n
      <4>1. i \in 1..n
        BY <1>2, <3>2 DEF PlainChunk
      <4> QED
        BY <4>1, <3>1, <3>2, <2>1, <1>3
    <3>3. CASE ~(i <= n)
      <4>1. i \in (n + 1)..(n + c.len)
        BY <1>2, <3>3 DEF PlainChunk
      <4>2. c.off + (i - n) - 1 = c.off - n + i - 1
        BY <1>2 DEF PlainChunk
      <4> QED
        BY <4>1, <4>2, <3>1, <3>3, <2>2, <1>3
    <3> QED
      BY <3>2, <3>3
  <2>4. n + c.len <= c.off + c.len
    BY <1>1, <1>2, <1>6 DEF IsTail, PlainChunk
  <2>5. c.sid # NoStream
    BY GateAssumption DEF PlainChunk
  <2> QED
    BY <2>3, <2>4, <2>5, <1>3 DEF IsTail, GateAfter
<1> QED
  BY <1>1, <1>3, <1>5, <1>6 DEF GateAfter

\* Discarding the samples of a gate, as a disabled speaker does.
LEMMA GateDiscardedIsGate ==
  ASSUME NEW g \in Gate
  PROVE  /\ GateDiscarded(g) \in Gate /\ IsTail(GateDiscarded(g))
         /\ GateDiscarded(g).buf = <<>>
<1>1. <<>> \in Seq(Sample) /\ Len(<<>>) = 0
  BY EmptySeq
<1> DEFINE h == [g EXCEPT !.buf = <<>>]
<1>2. h \in Gate /\ h.buf = <<>>
  BY <1>1 DEF Gate
<1>3. IsTail(h)
  <2>1. h.off \in Nat
    BY <1>2 DEF Gate
  <2> HIDE DEF h
  <2>2. Len(h.buf) = 0
    BY <1>1, <1>2
  <2>3. Len(h.buf) <= h.off /\ 1..Len(h.buf) = {}
    BY <2>1, <2>2
  <2> QED
    BY <1>2, <2>3 DEF IsTail
<1> QED
  BY <1>2, <1>3, ClearGateIsGate DEF GateDiscarded, ClearGate

\* Popping a request: what is left is a shorter tail.
LEMMA GatePoppedIsGate ==
  ASSUME NEW g \in Gate, NEW k \in Contract
  PROVE  /\ GatePopped(g, k) \in Gate
         /\ Len(GatePopped(g, k).buf) <= Len(g.buf)
         /\ IsTail(g) => IsTail(GatePopped(g, k))
         /\ PopPayload(g, k) \in Seq(Sample)
<1> DEFINE n == Len(g.buf)
           p == PopCount(g, k)
           rest == SubSeq(g.buf, p + 1, n)
<1>1. g.buf \in Seq(Sample) /\ n \in Nat /\ \A i \in 1..n : g.buf[i] \in Sample
  BY LenProperties, ElementOfSeq DEF Gate
<1>2. p \in 0..n
  BY <1>1 DEF PopCount, Contract
<1>3. /\ rest \in Seq(Sample) /\ Len(rest) = n - p
      /\ \A i \in 1..(n - p) : rest[i] = g.buf[p + i]
  <2>1. \A i \in (p + 1)..n : g.buf[i] \in Sample
    BY <1>1, <1>2
  <2>2. /\ rest \in Seq(Sample)
        /\ Len(rest) = IF p + 1 <= n THEN n - (p + 1) + 1 ELSE 0
        /\ \A i \in 1 .. n - (p + 1) + 1 : rest[i] = g.buf[(p + 1) + i - 1]
    <3>1. p + 1 \in Int /\ n \in Int
      BY <1>1, <1>2
    <3> QED
      BY <2>1, <3>1, SubSeqProperties
  <2> QED
    BY <2>2, <1>1, <1>2
<1>4. PopPayload(g, k) \in Seq(Sample)
  <2>1. \A i \in 1..p : g.buf[i] \in Sample
    BY <1>1, <1>2
  <2> QED
    BY <2>1, <1>2, SubSeqProperties DEF PopPayload
<1>5. [g EXCEPT !.buf = rest] \in Gate
  BY <1>3 DEF Gate
<1>6. ASSUME IsTail(g)
      PROVE  IsTail([g EXCEPT !.buf = rest])
  <2>1. g.off \in Nat
    BY DEF Gate
  <2>2. \A i \in 1..(n - p) : rest[i] = <<g.sid, g.off - (n - p) + i - 1>>
    <3> SUFFICES ASSUME NEW i \in 1..(n - p)
                 PROVE  rest[i] = <<g.sid, g.off - (n - p) + i - 1>>
      OBVIOUS
    <3>1. p + i \in 1..n
      BY <1>1, <1>2
    <3>2. g.buf[p + i] = <<g.sid, g.off - n + (p + i) - 1>>
      BY <3>1, <1>6 DEF IsTail
    <3>3. g.off - n + (p + i) - 1 = g.off - (n - p) + i - 1
      BY <1>1, <1>2, <2>1
    <3> QED
      BY <3>2, <3>3, <1>3
  <2>3. n - p <= g.off
    BY <1>1, <1>2, <1>6, <2>1 DEF IsTail
  <2>4. g.sid = NoStream => rest = <<>>
    <3>1. g.sid = NoStream => n = 0
      BY <1>6, EmptySeq DEF IsTail
    <3>2. Len(rest) = 0 => rest = <<>>
      BY <1>3, EmptySeq
    <3> QED
      BY <3>1, <3>2, <1>2, <1>3
  <2> QED
    BY <2>2, <2>3, <2>4, <1>3, <1>5 DEF IsTail, Gate
<1>7. Len(ClearGate.buf) <= n
  BY <1>1, EmptySeq DEF ClearGate
<1>8. Len([g EXCEPT !.buf = rest].buf) <= n
  BY <1>1, <1>2, <1>3 DEF Gate
<1> QED
  BY <1>4, <1>5, <1>6, <1>7, <1>8, ClearGateIsGate DEF GatePopped

\* Time changes nothing but the age of a gate.
LEMMA GateAgedIsGate ==
  ASSUME NEW g \in Gate
  PROVE  GateAged(g) \in Gate /\ GateAged(g).buf = g.buf /\ (IsTail(g) => IsTail(GateAged(g)))
<1>1. (IF g.age \in {Never, MaxAge} THEN g.age ELSE g.age + 1) \in Never..MaxAge
  BY GateAssumption DEF Gate, Never
<1>2. GateAged(g) \in Gate
  BY <1>1 DEF Gate, GateAged
<1> QED
  BY <1>2 DEF Gate, GateAged, IsTail
=============================================================================
