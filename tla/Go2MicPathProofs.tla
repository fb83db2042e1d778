-------------------------- MODULE Go2MicPathProofs --------------------------
(***************************************************************************)
(* Whatever the number of faults, the depths of the queues and the length  *)
(* of a chunk: what the application hears of the Go2's microphone are      *)
(* unbroken heads of streams it never returns to (theorem HeadsHeard).     *)
(*                                                                         *)
(* Of the chunks on the wire the proof needs only an order, WireOrdered:   *)
(* streams do not go backwards and the first chunk of one has no chunk of  *)
(* the same stream before it.  Losses, overruns and restarts keep it,      *)
(* because they only take chunks away.  The guard accepts a first chunk    *)
(* at any time, and it is this order that makes it one of a later stream.  *)
(***************************************************************************)
EXTENDS Go2MicPath, TLAPS, SequenceTheorems

\* States of the bridge, and its chunks.
Core ==
  [stream: Nat \ {0}, seq: Nat, pending: 0..(FramesPerChunk - 1),
   started: BOOLEAN, disc: BOOLEAN, receiving: BOOLEAN]

MicChunk ==
  [sid: Nat \ {0}, seq: Nat, off: Nat, len: {1},
   start: BOOLEAN, end: {FALSE}, disc: BOOLEAN, wellFormed: {TRUE}]

TypeInv ==
  /\ core \in Core
  /\ wire \in Seq(MicChunk) /\ queue \in Seq(MicChunk)
  /\ heard \in [sid: Nat, seq: Nat]

\* The last chunk the gateway took over, wherever it is now.
Latest == IF queue = <<>> THEN heard ELSE queue[Len(queue)]

\* A chunk that may come after one of stream s.
ComesAfter(c, s) == s <= c.sid /\ (c.start => s < c.sid)

\* A stream whose chunks may come before those a bridge in state k makes next.
Precedes(s, k) == s <= k.stream /\ (~k.started => s < k.stream)

WireOrdered ==
  /\ \A i, j \in 1..Len(wire) : i < j => ComesAfter(wire[j], wire[i].sid)
  /\ \A j \in 1..Len(wire) : ComesAfter(wire[j], Latest.sid) /\ Precedes(wire[j].sid, core)
  /\ Precedes(Latest.sid, core)

\* A stream is numbered from 0.
StartsAtZero ==
  /\ ~core.started => core.seq = 0
  /\ \A j \in 1..Len(wire) : wire[j].start => wire[j].seq = 0

\* An open guard expects the continuation of the latest chunk.
GuardContinues ==
  guard.sid # NoStream => guard.sid = Latest.sid /\ guard.seq = Next1(Latest.seq)

\* What may be heard after a.
Continues(b, a) ==
  \/ b.sid > a.sid /\ b.seq = 0
  \/ b.sid = a.sid /\ b.seq = Next1(a.seq)

\* What waits in the gateway is heard as it should be.
QueueContinues ==
  /\ \A i \in 1..Len(queue) : Continues(queue[i], IF i = 1 THEN heard ELSE queue[i - 1])
  /\ \A i \in 1..Len(queue) : heard.sid <= queue[i].sid
  /\ \A i, j \in 1..Len(queue) : i <= j => queue[i].sid <= queue[j].sid

Inv == TypeInv /\ WireOrdered /\ StartsAtZero /\ GuardContinues /\ QueueContinues

\* Streams have numbers.
LEMMA SidsAreNat ==
  ASSUME TypeInv
  PROVE  Latest.sid \in Nat /\ \A j \in 1..Len(wire) : wire[j] \in MicChunk /\ wire[j].sid \in Nat
<1>1. wire \in Seq(MicChunk) /\ queue \in Seq(MicChunk) /\ heard \in [sid: Nat, seq: Nat]
  BY DEF TypeInv
<1>2. \A c \in MicChunk : c.sid \in Nat
  BY DEF MicChunk
<1>3. \A j \in 1..Len(wire) : wire[j] \in MicChunk
  BY <1>1
<1>4. Latest.sid \in Nat
  <2>1. CASE queue = <<>>
    BY <1>1, <2>1 DEF Latest
  <2>2. CASE queue # <<>>
    <3>1. Latest = queue[Len(queue)] /\ Latest \in MicChunk
      BY <1>1, <2>2 DEF Latest
    <3> QED
      BY <1>2, <3>1
  <2> QED
    BY <2>1, <2>2
<1> QED
  BY <1>2, <1>3, <1>4

\* Sequence numbers stay numbers.
LEMMA NextIsNat == \A n \in Nat : Next1(n) \in Nat
BY MicPathAssumption DEF Next1

-----------------------------------------------------------------------------
(***************************************************************************)
(* The bridge                                                              *)
(***************************************************************************)

\* A frame is counted, or it is the last of a chunk.
LEMMA ExtendedCore ==
  ASSUME NEW k \in Core, NEW e, e = Extended(k)
  PROVE  /\ e \in Core /\ e.stream = k.stream
         /\ k.pending + 1 < FramesPerChunk => e.started = k.started /\ e.seq = k.seq
         /\ ~(k.pending + 1 < FramesPerChunk) => e.started
<1>1. /\ k.stream \in Nat \ {0} /\ k.seq \in Nat /\ k.pending \in 0..(FramesPerChunk - 1)
      /\ k.started \in BOOLEAN /\ k.disc \in BOOLEAN /\ k.receiving \in BOOLEAN
      /\ k = [stream |-> k.stream, seq |-> k.seq, pending |-> k.pending, started |-> k.started,
              disc |-> k.disc, receiving |-> k.receiving]
  BY DEF Core
<1>2. Next1(k.seq) \in Nat
  BY <1>1, NextIsNat
<1>3. CASE k.pending + 1 < FramesPerChunk
  <2>1. e = [stream |-> k.stream, seq |-> k.seq, pending |-> k.pending + 1, started |-> k.started,
             disc |-> k.disc, receiving |-> TRUE]
    BY <1>1, <1>3 DEF Extended
  <2>2. k.pending + 1 \in 0..(FramesPerChunk - 1)
    BY <1>1, <1>3, MicPathAssumption
  <2> QED
    BY <1>1, <1>3, <2>1, <2>2 DEF Core
<1>4. CASE ~(k.pending + 1 < FramesPerChunk)
  <2>1. e = [stream |-> k.stream, seq |-> Next1(k.seq), pending |-> 0, started |-> TRUE,
             disc |-> FALSE, receiving |-> TRUE]
    BY <1>1, <1>4 DEF Extended
  <2>2. 0 \in 0..(FramesPerChunk - 1)
    BY MicPathAssumption
  <2>3. e \in Core
    BY <1>1, <1>2, <2>1, <2>2 DEF Core
  <2>4. e.stream = k.stream /\ e.started
    BY <2>1
  <2> QED
    BY <1>4, <2>3, <2>4
<1> QED
  BY <1>3, <1>4

\* A bridge that sends a frame, with or without a chunk it completes; k is the
\* state it is in then, after a reset or without one.
LEMMA FrameInv ==
  ASSUME Inv, NEW k \in Core, core' = Extended(k), Publish(k),
         ~k.started => k.seq = 0,
         \A s \in Nat : Precedes(s, core) => Precedes(s, k),
         UNCHANGED <<guard, queue, heard>>
  PROVE  Inv'
<1> USE MicPathAssumption
<1>1. /\ wire \in Seq(MicChunk) /\ queue \in Seq(MicChunk) /\ Latest' = Latest
      /\ heard \in [sid: Nat, seq: Nat]
  BY DEF Inv, TypeInv, Latest
<1>2. Latest.sid \in Nat /\ \A j \in 1..Len(wire) : wire[j].sid \in Nat
  BY SidsAreNat DEF Inv
<1>3. /\ Precedes(Latest.sid, k)
      /\ \A j \in 1..Len(wire) : Precedes(wire[j].sid, k)
  BY <1>2 DEF Inv, WireOrdered
<1>4. GuardContinues' /\ QueueContinues'
  BY <1>1 DEF Inv, GuardContinues, QueueContinues, Continues
<1>5. CASE k.pending + 1 < FramesPerChunk
  <2>1. /\ core' \in Core /\ core'.stream = k.stream /\ core'.started = k.started
        /\ core'.seq = k.seq /\ wire' = wire
    BY <1>5, ExtendedCore DEF Publish
  <2>2. \A s : Precedes(s, k) => Precedes(s, core')
    BY <2>1 DEF Precedes
  <2>3. WireOrdered'
    BY <1>1, <1>3, <2>1, <2>2 DEF Inv, WireOrdered
  <2>4. TypeInv' /\ StartsAtZero'
    BY <1>1, <2>1 DEF Inv, TypeInv, StartsAtZero
  <2> QED
    BY <1>4, <2>3, <2>4 DEF Inv
<1>6. CASE ~(k.pending + 1 < FramesPerChunk)
  <2> DEFINE c == ChunkOf(k)
  <2>1. /\ core'.stream = k.stream /\ core'.started = TRUE /\ core' \in Core
    BY <1>6, ExtendedCore DEF Core
  <2>2. /\ c \in MicChunk /\ c.sid = k.stream /\ c.start = ~k.started /\ c.seq = k.seq
    BY DEF ChunkOf, Core, MicChunk
  <2> HIDE DEF c
  <2>3. \A s \in Nat : Precedes(s, k) => ComesAfter(c, s) /\ Precedes(s, core')
    BY <2>1, <2>2 DEF Precedes, ComesAfter
  <2>4. Precedes(c.sid, core')
    BY <2>1, <2>2 DEF Precedes, Core
  <2>5. PICK w \in {wire, Tail(wire)} :
          /\ wire' = Append(w, c) /\ w \in Seq(MicChunk)
          /\ \E d \in {0, 1} : \A j \in 1..Len(w) : j + d \in 1..Len(wire) /\ w[j] = wire[j + d]
    <3>1. CASE Len(wire) < WireLen
      BY <1>1, <1>6, <3>1 DEF Publish, c
    <3>2. CASE ~(Len(wire) < WireLen)
      <4>1. wire' = Append(Tail(wire), c) /\ wire # <<>>
        BY <1>1, <1>6, <3>2 DEF Publish, c
      <4>2. /\ Tail(wire) \in Seq(MicChunk)
            /\ \A j \in 1..Len(Tail(wire)) : j + 1 \in 1..Len(wire) /\ Tail(wire)[j] = wire[j + 1]
        BY <1>1, <4>1
      <4> QED
        BY <4>1, <4>2
    <3> QED
      BY <3>1, <3>2
  <2>6. /\ wire' \in Seq(MicChunk) /\ Len(wire') = Len(w) + 1 /\ Len(w) \in Nat
        /\ wire'[Len(w) + 1] = c /\ \A j \in 1..Len(w) : wire'[j] = w[j]
    BY <2>2, <2>5
  <2>7. /\ \A i, j \in 1..Len(w) : i < j => ComesAfter(w[j], w[i].sid)
        /\ \A j \in 1..Len(w) : /\ ComesAfter(w[j], Latest.sid) /\ Precedes(w[j].sid, k)
                                /\ w[j].sid \in Nat /\ (w[j].start => w[j].seq = 0)
    <3>1. PICK d \in {0, 1} : \A j \in 1..Len(w) : j + d \in 1..Len(wire) /\ w[j] = wire[j + d]
      BY <2>5
    <3>2. \A i, j \in 1..Len(w) : i < j => i + d < j + d
      BY <2>5
    <3> QED
      BY <1>2, <1>3, <3>1, <3>2 DEF Inv, WireOrdered, StartsAtZero
  <2>8. ASSUME NEW i \in 1..Len(wire'), NEW j \in 1..Len(wire'), i < j
        PROVE  ComesAfter(wire'[j], wire'[i].sid)
    <3>1. i \in 1..Len(w) /\ wire'[i] = w[i]
      BY <2>6, <2>8
    <3>2. CASE j = Len(w) + 1
      BY <2>3, <2>6, <2>7, <3>1, <3>2
    <3>3. CASE j # Len(w) + 1
      BY <2>6, <2>7, <2>8, <3>1, <3>3
    <3> QED
      BY <3>2, <3>3
  <2>9. ASSUME NEW j \in 1..Len(wire')
        PROVE  /\ ComesAfter(wire'[j], Latest.sid) /\ Precedes(wire'[j].sid, core')
               /\ wire'[j].start => wire'[j].seq = 0
    <3>1. CASE j = Len(w) + 1
      BY <1>2, <1>3, <2>2, <2>3, <2>4, <2>6, <3>1
    <3>2. CASE j # Len(w) + 1
      BY <2>3, <2>6, <2>7, <3>2
    <3> QED
      BY <3>1, <3>2
  <2>10. WireOrdered'
    BY <1>1, <1>2, <1>3, <2>3, <2>8, <2>9 DEF WireOrdered
  <2>11. TypeInv' /\ StartsAtZero'
    BY <1>1, <2>1, <2>6, <2>9 DEF TypeInv, StartsAtZero
  <2> QED
    BY <1>4, <2>10, <2>11 DEF Inv
<1> QED
  BY <1>5, <1>6

\* A reset bridge is in a later stream.
LEMMA ResetCore ==
  ASSUME Inv, NEW m \in Nat, m > core.stream, NEW d \in BOOLEAN, NEW k, k = Reset(m, d)
  PROVE  /\ k \in Core /\ k.seq = 0 /\ ~k.started
         /\ \A s \in Nat : Precedes(s, core) => Precedes(s, k)
BY MicPathAssumption DEF Inv, TypeInv, Core, Reset, Precedes

\* A bridge that is reset and sends nothing.
LEMMA ResetInv ==
  ASSUME Inv, NEW m \in Nat, m > core.stream, NEW d \in BOOLEAN, core' = Reset(m, d),
         UNCHANGED <<wire, guard, queue, heard>>
  PROVE  Inv'
<1>1. /\ core' \in Core /\ core'.seq = 0 /\ ~core'.started
      /\ \A s \in Nat : Precedes(s, core) => Precedes(s, core')
  BY ResetCore
<1>2. /\ wire \in Seq(MicChunk) /\ queue \in Seq(MicChunk) /\ Latest' = Latest
      /\ heard \in [sid: Nat, seq: Nat]
  BY DEF Inv, TypeInv, Latest
<1>3. Latest.sid \in Nat /\ \A j \in 1..Len(wire) : wire[j].sid \in Nat
  BY SidsAreNat DEF Inv
<1>4. WireOrdered'
  BY <1>1, <1>2, <1>3 DEF Inv, WireOrdered
<1>5. TypeInv' /\ StartsAtZero'
  BY <1>1, <1>2 DEF Inv, TypeInv, StartsAtZero
<1>6. GuardContinues' /\ QueueContinues'
  BY <1>2 DEF Inv, GuardContinues, QueueContinues, Continues
<1> QED
  BY <1>4, <1>5, <1>6 DEF Inv

-----------------------------------------------------------------------------
(***************************************************************************)
(* The topic and the gateway                                               *)
(***************************************************************************)

\* Taking chunks off the wire keeps the order of the others.
LEMMA WireShrinks ==
  ASSUME Inv, wire' \in Seq(MicChunk), core' = core,
         NEW f \in [1..Len(wire') -> 1..Len(wire)],
         \A i, j \in 1..Len(wire') : i < j => f[i] < f[j],
         \A j \in 1..Len(wire') : wire'[j] = wire[f[j]]
  PROVE  /\ \A i, j \in 1..Len(wire') : i < j => ComesAfter(wire'[j], wire'[i].sid)
         /\ \A j \in 1..Len(wire') : /\ ComesAfter(wire'[j], Latest.sid)
                                     /\ Precedes(wire'[j].sid, core')
         /\ StartsAtZero'
BY DEF Inv, WireOrdered, StartsAtZero

\* The same if the chunks taken off come first.
LEMMA WireTail ==
  ASSUME Inv, wire # <<>>, wire' = Tail(wire), core' = core
  PROVE  /\ wire' \in Seq(MicChunk)
         /\ \A j \in 1..Len(wire') : ComesAfter(wire'[j], Head(wire).sid)
         /\ \A i, j \in 1..Len(wire') : i < j => ComesAfter(wire'[j], wire'[i].sid)
         /\ \A j \in 1..Len(wire') : /\ ComesAfter(wire'[j], Latest.sid)
                                     /\ Precedes(wire'[j].sid, core')
         /\ StartsAtZero'
<1>1. wire \in Seq(MicChunk)
  BY DEF Inv, TypeInv
<1>2. /\ wire' \in Seq(MicChunk) /\ Len(wire) \in Nat \ {0} /\ Len(wire') = Len(wire) - 1
      /\ Head(wire) = wire[1] /\ \A j \in 1..Len(wire') : wire'[j] = wire[j + 1]
  BY <1>1
<1> DEFINE f == [j \in 1..Len(wire') |-> j + 1]
<1>3. /\ f \in [1..Len(wire') -> 1..Len(wire)]
      /\ \A j \in 1..Len(wire') : f[j] = j + 1
  BY <1>2
<1> HIDE DEF f
<1>4. /\ \A i, j \in 1..Len(wire') : i < j => f[i] < f[j]
      /\ \A j \in 1..Len(wire') : wire'[j] = wire[f[j]]
  BY <1>2, <1>3
<1>5. \A j \in 1..Len(wire') : ComesAfter(wire'[j], Head(wire).sid)
  BY <1>2 DEF Inv, WireOrdered
<1> QED
  BY <1>2, <1>3, <1>4, <1>5, WireShrinks

\* Losing a chunk anywhere.
LEMMA LoseChunkInv ==
  ASSUME Inv, LoseChunk
  PROVE  Inv'
<1>1. wire \in Seq(MicChunk) /\ Len(wire) \in Nat /\ UNCHANGED <<core, guard, queue, heard>>
  BY DEF LoseChunk, Inv, TypeInv
<1>2. PICK i \in 1..Len(wire) : wire' = SubSeq(wire, 1, i - 1) \o SubSeq(wire, i + 1, Len(wire))
  BY DEF LoseChunk
<1> DEFINE before == SubSeq(wire, 1, i - 1)
           behind == SubSeq(wire, i + 1, Len(wire))
<1>3. /\ before \in Seq(MicChunk) /\ Len(before) = i - 1
      /\ \A j \in 1..(i - 1) : before[j] = wire[j]
  BY <1>1, <1>2
<1>4. /\ behind \in Seq(MicChunk) /\ Len(behind) = Len(wire) - i
      /\ \A j \in 1..(Len(wire) - i) : behind[j] = wire[j + i]
  BY <1>1, <1>2
<1>5. wire' = before \o behind
  BY <1>2
<1> HIDE DEF before, behind
<1>6. /\ wire' \in Seq(MicChunk) /\ Len(wire') = Len(wire) - 1
      /\ \A j \in 1..Len(wire') :
           wire'[j] = IF j <= i - 1 THEN before[j] ELSE behind[j - (i - 1)]
  <2>1. /\ wire' \in Seq(MicChunk) /\ Len(wire') = Len(before) + Len(behind)
        /\ \A j \in 1..(Len(before) + Len(behind)) :
             wire'[j] = IF j <= Len(before) THEN before[j] ELSE behind[j - Len(before)]
    BY <1>3, <1>4, <1>5, ConcatProperties
  <2>2. Len(before) + Len(behind) = Len(wire) - 1
    BY <1>1, <1>3, <1>4
  <2> QED
    BY <1>3, <2>1, <2>2
<1> DEFINE f == [j \in 1..Len(wire') |-> IF j < i THEN j ELSE j + 1]
<1>7. /\ f \in [1..Len(wire') -> 1..Len(wire)]
      /\ \A j \in 1..Len(wire') : f[j] = IF j < i THEN j ELSE j + 1
  BY <1>1, <1>6
<1> HIDE DEF f
<1>8. \A k, j \in 1..Len(wire') : k < j => f[k] < f[j]
  BY <1>1, <1>6, <1>7
<1>9. ASSUME NEW j \in 1..Len(wire')
      PROVE  wire'[j] = wire[f[j]]
  <2>1. CASE j < i
    <3>1. j <= i - 1 /\ j \in 1..(i - 1)
      BY <1>1, <1>6, <2>1
    <3> QED
      BY <1>3, <1>6, <1>7, <2>1, <3>1
  <2>2. CASE ~(j < i)
    <3>1. ~(j <= i - 1) /\ j - (i - 1) \in 1..(Len(wire) - i) /\ (j - (i - 1)) + i = j + 1
      BY <1>1, <1>6, <2>2
    <3> QED
      BY <1>4, <1>6, <1>7, <2>2, <3>1
  <2> QED
    BY <2>1, <2>2
<1>10. /\ \A k, j \in 1..Len(wire') : k < j => ComesAfter(wire'[j], wire'[k].sid)
       /\ \A j \in 1..Len(wire') : ComesAfter(wire'[j], Latest.sid) /\ Precedes(wire'[j].sid, core')
       /\ StartsAtZero'
  BY <1>1, <1>6, <1>7, <1>8, <1>9, WireShrinks
<1>11. Latest' = Latest
  BY <1>1 DEF Latest
<1>12. TypeInv' /\ WireOrdered' /\ GuardContinues' /\ QueueContinues'
  BY <1>1, <1>6, <1>10, <1>11
  DEF Inv, TypeInv, WireOrdered, GuardContinues, QueueContinues, Continues
<1> QED
  BY <1>10, <1>12 DEF Inv

\* What is heard last is not of a later stream than what was taken over last.
LEMMA HeardFirst == Inv => heard.sid <= Latest.sid
<1> SUFFICES ASSUME Inv PROVE heard.sid <= Latest.sid
  OBVIOUS
<1>1. queue \in Seq(MicChunk) /\ heard.sid \in Nat
  BY DEF Inv, TypeInv
<1>2. CASE queue = <<>>
  BY <1>1, <1>2 DEF Latest
<1>3. CASE queue # <<>>
  <2>1. Len(queue) \in 1..Len(queue)
    BY <1>1, <1>3
  <2> QED
    BY <1>3, <2>1 DEF Latest, Inv, QueueContinues
<1> QED
  BY <1>2, <1>3

\* The guard accepts only what may be heard after the latest chunk.
LEMMA AcceptedContinues ==
  ASSUME Inv, wire # <<>>, NEW c, c = Head(wire), Accepts(c)
  PROVE  /\ c \in MicChunk /\ Continues(c, Latest) /\ ComesAfter(c, Latest.sid)
         /\ Precedes(c.sid, core)
<1>1. wire \in Seq(MicChunk)
  BY DEF Inv, TypeInv
<1>2. 1 \in 1..Len(wire) /\ c = wire[1] /\ c \in MicChunk
  BY <1>1
<1>3. ComesAfter(c, Latest.sid) /\ Precedes(c.sid, core) /\ (c.start => c.seq = 0)
  BY <1>2 DEF Inv, WireOrdered, StartsAtZero
<1>4. CASE c.start
  BY <1>2, <1>3, <1>4 DEF ComesAfter, Continues
<1>5. CASE ~c.start
  <2>1. guard.sid = c.sid /\ guard.seq = c.seq
    BY <1>5 DEF Accepts, Contract!GuardAccepts, Contract!GuardOpened
  <2>2. guard.sid # NoStream
    BY <1>2, <2>1 DEF MicChunk, NoStream
  <2> QED
    BY <1>2, <1>3, <2>1, <2>2 DEF Inv, GuardContinues, Continues
<1> QED
  BY <1>4, <1>5

\* A chunk the gateway takes over.
LEMMA TakeOverInv ==
  ASSUME Inv, wire # <<>>, wire' = Tail(wire), NEW c, c = Head(wire), Accepts(c),
         guard' = Moved(c), queue' = Append(queue, c), UNCHANGED <<core, heard>>
  PROVE  Inv'
<1>1. /\ c \in MicChunk /\ Continues(c, Latest) /\ ComesAfter(c, Latest.sid)
      /\ Precedes(c.sid, core)
  BY AcceptedContinues
<1>2. /\ queue \in Seq(MicChunk) /\ Len(queue) \in Nat /\ core \in Core
      /\ heard \in [sid: Nat, seq: Nat]
  BY DEF Inv, TypeInv
<1>3. /\ queue' \in Seq(MicChunk) /\ Len(queue') = Len(queue) + 1 /\ queue' # <<>>
      /\ queue'[Len(queue')] = c /\ \A i \in 1..Len(queue) : queue'[i] = queue[i]
  BY <1>1, <1>2
<1>4. Latest' = c
  BY <1>3 DEF Latest
<1>5. GuardContinues'
  <2>1. guard' = [sid |-> c.sid, seq |-> (c.seq + 1) % SeqMod, off |-> (c.off + c.len) % SeqMod]
    BY <1>1 DEF Moved, Contract!GuardAfter, MicChunk
  <2> QED
    BY <1>4, <2>1 DEF GuardContinues, Next1
<1>6. QueueContinues'
  <2>1. heard.sid <= Latest.sid /\ Latest.sid <= c.sid /\ Latest.sid \in Nat /\ c.sid \in Nat
        /\ heard.sid \in Nat
    BY <1>1, <1>2, HeardFirst, SidsAreNat DEF ComesAfter, MicChunk, Inv
  <2>2. \A i \in 1..Len(queue) : queue[i].sid \in Nat /\ queue[i].sid <= Latest.sid
    <3>1. ASSUME NEW i \in 1..Len(queue)
          PROVE  queue[i].sid \in Nat /\ queue[i].sid <= Latest.sid
      <4>1. queue[i] \in MicChunk /\ queue # <<>> /\ Len(queue) \in 1..Len(queue)
        BY <1>2, <3>1
      <4>2. Latest = queue[Len(queue)] /\ i <= Len(queue)
        BY <4>1 DEF Latest
      <4> QED
        BY <4>1, <4>2 DEF Inv, QueueContinues, MicChunk
    <3> QED
      BY <3>1
  <2>3. ASSUME NEW i \in 1..Len(queue')
        PROVE  Continues(queue'[i], IF i = 1 THEN heard ELSE queue'[i - 1])
    <3>1. CASE i = Len(queue')
      <4>1. (IF i = 1 THEN heard ELSE queue'[i - 1]) = Latest
        <5>1. CASE queue = <<>>
          BY <1>2, <1>3, <3>1, <5>1 DEF Latest
        <5>2. CASE queue # <<>>
          BY <1>2, <1>3, <3>1, <5>2 DEF Latest
        <5> QED
          BY <5>1, <5>2
      <4> QED
        BY <1>1, <1>3, <3>1, <4>1
    <3>2. CASE i # Len(queue')
      <4>1. i \in 1..Len(queue) /\ (i # 1 => i - 1 \in 1..Len(queue))
        BY <1>2, <1>3, <3>2
      <4>2. Continues(queue[i], IF i = 1 THEN heard ELSE queue[i - 1])
        BY <4>1 DEF Inv, QueueContinues
      <4> QED
        BY <1>3, <4>1, <4>2
    <3> QED
      BY <3>1, <3>2
  <2>4. ASSUME NEW i \in 1..Len(queue')
        PROVE  heard.sid <= queue'[i].sid
    <3>1. CASE i = Len(queue')
      BY <1>3, <2>1, <3>1
    <3>2. CASE i # Len(queue')
      BY <1>2, <1>3, <3>2 DEF Inv, QueueContinues
    <3> QED
      BY <3>1, <3>2
  <2>5. ASSUME NEW i \in 1..Len(queue'), NEW j \in 1..Len(queue'), i <= j
        PROVE  queue'[i].sid <= queue'[j].sid
    <3>1. CASE j # Len(queue')
      <4>1. i \in 1..Len(queue) /\ j \in 1..Len(queue)
        BY <1>2, <1>3, <2>5, <3>1
      <4> QED
        BY <1>3, <2>5, <4>1 DEF Inv, QueueContinues
    <3>2. CASE j = Len(queue') /\ i = j
      BY <1>3, <2>1, <3>2
    <3>3. CASE j = Len(queue') /\ i # j
      <4>1. i \in 1..Len(queue)
        BY <1>2, <1>3, <2>5, <3>3
      <4> QED
        BY <1>3, <2>1, <2>2, <3>3, <4>1
    <3> QED
      BY <3>1, <3>2, <3>3
  <2> QED
    BY <2>3, <2>4, <2>5 DEF QueueContinues, Continues
<1>7. /\ wire' \in Seq(MicChunk) /\ StartsAtZero'
      /\ \A j \in 1..Len(wire') : ComesAfter(wire'[j], c.sid) /\ Precedes(wire'[j].sid, core')
      /\ \A i, j \in 1..Len(wire') : i < j => ComesAfter(wire'[j], wire'[i].sid)
  BY WireTail
<1>8. WireOrdered' /\ TypeInv'
  BY <1>1, <1>2, <1>3, <1>4, <1>7 DEF WireOrdered, TypeInv
<1> QED
  BY <1>5, <1>6, <1>7, <1>8 DEF Inv

\* Receiving a chunk in the gateway.
LEMMA OnMicInv ==
  ASSUME Inv, OnMic
  PROVE  Inv'
<1> DEFINE c == Head(wire)
<1>1. wire # <<>> /\ wire' = Tail(wire) /\ UNCHANGED <<core, heard>>
  BY DEF OnMic
<1>2. CASE Accepts(c) /\ guard' = Moved(c) /\ queue' = Append(queue, c)
  BY <1>1, <1>2, TakeOverInv
<1>3. CASE guard' = Contract!ResetGuard /\ queue' = queue
  <2>1. guard'.sid = NoStream /\ Latest' = Latest
    BY <1>1, <1>3 DEF Contract!ResetGuard, Latest
  <2>2. /\ wire' \in Seq(MicChunk) /\ StartsAtZero'
        /\ \A j \in 1..Len(wire') : ComesAfter(wire'[j], Latest.sid) /\ Precedes(wire'[j].sid, core')
        /\ \A i, j \in 1..Len(wire') : i < j => ComesAfter(wire'[j], wire'[i].sid)
    BY <1>1, WireTail
  <2>3. TypeInv' /\ WireOrdered' /\ GuardContinues' /\ QueueContinues'
    BY <1>1, <1>3, <2>1, <2>2
    DEF Inv, TypeInv, WireOrdered, GuardContinues, QueueContinues, Continues
  <2> QED
    BY <2>2, <2>3 DEF Inv
<1> QED
  BY <1>2, <1>3 DEF OnMic

\* Passing a chunk on to the application.
LEMMA FlushMicInv ==
  ASSUME Inv, FlushMic
  PROVE  Inv' /\ Continues(heard', heard)
<1>1. /\ queue # <<>> /\ queue' = Tail(queue) /\ queue \in Seq(MicChunk)
      /\ heard' = [sid |-> queue[1].sid, seq |-> queue[1].seq]
      /\ UNCHANGED <<core, wire, guard>>
  BY DEF FlushMic, Inv, TypeInv
<1>2. /\ queue' \in Seq(MicChunk) /\ Len(queue) \in Nat \ {0} /\ Len(queue') = Len(queue) - 1
      /\ \A i \in 1..Len(queue') : queue'[i] = queue[i + 1]
      /\ queue[1] \in MicChunk
  BY <1>1
<1>3. heard' \in [sid: Nat, seq: Nat] /\ heard'.sid = queue[1].sid /\ heard'.seq = queue[1].seq
  BY <1>1, <1>2 DEF MicChunk
<1>4. Continues(heard', heard)
  <2>1. Continues(queue[1], heard)
    BY <1>2 DEF Inv, QueueContinues
  <2> QED
    BY <1>3, <2>1 DEF Continues
<1>5. Latest'.sid = Latest.sid /\ Latest'.seq = Latest.seq
  <2>1. CASE Len(queue) = 1
    <3>1. queue' = <<>>
      BY <1>1, <1>2, <2>1
    <3> QED
      BY <1>1, <1>3, <2>1, <3>1 DEF Latest
  <2>2. CASE Len(queue) # 1
    <3>1. Len(queue') \in 1..Len(queue') /\ queue' # <<>>
      <4>1. Len(queue') \in Nat \ {0}
        BY <1>2, <2>2
      <4> QED
        BY <1>2, <4>1, EmptySeq
    <3>2. queue'[Len(queue')] = queue[Len(queue)]
      BY <1>2, <3>1
    <3> QED
      BY <1>1, <3>1, <3>2 DEF Latest
  <2> QED
    BY <2>1, <2>2
<1>6. WireOrdered' /\ StartsAtZero' /\ TypeInv' /\ GuardContinues'
  BY <1>1, <1>2, <1>3, <1>5 DEF Inv, TypeInv, WireOrdered, StartsAtZero, GuardContinues
<1>7. QueueContinues'
  <2>1. ASSUME NEW i \in 1..Len(queue')
        PROVE  /\ Continues(queue'[i], IF i = 1 THEN heard' ELSE queue'[i - 1])
               /\ heard'.sid <= queue'[i].sid
    <3>1. /\ i + 1 \in 1..Len(queue) /\ i + 1 # 1 /\ (i + 1) - 1 = i
          /\ 1 \in 1..Len(queue) /\ 1 <= i + 1
      BY <1>2
    <3>2. Continues(queue[i + 1], queue[i]) /\ queue[1].sid <= queue[i + 1].sid
      BY <3>1 DEF Inv, QueueContinues
    <3>3. CASE i = 1
      BY <1>2, <1>3, <3>2, <3>3 DEF Continues
    <3>4. CASE i # 1
      BY <1>2, <1>3, <3>2, <3>4
    <3> QED
      BY <3>3, <3>4
  <2>2. \A i, j \in 1..Len(queue') : i <= j => queue'[i].sid <= queue'[j].sid
    BY <1>2 DEF Inv, QueueContinues
  <2> QED
    BY <2>1, <2>2 DEF QueueContinues, Continues
<1> QED
  BY <1>4, <1>6, <1>7 DEF Inv

\* A gateway that is started again has heard nothing, and what it held is lost.
LEMMA GatewayRestartInv ==
  ASSUME Inv, GatewayRestart
  PROVE  Inv'
<1>1. /\ guard' = Contract!ResetGuard /\ queue' = <<>> /\ UNCHANGED <<core, wire, heard>>
      /\ Latest' = heard
  BY DEF GatewayRestart, Latest
<1>2. heard.sid <= Latest.sid /\ heard.sid \in Nat /\ Latest.sid \in Nat
      /\ core.stream \in Nat /\ \A j \in 1..Len(wire) : wire[j].sid \in Nat
  BY HeardFirst, SidsAreNat DEF Inv, TypeInv, Core
<1>3. \A c : c.sid \in Nat /\ ComesAfter(c, Latest.sid) => ComesAfter(c, heard.sid)
  BY <1>2 DEF ComesAfter
<1>4. Precedes(heard.sid, core)
  BY <1>2 DEF Inv, WireOrdered, Precedes
<1>5. WireOrdered'
  BY <1>1, <1>2, <1>3, <1>4 DEF Inv, WireOrdered
<1>6. TypeInv' /\ StartsAtZero' /\ GuardContinues' /\ QueueContinues'
  BY <1>1, EmptySeq
  DEF Inv, TypeInv, StartsAtZero, GuardContinues, QueueContinues, Contract!ResetGuard
<1> QED
  BY <1>5, <1>6 DEF Inv

-----------------------------------------------------------------------------
(***************************************************************************)
(* The theorem                                                             *)
(***************************************************************************)

\* The invariant holds at first.
LEMMA InitInv == Init => Inv
<1> SUFFICES ASSUME Init PROVE Inv
  OBVIOUS
<1>1. /\ core = Reset(1, FALSE) /\ wire = <<>> /\ queue = <<>> /\ guard.sid = NoStream
      /\ heard = [sid |-> 0, seq |-> 0] /\ Latest = heard
  BY DEF Init, Contract!ResetGuard, Latest, NoStream
<1>2. core \in Core /\ core.stream = 1 /\ ~core.started /\ core.seq = 0
  BY <1>1, MicPathAssumption DEF Reset, Core
<1>3. TypeInv
  BY <1>1, <1>2, EmptySeq DEF TypeInv
<1>4. 1..Len(wire) = {} /\ 1..Len(queue) = {}
  BY <1>1, EmptySeq
<1>5. WireOrdered
  <2>1. Latest.sid = 0
    BY <1>1
  <2>2. Precedes(Latest.sid, core)
    BY <1>2, <2>1 DEF Precedes
  <2> QED
    BY <1>4, <2>2 DEF WireOrdered
<1>6. StartsAtZero /\ GuardContinues /\ QueueContinues
  BY <1>1, <1>2, <1>4 DEF StartsAtZero, GuardContinues, QueueContinues
<1> QED
  BY <1>3, <1>5, <1>6 DEF Inv

\* Every step keeps it, and what a step lets the application hear continues what
\* it heard before.
LEMMA NextInv ==
  ASSUME Inv, [Next]_vars
  PROVE  Inv' /\ (heard' # heard => Continues(heard', heard))
<1>1. core \in Core /\ core.stream \in Nat
  BY DEF Inv, TypeInv, Core
<1>2. CASE SourceFrame
  BY <1>1, <1>2, FrameInv DEF SourceFrame, Inv, StartsAtZero
<1>3. CASE LateFrame
  <2>1. PICK k : /\ k = Reset(core.stream + 1, TRUE) /\ core' = Extended(k) /\ Publish(k)
                 /\ UNCHANGED <<guard, queue, heard>>
    BY <1>3 DEF LateFrame
  <2>2. core.stream + 1 \in Nat /\ core.stream + 1 > core.stream
    BY <1>1
  <2>3. /\ k \in Core /\ k.seq = 0 /\ ~k.started
        /\ \A s \in Nat : Precedes(s, core) => Precedes(s, k)
    BY <2>1, <2>2, ResetCore
  <2> QED
    BY <2>1, <2>3, FrameInv
<1>4. CASE RefusedFrame
  <2>1. PICK m : /\ m \in {core.stream + 1, core.stream + 2} /\ core' = Reset(m, TRUE)
                 /\ UNCHANGED <<wire, guard, queue, heard>>
    BY <1>4 DEF RefusedFrame
  <2>2. m \in Nat /\ m > core.stream
    BY <1>1, <2>1
  <2> QED
    BY <2>1, <2>2, ResetInv
<1>5. CASE Latch
  BY <1>5 DEF Latch, Inv, TypeInv, WireOrdered, Latest, StartsAtZero, GuardContinues,
     QueueContinues, Continues
<1>6. CASE BridgeRestart
  <2>1. core' = Reset(core.stream + 1, FALSE) /\ UNCHANGED <<wire, guard, queue, heard>>
    BY <1>6 DEF BridgeRestart
  <2>2. core.stream + 1 \in Nat /\ core.stream + 1 > core.stream
    BY <1>1
  <2> QED
    BY <2>1, <2>2, ResetInv
<1>7. CASE LoseChunk
  BY <1>7, LoseChunkInv DEF LoseChunk
<1>8. CASE OnMic
  BY <1>8, OnMicInv DEF OnMic
<1>9. CASE FlushMic
  BY <1>9, FlushMicInv
<1>10. CASE GatewayRestart
  BY <1>10, GatewayRestartInv DEF GatewayRestart
<1>11. CASE UNCHANGED vars
  BY <1>11
  DEF vars, Inv, TypeInv, WireOrdered, Latest, StartsAtZero, GuardContinues, QueueContinues,
      Continues
<1> QED
  BY <1>2, <1>3, <1>4, <1>5, <1>6, <1>7, <1>8, <1>9, <1>10, <1>11 DEF Next

\* Whatever is lost, refused or restarted between the robot's microphone and the
\* application, each chunk the application hears is the first of a later stream
\* or the next of the same.
THEOREM HeadsHeard == Spec => HearsHeads
<1>1. Inv /\ [Next]_vars => Inv'
  BY NextInv
<1>2. Inv /\ [Next]_vars =>
        [heard' # heard =>
           \/ heard'.sid > heard.sid /\ heard'.seq = 0
           \/ heard'.sid = heard.sid /\ heard'.seq = Next1(heard.seq)]_vars
  BY NextInv DEF Continues
<1> QED
  BY <1>1, <1>2, InitInv, PTL DEF Spec, HearsHeads
=============================================================================
