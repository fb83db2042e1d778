------------------------ MODULE G1VoiceBridgeProofs ------------------------
(***************************************************************************)
(* Theorems about G1VoiceBridge, for every set of chunks, every limits of  *)
(* the gates, rates and deadlines:                                         *)
(*                                                                         *)
(*   TypeCorrect      the type invariant, with the bound on the buffer;    *)
(*   BufferTail       the buffer is the tail of the one open stream;       *)
(*   FailClosed       the bridge implements FailClosedClient;              *)
(*   PlaysWithoutGaps no request has a gap, a repetition or a splice;      *)
(*   RecordsAgree     the source gate, the counters of the resampled PCM   *)
(*                    and the request gate are open on the same stream;    *)
(*   AnswersCounted   every counted success is an answer of the robot.     *)
(*                                                                         *)
(* The first two follow from the inductive invariant AudioOK /\ ServiceOK. *)
(* TypeOK alone is not inductive: that a resampled chunk has a length at   *)
(* all rests on ResamplerInPhase, which ties the resampler's two counters  *)
(* together while its stream is open.  FailClosed follows from ClientOK,   *)
(* which says what the request in flight means for the counters.           *)
(*                                                                         *)
(* That the buffer is a tail of the open stream says nothing of where the  *)
(* tail begins.  PlaybackOK says it: at the start of the stream, or right  *)
(* after the samples of the last PlayStream request.  Each step that drops *)
(* buffered samples must therefore forget the stream as well.              *)
(*                                                                         *)
(* StreamsAgree becomes inductive once the normalized offset equals what   *)
(* the resampler gave out also before the first resampled sample           *)
(* (RecordsOK).  CountsAnswersOnce alone is not: an answer counted twice   *)
(* could hide behind one that is still to be counted, so AnswersOK bounds  *)
(* the counter by the answers to requests that are no longer in flight.    *)
(***************************************************************************)
EXTENDS G1VoiceBridge, PcmGateProofs, FiniteSetTheorems

ResamplerInPhase ==
  source.sid # NoStream => resampled.output = ResampledTotal(resampled.input, FALSE)

AudioOK ==
  /\ gate \in Gate /\ Len(gate.buf) <= PlaybackLimits.maxBuffer
  /\ source \in Gate /\ source.buf = <<>>
  /\ resampled \in [input: Nat, output: Nat]
  /\ inputRate \in {NoRate, PlayRate, SourceRate}
  /\ normalized \in [seq: Nat, off: Nat, disc: BOOLEAN]
  /\ IsTail(gate)
  /\ ResamplerInPhase

ServiceOK ==
  /\ speakerEnabled \in BOOLEAN /\ running \in BOOLEAN
  /\ queryVolume \in BOOLEAN /\ fault \in BOOLEAN /\ volumeConfirmed \in BOOLEAN
  /\ inflight \in [id: Nat, kind: Kinds \cup {"none"}, age: Nat]
  /\ requestsOk \in Nat /\ playRequestsOk \in Nat /\ identity \in Nat
  /\ request \in [kind: Kinds \cup {"none", "stop_play"}, pcm: Seq(Sample)]
  /\ answers \subseteq [id: Nat, outcome: Outcomes]

-----------------------------------------------------------------------------
(***************************************************************************)
(* Arithmetic of the resampler                                             *)
(***************************************************************************)

\* Division by a positive number is monotone.
LEMMA DivMonotone ==
  ASSUME NEW x \in Nat, NEW y \in Nat, NEW d \in Nat \ {0}, x <= y
  PROVE  x \div d \in Nat /\ x \div d <= y \div d
<1>1. x = d * (x \div d) + (x % d) /\ (x % d) \in 0..(d-1) /\ x \div d \in Int
  OBVIOUS
<1>2. y = d * (y \div d) + (y % d) /\ (y % d) \in 0..(d-1) /\ y \div d \in Int
  OBVIOUS
<1>3. \A a, b \in Int : a > b => d * a >= d * b + d
  OBVIOUS
<1>4. x \div d <= y \div d
  BY <1>1, <1>2, <1>3
<1>5. x \div d >= 0
  BY <1>1, <1>3
<1> QED
  BY <1>1, <1>4, <1>5

\* The resampler never takes back a sample: END only rounds up.
LEMMA ResampledGrows ==
  ASSUME NEW m \in Nat, NEW n \in Nat, m <= n, NEW end \in BOOLEAN
  PROVE  /\ ResampledTotal(m, FALSE) \in Nat
         /\ ResampledTotal(n, end) \in Nat
         /\ ResampledTotal(m, FALSE) <= ResampledTotal(n, end)
<1> DEFINE h == SourceRate \div 2
<1>1. PlayRate \in Nat /\ SourceRate \in Nat \ {0}
  BY BridgeAssumption
<1>2. h \in Nat
  BY <1>1
<1>3. m * PlayRate \in Nat /\ n * PlayRate \in Nat /\ m * PlayRate <= n * PlayRate
  BY <1>1
<1> HIDE DEF h
<1>4. n * PlayRate + h \in Nat /\ n * PlayRate <= n * PlayRate + h
  BY <1>2, <1>3
<1>5. /\ (m * PlayRate) \div SourceRate \in Nat
      /\ (m * PlayRate) \div SourceRate <= (n * PlayRate) \div SourceRate
  BY <1>1, <1>3, DivMonotone
<1>6. /\ (n * PlayRate) \div SourceRate \in Nat
      /\ (n * PlayRate) \div SourceRate <= (n * PlayRate + h) \div SourceRate
  BY <1>1, <1>3, <1>4, DivMonotone
<1>7. (n * PlayRate + h) \div SourceRate \in Nat
  BY <1>1, <1>4, DivMonotone
<1>8. /\ (m * PlayRate) \div SourceRate \in Int
      /\ (n * PlayRate) \div SourceRate \in Int
      /\ (n * PlayRate + h) \div SourceRate \in Int
  BY <1>5, <1>6, <1>7
<1>9. (m * PlayRate) \div SourceRate <= (n * PlayRate + h) \div SourceRate
  BY <1>5, <1>6, <1>8
<1> QED
  BY <1>5, <1>6, <1>7, <1>9 DEF ResampledTotal, h

-----------------------------------------------------------------------------
(***************************************************************************)
(* The audio state                                                         *)
(***************************************************************************)

\* A cleared audio state is a good one.
LEMMA ClearedAudioOK ==
  ASSUME ClearAudioState
  PROVE  AudioOK'
<1>1. ClearGate \in Gate /\ IsTail(ClearGate) /\ ClearGate.buf = <<>> /\ ClearGate.sid = NoStream
  BY ClearGateIsGate DEF ClearGate
<1>2. Len(<<>>) = 0 /\ PlaybackLimits.maxBuffer \in Nat
  BY BridgeAssumption, EmptySeq DEF Contract
<1>3. /\ NotResampled \in [input: Nat, output: Nat]
      /\ NotNormalized \in [seq: Nat, off: Nat, disc: BOOLEAN]
  BY DEF NotResampled, NotNormalized
<1> QED
  BY <1>1, <1>2, <1>3 DEF ClearAudioState, AudioOK, ResamplerInPhase, IsTail

\* The chunks that may arrive are chunks.
LEMMA ChunkFacts ==
  ASSUME NEW c \in Chunks
  PROVE  /\ PlainChunk(c) /\ c.len \in Nat \ {0} /\ c.rate \in Nat
         /\ c.disc \in BOOLEAN /\ c.wellFormed \in BOOLEAN
BY BridgeAssumption DEF Chunk, PlainChunk

\* What a disabled or enabled speaker keeps of a gate.
LEMMA KeptIsGate ==
  ASSUME NEW g \in Gate, IsTail(g), Len(g.buf) <= PlaybackLimits.maxBuffer
  PROVE  /\ Kept(g) \in Gate /\ IsTail(Kept(g))
         /\ Len(Kept(g).buf) <= PlaybackLimits.maxBuffer
<1>1. Len(<<>>) = 0 /\ PlaybackLimits.maxBuffer \in Nat
  BY BridgeAssumption, EmptySeq DEF Contract
<1> QED
  BY <1>1, GateDiscardedIsGate DEF Kept

\* Accepting a chunk at the rate of the request gate.
LEMMA AcceptDirectOK ==
  ASSUME AudioOK, NEW c \in Chunks, AcceptDirect(c)
  PROVE  AudioOK'
<1>1. PlainChunk(c) /\ GateAccepts(gate, c, PlaybackLimits) /\ c.rate = PlayRate
  BY ChunkFacts DEF AcceptDirect, DirectFits
<1>2. /\ gate' \in Gate /\ IsTail(gate')
      /\ Len(gate'.buf) <= PlaybackLimits.maxBuffer
  BY <1>1, GateAfterIsGate, KeptIsGate DEF AcceptDirect, AudioOK
<1>3. inputRate' \in {NoRate, PlayRate, SourceRate}
  BY <1>1 DEF AcceptDirect, RateAfter
<1>4. source' = source /\ resampled' = resampled /\ normalized' = normalized
  BY DEF AcceptDirect
<1> QED
  BY <1>2, <1>3, <1>4 DEF AudioOK, ResamplerInPhase

\* The resampler before and after an accepted source chunk.
LEMMA ResamplerFacts ==
  ASSUME AudioOK, NEW c \in Chunks, SourceFits(c)
  PROVE  /\ ResampledBefore(c) \in [input: Nat, output: Nat]
         /\ ResampledAfter(c) \in [input: Nat, output: Nat]
         /\ ResampledBefore(c).output = ResampledTotal(ResampledBefore(c).input, FALSE)
         /\ ResampledAfter(c).output = ResampledTotal(ResampledAfter(c).input, c.end)
         /\ ResampledAfter(c).output - ResampledBefore(c).output \in Nat
<1> DEFINE before == ResampledBefore(c)
           after == ResampledAfter(c)
<1>1. c.len \in Nat /\ c.start \in BOOLEAN /\ c.end \in BOOLEAN /\ c.sid \in Streams
  BY ChunkFacts DEF PlainChunk
<1>2. before \in [input: Nat, output: Nat]
  BY DEF AudioOK, ResampledBefore, NotResampled
<1>3. before.output = ResampledTotal(before.input, FALSE)
  <2>1. CASE c.start
    <3>1. 0 * PlayRate = 0 /\ 0 \div SourceRate = 0
      BY BridgeAssumption
    <3> QED
      BY <2>1, <3>1 DEF ResampledBefore, NotResampled, ResampledTotal
  <2>2. CASE ~c.start
    <3>1. source.sid = c.sid
      BY <2>2 DEF SourceFits, GateAccepts, GateOpened
    <3>2. source.sid # NoStream
      BY <1>1, <3>1, GateAssumption
    <3> QED
      BY <2>2, <3>2 DEF AudioOK, ResamplerInPhase, ResampledBefore
  <2> QED
    BY <2>1, <2>2
<1>4. before.input + c.len \in Nat /\ before.input <= before.input + c.len
  BY <1>1, <1>2
<1>5. /\ ResampledTotal(before.input + c.len, c.end) \in Nat
      /\ ResampledTotal(before.input, FALSE) <= ResampledTotal(before.input + c.len, c.end)
  BY <1>1, <1>2, <1>4, ResampledGrows
<1>6. /\ after.input = before.input + c.len
      /\ after.output = ResampledTotal(before.input + c.len, c.end)
      /\ after = [input |-> after.input, output |-> after.output]
  BY DEF ResampledAfter
<1>7. after \in [input: Nat, output: Nat]
  BY <1>4, <1>5, <1>6
<1> HIDE DEF before, after
<1>8. before.output \in Nat /\ after.output \in Nat
  BY <1>2, <1>7
<1>9. before.output <= after.output
  BY <1>3, <1>5, <1>6
<1>10. after.output - before.output \in Nat
  BY <1>8, <1>9
<1> QED
  BY <1>2, <1>3, <1>6, <1>7, <1>10 DEF before, after

\* The chunk the bridge makes up of resampled PCM is well formed.
LEMMA NormalizedIsPlain ==
  ASSUME AudioOK, NEW c \in Chunks, SourceFits(c)
  PROVE  PlainChunk(Normalized(c))
<1>1. PlainChunk(c) /\ c.disc \in BOOLEAN
  BY ChunkFacts
<1>2. ResampledAfter(c).output - ResampledBefore(c).output \in Nat
  BY ResamplerFacts
<1>3. NormalizedBefore(c) \in [seq: Nat, off: Nat, disc: BOOLEAN]
  BY <1>1 DEF AudioOK, NormalizedBefore, NotNormalized, PlainChunk
<1> QED
  BY <1>1, <1>2, <1>3 DEF Normalized, PlainChunk

\* Accepting a chunk that is resampled first.
LEMMA AcceptResampledOK ==
  ASSUME AudioOK, NEW c \in Chunks, AcceptResampled(c)
  PROVE  AudioOK'
<1> DEFINE d == Normalized(c)
<1>1. PlainChunk(c) /\ SourceFits(c) /\ c.rate = SourceRate
      /\ c.disc \in BOOLEAN /\ GateAccepts(source, c, SourceLimits)
  BY ChunkFacts DEF AcceptResampled, ResampledFits, SourceFits
<1>2. /\ ResampledAfter(c) \in [input: Nat, output: Nat]
      /\ ResampledAfter(c).output = ResampledTotal(ResampledAfter(c).input, c.end)
      /\ ResampledAfter(c).output - ResampledBefore(c).output \in Nat
  BY <1>1, ResamplerFacts
<1>3. NormalizedBefore(c) \in [seq: Nat, off: Nat, disc: BOOLEAN]
  BY <1>1 DEF AudioOK, NormalizedBefore, NotNormalized, PlainChunk
<1>4. GateAfter(source, c) \in Gate
  BY <1>1, GateAfterIsGate DEF AudioOK
<1>5. source' \in Gate /\ source'.buf = <<>>
  BY <1>4, GateDiscardedIsGate DEF AcceptResampled
<1>6. ResamplerInPhase'
  <2>1. source' = GateDiscarded(GateAfter(source, c)) /\ resampled' = ResampledAfter(c)
    BY DEF AcceptResampled
  <2>2. CASE c.end
    <3>1. source' = ClearGate
      BY <2>1, <2>2 DEF GateDiscarded, GateAfter
    <3> QED
      BY <3>1 DEF ResamplerInPhase, ClearGate
  <2>3. CASE ~c.end
    <3>1. c.end = FALSE
      BY <1>1, <2>3 DEF PlainChunk
    <3> QED
      BY <1>2, <2>1, <3>1 DEF ResamplerInPhase
  <2> QED
    BY <2>2, <2>3
<1>7. resampled' \in [input: Nat, output: Nat]
  BY <1>2 DEF AcceptResampled
<1>8. CASE YieldsNothing(c)
  <2>1. normalized' = NormalizedBefore(c) /\ inputRate' = SourceRate /\ gate' = gate
    BY <1>1, <1>8 DEF AcceptResampled
  <2> QED
    BY <1>3, <1>5, <1>6, <1>7, <2>1 DEF AudioOK
<1>9. CASE ~YieldsNothing(c)
  <2>1. GateAccepts(gate, d, PlaybackLimits)
    BY <1>9 DEF AcceptResampled, ResampledFits
  <2>2. PlainChunk(d)
    BY <1>1, NormalizedIsPlain
  <2>3. d.len \in Nat
    BY <2>2 DEF PlainChunk
  <2>4. /\ gate' = Kept(GateAfter(gate, d))
        /\ normalized' = [seq |-> NormalizedBefore(c).seq + 1,
                          off |-> NormalizedBefore(c).off + d.len,
                          disc |-> FALSE]
        /\ inputRate' = RateAfter(c)
    BY <1>9 DEF AcceptResampled
  <2> HIDE DEF d
  <2>5. /\ GateAfter(gate, d) \in Gate /\ IsTail(GateAfter(gate, d))
        /\ Len(GateAfter(gate, d).buf) <= PlaybackLimits.maxBuffer
    BY <2>1, <2>2, GateAfterIsGate DEF AudioOK
  <2>6. /\ gate' \in Gate /\ IsTail(gate')
        /\ Len(gate'.buf) <= PlaybackLimits.maxBuffer
    BY <2>4, <2>5, KeptIsGate
  <2>7. normalized' \in [seq: Nat, off: Nat, disc: BOOLEAN]
    BY <1>3, <2>3, <2>4
  <2>8. inputRate' \in {NoRate, PlayRate, SourceRate}
    BY <1>1, <2>4 DEF RateAfter
  <2> QED
    BY <1>5, <1>6, <1>7, <2>6, <2>7, <2>8 DEF AudioOK
<1> QED
  BY <1>8, <1>9

\* Everything the reception of a chunk can do.
LEMMA OnAudioOK ==
  ASSUME AudioOK, NEW c \in Chunks, OnAudio(c)
  PROVE  AudioOK'
BY AcceptDirectOK, AcceptResampledOK, ClearedAudioOK DEF OnAudio, RejectAudio

\* Nothing has happened to the audio state.
LEMMA UnchangedAudioOK ==
  ASSUME AudioOK, UNCHANGED audioVars
  PROVE  AudioOK'
BY DEF AudioOK, audioVars, ResamplerInPhase

\* A fault, the first or a later one.
LEMMA LatchFaultAudioOK ==
  ASSUME AudioOK, LatchFault
  PROVE  AudioOK'
BY ClearedAudioOK, UnchangedAudioOK DEF LatchFault

\* Popping a request.
LEMMA TickPlayAudioOK ==
  ASSUME AudioOK, TickPlay
  PROVE  AudioOK' /\ PopPayload(gate, PlaybackLimits) \in Seq(Sample)
<1>1. PlaybackLimits \in Contract /\ PlaybackLimits.maxBuffer \in Nat
  BY BridgeAssumption DEF Contract
<1>2. gate' = GatePopped(gate, PlaybackLimits)
  BY DEF TickPlay
<1>3. gate \in Gate /\ IsTail(gate) /\ Len(gate.buf) <= PlaybackLimits.maxBuffer
  BY DEF AudioOK
<1>4. /\ gate' \in Gate /\ IsTail(gate') /\ Len(gate'.buf) <= Len(gate.buf)
      /\ PopPayload(gate, PlaybackLimits) \in Seq(Sample)
  BY <1>1, <1>2, <1>3, GatePoppedIsGate
<1>5. Len(gate.buf) \in Nat /\ Len(gate'.buf) \in Nat
  BY <1>3, <1>4, LenProperties DEF Gate
<1>6. Len(gate'.buf) <= PlaybackLimits.maxBuffer
  BY <1>1, <1>3, <1>4, <1>5
<1>7. UNCHANGED <<source, resampled, inputRate, normalized>>
  BY DEF TickPlay
<1> QED
  BY <1>4, <1>6, <1>7 DEF AudioOK, ResamplerInPhase

\* Time passing.
LEMMA ElapseAudioOK ==
  ASSUME AudioOK, Elapse
  PROVE  AudioOK'
<1>1. gate \in Gate /\ IsTail(gate) /\ source \in Gate
  BY DEF AudioOK
<1>2. /\ gate' = GateAged(gate) /\ source' = GateAged(source)
      /\ UNCHANGED <<resampled, inputRate, normalized>>
  BY DEF Elapse
<1>3. /\ gate' \in Gate /\ IsTail(gate') /\ gate'.buf = gate.buf
      /\ source' \in Gate /\ source'.buf = source.buf
  BY <1>1, <1>2, GateAgedIsGate
<1>4. source'.sid = source.sid
  BY <1>1, <1>2 DEF GateAged, Gate
<1> QED
  BY <1>2, <1>3, <1>4 DEF AudioOK, ResamplerInPhase

-----------------------------------------------------------------------------
(***************************************************************************)
(* Type correctness and the buffer                                         *)
(***************************************************************************)
Inv == AudioOK /\ ServiceOK

\* A fault leaves the service state well formed.
LEMMA LatchFaultTypes ==
  ASSUME LatchFault
  PROVE  fault' = TRUE /\ inflight' \in [id: Nat, kind: Kinds \cup {"none"}, age: Nat]
BY DEF LatchFault, NoRequest, Kinds

\* So does a request.
LEMMA PublishTypes ==
  ASSUME ServiceOK, NEW kind \in Kinds, NEW pcm \in Seq(Sample), PublishRequest(kind, pcm)
  PROVE  /\ identity' \in Nat
         /\ inflight' \in [id: Nat, kind: Kinds \cup {"none"}, age: Nat]
         /\ request' \in [kind: Kinds \cup {"none", "stop_play"}, pcm: Seq(Sample)]
BY DEF ServiceOK, PublishRequest

\* Init establishes the invariant.
LEMMA InitInv == Init => Inv
<1> SUFFICES ASSUME Init PROVE Inv
  OBVIOUS
<1>1. ClearGate \in Gate /\ IsTail(ClearGate) /\ ClearGate.buf = <<>> /\ ClearGate.sid = NoStream
  BY ClearGateIsGate DEF ClearGate
<1>2. Len(<<>>) = 0 /\ <<>> \in Seq(Sample) /\ PlaybackLimits.maxBuffer \in Nat
  BY BridgeAssumption, EmptySeq DEF Contract
<1>3. AudioOK
  BY <1>1, <1>2 DEF Init, AudioOK, ResamplerInPhase, NotResampled, NotNormalized
<1>4. ServiceOK
  BY <1>2 DEF Init, ServiceOK, NoRequest
<1> QED
  BY <1>3, <1>4 DEF Inv

\* Every step keeps it.
LEMMA NextInv ==
  ASSUME Inv, [Next]_vars
  PROVE  Inv'
<1> USE DEF Inv
<1>1. ASSUME NEW c \in Chunks, OnAudio(c)
      PROVE  Inv'
  BY <1>1, OnAudioOK DEF OnAudio, ServiceOK, serviceVars
<1>2. CASE TickTimeout
  <2>1. AudioOK'
    BY <1>2, LatchFaultAudioOK DEF TickTimeout
  <2>2. ServiceOK'
    BY <1>2, LatchFaultTypes DEF TickTimeout, ServiceOK
  <2> QED
    BY <2>1, <2>2
<1>3. CASE TickQueryVolume
  <2>1. AudioOK'
    BY <1>3, UnchangedAudioOK DEF TickQueryVolume
  <2>2. PublishRequest("get_volume", <<>>) /\ "get_volume" \in Kinds /\ <<>> \in Seq(Sample)
    BY <1>3, EmptySeq DEF TickQueryVolume, Kinds
  <2>3. ServiceOK'
    BY <1>3, <2>2, PublishTypes DEF TickQueryVolume, ServiceOK
  <2> QED
    BY <2>1, <2>3
<1>4. CASE TickPlay
  <2>1. AudioOK' /\ PopPayload(gate, PlaybackLimits) \in Seq(Sample)
    BY <1>4, TickPlayAudioOK
  <2>2. PublishRequest("play_stream", PopPayload(gate, PlaybackLimits)) /\ "play_stream" \in Kinds
    BY <1>4 DEF TickPlay, Kinds
  <2>3. ServiceOK'
    BY <1>4, <2>1, <2>2, PublishTypes DEF TickPlay, ServiceOK
  <2> QED
    BY <2>1, <2>3
<1>5. ASSUME NEW a \in answers, OnResponse(a)
      PROVE  Inv'
  <2>1. AudioOK'
    BY <1>5, LatchFaultAudioOK, UnchangedAudioOK DEF OnResponse
  <2>2. NoRequest \in [id: Nat, kind: Kinds \cup {"none"}, age: Nat]
    BY DEF NoRequest
  <2>3. fault' \in BOOLEAN /\ inflight' \in [id: Nat, kind: Kinds \cup {"none"}, age: Nat]
    BY <1>5, <2>2, LatchFaultTypes DEF OnResponse, ServiceOK
  <2>4. requestsOk' \in {requestsOk, requestsOk + 1}
    BY <1>5 DEF OnResponse
  <2>5. playRequestsOk' \in {playRequestsOk, playRequestsOk + 1}
    BY <1>5 DEF OnResponse
  <2>6. requestsOk' \in Nat /\ playRequestsOk' \in Nat
    BY <2>4, <2>5 DEF ServiceOK
  <2>7. volumeConfirmed' \in {volumeConfirmed, TRUE}
    BY <1>5 DEF OnResponse
  <2>8. ServiceOK'
    BY <1>5, <2>3, <2>6, <2>7 DEF OnResponse, ServiceOK
  <2> QED
    BY <2>1, <2>8
<1>6. CASE Shutdown
  <2>1. AudioOK'
    BY <1>6, ClearedAudioOK DEF Shutdown
  <2>2. <<>> \in Seq(Sample)
    BY EmptySeq
  <2>3. identity' \in Nat /\ request' \in [kind: Kinds \cup {"none", "stop_play"}, pcm: Seq(Sample)]
    <3>1. CASE speakerEnabled /\ playRequestsOk > 0
      <4>1. identity' = identity + 1 /\ request' = [kind |-> "stop_play", pcm |-> <<>>]
        BY <1>6, <3>1 DEF Shutdown
      <4> QED
        BY <2>2, <4>1 DEF ServiceOK
    <3>2. CASE ~(speakerEnabled /\ playRequestsOk > 0)
      <4>1. UNCHANGED <<identity, request>>
        BY <1>6, <3>2 DEF Shutdown
      <4> QED
        BY <4>1 DEF ServiceOK
    <3> QED
      BY <3>1, <3>2
  <2>4. ServiceOK'
    BY <1>6, <2>3 DEF Shutdown, ServiceOK
  <2> QED
    BY <2>1, <2>4
<1>7. ASSUME NEW id \in 1..identity, NEW o \in Outcomes, RobotAnswers(id, o)
      PROVE  Inv'
  <2>1. AudioOK'
    BY <1>7, UnchangedAudioOK DEF RobotAnswers
  <2>2. [id |-> id, outcome |-> o] \in [id: Nat, outcome: Outcomes]
    BY <1>7 DEF ServiceOK
  <2>3. ServiceOK'
    BY <1>7, <2>2 DEF RobotAnswers, ServiceOK
  <2> QED
    BY <2>1, <2>3
<1>8. CASE Elapse
  <2>1. AudioOK'
    BY <1>8, ElapseAudioOK
  <2>2. inflight' \in [id: Nat, kind: Kinds \cup {"none"}, age: Nat]
    BY <1>8 DEF Elapse, ServiceOK
  <2>3. ServiceOK'
    BY <1>8, <2>2 DEF Elapse, ServiceOK
  <2> QED
    BY <2>1, <2>3
<1>9. CASE UNCHANGED vars
  <2>1. AudioOK'
    BY <1>9, UnchangedAudioOK DEF vars
  <2> QED
    BY <1>9, <2>1 DEF vars, serviceVars, ServiceOK
<1> QED
  BY <1>1, <1>2, <1>3, <1>4, <1>5, <1>6, <1>7, <1>8, <1>9 DEF Next, Tick

\* The invariant holds throughout.
THEOREM Invariance == Spec => []Inv
<1>1. Init => Inv
  BY InitInv
<1>2. Inv /\ [Next]_vars => Inv'
  BY NextInv
<1> QED
  BY <1>1, <1>2, PTL DEF Spec

\* The state of the bridge stays well formed, and the request gate never holds
\* more than PcmContract.max_buffer_bytes.
THEOREM TypeCorrect == Spec => []TypeOK
<1>1. Inv => TypeOK
  BY DEF Inv, AudioOK, ServiceOK, TypeOK
<1> QED
  BY <1>1, Invariance, PTL

\* What is buffered for the robot is always the tail of the one open stream.
THEOREM BufferTail == Spec => []BufferIsStreamTail
<1>1. Inv => BufferIsStreamTail
  BY DEF Inv, AudioOK, IsTail, BufferIsStreamTail
<1> QED
  BY <1>1, Invariance, PTL

-----------------------------------------------------------------------------
(***************************************************************************)
(* The bridge implements FailClosedClient                                  *)
(***************************************************************************)

\* What the request in flight says of the counters: it is the last one asked
\* and the only one not answered, and there is none once a fault has latched.
ClientOK ==
  /\ request.kind = "stop_play" => ~running /\ identity > 0
  /\ requestsOk <= Asked
  /\ inflight # NoRequest => inflight.id = Asked /\ requestsOk + 1 = Asked /\ ~fault
  /\ inflight = NoRequest /\ ~fault => requestsOk = Asked

ClientInv == ServiceOK /\ ClientOK

\* While the node runs, every request it has published counts.
LEMMA RunningAsked ==
  ASSUME ClientInv, running
  PROVE  Asked = identity
BY DEF ClientInv, ClientOK, Asked

\* Publishing a request is the client's Ask.
LEMMA PublishIsAsk ==
  ASSUME ClientInv, running, inflight = NoRequest, ~fault,
         NEW kind \in Kinds, NEW pcm, PublishRequest(kind, pcm),
         fault' = fault, requestsOk' = requestsOk, running' = running
  PROVE  Client!Ask /\ ClientOK'
<1>1. Asked = identity /\ requestsOk = Asked /\ identity \in Nat
  BY RunningAsked DEF ClientInv, ClientOK, ServiceOK
<1>2. /\ identity' = identity + 1 /\ request'.kind = kind /\ kind # "stop_play"
      /\ inflight' = [id |-> identity + 1, kind |-> kind, age |-> 0]
  BY DEF PublishRequest, Kinds
<1>3. Asked' = identity + 1
  BY <1>2 DEF Asked
<1>4. inflight'.id = identity + 1 /\ inflight' # NoRequest
  BY <1>1, <1>2 DEF NoRequest
<1>5. Client!Ask
  BY <1>1, <1>3 DEF Client!Ask
<1>6. ClientOK'
  BY <1>1, <1>2, <1>3, <1>4 DEF ClientOK
<1> QED
  BY <1>5, <1>6

\* A fault that ends the request in flight is the client's Fail, whether or not
\* the answer was counted first.
LEMMA LatchIsFail ==
  ASSUME ClientInv, running, inflight # NoRequest, LatchFault,
         requestsOk' \in {requestsOk, requestsOk + 1},
         UNCHANGED <<identity, request, running>>
  PROVE  Client!Fail /\ ClientOK'
<1>1. Asked = identity /\ requestsOk + 1 = Asked /\ ~fault /\ requestsOk \in Nat
  BY RunningAsked DEF ClientInv, ClientOK, ServiceOK
<1>2. Asked' = Asked
  BY DEF Asked
<1>3. fault' = TRUE /\ inflight' = NoRequest
  BY DEF LatchFault
<1>4. requestsOk' <= Asked
  BY <1>1
<1>5. Client!Fail
  BY <1>1, <1>2, <1>3, <1>4 DEF Client!Fail
<1>6. ClientOK'
  BY <1>2, <1>3, <1>4 DEF ClientOK, ClientInv
<1> QED
  BY <1>5, <1>6

\* Every step of the bridge keeps ClientOK and is a step of the client or
\* leaves it unchanged.
LEMMA NextClient ==
  ASSUME ClientInv, [Next]_vars
  PROVE  ClientOK' /\ [Client!ClientNext]_(Client!clientVars)
<1> DEFINE Stutter == Asked' = Asked /\ requestsOk' = requestsOk /\ fault' = fault
<1>0. Stutter => [Client!ClientNext]_(Client!clientVars)
  BY DEF Client!clientVars
<1>1. ASSUME UNCHANGED <<inflight, fault, requestsOk, identity, request, running>>
      PROVE  ClientOK' /\ Stutter
  BY <1>1 DEF ClientInv, ClientOK, Asked
<1>2. ASSUME NEW c \in Chunks, OnAudio(c)
      PROVE  ClientOK' /\ Stutter
  BY <1>1, <1>2 DEF OnAudio, serviceVars
<1>3. CASE TickTimeout
  BY <1>3, LatchIsFail DEF TickTimeout, Client!ClientNext
<1>4. CASE TickQueryVolume
  <2>1. "get_volume" \in Kinds
    BY DEF Kinds
  <2> QED
    BY <1>4, <2>1, PublishIsAsk DEF TickQueryVolume, Client!ClientNext
<1>5. CASE TickPlay
  <2>1. "play_stream" \in Kinds
    BY DEF Kinds
  <2> QED
    BY <1>5, <2>1, PublishIsAsk DEF TickPlay, Client!ClientNext
<1>6. ASSUME NEW a \in answers, OnResponse(a)
      PROVE  ClientOK' /\ [Client!ClientNext]_(Client!clientVars)
  <2>1. /\ running /\ inflight # NoRequest
        /\ UNCHANGED <<identity, request, running>>
    BY <1>6 DEF OnResponse
  <2>2. CASE LatchFault
    <3>1. requestsOk' \in {requestsOk, requestsOk + 1}
      BY <1>6 DEF OnResponse
    <3> QED
      BY <2>1, <2>2, <3>1, LatchIsFail DEF Client!ClientNext
  <2>3. CASE ~LatchFault
    <3>1. requestsOk' = requestsOk + 1 /\ inflight' = NoRequest /\ fault' = fault
      BY <1>6, <2>3 DEF OnResponse
    <3>2. Asked' = Asked /\ requestsOk + 1 = Asked /\ requestsOk \in Nat /\ ~fault
      BY <2>1 DEF Asked, ClientInv, ClientOK, ServiceOK
    <3>3. Client!Complete
      BY <3>1, <3>2 DEF Client!Complete
    <3>4. ClientOK'
      BY <2>1, <3>1, <3>2 DEF ClientOK, ClientInv
    <3> QED
      BY <3>3, <3>4 DEF Client!ClientNext
  <2> QED
    BY <2>2, <2>3
<1>7. CASE Shutdown
  <2>1. /\ running /\ ~running'
        /\ UNCHANGED <<inflight, fault, requestsOk>>
    BY <1>7 DEF Shutdown
  <2>2. Asked = identity /\ identity \in Nat
    BY <2>1, RunningAsked DEF ClientInv, ServiceOK
  <2>3. Asked' = Asked /\ (request'.kind = "stop_play" => identity' > 0)
    <3>1. CASE speakerEnabled /\ playRequestsOk > 0
      <4>1. identity' = identity + 1 /\ request'.kind = "stop_play"
        BY <1>7, <3>1 DEF Shutdown
      <4> QED
        BY <2>2, <4>1 DEF Asked
    <3>2. CASE ~(speakerEnabled /\ playRequestsOk > 0)
      <4>1. UNCHANGED <<identity, request>>
        BY <1>7, <3>2 DEF Shutdown
      <4> QED
        BY <2>2, <4>1 DEF Asked, ClientInv, ClientOK
    <3> QED
      BY <3>1, <3>2
  <2>4. ClientOK'
    BY <2>1, <2>3 DEF ClientInv, ClientOK
  <2> QED
    BY <1>0, <2>1, <2>3, <2>4
<1>8. ASSUME NEW id \in 1..identity, NEW o \in Outcomes, RobotAnswers(id, o)
      PROVE  ClientOK' /\ Stutter
  BY <1>1, <1>8 DEF RobotAnswers
<1>9. CASE Elapse
  <2>1. UNCHANGED <<fault, requestsOk, identity, request, running>>
    BY <1>9 DEF Elapse
  <2>2. CASE inflight' = inflight
    BY <1>0, <1>1, <2>1, <2>2
  <2>3. CASE inflight' # inflight
    <3>1. inflight # NoRequest /\ inflight' = [inflight EXCEPT !.age = @ + 1]
      BY <1>9, <2>3 DEF Elapse
    <3>2. inflight'.id = inflight.id
      BY <3>1 DEF ClientInv, ServiceOK
    <3>3. inflight.id = Asked /\ requestsOk + 1 = Asked /\ requestsOk \in Nat
      BY <3>1 DEF ClientInv, ClientOK, ServiceOK
    <3>4. inflight' # NoRequest
      BY <3>2, <3>3 DEF NoRequest
    <3>5. Stutter
      BY <2>1 DEF Asked
    <3>6. ClientOK'
      BY <2>1, <3>1, <3>2, <3>4, <3>5 DEF ClientInv, ClientOK
    <3> QED
      BY <1>0, <3>5, <3>6
  <2> QED
    BY <2>2, <2>3
<1>10. CASE UNCHANGED vars
  BY <1>0, <1>1, <1>10 DEF vars, serviceVars
<1> QED
  BY <1>0, <1>2, <1>3, <1>4, <1>5, <1>6, <1>7, <1>8, <1>9, <1>10 DEF Next, Tick

\* The bridge is a fail-closed client of the voice service: one request at a
\* time, each success counted once, nothing requested after the first fault.
THEOREM FailClosed == Spec => IsFailClosedClient
<1>1. Init => ClientOK /\ Client!ClientInit
  BY DEF Init, ClientOK, NoRequest, Asked, Client!ClientInit
<1>2. ServiceOK /\ ClientOK /\ [Next]_vars => ClientOK' /\ [Client!ClientNext]_(Client!clientVars)
  BY NextClient DEF ClientInv
<1>3. Spec => []ServiceOK
  <2>1. Inv => ServiceOK
    BY DEF Inv
  <2> QED
    BY <2>1, Invariance, PTL
<1> QED
  BY <1>1, <1>2, <1>3, PTL DEF Spec, IsFailClosedClient, Client!ClientSpec

-----------------------------------------------------------------------------
(***************************************************************************)
(* What the requests play                                                  *)
(***************************************************************************)
\* What the gate holds begins its stream, or goes on after the request r.
Follows(g, r) ==
  \/ g.off = Len(g.buf)
  \/ /\ r.kind = "play_stream" /\ r.pcm # <<>>
     /\ r.pcm[1][1] = g.sid
     /\ r.pcm[1][2] + Len(r.pcm) = g.off - Len(g.buf)

PlaybackOK ==
  /\ speakerEnabled => Follows(gate, request)
  /\ queryVolume => request.kind # "play_stream"

PlaybackInv == Inv /\ PlaybackOK

-----------------------------------------------------------------------------
\* A cleared gate follows whatever was requested.
LEMMA ClearFollows == \A r : Follows(ClearGate, r)
BY EmptySeq DEF Follows, ClearGate

\* An accepted chunk moves the end of the buffer, or begins a stream anew, but
\* never moves the beginning of what is buffered.
LEMMA AfterFollows ==
  ASSUME NEW g \in Gate, NEW c, NEW k, NEW r,
         PlainChunk(c), GateAccepts(g, c, k), Follows(g, r)
  PROVE  Follows(GateAfter(g, c), r)
<1> DEFINE h == GateOpened(g, c)
<1>1. h \in Gate /\ h.sid = c.sid /\ h.off = c.off
  BY AcceptedContinues
<1>2. Follows(h, r)
  <2>1. CASE c.start
    <3>1. h.off = 0 /\ h.buf = <<>>
      BY <2>1 DEF GateOpened, ClearGate
    <3> QED
      BY <3>1, EmptySeq DEF Follows
  <2>2. CASE ~c.start
    BY <2>2 DEF GateOpened
  <2> QED
    BY <2>1, <2>2
<1>3. h.buf \in Seq(Sample) /\ Len(h.buf) \in Nat /\ h.off \in Nat /\ c.len \in Nat
  BY <1>1, LenProperties DEF Gate, PlainChunk
<1>4. Len(GateAfter(g, c).buf) = Len(h.buf) + c.len
  <2>1. Pcm(c) \in Seq(Sample) /\ Len(Pcm(c)) = c.len
    BY PcmIsSeq
  <2>2. GateAfter(g, c).buf = h.buf \o Pcm(c)
    BY DEF GateAfter
  <2>3. Len(h.buf \o Pcm(c)) = Len(h.buf) + Len(Pcm(c))
    BY <1>3, <2>1, ConcatProperties
  <2> QED
    BY <2>1, <2>2, <2>3
<1>5. /\ GateAfter(g, c).off = h.off + c.len
      /\ GateAfter(g, c).sid = h.sid
  BY <1>1 DEF GateAfter
<1> HIDE DEF h
<1>6. GateAfter(g, c).off - Len(GateAfter(g, c).buf) = h.off - Len(h.buf)
  BY <1>3, <1>4, <1>5
<1>7. h.off = Len(h.buf) => GateAfter(g, c).off = Len(GateAfter(g, c).buf)
  BY <1>4, <1>5
<1> QED
  BY <1>2, <1>5, <1>6, <1>7 DEF Follows

\* What a pop requests: the front of the buffer, an unbroken run where the gate
\* begins, after which the rest of the buffer follows.
LEMMA PopPlaysOn ==
  ASSUME NEW g \in Gate, NEW k \in Contract, IsTail(g), GateReady(g, k)
  PROVE  LET pcm == PopPayload(g, k)
             rest == GatePopped(g, k)
         IN /\ pcm # <<>>
            /\ IsRun(pcm)
            /\ pcm[1] = <<g.sid, g.off - Len(g.buf)>>
            /\ g.buf = pcm \o rest.buf
            /\ Follows(rest, [kind |-> "play_stream", pcm |-> pcm])
<1> DEFINE n == Len(g.buf)
           p == PopCount(g, k)
           pcm == PopPayload(g, k)
           tail == SubSeq(g.buf, p + 1, n)
<1>1. g.buf \in Seq(Sample) /\ n \in Nat /\ g.off \in Nat
      /\ \A i \in 1..n : g.buf[i] \in Sample
  BY LenProperties, ElementOfSeq DEF Gate
<1>2. n > 0
  <2>1. n = 0 => g.buf = <<>>
    BY <1>1, EmptySeq
  <2>2. k.target \in Nat \ {0}
    BY DEF Contract
  <2> QED
    BY <1>1, <2>1, <2>2 DEF GateReady
<1>3. p \in 1..n
  BY <1>1, <1>2 DEF PopCount, Contract
<1>4. /\ pcm \in Seq(Sample) /\ Len(pcm) = p
      /\ \A i \in 1..p : pcm[i] = g.buf[i]
  <2>1. \A i \in 1..p : g.buf[i] \in Sample
    BY <1>1, <1>3
  <2>2. p \in Int /\ 1 \in Int
    BY <1>3
  <2>3. /\ pcm \in Seq(Sample)
        /\ Len(pcm) = IF 1 <= p THEN p - 1 + 1 ELSE 0
        /\ \A i \in 1 .. p - 1 + 1 : pcm[i] = g.buf[1 + i - 1]
    BY <2>1, <2>2, SubSeqProperties DEF PopPayload
  <2> QED
    BY <1>3, <2>3
<1>5. pcm # <<>>
  BY <1>3, <1>4, EmptySeq
<1>6. \A i \in 1..p : pcm[i] = <<g.sid, g.off - n + i - 1>>
  BY <1>3, <1>4 DEF IsTail
<1>7. pcm[1] = <<g.sid, g.off - n>>
  <2>1. 1 \in 1..p /\ g.off - n + 1 - 1 = g.off - n
    BY <1>1, <1>3
  <2> QED
    BY <1>6, <2>1
<1>8. IsRun(pcm)
  <2>1. \A i \in 1..p : pcm[i] = <<pcm[1][1], pcm[1][2] + i - 1>>
    BY <1>6, <1>7
  <2> QED
    BY <2>1, <1>4 DEF IsRun
<1>9. g.buf = pcm \o tail
  <2>1. 1 \in 1..(n + 1) /\ p \in (1 - 1)..n /\ n \in p..n
    BY <1>1, <1>3
  <2>2. SubSeq(g.buf, 1, p) \o SubSeq(g.buf, p + 1, n) = SubSeq(g.buf, 1, n)
    BY <1>1, <2>1, ConcatAdjacentSubSeq
  <2> QED
    BY <1>1, <2>2, SubSeqFull DEF PopPayload
<1>10. Len(tail) = n - p
  <2>1. Len(pcm \o tail) = Len(pcm) + Len(tail) /\ Len(tail) \in Nat
    <3>1. \A i \in (p + 1)..n : g.buf[i] \in Sample
      BY <1>1, <1>3
    <3>2. tail \in Seq(Sample)
      BY <3>1, <1>1, <1>3, SubSeqProperties
    <3> QED
      BY <3>2, <1>4, ConcatProperties, LenProperties
  <2> QED
    BY <2>1, <1>1, <1>3, <1>4, <1>9
<1>11. CASE g.ended /\ p = n
  <2>1. GatePopped(g, k) = ClearGate
    BY <1>11 DEF GatePopped
  <2>2. pcm = g.buf
    BY <1>1, <1>11, SubSeqFull DEF PopPayload
  <2>3. g.buf = pcm \o <<>>
    BY <1>1, <2>2, ConcatEmptySeq
  <2>4. GatePopped(g, k).buf = <<>>
    BY <2>1 DEF ClearGate
  <2>5. Follows(GatePopped(g, k), [kind |-> "play_stream", pcm |-> pcm])
    BY <2>1, ClearFollows
  <2> HIDE DEF pcm
  <2> QED
    BY <1>5, <1>7, <1>8, <2>3, <2>4, <2>5 DEF pcm
<1>12. CASE ~(g.ended /\ p = n)
  <2>1. GatePopped(g, k) = [g EXCEPT !.buf = tail]
    BY <1>12 DEF GatePopped
  <2>2. GatePopped(g, k).buf = tail /\ GatePopped(g, k).off = g.off /\ GatePopped(g, k).sid = g.sid
    BY <2>1 DEF Gate
  <2>3. pcm[1][1] = g.sid /\ pcm[1][2] + Len(pcm) = g.off - Len(tail)
    <3>1. pcm[1][1] = g.sid /\ pcm[1][2] = g.off - n
      BY <1>7
    <3>2. (g.off - n) + p = g.off - (n - p)
      BY <1>1, <1>3
    <3> QED
      BY <3>1, <3>2, <1>4, <1>10
  <2>4. Follows(GatePopped(g, k), [kind |-> "play_stream", pcm |-> pcm])
    BY <1>5, <2>2, <2>3 DEF Follows
  <2> QED
    BY <1>5, <1>7, <1>8, <1>9, <2>2, <2>4
<1> QED
  BY <1>11, <1>12

-----------------------------------------------------------------------------
\* Initially nothing is buffered and nothing was requested.
LEMMA InitPlaybackOK == Init => PlaybackOK
BY ClearFollows DEF Init, PlaybackOK

\* A chunk is accepted by the enabled speaker, or the audio state is cleared.
LEMMA OnAudioPlaybackOK ==
  ASSUME PlaybackInv, NEW c \in Chunks, OnAudio(c)
  PROVE  PlaybackOK'
<1>1. UNCHANGED <<speakerEnabled, queryVolume, request>>
  BY DEF OnAudio, serviceVars
<1>2. gate \in Gate /\ (speakerEnabled => Follows(gate, request))
  BY DEF PlaybackInv, Inv, AudioOK, PlaybackOK
<1>3. ASSUME speakerEnabled
      PROVE  Follows(gate', request)
  <2>1. CASE AcceptDirect(c)
    <3>1. PlainChunk(c) /\ GateAccepts(gate, c, PlaybackLimits)
      BY <2>1, ChunkFacts DEF AcceptDirect, DirectFits
    <3>2. gate' = GateAfter(gate, c)
      BY <1>3, <2>1 DEF AcceptDirect, Kept
    <3> QED
      BY <1>2, <1>3, <3>1, <3>2, AfterFollows
  <2>2. CASE AcceptResampled(c)
    <3>1. CASE YieldsNothing(c)
      BY <1>2, <1>3, <2>2, <3>1 DEF AcceptResampled
    <3>2. CASE ~YieldsNothing(c)
      <4>1. PlainChunk(Normalized(c)) /\ GateAccepts(gate, Normalized(c), PlaybackLimits)
        BY <2>2, <3>2, NormalizedIsPlain DEF PlaybackInv, Inv, AcceptResampled, ResampledFits
      <4>2. gate' = GateAfter(gate, Normalized(c))
        BY <1>3, <2>2, <3>2 DEF AcceptResampled, Kept
      <4> QED
        BY <1>2, <1>3, <4>1, <4>2, AfterFollows
    <3> QED
      BY <3>1, <3>2
  <2>3. CASE RejectAudio(c)
    BY <2>3, ClearFollows DEF RejectAudio, ClearAudioState
  <2> QED
    BY <2>1, <2>2, <2>3 DEF OnAudio
<1> QED
  BY <1>1, <1>3 DEF PlaybackInv, PlaybackOK

\* A fault clears the gate, or leaves it as it was.
LEMMA LatchFaultPlaybackOK ==
  ASSUME PlaybackInv, LatchFault, UNCHANGED <<speakerEnabled, queryVolume, request>>
  PROVE  PlaybackOK'
<1>1. gate' = gate \/ gate' = ClearGate
  BY DEF LatchFault, ClearAudioState, audioVars
<1> QED
  BY <1>1, ClearFollows DEF PlaybackInv, PlaybackOK

\* The request the timer publishes plays on, and the gate follows it.
LEMMA TickPlayPlaysOn ==
  ASSUME PlaybackInv, TickPlay
  PROVE  /\ PlaybackOK'
         /\ PlaysOn(request'.pcm)
         /\ gate.buf = request'.pcm \o gate'.buf
<1> DEFINE pcm == PopPayload(gate, PlaybackLimits)
<1>1. /\ gate \in Gate /\ IsTail(gate) /\ PlaybackLimits \in Contract
      /\ GateReady(gate, PlaybackLimits) /\ Follows(gate, request)
      /\ Len(gate.buf) \in Nat /\ gate.off \in Nat
  BY BridgeAssumption, LenProperties DEF PlaybackInv, PlaybackOK, Inv, AudioOK, TickPlay, Gate
<1>2. /\ request' = [kind |-> "play_stream", pcm |-> pcm]
      /\ gate' = GatePopped(gate, PlaybackLimits)
      /\ queryVolume' = FALSE
      /\ request'.pcm = pcm
  BY DEF TickPlay, PublishRequest, PlaybackInv, Inv, ServiceOK
<1>3. /\ pcm # <<>> /\ IsRun(pcm)
      /\ pcm[1] = <<gate.sid, gate.off - Len(gate.buf)>>
      /\ gate.buf = pcm \o gate'.buf
      /\ Follows(gate', request')
  BY <1>1, <1>2, PopPlaysOn
<1>4. PlaybackOK'
  BY <1>2, <1>3 DEF PlaybackOK
<1> HIDE DEF pcm
<1>5. pcm[1][1] = gate.sid /\ pcm[1][2] = gate.off - Len(gate.buf)
  BY <1>3
<1>6. PlaysOn(pcm)
  <2>1. CASE gate.off = Len(gate.buf)
    BY <1>1, <1>3, <1>5, <2>1 DEF PlaysOn
  <2>2. CASE gate.off # Len(gate.buf)
    BY <1>1, <1>3, <1>5, <2>2 DEF PlaysOn, Follows
  <2> QED
    BY <2>1, <2>2
<1> QED
  BY <1>2, <1>3, <1>4, <1>6

\* Every step keeps the invariant, and a step that asks for samples plays on.
LEMMA NextPlayback ==
  ASSUME PlaybackInv, [Next]_vars
  PROVE  /\ PlaybackOK'
         /\ identity' # identity /\ request'.kind = "play_stream" =>
              PlaysOn(request'.pcm) /\ gate.buf = request'.pcm \o gate'.buf
<1> DEFINE Goal == /\ PlaybackOK'
                   /\ identity' # identity /\ request'.kind = "play_stream" =>
                        PlaysOn(request'.pcm) /\ gate.buf = request'.pcm \o gate'.buf
<1>1. ASSUME NEW c \in Chunks, OnAudio(c)
      PROVE  Goal
  BY <1>1, OnAudioPlaybackOK DEF OnAudio, serviceVars
<1>2. CASE TickTimeout
  BY <1>2, LatchFaultPlaybackOK DEF TickTimeout
<1>3. CASE TickQueryVolume
  <2>1. /\ gate' = gate /\ speakerEnabled' = speakerEnabled /\ queryVolume' = FALSE
        /\ queryVolume /\ request'.kind = "get_volume"
    BY <1>3 DEF TickQueryVolume, PublishRequest, audioVars
  <2>2. speakerEnabled => gate.off = Len(gate.buf)
    BY <2>1 DEF PlaybackInv, PlaybackOK, Follows
  <2>3. PlaybackOK'
    BY <2>1, <2>2 DEF PlaybackOK, Follows
  <2> QED
    BY <2>1, <2>3
<1>4. CASE TickPlay
  BY <1>4, TickPlayPlaysOn
<1>5. ASSUME NEW a \in answers, OnResponse(a)
      PROVE  Goal
  <2>1. UNCHANGED <<speakerEnabled, queryVolume, request, identity>>
    BY <1>5 DEF OnResponse
  <2>2. CASE LatchFault
    BY <2>1, <2>2, LatchFaultPlaybackOK
  <2>3. CASE UNCHANGED audioVars
    BY <2>1, <2>3 DEF PlaybackInv, PlaybackOK, audioVars
  <2> QED
    BY <1>5, <2>2, <2>3 DEF OnResponse
<1>6. CASE Shutdown
  <2>1. gate' = ClearGate /\ queryVolume' = queryVolume
    BY <1>6 DEF Shutdown, ClearAudioState
  <2>2. \/ identity' = identity /\ request' = request
        \/ request'.kind = "stop_play"
    BY <1>6 DEF Shutdown
  <2> QED
    BY <2>1, <2>2, ClearFollows DEF PlaybackInv, PlaybackOK
<1>7. ASSUME NEW id \in 1..identity, NEW o \in Outcomes, RobotAnswers(id, o)
      PROVE  Goal
  BY <1>7 DEF RobotAnswers, audioVars, PlaybackInv, PlaybackOK
<1>8. CASE Elapse
  <2>1. gate' = GateAged(gate) /\ UNCHANGED <<speakerEnabled, queryVolume, request, identity>>
    BY <1>8 DEF Elapse
  <2>2. gate'.buf = gate.buf /\ gate'.off = gate.off /\ gate'.sid = gate.sid
    BY <2>1 DEF GateAged, PlaybackInv, Inv, AudioOK, Gate
  <2> QED
    BY <2>1, <2>2 DEF PlaybackInv, PlaybackOK, Follows
<1>9. CASE UNCHANGED vars
  BY <1>9 DEF vars, audioVars, serviceVars, PlaybackInv, PlaybackOK
<1> QED
  BY <1>1, <1>2, <1>3, <1>4, <1>5, <1>6, <1>7, <1>8, <1>9 DEF Next, Tick

\* Whatever arrives, in whatever order and however it is answered, the samples
\* of a PlayStream request are an unbroken run that begins its stream or goes on
\* where the request before it ended, taken off the front of the buffer.
THEOREM PlaysWithoutGaps == Spec => PlaybackIsContinuous
<1>1. Init => PlaybackOK
  BY InitPlaybackOK
<1>2. Inv /\ PlaybackOK /\ [Next]_vars => PlaybackOK'
  BY NextPlayback DEF PlaybackInv
<1>3. Inv /\ PlaybackOK /\ [Next]_vars =>
        [identity' # identity /\ request'.kind = "play_stream" =>
           PlaysOn(request'.pcm) /\ gate.buf = request'.pcm \o gate'.buf]_vars
  BY NextPlayback DEF PlaybackInv
<1> QED
  BY <1>1, <1>2, <1>3, Invariance, PTL DEF Spec, PlaybackIsContinuous

-----------------------------------------------------------------------------
(***************************************************************************)
(* One stream, three records                                               *)
(***************************************************************************)
RecordsOK ==
  /\ inputRate = SourceRate <=> source.sid # NoStream
  /\ inputRate = PlayRate => gate.sid # NoStream /\ ~gate.ended
  /\ inputRate = SourceRate => normalized.off = resampled.output
  /\ inputRate = SourceRate /\ normalized.seq > 0 =>
       /\ gate.sid = source.sid /\ ~gate.ended
       /\ gate.seq = normalized.seq /\ gate.off = normalized.off

\* The three rates are told apart.
LEMMA Rates == NoRate # PlayRate /\ NoRate # SourceRate /\ PlayRate # SourceRate
BY BridgeAssumption DEF NoRate

\* Nothing is open once the audio state is cleared.
LEMMA ClearedRecords ==
  ASSUME ClearAudioState
  PROVE  RecordsOK'
BY Rates DEF ClearAudioState, RecordsOK, ClearGate

\* Nothing has happened to the audio state.
LEMMA UnchangedRecords ==
  ASSUME RecordsOK, UNCHANGED audioVars
  PROVE  RecordsOK'
BY DEF RecordsOK, audioVars

\* Until its END, a kept gate is open on the chunk's stream, whether or not its
\* samples are kept.
LEMMA KeptFollows ==
  ASSUME NEW c, NEW g, c.end = FALSE
  PROVE  /\ Kept(GateAfter(g, c)).sid = c.sid
         /\ Kept(GateAfter(g, c)).ended = FALSE
         /\ Kept(GateAfter(g, c)).seq = c.seq + 1
         /\ Kept(GateAfter(g, c)).off = c.off + c.len
BY DEF Kept, GateDiscarded, GateAfter

\* A chunk at the play rate is taken only while no resampled stream is open.
LEMMA DirectRecords ==
  ASSUME RecordsOK, NEW c \in Chunks, RateFits(c), AcceptDirect(c)
  PROVE  RecordsOK'
<1>1. c.rate = PlayRate /\ c.end \in BOOLEAN /\ c.sid \in Streams
  BY ChunkFacts DEF AcceptDirect, DirectFits, PlainChunk
<1>2. inputRate # SourceRate /\ source.sid = NoStream
  BY <1>1, Rates DEF RateFits, RecordsOK
<1>3. /\ gate' = Kept(GateAfter(gate, c)) /\ inputRate' = RateAfter(c)
      /\ source' = source
  BY DEF AcceptDirect
<1>4. inputRate' # SourceRate
  BY <1>1, <1>3, Rates DEF RateAfter
<1>5. inputRate' = PlayRate => gate'.sid # NoStream /\ ~gate'.ended
  <2>1. CASE c.end
    BY <1>3, <2>1, Rates DEF RateAfter
  <2>2. CASE c.end = FALSE
    BY <1>1, <1>3, <2>2, KeptFollows, GateAssumption
  <2> QED
    BY <1>1, <2>1, <2>2
<1> QED
  BY <1>2, <1>3, <1>4, <1>5 DEF RecordsOK

\* The counters before a chunk the source gate accepts are those of its stream,
\* or fresh ones.
LEMMA BeforeAgree ==
  ASSUME AudioOK, RecordsOK, NEW c \in Chunks, SourceFits(c)
  PROVE  /\ NormalizedBefore(c).off = ResampledBefore(c).output
         /\ NormalizedBefore(c).seq > 0 =>
              /\ gate.sid = c.sid /\ ~gate.ended
              /\ gate.seq = NormalizedBefore(c).seq
              /\ gate.off = NormalizedBefore(c).off
<1>1. CASE c.start
  <2>1. NormalizedBefore(c).off = 0 /\ NormalizedBefore(c).seq = 0
    BY <1>1 DEF NormalizedBefore, NotNormalized
  <2>2. ResampledBefore(c).output = 0
    BY <1>1 DEF ResampledBefore, NotResampled
  <2> QED
    BY <2>1, <2>2
<1>2. CASE ~c.start
  <2>1. source.sid = c.sid /\ c.sid \in Streams
    BY <1>2, ChunkFacts DEF SourceFits, GateAccepts, GateOpened, PlainChunk
  <2>2. inputRate = SourceRate
    BY <2>1, GateAssumption DEF RecordsOK
  <2>3. NormalizedBefore(c) = normalized /\ ResampledBefore(c) = resampled
    BY <1>2 DEF NormalizedBefore, ResampledBefore
  <2> QED
    BY <2>1, <2>2, <2>3 DEF RecordsOK
<1> QED
  BY <1>1, <1>2

\* A chunk that is resampled first moves the three records together.
LEMMA ResampledRecords ==
  ASSUME AudioOK, RecordsOK, NEW c \in Chunks, AcceptResampled(c)
  PROVE  RecordsOK'
<1> DEFINE d == Normalized(c)
           before == NormalizedBefore(c)
<1>1. /\ SourceFits(c) /\ c.rate = SourceRate
      /\ c.end \in BOOLEAN /\ c.sid \in Streams /\ c.sid # NoStream
  BY ChunkFacts, GateAssumption DEF AcceptResampled, ResampledFits, SourceFits, PlainChunk
<1>2. /\ source' = GateDiscarded(GateAfter(source, c))
      /\ resampled' = ResampledAfter(c)
  BY DEF AcceptResampled
<1>3. /\ before \in [seq: Nat, off: Nat, disc: BOOLEAN]
      /\ ResampledBefore(c).output \in Nat /\ ResampledAfter(c).output \in Nat
  BY <1>1, ResamplerFacts, ChunkFacts DEF AudioOK, NormalizedBefore, NotNormalized
<1>4. /\ before.off = ResampledBefore(c).output
      /\ before.seq > 0 => /\ gate.sid = c.sid /\ ~gate.ended
                           /\ gate.seq = before.seq /\ gate.off = before.off
  BY <1>1, BeforeAgree
<1>5. /\ d.sid = c.sid /\ d.seq = before.seq /\ d.off = before.off /\ d.end = c.end
      /\ d.len = ResampledAfter(c).output - ResampledBefore(c).output
  BY DEF Normalized
<1>6. c.end = FALSE => source'.sid = c.sid
  BY <1>2 DEF GateDiscarded, GateAfter
<1>7. c.end => source'.sid = NoStream
  BY <1>2 DEF GateDiscarded, GateAfter, ClearGate
<1>8. CASE YieldsNothing(c)
  <2>1. c.end = FALSE
    BY <1>1, <1>8 DEF AcceptResampled, ResampledFits
  <2>2. normalized' = before /\ inputRate' = SourceRate /\ gate' = gate
    BY <1>1, <1>8 DEF AcceptResampled
  <2>3. d.len = 0
    BY <1>8 DEF YieldsNothing
  <2>4. resampled'.output = before.off
    BY <1>2, <1>3, <1>4, <1>5, <2>3
  <2> HIDE DEF before, d
  <2> QED
    BY <1>1, <1>4, <1>6, <2>1, <2>2, <2>4, Rates DEF RecordsOK
<1>9. CASE ~YieldsNothing(c)
  <2>1. /\ normalized' = [seq |-> before.seq + 1, off |-> before.off + d.len, disc |-> FALSE]
        /\ inputRate' = RateAfter(c)
        /\ gate' = Kept(GateAfter(gate, d))
    BY <1>9 DEF AcceptResampled
  <2> HIDE DEF before, d
  <2>2. CASE c.end
    <3>1. inputRate' = NoRate
      BY <2>1, <2>2 DEF RateAfter
    <3> QED
      BY <1>7, <2>2, <3>1, Rates DEF RecordsOK
  <2>3. CASE c.end = FALSE
    <3>1. inputRate' = SourceRate /\ source'.sid = c.sid
      BY <1>1, <1>6, <2>1, <2>3 DEF RateAfter
    <3>2. /\ gate'.sid = c.sid /\ ~gate'.ended
          /\ gate'.seq = before.seq + 1 /\ gate'.off = before.off + d.len
      BY <1>5, <2>1, <2>3, KeptFollows
    <3>3. normalized'.seq = before.seq + 1 /\ normalized'.off = before.off + d.len
      BY <2>1
    <3>4. resampled'.output = before.off + d.len
      BY <1>2, <1>3, <1>4, <1>5
    <3> QED
      BY <1>1, <3>1, <3>2, <3>3, <3>4, Rates DEF RecordsOK
  <2> QED
    BY <1>1, <2>2, <2>3
<1> QED
  BY <1>8, <1>9

\* The request gate gives samples away, or its whole stream once it has ended.
LEMMA PlayedRecords ==
  ASSUME RecordsOK, TickPlay
  PROVE  RecordsOK'
<1>1. /\ gate' = GatePopped(gate, PlaybackLimits)
      /\ UNCHANGED <<source, resampled, inputRate, normalized>>
  BY DEF TickPlay
<1>2. CASE gate.ended
  BY <1>1, <1>2, Rates DEF RecordsOK
<1>3. CASE ~gate.ended
  <2>1. /\ gate'.sid = gate.sid /\ gate'.ended = gate.ended
        /\ gate'.seq = gate.seq /\ gate'.off = gate.off
    BY <1>1, <1>3 DEF GatePopped
  <2> QED
    BY <1>1, <2>1 DEF RecordsOK
<1> QED
  BY <1>2, <1>3

\* Time changes nothing but ages.
LEMMA ElapsedRecords ==
  ASSUME AudioOK, RecordsOK, Elapse
  PROVE  RecordsOK'
<1>1. /\ gate' = GateAged(gate) /\ source' = GateAged(source)
      /\ UNCHANGED <<resampled, inputRate, normalized>>
  BY DEF Elapse
<1>2. /\ gate'.sid = gate.sid /\ gate'.ended = gate.ended
      /\ gate'.seq = gate.seq /\ gate'.off = gate.off
      /\ source'.sid = source.sid
  BY <1>1 DEF GateAged
<1> QED
  BY <1>1, <1>2 DEF RecordsOK

\* Every step keeps the records together.
LEMMA NextRecords ==
  ASSUME Inv, RecordsOK, [Next]_vars
  PROVE  RecordsOK'
<1>0. AudioOK
  BY DEF Inv
<1>1. ASSUME NEW c \in Chunks, OnAudio(c)
      PROVE  RecordsOK'
  BY <1>0, <1>1, DirectRecords, ResampledRecords, ClearedRecords DEF OnAudio, RejectAudio
<1>2. ASSUME LatchFault
      PROVE  RecordsOK'
  BY <1>2, ClearedRecords, UnchangedRecords DEF LatchFault
<1>3. CASE TickTimeout
  BY <1>2, <1>3 DEF TickTimeout
<1>4. CASE TickQueryVolume
  BY <1>4, UnchangedRecords DEF TickQueryVolume
<1>5. CASE TickPlay
  BY <1>5, PlayedRecords
<1>6. ASSUME NEW a \in answers, OnResponse(a)
      PROVE  RecordsOK'
  BY <1>2, <1>6, UnchangedRecords DEF OnResponse, audioVars
<1>7. CASE Shutdown
  BY <1>7, ClearedRecords DEF Shutdown
<1>8. ASSUME NEW id \in 1..identity, NEW o \in Outcomes, RobotAnswers(id, o)
      PROVE  RecordsOK'
  BY <1>8, UnchangedRecords DEF RobotAnswers
<1>9. CASE Elapse
  BY <1>0, <1>9, ElapsedRecords
<1>10. CASE UNCHANGED vars
  BY <1>10, UnchangedRecords DEF vars
<1> QED
  BY <1>1, <1>3, <1>4, <1>5, <1>6, <1>7, <1>8, <1>9, <1>10 DEF Next, Tick

\* The open rate, the source gate, the resampler's counters and the request gate
\* never come apart: a chunk the source gate accepts is not refused for a
\* counter _on_audio itself made up.
THEOREM RecordsAgree == Spec => []StreamsAgree
<1>1. Init => RecordsOK
  BY Rates DEF Init, RecordsOK, ClearGate
<1>2. Inv /\ RecordsOK /\ [Next]_vars => RecordsOK'
  BY NextRecords
<1>3. RecordsOK => StreamsAgree
  BY DEF RecordsOK, StreamsAgree
<1> QED
  BY <1>1, <1>2, <1>3, Invariance, PTL DEF Spec

-----------------------------------------------------------------------------
(***************************************************************************)
(* Counted answers                                                         *)
(***************************************************************************)

\* Requests up to this one are no longer waited for.
Settled == IF inflight = NoRequest THEN identity ELSE inflight.id - 1

\* The robot's successes among the answers A to requests up to n.
Successes(A, n) == {a \in A : a.outcome # "error" /\ a.id <= n}

AnswersOK ==
  /\ IsFiniteSet(answers)
  /\ inflight # NoRequest => inflight.id <= identity
  /\ requestsOk <= Cardinality(Successes(answers, Settled))
  /\ playRequestsOk <= requestsOk

\* More answers, or more requests settled, are no fewer successes.
LEMMA SuccessesGrow ==
  ASSUME NEW A, NEW B, IsFiniteSet(B), A \subseteq B, B \subseteq [id: Nat, outcome: Outcomes],
         NEW m \in Int, NEW n \in Int, m <= n
  PROVE  /\ IsFiniteSet(Successes(A, m))
         /\ Cardinality(Successes(A, m)) \in Nat
         /\ Cardinality(Successes(B, n)) \in Nat
         /\ Cardinality(Successes(A, m)) <= Cardinality(Successes(B, n))
<1>1. Successes(A, m) \subseteq Successes(B, n) /\ Successes(B, n) \subseteq B
  <2>1. \A a \in B : a.id \in Nat
    OBVIOUS
  <2> QED
    BY <2>1 DEF Successes
<1>2. IsFiniteSet(Successes(B, n))
  BY <1>1, FS_Subset
<1>3. /\ IsFiniteSet(Successes(A, m))
      /\ Cardinality(Successes(A, m)) <= Cardinality(Successes(B, n))
  BY <1>1, <1>2, FS_Subset
<1> QED
  BY <1>2, <1>3, FS_CardinalityType

\* Requests and answers have integer identities.
LEMMA SettledIsInt ==
  ASSUME ServiceOK
  PROVE  Settled \in Int
BY DEF Settled, ServiceOK

\* A step that neither counts an answer nor waits again for a settled request
\* keeps the bound.
LEMMA NotCounted ==
  ASSUME ServiceOK, ServiceOK', AnswersOK,
         IsFiniteSet(answers'), answers \subseteq answers',
         inflight' # NoRequest => inflight'.id <= identity',
         Settled <= Settled', UNCHANGED <<requestsOk, playRequestsOk>>
  PROVE  AnswersOK'
<1>1. Settled \in Int /\ Settled' \in Int
  BY DEF Settled, ServiceOK
<1>2. answers' \subseteq [id: Nat, outcome: Outcomes]
  BY DEF ServiceOK
<1>3. /\ Cardinality(Successes(answers, Settled)) \in Nat
      /\ Cardinality(Successes(answers', Settled')) \in Nat
      /\ Cardinality(Successes(answers, Settled)) <= Cardinality(Successes(answers', Settled'))
  BY <1>1, <1>2, SuccessesGrow
<1>4. requestsOk \in Nat
  BY DEF ServiceOK
<1>5. requestsOk' <= Cardinality(Successes(answers', Settled'))
  BY <1>3, <1>4 DEF AnswersOK
<1> QED
  BY <1>5 DEF AnswersOK

\* The answer that is counted is a success not counted before: those were to
\* requests settled earlier.
LEMMA Counted ==
  ASSUME ServiceOK, AnswersOK, NEW a \in answers, a.outcome # "error",
         inflight # NoRequest, a.id = inflight.id
  PROVE  /\ Cardinality(Successes(answers, identity)) \in Nat
         /\ requestsOk + 1 <= Cardinality(Successes(answers, identity))
<1> DEFINE early == Successes(answers, Settled)
<1>1. /\ answers \subseteq [id: Nat, outcome: Outcomes] /\ a.id \in Nat
      /\ identity \in Nat /\ requestsOk \in Nat
  BY DEF ServiceOK
<1>2. Settled = a.id - 1 /\ Settled \in Int /\ a.id <= identity
  BY <1>1 DEF Settled, AnswersOK
<1>3. IsFiniteSet(early) /\ Cardinality(early) \in Nat
  BY <1>1, <1>2, SuccessesGrow DEF AnswersOK
<1>4. a \notin early
  BY <1>1, <1>2 DEF Successes
<1>5. Cardinality(early \cup {a}) = Cardinality(early) + 1
  BY <1>3, <1>4, FS_AddElement
<1>6. early \cup {a} \subseteq Successes(answers, identity)
  BY <1>1, <1>2 DEF Successes
<1>7. /\ IsFiniteSet(Successes(answers, identity))
      /\ Cardinality(Successes(answers, identity)) \in Nat
  BY <1>1, SuccessesGrow DEF AnswersOK
<1>8. Cardinality(early \cup {a}) <= Cardinality(Successes(answers, identity))
  BY <1>6, <1>7, FS_Subset
<1>9. requestsOk <= Cardinality(early)
  BY DEF AnswersOK
<1> HIDE DEF early
<1> QED
  BY <1>1, <1>3, <1>5, <1>7, <1>8, <1>9

\* Every step keeps the bound.
LEMMA NextAnswers ==
  ASSUME ServiceOK, ServiceOK', AnswersOK, [Next]_vars
  PROVE  AnswersOK'
<1>1. /\ identity \in Nat /\ inflight.id \in Nat /\ requestsOk \in Nat /\ playRequestsOk \in Nat
      /\ IsFiniteSet(answers) /\ NoRequest.id = 0
      /\ inflight # NoRequest => inflight.id <= identity
  BY DEF ServiceOK, AnswersOK, NoRequest
<1>2. Settled <= identity
  BY <1>1 DEF Settled
<1>3. ASSUME LatchFault, UNCHANGED <<requestsOk, playRequestsOk, identity, answers>>
      PROVE  AnswersOK'
  <2>1. inflight' = NoRequest /\ Settled' = identity
    BY <1>3 DEF LatchFault, Settled
  <2> QED
    BY <1>1, <1>2, <1>3, <2>1, NotCounted
<1>4. ASSUME NEW kind, NEW pcm, PublishRequest(kind, pcm), inflight = NoRequest,
             UNCHANGED <<requestsOk, playRequestsOk, answers>>
      PROVE  AnswersOK'
  <2>1. /\ identity' = identity + 1
        /\ inflight' = [id |-> identity + 1, kind |-> kind, age |-> 0]
    BY <1>4 DEF PublishRequest
  <2>2. inflight'.id = identity + 1 /\ inflight' # NoRequest
    BY <1>1, <2>1 DEF NoRequest
  <2>3. Settled' = identity
    BY <1>1, <2>2 DEF Settled
  <2> QED
    BY <1>1, <1>2, <1>4, <2>1, <2>2, <2>3, NotCounted
<1>5. ASSUME UNCHANGED <<requestsOk, playRequestsOk, inflight, identity, answers>>
      PROVE  AnswersOK'
  BY <1>5 DEF AnswersOK, Settled
<1>6. ASSUME NEW c \in Chunks, OnAudio(c)
      PROVE  AnswersOK'
  BY <1>5, <1>6 DEF OnAudio, serviceVars
<1>7. CASE TickTimeout
  BY <1>3, <1>7 DEF TickTimeout
<1>8. CASE TickQueryVolume
  BY <1>4, <1>8 DEF TickQueryVolume
<1>9. CASE TickPlay
  BY <1>4, <1>9 DEF TickPlay
<1>10. ASSUME NEW a \in answers, OnResponse(a)
       PROVE  AnswersOK'
  <2>1. /\ inflight # NoRequest /\ a.id = inflight.id
        /\ UNCHANGED <<identity, answers>>
    BY <1>10 DEF OnResponse
  <2>2. inflight' = NoRequest
    BY <1>10 DEF OnResponse, LatchFault
  <2>3. Settled' = identity
    BY <2>1, <2>2 DEF Settled
  <2>4. CASE a.outcome = "error"
    BY <1>3, <1>10, <2>1, <2>4 DEF OnResponse
  <2>5. CASE a.outcome # "error"
    <3>1. requestsOk' = requestsOk + 1 /\ playRequestsOk' \in {playRequestsOk, playRequestsOk + 1}
      BY <1>10, <2>5 DEF OnResponse
    <3>2. requestsOk' <= Cardinality(Successes(answers', Settled'))
      BY <2>1, <2>3, <2>5, <3>1, Counted
    <3>3. playRequestsOk' <= requestsOk'
      BY <1>1, <3>1 DEF AnswersOK
    <3> QED
      BY <1>1, <2>1, <2>2, <3>2, <3>3 DEF AnswersOK
  <2> QED
    BY <2>4, <2>5
<1>11. CASE Shutdown
  <2>1. /\ identity' \in {identity, identity + 1}
        /\ UNCHANGED <<inflight, requestsOk, playRequestsOk, answers>>
    BY <1>11 DEF Shutdown
  <2>2. identity <= identity'
    BY <1>1, <2>1
  <2>3. Settled <= Settled' /\ (inflight' # NoRequest => inflight'.id <= identity')
    BY <1>1, <2>1, <2>2 DEF Settled
  <2> QED
    BY <1>1, <2>1, <2>3, NotCounted
<1>12. ASSUME NEW id \in 1..identity, NEW o \in Outcomes, RobotAnswers(id, o)
       PROVE  AnswersOK'
  <2>1. /\ answers' = answers \cup {[id |-> id, outcome |-> o]}
        /\ UNCHANGED <<inflight, identity, requestsOk, playRequestsOk>>
    BY <1>12 DEF RobotAnswers
  <2>2. IsFiniteSet(answers') /\ answers \subseteq answers'
    BY <1>1, <2>1, FS_AddElement
  <2>3. Settled \in Int /\ Settled' = Settled
    BY <2>1, SettledIsInt DEF Settled
  <2> QED
    BY <1>1, <2>1, <2>2, <2>3, NotCounted
<1>13. CASE Elapse
  <2>1. /\ inflight'.id = inflight.id
        /\ UNCHANGED <<identity, requestsOk, playRequestsOk, answers>>
    BY <1>13 DEF Elapse
  <2>2. inflight = NoRequest => inflight' = NoRequest
    BY <1>13 DEF Elapse
  <2>3. Settled <= Settled'
    BY <1>1, <2>1, <2>2 DEF Settled
  <2> QED
    BY <1>1, <2>1, <2>2, <2>3, NotCounted
<1>14. CASE UNCHANGED vars
  BY <1>5, <1>14 DEF vars, serviceVars
<1> QED
  BY <1>6, <1>7, <1>8, <1>9, <1>10, <1>11, <1>12, <1>13, <1>14 DEF Next, Tick

\* _requests_ok counts successes the robot gave, each of them once, however late
\* or often an answer comes; _play_requests_ok counts some of them.
THEOREM AnswersCounted == Spec => []CountsAnswersOnce
<1>1. Init => AnswersOK
  <2> SUFFICES ASSUME Init PROVE AnswersOK
    OBVIOUS
  <2>1. IsFiniteSet(answers) /\ Successes(answers, Settled) = {}
    BY FS_EmptySet DEF Init, Successes
  <2>2. Cardinality(Successes(answers, Settled)) = 0
    BY <2>1, FS_EmptySet
  <2>3. inflight = NoRequest /\ requestsOk = 0 /\ playRequestsOk = 0
    BY DEF Init
  <2> QED
    BY <2>1, <2>2, <2>3 DEF AnswersOK
<1>2. Inv /\ Inv' /\ AnswersOK /\ [Next]_vars => AnswersOK'
  BY NextAnswers DEF Inv
<1>3. Inv /\ AnswersOK => CountsAnswersOnce
  <2> SUFFICES ASSUME Inv, AnswersOK PROVE CountsAnswersOnce
    OBVIOUS
  <2> DEFINE all == {a \in answers : a.outcome # "error"}
             early == Successes(answers, Settled)
  <2>1. all \subseteq answers /\ early \subseteq all
    BY DEF Successes
  <2>2. IsFiniteSet(all)
    BY <2>1, FS_Subset DEF AnswersOK
  <2>3. Cardinality(early) <= Cardinality(all) /\ IsFiniteSet(early)
    BY <2>1, <2>2, FS_Subset
  <2>4. Cardinality(early) \in Nat /\ Cardinality(all) \in Nat
    BY <2>2, <2>3, FS_CardinalityType
  <2>5. requestsOk \in Nat /\ requestsOk <= Cardinality(early) /\ playRequestsOk <= requestsOk
    BY DEF Inv, ServiceOK, AnswersOK
  <2> HIDE DEF early
  <2>6. requestsOk <= Cardinality(all)
    BY <2>3, <2>4, <2>5
  <2> QED
    BY <2>5, <2>6 DEF CountsAnswersOnce
<1> QED
  BY <1>1, <1>2, <1>3, Invariance, PTL DEF Spec
=============================================================================
