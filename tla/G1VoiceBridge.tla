--------------------------- MODULE G1VoiceBridge ---------------------------
(***************************************************************************)
(* G1VoiceBridge: the node that turns the AudioChunks of `speaker_out'     *)
(* into PlayStream requests of the Unitree voice service.                  *)
(*                                                                         *)
(* The node is single-threaded (rclpy.spin), so each callback is one       *)
(* action; what interleaves is the arrival of chunks, the 20 ms timer, the *)
(* answers of the robot and the passage of time.  Answers may be late,     *)
(* repeated or lost: `answers' only grows, any member may be delivered any *)
(* number of times and at any moment, or never.                            *)
(*                                                                         *)
(* Time is counted in units and only as ages, which stop at MaxAge: the    *)
(* code compares differences of steady time stamps with its deadlines.     *)
(***************************************************************************)
EXTENDS PcmGate, FiniteSets

CONSTANTS
  Chunks,         \* the chunks that may arrive
  PlaybackLimits, \* PcmContract of the request gate (16 kHz)
  SourceLimits,   \* PcmContract of the source gate (22.05 kHz)
  PlayRate,       \* 16000: passed to the gate as it is
  SourceRate,     \* 22050: resampled to PlayRate first
  Timeout,        \* request_timeout_s, in time units
  MaxRequests     \* bound: requests the timer publishes in a behaviour

ASSUME BridgeAssumption ==
  /\ Chunks \subseteq Chunk
  /\ PlaybackLimits \in Contract /\ SourceLimits \in Contract
  /\ PlayRate \in Nat \ {0} /\ SourceRate \in Nat \ {0}
  /\ PlayRate < SourceRate
  /\ Timeout \in Nat /\ Timeout < MaxAge
  /\ MaxRequests \in Nat

VARIABLES
  speakerEnabled,  \* parameter speaker_enabled, fixed at start-up
  gate,            \* self._gate
  source,          \* self._source_gate; its buffer is always discarded
  resampled,       \* self._resampler: samples taken in and given out
  inputRate,       \* self._input_rate, NoRate for None
  normalized,      \* self._normalized_sequence, _sample_offset, _start_flags
  queryVolume,     \* self._query_volume
  inflight,        \* self._inflight_id, _kind and _since_s, or NoRequest
  fault,           \* self._latched_fault is not None
  requestsOk,      \* self._requests_ok
  playRequestsOk,  \* self._play_requests_ok
  volumeConfirmed, \* self._volume_confirmed
  identity,        \* self._identity_counter: requests published so far
  request,         \* the last request put on /api/voice/request
  answers,         \* what the robot has answered, per request identity
  running          \* the node has not been shut down

audioVars == <<gate, source, resampled, inputRate, normalized>>
serviceVars == <<queryVolume, inflight, fault, requestsOk, playRequestsOk,
                 volumeConfirmed, identity, request, answers>>
vars == <<audioVars, serviceVars, speakerEnabled, running>>

NoRate == 0
NoRequest == [id |-> 0, kind |-> "none", age |-> 0]
Kinds == {"get_volume", "play_stream"}
Outcomes == {"ok", "badVolume", "error"}   \* badVolume: status 0, unusable data

TypeOK ==
  /\ speakerEnabled \in BOOLEAN /\ running \in BOOLEAN
  /\ gate \in Gate /\ Len(gate.buf) <= PlaybackLimits.maxBuffer
  /\ source \in Gate /\ source.buf = <<>>
  /\ resampled \in [input: Nat, output: Nat]
  /\ inputRate \in {NoRate, PlayRate, SourceRate}
  /\ normalized \in [seq: Nat, off: Nat, disc: BOOLEAN]
  /\ queryVolume \in BOOLEAN /\ fault \in BOOLEAN /\ volumeConfirmed \in BOOLEAN
  /\ inflight \in [id: Nat, kind: Kinds \cup {"none"}, age: Nat]
  /\ requestsOk \in Nat /\ playRequestsOk \in Nat /\ identity \in Nat
  /\ request \in [kind: Kinds \cup {"none", "stop_play"}, pcm: Seq(Sample)]
  /\ answers \subseteq [id: Nat, outcome: Outcomes]

NotNormalized == [seq |-> 0, off |-> 0, disc |-> FALSE]
NotResampled == [input |-> 0, output |-> 0]

Init ==
  /\ speakerEnabled \in BOOLEAN
  /\ running = TRUE
  /\ gate = ClearGate /\ source = ClearGate
  /\ resampled = NotResampled
  /\ inputRate = NoRate
  /\ normalized = NotNormalized
  /\ queryVolume \in BOOLEAN
  /\ inflight = NoRequest
  /\ fault = FALSE
  /\ requestsOk = 0 /\ playRequestsOk = 0
  /\ volumeConfirmed = FALSE
  /\ identity = 0
  /\ request = [kind |-> "none", pcm |-> <<>>]
  /\ answers = {}

-----------------------------------------------------------------------------
(***************************************************************************)
(* Receiving audio                                                         *)
(***************************************************************************)

\* Faulty variant: only the gates are cleared, the open rate stays.
ClearAudioState_KeepsRate ==
  /\ gate' = ClearGate /\ source' = ClearGate
  /\ resampled' = NotResampled
  /\ normalized' = NotNormalized
  /\ UNCHANGED inputRate

\* _clear_audio_state
ClearAudioState ==
  /\ gate' = ClearGate /\ source' = ClearGate
  /\ resampled' = NotResampled
  /\ inputRate' = NoRate
  /\ normalized' = NotNormalized

\* The first chunk of an utterance fixes the rate until END.
RateFits(c) == IF inputRate = NoRate THEN c.start ELSE c.rate = inputRate

RateAfter(c) == IF c.end THEN NoRate ELSE c.rate

\* A chunk at PlayRate goes to the gate as it is.
DirectFits(c) == c.rate = PlayRate /\ GateAccepts(gate, c, PlaybackLimits)

\* LinearPcmResampler.feed: samples it has given out after n samples taken in,
\* rounded down until END and to the nearest at END.
ResampledTotal(n, end) ==
  IF end THEN (n * PlayRate + SourceRate \div 2) \div SourceRate
  ELSE (n * PlayRate) \div SourceRate

ResampledBefore(c) == IF c.start THEN NotResampled ELSE resampled

ResampledAfter(c) ==
  LET n == ResampledBefore(c).input + c.len
  IN [input |-> n, output |-> ResampledTotal(n, c.end)]

NormalizedBefore(c) ==
  IF c.start THEN [NotNormalized EXCEPT !.disc = c.disc] ELSE normalized

\* The chunk that carries the resampled PCM of c.  START goes to the first that
\* has any PCM, and so does the DISCONTINUITY of the source's START.
Normalized(c) ==
  LET n == NormalizedBefore(c)
  IN [sid |-> c.sid, seq |-> n.seq, off |-> n.off,
      len |-> ResampledAfter(c).output - ResampledBefore(c).output,
      rate |-> PlayRate, start |-> n.seq = 0, end |-> c.end,
      disc |-> n.seq = 0 /\ n.disc, wellFormed |-> c.wellFormed]

SourceFits(c) == c.rate = SourceRate /\ GateAccepts(source, c, SourceLimits)

\* Too few source samples so far for even one output sample.
YieldsNothing(c) == Normalized(c).len = 0

ResampledFits(c) ==
  /\ SourceFits(c)
  /\ IF YieldsNothing(c) THEN ~c.end
     ELSE GateAccepts(gate, Normalized(c), PlaybackLimits)

\* A disabled speaker validates the stream and drops its samples.
Kept(g) == IF speakerEnabled THEN g ELSE GateDiscarded(g)

AcceptDirect(c) ==
  /\ DirectFits(c)
  /\ gate' = Kept(GateAfter(gate, c))
  /\ inputRate' = RateAfter(c)
  /\ UNCHANGED <<source, resampled, normalized>>

AcceptResampled(c) ==
  /\ ResampledFits(c)
  /\ source' = GateDiscarded(GateAfter(source, c))
  /\ resampled' = ResampledAfter(c)
  /\ IF YieldsNothing(c)
     THEN /\ normalized' = NormalizedBefore(c)
          /\ inputRate' = c.rate
          /\ UNCHANGED gate
     ELSE /\ normalized' = [seq |-> NormalizedBefore(c).seq + 1,
                            off |-> NormalizedBefore(c).off + Normalized(c).len,
                            disc |-> FALSE]
          /\ inputRate' = RateAfter(c)
          /\ gate' = Kept(GateAfter(gate, Normalized(c)))

\* Every exception of _on_audio ends here; the node stays up.
RejectAudio(c) ==
  /\ ~(RateFits(c) /\ (DirectFits(c) \/ ResampledFits(c)))
  /\ ClearAudioState

\* _on_audio
OnAudio(c) ==
  /\ running
  /\ \/ RateFits(c) /\ (AcceptDirect(c) \/ AcceptResampled(c))
     \/ RejectAudio(c)
  /\ UNCHANGED <<serviceVars, speakerEnabled, running>>

-----------------------------------------------------------------------------
(***************************************************************************)
(* The voice service                                                       *)
(***************************************************************************)

\* Faulty variant: the fault is recorded, the pending answer still awaited.
LatchFault_KeepsInflight ==
  /\ fault' = TRUE
  /\ UNCHANGED inflight
  /\ UNCHANGED audioVars

\* _latch_fault: only the first fault clears the audio, every one the request.
LatchFault ==
  /\ fault' = TRUE
  /\ inflight' = NoRequest
  /\ IF fault THEN UNCHANGED audioVars ELSE ClearAudioState

\* _publish_request
PublishRequest(kind, pcm) ==
  /\ identity < MaxRequests
  /\ identity' = identity + 1
  /\ inflight' = [id |-> identity + 1, kind |-> kind, age |-> 0]
  /\ request' = [kind |-> kind, pcm |-> pcm]

\* Faulty variant: the timer pops without waiting for the answer.
TickPlay_Pipelined ==
  /\ running
  /\ ~fault /\ ~queryVolume /\ speakerEnabled
  /\ GateReady(gate, PlaybackLimits)
  /\ PublishRequest("play_stream", PopPayload(gate, PlaybackLimits))
  /\ gate' = GatePopped(gate, PlaybackLimits)
  /\ UNCHANGED <<source, resampled, inputRate, normalized, queryVolume, fault,
                 requestsOk, playRequestsOk, volumeConfirmed, answers, speakerEnabled, running>>

\* _tick, an answer overdue
TickTimeout ==
  /\ running
  /\ inflight # NoRequest /\ inflight.age > Timeout
  /\ LatchFault
  /\ UNCHANGED <<queryVolume, requestsOk, playRequestsOk, volumeConfirmed,
                 identity, request, answers, speakerEnabled, running>>

\* _tick, the readiness question of start-up
TickQueryVolume ==
  /\ running
  /\ inflight = NoRequest /\ ~fault /\ queryVolume
  /\ queryVolume' = FALSE
  /\ PublishRequest("get_volume", <<>>)
  /\ UNCHANGED <<audioVars, fault, requestsOk, playRequestsOk, volumeConfirmed,
                 answers, speakerEnabled, running>>

\* _tick, a request's worth of samples is ready
TickPlay ==
  /\ running
  /\ inflight = NoRequest /\ ~fault /\ ~queryVolume /\ speakerEnabled
  /\ GateReady(gate, PlaybackLimits)
  /\ PublishRequest("play_stream", PopPayload(gate, PlaybackLimits))
  /\ gate' = GatePopped(gate, PlaybackLimits)
  /\ UNCHANGED <<source, resampled, inputRate, normalized, queryVolume, fault,
                 requestsOk, playRequestsOk, volumeConfirmed, answers, speakerEnabled, running>>

Tick == TickTimeout \/ TickQueryVolume \/ TickPlay

\* Faulty variant: the identity of an answer is not compared.
OnResponse_AnyIdentity(a) ==
  /\ running
  /\ inflight # NoRequest
  /\ inflight' = NoRequest
  /\ a.outcome # "error"
  /\ requestsOk' = requestsOk + 1
  /\ playRequestsOk' = playRequestsOk + (IF inflight.kind = "play_stream" THEN 1 ELSE 0)
  /\ volumeConfirmed' = TRUE
  /\ UNCHANGED <<audioVars, queryVolume, fault, identity, request, answers,
                 speakerEnabled, running>>

\* _on_response; an answer to anything but the request in flight is ignored.
OnResponse(a) ==
  /\ running
  /\ inflight # NoRequest /\ a.id = inflight.id
  /\ IF a.outcome = "error"
     THEN /\ LatchFault
          /\ UNCHANGED <<requestsOk, playRequestsOk, volumeConfirmed>>
     ELSE /\ requestsOk' = requestsOk + 1
          /\ IF inflight.kind = "play_stream"
             THEN /\ playRequestsOk' = playRequestsOk + 1
                  /\ inflight' = NoRequest
                  /\ UNCHANGED <<fault, volumeConfirmed, audioVars>>
             ELSE /\ UNCHANGED playRequestsOk
                  /\ IF a.outcome = "ok"
                     THEN /\ volumeConfirmed' = TRUE
                          /\ inflight' = NoRequest
                          /\ UNCHANGED <<fault, audioVars>>
                     ELSE LatchFault /\ UNCHANGED volumeConfirmed
  /\ UNCHANGED <<queryVolume, identity, request, answers, speakerEnabled, running>>

\* shutdown(): a best-effort PlayStop, if anything is known to have played.
Shutdown ==
  /\ running
  /\ running' = FALSE
  /\ ClearAudioState
  /\ IF speakerEnabled /\ playRequestsOk > 0
     THEN /\ identity' = identity + 1
          /\ request' = [kind |-> "stop_play", pcm |-> <<>>]
     ELSE UNCHANGED <<identity, request>>
  /\ UNCHANGED <<queryVolume, inflight, fault, requestsOk, playRequestsOk,
                 volumeConfirmed, answers, speakerEnabled>>

-----------------------------------------------------------------------------
(***************************************************************************)
(* The environment: the robot answers each request at most once, and time  *)
(* passes.                                                                 *)
(***************************************************************************)
RobotAnswers(id, outcome) ==
  /\ id \in 1..identity
  /\ \A a \in answers : a.id # id
  /\ answers' = answers \cup {[id |-> id, outcome |-> outcome]}
  /\ UNCHANGED <<audioVars, queryVolume, inflight, fault, requestsOk, playRequestsOk,
                 volumeConfirmed, identity, request, speakerEnabled, running>>

Elapse ==
  /\ running
  /\ gate' = GateAged(gate)
  /\ source' = GateAged(source)
  /\ inflight' = IF inflight = NoRequest \/ inflight.age = MaxAge THEN inflight
                 ELSE [inflight EXCEPT !.age = @ + 1]
  /\ UNCHANGED <<resampled, inputRate, normalized, queryVolume, fault, requestsOk,
                 playRequestsOk, volumeConfirmed, identity, request, answers,
                 speakerEnabled, running>>

Next ==
  \/ \E c \in Chunks : OnAudio(c)
  \/ Tick
  \/ \E a \in answers : OnResponse(a)
  \/ Shutdown
  \/ \E id \in 1..identity, outcome \in Outcomes : RobotAnswers(id, outcome)
  \/ Elapse

Spec == Init /\ [][Next]_vars

\* The timer fires every 20 ms and steady time advances, whatever else happens.
FairSpec == Spec /\ WF_vars(Tick) /\ WF_vars(Elapse)

-----------------------------------------------------------------------------
(***************************************************************************)
(* Properties                                                              *)
(***************************************************************************)

IsRun(pcm) ==
  \A i \in 1..Len(pcm) : pcm[i] = <<pcm[1][1], pcm[1][2] + i - 1>>

\* What waits in the request gate is the unbroken tail, up to the offset
\* expected next, of the one stream that is open: no rejection, replacement,
\* idle flush or fault leaves samples of an earlier stream behind.
BufferIsStreamTail ==
  gate.buf # <<>> =>
    /\ gate.sid # NoStream
    /\ \A i \in 1..Len(gate.buf) :
         gate.buf[i] = <<gate.sid, gate.off - Len(gate.buf) + i - 1>>

\* Every PlayStream request carries an unbroken run of one stream which begins
\* where the stream begins or right after the last sample already requested, and
\* is taken off the front of the buffer: the robot never hears a gap, a
\* repetition or a splice inside an utterance.
PlaysOn(pcm) ==
  /\ pcm # <<>>
  /\ IsRun(pcm)
  /\ \/ pcm[1][2] = 0
     \/ /\ request.kind = "play_stream"
        /\ pcm[1][1] = request.pcm[1][1]
        /\ pcm[1][2] = request.pcm[1][2] + Len(request.pcm)

PlaybackIsContinuous ==
  [][identity' # identity /\ request'.kind = "play_stream" =>
       PlaysOn(request'.pcm) /\ gate.buf = request'.pcm \o gate'.buf]_vars

\* The adapter is a fail-closed client: it asks one thing at a time, counts each
\* success once however often the answer is repeated or how late it comes, and
\* asks nothing more after the first fault (PlayStop at shutdown is apart).
Asked == IF request.kind = "stop_play" THEN identity - 1 ELSE identity

Client == INSTANCE FailClosedClient
            WITH asked <- Asked, completed <- requestsOk, failed <- fault

IsFailClosedClient == Client!ClientSpec

\* A resampled stream is open in three places at once: the source gate, the
\* counters of its normalized PCM and the request gate.  They never come apart,
\* so a chunk the source gate accepts is not refused for a counter the adapter
\* itself made up; and the accepted rate is the rate of the stream that is open.
StreamsAgree ==
  /\ inputRate = SourceRate <=> source.sid # NoStream
  /\ inputRate = PlayRate => gate.sid # NoStream /\ ~gate.ended
  /\ inputRate = SourceRate /\ normalized.seq > 0 =>
       /\ gate.sid = source.sid /\ ~gate.ended
       /\ gate.seq = normalized.seq /\ gate.off = normalized.off
       /\ normalized.off = resampled.output

\* A success is counted only for an answer the robot gave, and once.
CountsAnswersOnce ==
  /\ requestsOk <= Cardinality({a \in answers : a.outcome # "error"})
  /\ playRequestsOk <= requestsOk

\* No request stays in flight for ever: an answer or the deadline ends it.
AnswerOrFault == inflight # NoRequest ~> (inflight = NoRequest \/ ~running)

\* Samples do not get stuck: what is buffered is requested, discarded with its
\* stream, or given up with a fault (up to the bound on requests).
BufferDrains ==
  \A n \in 0..(MaxRequests - 1) :
    (gate.buf # <<>> /\ identity = n) ~>
      (gate.buf = <<>> \/ identity > n \/ fault \/ ~running)

\* The stream contract that "every audio backend" implements "exactly" lets the
\* next utterance START once the one before has ENDed: the simulator's test
\* test_tracks_exact_stream_continuity sends the two back to back.
NextUtteranceIsTaken ==
  gate.ended =>
    \A c \in Chunks :
      c.wellFormed /\ c.start /\ ~c.disc /\ c.rate = PlayRate => DirectFits(c)
=============================================================================
