# Ferox audio: specifications and proofs

TLA+ specifications of the audio adapters in this repository, TLC
configurations that check them on small instances, and proofs, checked by the
TLA+ proof system (TLAPS), of the results that hold for every instance.
Everything is translated from the code under `src/` (Python, one C++ tool, one
shell script); the modules say in their comments which method a definition
stands for, and the `map` of `PROJECT.json` gives the lines.

- [The system](#the-system)
- [Modules](#modules)
- [What is checked](#what-is-checked): runs, bounds, fairness
- [What is proved](#what-is-proved)
- [Where code and documentation disagree](#where-code-and-documentation-disagree)
- [What is not modelled](#what-is-not-modelled)
- [What is left](#what-is-left)

## The system

One topic contract, three backends. An application (`ferox-speech`) subscribes
to `audio/mic_raw` and publishes `audio/speaker_out`; both carry `AudioChunk`
messages: a stream identifier, a sequence number and a sample offset that count
within the stream, PCM data, and the flags START, END and DISCONTINUITY. Both
topics are best effort with depth 5.

```
                       mic_raw (best effort)
   application  <---------------------------------  backend  <---  device / robot
                --------------------------------->           --->
                     speaker_out (best effort)

   backend = ferox_audio_sim                     host sound card through PortAudio
           | ferox_audio_g1                      Unitree voice service (PlayStream)
           | ferox_audio_go2 gateway + bridge    /audiosender frames, AudioHub upload
```

On the robots the backend may be two processes: a bridge in the robot's DDS
domain and a gateway that runs one thread in each of the two domains. Around
them stand the operator's tools, one-shot programs that capture, upload, measure
and judge, and leave files: what a Go2 bridge may do is decided when it starts,
from such files.

```
  robot --> discovery_probe --> observation, frames --> decode_capture --> manifest --+
  robot --> native_timing_probe (2 lanes) --> certificate, strict report              |
  robot <-- speaker_probe --> journal                          profiles.py  <---------+
                                                               (may the bridge start?)
```

### Inventory

| Component (sources) | State | Operations | What makes it hard | What makes it correct |
|---|---|---|---|---|
| **Stream guard** `ferox_audio_sim/stream_guard.py`, `ferox_audio_go2/stream_contract.py` | open stream, expected sequence and offset | `accept`, `reset` | a refusal must close the stream until a START | an unbroken head of each stream passes, nothing else |
| **G1 PCM gate** `ferox_audio_g1/pcm_gate.py` | the same, a bounded buffer, times of reception, *ended* | `accept`, `ready`, `pop_request`, `discard_buffer`, `clear` | partial pops, tail after END, idle flush, overflow | the buffer is the tail of the one open stream, within its bound |
| **G1 voice bridge** `voice_bridge_node.py`, `pcm_resample.py` | two gates, resampler, normalized counters, request in flight, fault latch, counters | `_on_audio`, `_tick`, `_on_response`, `shutdown` | answers late, repeated, lost, failing; three records of one stream | one request at a time, none after a fault; no gap or splice is played |
| **G1 diagnostics** `health.py`, `diagnostic_contract.py`, `playback_telemetry.py` | none, or per-request evidence | build a report, validate it in another process | builder and validator must agree at every limit | what is built passes, with the meaning it had |
| **G1 domain gateway** `audio_domain_gateway.py` | guard, last stamp, two bounded queues between two threads | `_on_audio`, `_flush_*`, `_on_diagnostic`, `close` | queue full after the guard moved on, replace-latest race | what passes has no holes, during `close` too; the newest diagnostic gets through |
| **Go2 speaker path** `speaker_protocol.py`, `audiohub_transaction.py`, `bridge_node.py` | assembler guard and buffer, request plan, index, request in flight, fault | `on_speaker`, `tick_audiohub`, `on_audiohub_response` | lost requests, late answers, a second utterance during an upload | the robot plays whole utterances only; an upload always ends |
| **Go2 microphone path** `mic_bridge.py`, `bridge_node.py`, `domain_gateway.py` | pending frames, stream counters; guard and queue | `on_source`, `_on_mic`, `_flush_mic`, restarts | losses, full queue, restart of either end | only heads of streams are heard; a break heals |
| **Go2 gateway** `domain_gateway.py` | guards, queues, one thread per domain, `_stop_event` | `_on_*`, `_flush_*`, `_spin_executor`, `close` | as on the G1; joins that time out | as on the G1; `close` makes no callback lose what it took from a queue |
| **Go2 health** `health.py` | none | build, validate | as G1 diagnostics | as G1 diagnostics |
| **Simulator microphone** `audio_bridge_node.py` | mode, device, timer, fallback, file position, contract counters under a lock | timers, PortAudio callback, watchdog | two publishing threads, device failure and recovery | published in contract order, never dark |
| **Simulator speaker** `audio_bridge_node.py` | guard, device and its format, cool-down | `_on_speaker`, `_open_speaker` | device failures in mid-stream, format changes | a stream is played from its start without a gap |
| **Profiles and evidence** `profiles.py`, `discovery_probe.py`, `decode_capture.py` | captures, manifest, pinned hash | capture, sum up, decode, write, start | statistics instead of frames; files renewed in between; robots updated | a bridge decodes what the firmware named in its deployment sends |
| **Journals and bundles** `speaker_probe.py`, `discovery_probe.py`, `decode_capture.py` | files on disk | one-shot programs | kills between request and record, overlapping runs, failed writes | a record is never behind the robot; a voucher has its data |
| **G1 probes** `speaker_latency_probe.py`, `mic_stream_*.py`, others | the robot's volume; arrival times | one-shot programs | answers late or lost, the service slow; losses inferred from times alone | a volume known to be changed is put back, and success means that it was; *continuous* bounds the loss |
| **Qualification** `native_timing_certificate.py`, `strict_timing.py`, and gates | none | captures to verdicts | files torn, still written, of two lanes mixed up | a certified capture is the whole of one lane |
| **Native tools** `native_timing_probe.cpp`, `run_live_native_timing_ab.sh` | two files per lane with stdio's buffers | callback, flush, commit, unlink | kills between any two steps | "complete" lanes are certifiable |

External to the repository, and modelled only as the code uses them: the robots'
services, DDS topics, PortAudio and the application.

`PROJECT.json` lists under `hazards` each place where this code is hard to
test, with the line and the properties aimed at it. They fall into six groups:
records of one stream kept in several places; answers and deadlines that race;
losses at queues and topics between components that each keep their own idea of
the stream; two threads on one state; kills, restarts and overlapping runs of
programs that leave files; and verdicts drawn from sums, digests and times in
place of what they sum up.

## Modules

| Module | Models | State and actions |
|---|---|---|
| `StreamGuard` | both guard classes | a guard is a record; `GuardAccepts` is the conjunction of all the conditions that do not reject, `GuardAfter` what an accepted chunk leaves |
| `PcmGate` | `PcmStreamGate` | a gate is a record; `GateAccepts`/`GateAfter`, `GateReady`, `PopPayload`/`GatePopped`, `GateDiscarded`, `GateAged` |
| `FailClosedClient` | what both adapters promise the service they drive (abstract) | `Ask`, `Complete`, `Fail` |
| `G1VoiceBridge` | the node, with `PcmGate` twice and the resampler | `OnAudio`, `TickTimeout`/`TickQueryVolume`/`TickPlay`, `OnResponse`, `Shutdown`; the robot: `RobotAnswers`; time: `Elapse` |
| `Go2SpeakerBridge` | assembler, plan, transaction and node, with `StreamGuard` | `OnSpeaker` (four outcomes), `TickTimeout`/`TickDispatch`, `OnResponse`; the robot receives requests (`Deposit`) and answers |
| `Go2MicPath` | bridge, topic, gateway, application composed | `SourceFrame`, `LateFrame`, `RefusedFrame`, `Latch` (a fault of the speaker half), `BridgeRestart`, `LoseChunk`, `OnMic`, `FlushMic`, `GatewayRestart` |
| `SimMic` | the simulator's microphone, two threads | `TickFile`, `TickSilence`, `TickPublish`, `LoopFile`, three watchdog steps, three callback steps, `DeviceDies`, `CoolDown`, `Shutdown` |
| `SimSpeaker` | the simulator's speaker | `OnSpeaker` (five outcomes), `SpeakerCoolDown` |
| `SimBridge` | both halves in one node: one executor thread, one `shutdown()` | `ServeSpeaker`, `BridgeShutdown`, and the actions of both |
| `DiagnosticRelay` | the replace-latest queue of both gateways, as three queue operations | `Receive`, `Evict`, `PutAgain`, `Show`, `Lose` |
| `G1DomainGateway` | the G1 gateway's two threads, with `PcmGate` and `DiagnosticRelay` | `OnAudio`, `FlushAudio`, `OnDiagnostic`, `ReplaceDiagnostic`, `FlushDiagnostic`, `Close`, `Destroy`, `Tick` |
| `Go2DomainGateway` | the Go2 gateway's speaker half, diagnostics, spin threads and `close()` | the same callbacks, `Look`, `SpinEmpty`, `Close`, `CheckThreads`, `Destroy` |
| `DomainGateways` | the gateways of both robots side by side, with `DiagnosticRelay` once | the actions of either |
| `NativeCapture` | `run_live_native_timing_ab.sh` and two `native_timing_probe`s writing files through stdio | `Publish`, `OpenFiles`, `WriteTrailer`, `FlushFrames`, `FlushMetadata`, `WriteFails`, `Unlink`, `Kill`, `Cleanup`, `Finish` |
| `TimingEvidence` | the certificate and the strict report made of those files | `Certify`, `EvaluateStrictTiming` |
| `SpeakerProbe` | the Go2 speaker probe and its journal, overlapping runs | one action per step of `main`, `ContextShutDown`, `KillRun` |
| `VolumeProbe` | the G1 latency probe and the robot's volume | `Call`, `Response`, `TimeOut` with what follows each in `try` and `finally`; `Interrupt`, `InterruptedCall`, `KillProbe`; the service: `Serve`, `ToneEnds` |
| `EvidenceBundle` | the two tools that leave data and a voucher for it | `Check`, `OpenData`, `WriteData`, `OpenVoucher`, `WriteVoucher`, `RollBack`, `KillWriter` |
| `MicStreamProbe` | the G1 microphone probe's verdict against what was really lost | packets received late, lost or from elsewhere; `Judge` |
| `HealthReports` | both robots' reports: builder against validator | `BuildG1`, `BuildGo2`, over bounded inputs |
| `CaptureSummary` | what `discovery_probe` sums up of a capture, and what `profiles.py` concludes | `Arrive` (late, of another size), `Drop`, `EndCapture`; the first frame may take its time, and a transport may keep every second frame only |
| `ProfileEvidence` | from a capture to the bridge that starts on it | `Discover`, `GrowOld`, `WriteManifest`, `Pin`, `UpdateFirmware`, `Start` |
| `MCG1VoiceBridge`, `MCGo2SpeakerBridge`, `MCSimBridge`, `MCGateways`, `MCProbes` | instances for TLC | |
| `PcmGateProofs`, `G1VoiceBridgeProofs`, `Go2SpeakerBridgeProofs`, `Go2MicPathProofs`, `SimBridgeProofs`, `DomainGatewayProofs`, `TimingEvidenceProofs`, `ToolProofs` | theorems | |

`DomainGateways` and `MCProbes` are sums, not products: each behaviour is one
program's and the other variables keep their initial values, because the
programs share nothing. The certificates and the captures they judge do share
files, and are one program of `MCProbes`. `SimBridge` composes the two halves of
one node as they run; they share no audio state, so its instance `MCSimBridge`
explores each half with the shutdown of both, and the proofs are about the
composition.

Conventions shared by the modules:

- **A sample is `<<stream, offset>>`.** PCM values never influence control, and
  with a sample's origin in place of its value a splice, a gap or a repetition is
  visible wherever samples end up: in a buffer, a request or a file on the robot.
- **`wellFormed`** is the conjunction of the format checks that look at one chunk
  alone (version, encoding, identifier syntax, known flags, whole frames).
- **Files** are what a reader may find in them. `NativeCapture` keeps what was handed to stdio
  and how much of it surely arrived, so a reader sees any prefix in between, its
  last line torn, and a killed process leaves one. A journal that is truncated
  and written is unreadable in between. SHA-256 digests are only compared, so
  what is digested stands for the digest.
- **Sums over many frames**: the verdicts of `MicStreamProbe` and `CaptureSummary`
  depend on how many packets came, when the last one did, and how often each
  interval occurred (in `CaptureSummary`: how many intervals are at most so long, from
  which median and percentiles are read off), not on the order. These numbers,
  kept as frames arrive, stand for the frames.
- **Time** exists only as ages that stop growing beyond the deadlines they are
  compared with; the code compares differences of steady time stamps only.
- **Granularity.** The robots' bridges run on one executor thread, so one callback
  is one action. In `SimMic`, `_publish_audio` stamps a chunk
  under a lock and publishes it after releasing it, so these are two steps of
  either thread, and so are the watchdog's three effects. In the gateways each
  queue operation is atomic and a callback touches one queue once, except for
  the replacement of a diagnostic, whose three operations are three steps. The
  tools that write files while they run or drive a robot (speaker and latency
  probe, native probes, the two-file tools) may be killed between any two such
  effects. `MicStreamProbe` and `CaptureSummary` are about what a program sums up
  before it writes anything; the writing is `EvidenceBundle`'s.
- **Answers** of a robot are a growing set; any member may be delivered at any
  time, any number of times or never. This covers late, repeated, reordered and
  lost answers at once.
- Operators named `X_Variant` are faulty variants of `X` that mutation runs
  substitute to see that a property would notice; nothing else uses them.

Some correspondences deserve a word. The G1 gate stays on an *ended* stream until
its tail is popped, where a guard returns to no stream; the two are therefore
different modules. `LinearPcmResampler` is modelled by the number of
samples it has given out, `⌊n·16000/22050⌋` before END and rounded to nearest at
END: the loop's early exit for a missing neighbour cannot bite because the output
rate is below the input rate. `_latch_fault` forgets the request in flight
each time but clears the audio only the first time, and so does
`LatchFault`. In the Go2 bridge a fault found in the audio stream leaves the
request in flight and its late answer is still counted; `FailClosedClient`
allows that (`Complete` after `Fail`) on purpose. `GetVolume` with status 0 but
an impossible volume is counted as a success and *then* latches: `Fail` may count.

## What is checked

| Run | Question | Properties |
|---|---|---|
| `g1_direct` | 16 kHz chunks of two streams in any order, all kinds of answers | `TypeOK`, `BufferIsStreamTail`, `CountsAnswersOnce`, `PlaybackIsContinuous`, `IsFailClosedClient` |
| `g1_resampled` | the same at 22.05 kHz, with 16 kHz streams in between | `StreamsAgree` |
| `g1_live` | does a request or a buffered sample ever get stuck | `AnswerOrFault`, `BufferDrains` |
| `g1_backtoback` | is an utterance right after another taken (it is not) | `NextUtteranceIsTaken`, violated |
| `go2_speaker` | chunks in any order, requests lost, answers late, repeated, wrong | `TypeOK`, `BufferIsUtteranceHead`, `RobotPlaysWholeUtterances`, `RobotFollowsUpload`, `CompletedMeansReceived`, `IsFailClosedClient`, `UploadMovesOn` |
| `go2_mic` | losses, full queue, refused frames, a latched speaker fault, restarts of both ends | `HearsHeads`, `ResetHeals` |
| `go2_mic_loss` | does the path recover from one lost chunk (it does not) | `DroppedChunkIsRecoverable`, violated |
| `sim_bridge` | the simulator: two publishing threads, three sources, failing devices; chunks in any order, formats that change | `BothTypesOK`, `PublishedObeysContract`, `MicStaysAlive`, `PlayedUpToGuard`, `PlaysHeads` |
| `sim_mic_dead` | is a device that died retried (it is not) | `DeadDeviceIsRetried`, violated |
| `gateways` | two threads and bounded queues: refusals, full queues, replaced diagnostics, closing | `RelaysWithoutHoles`, `RelaysWithoutHolesG1`, `ReplacementSucceeds`, `NewestIsShown`, `TakenIsPublished` |
| `probes` | the tools: kills, signals, overlapping runs, lost answers, torn files, statistics | `CertifiedIsWhole`, `StrictIsWhole`, `CompletedIsCertifiable`, `OneUploadPerJournal`, `JournalIsTrue`, `SuccessMeansRestored`, `KnownChangeIsUndone`, `VouchedDataIsThere`, `ContinuousBoundsLoss`, `NoPhantomLoss`, `BuiltReportsPass`, `QualifiedCaptureIsWhole`, `StartsWithTheRightCodec` |
| `speaker_probe_observed` | was a result's observation as long as it says (not after a signal) | `ResultWasObserved`, violated |

What the passing runs show, in the order of importance:

- *Nothing broken is played.* Whatever a G1 bridge receives, each PlayStream
  request continues the one before it or begins a stream (`PlaybackIsContinuous`);
  a Go2 robot's complete WAV files are whole utterances
  (`RobotPlaysWholeUtterances`); the simulator plays heads of streams
  (`PlaysHeads`); the Go2 application hears heads of streams (`HearsHeads`). A
  gateway whose guard has moved on when the queue turns out to be full lets no
  later chunk of that stream through (`RelaysWithoutHoles`, both robots).
- *Fail closed.* Both adapters implement `FailClosedClient`
  (`IsFailClosedClient`, with the refinement mapping in each module).
- *Records of one thing agree.* Source gate, normalized counters and request gate
  (`StreamsAgree`); adapter and robot during an upload (`RobotFollowsUpload`,
  `CompletedMeansReceived`); guard and sound card (`PlayedUpToGuard`); a report's
  builder and its validator in another process (`BuiltReportsPass`).
- *Files tell the truth.* A journal never denies what was sent and allows one upload
  (`JournalIsTrue`, `OneUploadPerJournal`); a voucher has its data whatever
  runs overlap (`VouchedDataIsThere`); a certified or strictly timed capture is
  the whole of its lane, although any torn or mixed-up file may be submitted
  (`CertifiedIsWhole`, `StrictIsWhole`), and what the script calls complete can be
  certified at any later time (`CompletedIsCertifiable`).
- *Verdicts mean what they say.* A capture that qualifies lost no frame, although
  no single check sees that, and jitter of up to 0.3 of a frame refuses none
  (`QualifiedCaptureIsWhole`; with more, if every second frame is late, the median
  interval may leave the range that `profiles.py` allows); *continuous* bounds the loss and jitter is no loss
  (`ContinuousBoundsLoss`, `NoPhantomLoss`); a bridge that
  starts to decode uses the codec that its robot sends with the firmware named in
  its deployment, whatever was captured, heard, pinned and updated before, if the
  manifest is truthful about where its capture comes from
  (`StartsWithTheRightCodec`; nothing compares that name with the robot, see
  [What is not modelled](#what-is-not-modelled)).
- *The robot is left as it was.* If the latency probe reports success the volume
  is the original (`SuccessMeansRestored`). A volume that it knows it has changed is put
  back, whatever fails afterwards, unless a signal ends the probe or the request to
  restore is lost or not carried out (`KnownChangeIsUndone`). Not covered, because the
  code does not: a change whose answer was never taken is not undone, and errors of
  the `finally` block are reported only if the `try` block had not raised
  (`speaker_latency_probe.py:180` is not reached otherwise), so a failed restoration
  can hide behind the failure that led to it.
- *Closing loses little.* A callback of the Go2 gateway that has taken a message from its
  queue publishes it, since `close` destroys the nodes only after both threads have
  ended (`TakenIsPublished`). The G1's `close` looks at no join, so there a callback
  may find its publisher destroyed and lose what it took; what it relays is
  without holes even so (`RelaysWithoutHolesG1`).
- *Nothing gets stuck* (`AnswerOrFault`, `BufferDrains`, `UploadMovesOn`,
  `ResetHeals`, `MicStaysAlive`, and for diagnostics `NewestIsShown`).

### Bounds

- **G1**: two streams (interchangeable, hence a symmetry set in the safety runs;
  the liveness run has none). A unit of length is half a request, buffer 3 units,
  chunks 1 or 2: so a chunk can fill a request, half of it, or
  overflow, and a pop can leave a remainder. Deadlines keep their order (idle, gap,
  answer timeout) at 1, 1 and 2 time units, ages stop at 3. Streams run to offset
  3 plus a chunk (`MaxOffset`): START, two continuations, END. `MaxRequests` is 3,
  which gives a request before, during and after a replaced stream or a
  fault; `g1_resampled`, whose subject is the input side, makes do with 2 and a
  timeout of 1. The rates are 4:3, so that some chunks yield no output at all.
- **Go2 speaker**: two streams, utterances of at most three samples, one or two
  per chunk, blocks of two WAV units: one block or two, the last one full or
  partial. `MaxRequests` is 5: one full upload of three requests and most of a
  second.
- **Go2 microphone**: chunks of two frames, a wire and a queue of two chunks and
  two faults of any kind in any order, a speaker fault that latches the bridge
  among them; sequence numbers modulo 4, more than the
  parts of the path can differ by. With two faults a fault can hit the recovery
  from another. `go2_mic_loss` uses the code's real five frames per chunk.
- **Simulator microphone**: three chunks in a file; identifiers and numbers are
  drawn in turn from 3 and 4 values: between two publications a stream is replaced
  at most twice, by an overflow and by a recovery, so a reused identifier is
  never mistaken for the old one.
- **Simulator speaker**: two streams, two formats, four samples.
- **Gateways**: utterances of one chunk or two and beginnings of a second stream,
  queues of two (Go2) and one (G1), so a queue is full while the guard is inside a
  stream; source stamps 0 (refused), 1 and 2; two diagnostics, since a replacement
  takes one that waits and one that comes.
- **Native captures**: three periods of the source, probes of two: one frame can be
  heard by one lane and not the other, before, within or after a capture.
- **Speaker probe**: two runs, two requests; **bundles**: three runs, because with
  two no third can find a path that a rollback has freed; **volume**: one value
  to find and one to set, any service.
- **Microphone probe**: a period of 4 with a jitter of 2, up to 104 packets, two of
  them late and one lost. The verdict's tolerance of 1 % is then about one packet,
  which is where it could go wrong either way.
- **Captures** are a tenth as long as real ones: a frame is 4 ticks, the ten
  seconds of 500 frames become 50 frames, the 400 frames demanded become 40, and the rate's
  tolerance of 2 % becomes one frame. A frame may be late by one tick or by 21, just
  beyond the five frames that the longest interval may have, and one may be lost:
  a single loss is what the rate's tolerance hides. The first one arrives 0, 4 or 8
  ticks after the clock has started: at once, at the 2 % of the minimal duration that the
  rate forgives, and beyond.
- **Profiles**: two robots whose codecs change in opposite directions with the
  second firmware, so that robot, firmware and codec can all be mistaken; two
  capture files, so that one can be observed and the other listened to (their names are
  interchangeable, hence a symmetry set). Robot and firmware in manifest and
  deployment are any, as they are typed. Of the drafts of a manifest before one is
  pinned only the last counts, so a new one is written only after that. A
  behaviour ends with the start of one bridge, which leaves nothing behind that
  another start reads.
- **Health reports**: each number at zero, at its limit and one beyond; one counter and
  one timing stand for all of each kind, which the code treats alike.

`CHECK_DEADLOCK FALSE` is set everywhere: nodes stop at shutdown, and a bounded
number of requests or faults stops the others.

### Fairness

- The timers (`Tick` of both bridges) and time (`Elapse`, `CoolDown`) are weakly
  fair: rclpy fires a timer as long as the node spins, and steady time
  advances. Since every deadline is compared in the timer callback, nothing
  more is needed for `AnswerOrFault`, `BufferDrains` and `UploadMovesOn`;
  **robots need never answer, chunks need never arrive**.
- `Go2MicPath`: the robot goes on sending frames, and both processes go on
  serving callbacks; a latched bridge looks at no frame and owes nothing, and is
  not restarted by fairness. `ResetHeals` therefore holds only because a latch counts as
  a fault after the reset: one speaker fault silences the microphone until the process is
  started again (`bridge_node.py:145`). The faults are bounded, and each liveness property speaks of
  the time after the last one.
- `SimMic`: both threads run on, the watchdog fires, but a device need never open.
- Gateways: a thread between two queue operations goes on (weak); the flush of
  diagnostics is taken again and again while it is due (on the Go2 strong, as
  one `spin_once` serves one of the callbacks that are ready, and the executor
  takes them in turn). Only `NewestIsShown` needs it.
- The tools are checked for safety only: a killed program owes nothing.

## What is proved

Every invariant and every action property that a passing run checks is also a
theorem, for every value of the constants that satisfies the assumptions named
in the modules; what remains to TLC alone is liveness. Each proof follows one
pattern: an inductive invariant, checked by TLC on the runs' instances before it was
proved, with the initial states, one step per action and one leaf per conjunct that
the action can disturb.

### The G1 bridge

For all streams and chunks, all limits, rates and deadlines that satisfy
`GateAssumption` and `BridgeAssumption` (the checks of `PcmContract`, the
output rate below the input rate, ages that outlast the deadlines):

| Theorem of `G1VoiceBridgeProofs` | Says |
|---|---|
| `TypeCorrect` | `Spec => []TypeOK`, the buffer's bound included |
| `BufferTail` | `Spec => []BufferIsStreamTail` |
| `FailClosed` | `Spec => IsFailClosedClient`: the bridge implements the abstract client |
| `PlaysWithoutGaps` | `Spec => PlaybackIsContinuous` |
| `RecordsAgree` | `Spec => []StreamsAgree` |
| `AnswersCounted` | `Spec => []CountsAnswersOnce` |

*Type correctness and the tail.* `TypeOK` is not inductive. A normalized
chunk's length is the difference of two counts the resampler has given out; that
it is a natural number needs `ResamplerInPhase` (the stored output count *is* the
formula of the input count while a resampled stream is open) and monotonicity of
the formula with END's rounding (`ResampledGrows`, from `DivMonotone`).
And a tail of the open stream stays one only if its length never exceeds the
offset, which `IsTail` adds. The invariant is `Inv == AudioOK /\ ServiceOK`;
`PcmGateProofs` says what each operation of a gate makes of a gate and its tail.

*No gaps.* That the buffer is *a* tail does not say where it begins.
`PlaybackOK` adds: at the start of the stream, or right after the last PlayStream
request; and no such request precedes the volume query, which would overwrite
the record of it. `AfterFollows` shows that an accepted chunk never
moves the beginning, `PopPlaysOn` that a pop takes an unbroken front off the
buffer and moves the beginning by exactly that. A disabled speaker discards
samples, and the invariant is rightly not claimed of it; it requests nothing.

*Fail closed.* `ClientOK` says what the request in flight means: it is the
last one asked, one success behind; without one all were successful or a fault
has latched. Publishing is then `Ask` (`PublishIsAsk`), latching is `Fail`
(`LatchIsFail`), everything else counts one success or stutters.

*Records.* `RecordsOK` is `StreamsAgree` with one conjunct stronger: the normalized
offset equals what the resampler gave out even before the first sample came out,
without which the first one could not be placed. *Answers.* `CountsAnswersOnce`
cannot see an answer counted twice while another is still to be counted;
`AnswersOK` bounds the counter by the successes among the answers to requests
that are no longer awaited (`Settled`), and the answer that is counted next is not
among them (`Counted`).

### The Go2 speaker

For all streams and chunks, lengths of utterances and blocks, timeouts and numbers of
requests (`SpeakerAssumption` only says that they are numbers, lengths not zero):

| Theorem of `Go2SpeakerBridgeProofs` | Says |
|---|---|
| `TypeCorrect` | `Spec => []TypeOK` |
| `BufferIsHead` | `Spec => []BufferIsUtteranceHead` |
| `PlaysWholeUtterances` | `Spec => []RobotPlaysWholeUtterances` |
| `FollowsUpload` | `Spec => []RobotFollowsUpload` |
| `CompletedReceived` | `Spec => []CompletedMeansReceived` |
| `FailClosed` | `Spec => IsFailClosedClient` |

What has to be known and no property says is whether the robot *already has* the request
in flight. `Reached` defines it by the identities the robot has heard, and
`UploadOK` then fixes the robot's file exactly: the blocks before the index, plus the one
in flight if it has reached the robot. That each next block extends the file is a
lemma about cutting a sequence into blocks (`FirstBlocks`, `Block`). `FilesOK` counts: the
robot's files are as many as the completed uploads, one more while the last
block has arrived and its answer has not been counted, or never will be because a
fault came first. `RequestOK` confines identities: an old answer
cannot pass for that of the request in flight, since it carries an identity that is
no longer the latest.

### The Go2 microphone path

| Theorem of `Go2MicPathProofs` | Says |
|---|---|
| `HeadsHeard` | `Spec => HearsHeads`, for any lengths of wire, queue and chunk and any number of faults, if there are more sequence numbers than faults plus one (`MicPathAssumption`) |

The path is read from its far end. `QueueContinues`: what waits in the queue follows,
chunk after chunk, what was heard. `GuardContinues`: an open guard expects the
continuation of the latest accepted chunk, wherever that is. Neither survives a
restart of one process unless the stream identifiers still on the wire are ordered:
`WireOrdered` says that a START on the wire belongs to a stream newer than all
that the gateway has accepted, and `StartsAtZero` that it begins one.

### The simulator

Of `BridgeSpec`, both halves running in one node, for every length of the file and
all formats (`SimMicAssumption`: two identifiers and three sequence numbers at
least, since they are drawn in turn):

| Theorem of `SimBridgeProofs` | Says |
|---|---|
| `ObeysContract` | `BridgeSpec => []PublishedObeysContract` |
| `PlayedToGuard` | `BridgeSpec => []PlayedUpToGuard` |
| `HeadsPlayed` | `BridgeSpec => PlaysHeads` |
| `TypesCorrect` | `BridgeSpec => []BothTypesOK` |

The contract's counters are stamped under a lock and published after it, so the
listener lags behind by up to one chunk of either thread. `InOrder` says, for each place
the threads can be at, that the chunk in hand is the one the listener expects and
the counters are what it will expect then (`Expects`). This is inductive only because two
threads never hold a chunk at once; `SourcesApart` is the reason: a timer and a
running device exclude each other except in the step between opening the device and
stopping the timer, in which the executor's thread publishes nothing.

### The gateways

For any chunks and any size of the queues (`Go2GatewayAssumption`,
`G1GatewayAssumption`):

| Theorem of `DomainGatewayProofs` | Says |
|---|---|
| `NoHoles` | `Spec => RelaysWithoutHoles`, the Go2's |
| `NoHolesG1` | `G1!Spec => RelaysWithoutHolesG1` |
| `CutsNothingShort` | `GatewaysSpec => TakenIsPublished` |
| `ReplacesSafely` | `Spec \/ G1!Spec => []ReplacementSucceeds` |

`SpeakerInv` has `QueueContinues` and `GuardContinues` as above. A full queue
closes the guard, so the chunk it drops is not the latest. In the G1 gateway the
guard is a PCM gate: `GateShape` says that it never holds samples and never stays on
an ended stream, because the gateway discards what it accepts, and only then is it a
guard; `G1Inv` claims its chain only until the robot's node is destroyed, after which
nothing is relayed. `CloseInv` says that both threads of the Go2 gateway have ended where
`close` has gone on to destroy the nodes, so that one that runs a callback finds them; `RelayInv`
says that between the get and the second put of a replacement nobody else puts.

### Native captures and their certificates

| Theorem of `TimingEvidenceProofs` | Says |
|---|---|
| `CertifiedWhole` | `Spec => []CertifiedIsWhole` |
| `StrictWhole` | `Spec => []StrictIsWhole` |
| `CompletedCertified` | `Spec => []CompletedIsCertifiable` |

for captures of any length. `CaptureInv` says what is in each lane's two files at each
place of its process: all rows heard so far, and a trailer that counts them from
the moment it is written; of these, a reader sees some prefix, and everything once it was
flushed. A certificate accepts frames only against a metadata file that closes with
their number, so a prefix that is shorter cannot pass, and every row is one of its
own lane's. `ObservedOK` adds that nothing is heard any more in a lane that was
certified, else the certificate would be overtaken. In a strict report the
steps of the source are exact; `HeardOK` turns that into "no time between the
first and the last is missing".

### The tools

For any number of overlapping runs, any volumes, limits and lengths:

| Theorem of `ToolProofs` | Says |
|---|---|
| `OneUpload` | `ProbeSpec => []OneUploadPerJournal` |
| `JournalTells` | `ProbeSpec => []JournalIsTrue` |
| `VoucherHasItsData` | `BundleSpec => []VouchedDataIsThere`, if no run is called "nobody" |
| `RightCodec` | `ProfileSpec => StartsWithTheRightCodec`, for any robots, firmwares, codecs and names typed |
| `SuccessRestores` | `VolumeSpec => []SuccessMeansRestored` |
| `KnownChangeUndone` | `VolumeSpec => []KnownChangeIsUndone` |
| `BuiltPasses` | `HealthSpec => []BuiltReportsPass`, for any limits |
| `ContinuousIsBounded` | `MicSpec => []ContinuousBoundsLoss`, if the jitter is less than the period |
| `NoLossNoHole` | `MicSpec => []NoPhantomLoss`, if it is at most half of it |
| `QualifiedIsWhole` | `SummarySpec => []QualifiedCaptureIsWhole` |

*Journals.* The invariant is about ownership: a run that is past the creation of
the journal, or has published, is its `Owner`; there is at most one, because a
run becomes owner only by creating the file where there was none, and the file
goes away only while its owner has published nothing. `OwnerSteps` turns this
into a rule: a step of the owner need only be judged by what becomes of the owner and
the journal. *Bundles* are alike: a writer past `OpenData` owns the data until it
ends or rolls back, and a whole voucher pins the data for good (`Owns`).

*Codec.* The invariant (`ManifestOK`) is that a manifest is truthful in what it says of
the capture that was listened to, which stays on disk and changes only its age.
Where the capture comes from is the operator's word, and `Truthful` a hypothesis of the
property. `StartIsRight` then follows the checks of `profiles.py`: the manifest is of the
deployment's robot and firmware, so the capture is, and what that very capture
decodes to was understood.

*Volume.* The service may be slow: a `SetVolume` whose answer was given up may take
effect later. The last query decides, because requests are served in order:
`VerifyOK` says that once it is answered nothing is left that could change the
volume, and that the answer names the volume there is. For a known change, `RestoreOK` says that once
the restoration was asked for, the robot has the original volume as soon as it has done
what it was asked (`WillRestore`), and `FinallyAfter` leads from every failure to that request.

*Continuity.* The probe sees times, the property speaks of packets. `ArrivalsOK` ties
them: the first and the last arrival are as far apart as what was sent in between,
but for the jitter at either end, and no interval is longer than its losses and
one packet's jitter. The 1 % and the factor 1.75 of the verdict are then arithmetic.

*Captures.* `TimeHasPassed` bounds from below the time in which the frames came by
their number and the number of steps that are not 1. If the mode of the steps is not 1, no step
is (`StepsAdd`), and so few frames in that time violate the rate. The other way round,
`Unbroken` and `Prompt` bound the intervals of a capture without losses, hence median
and percentiles, whose definition with CHOOSE needs a least element
(`LeastExists`, from the well-foundedness of the naturals).
`SummaryAssumption` says that the ten seconds hold 50 frames or more, so that the rate's
tolerance of 2 % is at least one frame, and that 98 % of them hold the 400 demanded, so that a
capture is not too short of frames because its first one took the other 2 %; both hold
for the 20 ms frames of the code.

### What the proofs changed

- `PromptIsNotRefused` was claimed for lateness of up to half a frame and TLC
  agreed, since its instance delays one frame. Its invariant would not close: if
  every second frame is late by half a frame, half of the intervals are 0.5 and half
  1.5 frames, and the median is outside the range from 0.7 to 1.3. The bound
  is 0.3 of a frame.
- `FinallyAfter` of `VolumeProbe` was a CASE with overlapping conditions, of which TLC
  takes the first and a proof none. It is now decided in the code's order.
- The bags of `MicStreamProbe` and `CaptureSummary` were summed by folds, about which
  nothing can be proved here; they became the sums themselves.

### Only model-checked

Liveness: `AnswerOrFault`, `BufferDrains`, `UploadMovesOn`, `ResetHeals`,
`MicStaysAlive`, `NewestIsShown`. Their proofs need ENABLED under fairness and induction
along a behaviour, which the prover cannot do. The four violated properties are,
of course, refuted by TLC and not proved.

## Where code and documentation disagree

1. **Back-to-back utterances on the G1** (`g1_backtoback`). `PcmStreamGate` keeps
   an ended stream until the 20 ms timer has popped its tail, so a START without
   DISCONTINUITY that comes before is refused, and the refusal throws away the
   tail of the first utterance too. The README has every backend implement exactly
   one contract, and the simulator's test accepts the very same sequence.
2. **A dropped `mic_raw` chunk on the Go2** (`go2_mic_loss`). After one lost chunk the
   gateway refuses everything until the bridge happens to begin a new stream,
   which it does only for a fault of its own. The README calls a dropped frame
   recoverable.
3. **A host microphone that dies** (`sim_mic_dead`). The fallback is entered only
   at start-up; if an opened device dies, its callback simply stops and the watchdog,
   which looks at the fallback flag only, does nothing. Comment and README
   promise a retry and a topic that never goes dark.
4. **An observation cut short** (`speaker_probe_observed`). The loop that watches the
   robot for delayed replay ends after 10 s, or as soon as a signal shuts the ROS
   context down; the result says `post_playback_observation_s: 10.0` either way.

## What is not modelled

- **Data**: PCM values, decoding, rate conversion and correlation as signal
  processing, formats, logging, counters that only diagnostics read, the shape of one
  chunk (`wellFormed`), clocks that run backwards.
- **A publish that raises**, except into a gateway's destroyed node: in a node it ends the process; in PortAudio's callback it
  is a lost chunk for the subscribers.
- **Evaluators**: transport, HATS, AEC3 and world-class gates are conjunctions of
  thresholds on one report, which a model would only repeat; `acoustic_latency`,
  `signal_metrics`, `live_core_qualification` and the read-aloud analysis are
  numerical. `playback_telemetry` keeps windows and percentiles on which nothing
  decides. `aec3_offline` drives an external library.
- **Launch files** are declarative; the scripts other than
  `run_live_native_timing_ab.sh` start containers.
- **The G1 bridge after a timed-out PlayStream**: `shutdown` publishes PlayStop
  only if a PlayStream was acknowledged (`voice_bridge_node.py:343`); whether the
  robot still plays is not part of the model's robot.
- **What the evidence gate does not bind**, as the code has it. Nothing reads the firmware
  off the robot: the manifest's `source_firmware` is compared with the bridge's parameter
  `runtime_firmware` (`bridge_node.py:57,98`), which the deployment sets
  (`docker/docker-compose.go2.yml:35`). A robot that was updated after its deployment
  passes the gate with the old value and the wrong codec, whether its bridge runs on or
  is started anew, and so does one whose manifest names a firmware that its capture
  is not of. `StartsWithTheRightCodec` is therefore about the firmware that the deployment
  names and about truthful manifests. The manifest's speaker section names
  neither robot nor firmware nor age (`profiles.py:265`), and the property says nothing
  of what a speaker probe was made with.
- **The G1 gateway's `close` inside rclpy**: which callbacks its two thread pools still run
  after `shutdown()` and the 2 s of each join (`audio_domain_gateway.py:148-156`). The model
  lets any number run at any time. The Go2 gateway's comment (`domain_gateway.py:85-87`)
  says that it uses one thread per domain because a pool makes the destruction race.
- **Limits that differ** between gateway and assembler on the Go2 (64,000 and
  88,200 bytes) are both part of `wellFormed`; no text promises that they agree.
- **Source frames lost within the allowed pause** of 100 ms (`mic_bridge.py:279`): the
  bridge demands of `time_frame` only that it increases.

## What is left

- Not modelled of the first plan is the evidence that accompanies a request
  (`arrival_segments` in `pcm_gate.py`, kept beside the buffer for
  `playback_telemetry`).
- The steps on which the liveness properties rest could be proved as safety: that the
  action a fair process takes brings the awaited state (`TickTimeout` ends a request
  that is overdue, `Reset` makes the next chunk a START with DISCONTINUITY), though not
  that it is taken.
- Two hazards have no property: `mic_bridge.py:279` and `domain_gateway.py:45`, for the
  reasons given above.
