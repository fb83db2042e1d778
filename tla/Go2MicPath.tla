----------------------------- MODULE Go2MicPath -----------------------------
(***************************************************************************)
(* The microphone path of the Go2: the robot's /audiosender frames, the    *)
(* bridge node with its chunker (Go2MicBridgeCore), the best-effort topic  *)
(* mic_raw, and the gateway process that checks every chunk against the    *)
(* stream contract and passes it on to the application's DDS domain.       *)
(*                                                                         *)
(* A chunk is the unit of length, so sequence number and sample offset     *)
(* agree; both are counted modulo SeqMod, which makes the state space of   *)
(* an endless stream finite and, SeqMod being larger than what the bounds  *)
(* let two ends of the path differ by, tells apart what the code does.     *)
(* Of a frame's time stamps the model keeps what ingest() asks: whether    *)
(* the reception is late and whether time_frame increased.                 *)
(*                                                                         *)
(* Everything that can go wrong, lost chunks, restarts of either process   *)
(* and a speaker fault that latches the bridge included, is counted in     *)
(* `faults' and so bounded.                                                *)
(***************************************************************************)
EXTENDS Integers, Sequences

CONSTANTS
  FramesPerChunk, \* source frames of 20 ms in one chunk of 100 ms
  WireLen,        \* depth of mic_raw's subscription
  QueueLen,       \* depth of the gateway's _mic_queue
  MaxFaults,      \* bound: things that go wrong in a behaviour
  SeqMod          \* bound: sequence numbers are counted modulo SeqMod

ASSUME MicPathAssumption ==
  /\ FramesPerChunk \in Nat \ {0}
  /\ WireLen \in Nat \ {0} /\ QueueLen \in Nat \ {0}
  /\ MaxFaults \in Nat
  /\ SeqMod \in Nat /\ SeqMod > MaxFaults + 1

\* Stream identifiers are fresh UUIDs: the n-th one drawn is n.
NoStream == 0
StreamIds == 1..(2 * MaxFaults + 1)

Contract == INSTANCE StreamGuard WITH Streams <- StreamIds, NoStream <- NoStream

VARIABLES
  core,      \* the bridge: Go2MicBridgeCore
  latched,   \* the bridge: latched_fault is set, which only its speaker half does
  wire,      \* mic_raw: chunks published and not yet received
  guard,     \* the gateway: _mic_guard
  queue,     \* the gateway: _mic_queue
  heard,     \* the application: the last chunk it was given
  faults,    \* how many things went wrong so far
  lastFault  \* and which was the last

vars == <<core, latched, wire, guard, queue, heard, faults, lastFault>>

\* Faulty variant: the replacement stream does not say that it is one.
Reset_NoDisc(stream, discontinuity) ==
  [stream |-> stream, seq |-> 0, pending |-> 0, started |-> FALSE,
   disc |-> FALSE, receiving |-> FALSE]

\* _reset_stream; `receiving' is whether there is a last frame to compare with.
Reset(stream, discontinuity) ==
  [stream |-> stream, seq |-> 0, pending |-> 0, started |-> FALSE,
   disc |-> discontinuity, receiving |-> FALSE]

Init ==
  /\ core = Reset(1, FALSE) /\ latched = FALSE
  /\ wire = <<>>
  /\ guard = Contract!ResetGuard
  /\ queue = <<>>
  /\ heard = [sid |-> NoStream, seq |-> 0]
  /\ faults = 0 /\ lastFault = "none"

Fault(cause) ==
  /\ faults < MaxFaults
  /\ faults' = faults + 1
  /\ lastFault' = cause

Next1(n) == (n + 1) % SeqMod

-----------------------------------------------------------------------------
(***************************************************************************)
(* The bridge                                                              *)
(***************************************************************************)

\* The chunk a full pending buffer becomes.
ChunkOf(k) ==
  [sid |-> k.stream, seq |-> k.seq, off |-> k.seq, len |-> 1, start |-> ~k.started,
   end |-> FALSE, disc |-> ~k.started /\ k.disc, wellFormed |-> TRUE]

\* ingest(), the frame accepted: a fifth frame makes a chunk.
Extended(k) ==
  IF k.pending + 1 < FramesPerChunk
  THEN [k EXCEPT !.pending = @ + 1, !.receiving = TRUE]
  ELSE [k EXCEPT !.pending = 0, !.receiving = TRUE, !.seq = Next1(@),
                 !.started = TRUE, !.disc = FALSE]

\* Publishing the chunk; a full wire loses its oldest one.
Publish(k) ==
  IF k.pending + 1 < FramesPerChunk THEN UNCHANGED wire
  ELSE IF Len(wire) < WireLen THEN wire' = Append(wire, ChunkOf(k))
  ELSE wire' = Append(Tail(wire), ChunkOf(k))

Overruns(k) == k.pending + 1 = FramesPerChunk /\ Len(wire) = WireLen

\* on_source, a good frame in time; none is looked at once a fault has latched.
SourceFrame ==
  /\ ~latched
  /\ core' = Extended(core)
  /\ Publish(core)
  /\ IF Overruns(core) THEN Fault("loss") ELSE UNCHANGED <<faults, lastFault>>
  /\ UNCHANGED <<latched, guard, queue, heard>>

\* on_source, a good frame after too long a pause: it begins a new stream, and
\* because the reset forgets it, its time_frame is not compared.
LateFrame ==
  /\ ~latched /\ core.receiving
  /\ Fault("reset")
  /\ LET fresh == Reset(core.stream + 1, TRUE)
     IN core' = Extended(fresh) /\ Publish(fresh) /\ ~Overruns(fresh)
  /\ UNCHANGED <<latched, guard, queue, heard>>

\* on_source, a frame that is refused: its size, time stamps, a time_frame that
\* did not increase, or its decoding; after a pause the stream is reset twice.
RefusedFrame ==
  /\ ~latched
  /\ Fault("reset")
  /\ \E resets \in {1, 2} :
       /\ resets = 2 => core.receiving
       /\ core' = Reset(core.stream + resets, TRUE)
  /\ UNCHANGED <<latched, wire, guard, queue, heard>>

\* latch(): a fault of the speaker half (Go2SpeakerBridge), which silences the
\* microphone until the process is started again.
Latch ==
  /\ ~latched /\ Fault("latch")
  /\ latched' = TRUE
  /\ UNCHANGED <<core, wire, guard, queue, heard>>

\* The bridge process is started again.
BridgeRestart ==
  /\ Fault("bridge")
  /\ core' = Reset(core.stream + 1, FALSE) /\ latched' = FALSE
  /\ UNCHANGED <<wire, guard, queue, heard>>

-----------------------------------------------------------------------------
(***************************************************************************)
(* The topic and the gateway                                               *)
(***************************************************************************)

\* Best effort: any chunk under way may be lost.
LoseChunk ==
  /\ Fault("loss")
  /\ \E i \in 1..Len(wire) :
       wire' = SubSeq(wire, 1, i - 1) \o SubSeq(wire, i + 1, Len(wire))
  /\ UNCHANGED <<core, latched, guard, queue, heard>>

\* The guard an accepted chunk leaves behind, in the arithmetic of the model.
Moved(c) ==
  LET g == Contract!GuardAfter(guard, c)
  IN [g EXCEPT !.seq = @ % SeqMod, !.off = @ % SeqMod]

Accepts(c) == Contract!GuardAccepts(guard, c)

\* Faulty variant: a chunk for which there is no room is only dropped.
OnMic_KeepsGuardWhenFull ==
  /\ wire # <<>>
  /\ wire' = Tail(wire)
  /\ LET c == Head(wire)
     IN \/ /\ Accepts(c) /\ Len(queue) < QueueLen
           /\ guard' = Moved(c)
           /\ queue' = Append(queue, c)
           /\ UNCHANGED <<faults, lastFault>>
        \/ /\ Accepts(c) /\ Len(queue) = QueueLen
           /\ guard' = Moved(c)
           /\ Fault("full")
           /\ UNCHANGED queue
        \/ /\ ~Accepts(c)
           /\ guard' = Contract!ResetGuard
           /\ UNCHANGED <<queue, faults, lastFault>>
  /\ UNCHANGED <<core, latched, heard>>

\* Go2AudioDomainGateway._on_mic, in the robot domain's thread
OnMic ==
  /\ wire # <<>>
  /\ wire' = Tail(wire)
  /\ LET c == Head(wire)
     IN \/ /\ Accepts(c) /\ Len(queue) < QueueLen
           /\ guard' = Moved(c)
           /\ queue' = Append(queue, c)
           /\ UNCHANGED <<faults, lastFault>>
        \/ /\ Accepts(c) /\ Len(queue) = QueueLen
           /\ guard' = Contract!ResetGuard
           /\ Fault("full")
           /\ UNCHANGED queue
        \/ /\ ~Accepts(c)
           /\ guard' = Contract!ResetGuard
           /\ UNCHANGED <<queue, faults, lastFault>>
  /\ UNCHANGED <<core, latched, heard>>

\* _flush_mic, in the application domain's thread
FlushMic ==
  /\ queue # <<>>
  /\ queue' = Tail(queue)
  /\ heard' = [sid |-> Head(queue).sid, seq |-> Head(queue).seq]
  /\ UNCHANGED <<core, latched, wire, guard, faults, lastFault>>

\* The gateway process is started again.
GatewayRestart ==
  /\ Fault("gateway")
  /\ guard' = Contract!ResetGuard
  /\ queue' = <<>>
  /\ UNCHANGED <<core, latched, wire, heard>>

Next ==
  \/ SourceFrame \/ LateFrame \/ RefusedFrame \/ Latch \/ BridgeRestart
  \/ LoseChunk \/ OnMic \/ FlushMic \/ GatewayRestart

Spec == Init /\ [][Next]_vars

\* The robot goes on sending, and both processes keep serving their callbacks.
FairSpec == Spec /\ WF_vars(SourceFrame) /\ WF_vars(OnMic) /\ WF_vars(FlushMic)

-----------------------------------------------------------------------------
(***************************************************************************)
(* Properties                                                              *)
(***************************************************************************)

\* Within a stream the application hears chunk after chunk from the first one
\* on, and never returns to a stream it has left: whatever is lost, refused or
\* restarted, what reaches it is an unbroken head of each stream.
HearsHeads ==
  [][heard' # heard =>
       \/ heard'.sid > heard.sid /\ heard'.seq = 0
       \/ heard'.sid = heard.sid /\ heard'.seq = Next1(heard.seq)]_vars

\* Nothing more goes wrong, and the last thing that did was `cause'; whatever
\* the application heard last, it hears something else later.
HearsOnAfter(cause) ==
  \A s \in StreamIds \cup {NoStream}, n \in 0..(SeqMod - 1) :
    (faults = MaxFaults /\ lastFault = cause /\ heard = [sid |-> s, seq |-> n])
      ~> heard # [sid |-> s, seq |-> n]

\* Any break the bridge itself notices heals the whole path, whatever happened
\* before: the stream it begins is flagged so that the gateway must take it.
\* A speaker fault that latches afterwards is one more thing that goes wrong: it
\* stops the microphone, with the diagnostics as the only sign.
ResetHeals == HearsOnAfter("reset")

\* The README of the topic contract: "audio is real-time, a dropped frame is
\* recoverable", so after a lost chunk the application hears on.
DroppedChunkIsRecoverable == HearsOnAfter("loss")
=============================================================================
