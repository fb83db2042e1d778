-------------------------- MODULE G1DomainGateway --------------------------
(***************************************************************************)
(* The G1 audio gateway: AudioChunks from the application's domain to the  *)
(* robot's, diagnostics the other way.  _on_audio runs in the application  *)
(* executor's thread, _flush_audio in the robot executor's; they share the *)
(* bounded audio queue, each of whose operations is atomic.                *)
(*                                                                         *)
(* The gate is the adapter's PcmGate, used as a guard only: an accepted    *)
(* chunk's samples are discarded at once.  Source stamps are compared, so  *)
(* small numbers stand for them; 0 is a stamp the code refuses.            *)
(*                                                                         *)
(* close() waits for no callback: it shuts the executors down, joins the   *)
(* spinning threads for at most 2 s each without looking at the outcome,   *)
(* and destroys the nodes.  Callbacks that had begun or were queued in the *)
(* executors' thread pools still run; how many is up to rclpy, which is    *)
(* not modelled: any number may.                                           *)
(***************************************************************************)
EXTENDS Integers, Sequences, DiagnosticRelay

CONSTANTS
  Streams, NoStream, MaxAge,  \* as in PcmGate
  Chunks,          \* the chunks the application may send, in any order
  MaxStamp,        \* bound: source stamps are 0 .. MaxStamp
  Limits,          \* the gate's PcmContract
  QueueSize        \* maxsize of the audio queue

INSTANCE PcmGate

\* What the constants must satisfy; an instance assumes it.
Parameters ==
  /\ Chunks \subseteq Chunk
  /\ Limits \in Contract
  /\ MaxStamp \in Nat \ {0} /\ QueueSize \in Nat \ {0}

VARIABLES
  gate,       \* _audio_gate
  lastStamp,  \* _last_source_stamp_s, NoStamp before one
  queue,      \* _audio_queue: chunks with their stamps
  relayed,    \* the last message published in the robot's domain
  closing     \* what close() does next, "no" before it is called

audioVars == <<gate, lastStamp, queue, relayed>>
vars == <<audioVars, closing, relayVars>>

NoStamp == 0
NoMessage == <<>>

\* The node of the domain has been destroyed: publishing raises.
Destroyed(d) ==
  closing \in IF d = "robot" THEN {"destroy application", "done"} ELSE {"done"}

Init ==
  /\ gate = ClearGate /\ lastStamp = NoStamp
  /\ queue = <<>> /\ relayed = NoMessage
  /\ closing = "no"
  /\ RelayInit

\* Faulty variant: a full queue drops the chunk and keeps the guard.
OnAudio_FullKeepsGate(c, stamp) ==
  /\ IF /\ stamp > lastStamp
        /\ GateAccepts(gate, c, Limits)
     THEN /\ gate' = GateDiscarded(GateAfter(gate, c))
          /\ lastStamp' = stamp
          /\ queue' = IF Len(queue) < QueueSize THEN Append(queue, <<c, stamp>>) ELSE queue
     ELSE /\ gate' = ClearGate
          /\ lastStamp' = NoStamp
          /\ UNCHANGED queue
  /\ UNCHANGED <<relayed, closing, relayVars>>

(***************************************************************************)
(* _on_audio: an invalid or regressed stamp, a chunk the gate refuses and  *)
(* a full queue all end in the same handler, which clears gate and stamp;  *)
(* the full queue is found after the gate has moved on.                    *)
(***************************************************************************)
OnAudio(c, stamp) ==
  /\ IF /\ stamp > lastStamp   \* NoStamp is the least, so this also refuses 0
        /\ GateAccepts(gate, c, Limits)
        /\ Len(queue) < QueueSize
     THEN /\ gate' = GateDiscarded(GateAfter(gate, c))
          /\ lastStamp' = stamp
          /\ queue' = Append(queue, <<c, stamp>>)
     ELSE /\ gate' = ClearGate
          /\ lastStamp' = NoStamp
          /\ UNCHANGED queue
  /\ UNCHANGED <<relayed, closing, relayVars>>

\* _flush_audio: what it has taken and cannot publish is lost.
FlushAudio ==
  /\ handler = "idle"
  /\ queue # <<>>
  /\ queue' = Tail(queue)
  /\ relayed' = IF Destroyed("robot") THEN relayed ELSE Head(queue)
  /\ UNCHANGED <<gate, lastStamp, closing, relayVars>>

OnDiagnostic ==
  /\ \E valid \in BOOLEAN : Receive(valid)
  /\ UNCHANGED <<audioVars, closing>>

\* The rest of the callback, when it found the queue full.
ReplaceDiagnostic ==
  /\ Evict \/ PutAgain
  /\ UNCHANGED <<audioVars, closing>>

FlushDiagnostic ==
  /\ IF Destroyed("application") THEN Lose ELSE Show
  /\ UNCHANGED <<audioVars, closing>>

\* close() up to the joins, which return in any case.
Close ==
  /\ closing = "no"
  /\ closing' = "destroy robot"
  /\ UNCHANGED <<audioVars, relayVars>>

\* The nodes go one after the other.
Destroy ==
  /\ \/ closing = "destroy robot" /\ closing' = "destroy application"
     \/ closing = "destroy application" /\ closing' = "done"
  /\ UNCHANGED <<audioVars, relayVars>>

\* One unit of steady time.
Tick ==
  /\ gate.age \notin {Never, MaxAge}
  /\ gate' = GateAged(gate)
  /\ UNCHANGED <<lastStamp, queue, relayed, closing, relayVars>>

Next ==
  \/ \E c \in Chunks, stamp \in 0..MaxStamp : OnAudio(c, stamp)
  \/ FlushAudio
  \/ OnDiagnostic
  \/ ReplaceDiagnostic
  \/ FlushDiagnostic
  \/ Close
  \/ Destroy
  \/ Tick

\* Both executors' threads keep running callbacks that are due.
Fairness == WF_vars(ReplaceDiagnostic) /\ WF_vars(FlushDiagnostic)

Spec == Init /\ [][Next]_vars /\ Fairness

-----------------------------------------------------------------------------
(***************************************************************************)
(* What the robot's domain hears has no holes: a chunk is published only   *)
(* as the beginning of a stream or as the continuation, in counters and in *)
(* source time, of the message published just before it, however the       *)
(* queue filled up between the guard's thread and the publisher's.         *)
(***************************************************************************)
Follows(m, before) ==
  LET c == m[1] IN
  \/ c.start
  \/ /\ before # NoMessage
     /\ LET b == before[1] IN
        /\ ~b.end
        /\ c.sid = b.sid /\ c.seq = b.seq + 1 /\ c.off = b.off + b.len
     /\ m[2] > before[2]

RelaysWithoutHoles == [][relayed' # relayed => Follows(relayed', relayed)]_vars
=============================================================================
