------------------------- MODULE Go2DomainGateway -------------------------
(***************************************************************************)
(* The Go2 audio gateway: its speaker half (application to robot), its     *)
(* diagnostics (robot to application) and how it stops.  The microphone    *)
(* half is part of Go2MicPath.  Each domain has one thread that spins its  *)
(* executor: one callback per spin_once, then a look at _stop_event.  What *)
(* a callback raises leaves the loop, and the thread ends with it.         *)
(***************************************************************************)
EXTENDS Integers, Sequences, DiagnosticRelay

CONSTANTS
  Streams, NoStream,  \* as in StreamGuard
  Chunks,             \* the chunks the application may send, in any order
  QueueSize           \* maxsize of the speaker queue

Contract == INSTANCE StreamGuard

ASSUME Go2GatewayAssumption ==
  /\ NoStream \notin Streams
  /\ Chunks \subseteq Contract!Chunk
  /\ QueueSize \in Nat \ {0}

VARIABLES
  enabled,  \* speaker_enabled
  guard,    \* _speaker_guard
  queue,    \* _speaker_queue
  relayed,  \* the last chunk published in the robot's domain, or NoMessage
  stop,     \* _stop_event
  thread,   \* where each domain's spin thread is
  closing   \* what close() does next

speakerVars == <<guard, queue, relayed>>
vars == <<enabled, speakerVars, stop, thread, closing, relayVars>>

NoMessage == [sid |-> NoStream]

Domains == {"robot", "application"}

\* The node of the domain has been destroyed: publishing raises.
Destroyed(d) ==
  closing \in IF d = "robot" THEN {"destroy application", "done"} ELSE {"done"}

Init ==
  /\ enabled \in BOOLEAN
  /\ guard = Contract!ResetGuard /\ queue = <<>> /\ relayed = NoMessage
  /\ stop = FALSE
  /\ thread = [d \in Domains |-> "looking"]
  /\ closing = "no"
  /\ RelayInit

\* A thread between two looks at _stop_event runs one callback, or none.
Spins(d) == thread[d] = "spinning"
SpinDone(d) == thread' = [thread EXCEPT ![d] = "looking"]
SpinRaises(d) == thread' = [thread EXCEPT ![d] = "ended"]

\* Faulty variant: a full queue leaves the guard where accept() put it.
OnSpeaker_FullKeepsGuard(c) ==
  /\ enabled
  /\ Spins("application")
  /\ IF Contract!GuardAccepts(guard, c)
     THEN /\ guard' = Contract!GuardAfter(guard, c)
          /\ queue' = IF Len(queue) < QueueSize THEN Append(queue, c) ELSE queue
     ELSE guard' = Contract!ResetGuard /\ UNCHANGED queue
  /\ SpinDone("application")
  /\ UNCHANGED <<enabled, relayed, stop, closing, relayVars>>

\* _on_speaker: a refused chunk and a full queue both reset the guard.
OnSpeaker(c) ==
  /\ enabled
  /\ Spins("application")
  /\ IF Contract!GuardAccepts(guard, c) /\ Len(queue) < QueueSize
     THEN /\ guard' = Contract!GuardAfter(guard, c)
          /\ queue' = Append(queue, c)
     ELSE guard' = Contract!ResetGuard /\ UNCHANGED queue
  /\ SpinDone("application")
  /\ UNCHANGED <<enabled, relayed, stop, closing, relayVars>>

\* _flush_speaker: what it has taken and cannot publish is lost.
FlushSpeaker ==
  /\ enabled
  /\ Spins("robot") /\ handler = "idle"
  /\ queue # <<>>
  /\ queue' = Tail(queue)
  /\ IF Destroyed("robot")
     THEN UNCHANGED relayed /\ SpinRaises("robot")
     ELSE relayed' = Head(queue) /\ SpinDone("robot")
  /\ UNCHANGED <<enabled, guard, stop, closing, relayVars>>

\* _on_diagnostic begins; if it found the queue full the spin goes on.
OnDiagnostic ==
  /\ Spins("robot")
  /\ \E valid \in BOOLEAN : Receive(valid)
  /\ IF handler' = "idle" THEN SpinDone("robot") ELSE UNCHANGED thread
  /\ UNCHANGED <<enabled, speakerVars, stop, closing>>

ReplaceDiagnostic ==
  /\ Spins("robot")
  /\ Evict \/ PutAgain
  /\ CASE handler' = "idle" -> SpinDone("robot")
       [] handler' = "raised" -> SpinRaises("robot")
       [] OTHER -> UNCHANGED thread
  /\ UNCHANGED <<enabled, speakerVars, stop, closing>>

FlushDiagnostic ==
  /\ Spins("application")
  /\ IF Destroyed("application")
     THEN Lose /\ SpinRaises("application")
     ELSE Show /\ SpinDone("application")
  /\ UNCHANGED <<enabled, speakerVars, stop, closing>>

\* spin_once found nothing to do within its 0.1 s.
SpinEmpty(d) ==
  /\ Spins(d)
  /\ d = "robot" => handler = "idle"
  /\ SpinDone(d)
  /\ UNCHANGED <<enabled, speakerVars, stop, closing, relayVars>>

\* The loop of _spin_executor looks at _stop_event.
Look(d) ==
  /\ thread[d] = "looking"
  /\ thread' = [thread EXCEPT ![d] = IF stop THEN "ended" ELSE "spinning"]
  /\ UNCHANGED <<enabled, speakerVars, stop, closing, relayVars>>

\* close() up to the joins; a second call finds the event set and returns.
Close ==
  /\ ~stop
  /\ stop' = TRUE
  /\ closing' = "check"
  /\ UNCHANGED <<enabled, speakerVars, thread, relayVars>>

\* Faulty variant: only the thread that was joined last is asked.
CheckThreads_Last ==
  /\ closing = "check"
  /\ closing' = IF thread["application"] = "ended" THEN "destroy robot" ELSE "raised"
  /\ UNCHANGED <<enabled, speakerVars, stop, thread, relayVars>>

(***************************************************************************)
(* Both joins have returned, each because its thread has ended or because  *)
(* 2 s have passed: a thread that is still alive makes close() raise and   *)
(* destroy nothing.                                                        *)
(***************************************************************************)
CheckThreads ==
  /\ closing = "check"
  /\ closing' = IF \A d \in Domains : thread[d] = "ended" THEN "destroy robot" ELSE "raised"
  /\ UNCHANGED <<enabled, speakerVars, stop, thread, relayVars>>

\* The two nodes go one after the other.
Destroy ==
  /\ \/ closing = "destroy robot" /\ closing' = "destroy application"
     \/ closing = "destroy application" /\ closing' = "done"
  /\ UNCHANGED <<enabled, speakerVars, stop, thread, relayVars>>

Next ==
  \/ \E c \in Chunks : OnSpeaker(c)
  \/ FlushSpeaker
  \/ OnDiagnostic
  \/ ReplaceDiagnostic
  \/ FlushDiagnostic
  \/ \E d \in Domains : SpinEmpty(d) \/ Look(d)
  \/ Close
  \/ CheckThreads
  \/ Destroy

(***************************************************************************)
(* The threads keep running; a callback that is due is not passed over for *)
(* ever: the executor takes the ready ones in turn.                        *)
(***************************************************************************)
Fairness ==
  /\ WF_vars(ReplaceDiagnostic)
  /\ SF_vars(FlushDiagnostic)
  /\ \A d \in Domains : WF_vars(Look(d)) /\ WF_vars(SpinEmpty(d))

Spec == Init /\ [][Next]_vars /\ Fairness

-----------------------------------------------------------------------------
(***************************************************************************)
(* What the robot's domain hears has no holes: a chunk is published only   *)
(* as the beginning of a stream or as the continuation of the chunk        *)
(* published just before it.                                               *)
(***************************************************************************)
Follows(c, b) ==
  \/ c.start
  \/ /\ b # NoMessage
     /\ ~b.end
     /\ c.sid = b.sid /\ c.seq = b.seq + 1 /\ c.off = b.off + b.len

RelaysWithoutHoles == [][relayed' # relayed => Follows(relayed', relayed)]_vars

\* What a callback takes from a queue it publishes in the same step.
PublishesTaken ==
  /\ Len(queue') < Len(queue) => relayed' = Head(queue)
  /\ slot # <<>> /\ slot' = <<>> /\ UNCHANGED handler => shown' = Head(slot)
=============================================================================
