---------------------------- MODULE VolumeProbe ----------------------------
(***************************************************************************)
(* speaker_latency_probe.py: lowers the G1's volume, plays a tone, stops   *)
(* it and puts the volume back.  Each call waits for the answer with its   *)
(* identity; requests and answers may be slow or lost, the voice service   *)
(* may refuse a call, or answer 0 and do nothing, or do what is asked and  *)
(* answer with an error.  A signal may end the probe or rclpy's context.   *)
(***************************************************************************)
EXTENDS Naturals, Sequences

CONSTANTS Original, Target  \* the volume found and the one asked for

VARIABLES
  call,      \* the call that main is at, "over" after the last
  waiting,   \* its identity while it waits, 0 otherwise
  identity,  \* the last identity given
  changed,   \* volume_changed
  played,    \* played
  raised,    \* an exception is on its way out
  errors,    \* restoration_errors: raised in the end unless raised is set
  interrupted,  \* a signal has shut rclpy's context down, or killed the probe
  requests,  \* published and not yet served
  answers,   \* on their way to the probe
  volume, playing,  \* the robot
  spurned    \* history: a request to restore the volume was not carried out

volumeVars == <<call, waiting, identity, changed, played, raised, errors, interrupted,
                requests, answers, volume, playing, spurned>>

VolumeInit ==
  /\ call = "get" /\ waiting = 0 /\ identity = 0
  /\ changed = FALSE /\ played = FALSE /\ raised = FALSE /\ errors = {}
  /\ interrupted = FALSE
  /\ requests = <<>> /\ answers = {}
  /\ volume = Original /\ playing = FALSE /\ spurned = FALSE

outside == <<interrupted, volume, playing, spurned>>

Api(c) ==
  CASE c \in {"get", "confirm", "verify"} -> "GetVolume"
    [] c \in {"set", "restore"} -> "SetVolume"
    [] c = "play" -> "PlayStream"
    [] OTHER -> "StopPlay"

\* VoiceApiProbe.call up to its loop.
Call ==
  /\ call # "over" /\ waiting = 0 /\ ~interrupted
  /\ identity' = identity + 1
  /\ waiting' = identity'
  /\ requests' = Append(requests,
       [id |-> identity', api |-> Api(call),
        volume |-> IF call = "restore" THEN Original ELSE Target])
  /\ UNCHANGED <<call, changed, played, raised, errors, answers, outside>>

\* Faulty variant: what was played is stopped, or else the volume restored.
FinallyAfter_StopOrRestore(c, mustStop, mustRestore) ==
  IF c = "try" /\ mustStop THEN "stop again"
  ELSE IF c = "try" /\ mustRestore THEN "restore"
  ELSE "over"

\* The finally block, from the call after c on.
FinallyAfter(c, mustStop, mustRestore) ==
  IF c = "try" /\ mustStop THEN "stop again"
  ELSE IF c \in {"try", "stop again"} /\ mustRestore THEN "restore"
  ELSE "over"

\* A call of the try block raises, ...
TryRaises ==
  /\ call \in {"get", "set", "confirm", "play", "stop"}
  /\ raised' = TRUE
  /\ call' = FinallyAfter("try", played, changed)
  /\ waiting' = 0
  /\ UNCHANGED <<identity, changed, played, errors>>

\* ... or one of the finally block: that becomes a restoration error.
RestorationFails ==
  /\ call \in {"stop again", "restore", "verify"}
  /\ errors' = errors \cup {call}
  /\ call' = FinallyAfter(call, FALSE, changed)
  /\ waiting' = 0
  /\ UNCHANGED <<identity, changed, played, raised>>

GoesWrong == TryRaises \/ RestorationFails

CallAfter(c) ==
  CASE c = "get" -> "set"
    [] c = "set" -> "confirm"
    [] c = "confirm" -> "play"
    [] c = "play" -> "stop"
    [] c = "stop" -> FinallyAfter("try", FALSE, changed)
    [] c = "restore" -> "verify"
    [] OTHER -> FinallyAfter(c, FALSE, changed)

\* Faulty variant: the restored volume is not compared.
ErrorsAfter_Unverified(seen) == errors

\* What the check of the restored volume adds.
ErrorsAfter(seen) ==
  IF call = "verify" /\ seen # Original THEN errors \cup {"restore-confirm"} ELSE errors

\* A call returns; seen is the volume that a GetVolume found.
GoesRight(seen) ==
  /\ waiting' = 0
  /\ changed' = (changed \/ call = "set")
  /\ played' = (call = "play" \/ (played /\ call # "stop"))
  /\ call' = CallAfter(call)
  /\ errors' = ErrorsAfter(seen)
  /\ UNCHANGED <<identity, raised>>

\* _on_response: an answer to another call is ignored.
Response ==
  /\ ~interrupted
  /\ \E a \in answers :
       /\ answers' = answers \ {a}
       /\ IF a.id = waiting
          THEN IF a.ok /\ (call = "confirm" => a.volume = Target)
               THEN GoesRight(a.volume) ELSE GoesWrong
          ELSE UNCHANGED <<call, waiting, identity, changed, played, raised, errors>>
  /\ UNCHANGED <<requests, outside>>

TimeOut ==
  /\ waiting # 0
  /\ GoesWrong
  /\ UNCHANGED <<requests, answers, outside>>

\* SIGINT or SIGTERM: rclpy's handler shuts the context down, ...
Interrupt ==
  /\ call # "over" /\ ~interrupted
  /\ interrupted' = TRUE
  /\ UNCHANGED <<call, waiting, identity, changed, played, raised, errors,
                 requests, answers, volume, playing, spurned>>

\* ... after which no call publishes or hears anything: each one raises.
InterruptedCall ==
  /\ interrupted
  /\ GoesWrong
  /\ UNCHANGED <<requests, answers, outside>>

\* SIGKILL, or a KeyboardInterrupt in the finally block, which leaves it.
KillProbe ==
  /\ call # "over"
  /\ call' = "over" /\ waiting' = 0 /\ raised' = TRUE /\ interrupted' = TRUE
  /\ UNCHANGED <<identity, changed, played, errors, requests, answers,
                 volume, playing, spurned>>

\* The service takes the next request; it does what is asked, or not.
Serve(obeys, ok, lost) ==
  /\ requests # <<>>
  /\ LET q == Head(requests) IN
     /\ volume' = IF obeys /\ q.api = "SetVolume" THEN q.volume ELSE volume
     /\ playing' = IF obeys /\ q.api = "PlayStream" THEN TRUE
                   ELSE IF obeys /\ q.api = "StopPlay" THEN FALSE ELSE playing
     /\ answers' = IF lost THEN answers
                   ELSE answers \cup {[id |-> q.id, ok |-> ok, volume |-> volume]}
     /\ spurned' = (spurned \/ (~obeys /\ q.api = "SetVolume" /\ q.volume = Original))
  /\ requests' = Tail(requests)
  /\ UNCHANGED <<call, waiting, identity, changed, played, raised, errors, interrupted>>

ToneEnds ==
  /\ playing
  /\ playing' = FALSE
  /\ UNCHANGED <<call, waiting, identity, changed, played, raised, errors,
                 interrupted, requests, answers, volume, spurned>>

VolumeNext ==
  \/ Call \/ Response \/ TimeOut
  \/ Interrupt \/ InterruptedCall \/ KillProbe
  \/ \E obeys, ok, lost \in BOOLEAN : Serve(obeys, ok, lost)
  \/ ToneEnds

VolumeSpec == VolumeInit /\ [][VolumeNext]_volumeVars

-----------------------------------------------------------------------------
Settled == call = "over" /\ requests = <<>>

(***************************************************************************)
(* When the probe succeeds, the robot's volume is what it was before,      *)
(* whatever was slow, lost, refused or not done.                           *)
(***************************************************************************)
SuccessMeansRestored == Settled /\ ~raised /\ errors = {} => volume = Original

(***************************************************************************)
(* A volume that the probe knows it has changed is put back whatever fails *)
(* after that: the confirmation, the tone, the stop, the second stop or an *)
(* answer.  It takes a signal, or a request to restore that was lost or    *)
(* not carried out, to leave it changed.  Of a change whose answer was     *)
(* never taken the probe does not know, and a restoration that failed is   *)
(* reported only when nothing had been raised before it.                   *)
(***************************************************************************)
KnownChangeIsUndone ==
  Settled /\ changed /\ ~interrupted /\ ~spurned => volume = Original
=============================================================================
