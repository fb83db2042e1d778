---------------------------- MODULE SpeakerProbe ----------------------------
(***************************************************************************)
(* speaker_probe.py: one supervised upload to the Go2 audiohub, with a     *)
(* journal on disk that says how far it came.  Every run is given the same *)
(* --output; runs may overlap, be killed, and lose their ROS context to a  *)
(* signal at any step.  A journal is replaced by truncating and then       *)
(* writing it, so a kill in between leaves it unreadable.                  *)
(***************************************************************************)
EXTENDS Naturals

CONSTANTS
  Runs,      \* invocations of the probe
  Requests   \* requests of the upload's plan, the first of them a START

VARIABLES
  stage,      \* where each run is
  rosOk,      \* rclpy.ok() of each run
  journal,    \* what the output holds
  published,  \* requests each run has published
  acked,      \* of these, the ones acknowledged
  observed    \* the run has watched the whole 10 s after its upload (history)

probeVars == <<stage, rosOk, journal, published, acked, observed>>

Nothing == [status |-> "none"]
Unreadable == [status |-> "torn"]
Attempt(hardware) == [status |-> "started_not_authorizing", hardware_publish_started |-> hardware]
Failed(hardware) == [status |-> "failed_not_authorizing", hardware_publish_started |-> hardware]
Result == [status |-> "result"]

ProbeInit ==
  /\ stage = [r \in Runs |-> "off"]
  /\ rosOk = [r \in Runs |-> TRUE]
  /\ journal = Nothing
  /\ published = [r \in Runs |-> 0] /\ acked = [r \in Runs |-> 0]
  /\ observed = [r \in Runs |-> FALSE]

Stands(r, place) == stage[r] = place
Moves(r, place) == stage' = [stage EXCEPT ![r] = place]
StaysPut == UNCHANGED <<rosOk, published, acked, observed>>

\* _preflight_output: an output that exists is refused.
Preflight(r) ==
  /\ Stands(r, "off")
  /\ journal = Nothing
  /\ Moves(r, "creating")
  /\ StaysPut /\ UNCHANGED journal

\* Faulty variant: without O_EXCL.
CreateJournal_Overwrites(r) ==
  /\ Stands(r, "creating")
  /\ journal' = Unreadable
  /\ Moves(r, "starting")
  /\ StaysPut

\* _write_private opens with O_EXCL: another run may have been faster.
CreateJournal(r) ==
  /\ Stands(r, "creating")
  /\ IF journal = Nothing
     THEN journal' = Unreadable /\ Moves(r, "starting")
     ELSE UNCHANGED journal /\ Moves(r, "raised")
  /\ StaysPut

\* It writes the attempt, or fails and unlinks what it created.
StartJournal(r) ==
  /\ Stands(r, "starting")
  /\ \/ journal' = Attempt(FALSE) /\ Moves(r, "discovering")
     \/ journal' = Nothing /\ Moves(r, "raised")
  /\ StaysPut

\* Both endpoints are found, or the context is gone; or it gives up after 5 s,
\* or spin_once raises because the context is gone.
FindEndpoints(r) ==
  /\ Stands(r, "discovering")
  /\ Moves(r, "admitting") \/ Moves(r, "failing early")
  /\ StaysPut /\ UNCHANGED journal

\* _replace_owned_result, first half: O_TRUNC.
Truncate(r) ==
  /\ \/ Stands(r, "admitting") /\ Moves(r, "admitting, truncated")
     \/ Stands(r, "concluding") /\ Moves(r, "concluding, truncated")
     \/ Stands(r, "failing early") /\ Moves(r, "failing early, truncated")
     \/ Stands(r, "failing") /\ Moves(r, "failing, truncated")
  /\ journal' = Unreadable
  /\ StaysPut

\* Faulty variant: the attempt is written back as it was.
Rewrite_KeepsAttempt(r) ==
  /\ \/ Stands(r, "admitting, truncated") /\ journal' = Attempt(FALSE) /\ Moves(r, "uploading")
     \/ Stands(r, "concluding, truncated") /\ journal' = Result /\ Moves(r, "done")
  /\ StaysPut

\* Its second half; a write that fails raises, and the handler tries once more,
\* even after the result is written, if only printing it fails.
Rewrite(r) ==
  /\ \/ /\ Stands(r, "admitting, truncated")
        /\ \/ journal' = Attempt(TRUE) /\ Moves(r, "uploading")
           \/ UNCHANGED journal /\ Moves(r, "failing")
     \/ /\ Stands(r, "concluding, truncated")
        /\ \/ journal' = Result /\ (Moves(r, "done") \/ Moves(r, "failing"))
           \/ UNCHANGED journal /\ Moves(r, "failing")
     \/ /\ Stands(r, "failing early, truncated")
        /\ journal' = Failed(FALSE) \/ UNCHANGED journal
        /\ Moves(r, "raised")
     \/ /\ Stands(r, "failing, truncated")
        /\ journal' = Failed(TRUE) \/ UNCHANGED journal
        /\ Moves(r, "raised")
  /\ StaysPut

InFlight(r) == published[r] > acked[r]

\* dispatch_next and publish: one request at a time.
PublishRequest(r) ==
  /\ Stands(r, "uploading") /\ rosOk[r]
  /\ ~InFlight(r) /\ published[r] < Requests
  /\ published' = [published EXCEPT ![r] = @ + 1]
  /\ UNCHANGED <<stage, rosOk, journal, acked, observed>>

\* on_response with the request's identity and status 0.
Acknowledge(r) ==
  /\ Stands(r, "uploading") /\ rosOk[r]
  /\ InFlight(r)
  /\ acked' = [acked EXCEPT ![r] = @ + 1]
  /\ IF acked'[r] = Requests THEN Moves(r, "observing") ELSE UNCHANGED stage
  /\ UNCHANGED <<rosOk, journal, published, observed>>

\* A bad status, a timeout, or a context that is gone before the last answer.
UploadFails(r) ==
  /\ Stands(r, "uploading")
  /\ InFlight(r) \/ ~rosOk[r]
  /\ Moves(r, "failing")
  /\ StaysPut /\ UNCHANGED journal

\* The loop after the upload ends after 10 s, or when the context is gone,
\* which spin_once may notice first and raise.
Observe(r) ==
  /\ Stands(r, "observing")
  /\ observed' = [observed EXCEPT ![r] = rosOk[r]]
  /\ Moves(r, "concluding") \/ (~rosOk[r] /\ Moves(r, "failing"))
  /\ UNCHANGED <<rosOk, journal, published, acked>>

Over(r) == stage[r] \in {"off", "done", "raised", "killed"}

\* A signal that rclpy handles shuts the context down.
ContextShutDown(r) ==
  /\ ~Over(r) /\ stage[r] \notin {"creating", "starting"}
  /\ rosOk[r]
  /\ rosOk' = [rosOk EXCEPT ![r] = FALSE]
  /\ UNCHANGED <<stage, journal, published, acked, observed>>

\* SIGKILL, a power cut, or an exception that the handler does not catch.
KillRun(r) ==
  /\ ~Over(r)
  /\ Moves(r, "killed")
  /\ StaysPut /\ UNCHANGED journal

ProbeNext ==
  \E r \in Runs :
    \/ Preflight(r) \/ CreateJournal(r) \/ StartJournal(r)
    \/ FindEndpoints(r) \/ Truncate(r) \/ Rewrite(r)
    \/ PublishRequest(r) \/ Acknowledge(r) \/ UploadFails(r) \/ Observe(r)
    \/ ContextShutDown(r) \/ KillRun(r)

ProbeSpec == ProbeInit /\ [][ProbeNext]_probeVars

-----------------------------------------------------------------------------
(***************************************************************************)
(* One output path, one upload: however runs overlap and are killed and    *)
(* started again, at most one of them ever publishes to the robot.         *)
(***************************************************************************)
OneUploadPerJournal ==
  \A r, s \in Runs : published[r] > 0 /\ published[s] > 0 => r = s

(***************************************************************************)
(* A journal that can be read never denies what was sent: it says that the *)
(* hardware was reached if a request was published, and it is a result     *)
(* only of an upload whose every request was acknowledged.                 *)
(***************************************************************************)
JournalIsTrue ==
  /\ \A r \in Runs : published[r] > 0 =>
       journal \in {Unreadable, Attempt(TRUE), Failed(TRUE), Result}
  /\ journal = Result => \E r \in Runs : acked[r] = Requests

(***************************************************************************)
(* A result says post_playback_observation_s = 10.0: "Deliberately keep    *)
(* observing before the human signs off no delayed replay."                *)
(***************************************************************************)
ResultWasObserved == journal = Result => \E r \in Runs : observed[r]
=============================================================================
