--------------------------- MODULE DomainGateways ---------------------------
(***************************************************************************)
(* The domain gateways of both robots.  They are programs of two robots    *)
(* and never meet: a behaviour is one of the G1 gateway or one of the Go2  *)
(* gateway, and the other's variables keep their initial values.  The      *)
(* diagnostics' queue, which both have, is the same variables for either.  *)
(***************************************************************************)
EXTENDS Go2DomainGateway

CONSTANTS
  MaxAge, MaxStamp, Limits,  \* as in G1DomainGateway
  G1Chunks, G1QueueSize      \* its Chunks and QueueSize

VARIABLES
  robot,                                          \* whose gateway runs
  gate, lastStamp, g1queue, g1relayed, g1closing  \* of the G1's

G1 == INSTANCE G1DomainGateway WITH
        Chunks <- G1Chunks, QueueSize <- G1QueueSize,
        queue <- g1queue, relayed <- g1relayed,
        closing <- g1closing

ASSUME G1GatewayAssumption == G1!Parameters

go2OnlyVars == <<enabled, speakerVars, stop, thread, closing>>
g1OnlyVars == <<gate, lastStamp, g1queue, g1relayed, g1closing>>

GatewaysInit == robot \in {"G1", "Go2"} /\ Init /\ G1!Init

GatewaysNext ==
  /\ UNCHANGED robot
  /\ \/ robot = "G1" /\ G1!Next /\ UNCHANGED go2OnlyVars
     \/ robot = "Go2" /\ Next /\ UNCHANGED g1OnlyVars

GatewaysSpec ==
  /\ GatewaysInit /\ [][GatewaysNext]_<<robot, vars, g1OnlyVars>>
  /\ robot = "Go2" => Fairness
  /\ robot = "G1" => G1!Fairness

-----------------------------------------------------------------------------
\* The G1 gateway's stream, too, has no holes for the robot's domain.
RelaysWithoutHolesG1 == G1!RelaysWithoutHoles

(***************************************************************************)
(* close() of the Go2 gateway cuts no callback short: a chunk or a         *)
(* diagnostic that a callback takes from its queue is published, however   *)
(* late the callback runs and whichever join timed out.  (What still waits *)
(* in a queue may be lost.)  Of the G1 gateway this does not hold: a       *)
(* callback that its close() did not wait for meets a destroyed publisher. *)
(***************************************************************************)
TakenIsPublished == [][robot = "Go2" => PublishesTaken]_vars

(***************************************************************************)
(* Of a diagnostic that replaces another nothing is lost: the second put   *)
(* always finds room (ReplacementSucceeds), and the newest diagnostic, or  *)
(* a newer one, is eventually shown in the application's domain, unless    *)
(* close() is called first.                                                *)
(***************************************************************************)
NewestIsShown ==
  \A n \in 1..MaxDiagnostics : newest = n ~> (shown >= n \/ stop \/ g1closing # "no")
=============================================================================
