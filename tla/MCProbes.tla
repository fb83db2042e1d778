------------------------------ MODULE MCProbes ------------------------------
(***************************************************************************)
(* Instances of the operator's tools and of the health contract.  A tool   *)
(* is a program of its own that keeps nothing in common with another, so a *)
(* behaviour is one tool's; the others' variables keep their initial       *)
(* values.                                                                 *)
(***************************************************************************)
EXTENDS TimingEvidence, SpeakerProbe, EvidenceBundle, ProfileEvidence,
        VolumeProbe, HealthReports, MicStreamProbe, CaptureSummary, TLC

VARIABLE tool

\* One robot went over to u-law with its second firmware, the other to Opus.
MCCodecOf ==
  <<"go2_01", "f1">> :> "opus" @@ <<"go2_01", "f2">> :> "ulaw" @@
  <<"go2_02", "f1">> :> "ulaw" @@ <<"go2_02", "f2">> :> "opus"

\* The names of captures are not told apart.
MCSymmetry == Permutations(Captures)

Tools == {"native timing", "speaker", "volume", "bundle", "microphone", "health",
          "discovery", "profile"}

toolVars == <<vars, probeVars, volumeVars, bundleVars, micVars, healthVars,
              summaryVars, profileVars>>

MCInit ==
  /\ tool \in Tools
  /\ Init /\ ProbeInit /\ VolumeInit /\ BundleInit /\ MicInit
  /\ HealthInit /\ SummaryInit /\ ProfileInit
  /\ tool # "health" => known = CHOOSE i \in G1Inputs : TRUE
  /\ tool # "discovery" => stride = 1 /\ head = 0
  /\ tool # "profile" => firmware = [r \in Robots |-> "f1"]

Only(t) ==
  /\ tool = t /\ UNCHANGED tool
  /\ t # "native timing" => UNCHANGED vars
  /\ t # "speaker" => UNCHANGED probeVars
  /\ t # "volume" => UNCHANGED volumeVars
  /\ t # "bundle" => UNCHANGED bundleVars
  /\ t # "microphone" => UNCHANGED micVars
  /\ t # "health" => UNCHANGED healthVars
  /\ t # "discovery" => UNCHANGED summaryVars
  /\ t # "profile" => UNCHANGED profileVars

MCNext ==
  \/ Only("native timing") /\ Next
  \/ Only("speaker") /\ ProbeNext
  \/ Only("volume") /\ VolumeNext
  \/ Only("bundle") /\ BundleNext
  \/ Only("microphone") /\ MicNext
  \/ Only("health") /\ HealthNext
  \/ Only("discovery") /\ SummaryNext
  \/ Only("profile") /\ ProfileNext

MCSpec == MCInit /\ [][MCNext]_<<tool, toolVars>>
=============================================================================
