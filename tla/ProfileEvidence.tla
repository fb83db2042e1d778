-------------------------- MODULE ProfileEvidence --------------------------
(***************************************************************************)
(* From a capture of a Go2's microphone to the bridge that decodes it.     *)
(* Frames of 160 bytes every 20 ms are Opus on one firmware and u-law on   *)
(* another, so nothing on the wire tells the codec.  The operator captures *)
(* (discovery_probe), decodes under a profile and listens (decode_capture),*)
(* writes a manifest about it and pins its hash in the deployment; the     *)
(* bridge checks the manifest against its parameters when it starts        *)
(* (profiles.py).  Meanwhile robots are updated, captures grow old and     *)
(* manifests are written anew, of whatever captures there are.             *)
(*                                                                         *)
(* Nothing reads the firmware off the robot: the manifest's and the        *)
(* bridge's are typed by the operator, as is the robot's name, and either  *)
(* may be wrong or no longer so.                                           *)
(***************************************************************************)
EXTENDS Naturals

CONSTANTS
  Robots, Firmwares,
  CodecOf,    \* the codec each robot sends with each firmware
  Captures    \* file names of captures

VARIABLES
  firmware,   \* what each robot runs
  captures,   \* the captures on disk
  manifest,   \* the manifest on disk
  pinned,     \* it is the one whose hash the deployment names
  bridge      \* the bridge once started, or Off

profileVars == <<firmware, captures, manifest, pinned, bridge>>

Codecs == {"opus", "ulaw"}

\* PROFILES
Profiles ==
  { [name |-> "go2_opus48_audiohub_v1", mic_codec |-> "opus", speaker_protocol |-> "audiohub_v1"],
    [name |-> "go2_ulaw8_mic_only", mic_codec |-> "ulaw", speaker_protocol |-> "None"] }

NoCapture == [robot |-> "none"]
NoManifest == [robot_id |-> "none"]
Off == [robot |-> "none"]

ProfileInit ==
  /\ firmware \in [Robots -> Firmwares]
  /\ captures = [c \in Captures |-> NoCapture]
  /\ manifest = NoManifest /\ pinned = FALSE
  /\ bridge = Off

Recorded == {c \in Captures : captures[c] # NoCapture}

\* discovery_probe on a robot: fits says that profiles.py will find nothing
\* wrong with the observation (CaptureSummary) or its age.
Discover(c, r, fits) ==
  /\ captures[c] = NoCapture
  /\ captures' = [captures EXCEPT ![c] =
       [robot |-> r, firmware |-> firmware[r], fits |-> fits]]
  /\ UNCHANGED <<firmware, manifest, pinned, bridge>>

GrowOld(c) ==
  /\ captures[c] # NoCapture /\ captures[c].fits
  /\ captures' = [captures EXCEPT ![c].fits = FALSE]
  /\ UNCHANGED <<firmware, manifest, pinned, bridge>>

\* decode_capture, and the operator's ear: only the codec that the robot used
\* decodes without errors to something intelligible.
Decoded(c, codec) ==
  [capture |-> c, decoder |-> codec,
   intelligible |-> codec = CodecOf[<<captures[c].robot, captures[c].firmware>>]]

\* The operator writes the manifest: of which robot and firmware, by his account,
\* the capture c is, what was heard, and the profile to be used.  Of the drafts
\* before it is pinned only the last one counts (bound).
WriteManifest(c, heard, codec, p, speaker, r, f) ==
  /\ manifest = NoManifest \/ pinned
  /\ manifest' = [robot_id |-> r, source_firmware |-> f,
                  hardware_profile |-> p.name, observation |-> c,
                  codec_probe |-> Decoded(heard, codec), speaker_probe |-> speaker]
  /\ pinned' = FALSE
  /\ UNCHANGED <<firmware, captures, bridge>>

Pin ==
  /\ manifest # NoManifest /\ ~pinned
  /\ pinned' = TRUE
  /\ UNCHANGED <<firmware, captures, manifest, bridge>>

UpdateFirmware(r, f) ==
  /\ f # firmware[r]
  /\ firmware' = [firmware EXCEPT ![r] = f]
  /\ UNCHANGED <<captures, manifest, pinned, bridge>>

-----------------------------------------------------------------------------
\* validate_profile_evidence, on the codec probe and on the speaker probe, which
\* tells of an upload through audiohub_v1.
CodecFits(p) ==
  /\ manifest.codec_probe.decoder = p.mic_codec
  /\ manifest.codec_probe.intelligible
  /\ manifest.codec_probe.capture = manifest.observation

SpeakerFits(p) ==
  manifest.speaker_probe # "absent" =>
    /\ manifest.speaker_probe = "confirmed"
    /\ p.speaker_protocol = "audiohub_v1"

\* Faulty variant: the firmware is not looked at.
EvidenceFits_AnyFirmware(r, f, p, speakerEnabled) ==
  /\ manifest.robot_id = r
  /\ manifest.hardware_profile = p.name
  /\ captures[manifest.observation].fits
  /\ CodecFits(p) /\ SpeakerFits(p)
  /\ speakerEnabled => p.speaker_protocol # "None" /\ manifest.speaker_probe = "confirmed"

\* The rest of it; f is runtime_firmware, a parameter of the deployment.
EvidenceFits(r, f, p, speakerEnabled) ==
  /\ manifest.robot_id = r
  /\ manifest.hardware_profile = p.name
  /\ manifest.source_firmware = f
  /\ captures[manifest.observation].fits
  /\ CodecFits(p) /\ SpeakerFits(p)
  /\ speakerEnabled => p.speaker_protocol # "None" /\ manifest.speaker_probe = "confirmed"

\* load_profile_evidence: the file must be there and have the pinned hash.
LoadsEvidence(r, f, p, speakerEnabled) ==
  manifest # NoManifest /\ pinned /\ EvidenceFits(r, f, p, speakerEnabled)

\* The bridge's start: without microphone and speaker it needs no evidence;
\* refused evidence ends the process.
Start(r, f, p, mic, speaker) ==
  /\ mic \/ speaker => LoadsEvidence(r, f, p, speaker)
  /\ bridge' = [robot |-> r, firmware |-> f,
                decodes |-> IF mic THEN p.mic_codec ELSE "nothing",
                plays |-> IF speaker THEN p.speaker_protocol ELSE "nothing"]
  /\ UNCHANGED <<firmware, captures, manifest, pinned>>

\* Up to the start of one bridge: a stopped one leaves nothing behind.
ProfileNext ==
  /\ bridge = Off
  /\ \/ \E c \in Captures, r \in Robots, fits \in BOOLEAN : Discover(c, r, fits)
     \/ \E c \in Captures : GrowOld(c)
     \/ \E c, heard \in Recorded, codec \in Codecs, p \in Profiles,
           speaker \in {"absent", "confirmed", "unconfirmed"}, r \in Robots, f \in Firmwares :
          WriteManifest(c, heard, codec, p, speaker, r, f)
     \/ Pin
     \/ \E r \in Robots, f \in Firmwares : UpdateFirmware(r, f)
     \/ \E r \in Robots, f \in Firmwares, p \in Profiles, mic, speaker \in BOOLEAN :
          Start(r, f, p, mic, speaker)

ProfileSpec == ProfileInit /\ [][ProfileNext]_profileVars

-----------------------------------------------------------------------------
\* What the manifest says of its capture's origin is true.
Truthful ==
  /\ manifest.robot_id = captures[manifest.observation].robot
  /\ manifest.source_firmware = captures[manifest.observation].firmware

(***************************************************************************)
(* Whatever was captured, listened to, written and updated before: a       *)
(* bridge that starts to decode uses the codec that its robot sends with   *)
(* the firmware named in its deployment, provided that the manifest tells  *)
(* the truth about its capture's origin; and one that starts to play has a *)
(* protocol to play with.  That the robot still runs the firmware that the *)
(* deployment names is nobody's check.                                     *)
(***************************************************************************)
StartsWithTheRightCodec ==
  [][bridge = Off /\ bridge' # Off =>
       /\ bridge'.decodes # "nothing" /\ Truthful =>
            bridge'.decodes = CodecOf[<<bridge'.robot, bridge'.firmware>>]
       /\ bridge'.plays # "None"]_profileVars
=============================================================================
