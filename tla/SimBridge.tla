----------------------------- MODULE SimBridge -----------------------------
(***************************************************************************)
(* The simulator's AudioBridge: the microphone and the speaker in one      *)
(* node.  They share the executor's thread, which serves one callback at a *)
(* time, and shutdown(), which closes the devices of both.                 *)
(***************************************************************************)
EXTENDS SimMic, SimSpeaker

\* AudioBridge.__init__ starts the microphone, then opens the speaker's device.
BridgeInit == Init /\ SpeakerInit

\* _on_speaker runs when the executor's thread is free.
ServeSpeaker ==
  /\ spin.at = "idle"
  /\ \E m \in Chunks : OnSpeaker(m)
  /\ UNCHANGED vars

\* shutdown() closes what is open.
BridgeShutdown ==
  /\ Shutdown
  /\ spkDevice' = NoFormat
  /\ UNCHANGED <<enabled, guard, cooling, played>>

BridgeNext ==
  \/ Serves /\ UNCHANGED speakerVars
  \/ ServeSpeaker
  \/ SpeakerCoolDown /\ UNCHANGED vars
  \/ BridgeShutdown

BridgeSpec == BridgeInit /\ [][BridgeNext]_<<vars, speakerVars>>

-----------------------------------------------------------------------------
\* The types of both halves.
BothTypesOK == TypeOK /\ SpeakerTypeOK
=============================================================================
