----------------------------- MODULE SimSpeaker -----------------------------
(***************************************************************************)
(* The speaker half of the simulator's AudioBridge: _on_speaker plays each *)
(* chunk on a host device which may fail to open, fail while it is written *)
(* to, and must be opened anew when the PCM format changes.  The executor  *)
(* is single-threaded and the write blocks, so a chunk is one action.      *)
(*                                                                         *)
(* A format is a sample rate with a number of channels; unlike the robots' *)
(* adapters the simulator takes any, and lets a stream change it.          *)
(***************************************************************************)
EXTENDS StreamGuard

CONSTANTS
  Formats,  \* PCM formats
  NoFormat, \* no device is open
  Chunks    \* the chunks that may arrive

ASSUME SimSpeakerAssumption ==
  /\ NoFormat \notin Formats
  /\ \A m \in Chunks : m.chunk \in Chunk /\ m.format \in Formats

VARIABLES
  enabled,    \* speaker_enabled, fixed at start-up
  guard,      \* _spk_guard
  spkDevice,  \* _spk_stream, by the format it was opened with, or NoFormat
  cooling,    \* less than MIC_RETRY_COOLDOWN_S since _spk_open_failed_at
  played      \* what the device was last given: the samples of a stream, the
              \* format they were sent in and the format the device had

speakerVars == <<enabled, guard, spkDevice, cooling, played>>

NothingPlayed ==
  [sid |-> NoStream, from |-> 0, upTo |-> 0, sentAs |-> NoFormat, playedAs |-> NoFormat]

SpeakerTypeOK ==
  /\ enabled \in BOOLEAN /\ cooling \in BOOLEAN
  /\ guard \in Guard
  /\ spkDevice \in Formats \cup {NoFormat}
  /\ played \in [sid: Streams \cup {NoStream}, from: Nat, upTo: Nat,
                 sentAs: Formats \cup {NoFormat}, playedAs: Formats \cup {NoFormat}]
  /\ spkDevice # NoFormat => enabled /\ ~cooling

\* The device is opened at start-up, or that fails.
SpeakerInit ==
  /\ enabled \in BOOLEAN
  /\ guard = ResetGuard
  /\ \/ enabled /\ spkDevice \in Formats /\ cooling = FALSE
     \/ spkDevice = NoFormat /\ cooling = enabled
  /\ played = NothingPlayed

\* Faulty variant: the closed device is not forgotten.
OpenFails_KeepsDevice == cooling' = TRUE /\ UNCHANGED spkDevice

\* _open_speaker closes the device it has before it opens another.
OpenFails == spkDevice' = NoFormat /\ cooling' = TRUE

Opens(m) == spkDevice' = m.format /\ cooling' = FALSE

Play(m) ==
  /\ guard' = GuardAfter(guard, m.chunk)
  /\ played' = [sid |-> m.chunk.sid, from |-> m.chunk.off, upTo |-> m.chunk.off + m.chunk.len,
                sentAs |-> m.format, playedAs |-> spkDevice']

\* The samples are lost, and the rest of the stream is refused: its guard is
\* reset, so that only another START is accepted.
Lose == guard' = ResetGuard /\ UNCHANGED played

Refuse(m) ==
  /\ ~GuardAccepts(guard, m.chunk)
  /\ guard' = ResetGuard
  /\ UNCHANGED <<spkDevice, cooling, played>>

\* Faulty variant: an open device plays whatever comes.
NeedsDevice_IgnoresFormat(m) == spkDevice = NoFormat

\* There is no device, or one of another format.
NeedsDevice(m) == spkDevice # m.format

\* No device, and it is too early to try again.
StillCooling(m) ==
  /\ GuardAccepts(guard, m.chunk)
  /\ spkDevice = NoFormat /\ cooling
  /\ Lose
  /\ UNCHANGED <<spkDevice, cooling>>

\* A device has to be opened, at once for a change of format, and that fails.
CannotOpen(m) ==
  /\ GuardAccepts(guard, m.chunk)
  /\ NeedsDevice(m) /\ ~(spkDevice = NoFormat /\ cooling)
  /\ OpenFails
  /\ Lose

\* Faulty variant: a chunk that could not be written is only dropped.
CannotWrite_KeepsGuard(m) ==
  /\ GuardAccepts(guard, m.chunk)
  /\ ~(spkDevice = NoFormat /\ cooling)
  /\ OpenFails
  /\ guard' = GuardAfter(guard, m.chunk)
  /\ UNCHANGED played

\* The device is there or was just opened, and the write fails.
CannotWrite(m) ==
  /\ GuardAccepts(guard, m.chunk)
  /\ ~(spkDevice = NoFormat /\ cooling)
  /\ OpenFails
  /\ Lose

\* The device is there or is opened, and takes the samples.
Write(m) ==
  /\ GuardAccepts(guard, m.chunk)
  /\ ~(spkDevice = NoFormat /\ cooling)
  /\ IF NeedsDevice(m) THEN Opens(m) ELSE UNCHANGED <<spkDevice, cooling>>
  /\ Play(m)

\* _on_speaker
OnSpeaker(m) ==
  /\ enabled
  /\ Refuse(m) \/ StillCooling(m) \/ CannotOpen(m) \/ CannotWrite(m) \/ Write(m)
  /\ UNCHANGED enabled

SpeakerCoolDown ==
  /\ cooling
  /\ cooling' = FALSE
  /\ UNCHANGED <<enabled, guard, spkDevice, played>>

SpeakerNext == SpeakerCoolDown \/ \E m \in Chunks : OnSpeaker(m)

SpeakerSpec == SpeakerInit /\ [][SpeakerNext]_speakerVars

-----------------------------------------------------------------------------
(***************************************************************************)
(* Properties                                                              *)
(***************************************************************************)

\* The device is given a stream from its start and without a gap: whatever it
\* refuses or loses, nothing after the loss is played, so a listener never hears
\* the end of a sentence whose middle is missing.  And it is given them in the
\* format they were sent in, however often that changes.
PlaysHeads ==
  [][played' # played =>
       /\ played'.from = 0 \/ (played'.sid = played.sid /\ played'.from = played.upTo)
       /\ played'.playedAs = played'.sentAs]_speakerVars

\* An accepted stream that is open has been played up to the offset expected
\* next: guard and device never disagree about how much of it was heard.
PlayedUpToGuard ==
  guard.sid # NoStream => played.sid = guard.sid /\ played.upTo = guard.off
=============================================================================
