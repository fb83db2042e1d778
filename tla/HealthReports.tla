--------------------------- MODULE HealthReports ---------------------------
(***************************************************************************)
(* The diagnostics of the two robots' audio bridges.  A bridge builds its  *)
(* report (health.py) as key/value texts; the domain gateway validates it  *)
(* (diagnostic_contract.py on G1, health.py on Go2) and drops what it      *)
(* refuses.  The builder checks numbers before it formats them, the        *)
(* validator parses the texts again.                                       *)
(*                                                                         *)
(* One counter and one timing stand for all of each kind; numbers are in   *)
(* the neighbourhood of the limits, timings in steps that %.3f keeps.      *)
(***************************************************************************)
EXTENDS Integers

CONSTANTS
  MaxCount,   \* 10**15
  MaxTiming   \* 600000 ms

OK == 0
WARN == 1
ERROR == 2
Unavailable == -1  \* the timing that was never measured

Counts == {0, MaxCount, MaxCount + 1}
Timings == {0, MaxTiming, MaxTiming + 1}

\* What the G1 bridge knows when it builds a report.
G1Inputs ==
  [speaker_enabled: BOOLEAN, volume_confirmed: BOOLEAN, latched_fault: BOOLEAN,
   counter: Counts, timing: Timings \cup {Unavailable}, buffered_audio_ms: Timings]

\* What the Go2 bridge knows.  Evidence is loaded at start-up if anything is enabled
\* (for the speaker too if that is), and the bridge refuses to start without it.
Go2Inputs ==
  {i \in [mic_enabled: BOOLEAN, speaker_enabled: BOOLEAN, profile_evidence_valid: BOOLEAN,
          speaker_evidence_valid: BOOLEAN, mic_stream_live: BOOLEAN,
          latched_fault: BOOLEAN, counter: Counts, timing: Timings \cup {Unavailable}] :
     /\ i.profile_evidence_valid <=> i.mic_enabled \/ i.speaker_enabled
     /\ i.speaker_evidence_valid => i.profile_evidence_valid
     /\ i.speaker_enabled => i.speaker_evidence_valid
     /\ i.mic_stream_live => i.mic_enabled}

VARIABLES
  known,   \* what a bridge knows when its diagnostics timer fires
  report   \* the report it built, NotBuilt before or if it raised

healthVars == <<known, report>>
NotBuilt == [level |-> -1]

IsG1(i) == "volume_confirmed" \in DOMAIN i

CountFits(c) == c \in 0..MaxCount
TimingFits(t) == t \in Unavailable..MaxTiming

\* voice_health_report raises for numbers out of range.
G1Builds(i) ==
  /\ CountFits(i.counter)
  /\ TimingFits(i.timing) /\ TimingFits(i.buffered_audio_ms)
  /\ i.buffered_audio_ms >= 0

G1Level(i) ==
  IF i.latched_fault THEN ERROR
  ELSE IF i.volume_confirmed /\ i.speaker_enabled THEN OK ELSE WARN

\* audio_health_report
Go2Builds(i) == CountFits(i.counter) /\ TimingFits(i.timing)

Go2Level(i) ==
  IF i.latched_fault THEN ERROR
  ELSE IF /\ i.mic_enabled \/ i.speaker_enabled
          /\ i.profile_evidence_valid
          /\ i.mic_enabled => i.mic_stream_live
          /\ i.speaker_enabled => i.speaker_evidence_valid
       THEN OK ELSE WARN

\* What the reports' texts say when they are parsed again.
G1Report(i) ==
  [level |-> G1Level(i), ready |-> G1Level(i) = OK, counter |-> i.counter,
   timing |-> i.timing, buffered |-> i.buffered_audio_ms]
Go2Report(i) ==
  [level |-> Go2Level(i), ready |-> Go2Level(i) = OK, counter |-> i.counter,
   timing |-> i.timing]

\* Faulty variant: a timing that was never measured is refused.
G1Accepts_NeverUnavailable(r) ==
  /\ r.level \in 0..3
  /\ r.ready <=> r.level = OK
  /\ CountFits(r.counter) /\ TimingFits(r.timing)
  /\ r.timing >= 0 /\ r.buffered >= 0

\* validate_audio_diagnostic of the two gateways.
G1Accepts(r) ==
  /\ r.level \in 0..3
  /\ r.ready <=> r.level = OK
  /\ CountFits(r.counter)
  /\ TimingFits(r.timing) /\ TimingFits(r.buffered)
  /\ r.buffered >= 0

Go2Accepts(r) ==
  /\ r.level \in 0..3
  /\ r.ready <=> r.level = OK
  /\ CountFits(r.counter) /\ TimingFits(r.timing)

HealthInit == known \in G1Inputs \cup Go2Inputs /\ report = NotBuilt

BuildG1 ==
  /\ IsG1(known) /\ G1Builds(known)
  /\ report' = G1Report(known)
  /\ UNCHANGED known

BuildGo2 ==
  /\ ~IsG1(known) /\ Go2Builds(known)
  /\ report' = Go2Report(known)
  /\ UNCHANGED known

HealthNext == report = NotBuilt /\ (BuildG1 \/ BuildGo2)

HealthSpec == HealthInit /\ [][HealthNext]_healthVars

-----------------------------------------------------------------------------
(***************************************************************************)
(* No report that a bridge manages to build is refused by its gateway for  *)
(* its numbers, flags or levels.  One whose builder raises is not sent at  *)
(* all, and the texts (last_fault) are left out.                           *)
(***************************************************************************)
BuiltReportsPass ==
  report # NotBuilt => IF IsG1(known) THEN G1Accepts(report) ELSE Go2Accepts(report)
=============================================================================
