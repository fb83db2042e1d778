--------------------------- MODULE MicStreamProbe ---------------------------
(***************************************************************************)
(* mic_stream_probe.py and mic_stream_core.py: the probe listens to the    *)
(* G1's microphone multicast and judges whether it is continuous.  The     *)
(* packets carry no number: losses are inferred from arrival times alone.  *)
(*                                                                         *)
(* Time is in units of which Period make the nominal interval.  The        *)
(* verdict depends on the multiset of interarrival times and their sum, so *)
(* a bag of them stands for the arrivals.  Percentiles, bursts, windows    *)
(* and the PCM's level are reported, not judged, and left out.             *)
(***************************************************************************)
EXTENDS Integers

CONSTANTS
  Period,    \* nominal interval
  Jitter,    \* a packet arrives at most so late
  Packets,   \* bound: packets the source sends
  MaxLate,   \* bound: packets that are late
  MaxLost    \* bound: packets that are lost

\* A packet never overtakes the one before it.
ASSUME MicProbeAssumption == Period \in Nat /\ Jitter \in Nat /\ Jitter < Period

VARIABLES
  sent,      \* packets the source has sent (history)
  late,      \* of these, the ones that came late (history)
  missed,    \* lost since the last that was received (history)
  lost,      \* lost between the first and the last received (history)
  received,  \* arrivals
  delay,     \* by how much the last one was late
  gaps,      \* interarrival times: how often each occurred
  apart,     \* the first arrival and the last, arrivals_s[-1] - arrivals_s[0]
  offContract,  \* a payload had another size
  unexpected,   \* a packet came from another sender
  exit       \* the probe's exit code, Running before

micVars == <<sent, late, missed, lost, received, delay, gaps, apart,
             offContract, unexpected, exit>>

Running == 3
Intervals == 1..((MaxLost + 1) * Period + Jitter)

MicInit ==
  /\ sent = 0 /\ late = 0 /\ missed = 0 /\ lost = 0
  /\ received = 0 /\ delay = 0 /\ gaps = [v \in Intervals |-> 0] /\ apart = 0
  /\ offContract = FALSE /\ unexpected = FALSE
  /\ exit = Running

\* The interval to a packet that comes d late, after those that were missed.
Interval(d) == (missed + 1) * Period + d - delay

\* The loop of main: a packet of the expected sender, d late.
Receive(d, rightSize) ==
  /\ exit = Running /\ sent < Packets
  /\ d > 0 => late < MaxLate
  /\ sent' = sent + 1
  /\ late' = IF d > 0 THEN late + 1 ELSE late
  /\ received' = received + 1
  /\ delay' = d
  /\ IF received = 0 THEN UNCHANGED <<gaps, apart, lost>>
     ELSE /\ gaps' = [gaps EXCEPT ![Interval(d)] = @ + 1]
          /\ apart' = apart + Interval(d)
          /\ lost' = lost + missed
  /\ missed' = 0
  /\ offContract' = (offContract \/ ~rightSize)
  /\ UNCHANGED <<unexpected, exit>>

Lose ==
  /\ exit = Running /\ sent < Packets
  /\ lost + missed < MaxLost
  /\ sent' = sent + 1
  /\ missed' = missed + 1
  /\ UNCHANGED <<late, lost, received, delay, gaps, apart, offContract, unexpected, exit>>

\* Packets of another sender are counted and otherwise ignored.
ReceiveUnexpected ==
  /\ exit = Running
  /\ unexpected' = TRUE
  /\ UNCHANGED <<sent, late, missed, lost, received, delay, gaps, apart, offContract, exit>>

-----------------------------------------------------------------------------
\* analyze_mic_stream

Count == received - 1

\* Python's round() of a / b: a half goes to the even neighbour.
Rounded(a, b) ==
  LET q == a \div b  twice == 2 * (a % b) IN
  IF twice > b \/ (twice = b /\ q % 2 = 1) THEN q + 1 ELSE q

\* Faulty variant: every interval is rounded, jitter included.
IsHole_AnyLonger(v) == gaps[v] > 0 /\ v * Count > apart

\* An interval above 1.75 times the mean one.
IsHole(v) == gaps[v] > 0 /\ 4 * v * Count > 7 * apart

\* The intervals that count for missing_packets: as many fit in at the mean one.
Holes == {v \in Intervals : IsHole(v) /\ Rounded(v * Count, apart) > 1}

Span == apart + Period
Drift == Span - received * Period

\* Faulty variant: only a stream that is too fast drifts.
Drifts_OneSided == -Drift * 100 > Span

\* More than 1 % of the span, either way.
Drifts == (IF Drift < 0 THEN -Drift ELSE Drift) * 100 > Span

Continuous == received > 0 /\ ~offContract /\ Holes = {} /\ ~Drifts

\* The deadline: the verdict becomes the exit code.
Judge ==
  /\ exit = Running
  /\ exit' = IF received = 0 THEN 2 ELSE IF Continuous /\ ~unexpected THEN 0 ELSE 1
  /\ UNCHANGED <<sent, late, missed, lost, received, delay, gaps, apart, offContract, unexpected>>

MicNext ==
  \/ \E d \in 0..Jitter, rightSize \in BOOLEAN : Receive(d, rightSize)
  \/ Lose
  \/ ReceiveUnexpected
  \/ Judge

MicSpec == MicInit /\ [][MicNext]_micVars

-----------------------------------------------------------------------------
(***************************************************************************)
(* Exit code 0 bounds what was lost between the first and the last packet  *)
(* received: at most 1 % of the time they span, but for one packet's       *)
(* jitter.                                                                 *)
(***************************************************************************)
ContinuousBoundsLoss == exit = 0 => 100 * (lost * Period - Jitter) <= Span

(***************************************************************************)
(* Jitter is not taken for loss: of five packets or more that all arrived, *)
(* late by no more than half an interval, none is counted as missing.      *)
(***************************************************************************)
NoPhantomLoss == received >= 5 /\ lost = 0 => Holes = {}
=============================================================================
