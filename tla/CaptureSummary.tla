--------------------------- MODULE CaptureSummary ---------------------------
(***************************************************************************)
(* discovery_probe.py records the Go2's /audiosender for some seconds and  *)
(* sums it up; profiles.py decides from the sums alone whether the capture *)
(* qualifies a microphone profile.  The transport may deliver in bursts,   *)
(* lose single frames, or keep only every second one.                      *)
(*                                                                         *)
(* Time is in units of which FrameTicks make a frame.  The summary depends *)
(* on how many frames there are and when the last one came, on how often   *)
(* each step of time_frame occurred, and on how many receive intervals are *)
(* at most so long: these stand for the frames.                            *)
(***************************************************************************)
EXTENDS Integers

CONSTANTS
  FrameTicks,    \* a profile's frame_duration_ms
  ListenTicks,   \* --duration-s
  MinDuration,   \* 10 s
  MinFrames,     \* 400
  Heads,         \* when the first frame may arrive: once the publisher is matched
  Delays,        \* by how much the transport may delay a frame ...
  MaxDelay,      \* ... at most
  MaxDelayed,    \* bound: frames it delays
  MaxDropped     \* bound: single frames it drops

ASSUME SummaryAssumption ==
  /\ FrameTicks \in Nat \ {0}
  /\ MinFrames \in Nat /\ MinFrames > 2
  /\ MinDuration \in Nat
  /\ 50 * FrameTicks <= MinDuration /\ 50 * MinFrames * FrameTicks <= 49 * MinDuration
  /\ Heads \subseteq Nat
  /\ MaxDelay \in Nat /\ Delays \subseteq 0..MaxDelay
  /\ MaxDropped \in Nat

VARIABLES
  stride,       \* the transport keeps every stride-th frame
  head,         \* when the first frame arrived
  lastArrival,  \* when the last one did, its receive_steady_s
  count,        \* how many have arrived, len(frames)
  lag,          \* by how much the last one was late
  steps,        \* steps of time_frame: how often each occurred
  within,       \* how many receive intervals are at most so long
  otherSize,    \* a payload had not the profile's size
  delayed,      \* frames delayed so far (history)
  tardy,        \* of these, one by more than 0.3 of a frame (history)
  skipped,      \* dropped since the last that arrived (history)
  dropped,      \* single frames dropped so far (history)
  verdict       \* on the capture, or recording

summaryVars == <<stride, head, lastArrival, count, lag, steps, within, otherSize,
                 delayed, tardy, skipped, dropped, verdict>>

Steps == 1..(2 * (MaxDropped + 1))
ReceiveIntervals == 0..(2 * (MaxDropped + 1) * FrameTicks + MaxDelay)

\* The capture at its first frame; its clock has run since the subscription was
\* created.
SummaryInit ==
  /\ stride \in {1, 2} /\ head \in Heads
  /\ lastArrival = head /\ count = 1 /\ lag = 0
  /\ steps = [s \in Steps |-> 0] /\ within = [v \in ReceiveIntervals |-> 0]
  /\ otherSize = FALSE
  /\ delayed = 0 /\ tardy = FALSE /\ skipped = 0 /\ dropped = 0
  /\ verdict = "recording"

NextStep == stride * (skipped + 1)
NextDue == lastArrival - lag + NextStep * FrameTicks

\* How late a frame comes that the transport delays by d.  Delivery is in order:
\* a frame that waits holds up those behind it.
Lateness(d) == IF d >= lag - NextStep * FrameTicks THEN d ELSE lag - NextStep * FrameTicks

\* on_audio, called by spin_once as long as the loop's time has not come.
Arrive(d, rightSize) ==
  LET interval == NextStep * FrameTicks + Lateness(d) - lag IN
  /\ verdict = "recording" /\ lastArrival < ListenTicks
  /\ d > 0 => delayed < MaxDelayed
  /\ delayed' = IF d > 0 THEN delayed + 1 ELSE delayed
  /\ tardy' = (tardy \/ 10 * d > 3 * FrameTicks)
  /\ lag' = Lateness(d)
  /\ lastArrival' = lastArrival + interval
  /\ count' = count + 1
  /\ steps' = [steps EXCEPT ![NextStep] = @ + 1]
  /\ within' = [v \in ReceiveIntervals |-> IF interval <= v THEN within[v] + 1 ELSE within[v]]
  /\ otherSize' = (otherSize \/ ~rightSize)
  /\ skipped' = 0
  /\ UNCHANGED <<stride, head, dropped, verdict>>

Drop ==
  /\ verdict = "recording" /\ lastArrival < ListenTicks
  /\ dropped < MaxDropped
  /\ dropped' = dropped + 1 /\ skipped' = skipped + 1
  /\ UNCHANGED <<stride, head, lastArrival, count, lag, steps, within, otherSize,
                 delayed, tardy, verdict>>

-----------------------------------------------------------------------------
\* summarize_frames

Between == count - 1

\* Faulty variant: a step counts as an outlier only if it is not positive.
NoStepOutliers_OnlyBackwards == TRUE

\* source_step_outliers is 0: one step, the mode, is every frame's.
NoStepOutliers == \E mode \in Steps : steps[mode] = Between

\* The k-th smallest interval.
Ranked(k) ==
  CHOOSE v \in ReceiveIntervals :
    within[v] >= k /\ \A u \in ReceiveIntervals : within[u] >= k => v <= u

Percentile(q) == Ranked((q * Between + 99) \div 100)

\* statistics.median, doubled.
TwiceMedian == Ranked((Between + 1) \div 2) + Ranked(Between \div 2 + 1)

Longest == Ranked(Between)

\* validate_profile_evidence on the observation.  Gap and burst counts only have
\* to fit their fractions, the percentiles each other; an honest summary's do.
ObservationFits(elapsed) ==
  /\ elapsed >= MinDuration /\ count >= MinFrames
  /\ ~otherSize
  /\ 98 * elapsed <= 100 * count * FrameTicks
  /\ 100 * count * FrameTicks <= 102 * elapsed
  /\ 7 * FrameTicks <= 5 * TwiceMedian /\ 5 * TwiceMedian <= 13 * FrameTicks
  /\ Percentile(99) <= 4 * FrameTicks /\ Longest <= 5 * FrameTicks
  /\ NoStepOutliers

\* The loop ends when the time has come, or before if the context is shut down;
\* no frame is due until then.
EndCapture(elapsed) ==
  /\ verdict = "recording"
  /\ lastArrival <= elapsed /\ elapsed <= NextDue
  /\ verdict' = IF ObservationFits(elapsed) THEN "qualifies"
                ELSE IF elapsed >= MinDuration THEN "refused" ELSE "too short"
  /\ UNCHANGED <<stride, head, lastArrival, count, lag, steps, within, otherSize,
                 delayed, tardy, skipped, dropped>>

SummaryNext ==
  \/ \E d \in Delays, rightSize \in BOOLEAN : Arrive(d, rightSize)
  \/ Drop
  \/ \E elapsed \in lastArrival..NextDue : EndCapture(elapsed)

SummarySpec == SummaryInit /\ [][SummaryNext]_summaryVars

-----------------------------------------------------------------------------
(***************************************************************************)
(* A capture that qualifies a profile has every frame that the source sent *)
(* between its first and its last.  No one check sees to that: a single    *)
(* loss hides in the rate's tolerance, and regular losses are the mode of  *)
(* the steps.                                                              *)
(***************************************************************************)
QualifiedLostNothing == verdict = "qualifies" => \A s \in Steps \ {1} : steps[s] = 0

(***************************************************************************)
(* No capture of the right length that lost nothing is refused because     *)
(* frames came late, by no more than 0.3 of a frame: of a capture in which *)
(* every second one comes later than that, the median may be out of range. *)
(* A first frame that takes more than 2 % of the minimal duration may cost *)
(* the capture its rate: the time that passes before it counts too.        *)
(***************************************************************************)
PromptIsNotRefused ==
  verdict = "refused" =>
    stride > 1 \/ dropped > 0 \/ otherSize \/ tardy \/ 50 * head > MinDuration

\* Both: the checks on the summary tell a whole capture from one with losses.
QualifiedCaptureIsWhole == QualifiedLostNothing /\ PromptIsNotRefused
=============================================================================
