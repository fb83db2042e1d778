--------------------------- MODULE TimingEvidence ---------------------------
(***************************************************************************)
(* What is made of the captures: the native timing certificate of a lane   *)
(* (native_timing_certificate.py) and the strict timing report of the two  *)
(* lanes (strict_timing.py).  They are given the names of their inputs by  *)
(* an operator, who may give them any file, at any time.  SHA-256 digests  *)
(* of files are compared, so the files' lines stand for them.              *)
(***************************************************************************)
EXTENDS NativeCapture

VARIABLES
  observation,  \* the certificate, by the QoS its header declares
  strict        \* the frames of a strict report with evidence_integrity_passed

vars == <<captureVars, observation, strict>>

NoObservation == [rows |-> <<>>, elapsed |-> 0]
NoReport == [l \in Lanes |-> <<>>]

Init ==
  /\ CaptureInit
  /\ observation = [l \in Lanes |-> NoObservation]
  /\ strict = NoReport

\* _load_frames: whole lines only, two at least.
Loads(lines) == Len(lines) >= 2 /\ \A i \in DOMAIN lines : lines[i].kind = "frame"

\* _load_metadata: a header, rows and a trailer, every line whole.
LoadsMetadata(lines) ==
  /\ Len(lines) >= 4
  /\ lines[1].kind = "capture_start"
  /\ lines[Len(lines)].kind = "capture_end"
  /\ \A i \in 2..Len(lines) - 1 : lines[i].kind = "frame"

\* Faulty variant: the lines are compared as far as both files go.
Fits_Zipped(rows, lines) ==
  LET n == IF Len(rows) < Len(lines) - 2 THEN Len(rows) ELSE Len(lines) - 2 IN
  \A i \in 1..n : rows[i] = lines[i + 1]

\* certify_native_timing: counts, and each row's source and callback times.
Fits(rows, lines) ==
  /\ lines[Len(lines)].count = Len(rows)
  /\ Len(lines) - 2 = Len(rows)
  /\ \A i \in DOMAIN rows : rows[i] = lines[i + 1]

\* The clocks must have advanced.
Certifies(rows, lines) ==
  /\ LoadsMetadata(lines)
  /\ Fits(rows, lines)
  /\ lines[Len(lines)].elapsed > 0

\* What a certificate keeps: the frames, by their digest, and how long it took.
Observation(rows, lines) == [rows |-> rows, elapsed |-> lines[Len(lines)].elapsed]

\* main: the frames f are read first, then the metadata of l; the output is new.
Certify(f, l) ==
  /\ frames[f].there /\ metadata[l].there
  /\ \E rows \in Before(frames[f]), lines \in Seen(metadata[l]) :
       /\ Loads(rows)
       /\ Certifies(rows, lines)
       /\ observation[lines[1].lane] = NoObservation
       /\ observation' = [observation EXCEPT ![lines[1].lane] = Observation(rows, lines)]
  /\ UNCHANGED <<captureVars, strict>>

\* _load_capture: the source clock only goes forward.
LoadsCapture(lines) ==
  Loads(lines) /\ \A i \in 1..Len(lines) - 1 : lines[i].at < lines[i + 1].at

\* source_step_exact: the source clock advances by one period.
StepsExactly(rows) == \A i \in 1..Len(rows) - 1 : rows[i + 1].at = rows[i].at + 1

Times(rows) == {rows[i].at : i \in DOMAIN rows}

\* At least 99 % of the shorter lane's frames: of fewer than 100, all.
Overlap(a, b) == Times(a) \subseteq Times(b) \/ Times(b) \subseteq Times(a)

\* docker inspect: ExitCode is 0 unless the container ended with another.
CleanExit(l) == pc[l] \notin {"failed", "killed"}

\* Faulty variant: the captures' digests are not compared with the observations'.
Integrity_Unbound(a, b, oa, ob) ==
  /\ oa = "reliable" /\ ob = "best_effort"
  /\ \A l \in {oa, ob} : observation[l].elapsed >= Duration /\ CleanExit(l)
  /\ StepsExactly(a) /\ StepsExactly(b)
  /\ Overlap(a, b)

(***************************************************************************)
(* evaluate_strict_timing: the checks that make evidence_integrity_passed, *)
(* but for those of the containers' options and of the receive cadence's   *)
(* statistics, which depend on nothing here.  a and b are the two lanes'   *)
(* frames as read now, oa and ob the lanes whose observations and          *)
(* containers are given.                                                   *)
(***************************************************************************)
Integrity(a, b, oa, ob) ==
  /\ a = observation[oa].rows /\ b = observation[ob].rows
  /\ oa = "reliable" /\ ob = "best_effort"
  /\ \A l \in {oa, ob} : observation[l].elapsed >= Duration /\ CleanExit(l)
  /\ StepsExactly(a) /\ StepsExactly(b)
  /\ Overlap(a, b)

\* main: the output must be new.
EvaluateStrictTiming(fa, fb, oa, ob) ==
  /\ strict = NoReport
  /\ frames[fa].there /\ frames[fb].there
  /\ \E a \in Before(frames[fa]), b \in Before(frames[fb]) :
       /\ LoadsCapture(a) /\ LoadsCapture(b)
       /\ Integrity(a, b, oa, ob)
       /\ strict' = [reliable |-> a, best_effort |-> b]
  /\ UNCHANGED <<captureVars, observation>>

Next ==
  \/ CaptureNext /\ UNCHANGED <<observation, strict>>
  \/ \E f, l \in Lanes : Certify(f, l)
  \/ \E fa, fb, oa, ob \in Lanes : EvaluateStrictTiming(fa, fb, oa, ob)

Spec == Init /\ [][Next]_vars

-----------------------------------------------------------------------------
\* The lines of everything the lane's callback was given.
WholeCapture(l) == [i \in DOMAIN heard[l] |-> Row(l, heard[l][i])]

(***************************************************************************)
(* A certificate is about one whole capture: every frame its process       *)
(* received and no other, whichever files were given, read at whatever     *)
(* time, and whether or not the process was killed.                        *)
(***************************************************************************)
CertifiedIsWhole ==
  \A l \in Lanes : observation[l] # NoObservation => observation[l].rows = WholeCapture(l)

(***************************************************************************)
(* A strict report whose integrity passed is about the two lanes' whole    *)
(* captures, in neither of which a frame was lost between the first and    *)
(* the last.                                                               *)
(***************************************************************************)
StrictIsWhole ==
  strict # NoReport =>
    \A l \in Lanes :
      /\ strict[l] = WholeCapture(l)
      /\ \A n \in heard[l][1]..heard[l][Len(heard[l])] : n \in Times(strict[l])

(***************************************************************************)
(* When the script says that the capture completed, each lane's files are  *)
(* there for a certificate: no reader, at no later time, finds them        *)
(* incomplete or at odds, unless too few frames came for a certificate.    *)
(***************************************************************************)
CompletedIsCertifiable ==
  runner = "completed" =>
    \A l \in Lanes : Len(heard[l]) >= 2 =>
      /\ frames[l].there /\ metadata[l].there
      /\ \A rows \in Seen(frames[l]), lines \in Seen(metadata[l]) :
           Loads(rows) /\ Certifies(rows, lines)
=============================================================================
