----------------------- MODULE TimingEvidenceProofs -----------------------
(***************************************************************************)
(* Theorems about TimingEvidence, for every bound on the clock and every   *)
(* duration of the captures:                                               *)
(*                                                                         *)
(*   CertifiedWhole     a certificate is about one whole capture;          *)
(*   StrictWhole        a strict report is about two, without a loss;      *)
(*   CompletedCertified a completed capture can be certified from then on. *)
(*                                                                         *)
(* None of them is inductive, since none says what the files hold while    *)
(* they are written.  CaptureInv does: as long as they exist, the frames   *)
(* file holds what was heard, and the metadata file a header, the same     *)
(* rows and at most one trailer, which closes the capture for good.  That  *)
(* the runner starts each probe once (RunnerOK) keeps it closed.           *)
(***************************************************************************)
EXTENDS TimingEvidence, SequenceTheorems, TLAPS

Places == {"off", "opening", "capturing", "written", "frames flushed", "done",
           "unlinking metadata", "unlinking frames", "failed", "killed"}

\* Every line that is written.
Line ==
  [kind: {"capture_start", "frame"}, lane: Lanes, at: Nat]
    \cup [kind: {"capture_end"}, lane: Lanes, count: Nat, elapsed: Nat]

Typed ==
  /\ now \in Nat
  /\ runner \in {"idle", "half", "waiting", "stopped", "completed", "failed"}
  /\ pc \in [Lanes -> Places]
  /\ frames \in [Lanes -> [there: BOOLEAN, lines: Seq(Line), safe: Nat]]
  /\ metadata \in [Lanes -> [there: BOOLEAN, lines: Seq(Line), safe: Nat]]
  /\ heard \in [Lanes -> Seq(Nat)]

\* How far the script is.
RunnerOK ==
  /\ runner = "idle" => \A l \in Lanes : At(l, "off")
  /\ runner = "half" => At("best_effort", "off")
  /\ runner = "completed" => \A l \in Lanes : At(l, "done")

\* The callback is called while the probe captures, and never before.
HeardOK(l) ==
  /\ pc[l] \in {"off", "opening"} => heard[l] = <<>>
  /\ \A i \in DOMAIN heard[l] : heard[l][i] <= now
  /\ StepsExactly(WholeCapture(l)) =>
       \A i \in DOMAIN heard[l] : heard[l][i] = heard[l][1] + i - 1

\* A frames file, while it exists, holds the whole capture so far.
FramesOK(l) ==
  /\ frames[l].there => frames[l].lines = WholeCapture(l)
  /\ pc[l] \in {"capturing", "written", "frames flushed", "done"} => frames[l].there
  /\ pc[l] \in {"frames flushed", "done"} => frames[l].safe = Len(frames[l].lines)

\* The lines of a metadata file about n frames, complete or not.
Opens(l, lines) ==
  /\ Len(lines) \in {Len(heard[l]) + 1, Len(heard[l]) + 2}
  /\ lines[1].kind = "capture_start" /\ lines[1].lane = l
  /\ lines[1].at \in Nat /\ lines[1].at <= now
  /\ \A i \in DOMAIN heard[l] :
       lines[i + 1] = Row(l, heard[l][i]) /\ heard[l][i] > lines[1].at

Closes(l, lines) ==
  LET last == lines[Len(lines)] IN
  /\ last.kind = "capture_end"
  /\ last.count = Len(heard[l])
  /\ last.elapsed \in Nat
  /\ heard[l] # <<>> => last.elapsed > 0

MetadataOK(l) ==
  LET m == metadata[l] IN
  /\ m.there => Opens(l, m.lines)
  /\ m.there /\ Len(m.lines) = Len(heard[l]) + 2 => Closes(l, m.lines) /\ ~At(l, "capturing")
  /\ pc[l] \in {"capturing", "written", "frames flushed", "done"} => m.there
  /\ pc[l] \in {"written", "frames flushed", "done"} => Len(m.lines) = Len(heard[l]) + 2
  /\ At(l, "done") => m.safe = Len(m.lines)

LaneOK(l) == HeardOK(l) /\ FramesOK(l) /\ MetadataOK(l)

CaptureInv == Typed /\ RunnerOK /\ \A l \in Lanes : LaneOK(l)

\* A certificate is about a capture that is over.
ObservedOK(l) ==
  observation[l] # NoObservation =>
    /\ observation[l].rows = WholeCapture(l) /\ Len(heard[l]) >= 2
    /\ pc[l] \notin {"off", "opening", "capturing"}

ReportOK ==
  strict # NoReport =>
    \A l \in Lanes :
      /\ observation[l] # NoObservation
      /\ strict[l] = WholeCapture(l)
      /\ StepsExactly(WholeCapture(l))

EvidenceInv ==
  /\ CaptureInv
  /\ DOMAIN observation = Lanes
  /\ \A l \in Lanes : ObservedOK(l)
  /\ ReportOK

-----------------------------------------------------------------------------
(***************************************************************************)
(* The lines of a capture                                                  *)
(***************************************************************************)

\* The whole capture has a row for each frame that was heard.
LEMMA WholeFacts ==
  ASSUME Typed, NEW l \in Lanes
  PROVE  /\ heard[l] \in Seq(Nat) /\ Len(heard[l]) \in Nat
         /\ DOMAIN heard[l] = 1..Len(heard[l])
         /\ WholeCapture(l) \in Seq(Line)
         /\ Len(WholeCapture(l)) = Len(heard[l])
         /\ \A i \in 1..Len(heard[l]) :
              /\ heard[l][i] \in Nat
              /\ WholeCapture(l)[i] = Row(l, heard[l][i])
<1>1. heard[l] \in Seq(Nat) /\ Len(heard[l]) \in Nat /\ DOMAIN heard[l] = 1..Len(heard[l])
  BY LenProperties DEF Typed
<1>2. \A i \in 1..Len(heard[l]) : heard[l][i] \in Nat
  BY <1>1, ElementOfSeq
<1>3. WholeCapture(l) = [i \in 1..Len(heard[l]) |-> Row(l, heard[l][i])]
  BY <1>1 DEF WholeCapture
<1>4. ASSUME NEW i \in 1..Len(heard[l]) PROVE Row(l, heard[l][i]) \in Line
  <2>1. heard[l][i] \in Nat
    BY <1>2
  <2> QED
    BY <2>1 DEF Row, Line
<1>5. WholeCapture(l) \in Seq(Line)
  <2>1. WholeCapture(l) \in [1..Len(heard[l]) -> Line]
    BY <1>3, <1>4
  <2> QED
    BY <1>1, <2>1, SeqDef
<1>6. Len(WholeCapture(l)) = Len(heard[l])
  BY <1>1, <1>3, <1>5, LenProperties
<1> QED
  BY <1>1, <1>2, <1>3, <1>5, <1>6

\* A frame that is heard is one row more.
LEMMA WholeGrows ==
  ASSUME Typed, NEW l \in Lanes, NEW n \in Nat, heard'[l] = Append(heard[l], n)
  PROVE  WholeCapture(l)' = Append(WholeCapture(l), Row(l, n))
<1> DEFINE k == Len(heard[l])
<1>1. heard[l] \in Seq(Nat) /\ k \in Nat
  BY WholeFacts
<1>2. /\ heard'[l] \in Seq(Nat) /\ Len(heard'[l]) = k + 1
      /\ \A i \in 1..k : heard'[l][i] = heard[l][i]
      /\ heard'[l][k + 1] = n
  BY <1>1, AppendProperties
<1>3. DOMAIN heard'[l] = 1..k + 1
  BY <1>2, LenProperties
<1>4. WholeCapture(l)' = [i \in 1..k + 1 |-> Row(l, heard'[l][i])]
  BY <1>3 DEF WholeCapture
<1>5. /\ WholeCapture(l) \in Seq(Line) /\ Len(WholeCapture(l)) = k
      /\ \A i \in 1..k : WholeCapture(l)[i] = Row(l, heard[l][i])
  BY WholeFacts
<1>6. Row(l, n) \in Line
  BY DEF Row, Line
<1> DEFINE new == Append(WholeCapture(l), Row(l, n))
<1>7. /\ new \in Seq(Line) /\ Len(new) = k + 1
      /\ \A i \in 1..k : new[i] = WholeCapture(l)[i]
      /\ new[k + 1] = Row(l, n)
  BY <1>5, <1>6, AppendProperties
<1>8. new \in [1..k + 1 -> Line]
  BY <1>7, LenProperties
<1>9. \A i \in 1..k + 1 : new[i] = Row(l, heard'[l][i])
  <2> SUFFICES ASSUME NEW i \in 1..k + 1 PROVE new[i] = Row(l, heard'[l][i])
    OBVIOUS
  <2>1. i \in 1..k \/ i = k + 1
    BY <1>1
  <2> QED
    BY <1>2, <1>5, <1>7, <2>1
<1> HIDE DEF new
<1>10. new = [i \in 1..k + 1 |-> Row(l, heard'[l][i])]
  BY <1>8, <1>9
<1> QED
  BY <1>4, <1>10 DEF new
-----------------------------------------------------------------------------
(***************************************************************************)
(* The probes                                                              *)
(***************************************************************************)

\* A lane that nothing happens to, while time passes.
LEMMA LaneSame ==
  ASSUME Typed, NEW l \in Lanes, LaneOK(l), now' \in Nat, now <= now',
         pc'[l] = pc[l], frames'[l] = frames[l], metadata'[l] = metadata[l],
         heard'[l] = heard[l]
  PROVE  LaneOK(l)'
<1>0. /\ DOMAIN heard[l] = 1..Len(heard[l]) /\ now \in Nat
      /\ \A i \in 1..Len(heard[l]) : heard[l][i] \in Nat
  BY WholeFacts DEF Typed
<1>1. WholeCapture(l)' = WholeCapture(l)
  BY DEF WholeCapture
<1>2. HeardOK(l)'
  BY <1>0, <1>1 DEF LaneOK, HeardOK
<1>3. FramesOK(l)'
  BY <1>1 DEF LaneOK, FramesOK
<1>4. ASSUME metadata[l].there PROVE Opens(l, metadata[l].lines)'
  <2>1. Opens(l, metadata[l].lines)
    BY <1>4 DEF LaneOK, MetadataOK
  <2>2. metadata[l].lines[1].at \in Nat /\ metadata[l].lines[1].at <= now
    BY <2>1 DEF Opens
  <2>3. metadata[l].lines[1].at <= now'
    BY <1>0, <2>2
  <2> QED
    BY <2>1, <2>3 DEF Opens, Row
<1>5. MetadataOK(l)'
  BY <1>4 DEF LaneOK, MetadataOK, Closes, At
<1> QED
  BY <1>2, <1>3, <1>5 DEF LaneOK

\* A step of one lane's probe, between two ticks.
LEMMA LaneMoves ==
  ASSUME CaptureInv, NEW l \in Lanes, NEW place \in Places, Goto(l, place),
         UNCHANGED <<now, heard>>,
         LaneOK(l)',
         \A m \in Lanes \ {l} : frames'[m] = frames[m] /\ metadata'[m] = metadata[m]
  PROVE  \A m \in Lanes : LaneOK(m)'
<1> SUFFICES ASSUME NEW m \in Lanes \ {l} PROVE LaneOK(m)'
  OBVIOUS
<1>1. pc'[m] = pc[m]
  BY DEF Goto, CaptureInv, Typed
<1>2. now' = now /\ now \in Nat /\ heard' = heard
  BY DEF CaptureInv, Typed
<1> QED
  BY <1>1, <1>2, LaneSame DEF CaptureInv

\* A frame that a capturing probe receives is a row of its two files.
LEMMA ReceiveOK ==
  ASSUME CaptureInv, NEW l \in Lanes, At(l, "capturing"),
         now' = now + 1, pc' = pc,
         heard'[l] = Append(heard[l], now + 1),
         frames'[l] = Written(frames[l], Row(l, now + 1)),
         metadata'[l] = Written(metadata[l], Row(l, now + 1))
  PROVE  LaneOK(l)'
<1> DEFINE k == Len(heard[l])
           n == now + 1
           lines == metadata[l].lines
<1>0. Typed /\ LaneOK(l) /\ pc[l] = "capturing"
  BY DEF CaptureInv, At
<1>1. /\ now \in Nat /\ n \in Nat
      /\ heard[l] \in Seq(Nat) /\ k \in Nat /\ DOMAIN heard[l] = 1..k
      /\ \A i \in 1..k : heard[l][i] \in Nat /\ heard[l][i] <= now
  BY <1>0, WholeFacts DEF Typed, LaneOK, HeardOK
<1>2. /\ heard'[l] \in Seq(Nat) /\ Len(heard'[l]) = k + 1
      /\ \A i \in 1..k : heard'[l][i] = heard[l][i]
      /\ heard'[l][k + 1] = n
  BY <1>1, AppendProperties
<1>3. DOMAIN heard'[l] = 1..k + 1
  BY <1>2, LenProperties
<1>4. WholeCapture(l)' = Append(WholeCapture(l), Row(l, n))
  BY <1>0, <1>1, WholeGrows
<1>5. Row(l, n) \in Line
  BY <1>1 DEF Row, Line
<1>6. HeardOK(l)'
  <2>1. \A i \in 1..k + 1 : heard'[l][i] <= n
    BY <1>1, <1>2
  <2>2. ASSUME StepsExactly(WholeCapture(l))'
        PROVE  \A i \in 1..k + 1 : heard'[l][i] = heard'[l][1] + i - 1
    <3>1. /\ WholeCapture(l) \in Seq(Line) /\ Len(WholeCapture(l)) = k
          /\ \A i \in 1..k : WholeCapture(l)[i].at = heard[l][i]
      <4>1. \A i \in 1..k : WholeCapture(l)[i] = Row(l, heard[l][i])
        BY <1>0, WholeFacts
      <4>2. \A i \in 1..k : WholeCapture(l)[i].at = heard[l][i]
        <5>1. \A x : Row(l, x).at = x
          BY DEF Row
        <5> QED
          BY <4>1, <5>1
      <4>3. WholeCapture(l) \in Seq(Line) /\ Len(WholeCapture(l)) = k
        BY <1>0, WholeFacts
      <4> QED
        BY <4>2, <4>3
    <3>2. /\ Len(WholeCapture(l)') = k + 1
          /\ \A i \in 1..k : WholeCapture(l)'[i] = WholeCapture(l)[i]
          /\ WholeCapture(l)'[k + 1].at = n
      BY <1>4, <1>5, <3>1, AppendProperties DEF Row
    <3>3. \A i \in 1..k : WholeCapture(l)'[i + 1].at = WholeCapture(l)'[i].at + 1
      BY <1>1, <2>2, <3>2 DEF StepsExactly
    <3>4. StepsExactly(WholeCapture(l))
      <4> SUFFICES ASSUME NEW i \in 1..k - 1
                   PROVE  WholeCapture(l)[i + 1].at = WholeCapture(l)[i].at + 1
        BY <3>1 DEF StepsExactly
      <4>1. i \in 1..k /\ i + 1 \in 1..k
        BY <1>1
      <4> QED
        BY <3>2, <3>3, <4>1
    <3>5. \A i \in 1..k : heard[l][i] = heard[l][1] + i - 1
      BY <1>0, <1>1, <3>4 DEF LaneOK, HeardOK
    <3>6. CASE k = 0
      BY <1>1, <1>2, <3>6
    <3>7. CASE k > 0
      <4>1. k \in 1..k /\ 1 \in 1..k
        BY <1>1, <3>7
      <4>2. n = heard[l][k] + 1
        BY <3>1, <3>2, <3>3, <4>1
      <4>3. heard[l][k] = heard[l][1] + k - 1 /\ heard[l][1] \in Nat
        BY <1>1, <3>5, <4>1
      <4>4. heard'[l][1] = heard[l][1]
        BY <1>2, <4>1
      <4>5. heard'[l][k + 1] = heard'[l][1] + (k + 1) - 1
        BY <1>1, <1>2, <4>2, <4>3, <4>4
      <4>6. \A i \in 1..k : heard'[l][i] = heard'[l][1] + i - 1
        BY <1>2, <3>5, <4>4
      <4> QED
        BY <1>1, <4>5, <4>6
    <3> QED
      BY <1>1, <3>6, <3>7
  <2> QED
    BY <1>0, <1>3, <2>1, <2>2 DEF HeardOK
<1>7. FramesOK(l)'
  <2>1. /\ frames'[l].there = frames[l].there /\ frames[l].there
        /\ frames'[l].lines = Append(frames[l].lines, Row(l, n))
    BY <1>0 DEF Written, Typed, LaneOK, FramesOK
  <2>2. frames[l].lines = WholeCapture(l)
    BY <1>0, <2>1 DEF LaneOK, FramesOK
  <2> QED
    BY <1>0, <1>4, <2>1, <2>2 DEF FramesOK
<1>8. MetadataOK(l)'
  <2>1. /\ metadata'[l].there = metadata[l].there /\ metadata[l].there
        /\ metadata'[l].lines = Append(lines, Row(l, n))
    BY <1>0 DEF Written, Typed, LaneOK, MetadataOK
  <2>2. lines \in Seq(Line)
    BY <1>0 DEF Typed
  <2>3. Opens(l, lines) /\ Len(lines) = k + 1
    BY <1>0, <2>1 DEF LaneOK, MetadataOK, Opens, At
  <2>4. /\ Len(metadata'[l].lines) = k + 2
        /\ \A i \in 1..k + 1 : metadata'[l].lines[i] = lines[i]
        /\ metadata'[l].lines[k + 2] = Row(l, n)
    <3> DEFINE new == Append(lines, Row(l, n))
    <3>1. /\ Len(new) = Len(lines) + 1
          /\ \A i \in 1..Len(lines) : new[i] = lines[i]
          /\ new[Len(lines) + 1] = Row(l, n)
      BY <1>5, <2>2, AppendProperties
    <3>2. Len(lines) = k + 1 /\ Len(lines) + 1 = k + 2 /\ metadata'[l].lines = new
      BY <1>1, <2>1, <2>3
    <3> HIDE DEF new
    <3> QED
      BY <3>1, <3>2
  <2>5. metadata'[l].lines[1] = lines[1]
    BY <1>1, <2>4
  <2>6. ASSUME NEW i \in 1..k + 1
        PROVE  /\ metadata'[l].lines[i + 1] = Row(l, heard'[l][i])
               /\ heard'[l][i] > lines[1].at
    <3>1. CASE i \in 1..k
      <4>1. i + 1 \in 1..k + 1
        BY <1>1, <3>1
      <4> QED
        BY <1>1, <1>2, <2>3, <2>4, <3>1, <4>1 DEF Opens
    <3>2. CASE i = k + 1
      BY <1>1, <1>2, <2>3, <2>4, <3>2 DEF Opens
    <3> QED
      BY <1>1, <3>1, <3>2
  <2>7. Opens(l, metadata[l].lines)'
    <3>1. lines[1].at <= now /\ lines[1].at \in Nat /\ lines[1].kind = "capture_start"
          /\ lines[1].lane = l
      BY <2>3 DEF Opens
    <3>2. lines[1].at <= now'
      BY <1>1, <3>1
    <3>3. Len(metadata'[l].lines) = Len(heard'[l]) + 1
      BY <1>1, <1>2, <2>4
    <3>4. \A i \in DOMAIN heard'[l] :
            /\ metadata'[l].lines[i + 1] = Row(l, heard'[l][i])
            /\ heard'[l][i] > metadata'[l].lines[1].at
      BY <1>3, <2>5, <2>6
    <3> QED
      BY <2>5, <3>1, <3>2, <3>3, <3>4 DEF Opens
  <2>8. Len(metadata'[l].lines) # Len(heard'[l]) + 2
    BY <1>1, <1>2, <2>4
  <2> QED
    BY <1>0, <2>1, <2>7, <2>8 DEF MetadataOK, At
<1> QED
  BY <1>6, <1>7, <1>8 DEF LaneOK
\* What is said of a lane's files and frames, but for where its probe is, stays.
LEMMA LinesKept ==
  ASSUME NEW l \in Lanes, NEW lines, UNCHANGED <<now, heard>>
  PROVE  /\ WholeCapture(l)' = WholeCapture(l)
         /\ Opens(l, lines) => Opens(l, lines)'
         /\ Closes(l, lines) => Closes(l, lines)'
BY DEF WholeCapture, Opens, Closes, Row

\* docker run starts a probe that has not run.
LEMMA StartLaneOK ==
  ASSUME CaptureInv, NEW l \in Lanes, StartLane(l)
  PROVE  /\ At(l, "off") /\ LaneOK(l)'
         /\ RunnerOK'
<1>1. At(l, "off")
  BY DEF StartLane, CaptureInv, RunnerOK
<1>2. /\ pc' = [pc EXCEPT ![l] = "opening"] /\ pc \in [Lanes -> Places]
      /\ UNCHANGED <<now, frames, metadata, heard>>
  BY DEF StartLane, Goto, CaptureInv, Typed
<1>3. pc'[l] = "opening" /\ \A m \in Lanes \ {l} : pc'[m] = pc[m]
  BY <1>2
<1>4. LaneOK(l) /\ pc[l] = "off"
  BY <1>1 DEF CaptureInv, At
<1>5. HeardOK(l)'
  BY <1>2, <1>3, <1>4, LinesKept DEF LaneOK, HeardOK
<1>6. FramesOK(l)'
  BY <1>2, <1>3, <1>4, LinesKept DEF LaneOK, FramesOK
<1>7. MetadataOK(l)'
  BY <1>2, <1>3, <1>4, LinesKept DEF LaneOK, MetadataOK, At
<1>8. RunnerOK'
  BY <1>3 DEF StartLane, CaptureInv, RunnerOK, At, Lanes
<1> QED
  BY <1>1, <1>5, <1>6, <1>7, <1>8 DEF LaneOK

\* New files: nothing was heard yet.
LEMMA OpenFilesOK ==
  ASSUME CaptureInv, NEW l \in Lanes, OpenFiles(l)
  PROVE  LaneOK(l)'
<1>1. /\ pc[l] = "opening" /\ pc'[l] = "capturing"
      /\ frames'[l] = NewFile /\ metadata'[l] = Written(NewFile, Header(l))
      /\ UNCHANGED <<now, heard>>
  BY DEF OpenFiles, At, Goto, CaptureInv, Typed
<1>2. Typed /\ LaneOK(l) /\ now \in Nat
  BY DEF CaptureInv, Typed
<1>3. heard[l] = <<>> /\ Len(heard[l]) = 0 /\ DOMAIN heard[l] = {}
  BY <1>1, <1>2, EmptySeq DEF LaneOK, HeardOK
<1>4. WholeCapture(l) = <<>>
  <2>1. WholeCapture(l) \in Seq(Line) /\ Len(WholeCapture(l)) = 0
    BY <1>2, <1>3, WholeFacts
  <2> QED
    BY <2>1, EmptySeq
<1>5. HeardOK(l)'
  BY <1>1, <1>3 DEF HeardOK
<1>6. FramesOK(l)'
  <2>1. frames'[l].lines = <<>> /\ frames'[l].there
    BY <1>1 DEF NewFile, NoFile
  <2> QED
    BY <1>1, <1>4, <2>1, LinesKept DEF FramesOK
<1>7. MetadataOK(l)'
  <2>1. metadata'[l].there /\ metadata'[l].lines = Append(<<>>, Header(l))
    BY <1>1 DEF Written, NewFile, NoFile
  <2>2. Len(metadata'[l].lines) = 1 /\ metadata'[l].lines[1] = Header(l)
    BY <2>1
  <2>3. /\ metadata'[l].lines[1].kind = "capture_start"
        /\ metadata'[l].lines[1].lane = l
        /\ metadata'[l].lines[1].at = now
    BY <2>2 DEF Header
  <2>4. now' = now /\ heard'[l] = <<>> /\ Len(heard'[l]) = 0 /\ DOMAIN heard'[l] = {}
    BY <1>1, <1>3
  <2>5. Opens(l, metadata[l].lines)'
    BY <1>2, <2>2, <2>3, <2>4 DEF Opens
  <2>6. Len(metadata'[l].lines) # Len(heard'[l]) + 2
    BY <2>2, <2>4
  <2> QED
    BY <1>1, <2>1, <2>5, <2>6 DEF MetadataOK, At
<1> QED
  BY <1>5, <1>6, <1>7 DEF LaneOK

\* The trailer closes the capture: it counts the frames, and time has passed if
\* there are any.
LEMMA WriteTrailerOK ==
  ASSUME CaptureInv, NEW l \in Lanes, WriteTrailer(l)
  PROVE  LaneOK(l)' /\ metadata'[l].lines \in Seq(Line)
<1> DEFINE k == Len(heard[l])
           lines == metadata[l].lines
           e == now - Started(l)
           last == Trailer(l, k, e)
<1>1. /\ pc[l] = "capturing" /\ pc'[l] = "written"
      /\ metadata'[l] = Written(metadata[l], last)
      /\ UNCHANGED <<now, heard, frames>>
  BY DEF WriteTrailer, At, Goto, CaptureInv, Typed
<1>2. Typed /\ LaneOK(l) /\ now \in Nat /\ lines \in Seq(Line)
  BY DEF CaptureInv, Typed
<1>3. /\ k \in Nat /\ DOMAIN heard[l] = 1..k /\ heard[l] \in Seq(Nat)
      /\ \A i \in 1..k : heard[l][i] \in Nat
  BY <1>2, WholeFacts
<1>4. Opens(l, lines) /\ Len(lines) = k + 1 /\ metadata[l].there
  BY <1>1, <1>2 DEF LaneOK, MetadataOK, Opens, At
<1>5. e \in Nat /\ (k > 0 => e > 0)
  <2>1. lines[1].at \in Nat /\ lines[1].at <= now /\ e = now - lines[1].at
    BY <1>4 DEF Opens, Started
  <2>2. k > 0 => heard[l][1] > lines[1].at /\ heard[l][1] <= now /\ heard[l][1] \in Nat
    BY <1>2, <1>3, <1>4 DEF Opens, LaneOK, HeardOK
  <2> QED
    BY <1>2, <2>1, <2>2
<1>6. last \in Line
  BY <1>3, <1>5 DEF Trailer, Line
<1>7. metadata'[l].there /\ metadata'[l].lines = Append(lines, last)
  BY <1>1, <1>2, <1>4 DEF Written, Typed
<1> HIDE DEF last
<1> DEFINE new == Append(lines, last)
<1>8. /\ new \in Seq(Line) /\ Len(new) = k + 2
      /\ \A i \in 1..k + 1 : new[i] = lines[i]
      /\ new[k + 2] = last
  <2>1. /\ new \in Seq(Line) /\ Len(new) = Len(lines) + 1
        /\ \A i \in 1..Len(lines) : new[i] = lines[i]
        /\ new[Len(lines) + 1] = last
    BY <1>2, <1>6, AppendProperties
  <2>2. Len(lines) = k + 1 /\ Len(lines) + 1 = k + 2
    BY <1>3, <1>4
  <2> HIDE DEF new
  <2> QED
    BY <2>1, <2>2
<1> HIDE DEF new
<1>9. Opens(l, new)
  <2>1. new[1] = lines[1] /\ \A i \in 1..k : new[i + 1] = lines[i + 1]
    BY <1>3, <1>8
  <2>2. Len(new) \in {k + 1, k + 2}
    BY <1>8
  <2> QED
    BY <1>3, <1>4, <2>1, <2>2 DEF Opens
<1>10. Closes(l, new)
  <2>1. new[Len(new)] = last
    BY <1>8
  <2>2. last.kind = "capture_end" /\ last.count = k /\ last.elapsed = e
    BY DEF last, Trailer
  <2>3. heard[l] # <<>> => e > 0
    BY <1>3, <1>5, EmptySeq
  <2> HIDE DEF e
  <2> QED
    BY <1>5, <2>1, <2>2, <2>3 DEF Closes
<1>11. HeardOK(l)'
  BY <1>1, <1>2, LinesKept DEF LaneOK, HeardOK
<1>12. FramesOK(l)'
  BY <1>1, <1>2, LinesKept DEF LaneOK, FramesOK
<1>13. MetadataOK(l)'
  <2>1. metadata'[l].lines = new /\ metadata'[l].there /\ heard'[l] = heard[l]
    BY <1>1, <1>7 DEF new
  <2>2. Opens(l, metadata[l].lines)'
    BY <1>1, <1>9, <2>1 DEF Opens
  <2>3. Closes(l, metadata[l].lines)'
    BY <1>1, <1>10, <2>1 DEF Closes
  <2>4. Len(metadata'[l].lines) = Len(heard'[l]) + 2
    BY <1>8, <2>1
  <2> QED
    BY <1>1, <2>1, <2>2, <2>3, <2>4 DEF MetadataOK, At
<1> QED
  BY <1>7, <1>8, <1>11, <1>12, <1>13 DEF LaneOK, new
\* The flush of the frames moves no line, and makes sure of all that there are.
LEMMA FlushFramesOK ==
  ASSUME CaptureInv, NEW l \in Lanes, FlushFrames(l)
  PROVE  LaneOK(l)'
<1>1. /\ pc[l] = "written" /\ pc'[l] = "frames flushed"
      /\ frames'[l] = Flushed(frames[l])
      /\ UNCHANGED <<now, heard, metadata>>
  BY DEF FlushFrames, At, Goto, CaptureInv, Typed
<1>2. Typed /\ LaneOK(l)
  BY DEF CaptureInv
<1>3. /\ frames'[l].there = frames[l].there /\ frames'[l].lines = frames[l].lines
      /\ frames'[l].safe = Len(frames[l].lines)
  <2>1. frames[l] \in [there: BOOLEAN, lines: Seq(Line), safe: Nat]
    BY <1>2 DEF Typed
  <2> QED
    BY <1>1, <2>1 DEF Flushed
<1>4. HeardOK(l)'
  BY <1>1, <1>2, LinesKept DEF LaneOK, HeardOK
<1>5. FramesOK(l)'
  BY <1>1, <1>2, <1>3, LinesKept DEF LaneOK, FramesOK
<1>6. MetadataOK(l)'
  BY <1>1, <1>2 DEF LaneOK, MetadataOK, At, Opens, Closes
<1> QED
  BY <1>4, <1>5, <1>6 DEF LaneOK

\* So does the flush of the metadata, which ends an ordinary run.
LEMMA FlushMetadataOK ==
  ASSUME CaptureInv, NEW l \in Lanes, FlushMetadata(l)
  PROVE  LaneOK(l)'
<1>1. /\ pc[l] = "frames flushed" /\ pc'[l] \in {"unlinking metadata", "done"}
      /\ metadata'[l] = Flushed(metadata[l])
      /\ UNCHANGED <<now, heard, frames>>
  BY DEF FlushMetadata, At, Goto, CaptureInv, Typed
<1>2. Typed /\ LaneOK(l)
  BY DEF CaptureInv
<1>3. /\ metadata'[l].there = metadata[l].there /\ metadata'[l].lines = metadata[l].lines
      /\ metadata'[l].safe = Len(metadata[l].lines)
  BY <1>1, <1>2 DEF Flushed, Typed
<1>4. HeardOK(l)'
  BY <1>1, <1>2, LinesKept DEF LaneOK, HeardOK
<1>5. FramesOK(l)'
  BY <1>1, <1>2, LinesKept DEF LaneOK, FramesOK
<1>6. MetadataOK(l)'
  <2>1. metadata[l].there /\ Opens(l, metadata[l].lines) /\ Closes(l, metadata[l].lines)
        /\ Len(metadata[l].lines) = Len(heard[l]) + 2
    BY <1>1, <1>2 DEF LaneOK, MetadataOK
  <2>2. Opens(l, metadata[l].lines)'
    BY <1>1, <1>3, <2>1 DEF Opens
  <2>3. Closes(l, metadata[l].lines)'
    BY <1>1, <1>3, <2>1 DEF Closes
  <2> QED
    BY <1>1, <1>3, <2>1, <2>2, <2>3 DEF MetadataOK, At
<1> QED
  BY <1>4, <1>5, <1>6 DEF LaneOK

\* A probe that fails or is killed leaves the files as they are.
LEMMA AbandonedOK ==
  ASSUME CaptureInv, NEW l \in Lanes, pc'[l] \in {"unlinking metadata", "killed"},
         UNCHANGED <<now, heard, frames, metadata>>
  PROVE  LaneOK(l)'
<1>1. Typed /\ LaneOK(l)
  BY DEF CaptureInv
<1>2. HeardOK(l)'
  BY <1>1, LinesKept DEF LaneOK, HeardOK
<1>3. FramesOK(l)'
  BY <1>1, LinesKept DEF LaneOK, FramesOK
<1>4. MetadataOK(l)'
  BY <1>1 DEF LaneOK, MetadataOK, At, Opens, Closes
<1> QED
  BY <1>2, <1>3, <1>4 DEF LaneOK

\* What is unlinked is gone, and nothing is said of it any more.
LEMMA UnlinkOK ==
  ASSUME CaptureInv, NEW l \in Lanes, Unlink(l)
  PROVE  LaneOK(l)'
<1>1. /\ pc'[l] \in {"unlinking frames", "failed"}
      /\ UNCHANGED <<now, heard>>
      /\ \/ frames' = frames /\ metadata'[l] = NoFile
         \/ metadata' = metadata /\ frames'[l] = NoFile
  BY DEF Unlink, Goto, CaptureInv, Typed
<1>2. Typed /\ LaneOK(l)
  BY DEF CaptureInv
<1>3. ~NoFile.there
  BY DEF NoFile
<1>4. HeardOK(l)'
  BY <1>1, <1>2, LinesKept DEF LaneOK, HeardOK
<1>5. FramesOK(l)'
  BY <1>1, <1>2, <1>3, LinesKept DEF LaneOK, FramesOK
<1>6. MetadataOK(l)'
  BY <1>1, <1>2, <1>3 DEF LaneOK, MetadataOK, At, Opens, Closes
<1> QED
  BY <1>4, <1>5, <1>6 DEF LaneOK

-----------------------------------------------------------------------------
(***************************************************************************)
(* The script and its probes                                               *)
(***************************************************************************)

\* What is done to files makes files.
LEMMA FilesTyped ==
  /\ NoFile \in [there: BOOLEAN, lines: Seq(Line), safe: Nat]
  /\ NewFile \in [there: BOOLEAN, lines: Seq(Line), safe: Nat]
  /\ \A f \in [there: BOOLEAN, lines: Seq(Line), safe: Nat], line \in Line :
       /\ Written(f, line) \in [there: BOOLEAN, lines: Seq(Line), safe: Nat]
       /\ Flushed(f) \in [there: BOOLEAN, lines: Seq(Line), safe: Nat]
<1>1. <<>> \in Seq(Line)
  BY EmptySeq
<1>2. NoFile \in [there: BOOLEAN, lines: Seq(Line), safe: Nat]
  BY <1>1 DEF NoFile
<1>3. NewFile \in [there: BOOLEAN, lines: Seq(Line), safe: Nat]
  BY <1>2 DEF NewFile
<1>4. ASSUME NEW f \in [there: BOOLEAN, lines: Seq(Line), safe: Nat], NEW line \in Line
      PROVE  /\ Written(f, line) \in [there: BOOLEAN, lines: Seq(Line), safe: Nat]
             /\ Flushed(f) \in [there: BOOLEAN, lines: Seq(Line), safe: Nat]
  <2>1. Append(f.lines, line) \in Seq(Line)
    BY AppendProperties
  <2>2. Len(f.lines) \in Nat
    BY LenProperties
  <2> QED
    BY <2>1, <2>2 DEF Written, Flushed
<1> QED
  BY <1>2, <1>3, <1>4

\* Nothing has happened at first.
LEMMA CaptureInitOK == CaptureInit => CaptureInv
<1> SUFFICES ASSUME CaptureInit PROVE CaptureInv
  OBVIOUS
<1>1. Typed
  BY FilesTyped, EmptySeq DEF CaptureInit, Typed, Places
<1>2. RunnerOK
  BY DEF CaptureInit, RunnerOK, At
<1>3. ASSUME NEW l \in Lanes PROVE LaneOK(l)
  <2>1. pc[l] = "off" /\ heard[l] = <<>> /\ frames[l] = NoFile /\ metadata[l] = NoFile
    BY DEF CaptureInit
  <2>2. ~NoFile.there /\ DOMAIN heard[l] = {}
    BY <2>1 DEF NoFile
  <2>3. HeardOK(l)
    BY <2>1, <2>2 DEF HeardOK
  <2>4. FramesOK(l)
    BY <2>1, <2>2 DEF FramesOK
  <2>5. MetadataOK(l)
    BY <2>1, <2>2 DEF MetadataOK, At
  <2> QED
    BY <2>3, <2>4, <2>5 DEF LaneOK
<1> QED
  BY <1>1, <1>2, <1>3 DEF CaptureInv
\* A frame is heard by the probes that capture, unless it is lost.
LEMMA PublishOK ==
  ASSUME CaptureInv, NEW lost \in SUBSET Lanes, Publish(lost)
  PROVE  CaptureInv'
<1> DEFINE File == [there: BOOLEAN, lines: Seq(Line), safe: Nat]
           Gets(l) == At(l, "capturing") /\ l \notin lost
<1>1. /\ Typed /\ now \in Nat /\ now' = now + 1 /\ pc' = pc /\ runner' = runner
  BY DEF CaptureInv, Typed, Publish
<1>2. ASSUME NEW l \in Lanes
      PROVE  /\ Gets(l) => /\ frames'[l] = Written(frames[l], Row(l, now + 1))
                           /\ metadata'[l] = Written(metadata[l], Row(l, now + 1))
                           /\ heard'[l] = Append(heard[l], now + 1)
             /\ ~Gets(l) => /\ frames'[l] = frames[l]
                            /\ metadata'[l] = metadata[l]
                            /\ heard'[l] = heard[l]
  BY <1>1 DEF Publish
<1>3. ASSUME NEW l \in Lanes
      PROVE  frames'[l] \in File /\ metadata'[l] \in File /\ heard'[l] \in Seq(Nat)
  <2>1. frames[l] \in File /\ metadata[l] \in File /\ heard[l] \in Seq(Nat)
    BY <1>1 DEF Typed
  <2>2. Row(l, now + 1) \in Line
    BY <1>1 DEF Row, Line
  <2>3. /\ Written(frames[l], Row(l, now + 1)) \in File
        /\ Written(metadata[l], Row(l, now + 1)) \in File
    BY <2>1, <2>2, FilesTyped
  <2>4. Append(heard[l], now + 1) \in Seq(Nat)
    BY <1>1, <2>1, AppendProperties
  <2> HIDE DEF Gets
  <2> QED
    BY <1>2, <2>1, <2>3, <2>4
<1>4. Typed'
  <2>1. DOMAIN frames' = Lanes /\ DOMAIN metadata' = Lanes /\ DOMAIN heard' = Lanes
    BY DEF Publish
  <2>2. /\ frames' = [l \in Lanes |-> frames'[l]]
        /\ metadata' = [l \in Lanes |-> metadata'[l]]
        /\ heard' = [l \in Lanes |-> heard'[l]]
    BY DEF Publish
  <2>3. frames' \in [Lanes -> File] /\ metadata' \in [Lanes -> File] /\ heard' \in [Lanes -> Seq(Nat)]
    BY <1>3, <2>2
  <2> QED
    BY <1>1, <2>3 DEF Typed
<1>5. RunnerOK'
  BY <1>1 DEF CaptureInv, RunnerOK, At
<1>6. ASSUME NEW l \in Lanes PROVE LaneOK(l)'
  <2>1. CASE Gets(l)
    BY <1>1, <1>2, <2>1, ReceiveOK
  <2>2. CASE ~Gets(l)
    <3>1. now' \in Nat /\ now <= now' /\ LaneOK(l)
      BY <1>1 DEF CaptureInv
    <3> QED
      BY <1>1, <1>2, <2>2, <3>1, LaneSame
  <2> QED
    BY <2>1, <2>2
<1> QED
  BY <1>4, <1>5, <1>6 DEF CaptureInv

\* The steps of a probe keep the types, and the script where it is.
LEMMA ProbeTypes ==
  ASSUME CaptureInv, NEW l \in Lanes,
         \/ StartLane(l) \/ OpenFiles(l) \/ WriteTrailer(l) \/ FlushFrames(l)
         \/ FlushMetadata(l) \/ WriteFails(l) \/ Unlink(l) \/ Kill(l)
  PROVE  Typed'
<1> DEFINE File == [there: BOOLEAN, lines: Seq(Line), safe: Nat]
<1>1. /\ Typed /\ now \in Nat /\ now' = now /\ heard' = heard
      /\ pc \in [Lanes -> Places]
      /\ frames \in [Lanes -> File] /\ metadata \in [Lanes -> File]
  BY DEF CaptureInv, Typed, StartLane, OpenFiles, WriteTrailer, FlushFrames,
         FlushMetadata, WriteFails, Unlink, Kill
<1>2. pc' \in [Lanes -> Places]
  BY <1>1 DEF Goto, Places, StartLane, OpenFiles, WriteTrailer, FlushFrames,
              FlushMetadata, WriteFails, Unlink, Kill
<1>3. runner' \in {runner, "half", "waiting"}
  BY DEF StartLane, OpenFiles, WriteTrailer, FlushFrames, FlushMetadata, WriteFails,
         Unlink, Kill
<1>4. frames' \in [Lanes -> File] /\ metadata' \in [Lanes -> File]
  <2>1. CASE OpenFiles(l)
    <3>1. Header(l) \in Line
      BY <1>1 DEF Header, Line
    <3>2. NewFile \in File /\ Written(NewFile, Header(l)) \in File
      BY <3>1, FilesTyped
    <3> HIDE DEF File
    <3> QED
      BY <1>1, <2>1, <3>2 DEF OpenFiles
  <2>2. CASE WriteTrailer(l)
    <3>1. metadata'[l] = Written(metadata[l], Trailer(l, Len(heard[l]), now - Started(l)))
      BY <1>1, <2>2 DEF WriteTrailer
    <3>2. metadata'[l].lines \in Seq(Line)
      BY <2>2, WriteTrailerOK
    <3>3. metadata[l] \in File
      BY <1>1
    <3>4. metadata'[l] \in File
      BY <3>1, <3>2, <3>3 DEF Written
    <3> HIDE DEF File
    <3>5. metadata' = [metadata EXCEPT ![l] = metadata'[l]]
      BY <1>1, <2>2 DEF WriteTrailer
    <3> QED
      BY <1>1, <2>2, <3>4, <3>5 DEF WriteTrailer
  <2>3. CASE FlushFrames(l) \/ FlushMetadata(l)
    <3>1. Header(l) \in Line
      BY <1>1 DEF Header, Line
    <3>2. Flushed(frames[l]) \in File /\ Flushed(metadata[l]) \in File
      BY <1>1, <3>1, FilesTyped
    <3> HIDE DEF File
    <3> QED
      BY <1>1, <2>3, <3>2 DEF FlushFrames, FlushMetadata
  <2>4. CASE Unlink(l)
    <3>1. NoFile \in File
      BY FilesTyped
    <3> HIDE DEF File
    <3> QED
      BY <1>1, <2>4, <3>1 DEF Unlink
  <2>5. CASE StartLane(l) \/ WriteFails(l) \/ Kill(l)
    BY <1>1, <2>5 DEF StartLane, WriteFails, Kill
  <2> QED
    BY <2>1, <2>2, <2>3, <2>4, <2>5
<1> QED
  BY <1>1, <1>2, <1>3, <1>4 DEF Typed
\* A probe that runs keeps what is said of the script, which waits for it.
LEMMA ProbeRunner ==
  ASSUME CaptureInv, NEW l \in Lanes,
         \/ OpenFiles(l) \/ WriteTrailer(l) \/ FlushFrames(l)
         \/ FlushMetadata(l) \/ WriteFails(l) \/ Unlink(l) \/ Kill(l)
  PROVE  RunnerOK'
<1>1. /\ runner' = runner /\ pc[l] \notin {"off", "done"}
      /\ \A m \in Lanes \ {l} : pc'[m] = pc[m]
  BY DEF OpenFiles, WriteTrailer, FlushFrames, FlushMetadata, WriteFails, Unlink, Kill,
         At, Ended, Goto, CaptureInv, Typed
<1>2. runner \notin {"idle", "completed"}
  BY <1>1 DEF CaptureInv, RunnerOK, At
<1>3. runner = "half" => l # "best_effort"
  BY <1>1 DEF CaptureInv, RunnerOK, At
<1> QED
  BY <1>1, <1>2, <1>3 DEF CaptureInv, RunnerOK, At, Lanes

\* A step of a probe.
LEMMA ProbeOK ==
  ASSUME CaptureInv, NEW l \in Lanes,
         \/ StartLane(l) \/ OpenFiles(l) \/ WriteTrailer(l) \/ FlushFrames(l)
         \/ FlushMetadata(l) \/ WriteFails(l) \/ Unlink(l) \/ Kill(l)
  PROVE  CaptureInv'
<1>1. Typed'
  BY ProbeTypes
<1>2. RunnerOK'
  BY ProbeRunner, StartLaneOK
<1>3. LaneOK(l)'
  <2>1. CASE WriteFails(l) \/ Kill(l)
    <3>1. pc'[l] \in {"unlinking metadata", "killed"}
      BY <2>1 DEF WriteFails, Kill, Goto, CaptureInv, Typed
    <3> QED
      BY <2>1, <3>1, AbandonedOK DEF WriteFails, Kill
  <2> QED
    BY <2>1, StartLaneOK, OpenFilesOK, WriteTrailerOK, FlushFramesOK, FlushMetadataOK, UnlinkOK
<1>4. ASSUME NEW m \in Lanes \ {l} PROVE LaneOK(m)'
  <2>1. /\ pc'[m] = pc[m] /\ frames'[m] = frames[m] /\ metadata'[m] = metadata[m]
        /\ heard'[m] = heard[m] /\ now' = now
    BY DEF StartLane, OpenFiles, WriteTrailer, FlushFrames, FlushMetadata, WriteFails,
           Unlink, Kill, Goto, CaptureInv, Typed
  <2>2. Typed /\ LaneOK(m) /\ now' \in Nat /\ now <= now'
    BY <2>1 DEF CaptureInv, Typed
  <2> QED
    BY <2>1, <2>2, LaneSame
<1> QED
  BY <1>1, <1>2, <1>3, <1>4 DEF CaptureInv

\* The script only looks at where its probes are.
LEMMA ScriptOK ==
  ASSUME CaptureInv, Cleanup \/ Finish \/ UNCHANGED captureVars
  PROVE  CaptureInv'
<1>1. UNCHANGED <<now, pc, frames, metadata, heard>>
  BY DEF Cleanup, Finish, captureVars
<1>2. runner' \in {runner, "stopped", "completed", "failed"}
  BY DEF Cleanup, Finish, captureVars
<1>3. Typed'
  BY <1>1, <1>2 DEF CaptureInv, Typed
<1>4. RunnerOK'
  BY <1>1 DEF CaptureInv, RunnerOK, At, Cleanup, Finish, captureVars
<1>5. ASSUME NEW l \in Lanes PROVE LaneOK(l)'
  <2>1. Typed /\ LaneOK(l) /\ now' \in Nat /\ now <= now'
    BY <1>1 DEF CaptureInv, Typed
  <2> QED
    BY <1>1, <2>1, LaneSame
<1> QED
  BY <1>3, <1>4, <1>5 DEF CaptureInv

\* Every step keeps what is said of the captures.
LEMMA CaptureNextOK == CaptureInv /\ [CaptureNext]_captureVars => CaptureInv'
BY PublishOK, ProbeOK, ScriptOK DEF CaptureNext

\* What is over stays as it was: no frame is heard, no probe starts again.
LEMMA OverStays ==
  ASSUME CaptureInv, [CaptureNext]_captureVars, NEW l \in Lanes,
         pc[l] \notin {"off", "opening", "capturing"}
  PROVE  /\ heard'[l] = heard[l] /\ WholeCapture(l)' = WholeCapture(l)
         /\ pc'[l] \notin {"off", "opening", "capturing"}
<1>1. ASSUME NEW m \in Lanes, StartLane(m) PROVE m # l
  BY <1>1, StartLaneOK DEF At
<1>2. heard'[l] = heard[l]
  BY DEF CaptureNext, Publish, StartLane, OpenFiles, WriteTrailer, FlushFrames,
         FlushMetadata, WriteFails, Unlink, Kill, Cleanup, Finish, captureVars, At
<1>3. pc'[l] \notin {"off", "opening", "capturing"}
  <2>1. ASSUME NEW lost \in SUBSET Lanes, Publish(lost) PROVE pc' = pc
    BY <2>1 DEF Publish
  <2>2. ASSUME NEW m \in Lanes, StartLane(m) PROVE pc'[l] = pc[l]
    BY <1>1, <2>2 DEF StartLane, Goto, CaptureInv, Typed
  <2>3. ASSUME NEW m \in Lanes, OpenFiles(m) PROVE pc'[l] = pc[l]
    BY <2>3 DEF OpenFiles, At, Goto, CaptureInv, Typed
  <2>4. ASSUME NEW m \in Lanes,
               \/ WriteTrailer(m) \/ FlushFrames(m) \/ FlushMetadata(m)
               \/ WriteFails(m) \/ Unlink(m) \/ Kill(m)
        PROVE  pc'[l] \notin {"off", "opening", "capturing"}
    BY <2>4 DEF WriteTrailer, FlushFrames, FlushMetadata, WriteFails, Unlink, Kill,
                Goto, CaptureInv, Typed
  <2>5. ASSUME Cleanup \/ Finish \/ UNCHANGED captureVars PROVE pc' = pc
    BY <2>5 DEF Cleanup, Finish, captureVars
  <2> QED
    BY <2>1, <2>2, <2>3, <2>4, <2>5 DEF CaptureNext
<1> QED
  BY <1>2, <1>3 DEF WholeCapture

-----------------------------------------------------------------------------
(***************************************************************************)
(* The certificate and the report                                          *)
(***************************************************************************)

\* A metadata file that loads is complete: all lines, down to the trailer.
LEMMA LoadedIsClosed ==
  ASSUME CaptureInv, NEW l \in Lanes, metadata[l].there,
         NEW lines \in Seen(metadata[l]), LoadsMetadata(lines)
  PROVE  /\ lines = metadata[l].lines /\ lines \in Seq(Line)
         /\ Len(lines) = Len(heard[l]) + 2
         /\ Opens(l, lines) /\ Closes(l, lines)
         /\ pc[l] \notin {"off", "opening", "capturing"}
         /\ Len(heard[l]) >= 2
<1> DEFINE all == metadata[l].lines
           n == Len(heard[l])
<1>1. /\ Typed /\ LaneOK(l) /\ all \in Seq(Line) /\ Len(all) \in Nat
      /\ metadata[l].safe \in Nat
      /\ n \in Nat /\ DOMAIN heard[l] = 1..n
  BY WholeFacts, LenProperties DEF CaptureInv, Typed
<1>2. Opens(l, all) /\ Len(all) \in {n + 1, n + 2}
  BY <1>1 DEF LaneOK, MetadataOK, Opens
<1>3. all[1].kind = "capture_start" /\ \A i \in 1..n : all[i + 1].kind = "frame"
  <2>1. \A i \in 1..n : all[i + 1] = Row(l, heard[l][i])
    BY <1>1, <1>2 DEF Opens
  <2>2. \A x : Row(l, x).kind = "frame"
    BY DEF Row
  <2> QED
    BY <1>2, <2>1, <2>2 DEF Opens
<1>4. \A i \in 1..n + 1 : all[i].kind # "capture_end"
  <2> SUFFICES ASSUME NEW i \in 1..n + 1 PROVE all[i].kind # "capture_end"
    OBVIOUS
  <2>1. CASE i = 1
    BY <1>3, <2>1
  <2>2. CASE i # 1
    <3>1. i - 1 \in 1..n /\ (i - 1) + 1 = i
      BY <1>1, <2>2
    <3>2. all[(i - 1) + 1].kind = "frame"
      BY <1>3, <3>1
    <3> QED
      BY <3>1, <3>2
  <2> QED
    BY <2>1, <2>2
<1>5. PICK k \in 0..Len(all) :
        \/ lines = SubSeq(all, 1, k)
        \/ lines = Append(SubSeq(all, 1, k), Torn)
  <2>1. CASE lines \in {SubSeq(all, 1, k) : k \in metadata[l].safe..Len(all)}
    <3>1. PICK k \in metadata[l].safe..Len(all) : lines = SubSeq(all, 1, k)
      BY <2>1
    <3>2. k \in 0..Len(all)
      BY <1>1
    <3> QED
      BY <3>1, <3>2
  <2>2. CASE lines \in {Append(SubSeq(all, 1, k), Torn) : k \in metadata[l].safe..Len(all) - 1}
    <3>1. PICK k \in metadata[l].safe..Len(all) - 1 : lines = Append(SubSeq(all, 1, k), Torn)
      BY <2>2
    <3>2. k \in 0..Len(all)
      BY <1>1
    <3> QED
      BY <3>1, <3>2
  <2> QED
    BY <2>1, <2>2 DEF Seen
<1>6. /\ SubSeq(all, 1, k) \in Seq(Line) /\ Len(SubSeq(all, 1, k)) = k
      /\ \A i \in 1..k : SubSeq(all, 1, k)[i] = all[i]
  <2>1. k \in Nat /\ \A i \in 1..k : all[i] \in Line
    <3>1. \A i \in 1..Len(all) : all[i] \in Line
      BY <1>1, ElementOfSeq
    <3> QED
      BY <1>1, <1>5, <3>1
  <2>2. /\ SubSeq(all, 1, k) \in Seq(Line)
        /\ Len(SubSeq(all, 1, k)) = (IF 1 <= k THEN k - 1 + 1 ELSE 0)
        /\ \A i \in 1..k - 1 + 1 : SubSeq(all, 1, k)[i] = all[1 + i - 1]
    BY <2>1, SubSeqProperties
  <2>3. Len(SubSeq(all, 1, k)) = k
    BY <2>1, <2>2
  <2>4. \A i \in 1..k : SubSeq(all, 1, k)[i] = all[i]
    <3> SUFFICES ASSUME NEW i \in 1..k PROVE SubSeq(all, 1, k)[i] = all[i]
      OBVIOUS
    <3>1. i \in 1..k - 1 + 1 /\ 1 + i - 1 = i
      BY <2>1
    <3> QED
      BY <2>2, <3>1
  <2> QED
    BY <2>2, <2>3, <2>4
<1>7. lines[Len(lines)].kind = "capture_end" /\ Len(lines) >= 4
  BY DEF LoadsMetadata
<1>8. lines # Append(SubSeq(all, 1, k), Torn)
  <2> SUFFICES ASSUME lines = Append(SubSeq(all, 1, k), Torn) PROVE FALSE
    OBVIOUS
  <2>1. SubSeq(all, 1, k) \in Seq(Line \cup {Torn})
    BY <1>6, SeqMonotonic
  <2>2. Len(lines) = k + 1 /\ lines[k + 1] = Torn
    BY <1>6, <2>1, AppendProperties
  <2> QED
    BY <1>7, <2>2 DEF Torn
<1>9. lines = SubSeq(all, 1, k)
  BY <1>5, <1>8
<1>10. k \in Nat /\ k > 0 /\ lines[k] = all[k]
  BY <1>5, <1>6, <1>7, <1>9
<1>11. k = n + 2 /\ Len(all) = n + 2
  <2>1. k \notin 1..n + 1
    <3>1. Len(lines) = k
      BY <1>6, <1>9
    <3> QED
      BY <1>4, <1>7, <1>10, <3>1
  <2>2. k \in 0..Len(all) /\ n \in Nat /\ k > 0
    BY <1>1, <1>5, <1>10
  <2>3. Len(all) = n + 1 \/ Len(all) = n + 2
    BY <1>2
  <2> HIDE DEF all, n
  <2> QED
    BY <2>1, <2>2, <2>3
<1>12. lines = all
  <2>1. SubSeq(all, 1, Len(all)) = all
    BY <1>1, SubSeqFull
  <2> QED
    BY <1>9, <1>11, <2>1
<1>13. Closes(l, all) /\ pc[l] # "capturing"
  BY <1>1, <1>11 DEF LaneOK, MetadataOK, At
<1>14. pc[l] \notin {"off", "opening"}
  <2>1. n # 0
    BY <1>1, <1>7, <1>11, <1>12
  <2>2. heard[l] # <<>>
    BY <2>1, EmptySeq
  <2> QED
    BY <1>1, <2>2 DEF LaneOK, HeardOK
<1> QED
  BY <1>1, <1>2, <1>7, <1>11, <1>12, <1>13, <1>14
\* What a reader has found of a frames file is a sequence of lines.
LEMMA BeforeIsSeq ==
  ASSUME Typed, NEW f \in Lanes, NEW rows \in Before(frames[f])
  PROVE  rows \in Seq(Line)
<1> DEFINE all == frames[f].lines
<1>1. all \in Seq(Line) /\ Len(all) \in Nat
  BY LenProperties DEF Typed
<1>2. PICK k \in 0..Len(all) : rows = SubSeq(all, 1, k)
  BY DEF Before
<1>3. \A i \in 1..k : all[i] \in Line
  <2>1. \A i \in 1..Len(all) : all[i] \in Line
    BY <1>1, ElementOfSeq
  <2> QED
    BY <1>1, <1>2, <2>1
<1>4. SubSeq(all, 1, k) \in Seq(Line)
  BY <1>1, <1>2, <1>3, SubSeqProperties
<1> QED
  BY <1>2, <1>4

\* Whatever file the rows come from: those that fit are the whole capture.
LEMMA CertifiedRows ==
  ASSUME CaptureInv, NEW l \in Lanes, metadata[l].there,
         NEW lines \in Seen(metadata[l]), NEW rows \in Seq(Line), Certifies(rows, lines)
  PROVE  rows = WholeCapture(l) /\ lines[1].lane = l
<1> DEFINE n == Len(heard[l])
<1>1. LoadsMetadata(lines) /\ Fits(rows, lines)
  BY DEF Certifies
<1>2. Opens(l, lines) /\ Len(lines) = n + 2
  BY <1>1, LoadedIsClosed
<1>3. /\ Typed /\ n \in Nat /\ DOMAIN heard[l] = 1..n
      /\ WholeCapture(l) \in Seq(Line) /\ Len(WholeCapture(l)) = n
      /\ \A i \in 1..n : WholeCapture(l)[i] = Row(l, heard[l][i])
  BY WholeFacts DEF CaptureInv
<1>4. Len(rows) = n
  BY <1>1, <1>2, <1>3 DEF Fits
<1>5. DOMAIN rows = 1..n
  BY <1>4, LenProperties
<1>6. \A i \in 1..n : rows[i] = lines[i + 1]
  BY <1>1, <1>5 DEF Fits
<1>7. \A i \in 1..n : lines[i + 1] = Row(l, heard[l][i])
  BY <1>2, <1>3 DEF Opens
<1>8. \A i \in 1..n : rows[i] = WholeCapture(l)[i]
  BY <1>3, <1>6, <1>7
<1>9. rows = WholeCapture(l)
  BY <1>3, <1>4, <1>8, SeqEqual
<1> QED
  BY <1>2, <1>9 DEF Opens

\* At first there is neither a certificate nor a report.
LEMMA EvidenceInitOK == Init => EvidenceInv
BY CaptureInitOK DEF Init, EvidenceInv, ObservedOK, ReportOK

\* A certificate and a report are about captures that are over, and stay so.
LEMMA CaptureStepOK ==
  ASSUME EvidenceInv, [CaptureNext]_captureVars, UNCHANGED <<observation, strict>>
  PROVE  EvidenceInv'
<1>1. CaptureInv /\ CaptureInv'
  BY CaptureNextOK DEF EvidenceInv
<1>2. ASSUME NEW l \in Lanes, observation[l] # NoObservation
      PROVE  /\ WholeCapture(l)' = WholeCapture(l) /\ heard'[l] = heard[l]
             /\ pc'[l] \notin {"off", "opening", "capturing"}
             /\ observation[l].rows = WholeCapture(l) /\ Len(heard[l]) >= 2
  BY <1>1, <1>2, OverStays DEF EvidenceInv, ObservedOK
<1>3. \A l \in Lanes : ObservedOK(l)'
  BY <1>2 DEF ObservedOK
<1>4. ReportOK'
  <2> SUFFICES ASSUME strict' # NoReport, NEW l \in Lanes
               PROVE  /\ observation'[l] # NoObservation
                      /\ strict'[l] = WholeCapture(l)'
                      /\ StepsExactly(WholeCapture(l))'
    BY DEF ReportOK, NoReport
  <2>1. /\ observation[l] # NoObservation
        /\ strict[l] = WholeCapture(l)
        /\ StepsExactly(WholeCapture(l))
    BY DEF EvidenceInv, ReportOK, NoReport
  <2>2. WholeCapture(l)' = WholeCapture(l)
    BY <1>2, <2>1
  <2> QED
    BY <2>1, <2>2 DEF StepsExactly
<1> QED
  BY <1>1, <1>3, <1>4 DEF EvidenceInv

\* The files given may be any: the certificate is about the one whole capture.
LEMMA CertifyOK ==
  ASSUME EvidenceInv, NEW f \in Lanes, NEW l \in Lanes, Certify(f, l)
  PROVE  EvidenceInv'
<1>1. CaptureInv /\ Typed
  BY DEF EvidenceInv, CaptureInv
<1>2. UNCHANGED <<now, runner, pc, frames, metadata, heard, strict>>
  BY DEF Certify, captureVars
<1>3. metadata[l].there
  BY DEF Certify
<1>4. PICK rows \in Before(frames[f]), lines \in Seen(metadata[l]) :
        /\ Loads(rows) /\ Certifies(rows, lines)
        /\ observation[lines[1].lane] = NoObservation
        /\ observation' = [observation EXCEPT ![lines[1].lane] = Observation(rows, lines)]
  BY DEF Certify
<1>5. rows \in Seq(Line)
  BY <1>1, BeforeIsSeq
<1>6. rows = WholeCapture(l) /\ lines[1].lane = l
  BY <1>1, <1>3, <1>4, <1>5, CertifiedRows
<1>7. pc[l] \notin {"off", "opening", "capturing"} /\ Len(heard[l]) >= 2
  BY <1>1, <1>3, <1>4, LoadedIsClosed DEF Certifies
<1>8. /\ DOMAIN observation' = Lanes
      /\ observation'[l].rows = rows
      /\ \A m \in Lanes \ {l} : observation'[m] = observation[m]
  BY <1>4, <1>6 DEF EvidenceInv, Observation
<1>9. observation[l] = NoObservation /\ observation'[l] # NoObservation
  <2>1. rows # <<>>
    BY <1>4, <1>5, EmptySeq DEF Loads
  <2> QED
    BY <1>4, <1>6, <1>8, <2>1 DEF NoObservation
<1>10. CaptureInv'
  BY <1>1, <1>2, CaptureNextOK DEF captureVars
<1>11. \A m \in Lanes : WholeCapture(m)' = WholeCapture(m) /\ heard'[m] = heard[m] /\ pc'[m] = pc[m]
  BY <1>2 DEF WholeCapture
<1>12. ASSUME NEW m \in Lanes PROVE ObservedOK(m)'
  <2>1. CASE m = l
    BY <1>6, <1>7, <1>8, <1>11, <2>1 DEF ObservedOK
  <2>2. CASE m # l
    BY <1>8, <1>11, <2>2 DEF ObservedOK, EvidenceInv
  <2> QED
    BY <2>1, <2>2
<1>13. ReportOK'
  <2>1. strict = NoReport
    BY <1>9 DEF EvidenceInv, ReportOK
  <2> QED
    BY <1>2, <2>1 DEF ReportOK, NoReport
<1> QED
  BY <1>8, <1>10, <1>12, <1>13 DEF EvidenceInv

\* A report is about what two certificates are about, lane for lane.
LEMMA EvaluateOK ==
  ASSUME EvidenceInv, NEW fa \in Lanes, NEW fb \in Lanes, NEW oa \in Lanes, NEW ob \in Lanes,
         EvaluateStrictTiming(fa, fb, oa, ob)
  PROVE  EvidenceInv'
<1>1. CaptureInv /\ Typed
  BY DEF EvidenceInv, CaptureInv
<1>2. UNCHANGED <<now, runner, pc, frames, metadata, heard, observation>>
  BY DEF EvaluateStrictTiming, captureVars
<1>3. PICK a \in Before(frames[fa]), b \in Before(frames[fb]) :
        /\ LoadsCapture(a) /\ LoadsCapture(b)
        /\ Integrity(a, b, oa, ob)
        /\ strict' = [reliable |-> a, best_effort |-> b]
  BY DEF EvaluateStrictTiming
<1>4. a \in Seq(Line) /\ b \in Seq(Line) /\ a # <<>> /\ b # <<>>
  <2>1. a \in Seq(Line) /\ b \in Seq(Line)
    BY <1>1, BeforeIsSeq
  <2>2. Len(a) >= 2 /\ Len(b) >= 2
    BY <1>3 DEF LoadsCapture, Loads
  <2> QED
    BY <2>1, <2>2, EmptySeq
<1>5. /\ a = observation["reliable"].rows /\ b = observation["best_effort"].rows
      /\ StepsExactly(a) /\ StepsExactly(b)
  BY <1>3 DEF Integrity
<1>6. "reliable" \in Lanes /\ "best_effort" \in Lanes
  BY DEF Lanes
<1>7. /\ observation["reliable"] # NoObservation /\ a = WholeCapture("reliable")
      /\ observation["best_effort"] # NoObservation /\ b = WholeCapture("best_effort")
  BY <1>4, <1>5, <1>6 DEF EvidenceInv, ObservedOK, NoObservation
<1>8. strict'["reliable"] = a /\ strict'["best_effort"] = b
  BY <1>3
<1>9. CaptureInv'
  BY <1>1, <1>2, CaptureNextOK DEF captureVars
<1>10. \A m \in Lanes : WholeCapture(m)' = WholeCapture(m) /\ heard'[m] = heard[m] /\ pc'[m] = pc[m]
  BY <1>2 DEF WholeCapture
<1>11. \A m \in Lanes : ObservedOK(m)'
  BY <1>2, <1>10 DEF ObservedOK, EvidenceInv
<1>12. ASSUME NEW l \in Lanes
       PROVE  /\ observation'[l] # NoObservation
              /\ strict'[l] = WholeCapture(l)'
              /\ StepsExactly(WholeCapture(l))'
  <2>1. WholeCapture(l)' = WholeCapture(l)
    BY <1>10
  <2>2. CASE l = "reliable"
    BY <1>2, <1>5, <1>7, <1>8, <2>1, <2>2 DEF StepsExactly
  <2>3. CASE l = "best_effort"
    BY <1>2, <1>5, <1>7, <1>8, <2>1, <2>3 DEF StepsExactly
  <2> QED
    BY <2>2, <2>3 DEF Lanes
<1>13. ReportOK'
  BY <1>12 DEF ReportOK
<1> QED
  BY <1>2, <1>9, <1>11, <1>13 DEF EvidenceInv

\* The invariant holds in every state.
THEOREM Invariance == Spec => []EvidenceInv
<1>1. EvidenceInv /\ [Next]_vars => EvidenceInv'
  <2> SUFFICES ASSUME EvidenceInv, [Next]_vars PROVE EvidenceInv'
    OBVIOUS
  <2>1. CASE CaptureNext /\ UNCHANGED <<observation, strict>>
    BY <2>1, CaptureStepOK
  <2>2. CASE UNCHANGED vars
    BY <2>2, CaptureStepOK DEF vars
  <2> QED
    BY <2>1, <2>2, CertifyOK, EvaluateOK DEF Next
<1> QED
  BY <1>1, EvidenceInitOK, PTL DEF Spec

\* Whichever files a certificate was made from, whenever they were read, and
\* whatever became of the process: it is about all its process received.
THEOREM CertifiedWhole == Spec => []CertifiedIsWhole
<1>1. EvidenceInv => CertifiedIsWhole
  BY DEF EvidenceInv, ObservedOK, CertifiedIsWhole
<1> QED
  BY <1>1, Invariance, PTL

\* A strict report is about the two lanes' whole captures, in which every frame
\* that the source published between the first and the last was received.
THEOREM StrictWhole == Spec => []StrictIsWhole
<1>1. EvidenceInv => StrictIsWhole
  <2> SUFFICES ASSUME EvidenceInv, strict # NoReport, NEW l \in Lanes
               PROVE  /\ strict[l] = WholeCapture(l)
                      /\ \A n \in heard[l][1]..heard[l][Len(heard[l])] : n \in Times(strict[l])
    BY DEF StrictIsWhole
  <2> DEFINE k == Len(heard[l])
  <2>1. /\ observation[l] # NoObservation
        /\ strict[l] = WholeCapture(l)
        /\ StepsExactly(WholeCapture(l))
    BY DEF EvidenceInv, ReportOK
  <2>2. Typed /\ HeardOK(l) /\ k >= 2
    BY <2>1 DEF EvidenceInv, CaptureInv, LaneOK, ObservedOK
  <2>3. /\ k \in Nat /\ DOMAIN heard[l] = 1..k
        /\ WholeCapture(l) \in Seq(Line) /\ Len(WholeCapture(l)) = k
        /\ \A i \in 1..k : heard[l][i] \in Nat /\ WholeCapture(l)[i] = Row(l, heard[l][i])
    BY <2>2, WholeFacts
  <2>4. DOMAIN WholeCapture(l) = 1..k
    BY <2>3, LenProperties
  <2>5. \A i \in 1..k : heard[l][i] = heard[l][1] + i - 1
    BY <2>1, <2>2, <2>3 DEF HeardOK
  <2>6. ASSUME NEW n \in heard[l][1]..heard[l][k] PROVE n \in Times(strict[l])
    <3> DEFINE i == n - heard[l][1] + 1
    <3>1. heard[l][1] \in Nat /\ heard[l][k] = heard[l][1] + k - 1
      <4>1. 1 \in 1..k /\ k \in 1..k
        BY <2>2, <2>3
      <4> QED
        BY <2>3, <2>5, <4>1
    <3>2. i \in 1..k /\ heard[l][1] + i - 1 = n
      BY <2>3, <3>1
    <3>3. heard[l][i] = n
      BY <2>5, <3>2
    <3>4. WholeCapture(l)[i] = Row(l, n)
      BY <2>3, <3>2, <3>3
    <3>5. Row(l, n).at = n
      BY DEF Row
    <3> HIDE DEF i
    <3> QED
      BY <2>1, <2>4, <3>2, <3>4, <3>5 DEF Times
  <2> QED
    BY <2>1, <2>6
<1> QED
  BY <1>1, Invariance, PTL

\* Once the script has said that the capture completed, every reader at every
\* later time finds the files of each lane whole and in agreement.
THEOREM CompletedCertified == Spec => []CompletedIsCertifiable
<1>1. EvidenceInv => CompletedIsCertifiable
  <2> SUFFICES ASSUME EvidenceInv, runner = "completed", NEW l \in Lanes, Len(heard[l]) >= 2
               PROVE  /\ frames[l].there /\ metadata[l].there
                      /\ \A rows \in Seen(frames[l]), lines \in Seen(metadata[l]) :
                           Loads(rows) /\ Certifies(rows, lines)
    BY DEF CompletedIsCertifiable
  <2> DEFINE k == Len(heard[l])
             all == metadata[l].lines
  <2>1. Typed /\ LaneOK(l) /\ pc[l] = "done"
    BY DEF EvidenceInv, CaptureInv, RunnerOK, At
  <2>2. /\ frames[l].there /\ frames[l].lines = WholeCapture(l)
        /\ frames[l].safe = Len(frames[l].lines)
    BY <2>1 DEF LaneOK, FramesOK
  <2>3. /\ metadata[l].there /\ metadata[l].safe = Len(all)
        /\ Opens(l, all) /\ Closes(l, all) /\ Len(all) = k + 2
    BY <2>1 DEF LaneOK, MetadataOK, At
  <2>4. /\ k \in Nat /\ DOMAIN heard[l] = 1..k
        /\ WholeCapture(l) \in Seq(Line) /\ Len(WholeCapture(l)) = k
        /\ \A i \in 1..k : WholeCapture(l)[i] = Row(l, heard[l][i])
    BY <2>1, WholeFacts
  <2>5. all \in Seq(Line)
    BY <2>1 DEF Typed
  <2>6. Seen(frames[l]) = {WholeCapture(l)} /\ Seen(metadata[l]) = {all}
    <3>1. ASSUME NEW f \in [there: BOOLEAN, lines: Seq(Line), safe: Nat], f.safe = Len(f.lines)
          PROVE  Seen(f) = {f.lines}
      <4> DEFINE n == Len(f.lines)
      <4>1. n \in Nat /\ SubSeq(f.lines, 1, n) = f.lines
        BY LenProperties, SubSeqFull
      <4>2. n..n = {n} /\ n..n - 1 = {}
        BY <4>1
      <4> HIDE DEF n
      <4>3. Seen(f) = {SubSeq(f.lines, 1, j) : j \in {n}}
                        \cup {Append(SubSeq(f.lines, 1, j), Torn) : j \in {}}
        BY <3>1, <4>2 DEF Seen, n
      <4> QED
        BY <4>1, <4>3
    <3>2. /\ frames[l] \in [there: BOOLEAN, lines: Seq(Line), safe: Nat]
          /\ metadata[l] \in [there: BOOLEAN, lines: Seq(Line), safe: Nat]
      BY <2>1 DEF Typed
    <3> QED
      BY <2>2, <2>3, <3>1, <3>2
  <2>7. DOMAIN WholeCapture(l) = 1..k
    BY <2>4, LenProperties
  <2>8. \A i \in 1..k : all[i + 1] = Row(l, heard[l][i])
    BY <2>3, <2>4 DEF Opens
  <2>9. \A x : Row(l, x).kind = "frame"
    BY DEF Row
  <2>10. Loads(WholeCapture(l))
    BY <2>4, <2>7, <2>9 DEF Loads
  <2>11. LoadsMetadata(all)
    <3>1. Len(all) >= 4
      BY <2>3, <2>4
    <3>2. all[1].kind = "capture_start" /\ all[Len(all)].kind = "capture_end"
      BY <2>3 DEF Opens, Closes
    <3>3. ASSUME NEW i \in 2..Len(all) - 1 PROVE all[i].kind = "frame"
      <4>1. i - 1 \in 1..k /\ (i - 1) + 1 = i
        BY <2>3, <2>4
      <4>2. all[(i - 1) + 1].kind = "frame"
        BY <2>8, <2>9, <4>1
      <4> QED
        BY <4>1, <4>2
    <3> QED
      BY <3>1, <3>2, <3>3 DEF LoadsMetadata
  <2>12. Fits(WholeCapture(l), all)
    <3>1. all[Len(all)].count = Len(WholeCapture(l))
      BY <2>3, <2>4 DEF Closes
    <3>2. Len(all) - 2 = Len(WholeCapture(l))
      BY <2>3, <2>4
    <3>3. \A i \in DOMAIN WholeCapture(l) : WholeCapture(l)[i] = all[i + 1]
      BY <2>4, <2>7, <2>8
    <3> QED
      BY <3>1, <3>2, <3>3 DEF Fits
  <2>13. all[Len(all)].elapsed > 0
    <3>1. heard[l] # <<>>
      BY EmptySeq
    <3> QED
      BY <2>3, <3>1 DEF Closes
  <2> QED
    BY <2>2, <2>3, <2>6, <2>10, <2>11, <2>12, <2>13 DEF Certifies
<1> QED
  BY <1>1, Invariance, PTL
=============================================================================
