----------------------------- MODULE ToolProofs -----------------------------
(***************************************************************************)
(* Theorems about the operator's tools, each a program of its own, and     *)
(* about the health contract, for every value of the constants:            *)
(*                                                                         *)
(*   OneUpload           one journal stands for at most one upload;        *)
(*   JournalTells        a journal that can be read tells the truth;       *)
(*   VoucherHasItsData   a voucher never stands without its data;          *)
(*   RightCodec          a bridge decodes what the firmware that its       *)
(*                       deployment names sends;                           *)
(*   SuccessRestores     success means that the volume was restored;       *)
(*   KnownChangeUndone   a volume known to be changed is put back;         *)
(*   BuiltPasses         what a bridge builds, its gateway admits;         *)
(*   ContinuousIsBounded a continuous microphone stream lost next to none; *)
(*   NoLossNoHole        jitter is not taken for loss;                     *)
(*   QualifiedIsWhole    a capture that qualifies a profile lost nothing.  *)
(*                                                                         *)
(* The first four need to know whose the files on disk are: ProbeInv adds  *)
(* the one run that owns the journal, BundleInv what a writer owns at each *)
(* place, ProfileInv that what a manifest says of a codec is true of a     *)
(* capture that stays.  VolumeInv adds that requests are served in order,  *)
(* so the answer to the last query is about the volume that stays, and     *)
(* that a restoration, once asked for, is under way or done.  MicInv and   *)
(* SummaryInv bound the times of arrival by what the source sent: the      *)
(* verdicts are about the times, the properties about what was sent.       *)
(***************************************************************************)
EXTENDS SpeakerProbe, EvidenceBundle, ProfileEvidence, VolumeProbe, HealthReports,
        MicStreamProbe, CaptureSummary, SequenceTheorems, WellFoundedInduction, TLAPS

-----------------------------------------------------------------------------
(***************************************************************************)
(* The speaker probe: any number of runs and of requests in its plan       *)
(***************************************************************************)
\* Before the first request can be published, in the order of the code.
Early == {"starting", "discovering", "admitting", "admitting, truncated",
          "failing early", "failing early, truncated"}

Late == {"uploading", "observing", "concluding", "concluding, truncated",
         "failing", "failing, truncated"}

Stages == {"off", "creating", "done", "raised", "killed"} \cup Early \cup Late

\* The journals that admit that the hardware was reached.
Admitting == {Unreadable, Attempt(TRUE), Failed(TRUE), Result}

\* The run that the journal is about: it has created it, and may have published.
Owner(r) == stage[r] \in Early \cup Late \/ published[r] > 0

Typed ==
  /\ stage \in [Runs -> Stages]
  /\ published \in [Runs -> Nat]
  /\ acked \in [Runs -> Nat]

\* What a run's stage says about it and about the journal.
Accounts(r) ==
  /\ Owner(r) => journal # Nothing
  /\ stage[r] \in Early \cup {"off", "creating"} => published[r] = 0
  /\ stage[r] = "uploading" => journal = Attempt(TRUE)
  /\ stage[r] \in {"observing", "concluding", "concluding, truncated"} => acked[r] = Requests
  /\ published[r] > 0 => journal \in Admitting

OneOwner == \A r, s \in Runs : Owner(r) /\ Owner(s) => r = s

ResultOfAll == journal = Result => \E r \in Runs : acked[r] = Requests

ProbeInv == Typed /\ (\A r \in Runs : Accounts(r)) /\ OneOwner /\ ResultOfAll

\* Journals that say different things are different.
LEMMA JournalsDiffer ==
  /\ Nothing \notin {Unreadable, Result} /\ Unreadable # Result
  /\ \A b \in BOOLEAN : /\ Attempt(b) \notin {Nothing, Unreadable, Result}
                        /\ Failed(b) \notin {Nothing, Unreadable, Result}
                        /\ \A c \in BOOLEAN : Attempt(b) # Failed(c)
<1>1. /\ Nothing.status = "none" /\ Unreadable.status = "torn" /\ Result.status = "result"
      /\ \A b \in BOOLEAN : /\ Attempt(b).status = "started_not_authorizing"
                            /\ Failed(b).status = "failed_not_authorizing"
  BY DEF Nothing, Unreadable, Result, Attempt, Failed
<1> QED
  BY <1>1

\* The invariant holds before any run has begun.
LEMMA ProbeInitInv == ProbeInit => ProbeInv
  BY JournalsDiffer
  DEF ProbeInit, ProbeInv, Typed, Accounts, Owner, OneOwner, ResultOfAll, Stages, Early, Late

\* A step of the owner need only be judged by what becomes of the owner and of
\* the journal: the other runs have published nothing and have no journal.
LEMMA OwnerSteps ==
  ASSUME ProbeInv, NEW r \in Runs, Owner(r),
         Typed', Accounts(r)', ResultOfAll',
         \A s \in Runs \ {r} : stage'[s] = stage[s] /\ published'[s] = published[s]
  PROVE  ProbeInv'
<1>1. \A s \in Runs \ {r} : ~Owner(s) /\ published[s] = 0
  BY DEF ProbeInv, OneOwner, Owner, Typed
<1>2. \A s \in Runs \ {r} : stage[s] \notin Early \cup Late
  BY <1>1 DEF Owner
<1>3. \A s \in Runs \ {r} : ~Owner(s)'
  BY <1>1, <1>2 DEF Owner
<1>4. \A s \in Runs \ {r} : Accounts(s)'
  BY <1>1, <1>2, <1>3 DEF Accounts, Owner, Late
<1>5. OneOwner'
  BY <1>3 DEF OneOwner
<1> QED
  BY <1>4, <1>5 DEF ProbeInv

\* Going elsewhere leaves the stages of the others alone.
LEMMA PlaceMoves ==
  ASSUME NEW r \in Runs, NEW goal \in Stages, Typed, Moves(r, goal)
  PROVE  /\ stage' \in [Runs -> Stages]
         /\ stage'[r] = goal
         /\ \A s \in Runs \ {r} : stage'[s] = stage[s]
  BY DEF Typed, Moves

\* Steps within the probe's main try block that publish nothing.
LEMMA JournalSteps ==
  ASSUME ProbeInv, NEW r \in Runs,
         StartJournal(r) \/ FindEndpoints(r) \/ Truncate(r) \/ Rewrite(r)
  PROVE  ProbeInv'
<1> USE DEF Stands
<1>1. StaysPut /\ \E goal \in Stages : Moves(r, goal)
  BY DEF StartJournal, FindEndpoints, Truncate, Rewrite, Stages, Early, Late
<1>2. /\ stage' \in [Runs -> Stages]
      /\ \A s \in Runs \ {r} : stage'[s] = stage[s]
      /\ \A goal : Moves(r, goal) => stage'[r] = goal
  BY <1>1, PlaceMoves DEF ProbeInv, Typed, Moves
<1>3. UNCHANGED <<published, acked>>
  BY <1>1 DEF StaysPut
<1>4. Typed'
  BY <1>2, <1>3 DEF ProbeInv, Typed
<1>5. Owner(r)
  BY DEF StartJournal, FindEndpoints, Truncate, Rewrite, Owner, Early, Late
<1>6. CASE StartJournal(r)
  <2>1. CASE journal' = Attempt(FALSE) /\ Moves(r, "discovering")
    <3>1. Accounts(r)'
      <4>1. stage'[r] = "discovering" /\ published'[r] = 0
        BY <1>2, <1>3, <1>6, <2>1 DEF ProbeInv, Accounts, Early, StartJournal
      <4>2. journal' # Nothing
        BY <2>1, JournalsDiffer
      <4> QED
        BY <4>1, <4>2 DEF Accounts, Owner, Early, Late
    <3>2. ResultOfAll'
      BY <2>1, JournalsDiffer DEF ResultOfAll
    <3> QED
      BY <1>2, <1>3, <1>4, <1>5, <3>1, <3>2, OwnerSteps
  <2>2. CASE journal' = Nothing /\ Moves(r, "raised")
    <3>1. Accounts(r)'
      <4>1. stage'[r] = "raised" /\ published'[r] = 0
        BY <1>2, <1>3, <1>6, <2>2 DEF ProbeInv, Accounts, Early, StartJournal
      <4> QED
        BY <4>1 DEF Accounts, Owner, Early, Late
    <3>2. ResultOfAll'
      BY <2>2, JournalsDiffer DEF ResultOfAll
    <3> QED
      BY <1>2, <1>3, <1>4, <1>5, <3>1, <3>2, OwnerSteps
  <2> QED
    BY <1>6, <2>1, <2>2 DEF StartJournal
<1>7. CASE FindEndpoints(r)
  <2>1. Accounts(r)'
    BY <1>2, <1>3, <1>7 DEF ProbeInv, Accounts, Owner, Early, Late, FindEndpoints, Stages
  <2>2. ResultOfAll'
    BY <1>3, <1>7 DEF ProbeInv, ResultOfAll, FindEndpoints
  <2> QED
    BY <1>2, <1>3, <1>4, <1>5, <2>1, <2>2, OwnerSteps
<1>8. CASE Truncate(r)
  <2>1. Accounts(r)'
    BY <1>2, <1>3, <1>8, JournalsDiffer
    DEF ProbeInv, Accounts, Owner, Early, Late, Truncate, Stages, Admitting
  <2>2. ResultOfAll'
    BY <1>8, JournalsDiffer DEF ResultOfAll, Truncate
  <2> QED
    BY <1>2, <1>3, <1>4, <1>5, <2>1, <2>2, OwnerSteps
<1>9. CASE Rewrite(r)
  <2>1. CASE Stands(r, "admitting, truncated")
    <3>1. Accounts(r)'
      BY <1>2, <1>3, <1>9, <2>1, JournalsDiffer
      DEF ProbeInv, Accounts, Owner, Early, Late, Rewrite, Stages, Admitting
    <3>2. ResultOfAll'
      BY <1>3, <1>9, <2>1, JournalsDiffer DEF ProbeInv, ResultOfAll, Rewrite
    <3> QED
      BY <1>2, <1>3, <1>4, <1>5, <3>1, <3>2, OwnerSteps
  <2>2. CASE Stands(r, "concluding, truncated")
    <3>1. Accounts(r)'
      BY <1>2, <1>3, <1>9, <2>2, JournalsDiffer
      DEF ProbeInv, Accounts, Owner, Early, Late, Rewrite, Stages, Admitting
    <3>2. ResultOfAll'
      BY <1>3, <1>9, <2>2 DEF ProbeInv, ResultOfAll, Rewrite, Accounts
    <3> QED
      BY <1>2, <1>3, <1>4, <1>5, <3>1, <3>2, OwnerSteps
  <2>3. CASE Stands(r, "failing early, truncated")
    <3>1. Accounts(r)'
      <4>1. stage'[r] = "raised" /\ published'[r] = 0
        BY <1>2, <1>3, <1>9, <2>3 DEF ProbeInv, Accounts, Early, Rewrite
      <4> QED
        BY <4>1 DEF Accounts, Owner, Early, Late
    <3>2. ResultOfAll'
      BY <1>3, <1>9, <2>3, JournalsDiffer DEF ProbeInv, ResultOfAll, Rewrite
    <3> QED
      BY <1>2, <1>3, <1>4, <1>5, <3>1, <3>2, OwnerSteps
  <2>4. CASE Stands(r, "failing, truncated")
    <3>1. Accounts(r)'
      BY <1>2, <1>3, <1>9, <2>4, JournalsDiffer
      DEF ProbeInv, Accounts, Owner, Early, Late, Rewrite, Stages, Admitting
    <3>2. ResultOfAll'
      BY <1>3, <1>9, <2>4, JournalsDiffer DEF ProbeInv, ResultOfAll, Rewrite
    <3> QED
      BY <1>2, <1>3, <1>4, <1>5, <3>1, <3>2, OwnerSteps
  <2> QED
    BY <1>9, <2>1, <2>2, <2>3, <2>4 DEF Rewrite
<1> QED
  BY <1>6, <1>7, <1>8, <1>9

\* The steps of the upload: the journal says that the hardware was reached.
LEMMA UploadSteps ==
  ASSUME ProbeInv, NEW r \in Runs,
         PublishRequest(r) \/ Acknowledge(r) \/ UploadFails(r) \/ Observe(r)
  PROVE  ProbeInv'
<1> USE DEF Stands
<1>1. Owner(r)
  BY DEF PublishRequest, Acknowledge, UploadFails, Observe, Owner, Late
<1>2. /\ stage \in [Runs -> Stages] /\ published \in [Runs -> Nat] /\ acked \in [Runs -> Nat]
      /\ Accounts(r) /\ ResultOfAll
  BY DEF ProbeInv, Typed
<1>3. UNCHANGED journal
  BY DEF PublishRequest, Acknowledge, UploadFails, Observe
<1>4. journal = Result => ~Stands(r, "uploading")
  BY <1>2, JournalsDiffer DEF Accounts
<1>5. CASE PublishRequest(r)
  <2>1. /\ published' \in [Runs -> Nat] /\ UNCHANGED <<stage, acked>>
        /\ \A s \in Runs \ {r} : published'[s] = published[s]
    BY <1>2, <1>5 DEF PublishRequest
  <2>2. Accounts(r)'
    BY <1>2, <1>3, <1>5, <2>1, JournalsDiffer DEF PublishRequest, Accounts, Owner, Early, Admitting
  <2>3. Typed' /\ ResultOfAll'
    BY <1>2, <1>3, <2>1 DEF Typed, ResultOfAll
  <2> QED
    BY <1>1, <2>1, <2>2, <2>3, OwnerSteps
<1>6. CASE Acknowledge(r)
  <2>1. /\ acked' \in [Runs -> Nat] /\ UNCHANGED published
        /\ \A s \in Runs \ {r} : acked'[s] = acked[s]
    BY <1>2, <1>6 DEF Acknowledge
  <2>2. /\ stage' \in [Runs -> Stages]
        /\ \A s \in Runs \ {r} : stage'[s] = stage[s]
        /\ \/ stage'[r] = "uploading"
           \/ stage'[r] = "observing" /\ acked'[r] = Requests
    BY <1>2, <1>6 DEF Acknowledge, Moves, Stages, Late
  <2>3. Accounts(r)'
    BY <1>2, <1>3, <1>6, <2>1, <2>2, JournalsDiffer
    DEF Acknowledge, Accounts, Owner, Early, Late, Admitting
  <2>4. Typed' /\ ResultOfAll'
    BY <1>2, <1>3, <1>4, <1>6, <2>1, <2>2 DEF Typed, ResultOfAll, Acknowledge
  <2> QED
    BY <1>1, <2>1, <2>2, <2>3, <2>4, OwnerSteps
<1>7. CASE UploadFails(r)
  <2>1. /\ UNCHANGED <<published, acked>>
        /\ stage' \in [Runs -> Stages]
        /\ \A s \in Runs \ {r} : stage'[s] = stage[s]
        /\ stage'[r] = "failing"
    BY <1>2, <1>7 DEF UploadFails, Moves, StaysPut, Stages, Late
  <2>2. Accounts(r)'
    BY <1>1, <1>2, <1>3, <2>1 DEF Accounts, Owner, Early, Late
  <2>3. Typed' /\ ResultOfAll'
    BY <1>2, <1>3, <2>1 DEF Typed, ResultOfAll
  <2> QED
    BY <1>1, <2>1, <2>2, <2>3, OwnerSteps
<1>8. CASE Observe(r)
  <2>1. /\ UNCHANGED <<published, acked>>
        /\ stage' \in [Runs -> Stages]
        /\ \A s \in Runs \ {r} : stage'[s] = stage[s]
        /\ stage'[r] \in {"concluding", "failing"}
    BY <1>2, <1>8 DEF Observe, Moves, Stages, Late
  <2>2. Accounts(r)'
    BY <1>1, <1>2, <1>3, <1>8, <2>1 DEF Observe, Accounts, Owner, Early, Late
  <2>3. Typed' /\ ResultOfAll'
    BY <1>2, <1>3, <2>1 DEF Typed, ResultOfAll
  <2> QED
    BY <1>1, <2>1, <2>2, <2>3, OwnerSteps
<1> QED
  BY <1>5, <1>6, <1>7, <1>8

\* Every step keeps the invariant.  A run becomes the owner only by creating a
\* journal where there was none, so nobody else is.
LEMMA ProbeNextInv == ProbeInv /\ [ProbeNext]_probeVars => ProbeInv'
<1> SUFFICES ASSUME ProbeInv, [ProbeNext]_probeVars PROVE ProbeInv'
  OBVIOUS
<1>1. ASSUME NEW r \in Runs, Preflight(r) PROVE ProbeInv'
  <2>1. /\ UNCHANGED <<published, acked, journal>>
        /\ stage' \in [Runs -> Stages]
        /\ stage[r] = "off" /\ stage'[r] = "creating"
        /\ \A s \in Runs \ {r} : stage'[s] = stage[s]
    BY <1>1 DEF Preflight, Stands, Moves, StaysPut, ProbeInv, Typed, Stages
  <2>2. \A s \in Runs : Owner(s)' => Owner(s)
    BY <2>1 DEF Owner, Early, Late
  <2>3. \A s \in Runs : Accounts(s)'
    BY <2>1, <2>2 DEF ProbeInv, Accounts, Early
  <2> QED
    BY <2>1, <2>2, <2>3 DEF ProbeInv, Typed, OneOwner, ResultOfAll
<1>2. ASSUME NEW r \in Runs, CreateJournal(r) PROVE ProbeInv'
  <2>1. /\ UNCHANGED <<published, acked>>
        /\ stage' \in [Runs -> Stages]
        /\ \A s \in Runs \ {r} : stage'[s] = stage[s]
        /\ stage[r] = "creating" /\ published[r] = 0
    BY <1>2 DEF CreateJournal, Stands, Moves, StaysPut, ProbeInv, Typed, Stages, Early, Accounts
  <2>2. CASE journal = Nothing
    <3>1. journal' = Unreadable /\ stage'[r] = "starting"
      BY <1>2, <2>2 DEF CreateJournal, Moves, ProbeInv, Typed
    <3>2. \A s \in Runs : ~Owner(s)
      BY <2>2 DEF ProbeInv, Accounts
    <3>3. \A s \in Runs \ {r} : ~Owner(s)'
      BY <2>1, <3>2 DEF Owner
    <3>4. \A s \in Runs : Accounts(s)'
      <4>1. Accounts(r)'
        BY <2>1, <3>1, JournalsDiffer DEF Accounts, Early
      <4>2. ASSUME NEW s \in Runs \ {r} PROVE Accounts(s)'
        BY <2>1, <3>2, <3>3 DEF ProbeInv, Accounts, Owner, Early, Late
      <4> QED
        BY <4>1, <4>2
    <3> QED
      BY <2>1, <3>1, <3>3, <3>4, JournalsDiffer DEF ProbeInv, Typed, OneOwner, ResultOfAll
  <2>3. CASE journal # Nothing
    <3>1. UNCHANGED journal /\ stage'[r] = "raised"
      BY <1>2, <2>3 DEF CreateJournal, Moves, ProbeInv, Typed
    <3>2. \A s \in Runs : Owner(s)' => Owner(s)
      BY <2>1, <3>1 DEF Owner, Early, Late
    <3>3. \A s \in Runs : Accounts(s)'
      BY <2>1, <3>1, <3>2 DEF ProbeInv, Accounts, Early
    <3> QED
      BY <2>1, <3>1, <3>2, <3>3 DEF ProbeInv, Typed, OneOwner, ResultOfAll
  <2> QED
    BY <2>2, <2>3
<1>3. ASSUME NEW r \in Runs, ContextShutDown(r) PROVE ProbeInv'
  BY <1>3 DEF ContextShutDown, ProbeInv, Typed, Accounts, Owner, OneOwner, ResultOfAll
<1>4. ASSUME NEW r \in Runs, KillRun(r) PROVE ProbeInv'
  <2>1. /\ UNCHANGED <<published, acked, journal>>
        /\ stage' \in [Runs -> Stages]
        /\ stage'[r] = "killed"
        /\ \A s \in Runs \ {r} : stage'[s] = stage[s]
    BY <1>4 DEF KillRun, Moves, StaysPut, ProbeInv, Typed, Stages
  <2>2. \A s \in Runs : Owner(s)' => Owner(s)
    BY <2>1 DEF Owner, Early, Late
  <2>3. \A s \in Runs : Accounts(s)'
    BY <2>1, <2>2 DEF ProbeInv, Accounts, Early
  <2> QED
    BY <2>1, <2>2, <2>3 DEF ProbeInv, Typed, OneOwner, ResultOfAll
<1>5. CASE UNCHANGED probeVars
  BY <1>5 DEF probeVars, ProbeInv, Typed, Accounts, Owner, OneOwner, ResultOfAll
<1> QED
  BY <1>1, <1>2, <1>3, <1>4, <1>5, JournalSteps, UploadSteps DEF ProbeNext

(***************************************************************************)
(* However many runs are given one output, overlap, and are killed or      *)
(* interrupted: at most one of them ever publishes to the robot.           *)
(***************************************************************************)
THEOREM OneUpload == ProbeSpec => []OneUploadPerJournal
<1>1. ProbeInv => OneUploadPerJournal
  BY DEF ProbeInv, OneOwner, Owner, OneUploadPerJournal
<1> QED
  BY <1>1, ProbeInitInv, ProbeNextInv, PTL DEF ProbeSpec

(***************************************************************************)
(* A journal that can be read admits whatever was published, and it is a   *)
(* result only if every request of the plan was acknowledged.              *)
(***************************************************************************)
THEOREM JournalTells == ProbeSpec => []JournalIsTrue
<1>1. ProbeInv => JournalIsTrue
  BY DEF ProbeInv, Accounts, ResultOfAll, Admitting, JournalIsTrue
<1> QED
  BY <1>1, ProbeInitInv, ProbeNextInv, PTL DEF ProbeSpec

-----------------------------------------------------------------------------
(***************************************************************************)
(* The data and its voucher: any number of overlapping runs, kills included *)
(***************************************************************************)
Places == {"off", "checked", "writing data", "data written", "writing voucher",
           "rolling back", "ended"}

\* What a writer owns: past OpenData the data, until it ends or rolls back; and
\* a whole voucher belongs to the owner of the data, for good.
Owns(w) ==
  /\ place[w] = "writing data" => data = Begun(w)
  /\ place[w] \in {"data written", "writing voucher", "rolling back"} => data = Whole(w)
  /\ place[w] = "writing voucher" => voucher = Begun(w)
  /\ voucher = Whole(w) => data = Whole(w) /\ place[w] = "ended"

BundleInv == place \in [Writers -> Places] /\ \A w \in Writers : Owns(w)

\* A file says who began it and whether it is whole.
LEMMA FilesDiffer ==
  ASSUME "nobody" \notin Writers
  PROVE  /\ \A w \in Writers : Free # Begun(w) /\ Free # Whole(w)
         /\ \A v, w \in Writers : /\ Begun(v) # Whole(w)
                                  /\ Begun(v) = Begun(w) => v = w
                                  /\ Whole(v) = Whole(w) => v = w
  BY DEF Free, Begun, Whole

\* A step of one writer leaves the places of the others alone.
LEMMA StepMoves ==
  ASSUME NEW w \in Writers, NEW from, NEW to \in Places,
         place \in [Writers -> Places], Step(w, from, to)
  PROVE  /\ place[w] = from /\ place'[w] = to
         /\ place' \in [Writers -> Places]
         /\ \A v \in Writers \ {w} : place'[v] = place[v]
  BY DEF Step

\* At first there is no file and nobody is at work.
LEMMA BundleInitInv ==
  ASSUME "nobody" \notin Writers
  PROVE  BundleInit => BundleInv
  BY FilesDiffer DEF BundleInit, BundleInv, Owns, Places

\* Every step keeps the ownership.
LEMMA BundleNextInv ==
  ASSUME "nobody" \notin Writers
  PROVE  BundleInv /\ [BundleNext]_bundleVars => BundleInv'
<1> SUFFICES ASSUME BundleInv, [BundleNext]_bundleVars PROVE BundleInv'
  OBVIOUS
<1> DEFINE Moved(w) == /\ place' \in [Writers -> Places]
                       /\ \A v \in Writers \ {w} : place'[v] = place[v]
<1> USE DEF Owns
<1>1. ASSUME NEW w \in Writers, Check(w) PROVE BundleInv'
  <2>1. Moved(w)
    BY <1>1, StepMoves DEF Check, BundleInv, Places
  <2>2. Owns(w)'
    BY <1>1, <2>1, FilesDiffer DEF Check, Step, BundleInv
  <2>3. ASSUME NEW v \in Writers \ {w} PROVE Owns(v)'
    BY <1>1, <2>1, FilesDiffer DEF Check, Step, BundleInv
  <2> QED
    BY <2>1, <2>2, <2>3 DEF BundleInv
<1>2. ASSUME NEW w \in Writers, OpenData(w) PROVE BundleInv'
  <2>1. Moved(w)
    BY <1>2, StepMoves DEF OpenData, BundleInv, Places
  <2>2. Owns(w)'
    BY <1>2, <2>1, FilesDiffer DEF OpenData, Step, BundleInv
  <2>3. ASSUME NEW v \in Writers \ {w} PROVE Owns(v)'
    BY <1>2, <2>1, FilesDiffer DEF OpenData, Step, BundleInv
  <2> QED
    BY <2>1, <2>2, <2>3 DEF BundleInv
<1>3. ASSUME NEW w \in Writers, WriteData(w) PROVE BundleInv'
  <2>1. Moved(w)
    BY <1>3, StepMoves DEF WriteData, BundleInv, Places
  <2>2. Owns(w)'
    BY <1>3, <2>1, FilesDiffer DEF WriteData, Step, BundleInv
  <2>3. ASSUME NEW v \in Writers \ {w} PROVE Owns(v)'
    BY <1>3, <2>1, FilesDiffer DEF WriteData, Step, BundleInv
  <2> QED
    BY <2>1, <2>2, <2>3 DEF BundleInv
<1>4. ASSUME NEW w \in Writers, OpenVoucher(w) PROVE BundleInv'
  <2>1. Moved(w)
    BY <1>4, StepMoves DEF OpenVoucher, BundleInv, Places
  <2>2. Owns(w)'
    BY <1>4, <2>1, FilesDiffer DEF OpenVoucher, Step, BundleInv
  <2>3. ASSUME NEW v \in Writers \ {w} PROVE Owns(v)'
    BY <1>4, <2>1, FilesDiffer DEF OpenVoucher, Step, BundleInv
  <2> QED
    BY <2>1, <2>2, <2>3 DEF BundleInv
<1>5. ASSUME NEW w \in Writers, WriteVoucher(w) PROVE BundleInv'
  <2>1. Moved(w)
    BY <1>5, StepMoves DEF WriteVoucher, BundleInv, Places
  <2>2. Owns(w)'
    BY <1>5, <2>1, FilesDiffer DEF WriteVoucher, Step, BundleInv
  <2>3. ASSUME NEW v \in Writers \ {w} PROVE Owns(v)'
    BY <1>5, <2>1, FilesDiffer DEF WriteVoucher, Step, BundleInv
  <2> QED
    BY <2>1, <2>2, <2>3 DEF BundleInv
<1>6. ASSUME NEW w \in Writers, RollBack(w) PROVE BundleInv'
  <2>1. Moved(w)
    BY <1>6, StepMoves DEF RollBack, BundleInv, Places
  <2>2. Owns(w)'
    BY <1>6, <2>1, FilesDiffer DEF RollBack, Step, BundleInv
  <2>3. ASSUME NEW v \in Writers \ {w} PROVE Owns(v)'
    BY <1>6, <2>1, FilesDiffer DEF RollBack, Step, BundleInv
  <2> QED
    BY <2>1, <2>2, <2>3 DEF BundleInv
<1>7. ASSUME NEW w \in Writers, KillWriter(w) PROVE BundleInv'
  BY <1>7 DEF KillWriter, BundleInv, Places
<1>8. CASE UNCHANGED bundleVars
  BY <1>8 DEF bundleVars, BundleInv
<1> QED
  BY <1>1, <1>2, <1>3, <1>4, <1>5, <1>6, <1>7, <1>8 DEF BundleNext

(***************************************************************************)
(* However many runs share the two paths, and wherever they are killed: a  *)
(* whole voucher stands beside the whole data of the same run.             *)
(***************************************************************************)
THEOREM VoucherHasItsData ==
  ASSUME "nobody" \notin Writers
  PROVE  BundleSpec => []VouchedDataIsThere
<1>1. BundleInv => VouchedDataIsThere
  BY DEF BundleInv, Owns, VouchedDataIsThere
<1> QED
  BY <1>1, BundleInitInv, BundleNextInv, PTL DEF BundleSpec

-----------------------------------------------------------------------------
(***************************************************************************)
(* The evidence gate: any robots, firmwares, captures and codecs           *)
(***************************************************************************)
CaptureRecord == [robot: Robots, firmware: Firmwares, fits: BOOLEAN]

Taken(c) == c \in Captures /\ captures[c] \in CaptureRecord

\* The captures that a manifest names stay on disk and never change but for their
\* age; of the one that was listened to it tells the codec.
ManifestOK ==
  manifest # NoManifest =>
    /\ Taken(manifest.observation)
    /\ LET probe == manifest.codec_probe IN
       /\ Taken(probe.capture)
       /\ probe.intelligible =>
            probe.decoder =
              CodecOf[<<captures[probe.capture].robot, captures[probe.capture].firmware>>]

ProfileInv ==
  /\ firmware \in [Robots -> Firmwares]
  /\ captures \in [Captures -> CaptureRecord \cup {NoCapture}]
  /\ ManifestOK

\* What has been taken is not a free place.
LEMMA TakenIsNotFree == NoCapture \notin CaptureRecord
  BY DEF NoCapture, CaptureRecord

\* Taking or ageing captures leaves the taken ones' robot and firmware alone.
Preserved ==
  \A c : Taken(c) =>
    /\ captures'[c] \in CaptureRecord
    /\ captures'[c].robot = captures[c].robot
    /\ captures'[c].firmware = captures[c].firmware

\* A manifest stays true while the captures it names are preserved.
LEMMA ManifestKept ==
  ASSUME ManifestOK, Preserved, UNCHANGED manifest
  PROVE  ManifestOK'
  BY DEF ManifestOK, Preserved, Taken

\* The invariant holds at first.
LEMMA ProfileInitInv == ProfileInit => ProfileInv
  BY DEF ProfileInit, ProfileInv, ManifestOK, NoManifest

\* Every step keeps the invariant.
LEMMA ProfileNextInv == ProfileInv /\ [ProfileNext]_profileVars => ProfileInv'
<1> SUFFICES ASSUME ProfileInv, [ProfileNext]_profileVars PROVE ProfileInv'
  OBVIOUS
<1> USE DEF ProfileInv
<1>1. ASSUME NEW c \in Captures, NEW r \in Robots, NEW fits \in BOOLEAN, Discover(c, r, fits)
      PROVE  ProfileInv'
  <2>1. captures' \in [Captures -> CaptureRecord \cup {NoCapture}]
    BY <1>1 DEF Discover, CaptureRecord
  <2>2. Preserved
    BY <1>1, TakenIsNotFree DEF Discover, Preserved, Taken
  <2> QED
    BY <1>1, <2>1, <2>2, ManifestKept DEF Discover
<1>2. ASSUME NEW c \in Captures, GrowOld(c)
      PROVE  ProfileInv'
  <2>1. captures[c] \in CaptureRecord
    BY <1>2 DEF GrowOld
  <2>2. /\ captures'[c] \in CaptureRecord
        /\ captures'[c].robot = captures[c].robot
        /\ captures'[c].firmware = captures[c].firmware
    BY <1>2, <2>1 DEF GrowOld, CaptureRecord
  <2>3. \A d \in Captures \ {c} : captures'[d] = captures[d]
    BY <1>2 DEF GrowOld
  <2>4. captures' \in [Captures -> CaptureRecord \cup {NoCapture}]
    BY <1>2, <2>2 DEF GrowOld
  <2>5. Preserved
    BY <2>2, <2>3 DEF Preserved, Taken
  <2> QED
    BY <1>2, <2>4, <2>5, ManifestKept DEF GrowOld
<1>3. ASSUME NEW c \in Recorded, NEW heard \in Recorded, NEW codec \in Codecs,
             NEW p \in Profiles, NEW speaker, NEW r \in Robots, NEW f \in Firmwares,
             WriteManifest(c, heard, codec, p, speaker, r, f)
      PROVE  ProfileInv'
  <2>1. Taken(c) /\ Taken(heard)
    BY DEF Recorded, Taken
  <2> QED
    BY <1>3, <2>1 DEF WriteManifest, Decoded, ManifestOK, Taken
<1>4. CASE Pin
  BY <1>4 DEF Pin, ManifestOK, Taken
<1>5. ASSUME NEW r \in Robots, NEW f \in Firmwares, UpdateFirmware(r, f)
      PROVE  ProfileInv'
  BY <1>5 DEF UpdateFirmware, ManifestOK, Taken
<1>6. ASSUME NEW r \in Robots, NEW f \in Firmwares, NEW p \in Profiles,
             NEW mic \in BOOLEAN, NEW speaker \in BOOLEAN, Start(r, f, p, mic, speaker)
      PROVE  ProfileInv'
  BY <1>6 DEF Start, ManifestOK, Taken
<1>7. CASE UNCHANGED profileVars
  BY <1>7 DEF profileVars, ManifestOK, Taken
<1> QED
  BY <1>1, <1>2, <1>3, <1>4, <1>5, <1>6, <1>7 DEF ProfileNext

\* The step that starts a bridge: evidence that fits names one capture, and its
\* codec is the one the operator heard; a truthful manifest says that the capture
\* is of this robot with this firmware.
LEMMA StartIsRight ==
  ASSUME ProfileInv,
         NEW r \in Robots, NEW f \in Firmwares, NEW p \in Profiles,
         NEW mic \in BOOLEAN, NEW speaker \in BOOLEAN, Start(r, f, p, mic, speaker)
  PROVE  /\ bridge'.decodes # "nothing" /\ Truthful =>
              bridge'.decodes = CodecOf[<<bridge'.robot, bridge'.firmware>>]
         /\ bridge'.plays # "None"
<1>1. /\ bridge'.robot = r /\ bridge'.firmware = f
      /\ bridge'.decodes = IF mic THEN p.mic_codec ELSE "nothing"
      /\ bridge'.plays = IF speaker THEN p.speaker_protocol ELSE "nothing"
  BY DEF Start
<1>2. ASSUME mic, Truthful PROVE p.mic_codec = CodecOf[<<r, f>>]
  <2>1. /\ manifest # NoManifest /\ manifest.robot_id = r /\ manifest.source_firmware = f
        /\ manifest.codec_probe.decoder = p.mic_codec /\ manifest.codec_probe.intelligible
        /\ manifest.codec_probe.capture = manifest.observation
    BY <1>2 DEF Start, LoadsEvidence, EvidenceFits, CodecFits
  <2> QED
    BY <1>2, <2>1 DEF ProfileInv, ManifestOK, Truthful
<1>3. ASSUME speaker PROVE p.speaker_protocol # "None"
  BY <1>3 DEF Start, LoadsEvidence, EvidenceFits
<1> QED
  BY <1>1, <1>2, <1>3

(***************************************************************************)
(* Whatever was captured, listened to, written and updated before: a       *)
(* bridge that starts to decode on a manifest whose account of its         *)
(* capture's origin is true uses the codec of its robot with the firmware  *)
(* that the deployment names, and one that starts to play has a protocol   *)
(* to play with.                                                           *)
(***************************************************************************)
THEOREM RightCodec == ProfileSpec => StartsWithTheRightCodec
<1>1. ASSUME ProfileInv, [ProfileNext]_profileVars
      PROVE  [bridge = Off /\ bridge' # Off =>
                /\ bridge'.decodes # "nothing" /\ Truthful =>
                     bridge'.decodes = CodecOf[<<bridge'.robot, bridge'.firmware>>]
                /\ bridge'.plays # "None"]_profileVars
  <2> SUFFICES ASSUME bridge' # bridge
               PROVE  /\ bridge'.decodes # "nothing" /\ Truthful =>
                           bridge'.decodes = CodecOf[<<bridge'.robot, bridge'.firmware>>]
                      /\ bridge'.plays # "None"
    OBVIOUS
  <2>1. PICK r \in Robots, f \in Firmwares, p \in Profiles, mic \in BOOLEAN,
             speaker \in BOOLEAN : Start(r, f, p, mic, speaker)
    BY <1>1 DEF ProfileNext, profileVars, Discover, GrowOld, WriteManifest, Pin, UpdateFirmware
  <2> QED
    BY <1>1, <2>1, StartIsRight
<1> QED
  BY <1>1, ProfileInitInv, ProfileNextInv, PTL DEF ProfileSpec, StartsWithTheRightCodec
-----------------------------------------------------------------------------
(***************************************************************************)
(* The volume probe: calls, requests and answers that may be slow or lost  *)
(***************************************************************************)
TryCalls == {"get", "set", "confirm", "play", "stop"}
FinallyCalls == {"stop again", "restore", "verify"}

Requested == [id: Nat \ {0}, api: {"GetVolume", "SetVolume", "PlayStream", "StopPlay"},
              volume: {Original, Target}]
Answered == [id: Nat \ {0}, ok: BOOLEAN, volume: {Original, Target}]

VolumeTyped ==
  /\ call \in TryCalls \cup FinallyCalls \cup {"over"}
  /\ identity \in Nat /\ waiting \in {0, identity}
  /\ changed \in BOOLEAN /\ played \in BOOLEAN /\ raised \in BOOLEAN
  /\ requests \in Seq(Requested)
  /\ answers \subseteq Answered
  /\ volume \in {Original, Target}
  /\ interrupted \in BOOLEAN /\ spurned \in BOOLEAN

\* Requests are served in the order of their identities; what the probe waits for
\* is what it asked.
RequestsOK ==
  /\ \A i \in 1..Len(requests) : requests[i].id <= identity
  /\ \A i, j \in 1..Len(requests) : i < j => requests[i].id < requests[j].id
  /\ \A i \in 1..Len(requests) : requests[i].id = waiting => requests[i].api = Api(call)
  /\ \A a \in answers : a.id <= identity

\* The answer to the last check of the volume: nothing can change it any more.
VerifyOK ==
  call = "verify" /\ waiting # 0 =>
    \A a \in answers : a.id = waiting => requests = <<>> /\ volume = a.volume

\* What main remembers, by where it is.
MainOK ==
  /\ call \in {"confirm", "play", "stop", "restore", "verify"} => changed
  /\ call = "over" /\ ~raised => changed
  /\ call = "over" /\ ~raised /\ errors = {} => requests = <<>> /\ volume = Original
  /\ call = "over" => waiting = 0
  /\ call = "stop again" => raised

Restores(q) == q.api = "SetVolume" /\ q.volume = Original

\* The volume that the robot ends up with, once it has done what it was asked, is
\* the original one: it is already, or a request restores it, and no later request
\* sets another.
WillRestore ==
  \E i \in 0..Len(requests) :
    /\ IF i = 0 THEN volume = Original ELSE Restores(requests[i])
    /\ \A j \in 1..Len(requests) :
         j > i /\ requests[j].api = "SetVolume" => Restores(requests[j])

\* The finally block has asked for it.
RestoreCalled == (call = "restore" /\ waiting # 0) \/ call \in {"verify", "over"}

RestoreOK == changed /\ ~interrupted /\ ~spurned /\ RestoreCalled => WillRestore

VolumeInv == VolumeTyped /\ RequestsOK /\ VerifyOK /\ MainOK /\ RestoreOK

\* Where the finally block goes on.
LEMMA FinallySteps ==
  ASSUME NEW stops \in BOOLEAN, NEW restores \in BOOLEAN
  PROVE  /\ FinallyAfter("try", stops, restores) =
              IF stops THEN "stop again" ELSE IF restores THEN "restore" ELSE "over"
         /\ FinallyAfter("stop again", FALSE, restores) = IF restores THEN "restore" ELSE "over"
         /\ FinallyAfter("restore", FALSE, restores) = "over"
         /\ FinallyAfter("verify", FALSE, restores) = "over"
<1>1. FinallyAfter("try", stops, restores) =
        IF stops THEN "stop again" ELSE IF restores THEN "restore" ELSE "over"
  <2>1. CASE stops
    BY <2>1 DEF FinallyAfter
  <2>2. CASE ~stops /\ restores
    BY <2>2 DEF FinallyAfter
  <2>3. CASE ~stops /\ ~restores
    BY <2>3 DEF FinallyAfter
  <2> QED
    BY <2>1, <2>2, <2>3
<1>2. FinallyAfter("stop again", FALSE, restores) = IF restores THEN "restore" ELSE "over"
  BY DEF FinallyAfter
<1>3. FinallyAfter("restore", FALSE, restores) = "over"
  BY DEF FinallyAfter
<1>4. FinallyAfter("verify", FALSE, restores) = "over"
  BY DEF FinallyAfter
<1> QED
  BY <1>1, <1>2, <1>3, <1>4

\* What follows a call that returned.
LEMMA CallSteps ==
  /\ CallAfter("get") = "set" /\ CallAfter("set") = "confirm"
  /\ CallAfter("confirm") = "play" /\ CallAfter("play") = "stop"
  /\ CallAfter("stop") = FinallyAfter("try", FALSE, changed)
  /\ CallAfter("restore") = "verify"
  /\ CallAfter("stop again") = FinallyAfter("stop again", FALSE, changed)
  /\ CallAfter("verify") = FinallyAfter("verify", FALSE, changed)
BY DEF CallAfter

\* Once nothing is waited for, old requests and answers do not matter.
LEMMA NothingAwaited ==
  ASSUME VolumeTyped, RequestsOK, waiting' = 0,
         UNCHANGED <<identity, requests>>, answers' \subseteq answers
  PROVE  RequestsOK' /\ VerifyOK'
<1>1. \A i \in 1..Len(requests) : requests[i].id # 0
  <2> SUFFICES ASSUME NEW i \in 1..Len(requests) PROVE requests[i].id # 0
    OBVIOUS
  <2>1. requests \in Seq(Requested)
    BY DEF VolumeTyped
  <2>2. requests[i] \in Requested
    BY <2>1, ElementOfSeq
  <2> QED
    BY <2>2 DEF Requested
<1>2. RequestsOK'
  BY <1>1 DEF RequestsOK
<1> QED
  BY <1>2 DEF VerifyOK

\* A call that raises, or whose failure becomes a restoration error.
LEMMA GoesWrongOK ==
  ASSUME VolumeInv, GoesWrong, UNCHANGED <<requests, outside>>, answers' \subseteq answers,
         waiting # 0 \/ interrupted
  PROVE  VolumeInv'
<1> USE DEF outside
<1>1. VolumeTyped /\ RequestsOK /\ MainOK
  BY DEF VolumeInv
<1>2. /\ waiting' = 0 /\ identity' = identity /\ changed' = changed /\ played' = played
      /\ raised' \in BOOLEAN
      /\ changed \in BOOLEAN /\ played \in BOOLEAN
  BY <1>1 DEF GoesWrong, TryRaises, RestorationFails, VolumeTyped
<1>3. RequestsOK' /\ VerifyOK'
  BY <1>1, <1>2, NothingAwaited
<1>4. /\ call' \in {"stop again", "restore", "over"}
      /\ call' = "stop again" => raised'
      /\ call' = "restore" => changed
      /\ call' = "over" => (~raised' => errors' # {}) /\ (~raised' => changed)
      /\ call' = "over" /\ changed => call \in {"restore", "verify"}
  <2>1. CASE TryRaises
    <3>1. /\ raised' = TRUE
          /\ call' = IF played THEN "stop again" ELSE IF changed THEN "restore" ELSE "over"
      BY <1>2, <2>1, FinallySteps DEF TryRaises
    <3> QED
      BY <3>1
  <2>2. CASE RestorationFails
    <3>1. /\ raised' = raised /\ errors' # {}
          /\ call \in {"stop again", "restore", "verify"}
          /\ call' = FinallyAfter(call, FALSE, changed)
      BY <2>2 DEF RestorationFails
    <3>2. call' = IF call = "stop again" /\ changed THEN "restore" ELSE "over"
      BY <1>2, <3>1, FinallySteps
    <3>3. (call = "stop again" => raised) /\ (call # "stop again" => changed)
      BY <1>1, <3>1 DEF MainOK
    <3> QED
      BY <3>1, <3>2, <3>3
  <2> QED
    BY <2>1, <2>2 DEF GoesWrong
<1>5. VolumeTyped'
  BY <1>1, <1>2, <1>4 DEF VolumeTyped, TryCalls, FinallyCalls
<1>6. MainOK'
  BY <1>2, <1>4 DEF MainOK
<1>7. RestoreOK'
  <2> SUFFICES ASSUME changed', ~interrupted', ~spurned', RestoreCalled' PROVE WillRestore'
    BY DEF RestoreOK
  <2>1. call' = "over" /\ changed
    BY <1>2, <1>4 DEF RestoreCalled
  <2>2. RestoreCalled
    BY <1>4, <2>1 DEF RestoreCalled
  <2>3. WillRestore
    BY <2>1, <2>2 DEF VolumeInv, RestoreOK
  <2> QED
    BY <2>3 DEF WillRestore
<1> QED
  BY <1>3, <1>5, <1>6, <1>7 DEF VolumeInv

\* A call that returns; seen is the volume now, if it was the last check.
LEMMA GoesRightOK ==
  ASSUME VolumeInv, NEW seen, GoesRight(seen), call # "over", waiting # 0,
         call = "verify" => requests = <<>> /\ volume = seen,
         UNCHANGED <<requests, outside>>, answers' \subseteq answers
  PROVE  VolumeInv'
<1> USE DEF outside
<1>1. VolumeTyped /\ RequestsOK /\ MainOK
  BY DEF VolumeInv
<1>2. /\ waiting' = 0 /\ identity' = identity /\ raised' = raised
      /\ changed' = (changed \/ call = "set")
      /\ played' \in BOOLEAN
      /\ call' = CallAfter(call) /\ errors' = ErrorsAfter(seen)
      /\ changed \in BOOLEAN
  BY <1>1 DEF GoesRight, VolumeTyped
<1>3. RequestsOK' /\ VerifyOK'
  BY <1>1, <1>2, NothingAwaited
<1>4. /\ call' \in {"set", "confirm", "play", "stop", "restore", "verify", "over"}
      /\ call' \in {"confirm", "play", "stop", "restore", "verify"} => changed'
      /\ call' = "over" => \/ call = "verify" /\ changed
                           \/ ~changed' /\ raised
      /\ call' = "verify" => call = "restore" /\ changed
  <2>1. CASE call \in {"get", "set", "confirm", "play", "restore"}
    BY <1>1, <1>2, <2>1, CallSteps DEF MainOK
  <2>2. CASE call = "stop"
    <3>1. changed
      BY <1>1, <2>2 DEF MainOK
    <3>2. call' = "restore"
      BY <1>2, <2>2, <3>1, CallSteps, FinallySteps
    <3> QED
      BY <1>2, <3>1, <3>2
  <2>3. CASE call = "stop again"
    <3>1. call' = IF changed THEN "restore" ELSE "over"
      BY <1>2, <2>3, CallSteps, FinallySteps
    <3>2. raised
      BY <1>1, <2>3 DEF MainOK
    <3> QED
      BY <1>2, <2>3, <3>1, <3>2
  <2>4. CASE call = "verify"
    <3>1. call' = "over"
      BY <1>2, <2>4, CallSteps, FinallySteps
    <3>2. changed
      BY <1>1, <2>4 DEF MainOK
    <3> QED
      BY <2>4, <3>1, <3>2
  <2> QED
    BY <1>1, <2>1, <2>2, <2>3, <2>4 DEF VolumeTyped, TryCalls, FinallyCalls
<1>5. VolumeTyped'
  BY <1>1, <1>2, <1>4 DEF VolumeTyped, TryCalls, FinallyCalls
<1>6. MainOK'
  <2>1. call' = "over" /\ ~raised' /\ errors' = {} => requests' = <<>> /\ volume' = Original
    <3> SUFFICES ASSUME call' = "over", ~raised', errors' = {}
                 PROVE  requests' = <<>> /\ volume' = Original
      OBVIOUS
    <3>1. call = "verify"
      BY <1>2, <1>4
    <3>2. seen = Original
      BY <1>2, <3>1 DEF ErrorsAfter
    <3> QED
      BY <3>1, <3>2
  <2> QED
    BY <1>2, <1>4, <2>1 DEF MainOK
<1>7. RestoreOK'
  <2> SUFFICES ASSUME changed', ~interrupted', ~spurned', RestoreCalled' PROVE WillRestore'
    BY DEF RestoreOK
  <2>1. call' \in {"verify", "over"}
    BY <1>2 DEF RestoreCalled
  <2>2. call \in {"restore", "verify"} /\ changed
    BY <1>4, <2>1
  <2>3. WillRestore
    BY <2>2 DEF VolumeInv, RestoreOK, RestoreCalled
  <2> QED
    BY <2>3 DEF WillRestore
<1> QED
  BY <1>3, <1>5, <1>6, <1>7 DEF VolumeInv

\* An answer says what the volume is, and leaves the queue without its request.
LEMMA ServeOK ==
  ASSUME VolumeInv, NEW obeys \in BOOLEAN, NEW ok \in BOOLEAN, NEW drops \in BOOLEAN,
         Serve(obeys, ok, drops)
  PROVE  VolumeInv'
<1> DEFINE q == Head(requests)
           n == Len(requests)
           a == [id |-> q.id, ok |-> ok, volume |-> volume]
<1>1. VolumeTyped /\ RequestsOK /\ VerifyOK /\ MainOK /\ RestoreOK
  BY DEF VolumeInv
<1>2. /\ requests # <<>> /\ requests' = Tail(requests)
      /\ UNCHANGED <<call, waiting, identity, changed, played, raised, errors, interrupted>>
      /\ spurned' = (spurned \/ (~obeys /\ q.api = "SetVolume" /\ q.volume = Original))
      /\ answers' \in {answers, answers \cup {a}}
      /\ volume' = IF obeys /\ q.api = "SetVolume" THEN q.volume ELSE volume
  BY DEF Serve
<1>3. /\ requests \in Seq(Requested) /\ n \in Nat /\ n > 0 /\ q = requests[1]
      /\ Tail(requests) \in Seq(Requested) /\ Len(Tail(requests)) = n - 1
      /\ \A i \in 1..n - 1 : Tail(requests)[i] = requests[i + 1]
  BY <1>1, <1>2, EmptySeq, LenProperties, HeadTailProperties DEF VolumeTyped
<1>4. q \in Requested
  BY <1>3, ElementOfSeq
<1>5. volume' \in {Original, Target} /\ volume \in {Original, Target} /\ a \in Answered
  BY <1>1, <1>2, <1>4 DEF VolumeTyped, Requested, Answered
<1>6. VolumeTyped'
  BY <1>1, <1>2, <1>3, <1>5 DEF VolumeTyped
<1>7. RequestsOK'
  <2>1. \A i \in 1..n - 1 : i \in 1..n /\ i + 1 \in 1..n
    BY <1>3
  <2>2. \A i \in 1..Len(requests') : requests'[i] = requests[i + 1] /\ i + 1 \in 1..n
    BY <1>2, <1>3, <2>1
  <2>3. \A i \in 1..Len(requests') : requests'[i].id <= identity'
    BY <1>1, <1>2, <2>2 DEF RequestsOK
  <2>4. \A i, j \in 1..Len(requests') : i < j => requests'[i].id < requests'[j].id
    BY <1>1, <1>2, <1>3, <2>2 DEF RequestsOK
  <2>5. \A i \in 1..Len(requests') : requests'[i].id = waiting' => requests'[i].api = Api(call)
    BY <1>1, <1>2, <2>2 DEF RequestsOK
  <2>6. \A b \in answers' : b.id <= identity'
    <3>1. q.id <= identity
      BY <1>1, <1>3 DEF RequestsOK
    <3> QED
      BY <1>1, <1>2, <3>1 DEF RequestsOK
  <2> QED
    BY <1>2, <2>3, <2>4, <2>5, <2>6 DEF RequestsOK, Api
<1>8. VerifyOK'
  <2> SUFFICES ASSUME call = "verify", waiting # 0, NEW b \in answers', b.id = waiting
               PROVE  requests' = <<>> /\ volume' = b.volume
    BY <1>2 DEF VerifyOK
  <2>1. b \notin answers
    BY <1>1, <1>2 DEF VerifyOK
  <2>2. b = a /\ q.id = waiting /\ waiting = identity
    BY <1>1, <1>2, <2>1 DEF VolumeTyped
  <2>3. q.api = "GetVolume"
    BY <1>1, <1>3, <2>2 DEF RequestsOK, Api
  <2>4. n = 1
    <3> SUFFICES ASSUME n > 1 PROVE FALSE
      BY <1>3
    <3>1. 1 \in 1..n /\ 2 \in 1..n
      BY <1>3
    <3>2. requests[1].id < requests[2].id /\ requests[2].id <= identity
      BY <1>1, <3>1 DEF RequestsOK
    <3>3. requests[1].id \in Nat /\ requests[2].id \in Nat /\ identity \in Nat
      <4>1. requests[1] \in Requested /\ requests[2] \in Requested
        BY <1>3, <3>1, ElementOfSeq
      <4> QED
        BY <1>1, <4>1 DEF Requested, VolumeTyped
    <3> QED
      BY <1>3, <2>2, <3>2, <3>3
  <2>5. requests' = <<>>
    BY <1>2, <1>3, <2>4, EmptySeq
  <2> QED
    BY <1>2, <2>2, <2>3, <2>5
<1>9. MainOK'
  BY <1>1, <1>2 DEF MainOK
<1>10. RestoreOK'
  <2> SUFFICES ASSUME changed', ~interrupted', ~spurned', RestoreCalled' PROVE WillRestore'
    BY DEF RestoreOK
  <2>1. WillRestore
    BY <1>1, <1>2 DEF RestoreOK, RestoreCalled
  <2>2. PICK i \in 0..n :
          /\ IF i = 0 THEN volume = Original ELSE Restores(requests[i])
          /\ \A j \in 1..n : j > i /\ requests[j].api = "SetVolume" => Restores(requests[j])
    BY <2>1 DEF WillRestore
  <2>3. Restores(q) => volume' = Original
    BY <1>2 DEF Restores
  <2>4. /\ Len(requests') = n - 1
        /\ \A j \in 1..n - 1 : requests'[j] = requests[j + 1] /\ j + 1 \in 1..n
    BY <1>2, <1>3
  <2>5. CASE i <= 1
    <3>1. volume' = Original
      <4>1. CASE i = 1
        BY <1>3, <2>2, <2>3, <4>1
      <4>2. CASE i = 0
        <5>1. q.api = "SetVolume" => Restores(q)
          BY <1>3, <2>2, <4>2
        <5> QED
          BY <1>2, <2>2, <2>3, <4>2, <5>1
      <4> QED
        BY <2>2, <2>5, <4>1, <4>2
    <3>2. \A j \in 1..n - 1 : requests'[j].api = "SetVolume" => Restores(requests'[j])
      <4>1. \A j \in 1..n - 1 : j + 1 > i
        BY <1>3, <2>2, <2>5
      <4> QED
        BY <2>2, <2>4, <4>1
    <3>3. 0 \in 0..Len(requests')
      BY <1>3, <2>4
    <3> QED
      BY <2>4, <3>1, <3>2, <3>3 DEF WillRestore
  <2>6. CASE i > 1
    <3>1. i - 1 \in 1..n - 1 /\ i - 1 \in 0..Len(requests') /\ i - 1 # 0 /\ (i - 1) + 1 = i
      BY <1>3, <2>2, <2>4, <2>6
    <3>2. Restores(requests'[i - 1])
      BY <2>2, <2>4, <2>6, <3>1
    <3>3. \A j \in 1..n - 1 :
            j > i - 1 /\ requests'[j].api = "SetVolume" => Restores(requests'[j])
      <4>1. \A j \in 1..n - 1 : j > i - 1 => j + 1 > i
        BY <1>3, <2>2
      <4> QED
        BY <2>2, <2>4, <4>1
    <3> QED
      BY <2>4, <3>1, <3>2, <3>3 DEF WillRestore
  <2> QED
    BY <2>2, <2>5, <2>6
<1> QED
  BY <1>6, <1>7, <1>8, <1>9, <1>10 DEF VolumeInv

\* A new request has a new identity, which nothing has answered yet.
LEMMA CallOK ==
  ASSUME VolumeInv, Call
  PROVE  VolumeInv'
<1> DEFINE q == [id |-> identity + 1, api |-> Api(call),
                 volume |-> IF call = "restore" THEN Original ELSE Target]
           n == Len(requests)
<1>1. VolumeTyped /\ RequestsOK /\ VerifyOK /\ MainOK
  BY DEF VolumeInv
<1>2. /\ call # "over" /\ identity' = identity + 1 /\ waiting' = identity + 1
      /\ requests' = Append(requests, q)
      /\ waiting = 0
      /\ UNCHANGED <<call, changed, played, raised, errors, answers, interrupted, volume, spurned>>
  BY DEF Call, outside
<1>3. Api(call) \in {"GetVolume", "SetVolume", "PlayStream", "StopPlay"}
  BY DEF Api
<1>4. q \in Requested /\ q.id = identity + 1 /\ q.api = Api(call) /\ identity \in Nat
  BY <1>1, <1>3 DEF Requested, VolumeTyped
<1> HIDE DEF q
<1>5. /\ requests \in Seq(Requested) /\ n \in Nat
      /\ requests' \in Seq(Requested) /\ Len(requests') = n + 1
      /\ \A i \in 1..n : requests'[i] = requests[i]
      /\ requests'[n + 1] = q
  BY <1>1, <1>2, <1>4, AppendProperties, LenProperties DEF VolumeTyped
<1>6. VolumeTyped'
  BY <1>1, <1>2, <1>4, <1>5 DEF VolumeTyped
<1>7. \A i \in 1..n : requests[i].id \in Nat /\ requests[i].id <= identity
  <2> SUFFICES ASSUME NEW i \in 1..n PROVE requests[i].id \in Nat /\ requests[i].id <= identity
    OBVIOUS
  <2>1. requests[i] \in Requested
    BY <1>5, ElementOfSeq
  <2> QED
    BY <1>1, <2>1 DEF RequestsOK, Requested
<1>8. \A i \in 1..n + 1 : i \in 1..n \/ i = n + 1
  BY <1>5
<1>9. RequestsOK'
  <2>1. \A i \in 1..Len(requests') : requests'[i].id <= identity'
    BY <1>2, <1>4, <1>5, <1>7, <1>8
  <2>2. ASSUME NEW i \in 1..n + 1, NEW j \in 1..n + 1, i < j
        PROVE  requests'[i].id < requests'[j].id
    <3>1. i \in 1..n
      BY <1>5, <2>2
    <3>2. CASE j \in 1..n
      BY <1>1, <1>5, <2>2, <3>1, <3>2 DEF RequestsOK
    <3>3. CASE j = n + 1
      BY <1>4, <1>5, <1>7, <3>1, <3>3
    <3> QED
      BY <1>8, <3>2, <3>3
  <2>3. \A i \in 1..Len(requests') : requests'[i].id = waiting' => requests'[i].api = Api(call)
    BY <1>2, <1>4, <1>5, <1>7, <1>8
  <2>4. \A b \in answers' : b.id <= identity'
    BY <1>1, <1>2, <1>4 DEF RequestsOK, VolumeTyped, Answered
  <2> QED
    BY <1>2, <1>5, <2>1, <2>2, <2>3, <2>4 DEF RequestsOK, Api
<1>10. VerifyOK'
  <2>1. \A b \in answers : b.id # identity + 1
    BY <1>1, <1>4 DEF RequestsOK, VolumeTyped, Answered
  <2> QED
    BY <1>2, <2>1 DEF VerifyOK
<1>11. MainOK'
  BY <1>1, <1>2 DEF MainOK
<1>12. RestoreOK'
  <2> SUFFICES ASSUME changed', ~interrupted', ~spurned', RestoreCalled' PROVE WillRestore'
    BY DEF RestoreOK
  <2>1. call \in {"restore", "verify"}
    BY <1>2 DEF RestoreCalled
  <2>2. CASE call = "restore"
    <3>1. Restores(q)
      BY <2>2 DEF q, Restores, Api
    <3>2. /\ n + 1 \in 0..Len(requests') /\ n + 1 # 0
          /\ \A j \in 1..Len(requests') : ~(j > n + 1)
      BY <1>5
    <3> QED
      BY <1>5, <3>1, <3>2 DEF WillRestore
  <2>3. CASE call = "verify"
    <3>1. RestoreOK /\ RestoreCalled
      BY <2>3 DEF VolumeInv, RestoreCalled
    <3>2. WillRestore
      BY <1>2, <3>1 DEF RestoreOK
    <3>3. PICK i \in 0..n :
            /\ IF i = 0 THEN volume = Original ELSE Restores(requests[i])
            /\ \A j \in 1..n : j > i /\ requests[j].api = "SetVolume" => Restores(requests[j])
      BY <3>2 DEF WillRestore
    <3>4. q.api = "GetVolume"
      BY <1>4, <2>3 DEF Api
    <3>5. i \in 0..Len(requests') /\ (i # 0 => i \in 1..n)
      BY <1>5, <3>3
    <3>6. IF i = 0 THEN volume' = Original ELSE Restores(requests'[i])
      BY <1>2, <1>5, <3>3, <3>5
    <3>7. \A j \in 1..Len(requests') :
            j > i /\ requests'[j].api = "SetVolume" => Restores(requests'[j])
      BY <1>5, <1>8, <3>3, <3>4
    <3> QED
      BY <3>5, <3>6, <3>7 DEF WillRestore
  <2> QED
    BY <2>1, <2>2, <2>3
<1> QED
  BY <1>6, <1>9, <1>10, <1>11, <1>12 DEF VolumeInv

\* An answer to what is waited for decides the call; any other is ignored.
LEMMA ResponseOK ==
  ASSUME VolumeInv, Response
  PROVE  VolumeInv'
<1>1. VolumeTyped /\ RequestsOK /\ VerifyOK /\ MainOK
  BY DEF VolumeInv
<1>2. PICK a \in answers :
        /\ answers' = answers \ {a}
        /\ IF a.id = waiting
           THEN IF a.ok /\ (call = "confirm" => a.volume = Target)
                THEN GoesRight(a.volume) ELSE GoesWrong
           ELSE UNCHANGED <<call, waiting, identity, changed, played, raised, errors>>
        /\ UNCHANGED <<requests, outside>>
  BY DEF Response
<1>3. UNCHANGED <<requests, outside, volume>> /\ answers' \subseteq answers
  BY <1>2 DEF outside
<1>4. CASE a.id # waiting
  <2>1. UNCHANGED <<call, waiting, identity, changed, played, raised, errors>>
    BY <1>2, <1>4
  <2>2. VolumeTyped'
    BY <1>1, <1>3, <2>1 DEF VolumeTyped, outside
  <2>3. RequestsOK'
    BY <1>1, <1>3, <2>1 DEF RequestsOK, Api
  <2>4. VerifyOK'
    BY <1>1, <1>3, <2>1 DEF VerifyOK
  <2>5. MainOK'
    BY <1>1, <1>3, <2>1 DEF MainOK
  <2>6. RestoreOK'
    BY <1>3, <2>1 DEF VolumeInv, RestoreOK, RestoreCalled, WillRestore, outside
  <2> QED
    BY <2>2, <2>3, <2>4, <2>5, <2>6 DEF VolumeInv
<1>5. CASE a.id = waiting
  <2>1. waiting # 0
    BY <1>1, <1>5 DEF VolumeTyped, Answered
  <2>2. call # "over"
    BY <1>1, <2>1 DEF MainOK
  <2>3. call = "verify" => requests = <<>> /\ volume = a.volume
    BY <1>1, <1>5, <2>1 DEF VerifyOK
  <2>4. GoesRight(a.volume) \/ GoesWrong
    BY <1>2, <1>5
  <2>5. CASE GoesRight(a.volume)
    BY <1>3, <2>1, <2>2, <2>3, <2>5, GoesRightOK
  <2>6. CASE GoesWrong
    BY <1>3, <2>1, <2>6, GoesWrongOK
  <2> QED
    BY <2>4, <2>5, <2>6
<1> QED
  BY <1>4, <1>5

\* A signal: nothing is promised about the volume any more.
LEMMA SignalOK ==
  ASSUME VolumeInv, Interrupt \/ KillProbe
  PROVE  VolumeInv'
<1>1. VolumeTyped /\ RequestsOK /\ VerifyOK /\ MainOK
  BY DEF VolumeInv
<1>2. /\ UNCHANGED <<identity, changed, played, errors, requests, answers, volume, spurned>>
      /\ interrupted' = TRUE
      /\ \/ UNCHANGED <<call, waiting, raised>>
         \/ call' = "over" /\ waiting' = 0 /\ raised' = TRUE
  BY DEF Interrupt, KillProbe
<1>3. VolumeTyped'
  BY <1>1, <1>2 DEF VolumeTyped
<1>4. RequestsOK' /\ VerifyOK'
  <2>1. CASE UNCHANGED <<call, waiting, raised>>
    BY <1>1, <1>2, <2>1 DEF RequestsOK, VerifyOK, Api
  <2>2. CASE waiting' = 0
    BY <1>1, <1>2, <2>2, NothingAwaited
  <2> QED
    BY <1>2, <2>1, <2>2
<1>5. MainOK' /\ RestoreOK'
  BY <1>1, <1>2 DEF MainOK, RestoreOK
<1> QED
  BY <1>3, <1>4, <1>5 DEF VolumeInv

\* The invariant of the volume probe.
LEMMA VolumeInvariance == VolumeSpec => []VolumeInv
<1>1. VolumeInit => VolumeInv
  <2> SUFFICES ASSUME VolumeInit PROVE VolumeInv
    OBVIOUS
  <2>1. requests = <<>> /\ <<>> \in Seq(Requested) /\ Len(requests) = 0 /\ answers = {}
    BY EmptySeq DEF VolumeInit
  <2>2. VolumeTyped
    BY <2>1 DEF VolumeInit, VolumeTyped, TryCalls
  <2>3. RequestsOK /\ VerifyOK
    BY <2>1 DEF RequestsOK, VerifyOK
  <2>4. MainOK /\ RestoreOK
    BY DEF VolumeInit, MainOK, RestoreOK
  <2> QED
    BY <2>2, <2>3, <2>4 DEF VolumeInv
<1>2. VolumeInv /\ [VolumeNext]_volumeVars => VolumeInv'
  <2> SUFFICES ASSUME VolumeInv, [VolumeNext]_volumeVars PROVE VolumeInv'
    OBVIOUS
  <2>1. CASE Call
    BY <2>1, CallOK
  <2>2. CASE Response
    BY <2>2, ResponseOK
  <2>3. CASE TimeOut \/ InterruptedCall
    <3>1. /\ GoesWrong /\ UNCHANGED <<requests, outside>> /\ answers' \subseteq answers
          /\ waiting # 0 \/ interrupted
      BY <2>3 DEF TimeOut, InterruptedCall
    <3> QED
      BY <3>1, GoesWrongOK
  <2>4. ASSUME NEW obeys \in BOOLEAN, NEW ok \in BOOLEAN, NEW drops \in BOOLEAN,
               Serve(obeys, ok, drops)
        PROVE  VolumeInv'
    BY <2>4, ServeOK
  <2>5. CASE ToneEnds \/ UNCHANGED volumeVars
    <3>1. UNCHANGED <<call, waiting, identity, changed, played, raised, errors,
                      interrupted, requests, answers, volume, spurned>>
      BY <2>5 DEF ToneEnds, volumeVars
    <3> QED
      BY <3>1 DEF VolumeInv, VolumeTyped, RequestsOK, VerifyOK, MainOK, RestoreOK, RestoreCalled,
         WillRestore, Api
  <2>6. CASE Interrupt \/ KillProbe
    BY <2>6, SignalOK
  <2> QED
    BY <2>1, <2>2, <2>3, <2>4, <2>5, <2>6 DEF VolumeNext
<1> QED
  BY <1>1, <1>2, PTL DEF VolumeSpec

\* However slow, lost or refused the calls were: a probe that succeeds has put
\* the robot's volume back.
THEOREM SuccessRestores == VolumeSpec => []SuccessMeansRestored
<1>1. VolumeInv => SuccessMeansRestored
  BY DEF VolumeInv, MainOK, SuccessMeansRestored, Settled
<1> QED
  BY <1>1, VolumeInvariance, PTL

\* A volume that the probe knows it has changed is the original one in the end,
\* whatever failed since, unless a signal ended the probe or the request to
\* restore it was lost or not carried out.
THEOREM KnownChangeUndone == VolumeSpec => []KnownChangeIsUndone
<1>1. VolumeInv => KnownChangeIsUndone
  <2> SUFFICES ASSUME VolumeInv, Settled, changed, ~interrupted, ~spurned
               PROVE  volume = Original
    BY DEF KnownChangeIsUndone
  <2>1. WillRestore /\ Len(requests) = 0
    BY EmptySeq DEF VolumeInv, RestoreOK, RestoreCalled, Settled
  <2> QED
    BY <2>1 DEF WillRestore
<1> QED
  BY <1>1, VolumeInvariance, PTL
-----------------------------------------------------------------------------
(***************************************************************************)
(* The health contract                                                     *)
(***************************************************************************)

\* Whatever a bridge knows, and whatever the limits: what it builds passes the
\* validation of its robot's gateway.
THEOREM BuiltPasses == HealthSpec => []BuiltReportsPass
<1>1. HealthInit => BuiltReportsPass
  BY DEF HealthInit, BuiltReportsPass
<1>2. BuiltReportsPass /\ [HealthNext]_healthVars => BuiltReportsPass'
  <2> SUFFICES ASSUME BuiltReportsPass, [HealthNext]_healthVars PROVE BuiltReportsPass'
    OBVIOUS
  <2>1. CASE BuildG1
    <3>1. known' = known /\ IsG1(known) /\ G1Builds(known) /\ report' = G1Report(known)
      BY <2>1 DEF BuildG1
    <3>2. G1Level(known) \in 0..3
      BY DEF G1Level, OK, WARN, ERROR
    <3>3. G1Accepts(G1Report(known))
      BY <3>1, <3>2 DEF G1Accepts, G1Report, G1Builds
    <3> QED
      BY <3>1, <3>3 DEF BuiltReportsPass
  <2>2. CASE BuildGo2
    <3>1. known' = known /\ ~IsG1(known) /\ Go2Builds(known) /\ report' = Go2Report(known)
      BY <2>2 DEF BuildGo2
    <3>2. Go2Level(known) \in 0..3
      BY DEF Go2Level, OK, WARN, ERROR
    <3>3. Go2Accepts(Go2Report(known))
      BY <3>1, <3>2 DEF Go2Accepts, Go2Report, Go2Builds
    <3> QED
      BY <3>1, <3>3 DEF BuiltReportsPass
  <2>3. CASE UNCHANGED healthVars
    BY <2>3 DEF healthVars, BuiltReportsPass
  <2> QED
    BY <2>1, <2>2, <2>3 DEF HealthNext
<1> QED
  BY <1>1, <1>2, PTL DEF HealthSpec

-----------------------------------------------------------------------------
(***************************************************************************)
(* The microphone probe: any number of packets, late and lost ones         *)
(***************************************************************************)
MicTyped ==
  /\ missed \in Nat /\ lost \in Nat /\ received \in Nat
  /\ delay \in 0..Jitter /\ apart \in Int
  /\ gaps \in [Intervals -> Nat]

\* The span that an unbroken capture with the losses so far would have.
Due == (received - 1 + lost) * Period

\* Arrivals are apart by what was sent in between, but for the jitter at either
\* end; no interval is longer than its losses and one packet's jitter.
ArrivalsOK ==
  /\ received = 0 => lost = 0 /\ apart = 0
  /\ received > 0 => Due + delay - Jitter <= apart /\ apart <= Due + delay
  /\ \A v \in Intervals : gaps[v] > 0 => received > 1 /\ v <= (lost + 1) * Period + Jitter

MicInv == MicTyped /\ ArrivalsOK /\ ContinuousBoundsLoss

\* A packet moves the last arrival by the interval to it.
LEMMA ReceiveArrival ==
  ASSUME MicInv, NEW d \in 0..Jitter, NEW size \in BOOLEAN, Receive(d, size)
  PROVE  MicInv'
<1>1. MicTyped /\ ArrivalsOK /\ Period \in Nat /\ Jitter \in Nat
  BY MicProbeAssumption DEF MicInv
<1>2. /\ received' = received + 1 /\ delay' = d /\ missed' = 0
      /\ exit = Running /\ exit' = exit
  BY DEF Receive
<1>3. ContinuousBoundsLoss'
  BY <1>2 DEF ContinuousBoundsLoss, Running
<1>4. CASE received = 0
  <2>1. UNCHANGED <<gaps, apart, lost>> /\ lost = 0 /\ apart = 0
    BY <1>1, <1>4 DEF Receive, ArrivalsOK
  <2>2. ArrivalsOK'
    <3>1. Due' = 0
      <4>1. received' - 1 + lost' = 0
        BY <1>2, <1>4, <2>1
      <4> QED
        BY <1>1, <4>1 DEF Due
    <3>2. \A v \in Intervals : ~(gaps[v] > 0)
      BY <1>1, <1>4 DEF ArrivalsOK
    <3>3. received' = 1 /\ delay' = d /\ d \in 0..Jitter /\ apart' = 0
      BY <1>2, <1>4, <2>1
    <3>4. Due' + delay' - Jitter <= apart' /\ apart' <= Due' + delay'
      BY <1>1, <3>1, <3>3
    <3>5. ~(received' = 0) /\ \A v \in Intervals : ~(gaps'[v] > 0)
      BY <2>1, <3>2, <3>3
    <3> QED
      BY <3>4, <3>5 DEF ArrivalsOK
  <2> QED
    BY <1>1, <1>2, <1>3, <2>1, <2>2 DEF MicInv, MicTyped
<1>5. CASE received > 0
  <2>1. /\ gaps' = [gaps EXCEPT ![Interval(d)] = @ + 1]
        /\ apart' = apart + Interval(d)
        /\ lost' = lost + missed
    BY <1>5 DEF Receive
  <2>2. Interval(d) = (missed + 1) * Period + d - delay
    BY DEF Interval
  <2>3. missed \in Nat /\ lost \in Nat /\ received \in Nat /\ delay \in Int /\ delay >= 0 /\ apart \in Int
    BY <1>1 DEF MicTyped
  <2>4. (missed + 1) * Period \in Int
    BY <1>1, <2>3
  <2>5. Due' = Due + (missed + 1) * Period
    <3>1. received' - 1 + lost' = (received - 1 + lost) + (missed + 1)
      BY <1>2, <2>1, <2>3
    <3>2. \A x, y \in Int : (x + y) * Period = x * Period + y * Period
      BY <1>1
    <3>3. received - 1 + lost \in Int /\ missed + 1 \in Int
      BY <2>3
    <3>4. ((received - 1 + lost) + (missed + 1)) * Period =
            (received - 1 + lost) * Period + (missed + 1) * Period
      BY <3>2, <3>3
    <3> QED
      BY <3>1, <3>4 DEF Due
  <2>6. Due \in Int
    BY <1>1, <2>3 DEF Due
  <2>7. Due' + delay' - Jitter <= apart' /\ apart' <= Due' + delay'
    <3>1. Due + delay - Jitter <= apart /\ apart <= Due + delay
      BY <1>1, <1>5 DEF ArrivalsOK
    <3> DEFINE step == (missed + 1) * Period
    <3>2. /\ step \in Int /\ Due' = Due + step /\ apart' = apart + (step + d - delay)
          /\ d \in Int /\ Jitter \in Int
      BY <1>1, <2>1, <2>2, <2>4, <2>5
    <3> HIDE DEF step
    <3> QED
      BY <1>2, <2>3, <2>6, <3>1, <3>2
  <2>8. (missed + 1) * Period <= (lost' + 1) * Period
    <3>1. \A x, y \in Nat : x <= y => x * Period <= y * Period
      BY <1>1
    <3>2. missed + 1 \in Nat /\ lost' + 1 \in Nat /\ missed + 1 <= lost' + 1
      BY <2>1, <2>3
    <3> QED
      BY <3>1, <3>2
  <2>9. (lost + 1) * Period <= (lost' + 1) * Period
    <3>1. \A x, y \in Nat : x <= y => x * Period <= y * Period
      BY <1>1
    <3>2. lost + 1 \in Nat /\ lost' + 1 \in Nat /\ lost + 1 <= lost' + 1
      BY <2>1, <2>3
    <3> QED
      BY <3>1, <3>2
  <2>10. ASSUME NEW v \in Intervals, gaps'[v] > 0
         PROVE  received' > 1 /\ v <= (lost' + 1) * Period + Jitter
    <3>0. v \in Int /\ (lost' + 1) * Period \in Int /\ (lost + 1) * Period \in Int
      BY <1>1, <2>1, <2>3 DEF Intervals
    <3>1. received' > 1
      BY <1>2, <1>5, <2>3
    <3>2. CASE v = Interval(d)
      <4>1. v <= (missed + 1) * Period + Jitter
        BY <1>1, <2>2, <2>3, <2>4, <3>2
      <4> QED
        BY <1>1, <2>4, <2>8, <3>0, <3>1, <4>1
    <3>3. CASE v # Interval(d)
      <4>1. gaps[v] > 0
        BY <1>1, <2>1, <2>10, <3>3 DEF MicTyped
      <4>2. v <= (lost + 1) * Period + Jitter
        BY <1>1, <4>1 DEF ArrivalsOK
      <4> QED
        BY <1>1, <2>9, <3>0, <3>1, <4>2
    <3> QED
      BY <3>2, <3>3
  <2>11. ArrivalsOK'
    <3>1. received' # 0
      BY <1>2, <2>3
    <3> QED
      BY <2>7, <2>10, <3>1 DEF ArrivalsOK
  <2>12. MicTyped'
    <3>1. lost' \in Nat /\ received' \in Nat /\ missed' \in Nat /\ delay' \in 0..Jitter
      BY <1>2, <2>1, <2>3
    <3>2. apart' \in Int
      <4>1. Interval(d) \in Int
        BY <2>2, <2>3, <2>4
      <4> QED
        BY <2>1, <2>3, <4>1
    <3>3. gaps' \in [Intervals -> Nat]
      <4>1. gaps \in [Intervals -> Nat]
        BY <1>1 DEF MicTyped
      <4>2. \A v \in Intervals : gaps[v] + 1 \in Nat
        BY <4>1
      <4> QED
        BY <2>1, <4>1, <4>2
    <3> QED
      BY <3>1, <3>2, <3>3 DEF MicTyped
  <2> QED
    BY <1>3, <2>11, <2>12 DEF MicInv
<1> QED
  BY <1>1, <1>4, <1>5 DEF MicTyped

\* A verdict of continuity bounds the drift, and with it the loss.
LEMMA JudgedInBounds ==
  ASSUME MicInv, Judge
  PROVE  MicInv'
<1>1. MicTyped /\ ArrivalsOK /\ Period \in Nat /\ Jitter \in Nat
  BY MicProbeAssumption DEF MicInv
<1>2. UNCHANGED <<missed, lost, received, delay, gaps, apart>>
  BY DEF Judge
<1>3. MicTyped' /\ ArrivalsOK'
  BY <1>1, <1>2 DEF MicTyped, ArrivalsOK, Due
<1>4. ContinuousBoundsLoss'
  <2> SUFFICES ASSUME exit' = 0 PROVE 100 * (lost * Period - Jitter) <= Span
    BY <1>2 DEF ContinuousBoundsLoss, Span
  <2>1. received > 0 /\ Continuous
    BY <1>1 DEF Judge, Continuous
  <2>2. /\ received \in Int /\ lost \in Int /\ apart \in Int /\ delay \in Int /\ delay >= 0
        /\ Due - Jitter + delay <= apart
    BY <1>1, <2>1 DEF MicTyped, ArrivalsOK, Due
  <2>3. Drift = (apart + Period) - received * Period
    BY DEF Drift, Span
  <2>4. Due = received * Period - Period + lost * Period
    <3>1. \A x, y \in Int : (x - 1 + y) * Period = x * Period - Period + y * Period
      BY <1>1
    <3> QED
      BY <2>2, <3>1 DEF Due
  <2>5. received * Period \in Int /\ lost * Period \in Int
    BY <1>1, <2>2
  <2>6. lost * Period - Jitter <= Drift /\ Drift \in Int /\ Span \in Int
    BY <1>1, <2>2, <2>3, <2>4, <2>5 DEF Span
  <2>7. 100 * Drift <= Span
    BY <2>1, <2>6 DEF Continuous, Drifts
  <2> QED
    BY <1>1, <2>5, <2>6, <2>7
<1> QED
  BY <1>3, <1>4 DEF MicInv

\* What the microphone probe knows of the stream, in every state.
LEMMA MicInvariance == MicSpec => []MicInv
<1>1. MicInit => MicInv
  <2> SUFFICES ASSUME MicInit PROVE MicInv
    OBVIOUS
  <2>1. MicTyped
    BY MicProbeAssumption DEF MicInit, MicTyped
  <2>2. ArrivalsOK
    BY DEF MicInit, ArrivalsOK
  <2>3. ContinuousBoundsLoss
    BY DEF MicInit, ContinuousBoundsLoss, Running
  <2> QED
    BY <2>1, <2>2, <2>3 DEF MicInv
<1>2. MicInv /\ [MicNext]_micVars => MicInv'
  <2> SUFFICES ASSUME MicInv, [MicNext]_micVars PROVE MicInv'
    OBVIOUS
  <2>1. ASSUME NEW d \in 0..Jitter, NEW size \in BOOLEAN, Receive(d, size) PROVE MicInv'
    BY <2>1, ReceiveArrival
  <2>2. CASE Lose
    <3>1. missed' = missed + 1 /\ UNCHANGED <<lost, received, delay, gaps, apart, exit>>
      BY <2>2 DEF Lose
    <3> QED
      BY <3>1 DEF MicInv, MicTyped, ArrivalsOK, Due, ContinuousBoundsLoss, Span
  <2>3. CASE ReceiveUnexpected \/ UNCHANGED micVars
    <3>1. UNCHANGED <<missed, lost, received, delay, gaps, apart, exit>>
      BY <2>3 DEF ReceiveUnexpected, micVars
    <3> QED
      BY <3>1 DEF MicInv, MicTyped, ArrivalsOK, Due, ContinuousBoundsLoss, Span
  <2>4. CASE Judge
    BY <2>4, JudgedInBounds
  <2> QED
    BY <2>1, <2>2, <2>3, <2>4 DEF MicNext
<1> QED
  BY <1>1, <1>2, PTL DEF MicSpec

\* Exit code 0 bounds the loss, for any interval and any jitter that leaves the
\* packets in order.
THEOREM ContinuousIsBounded == MicSpec => []ContinuousBoundsLoss
<1>1. MicInv => ContinuousBoundsLoss
  BY DEF MicInv
<1> QED
  BY <1>1, MicInvariance, PTL

\* Jitter of up to half an interval is not taken for loss.
THEOREM NoLossNoHole ==
  ASSUME 2 * Jitter <= Period
  PROVE  MicSpec => []NoPhantomLoss
<1>1. MicInv => NoPhantomLoss
  <2> SUFFICES ASSUME MicInv, received >= 5, lost = 0, NEW v \in Intervals, IsHole(v)
               PROVE  FALSE
    BY DEF NoPhantomLoss, Holes
  <2>1. MicTyped /\ ArrivalsOK /\ Period \in Nat /\ Jitter \in Nat
    BY MicProbeAssumption DEF MicInv
  <2>2. Count \in Nat /\ Count >= 4 /\ apart \in Int /\ v \in Nat
    BY <2>1 DEF Count, MicTyped, Intervals
  <2>3. gaps[v] > 0 /\ 4 * v * Count > 7 * apart
    BY DEF IsHole
  <2>4. v <= Period + Jitter
    BY <2>1, <2>3 DEF ArrivalsOK
  <2>5. apart >= Count * Period - Jitter
    <3>1. Due = Count * Period
      BY <2>1 DEF Due, Count, MicTyped
    <3>2. Count * Period \in Int
      BY <2>1, <2>2
    <3> QED
      BY <2>1, <3>1, <3>2 DEF ArrivalsOK, MicTyped
  <2>6. 4 * v <= 6 * Period
    BY <2>1, <2>2, <2>4
  <2>7. 4 * v * Count <= 6 * (Count * Period)
    <3>1. \A x, y, n \in Nat : x <= y => x * n <= y * n
      OBVIOUS
    <3>2. 4 * v \in Nat /\ 6 * Period \in Nat
      BY <2>1, <2>2
    <3>3. (4 * v) * Count <= (6 * Period) * Count
      BY <2>2, <2>6, <3>1, <3>2
    <3>4. (6 * Period) * Count = 6 * (Count * Period)
      BY <2>1, <2>2
    <3> QED
      BY <3>3, <3>4
  <2>8. Count * Period >= 4 * Period
    <3>1. \A x, y, n \in Nat : x <= y => x * n <= y * n
      OBVIOUS
    <3> QED
      BY <2>1, <2>2, <3>1
  <2>9. Count * Period \in Int /\ 4 * v * Count \in Int
    BY <2>1, <2>2
  <2> DEFINE product == Count * Period
             scaled == 4 * v * Count
  <2>10. /\ product \in Int /\ scaled \in Int
         /\ scaled > 7 * apart /\ apart >= product - Jitter
         /\ scaled <= 6 * product /\ product >= 4 * Period
    BY <2>3, <2>5, <2>7, <2>8, <2>9
  <2> HIDE DEF product, scaled
  <2> QED
    BY <2>1, <2>2, <2>10
<1> QED
  BY <1>1, MicInvariance, PTL
-----------------------------------------------------------------------------
(***************************************************************************)
(* The discovery probe's summary: any frame length, any delays and losses  *)
(***************************************************************************)
SummaryTyped ==
  /\ stride \in {1, 2} /\ head \in Nat /\ skipped \in Nat /\ dropped \in Nat
  /\ lastArrival \in Int /\ count \in Nat \ {0} /\ lag \in Nat
  /\ steps \in [Steps -> Nat]

\* The last frame came after all that the source sent in between: one frame's
\* time for a step of 1, and at least two for any other.
TimeHasPassed == FrameTicks * (2 * Between - steps[1]) + lag <= lastArrival

\* Two steps together occur no more often than there are intervals.
StepsAdd == \A s, t \in Steps : s # t => steps[s] + steps[t] <= Between

\* Without losses the frames come at the source's times, but for their lateness.
Unbroken ==
  stride = 1 /\ dropped = 0 =>
    /\ skipped = 0
    /\ lastArrival - lag = head + Between * FrameTicks
    /\ steps[1] = Between

\* If moreover they are prompt, no interval is shorter than 0.7 of a frame, nor
\* longer than 1.3.
Prompt ==
  stride = 1 /\ dropped = 0 /\ ~tardy =>
    /\ 10 * lag <= 3 * FrameTicks
    /\ \A v \in ReceiveIntervals :
         /\ 10 * v < 7 * FrameTicks => within[v] = 0
         /\ 13 * FrameTicks < 10 * (v + 1) => within[v] = Between

SummaryInv ==
  /\ SummaryTyped
  /\ TimeHasPassed /\ StepsAdd
  /\ Unbroken /\ Prompt
  /\ QualifiedCaptureIsWhole

\* A set of natural numbers has a least one.
LEMMA LeastExists ==
  ASSUME NEW S, S \subseteq Nat, S # {}
  PROVE  \E x \in S : \A y \in S : x <= y
<1>1. \E R : IsWellFoundedOn(R, Nat) /\ \A x, y \in Nat : x < y => <<x, y>> \in R
  <2>1. \A x, y \in Nat : x < y => <<x, y>> \in OpToRel(<, Nat)
    BY DEF OpToRel
  <2> QED
    BY <2>1, NatLessThanWellFounded
<1>2. PICK R : IsWellFoundedOn(R, Nat) /\ \A x, y \in Nat : x < y => <<x, y>> \in R
  BY <1>1
<1>3. PICK x \in S : \A y \in S : ~(<<y, x>> \in R)
  <2>1. IsWellFoundedOn(R, Nat)
    BY <1>2
  <2> QED
    BY <2>1, WFMin
<1>4. \A y \in S : ~(y < x)
  BY <1>2, <1>3
<1> QED
  BY <1>4

\* A frame adds its step once, and its step's time to the last arrival.
LEMMA ArriveSummary ==
  ASSUME SummaryInv, NEW d \in Delays, NEW size \in BOOLEAN, Arrive(d, size)
  PROVE  SummaryInv'
<1> DEFINE ticks == NextStep * FrameTicks
<1>1. /\ stride \in {1, 2} /\ skipped \in Nat /\ count \in Nat \ {0} /\ lag \in Nat
      /\ lastArrival \in Int /\ steps \in [Steps -> Nat] /\ head \in Nat
  BY SummaryAssumption DEF SummaryInv, SummaryTyped
<1>2. FrameTicks \in Nat \ {0} /\ d \in Nat /\ 1 \in Steps
  BY SummaryAssumption DEF Steps
<1>3. NextStep \in Nat \ {0}
  <2>1. CASE stride = 1
    BY <1>1, <2>1 DEF NextStep
  <2>2. CASE stride = 2
    BY <1>1, <2>2 DEF NextStep
  <2> QED
    BY <1>1, <2>1, <2>2
<1>4. ticks \in Nat
  BY <1>2, <1>3
<1>5. Lateness(d) \in Nat /\ Lateness(d) >= lag - ticks
  BY <1>1, <1>2, <1>4 DEF Lateness
<1> HIDE DEF ticks
<1>6. /\ lag' = Lateness(d) /\ lastArrival' = lastArrival + (ticks + Lateness(d) - lag)
      /\ count' = count + 1
      /\ steps' = [steps EXCEPT ![NextStep] = @ + 1]
      /\ skipped' = 0 /\ UNCHANGED <<stride, head, dropped, verdict>> /\ verdict = "recording"
      /\ tardy' = (tardy \/ 10 * d > 3 * FrameTicks)
  BY DEF Arrive, ticks
<1>7. SummaryTyped'
  <2>1. \A s \in Steps : steps[s] + 1 \in Nat
    BY <1>1
  <2>2. steps' \in [Steps -> Nat]
    BY <1>1, <1>6, <2>1
  <2> QED
    BY <1>1, <1>4, <1>5, <1>6, <2>2 DEF SummaryTyped, SummaryInv
<1>8. Between' = Between + 1 /\ Between \in Nat
  BY <1>1, <1>6 DEF Between
<1>9. TimeHasPassed'
  <2> DEFINE due == 2 * Between - steps[1]
  <2>1. due \in Int /\ FrameTicks * due \in Int
    BY <1>1, <1>2, <1>8
  <2>2. FrameTicks * due + lag <= lastArrival
    BY DEF SummaryInv, TimeHasPassed
  <2>3. CASE NextStep = 1
    <3>1. steps'[1] = steps[1] + 1 /\ ticks = FrameTicks
      BY <1>1, <1>2, <1>6, <2>3 DEF ticks
    <3>2. due' = due + 1
      BY <1>1, <1>2, <1>8, <3>1
    <3>3. FrameTicks * (due + 1) = FrameTicks * due + FrameTicks
      BY <1>2, <2>1
    <3>4. FrameTicks * due' + lag' <= lastArrival'
      <4> HIDE DEF due
      <4> QED
        BY <1>1, <1>2, <1>5, <1>6, <2>1, <2>2, <3>1, <3>2, <3>3
    <3> QED
      BY <3>4 DEF TimeHasPassed
  <2>4. CASE NextStep # 1
    <3>1. steps'[1] = steps[1]
      BY <1>1, <1>2, <1>6, <2>4
    <3>2. due' = due + 2
      BY <1>1, <1>2, <1>8, <3>1
    <3>3. FrameTicks * (due + 2) = FrameTicks * due + 2 * FrameTicks
      BY <1>2, <2>1
    <3>4. ticks >= 2 * FrameTicks
      BY <1>2, <1>3, <2>4 DEF ticks
    <3>5. FrameTicks * due' + lag' <= lastArrival'
      <4> HIDE DEF due
      <4> QED
        BY <1>1, <1>2, <1>4, <1>5, <1>6, <2>1, <2>2, <3>2, <3>3, <3>4
    <3> QED
      BY <3>5 DEF TimeHasPassed
  <2> QED
    BY <2>3, <2>4
<1>10. StepsAdd'
  <2> SUFFICES ASSUME NEW s \in Steps, NEW t \in Steps, s # t
               PROVE  steps'[s] + steps'[t] <= Between'
    BY DEF StepsAdd, Steps
  <2>1. steps[s] + steps[t] <= Between
    BY DEF SummaryInv, StepsAdd
  <2>2. /\ steps'[s] = IF s = NextStep THEN steps[s] + 1 ELSE steps[s]
        /\ steps'[t] = IF t = NextStep THEN steps[t] + 1 ELSE steps[t]
    BY <1>1, <1>6
  <2> QED
    BY <1>1, <1>8, <2>1, <2>2
<1>11. QualifiedCaptureIsWhole'
  BY <1>6 DEF QualifiedCaptureIsWhole, QualifiedLostNothing, PromptIsNotRefused
<1>12. ASSUME stride = 1, dropped = 0
       PROVE  /\ ticks = FrameTicks /\ steps'[1] = steps[1] + 1
              /\ lastArrival - lag = head + Between * FrameTicks /\ steps[1] = Between
  <2>1. /\ skipped = 0 /\ lastArrival - lag = head + Between * FrameTicks
        /\ steps[1] = Between
    BY <1>12 DEF SummaryInv, Unbroken
  <2>2. NextStep = 1
    BY <1>12, <2>1 DEF NextStep
  <2> QED
    BY <1>1, <1>2, <1>6, <2>1, <2>2 DEF ticks
<1>13. Unbroken'
  <2> SUFFICES ASSUME stride' = 1, dropped' = 0
               PROVE  /\ lastArrival' - lag' = head' + Between' * FrameTicks
                      /\ steps'[1] = Between'
    BY <1>6 DEF Unbroken
  <2>1. (Between + 1) * FrameTicks = Between * FrameTicks + FrameTicks
    BY <1>2, <1>8
  <2>2. Between * FrameTicks \in Int
    BY <1>2, <1>8
  <2> QED
    BY <1>1, <1>2, <1>5, <1>6, <1>8, <1>12, <2>1, <2>2
<1>14. Prompt'
  <2> SUFFICES ASSUME stride' = 1, dropped' = 0, ~tardy'
               PROVE  /\ 10 * lag' <= 3 * FrameTicks
                      /\ \A v \in ReceiveIntervals :
                           /\ 10 * v < 7 * FrameTicks => within'[v] = 0
                           /\ 13 * FrameTicks < 10 * (v + 1) => within'[v] = Between'
    BY DEF Prompt, ReceiveIntervals
  <2>1. /\ 10 * lag <= 3 * FrameTicks /\ 10 * d <= 3 * FrameTicks
        /\ \A v \in ReceiveIntervals :
             /\ 10 * v < 7 * FrameTicks => within[v] = 0
             /\ 13 * FrameTicks < 10 * (v + 1) => within[v] = Between
    <3>1. ~tardy /\ ~(10 * d > 3 * FrameTicks)
      BY <1>6
    <3>2. 10 * d <= 3 * FrameTicks
      BY <1>2, <3>1
    <3> QED
      BY <1>6, <3>1, <3>2 DEF SummaryInv, Prompt
  <2>2. ticks = FrameTicks
    BY <1>6, <1>12
  <2>3. Lateness(d) = d
    BY <1>1, <1>2, <2>1, <2>2 DEF Lateness, ticks
  <2> DEFINE interval == ticks + Lateness(d) - lag
  <2>4. interval \in Int /\ 7 * FrameTicks <= 10 * interval /\ 10 * interval <= 13 * FrameTicks
    BY <1>1, <1>2, <2>1, <2>2, <2>3
  <2>5. within' = [v \in ReceiveIntervals |-> IF interval <= v THEN within[v] + 1 ELSE within[v]]
    BY DEF Arrive, ticks
  <2> HIDE DEF interval
  <2>6. ASSUME NEW v \in ReceiveIntervals
        PROVE  /\ 10 * v < 7 * FrameTicks => within'[v] = 0
               /\ 13 * FrameTicks < 10 * (v + 1) => within'[v] = Between'
    <3>1. v \in Int /\ within'[v] = IF interval <= v THEN within[v] + 1 ELSE within[v]
      BY <2>5 DEF ReceiveIntervals
    <3>2. 10 * v < 7 * FrameTicks => ~(interval <= v)
      BY <1>2, <2>4, <3>1
    <3>3. 13 * FrameTicks < 10 * (v + 1) => interval <= v
      BY <1>2, <2>4, <3>1
    <3> QED
      BY <1>8, <2>1, <3>1, <3>2, <3>3
  <2> QED
    BY <1>6, <2>1, <2>3, <2>6
<1> QED
  BY <1>7, <1>9, <1>10, <1>11, <1>13, <1>14 DEF SummaryInv

\* Of prompt frames without losses, every quantile is within 0.3 of a frame.
LEMMA RankedPrompt ==
  ASSUME SummaryInv, stride = 1, dropped = 0, ~tardy, NEW k \in 1..Between
  PROVE  /\ Ranked(k) \in Int
         /\ 7 * FrameTicks <= 10 * Ranked(k) /\ 10 * Ranked(k) <= 13 * FrameTicks
<1> DEFINE S == {v \in ReceiveIntervals : within[v] >= k}
           longest == (13 * FrameTicks) \div 10
<1>1. FrameTicks \in Nat \ {0} /\ MaxDropped \in Nat /\ MaxDelay \in Nat /\ Between \in Int
  BY SummaryAssumption DEF SummaryInv, SummaryTyped, Between
<1>2. longest \in Nat /\ 10 * longest <= 13 * FrameTicks /\ 13 * FrameTicks < 10 * (longest + 1)
  BY <1>1
<1> HIDE DEF longest
<1>3. ReceiveIntervals \subseteq Nat /\ longest \in ReceiveIntervals
  <2>1. longest <= 2 * FrameTicks
    BY <1>1, <1>2
  <2>2. 2 * (MaxDropped + 1) * FrameTicks = 2 * MaxDropped * FrameTicks + 2 * FrameTicks
    BY <1>1
  <2>3. 2 * MaxDropped * FrameTicks \in Nat
    BY <1>1
  <2>4. longest <= 2 * (MaxDropped + 1) * FrameTicks + MaxDelay
    BY <1>1, <1>2, <2>1, <2>2, <2>3
  <2> QED
    BY <1>1, <1>2, <2>4 DEF ReceiveIntervals
<1>4. \A v \in ReceiveIntervals :
        /\ 10 * v < 7 * FrameTicks => within[v] = 0
        /\ 13 * FrameTicks < 10 * (v + 1) => within[v] = Between
  BY DEF SummaryInv, Prompt
<1>5. longest \in S
  BY <1>1, <1>2, <1>3, <1>4
<1>6. \E v \in S : \A u \in S : v <= u
  BY <1>3, <1>5, LeastExists
<1>7. /\ Ranked(k) \in ReceiveIntervals /\ within[Ranked(k)] >= k
      /\ \A u \in ReceiveIntervals : within[u] >= k => Ranked(k) <= u
  BY <1>6 DEF Ranked
<1>8. PICK rank \in ReceiveIntervals :
        /\ rank = Ranked(k) /\ within[rank] >= k
        /\ \A u \in ReceiveIntervals : within[u] >= k => rank <= u
  BY <1>7
<1>9. rank <= longest
  BY <1>5, <1>8
<1>10. 10 * rank < 7 * FrameTicks => within[rank] = 0
  BY <1>4
<1>11. ~(10 * rank < 7 * FrameTicks)
  BY <1>1, <1>8, <1>10
<1>12. rank \in Nat
  BY <1>3
<1> HIDE DEF S
<1> QED
  BY <1>1, <1>2, <1>8, <1>9, <1>11, <1>12

\* Of prompt frames without losses, a capture of the right length fits.
LEMMA PromptFits ==
  ASSUME SummaryInv, stride = 1, dropped = 0, ~tardy, ~otherSize,
         NEW elapsed \in Int, lastArrival <= elapsed, elapsed <= NextDue,
         elapsed >= MinDuration, 50 * head <= MinDuration
  PROVE  ObservationFits(elapsed)
<1>1. /\ FrameTicks \in Nat \ {0} /\ MinFrames \in Nat /\ MinFrames > 2 /\ MinDuration \in Nat
      /\ 50 * FrameTicks <= MinDuration /\ 50 * MinFrames * FrameTicks <= 49 * MinDuration
      /\ 1 \in Steps
  BY SummaryAssumption DEF Steps
<1>2. /\ count \in Nat \ {0} /\ lag \in Nat /\ lastArrival \in Int /\ head \in Nat
      /\ Between = count - 1
  BY DEF SummaryInv, SummaryTyped, Between
<1>3. skipped = 0 /\ lastArrival - lag = head + Between * FrameTicks /\ steps[1] = Between
  BY DEF SummaryInv, Unbroken
<1>4. Between * FrameTicks = count * FrameTicks - FrameTicks /\ count * FrameTicks \in Int
  BY <1>1, <1>2
<1>5. NextDue = lastArrival - lag + FrameTicks
  BY <1>1, <1>3 DEF NextDue, NextStep
<1>6. /\ elapsed <= head + count * FrameTicks
      /\ count * FrameTicks <= elapsed + FrameTicks
  BY <1>1, <1>2, <1>3, <1>4, <1>5
<1>7. 49 * elapsed <= 50 * (count * FrameTicks)
  BY <1>1, <1>2, <1>4, <1>6
<1>8. count >= MinFrames /\ count >= 49
  <2> DEFINE span == count * FrameTicks
  <2>1. 50 * span >= 49 * MinDuration
    BY <1>1, <1>4, <1>7
  <2>2. \A n \in Nat : n * FrameTicks <= span => n <= count
    BY <1>1, <1>2
  <2>3. MinFrames * FrameTicks <= span
    <3>1. MinFrames * FrameTicks \in Nat
          /\ 50 * MinFrames * FrameTicks = 50 * (MinFrames * FrameTicks)
      BY <1>1
    <3> HIDE DEF span
    <3> QED
      BY <1>1, <1>4, <2>1, <3>1 DEF span
  <2>4. 49 * FrameTicks <= span
    BY <1>1, <1>4, <2>1
  <2> QED
    BY <1>1, <2>2, <2>3, <2>4
<1>9. 100 * count * FrameTicks = 100 * (count * FrameTicks)
  BY <1>1, <1>2
<1>10. 98 * elapsed <= 100 * count * FrameTicks
  BY <1>4, <1>7, <1>9
<1>11. 100 * count * FrameTicks <= 102 * elapsed
  BY <1>1, <1>4, <1>6, <1>9
<1>12. /\ (Between + 1) \div 2 \in 1..Between /\ Between \div 2 + 1 \in 1..Between
       /\ (99 * Between + 99) \div 100 \in 1..Between /\ Between \in 1..Between
  BY <1>2, <1>8
<1>13. 7 * FrameTicks <= 5 * TwiceMedian /\ 5 * TwiceMedian <= 13 * FrameTicks
  <2> DEFINE low == (Between + 1) \div 2
             high == Between \div 2 + 1
  <2>1. /\ Ranked(low) \in Int
        /\ 7 * FrameTicks <= 10 * Ranked(low) /\ 10 * Ranked(low) <= 13 * FrameTicks
    BY <1>12, RankedPrompt
  <2>2. /\ Ranked(high) \in Int
        /\ 7 * FrameTicks <= 10 * Ranked(high) /\ 10 * Ranked(high) <= 13 * FrameTicks
    BY <1>12, RankedPrompt
  <2>3. TwiceMedian = Ranked(low) + Ranked(high)
    BY DEF TwiceMedian
  <2> HIDE DEF low, high
  <2> QED
    BY <1>1, <2>1, <2>2, <2>3
<1>14. Percentile(99) <= 4 * FrameTicks
  <2>1. Percentile(99) \in Int /\ 10 * Percentile(99) <= 13 * FrameTicks
    BY <1>12, RankedPrompt DEF Percentile
  <2> QED
    BY <1>1, <2>1
<1>15. Longest <= 5 * FrameTicks
  <2>1. Longest \in Int /\ 10 * Longest <= 13 * FrameTicks
    BY <1>12, RankedPrompt DEF Longest
  <2> QED
    BY <1>1, <2>1
<1>16. NoStepOutliers
  BY <1>1, <1>3 DEF NoStepOutliers
<1> QED
  BY <1>8, <1>10, <1>11, <1>13, <1>14, <1>15, <1>16 DEF ObservationFits

\* Equal steps that are not 1 make the rate half of what the profile expects; and
\* what is refused does not fit.
LEMMA JudgedWhole ==
  ASSUME SummaryInv, NEW elapsed, EndCapture(elapsed), elapsed \in Int
  PROVE  SummaryInv'
<1>1. /\ UNCHANGED <<stride, head, lastArrival, count, lag, steps, within, otherSize, tardy,
                    skipped, dropped>>
      /\ verdict' = "qualifies" => ObservationFits(elapsed)
      /\ verdict' = "refused" => elapsed >= MinDuration /\ ~ObservationFits(elapsed)
      /\ lastArrival <= elapsed /\ elapsed <= NextDue
  BY DEF EndCapture
<1>2. /\ count \in Nat \ {0} /\ lag \in Nat /\ lastArrival \in Int
      /\ steps \in [Steps -> Nat] /\ Between \in Nat
  BY DEF SummaryInv, SummaryTyped, Between
<1>3. FrameTicks \in Nat \ {0} /\ MinFrames \in Nat /\ MinFrames > 2 /\ 1 \in Steps
  BY SummaryAssumption DEF Steps
<1>4. ASSUME ObservationFits(elapsed), NEW s \in Steps, s # 1 PROVE steps[s] = 0
  <2>1. PICK mode \in Steps : steps[mode] = Between
    BY <1>4 DEF ObservationFits, NoStepOutliers
  <2>2. mode = 1
    <3> SUFFICES ASSUME mode # 1 PROVE FALSE
      OBVIOUS
    <3>1. steps[1] = 0
      <4>1. steps[mode] + steps[1] <= Between
        BY <1>3, <2>1 DEF SummaryInv, StepsAdd
      <4> QED
        BY <1>2, <1>3, <2>1, <4>1
    <3> DEFINE span == count * FrameTicks
    <3>2. FrameTicks * (2 * Between - steps[1]) = 2 * span - 2 * FrameTicks
      BY <1>2, <1>3, <3>1 DEF Between
    <3>3. span \in Int /\ span >= 3 * FrameTicks
      BY <1>2, <1>3, <1>4 DEF ObservationFits
    <3>4. 98 * elapsed <= 100 * span
      BY <1>2, <1>3, <1>4 DEF ObservationFits
    <3>5. 2 * span - 2 * FrameTicks + lag <= lastArrival
      BY <3>2 DEF SummaryInv, TimeHasPassed
    <3> HIDE DEF span
    <3> QED
      BY <1>1, <1>2, <1>3, <3>3, <3>4, <3>5
  <2>3. steps[1] + steps[s] <= Between
    BY <1>3, <1>4 DEF SummaryInv, StepsAdd
  <2> QED
    BY <1>2, <1>3, <2>1, <2>2, <2>3
<1>5. QualifiedLostNothing'
  BY <1>1, <1>4 DEF QualifiedLostNothing, Steps
<1>6. PromptIsNotRefused'
  <2> SUFFICES ASSUME verdict' = "refused", ~(stride > 1), ~(dropped > 0), ~otherSize, ~tardy,
                      ~(50 * head > MinDuration)
               PROVE  FALSE
    BY <1>1 DEF PromptIsNotRefused
  <2>1. stride = 1 /\ dropped = 0 /\ 50 * head <= MinDuration
    BY SummaryAssumption DEF SummaryInv, SummaryTyped
  <2> QED
    BY <1>1, <2>1, PromptFits
<1>7. SummaryTyped' /\ TimeHasPassed' /\ StepsAdd' /\ Unbroken' /\ Prompt'
  BY <1>1 DEF SummaryInv, SummaryTyped, TimeHasPassed, StepsAdd, Unbroken, Prompt, Between,
     Steps, ReceiveIntervals
<1> QED
  BY <1>5, <1>6, <1>7 DEF SummaryInv, QualifiedCaptureIsWhole

(***************************************************************************)
(* What qualifies a profile has lost nothing, however the transport delays *)
(* frames, drops single ones or keeps every second one only; and whatever  *)
(* lost nothing and was prompt, the first frame included, qualifies if it  *)
(* is long enough.                                                         *)
(***************************************************************************)
THEOREM QualifiedIsWhole == SummarySpec => []QualifiedCaptureIsWhole
<1>1. SummaryInit => SummaryInv
  <2> SUFFICES ASSUME SummaryInit PROVE SummaryInv
    OBVIOUS
  <2>1. /\ FrameTicks \in Nat \ {0} /\ 1 \in Steps
        /\ steps = [s \in Steps |-> 0] /\ count = 1 /\ lag = 0 /\ lastArrival = head
        /\ within = [v \in ReceiveIntervals |-> 0]
        /\ head \in Nat /\ verdict = "recording" /\ skipped = 0
    BY SummaryAssumption DEF SummaryInit, Steps
  <2>2. SummaryTyped
    BY <2>1 DEF SummaryInit, SummaryTyped
  <2>3. Between = 0 /\ steps[1] = 0
    BY <2>1 DEF Between
  <2>4. TimeHasPassed /\ Unbroken
    BY <2>1, <2>3 DEF TimeHasPassed, Unbroken
  <2>5. Prompt
    BY <2>1, <2>3 DEF Prompt
  <2>6. StepsAdd
    BY <2>1, <2>3 DEF StepsAdd
  <2>7. QualifiedCaptureIsWhole
    BY <2>1 DEF QualifiedCaptureIsWhole, QualifiedLostNothing, PromptIsNotRefused
  <2> QED
    BY <2>2, <2>4, <2>5, <2>6, <2>7 DEF SummaryInv
<1>2. SummaryInv /\ [SummaryNext]_summaryVars => SummaryInv'
  <2> SUFFICES ASSUME SummaryInv, [SummaryNext]_summaryVars PROVE SummaryInv'
    OBVIOUS
  <2>1. ASSUME NEW d \in Delays, NEW size \in BOOLEAN, Arrive(d, size) PROVE SummaryInv'
    BY <2>1, ArriveSummary
  <2>2. CASE Drop
    <3>1. /\ UNCHANGED <<stride, head, lastArrival, count, lag, steps, within, tardy, verdict>>
          /\ dropped' = dropped + 1 /\ skipped' = skipped + 1 /\ verdict = "recording"
          /\ dropped \in Nat /\ skipped \in Nat
      BY <2>2 DEF Drop, SummaryInv, SummaryTyped
    <3>2. SummaryTyped' /\ TimeHasPassed' /\ StepsAdd'
      BY <3>1 DEF SummaryInv, SummaryTyped, TimeHasPassed, StepsAdd, Between, Steps
    <3>3. Unbroken' /\ Prompt'
      BY <3>1 DEF Unbroken, Prompt
    <3>4. QualifiedCaptureIsWhole'
      BY <3>1 DEF QualifiedCaptureIsWhole, QualifiedLostNothing, PromptIsNotRefused
    <3> QED
      BY <3>2, <3>3, <3>4 DEF SummaryInv
  <2>3. ASSUME NEW elapsed \in lastArrival..NextDue, EndCapture(elapsed) PROVE SummaryInv'
    BY <2>3, JudgedWhole
  <2>4. CASE UNCHANGED summaryVars
    BY <2>4 DEF summaryVars, SummaryInv, SummaryTyped, TimeHasPassed, StepsAdd, Unbroken, Prompt,
       Between, QualifiedCaptureIsWhole, QualifiedLostNothing, PromptIsNotRefused, Steps,
       ReceiveIntervals
  <2> QED
    BY <2>1, <2>2, <2>3, <2>4 DEF SummaryNext
<1>3. SummaryInv => QualifiedCaptureIsWhole
  BY DEF SummaryInv
<1> QED
  BY <1>1, <1>2, <1>3, PTL DEF SummarySpec
=============================================================================
