----------------------- MODULE Go2SpeakerBridgeProofs -----------------------
(***************************************************************************)
(* Theorems about Go2SpeakerBridge, for every set of chunks, every length  *)
(* of utterances and blocks and every deadline:                            *)
(*   TypeCorrect           TypeOK holds.                                   *)
(*   BufferIsHead          the assembler holds one utterance without holes.*)
(*   PlaysWholeUtterances  the robot's complete files are utterances.      *)
(*   FollowsUpload         node and robot agree how far an upload is.      *)
(*   CompletedReceived     the counter of uploads is right but for one.    *)
(*   FailClosed            the node implements FailClosedClient.           *)
(*                                                                         *)
(* None of them but the second is inductive.  What the robot holds follows *)
(* from the number of the request in flight and whether that one reached   *)
(* it, and this is kept only because a plan is always the plan of a head   *)
(* (UploadOK needs AssemblerOK) and because an answer has the identity of  *)
(* a request the robot has heard, so that a late one is never taken for    *)
(* the one awaited (RequestOK).  The two halves are proved together.       *)
(***************************************************************************)
EXTENDS Go2SpeakerBridge, TLAPS, SequenceTheorems

-----------------------------------------------------------------------------
(***************************************************************************)
(* Utterances, their WAV files and upload plans                            *)
(***************************************************************************)

\* The head of a stream is a sequence of samples.
LEMMA HeadIsSeq ==
  ASSUME NEW s \in Streams, NEW n \in Nat
  PROVE  /\ HeadOf(s, n) \in Seq(Sample) /\ Len(HeadOf(s, n)) = n
         /\ \A i \in 1..n : HeadOf(s, n)[i] = <<s, i - 1>>
<1>1. HeadOf(s, n) \in [1..n -> Sample]
  BY DEF HeadOf, Sample
<1>2. HeadOf(s, n) \in Seq(Sample)
  BY <1>1, SeqDef
<1> QED
  BY <1>1, <1>2, LenProperties DEF HeadOf

\* The next samples of a stream make its head longer.
LEMMA HeadGrows ==
  ASSUME NEW s \in Streams, NEW n \in Nat, NEW m \in Nat,
         NEW p \in Seq(Sample), Len(p) = m, \A i \in 1..m : p[i] = <<s, n + i - 1>>
  PROVE  HeadOf(s, n) \o p = HeadOf(s, n + m)
<1>1. /\ HeadOf(s, n) \in Seq(Sample) /\ Len(HeadOf(s, n)) = n
      /\ \A i \in 1..n : HeadOf(s, n)[i] = <<s, i - 1>>
  BY HeadIsSeq
<1>2. n + m \in Nat
  OBVIOUS
<1>3. /\ HeadOf(s, n + m) \in Seq(Sample) /\ Len(HeadOf(s, n + m)) = n + m
      /\ \A i \in 1..(n + m) : HeadOf(s, n + m)[i] = <<s, i - 1>>
  BY <1>2, HeadIsSeq
<1>4. /\ HeadOf(s, n) \o p \in Seq(Sample)
      /\ Len(HeadOf(s, n) \o p) = n + m
      /\ \A i \in 1..(n + m) : (HeadOf(s, n) \o p)[i] =
           IF i <= n THEN HeadOf(s, n)[i] ELSE p[i - n]
  BY <1>1, ConcatProperties
<1>5. ASSUME NEW i \in 1..(n + m)
      PROVE  (HeadOf(s, n) \o p)[i] = <<s, i - 1>>
  <2>1. CASE i <= n
    BY <1>1, <1>4, <2>1
  <2>2. CASE ~(i <= n)
    <3>1. i - n \in 1..m /\ n + (i - n) - 1 = i - 1
      BY <2>2
    <3>2. (HeadOf(s, n) \o p)[i] = p[i - n]
      BY <1>4, <2>2
    <3> QED
      BY <3>1, <3>2
  <2> QED
    BY <2>1, <2>2
<1> QED
  BY <1>3, <1>4, <1>5, SeqEqual

\* The samples of a chunk.
LEMMA PcmIsSeq ==
  ASSUME NEW c \in Chunk
  PROVE  /\ Pcm(c) \in Seq(Sample) /\ Len(Pcm(c)) = c.len
         /\ \A i \in 1..c.len : Pcm(c)[i] = <<c.sid, c.off + i - 1>>
<1>1. c.len \in Nat /\ c.off \in Nat /\ c.sid \in Streams
  BY DEF Chunk
<1>2. \A i \in 1..c.len : c.off + i - 1 \in Nat
  BY <1>1
<1>3. Pcm(c) \in [1..c.len -> Sample]
  BY <1>1, <1>2 DEF Pcm, Sample
<1>4. Pcm(c) \in Seq(Sample)
  BY <1>1, <1>3, SeqDef
<1>5. Len(Pcm(c)) = c.len
  BY <1>1, <1>3, <1>4, LenProperties
<1> QED
  BY <1>4, <1>5 DEF Pcm

\* Samples and headers are the units of a WAV file, and it has one at least.
LEMMA WavIsSeq ==
  ASSUME NEW pcm \in Seq(Sample)
  PROVE  Wav(pcm) \in Seq(Unit) /\ Len(Wav(pcm)) = Len(pcm) + 1
<1>1. pcm \in Seq(Unit) /\ Len(pcm) \in Nat
  BY SeqMonotonic, LenProperties DEF Unit
<1>2. <<Header(Len(pcm))>> \in Seq(Unit) /\ Len(<<Header(Len(pcm))>>) = 1
  BY <1>1 DEF Header, Unit
<1> QED
  BY <1>1, <1>2, ConcatProperties DEF Wav

\* How many blocks a file has: all of them but the last are full.
LEMMA BlockCount ==
  ASSUME NEW n \in Nat \ {0}
  PROVE  /\ CeilDiv(n, BlockLen) \in Nat \ {0}
         /\ (CeilDiv(n, BlockLen) - 1) * BlockLen < n
         /\ n <= CeilDiv(n, BlockLen) * BlockLen
<1> DEFINE q == CeilDiv(n, BlockLen)
<1>1. BlockLen \in Nat \ {0}
  BY SpeakerAssumption
<1>2. /\ q \in Int
      /\ n + BlockLen - 1 = BlockLen * q + ((n + BlockLen - 1) % BlockLen)
      /\ (n + BlockLen - 1) % BlockLen \in 0..(BlockLen - 1)
  BY <1>1 DEF CeilDiv
<1> HIDE DEF q
<1>3. (q - 1) * BlockLen = BlockLen * q - BlockLen /\ q * BlockLen = BlockLen * q
  BY <1>1, <1>2
<1>4. BlockLen * q \in Int
  BY <1>1, <1>2
<1>5. (q - 1) * BlockLen < n /\ n <= q * BlockLen
  BY <1>1, <1>2, <1>3, <1>4
<1>6. q > 0
  <2>1. SUFFICES ASSUME q <= 0 PROVE FALSE
    BY <1>2
  <2>2. BlockLen * q <= 0
    BY <1>1, <1>2, <2>1
  <2> QED
    BY <1>3, <1>4, <1>5, <2>2
<1> QED
  BY <1>2, <1>5, <1>6 DEF q

\* Where block i of a file of n units begins and ends.
End(n, i) == IF i * BlockLen < n THEN i * BlockLen ELSE n

LEMMA BlockBounds ==
  ASSUME NEW n \in Nat \ {0}, NEW i \in 1..CeilDiv(n, BlockLen)
  PROVE  /\ (i - 1) * BlockLen \in 0..n /\ End(n, i) \in (i - 1) * BlockLen .. n
         /\ End(n, i - 1) = (i - 1) * BlockLen
         /\ i = CeilDiv(n, BlockLen) => End(n, i) = n
<1> DEFINE q == CeilDiv(n, BlockLen)
           before == (i - 1) * BlockLen
<1>1. /\ q \in Nat \ {0} /\ (q - 1) * BlockLen < n /\ n <= q * BlockLen
      /\ BlockLen \in Nat \ {0}
  BY BlockCount, SpeakerAssumption
<1>2. i \in 1..q
  OBVIOUS
<1> HIDE DEF q
<1>3. before \in Nat /\ before <= (q - 1) * BlockLen
  BY <1>1, <1>2
<1>4. (q - 1) * BlockLen \in Nat
  BY <1>1
<1>5. i * BlockLen = before + BlockLen
  BY <1>1, <1>2
<1>6. i = q => n <= before + BlockLen
  BY <1>1, <1>5
<1>7. before < n
  BY <1>1, <1>3, <1>4
<1>8. End(n, i) = IF before + BlockLen < n THEN before + BlockLen ELSE n
  BY <1>5 DEF End
<1>9. End(n, i - 1) = before
  BY <1>7 DEF End
<1> HIDE DEF before
<1>10. before \in 0..n /\ End(n, i) \in before .. n /\ (i = q => End(n, i) = n)
  BY <1>1, <1>3, <1>6, <1>7, <1>8
<1> QED
  BY <1>9, <1>10 DEF before, q

\* What block i of a file carries.
Block(wav, i) ==
  [api |-> UploadBlock, content |-> SubSeq(wav, (i - 1) * BlockLen + 1, End(Len(wav), i)),
   last |-> i = CeilDiv(Len(wav), BlockLen)]

\* A plan opens the upload and then sends the blocks of the utterance's file.
LEMMA PlanShape ==
  ASSUME NEW pcm \in Seq(Sample), NEW k \in Nat \ {0}, k = CeilDiv(Len(Wav(pcm)), BlockLen)
  PROVE  /\ Plan(pcm) \in Seq(Request) /\ Len(Plan(pcm)) = k + 1
         /\ Plan(pcm)[1] = [api |-> StartUpload, content |-> <<>>, last |-> FALSE]
         /\ \A i \in 1..k : Plan(pcm)[i + 1] = Block(Wav(pcm), i)
<1> DEFINE wav == Wav(pcm)
           first == [api |-> StartUpload, content |-> <<>>, last |-> FALSE]
           rest == [i \in 1..k |-> Block(wav, i)]
<1>1. wav \in Seq(Unit) /\ Len(wav) = Len(pcm) + 1 /\ Len(pcm) \in Nat
  BY WavIsSeq, LenProperties
<1>2. ASSUME NEW i \in 1..k
      PROVE  Block(wav, i) \in Request
  <2> DEFINE a == (i - 1) * BlockLen + 1
             b == End(Len(wav), i)
  <2>1. (i - 1) * BlockLen \in 0..Len(wav) /\ b \in (i - 1) * BlockLen .. Len(wav)
    BY <1>1, BlockBounds
  <2>2. a \in Int /\ b \in Int /\ \A j \in a..b : j \in 1..Len(wav)
    BY <1>1, <2>1
  <2> HIDE DEF a, b
  <2>3. \A j \in a..b : wav[j] \in Unit
    BY <1>1, <2>2, ElementOfSeq
  <2>4. SubSeq(wav, a, b) \in Seq(Unit)
    BY <2>2, <2>3, SubSeqProperties
  <2> QED
    BY <2>4 DEF Block, Request, a, b
<1>3. rest \in [1..k -> Request]
  BY <1>2
<1>4. rest \in Seq(Request)
  BY <1>3, SeqDef
<1>5. Len(rest) = k
  BY <1>3, <1>4, LenProperties
<1>6. first \in Request
  BY EmptySeq DEF Request
<1>7. <<first>> \in Seq(Request) /\ Len(<<first>>) = 1
  BY <1>6
<1>8. Plan(pcm) = <<first>> \o rest
  BY DEF Plan, Block, End
<1> HIDE DEF first, rest
<1>9. /\ Plan(pcm) \in Seq(Request) /\ Len(Plan(pcm)) = k + 1
      /\ \A i \in 1..k + 1 : Plan(pcm)[i] = IF i <= 1 THEN <<first>>[i] ELSE rest[i - 1]
  BY <1>4, <1>5, <1>7, <1>8, ConcatProperties
<1>10. ASSUME NEW i \in 1..k
       PROVE  Plan(pcm)[i + 1] = Block(wav, i)
  <2>1. i + 1 \in 1..k + 1 /\ ~(i + 1 <= 1) /\ (i + 1) - 1 = i
    OBVIOUS
  <2>2. Plan(pcm)[i + 1] = rest[i]
    BY <1>9, <2>1
  <2> QED
    BY <2>2 DEF rest
<1>11. Plan(pcm)[1] = first
  BY <1>9
<1> QED
  BY <1>9, <1>10, <1>11 DEF first

\* A robot that holds the first blocks holds one more after the next, none after
\* the opening request, and the whole file after the last.
LEMMA BlocksAppend ==
  ASSUME NEW wav \in Seq(Unit), NEW n \in Nat \ {0}, Len(wav) = n,
         NEW i \in 1..CeilDiv(n, BlockLen)
  PROVE  /\ FirstBlocks(wav, 0) = <<>>
         /\ FirstBlocks(wav, i - 1) \o Block(wav, i).content = FirstBlocks(wav, i)
         /\ i = CeilDiv(n, BlockLen) => FirstBlocks(wav, i) = wav
<1> DEFINE a == (i - 1) * BlockLen
           b == End(n, i)
<1>1. a \in 0..n /\ b \in a..n /\ End(n, i - 1) = a /\ (i = CeilDiv(n, BlockLen) => b = n)
  BY BlockBounds
<1>2. /\ FirstBlocks(wav, i - 1) = SubSeq(wav, 1, a)
      /\ FirstBlocks(wav, i) = SubSeq(wav, 1, b)
      /\ Block(wav, i).content = SubSeq(wav, a + 1, b)
  BY <1>1 DEF FirstBlocks, End, Block
<1>3. FirstBlocks(wav, 0) = <<>>
  <2>1. 0 * BlockLen = 0
    BY SpeakerAssumption
  <2>2. FirstBlocks(wav, 0) = SubSeq(wav, 1, 0)
    BY <2>1 DEF FirstBlocks
  <2> QED
    BY <2>2, SubSeqEmpty
<1> HIDE DEF a, b
<1>4. SubSeq(wav, 1, a) \o SubSeq(wav, a + 1, b) = SubSeq(wav, 1, b)
  <2>1. 1 \in 1..Len(wav) + 1 /\ a \in 1 - 1 .. Len(wav) /\ b \in a..Len(wav)
    BY <1>1
  <2> QED
    BY <2>1, ConcatAdjacentSubSeq
<1>5. b = n => SubSeq(wav, 1, b) = wav
  BY SubSeqFull
<1> QED
  BY <1>1, <1>2, <1>3, <1>4, <1>5

-----------------------------------------------------------------------------
(***************************************************************************)
(* The inductive invariant                                                 *)
(***************************************************************************)

\* The assembler holds the head of the open stream, within its bound.
AssemblerOK ==
  /\ guard \in Guard
  /\ BufferIsUtteranceHead
  /\ guard.sid # NoStream => guard.off \in 1..MaxUtterance

\* The request in flight, if there is one, is the last that was published; only
\* what reached the robot is answered.
RequestOK ==
  /\ identity \in Nat
  /\ inflight \in [id: Nat, api: {0, StartUpload, UploadBlock}, age: Nat]
  /\ inflight # NoRequest => inflight.id = identity
  /\ heard \subseteq 1..identity
  /\ answers \subseteq [id: heard, outcome: Outcomes]

\* The request in flight has reached the robot, whether or not it was answered.
Reached == inflight # NoRequest /\ inflight.id \in heard

\* The robot holds what was answered of a WAV file, and the block it was given
\* last if that is the one in flight.
RobotHolds(wav) ==
  IF Reached THEN robotWav = FirstBlocks(wav, nextIndex - 1)
  ELSE nextIndex > 1 => robotWav = FirstBlocks(wav, nextIndex - 2)

\* The plan being sent is that of one utterance.
Uploads(s, n) ==
  /\ requests = Plan(HeadOf(s, n))
  /\ nextIndex \in 1..Len(requests)
  /\ RobotHolds(Wav(HeadOf(s, n)))

UploadOK ==
  /\ robotWav \in Seq(Unit)
  /\ IF requests = <<>> THEN nextIndex = 1 /\ inflight = NoRequest
     ELSE \E s \in Streams, n \in 1..MaxUtterance : Uploads(s, n)

\* The robot's complete files, and how many of them were counted.
ReceivedLast == Reached /\ nextIndex = Len(requests)

FilesOK ==
  /\ robotDone \in Seq(Seq(Unit))
  /\ RobotPlaysWholeUtterances
  /\ completed \in Nat
  /\ Len(robotDone) \in {completed, completed + 1}
  /\ ReceivedLast => Len(robotDone) = completed + 1
  /\ fault = NoFault /\ ~ReceivedLast => Len(robotDone) = completed

\* What the request in flight means for the counter of successes.
ClientOK ==
  /\ fault \in Faults
  /\ responsesOk \in Nat /\ responsesOk <= identity
  /\ inflight # NoRequest => responsesOk + 1 = identity
  /\ inflight = NoRequest /\ fault = NoFault => responsesOk = identity

Inv == AssemblerOK /\ RequestOK /\ UploadOK /\ FilesOK /\ ClientOK

\* An accepted chunk completes a longer head of its stream.
LEMMA CollectedIsHead ==
  ASSUME AssemblerOK, NEW c \in Chunks, GuardAccepts(guard, c)
  PROVE  /\ c \in Chunk /\ c.sid \in Streams /\ c.sid # NoStream
         /\ c.off \in Nat /\ c.len \in Nat \ {0} /\ c.off + c.len \in Nat \ {0}
         /\ Collected(c) = HeadOf(c.sid, c.off + c.len)
         /\ Collected(c) \in Seq(Sample) /\ Len(Collected(c)) = c.off + c.len
<1>1. /\ c \in Chunk /\ c.sid \in Streams /\ c.sid # NoStream
      /\ c.off \in Nat /\ c.len \in Nat \ {0}
  BY SpeakerAssumption, NoStreamAssumption DEF Chunk
<1>2. (IF c.start THEN <<>> ELSE buffer) = HeadOf(c.sid, c.off)
  <2>1. CASE c.start
    <3>1. c.off = 0
      BY <2>1 DEF GuardAccepts
    <3>2. HeadOf(c.sid, 0) \in Seq(Sample) /\ Len(HeadOf(c.sid, 0)) = 0
      BY <1>1, HeadIsSeq
    <3>3. HeadOf(c.sid, 0) = <<>>
      BY <3>2, EmptySeq
    <3> QED
      BY <2>1, <3>1, <3>3
  <2>2. CASE ~c.start
    <3>1. guard.sid = c.sid /\ guard.off = c.off
      BY <2>2 DEF GuardAccepts, GuardOpened
    <3> QED
      BY <1>1, <2>2, <3>1 DEF AssemblerOK, BufferIsUtteranceHead
  <2> QED
    BY <2>1, <2>2
<1>3. /\ Pcm(c) \in Seq(Sample) /\ Len(Pcm(c)) = c.len
      /\ \A i \in 1..c.len : Pcm(c)[i] = <<c.sid, c.off + i - 1>>
  BY <1>1, PcmIsSeq
<1>4. c.len \in Nat
  BY <1>1
<1>5. HeadOf(c.sid, c.off) \o Pcm(c) = HeadOf(c.sid, c.off + c.len)
  BY <1>1, <1>3, <1>4, HeadGrows
<1>6. Collected(c) = HeadOf(c.sid, c.off + c.len)
  BY <1>2, <1>5 DEF Collected
<1>7. c.off + c.len \in Nat \ {0}
  BY <1>1
<1>8. /\ HeadOf(c.sid, c.off + c.len) \in Seq(Sample)
      /\ Len(HeadOf(c.sid, c.off + c.len)) = c.off + c.len
  BY <1>1, <1>7, HeadIsSeq
<1> QED
  BY <1>1, <1>6, <1>7, <1>8

\* A reset assembler is empty.
LEMMA ResetOK ==
  ASSUME ResetAssembler
  PROVE  AssemblerOK'
BY DEF ResetAssembler, ResetGuard, AssemblerOK, Guard, BufferIsUtteranceHead

\* Collecting a chunk.
LEMMA CollectOK ==
  ASSUME AssemblerOK, NEW c \in Chunks, Collect(c)
  PROVE  AssemblerOK'
<1>1. /\ c \in Chunk /\ c.sid \in Streams /\ c.sid # NoStream
      /\ c.off + c.len \in Nat \ {0}
      /\ Collected(c) = HeadOf(c.sid, c.off + c.len)
      /\ Len(Collected(c)) = c.off + c.len
  BY CollectedIsHead DEF Collect
<1>2. guard' = [sid |-> c.sid, seq |-> c.seq + 1, off |-> c.off + c.len]
  BY DEF Collect, GuardAfter
<1>3. c.off + c.len <= MaxUtterance /\ buffer' = HeadOf(c.sid, c.off + c.len)
  BY <1>1 DEF Collect
<1>4. c.seq + 1 \in Nat
  BY <1>1 DEF Chunk
<1>5. guard' \in Guard
  BY <1>1, <1>2, <1>4 DEF Guard
<1>6. guard'.sid = c.sid /\ guard'.off = c.off + c.len
  BY <1>2
<1>7. guard'.off \in 1..MaxUtterance
  BY <1>1, <1>3, <1>6, SpeakerAssumption
<1>8. BufferIsUtteranceHead'
  BY <1>1, <1>3, <1>6 DEF BufferIsUtteranceHead
<1> QED
  BY <1>5, <1>7, <1>8 DEF AssemblerOK

\* What the plan of an utterance is made of.
LEMMA UploadPlan ==
  ASSUME NEW s \in Streams, NEW n \in 1..MaxUtterance, NEW wav, wav = Wav(HeadOf(s, n)),
         NEW k, k = CeilDiv(n + 1, BlockLen)
  PROVE  /\ HeadOf(s, n) \in Seq(Sample) /\ wav \in Seq(Unit) /\ Len(wav) = n + 1
         /\ k \in Nat \ {0}
         /\ Plan(HeadOf(s, n)) \in Seq(Request) /\ Len(Plan(HeadOf(s, n))) = k + 1
         /\ Plan(HeadOf(s, n))[1] = [api |-> StartUpload, content |-> <<>>, last |-> FALSE]
         /\ \A i \in 1..k : Plan(HeadOf(s, n))[i + 1] = Block(wav, i)
<1>1. n \in Nat
  BY SpeakerAssumption
<1>2. HeadOf(s, n) \in Seq(Sample) /\ Len(HeadOf(s, n)) = n
  BY <1>1, HeadIsSeq
<1>3. wav \in Seq(Unit) /\ Len(wav) = n + 1
  BY <1>2, WavIsSeq
<1>4. k \in Nat \ {0}
  BY <1>1, BlockCount
<1> QED
  BY <1>2, <1>3, <1>4, PlanShape

\* No plan is empty.
LEMMA PlanNotEmpty ==
  ASSUME NEW s \in Streams, NEW n \in 1..MaxUtterance
  PROVE  Plan(HeadOf(s, n)) # <<>> /\ 1 \in 1..Len(Plan(HeadOf(s, n)))
BY UploadPlan, EmptySeq

\* A new plan begins an upload.
LEMMA DeliverOK ==
  ASSUME AssemblerOK, UploadOK, NEW c \in Chunks, Deliver(c), ~Busy,
         UNCHANGED <<inflight, heard, robotWav>>
  PROVE  UploadOK'
<1>1. /\ c.sid \in Streams /\ c.off + c.len \in Nat \ {0}
      /\ Collected(c) = HeadOf(c.sid, c.off + c.len)
      /\ Len(Collected(c)) = c.off + c.len
  BY CollectedIsHead DEF Deliver
<1>2. c.off + c.len \in 1..MaxUtterance
  BY <1>1, SpeakerAssumption DEF Deliver
<1>3. requests' = Plan(HeadOf(c.sid, c.off + c.len)) /\ nextIndex' = 1
  BY <1>1 DEF Deliver
<1>4. inflight' = NoRequest
  BY DEF Busy
<1>5. requests' # <<>> /\ nextIndex' \in 1..Len(requests')
  BY <1>1, <1>2, <1>3, PlanNotEmpty
<1>6. Uploads(c.sid, c.off + c.len)'
  BY <1>3, <1>4, <1>5 DEF Uploads, RobotHolds, Reached
<1> QED
  BY <1>1, <1>2, <1>5, <1>6 DEF UploadOK

\* What the properties of requests, files and counters depend on.
LEMMA OthersUnchanged ==
  ASSUME Inv, UNCHANGED <<inflight, identity, heard, answers, robotWav, requests, nextIndex>>
  PROVE  RequestOK' /\ UploadOK' /\ (Reached' <=> Reached) /\ (ReceivedLast' <=> ReceivedLast)
<1>1. RequestOK'
  BY DEF Inv, RequestOK
<1>2. (Reached' <=> Reached) /\ (ReceivedLast' <=> ReceivedLast)
  BY DEF Reached, ReceivedLast
<1>3. \A wav : RobotHolds(wav) => RobotHolds(wav)'
  BY DEF RobotHolds, Reached
<1>4. \A s, n : Uploads(s, n) => Uploads(s, n)'
  BY <1>3 DEF Uploads
<1>5. UploadOK'
  BY <1>4 DEF Inv, UploadOK
<1> QED
  BY <1>1, <1>2, <1>5

\* The first fault is kept.
LEMMA LatchIsFault ==
  ASSUME fault \in Faults, NEW cause \in Faults \ {NoFault}, Latch(cause)
  PROVE  fault' \in Faults \ {NoFault}
BY DEF Latch

\* Receiving a chunk.
LEMMA OnSpeakerInv ==
  ASSUME Inv, NEW c \in Chunks, OnSpeaker(c)
  PROVE  Inv'
<1>1. /\ fault = NoFault /\ fault \in Faults
      /\ UNCHANGED <<inflight, completed, responsesOk, identity, robotWav, robotDone, heard, answers>>
  BY DEF OnSpeaker, robotVars, Inv, ClientOK
<1>2. ASSUME UNCHANGED <<requests, nextIndex>>, AssemblerOK', fault' \in Faults
      PROVE  Inv'
  <2>1. RequestOK' /\ UploadOK' /\ (ReceivedLast' <=> ReceivedLast)
    BY <1>1, <1>2, OthersUnchanged
  <2>2. FilesOK'
    BY <1>1, <2>1 DEF Inv, FilesOK, RobotPlaysWholeUtterances
  <2>3. ClientOK'
    BY <1>1, <1>2 DEF Inv, ClientOK
  <2> QED
    BY <1>2, <2>1, <2>2, <2>3 DEF Inv
<1>3. {"busy", "stream", "overflow"} \subseteq Faults \ {NoFault}
  BY DEF Faults, NoFault
<1>4. CASE Collect(c)
  BY <1>1, <1>2, <1>4, CollectOK DEF Inv, Collect
<1>5. CASE Deliver(c)
  <2>1. AssemblerOK'
    BY <1>5, ResetOK DEF Deliver
  <2>2. CASE Busy
    BY <1>1, <1>2, <1>3, <1>5, <2>1, <2>2, LatchIsFault DEF Deliver
  <2>3. CASE ~Busy
    <3>1. UploadOK' /\ fault' = fault
      BY <1>1, <1>5, <2>3, DeliverOK DEF Inv, Deliver
    <3>2. inflight' = NoRequest /\ inflight = NoRequest
      BY <1>1, <2>3 DEF Busy
    <3>3. RequestOK'
      BY <1>1 DEF Inv, RequestOK
    <3>4. ~ReceivedLast' /\ ~ReceivedLast
      BY <3>2 DEF ReceivedLast, Reached
    <3>5. FilesOK'
      BY <1>1, <3>1, <3>4 DEF Inv, FilesOK, RobotPlaysWholeUtterances
    <3>6. ClientOK'
      BY <1>1, <3>1 DEF Inv, ClientOK
    <3> QED
      BY <2>1, <3>1, <3>3, <3>5, <3>6 DEF Inv
  <2> QED
    BY <2>2, <2>3
<1>6. CASE RefuseChunk(c)
  BY <1>1, <1>2, <1>3, <1>6, ResetOK, LatchIsFault DEF RefuseChunk
<1>7. CASE RefuseLength(c)
  BY <1>1, <1>2, <1>3, <1>7, ResetOK, LatchIsFault DEF RefuseLength
<1> QED
  BY <1>4, <1>5, <1>6, <1>7 DEF OnSpeaker

\* A fault found in the upload ends it.
LEMMA LatchInv ==
  ASSUME Inv, NEW cause \in Faults \ {NoFault}, LatchTransaction(cause),
         UNCHANGED <<assemblerVars, completed, responsesOk, identity, robotVars>>
  PROVE  Inv'
<1>1. /\ requests' = <<>> /\ nextIndex' = 1 /\ inflight' = NoRequest
      /\ fault' \in Faults \ {NoFault}
      /\ UNCHANGED <<guard, buffer, completed, responsesOk, identity, robotWav, robotDone, heard, answers>>
  BY LatchIsFault DEF LatchTransaction, Inv, ClientOK, assemblerVars, robotVars
<1>2. AssemblerOK'
  BY <1>1 DEF Inv, AssemblerOK, BufferIsUtteranceHead
<1>3. RequestOK'
  BY <1>1 DEF Inv, RequestOK, NoRequest
<1>4. UploadOK'
  BY <1>1 DEF Inv, UploadOK
<1>5. ~ReceivedLast'
  BY <1>1 DEF ReceivedLast, Reached
<1>6. FilesOK'
  BY <1>1, <1>5 DEF Inv, FilesOK, RobotPlaysWholeUtterances
<1>7. ClientOK'
  BY <1>1 DEF Inv, ClientOK
<1> QED
  BY <1>2, <1>3, <1>4, <1>6, <1>7 DEF Inv

\* The next request of a plan, and how the robot's share of the file grows by it.
LEMMA RequestReceived ==
  ASSUME RequestOK, UploadOK, inflight = NoRequest, requests # <<>>
  PROVE  \E s \in Streams, n \in 1..MaxUtterance, k \in Nat \ {0} :
           LET wav == Wav(HeadOf(s, n))
               r == requests[nextIndex]
               content == IF r.api = StartUpload THEN <<>> ELSE robotWav \o r.content
           IN /\ requests = Plan(HeadOf(s, n)) /\ Len(requests) = k + 1
              /\ nextIndex \in 1..k + 1
              /\ nextIndex > 1 => robotWav = FirstBlocks(wav, nextIndex - 2)
              /\ r.api \in {StartUpload, UploadBlock}
              /\ content = FirstBlocks(wav, nextIndex - 1)
              /\ content \in Seq(Unit)
              /\ r.last <=> nextIndex = Len(requests)
              /\ r.last => content = wav
<1>1. PICK s \in Streams, n \in 1..MaxUtterance : Uploads(s, n)
  BY DEF UploadOK
<1> DEFINE wav == Wav(HeadOf(s, n))
           k == CeilDiv(n + 1, BlockLen)
           r == requests[nextIndex]
           content == IF r.api = StartUpload THEN <<>> ELSE robotWav \o r.content
<1>2. /\ HeadOf(s, n) \in Seq(Sample) /\ wav \in Seq(Unit) /\ Len(wav) = n + 1
      /\ k \in Nat \ {0} /\ n + 1 \in Nat \ {0} /\ Len(requests) = k + 1
      /\ requests[1] = [api |-> StartUpload, content |-> <<>>, last |-> FALSE]
      /\ \A i \in 1..k : requests[i + 1] = Block(wav, i)
  <2>1. requests = Plan(HeadOf(s, n)) /\ n + 1 \in Nat \ {0}
    BY <1>1, SpeakerAssumption DEF Uploads
  <2>2. HeadOf(s, n) \in Seq(Sample) /\ wav \in Seq(Unit) /\ Len(wav) = n + 1
    BY UploadPlan
  <2>3. k \in Nat \ {0}
    BY UploadPlan
  <2>4. Len(Plan(HeadOf(s, n))) = k + 1
    BY UploadPlan
  <2>5. Plan(HeadOf(s, n))[1] = [api |-> StartUpload, content |-> <<>>, last |-> FALSE]
    BY UploadPlan
  <2>6. \A i \in 1..k : Plan(HeadOf(s, n))[i + 1] = Block(wav, i)
    BY UploadPlan
  <2> HIDE DEF wav, k
  <2> QED
    BY <2>1, <2>2, <2>3, <2>4, <2>5, <2>6
<1>3. /\ requests = Plan(HeadOf(s, n)) /\ nextIndex \in 1..k + 1
      /\ nextIndex > 1 => robotWav = FirstBlocks(wav, nextIndex - 2)
  BY <1>1, <1>2 DEF Uploads, RobotHolds, Reached
<1>4. StartUpload # UploadBlock
  BY DEF StartUpload, UploadBlock
<1>5. /\ r.api \in {StartUpload, UploadBlock} /\ content = FirstBlocks(wav, nextIndex - 1)
      /\ content \in Seq(Unit)
      /\ (r.last <=> nextIndex = Len(requests)) /\ (r.last => content = wav)
  <2>1. CASE nextIndex = 1
    <3>1. r = [api |-> StartUpload, content |-> <<>>, last |-> FALSE]
      BY <1>2, <2>1
    <3>2. 1 \in 1..CeilDiv(n + 1, BlockLen)
      BY <1>2
    <3>3. FirstBlocks(wav, 0) = <<>>
      BY <1>2, <3>2, BlocksAppend
    <3>4. nextIndex # Len(requests)
      BY <1>2, <2>1
    <3> QED
      BY <2>1, <3>1, <3>3, <3>4
  <2>2. CASE nextIndex > 1
    <3> DEFINE i == nextIndex - 1
    <3>1. i \in 1..k /\ nextIndex = i + 1 /\ nextIndex - 2 = i - 1
      BY <1>3, <1>2, <2>2
    <3>2. r = Block(wav, i)
      BY <1>2, <3>1
    <3> HIDE DEF i
    <3>3. r.api = UploadBlock /\ (r.last <=> i = k)
      <4>1. r.api = UploadBlock /\ r.last = (i = CeilDiv(Len(wav), BlockLen))
        BY <3>2 DEF Block
      <4> QED
        BY <1>2, <4>1
    <3>4. robotWav = FirstBlocks(wav, i - 1)
      BY <1>3, <2>2, <3>1
    <3>5. /\ FirstBlocks(wav, i - 1) \o Block(wav, i).content = FirstBlocks(wav, i)
          /\ i = k => FirstBlocks(wav, i) = wav
      BY <1>2, <3>1, BlocksAppend
    <3>6. content = FirstBlocks(wav, i)
      BY <1>4, <3>2, <3>3, <3>4, <3>5
    <3>7. nextIndex = Len(requests) <=> i = k
      BY <1>2, <3>1
    <3>8. content \in Seq(Unit)
      <4>1. End(n + 1, i) \in Nat /\ End(n + 1, i) <= n + 1
        BY <1>2, <3>1, BlockBounds
      <4>2. FirstBlocks(wav, i) = SubSeq(wav, 1, End(n + 1, i))
        BY <1>2 DEF FirstBlocks, End
      <4> DEFINE e == End(n + 1, i)
      <4> HIDE DEF e, wav, content
      <4>3. 1 \in 1..Len(wav) + 1 /\ e \in (1 - 1)..Len(wav) /\ 1 \in Int /\ e \in Int
        BY <1>2, <4>1 DEF e
      <4>4. \A j \in 1..e : wav[j] \in Unit
        BY <1>2, <4>3, ElementOfSeq
      <4>5. SubSeq(wav, 1, e) \in Seq(Unit)
        BY <4>3, <4>4, SubSeqProperties
      <4> QED
        BY <3>6, <4>2, <4>5 DEF e
    <3>9. nextIndex - 1 = i
      BY DEF i
    <3> QED
      BY <3>3, <3>5, <3>6, <3>7, <3>8, <3>9
  <2> QED
    BY <1>3, <1>2, <2>1, <2>2
<1> HIDE DEF k, wav, r, content
<1>6. k \in Nat \ {0}
  BY <1>2
<1>7. WITNESS s \in Streams, n \in 1..MaxUtterance, k \in Nat \ {0}
<1> QED
  BY <1>2, <1>3, <1>5 DEF wav, r, content

\* Publishing a request, whether it reaches the robot or not.
LEMMA DispatchInv ==
  ASSUME Inv, TickDispatch
  PROVE  Inv'
<1> DEFINE r == requests[nextIndex]
           content == IF r.api = StartUpload THEN <<>> ELSE robotWav \o r.content
<1>1. /\ fault = NoFault /\ inflight = NoRequest /\ requests # <<>> /\ identity' = identity + 1
      /\ inflight' = [id |-> identity + 1, api |-> r.api, age |-> 0]
      /\ Deposit(r)
      /\ UNCHANGED <<guard, buffer, requests, nextIndex, completed, responsesOk, fault, answers>>
  BY DEF TickDispatch, assemblerVars
<1>2. PICK s \in Streams, n \in 1..MaxUtterance, k \in Nat \ {0} :
        LET wav == Wav(HeadOf(s, n))
        IN /\ requests = Plan(HeadOf(s, n)) /\ Len(requests) = k + 1
           /\ nextIndex \in 1..k + 1
           /\ nextIndex > 1 => robotWav = FirstBlocks(wav, nextIndex - 2)
           /\ r.api \in {StartUpload, UploadBlock}
           /\ content = FirstBlocks(wav, nextIndex - 1)
           /\ content \in Seq(Unit)
           /\ r.last <=> nextIndex = Len(requests)
           /\ r.last => content = wav
  BY <1>1, RequestReceived DEF Inv
<1> DEFINE wav == Wav(HeadOf(s, n))
<1>3. Deposit(r) = \/ /\ heard' = heard \cup {identity + 1}
                      /\ robotWav' = content
                      /\ robotDone' = IF r.last THEN Append(robotDone, robotWav') ELSE robotDone
                   \/ UNCHANGED <<heard, robotWav, robotDone>>
  BY DEF Deposit
<1> HIDE DEF content, r, wav
<1>4. identity \in Nat /\ identity + 1 \notin heard /\ heard \subseteq 1..identity
  BY DEF Inv, RequestOK
<1>5. inflight' # NoRequest /\ inflight'.id = identity + 1
  <2>1. inflight'.id = identity + 1 /\ NoRequest.id = 0
    BY <1>1 DEF NoRequest
  <2> QED
    BY <1>4, <2>1
<1>6. AssemblerOK'
  BY <1>1 DEF Inv, AssemblerOK, BufferIsUtteranceHead
<1>7. RequestOK'
  <2>1. heard' \subseteq 1..(identity + 1) /\ heard \subseteq heard'
    <3>1. heard \subseteq 1..(identity + 1) /\ identity + 1 \in 1..(identity + 1)
      BY <1>4
    <3>2. heard' = heard \cup {identity + 1} \/ heard' = heard
      BY <1>1, <1>3
    <3> QED
      BY <3>1, <3>2
  <2>2. answers' \subseteq [id: heard', outcome: Outcomes]
    BY <1>1, <2>1 DEF Inv, RequestOK
  <2>3. inflight' \in [id: Nat, api: {0, StartUpload, UploadBlock}, age: Nat]
    BY <1>1, <1>2, <1>4
  <2> QED
    BY <1>1, <1>4, <1>5, <2>1, <2>2, <2>3 DEF RequestOK
<1>8. ClientOK'
  BY <1>1, <1>4, <1>5 DEF Inv, ClientOK
<1>9. requests # <<>> /\ nextIndex \in 1..Len(requests)
  BY <1>1, <1>2
<1>10. robotDone \in Seq(Seq(Unit)) /\ completed \in Nat /\ Len(robotDone) = completed
       /\ RobotPlaysWholeUtterances
  BY <1>1 DEF Inv, FilesOK, ReceivedLast, Reached
<1>11. CASE UNCHANGED <<heard, robotWav, robotDone>>
  <2>1. ~Reached'
    BY <1>4, <1>5, <1>11 DEF Reached
  <2>2. RobotHolds(wav)'
    BY <1>1, <1>2, <1>11, <2>1 DEF RobotHolds, wav
  <2>3. Uploads(s, n)'
    BY <1>1, <1>2, <1>9, <2>2 DEF Uploads, wav
  <2>4. UploadOK'
    BY <1>1, <1>11, <2>3 DEF Inv, UploadOK
  <2>5. ~ReceivedLast'
    BY <2>1 DEF ReceivedLast
  <2>6. FilesOK'
    BY <1>1, <1>10, <1>11, <2>5 DEF FilesOK, RobotPlaysWholeUtterances
  <2> QED
    BY <1>6, <1>7, <1>8, <2>4, <2>6 DEF Inv
<1>12. CASE /\ heard' = heard \cup {identity + 1}
            /\ robotWav' = content
            /\ robotDone' = IF r.last THEN Append(robotDone, robotWav') ELSE robotDone
  <2>1. Reached'
    BY <1>5, <1>12 DEF Reached
  <2>2. RobotHolds(wav)'
    BY <1>1, <1>2, <1>12, <2>1 DEF RobotHolds, wav
  <2>3. Uploads(s, n)'
    BY <1>1, <1>2, <1>9, <2>2 DEF Uploads, wav
  <2>4. UploadOK'
    BY <1>1, <1>2, <1>12, <2>3 DEF UploadOK
  <2>5. ReceivedLast' <=> r.last
    BY <1>1, <1>2, <2>1 DEF ReceivedLast
  <2>6. CASE r.last
    <3>1. robotWav' \in Seq(Unit) /\ robotWav' = Wav(HeadOf(s, n))
      BY <1>2, <1>12, <2>6
    <3>2. /\ robotDone' \in Seq(Seq(Unit)) /\ Len(robotDone') = completed + 1
          /\ \A i \in 1..completed + 1 :
               robotDone'[i] = IF i = completed + 1 THEN robotWav' ELSE robotDone[i]
      <4> DEFINE file == robotWav'
      <4>1. file \in Seq(Unit) /\ robotDone' = Append(robotDone, file)
        BY <1>12, <2>6, <3>1
      <4> HIDE DEF file
      <4>2. /\ Append(robotDone, file) \in Seq(Seq(Unit))
            /\ Len(Append(robotDone, file)) = Len(robotDone) + 1
            /\ \A i \in 1..Len(robotDone) + 1 : Append(robotDone, file)[i] =
                 IF i <= Len(robotDone) THEN robotDone[i] ELSE file
        BY <1>10, <4>1, AppendProperties
      <4>3. \A i \in 1..completed + 1 : i <= completed <=> i # completed + 1
        BY <1>10
      <4> QED
        BY <1>10, <4>1, <4>2, <4>3 DEF file
    <3>3. ASSUME NEW i \in 1..completed + 1
          PROVE  \E t \in Streams, m \in 1..MaxUtterance : robotDone'[i] = Wav(HeadOf(t, m))
      <4>1. CASE i = completed + 1
        BY <3>1, <3>2, <4>1
      <4>2. CASE i # completed + 1
        <5>1. i \in DOMAIN robotDone
          BY <1>10, <4>2, LenProperties
        <5> QED
          BY <1>10, <3>2, <4>2, <5>1 DEF RobotPlaysWholeUtterances
      <4> QED
        BY <4>1, <4>2
    <3>4. DOMAIN robotDone' = 1..completed + 1
      BY <3>2, LenProperties
    <3>5. RobotPlaysWholeUtterances'
      BY <3>3, <3>4 DEF RobotPlaysWholeUtterances
    <3>6. FilesOK'
      BY <1>1, <1>10, <2>5, <2>6, <3>2, <3>5 DEF FilesOK
    <3> QED
      BY <1>6, <1>7, <1>8, <2>4, <3>6 DEF Inv
  <2>7. CASE ~r.last
    <3>1. FilesOK'
      BY <1>1, <1>10, <1>12, <2>5, <2>7 DEF FilesOK, RobotPlaysWholeUtterances
    <3> QED
      BY <1>6, <1>7, <1>8, <2>4, <3>1 DEF Inv
  <2> QED
    BY <2>6, <2>7
<1> QED
  BY <1>1, <1>3, <1>11, <1>12

\* Receiving an answer; only the one to the request in flight is regarded.
LEMMA OnResponseInv ==
  ASSUME Inv, NEW a \in answers, OnResponse(a)
  PROVE  Inv'
<1>1. /\ inflight # NoRequest /\ a.id = inflight.id /\ a.id \in heard /\ fault \in Faults
      /\ UNCHANGED <<guard, buffer, identity, robotWav, robotDone, heard, answers>>
  BY DEF OnResponse, Answers, assemblerVars, robotVars, Inv, RequestOK, ClientOK
<1>2. Reached
  BY <1>1 DEF Reached
<1>3. CASE a.outcome # "ok"
  <2>1. "response" \in Faults \ {NoFault}
    BY DEF Faults, NoFault
  <2> QED
    BY <1>3, <2>1, LatchInv DEF OnResponse
<1>4. CASE a.outcome = "ok"
  <2>1. /\ responsesOk' = responsesOk + 1 /\ inflight' = NoRequest /\ fault' = fault
        /\ IF nextIndex = Len(requests)
           THEN requests' = <<>> /\ nextIndex' = 1 /\ completed' = completed + 1
           ELSE nextIndex' = nextIndex + 1 /\ UNCHANGED <<requests, completed>>
    BY <1>4 DEF OnResponse
  <2>2. AssemblerOK'
    BY <1>1 DEF Inv, AssemblerOK, BufferIsUtteranceHead
  <2>3. RequestOK'
    BY <1>1, <2>1 DEF Inv, RequestOK, NoRequest
  <2>4. ClientOK'
    BY <1>1, <2>1 DEF Inv, RequestOK, ClientOK
  <2>5. ~Reached' /\ ~ReceivedLast'
    BY <2>1 DEF ReceivedLast, Reached
  <2>6. requests # <<>> /\ robotWav \in Seq(Unit)
    BY <1>1 DEF Inv, UploadOK
  <2>7. PICK s \in Streams, n \in 1..MaxUtterance : Uploads(s, n)
    BY <2>6 DEF Inv, UploadOK
  <2>8. /\ requests = Plan(HeadOf(s, n)) /\ nextIndex \in 1..Len(requests)
        /\ robotWav = FirstBlocks(Wav(HeadOf(s, n)), nextIndex - 1)
    BY <1>2, <2>7 DEF Uploads, RobotHolds
  <2>9. Len(requests) \in Nat
    <3>1. Len(Plan(HeadOf(s, n))) = CeilDiv(n + 1, BlockLen) + 1
      BY UploadPlan
    <3>2. CeilDiv(n + 1, BlockLen) \in Nat
      BY UploadPlan
    <3> QED
      BY <2>8, <3>1, <3>2
  <2>10. CASE nextIndex = Len(requests)
    <3>1. UploadOK'
      BY <1>1, <2>1, <2>6, <2>10 DEF UploadOK
    <3>2. Len(robotDone) = completed + 1
      BY <1>2, <2>10 DEF Inv, FilesOK, ReceivedLast
    <3>3. FilesOK'
      BY <1>1, <2>1, <2>5, <2>10, <3>2 DEF Inv, FilesOK, RobotPlaysWholeUtterances
    <3> QED
      BY <2>2, <2>3, <2>4, <3>1, <3>3 DEF Inv
  <2>11. CASE nextIndex # Len(requests)
    <3>1. /\ nextIndex' = nextIndex + 1 /\ requests' = requests /\ completed' = completed
          /\ nextIndex' \in 1..Len(requests) /\ nextIndex' - 2 = nextIndex - 1
      BY <2>1, <2>8, <2>9, <2>11
    <3>2. RobotHolds(Wav(HeadOf(s, n)))'
      BY <1>1, <2>5, <2>8, <3>1 DEF RobotHolds
    <3>3. Uploads(s, n)'
      BY <2>8, <3>1, <3>2 DEF Uploads
    <3>4. UploadOK'
      BY <1>1, <2>6, <3>1, <3>3 DEF UploadOK
    <3>5. ~ReceivedLast
      BY <2>11 DEF ReceivedLast
    <3>6. FilesOK'
      BY <1>1, <2>1, <2>5, <3>1, <3>5 DEF Inv, FilesOK, RobotPlaysWholeUtterances
    <3> QED
      BY <2>2, <2>3, <2>4, <3>4, <3>6 DEF Inv
  <2> QED
    BY <2>10, <2>11
<1> QED
  BY <1>3, <1>4

\* The robot answers, and time passes.
LEMMA EnvironmentInv ==
  ASSUME Inv,
         \/ \E id \in heard, outcome \in Outcomes : RobotAnswers(id, outcome)
         \/ Elapse
         \/ UNCHANGED vars
  PROVE  Inv'
<1>1. /\ UNCHANGED <<guard, buffer, requests, nextIndex, completed, responsesOk, identity,
                     fault, robotWav, robotDone, heard>>
      /\ (inflight' # NoRequest <=> inflight # NoRequest)
      /\ inflight' # NoRequest => inflight'.id = inflight.id
      /\ RequestOK'
  <2>1. CASE \E id \in heard, outcome \in Outcomes : RobotAnswers(id, outcome)
    BY <2>1 DEF RobotAnswers, assemblerVars, transactionVars, Inv, RequestOK
  <2>2. CASE Elapse
    <3>1. /\ inflight # NoRequest /\ inflight' = [inflight EXCEPT !.age = @ + 1]
          /\ UNCHANGED <<guard, buffer, requests, nextIndex, completed, responsesOk, identity,
                         fault, robotWav, robotDone, heard, answers>>
      BY <2>2 DEF Elapse, assemblerVars, robotVars
    <3>2. inflight \in [id: Nat, api: {0, StartUpload, UploadBlock}, age: Nat]
      BY DEF Inv, RequestOK
    <3>3. /\ inflight' \in [id: Nat, api: {0, StartUpload, UploadBlock}, age: Nat]
          /\ inflight'.id = inflight.id /\ inflight'.age = inflight.age + 1
      BY <3>1, <3>2
    <3>4. inflight' # NoRequest
      BY <3>2, <3>3 DEF NoRequest
    <3>5. RequestOK'
      BY <3>1, <3>3 DEF Inv, RequestOK
    <3> QED
      BY <3>1, <3>3, <3>4, <3>5
  <2>3. CASE UNCHANGED vars
    BY <2>3 DEF vars, assemblerVars, transactionVars, robotVars, Inv, RequestOK
  <2> QED
    BY <2>1, <2>2, <2>3
<1>2. (Reached' <=> Reached) /\ (ReceivedLast' <=> ReceivedLast)
  BY <1>1 DEF Reached, ReceivedLast
<1>3. AssemblerOK'
  BY <1>1 DEF Inv, AssemblerOK, BufferIsUtteranceHead
<1>4. UploadOK'
  <2>1. \A wav : RobotHolds(wav) => RobotHolds(wav)'
    BY <1>1, <1>2 DEF RobotHolds
  <2>2. \A s, n : Uploads(s, n) => Uploads(s, n)'
    BY <1>1, <2>1 DEF Uploads
  <2> QED
    BY <1>1, <2>2 DEF Inv, UploadOK
<1>5. FilesOK'
  BY <1>1, <1>2 DEF Inv, FilesOK, RobotPlaysWholeUtterances
<1>6. ClientOK'
  BY <1>1 DEF Inv, ClientOK
<1> QED
  BY <1>1, <1>3, <1>4, <1>5, <1>6 DEF Inv

\* The invariant holds at first.
LEMMA InitInv == Init => Inv
<1> SUFFICES ASSUME Init PROVE Inv
  OBVIOUS
<1>1. AssemblerOK
  BY DEF Init, ResetGuard, AssemblerOK, Guard, BufferIsUtteranceHead
<1>2. RequestOK
  BY DEF Init, RequestOK, NoRequest
<1>3. UploadOK
  BY EmptySeq DEF Init, UploadOK
<1>4. FilesOK
  <2>1. robotDone \in Seq(Seq(Unit)) /\ Len(robotDone) = 0 /\ DOMAIN robotDone = {}
    BY EmptySeq DEF Init
  <2> QED
    BY <2>1 DEF Init, FilesOK, ReceivedLast, Reached, RobotPlaysWholeUtterances
<1>5. ClientOK
  BY DEF Init, ClientOK, Faults
<1> QED
  BY <1>1, <1>2, <1>3, <1>4, <1>5 DEF Inv

\* Every step keeps it.
LEMMA NextInv == Inv /\ [Next]_vars => Inv'
<1> SUFFICES ASSUME Inv, [Next]_vars PROVE Inv'
  OBVIOUS
<1>1. ASSUME NEW c \in Chunks, OnSpeaker(c) PROVE Inv'
  BY <1>1, OnSpeakerInv
<1>2. CASE TickTimeout
  <2>1. "timeout" \in Faults \ {NoFault}
    BY DEF Faults, NoFault
  <2> QED
    BY <1>2, <2>1, LatchInv DEF TickTimeout
<1>3. CASE TickDispatch
  BY <1>3, DispatchInv
<1>4. ASSUME NEW a \in answers, OnResponse(a) PROVE Inv'
  BY <1>4, OnResponseInv
<1>5. CASE \/ \E id \in heard, outcome \in Outcomes : RobotAnswers(id, outcome)
           \/ Elapse
           \/ UNCHANGED vars
  BY <1>5, EnvironmentInv
<1> QED
  BY <1>1, <1>2, <1>3, <1>4, <1>5 DEF Next, Tick

\* The inductive invariant holds in every state.
LEMMA Invariance == Spec => []Inv
BY InitInv, NextInv, PTL DEF Spec

-----------------------------------------------------------------------------
(***************************************************************************)
(* The theorems                                                            *)
(***************************************************************************)

\* The type invariant holds in every state, the bound of the utterance buffer and
\* the index into the plan with it.
THEOREM TypeCorrect == Spec => []TypeOK
<1>1. Inv => TypeOK
  <2> SUFFICES ASSUME Inv PROVE TypeOK
    OBVIOUS
  <2>1. buffer \in Seq(Sample) /\ Len(buffer) <= MaxUtterance
    <3>1. CASE guard.sid = NoStream
      BY <3>1, EmptySeq, SpeakerAssumption DEF Inv, AssemblerOK, BufferIsUtteranceHead
    <3>2. CASE guard.sid # NoStream
      <4>1. guard.sid \in Streams /\ guard.off \in 1..MaxUtterance /\ guard.off \in Nat
        BY <3>2, SpeakerAssumption DEF Inv, AssemblerOK, Guard
      <4>2. buffer = HeadOf(guard.sid, guard.off)
        BY <3>2 DEF Inv, AssemblerOK, BufferIsUtteranceHead
      <4> QED
        BY <4>1, <4>2, HeadIsSeq
    <3> QED
      BY <3>1, <3>2
  <2>2. /\ requests \in Seq(Request)
        /\ nextIndex \in IF requests = <<>> THEN {1} ELSE 1..Len(requests)
    <3>1. CASE requests = <<>>
      BY <3>1, EmptySeq DEF Inv, UploadOK
    <3>2. CASE requests # <<>>
      <4>1. PICK s \in Streams, n \in 1..MaxUtterance : Uploads(s, n)
        BY <3>2 DEF Inv, UploadOK
      <4>2. Plan(HeadOf(s, n)) \in Seq(Request)
        BY UploadPlan
      <4> QED
        BY <3>2, <4>1, <4>2 DEF Uploads
    <3> QED
      BY <3>1, <3>2
  <2>3. /\ heard \subseteq Nat
        /\ answers \subseteq [id: Nat, outcome: Outcomes]
    <3>1. heard \subseteq 1..identity /\ answers \subseteq [id: heard, outcome: Outcomes]
      BY DEF Inv, RequestOK
    <3>2. heard \subseteq Nat
      BY <3>1
    <3> HIDE DEF Outcomes
    <3> QED
      BY <3>1, <3>2
  <2> QED
    BY <2>1, <2>2, <2>3 DEF Inv, TypeOK, AssemblerOK, RequestOK, UploadOK, FilesOK, ClientOK
<1> QED
  BY <1>1, Invariance, PTL

\* SpeakerStreamAssembler never holds samples of two utterances, nor one with a
\* hole: what it has is the head of the open stream up to its guard's offset.
THEOREM BufferIsHead == Spec => []BufferIsUtteranceHead
<1>1. Inv => BufferIsUtteranceHead
  BY DEF Inv, AssemblerOK
<1> QED
  BY <1>1, Invariance, PTL

\* Whatever requests and answers are lost, late or repeated, every file the robot
\* regards as complete is one utterance with all its samples in order.
THEOREM PlaysWholeUtterances == Spec => []RobotPlaysWholeUtterances
<1>1. Inv => RobotPlaysWholeUtterances
  BY DEF Inv, FilesOK
<1> QED
  BY <1>1, Invariance, PTL

\* AudioHubTransaction and the robot agree on what is uploaded and how far.
THEOREM FollowsUpload == Spec => []RobotFollowsUpload
<1>1. Inv => RobotFollowsUpload
  <2> SUFFICES ASSUME Inv, nextIndex > 1
               PROVE  \E s \in Streams, n \in 1..MaxUtterance :
                        /\ requests = Plan(HeadOf(s, n))
                        /\ \/ robotWav = FirstBlocks(Wav(HeadOf(s, n)), nextIndex - 2)
                           \/ /\ inflight # NoRequest
                              /\ robotWav = FirstBlocks(Wav(HeadOf(s, n)), nextIndex - 1)
    BY DEF RobotFollowsUpload
  <2>1. PICK s \in Streams, n \in 1..MaxUtterance : Uploads(s, n)
    BY DEF Inv, UploadOK
  <2>2. /\ requests = Plan(HeadOf(s, n))
        /\ \/ robotWav = FirstBlocks(Wav(HeadOf(s, n)), nextIndex - 2)
           \/ /\ inflight # NoRequest
              /\ robotWav = FirstBlocks(Wav(HeadOf(s, n)), nextIndex - 1)
    BY <2>1 DEF Uploads, RobotHolds, Reached
  <2> QED
    BY <2>2
<1> QED
  BY <1>1, Invariance, PTL

\* completed_total counts only files the robot has, and lags by one at most: the
\* file whose last answer is awaited or was lost to a fault.
THEOREM CompletedReceived == Spec => []CompletedMeansReceived
<1>1. Inv => CompletedMeansReceived
  <2> SUFFICES ASSUME Inv PROVE CompletedMeansReceived
    OBVIOUS
  <2>1. /\ completed \in Nat /\ Len(robotDone) \in {completed, completed + 1}
        /\ Len(robotDone) = completed + 1 => ReceivedLast \/ fault # NoFault
    BY DEF Inv, FilesOK
  <2> QED
    BY <2>1 DEF CompletedMeansReceived, ReceivedLast, Reached
<1> QED
  BY <1>1, Invariance, PTL

\* Every step of the node is a step of the fail-closed client or stutters.
LEMMA NextClient ==
  ASSUME Inv, [Next]_vars
  PROVE  [Client!ClientNext]_(Client!clientVars)
<1> DEFINE Stutter == UNCHANGED <<identity, responsesOk, fault # NoFault>>
<1>0. Stutter => [Client!ClientNext]_(Client!clientVars)
  BY DEF Client!clientVars
<1>1. /\ identity \in Nat /\ responsesOk \in Nat /\ responsesOk <= identity
      /\ inflight # NoRequest => responsesOk + 1 = identity
      /\ inflight = NoRequest /\ fault = NoFault => responsesOk = identity
  BY DEF Inv, RequestOK, ClientOK
<1>2. ASSUME NEW cause \in Faults \ {NoFault}, Latch(cause), UNCHANGED <<identity, responsesOk>>
      PROVE  [Client!ClientNext]_(Client!clientVars)
  <2>1. fault' # NoFault
    BY <1>2 DEF Latch
  <2>2. CASE fault = NoFault
    BY <1>1, <1>2, <2>1, <2>2 DEF Client!Fail, Client!ClientNext
  <2>3. CASE fault # NoFault
    BY <1>0, <1>2, <2>1, <2>3
  <2> QED
    BY <2>2, <2>3
<1>3. {"busy", "stream", "overflow", "timeout", "response"} \subseteq Faults \ {NoFault}
  BY DEF Faults, NoFault
<1>4. ASSUME NEW c \in Chunks, OnSpeaker(c)
      PROVE  [Client!ClientNext]_(Client!clientVars)
  <2>1. UNCHANGED <<identity, responsesOk>>
    BY <1>4 DEF OnSpeaker
  <2>2. \/ fault' = fault
        \/ \E cause \in {"busy", "stream", "overflow"} : Latch(cause)
    BY <1>4 DEF OnSpeaker, Collect, Deliver, RefuseChunk, RefuseLength
  <2> QED
    BY <1>0, <1>2, <1>3, <2>1, <2>2
<1>5. CASE TickTimeout
  BY <1>2, <1>3, <1>5 DEF TickTimeout, LatchTransaction
<1>6. CASE TickDispatch
  <2>1. /\ fault = NoFault /\ inflight = NoRequest
        /\ identity' = identity + 1 /\ UNCHANGED <<responsesOk, fault>>
    BY <1>6 DEF TickDispatch
  <2>2. Client!Ask
    BY <1>1, <2>1 DEF Client!Ask
  <2> QED
    BY <2>2 DEF Client!ClientNext
<1>7. ASSUME NEW a \in answers, OnResponse(a)
      PROVE  [Client!ClientNext]_(Client!clientVars)
  <2>1. inflight # NoRequest /\ identity' = identity
    BY <1>7 DEF OnResponse, Answers
  <2>2. CASE a.outcome # "ok"
    BY <1>2, <1>3, <1>7, <2>1, <2>2 DEF OnResponse, LatchTransaction
  <2>3. CASE a.outcome = "ok"
    <3>1. responsesOk' = responsesOk + 1 /\ fault' = fault
      BY <1>7, <2>3 DEF OnResponse
    <3>2. Client!Complete
      BY <1>1, <2>1, <3>1 DEF Client!Complete
    <3> QED
      BY <3>2 DEF Client!ClientNext
  <2> QED
    BY <2>2, <2>3
<1>8. CASE \/ \E id \in heard, outcome \in Outcomes : RobotAnswers(id, outcome)
           \/ Elapse
           \/ UNCHANGED vars
  <2>1. Stutter
    BY <1>8 DEF RobotAnswers, Elapse, vars, transactionVars
  <2> QED
    BY <1>0, <2>1
<1> QED
  BY <1>4, <1>5, <1>6, <1>7, <1>8 DEF Next, Tick

\* The node asks the AudioHub service for one thing at a time, the next only
\* after a success, and for nothing after its first fault, of whatever cause.
THEOREM FailClosed == Spec => IsFailClosedClient
<1>1. Init => Client!ClientInit
  BY DEF Init, Client!ClientInit
<1>2. Inv /\ [Next]_vars => [Client!ClientNext]_(Client!clientVars)
  BY NextClient
<1> QED
  BY <1>1, <1>2, Invariance, PTL DEF Spec, IsFailClosedClient, Client!ClientSpec
=============================================================================
