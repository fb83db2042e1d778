-------------------------- MODULE Go2SpeakerBridge --------------------------
(***************************************************************************)
(* The speaker half of the Go2 bridge node: SpeakerStreamAssembler, which  *)
(* collects one complete utterance, AudioHubTransaction, which uploads it  *)
(* request by request, and the node's callbacks with their common fault    *)
(* latch.  The node is single-threaded, so a callback is one action.       *)
(*                                                                         *)
(* A WAV file is its header, one unit that tells the number of samples,    *)
(* followed by the samples; a sample is <<stream, offset>>.  A published   *)
(* request reaches the robot or is lost; the robot's answer may be late,   *)
(* repeated, lost or wrong.                                                *)
(***************************************************************************)
EXTENDS StreamGuard, Sequences

CONSTANTS
  Chunks,       \* the chunks that may arrive
  MaxUtterance, \* the assembler's _max_bytes, in samples
  BlockLen,     \* raw_block_bytes, in units of the WAV file
  Timeout,      \* audiohub timeout_s, in time units
  MaxRequests   \* bound: requests published in a behaviour

ASSUME SpeakerAssumption ==
  /\ Chunks \subseteq Chunk
  /\ MaxUtterance \in Nat \ {0}
  /\ BlockLen \in Nat \ {0}
  /\ Timeout \in Nat
  /\ MaxRequests \in Nat

VARIABLES
  guard,        \* SpeakerStreamAssembler._guard
  buffer,       \* SpeakerStreamAssembler._buffer
  requests,     \* AudioHubTransaction._requests
  nextIndex,    \* AudioHubTransaction._next_index, counted from 1
  inflight,     \* AudioHubTransaction._inflight and _inflight_since, or NoRequest
  completed,    \* AudioHubTransaction.completed_total
  responsesOk,  \* AudioHubTransaction.responses_ok_total
  identity,     \* AudioHubTransaction._identity less its random seed
  fault,        \* the node's latched_fault, by its cause; NoFault when empty
  robotWav,     \* the robot: WAV units received since the last 4001
  robotDone,    \* the robot: complete WAV files received, oldest first
  heard,        \* the robot: identities of the requests that reached it
  answers       \* the robot: its answers, per request identity

assemblerVars == <<guard, buffer>>
transactionVars == <<requests, nextIndex, inflight, completed, responsesOk, identity>>
robotVars == <<robotWav, robotDone, heard, answers>>
vars == <<assemblerVars, transactionVars, fault, robotVars>>

NoFault == "none"
NoRequest == [id |-> 0, api |-> 0, age |-> 0]
StartUpload == 4001
UploadBlock == 4003

Sample == Streams \X Nat
Header(n) == <<NoStream, n>>
Unit == Sample \cup ({NoStream} \X Nat)

\* pcm_to_wav
Wav(pcm) == <<Header(Len(pcm))>> \o pcm
Request == [api: {StartUpload, UploadBlock}, content: Seq(Unit), last: BOOLEAN]
Outcomes == {"ok", "error", "wrongApi"}
Faults == {NoFault, "stream", "overflow", "busy", "timeout", "response"}

TypeOK ==
  /\ guard \in Guard
  /\ buffer \in Seq(Sample) /\ Len(buffer) <= MaxUtterance
  /\ requests \in Seq(Request)
  /\ nextIndex \in IF requests = <<>> THEN {1} ELSE 1..Len(requests)
  /\ inflight \in [id: Nat, api: {0, StartUpload, UploadBlock}, age: Nat]
  /\ completed \in Nat /\ responsesOk \in Nat /\ identity \in Nat
  /\ fault \in Faults
  /\ robotWav \in Seq(Unit)
  /\ robotDone \in Seq(Seq(Unit))
  /\ heard \subseteq Nat
  /\ answers \subseteq [id: Nat, outcome: Outcomes]

Init ==
  /\ guard = ResetGuard /\ buffer = <<>>
  /\ requests = <<>> /\ nextIndex = 1 /\ inflight = NoRequest
  /\ completed = 0 /\ responsesOk = 0 /\ identity = 0
  /\ fault = NoFault
  /\ robotWav = <<>> /\ robotDone = <<>> /\ heard = {} /\ answers = {}

-----------------------------------------------------------------------------
(***************************************************************************)
(* Collecting an utterance                                                 *)
(***************************************************************************)
Pcm(c) == [i \in 1..c.len |-> <<c.sid, c.off + i - 1>>]

\* Faulty variant: a replacement stream continues in the old buffer.
Collected_KeepsOld(c) == buffer \o Pcm(c)

\* accept(): a START empties the buffer, then the payload is appended.
Collected(c) == (IF c.start THEN <<>> ELSE buffer) \o Pcm(c)

CeilDiv(a, b) == (a + b - 1) \div b

\* Faulty variant: the samples are divided into blocks, not the WAV file.
Plan_DropsTail(pcm) ==
  LET wav == Wav(pcm)
      blocks == CeilDiv(Len(pcm), BlockLen)
  IN <<[api |-> StartUpload, content |-> <<>>, last |-> FALSE]>> \o
     [i \in 1..blocks |->
        [api |-> UploadBlock,
         content |-> SubSeq(wav, (i - 1) * BlockLen + 1,
                            IF i * BlockLen < Len(wav) THEN i * BlockLen ELSE Len(wav)),
         last |-> i = blocks]]

\* build_audiohub_plan: 4001, then one 4003 per block of the WAV file.  The
\* parameter numbers a block and gives their total: `last' is that comparison.
Plan(pcm) ==
  LET wav == Wav(pcm)
      blocks == CeilDiv(Len(wav), BlockLen)
  IN <<[api |-> StartUpload, content |-> <<>>, last |-> FALSE]>> \o
     [i \in 1..blocks |->
        [api |-> UploadBlock,
         content |-> SubSeq(wav, (i - 1) * BlockLen + 1,
                            IF i * BlockLen < Len(wav) THEN i * BlockLen ELSE Len(wav)),
         last |-> i = blocks]]

Busy == requests # <<>> \/ inflight # NoRequest

\* The assembler resets itself when it rejects and when it delivers a plan.
ResetAssembler == guard' = ResetGuard /\ buffer' = <<>>

Latch(cause) == fault' = (IF fault = NoFault THEN cause ELSE fault)

Collect(c) ==
  /\ GuardAccepts(guard, c)
  /\ Len(Collected(c)) <= MaxUtterance
  /\ ~c.end
  /\ guard' = GuardAfter(guard, c)
  /\ buffer' = Collected(c)
  /\ UNCHANGED <<requests, nextIndex, fault>>

\* Faulty variant: a finished utterance replaces the upload in progress.
Deliver_NotExclusive(c) ==
  /\ GuardAccepts(guard, c)
  /\ Len(Collected(c)) <= MaxUtterance
  /\ c.end
  /\ ResetAssembler
  /\ requests' = Plan(Collected(c))
  /\ nextIndex' = 1
  /\ UNCHANGED fault

\* END completes the plan; submit() refuses it while an upload is active.
Deliver(c) ==
  /\ GuardAccepts(guard, c)
  /\ Len(Collected(c)) <= MaxUtterance
  /\ c.end
  /\ ResetAssembler
  /\ IF Busy
     THEN Latch("busy") /\ UNCHANGED <<requests, nextIndex>>
     ELSE /\ requests' = Plan(Collected(c))
          /\ nextIndex' = 1
          /\ UNCHANGED fault

RefuseChunk(c) ==
  /\ ~GuardAccepts(guard, c)
  /\ ResetAssembler
  /\ Latch("stream")
  /\ UNCHANGED <<requests, nextIndex>>

RefuseLength(c) ==
  /\ GuardAccepts(guard, c)
  /\ Len(Collected(c)) > MaxUtterance
  /\ ResetAssembler
  /\ Latch("overflow")
  /\ UNCHANGED <<requests, nextIndex>>

\* on_speaker; a latched node ignores audio.
OnSpeaker(c) ==
  /\ fault = NoFault
  /\ Collect(c) \/ Deliver(c) \/ RefuseChunk(c) \/ RefuseLength(c)
  /\ UNCHANGED <<inflight, completed, responsesOk, identity, robotVars>>

-----------------------------------------------------------------------------
(***************************************************************************)
(* The upload                                                              *)
(***************************************************************************)

\* Faulty variant: the index is left at the request that failed.
LatchTransaction_KeepsIndex(cause) ==
  /\ requests' = <<>> /\ inflight' = NoRequest
  /\ Latch(cause)
  /\ UNCHANGED nextIndex

\* AudioHubTransaction._latch, always followed by the node's own latch.
LatchTransaction(cause) ==
  /\ requests' = <<>> /\ nextIndex' = 1 /\ inflight' = NoRequest
  /\ Latch(cause)

\* The request reaches the robot, or it is lost on the way.
Deposit(r) ==
  \/ /\ heard' = heard \cup {identity + 1}
     /\ robotWav' = IF r.api = StartUpload THEN <<>> ELSE robotWav \o r.content
     /\ robotDone' = IF r.last THEN Append(robotDone, robotWav') ELSE robotDone
  \/ UNCHANGED <<heard, robotWav, robotDone>>

\* Faulty variant: only the answer that opens an upload has a deadline.
TickTimeout_OnlyStart ==
  /\ fault = NoFault
  /\ inflight.api = StartUpload /\ inflight.age > Timeout
  /\ LatchTransaction("timeout")
  /\ UNCHANGED <<assemblerVars, completed, responsesOk, identity, robotVars>>

\* tick_audiohub: check_timeout latches an overdue request.
TickTimeout ==
  /\ fault = NoFault
  /\ inflight # NoRequest /\ inflight.age > Timeout
  /\ LatchTransaction("timeout")
  /\ UNCHANGED <<assemblerVars, completed, responsesOk, identity, robotVars>>

\* Faulty variant: an overdue request is sent again.
TickDispatch_Retries ==
  /\ fault = NoFault
  /\ requests # <<>>
  /\ inflight = NoRequest \/ inflight.age > Timeout
  /\ identity < MaxRequests
  /\ identity' = identity + 1
  /\ inflight' = [id |-> identity + 1, api |-> requests[nextIndex].api, age |-> 0]
  /\ Deposit(requests[nextIndex])
  /\ UNCHANGED <<assemblerVars, requests, nextIndex, completed, responsesOk, fault, answers>>

\* tick_audiohub: dispatch_next publishes the next request of the plan.
TickDispatch ==
  /\ fault = NoFault
  /\ inflight = NoRequest /\ requests # <<>>
  /\ identity < MaxRequests
  /\ identity' = identity + 1
  /\ inflight' = [id |-> identity + 1, api |-> requests[nextIndex].api, age |-> 0]
  /\ Deposit(requests[nextIndex])
  /\ UNCHANGED <<assemblerVars, requests, nextIndex, completed, responsesOk, fault, answers>>

Tick == TickTimeout \/ TickDispatch

\* Faulty variant: the identity of the answer is not compared.
Answers_AnyIdentity(a) == inflight # NoRequest

\* The answer is for the request in flight; any other is ignored.
Answers(a) == inflight # NoRequest /\ a.id = inflight.id

\* acknowledge() of the request in flight, and _finish() after the last one.
OnResponse(a) ==
  /\ Answers(a)
  /\ IF a.outcome # "ok"
     THEN /\ LatchTransaction("response")
          /\ UNCHANGED <<completed, responsesOk>>
     ELSE /\ responsesOk' = responsesOk + 1
          /\ inflight' = NoRequest
          /\ IF nextIndex = Len(requests)
             THEN requests' = <<>> /\ nextIndex' = 1 /\ completed' = completed + 1
             ELSE nextIndex' = nextIndex + 1 /\ UNCHANGED <<requests, completed>>
          /\ UNCHANGED fault
  /\ UNCHANGED <<assemblerVars, identity, robotVars>>

-----------------------------------------------------------------------------
(***************************************************************************)
(* The environment                                                         *)
(***************************************************************************)

\* The robot answers a request that reached it, once; the answer is delivered
\* any number of times, at any moment, or never.
RobotAnswers(id, outcome) ==
  /\ id \in heard
  /\ \A a \in answers : a.id # id
  /\ answers' = answers \cup {[id |-> id, outcome |-> outcome]}
  /\ UNCHANGED <<assemblerVars, transactionVars, fault, robotWav, robotDone, heard>>

Elapse ==
  /\ inflight # NoRequest /\ inflight.age <= Timeout
  /\ inflight' = [inflight EXCEPT !.age = @ + 1]
  /\ UNCHANGED <<assemblerVars, requests, nextIndex, completed, responsesOk,
                 identity, fault, robotVars>>

Next ==
  \/ \E c \in Chunks : OnSpeaker(c)
  \/ Tick
  \/ \E a \in answers : OnResponse(a)
  \/ \E id \in heard, outcome \in Outcomes : RobotAnswers(id, outcome)
  \/ Elapse

Spec == Init /\ [][Next]_vars

\* The 10 ms timer fires and steady time advances, whatever else happens.
FairSpec == Spec /\ WF_vars(Tick) /\ WF_vars(Elapse)
-----------------------------------------------------------------------------
(***************************************************************************)
(* Properties                                                              *)
(***************************************************************************)

HeadOf(s, n) == [i \in 1..n |-> <<s, i - 1>>]

\* What the assembler holds is the unbroken head, up to the offset its guard
\* expects next, of the one stream that is open, and nothing when none is: no
\* rejection, replacement or delivery leaves samples of another utterance.
BufferIsUtteranceHead ==
  buffer = IF guard.sid = NoStream THEN <<>> ELSE HeadOf(guard.sid, guard.off)

\* A WAV file the robot regards as complete is one utterance, all the samples its
\* header announces, from the first on; uploads never mix, skip or repeat blocks
\* although a request may be lost and an answer may be late or repeated.
RobotPlaysWholeUtterances ==
  \A k \in DOMAIN robotDone :
    \E s \in Streams, n \in 1..MaxUtterance : robotDone[k] = Wav(HeadOf(s, n))

\* The units of a WAV file that its first n blocks carry.
FirstBlocks(wav, n) == SubSeq(wav, 1, IF n * BlockLen < Len(wav) THEN n * BlockLen ELSE Len(wav))

\* During an upload the adapter is sending the plan of one utterance, and the
\* robot holds exactly the part of its WAV file that was answered, and perhaps the
\* block in flight: adapter and robot agree on what is uploaded and how far.
RobotFollowsUpload ==
  nextIndex > 1 =>
    \E s \in Streams, n \in 1..MaxUtterance :
      /\ requests = Plan(HeadOf(s, n))
      /\ \/ robotWav = FirstBlocks(Wav(HeadOf(s, n)), nextIndex - 2)
         \/ inflight # NoRequest /\ robotWav = FirstBlocks(Wav(HeadOf(s, n)), nextIndex - 1)

\* An upload is counted as completed only if the robot has the whole file.  The
\* other way round at most one file is uncounted: the one whose last answer is
\* awaited, or was lost to the fault that followed.
CompletedMeansReceived ==
  /\ completed <= Len(robotDone)
  /\ Len(robotDone) <= completed + 1
  /\ Len(robotDone) = completed + 1 =>
       \/ inflight # NoRequest /\ nextIndex = Len(requests)
       \/ fault # NoFault

\* The upload is a fail-closed client: one request at a time, the next only
\* after a success for the one before, and none after the first fault, whether
\* it was found in the audio stream or in the upload.
Client == INSTANCE FailClosedClient
            WITH asked <- identity, completed <- responsesOk, failed <- fault # NoFault

IsFailClosedClient == Client!ClientSpec

\* An upload in progress moves on to its next request, ends, or ends in a fault
\* (up to the bound on requests): a lost request or answer cannot stall it.
UploadMovesOn ==
  \A n \in 0..(MaxRequests - 1) :
    (Busy /\ identity = n) ~> (~Busy \/ identity > n \/ fault # NoFault)
=============================================================================
