------------------------ MODULE DomainGatewayProofs ------------------------
(***************************************************************************)
(* For any chunks, any stamps and any size of the queues: what either      *)
(* gateway relays has no holes (NoHoles of the Go2 gateway, NoHolesG1), no *)
(* replacement of a diagnostic fails in either (ReplacesSafely), and       *)
(* close() of the Go2 gateway cuts no callback short (CutsNothingShort).   *)
(*                                                                         *)
(* That a published chunk follows the one before says nothing of the       *)
(* chunks still in the queue, nor of the guard, which has gone on to the   *)
(* chunk that it will accept next: the invariants SpeakerInv and G1Inv     *)
(* chain the three together.                                               *)
(***************************************************************************)
EXTENDS DomainGateways, TLAPS

-----------------------------------------------------------------------------
(***************************************************************************)
(* close() of the Go2 gateway and its two threads.                         *)
(***************************************************************************)

\* Where close() has gone on to destroy the nodes, both threads have ended.
CloseInv ==
  /\ thread \in [Domains -> {"looking", "spinning", "ended"}]
  /\ closing \in {"destroy robot", "destroy application", "done"} =>
       \A d \in Domains : thread[d] = "ended"

\* So a thread that runs a callback finds its node.
LEMMA SpinsOnNode ==
  ASSUME CloseInv, NEW d \in Domains, Spins(d)
  PROVE  ~Destroyed("robot") /\ ~Destroyed("application")
  BY DEF CloseInv, Spins, Destroyed

\* A step that moves a thread, if any, moves one that has not ended.
LEMMA ThreadMoves ==
  ASSUME CloseInv, NEW d \in Domains, thread[d] # "ended",
         NEW place \in {"looking", "spinning", "ended"},
         thread' = [thread EXCEPT ![d] = place], UNCHANGED closing
  PROVE  CloseInv'
  BY DEF CloseInv

\* Every step keeps it.
LEMMA CloseNextInv == CloseInv /\ [Next]_vars => CloseInv'
<1> SUFFICES ASSUME CloseInv, [Next]_vars PROVE CloseInv'
  OBVIOUS
<1>1. ASSUME UNCHANGED <<thread, closing>> PROVE CloseInv'
  BY <1>1 DEF CloseInv
<1>2. ASSUME NEW d \in Domains, Spins(d), SpinDone(d) \/ SpinRaises(d), UNCHANGED closing
      PROVE  CloseInv'
  BY <1>2, ThreadMoves DEF Spins, SpinDone, SpinRaises
<1>3. CASE \E c \in Chunks : OnSpeaker(c)
  BY <1>2, <1>3 DEF OnSpeaker, Domains
<1>4. CASE FlushSpeaker
  BY <1>2, <1>4 DEF FlushSpeaker, Domains
<1>5. CASE OnDiagnostic
  BY <1>1, <1>2, <1>5 DEF OnDiagnostic, Domains
<1>6. CASE ReplaceDiagnostic
  BY <1>1, <1>2, <1>6 DEF ReplaceDiagnostic, Domains
<1>7. CASE FlushDiagnostic
  BY <1>2, <1>7 DEF FlushDiagnostic, Domains
<1>8. ASSUME NEW d \in Domains, SpinEmpty(d) PROVE CloseInv'
  BY <1>2, <1>8 DEF SpinEmpty
<1>9. ASSUME NEW d \in Domains, Look(d) PROVE CloseInv'
  BY <1>9, ThreadMoves DEF Look
<1>10. CASE Close
  BY <1>10 DEF Close, CloseInv
<1>11. CASE CheckThreads
  BY <1>11 DEF CheckThreads, CloseInv
<1>12. CASE Destroy
  BY <1>12 DEF Destroy, CloseInv
<1>13. CASE UNCHANGED vars
  BY <1>1, <1>13 DEF vars
<1> QED
  BY <1>3, <1>4, <1>5, <1>6, <1>7, <1>8, <1>9, <1>10, <1>11, <1>12, <1>13 DEF Next

\* At first both threads run.
LEMMA CloseInitInv == Init => CloseInv
  BY DEF Init, CloseInv

-----------------------------------------------------------------------------
(***************************************************************************)
(* The speaker's chunks, from the guard through the queue to the robot.    *)
(***************************************************************************)

\* The last chunk the guard accepted, wherever it is now.
Latest == IF queue = <<>> THEN relayed ELSE queue[Len(queue)]

\* An open guard expects the continuation of the latest chunk.
GuardContinues ==
  guard.sid # NoStream =>
    /\ Latest # NoMessage /\ ~Latest.end
    /\ guard.sid = Latest.sid
    /\ guard.seq = Latest.seq + 1
    /\ guard.off = Latest.off + Latest.len

\* What waits follows what was relayed, chunk after chunk.
QueueContinues ==
  \A i \in 1..Len(queue) : Follows(queue[i], IF i = 1 THEN relayed ELSE queue[i - 1])

SpeakerInv ==
  /\ queue \in Seq(Chunks)
  /\ GuardContinues
  /\ QueueContinues

\* A chunk is of a stream, so it is not the absence of one.
LEMMA ChunkOfStream == \A c \in Chunks : c.sid \in Streams /\ c.sid # NoStream
  BY Go2GatewayAssumption DEF Contract!Chunk

\* What the guard accepts follows the latest chunk.
LEMMA AcceptedFollows ==
  ASSUME GuardContinues, NEW c \in Chunks, Contract!GuardAccepts(guard, c)
  PROVE  Follows(c, Latest)
<1>1. CASE c.start
  BY <1>1 DEF Follows
<1>2. CASE ~c.start
  <2>1. guard.sid = c.sid /\ guard.seq = c.seq /\ guard.off = c.off
    BY <1>2 DEF Contract!GuardAccepts, Contract!GuardOpened
  <2>2. guard.sid # NoStream
    BY <2>1, ChunkOfStream
  <2> QED
    BY <2>1, <2>2 DEF GuardContinues, Follows
<1> QED
  BY <1>1, <1>2

\* A reset guard expects nothing.
LEMMA ResetContinues ==
  ASSUME guard' = Contract!ResetGuard
  PROVE  GuardContinues'
  BY DEF GuardContinues, Contract!ResetGuard

\* An accepted chunk that finds room is the latest one, and the guard goes on from it.
LEMMA OnSpeakerInv ==
  ASSUME SpeakerInv, NEW c \in Chunks, OnSpeaker(c)
  PROVE  SpeakerInv'
<1>1. CASE Contract!GuardAccepts(guard, c) /\ Len(queue) < QueueSize
  <2>1. guard' = Contract!GuardAfter(guard, c) /\ queue' = Append(queue, c) /\ relayed' = relayed
    BY <1>1 DEF OnSpeaker
  <2>2. /\ queue' \in Seq(Chunks)
        /\ Len(queue') = Len(queue) + 1
        /\ queue'[Len(queue')] = c
        /\ \A i \in 1..Len(queue) : queue'[i] = queue[i]
        /\ Len(queue) \in Nat
    BY <2>1 DEF SpeakerInv
  <2>3. Latest' = c
    BY <2>2 DEF Latest
  <2>4. GuardContinues'
    BY <2>1, <2>3, ChunkOfStream
    DEF GuardContinues, Contract!GuardAfter, Contract!ResetGuard, NoMessage
  <2>5. Follows(c, Latest)
    BY <1>1, AcceptedFollows DEF SpeakerInv
  <2>6. ASSUME NEW i \in 1..Len(queue')
        PROVE  Follows(queue'[i], IF i = 1 THEN relayed' ELSE queue'[i - 1])
    <3>1. CASE i = Len(queue')
      BY <2>1, <2>2, <2>5, <3>1 DEF Latest, SpeakerInv
    <3>2. CASE i # Len(queue')
      <4>1. i \in 1..Len(queue)
        BY <2>2, <3>2
      <4>2. i # 1 => i - 1 \in 1..Len(queue)
        BY <4>1, <2>2
      <4> QED
        BY <2>1, <2>2, <4>1, <4>2 DEF SpeakerInv, QueueContinues
    <3> QED
      BY <3>1, <3>2
  <2>7. QueueContinues'
    BY <2>6 DEF QueueContinues, Follows
  <2> QED
    BY <2>2, <2>4, <2>7 DEF SpeakerInv
<1>2. CASE ~(Contract!GuardAccepts(guard, c) /\ Len(queue) < QueueSize)
  <2>1. guard' = Contract!ResetGuard /\ UNCHANGED <<queue, relayed>>
    BY <1>2 DEF OnSpeaker
  <2> QED
    BY <2>1, ResetContinues DEF SpeakerInv, QueueContinues
<1> QED
  BY <1>1, <1>2

\* The head of the queue follows what was relayed, and takes its place.
LEMMA FlushSpeakerInv ==
  ASSUME SpeakerInv, FlushSpeaker, ~Destroyed("robot")
  PROVE  SpeakerInv' /\ Follows(relayed', relayed)
<1>1. /\ queue # <<>> /\ queue \in Seq(Chunks)
      /\ relayed' = Head(queue) /\ queue' = Tail(queue) /\ guard' = guard
  BY DEF FlushSpeaker, SpeakerInv
<1>2. /\ Len(queue) \in Nat \ {0} /\ relayed' = queue[1]
      /\ queue' \in Seq(Chunks)
      /\ Len(queue') = Len(queue) - 1
      /\ \A i \in 1..Len(queue') : queue'[i] = queue[i + 1]
  BY <1>1
<1>3. Follows(relayed', relayed)
  BY <1>2 DEF SpeakerInv, QueueContinues
<1>4. Latest' = Latest
  <2>1. CASE Len(queue) = 1
    BY <1>1, <1>2, <2>1 DEF Latest
  <2>2. CASE Len(queue) # 1
    <3>1. Len(queue') \in 1..Len(queue') /\ Len(queue') + 1 = Len(queue) /\ queue' # <<>>
      BY <1>2, <2>2
    <3>2. queue'[Len(queue')] = queue[Len(queue)]
      BY <1>2, <3>1
    <3> QED
      BY <1>1, <3>1, <3>2 DEF Latest
  <2> QED
    BY <2>1, <2>2
<1>5. GuardContinues'
  BY <1>1, <1>4 DEF SpeakerInv, GuardContinues
<1>6. QueueContinues'
  <2>1. ASSUME NEW i \in 1..Len(queue')
        PROVE  Follows(queue'[i], IF i = 1 THEN relayed' ELSE queue'[i - 1])
    <3>1. i + 1 \in 1..Len(queue) /\ i + 1 # 1 /\ (i + 1) - 1 = i
      BY <1>2
    <3>2. Follows(queue[i + 1], queue[i])
      BY <3>1 DEF SpeakerInv, QueueContinues
    <3>3. queue'[i] = queue[i + 1] /\ (IF i = 1 THEN relayed' ELSE queue'[i - 1]) = queue[i]
      BY <1>2
    <3> QED
      BY <3>2, <3>3
  <2> QED
    BY <2>1 DEF QueueContinues, Follows
<1> QED
  BY <1>2, <1>3, <1>5, <1>6 DEF SpeakerInv

\* Nothing else touches guard, queue or what was relayed.
LEMMA SpeakerNextInv ==
  ASSUME SpeakerInv, CloseInv, [Next]_vars
  PROVE  SpeakerInv' /\ (relayed' # relayed => Follows(relayed', relayed))
<1>1. CASE \E c \in Chunks : OnSpeaker(c)
  BY <1>1, OnSpeakerInv DEF OnSpeaker
<1>2. CASE FlushSpeaker
  <2>1. ~Destroyed("robot")
    BY <1>2, SpinsOnNode DEF FlushSpeaker, Domains
  <2> QED
    BY <1>2, <2>1, FlushSpeakerInv
<1>3. CASE UNCHANGED speakerVars
  BY <1>3 DEF speakerVars, SpeakerInv, GuardContinues, QueueContinues, Latest
<1> QED
  BY <1>1, <1>2, <1>3
  DEF Next, vars, OnDiagnostic, ReplaceDiagnostic, FlushDiagnostic, SpinEmpty, Look,
      Close, CheckThreads, Destroy

\* At first nothing waits and the guard is closed.
LEMMA SpeakerInitInv == Init => SpeakerInv
<1> SUFFICES ASSUME Init PROVE SpeakerInv
  OBVIOUS
<1>1. queue = <<>> /\ guard.sid = NoStream
  BY DEF Init, Contract!ResetGuard
<1> QED
  BY <1>1 DEF SpeakerInv, GuardContinues, QueueContinues

(***************************************************************************)
(* Whatever chunks come, are refused or find the queue full: the robot's   *)
(* domain hears each chunk as the beginning of a stream or right after the *)
(* one before it.                                                          *)
(***************************************************************************)
THEOREM NoHoles == Spec => RelaysWithoutHoles
<1>1. SpeakerInv /\ CloseInv /\ [Next]_vars =>
        SpeakerInv' /\ [relayed' # relayed => Follows(relayed', relayed)]_vars
  BY SpeakerNextInv
<1> QED
  BY <1>1, SpeakerInitInv, CloseInitInv, CloseNextInv, PTL DEF Spec, RelaysWithoutHoles

\* A step of the gateway publishes what it takes.
LEMMA StepPublishes ==
  ASSUME SpeakerInv, CloseInv, [Next]_vars
  PROVE  PublishesTaken
<1>1. ASSUME UNCHANGED queue PROVE ~(Len(queue') < Len(queue))
  BY <1>1 DEF SpeakerInv
<1>2. CASE \E c \in Chunks : OnSpeaker(c)
  BY <1>2 DEF OnSpeaker, SpeakerInv, relayVars, PublishesTaken
<1>3. CASE FlushSpeaker
  <2>1. relayed' = Head(queue) /\ UNCHANGED relayVars
    BY <1>3, SpinsOnNode DEF FlushSpeaker, Domains
  <2> QED
    BY <2>1 DEF PublishesTaken, relayVars
<1>4. CASE OnDiagnostic
  BY <1>1, <1>4 DEF OnDiagnostic, Receive, speakerVars, PublishesTaken
<1>5. CASE ReplaceDiagnostic
  BY <1>1, <1>5 DEF ReplaceDiagnostic, Evict, PutAgain, speakerVars, PublishesTaken
<1>6. CASE FlushDiagnostic
  <2>1. Show /\ UNCHANGED queue
    BY <1>6, SpinsOnNode DEF FlushDiagnostic, Domains, speakerVars
  <2> QED
    BY <1>1, <2>1 DEF Show, PublishesTaken
<1>7. CASE UNCHANGED <<queue, slot>>
  BY <1>1, <1>7 DEF PublishesTaken
<1> QED
  BY <1>2, <1>3, <1>4, <1>5, <1>6, <1>7
  DEF Next, vars, speakerVars, relayVars, SpinEmpty, Look, Close, CheckThreads, Destroy

(***************************************************************************)
(* Whenever close() of the Go2 gateway is called, whichever join times out *)
(* and however late a thread ends: a chunk or a diagnostic that a callback *)
(* has taken from its queue is published.                                  *)
(***************************************************************************)
THEOREM CutsNothingShort == GatewaysSpec => TakenIsPublished
<1> DEFINE IInv == SpeakerInv /\ CloseInv
           step == [GatewaysNext]_<<robot, vars, g1OnlyVars>>
<1>1. GatewaysInit => IInv
  BY SpeakerInitInv, CloseInitInv DEF GatewaysInit
<1>2. ASSUME IInv, step PROVE IInv' /\ [robot = "Go2" => PublishesTaken]_vars
  <2>1. CASE [Next]_vars
    BY <1>2, <2>1, SpeakerNextInv, CloseNextInv, StepPublishes
  <2>2. CASE robot = "G1" /\ UNCHANGED go2OnlyVars
    BY <1>2, <2>2
    DEF go2OnlyVars, speakerVars, SpeakerInv, GuardContinues, QueueContinues, Latest, CloseInv
  <2> QED
    BY <1>2, <2>1, <2>2 DEF GatewaysNext
<1> QED
  BY <1>1, <1>2, PTL DEF GatewaysSpec, TakenIsPublished

-----------------------------------------------------------------------------
(***************************************************************************)
(* The G1 gateway's chunks, from the gate through the queue to the robot.  *)
(***************************************************************************)

Messages == G1Chunks \X Nat

\* The gate serves as a guard only: it keeps no samples, and no ended stream.
GateShape ==
  gate \in [buf: {<<>>}, age: Int, sid: Streams \cup {NoStream}, seq: Nat, off: Nat, ended: {FALSE}]

\* The last message accepted, wherever it is now.
LatestG1 == IF g1queue = <<>> THEN g1relayed ELSE g1queue[Len(g1queue)]

\* An open gate expects the continuation of the latest message.
GateContinues ==
  gate.sid # NoStream =>
    /\ LatestG1 # G1!NoMessage /\ ~LatestG1[1].end
    /\ gate.sid = LatestG1[1].sid
    /\ gate.seq = LatestG1[1].seq + 1
    /\ gate.off = LatestG1[1].off + LatestG1[1].len
    /\ lastStamp = LatestG1[2]

\* What waits follows what was relayed, message after message.
QueueContinuesG1 ==
  \A i \in 1..Len(g1queue) :
    G1!Follows(g1queue[i], IF i = 1 THEN g1relayed ELSE g1queue[i - 1])

G1Chained ==
  /\ g1queue \in Seq(Messages)
  /\ GateShape
  /\ GateContinues
  /\ QueueContinuesG1

\* Once the robot's node is gone chunks are lost, but none is relayed any more.
G1Inv == G1!Destroyed("robot") \/ G1Chained

\* The fields of a chunk that the gateway's bookkeeping relies on.
LEMMA G1ChunkFacts ==
  \A c \in G1Chunks : /\ c.sid \in Streams /\ c.sid # NoStream
                      /\ c.seq \in Nat /\ c.off \in Nat /\ c.len \in Nat
                      /\ c.end \in BOOLEAN
<1>1. G1Chunks \subseteq G1!Chunk
  BY G1GatewayAssumption DEF G1!Parameters
<1> QED
  BY <1>1, Go2GatewayAssumption DEF G1!Chunk

\* What the gate accepts follows the latest message.
LEMMA AcceptedFollowsG1 ==
  ASSUME GateContinues, NEW c \in G1Chunks, NEW stamp \in Nat,
         stamp > lastStamp, G1!GateAccepts(gate, c, Limits)
  PROVE  G1!Follows(<<c, stamp>>, LatestG1)
<1>1. CASE c.start
  BY <1>1 DEF G1!Follows
<1>2. CASE ~c.start
  <2>1. gate.sid = c.sid /\ gate.seq = c.seq /\ gate.off = c.off
    BY <1>2 DEF G1!GateAccepts, G1!GateOpened
  <2>2. gate.sid # NoStream
    BY <2>1, G1ChunkFacts
  <2> QED
    BY <2>1, <2>2 DEF GateContinues, G1!Follows
<1> QED
  BY <1>1, <1>2

\* A cleared gate expects nothing.
LEMMA ClearedContinues ==
  ASSUME gate' = G1!ClearGate
  PROVE  GateShape' /\ GateContinues'
  BY DEF GateShape, GateContinues, G1!ClearGate, G1!Never

\* An accepted message that finds room is the latest one, and the gate goes on
\* from it.
LEMMA OnAudioInv ==
  ASSUME G1Chained, NEW c \in G1Chunks, NEW stamp \in Nat, G1!OnAudio(c, stamp)
  PROVE  G1Chained'
<1>1. CASE /\ stamp > lastStamp
           /\ G1!GateAccepts(gate, c, Limits)
           /\ Len(g1queue) < G1QueueSize
  <2>1. /\ gate' = G1!GateDiscarded(G1!GateAfter(gate, c)) /\ lastStamp' = stamp
        /\ g1queue' = Append(g1queue, <<c, stamp>>) /\ g1relayed' = g1relayed
    BY <1>1 DEF G1!OnAudio
  <2>2. <<c, stamp>> \in Messages
    BY DEF Messages
  <2>3. /\ g1queue' \in Seq(Messages)
        /\ Len(g1queue') = Len(g1queue) + 1
        /\ g1queue'[Len(g1queue')] = <<c, stamp>>
        /\ \A i \in 1..Len(g1queue) : g1queue'[i] = g1queue[i]
        /\ Len(g1queue) \in Nat
    BY <2>1, <2>2 DEF G1Chained
  <2>4. LatestG1' = <<c, stamp>>
    BY <2>3 DEF LatestG1
  <2>5. /\ c.sid \in Streams /\ c.end \in BOOLEAN
        /\ c.seq \in Nat /\ c.off \in Nat /\ c.len \in Nat
    BY G1ChunkFacts
  <2>6. G1!Follows(<<c, stamp>>, LatestG1)
    BY <1>1, AcceptedFollowsG1 DEF G1Chained
  <2>7. ASSUME NEW i \in 1..Len(g1queue')
        PROVE  G1!Follows(g1queue'[i], IF i = 1 THEN g1relayed' ELSE g1queue'[i - 1])
    <3>1. CASE i = Len(g1queue')
      BY <2>1, <2>3, <2>6, <3>1 DEF LatestG1, G1Chained
    <3>2. CASE i # Len(g1queue')
      <4>1. i \in 1..Len(g1queue)
        BY <2>3, <3>2
      <4>2. i # 1 => i - 1 \in 1..Len(g1queue)
        BY <4>1, <2>3
      <4> QED
        BY <2>1, <2>3, <4>1, <4>2 DEF G1Chained, QueueContinuesG1
    <3> QED
      BY <3>1, <3>2
  <2>8. QueueContinuesG1'
    BY <2>7 DEF QueueContinuesG1, G1!Follows
  <2>9. GateShape' /\ GateContinues'
    <3>1. CASE c.end
      BY <2>1, <3>1, ClearedContinues DEF G1!GateDiscarded, G1!GateAfter
    <3>2. CASE ~c.end
      <4>1. gate' = [buf |-> <<>>, age |-> 0, sid |-> c.sid, seq |-> c.seq + 1,
                     off |-> c.off + c.len, ended |-> FALSE]
        BY <2>5, <2>1, <3>2 DEF G1!GateDiscarded, G1!GateAfter
      <4>2. GateShape'
        BY <2>5, <3>2, <4>1 DEF GateShape
      <4>3. GateContinues'
        BY <2>1, <2>4, <3>2, <4>1 DEF GateContinues, G1!NoMessage
      <4> QED
        BY <4>2, <4>3
    <3> QED
      BY <3>1, <3>2
  <2> QED
    BY <2>3, <2>8, <2>9 DEF G1Chained
<1>2. CASE ~(/\ stamp > lastStamp
             /\ G1!GateAccepts(gate, c, Limits)
             /\ Len(g1queue) < G1QueueSize)
  <2>1. gate' = G1!ClearGate /\ UNCHANGED <<g1queue, g1relayed>>
    BY <1>2 DEF G1!OnAudio
  <2> QED
    BY <2>1, ClearedContinues DEF G1Chained, QueueContinuesG1
<1> QED
  BY <1>1, <1>2

\* The head of the queue follows what was relayed, and takes its place.
LEMMA FlushAudioInv ==
  ASSUME G1Chained, G1!FlushAudio, ~G1!Destroyed("robot")
  PROVE  G1Chained' /\ G1!Follows(g1relayed', g1relayed)
<1>1. /\ g1queue # <<>> /\ g1queue \in Seq(Messages)
      /\ g1relayed' = Head(g1queue) /\ g1queue' = Tail(g1queue)
      /\ gate' = gate /\ lastStamp' = lastStamp
  BY DEF G1!FlushAudio, G1Chained
<1>2. /\ Len(g1queue) \in Nat \ {0} /\ g1relayed' = g1queue[1]
      /\ g1queue' \in Seq(Messages)
      /\ Len(g1queue') = Len(g1queue) - 1
      /\ \A i \in 1..Len(g1queue') : g1queue'[i] = g1queue[i + 1]
  BY <1>1
<1>3. G1!Follows(g1relayed', g1relayed)
  BY <1>2 DEF G1Chained, QueueContinuesG1
<1>4. LatestG1' = LatestG1
  <2>1. CASE Len(g1queue) = 1
    BY <1>1, <1>2, <2>1 DEF LatestG1
  <2>2. CASE Len(g1queue) # 1
    <3>1. Len(g1queue') \in 1..Len(g1queue') /\ Len(g1queue') + 1 = Len(g1queue) /\ g1queue' # <<>>
      BY <1>2, <2>2
    <3>2. g1queue'[Len(g1queue')] = g1queue[Len(g1queue)]
      BY <1>2, <3>1
    <3> QED
      BY <1>1, <3>1, <3>2 DEF LatestG1
  <2> QED
    BY <2>1, <2>2
<1>5. GateShape' /\ GateContinues'
  BY <1>1, <1>4 DEF G1Chained, GateShape, GateContinues
<1>6. QueueContinuesG1'
  <2>1. ASSUME NEW i \in 1..Len(g1queue')
        PROVE  G1!Follows(g1queue'[i], IF i = 1 THEN g1relayed' ELSE g1queue'[i - 1])
    <3>1. i + 1 \in 1..Len(g1queue) /\ i + 1 # 1 /\ (i + 1) - 1 = i
      BY <1>2
    <3>2. G1!Follows(g1queue[i + 1], g1queue[i])
      BY <3>1 DEF G1Chained, QueueContinuesG1
    <3>3. /\ g1queue'[i] = g1queue[i + 1]
          /\ (IF i = 1 THEN g1relayed' ELSE g1queue'[i - 1]) = g1queue[i]
      BY <1>2
    <3> QED
      BY <3>2, <3>3
  <2> QED
    BY <2>1 DEF QueueContinuesG1, G1!Follows
<1> QED
  BY <1>2, <1>3, <1>5, <1>6 DEF G1Chained

\* Time moves the gate's age only.
LEMMA TickInv ==
  ASSUME G1Chained, G1!Tick
  PROVE  G1Chained' /\ UNCHANGED g1relayed
<1>1. /\ gate' = [gate EXCEPT !.age = IF gate.age \in {G1!Never, MaxAge} THEN @ ELSE @ + 1]
      /\ UNCHANGED <<lastStamp, g1queue, g1relayed>>
  BY DEF G1!Tick, G1!GateAged
<1>2. GateShape' /\ gate'.sid = gate.sid /\ gate'.seq = gate.seq /\ gate'.off = gate.off
  <2> DEFINE age == IF gate.age \in {G1!Never, MaxAge} THEN gate.age ELSE gate.age + 1
  <2>1. PICK a \in Int, sid \in Streams \cup {NoStream}, seq \in Nat, off \in Nat :
          gate = [buf |-> <<>>, age |-> a, sid |-> sid, seq |-> seq, off |-> off, ended |-> FALSE]
    BY DEF G1Chained, GateShape
  <2>2. age \in Int
    BY <2>1
  <2>3. gate' = [gate EXCEPT !.age = age]
    BY <1>1
  <2> HIDE DEF age
  <2>4. gate' = [buf |-> <<>>, age |-> age, sid |-> sid, seq |-> seq, off |-> off, ended |-> FALSE]
    BY <2>1, <2>3
  <2> QED
    BY <2>1, <2>2, <2>4 DEF GateShape
<1> QED
  BY <1>1, <1>2 DEF G1Chained, GateContinues, QueueContinuesG1, LatestG1

\* Nothing is relayed once the robot's node is gone, and it stays gone.
LEMMA DestroyedStays ==
  ASSUME G1!Destroyed("robot"), [G1!Next]_(G1!vars)
  PROVE  G1!Destroyed("robot")' /\ UNCHANGED g1relayed
  BY DEF G1!Destroyed, G1!Next, G1!vars, G1!audioVars, G1!OnAudio, G1!FlushAudio,
         G1!OnDiagnostic, G1!ReplaceDiagnostic, G1!FlushDiagnostic, G1!Close, G1!Destroy,
         G1!Tick

\* Until then nothing else moves the gate or the queue.
LEMMA G1NextInv ==
  ASSUME G1Inv, [G1!Next]_(G1!vars)
  PROVE  G1Inv' /\ (g1relayed' # g1relayed => G1!Follows(g1relayed', g1relayed))
<1> SUFFICES ASSUME G1Chained, ~G1!Destroyed("robot")
             PROVE  G1Chained' /\ (g1relayed' # g1relayed => G1!Follows(g1relayed', g1relayed))
  BY DestroyedStays DEF G1Inv
<1>1. ASSUME NEW c \in G1Chunks, NEW stamp \in 0..MaxStamp, G1!OnAudio(c, stamp)
      PROVE  G1Chained' /\ UNCHANGED g1relayed
  <2>1. stamp \in Nat
    BY G1GatewayAssumption DEF G1!Parameters
  <2> QED
    BY <1>1, <2>1, OnAudioInv DEF G1!OnAudio
<1>2. CASE G1!FlushAudio
  BY <1>2, FlushAudioInv
<1>3. CASE G1!Tick
  BY <1>3, TickInv
<1>4. CASE UNCHANGED <<gate, lastStamp, g1queue, g1relayed>>
  BY <1>4 DEF G1Chained, GateShape, GateContinues, QueueContinuesG1, LatestG1
<1> QED
  BY <1>1, <1>2, <1>3, <1>4
  DEF G1!Next, G1!vars, G1!audioVars, G1!OnDiagnostic, G1!ReplaceDiagnostic,
      G1!FlushDiagnostic, G1!Close, G1!Destroy

\* At first nothing waits and the gate is clear.
LEMMA G1InitInv == G1!Init => G1Inv
<1> SUFFICES ASSUME G1!Init PROVE G1Inv
  OBVIOUS
<1>1. g1queue = <<>> /\ gate = G1!ClearGate
  BY DEF G1!Init
<1>2. GateShape /\ gate.sid = NoStream
  BY <1>1 DEF GateShape, G1!ClearGate, G1!Never
<1> QED
  BY <1>1, <1>2 DEF G1Inv, G1Chained, GateContinues, QueueContinuesG1

(***************************************************************************)
(* The same of the G1 gateway, for any limits of its gate, and in source   *)
(* time too: stamps grow along a stream although the callback that refuses *)
(* a chunk forgets the last one.                                           *)
(***************************************************************************)
THEOREM NoHolesG1 == G1!Spec => RelaysWithoutHolesG1
<1>1. G1Inv /\ [G1!Next]_(G1!vars) =>
        G1Inv' /\ [g1relayed' # g1relayed => G1!Follows(g1relayed', g1relayed)]_(G1!vars)
  BY G1NextInv
<1> QED
  BY <1>1, G1InitInv, PTL DEF G1!Spec, RelaysWithoutHolesG1, G1!RelaysWithoutHoles

-----------------------------------------------------------------------------
(***************************************************************************)
(* The replacement of a diagnostic.                                        *)
(***************************************************************************)

\* Between the get and the second put nobody else puts.
RelayInv ==
  /\ handler # "raised"
  /\ handler = "put again" => slot = <<>>

\* Every step of either gateway keeps it.
LEMMA RelayStepInv ==
  ASSUME RelayInv,
         \/ \E valid \in BOOLEAN : Receive(valid)
         \/ Evict \/ PutAgain \/ Show \/ Lose
         \/ UNCHANGED relayVars
  PROVE  RelayInv'
<1>1. ASSUME NEW valid \in BOOLEAN, Receive(valid) PROVE RelayInv'
  BY <1>1 DEF Receive, RelayInv
<1>2. CASE Evict
  BY <1>2 DEF Evict, RelayInv
<1>3. CASE PutAgain
  BY <1>3 DEF PutAgain, RelayInv
<1>4. CASE Show
  BY <1>4 DEF Show, RelayInv
<1>5. CASE Lose
  BY <1>5 DEF Lose, RelayInv
<1>6. CASE UNCHANGED relayVars
  BY <1>6 DEF relayVars, RelayInv
<1> QED
  BY <1>1, <1>2, <1>3, <1>4, <1>5, <1>6

\* The steps of the two gateways are such steps.
LEMMA RelayNextInv == RelayInv /\ ([Next]_vars \/ [G1!Next]_(G1!vars)) => RelayInv'
<1> SUFFICES ASSUME RelayInv, [Next]_vars \/ [G1!Next]_(G1!vars) PROVE RelayInv'
  OBVIOUS
<1>1. CASE [Next]_vars
  BY <1>1, RelayStepInv
  DEF Next, vars, OnSpeaker, FlushSpeaker, OnDiagnostic, ReplaceDiagnostic, FlushDiagnostic,
      SpinEmpty, Look, Close, CheckThreads, Destroy
<1>2. CASE [G1!Next]_(G1!vars)
  <2>1. ASSUME NEW valid \in BOOLEAN, G1!Receive(valid) PROVE RelayInv'
    BY <2>1, RelayStepInv DEF G1!Receive, Receive
  <2>2. CASE G1!Evict
    BY <2>2, RelayStepInv DEF G1!Evict, Evict
  <2>3. CASE G1!PutAgain
    BY <2>3, RelayStepInv DEF G1!PutAgain, PutAgain
  <2>4. CASE G1!Show
    BY <2>4, RelayStepInv DEF G1!Show, Show
  <2>5. CASE G1!Lose
    BY <2>5, RelayStepInv DEF G1!Lose, Lose
  <2>6. CASE UNCHANGED G1!relayVars
    BY <2>6, RelayStepInv DEF G1!relayVars, relayVars
  <2> QED
    BY <1>2, <2>1, <2>2, <2>3, <2>4, <2>5, <2>6
    DEF G1!Next, G1!vars, G1!OnAudio, G1!FlushAudio, G1!OnDiagnostic, G1!ReplaceDiagnostic,
        G1!FlushDiagnostic, G1!Close, G1!Destroy, G1!Tick
<1> QED
  BY <1>1, <1>2

(***************************************************************************)
(* The second put of a replacement, which has no handler for queue.Full,   *)
(* always finds room in either gateway, wherever the other thread runs in  *)
(* between.                                                                *)
(***************************************************************************)
THEOREM ReplacesSafely == Spec \/ G1!Spec => []ReplacementSucceeds
<1>1. Init \/ G1!Init => RelayInv
  BY DEF Init, G1!Init, RelayInit, G1!RelayInit, RelayInv
<1>2. RelayInv => ReplacementSucceeds
  BY DEF RelayInv, ReplacementSucceeds
<1>3. RelayInv /\ [Next]_vars => RelayInv'
  BY RelayNextInv
<1>4. RelayInv /\ [G1!Next]_(G1!vars) => RelayInv'
  BY RelayNextInv
<1> QED
  BY <1>1, <1>2, <1>3, <1>4, PTL DEF Spec, G1!Spec
=============================================================================
