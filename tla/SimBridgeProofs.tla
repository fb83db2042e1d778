-------------------------- MODULE SimBridgeProofs --------------------------
(***************************************************************************)
(* Theorems about the simulator's AudioBridge with both halves running,    *)
(* for every length of the file, every bound on identifiers and sequence   *)
(* numbers, and all chunks and formats the speaker may be sent:            *)
(*   TypesCorrect     BothTypesOK holds.                                   *)
(*   ObeysContract    a subscriber to mic_raw refuses nothing.             *)
(*   PlayedToGuard    the speaker's device and guard agree.                *)
(*   HeadsPlayed      the device is given heads of streams.                *)
(*                                                                         *)
(* The second holds because of two things that the lock does not give.     *)
(* Only one thread has a chunk that is stamped and not yet published:      *)
(* while the executor's thread stamps, no device is open (SourcesApart).   *)
(* And the next chunk, or the replacement of its stream, fits what the     *)
(* subscriber will have heard by then (InOrder).                           *)
(***************************************************************************)
EXTENDS SimBridge, TLAPS

-----------------------------------------------------------------------------
(***************************************************************************)
(* The microphone                                                          *)
(***************************************************************************)

\* The executor's thread has a chunk, or the timer that makes one, only while
\* PortAudio's thread has nothing to do.
SourcesApart ==
  /\ timer # "none" /\ spin.at # "opened" => device = "none" /\ callback.at = "idle"
  /\ spin.at \in {"publish", "loop"} => timer # "none"

\* A subscriber in state g takes the chunk that is stamped next: it is the next of
\* the open stream, or it begins one and says so if another is open.
Expects(g, k) ==
  IF k.seq = 0 THEN k.disc \/ g.sid = NoMicStream
  ELSE ~k.disc /\ g = [sid |-> k.sid, seq |-> k.seq, off |-> k.seq]

\* What a subscriber expects after a chunk that is not the last.
Beyond(c) == [sid |-> c.sid, seq |-> Successor(c.seq), off |-> Successor(c.seq)]

\* The subscriber takes what is stamped, and then what is stamped next.
InOrder ==
  /\ spin.at = "publish" =>
       /\ Contract!GuardAccepts(listener, spin.msg)
       /\ ~spin.msg.end => Expects(Beyond(spin.msg), contract)
  /\ callback.at = "publish" =>
       /\ Contract!GuardAccepts(listener, callback.msg)
       /\ ~callback.msg.end
       /\ Expects(Beyond(callback.msg), contract)
  /\ spin.at = "loop" => listener.sid = NoMicStream
  /\ spin.at \notin {"publish", "loop"} /\ callback.at # "publish" => Expects(listener, contract)

MicInv == TypeOK /\ SourcesApart /\ InOrder /\ ~refused

\* Sequence numbers are never 0 again.
LEMMA SuccessorRange ==
  ASSUME NEW n \in 0..(SeqMod - 1)
  PROVE  Successor(n) \in 1..(SeqMod - 1)
BY SimMicAssumption DEF Successor

\* A replaced contract.
LEMMA ReplacedIsFresh ==
  ASSUME TypeOK, NEW d \in BOOLEAN, Replace(d)
  PROVE  /\ contract' \in [sid: 0..(StreamIds - 1), seq: 0..(SeqMod - 1), disc: BOOLEAN]
         /\ contract'.seq = 0 /\ contract'.disc = d
<1>1. contract.sid \in 0..(StreamIds - 1)
  BY DEF TypeOK
<1>2. (contract.sid + 1) % StreamIds \in 0..(StreamIds - 1)
  BY <1>1, SimMicAssumption
<1>3. contract' = [sid |-> (contract.sid + 1) % StreamIds, seq |-> 0, disc |-> d]
  BY DEF Replace, Replaced
<1> QED
  BY <1>2, <1>3, SimMicAssumption

\* A stamped chunk is one the subscriber takes, and the counters are then what it
\* expects after it.
LEMMA StampFits ==
  ASSUME TypeOK, Expects(listener, contract), NEW e \in BOOLEAN, MoveOn
  PROVE  /\ Stamped(e) \in Message /\ Stamped(e).end = e
         /\ contract' \in [sid: 0..(StreamIds - 1), seq: 0..(SeqMod - 1), disc: BOOLEAN]
         /\ Contract!GuardAccepts(listener, Stamped(e))
         /\ Expects(Beyond(Stamped(e)), contract')
<1> DEFINE c == Stamped(e)
<1>1. /\ contract.sid \in 0..(StreamIds - 1) /\ contract.seq \in 0..(SeqMod - 1)
      /\ contract.disc \in BOOLEAN
      /\ contract = [sid |-> contract.sid, seq |-> contract.seq, disc |-> contract.disc]
  BY DEF TypeOK
<1>2. Successor(contract.seq) \in 1..(SeqMod - 1)
  BY <1>1, SuccessorRange
<1>3. contract' = [sid |-> contract.sid, seq |-> Successor(contract.seq), disc |-> FALSE]
  BY <1>1 DEF MoveOn
<1>4. /\ c \in Message
      /\ c.sid = contract.sid /\ c.seq = contract.seq /\ c.off = contract.seq
      /\ (c.start <=> contract.seq = 0) /\ (c.end <=> e) /\ (c.disc <=> contract.disc)
      /\ c.wellFormed
  BY <1>1 DEF Stamped, Message
<1>5. Stamped(e).end = e
  BY DEF Stamped
<1> HIDE DEF c
<1>6. Contract!GuardAccepts(listener, c)
  <2>1. CASE contract.seq = 0
    <3>1. contract.disc \/ listener.sid = NoMicStream
      BY <2>1 DEF Expects
    <3>2. Contract!GuardOpened(listener, c) = [sid |-> contract.sid, seq |-> 0, off |-> 0]
      BY <1>4, <2>1 DEF Contract!GuardOpened
    <3> QED
      BY <1>4, <2>1, <3>1, <3>2 DEF Contract!GuardAccepts
  <2>2. CASE contract.seq # 0
    <3>1. ~contract.disc /\ listener = [sid |-> contract.sid, seq |-> contract.seq, off |-> contract.seq]
      BY <2>2 DEF Expects
    <3>2. Contract!GuardOpened(listener, c) = listener
      BY <1>4, <2>2 DEF Contract!GuardOpened
    <3> QED
      BY <1>4, <2>2, <3>1, <3>2 DEF Contract!GuardAccepts
  <2> QED
    BY <2>1, <2>2
<1>7. Expects(Beyond(c), contract')
  BY <1>2, <1>3, <1>4 DEF Expects, Beyond
<1>8. contract' \in [sid: 0..(StreamIds - 1), seq: 0..(SeqMod - 1), disc: BOOLEAN]
  BY <1>1, <1>2, <1>3
<1> QED
  BY <1>4, <1>5, <1>6, <1>7, <1>8 DEF c

\* Publishing a chunk the subscriber takes.
LEMMA PublishFits ==
  ASSUME NEW c \in Message, Contract!GuardAccepts(listener, c), Publish(c)
  PROVE  /\ refused' = refused
         /\ listener' \in [sid: (0..(StreamIds - 1)) \cup {NoMicStream},
                           seq: 0..(SeqMod - 1), off: 0..(SeqMod - 1)]
         /\ c.end => listener'.sid = NoMicStream
         /\ ~c.end => listener' = Beyond(c)
<1>1. refused' = refused /\ listener' = Heard(c)
  BY DEF Publish
<1>2. /\ c.sid \in 0..(StreamIds - 1) /\ c.seq \in 0..(SeqMod - 1)
      /\ c.sid # NoMicStream /\ Successor(c.seq) \in 0..(SeqMod - 1)
  BY SuccessorRange, SimMicAssumption DEF Message, NoMicStream, Successor
<1>3. CASE c.end
  BY <1>1, <1>3, SimMicAssumption DEF Heard, Contract!GuardAfter, Contract!ResetGuard
<1>4. CASE ~c.end
  <2>1. listener' = Beyond(c)
    BY <1>1, <1>2, <1>4 DEF Heard, Contract!GuardAfter, Beyond
  <2> QED
    BY <1>1, <1>2, <1>4, <2>1 DEF Beyond
<1> QED
  BY <1>3, <1>4

\* The file's and the silence timer stamp a chunk.
LEMMA TickInv ==
  ASSUME MicInv, TickFile \/ TickSilence
  PROVE  MicInv'
<1>1. /\ spin.at = "idle" /\ timer # "none" /\ callback.at = "idle"
      /\ Expects(listener, contract)
  BY DEF TickFile, TickSilence, MicInv, SourcesApart, InOrder
<1>2. PICK e \in BOOLEAN :
        /\ spin' = [at |-> "publish", msg |-> Stamped(e)] /\ MoveOn
        /\ UNCHANGED <<mode, device, timer, fallback, cooled, callback, listener, refused>>
        /\ filePos' \in 0..(FileChunks - 1)
  <2>1. filePos \in 0..(FileChunks - 1) /\ (filePos + 1) % FileChunks \in 0..(FileChunks - 1)
    BY SimMicAssumption DEF MicInv, TypeOK
  <2>2. CASE TickFile
    <3>1. (filePos + 1 = FileChunks) \in BOOLEAN
      OBVIOUS
    <3> QED
      BY <2>1, <2>2, <3>1 DEF TickFile, topicVars
  <2>3. CASE TickSilence
    BY <2>1, <2>3 DEF TickSilence, topicVars, sourceVars
  <2> QED
    BY <2>2, <2>3
<1>3. /\ Stamped(e) \in Message
      /\ contract' \in [sid: 0..(StreamIds - 1), seq: 0..(SeqMod - 1), disc: BOOLEAN]
      /\ Contract!GuardAccepts(listener, Stamped(e))
      /\ Expects(Beyond(Stamped(e)), contract')
  BY <1>1, <1>2, StampFits DEF MicInv
<1>4. spin'.at = "publish" /\ spin'.msg = Stamped(e)
  BY <1>2
<1>5. TypeOK'
  BY <1>2, <1>3 DEF MicInv, TypeOK
<1>6. SourcesApart'
  BY <1>1, <1>2, <1>4 DEF MicInv, SourcesApart
<1>7. InOrder'
  BY <1>1, <1>2, <1>3, <1>4 DEF InOrder
<1> QED
  BY <1>2, <1>5, <1>6, <1>7 DEF MicInv

\* The executor's thread publishes; after the last chunk of the file the
\* subscriber has closed the stream.
LEMMA TickPublishInv ==
  ASSUME MicInv, TickPublish
  PROVE  MicInv'
<1> DEFINE c == spin.msg
<1>1. /\ spin.at = "publish" /\ Publish(c) /\ timer # "none"
      /\ spin' = [Idle EXCEPT !.at = IF c.end THEN "loop" ELSE "idle"]
      /\ UNCHANGED <<mode, device, timer, fallback, cooled, filePos, contract, callback>>
  BY DEF TickPublish, sourceVars, MicInv, SourcesApart
<1>2. /\ c \in Message /\ Contract!GuardAccepts(listener, c) /\ callback.at = "idle"
      /\ ~c.end => Expects(Beyond(c), contract)
  BY <1>1 DEF MicInv, TypeOK, SourcesApart, InOrder
<1>3. /\ refused' = refused
      /\ listener' \in [sid: (0..(StreamIds - 1)) \cup {NoMicStream},
                        seq: 0..(SeqMod - 1), off: 0..(SeqMod - 1)]
      /\ c.end => listener'.sid = NoMicStream
      /\ ~c.end => listener' = Beyond(c)
  BY <1>1, <1>2, PublishFits
<1>4. /\ spin'.at = IF c.end THEN "loop" ELSE "idle"
      /\ spin'.msg = NoMessage
  BY <1>1 DEF Idle
<1>5. TypeOK'
  <2>1. spin' \in [at: {"idle", "publish", "loop", "opened", "recovered", "stopped"}, msg: Message]
    <3>1. spin' = [at |-> IF c.end THEN "loop" ELSE "idle", msg |-> NoMessage]
      BY <1>1 DEF Idle
    <3>2. NoMessage \in Message
      BY SimMicAssumption DEF NoMessage, Message
    <3> QED
      BY <3>1, <3>2
  <2> QED
    BY <1>1, <1>3, <2>1 DEF MicInv, TypeOK
<1>6. SourcesApart'
  BY <1>1, <1>2, <1>4 DEF MicInv, SourcesApart
<1>7. InOrder'
  BY <1>1, <1>2, <1>3, <1>4 DEF InOrder
<1> QED
  BY <1>1, <1>3, <1>5, <1>6, <1>7 DEF MicInv

\* After the last chunk of the file a new stream begins.
LEMMA LoopFileInv ==
  ASSUME MicInv, LoopFile
  PROVE  MicInv'
<1>1. /\ spin.at = "loop" /\ Replace(FALSE) /\ spin' = Idle /\ timer # "none"
      /\ UNCHANGED <<mode, device, timer, fallback, cooled, filePos, callback, listener, refused>>
      /\ callback.at = "idle" /\ listener.sid = NoMicStream
  BY DEF LoopFile, sourceVars, topicVars, MicInv, SourcesApart, InOrder
<1>2. /\ contract' \in [sid: 0..(StreamIds - 1), seq: 0..(SeqMod - 1), disc: BOOLEAN]
      /\ contract'.seq = 0
  BY <1>1, ReplacedIsFresh DEF MicInv
<1>3. spin'.at = "idle" /\ spin' \in [at: {"idle"}, msg: Message]
  BY <1>1, SimMicAssumption DEF Idle, NoMessage, Message
<1>4. TypeOK'
  BY <1>1, <1>2, <1>3 DEF MicInv, TypeOK
<1>5. SourcesApart' /\ InOrder'
  BY <1>1, <1>2, <1>3 DEF MicInv, SourcesApart, InOrder, Expects
<1> QED
  BY <1>1, <1>4, <1>5 DEF MicInv

\* The watchdog's last step replaces the stream, perhaps while PortAudio's thread
\* has a chunk of the old one.
LEMMA WatchdogReplacesInv ==
  ASSUME MicInv, WatchdogReplaces
  PROVE  MicInv'
<1>1. /\ spin.at = "recovered" /\ Replace(TRUE) /\ spin' = Idle
      /\ UNCHANGED <<mode, device, timer, fallback, cooled, filePos, callback, listener, refused>>
  BY DEF WatchdogReplaces, sourceVars, topicVars
<1>2. /\ contract' \in [sid: 0..(StreamIds - 1), seq: 0..(SeqMod - 1), disc: BOOLEAN]
      /\ contract'.seq = 0 /\ contract'.disc
  BY <1>1, ReplacedIsFresh DEF MicInv
<1>3. spin'.at = "idle" /\ spin' \in [at: {"idle"}, msg: Message]
  BY <1>1, SimMicAssumption DEF Idle, NoMessage, Message
<1>4. TypeOK'
  BY <1>1, <1>2, <1>3 DEF MicInv, TypeOK
<1>5. SourcesApart' /\ InOrder'
  BY <1>1, <1>2, <1>3 DEF MicInv, SourcesApart, InOrder, Expects
<1> QED
  BY <1>1, <1>4, <1>5 DEF MicInv

\* PortAudio's thread begins a new stream after an overflow.
LEMMA CallbackOverflowInv ==
  ASSUME MicInv, CallbackOverflow
  PROVE  MicInv'
<1>1. /\ callback.at = "idle" /\ device = "running" /\ Replace(TRUE)
      /\ callback' = [Idle EXCEPT !.at = "stamp"]
      /\ UNCHANGED <<mode, device, timer, fallback, cooled, filePos, spin, listener, refused>>
  BY DEF CallbackOverflow, sourceVars, topicVars
<1>2. /\ contract' \in [sid: 0..(StreamIds - 1), seq: 0..(SeqMod - 1), disc: BOOLEAN]
      /\ contract'.seq = 0 /\ contract'.disc
  BY <1>1, ReplacedIsFresh DEF MicInv
<1>3. callback'.at = "stamp" /\ callback' \in [at: {"stamp"}, msg: Message]
  <2>1. callback' = [at |-> "stamp", msg |-> NoMessage]
    BY <1>1 DEF Idle
  <2>2. NoMessage \in Message
    BY SimMicAssumption DEF NoMessage, Message
  <2> QED
    BY <2>1, <2>2
<1>4. TypeOK'
  BY <1>1, <1>2, <1>3 DEF MicInv, TypeOK
<1>5. SourcesApart' /\ InOrder'
  BY <1>1, <1>2, <1>3 DEF MicInv, SourcesApart, InOrder, Expects
<1> QED
  BY <1>1, <1>4, <1>5 DEF MicInv

\* PortAudio's thread stamps a chunk.
LEMMA CallbackStampInv ==
  ASSUME MicInv, CallbackStamp
  PROVE  MicInv'
<1>1. /\ callback.at # "publish" /\ (callback.at = "idle" => device = "running")
      /\ callback' = [at |-> "publish", msg |-> Stamped(FALSE)] /\ MoveOn
      /\ UNCHANGED <<mode, device, timer, fallback, cooled, filePos, spin, listener, refused>>
  BY DEF CallbackStamp, sourceVars, topicVars
<1>2. spin.at \notin {"publish", "loop"} /\ Expects(listener, contract)
      /\ ~(timer # "none" /\ spin.at # "opened")
  BY <1>1 DEF MicInv, SourcesApart, InOrder
<1>3. /\ Stamped(FALSE) \in Message /\ ~Stamped(FALSE).end
      /\ contract' \in [sid: 0..(StreamIds - 1), seq: 0..(SeqMod - 1), disc: BOOLEAN]
      /\ Contract!GuardAccepts(listener, Stamped(FALSE))
      /\ Expects(Beyond(Stamped(FALSE)), contract')
  BY <1>1, <1>2, StampFits DEF MicInv
<1>4. callback'.at = "publish" /\ callback'.msg = Stamped(FALSE)
  BY <1>1
<1>5. TypeOK'
  BY <1>1, <1>3 DEF MicInv, TypeOK
<1>6. SourcesApart'
  BY <1>1, <1>2 DEF SourcesApart
<1>7. InOrder'
  BY <1>1, <1>2, <1>3, <1>4 DEF InOrder
<1> QED
  BY <1>1, <1>5, <1>6, <1>7 DEF MicInv

\* PortAudio's thread publishes its chunk.
LEMMA CallbackPublishInv ==
  ASSUME MicInv, CallbackPublish
  PROVE  MicInv'
<1> DEFINE c == callback.msg
<1>1. /\ callback.at = "publish" /\ Publish(c) /\ callback' = Idle
      /\ UNCHANGED <<mode, device, timer, fallback, cooled, filePos, contract, spin>>
  BY DEF CallbackPublish, sourceVars
<1>2. /\ c \in Message /\ Contract!GuardAccepts(listener, c) /\ ~c.end
      /\ Expects(Beyond(c), contract) /\ spin.at \notin {"publish", "loop"}
  BY <1>1 DEF MicInv, TypeOK, SourcesApart, InOrder
<1>3. /\ refused' = refused /\ listener' = Beyond(c)
      /\ listener' \in [sid: (0..(StreamIds - 1)) \cup {NoMicStream},
                        seq: 0..(SeqMod - 1), off: 0..(SeqMod - 1)]
  BY <1>1, <1>2, PublishFits
<1>4. callback'.at = "idle" /\ callback' \in [at: {"idle"}, msg: Message]
  BY <1>1, SimMicAssumption DEF Idle, NoMessage, Message
<1>5. TypeOK'
  BY <1>1, <1>3, <1>4 DEF MicInv, TypeOK
<1>6. SourcesApart'
  BY <1>1, <1>2, <1>4 DEF MicInv, SourcesApart
<1>7. InOrder'
  BY <1>1, <1>2, <1>3, <1>4 DEF InOrder
<1> QED
  BY <1>1, <1>3, <1>5, <1>6, <1>7 DEF MicInv

\* The steps that neither stamp nor publish: the watchdog's first ones, the
\* shutdown, a device that dies, time that passes.
LEMMA DeviceInv ==
  ASSUME MicInv,
         \/ WatchdogOpens \/ WatchdogFails \/ WatchdogStopsSilence \/ Shutdown
         \/ DeviceDies \/ CoolDown \/ UNCHANGED vars
  PROVE  MicInv'
<1>1. /\ UNCHANGED <<mode, filePos, contract, callback, listener, refused>>
      /\ spin'.at \in {spin.at, "opened", "recovered", "stopped"}
      /\ spin' \in [at: {"idle", "publish", "loop", "opened", "recovered", "stopped"}, msg: Message]
      /\ spin'.at # spin.at => spin.at \in {"idle", "opened"}
      /\ spin'.at = "publish" => spin' = spin
  <2>1. NoMessage \in Message
    BY SimMicAssumption DEF NoMessage, Message
  <2>2. CASE WatchdogOpens \/ WatchdogStopsSilence \/ Shutdown
    <3>1. PICK place \in {"opened", "recovered", "stopped"} : spin' = [Idle EXCEPT !.at = place]
      BY <2>2 DEF WatchdogOpens, WatchdogStopsSilence, Shutdown
    <3>2. spin' = [at |-> place, msg |-> NoMessage]
      BY <3>1 DEF Idle
    <3> QED
      BY <2>1, <2>2, <3>2 DEF WatchdogOpens, WatchdogStopsSilence, Shutdown, topicVars
  <2>3. CASE WatchdogFails \/ DeviceDies \/ CoolDown \/ UNCHANGED vars
    BY <2>3 DEF WatchdogFails, DeviceDies, CoolDown, vars, topicVars, sourceVars, MicInv, TypeOK
  <2> QED
    BY <2>2, <2>3
<1>2. InOrder'
  BY <1>1 DEF MicInv, InOrder
<1>3. TypeOK'
  <2>1. /\ device' \in {device, "none", "running", "dead"} /\ timer' \in {timer, "none"}
    BY DEF WatchdogOpens, WatchdogFails, WatchdogStopsSilence, Shutdown, DeviceDies, CoolDown,
           vars, sourceVars
  <2>2. fallback' = fallback \/ fallback' = FALSE
    BY DEF WatchdogOpens, WatchdogFails, WatchdogStopsSilence, Shutdown, DeviceDies, CoolDown,
           vars, sourceVars
  <2>3. cooled' = cooled \/ cooled' = TRUE \/ cooled' = FALSE
    BY DEF WatchdogOpens, WatchdogFails, WatchdogStopsSilence, Shutdown, DeviceDies, CoolDown,
           vars, sourceVars
  <2>4. fallback' \in BOOLEAN /\ cooled' \in BOOLEAN
    BY <2>2, <2>3 DEF MicInv, TypeOK
  <2>5. /\ device' \in {"none", "running", "dead"} /\ timer' \in {"none", "file", "silence"}
    BY <2>1 DEF MicInv, TypeOK
  <2> QED
    BY <1>1, <2>4, <2>5 DEF MicInv, TypeOK
<1>4. SourcesApart'
  <2>1. CASE WatchdogOpens
    <3>1. spin' = [Idle EXCEPT !.at = "opened"]
      BY <2>1 DEF WatchdogOpens
    <3>2. spin'.at = "opened"
      BY <3>1 DEF Idle
    <3> QED
      BY <3>2 DEF SourcesApart
  <2>2. CASE WatchdogStopsSilence \/ Shutdown
    <3>1. timer' = "none" /\ spin'.at \notin {"publish", "loop"}
      BY <2>2 DEF WatchdogStopsSilence, Shutdown, Idle
    <3> QED
      BY <3>1 DEF SourcesApart
  <2>3. CASE WatchdogFails \/ DeviceDies \/ CoolDown \/ UNCHANGED vars
    BY <2>3
    DEF MicInv, SourcesApart, WatchdogFails, DeviceDies, CoolDown, vars, sourceVars
  <2> QED
    BY <2>1, <2>2, <2>3
<1> QED
  BY <1>1, <1>2, <1>3, <1>4 DEF MicInv

\* Every step of the microphone keeps its invariant.
LEMMA MicNextInv ==
  ASSUME MicInv, [Next]_vars
  PROVE  MicInv'
BY TickInv, TickPublishInv, LoopFileInv, WatchdogReplacesInv, CallbackOverflowInv,
   CallbackStampInv, CallbackPublishInv, DeviceInv
DEF Next, Serves, SpinStep

\* It holds at first, also when the first thing done is to fall back to silence.
LEMMA MicInitInv == Init => MicInv
<1> SUFFICES ASSUME Init PROVE MicInv
  OBVIOUS
<1>1. Idle.at = "idle" /\ Idle.msg = NoMessage /\ Idle = [at |-> "idle", msg |-> NoMessage]
  BY DEF Idle
<1>2. NoMessage \in Message
  BY SimMicAssumption DEF NoMessage, Message
<1>3. /\ contract \in [sid: 0..(StreamIds - 1), seq: 0..(SeqMod - 1), disc: BOOLEAN]
      /\ contract.seq = 0
  <2>1. (0 + 1) % StreamIds \in 0..(StreamIds - 1) /\ 0 \in 0..(StreamIds - 1)
        /\ 0 \in 0..(SeqMod - 1)
    BY SimMicAssumption
  <2>2. contract \in {FreshContract, Replaced(FreshContract, TRUE)}
    BY DEF Init, StartMic
  <2>3. FreshContract.sid = 0
    BY DEF FreshContract
  <2>4. /\ FreshContract = [sid |-> 0, seq |-> 0, disc |-> FALSE]
        /\ Replaced(FreshContract, TRUE) = [sid |-> (0 + 1) % StreamIds, seq |-> 0, disc |-> TRUE]
    BY <2>3 DEF FreshContract, Replaced
  <2>5. /\ FreshContract \in [sid: 0..(StreamIds - 1), seq: 0..(SeqMod - 1), disc: BOOLEAN]
        /\ FreshContract.seq = 0
    BY <2>1, <2>4
  <2> DEFINE k == Replaced(FreshContract, TRUE)
  <2>6. /\ k \in [sid: 0..(StreamIds - 1), seq: 0..(SeqMod - 1), disc: BOOLEAN]
        /\ k.seq = 0
    <3> DEFINE n == (0 + 1) % StreamIds
    <3>1. n \in 0..(StreamIds - 1) /\ 0 \in 0..(SeqMod - 1)
      BY <2>1
    <3>2. k = [sid |-> n, seq |-> 0, disc |-> TRUE]
      BY <2>4
    <3> HIDE DEF n, k
    <3> QED
      BY <3>1, <3>2
  <2> HIDE DEF k
  <2>7. contract = FreshContract \/ contract = k
    BY <2>2 DEF k
  <2> QED
    BY <2>5, <2>6, <2>7
<1>4. /\ spin = Idle /\ callback = Idle /\ ~refused
      /\ listener = [sid |-> NoMicStream, seq |-> 0, off |-> 0]
      /\ timer # "none" => device = "none"
  BY DEF Init, StartMic, Contract!ResetGuard
<1>5. TypeOK
  <2>1. /\ mode \in {"host_mic", "file", "silence"} /\ device \in {"none", "running", "dead"}
        /\ timer \in {"none", "file", "silence"} /\ filePos = 0
    BY DEF Init, StartMic
  <2>2. 0 \in 0..(FileChunks - 1) /\ 0 \in 0..(SeqMod - 1)
    BY SimMicAssumption
  <2>3. spin \in [at: {"idle"}, msg: Message] /\ callback \in [at: {"idle"}, msg: Message]
    BY <1>1, <1>2, <1>4
  <2>4. fallback \in BOOLEAN /\ cooled \in BOOLEAN /\ refused \in BOOLEAN
    BY DEF Init, StartMic
  <2>5. listener \in [sid: (0..(StreamIds - 1)) \cup {NoMicStream},
                      seq: 0..(SeqMod - 1), off: 0..(SeqMod - 1)]
    BY <1>4, <2>2
  <2> QED
    BY <1>3, <2>1, <2>2, <2>3, <2>4, <2>5 DEF TypeOK
<1>6. SourcesApart /\ InOrder
  BY <1>1, <1>3, <1>4 DEF SourcesApart, InOrder, Expects
<1> QED
  BY <1>4, <1>5, <1>6 DEF MicInv

-----------------------------------------------------------------------------
(***************************************************************************)
(* The speaker                                                             *)
(***************************************************************************)

SpeakerInv == SpeakerTypeOK /\ PlayedUpToGuard

\* What a step of the speaker may give the device.
GoesOn ==
  played' # played =>
    /\ played'.from = 0 \/ (played'.sid = played.sid /\ played'.from = played.upTo)
    /\ played'.playedAs = played'.sentAs

\* A chunk that is played continues what was played.
LEMMA WriteInv ==
  ASSUME SpeakerInv, enabled, NEW m \in Chunks, Write(m), UNCHANGED enabled
  PROVE  SpeakerInv' /\ GoesOn
<1> DEFINE c == m.chunk
<1>1. /\ c \in Chunk /\ m.format \in Formats /\ m.format # NoFormat
      /\ c.sid \in Streams /\ c.sid # NoStream /\ c.seq \in Nat /\ c.off \in Nat /\ c.len \in Nat
  BY SimSpeakerAssumption, NoStreamAssumption DEF Chunk
<1> HIDE DEF c
<1>2. /\ GuardAccepts(guard, c) /\ guard' = GuardAfter(guard, c)
      /\ played' = [sid |-> c.sid, from |-> c.off, upTo |-> c.off + c.len,
                    sentAs |-> m.format, playedAs |-> spkDevice']
  BY DEF Write, Play, c
<1>3. spkDevice' = m.format /\ ~cooling' /\ cooling' \in BOOLEAN
  BY <1>1 DEF Write, NeedsDevice, Opens, SpeakerInv, SpeakerTypeOK
<1>4. /\ played'.sid = c.sid /\ played'.from = c.off /\ played'.upTo = c.off + c.len
      /\ played'.sentAs = m.format /\ played'.playedAs = m.format
  BY <1>2, <1>3
<1>5. c.start \/ (guard.sid = c.sid /\ guard.off = c.off)
  BY <1>2 DEF GuardAccepts, GuardOpened
<1>6. c.start => c.off = 0
  BY <1>2 DEF GuardAccepts
<1>7. GoesOn
  BY <1>1, <1>4, <1>5, <1>6 DEF GoesOn, SpeakerInv, PlayedUpToGuard
<1>8. CASE c.end
  <2>1. guard' = [sid |-> NoStream, seq |-> 0, off |-> 0]
    BY <1>2, <1>8 DEF GuardAfter, ResetGuard
  <2>2. SpeakerTypeOK'
    BY <1>1, <1>2, <1>3, <2>1 DEF SpeakerInv, SpeakerTypeOK, Guard
  <2>3. PlayedUpToGuard'
    BY <2>1 DEF PlayedUpToGuard
  <2> QED
    BY <1>7, <2>2, <2>3 DEF SpeakerInv
<1>9. CASE ~c.end
  <2>1. guard' = [sid |-> c.sid, seq |-> c.seq + 1, off |-> c.off + c.len]
    BY <1>2, <1>9 DEF GuardAfter
  <2>2. SpeakerTypeOK'
    BY <1>1, <1>2, <1>3, <2>1 DEF SpeakerInv, SpeakerTypeOK, Guard
  <2>3. PlayedUpToGuard'
    BY <1>4, <2>1 DEF PlayedUpToGuard
  <2> QED
    BY <1>7, <2>2, <2>3 DEF SpeakerInv
<1> QED
  BY <1>8, <1>9

\* A chunk that is refused or lost closes the stream and plays nothing.
LEMMA NotPlayedInv ==
  ASSUME SpeakerInv, guard' = ResetGuard, UNCHANGED <<enabled, played>>,
         \/ UNCHANGED <<spkDevice, cooling>>
         \/ spkDevice' = NoFormat /\ cooling' = TRUE
  PROVE  SpeakerInv' /\ GoesOn
<1>1. guard' \in Guard /\ guard'.sid = NoStream
  BY DEF ResetGuard, Guard
<1>2. SpeakerTypeOK'
  <2>1. CASE UNCHANGED <<spkDevice, cooling>>
    BY <1>1, <2>1 DEF SpeakerInv, SpeakerTypeOK
  <2>2. CASE spkDevice' = NoFormat /\ cooling' = TRUE
    BY <1>1, <2>2 DEF SpeakerInv, SpeakerTypeOK
  <2> QED
    BY <2>1, <2>2
<1>3. PlayedUpToGuard' /\ GoesOn
  BY <1>1 DEF PlayedUpToGuard, GoesOn
<1> QED
  BY <1>2, <1>3 DEF SpeakerInv

\* Receiving a chunk.
LEMMA OnSpeakerInv ==
  ASSUME SpeakerInv, NEW m \in Chunks, OnSpeaker(m)
  PROVE  SpeakerInv' /\ GoesOn
<1>1. enabled /\ UNCHANGED enabled
  BY DEF OnSpeaker
<1>2. CASE Write(m)
  BY <1>1, <1>2, WriteInv
<1>3. CASE Refuse(m) \/ StillCooling(m) \/ CannotOpen(m) \/ CannotWrite(m)
  BY <1>1, <1>3, NotPlayedInv
  DEF Refuse, StillCooling, CannotOpen, CannotWrite, OpenFails, Lose
<1> QED
  BY <1>2, <1>3 DEF OnSpeaker

-----------------------------------------------------------------------------
(***************************************************************************)
(* The node                                                                *)
(***************************************************************************)

BridgeInv == MicInv /\ SpeakerInv

\* Both halves' invariants hold at first.
LEMMA BridgeInitInv == BridgeInit => BridgeInv
<1>1. SpeakerInit => SpeakerInv
  <2> SUFFICES ASSUME SpeakerInit PROVE SpeakerInv
    OBVIOUS
  <2>1. guard \in Guard /\ guard.sid = NoStream
    BY DEF SpeakerInit, ResetGuard, Guard
  <2>2. /\ enabled \in BOOLEAN /\ cooling \in BOOLEAN /\ spkDevice \in Formats \cup {NoFormat}
        /\ spkDevice # NoFormat => enabled /\ ~cooling
    BY DEF SpeakerInit
  <2>3. played \in [sid: Streams \cup {NoStream}, from: Nat, upTo: Nat,
                    sentAs: Formats \cup {NoFormat}, playedAs: Formats \cup {NoFormat}]
    BY DEF SpeakerInit, NothingPlayed
  <2>4. SpeakerTypeOK
    BY <2>1, <2>2, <2>3 DEF SpeakerTypeOK
  <2> QED
    BY <2>1, <2>4 DEF SpeakerInv, PlayedUpToGuard
<1> QED
  BY <1>1, MicInitInv DEF BridgeInit, BridgeInv

\* Every step of the node keeps them.
LEMMA BridgeNextInv ==
  ASSUME BridgeInv, [BridgeNext]_<<vars, speakerVars>>
  PROVE  BridgeInv' /\ GoesOn
<1>1. ASSUME UNCHANGED speakerVars PROVE SpeakerInv' /\ GoesOn
  BY <1>1 DEF speakerVars, BridgeInv, SpeakerInv, SpeakerTypeOK, PlayedUpToGuard, GoesOn
<1>2. ASSUME UNCHANGED vars PROVE MicInv'
  BY <1>2, MicNextInv DEF BridgeInv
<1>3. CASE Serves /\ UNCHANGED speakerVars
  BY <1>1, <1>3, MicNextInv DEF Next, BridgeInv
<1>4. CASE ServeSpeaker
  BY <1>2, <1>4, OnSpeakerInv DEF ServeSpeaker, BridgeInv
<1>5. CASE SpeakerCoolDown /\ UNCHANGED vars
  <2>1. SpeakerInv' /\ GoesOn
    BY <1>5 DEF SpeakerCoolDown, BridgeInv, SpeakerInv, SpeakerTypeOK, PlayedUpToGuard, GoesOn
  <2> QED
    BY <1>2, <1>5, <2>1 DEF BridgeInv
<1>6. CASE BridgeShutdown
  <2>1. MicInv'
    BY <1>6, MicNextInv DEF BridgeShutdown, Next, BridgeInv
  <2>2. SpeakerInv' /\ GoesOn
    BY <1>6 DEF BridgeShutdown, BridgeInv, SpeakerInv, SpeakerTypeOK, PlayedUpToGuard, GoesOn
  <2> QED
    BY <2>1, <2>2 DEF BridgeInv
<1>7. CASE UNCHANGED <<vars, speakerVars>>
  BY <1>1, <1>2, <1>7 DEF BridgeInv
<1> QED
  BY <1>3, <1>4, <1>5, <1>6, <1>7 DEF BridgeNext, BridgeInv

\* The invariant holds in every state of the node.
LEMMA Invariance == BridgeSpec => []BridgeInv
<1>1. BridgeInv /\ [BridgeNext]_<<vars, speakerVars>> => BridgeInv'
  BY BridgeNextInv
<1> QED
  BY <1>1, BridgeInitInv, PTL DEF BridgeSpec

\* All variables of both halves keep their types; in particular a device is open
\* only when the speaker is enabled and no failure is waited out.
THEOREM TypesCorrect == BridgeSpec => []BothTypesOK
<1>1. BridgeInv => BothTypesOK
  BY DEF BridgeInv, MicInv, SpeakerInv, BothTypesOK
<1> QED
  BY <1>1, Invariance, PTL

\* However the executor's and PortAudio's threads are interleaved, through file
\* loops, overflows, fallbacks and recoveries: mic_raw is the stream the contract
\* describes, and a subscriber that loses nothing refuses nothing.
THEOREM ObeysContract == BridgeSpec => []PublishedObeysContract
<1>1. BridgeInv => PublishedObeysContract
  BY DEF BridgeInv, MicInv, PublishedObeysContract
<1> QED
  BY <1>1, Invariance, PTL

\* The speaker has played an open stream up to the offset its guard expects.
THEOREM PlayedToGuard == BridgeSpec => []PlayedUpToGuard
<1>1. BridgeInv => PlayedUpToGuard
  BY DEF BridgeInv, SpeakerInv
<1> QED
  BY <1>1, Invariance, PTL

\* Whatever devices fail to open or to take samples, what is played are heads of
\* streams without a gap, in the format they were sent in.
THEOREM HeadsPlayed == BridgeSpec => PlaysHeads
<1>1. BridgeInv /\ [BridgeNext]_<<vars, speakerVars>> =>
        [played' # played =>
           /\ played'.from = 0 \/ (played'.sid = played.sid /\ played'.from = played.upTo)
           /\ played'.playedAs = played'.sentAs]_speakerVars
  BY BridgeNextInv DEF GoesOn
<1> QED
  BY <1>1, Invariance, PTL DEF BridgeSpec, PlaysHeads
=============================================================================
