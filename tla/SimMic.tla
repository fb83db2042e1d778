------------------------------- MODULE SimMic -------------------------------
(***************************************************************************)
(* The microphone half of the simulator's AudioBridge.  Two threads        *)
(* publish on mic_raw: the executor's thread, which runs the timers and    *)
(* the watchdog, and PortAudio's, which runs _mic_callback.  Stream        *)
(* identifier and counters are shared under _mic_contract_lock; the        *)
(* message is published after the lock is released, so stamping a chunk    *)
(* and publishing it are two steps.  `spin' and `callback' say where each  *)
(* thread is.                                                              *)
(*                                                                         *)
(* A chunk is the unit of length, so that sequence number and sample       *)
(* offset agree.  `listener' is the guard of a subscriber that loses       *)
(* nothing: what it refuses, every subscriber refuses.                     *)
(***************************************************************************)
EXTENDS Integers

CONSTANTS
  FileChunks,  \* chunks in one pass through the WAV file
  StreamIds,   \* bound: identifiers are drawn from 0 .. StreamIds - 1 in turn
  SeqMod       \* bound: sequence numbers are 0, then 1 .. SeqMod - 1 in turn

ASSUME SimMicAssumption ==
  /\ FileChunks \in Nat \ {0}
  /\ StreamIds \in Nat /\ StreamIds > 1
  /\ SeqMod \in Nat /\ SeqMod > 2

NoMicStream == -1

Contract == INSTANCE StreamGuard WITH Streams <- 0..(StreamIds - 1), NoStream <- NoMicStream

VARIABLES
  mode,      \* mic_mode, fixed at start-up
  device,    \* _mic_stream: none open, running, or open on a device that died
  timer,     \* _mic_timer and what it runs
  fallback,  \* _mic_in_fallback
  cooled,    \* MIC_RETRY_COOLDOWN_S have passed since _fallback_since
  filePos,   \* _file_pos, in chunks
  contract,  \* _mic_stream_id, _mic_sequence, _mic_discontinuity_pending
  spin,      \* the executor's thread: what it does, and its stamped message
  callback,  \* PortAudio's thread, likewise
  listener,  \* a loss-free subscriber's StreamGuard
  refused    \* the subscriber has refused a chunk

sourceVars == <<mode, device, timer, fallback, cooled, filePos>>
topicVars == <<listener, refused>>
vars == <<sourceVars, contract, spin, callback, topicVars>>

Message == [sid: 0..(StreamIds - 1), seq: 0..(SeqMod - 1), off: 0..(SeqMod - 1), len: {1},
            start: BOOLEAN, end: BOOLEAN, disc: BOOLEAN, wellFormed: {TRUE}]

NoMessage == [sid |-> 0, seq |-> 0, off |-> 0, len |-> 1, start |-> FALSE, end |-> FALSE,
              disc |-> FALSE, wellFormed |-> TRUE]

Idle == [at |-> "idle", msg |-> NoMessage]

TypeOK ==
  /\ mode \in {"host_mic", "file", "silence"}
  /\ device \in {"none", "running", "dead"}
  /\ timer \in {"none", "file", "silence"}
  /\ fallback \in BOOLEAN /\ cooled \in BOOLEAN
  /\ filePos \in 0..(FileChunks - 1)
  /\ contract \in [sid: 0..(StreamIds - 1), seq: 0..(SeqMod - 1), disc: BOOLEAN]
  /\ spin \in [at: {"idle", "publish", "loop", "opened", "recovered", "stopped"}, msg: Message]
  /\ callback \in [at: {"idle", "stamp", "publish"}, msg: Message]
  /\ listener \in [sid: (0..(StreamIds - 1)) \cup {NoMicStream},
                   seq: 0..(SeqMod - 1), off: 0..(SeqMod - 1)]
  /\ refused \in BOOLEAN

\* The successor of a sequence number; 0 is the mark of a START and not reused.
Successor(n) == IF n + 1 < SeqMod THEN n + 1 ELSE 1

Replaced(k, discontinuity) ==
  [sid |-> (k.sid + 1) % StreamIds, seq |-> 0, disc |-> discontinuity]

FreshContract == [sid |-> 0, seq |-> 0, disc |-> FALSE]

\* Faulty variant: a device that cannot be opened leaves no timer behind.
StartMic_NoSilence ==
  \/ /\ mode = "file" /\ timer = "file" /\ device = "none" /\ fallback = FALSE
     /\ contract = FreshContract
  \/ /\ mode = "silence" /\ timer = "silence" /\ device = "none" /\ fallback = FALSE
     /\ contract = FreshContract
  \/ /\ mode = "host_mic" /\ timer = "none" /\ device = "running" /\ fallback = FALSE
     /\ contract = FreshContract
  \/ /\ mode = "host_mic" /\ timer = "none" /\ device = "none" /\ fallback = TRUE
     /\ contract = Replaced(FreshContract, TRUE)

\* _start_mic: the source of each mode; a host microphone that cannot be opened
\* is replaced by silence (_enter_mic_fallback).
StartMic ==
  \/ /\ mode = "file" /\ timer = "file" /\ device = "none" /\ fallback = FALSE
     /\ contract = FreshContract
  \/ /\ mode = "silence" /\ timer = "silence" /\ device = "none" /\ fallback = FALSE
     /\ contract = FreshContract
  \/ /\ mode = "host_mic" /\ timer = "none" /\ device = "running" /\ fallback = FALSE
     /\ contract = FreshContract
  \/ /\ mode = "host_mic" /\ timer = "silence" /\ device = "none" /\ fallback = TRUE
     /\ contract = Replaced(FreshContract, TRUE)

Init ==
  /\ StartMic
  /\ cooled = FALSE
  /\ filePos = 0
  /\ spin = Idle /\ callback = Idle
  /\ listener = Contract!ResetGuard /\ refused = FALSE

-----------------------------------------------------------------------------
(***************************************************************************)
(* The two halves of _publish_audio                                        *)
(***************************************************************************)

\* Under the lock: the message is stamped and the counters move on.
Stamped(end) ==
  [sid |-> contract.sid, seq |-> contract.seq, off |-> contract.seq, len |-> 1,
   start |-> contract.seq = 0, end |-> end, disc |-> contract.disc, wellFormed |-> TRUE]

MoveOn == contract' = [contract EXCEPT !.seq = Successor(@), !.disc = FALSE]

Replace(discontinuity) == contract' = Replaced(contract, discontinuity)

\* The guard's counters in the arithmetic of the model.
Heard(c) ==
  LET g == Contract!GuardAfter(listener, c)
  IN IF g.sid = NoMicStream THEN g
     ELSE [g EXCEPT !.seq = Successor(c.seq), !.off = Successor(c.seq)]

\* After the lock is released.
Publish(c) ==
  IF Contract!GuardAccepts(listener, c)
  THEN listener' = Heard(c) /\ UNCHANGED refused
  ELSE listener' = Contract!ResetGuard /\ refused' = TRUE

-----------------------------------------------------------------------------
(***************************************************************************)
(* The executor's thread                                                   *)
(***************************************************************************)

\* Faulty variant: the end of the file is noticed one chunk late.
TickFile_OffByOne ==
  /\ spin.at = "idle" /\ timer = "file"
  /\ spin' = [at |-> "publish", msg |-> Stamped(filePos = FileChunks)]
  /\ filePos' = (IF filePos = FileChunks THEN 0 ELSE filePos + 1)
  /\ MoveOn
  /\ UNCHANGED <<mode, device, timer, fallback, cooled, callback, topicVars>>

\* _tick_file: the last chunk of a pass carries END.
TickFile ==
  /\ spin.at = "idle" /\ timer = "file"
  /\ spin' = [at |-> "publish", msg |-> Stamped(filePos + 1 = FileChunks)]
  /\ filePos' = (filePos + 1) % FileChunks
  /\ MoveOn
  /\ UNCHANGED <<mode, device, timer, fallback, cooled, callback, topicVars>>

\* _tick_silence
TickSilence ==
  /\ spin.at = "idle" /\ timer = "silence"
  /\ spin' = [at |-> "publish", msg |-> Stamped(FALSE)]
  /\ MoveOn
  /\ UNCHANGED <<sourceVars, callback, topicVars>>

TickPublish ==
  /\ spin.at = "publish"
  /\ Publish(spin.msg)
  /\ spin' = [Idle EXCEPT !.at = IF spin.msg.end THEN "loop" ELSE "idle"]
  /\ UNCHANGED <<sourceVars, contract, callback>>

\* _tick_file, after the END chunk
LoopFile ==
  /\ spin.at = "loop"
  /\ Replace(FALSE)
  /\ spin' = Idle
  /\ UNCHANGED <<sourceVars, callback, topicVars>>

\* _tick_watchdog: the device opens and its callback runs from here on, ...
WatchdogOpens ==
  /\ spin.at = "idle" /\ mode = "host_mic" /\ fallback /\ cooled
  /\ device' = "running"
  /\ spin' = [Idle EXCEPT !.at = "opened"]
  /\ UNCHANGED <<mode, timer, fallback, cooled, filePos, contract, callback, topicVars>>

\* ... or does not.
WatchdogFails ==
  /\ spin.at = "idle" /\ mode = "host_mic" /\ fallback /\ cooled
  /\ cooled' = FALSE
  /\ UNCHANGED <<mode, device, timer, fallback, filePos, contract, spin, callback, topicVars>>

\* Faulty variant: the silence timer is not destroyed.
WatchdogStopsSilence_KeepsTimer ==
  /\ spin.at = "opened"
  /\ fallback' = FALSE
  /\ spin' = [Idle EXCEPT !.at = "recovered"]
  /\ UNCHANGED <<mode, device, timer, cooled, filePos, contract, callback, topicVars>>

WatchdogStopsSilence ==
  /\ spin.at = "opened"
  /\ timer' = "none"
  /\ fallback' = FALSE
  /\ spin' = [Idle EXCEPT !.at = "recovered"]
  /\ UNCHANGED <<mode, device, cooled, filePos, contract, callback, topicVars>>

WatchdogReplaces ==
  /\ spin.at = "recovered"
  /\ Replace(TRUE)
  /\ spin' = Idle
  /\ UNCHANGED <<sourceVars, callback, topicVars>>

\* shutdown()
Shutdown ==
  /\ spin.at = "idle"
  /\ timer' = "none" /\ device' = "none"
  /\ spin' = [Idle EXCEPT !.at = "stopped"]
  /\ UNCHANGED <<mode, fallback, cooled, filePos, contract, callback, topicVars>>

-----------------------------------------------------------------------------
(***************************************************************************)
(* PortAudio's thread, and the rest of the environment                     *)
(***************************************************************************)

\* _mic_callback, the input overflowed
CallbackOverflow ==
  /\ callback.at = "idle" /\ device = "running"
  /\ Replace(TRUE)
  /\ callback' = [Idle EXCEPT !.at = "stamp"]
  /\ UNCHANGED <<sourceVars, spin, topicVars>>

CallbackStamp ==
  /\ callback.at = "stamp" \/ (callback.at = "idle" /\ device = "running")
  /\ callback' = [at |-> "publish", msg |-> Stamped(FALSE)]
  /\ MoveOn
  /\ UNCHANGED <<sourceVars, spin, topicVars>>

CallbackPublish ==
  /\ callback.at = "publish"
  /\ Publish(callback.msg)
  /\ callback' = Idle
  /\ UNCHANGED <<sourceVars, contract, spin>>

\* The device goes away; PortAudio stops calling.
DeviceDies ==
  /\ device = "running"
  /\ device' = "dead"
  /\ UNCHANGED <<mode, timer, fallback, cooled, filePos, contract, spin, callback, topicVars>>

CoolDown ==
  /\ fallback /\ ~cooled
  /\ cooled' = TRUE
  /\ UNCHANGED <<mode, device, timer, fallback, filePos, contract, spin, callback, topicVars>>

SpinStep ==
  \/ TickFile \/ TickSilence \/ TickPublish \/ LoopFile
  \/ WatchdogStopsSilence \/ WatchdogReplaces

Serves ==
  \/ SpinStep
  \/ WatchdogOpens \/ WatchdogFails
  \/ CallbackOverflow \/ CallbackStamp \/ CallbackPublish
  \/ DeviceDies \/ CoolDown

Next == Serves \/ Shutdown

Spec == Init /\ [][Next]_vars

\* Both threads keep running; the watchdog's timer fires and time passes, but the
\* device need not ever open.
Fairness ==
  /\ WF_vars(SpinStep) /\ WF_vars(WatchdogOpens \/ WatchdogFails) /\ WF_vars(CoolDown)
  /\ WF_vars(CallbackStamp) /\ WF_vars(CallbackPublish)

FairSpec == Spec /\ Fairness

-----------------------------------------------------------------------------
(***************************************************************************)
(* Properties                                                              *)
(***************************************************************************)

\* Whatever the threads' order, and through overflows, recoveries and file loops,
\* the chunks are published in the order they were stamped in and every
\* replacement of a stream is announced: a subscriber that loses none refuses none.
PublishedObeysContract == ~refused

\* As long as the device that was opened lives, mic_raw never goes dark: whatever
\* the subscriber heard last, it hears another chunk.  In particular a host
\* microphone that cannot be opened is stood in for by silence.
StaysAlive ==
  \A s \in (0..(StreamIds - 1)) \cup {NoMicStream}, n \in 0..(SeqMod - 1) :
    (listener.sid = s /\ listener.seq = n) ~>
      (listener.sid # s \/ listener.seq # n \/ device = "dead" \/ spin.at = "stopped")

\* The comment on the watchdog, "retry a dead mic device", and the docstring of
\* the fallback, "keep the topic alive with silence, retry later": a host
\* microphone that died is opened again or stood in for by silence.
DeadDeviceIsRetried ==
  device = "dead" ~> (device = "running" \/ timer = "silence" \/ spin.at = "stopped")
=============================================================================
