-------------------------- MODULE DiagnosticRelay --------------------------
(***************************************************************************)
(* How a domain gateway hands diagnostics from the robot's domain to the   *)
(* application's: a queue of one, whose producer replaces what is waiting. *)
(* queue.Queue locks each operation, not the three of a replacement        *)
(* (a put that finds the queue full, a get, a second put), so the          *)
(* consumer's thread may run between them.  G1 and Go2 have the same code. *)
(*                                                                         *)
(* Diagnostics are numbered in the order in which the producer sees them;  *)
(* only valid ones get a number.                                           *)
(***************************************************************************)
EXTENDS Naturals, Sequences

CONSTANT MaxDiagnostics  \* bound: valid diagnostics in one behaviour

VARIABLES
  slot,      \* _diagnostic_queue, at most one number
  handler,   \* where _on_diagnostic is between two queue operations
  held,      \* the diagnostic it is handling, 0 when it is idle
  newest,    \* the last valid diagnostic received
  shown      \* the last one published in the application's domain

relayVars == <<slot, handler, held, newest, shown>>

Handler == {"idle", "evict", "put again", "raised"}

RelayInit ==
  /\ slot = <<>> /\ handler = "idle" /\ held = 0
  /\ newest = 0 /\ shown = 0

\* _on_diagnostic up to its first put: an invalid diagnostic is dropped.
Receive(valid) ==
  /\ handler = "idle"
  /\ IF valid
     THEN /\ newest < MaxDiagnostics
          /\ newest' = newest + 1
          /\ IF slot = <<>>
             THEN slot' = <<newest'>> /\ UNCHANGED <<handler, held>>
             ELSE handler' = "evict" /\ held' = newest' /\ UNCHANGED slot
     ELSE UNCHANGED <<slot, handler, held, newest>>
  /\ UNCHANGED shown

\* Faulty variant: the queue is found full, and left so.
Evict_LeavesSlot ==
  /\ handler = "evict"
  /\ handler' = "put again"
  /\ UNCHANGED <<slot, held, newest, shown>>

\* The get of a replacement: the consumer may have been faster.
Evict ==
  /\ handler = "evict"
  /\ slot' = <<>>
  /\ handler' = "put again"
  /\ UNCHANGED <<held, newest, shown>>

\* Faulty variant: the waiting diagnostic goes, the new one is not put.
PutAgain_Dropped ==
  /\ handler = "put again"
  /\ handler' = "idle"
  /\ held' = 0
  /\ UNCHANGED <<slot, newest, shown>>

\* The second put: no handler of its own, queue.Full would leave the callback.
PutAgain ==
  /\ handler = "put again"
  /\ IF slot = <<>> THEN slot' = <<held>> /\ handler' = "idle"
     ELSE UNCHANGED slot /\ handler' = "raised"
  /\ held' = 0
  /\ UNCHANGED <<newest, shown>>

\* _flush_diagnostic
Show ==
  /\ slot # <<>>
  /\ shown' = Head(slot)
  /\ slot' = <<>>
  /\ UNCHANGED <<handler, held, newest>>

\* _flush_diagnostic once the application's node is gone: publish raises, and
\* what was taken is lost.
Lose ==
  /\ slot # <<>>
  /\ slot' = <<>>
  /\ UNCHANGED <<handler, held, newest, shown>>

\* The queue.Full that nothing catches is never raised.
ReplacementSucceeds == handler # "raised"
=============================================================================
