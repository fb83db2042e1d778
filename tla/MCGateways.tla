----------------------------- MODULE MCGateways -----------------------------
(***************************************************************************)
(* An instance of the two domain gateways.                                 *)
(***************************************************************************)
EXTENDS DomainGateways

CONSTANT FirstStream

\* Utterances of one chunk or two, and beginnings of another stream.
Utterances(Message) ==
  {m \in Message : /\ m.seq = m.off /\ m.len = 1 /\ m.wellFormed
                   /\ m.start <=> m.seq = 0
                   /\ m.disc => m.start
                   /\ m.sid # FirstStream => m.start /\ ~m.end}

MCChunks ==
  Utterances([sid: Streams, seq: {0, 1}, off: {0, 1}, len: {1}, start: BOOLEAN,
              end: BOOLEAN, disc: BOOLEAN, wellFormed: {TRUE}])

MCG1Chunks ==
  Utterances([sid: Streams, seq: {0, 1}, off: {0, 1}, len: {1}, rate: {1}, start: BOOLEAN,
              end: BOOLEAN, disc: BOOLEAN, wellFormed: {TRUE}])

MCLimits == [maxChunk |-> 1, target |-> 1, maxBuffer |-> 2, maxGap |-> 1, idle |-> 1]
=============================================================================
