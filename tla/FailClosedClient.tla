-------------------------- MODULE FailClosedClient --------------------------
(***************************************************************************)
(* What both robot adapters promise the audio service they drive, with     *)
(* everything else abstracted away: requests are put one at a time, the    *)
(* next only once the previous one was answered with success; the first    *)
(* failure is final, nothing is requested after it.  G1VoiceBridge and     *)
(* Go2SpeakerBridge are shown to implement it.                             *)
(***************************************************************************)
EXTENDS Integers

VARIABLES
  asked,      \* requests published so far
  completed,  \* answers with success consumed so far
  failed      \* a fault has latched

clientVars == <<asked, completed, failed>>

ClientTypeOK == /\ asked \in Nat
                /\ completed \in Nat
                /\ failed \in BOOLEAN

ClientInit == asked = 0 /\ completed = 0 /\ failed = FALSE

Ask == /\ ~failed
       /\ completed = asked
       /\ asked' = asked + 1
       /\ UNCHANGED <<completed, failed>>

\* The answer to the last request may still be counted after a fault.
Complete == /\ completed < asked
            /\ completed' = completed + 1
            /\ UNCHANGED <<asked, failed>>

\* An answer can be counted and then found unusable (an impossible volume).
Fail == /\ ~failed
        /\ failed' = TRUE
        /\ completed' \in {completed, completed + 1}
        /\ completed' <= asked
        /\ UNCHANGED asked

ClientNext == Ask \/ Complete \/ Fail

ClientSpec == ClientInit /\ [][ClientNext]_clientVars
=============================================================================
