------------------------------- MODULE Channel -------------------------------
(***************************************************************************)
(* What LockQueue (libSdk/Common/LockQueue.h) promises: a bounded          *)
(* first-in first-out channel.  Values are numbered as they are sent, so   *)
(* the channel holds received + 1 .. sent.                                 *)
(***************************************************************************)
EXTENDS Integers

CONSTANT Capacity

VARIABLES sent, received

Init == sent = 0 /\ received = 0

Send == sent - received < Capacity /\ sent' = sent + 1 /\ received' = received

Receive == received < sent /\ received' = received + 1 /\ sent' = sent

Next == Send \/ Receive

Spec == Init /\ [][Next]_<<sent, received>>
==============================================================================
