---------------------------- MODULE CommandQueue ----------------------------
(***************************************************************************)
(* What an M3DL renderer (an MPR) promises to those who send it commands:  *)
(* it takes them in the order they were sent, one at a time, each one      *)
(* whole.  Commands are numbered from 0.                                   *)
(***************************************************************************)
EXTENDS Naturals

VARIABLES
  sent,     \* commands that were sent completely
  taken,    \* commands that the renderer has begun
  working   \* it is executing command number taken - 1

vars == <<sent, taken, working>>

Init == sent = 0 /\ taken = 0 /\ working = FALSE

Send   == sent' = sent + 1 /\ UNCHANGED <<taken, working>>
Take   == /\ ~working
          /\ taken < sent
          /\ taken' = taken + 1
          /\ working' = TRUE
          /\ UNCHANGED sent
Finish == working /\ working' = FALSE /\ UNCHANGED <<sent, taken>>

Next == Send \/ Take \/ Finish

Spec == Init /\ [][Next]_vars
=============================================================================
