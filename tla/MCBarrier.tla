------------------------------ MODULE MCBarrier ------------------------------
(***************************************************************************)
(* Barrier on seven requests of three keys, one of them a bypassing one:   *)
(* four of a key with room for three at its barrier, and three keys with   *)
(* room for two barriers, so that both limits are reached.                 *)
(***************************************************************************)
EXTENDS BarrierSerial

CONSTANTS j1, j2, j3, j4, j5, j6, j7, k1, k2, k3

MCJob == {j1, j2, j3, j4, j5, j6, j7}
MCKey == {k1, k2, k3}
MCbarrier_key ==
  [j \in MCJob |-> CASE j \in {j1, j2, j3, j4, j7} -> k1 [] j = j5 -> k2 [] j = j6 -> k3]
=============================================================================
