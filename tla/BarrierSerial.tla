---------------------------- MODULE BarrierSerial ----------------------------
(***************************************************************************)
(* How Barrier implements SerialByKey: a request runs while the next unit  *)
(* has it, and the head of a key's queue waits until main_chain's timer    *)
(* hands it on.                                                            *)
(***************************************************************************)
EXTENDS Barrier

Waiting ==
  [k \in Key |->
    IF HasBarrier(k) /\ Head(barrier[k]) \in asked THEN Tail(barrier[k]) ELSE barrier[k]]

Finished == {j \in Job : outcome[j] \in {"answered", "busy"}}

Serial == INSTANCE SerialByKey WITH
  waiting <- Waiting,
  running <- asked,
  finished <- Finished

(***************************************************************************)
(* The barrier implements per-key serial execution in order of arrival.    *)
(***************************************************************************)
ImplementsSerialByKey == Serial!Spec
=============================================================================
