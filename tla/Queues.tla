------------------------------- MODULE Queues -------------------------------
(* Queues with elements taken out, as functions that a proof can follow. *)
EXTENDS Naturals, Sequences

(* the queue without its element at i *)
Taken(queue, i) == [j \in 1 .. Len(queue) - 1 |-> IF j < i THEN queue[j] ELSE queue[j + 1]]

(* the queue without the elements of S, in the same order *)
Without(queue, S) ==
  LET kept[n \in 0 .. Len(queue)] ==
        IF n = 0 THEN << >>
        ELSE IF queue[n] \in S THEN kept[n - 1] ELSE Append(kept[n - 1], queue[n])
  IN kept[Len(queue)]
=============================================================================
