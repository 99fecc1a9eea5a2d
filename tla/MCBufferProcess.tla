--------------------------- MODULE MCBufferProcess ---------------------------
(***************************************************************************)
(* Instances of BufferRestart for TLC: the configurations of each run, and *)
(* the symmetry of values and keys.                                        *)
(***************************************************************************)
EXTENDS BufferRestart, TLC

Symmetry == Permutations(Value) \cup Permutations(Key)

Start(mode, purges, queues, scarce) ==
  [update_mode_ |-> mode, insert_order_purge |-> purges, use_queue |-> queues,
   memory_may_run_out |-> scarce]

(* write-through, with copies updated or purged and the connector in the same thread or *)
(* in another one, and write-back with the connector in another thread                   *)
CacheConfig == {Start("SYNC", p, q, TRUE) : p \in BOOLEAN, q \in BOOLEAN}
                 \cup {Start("ASYNC", FALSE, FALSE, TRUE)}

(* in one thread: write-back and write-through *)
OneThreadConfig == {Start("ASYNC", FALSE, TRUE, FALSE), Start("SYNC", FALSE, TRUE, FALSE)}

WriteBackOneThread == {Start("ASYNC", FALSE, TRUE, FALSE)}
WriteThroughOneThread == {Start("SYNC", FALSE, TRUE, FALSE)}
=============================================================================
