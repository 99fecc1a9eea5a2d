----------------------------- MODULE SerialByKey -----------------------------
(***************************************************************************)
(* What a barrier promises: requests of one key run one at a time and in   *)
(* the order they came; requests of different keys, and requests that      *)
(* belong to no key, run side by side; any request may be refused when it  *)
(* comes, and none after that.                                             *)
(***************************************************************************)
EXTENDS Naturals, Sequences

CONSTANTS Job, Key, barrier_key, Bypass

VARIABLES
  waiting,   \* the accepted and not yet started requests of each key, oldest first
  running,   \* the started and not yet finished requests
  finished   \* the finished and the refused requests

vars == <<waiting, running, finished>>

Init ==
  /\ waiting = [k \in Key |-> << >>]
  /\ running = {}
  /\ finished = {}

Known(j) ==
  \/ j \in running \cup finished
  \/ \E k \in Key : \E i \in 1..Len(waiting[k]) : waiting[k][i] = j

Busy(k) == \E j \in running \ Bypass : barrier_key[j] = k

Accept(j) ==
  /\ ~ Known(j)
  /\ j \notin Bypass
  /\ waiting' = [waiting EXCEPT ![barrier_key[j]] = Append(@, j)]
  /\ UNCHANGED <<running, finished>>

StartAtOnce(j) ==
  /\ ~ Known(j)
  /\ j \in Bypass \/ (~ Busy(barrier_key[j]) /\ waiting[barrier_key[j]] = << >>)
  /\ running' = running \cup {j}
  /\ UNCHANGED <<waiting, finished>>

Refuse(j) ==
  /\ ~ Known(j)
  /\ finished' = finished \cup {j}
  /\ UNCHANGED <<waiting, running>>

(* the oldest waiting request of each key of ks starts *)
Start(ks) ==
  /\ \A k \in ks : ~ Busy(k) /\ waiting[k] # << >>
  /\ running' = running \cup {Head(waiting[k]) : k \in ks}
  /\ waiting' = [k \in Key |-> IF k \in ks THEN Tail(waiting[k]) ELSE waiting[k]]
  /\ UNCHANGED finished

Finish(j) ==
  /\ j \in running
  /\ running' = running \ {j}
  /\ finished' = finished \cup {j}
  /\ UNCHANGED waiting

Next ==
  \/ \E j \in Job : Accept(j) \/ StartAtOnce(j) \/ Refuse(j) \/ Finish(j)
  \/ \E ks \in SUBSET Key : Start(ks)

Spec == Init /\ [][Next]_vars
=============================================================================
