------------------------------- MODULE Barrier -------------------------------
(***************************************************************************)
(* BarrierAskAnswerChain: the unit of the request chain that lets at most  *)
(* one request of a key pass to the next unit, and parks the others in the *)
(* key's BarrierQueue in the order they came.  dtcd builds one in front of *)
(* the cache and one behind it.                                            *)
(*                                                                         *)
(* A job is asked once, in job_ask_procedure.  The units on its way push   *)
(* themselves on its reply path (TaskReplyList); turn_around_job_answer    *)
(* pops the last one and runs its job_answer_procedure.  The unit behind   *)
(* the barrier is the environment here: it answers, in any order, the jobs *)
(* it was given.                                                           *)
(***************************************************************************)
EXTENDS Naturals, Sequences, FiniteSets, Functions

CONSTANTS
  Job,             \* the requests (DTCJobOperation objects)
  Key,             \* the values of DTCJobOperation::barrier_key()
  barrier_key,     \* the key of each request
  Bypass,          \* system commands other than Migrate, and batch requests
  max_barrier,     \* how many keys may have a barrier
  max_key_count_   \* how many requests may be at one barrier

ASSUME KeyAssumption == IsFiniteSet(Key) /\ barrier_key \in [Job -> Key]
ASSUME BypassAssumption == Bypass \subseteq Job
ASSUME LimitAssumption == max_barrier \in Nat /\ max_key_count_ \in Nat \ {0}

VARIABLES
  barrier,   \* hash_slot_: the BarrierQueue of each key, << >> if it has none
  count,     \* number of barriers in use
  free,      \* number of BarrierQueues on free_list
  queue,     \* main_chain.queue: jobs that indirect_notify left for the timer
  asked,     \* jobs the next unit has and has not answered
  reply,     \* reply path of each job, << >> before it comes and after its end
  outcome    \* what became of each job

vars == <<barrier, count, free, queue, asked, reply, outcome>>

Outcome == {"new", "open", "answered", "busy"}

(***************************************************************************)
(* The state the constructor leaves.                                       *)
(***************************************************************************)
Init ==
  /\ barrier = [k \in Key |-> << >>]
  /\ count = 0
  /\ free = 0
  /\ queue = << >>
  /\ asked = {}
  /\ reply = [j \in Job |-> << >>]
  /\ outcome = [j \in Job |-> "new"]

Pop(s) == SubSeq(s, 1, Len(s) - 1)

HasBarrier(k) == barrier[k] # << >>

(***************************************************************************)
(* The job comes from the unit before, which has pushed itself on the      *)
(* reply path; path is what this unit adds to it.                          *)
(***************************************************************************)
Come(j, path) ==
  /\ outcome[j] = "new"
  /\ reply' = [reply EXCEPT ![j] = <<"upstream">> \o path]
  /\ outcome' = [outcome EXCEPT ![j] = "open"]

(* push_reply_dispatcher(this), then the next unit's job_ask_procedure *)
chain_request(j) ==
  /\ Come(j, <<"barrier">>)
  /\ asked' = asked \cup {j}

(* set_error(-EC_SERVER_BUSY) and turn_around_job_answer *)
reject(j) ==
  /\ outcome[j] = "new"
  /\ outcome' = [outcome EXCEPT ![j] = "busy"]
  /\ UNCHANGED <<barrier, count, free, queue, asked, reply>>

ask_bypass(j) ==
  /\ j \in Bypass
  /\ chain_request(j)
  /\ UNCHANGED <<barrier, count, free, queue>>

(* mutant: the job passes although the key has a barrier *)
ask_blocked_PassesAtOnce(j) ==
  LET k == barrier_key[j] IN
  /\ j \notin Bypass
  /\ HasBarrier(k)
  /\ Len(barrier[k]) < max_key_count_
  /\ barrier' = [barrier EXCEPT ![k] = Append(@, j)]
  /\ chain_request(j)
  /\ UNCHANGED <<count, free, queue>>

(* mutant: the newest waiting job is the next one *)
ask_blocked_NewestFirst(j) ==
  LET k == barrier_key[j] IN
  /\ j \notin Bypass
  /\ HasBarrier(k)
  /\ Len(barrier[k]) < max_key_count_
  /\ Come(j, << >>)
  /\ barrier' = [barrier EXCEPT ![k] = <<Head(@), j>> \o Tail(@)]
  /\ UNCHANGED <<count, free, queue, asked>>

ask_blocked(j) ==
  LET k == barrier_key[j] IN
  /\ j \notin Bypass
  /\ HasBarrier(k)
  /\ Len(barrier[k]) < max_key_count_
  /\ Come(j, << >>)
  /\ barrier' = [barrier EXCEPT ![k] = Append(@, j)]
  /\ UNCHANGED <<count, free, queue, asked>>

ask_too_many_at_key(j) ==
  /\ j \notin Bypass
  /\ HasBarrier(barrier_key[j])
  /\ Len(barrier[barrier_key[j]]) >= max_key_count_
  /\ reject(j)

ask_too_many_barriers(j) ==
  /\ j \notin Bypass
  /\ ~ HasBarrier(barrier_key[j])
  /\ count >= max_barrier
  /\ reject(j)

(* mutant: the limit is tested with > *)
ask_first_OffByOne(j) ==
  LET k == barrier_key[j] IN
  /\ j \notin Bypass
  /\ ~ HasBarrier(k)
  /\ count <= max_barrier
  /\ free' = IF free = 0 THEN 0 ELSE free - 1
  /\ barrier' = [barrier EXCEPT ![k] = <<j>>]
  /\ count' = count + 1
  /\ chain_request(j)
  /\ UNCHANGED queue

ask_first(j) ==
  LET k == barrier_key[j] IN
  /\ j \notin Bypass
  /\ ~ HasBarrier(k)
  /\ count < max_barrier
  /\ free' = IF free = 0 THEN 0 ELSE free - 1
  /\ barrier' = [barrier EXCEPT ![k] = <<j>>]
  /\ count' = count + 1
  /\ chain_request(j)
  /\ UNCHANGED queue

job_ask_procedure(j) ==
  \/ ask_bypass(j)
  \/ ask_blocked(j)
  \/ ask_too_many_at_key(j)
  \/ ask_too_many_barriers(j)
  \/ ask_first(j)

(***************************************************************************)
(* The timer of main_chain hands every job of the queue to the next unit.  *)
(***************************************************************************)
job_timer_procedure ==
  /\ queue # << >>
  /\ asked' = asked \cup Range(queue)
  /\ queue' = << >>
  /\ UNCHANGED <<barrier, count, free, reply, outcome>>

(***************************************************************************)
(* Leaving the barrier: the head of the key's queue goes, and the next job *)
(* gets the barrier on its reply path and waits for main_chain's timer, or *)
(* the barrier moves to the free list.  A job that is not the head is only *)
(* logged.  rep is the reply path of every job once the barrier and the    *)
(* unit before it are off the one of j.                                    *)
(***************************************************************************)
(* mutant: the barrier is counted as free after every answer *)
leave_barrier_FreesAlways(j, rep) ==
  LET k == barrier_key[j] IN
  IF ~ HasBarrier(k) \/ Head(barrier[k]) # j
  THEN /\ reply' = rep
       /\ UNCHANGED <<barrier, count, free, queue>>
  ELSE /\ barrier' = [barrier EXCEPT ![k] = Tail(@)]
       /\ count' = count - 1
       /\ free' = free + 1
       /\ IF Tail(barrier[k]) = << >>
          THEN reply' = rep /\ UNCHANGED queue
          ELSE LET next == Head(Tail(barrier[k])) IN
               /\ queue' = Append(queue, next)
               /\ reply' = [rep EXCEPT ![next] = Append(@, "barrier")]

(* mutant: the next job is not queued *)
leave_barrier_ForgetsNext(j, rep) ==
  LET k == barrier_key[j] IN
  IF ~ HasBarrier(k) \/ Head(barrier[k]) # j
  THEN /\ reply' = rep
       /\ UNCHANGED <<barrier, count, free, queue>>
  ELSE /\ barrier' = [barrier EXCEPT ![k] = Tail(@)]
       /\ reply' = rep
       /\ count' = IF Tail(barrier[k]) = << >> THEN count - 1 ELSE count
       /\ free' = IF Tail(barrier[k]) = << >> THEN free + 1 ELSE free
       /\ UNCHANGED queue

leave_barrier(j, rep) ==
  LET k == barrier_key[j] IN
  IF ~ HasBarrier(k) \/ Head(barrier[k]) # j
  THEN /\ reply' = rep
       /\ UNCHANGED <<barrier, count, free, queue>>
  ELSE /\ barrier' = [barrier EXCEPT ![k] = Tail(@)]
       /\ IF Tail(barrier[k]) = << >>
          THEN /\ count' = count - 1
               /\ free' = free + 1
               /\ reply' = rep
               /\ UNCHANGED queue
          ELSE LET next == Head(Tail(barrier[k])) IN
               /\ queue' = Append(queue, next)
               /\ reply' = [rep EXCEPT ![next] = Append(@, "barrier")]
               /\ UNCHANGED <<count, free>>

job_answer_procedure(j) ==
  LET rep == [reply EXCEPT ![j] = Pop(Pop(@))] IN
  /\ j \in asked
  /\ asked' = asked \ {j}
  /\ outcome' = [outcome EXCEPT ![j] = "answered"]
  /\ IF j \in Bypass
     THEN /\ reply' = rep
          /\ UNCHANGED <<barrier, count, free, queue>>
     ELSE leave_barrier(j, rep)

Next ==
  \/ \E j \in Job : job_ask_procedure(j)
  \/ job_timer_procedure
  \/ \E j \in Job : job_answer_procedure(j)

Spec == Init /\ [][Next]_vars

(***************************************************************************)
(* The ready timer always fires, and the units behind the barrier answer   *)
(* every job in the end (the connector's timeouts see to that).            *)
(***************************************************************************)
Fairness ==
  /\ WF_vars(job_timer_procedure)
  /\ \A j \in Job : WF_vars(job_answer_procedure(j))

FairSpec == Spec /\ Fairness
-----------------------------------------------------------------------------
(***************************************************************************)
(* Every variable has its type: the counters of BarrierQueues in use and   *)
(* on the free list never go below zero.                                   *)
(***************************************************************************)
TypeOK ==
  /\ barrier \in [Key -> Seq(Job)]
  /\ count \in Nat
  /\ free \in Nat
  /\ queue \in Seq(Job)
  /\ asked \subseteq Job
  /\ reply \in [Job -> Seq({"upstream", "barrier"})]
  /\ outcome \in [Job -> Outcome]

InQueue(j) == \E i \in 1..Len(queue) : queue[i] = j

(***************************************************************************)
(* A job that passed a barrier is the head of its key's queue until it is  *)
(* answered, so at most one job of a key is behind the barrier and         *)
(* job_answer_procedure's "return job not in barrier" and "return job not  *)
(* barrier header" never happen.                                           *)
(***************************************************************************)
PassedJobIsHead ==
  \A j \in Job \ Bypass :
    j \in asked \/ InQueue(j)
      => HasBarrier(barrier_key[j]) /\ Head(barrier[barrier_key[j]]) = j

(***************************************************************************)
(* No key is stuck: the head of every barrier is with the next unit or in  *)
(* main_chain's queue, so an answer or the timer will move the key on.     *)
(***************************************************************************)
HeadHasPassed ==
  \A k \in Key :
    HasBarrier(k) => Head(barrier[k]) \in asked \/ InQueue(Head(barrier[k]))

(***************************************************************************)
(* count is the number of keys with a barrier and never passes max_barrier,*)
(* and BarrierQueue objects are reused from free_list: no more than        *)
(* max_barrier of them are ever allocated.                                 *)
(***************************************************************************)
BarriersBounded ==
  /\ count = Cardinality({k \in Key : HasBarrier(k)})
  /\ count + free <= max_barrier

(***************************************************************************)
(* Every request that comes is answered, whatever came before it at its    *)
(* key.                                                                    *)
(***************************************************************************)
EveryJobAnswered ==
  \A j \in Job : outcome[j] = "open" ~> outcome[j] = "answered"
=============================================================================
