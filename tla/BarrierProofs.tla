---------------------------- MODULE BarrierProofs ---------------------------
(***************************************************************************)
(* Theorems about the barrier for all requests, keys and limits: it lets   *)
(* one request of a key pass at a time, never forgets a key and keeps its  *)
(* limits, and it implements SerialByKey.                                  *)
(***************************************************************************)
EXTENDS BarrierSerial, FiniteSetTheorems, SequenceTheorems, TLAPS

(* most leaves need no arithmetic *)
USE Zenon

UsedKeys == {k \in Key : HasBarrier(k)}

(* A BarrierQueue holds only requests of its key, never a bypassing one. *)
QueuesAreKeyed ==
  \A k \in Key : \A i \in 1..Len(barrier[k]) :
    barrier[k][i] \notin Bypass /\ barrier_key[barrier[k][i]] = k

(* A job in main_chain's queue is not bypassing and not yet with the next unit. *)
QueuedNotAsked ==
  \A i \in 1..Len(queue) : queue[i] \notin Bypass /\ queue[i] \notin asked

IInv ==
  /\ TypeOK
  /\ QueuesAreKeyed
  /\ QueuedNotAsked
  /\ PassedJobIsHead
  /\ HeadHasPassed
  /\ BarriersBounded

-----------------------------------------------------------------------------
(* Appending to a non-empty sequence keeps its head and its elements. *)
LEMMA AppendFacts ==
  ASSUME NEW S, NEW s \in Seq(S), NEW x \in S
  PROVE  /\ Append(s, x) \in Seq(S)
         /\ Append(s, x) # << >>
         /\ s # << >> => Head(Append(s, x)) = Head(s)
         /\ Len(Append(s, x)) = Len(s) + 1
         /\ \A i \in 1..Len(s) : Append(s, x)[i] = s[i]
         /\ Append(s, x)[Len(s) + 1] = x
<1>1. /\ Append(s, x) \in Seq(S)
      /\ Len(Append(s, x)) = Len(s) + 1
      /\ \A i \in 1..Len(s) : Append(s, x)[i] = s[i]
      /\ Append(s, x)[Len(s) + 1] = x
  BY AppendProperties, SMT
<1>2. Append(s, x) # << >>
  BY AppendProperties, SMT
<1>3. s # << >> => Head(Append(s, x)) = Head(s)
  BY AppendProperties, HeadTailProperties, SMT
<1> QED BY <1>1, <1>2, <1>3

(* The tail of a non-empty sequence holds its elements but the first. *)
LEMMA TailFacts ==
  ASSUME NEW S, NEW s \in Seq(S), s # << >>
  PROVE  /\ Tail(s) \in Seq(S)
         /\ Len(s) \in Nat \ {0}
         /\ Head(s) = s[1]
         /\ Head(s) \in S
         /\ Len(Tail(s)) = Len(s) - 1
         /\ \A i \in 1..Len(Tail(s)) : Tail(s)[i] = s[i + 1]
         /\ Tail(s) # << >> => Len(s) > 1 /\ Head(Tail(s)) = s[2] /\ s[2] \in S
  BY SMT

(* Dropping the last elements of a reply path leaves a reply path. *)
LEMMA PopType ==
  ASSUME NEW S, NEW s \in Seq(S)
  PROVE  Pop(s) \in Seq(S)
  BY SMT DEF Pop

(* UsedKeys is finite and the counter of a used barrier is not zero. *)
LEMMA UsedKeysFinite == IsFiniteSet(UsedKeys) /\ Cardinality(UsedKeys) \in Nat
<1>1. UsedKeys \in SUBSET Key
  BY DEF UsedKeys
<1> QED BY <1>1, FS_Subset, FS_CardinalityType, KeyAssumption

-----------------------------------------------------------------------------
(* The state the constructor leaves satisfies the invariant. *)
LEMMA InitIInv == Init => IInv
<1> SUFFICES ASSUME Init PROVE IInv
  OBVIOUS
<1>1. TypeOK
  BY SMT DEF Init, TypeOK, Outcome
<1>2. QueuesAreKeyed /\ QueuedNotAsked
  BY SMT DEF Init, QueuesAreKeyed, QueuedNotAsked
<1>3. PassedJobIsHead
  BY SMT DEF Init, PassedJobIsHead, InQueue
<1>4. HeadHasPassed
  BY DEF Init, HeadHasPassed, HasBarrier
<1>5. {k \in Key : HasBarrier(k)} = {}
  BY DEF Init, HasBarrier
<1>6. Cardinality({k \in Key : HasBarrier(k)}) = 0
  BY <1>5, FS_EmptySet
<1>7. BarriersBounded
  BY <1>6, LimitAssumption, SMT DEF Init, BarriersBounded
<1> QED BY <1>1, <1>2, <1>3, <1>4, <1>7 DEF IInv

(* Steps that leave the barriers, the queue and the asked jobs alone. *)
LEMMA RejectIInv ==
  ASSUME IInv, NEW j \in Job, reject(j)
  PROVE  IInv'
<1>1. TypeOK'
  BY DEF IInv, TypeOK, reject, Outcome
<1>2. QueuesAreKeyed' /\ QueuedNotAsked'
  BY DEF IInv, QueuesAreKeyed, QueuedNotAsked, reject
<1>3. PassedJobIsHead' /\ HeadHasPassed' /\ BarriersBounded'
  BY DEF IInv, PassedJobIsHead, HeadHasPassed, BarriersBounded, InQueue, HasBarrier,
         reject
<1> QED BY <1>1, <1>2, <1>3 DEF IInv

(* A bypassing job goes to the next unit beside the barriers. *)
LEMMA BypassIInv ==
  ASSUME IInv, NEW j \in Job, ask_bypass(j)
  PROVE  IInv'
<1> USE DEF ask_bypass, chain_request, Come
<1>1. TypeOK'
  BY SMT DEF IInv, TypeOK, Outcome
<1>2. QueuesAreKeyed' /\ QueuedNotAsked'
  BY SMT DEF IInv, QueuesAreKeyed, QueuedNotAsked
<1>3. PassedJobIsHead' /\ HeadHasPassed' /\ BarriersBounded'
  BY DEF IInv, PassedJobIsHead, HeadHasPassed, BarriersBounded, InQueue, HasBarrier
<1> QED BY <1>1, <1>2, <1>3 DEF IInv

(* A job that is parked leaves the head of its queue in place. *)
LEMMA BlockedIInv ==
  ASSUME IInv, NEW j \in Job, ask_blocked(j)
  PROVE  IInv'
<1> DEFINE k == barrier_key[j]
<1>0. k \in Key /\ barrier[k] \in Seq(Job) /\ barrier[k] # << >>
  BY KeyAssumption DEF IInv, TypeOK, ask_blocked, HasBarrier
<1>a. /\ barrier' = [barrier EXCEPT ![k] = Append(barrier[k], j)]
      /\ j \notin Bypass
      /\ UNCHANGED <<count, free, queue, asked>>
  BY DEF ask_blocked
<1>b. /\ \A l \in Key : l # k => barrier'[l] = barrier[l]
      /\ barrier'[k] = Append(barrier[k], j)
  BY <1>0, <1>a DEF IInv, TypeOK
<1>c. Append(barrier[k], j) \in Seq(Job)
  BY <1>0, SMT
<1>1. TypeOK'
  <2>1. barrier' \in [Key -> Seq(Job)]
    BY <1>a, <1>c DEF IInv, TypeOK
  <2>2. reply' \in [Job -> Seq({"upstream", "barrier"})] /\ outcome' \in [Job -> Outcome]
    BY SMT DEF IInv, TypeOK, ask_blocked, Come, Outcome
  <2> QED BY <1>a, <2>1, <2>2 DEF IInv, TypeOK
<1>2. QueuesAreKeyed'
  <2> SUFFICES ASSUME NEW l \in Key, NEW i \in 1..Len(barrier'[l])
               PROVE  barrier'[l][i] \notin Bypass /\ barrier_key[barrier'[l][i]] = l
    BY DEF QueuesAreKeyed
  <2>1. CASE l # k
    BY <1>b, <2>1 DEF IInv, QueuesAreKeyed
  <2>2. CASE l = k /\ i \in 1..Len(barrier[k])
    BY <1>0, <1>b, <2>2, AppendFacts, SMTT(30) DEF IInv, QueuesAreKeyed
  <2>3. CASE l = k /\ i = Len(barrier[k]) + 1
    BY <1>0, <1>a, <1>b, <2>3, AppendFacts, SMT
  <2> QED BY <1>0, <1>b, <2>1, <2>2, <2>3, AppendFacts, LenProperties, SMT
<1>3. QueuedNotAsked'
  BY <1>a DEF IInv, QueuedNotAsked
<1>4. \A l \in Key : /\ HasBarrier(l)' = HasBarrier(l)
                     /\ HasBarrier(l) => Head(barrier'[l]) = Head(barrier[l])
  BY <1>0, <1>b, AppendFacts, SMT DEF HasBarrier
<1>5. PassedJobIsHead'
  BY <1>a, <1>4, KeyAssumption DEF IInv, PassedJobIsHead, InQueue
<1>6. HeadHasPassed'
  BY <1>a, <1>4, SMT DEF IInv, HeadHasPassed, InQueue
<1>7. BarriersBounded'
  <2>1. {l \in Key : HasBarrier(l)'} = {l \in Key : HasBarrier(l)}
    BY <1>4
  <2> QED BY <1>a, <2>1 DEF IInv, BarriersBounded
<1> QED BY <1>1, <1>2, <1>3, <1>5, <1>6, <1>7 DEF IInv

(* The first job of a key opens a barrier and passes. *)
LEMMA FirstIInv ==
  ASSUME IInv, NEW j \in Job, ask_first(j)
  PROVE  IInv'
<1> DEFINE k == barrier_key[j]
<1>0. k \in Key /\ barrier[k] = << >>
  BY KeyAssumption DEF ask_first, HasBarrier
<1>a. /\ barrier' = [barrier EXCEPT ![k] = <<j>>]
      /\ j \notin Bypass
      /\ asked' = asked \cup {j}
      /\ queue' = queue
  BY DEF ask_first, chain_request
<1>b. /\ \A l \in Key : l # k => barrier'[l] = barrier[l]
      /\ barrier'[k] = <<j>>
  BY <1>0, <1>a DEF IInv, TypeOK
<1>c. ~ InQueue(j)
  BY <1>0, <1>a DEF IInv, PassedJobIsHead, HasBarrier
<1>d. <<j>> \in Seq(Job) /\ <<j>> # << >> /\ Head(<<j>>) = j
  BY SMT
<1>1. TypeOK'
  <2>1. barrier' \in [Key -> Seq(Job)]
    BY <1>a, <1>d DEF IInv, TypeOK
  <2>2. reply' \in [Job -> Seq({"upstream", "barrier"})] /\ outcome' \in [Job -> Outcome]
    BY SMT DEF IInv, TypeOK, ask_first, chain_request, Come, Outcome
  <2>3. count' \in Nat /\ free' \in Nat
    BY SMT DEF IInv, TypeOK, ask_first
  <2> QED BY <1>a, <2>1, <2>2, <2>3 DEF IInv, TypeOK
<1>2. QueuesAreKeyed'
  <2> SUFFICES ASSUME NEW l \in Key, NEW i \in 1..Len(barrier'[l])
               PROVE  barrier'[l][i] \notin Bypass /\ barrier_key[barrier'[l][i]] = l
    BY SMT DEF QueuesAreKeyed
  <2>1. CASE l # k
    BY <1>b, <2>1 DEF IInv, QueuesAreKeyed
  <2>2. CASE l = k
    BY <1>a, <1>b, <2>2, SMT
  <2> QED BY <2>1, <2>2
<1>3. QueuedNotAsked'
  BY <1>a, <1>c DEF IInv, QueuedNotAsked, InQueue
<1>4. PassedJobIsHead'
  <2> SUFFICES ASSUME NEW i \in Job \ Bypass, i \in asked' \/ InQueue(i)'
               PROVE  HasBarrier(barrier_key[i])' /\ Head(barrier'[barrier_key[i]]) = i
    BY DEF PassedJobIsHead
  <2>1. CASE i = j
    BY <1>b, <1>d, <2>1 DEF HasBarrier
  <2>2. CASE i # j
    <3>1. HasBarrier(barrier_key[i]) /\ Head(barrier[barrier_key[i]]) = i
      BY <1>a, <2>2 DEF IInv, PassedJobIsHead, InQueue
    <3> QED BY <1>0, <1>b, <3>1, KeyAssumption DEF HasBarrier
  <2> QED BY <2>1, <2>2
<1>5. HeadHasPassed'
  <2> SUFFICES ASSUME NEW l \in Key, HasBarrier(l)'
               PROVE  (Head(barrier[l]) \in asked \/ InQueue(Head(barrier[l])))'
    BY DEF HeadHasPassed
  <2>1. CASE l = k
    BY <1>a, <1>b, <1>d, <2>1, SMT
  <2>2. CASE l # k
    BY <1>a, <1>b, <2>2, SMT DEF IInv, HeadHasPassed, HasBarrier, InQueue
  <2> QED BY <2>1, <2>2
<1>6. BarriersBounded'
  <2>1. {l \in Key : HasBarrier(l)'} = UsedKeys \cup {k} /\ k \notin UsedKeys
    BY <1>0, <1>b, <1>d DEF UsedKeys, HasBarrier
  <2>2. Cardinality({l \in Key : HasBarrier(l)'}) = Cardinality(UsedKeys) + 1
    BY <2>1, UsedKeysFinite, FS_AddElement
  <2>3. count = Cardinality(UsedKeys) /\ count + free <= max_barrier
    BY DEF IInv, BarriersBounded, UsedKeys
  <2>4. count' = count + 1 /\ count' + free' <= max_barrier
    BY <2>3, LimitAssumption, SMT DEF IInv, TypeOK, ask_first
  <2> QED BY <2>2, <2>3, <2>4 DEF BarriersBounded
<1> QED BY <1>1, <1>2, <1>3, <1>4, <1>5, <1>6, SMT DEF IInv

(* The timer hands the queued jobs to the next unit. *)
LEMMA TimerIInv ==
  ASSUME IInv, job_timer_procedure
  PROVE  IInv'
<1>0. /\ asked' = asked \cup Range(queue)
      /\ queue' = << >>
      /\ UNCHANGED <<barrier, count, free, reply, outcome>>
  BY DEF job_timer_procedure
<1>1. \A j : j \in Range(queue) <=> InQueue(j)
  BY LenProperties DEF IInv, TypeOK, Range, InQueue
<1>2. TypeOK'
  <2>1. \A i \in 1..Len(queue) : queue[i] \in Job
    BY SMT DEF IInv, TypeOK
  <2>2. Range(queue) \subseteq Job
    BY <1>1, <2>1 DEF InQueue
  <2> QED BY <1>0, <2>2, SMT DEF IInv, TypeOK
<1>3. QueuesAreKeyed' /\ QueuedNotAsked'
  BY <1>0, SMT DEF IInv, QueuesAreKeyed, QueuedNotAsked
<1>4. PassedJobIsHead'
  BY <1>0, <1>1, SMT DEF IInv, PassedJobIsHead, InQueue, HasBarrier
<1>5. HeadHasPassed'
  BY <1>0, <1>1 DEF IInv, HeadHasPassed, HasBarrier
<1>6. BarriersBounded'
  BY <1>0 DEF IInv, BarriersBounded, HasBarrier
<1> QED BY <1>2, <1>3, <1>4, <1>5, <1>6 DEF IInv

(* The answer of a bypassing job does not touch the barriers. *)
LEMMA BypassAnswerIInv ==
  ASSUME IInv, NEW j \in Job, j \in Bypass, job_answer_procedure(j)
  PROVE  IInv'
<1>0. /\ asked' = asked \ {j}
      /\ reply' = [reply EXCEPT ![j] = Pop(Pop(reply[j]))]
      /\ outcome' = [outcome EXCEPT ![j] = "answered"]
      /\ UNCHANGED <<barrier, count, free, queue>>
  BY DEF job_answer_procedure
<1>1. TypeOK'
  <2>1. Pop(Pop(reply[j])) \in Seq({"upstream", "barrier"})
    BY PopType DEF IInv, TypeOK
  <2> QED BY <1>0, <2>1 DEF IInv, TypeOK, Outcome
<1>2. QueuesAreKeyed' /\ QueuedNotAsked'
  BY <1>0 DEF IInv, QueuesAreKeyed, QueuedNotAsked
<1>3. PassedJobIsHead'
  BY <1>0 DEF IInv, PassedJobIsHead, InQueue, HasBarrier
<1>4. HeadHasPassed'
  <2> SUFFICES ASSUME NEW l \in Key, HasBarrier(l)
               PROVE  Head(barrier[l]) \in asked' \/ InQueue(Head(barrier[l]))
    BY <1>0 DEF HeadHasPassed, HasBarrier, InQueue
  <2>1. Head(barrier[l]) = barrier[l][1] /\ 1 \in 1..Len(barrier[l])
    BY TailFacts, SMT DEF IInv, TypeOK, HasBarrier
  <2>2. Head(barrier[l]) # j
    BY <2>1, SMT DEF IInv, QueuesAreKeyed
  <2> QED BY <1>0, <2>2 DEF IInv, HeadHasPassed
<1>5. BarriersBounded'
  BY <1>0 DEF IInv, BarriersBounded, HasBarrier
<1> QED BY <1>1, <1>2, <1>3, <1>4, <1>5 DEF IInv

(* The answer of a job of a key takes it off its queue and queues the next one. *)
LEMMA AnswerIInv ==
  ASSUME IInv, NEW j \in Job, j \notin Bypass, job_answer_procedure(j)
  PROVE  IInv'
<1>k. PICK k : k = barrier_key[j]
  OBVIOUS
<1>r. PICK rest : rest = Tail(barrier[k])
  OBVIOUS
<1>p. PICK rep : rep = [reply EXCEPT ![j] = Pop(Pop(reply[j]))]
  OBVIOUS
<1>0. /\ k \in Key
      /\ barrier[k] \in Seq(Job)
      /\ barrier[k] # << >>
      /\ Head(barrier[k]) = j
      /\ j \in asked
  <2>1. j \in asked
    BY DEF job_answer_procedure
  <2>2. k \in Key /\ barrier[k] \in Seq(Job)
    BY <1>k, KeyAssumption DEF IInv, TypeOK
  <2>3. barrier[k] # << >> /\ Head(barrier[k]) = j
    BY <1>k, <2>1 DEF IInv, PassedJobIsHead, HasBarrier
  <2> QED BY <2>1, <2>2, <2>3
<1>l. /\ asked' = asked \ {j}
      /\ outcome' = [outcome EXCEPT ![j] = "answered"]
      /\ leave_barrier(j, rep)
  BY <1>p DEF job_answer_procedure
<1>a. /\ barrier' = [barrier EXCEPT ![k] = rest]
      /\ asked' = asked \ {j}
      /\ outcome' = [outcome EXCEPT ![j] = "answered"]
      /\ rest = << >> => /\ count' = count - 1
                        /\ free' = free + 1
                        /\ reply' = rep
                        /\ queue' = queue
      /\ rest # << >> => /\ queue' = Append(queue, Head(rest))
                        /\ reply' = [rep EXCEPT ![Head(rest)] = Append(rep[Head(rest)], "barrier")]
                        /\ UNCHANGED <<count, free>>
  <2>1. ~ (~ HasBarrier(k) \/ Head(barrier[k]) # j)
    BY <1>0 DEF HasBarrier
  <2>2. /\ barrier' = [barrier EXCEPT ![k] = Tail(@)]
        /\ IF Tail(barrier[k]) = << >>
           THEN /\ count' = count - 1
                /\ free' = free + 1
                /\ reply' = rep
                /\ UNCHANGED queue
           ELSE LET next == Head(Tail(barrier[k])) IN
                /\ queue' = Append(queue, next)
                /\ reply' = [rep EXCEPT ![next] = Append(@, "barrier")]
                /\ UNCHANGED <<count, free>>
    BY <1>k, <1>l, <2>1 DEF leave_barrier
  <2> QED BY <1>l, <1>r, <2>2
<1>b. /\ \A l \in Key : l # k => barrier'[l] = barrier[l]
      /\ barrier'[k] = rest
  BY <1>0, <1>a DEF IInv, TypeOK
<1>c. /\ rest \in Seq(Job)
      /\ Len(rest) = Len(barrier[k]) - 1
      /\ Len(barrier[k]) \in Nat \ {0}
      /\ \A i \in 1..Len(rest) : rest[i] = barrier[k][i + 1]
      /\ rest # << >> => Len(barrier[k]) > 1 /\ Head(rest) = barrier[k][2] /\ Head(rest) \in Job
  BY <1>0, <1>r, TailFacts, SMT
<1>d. rest # << >> => Head(rest) \notin Bypass /\ barrier_key[Head(rest)] = k
  BY <1>0, <1>c, SMT DEF IInv, QueuesAreKeyed
<1>e. \A i \in Job \ Bypass : barrier_key[i] = k /\ (i \in asked \/ InQueue(i)) => i = j
  BY <1>0 DEF IInv, PassedJobIsHead
<1>f. ~ InQueue(j)
  BY <1>0 DEF IInv, QueuedNotAsked, InQueue
<1>g. /\ rest = << >> => \A i : InQueue(i)' <=> InQueue(i)
      /\ rest # << >> => \A i : InQueue(i)' <=> InQueue(i) \/ i = Head(rest)
  <2>1. CASE rest = << >>
    BY <1>a, <2>1 DEF InQueue
  <2>2. CASE rest # << >>
    <3>1. queue \in Seq(Job) /\ Head(rest) \in Job /\ queue' = Append(queue, Head(rest))
      BY <1>a, <1>c, <2>2 DEF IInv, TypeOK
    <3>2. Len(queue) \in Nat
      BY <3>1, SMT
    <3>n. PICK next : next = Head(rest)
      OBVIOUS
    <3>a. /\ Len(queue') = Len(queue) + 1
          /\ \A i \in 1..Len(queue) : queue'[i] = queue[i]
          /\ queue'[Len(queue) + 1] = next
      <4>1. queue \in Seq(Job) /\ next \in Job /\ queue' = Append(queue, next)
        BY <3>1, <3>n
      <4>2. /\ Len(Append(queue, next)) = Len(queue) + 1
            /\ \A i \in 1..Len(queue) : Append(queue, next)[i] = queue[i]
            /\ Append(queue, next)[Len(queue) + 1] = next
        BY <4>1, AppendFacts, SMT
      <4> QED BY <4>1, <4>2
    <3>3. \A i : InQueue(i)' => InQueue(i) \/ i = next
      BY <3>2, <3>a, SMT DEF InQueue
    <3>4. \A i : InQueue(i) => InQueue(i)'
      BY <3>2, <3>a, SMT DEF InQueue
    <3>5. \A i : i = next => InQueue(i)'
      BY <3>2, <3>a, SMT DEF InQueue
    <3> QED BY <2>2, <3>n, <3>3, <3>4, <3>5
  <2> QED BY <2>1, <2>2
<1>1. TypeOK'
  <2>1. barrier' \in [Key -> Seq(Job)] /\ asked' \subseteq Job /\ outcome' \in [Job -> Outcome]
    BY <1>a, <1>c DEF IInv, TypeOK, Outcome
  <2>2. Pop(Pop(reply[j])) \in Seq({"upstream", "barrier"})
    BY PopType DEF IInv, TypeOK
  <2>3. rep \in [Job -> Seq({"upstream", "barrier"})]
    BY <1>p, <2>2 DEF IInv, TypeOK
  <2>4. CASE rest = << >>
    <3>1. k \in UsedKeys
      BY <1>0 DEF UsedKeys, HasBarrier
    <3>2. Cardinality(UsedKeys) # 0
      BY <3>1, UsedKeysFinite, FS_EmptySet
    <3>3. count' \in Nat /\ free' \in Nat
      BY <1>a, <2>4, <3>2, SMT DEF IInv, TypeOK, BarriersBounded, UsedKeys
    <3> QED BY <1>a, <2>1, <2>3, <2>4, <3>3 DEF IInv, TypeOK
  <2>5. CASE rest # << >>
    <3>0. queue \in Seq(Job) /\ Head(rest) \in Job /\ queue' = Append(queue, Head(rest))
      BY <1>a, <1>c, <2>5, SMT DEF IInv, TypeOK
    <3>1. queue' \in Seq(Job)
      BY <3>0, AppendFacts
    <3>2. Append(rep[Head(rest)], "barrier") \in Seq({"upstream", "barrier"})
      BY <1>c, <2>3, <2>5, AppendFacts
    <3>3. reply' \in [Job -> Seq({"upstream", "barrier"})]
      BY <1>a, <2>3, <2>5, <3>2
    <3> QED BY <1>a, <2>1, <2>5, <3>1, <3>3 DEF IInv, TypeOK
  <2> QED BY <2>4, <2>5
<1>2. QueuesAreKeyed'
  <2> SUFFICES ASSUME NEW l \in Key, NEW i \in 1..Len(barrier'[l])
               PROVE  barrier'[l][i] \notin Bypass /\ barrier_key[barrier'[l][i]] = l
    BY DEF QueuesAreKeyed
  <2>1. CASE l # k
    BY <1>b, <2>1 DEF IInv, QueuesAreKeyed
  <2>2. CASE l = k
    <3>1. i \in 1..Len(rest) /\ barrier'[l][i] = barrier[k][i + 1]
      BY <1>b, <1>c, <2>2
    <3>2. i + 1 \in 1..Len(barrier[k])
      BY <1>c, <3>1, SMT
    <3> QED BY <1>0, <2>2, <3>1, <3>2, SMT DEF IInv, QueuesAreKeyed
  <2> QED BY <2>1, <2>2
<1>3. QueuedNotAsked'
  <2>1. \A i : InQueue(i) => i \notin Bypass /\ i \notin asked'
    BY <1>a DEF IInv, QueuedNotAsked, InQueue
  <2>2. rest # << >> => Head(rest) \notin Bypass /\ Head(rest) \notin asked'
    BY <1>a, <1>c, <1>d, <1>e
  <2>3. \A i : InQueue(i)' => i \notin Bypass /\ i \notin asked'
    BY <1>g, <2>1, <2>2
  <2> QED BY <2>3 DEF QueuedNotAsked, InQueue
<1>4. PassedJobIsHead'
  <2> SUFFICES ASSUME NEW i \in Job \ Bypass, i \in asked' \/ InQueue(i)'
               PROVE  (HasBarrier(barrier_key[i]) /\ Head(barrier[barrier_key[i]]) = i)'
    BY DEF PassedJobIsHead
  <2>1. CASE rest # << >> /\ i = Head(rest)
    BY <1>b, <1>d, <2>1 DEF HasBarrier
  <2>2. CASE ~ (rest # << >> /\ i = Head(rest))
    <3>1. (i \in asked \/ InQueue(i)) /\ i # j
      BY <1>a, <1>f, <1>g, <2>2
    <3>2. barrier_key[i] # k /\ barrier_key[i] \in Key
      BY <1>e, <3>1, KeyAssumption
    <3> QED BY <1>b, <3>1, <3>2 DEF IInv, PassedJobIsHead, HasBarrier
  <2> QED BY <2>1, <2>2
<1>5. HeadHasPassed'
  <2> SUFFICES ASSUME NEW l \in Key, HasBarrier(l)'
               PROVE  (Head(barrier[l]) \in asked \/ InQueue(Head(barrier[l])))'
    BY DEF HeadHasPassed
  <2>1. CASE l = k
    BY <1>b, <1>g, <2>1 DEF HasBarrier
  <2>2. CASE l # k
    <3>1. barrier'[l] = barrier[l] /\ HasBarrier(l)
      BY <1>b, <2>2 DEF HasBarrier
    <3>2. Head(barrier[l]) = barrier[l][1] /\ 1 \in 1..Len(barrier[l])
      BY <3>1, TailFacts, SMT DEF IInv, TypeOK, HasBarrier
    <3>3. Head(barrier[l]) # j
      BY <1>k, <2>2, <3>2, SMT DEF IInv, QueuesAreKeyed
    <3>4. Head(barrier[l]) \in asked \/ InQueue(Head(barrier[l]))
      BY <3>1 DEF IInv, HeadHasPassed
    <3>5. Head(barrier[l]) \in asked' \/ \E i : i = Head(barrier[l]) /\ InQueue(i)'
      BY <1>a, <1>g, <3>3, <3>4
    <3> QED BY <3>1, <3>5 DEF InQueue
  <2> QED BY <2>1, <2>2
<1>6. BarriersBounded'
  <2>1. count = Cardinality(UsedKeys) /\ count + free <= max_barrier
    BY DEF IInv, BarriersBounded, UsedKeys
  <2>2. CASE rest = << >>
    <3>1. {l \in Key : HasBarrier(l)'} = UsedKeys \ {k} /\ k \in UsedKeys
      BY <1>0, <1>b, <2>2 DEF UsedKeys, HasBarrier
    <3>2. Cardinality({l \in Key : HasBarrier(l)'}) = Cardinality(UsedKeys) - 1
      BY <3>1, UsedKeysFinite, FS_RemoveElement
    <3>3. count' + free' <= max_barrier
      BY <1>a, <2>1, <2>2, LimitAssumption, SMT DEF IInv, TypeOK
    <3> QED BY <1>a, <2>1, <2>2, <3>2, <3>3 DEF BarriersBounded
  <2>3. CASE rest # << >>
    <3>1. {l \in Key : HasBarrier(l)'} = UsedKeys
      BY <1>0, <1>b, <2>3 DEF UsedKeys, HasBarrier
    <3> QED BY <1>a, <2>1, <2>3, <3>1 DEF BarriersBounded
  <2> QED BY <2>2, <2>3, SMT
<1> QED BY <1>1, <1>2, <1>3, <1>4, <1>5, <1>6 DEF IInv

-----------------------------------------------------------------------------
(***************************************************************************)
(* Every step of the barrier, asking, answering and the timer of its       *)
(* chain joint, keeps the invariant.                                       *)
(***************************************************************************)
LEMMA NextIInv == IInv /\ [Next]_vars => IInv'
<1> SUFFICES ASSUME IInv, [Next]_vars PROVE IInv'
  OBVIOUS
<1>1. ASSUME NEW j \in Job, job_ask_procedure(j) PROVE IInv'
  <2>1. CASE ask_bypass(j)
    BY <2>1, BypassIInv
  <2>2. CASE ask_blocked(j)
    BY <2>2, BlockedIInv, SMT
  <2>3. CASE ask_too_many_at_key(j) \/ ask_too_many_barriers(j)
    BY <2>3, RejectIInv DEF ask_too_many_at_key, ask_too_many_barriers
  <2>4. CASE ask_first(j)
    BY <2>4, FirstIInv, SMT
  <2> QED BY <1>1, <2>1, <2>2, <2>3, <2>4 DEF job_ask_procedure
<1>2. CASE job_timer_procedure
  BY <1>2, TimerIInv
<1>3. ASSUME NEW j \in Job, job_answer_procedure(j) PROVE IInv'
  BY <1>3, BypassAnswerIInv, AnswerIInv
<1>4. CASE UNCHANGED vars
  BY <1>4 DEF vars, IInv, TypeOK, QueuesAreKeyed, QueuedNotAsked, PassedJobIsHead,
              HeadHasPassed, BarriersBounded, InQueue, HasBarrier
<1> QED BY <1>1, <1>2, <1>3, <1>4 DEF Next

(***************************************************************************)
(* The inductive invariant holds in every reachable state.                 *)
(***************************************************************************)
THEOREM Invariance == Spec => []IInv
<1> QED BY InitIInv, NextIInv, PTL DEF Spec

(***************************************************************************)
(* The variables keep their types: in particular count never falls below   *)
(* zero, however asks and answers interleave.                              *)
(***************************************************************************)
THEOREM TypeCorrect == Spec => []TypeOK
<1>1. IInv => TypeOK
  BY DEF IInv
<1> QED BY <1>1, Invariance, PTL

(***************************************************************************)
(* A job past the barrier is the head of its key's queue, for any number   *)
(* of requests, keys and limits: the two "return job not ..." errors of    *)
(* job_answer_procedure cannot happen.                                     *)
(***************************************************************************)
THEOREM PassedIsHead == Spec => []PassedJobIsHead
<1>1. IInv => PassedJobIsHead
  BY DEF IInv
<1> QED BY <1>1, Invariance, PTL

(***************************************************************************)
(* The head of every barrier is with the next unit or in main_chain's      *)
(* queue: no key is left with waiters that nothing will start.             *)
(***************************************************************************)
THEOREM NoKeyForgotten == Spec => []HeadHasPassed
<1>1. IInv => HeadHasPassed
  BY DEF IInv
<1> QED BY <1>1, Invariance, PTL

(***************************************************************************)
(* count is exact and BarrierQueue objects never outnumber max_barrier.    *)
(***************************************************************************)
THEOREM LimitsKept == Spec => []BarriersBounded
<1>1. IInv => BarriersBounded
  BY DEF IInv
<1> QED BY <1>1, Invariance, PTL
-----------------------------------------------------------------------------
(***************************************************************************)
(* Barrier implements SerialByKey, whatever the requests, keys and limits  *)
(* are.                                                                    *)
(***************************************************************************)

(* A request that has not come yet is nowhere. *)
NewIsUnknown ==
  \A j \in Job : outcome[j] = "new" =>
    j \notin asked /\ \A k \in Key : \A i \in 1..Len(barrier[k]) : barrier[k][i] # j

SInv == IInv /\ NewIsUnknown

(* Nothing has come in the state the constructor leaves. *)
LEMMA InitSInv == Init => SInv
<1>1. Init => NewIsUnknown
  BY SMT DEF Init, NewIsUnknown
<1> QED BY <1>1, InitIInv DEF SInv

(* Only a request that comes is put anywhere, and then it is not new any more. *)
LEMMA NextSInv == SInv /\ [Next]_vars => SInv'
<1> SUFFICES ASSUME SInv, [Next]_vars PROVE NewIsUnknown'
  BY NextIInv DEF SInv
<1> SUFFICES ASSUME NEW i \in Job, outcome'[i] = "new"
             PROVE  /\ i \notin asked'
                    /\ \A l \in Key : \A n \in 1..Len(barrier'[l]) : barrier'[l][n] # i
  BY DEF NewIsUnknown
<1> USE DEF SInv, IInv, TypeOK
<1>1. ASSUME outcome[i] = "new"
      PROVE  i \notin asked /\ \A l \in Key : \A n \in 1..Len(barrier[l]) : barrier[l][n] # i
  BY <1>1 DEF NewIsUnknown
<1>2. ASSUME NEW j \in Job, ask_bypass(j) \/ reject(j)
      PROVE  i # j /\ outcome[i] = "new" /\ barrier' = barrier /\ asked' \subseteq asked \cup {j}
  BY <1>2 DEF ask_bypass, chain_request, Come, reject
<1>3. ASSUME NEW j \in Job, ask_blocked(j)
      PROVE  /\ i \notin asked'
             /\ \A l \in Key : \A n \in 1..Len(barrier'[l]) : barrier'[l][n] # i
  <2>1. /\ i # j /\ outcome[i] = "new" /\ asked' = asked /\ barrier_key[j] \in Key
        /\ barrier' = [barrier EXCEPT ![barrier_key[j]] = Append(@, j)]
    BY <1>3, KeyAssumption DEF ask_blocked, Come
  <2>2. ASSUME NEW l \in Key, NEW n \in 1..Len(barrier'[l]) PROVE barrier'[l][n] # i
    <3>1. CASE l # barrier_key[j]
      BY <1>1, <2>1, <3>1
    <3>2. CASE l = barrier_key[j]
      <4>1. barrier'[l] = Append(barrier[l], j) /\ barrier[l] \in Seq(Job)
        BY <2>1, <3>2
      <4>2. /\ n \in 1..Len(barrier[l]) \/ n = Len(barrier[l]) + 1
            /\ \A m \in 1..Len(barrier[l]) : barrier'[l][m] = barrier[l][m]
            /\ barrier'[l][Len(barrier[l]) + 1] = j
        BY <4>1, AppendFacts, LenProperties, SMT
      <4> QED BY <1>1, <2>1, <4>2
    <3> QED BY <3>1, <3>2
  <2> QED BY <1>1, <2>1, <2>2
<1>4. ASSUME NEW j \in Job, ask_first(j)
      PROVE  /\ i \notin asked'
             /\ \A l \in Key : \A n \in 1..Len(barrier'[l]) : barrier'[l][n] # i
  <2>1. /\ i # j /\ outcome[i] = "new" /\ asked' = asked \cup {j} /\ barrier_key[j] \in Key
        /\ barrier' = [barrier EXCEPT ![barrier_key[j]] = <<j>>]
    BY <1>4, KeyAssumption DEF ask_first, chain_request, Come
  <2>2. ASSUME NEW l \in Key, NEW n \in 1..Len(barrier'[l]) PROVE barrier'[l][n] # i
    <3>1. CASE l # barrier_key[j]
      BY <1>1, <2>1, <3>1
    <3>2. CASE l = barrier_key[j]
      BY <2>1, <3>2, SMT
    <3> QED BY <3>1, <3>2, SMT
  <2> QED BY <1>1, <2>1, <2>2
<1>5. CASE job_timer_procedure
  <2>1. outcome' = outcome /\ barrier' = barrier /\ asked' = asked \cup Range(queue)
    BY <1>5 DEF job_timer_procedure
  <2>2. i \notin Range(queue)
    <3> SUFFICES ASSUME i \in Range(queue) PROVE FALSE
      OBVIOUS
    <3>1. InQueue(i) /\ i \notin Bypass
      BY LenProperties DEF Range, InQueue, QueuedNotAsked
    <3>2. barrier_key[i] \in Key /\ HasBarrier(barrier_key[i]) /\ Head(barrier[barrier_key[i]]) = i
      BY <3>1, KeyAssumption DEF PassedJobIsHead
    <3>3. barrier[barrier_key[i]][1] = i /\ 1 \in 1..Len(barrier[barrier_key[i]])
      BY <3>2, TailFacts, SMT DEF HasBarrier
    <3> QED BY <1>1, <2>1, <3>2, <3>3
  <2> QED BY <1>1, <2>1, <2>2
<1>6. ASSUME NEW j \in Job, job_answer_procedure(j)
      PROVE  /\ i \notin asked'
             /\ \A l \in Key : \A n \in 1..Len(barrier'[l]) : barrier'[l][n] # i
  <2>1. /\ outcome[i] = "new" /\ asked' = asked \ {j} /\ barrier_key[j] \in Key
        /\ \/ barrier' = barrier
           \/ /\ barrier[barrier_key[j]] # << >>
              /\ barrier' = [barrier EXCEPT ![barrier_key[j]] = Tail(@)]
    BY <1>6, KeyAssumption DEF job_answer_procedure, leave_barrier, HasBarrier
  <2>2. ASSUME NEW l \in Key, NEW n \in 1..Len(barrier'[l]) PROVE barrier'[l][n] # i
    <3>1. CASE barrier'[l] = barrier[l]
      BY <1>1, <2>1, <3>1, SMT
    <3>2. CASE barrier'[l] = Tail(barrier[l]) /\ barrier[l] # << >>
      <4>1. barrier'[l][n] = barrier[l][n + 1] /\ n + 1 \in 1..Len(barrier[l])
        BY <3>2, TailFacts, SMT
      <4> QED BY <1>1, <2>1, <4>1, SMT
    <3> QED BY <2>1, <3>1, <3>2
  <2> QED BY <1>1, <2>1, <2>2
<1>7. CASE UNCHANGED vars
  BY <1>1, <1>7 DEF vars
<1> QED BY <1>1, <1>2, <1>3, <1>4, <1>5, <1>6, <1>7
        DEF Next, job_ask_procedure, ask_too_many_at_key, ask_too_many_barriers
-----------------------------------------------------------------------------
(* The waiting requests of a key, by what its queue is *)
LEMMA WaitingFacts ==
  ASSUME NEW k \in Key
  PROVE  /\ Waiting[k] = IF HasBarrier(k) /\ Head(barrier[k]) \in asked
                         THEN Tail(barrier[k]) ELSE barrier[k]
         /\ Waiting'[k] = IF barrier'[k] # << >> /\ Head(barrier'[k]) \in asked'
                          THEN Tail(barrier'[k]) ELSE barrier'[k]
BY DEF Waiting, HasBarrier

(* A key's waiting requests stay when its queue does and its head neither starts nor ends. *)
LEMMA SameWaiting ==
  ASSUME NEW k \in Key, barrier'[k] = barrier[k],
         HasBarrier(k) => (Head(barrier[k]) \in asked' <=> Head(barrier[k]) \in asked)
  PROVE  Waiting'[k] = Waiting[k]
BY WaitingFacts DEF HasBarrier

(* The head of a key's queue is a request of that key, and not a bypassing one. *)
LEMMA HeadFacts ==
  ASSUME SInv, NEW k \in Key, HasBarrier(k)
  PROVE  /\ barrier[k] \in Seq(Job) /\ barrier[k] # << >>
         /\ Head(barrier[k]) \in Job \ Bypass
         /\ barrier_key[Head(barrier[k])] = k
<1>1. barrier[k] \in Seq(Job) /\ barrier[k] # << >>
  BY DEF SInv, IInv, TypeOK, HasBarrier
<1>2. Head(barrier[k]) = barrier[k][1] /\ 1 \in 1..Len(barrier[k]) /\ Head(barrier[k]) \in Job
  BY <1>1, TailFacts, SMT
<1> QED BY <1>1, <1>2, SMT DEF SInv, IInv, QueuesAreKeyed

(* A request that has not come is unknown to the abstract specification. *)
LEMMA NewNotKnown ==
  ASSUME SInv, NEW j \in Job, outcome[j] = "new"
  PROVE  ~ Serial!Known(j)
<1>1. /\ j \notin asked /\ j \notin Finished
      /\ \A k \in Key : \A i \in 1..Len(barrier[k]) : barrier[k][i] # j
  BY DEF SInv, NewIsUnknown, Finished
<1>2. ASSUME NEW k \in Key, NEW i \in 1..Len(Waiting[k]) PROVE Waiting[k][i] # j
  <2>1. CASE Waiting[k] = barrier[k]
    BY <1>1, <2>1
  <2>2. CASE Waiting[k] = Tail(barrier[k]) /\ HasBarrier(k)
    <3>1. Waiting[k][i] = barrier[k][i + 1] /\ i + 1 \in 1..Len(barrier[k])
      BY <2>2, HeadFacts, TailFacts, SMT
    <3> QED BY <1>1, <3>1
  <2> QED BY <2>1, <2>2, WaitingFacts
<1> QED BY <1>1, <1>2 DEF Serial!Known

(* Waiting is a function on the keys, before and after a step. *)
LEMMA WaitingIsFunction ==
  /\ Waiting = [k \in Key |-> Waiting[k]]
  /\ Waiting' = [k \in Key |-> Waiting'[k]]
BY DEF Waiting

(* reject is Refuse. *)
LEMMA RejectRefuses ==
  ASSUME SInv, NEW j \in Job, reject(j)
  PROVE  Serial!Refuse(j)
<1>1. outcome[j] = "new" /\ Finished' = Finished \cup {j}
  BY DEF reject, Finished, SInv, IInv, TypeOK
<1>2. Waiting' = Waiting /\ asked' = asked
  BY DEF reject, Waiting, HasBarrier
<1> QED BY <1>1, <1>2, NewNotKnown DEF Serial!Refuse

(* A bypassing request starts at once. *)
LEMMA BypassStarts ==
  ASSUME SInv, NEW j \in Job, ask_bypass(j)
  PROVE  Serial!StartAtOnce(j)
<1>1. /\ outcome[j] = "new" /\ outcome' = [outcome EXCEPT ![j] = "open"]
      /\ j \in Bypass /\ asked' = asked \cup {j} /\ barrier' = barrier
  BY DEF ask_bypass, chain_request, Come
<1>2. Finished' = Finished
  BY <1>1 DEF Finished, SInv, IInv, TypeOK
<1>3. ASSUME NEW k \in Key PROVE Waiting'[k] = Waiting[k]
  BY <1>1, HeadFacts, SameWaiting, SMT
<1>4. Waiting' = Waiting
  BY <1>3, WaitingIsFunction
<1> QED BY <1>1, <1>2, <1>4, NewNotKnown DEF Serial!StartAtOnce

(* A parked request is accepted. *)
LEMMA BlockedAccepts ==
  ASSUME SInv, NEW j \in Job, ask_blocked(j)
  PROVE  Serial!Accept(j)
<1>1. PICK k \in Key : k = barrier_key[j]
  BY KeyAssumption
<1>2. /\ outcome[j] = "new" /\ outcome' = [outcome EXCEPT ![j] = "open"]
      /\ j \notin Bypass /\ asked' = asked /\ HasBarrier(k)
      /\ barrier' = [barrier EXCEPT ![k] = Append(@, j)]
  BY <1>1 DEF ask_blocked, Come
<1>3. Finished' = Finished
  BY <1>2 DEF Finished, SInv, IInv, TypeOK
<1>4. /\ barrier'[k] = Append(barrier[k], j) /\ \A l \in Key \ {k} : barrier'[l] = barrier[l]
      /\ barrier[k] \in Seq(Job) /\ barrier[k] # << >>
  BY <1>2 DEF SInv, IInv, TypeOK, HasBarrier
<1>5. /\ barrier'[k] # << >> /\ Head(barrier'[k]) = Head(barrier[k])
      /\ Tail(barrier'[k]) = Append(Tail(barrier[k]), j)
  <2>1. barrier'[k] # << >> /\ Head(barrier'[k]) = Head(barrier[k])
    BY <1>4, AppendFacts, SMT
  <2>2. Tail(Append(barrier[k], j)) = Append(Tail(barrier[k]), j)
    BY <1>4, SMT
  <2> QED BY <1>4, <2>1, <2>2
<1>6. Waiting'[k] = Append(Waiting[k], j)
  <2>1. CASE Head(barrier[k]) \in asked
    <3>1. Waiting[k] = Tail(barrier[k])
      BY <1>2, <2>1, WaitingFacts
    <3>2. Waiting'[k] = Tail(barrier'[k])
      BY <1>2, <1>5, <2>1, WaitingFacts, SMT
    <3> QED BY <1>5, <3>1, <3>2
  <2>2. CASE Head(barrier[k]) \notin asked
    <3>1. Waiting[k] = barrier[k]
      BY <1>2, <2>2, WaitingFacts
    <3>2. Waiting'[k] = barrier'[k]
      BY <1>2, <1>5, <2>2, WaitingFacts, SMT
    <3> QED BY <1>4, <3>1, <3>2
  <2> QED BY <2>1, <2>2
<1>7. ASSUME NEW l \in Key \ {k} PROVE Waiting'[l] = Waiting[l]
  BY <1>2, <1>4, SameWaiting
<1>8. Waiting' = [Waiting EXCEPT ![k] = Append(@, j)]
  BY <1>6, <1>7, WaitingIsFunction
<1> QED BY <1>1, <1>2, <1>3, <1>8, NewNotKnown DEF Serial!Accept

(* The first request of a key starts at once. *)
LEMMA FirstStarts ==
  ASSUME SInv, NEW j \in Job, ask_first(j)
  PROVE  Serial!StartAtOnce(j)
<1>1. PICK k \in Key : k = barrier_key[j]
  BY KeyAssumption, SMT
<1>2. /\ outcome[j] = "new" /\ outcome' = [outcome EXCEPT ![j] = "open"]
      /\ j \notin Bypass /\ asked' = asked \cup {j} /\ ~ HasBarrier(k)
      /\ barrier' = [barrier EXCEPT ![k] = <<j>>]
  BY <1>1 DEF ask_first, chain_request, Come
<1>3. Finished' = Finished
  BY <1>2 DEF Finished, SInv, IInv, TypeOK
<1>4. barrier'[k] = <<j>> /\ barrier[k] = << >> /\ \A l \in Key \ {k} : barrier'[l] = barrier[l]
  BY <1>2 DEF SInv, IInv, TypeOK, HasBarrier
<1>5. Waiting[k] = << >> /\ Waiting'[k] = << >>
  BY <1>2, <1>4, WaitingFacts, SMT
<1>6. ASSUME NEW l \in Key \ {k} PROVE Waiting'[l] = Waiting[l]
  BY <1>1, <1>2, <1>4, HeadFacts, SameWaiting
<1>7. Waiting' = Waiting
  BY <1>5, <1>6, WaitingIsFunction
<1>8. ~ Serial!Busy(k)
  BY <1>2 DEF Serial!Busy, SInv, IInv, TypeOK, PassedJobIsHead
<1> QED BY <1>1, <1>2, <1>3, <1>5, <1>7, <1>8, NewNotKnown DEF Serial!StartAtOnce

(* The timer starts the heads it finds in main_chain's queue, each alone at its key. *)
LEMMA TimerStarts ==
  ASSUME SInv, job_timer_procedure
  PROVE  \E ks \in SUBSET Key : Serial!Start(ks)
<1>1. PICK ks \in SUBSET Key : ks = {k \in Key : HasBarrier(k) /\ InQueue(Head(barrier[k]))}
  OBVIOUS
<1>2. asked' = asked \cup Range(queue) /\ barrier' = barrier /\ outcome' = outcome
  BY DEF job_timer_procedure
<1>3. \A j : j \in Range(queue) <=> InQueue(j)
  BY LenProperties DEF SInv, IInv, TypeOK, Range, InQueue
<1>4. ASSUME NEW j \in Range(queue)
      PROVE  /\ j \in Job \ Bypass /\ j \notin asked
             /\ barrier_key[j] \in ks /\ Head(barrier[barrier_key[j]]) = j
  <2>1. j \in Job \ Bypass /\ j \notin asked
    <3>1. PICK i \in 1..Len(queue) : queue[i] = j
      BY <1>3 DEF InQueue
    <3>2. queue[i] \in Job
      BY SMT DEF SInv, IInv, TypeOK
    <3> QED BY <3>1, <3>2 DEF SInv, IInv, QueuedNotAsked
  <2>2. HasBarrier(barrier_key[j]) /\ Head(barrier[barrier_key[j]]) = j
    BY <1>3, <2>1 DEF SInv, IInv, PassedJobIsHead
  <2> QED BY <1>1, <1>3, <2>1, <2>2, KeyAssumption
<1>5. ASSUME NEW k \in ks
      PROVE  /\ ~ Serial!Busy(k) /\ Waiting[k] = barrier[k] /\ barrier[k] # << >>
             /\ Head(barrier[k]) \in Range(queue) /\ Waiting'[k] = Tail(barrier[k])
  <2>1. k \in Key /\ HasBarrier(k) /\ Head(barrier[k]) \in Range(queue)
    BY <1>1, <1>3
  <2>2. Head(barrier[k]) \notin asked /\ Head(barrier[k]) \in asked'
    BY <1>2, <1>4, <2>1
  <2>3. Waiting[k] = barrier[k] /\ Waiting'[k] = Tail(barrier[k])
    BY <1>2, <2>1, <2>2, WaitingFacts DEF HasBarrier
  <2>4. ~ Serial!Busy(k)
    BY <2>2 DEF Serial!Busy, SInv, IInv, TypeOK, PassedJobIsHead
  <2> QED BY <2>1, <2>3, <2>4 DEF HasBarrier
<1>6. ASSUME NEW k \in Key \ ks PROVE Waiting'[k] = Waiting[k]
  <2>1. HasBarrier(k) => Head(barrier[k]) \notin Range(queue)
    BY <1>1, <1>3
  <2> QED BY <1>2, <2>1, SameWaiting
<1>7. Range(queue) = {Head(Waiting[k]) : k \in ks}
  BY <1>4, <1>5, SMT
<1>8. Waiting' = [k \in Key |-> IF k \in ks THEN Tail(Waiting[k]) ELSE Waiting[k]]
  BY <1>5, <1>6, WaitingIsFunction
<1>9. Finished' = Finished
  BY <1>2 DEF Finished
<1> QED BY <1>2, <1>5, <1>7, <1>8, <1>9 DEF Serial!Start

(* The answer of a request finishes it; the next one of its key goes on waiting. *)
LEMMA AnswerFinishes ==
  ASSUME SInv, NEW j \in Job, job_answer_procedure(j)
  PROVE  Serial!Finish(j)
<1>1. j \in asked /\ asked' = asked \ {j} /\ outcome' = [outcome EXCEPT ![j] = "answered"]
  BY DEF job_answer_procedure
<1>2. Finished' = Finished \cup {j}
  BY <1>1 DEF Finished, SInv, IInv, TypeOK
<1>3. Waiting' = Waiting
  <2>1. CASE j \in Bypass
    <3>1. barrier' = barrier
      BY <2>1 DEF job_answer_procedure
    <3>2. ASSUME NEW k \in Key PROVE Waiting'[k] = Waiting[k]
      BY <1>1, <2>1, <3>1, HeadFacts, SameWaiting
    <3> QED BY <3>2, WaitingIsFunction, SMT
  <2>2. CASE j \notin Bypass
    <3>1. PICK k \in Key : k = barrier_key[j]
      BY KeyAssumption, SMT
    <3>2. HasBarrier(k) /\ Head(barrier[k]) = j
      BY <1>1, <2>2, <3>1 DEF SInv, IInv, PassedJobIsHead
    <3>3. barrier' = [barrier EXCEPT ![k] = Tail(@)]
      BY <2>2, <3>1, <3>2 DEF job_answer_procedure, leave_barrier
    <3>4. barrier'[k] = Tail(barrier[k]) /\ \A l \in Key \ {k} : barrier'[l] = barrier[l]
      BY <3>3 DEF SInv, IInv, TypeOK
    <3>5. barrier[k] \in Seq(Job) /\ barrier[k] # << >>
      BY <3>2, HeadFacts
    <3>6. Waiting[k] = Tail(barrier[k])
      BY <1>1, <3>2, WaitingFacts
    <3>7. Tail(barrier[k]) # << >> => Head(Tail(barrier[k])) \notin asked'
      <4> SUFFICES ASSUME Tail(barrier[k]) # << >> PROVE Head(Tail(barrier[k])) \notin asked'
        OBVIOUS
      <4>1. /\ Len(barrier[k]) \in Nat /\ Len(barrier[k]) > 1
            /\ Head(Tail(barrier[k])) = barrier[k][2] /\ barrier[k][2] \in Job
        BY <3>5, TailFacts
      <4>2. 2 \in 1..Len(barrier[k])
        BY <4>1, SMT
      <4>3. barrier[k][2] \notin Bypass /\ barrier_key[barrier[k][2]] = k
        BY <4>2 DEF SInv, IInv, QueuesAreKeyed
      <4>4. barrier[k][2] \in asked => barrier[k][2] = j
        BY <3>2, <4>1, <4>3 DEF SInv, IInv, PassedJobIsHead
      <4> QED BY <1>1, <4>1, <4>4
    <3>8. Waiting'[k] = Waiting[k]
      BY <3>4, <3>6, <3>7, WaitingFacts
    <3>9. ASSUME NEW l \in Key \ {k} PROVE Waiting'[l] = Waiting[l]
      BY <1>1, <3>1, <3>4, HeadFacts, SameWaiting
    <3> QED BY <3>8, <3>9, WaitingIsFunction
  <2> QED BY <2>1, <2>2
<1> QED BY <1>1, <1>2, <1>3 DEF Serial!Finish

(* Every step of the barrier is a step of the abstract specification, or changes nothing of it. *)
LEMMA StepSimulates ==
  ASSUME SInv, [Next]_vars
  PROVE  [Serial!Next]_(Serial!vars)
<1>1. ASSUME NEW j \in Job, job_ask_procedure(j) PROVE Serial!Next
  <2>1. CASE ask_bypass(j)
    BY <2>1, BypassStarts DEF Serial!Next
  <2>2. CASE ask_blocked(j)
    BY <2>2, BlockedAccepts DEF Serial!Next
  <2>3. CASE ask_too_many_at_key(j) \/ ask_too_many_barriers(j)
    <3>1. reject(j)
      BY <2>3 DEF ask_too_many_at_key, ask_too_many_barriers
    <3> QED BY <3>1, RejectRefuses DEF Serial!Next
  <2>4. CASE ask_first(j)
    BY <2>4, FirstStarts, SMT DEF Serial!Next
  <2> QED BY <1>1, <2>1, <2>2, <2>3, <2>4 DEF job_ask_procedure
<1>2. CASE job_timer_procedure
  BY <1>2, TimerStarts DEF Serial!Next
<1>3. ASSUME NEW j \in Job, job_answer_procedure(j) PROVE Serial!Next
  BY <1>3, AnswerFinishes DEF Serial!Next
<1>4. CASE UNCHANGED vars
  BY <1>4 DEF vars, Serial!vars, Waiting, Finished, HasBarrier
<1> QED BY <1>1, <1>2, <1>3, <1>4 DEF Next

(***************************************************************************)
(* For any requests, keys and limits, what BarrierAskAnswerChain does is   *)
(* per-key serial execution in order of arrival: job_ask_procedure starts, *)
(* parks or refuses a request, main_chain's timer starts the oldest parked *)
(* request of keys where none runs, and job_answer_procedure finishes one. *)
(***************************************************************************)
THEOREM BarrierImplementsSerial == Spec => ImplementsSerialByKey
<1>1. Init => Serial!Init
  BY DEF Init, Serial!Init, Waiting, Finished, HasBarrier
<1>2. SInv /\ [Next]_vars => [Serial!Next]_(Serial!vars)
  BY StepSimulates
<1> QED BY <1>1, <1>2, InitSInv, NextSInv, PTL
           DEF Spec, ImplementsSerialByKey, Serial!Spec
=============================================================================
