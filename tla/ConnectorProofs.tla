--------------------------- MODULE ConnectorProofs --------------------------
(***************************************************************************)
(* Theorems about the pool of connections for any groups, jobs, limits and *)
(* settings: its free list, its counts and the stages of its connections   *)
(* agree and its queue is bounded; then its jobs, and the replies.         *)
(***************************************************************************)
EXTENDS Connector, FiniteSetTheorems, TLAPS

(* most leaves need no arithmetic *)
USE Zenon

Agrees(c) ==
  /\ c \in freeHelper <=> stage[c] = "IDLE"
  /\ stage[c] \in Working <=> held[c] # NoJob

(* The connections. *)
ConnInv ==
  /\ stage \in [Helper -> Stage]
  /\ held \in [Helper -> Job \cup {NoJob}]
  /\ wire \in [Helper -> Seq(Request)]
  /\ timer \subseteq Helper /\ freeHelper \subseteq Helper
  /\ \A c \in Helper : Agrees(c)

ReadyOf(g) == {c \in helperList(g) : ready[c]}

(* Their health. *)
HealthInv ==
  /\ connectErrorCnt \in [Helper -> 0 .. maxTryConnect + 1]
  /\ ready \in [Helper -> BOOLEAN]
  /\ readyHelperCnt \in [Group -> Nat]
  /\ \A g \in Group : readyHelperCnt[g] = Cardinality(ReadyOf(g))

(* The jobs. *)
JobsInv ==
  /\ queue \in [Group -> Seq(Job)]
  /\ outcome \in [Job -> Outcome]
  /\ failed_send \subseteq Job
  /\ sent \in [Job -> Nat]

(* Everything else. *)
OtherInv ==
  /\ i_enable_check \in EnableHwc
  /\ flushing \subseteq Group
  /\ expired \subseteq Job
  /\ reloads \in 0 .. max_reload
  /\ stray \in BOOLEAN /\ undefined \in BOOLEAN

PoolInv == ConnInv /\ HealthInv /\ JobsInv /\ OtherInv
-----------------------------------------------------------------------------
(* A connection belongs to one group. *)
LEMMA GroupFacts ==
  ASSUME NEW c \in Helper
  PROVE  /\ GroupOf(c) \in Group /\ c \in helperList(GroupOf(c))
         /\ \A g \in Group \ {GroupOf(c)} : c \notin helperList(g)
BY HelperAssumption DEF Helper, GroupOf, Group, helperList

LEMMA GroupsFinite ==
  ASSUME NEW g \in Group
  PROVE  /\ IsFiniteSet(helperList(g)) /\ helperMax(g) \in Nat
         /\ helperList(g) \subseteq Helper
<1>1. IsFiniteSet(helperList(g)) /\ helperList(g) \subseteq Helper
  BY HelperAssumption DEF helperList, Helper
<1> QED BY <1>1, FS_CardinalityType DEF helperMax

LEMMA ReadyFacts ==
  ASSUME NEW g \in Group
  PROVE  /\ IsFiniteSet(ReadyOf(g)) /\ Cardinality(ReadyOf(g)) \in Nat
         /\ Cardinality(ReadyOf(g)) <= helperMax(g)
         /\ Cardinality(ReadyOf(g)) = helperMax(g) => ReadyOf(g) = helperList(g)
<1>1. ReadyOf(g) \in SUBSET helperList(g)
  BY DEF ReadyOf
<1> QED BY <1>1, GroupsFinite, FS_Subset, FS_CardinalityType DEF helperMax

(* The first and the rest of a sequence that is not empty, and what longer ones hold *)
LEMMA SeqFacts ==
  ASSUME NEW S, NEW s \in Seq(S)
  PROVE  /\ s # << >> => Head(s) \in S /\ Tail(s) \in Seq(S)
         /\ \A x \in S : Append(s, x) \in Seq(S) /\ <<x>> \o s \in Seq(S)
BY SMT
-----------------------------------------------------------------------------
(* A failed connect takes its connection off the count when it was ready. *)
LEMMA ErrorHealth ==
  ASSUME HealthInv, NEW c \in Helper, connect_error(c)
  PROVE  HealthInv'
<1> DEFINE many == connectErrorCnt[c] + 1 > maxTryConnect
<1>2. /\ connectErrorCnt' = [connectErrorCnt EXCEPT ![c] = IF many THEN maxTryConnect + 1 ELSE @ + 1]
      /\ ready' = [ready EXCEPT ![c] = @ /\ ~many]
      /\ readyHelperCnt' = IF many /\ ready[c] THEN dec_ready_helper(GroupOf(c))
                           ELSE readyHelperCnt
  BY DEF connect_error
<1>3. connectErrorCnt' \in [Helper -> 0 .. maxTryConnect + 1]
  BY <1>2, BoundAssumption, SMT DEF HealthInv
<1> HIDE DEF many
<1>4. ready' \in [Helper -> BOOLEAN]
  BY <1>2 DEF HealthInv
<1>5. CASE many /\ ready[c]
  <2>1. /\ ready'[c] = FALSE /\ \A d \in Helper \ {c} : ready'[d] = ready[d]
    BY <1>2, <1>5 DEF HealthInv
  <2>2. ASSUME NEW g \in Group \ {GroupOf(c)}
        PROVE  readyHelperCnt'[g] = Cardinality(ReadyOf(g)')
    <3>1. ReadyOf(g)' = ReadyOf(g)
      BY <2>1, GroupFacts, GroupsFinite DEF ReadyOf
    <3>2. readyHelperCnt'[g] = readyHelperCnt[g]
      BY <1>2, <1>5 DEF HealthInv, dec_ready_helper
    <3> QED BY <3>1, <3>2 DEF HealthInv
  <2>3. PICK g \in Group : g = GroupOf(c)
    BY GroupFacts
  <2>4. ReadyOf(g)' = ReadyOf(g) \ {c} /\ c \in ReadyOf(g)
    <3>1. c \in helperList(g) /\ helperList(g) \subseteq Helper
      BY <2>3, GroupFacts, GroupsFinite
    <3>2. ReadyOf(g)' = {d \in helperList(g) : ready'[d]}
      BY DEF ReadyOf
    <3> QED BY <1>5, <2>1, <3>1, <3>2 DEF ReadyOf
  <2>5. Cardinality(ReadyOf(g)') = Cardinality(ReadyOf(g)) - 1 /\ Cardinality(ReadyOf(g)) # 0
    BY <2>4, ReadyFacts, FS_RemoveElement, FS_EmptySet, ZenonT(30)
  <2>6. readyHelperCnt' = [readyHelperCnt EXCEPT ![g] = @ - 1] /\ readyHelperCnt[g] \in Nat \ {0}
    <3>1. readyHelperCnt[g] \in Nat \ {0}
      BY <2>5 DEF HealthInv
    <3>2. readyHelperCnt' = dec_ready_helper(g)
      BY <1>2, <1>5, <2>3
    <3>3. readyHelperCnt[g] > 0
      BY <3>1, SMT
    <3> QED BY <3>1, <3>2, <3>3 DEF dec_ready_helper
  <2>7. readyHelperCnt'[g] = Cardinality(ReadyOf(g)') /\ readyHelperCnt' \in [Group -> Nat]
    BY <2>5, <2>6, SMT DEF HealthInv
  <2> QED BY <1>3, <1>4, <2>2, <2>3, <2>7 DEF HealthInv
<1>6. CASE ~ (many /\ ready[c])
  <2>1. readyHelperCnt' = readyHelperCnt /\ \A d \in Helper : ready'[d] = ready[d]
    BY <1>2, <1>6 DEF HealthInv
  <2>2. ASSUME NEW g \in Group PROVE ReadyOf(g)' = ReadyOf(g)
    BY <2>1, GroupsFinite DEF ReadyOf
  <2> QED BY <1>3, <1>4, <2>1, <2>2 DEF HealthInv
<1> QED BY <1>5, <1>6

(* A verified connection is back on the count, which has room for it. *)
LEMMA ReadyHealth ==
  ASSUME HealthInv, NEW c \in Helper, Ready(c)
  PROVE  HealthInv'
<1>1. connectErrorCnt' \in [Helper -> 0 .. maxTryConnect + 1] /\ ready' \in [Helper -> BOOLEAN]
  BY BoundAssumption, SMT DEF HealthInv, Ready
<1>2. ready'[c] = TRUE /\ \A d \in Helper \ {c} : ready'[d] = ready[d]
  BY DEF HealthInv, Ready
<1>3. CASE ready[c]
  <2>1. readyHelperCnt' = readyHelperCnt
    BY <1>3 DEF Ready
  <2>2. ASSUME NEW g \in Group PROVE ReadyOf(g)' = ReadyOf(g)
    BY <1>2, <1>3, GroupsFinite DEF ReadyOf
  <2> QED BY <1>1, <2>1, <2>2 DEF HealthInv
<1>4. CASE ~ ready[c]
  <2>1. PICK g \in Group : g = GroupOf(c)
    BY GroupFacts, SMT
  <2>2. ASSUME NEW h \in Group \ {g} PROVE readyHelperCnt'[h] = Cardinality(ReadyOf(h)')
    <3>1. ReadyOf(h)' = ReadyOf(h)
      BY <1>2, <2>1, GroupFacts, GroupsFinite DEF ReadyOf
    <3>2. readyHelperCnt'[h] = readyHelperCnt[h]
      BY <1>4, <2>1 DEF HealthInv, Ready, add_ready_helper
    <3> QED BY <3>1, <3>2 DEF HealthInv
  <2>3. ReadyOf(g)' = ReadyOf(g) \cup {c} /\ c \notin ReadyOf(g) /\ c \in helperList(g)
    <3>1. c \in helperList(g) /\ helperList(g) \subseteq Helper
      BY <2>1, GroupFacts, GroupsFinite, SMT
    <3>2. ReadyOf(g)' = {d \in helperList(g) : ready'[d]}
      BY SMT DEF ReadyOf
    <3> QED BY <1>2, <1>4, <3>1, <3>2 DEF ReadyOf
  <2>4. /\ Cardinality(ReadyOf(g)') = Cardinality(ReadyOf(g)) + 1
        /\ Cardinality(ReadyOf(g)) < helperMax(g) /\ Cardinality(ReadyOf(g)) \in Nat
    <3>1. ReadyOf(g) # helperList(g)
      BY <2>3
    <3>2. Cardinality(ReadyOf(g)) < helperMax(g) /\ Cardinality(ReadyOf(g)) \in Nat
      BY <3>1, ReadyFacts, GroupsFinite, SMT
    <3> QED BY <2>3, <3>2, ReadyFacts, FS_AddElement
  <2>5. readyHelperCnt' = [readyHelperCnt EXCEPT ![g] = @ + 1]
    BY <1>4, <2>1, <2>4 DEF HealthInv, Ready, add_ready_helper
  <2>6. readyHelperCnt'[g] = Cardinality(ReadyOf(g)') /\ readyHelperCnt' \in [Group -> Nat]
    BY <2>4, <2>5, SMT DEF HealthInv
  <2> QED BY <1>1, <2>2, <2>6 DEF HealthInv
<1> QED BY <1>3, <1>4

LEMMA SameHealth ==
  ASSUME HealthInv, UNCHANGED health
  PROVE  HealthInv'
BY DEF HealthInv, health, ReadyOf
-----------------------------------------------------------------------------
(* What a step of one connection must keep for the connections to agree *)
LEMMA OneConn ==
  ASSUME ConnInv, NEW c \in Helper,
         NEW s \in Stage, NEW j \in Job \cup {NoJob}, NEW w \in Seq(Request),
         stage' = [stage EXCEPT ![c] = s], held' = [held EXCEPT ![c] = j],
         wire' = [wire EXCEPT ![c] = w], timer' \subseteq Helper,
         freeHelper' = IF s = "IDLE" THEN freeHelper \cup {c} ELSE freeHelper \ {c},
         s \in Working <=> j # NoJob
  PROVE  ConnInv'
<1>1. /\ stage' \in [Helper -> Stage] /\ held' \in [Helper -> Job \cup {NoJob}]
      /\ wire' \in [Helper -> Seq(Request)] /\ freeHelper' \subseteq Helper
  BY DEF ConnInv
<1>2. Agrees(c)'
  BY DEF ConnInv, Agrees
<1>3. ASSUME NEW d \in Helper \ {c} PROVE Agrees(d)'
  <2>1. stage'[d] = stage[d] /\ held'[d] = held[d] /\ (d \in freeHelper' <=> d \in freeHelper)
    BY DEF ConnInv
  <2> QED BY <2>1 DEF ConnInv, Agrees
<1> QED BY <1>1, <1>2, <1>3 DEF ConnInv

LEMMA SameConn ==
  ASSUME ConnInv, UNCHANGED <<conn, freeHelper>>
  PROVE  ConnInv'
BY DEF ConnInv, Agrees, conn

LEMMA DisconnectConn ==
  ASSUME ConnInv, NEW c \in Helper, Disconnect(c)
  PROVE  ConnInv'
<1>1. timer' \subseteq Helper
  BY DEF ConnInv, Disconnect
<1>2. "DISC" \in Stage /\ "DISC" # "IDLE" /\ "DISC" \notin Working /\ <<>> \in Seq(Request)
  BY SMT DEF Stage, Working
<1>3. /\ stage' = [stage EXCEPT ![c] = "DISC"] /\ held' = [held EXCEPT ![c] = NoJob]
      /\ wire' = [wire EXCEPT ![c] = <<>>] /\ freeHelper' = freeHelper \ {c}
  BY DEF Disconnect
<1> QED BY <1>1, <1>2, <1>3, OneConn

LEMMA ReconnectConn ==
  ASSUME ConnInv, NEW c \in Helper, reconnect(c)
  PROVE  ConnInv'
<1>1. PICK s \in {"DISC", "CONN", "SND_VER", "RECV_VER"} :
        /\ stage' = [stage EXCEPT ![c] = s]
        /\ wire' = [wire EXCEPT ![c] = IF s = "RECV_VER" THEN <<"verify">> ELSE <<>>]
  BY DEF reconnect
<1>2. /\ held' = [held EXCEPT ![c] = NoJob] /\ timer' \subseteq Helper
      /\ freeHelper' = freeHelper \ {c}
  BY DEF reconnect, ConnInv
<1>3. PICK w \in Seq(Request) : w = IF s = "RECV_VER" THEN <<"verify">> ELSE <<>>
  <2>1. "verify" \in Request
    BY DEF Request
  <2>2. <<"verify">> \in Seq(Request) /\ <<>> \in Seq(Request)
    BY <2>1, SMT
  <2> QED BY <2>2
<1>4. s \in Stage /\ s # "IDLE" /\ s \notin Working
  BY DEF Stage, Working
<1> QED BY <1>1, <1>2, <1>3, <1>4, OneConn

LEMMA CompletedConn ==
  ASSUME ConnInv, NEW c \in Helper, NEW w \in Seq(Request), NEW t \in SUBSET Helper,
         request_completed(c, w, t)
  PROVE  ConnInv'
<1>1. timer' \subseteq Helper
  BY DEF request_completed
<1> QED BY <1>1, OneConn DEF request_completed, Stage, Working

(* An internal request leaves the job where it is. *)
LEMMA InternalConn ==
  ASSUME ConnInv, NEW c \in Helper, NEW snd \in Stage \ {"IDLE"}, NEW rcv \in Stage \ {"IDLE"},
         NEW what \in Request, SendInternal(c, snd, rcv, what), stage[c] # "IDLE",
         snd \in Working <=> stage[c] \in Working, rcv \in Working <=> stage[c] \in Working
  PROVE  ConnInv'
<1>1. PICK full \in BOOLEAN :
        /\ stage' = [stage EXCEPT ![c] = IF full THEN rcv ELSE snd]
        /\ wire' = IF full THEN [wire EXCEPT ![c] = Append(@, what)] ELSE wire
        /\ timer' = timer \cup {c}
        /\ UNCHANGED <<held, freeHelper>>
  BY DEF SendInternal
<1>2. PICK s \in Stage \ {"IDLE"} : s = IF full THEN rcv ELSE snd
  OBVIOUS
<1>3. wire[c] \in Seq(Request) /\ Append(wire[c], what) \in Seq(Request)
  BY SeqFacts DEF ConnInv
<1>4. PICK w \in Seq(Request) : w = IF full THEN Append(wire[c], what) ELSE wire[c]
  BY <1>3
<1>5. wire' = [wire EXCEPT ![c] = w]
  BY <1>1, <1>4 DEF ConnInv
<1>6. held' = [held EXCEPT ![c] = held[c]] /\ held[c] \in Job \cup {NoJob}
  BY <1>1 DEF ConnInv
<1>7. freeHelper' = freeHelper \ {c}
  BY <1>1 DEF ConnInv, Agrees
<1>8. s \in Working <=> held[c] # NoJob
  BY <1>2 DEF ConnInv, Agrees
<1>9. timer' \subseteq Helper
  BY <1>1 DEF ConnInv
<1> QED BY <1>1, <1>2, <1>5, <1>6, <1>7, <1>8, <1>9, OneConn

LEMMA AttachConn ==
  ASSUME ConnInv, NEW c \in Helper, NEW j \in Job,
         attach_task(c, j), freeHelper' = freeHelper \ {c}
  PROVE  ConnInv'
<1>1. PICK full \in BOOLEAN :
        /\ stage' = [stage EXCEPT ![c] = IF full THEN "RECV" ELSE "SEND"]
        /\ held' = [held EXCEPT ![c] = j]
        /\ wire' = IF full THEN [wire EXCEPT ![c] = Append(@, j)] ELSE wire
        /\ timer' = timer \cup {c}
  BY DEF attach_task
<1>2. PICK s \in {"RECV", "SEND"} : s = IF full THEN "RECV" ELSE "SEND"
  OBVIOUS
<1>3. wire[c] \in Seq(Request) /\ Append(wire[c], j) \in Seq(Request)
  BY SeqFacts DEF ConnInv, Request
<1>4. PICK w \in Seq(Request) : w = IF full THEN Append(wire[c], j) ELSE wire[c]
  BY <1>3
<1>5. wire' = [wire EXCEPT ![c] = w]
  BY <1>1, <1>4 DEF ConnInv
<1>6. s \in Stage /\ s # "IDLE" /\ s \in Working /\ j # NoJob /\ timer' \subseteq Helper
  BY <1>1, <1>2, JobAssumption DEF Stage, Working, ConnInv
<1> QED BY <1>1, <1>2, <1>5, <1>6, OneConn
-----------------------------------------------------------------------------
(* An answer changes the outcome of one job at most. *)
LEMMA AnswerJobs ==
  ASSUME JobsInv, NEW j \in Job \cup {NoJob}, NEW r \in Outcome, outcome' = Answered(j, r),
         UNCHANGED <<queue, failed_send, sent>>
  PROVE  JobsInv'
BY DEF JobsInv, Answered

LEMMA SameJobs ==
  ASSUME JobsInv, UNCHANGED <<queue, outcome, failed_send, sent>>
  PROVE  JobsInv'
BY DEF JobsInv

(* What the handlers of a connection keep *)
ClientInv == ConnInv /\ HealthInv /\ JobsInv /\ stray \in BOOLEAN

LEMMA ResetKeeps ==
  ASSUME ClientInv, NEW c \in Helper, Reset(c)
  PROVE  ClientInv'
<1>1. held[c] \in Job \cup {NoJob} /\ ResetOutcome(c) \in Outcome
  BY DEF ClientInv, ConnInv, ResetOutcome, Outcome
<1>2. JobsInv'
  BY <1>1, AnswerJobs DEF ClientInv, Reset
<1>3. ConnInv' /\ HealthInv'
  BY DisconnectConn, SameHealth DEF ClientInv, Reset
<1>4. stray' \in BOOLEAN
  BY DEF ClientInv, Reset, IsStray
<1> QED BY <1>2, <1>3, <1>4 DEF ClientInv

LEMMA FailKeeps ==
  ASSUME ClientInv, NEW c \in Helper, NEW r \in Outcome, FailAndReconnect(c, r)
  PROVE  ClientInv'
<1>1. held[c] \in Job \cup {NoJob}
  BY DEF ClientInv, ConnInv
<1>2. JobsInv'
  BY <1>1, AnswerJobs DEF ClientInv, FailAndReconnect
<1>3. ConnInv' /\ HealthInv'
  BY ReconnectConn, ErrorHealth DEF ClientInv, FailAndReconnect, reconnect
<1> QED BY <1>2, <1>3 DEF ClientInv, FailAndReconnect

LEMMA InternalKeeps ==
  ASSUME ClientInv, NEW c \in Helper, NEW snd \in Stage \ {"IDLE"}, NEW rcv \in Stage \ {"IDLE"},
         NEW what \in Request, SendInternal(c, snd, rcv, what), stage[c] # "IDLE",
         snd \in Working <=> stage[c] \in Working, rcv \in Working <=> stage[c] \in Working
  PROVE  ClientInv'
<1>1. UNCHANGED <<health, queue, outcome, failed_send, sent, stray>>
  BY DEF SendInternal
<1> QED BY <1>1, InternalConn, SameHealth, SameJobs DEF ClientInv

(* The rest of the reply path is sequences of requests. *)
LEMMA ReplyFacts ==
  ASSUME ConnInv, NEW c \in Helper, wire[c] # <<>>
  PROVE  /\ Tail(wire[c]) \in Seq(Request) /\ timer \ {c} \in SUBSET Helper
         /\ timer \cup {c} \in SUBSET Helper
         /\ Tail(wire[c]) \o <<>> \in Seq(Request) /\ Tail(wire[c]) \o <<"check">> \in Seq(Request)
         /\ held[c] \in Job \cup {NoJob} /\ Replies(c) \subseteq Outcome
<1>1. wire[c] \in Seq(Request) /\ "check" \in Request
  BY DEF ConnInv, Request
<1>2. Tail(wire[c]) \in Seq(Request) /\ <<"check">> \in Seq(Request) /\ <<>> \in Seq(Request)
  BY <1>1, SMT
<1>3. Tail(wire[c]) \o <<>> \in Seq(Request) /\ Tail(wire[c]) \o <<"check">> \in Seq(Request)
  BY <1>2, SMT
<1>4. Replies(c) \subseteq Outcome
  BY DEF Replies, Outcome
<1> QED BY <1>2, <1>3, <1>4 DEF ConnInv

LEMMA InputKeeps ==
  ASSUME ClientInv, NEW c \in Helper, input_notify(c)
  PROVE  ClientInv'
<1> USE DEF ClientInv
<1>0. wire[c] # <<>> /\ "error" \in Outcome
  BY DEF input_notify, Outcome
<1>1. CASE recv_verify(c)
  <2>1. CASE Reset(c)
    BY <2>1, ResetKeeps
  <2>2. CASE /\ Ready(c)
             /\ request_completed(c, Tail(wire[c]), timer \ {c})
             /\ UNCHANGED <<queue, outcome, failed_send, sent, stray>>
    BY <1>0, <2>2, ReplyFacts, CompletedConn, ReadyHealth, SameJobs
  <2> QED BY <1>1, <2>1, <2>2 DEF recv_verify
<1>2. CASE recv_notify_helper_reload_config(c)
  <2>1. CASE Reset(c)
    BY <2>1, ResetKeeps, SMT
  <2>2. CASE /\ request_completed(c, Tail(wire[c]), timer \ {c})
             /\ UNCHANGED <<health, queue, outcome, failed_send, sent, stray>>
    BY <1>0, <2>2, ReplyFacts, CompletedConn, SameHealth, SameJobs
  <2> QED BY <1>2, <2>1, <2>2 DEF recv_notify_helper_reload_config
<1>3. CASE recv_notify_helper_check(c)
  <2>1. CASE FailAndReconnect(c, "error")
    BY <1>0, <2>1, FailKeeps
  <2>2. CASE /\ request_completed(c, Tail(wire[c]), timer \ {c})
             /\ outcome' = Answered(held[c], "error")
             /\ UNCHANGED <<health, queue, failed_send, sent, stray>>
    BY <1>0, <2>2, ReplyFacts, CompletedConn, SameHealth, AnswerJobs
  <2> QED BY <1>3, <2>1, <2>2 DEF recv_notify_helper_check
<1>4. CASE recv_response(c)
  <2>1. CASE FailAndReconnect(c, "error")
    BY <1>0, <2>1, FailKeeps, SMT
  <2>2. ASSUME UNCHANGED <<health, queue, failed_send, sent, stray>>,
               NEW w \in Seq(Request), NEW t \in SUBSET Helper, request_completed(c, w, t),
               NEW r \in Outcome, outcome' = Answered(held[c], r)
        PROVE  ClientInv'
    BY <1>0, <2>2, ReplyFacts, CompletedConn, SameHealth, AnswerJobs
  <2>3. CASE /\ UNCHANGED <<health, queue, failed_send, sent, stray>>
             /\ request_completed(c, Tail(wire[c]), timer \ {c})
             /\ \E r \in Replies(c) : outcome' = Answered(held[c], r)
    BY <1>0, <2>2, <2>3, ReplyFacts
  <2>4. CASE /\ UNCHANGED <<health, queue, failed_send, sent, stray>>
             /\ client_notify_helper_check(c)
    <3>1. PICK checked \in {<<>>, <<"check">>} :
            request_completed(c, Tail(wire[c]) \o checked, timer \cup {c})
      BY <2>4 DEF client_notify_helper_check
    <3>2. PICK r \in Replies(c) : outcome' = Answered(held[c], r)
      BY <2>4 DEF client_notify_helper_check
    <3>3. Tail(wire[c]) \o checked \in Seq(Request) /\ r \in Outcome
      BY <1>0, ReplyFacts
    <3> QED BY <1>0, <2>2, <2>4, <3>1, <3>2, <3>3, ReplyFacts
  <2> QED BY <1>4, <2>1, <2>3, <2>4 DEF recv_response
<1>5. CASE input_idle(c)
  BY <1>5, ResetKeeps DEF input_idle
<1>6. CASE input_ignored(c)
  <2>1. /\ UNCHANGED <<stage, held, wire, freeHelper>> /\ timer' = timer \ {c}
        /\ UNCHANGED <<health, queue, outcome, failed_send, sent, stray>>
    BY <1>6 DEF input_ignored
  <2>2. ConnInv'
    BY <2>1 DEF ConnInv, Agrees
  <2> QED BY <2>1, <2>2, SameHealth, SameJobs
<1> QED BY <1>1, <1>2, <1>3, <1>4, <1>5, <1>6 DEF input_notify

LEMMA OutputKeeps ==
  ASSUME ClientInv, NEW c \in Helper, output_notify(c)
  PROVE  ClientInv'
<1>0. {"verify", "reload", "check"} \subseteq Request
  BY DEF Request
<1>1. CASE output_connecting(c)
  BY <1>0, <1>1, InternalKeeps DEF output_connecting, Stage, Working
<1>2. CASE send_verify(c)
  BY <1>0, <1>2, InternalKeeps DEF send_verify, Stage, Working
<1>3. CASE send_notify_helper_reload_config(c)
  BY <1>0, <1>3, InternalKeeps DEF send_notify_helper_reload_config, Stage, Working
<1>4. CASE send_notify_helper_check(c)
  BY <1>0, <1>4, InternalKeeps DEF send_notify_helper_check, Stage, Working
<1>5. CASE stage[c] = "SEND"
  <2>0. held[c] \in Job /\ c \notin freeHelper
    BY <1>5 DEF ClientInv, ConnInv, Agrees, Working
  <2>1. CASE send_request(c)
    <3>1. PICK full \in BOOLEAN :
            /\ stage' = IF full THEN [stage EXCEPT ![c] = "RECV"] ELSE stage
            /\ wire' = IF full THEN [wire EXCEPT ![c] = Append(@, held[c])] ELSE wire
            /\ sent' = IF full THEN [sent EXCEPT ![held[c]] = @ + 1] ELSE sent
      BY <2>1 DEF send_request
    <3>2. /\ timer' = timer \cup {c}
          /\ UNCHANGED <<held, health, freeHelper, queue, outcome, failed_send, stray>>
      BY <2>1 DEF send_request
    <3>3. sent' \in [Job -> Nat]
      BY <2>0, <3>1, SMT DEF ClientInv, JobsInv
    <3>4. ConnInv'
      <4>1. wire[c] \in Seq(Request) /\ Append(wire[c], held[c]) \in Seq(Request)
        BY <2>0, SeqFacts DEF ClientInv, ConnInv, Request
      <4>2. wire' \in [Helper -> Seq(Request)]
        BY <3>1, <4>1 DEF ClientInv, ConnInv
      <4>3. stage' \in [Helper -> Stage]
        BY <3>1 DEF ClientInv, ConnInv, Stage
      <4>4. ASSUME NEW d \in Helper PROVE Agrees(d)'
        BY <1>5, <3>1, <3>2 DEF ClientInv, ConnInv, Agrees, Working
      <4> QED BY <3>2, <4>2, <4>3, <4>4 DEF ClientInv, ConnInv
    <3> QED BY <3>2, <3>3, <3>4, SameHealth DEF ClientInv, JobsInv
  <2>2. CASE queue_back_task(c)
    <3>1. PICK g \in Group : g = GroupOf(c)
      BY GroupFacts
    <3>2. /\ queue' = [queue EXCEPT ![g] = <<held[c]>> \o @]
          /\ failed_send' = failed_send \cup {held[c]} /\ reconnect(c)
          /\ UNCHANGED <<outcome, sent, stray>>
      BY <2>2, <3>1 DEF queue_back_task
    <3>3. <<held[c]>> \o queue[g] \in Seq(Job)
      BY <2>0, SeqFacts DEF ClientInv, JobsInv
    <3>4. JobsInv'
      BY <2>0, <3>2, <3>3 DEF ClientInv, JobsInv
    <3> QED BY <3>2, <3>4, ReconnectConn, ErrorHealth DEF ClientInv, reconnect
  <2> QED BY <1>5, <2>1, <2>2, <1>1, <1>2, <1>3, <1>4 DEF output_notify
<1> QED BY <1>1, <1>2, <1>3, <1>4, <1>5
           DEF output_notify, send_request, queue_back_task

LEMMA TimerKeeps ==
  ASSUME ClientInv, NEW c \in Helper, job_timer_procedure(c)
  PROVE  ClientInv'
<1>1. CASE timeout_check(c)
  BY <1>1, InternalKeeps DEF timeout_check, Stage, Working, Request
<1>2. CASE Reset(c)
  BY <1>2, ResetKeeps
<1>3. CASE FailAndReconnect(c, "error")
  BY <1>3, FailKeeps DEF Outcome
<1> QED BY <1>1, <1>2, <1>3 DEF job_timer_procedure

(* Every event of a connection *)
LEMMA ClientKeeps ==
  ASSUME PoolInv, NEW c \in Helper, Client(c), UNCHANGED i_enable_check
  PROVE  PoolInv'
<1>1. ClientInv
  BY DEF PoolInv, ClientInv, OtherInv
<1>2. ClientInv'
  BY <1>1, InputKeeps, OutputKeeps, ResetKeeps, TimerKeeps
     DEF Client, hangup_notify
<1> QED BY <1>2 DEF PoolInv, ClientInv, OtherInv, Client
-----------------------------------------------------------------------------
(* What becomes of a job whose turn it is: all but queue *)
Dispatch(g, j) ==
  \/ reject(j)
  \/ process_task(g, j)
  \/ process_without_helper

LEMMA DispatchKeeps ==
  ASSUME PoolInv, NEW g \in Group, NEW j \in Job, Dispatch(g, j)
  PROVE  /\ ConnInv' /\ undefined' \in BOOLEAN
         /\ outcome' \in [Job -> Outcome] /\ sent' \in [Job -> Nat]
<1>0. ConnInv /\ outcome \in [Job -> Outcome] /\ sent \in [Job -> Nat] /\ undefined \in BOOLEAN
  BY DEF PoolInv, JobsInv, OtherInv
<1>1. CASE reject(j)
  BY <1>0, <1>1, SameConn DEF reject, Outcome
<1>2. CASE process_without_helper
  BY <1>0, <1>2, SameConn DEF process_without_helper
<1>3. CASE /\ outcome' = [outcome EXCEPT ![j] = "error"]
           /\ UNCHANGED <<conn, freeHelper, sent, undefined>>
  BY <1>0, <1>3, SameConn DEF Outcome
<1>4. ASSUME NEW c \in Free(g), attach_task(c, j), freeHelper' = freeHelper \ {c},
             outcome' = [outcome EXCEPT ![j] = "open"], UNCHANGED undefined
      PROVE  /\ ConnInv' /\ undefined' \in BOOLEAN
             /\ outcome' \in [Job -> Outcome] /\ sent' \in [Job -> Nat]
  <2>1. c \in Helper
    BY GroupsFinite DEF Free
  <2>2. ConnInv'
    BY <1>0, <1>4, <2>1, AttachConn
  <2>3. sent' \in [Job -> Nat]
    BY <1>0, <1>4, SMT DEF attach_task
  <2>4. outcome' \in [Job -> Outcome]
    BY <1>0, <1>4 DEF Outcome
  <2> QED BY <1>0, <1>4, <2>2, <2>3, <2>4
<1>5. process_task(g, j) =>
        \/ /\ outcome' = [outcome EXCEPT ![j] = "error"]
           /\ UNCHANGED <<conn, freeHelper, sent, undefined>>
        \/ \E c \in Free(g) : /\ attach_task(c, j) /\ freeHelper' = freeHelper \ {c}
                              /\ outcome' = [outcome EXCEPT ![j] = "open"] /\ UNCHANGED undefined
  BY DEF process_task
<1> QED BY <1>1, <1>2, <1>3, <1>4, <1>5 DEF Dispatch

LEMMA FlushKeeps ==
  ASSUME PoolInv, NEW g \in Group, flush_task(g), UNCHANGED i_enable_check
  PROVE  PoolInv'
<1>1. PICK j : j = Head(queue[g])
  OBVIOUS
<1>2. queue[g] # <<>> /\ queue[g] \in Seq(Job)
  BY DEF flush_task, FlushHasWork, PoolInv, JobsInv
<1>3. j \in Job /\ Tail(queue[g]) \in Seq(Job)
  BY <1>1, <1>2, SeqFacts
<1>4. Dispatch(g, j)
  BY <1>1 DEF flush_task, Dispatch
<1>5. /\ queue' = [queue EXCEPT ![g] = Tail(@)]
      /\ UNCHANGED <<health, expired, failed_send, reloads, stray>>
      /\ flushing' = {h \in {g} : FlushHasWork(h)'}
  BY DEF flush_task
<1>6. flushing' \subseteq Group
  BY <1>5
<1>7. /\ ConnInv' /\ undefined' \in BOOLEAN
      /\ outcome' \in [Job -> Outcome] /\ sent' \in [Job -> Nat]
  BY <1>3, <1>4, DispatchKeeps
<1>8. JobsInv'
  BY <1>3, <1>5, <1>7 DEF PoolInv, JobsInv
<1>9. OtherInv'
  BY <1>5, <1>6, <1>7 DEF PoolInv, OtherInv
<1> QED BY <1>5, <1>7, <1>8, <1>9, SameHealth DEF PoolInv

LEMMA AskKeeps ==
  ASSUME PoolInv, NEW g \in Group, NEW j \in Job, job_ask_procedure(g, j), UNCHANGED i_enable_check
  PROVE  PoolInv'
<1>1. UNCHANGED <<health, flushing, expired, failed_send, reloads, stray>>
  BY DEF job_ask_procedure
<1>2. \/ Dispatch(g, j) /\ UNCHANGED queue
      \/ /\ queue' = [queue EXCEPT ![g] = Append(@, j)]
         /\ outcome' = [outcome EXCEPT ![j] = "open"]
         /\ UNCHANGED <<conn, freeHelper, sent, undefined>>
  BY DEF job_ask_procedure, Dispatch
<1>3. CASE Dispatch(g, j) /\ UNCHANGED queue
  <2>1. /\ ConnInv' /\ undefined' \in BOOLEAN
        /\ outcome' \in [Job -> Outcome] /\ sent' \in [Job -> Nat]
    BY <1>3, DispatchKeeps
  <2> QED BY <1>1, <1>3, <2>1, SameHealth DEF PoolInv, JobsInv, OtherInv
<1>4. CASE /\ queue' = [queue EXCEPT ![g] = Append(@, j)]
           /\ outcome' = [outcome EXCEPT ![j] = "open"]
           /\ UNCHANGED <<conn, freeHelper, sent, undefined>>
  <2>1. Append(queue[g], j) \in Seq(Job)
    BY SeqFacts DEF PoolInv, JobsInv
  <2>2. JobsInv'
    BY <1>1, <1>4, <2>1 DEF PoolInv, JobsInv, Outcome
  <2> QED BY <1>1, <1>4, <2>2, SameConn, SameHealth DEF PoolInv, OtherInv
<1> QED BY <1>2, <1>3, <1>4

LEMMA ReloadKeeps ==
  ASSUME PoolInv, collect_notify_helper_reload_config, UNCHANGED i_enable_check
  PROVE  PoolInv'
<1>1. PICK full \in SUBSET freeHelper :
        /\ stage' = [c \in Helper |-> IF c \in full THEN "RECV_RELOAD"
                                      ELSE IF c \in freeHelper THEN "SND_RELOAD" ELSE stage[c]]
        /\ wire' = [c \in Helper |-> IF c \in full THEN Append(wire[c], "reload") ELSE wire[c]]
  BY DEF collect_notify_helper_reload_config
<1>2. /\ reloads < max_reload /\ reloads' = reloads + 1
      /\ timer' = timer \cup freeHelper /\ freeHelper' = {}
      /\ UNCHANGED <<held, health, queue, flushing, expired, outcome, failed_send, sent, stray,
                     undefined>>
  BY DEF collect_notify_helper_reload_config
<1>3. ASSUME NEW c \in Helper PROVE wire[c] \in Seq(Request) /\ Append(wire[c], "reload") \in Seq(Request)
  BY SeqFacts DEF PoolInv, ConnInv, Request
<1>4. wire' \in [Helper -> Seq(Request)] /\ stage' \in [Helper -> Stage]
  BY <1>1, <1>3 DEF PoolInv, ConnInv, Stage
<1>5. ASSUME NEW c \in Helper PROVE Agrees(c)'
  BY <1>1, <1>2 DEF PoolInv, ConnInv, Agrees, Working
<1>6. ConnInv'
  BY <1>2, <1>4, <1>5 DEF PoolInv, ConnInv
<1>7. reloads' \in 0 .. max_reload
  BY <1>2, BoundAssumption, SMT DEF PoolInv, OtherInv
<1> QED BY <1>2, <1>6, <1>7, SameHealth, SameJobs DEF PoolInv, OtherInv

LEMMA ExpireKeeps ==
  ASSUME PoolInv, NEW j \in Job, expire(j), UNCHANGED i_enable_check
  PROVE  PoolInv'
<1>1. /\ expired' = expired \cup {j}
      /\ UNCHANGED <<conn, health, freeHelper, queue, flushing, outcome, failed_send, sent,
                     reloads, stray, undefined>>
  BY DEF expire
<1> QED BY <1>1, SameConn, SameHealth, SameJobs DEF PoolInv, OtherInv

(* Every step keeps the invariant. *)
LEMMA NextPool == PoolInv /\ [Next]_vars => PoolInv'
<1> SUFFICES ASSUME PoolInv, [Next]_vars PROVE PoolInv'
  OBVIOUS
<1>1. CASE UNCHANGED vars
  <2>1. UNCHANGED <<conn, freeHelper>> /\ UNCHANGED health
    BY <1>1 DEF vars
  <2>2. UNCHANGED <<queue, outcome, failed_send, sent>>
    BY <1>1 DEF vars
  <2> QED BY <1>1, <2>1, <2>2, SameConn, SameHealth, SameJobs
             DEF vars, PoolInv, OtherInv
<1>2. CASE Next
  BY <1>2, FlushKeeps, AskKeeps, ClientKeeps, ExpireKeeps, ReloadKeeps DEF Next
<1> QED BY <1>1, <1>2

(* The state do_attach leaves: all connections count as ready and none is free. *)
LEMMA InitPool == Init => PoolInv
<1> SUFFICES ASSUME Init PROVE PoolInv
  OBVIOUS
<1>1. ConnInv
  BY SMT DEF Init, ConnInv, Agrees, Stage, Working
<1>2. HealthInv
  <2>1. ASSUME NEW g \in Group
        PROVE  readyHelperCnt[g] = Cardinality(ReadyOf(g)) /\ helperMax(g) \in Nat
    <3>1. ReadyOf(g) = helperList(g)
      BY GroupsFinite DEF Init, ReadyOf
    <3> QED BY <3>1, GroupsFinite DEF Init, helperMax
  <2> QED BY <2>1, BoundAssumption, SMT DEF Init, HealthInv
<1>3. JobsInv /\ OtherInv
  <2>1. JobsInv
    BY SMT DEF Init, JobsInv, Outcome
  <2>2. OtherInv
    <3>1. 0 \in 0 .. max_reload
      BY BoundAssumption, SMT
    <3> QED BY <3>1 DEF Init, OtherInv
  <2> QED BY <2>1, <2>2
<1> QED BY <1>1, <1>2, <1>3 DEF PoolInv

(***************************************************************************)
(* The inductive invariant of the pool.                                    *)
(***************************************************************************)
THEOREM PoolInvariance == Spec => []PoolInv
BY InitPool, NextPool, PTL DEF Spec

(***************************************************************************)
(* A connection is on the free list exactly while it is idle, it has a job *)
(* exactly while it works on one, and the count of ready connections is    *)
(* exact: through every connect, timeout, hangup, failed send, reload and  *)
(* check, for any number of connections, groups and jobs.                  *)
(***************************************************************************)
THEOREM PoolAgrees == Spec => []PoolConsistent
<1>1. PoolInv => PoolConsistent
  BY DEF PoolInv, ConnInv, Agrees, HealthInv, ReadyOf, PoolConsistent
<1> QED BY <1>1, PoolInvariance, PTL

(***************************************************************************)
(* The variables have their types; the count of ready connections never    *)
(* goes below zero nor above the number of connections.                    *)
(***************************************************************************)
THEOREM PoolTypes == Spec => []TypeOK
<1>1. PoolInv => TypeOK
  <2> SUFFICES ASSUME PoolInv PROVE TypeOK
    OBVIOUS
  <2>1. ASSUME NEW g \in Group PROVE readyHelperCnt[g] <= helperMax(g)
    BY ReadyFacts DEF PoolInv, HealthInv
  <2> QED BY <2>1 DEF PoolInv, ConnInv, HealthInv, JobsInv, OtherInv, TypeOK
<1> QED BY <1>1, PoolInvariance, PTL
-----------------------------------------------------------------------------
(* The connections of a group that have a job *)
Busy(g) == {c \in helperList(g) : held[c] # NoJob}

LEMMA BusyFacts ==
  ASSUME NEW g \in Group
  PROVE  /\ IsFiniteSet(Busy(g)) /\ Cardinality(Busy(g)) \in Nat
         /\ Cardinality(Busy(g)) <= helperMax(g)
<1>1. Busy(g) \in SUBSET helperList(g)
  BY DEF Busy
<1> QED BY <1>1, GroupsFinite, FS_Subset, FS_CardinalityType DEF helperMax

LEMMA LengthFacts ==
  ASSUME NEW S, NEW s \in Seq(S)
  PROVE  /\ Len(s) \in Nat /\ (s # <<>> => Len(Tail(s)) = Len(s) - 1) /\ Len(<<>>) = 0
         /\ \A x \in S : Len(Append(s, x)) = Len(s) + 1 /\ Len(<<x>> \o s) = Len(s) + 1
BY SMT

(* A connection gives its job up and the queues stay, or nothing happens to either. *)
LEMMA ReleaseBounded ==
  ASSUME PoolInv, PoolInv', QueueBounded, UNCHANGED queue,
         \A c \in Helper : held'[c] \in {held[c], NoJob}
  PROVE  QueueBounded'
<1> SUFFICES ASSUME NEW g \in Group
             PROVE  Len(queue[g]) + Cardinality(Busy(g)') <= queueSize + helperMax(g)
  BY DEF QueueBounded, Busy
<1>1. Busy(g)' \in SUBSET Busy(g)
  <2>1. Busy(g)' = {c \in helperList(g) : held'[c] # NoJob} /\ helperList(g) \subseteq Helper
    BY GroupsFinite DEF Busy
  <2> QED BY <2>1 DEF Busy
<1>2. Cardinality(Busy(g)') <= Cardinality(Busy(g)) /\ Cardinality(Busy(g)') \in Nat
  BY <1>1, BusyFacts, FS_Subset, FS_CardinalityType
<1>3. Len(queue[g]) + Cardinality(Busy(g)) <= queueSize + helperMax(g)
  BY DEF QueueBounded, Busy
<1>4. Len(queue[g]) \in Nat /\ queueSize + helperMax(g) \in Nat
  BY LengthFacts, GroupsFinite, BoundAssumption, SMT DEF PoolInv, JobsInv
<1> QED BY <1>2, <1>3, <1>4, BusyFacts, SMT

(* A job moves from a connection to the head of the queue. *)
LEMMA BackBounded ==
  ASSUME PoolInv, QueueBounded, NEW c \in Helper, queue_back_task(c)
  PROVE  QueueBounded'
<1> SUFFICES ASSUME NEW g \in Group
             PROVE  Len(queue'[g]) + Cardinality(Busy(g)') <= queueSize + helperMax(g)
  BY DEF QueueBounded, Busy
<1>1. /\ held'[c] = NoJob /\ \A d \in Helper \ {c} : held'[d] = held[d]
      /\ queue' = [queue EXCEPT ![GroupOf(c)] = <<held[c]>> \o @] /\ held[c] \in Job
      /\ held[c] # NoJob
  BY SMT DEF queue_back_task, reconnect, PoolInv, ConnInv, Agrees, Working
<1>2. Busy(g)' = {d \in helperList(g) : held'[d] # NoJob} /\ helperList(g) \subseteq Helper
  BY GroupsFinite DEF Busy
<1>3. Len(queue[g]) + Cardinality(Busy(g)) <= queueSize + helperMax(g)
  BY DEF QueueBounded, Busy
<1>4. queue[g] \in Seq(Job) /\ Len(queue[g]) \in Nat /\ queueSize + helperMax(g) \in Nat
  BY LengthFacts, GroupsFinite, BoundAssumption, SMT DEF PoolInv, JobsInv
<1>5. CASE g = GroupOf(c)
  <2>1. Busy(g)' = Busy(g) \ {c} /\ c \in Busy(g)
    BY <1>1, <1>2, <1>5, GroupFacts DEF Busy
  <2>2. Cardinality(Busy(g)') = Cardinality(Busy(g)) - 1
    BY <2>1, BusyFacts, FS_RemoveElement
  <2>3. queue'[g] = <<held[c]>> \o queue[g]
    BY <1>1, <1>5 DEF PoolInv, JobsInv
  <2>4. Len(queue'[g]) = Len(queue[g]) + 1
    BY <1>1, <1>4, <2>3, LengthFacts, SMT
  <2> QED BY <1>3, <1>4, <2>2, <2>4, BusyFacts, SMT
<1>6. CASE g # GroupOf(c)
  <2>1. Busy(g)' = Busy(g)
    BY <1>1, <1>2, <1>6, GroupFacts DEF Busy
  <2>2. queue'[g] = queue[g]
    BY <1>1, <1>6 DEF PoolInv, JobsInv
  <2> QED BY <1>3, <2>1, <2>2
<1> QED BY <1>5, <1>6

(* A job is dispatched that leaves its queue, or comes while the queue is empty. *)
LEMMA DispatchBounded ==
  ASSUME PoolInv, QueueBounded, NEW g \in Group, NEW j \in Job, Dispatch(g, j),
         \A h \in Group \ {g} : queue'[h] = queue[h],
         \/ queue[g] # <<>> /\ queue'[g] = Tail(queue[g])
         \/ queue'[g] = queue[g] /\ (queue[g] = <<>> \/ ~ process_task(g, j))
  PROVE  QueueBounded'
<1> SUFFICES ASSUME NEW h \in Group
             PROVE  Len(queue'[h]) + Cardinality(Busy(h)') <= queueSize + helperMax(h)
  BY DEF QueueBounded, Busy
<1>1. Busy(h)' = {d \in helperList(h) : held'[d] # NoJob} /\ helperList(h) \subseteq Helper
  BY GroupsFinite DEF Busy
<1>2. Len(queue[h]) + Cardinality(Busy(h)) <= queueSize + helperMax(h)
  BY DEF QueueBounded, Busy
<1>3. /\ queue[h] \in Seq(Job) /\ Len(queue[h]) \in Nat /\ queueSize \in Nat
      /\ helperMax(h) \in Nat
  BY LengthFacts, GroupsFinite, BoundAssumption DEF PoolInv, JobsInv
<1>4. Len(queue'[h]) \in Nat /\ Len(queue'[h]) <= Len(queue[h])
  <2>1. CASE queue'[h] = queue[h]
    BY <1>3, <2>1, SMT
  <2>2. CASE h = g /\ queue[h] # <<>> /\ queue'[h] = Tail(queue[h])
    <3>1. Len(Tail(queue[h])) = Len(queue[h]) - 1 /\ Len(Tail(queue[h])) \in Nat
      BY <1>3, <2>2, LengthFacts, SeqFacts
    <3> QED BY <1>3, <2>2, <3>1, SMT
  <2> QED BY <2>1, <2>2
<1>5. CASE held' = held
  <2>1. Busy(h)' = Busy(h)
    BY <1>1, <1>5 DEF Busy
  <2> QED BY <1>2, <1>3, <1>4, <2>1, BusyFacts, SMT
<1>6. ASSUME NEW c \in Free(g), attach_task(c, j), process_task(g, j)
      PROVE  Len(queue'[h]) + Cardinality(Busy(h)') <= queueSize + helperMax(h)
  <2>1. /\ c \in helperList(g) /\ c \in Helper /\ held[c] = NoJob /\ g = GroupOf(c)
    <3>1. c \in helperList(g) /\ c \in Helper /\ c \in freeHelper
      BY GroupsFinite DEF Free
    <3>2. held[c] = NoJob
      BY <3>1, SMTT(20) DEF PoolInv, ConnInv, Agrees, Working
    <3> QED BY <3>1, <3>2, GroupFacts
  <2>2. held'[c] = j /\ j # NoJob /\ \A d \in Helper \ {c} : held'[d] = held[d]
    BY <1>6, <2>1, JobAssumption DEF attach_task, PoolInv, ConnInv
  <2>3. CASE h # g
    <3>1. Busy(h)' = Busy(h)
      BY <1>1, <2>1, <2>2, <2>3, GroupFacts DEF Busy
    <3> QED BY <1>2, <2>3, <3>1
  <2>4. CASE h = g
    <3>1. Busy(h)' = Busy(h) \cup {c} /\ c \notin Busy(h) /\ Busy(h)' \in SUBSET helperList(h)
      BY <1>1, <2>1, <2>2, <2>4, SMT DEF Busy
    <3>2. Cardinality(Busy(h)') = Cardinality(Busy(h)) + 1
      BY <3>1, BusyFacts, FS_AddElement
    <3>3. Cardinality(Busy(h)') <= helperMax(h)
      BY <3>1, GroupsFinite, FS_Subset, SMTT(20) DEF helperMax
    <3>4. CASE queue[g] = <<>> /\ queue'[g] = queue[g]
      BY <1>3, <2>4, <3>2, <3>3, <3>4, BusyFacts, LengthFacts, SMTT(20)
    <3>5. CASE queue[g] # <<>> /\ queue'[g] = Tail(queue[g])
      <4>1. Len(Tail(queue[g])) = Len(queue[g]) - 1
        BY <1>3, <2>4, <3>5, LengthFacts
      <4> QED BY <1>2, <1>3, <2>4, <3>2, <3>5, <4>1, BusyFacts, SMT
    <3> QED BY <1>6, <3>4, <3>5
  <2> QED BY <2>3, <2>4
<1>7. held' = held \/ (process_task(g, j) /\ \E c \in Free(g) : attach_task(c, j))
  BY DEF Dispatch, reject, process_task, process_without_helper, conn
<1> QED BY <1>5, <1>6, <1>7

LEMMA FlushBounded ==
  ASSUME PoolInv, QueueBounded, NEW g \in Group, flush_task(g)
  PROVE  QueueBounded'
<1>1. PICK j : j = Head(queue[g])
  OBVIOUS
<1>2. queue[g] # <<>> /\ queue[g] \in Seq(Job)
  BY DEF flush_task, FlushHasWork, PoolInv, JobsInv
<1>3. j \in Job
  BY <1>1, <1>2, SeqFacts
<1>4. Dispatch(g, j)
  BY <1>1 DEF flush_task, Dispatch
<1>5. queue'[g] = Tail(queue[g]) /\ \A h \in Group \ {g} : queue'[h] = queue[h]
  BY DEF flush_task, PoolInv, JobsInv
<1> QED BY <1>2, <1>3, <1>4, <1>5, DispatchBounded

(* A new job is queued only when there is room, and processed only when no job waits. *)
LEMMA AskBounded ==
  ASSUME PoolInv, QueueBounded, NEW g \in Group, NEW j \in Job, job_ask_procedure(g, j)
  PROVE  QueueBounded'
<1>1. \/ UNCHANGED queue /\ process_task(g, j) /\ Free(g) # {}
      \/ UNCHANGED queue /\ (reject(j) \/ process_without_helper)
      \/ /\ ~ queue_full(g) /\ queue' = [queue EXCEPT ![g] = Append(@, j)] /\ UNCHANGED conn
  BY DEF job_ask_procedure
<1>2. CASE UNCHANGED queue /\ process_task(g, j) /\ Free(g) # {}
  <2>1. queue[g] = <<>>
    BY <1>2 DEF job_ask_procedure, FlushHasWork
  <2> QED BY <1>2, <2>1, DispatchBounded DEF Dispatch
<1>3. CASE UNCHANGED queue /\ (reject(j) \/ process_without_helper)
  <2>1. held' = held
    BY <1>3 DEF reject, process_without_helper, conn
  <2>2. ASSUME NEW h \in Group PROVE Busy(h)' = Busy(h)
    BY <2>1 DEF Busy
  <2> QED BY <1>3, <2>2 DEF QueueBounded, Busy
<1>4. CASE /\ ~ queue_full(g) /\ queue' = [queue EXCEPT ![g] = Append(@, j)] /\ UNCHANGED conn
  <2> SUFFICES ASSUME NEW h \in Group
               PROVE  Len(queue'[h]) + Cardinality(Busy(h)') <= queueSize + helperMax(h)
    BY DEF QueueBounded, Busy
  <2>1. Busy(h)' = Busy(h)
    BY <1>4 DEF conn, Busy
  <2>2. CASE h # g
    <3>1. queue'[h] = queue[h]
      BY <1>4, <2>2 DEF PoolInv, JobsInv
    <3> QED BY <2>1, <3>1 DEF QueueBounded, Busy
  <2>3. CASE h = g
    <3>1. queue'[h] = Append(queue[h], j) /\ queue[h] \in Seq(Job)
      BY <1>4, <2>3 DEF PoolInv, JobsInv
    <3>2. Len(queue'[h]) = Len(queue[h]) + 1 /\ Len(queue[h]) \in Nat
      BY <3>1, LengthFacts, SMT
    <3>3. Len(queue[h]) + 1 <= queueSize
      BY <1>4, <2>3, <3>2, BoundAssumption, SMT DEF queue_full
    <3> QED BY <2>1, <3>2, <3>3, BusyFacts, GroupsFinite, BoundAssumption, SMT
  <2> QED BY <2>2, <2>3
<1> QED BY <1>1, <1>2, <1>3, <1>4

LEMMA ClientBounded ==
  ASSUME PoolInv, PoolInv', QueueBounded, NEW c \in Helper, Client(c)
  PROVE  QueueBounded'
<1>1. CASE queue_back_task(c)
  BY <1>1, BackBounded
<1>2. CASE UNCHANGED queue /\ (held' = held \/ held' = [held EXCEPT ![c] = NoJob])
  <2>1. \A d \in Helper : held'[d] \in {held[d], NoJob}
    BY <1>2 DEF PoolInv, ConnInv
  <2> QED BY <1>2, <2>1, ReleaseBounded
<1>3. Reset(c) => UNCHANGED queue /\ held' = [held EXCEPT ![c] = NoJob]
  BY DEF Reset, Disconnect
<1>4. FailAndReconnect(c, "error") => UNCHANGED queue /\ held' = [held EXCEPT ![c] = NoJob]
  BY DEF FailAndReconnect, reconnect
<1>5. \A w, t : request_completed(c, w, t) => held' = [held EXCEPT ![c] = NoJob]
  BY DEF request_completed
<1>6. \A s, r, w : SendInternal(c, s, r, w) => UNCHANGED <<queue, held>>
  BY DEF SendInternal
<1>7. input_notify(c) => UNCHANGED queue /\ (held' = held \/ held' = [held EXCEPT ![c] = NoJob])
  BY <1>3, <1>4, <1>5
     DEF input_notify, recv_verify, recv_notify_helper_reload_config,
         recv_notify_helper_check,
         recv_response, client_notify_helper_check, input_idle, input_ignored
<1>8. output_notify(c) => queue_back_task(c) \/ UNCHANGED <<queue, held>>
  BY <1>6
     DEF output_notify, output_connecting, send_verify, send_notify_helper_reload_config,
              send_notify_helper_check, send_request
<1>9. hangup_notify(c) \/ job_timer_procedure(c)
        => UNCHANGED queue /\ (held' = held \/ held' = [held EXCEPT ![c] = NoJob])
  BY <1>3, <1>4, <1>6 DEF hangup_notify, job_timer_procedure, timeout_check
<1> QED BY <1>1, <1>2, <1>7, <1>8, <1>9 DEF Client

LEMMA NextBounded == PoolInv /\ QueueBounded /\ [Next]_vars => QueueBounded'
<1> SUFFICES ASSUME PoolInv, QueueBounded, [Next]_vars PROVE QueueBounded'
  OBVIOUS
<1>0. PoolInv'
  BY NextPool
<1>1. CASE UNCHANGED <<queue, held>>
  BY <1>0, <1>1, ReleaseBounded
<1>2. UNCHANGED vars \/ collect_notify_helper_reload_config \/ (\E j \in Job : expire(j))
        => UNCHANGED <<queue, held>>
  BY DEF vars, conn, collect_notify_helper_reload_config, expire
<1> QED BY <1>0, <1>1, <1>2, FlushBounded, AskBounded, ClientBounded DEF Next

(***************************************************************************)
(* The queue of a group is bounded although queue_back_task does not look  *)
(* at queueSize: the jobs it puts back are jobs that connections had, for  *)
(* any queueSize and any number of connections and jobs.                   *)
(***************************************************************************)
THEOREM QueueIsBounded == Spec => []QueueBounded
<1>1. Init => QueueBounded
  <2> SUFFICES ASSUME Init, NEW g \in Group
               PROVE  Len(queue[g]) + Cardinality(Busy(g)) <= queueSize + helperMax(g)
    BY DEF QueueBounded, Busy
  <2>1. queue[g] = <<>> /\ Len(<<>>) = 0
    BY DEF Init
  <2> QED BY <2>1, BusyFacts, GroupsFinite, BoundAssumption, SMT
<1> QED BY <1>1, NextBounded, PoolInvariance, PTL DEF Spec
-----------------------------------------------------------------------------
(***************************************************************************)
(* The jobs of the pool: each is in one place until it is answered, and no *)
(* statement is sent twice.                                                *)
(***************************************************************************)

Elems(s) == {s[i] : i \in 1..Len(s)}
Distinct(s) == \A i, l \in 1..Len(s) : s[i] = s[l] => i = l

(* A connection or a queue has the job. *)
Placed(j) ==
  \/ \E c \in Helper : held[c] = j
  \/ \E g \in Group : j \in Elems(queue[g])

(* No job is in two places. *)
OnePlace ==
  /\ \A g \in Group : Distinct(queue[g])
  /\ \A g, h \in Group : \A j \in Elems(queue[g]) : j \in Elems(queue[h]) => g = h
  /\ \A c \in Helper, g \in Group : held[c] \notin Elems(queue[g])
  /\ \A c, d \in Helper : held[c] = held[d] /\ held[c] # NoJob => c = d

(* The open jobs are those that are somewhere. *)
OpenPlaced ==
  \A j \in Job : /\ Placed(j) => outcome[j] = "open"
                 /\ outcome[j] = "open" => Placed(j) \/ undefined

(* A job that may still be sent was not sent. *)
NotYetSent ==
  /\ \A j \in Job : sent[j] <= 1 /\ (outcome[j] = "new" => sent[j] = 0)
  /\ \A g \in Group : \A j \in Elems(queue[g]) : sent[j] = 0
  /\ \A c \in Helper : stage[c] = "SEND" => sent[held[c]] = 0

Places == OnePlace /\ OpenPlaced /\ NotYetSent
JInv == PoolInv /\ Places
-----------------------------------------------------------------------------
LEMMA TailElems ==
  ASSUME NEW S, NEW s \in Seq(S), s # <<>>, Distinct(s)
  PROVE  /\ Distinct(Tail(s)) /\ Elems(Tail(s)) = Elems(s) \ {Head(s)} /\ Head(s) \in Elems(s)
<1>1. /\ Len(s) \in Nat \ {0} /\ Head(s) = s[1] /\ Len(Tail(s)) = Len(s) - 1
      /\ \A i \in 1..Len(Tail(s)) : Tail(s)[i] = s[i + 1] /\ i + 1 \in 1..Len(s)
  BY SMT
<1>2. Distinct(Tail(s))
  BY <1>1, SMT DEF Distinct
<1>3. Head(s) \in Elems(s)
  BY <1>1, SMT DEF Elems
<1>4. ASSUME NEW x \in Elems(Tail(s)) PROVE x \in Elems(s) \ {Head(s)}
  <2>1. PICK i \in 1..Len(Tail(s)) : x = Tail(s)[i]
    BY DEF Elems
  <2> QED BY <1>1, <2>1, SMT DEF Elems, Distinct
<1>5. ASSUME NEW x \in Elems(s) \ {Head(s)} PROVE x \in Elems(Tail(s))
  <2>1. PICK i \in 1..Len(s) : x = s[i]
    BY DEF Elems
  <2>2. i - 1 \in 1..Len(Tail(s)) /\ Tail(s)[i - 1] = x
    BY <1>1, <2>1, SMT
  <2> QED BY <2>2 DEF Elems
<1> QED BY <1>2, <1>3, <1>4, <1>5

LEMMA AppendElems ==
  ASSUME NEW S, NEW s \in Seq(S), NEW x \in S, x \notin Elems(s), Distinct(s)
  PROVE  Distinct(Append(s, x)) /\ Elems(Append(s, x)) = Elems(s) \cup {x}
<1>1. /\ Len(s) \in Nat /\ Len(Append(s, x)) = Len(s) + 1
      /\ \A i \in 1..Len(s) : Append(s, x)[i] = s[i]
      /\ Append(s, x)[Len(s) + 1] = x
  BY SMT
<1>2. \A i \in 1..Len(s) + 1 : i \in 1..Len(s) \/ i = Len(s) + 1
  BY <1>1, SMT
<1>3. \A i \in 1..Len(s) : s[i] # x
  BY DEF Elems
<1>4. Distinct(Append(s, x))
  BY <1>1, <1>2, <1>3 DEF Distinct
<1>5. ASSUME NEW y \in Elems(Append(s, x)) PROVE y \in Elems(s) \cup {x}
  BY <1>1, <1>2 DEF Elems
<1>6. ASSUME NEW y \in Elems(s) \cup {x} PROVE y \in Elems(Append(s, x))
  <2>1. CASE y = x
    BY <1>1, <2>1, SMT DEF Elems
  <2>2. CASE y \in Elems(s)
    <3>1. PICK i \in 1..Len(s) : y = s[i]
      BY <2>2 DEF Elems
    <3> QED BY <1>1, <3>1, SMT DEF Elems
  <2> QED BY <2>1, <2>2
<1> QED BY <1>4, <1>5, <1>6

LEMMA ConsElems ==
  ASSUME NEW S, NEW s \in Seq(S), NEW x \in S, x \notin Elems(s), Distinct(s)
  PROVE  Distinct(<<x>> \o s) /\ Elems(<<x>> \o s) = Elems(s) \cup {x}
<1>1. /\ Len(s) \in Nat /\ Len(<<x>> \o s) = Len(s) + 1
      /\ \A i \in 2..Len(s) + 1 : (<<x>> \o s)[i] = s[i - 1] /\ i - 1 \in 1..Len(s)
      /\ (<<x>> \o s)[1] = x
  BY SMT
<1>2. \A i \in 1..Len(s) + 1 : i \in 2..Len(s) + 1 \/ i = 1
  BY <1>1, SMT
<1>3. \A i \in 1..Len(s) : s[i] # x
  BY SMT DEF Elems
<1>4. Distinct(<<x>> \o s)
  BY <1>1, <1>2, <1>3, SMTT(30) DEF Distinct
<1>5. ASSUME NEW y \in Elems(<<x>> \o s) PROVE y \in Elems(s) \cup {x}
  BY <1>1, <1>2 DEF Elems
<1>6. ASSUME NEW y \in Elems(s) \cup {x} PROVE y \in Elems(<<x>> \o s)
  <2>1. CASE y = x
    BY <1>1, <2>1, SMT DEF Elems
  <2>2. CASE y \in Elems(s)
    <3>1. PICK i \in 1..Len(s) : y = s[i]
      BY <2>2, SMT DEF Elems
    <3>2. i + 1 \in 2..Len(s) + 1 /\ i + 1 \in 1..Len(<<x>> \o s) /\ (i + 1) - 1 = i
      BY <1>1, SMT
    <3>3. (<<x>> \o s)[i + 1] = y
      BY <1>1, <3>1, <3>2
    <3> QED BY <3>2, <3>3 DEF Elems
  <2> QED BY <2>1, <2>2
<1> QED BY <1>4, <1>5, <1>6
-----------------------------------------------------------------------------
(* A queue has jobs only. *)
LEMMA ElemsAreJobs ==
  ASSUME JobsInv, NEW g \in Group
  PROVE  Elems(queue[g]) \subseteq Job /\ queue[g] \in Seq(Job)
BY SMT DEF JobsInv, Elems

(* A connection gives its job up, and the job is answered. *)
LEMMA ReleasePlaces ==
  ASSUME JInv, NEW c \in Helper, NEW r \in Outcome \ {"new", "open"},
         held' = [held EXCEPT ![c] = NoJob], outcome' = Answered(held[c], r),
         UNCHANGED <<queue, sent, undefined>>,
         \A d \in Helper : stage'[d] = "SEND" => stage[d] = "SEND" /\ d # c
  PROVE  Places'
<1>0. /\ held'[c] = NoJob /\ \A d \in Helper \ {c} : held'[d] = held[d]
      /\ held[c] \in Job \cup {NoJob}
  BY DEF JInv, PoolInv, ConnInv
<1>1. OnePlace'
  <2>1. ASSUME NEW g \in Group PROVE NoJob \notin Elems(queue[g])
    BY ElemsAreJobs, JobAssumption DEF JInv, PoolInv
  <2> QED BY <1>0, <2>1, SMT DEF JInv, Places, OnePlace
<1>2. ASSUME NEW j \in Job
      PROVE  /\ outcome'[j] = IF j = held[c] THEN r ELSE outcome[j]
             /\ Placed(j)' <=> Placed(j) /\ j # held[c]
  <2>1. outcome'[j] = IF j = held[c] THEN r ELSE outcome[j]
    BY <1>0, JobAssumption DEF JInv, PoolInv, JobsInv, Answered
  <2>2. Placed(j)' => Placed(j) /\ j # held[c]
    <3>1. ASSUME NEW d \in Helper, held'[d] = j PROVE held[d] = j /\ j # held[c]
      BY <1>0, <3>1, JobAssumption, SMT DEF JInv, Places, OnePlace
    <3>2. ASSUME NEW g \in Group, j \in Elems(queue'[g]) PROVE j \in Elems(queue[g]) /\ j # held[c]
      BY <3>2 DEF JInv, Places, OnePlace
    <3> QED BY <3>1, <3>2 DEF Placed
  <2>3. Placed(j) /\ j # held[c] => Placed(j)'
    BY <1>0 DEF Placed
  <2> QED BY <2>1, <2>2, <2>3
<1>3. OpenPlaced'
  BY <1>2 DEF JInv, Places, OpenPlaced
<1>4. NotYetSent'
  <2>1. ASSUME NEW j \in Job PROVE outcome'[j] = "new" => sent[j] = 0
    BY <1>2 DEF JInv, Places, NotYetSent
  <2> QED BY <1>0, <2>1, SMT DEF JInv, Places, NotYetSent
<1> QED BY <1>1, <1>3, <1>4 DEF Places

(* Nothing happens to the jobs. *)
LEMMA StayPlaces ==
  ASSUME JInv, UNCHANGED <<held, queue, outcome, sent, undefined>>,
         \A d \in Helper : stage'[d] = "SEND" => stage[d] = "SEND"
  PROVE  Places'
BY DEF JInv, Places, OnePlace, OpenPlaced, Placed, NotYetSent

(* A job that was sent in part is sent in full. *)
LEMMA SentPlaces ==
  ASSUME JInv, NEW c \in Helper, stage[c] = "SEND", stage' = [stage EXCEPT ![c] = "RECV"],
         sent' = [sent EXCEPT ![held[c]] = @ + 1], UNCHANGED <<held, queue, outcome, undefined>>
  PROVE  Places'
<1>1. held[c] \in Job /\ sent[held[c]] = 0 /\ outcome[held[c]] = "open"
  <2>1. held[c] \in Job
    BY DEF JInv, PoolInv, ConnInv, Agrees, Working
  <2> QED BY <2>1 DEF JInv, Places, NotYetSent, OpenPlaced, Placed
<1>2. sent'[held[c]] = 1 /\ \A j \in Job \ {held[c]} : sent'[j] = sent[j]
  BY <1>1, SMT DEF JInv, PoolInv, JobsInv
<1>3. OnePlace' /\ OpenPlaced'
  BY DEF JInv, Places, OnePlace, OpenPlaced, Placed
<1>4. \A j \in Job : sent'[j] <= 1 /\ (outcome'[j] = "new" => sent'[j] = 0)
  BY <1>1, <1>2, SMTT(30) DEF JInv, Places, NotYetSent
<1>5. ASSUME NEW g \in Group, NEW j \in Elems(queue[g]) PROVE sent'[j] = 0
  <2>1. j \in Job /\ j # held[c]
    BY ElemsAreJobs DEF JInv, PoolInv, Places, OnePlace
  <2> QED BY <1>2, <2>1 DEF JInv, Places, NotYetSent
<1>6. ASSUME NEW d \in Helper, stage'[d] = "SEND" PROVE sent'[held'[d]] = 0
  <2>1. d # c /\ stage[d] = "SEND"
    BY <1>6 DEF JInv, PoolInv, ConnInv
  <2>2. held[d] \in Job /\ held[d] # held[c]
    BY <1>1, <2>1, JobAssumption, SMT
       DEF JInv, PoolInv, ConnInv, Agrees, Working, Places, OnePlace
  <2> QED BY <1>2, <2>1, <2>2 DEF JInv, Places, NotYetSent
<1>7. NotYetSent'
  BY <1>4, <1>5, <1>6 DEF NotYetSent
<1> QED BY <1>3, <1>7 DEF Places

(* A job that cannot be sent moves from its connection to the head of the queue. *)
LEMMA BackPlaces ==
  ASSUME JInv, NEW c \in Helper, queue_back_task(c), UNCHANGED undefined
  PROVE  Places'
<1>1. PICK g \in Group : g = GroupOf(c)
  BY GroupFacts
<1>2. PICK j : j = held[c]
  OBVIOUS
<1>3. /\ stage[c] = "SEND" /\ queue' = [queue EXCEPT ![g] = <<j>> \o @]
      /\ held' = [held EXCEPT ![c] = NoJob] /\ UNCHANGED <<outcome, sent, undefined>>
      /\ \A d \in Helper : stage'[d] = "SEND" => stage[d] = "SEND" /\ d # c
  BY <1>1, <1>2 DEF queue_back_task, reconnect, JInv, PoolInv, ConnInv
<1>4. j \in Job /\ j # NoJob /\ outcome[j] = "open" /\ sent[j] = 0
  <2>1. j \in Job /\ j # NoJob
    BY <1>2, <1>3 DEF JInv, PoolInv, ConnInv, Agrees, Working
  <2> QED BY <1>2, <1>3, <2>1 DEF JInv, Places, NotYetSent, OpenPlaced, Placed
<1>5. \A h \in Group : j \notin Elems(queue[h]) /\ NoJob \notin Elems(queue[h])
  BY <1>2, ElemsAreJobs, JobAssumption DEF JInv, PoolInv, Places, OnePlace
<1>6. /\ Distinct(queue'[g]) /\ Elems(queue'[g]) = Elems(queue[g]) \cup {j}
      /\ \A h \in Group \ {g} : queue'[h] = queue[h]
  <2>1. queue[g] \in Seq(Job) /\ Distinct(queue[g])
    BY ElemsAreJobs DEF JInv, PoolInv, Places, OnePlace
  <2>2. Distinct(<<j>> \o queue[g]) /\ Elems(<<j>> \o queue[g]) = Elems(queue[g]) \cup {j}
    BY <1>4, <1>5, <2>1, ConsElems, SMT
  <2>3. queue'[g] = <<j>> \o queue[g] /\ \A h \in Group \ {g} : queue'[h] = queue[h]
    BY <1>3 DEF JInv, PoolInv, JobsInv
  <2> QED BY <2>2, <2>3
<1>7. held'[c] = NoJob /\ \A d \in Helper \ {c} : held'[d] = held[d] /\ held[d] # j
  BY <1>2, <1>3, <1>4 DEF JInv, PoolInv, ConnInv, Places, OnePlace
<1>8. OnePlace'
  <2>1. \A h \in Group : Distinct(queue'[h])
    BY <1>6 DEF JInv, Places, OnePlace
  <2>2. \A f, h \in Group : \A i \in Elems(queue'[f]) : i \in Elems(queue'[h]) => f = h
    BY <1>5, <1>6, SMT DEF JInv, Places, OnePlace
  <2>3. \A d \in Helper, h \in Group : held'[d] \notin Elems(queue'[h])
    BY <1>4, <1>5, <1>6, <1>7, SMTT(30) DEF JInv, Places, OnePlace
  <2>4. \A d, e \in Helper : held'[d] = held'[e] /\ held'[d] # NoJob => d = e
    BY <1>7 DEF JInv, Places, OnePlace
  <2> QED BY <2>1, <2>2, <2>3, <2>4 DEF OnePlace
<1>9. OpenPlaced'
  <2>1. ASSUME NEW i \in Job PROVE Placed(i)' <=> Placed(i)
    <3>1. CASE i = j
      <4>1. Placed(i)
        BY <1>2, <3>1 DEF Placed
      <4>2. Placed(i)'
        BY <1>6, <3>1 DEF Placed
      <4> QED BY <4>1, <4>2
    <3>2. CASE i # j
      <4>1. \A d \in Helper : held'[d] = i <=> held[d] = i
        BY <1>2, <1>7, <3>2, JobAssumption
      <4>2. \A h \in Group : i \in Elems(queue'[h]) <=> i \in Elems(queue[h])
        BY <1>6, <3>2
      <4> QED BY <4>1, <4>2 DEF Placed
    <3> QED BY <3>1, <3>2
  <2> QED BY <1>3, <2>1, SMT DEF JInv, Places, OpenPlaced
<1>10. NotYetSent'
  <2>1. \A h \in Group : \A i \in Elems(queue'[h]) : sent[i] = 0
    BY <1>4, <1>6 DEF JInv, Places, NotYetSent
  <2>2. \A d \in Helper : stage'[d] = "SEND" => sent[held'[d]] = 0
    BY <1>3, <1>7 DEF JInv, Places, NotYetSent
  <2> QED BY <1>3, <2>1, <2>2 DEF JInv, Places, NotYetSent
<1> QED BY <1>8, <1>9, <1>10 DEF Places

(* A job that no connection has, and that leaves its queue if it is in one, is dispatched. *)
LEMMA DispatchPlaces ==
  ASSUME JInv, NEW g \in Group, NEW j \in Job, Dispatch(g, j), sent[j] = 0,
         \A c \in Helper : held[c] # j,
         \A h \in Group : Distinct(queue'[h]) /\ Elems(queue'[h]) = Elems(queue[h]) \ {j}
  PROVE  Places'
<1>1. CASE /\ UNCHANGED <<stage, held, sent>>
           /\ \/ outcome' = [outcome EXCEPT ![j] = "error"] /\ UNCHANGED undefined
              \/ outcome' = outcome /\ undefined' = TRUE
  <2>1. OnePlace'
    BY <1>1, SMTT(30) DEF JInv, Places, OnePlace
  <2>2. ASSUME NEW i \in Job PROVE Placed(i)' <=> Placed(i) /\ i # j
    BY <1>1 DEF Placed
  <2>3. /\ \A i \in Job \ {j} : outcome'[i] = outcome[i]
        /\ outcome'[j] \in {outcome[j], "error"}
        /\ undefined' \/ (outcome'[j] = "error" /\ undefined' = undefined)
    BY <1>1 DEF JInv, PoolInv, JobsInv
  <2>4. OpenPlaced'
    BY <2>2, <2>3, SMTT(30) DEF JInv, Places, OpenPlaced
  <2>5. NotYetSent'
    <3>1. \A i \in Job : sent[i] <= 1 /\ (outcome'[i] = "new" => sent[i] = 0)
      BY <2>3 DEF JInv, Places, NotYetSent
    <3> QED BY <1>1, <3>1 DEF JInv, Places, NotYetSent
  <2> QED BY <2>1, <2>4, <2>5 DEF Places
<1>2. ASSUME NEW c \in Free(g), attach_task(c, j), outcome' = [outcome EXCEPT ![j] = "open"],
             UNCHANGED undefined
      PROVE  Places'
  <2>0. c \in Helper /\ held[c] = NoJob
    <3>1. c \in Helper /\ c \in freeHelper
      BY GroupsFinite DEF Free
    <3> QED BY <3>1 DEF JInv, PoolInv, ConnInv, Agrees, Working
  <2>1. PICK full \in BOOLEAN :
          /\ stage' = [stage EXCEPT ![c] = IF full THEN "RECV" ELSE "SEND"]
          /\ held' = [held EXCEPT ![c] = j]
          /\ sent' = IF full THEN [sent EXCEPT ![j] = @ + 1] ELSE sent
    BY <1>2 DEF attach_task
  <2>2. /\ held'[c] = j /\ \A d \in Helper \ {c} : held'[d] = held[d] /\ stage'[d] = stage[d]
        /\ \A i \in Job \ {j} : sent'[i] = sent[i] /\ outcome'[i] = outcome[i]
        /\ outcome'[j] = "open"
    BY <1>2, <2>0, <2>1 DEF JInv, PoolInv, ConnInv, JobsInv
  <2>3. sent'[j] <= 1 /\ (stage'[c] = "SEND" => sent'[j] = 0)
    BY <2>0, <2>1, SMT DEF JInv, PoolInv, ConnInv, JobsInv
  <2>4. OnePlace'
    <3>1. \A f, h \in Group : \A i \in Elems(queue'[f]) : i \in Elems(queue'[h]) => f = h
      BY DEF JInv, Places, OnePlace
    <3>2. \A d \in Helper, h \in Group : held'[d] \notin Elems(queue'[h])
      BY <2>2, SMT DEF JInv, Places, OnePlace
    <3>3. \A d, e \in Helper : held'[d] = held'[e] /\ held'[d] # NoJob => d = e
      BY <2>2, SMT DEF JInv, Places, OnePlace
    <3> QED BY <3>1, <3>2, <3>3 DEF OnePlace
  <2>5. ASSUME NEW i \in Job PROVE Placed(i)' <=> Placed(i) \/ i = j
    <3>1. CASE i = j
      BY <2>0, <2>2, <3>1 DEF Placed
    <3>2. CASE i # j
      <4>1. \A d \in Helper : held'[d] = i <=> held[d] = i
        BY <2>0, <2>2, <3>2, JobAssumption, SMT
      <4>2. \A h \in Group : i \in Elems(queue'[h]) <=> i \in Elems(queue[h])
        BY <3>2
      <4> QED BY <3>2, <4>1, <4>2 DEF Placed
    <3> QED BY <3>1, <3>2
  <2>6. OpenPlaced'
    BY <1>2, <2>2, <2>5 DEF JInv, Places, OpenPlaced
  <2>7. NotYetSent'
    <3>1. \A i \in Job : sent'[i] <= 1 /\ (outcome'[i] = "new" => sent'[i] = 0)
      BY <2>2, <2>3, SMT DEF JInv, Places, NotYetSent
    <3>2. ASSUME NEW h \in Group, NEW i \in Elems(queue'[h]) PROVE sent'[i] = 0
      <4>1. i \in Job /\ i # j /\ i \in Elems(queue[h])
        BY ElemsAreJobs DEF JInv, PoolInv
      <4> QED BY <2>2, <4>1 DEF JInv, Places, NotYetSent
    <3>3. ASSUME NEW d \in Helper, stage'[d] = "SEND" PROVE sent'[held'[d]] = 0
      <4>1. CASE d = c
        BY <2>2, <2>3, <3>3, <4>1
      <4>2. CASE d # c
        <5>1. held'[d] = held[d] /\ stage[d] = "SEND" /\ held[d] # j
          BY <2>2, <3>3, <4>2
        <5>2. held[d] \in Job
          BY <5>1 DEF JInv, PoolInv, ConnInv, Agrees, Working
        <5> QED BY <2>2, <5>1, <5>2, SMT DEF JInv, Places, NotYetSent
      <4> QED BY <4>1, <4>2
    <3> QED BY <3>1, <3>2, <3>3 DEF NotYetSent
  <2> QED BY <2>4, <2>6, <2>7 DEF Places
<1>3. \/ /\ UNCHANGED <<stage, held, sent>>
         /\ \/ outcome' = [outcome EXCEPT ![j] = "error"] /\ UNCHANGED undefined
            \/ outcome' = outcome /\ undefined' = TRUE
      \/ \E c \in Free(g) : /\ attach_task(c, j) /\ outcome' = [outcome EXCEPT ![j] = "open"]
                            /\ UNCHANGED undefined
  BY DEF Dispatch, reject, process_task, process_without_helper, conn
<1> QED BY <1>1, <1>2, <1>3
-----------------------------------------------------------------------------
LEMMA ResetPlaces ==
  ASSUME JInv, NEW c \in Helper, Reset(c), UNCHANGED undefined
  PROVE  Places'
<1>1. ResetOutcome(c) \in Outcome \ {"new", "open"}
  BY DEF ResetOutcome, Outcome
<1>2. /\ held' = [held EXCEPT ![c] = NoJob] /\ outcome' = Answered(held[c], ResetOutcome(c))
      /\ UNCHANGED <<queue, sent>>
  BY DEF Reset, Disconnect
<1>3. \A d \in Helper : stage'[d] = "SEND" => stage[d] = "SEND" /\ d # c
  BY DEF Reset, Disconnect, JInv, PoolInv, ConnInv
<1> QED BY <1>1, <1>2, <1>3, ReleasePlaces

LEMMA FailPlaces ==
  ASSUME JInv, NEW c \in Helper, FailAndReconnect(c, "error"), UNCHANGED undefined
  PROVE  Places'
<1>1. "error" \in Outcome \ {"new", "open"}
  BY DEF Outcome
<1>2. /\ held' = [held EXCEPT ![c] = NoJob] /\ outcome' = Answered(held[c], "error")
      /\ UNCHANGED <<queue, sent>>
  BY DEF FailAndReconnect, reconnect
<1>3. \A d \in Helper : stage'[d] = "SEND" => stage[d] = "SEND" /\ d # c
  BY DEF FailAndReconnect, reconnect, JInv, PoolInv, ConnInv
<1> QED BY <1>1, <1>2, <1>3, ReleasePlaces

(* The connection has finished; a job it had is answered. *)
LEMMA CompletedPlaces ==
  ASSUME JInv, NEW c \in Helper, NEW w, NEW t, request_completed(c, w, t),
         NEW r \in Outcome \ {"new", "open"}, outcome' = Answered(held[c], r),
         UNCHANGED <<queue, sent, undefined>>
  PROVE  Places'
<1>1. held' = [held EXCEPT ![c] = NoJob]
  BY DEF request_completed
<1>2. \A d \in Helper : stage'[d] = "SEND" => stage[d] = "SEND" /\ d # c
  BY DEF request_completed, JInv, PoolInv, ConnInv
<1> QED BY <1>1, <1>2, ReleasePlaces

LEMMA InternalPlaces ==
  ASSUME JInv, NEW c \in Helper, NEW snd, NEW rcv, NEW what, SendInternal(c, snd, rcv, what),
         snd # "SEND", rcv # "SEND", UNCHANGED undefined
  PROVE  Places'
<1>1. UNCHANGED <<held, queue, outcome, sent, undefined>>
  BY DEF SendInternal
<1>2. \A d \in Helper : stage'[d] = "SEND" => stage[d] = "SEND"
  BY DEF SendInternal, JInv, PoolInv, ConnInv
<1> QED BY <1>1, <1>2, StayPlaces

LEMMA InputPlaces ==
  ASSUME JInv, NEW c \in Helper, input_notify(c), UNCHANGED undefined
  PROVE  Places'
<1>0. "error" \in Outcome \ {"new", "open"} /\ Replies(c) \subseteq Outcome \ {"new", "open"}
  BY DEF Outcome, Replies
<1>1. CASE recv_verify(c) \/ recv_notify_helper_reload_config(c)
  <2>1. CASE Reset(c)
    BY <2>1, ResetPlaces
  <2>2. CASE request_completed(c, Tail(wire[c]), timer \ {c}) /\ UNCHANGED <<queue, outcome, sent>>
    <3>1. held[c] = NoJob
      BY <1>1
         DEF recv_verify, recv_notify_helper_reload_config, JInv, PoolInv, ConnInv,
             Agrees,
                  Working
    <3>2. outcome' = Answered(held[c], "error")
      BY <2>2, <3>1 DEF Answered
    <3> QED BY <1>0, <2>2, <3>2, CompletedPlaces
  <2> QED BY <1>1, <2>1, <2>2 DEF recv_verify, recv_notify_helper_reload_config
<1>2. CASE recv_notify_helper_check(c)
  BY <1>0, <1>2, FailPlaces, CompletedPlaces DEF recv_notify_helper_check
<1>3. CASE recv_response(c)
  <2>1. CASE FailAndReconnect(c, "error")
    BY <2>1, FailPlaces
  <2>2. CASE /\ UNCHANGED <<queue, sent>>
             /\ request_completed(c, Tail(wire[c]), timer \ {c})
             /\ \E r \in Replies(c) : outcome' = Answered(held[c], r)
    BY <1>0, <2>2, CompletedPlaces
  <2>3. CASE UNCHANGED <<queue, sent>> /\ client_notify_helper_check(c)
    <3>1. PICK checked : request_completed(c, Tail(wire[c]) \o checked, timer \cup {c})
      BY <2>3 DEF client_notify_helper_check
    <3>2. PICK r \in Replies(c) : outcome' = Answered(held[c], r)
      BY <2>3 DEF client_notify_helper_check
    <3> QED BY <1>0, <2>3, <3>1, <3>2, CompletedPlaces
  <2> QED BY <1>3, <2>1, <2>2, <2>3 DEF recv_response
<1>4. CASE input_idle(c)
  BY <1>4, ResetPlaces DEF input_idle
<1>5. CASE input_ignored(c)
  BY <1>5, StayPlaces DEF input_ignored
<1> QED BY <1>1, <1>2, <1>3, <1>4, <1>5 DEF input_notify

LEMMA OutputPlaces ==
  ASSUME JInv, NEW c \in Helper, output_notify(c), UNCHANGED undefined
  PROVE  Places'
<1>1. CASE output_connecting(c) \/ send_verify(c)
  BY <1>1, InternalPlaces DEF output_connecting, send_verify
<1>2. CASE send_notify_helper_reload_config(c) \/ send_notify_helper_check(c)
  BY <1>2, InternalPlaces
     DEF send_notify_helper_reload_config, send_notify_helper_check
<1>3. CASE send_request(c)
  <2>0. stage[c] = "SEND" /\ UNCHANGED <<held, queue, outcome>>
    BY <1>3 DEF send_request
  <2>1. CASE stage' = stage /\ sent' = sent
    BY <2>0, <2>1, StayPlaces
  <2>2. CASE stage' = [stage EXCEPT ![c] = "RECV"] /\ sent' = [sent EXCEPT ![held[c]] = @ + 1]
    BY <2>0, <2>2, SentPlaces
  <2> QED BY <1>3, <2>1, <2>2 DEF send_request
<1>4. CASE queue_back_task(c)
  BY <1>4, BackPlaces, SMT
<1> QED BY <1>1, <1>2, <1>3, <1>4 DEF output_notify

LEMMA ClientPlaces ==
  ASSUME JInv, NEW c \in Helper, Client(c)
  PROVE  Places'
<1>0. UNCHANGED undefined
  BY DEF Client
<1>1. CASE hangup_notify(c)
  BY <1>0, <1>1, ResetPlaces DEF hangup_notify
<1>2. CASE job_timer_procedure(c)
  <2>1. CASE timeout_check(c)
    BY <1>0, <2>1, InternalPlaces DEF timeout_check
  <2>2. CASE Reset(c) \/ FailAndReconnect(c, "error")
    BY <1>0, <2>2, ResetPlaces, FailPlaces
  <2> QED BY <1>2, <2>1, <2>2 DEF job_timer_procedure
<1> QED BY <1>0, <1>1, <1>2, InputPlaces, OutputPlaces DEF Client

LEMMA FlushPlaces ==
  ASSUME JInv, NEW g \in Group, flush_task(g)
  PROVE  Places'
<1>1. PICK j : j = Head(queue[g])
  OBVIOUS
<1>2. queue[g] # <<>> /\ queue[g] \in Seq(Job) /\ Distinct(queue[g])
  BY DEF flush_task, FlushHasWork, JInv, PoolInv, JobsInv, Places, OnePlace
<1>3. /\ Distinct(Tail(queue[g])) /\ Elems(Tail(queue[g])) = Elems(queue[g]) \ {j}
      /\ j \in Elems(queue[g])
  BY <1>1, <1>2, TailElems
<1>4. j \in Job
  BY <1>3, ElemsAreJobs DEF JInv, PoolInv
<1>5. Dispatch(g, j)
  BY <1>1 DEF flush_task, Dispatch
<1>6. queue'[g] = Tail(queue[g]) /\ \A h \in Group \ {g} : queue'[h] = queue[h]
  BY DEF flush_task, JInv, PoolInv, JobsInv
<1>7. ASSUME NEW h \in Group
      PROVE  Distinct(queue'[h]) /\ Elems(queue'[h]) = Elems(queue[h]) \ {j}
  <2>1. CASE h = g
    BY <1>3, <1>6, <2>1
  <2>2. CASE h # g
    <3>1. queue'[h] = queue[h] /\ Distinct(queue[h]) /\ j \notin Elems(queue[h])
      BY <1>3, <1>6, <2>2 DEF JInv, Places, OnePlace
    <3> QED BY <3>1
  <2> QED BY <2>1, <2>2
<1>8. OnePlace /\ NotYetSent
  BY DEF JInv, Places
<1>9. sent[j] = 0
  BY <1>3, <1>8 DEF NotYetSent
<1>10. \A c \in Helper : held[c] # j
  BY <1>3, <1>8 DEF OnePlace
<1> QED BY <1>4, <1>5, <1>7, <1>9, <1>10, DispatchPlaces

LEMMA AskPlaces ==
  ASSUME JInv, NEW g \in Group, NEW j \in Job, job_ask_procedure(g, j)
  PROVE  Places'
<1>1. outcome[j] = "new" /\ sent[j] = 0 /\ ~ Placed(j)
  BY DEF job_ask_procedure, JInv, Places, OpenPlaced, NotYetSent
<1>2. /\ \A c \in Helper : held[c] # j
      /\ \A h \in Group : j \notin Elems(queue[h]) /\ Distinct(queue[h])
  BY <1>1 DEF Placed, JInv, Places, OnePlace
<1>3. \/ Dispatch(g, j) /\ UNCHANGED queue
      \/ /\ queue' = [queue EXCEPT ![g] = Append(@, j)]
         /\ outcome' = [outcome EXCEPT ![j] = "open"]
         /\ UNCHANGED <<conn, sent, undefined>>
  BY DEF job_ask_procedure, Dispatch
<1>4. CASE Dispatch(g, j) /\ UNCHANGED queue
  <2>1. ASSUME NEW h \in Group
        PROVE  Distinct(queue'[h]) /\ Elems(queue'[h]) = Elems(queue[h]) \ {j}
    BY <1>2, <1>4
  <2> QED BY <1>1, <1>2, <1>4, <2>1, DispatchPlaces
<1>5. CASE /\ queue' = [queue EXCEPT ![g] = Append(@, j)]
           /\ outcome' = [outcome EXCEPT ![j] = "open"]
           /\ UNCHANGED <<conn, sent, undefined>>
  <2>1. queue[g] \in Seq(Job)
    BY DEF JInv, PoolInv, JobsInv
  <2>2. queue'[g] = Append(queue[g], j) /\ \A h \in Group \ {g} : queue'[h] = queue[h]
    BY <1>5 DEF JInv, PoolInv, JobsInv
  <2>3. Distinct(queue'[g]) /\ Elems(queue'[g]) = Elems(queue[g]) \cup {j}
    BY <1>2, <2>1, <2>2, AppendElems, SMT
  <2>4. held' = held /\ stage' = stage /\ sent' = sent /\ undefined' = undefined
    BY <1>5 DEF conn
  <2>5. OnePlace'
    <3>1. \A h \in Group : Distinct(queue'[h])
      BY <2>2, <2>3, <1>2
    <3>2. \A f, h \in Group : \A i \in Elems(queue'[f]) : i \in Elems(queue'[h]) => f = h
      <4>1. \A f, h \in Group : \A i \in Elems(queue[f]) : i \in Elems(queue[h]) => f = h
        BY DEF JInv, Places, OnePlace
      <4>2. \A h \in Group : \A i \in Elems(queue'[h]) :
              i \in Elems(queue[h]) \/ (h = g /\ i = j)
        BY <2>2, <2>3
      <4> QED BY <1>2, <4>1, <4>2, SMT
    <3>3. \A d \in Helper, h \in Group : held'[d] \notin Elems(queue'[h])
      BY <1>2, <2>2, <2>3, <2>4 DEF JInv, Places, OnePlace
    <3> QED BY <2>4, <3>1, <3>2, <3>3 DEF JInv, Places, OnePlace
  <2>6. ASSUME NEW i \in Job PROVE Placed(i)' <=> Placed(i) \/ i = j
    <3>1. \A d \in Helper : held'[d] = held[d]
      BY <2>4
    <3>2. \A h \in Group : i \in Elems(queue'[h]) <=> i \in Elems(queue[h]) \/ (h = g /\ i = j)
      BY <2>2, <2>3
    <3> QED BY <3>1, <3>2 DEF Placed
  <2>7. outcome'[j] = "open" /\ \A i \in Job \ {j} : outcome'[i] = outcome[i]
    BY <1>5 DEF JInv, PoolInv, JobsInv
  <2>8. OpenPlaced'
    BY <2>4, <2>6, <2>7 DEF JInv, Places, OpenPlaced
  <2>9. NotYetSent'
    <3>1. \A h \in Group : \A i \in Elems(queue'[h]) : sent[i] = 0
      BY <1>1, <2>2, <2>3 DEF JInv, Places, NotYetSent
    <3>2. \A i \in Job : sent[i] <= 1 /\ (outcome'[i] = "new" => sent[i] = 0)
      BY <2>7 DEF JInv, Places, NotYetSent
    <3> QED BY <2>4, <3>1, <3>2 DEF JInv, Places, NotYetSent
  <2> QED BY <2>5, <2>8, <2>9 DEF Places
<1> QED BY <1>3, <1>4, <1>5

(* Every step keeps the jobs in their places. *)
LEMMA NextJobs == JInv /\ [Next]_vars => JInv'
<1> SUFFICES ASSUME JInv, [Next]_vars PROVE Places'
  BY NextPool DEF JInv
<1>1. CASE UNCHANGED vars
  BY <1>1, StayPlaces DEF vars, conn
<1>2. CASE collect_notify_helper_reload_config
  <2>1. UNCHANGED <<held, queue, outcome, sent, undefined>>
    BY <1>2 DEF collect_notify_helper_reload_config
  <2>2. \A d \in Helper : stage'[d] = "SEND" => stage[d] = "SEND"
    BY <1>2 DEF collect_notify_helper_reload_config
  <2> QED BY <2>1, <2>2, StayPlaces
<1>3. ASSUME NEW j \in Job, expire(j) PROVE Places'
  BY <1>3, StayPlaces DEF expire, conn
<1> QED BY <1>1, <1>2, <1>3, FlushPlaces, AskPlaces, ClientPlaces DEF Next

LEMMA InitJobs == Init => JInv
<1> SUFFICES ASSUME Init PROVE Places
  BY InitPool DEF JInv
<1>1. ASSUME NEW g \in Group PROVE Elems(queue[g]) = {} /\ Distinct(queue[g])
  BY SMT DEF Init, Elems, Distinct
<1>2. \A c \in Helper : held[c] = NoJob /\ stage[c] # "SEND"
  BY DEF Init
<1>3. OnePlace
  BY <1>1, <1>2 DEF OnePlace
<1>4. ASSUME NEW j \in Job PROVE ~ Placed(j) /\ outcome[j] = "new" /\ sent[j] = 0
  BY <1>1, <1>2, JobAssumption DEF Init, Placed
<1>5. OpenPlaced /\ NotYetSent
  BY <1>1, <1>2, <1>4, SMT DEF OpenPlaced, NotYetSent
<1> QED BY <1>3, <1>5 DEF Places

(***************************************************************************)
(* The inductive invariant of the jobs.                                    *)
(***************************************************************************)
THEOREM JobsInvariance == Spec => []JInv
BY InitJobs, NextJobs, PTL DEF Spec

(***************************************************************************)
(* No job reaches a helper twice, and one that queue_back_task put back    *)
(* has not reached one: for any groups, jobs and limits, with the check of *)
(* doubtful writes and without.                                            *)
(***************************************************************************)
THEOREM StatementSentOnce == Spec => []SentOnce
<1>1. JInv => SentOnce
  <2> SUFFICES ASSUME JInv PROVE SentOnce
    BY SMT
  <2>1. ASSUME NEW g \in Group, NEW i \in DOMAIN queue[g] PROVE sent[queue[g][i]] = 0
    <3>1. queue[g] \in Seq(Job)
      BY DEF JInv, PoolInv, JobsInv
    <3>2. i \in 1..Len(queue[g])
      BY <3>1, SMT
    <3>3. queue[g][i] \in Elems(queue[g])
      BY <3>2 DEF Elems
    <3> QED BY <3>3 DEF JInv, Places, NotYetSent
  <2> QED BY <2>1 DEF JInv, Places, NotYetSent, SentOnce
<1> QED BY <1>1, JobsInvariance, PTL
-----------------------------------------------------------------------------
(* A machine without a slave group, as dtcd configures it unless told otherwise *)
OneGroup == SlaveHelper = {}

(* The fallback, and with it process_task without a free helper, is for slaves only. *)
LEMMA NoFallback ==
  ASSUME OneGroup, ~ undefined, [Next]_vars
  PROVE  ~ undefined'
<1>1. ASSUME NEW g \in Group PROVE ~ UseFallback(g)
  BY DEF OneGroup, Group, helperList, UseFallback
<1>2. ASSUME NEW g \in Group, flush_task(g) PROVE ~ undefined'
  BY <1>1, <1>2 DEF flush_task, FlushHasWork, reject, process_task
<1>3. ASSUME NEW g \in Group, NEW j \in Job, job_ask_procedure(g, j) PROVE ~ undefined'
  BY <1>1, <1>3 DEF job_ask_procedure, reject, process_task
<1>4. CASE UNCHANGED vars
  BY <1>4 DEF vars
<1>5. ASSUME NEW c \in Helper, Client(c) PROVE ~ undefined'
  BY <1>5 DEF Client
<1>6. ASSUME NEW j \in Job, expire(j) PROVE ~ undefined'
  BY <1>6 DEF expire
<1>7. CASE collect_notify_helper_reload_config
  BY <1>7 DEF collect_notify_helper_reload_config
<1> QED BY <1>2, <1>3, <1>4, <1>5, <1>6, <1>7 DEF Next

(* Where a job is, as JobInOnePlace counts it *)
Holders(j) == {c \in Helper : held[c] = j}
Slots(j) == {p \in UNION {{g} \X DOMAIN queue[g] : g \in Group} : queue[p[1]][p[2]] = j}

LEMMA SlotFacts ==
  ASSUME JInv, NEW j \in Job
  PROVE  /\ \A p \in Slots(j) : /\ p = <<p[1], p[2]>> /\ p[1] \in Group
                                /\ p[2] \in 1..Len(queue[p[1]]) /\ queue[p[1]][p[2]] = j
                                /\ j \in Elems(queue[p[1]])
         /\ \A g \in Group : j \in Elems(queue[g]) => \E i \in 1..Len(queue[g]) : <<g, i>> \in Slots(j)
<1>1. \A g \in Group : DOMAIN queue[g] = 1..Len(queue[g])
  BY SMT DEF JInv, PoolInv, JobsInv
<1>2. ASSUME NEW p \in Slots(j)
      PROVE  /\ p = <<p[1], p[2]>> /\ p[1] \in Group /\ p[2] \in 1..Len(queue[p[1]])
             /\ queue[p[1]][p[2]] = j /\ j \in Elems(queue[p[1]])
  <2>1. PICK g \in Group : p \in {g} \X DOMAIN queue[g]
    BY DEF Slots
  <2>2. p = <<p[1], p[2]>> /\ p[1] = g /\ p[2] \in 1..Len(queue[g])
    BY <1>1, <2>1, SMT
  <2>3. queue[p[1]][p[2]] = j
    BY DEF Slots
  <2> QED BY <2>2, <2>3 DEF Elems
<1>3. ASSUME NEW g \in Group, j \in Elems(queue[g])
      PROVE  \E i \in 1..Len(queue[g]) : <<g, i>> \in Slots(j)
  <2>1. PICK i \in 1..Len(queue[g]) : queue[g][i] = j
    BY <1>3 DEF Elems
  <2>2. <<g, i>> \in {g} \X DOMAIN queue[g]
    BY <1>1
  <2> QED BY <2>1, <2>2 DEF Slots
<1> QED BY <1>2, <1>3

LEMMA PlacesCounted ==
  ASSUME JInv, ~ undefined
  PROVE  JobInOnePlace
<1> SUFFICES ASSUME NEW j \in Job
             PROVE  Cardinality(Holders(j)) + Cardinality(Slots(j))
                      = IF outcome[j] = "open" THEN 1 ELSE 0
  BY DEF JobInOnePlace, Holders, Slots
<1>0. outcome[j] = "open" <=> Placed(j)
  BY DEF JInv, Places, OpenPlaced
<1>1. CASE outcome[j] # "open"
  <2>1. Holders(j) = {}
    BY <1>0, <1>1 DEF Placed, Holders
  <2>2. Slots(j) = {}
    BY <1>0, <1>1, SlotFacts DEF Placed
  <2> QED BY <1>1, <2>1, <2>2, FS_EmptySet, SMT
<1>2. ASSUME NEW c \in Helper, held[c] = j, outcome[j] = "open"
      PROVE  Cardinality(Holders(j)) + Cardinality(Slots(j)) = 1
  <2>1. Holders(j) = {c}
    BY <1>2, JobAssumption DEF Holders, JInv, Places, OnePlace
  <2>2. Slots(j) = {}
    <3>1. \A g \in Group : j \notin Elems(queue[g])
      BY <1>2 DEF JInv, Places, OnePlace
    <3>2. \A p \in Slots(j) : p[1] \in Group /\ j \in Elems(queue[p[1]])
      BY SlotFacts
    <3> QED BY <3>1, <3>2
  <2> QED BY <2>1, <2>2, FS_EmptySet, FS_Singleton, SMT
<1>3. ASSUME NEW g \in Group, j \in Elems(queue[g]), outcome[j] = "open"
      PROVE  Cardinality(Holders(j)) + Cardinality(Slots(j)) = 1
  <2>1. Holders(j) = {}
    BY <1>3, SMT DEF Holders, JInv, Places, OnePlace
  <2>2. PICK i \in 1..Len(queue[g]) : <<g, i>> \in Slots(j)
    BY <1>3, SlotFacts
  <2>3. ASSUME NEW p \in Slots(j) PROVE p = <<g, i>>
    <3>1. p = <<p[1], p[2]>> /\ p[1] = g
      <4>1. p = <<p[1], p[2]>> /\ p[1] \in Group /\ j \in Elems(queue[p[1]])
        BY SlotFacts
      <4>2. \A f, h \in Group : j \in Elems(queue[f]) /\ j \in Elems(queue[h]) => f = h
        BY DEF JInv, Places, OnePlace
      <4> QED BY <1>3, <4>1, <4>2
    <3>2. p[2] \in 1..Len(queue[g]) /\ queue[g][p[2]] = j
      BY <3>1, SlotFacts
    <3>3. queue[g][i] = j
      BY <2>2, SlotFacts
    <3>4. p[2] = i
      BY <3>2, <3>3, SMT DEF JInv, Places, OnePlace, Distinct
    <3> QED BY <3>1, <3>4
  <2>4. Slots(j) = {<<g, i>>}
    BY <2>2, <2>3
  <2>5. Cardinality(Holders(j)) = 0
    BY <2>1, FS_EmptySet
  <2>6. Cardinality(Slots(j)) = 1
    BY <2>4, FS_Singleton
  <2> QED BY <2>5, <2>6, SMT
<1>4. outcome[j] = "open" => Cardinality(Holders(j)) + Cardinality(Slots(j)) = 1
  BY <1>0, <1>2, <1>3 DEF Placed
<1>5. CASE outcome[j] = "open"
  BY <1>4, <1>5
<1> QED BY <1>1, <1>5

(***************************************************************************)
(* Without a slave group an open job is in one queue or with one           *)
(* connection, once, and an answered one is nowhere: no job is lost or     *)
(* given to two connections, for any numbers of connections and jobs.      *)
(***************************************************************************)
THEOREM JobPlaced ==
  ASSUME OneGroup
  PROVE  Spec => []JobInOnePlace
<1>1. Init => ~ undefined
  BY DEF Init
<1>2. ~ undefined /\ [Next]_vars => ~ undefined'
  BY NoFallback
<1>3. JInv /\ ~ undefined => JobInOnePlace
  BY PlacesCounted
<1> QED BY <1>1, <1>2, <1>3, JobsInvariance, PTL DEF Spec
-----------------------------------------------------------------------------
(***************************************************************************)
(* The replies of the helpers, when doubtful writes are not checked: what  *)
(* is under way on a connection is what its stage waits for.               *)
(***************************************************************************)

NoCheck == TRUE \notin EnableHwc

(* What the helper has been asked over a connection in stage s that has job j *)
Awaits(s, j) ==
  IF s = "RECV" THEN <<j>>
  ELSE IF s = "RECV_VER" THEN <<"verify">>
  ELSE IF s = "RECV_RELOAD" THEN <<"reload">>
  ELSE <<>>

CheckStage == {"SND_CHECK", "RECV_CHECK"}

InStep(c) == stage[c] \notin CheckStage /\ wire[c] = Awaits(stage[c], held[c])

Honest == {"new", "open", "ok", "error", "spoiled"}

Replied ==
  /\ \A c \in Helper : InStep(c)
  /\ \A j \in Job : outcome[j] \in Honest

RInv == PoolInv /\ Replied
-----------------------------------------------------------------------------
(* A step of one connection *)
LEMMA OneInStep ==
  ASSUME RInv, NEW c \in Helper, NEW s \in Stage \ CheckStage, NEW j, NEW r \in Honest,
         stage' = [stage EXCEPT ![c] = s], held' = [held EXCEPT ![c] = j],
         wire' = [wire EXCEPT ![c] = Awaits(s, j)],
         NEW i \in Job \cup {NoJob}, outcome' = Answered(i, r)
  PROVE  Replied'
<1>1. InStep(c)'
  BY DEF RInv, PoolInv, ConnInv, InStep
<1>2. ASSUME NEW d \in Helper \ {c} PROVE InStep(d)'
  BY DEF RInv, PoolInv, ConnInv, Replied, InStep
<1>3. \A k \in Job : outcome'[k] \in Honest
  BY DEF RInv, PoolInv, JobsInv, Replied, Answered
<1> QED BY <1>1, <1>2, <1>3 DEF Replied

LEMMA SameReplied ==
  ASSUME RInv, UNCHANGED <<stage, held, wire>>, NEW r \in Honest, NEW i \in Job \cup {NoJob},
         outcome' = Answered(i, r)
  PROVE  Replied'
BY DEF RInv, PoolInv, JobsInv, Replied, InStep, Answered

LEMMA ResetReplied ==
  ASSUME RInv, NEW c \in Helper, Reset(c)
  PROVE  Replied'
<1>1. ResetOutcome(c) = "error" /\ "error" \in Honest /\ held[c] \in Job \cup {NoJob}
  BY DEF RInv, PoolInv, ConnInv, Replied, InStep, CheckStage, ResetOutcome, Honest
<1>2. "DISC" \in Stage \ CheckStage /\ Awaits("DISC", NoJob) = <<>>
  BY DEF Stage, CheckStage, Awaits
<1>3. /\ stage' = [stage EXCEPT ![c] = "DISC"] /\ held' = [held EXCEPT ![c] = NoJob]
      /\ wire' = [wire EXCEPT ![c] = <<>>] /\ outcome' = Answered(held[c], ResetOutcome(c))
  BY DEF Reset, Disconnect
<1> QED BY <1>1, <1>2, <1>3, OneInStep

LEMMA ReconnectReplied ==
  ASSUME RInv, NEW c \in Helper, reconnect(c), NEW i \in Job \cup {NoJob},
         outcome' = Answered(i, "error")
  PROVE  Replied'
<1>1. PICK s \in {"DISC", "CONN", "SND_VER", "RECV_VER"} :
        /\ stage' = [stage EXCEPT ![c] = s]
        /\ wire' = [wire EXCEPT ![c] = IF s = "RECV_VER" THEN <<"verify">> ELSE <<>>]
  BY DEF reconnect
<1>2. s \in Stage \ CheckStage /\ "error" \in Honest
  BY DEF Stage, CheckStage, Honest
<1>3. Awaits(s, NoJob) = IF s = "RECV_VER" THEN <<"verify">> ELSE <<>>
  BY DEF Awaits
<1>4. held' = [held EXCEPT ![c] = NoJob]
  BY DEF reconnect
<1> QED BY <1>1, <1>2, <1>3, <1>4, OneInStep

(* A reply has come, and with it all that was under way. *)
LEMMA CompletedReplied ==
  ASSUME RInv, NEW c \in Helper, wire[c] # <<>>, NEW t,
         request_completed(c, Tail(wire[c]), t),
         NEW r \in Honest, NEW i \in Job \cup {NoJob}, outcome' = Answered(i, r)
  PROVE  Replied'
<1>1. Tail(wire[c]) = <<>>
  <2>1. PICK x : wire[c] = <<x>>
    BY DEF RInv, Replied, InStep, Awaits
  <2>2. Tail(<<x>>) = <<>>
    BY SMT
  <2> QED BY <2>1, <2>2
<1>2. "IDLE" \in Stage \ CheckStage /\ Awaits("IDLE", NoJob) = <<>>
  BY DEF Stage, CheckStage, Awaits
<1>3. /\ stage' = [stage EXCEPT ![c] = "IDLE"] /\ held' = [held EXCEPT ![c] = NoJob]
      /\ wire' = [wire EXCEPT ![c] = <<>>]
  BY <1>1 DEF request_completed
<1> QED BY <1>2, <1>3, OneInStep

LEMMA InternalReplied ==
  ASSUME RInv, NEW c \in Helper, NEW snd \in Stage \ CheckStage, NEW rcv \in Stage \ CheckStage,
         NEW what, SendInternal(c, snd, rcv, what), wire[c] = <<>>,
         Awaits(snd, held[c]) = <<>>, Awaits(rcv, held[c]) = <<what>>
  PROVE  Replied'
<1>1. PICK full \in BOOLEAN :
        /\ stage' = [stage EXCEPT ![c] = IF full THEN rcv ELSE snd]
        /\ wire' = IF full THEN [wire EXCEPT ![c] = Append(@, what)] ELSE wire
  BY DEF SendInternal
<1>2. held' = [held EXCEPT ![c] = held[c]] /\ outcome' = outcome
  BY DEF SendInternal, RInv, PoolInv, ConnInv
<1>3. outcome' = Answered(NoJob, "ok") /\ "ok" \in Honest
  BY <1>2 DEF Answered, Honest
<1>4. PICK s \in Stage \ CheckStage : s = IF full THEN rcv ELSE snd
  OBVIOUS
<1>5. Append(<<>>, what) = <<what>>
  BY SMT
<1>6. wire' = [wire EXCEPT ![c] = Awaits(s, held[c])]
  BY <1>1, <1>4, <1>5 DEF RInv, PoolInv, ConnInv
<1> QED BY <1>1, <1>2, <1>3, <1>4, <1>6, OneInStep
-----------------------------------------------------------------------------
LEMMA InputReplied ==
  ASSUME NoCheck, RInv, NEW c \in Helper, input_notify(c)
  PROVE  Replied'
<1>0. /\ wire[c] # <<>> /\ InStep(c) /\ held[c] \in Job \cup {NoJob}
      /\ "error" \in Honest
  BY DEF input_notify, RInv, PoolInv, ConnInv, Replied, Honest
<1>1. CASE recv_verify(c) \/ recv_notify_helper_reload_config(c)
  <2>1. CASE Reset(c)
    BY <2>1, ResetReplied
  <2>2. CASE request_completed(c, Tail(wire[c]), timer \ {c}) /\ UNCHANGED outcome
    <3>1. outcome' = Answered(NoJob, "error")
      BY <2>2 DEF Answered
    <3> QED BY <1>0, <2>2, <3>1, CompletedReplied
  <2> QED BY <1>1, <2>1, <2>2 DEF recv_verify, recv_notify_helper_reload_config
<1>2. ~ recv_notify_helper_check(c)
  BY <1>0 DEF recv_notify_helper_check, InStep, CheckStage
<1>3. CASE recv_response(c)
  <2>1. CASE FailAndReconnect(c, "error")
    BY <1>0, <2>1, ReconnectReplied DEF FailAndReconnect
  <2>2. CASE /\ request_completed(c, Tail(wire[c]), timer \ {c})
             /\ \E r \in Replies(c) : outcome' = Answered(held[c], r)
    <3>1. stage[c] = "RECV"
      BY <1>3 DEF recv_response
    <3>2. Head(wire[c]) = held[c]
      BY <1>0, <3>1, SMT DEF InStep, Awaits
    <3>3. Replies(c) \subseteq Honest
      BY <3>2 DEF Replies, Honest
    <3> QED BY <1>0, <2>2, <3>3, CompletedReplied
  <2>3. ~ client_notify_helper_check(c)
    BY DEF client_notify_helper_check, NoCheck, RInv, PoolInv, OtherInv
  <2> QED BY <1>3, <2>1, <2>2, <2>3 DEF recv_response
<1>4. CASE input_idle(c)
  BY <1>4, ResetReplied DEF input_idle
<1>5. CASE input_ignored(c)
  <2>1. UNCHANGED <<stage, held, wire>> /\ outcome' = Answered(NoJob, "error")
    BY <1>5 DEF input_ignored, Answered
  <2> QED BY <1>0, <2>1, SameReplied
<1> QED BY <1>1, <1>2, <1>3, <1>4, <1>5 DEF input_notify

LEMMA OutputReplied ==
  ASSUME RInv, NEW c \in Helper, output_notify(c)
  PROVE  Replied'
<1>0. InStep(c) /\ held[c] \in Job \cup {NoJob}
  BY DEF RInv, PoolInv, ConnInv, Replied
<1>1. CASE output_connecting(c) \/ send_verify(c)
  <2>1. wire[c] = <<>> /\ SendInternal(c, "SND_VER", "RECV_VER", "verify")
    BY <1>0, <1>1 DEF output_connecting, send_verify, InStep, Awaits
  <2>2. Awaits("SND_VER", held[c]) = <<>> /\ Awaits("RECV_VER", held[c]) = <<"verify">>
    BY DEF Awaits
  <2> QED BY <2>1, <2>2, InternalReplied DEF Stage, CheckStage
<1>2. CASE send_notify_helper_reload_config(c)
  <2>1. wire[c] = <<>> /\ SendInternal(c, "SND_RELOAD", "RECV_RELOAD", "reload")
    BY <1>0, <1>2 DEF send_notify_helper_reload_config, InStep, Awaits
  <2>2. Awaits("SND_RELOAD", held[c]) = <<>> /\ Awaits("RECV_RELOAD", held[c]) = <<"reload">>
    BY DEF Awaits
  <2> QED BY <2>1, <2>2, InternalReplied DEF Stage, CheckStage
<1>3. ~ send_notify_helper_check(c)
  BY <1>0 DEF send_notify_helper_check, InStep, CheckStage
<1>4. CASE send_request(c)
  <2>1. PICK full \in BOOLEAN :
          /\ stage' = IF full THEN [stage EXCEPT ![c] = "RECV"] ELSE stage
          /\ wire' = IF full THEN [wire EXCEPT ![c] = Append(@, held[c])] ELSE wire
    BY <1>4 DEF send_request
  <2>2. held' = held /\ outcome' = Answered(NoJob, "ok") /\ "ok" \in Honest /\ wire[c] = <<>>
    BY <1>0, <1>4 DEF send_request, Answered, Honest, InStep, Awaits
  <2>3. CASE full
    <3>1. Append(<<>>, held[c]) = <<held[c]>> /\ Awaits("RECV", held[c]) = <<held[c]>>
      BY SMT DEF Awaits
    <3>2. /\ wire' = [wire EXCEPT ![c] = Awaits("RECV", held[c])]
          /\ held' = [held EXCEPT ![c] = held[c]] /\ stage' = [stage EXCEPT ![c] = "RECV"]
      BY <2>1, <2>2, <2>3, <3>1 DEF RInv, PoolInv, ConnInv
    <3>3. "RECV" \in Stage \ CheckStage
      BY DEF Stage, CheckStage
    <3> QED BY <2>2, <3>2, <3>3, OneInStep
  <2>4. CASE ~ full
    BY <2>1, <2>2, <2>4, SameReplied
  <2> QED BY <2>3, <2>4
<1>5. CASE queue_back_task(c)
  <2>1. reconnect(c) /\ outcome' = Answered(NoJob, "error")
    BY <1>5 DEF queue_back_task, Answered
  <2> QED BY <2>1, ReconnectReplied
<1> QED BY <1>1, <1>2, <1>3, <1>4, <1>5 DEF output_notify

LEMMA ClientReplied ==
  ASSUME NoCheck, RInv, NEW c \in Helper, Client(c)
  PROVE  Replied'
<1>1. CASE hangup_notify(c)
  BY <1>1, ResetReplied DEF hangup_notify
<1>2. CASE job_timer_procedure(c)
  <2>1. ~ timeout_check(c)
    BY DEF timeout_check, NoCheck, RInv, PoolInv, OtherInv
  <2>2. CASE FailAndReconnect(c, "error")
    BY <2>2, ReconnectReplied DEF FailAndReconnect, RInv, PoolInv, ConnInv
  <2> QED BY <1>2, <2>1, <2>2, ResetReplied DEF job_timer_procedure
<1> QED BY <1>1, <1>2, InputReplied, OutputReplied DEF Client

LEMMA DispatchReplied ==
  ASSUME RInv, NEW g \in Group, NEW j \in Job, Dispatch(g, j)
  PROVE  Replied'
<1>0. {"open", "error"} \subseteq Honest /\ \A r : Answered(j, r) = [outcome EXCEPT ![j] = r]
  BY JobAssumption DEF Honest, Answered
<1>1. CASE UNCHANGED conn /\ outcome' = [outcome EXCEPT ![j] = "error"]
  BY <1>0, <1>1, SameReplied DEF conn
<1>2. CASE UNCHANGED conn /\ outcome' = outcome
  <2>1. outcome' = Answered(NoJob, "error")
    BY <1>2 DEF Answered
  <2> QED BY <1>0, <1>2, <2>1, SameReplied DEF conn
<1>3. ASSUME NEW c \in Free(g), attach_task(c, j), outcome' = [outcome EXCEPT ![j] = "open"]
      PROVE  Replied'
  <2>1. PICK full \in BOOLEAN :
          /\ stage' = [stage EXCEPT ![c] = IF full THEN "RECV" ELSE "SEND"]
          /\ held' = [held EXCEPT ![c] = j]
          /\ wire' = IF full THEN [wire EXCEPT ![c] = Append(@, j)] ELSE wire
    BY <1>3 DEF attach_task
  <2>2. c \in Helper /\ c \in freeHelper
    BY GroupsFinite DEF Free
  <2>3. stage[c] = "IDLE" /\ wire[c] = <<>>
    BY <2>2 DEF RInv, PoolInv, ConnInv, Agrees, Replied, InStep, Awaits
  <2>4. PICK s \in {"RECV", "SEND"} : s = IF full THEN "RECV" ELSE "SEND"
    OBVIOUS
  <2>5. Append(<<>>, j) = <<j>> /\ Awaits(s, j) = IF full THEN <<j>> ELSE <<>>
    BY <2>4, SMT DEF Awaits
  <2>6. wire' = [wire EXCEPT ![c] = Awaits(s, j)]
    BY <2>1, <2>3, <2>5 DEF RInv, PoolInv, ConnInv
  <2>7. s \in Stage \ CheckStage
    BY DEF Stage, CheckStage
  <2>8. stage' = [stage EXCEPT ![c] = s] /\ outcome' = Answered(j, "open") /\ "open" \in Honest
    BY <1>0, <1>3, <2>1, <2>4
  <2> QED BY <2>1, <2>2, <2>6, <2>7, <2>8, OneInStep
<1>4. \/ UNCHANGED conn /\ outcome' = [outcome EXCEPT ![j] = "error"]
      \/ UNCHANGED conn /\ outcome' = outcome
      \/ \E c \in Free(g) : attach_task(c, j) /\ outcome' = [outcome EXCEPT ![j] = "open"]
  BY DEF Dispatch, reject, process_task, process_without_helper
<1> QED BY <1>1, <1>2, <1>3, <1>4

LEMMA ReloadReplied ==
  ASSUME RInv, collect_notify_helper_reload_config
  PROVE  Replied'
<1>1. PICK full \in SUBSET freeHelper :
        /\ stage' = [c \in Helper |-> IF c \in full THEN "RECV_RELOAD"
                                      ELSE IF c \in freeHelper THEN "SND_RELOAD" ELSE stage[c]]
        /\ wire' = [c \in Helper |-> IF c \in full THEN Append(wire[c], "reload") ELSE wire[c]]
  BY DEF collect_notify_helper_reload_config
<1>2. UNCHANGED <<held, outcome>>
  BY DEF collect_notify_helper_reload_config
<1>3. ASSUME NEW c \in Helper PROVE InStep(c)'
  <2>0. InStep(c) /\ (c \in freeHelper => stage[c] = "IDLE" /\ wire[c] = <<>>)
    BY DEF RInv, PoolInv, ConnInv, Agrees, Replied, InStep, Awaits
  <2>1. CASE c \in full
    <3>1. wire'[c] = Append(<<>>, "reload") /\ stage'[c] = "RECV_RELOAD"
      BY <1>1, <2>0, <2>1
    <3>2. Append(<<>>, "reload") = <<"reload">>
      BY SMT
    <3> QED BY <3>1, <3>2 DEF InStep, CheckStage, Awaits
  <2>2. CASE c \in freeHelper \ full
    BY <1>1, <2>0, <2>2 DEF InStep, CheckStage, Awaits
  <2>3. CASE c \notin freeHelper
    BY <1>1, <1>2, <2>0, <2>3 DEF InStep
  <2> QED BY <2>1, <2>2, <2>3
<1> QED BY <1>2, <1>3 DEF RInv, Replied

LEMMA NextReplied ==
  ASSUME NoCheck, RInv, [Next]_vars
  PROVE  RInv'
<1>0. PoolInv'
  BY NextPool DEF RInv
<1>a. "ok" \in Honest /\ outcome = Answered(NoJob, "ok")
  BY DEF Honest, Answered
<1>1. ASSUME UNCHANGED conn, UNCHANGED outcome PROVE Replied'
  <2>1. outcome' = Answered(NoJob, "ok") /\ UNCHANGED <<stage, held, wire>>
    BY <1>a, <1>1 DEF conn
  <2> QED BY <1>a, <2>1, SameReplied
<1>2. ASSUME NEW g \in Group, flush_task(g) PROVE Replied'
  <2>1. Head(queue[g]) \in Job
    BY <1>2, SeqFacts DEF flush_task, FlushHasWork, RInv, PoolInv, JobsInv
  <2>2. Dispatch(g, Head(queue[g]))
    BY <1>2 DEF flush_task, Dispatch
  <2> QED BY <2>1, <2>2, DispatchReplied
<1>3. ASSUME NEW g \in Group, NEW j \in Job, job_ask_procedure(g, j) PROVE Replied'
  <2>1. \/ Dispatch(g, j)
        \/ UNCHANGED conn /\ outcome' = [outcome EXCEPT ![j] = "open"]
    BY <1>3 DEF job_ask_procedure, Dispatch
  <2>2. "open" \in Honest /\ Answered(j, "open") = [outcome EXCEPT ![j] = "open"]
    BY JobAssumption DEF Honest, Answered
  <2> QED BY <2>1, <2>2, DispatchReplied, SameReplied DEF conn
<1>4. ASSUME NEW j \in Job, expire(j) PROVE Replied'
  BY <1>1, <1>4 DEF expire
<1>5. UNCHANGED vars => Replied'
  BY <1>1 DEF vars
<1>6. Replied'
  BY <1>2, <1>3, <1>4, <1>5, ClientReplied, ReloadReplied DEF Next
<1> QED BY <1>0, <1>6 DEF RInv

LEMMA InitReplied == Init => RInv
<1> SUFFICES ASSUME Init PROVE Replied
  BY InitPool, SMT DEF RInv
<1>1. \A c \in Helper : InStep(c)
  BY DEF Init, InStep, CheckStage, Awaits
<1>2. \A j \in Job : outcome[j] \in Honest
  BY DEF Init, Honest
<1> QED BY <1>1, <1>2 DEF Replied

(***************************************************************************)
(* Without the check of doubtful writes, what a connection has asked the   *)
(* helper and has no reply to is what its stage says, and nothing else.    *)
(***************************************************************************)
THEOREM RepliesInvariance ==
  ASSUME NoCheck
  PROVE  Spec => []RInv
<1>1. RInv /\ [Next]_vars => RInv'
  BY NextReplied
<1> QED BY <1>1, InitReplied, PTL DEF Spec

(***************************************************************************)
(* Without the check a job never gets the reply to another one's           *)
(* statement, for any number of jobs that a connection had before: a       *)
(* connection whose reply is late is closed before it is used again.       *)
(***************************************************************************)
THEOREM ReplyIsOwn ==
  ASSUME NoCheck
  PROVE  Spec => []OwnReply
<1>1. RInv => OwnReply
  BY DEF RInv, Replied, Honest, OwnReply
<1> QED BY <1>1, RepliesInvariance, PTL

(***************************************************************************)
(* Without the check no write is answered with success that the helper has *)
(* not reported: Reset finds a result code other than success set.         *)
(***************************************************************************)
THEOREM SuccessReported ==
  ASSUME NoCheck
  PROVE  Spec => []SuccessWasReported
<1>1. RInv => SuccessWasReported
  BY DEF RInv, Replied, Honest, SuccessWasReported
<1> QED BY <1>1, RepliesInvariance, PTL
=============================================================================
