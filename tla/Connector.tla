------------------------------ MODULE Connector ------------------------------
(***************************************************************************)
(* ConnectorGroup and its ConnectorClients: the pool of connections to the *)
(* helper processes that execute statements at the database, the queue of  *)
(* jobs that wait for a free connection, and the life of a connection:     *)
(* connect, verify, one job at a time, reload of the configuration, check  *)
(* of a doubtful write, timeout, error and hangup.                         *)
(*                                                                         *)
(* A machine has a master group and may have a slave group whose fallback  *)
(* is the master's.  What a job asks for and what is answered is           *)
(* abstracted to whose reply it is and whether it reports success; which   *)
(* of several free connections is taken is left open.  A packet that is    *)
(* sent in part has not reached the helper.  A job becomes overdue at any  *)
(* time; flush jobs (TaskTypeCommit) never do.                             *)
(***************************************************************************)
EXTENDS Naturals, Sequences, FiniteSets

CONSTANTS
  MasterHelper, SlaveHelper,  \* the connections of the two groups
  Job, NoJob,
  ReadJob,                    \* jobs with request code Get
  CommitJob,                  \* jobs of type TaskTypeCommit
  queueSize,
  maxTryConnect,
  EnableHwc,                  \* the values of that setting dtcd may be started with
  max_reload                  \* bound: reloads of the configuration

Helper == MasterHelper \cup SlaveHelper
helperList(g) == IF g = "master" THEN MasterHelper ELSE SlaveHelper
Group == {g \in {"master", "slave"} : helperList(g) # {}}
GroupOf(c) == IF c \in MasterHelper THEN "master" ELSE "slave"
helperMax(g) == Cardinality(helperList(g))

ASSUME HelperAssumption ==
  /\ IsFiniteSet(MasterHelper) /\ IsFiniteSet(SlaveHelper)
  /\ MasterHelper # {} /\ MasterHelper \cap SlaveHelper = {}
ASSUME JobAssumption ==
  /\ ReadJob \subseteq Job /\ CommitJob \subseteq Job \ ReadJob
  /\ NoJob \notin Job /\ {"verify", "reload", "check"} \cap Job = {}
ASSUME BoundAssumption ==
  /\ queueSize \in Nat /\ maxTryConnect \in Nat /\ max_reload \in Nat
  /\ EnableHwc \subseteq BOOLEAN

Stage == {"DISC", "CONN", "IDLE", "RECV", "SEND", "SND_VER", "RECV_VER",
          "SND_RELOAD", "RECV_RELOAD", "SND_CHECK", "RECV_CHECK"}

\* What a helper is asked: a job, or one of the three internal requests.
Request == Job \cup {"verify", "reload", "check"}

\* A job was not asked yet, is open, or was answered: with its own reply (ok or
\* error), with the reply of another request, with success nobody reported, or with
\* the error of an earlier failed send although its own reply reports success.
Outcome == {"new", "open", "ok", "error", "foreign", "unsaid", "spoiled"}

VARIABLES
  i_enable_check,   \* doubtful writes are checked
  stage,            \* of each connection
  held,             \* the job each connection works on
  wire,             \* requests that reached the helper and are not yet answered
  timer,            \* connections with an armed timer
  connectErrorCnt,  \* capped one above maxTryConnect
  ready,
  freeHelper,
  readyHelperCnt,   \* of each group
  queue,            \* of each group
  flushing,         \* groups in the middle of flush_task
  expired,          \* jobs that are overdue
  outcome,
  failed_send,      \* jobs that got an error code and went back to the queue
  sent,             \* how often each job reached a helper
  reloads,          \* reloads so far
  stray,            \* an internal job was answered as if a client had asked it
  undefined         \* process_task was called without a free helper

conn == <<stage, held, wire, timer>>
health == <<connectErrorCnt, ready, readyHelperCnt>>
vars == <<i_enable_check, conn, health, freeHelper, queue, flushing, expired, outcome, failed_send,
          sent, reloads, stray, undefined>>

\* do_attach creates the connections and lets each of them reconnect: the first
\* step of a connection is its reconnect from DISC.
Init ==
  /\ i_enable_check \in EnableHwc
  /\ stage = [c \in Helper |-> "DISC"]
  /\ held = [c \in Helper |-> NoJob]
  /\ wire = [c \in Helper |-> <<>>]
  /\ timer = Helper
  /\ connectErrorCnt = [c \in Helper |-> 0]
  /\ ready = [c \in Helper |-> TRUE]
  /\ freeHelper = {}
  /\ readyHelperCnt = [g \in Group |-> helperMax(g)]
  /\ queue = [g \in Group |-> <<>>]
  /\ flushing = {}
  /\ expired = {}
  /\ outcome = [j \in Job |-> "new"]
  /\ failed_send = {}
  /\ sent = [j \in Job |-> 0]
  /\ reloads = 0
  /\ stray = FALSE
  /\ undefined = FALSE

-----------------------------------------------------------------------------
(***************************************************************************)
(* Pieces of the handlers.                                                 *)
(***************************************************************************)
Answered(j, r) == IF j = NoJob THEN outcome ELSE [outcome EXCEPT ![j] = r]

add_ready_helper(g) ==
  [readyHelperCnt EXCEPT ![g] = IF @ < helperMax(g) THEN @ + 1 ELSE @]
dec_ready_helper(g) == [readyHelperCnt EXCEPT ![g] = IF @ > 0 THEN @ - 1 ELSE @]

\* Mutant: the count goes up at every success.
Ready_EveryTime(c) ==
  /\ connectErrorCnt' = [connectErrorCnt EXCEPT ![c] = 0]
  /\ ready' = [ready EXCEPT ![c] = TRUE]
  /\ readyHelperCnt' = [readyHelperCnt EXCEPT ![GroupOf(c)] = @ + 1]

connect_error(c) ==
  LET many == connectErrorCnt[c] + 1 > maxTryConnect
  IN /\ connectErrorCnt' = [connectErrorCnt EXCEPT
                              ![c] = IF many THEN maxTryConnect + 1 ELSE @ + 1]
     /\ ready' = [ready EXCEPT ![c] = @ /\ ~many]
     /\ readyHelperCnt' = IF many /\ ready[c] THEN dec_ready_helper(GroupOf(c))
                          ELSE readyHelperCnt

Ready(c) ==
  /\ connectErrorCnt' = [connectErrorCnt EXCEPT ![c] = 0]
  /\ ready' = [ready EXCEPT ![c] = TRUE]
  /\ readyHelperCnt' = IF ready[c] THEN readyHelperCnt ELSE add_ready_helper(GroupOf(c))

\* Mutant: Reset sets no error for a job that was being sent.
ResetOutcome_NoSendError(c) ==
  IF stage[c] \in {"SEND", "SND_CHECK", "RECV_CHECK"} THEN "unsaid" ELSE "error"

\* The error a job gets that Reset finds on the connection: the stages of the
\* check set none, so the job keeps its initial result code, which is success.
ResetOutcome(c) ==
  IF stage[c] \in {"SND_CHECK", "RECV_CHECK"} /\ held[c] \notin failed_send
  THEN "unsaid" ELSE "error"

\* Reset completes whatever job there is; in RECV_RELOAD it is an internal one.
IsStray(c) == stage[c] = "RECV_RELOAD"

\* Mutant: connection_reset is not called.
Disconnect_KeepsFree(c) ==
  /\ stage' = [stage EXCEPT ![c] = "DISC"]
  /\ held' = [held EXCEPT ![c] = NoJob]
  /\ wire' = [wire EXCEPT ![c] = <<>>]
  /\ timer' = timer \cup {c}
  /\ UNCHANGED freeHelper

Disconnect(c) ==
  /\ stage' = [stage EXCEPT ![c] = "DISC"]
  /\ held' = [held EXCEPT ![c] = NoJob]
  /\ wire' = [wire EXCEPT ![c] = <<>>]
  /\ timer' = timer \cup {c}
  /\ freeHelper' = freeHelper \ {c}

Reset(c) ==
  /\ Disconnect(c)
  /\ outcome' = Answered(held[c], ResetOutcome(c))
  /\ stray' = (stray \/ IsStray(c))
  /\ UNCHANGED <<health, queue, failed_send, sent>>

\* After Reset the connect is refused, in progress, or done and then the verify
\* packet is sent in part or in full.
reconnect(c) ==
  /\ connect_error(c)
  /\ \E s \in {"DISC", "CONN", "SND_VER", "RECV_VER"} :
       /\ stage' = [stage EXCEPT ![c] = s]
       /\ wire' = [wire EXCEPT ![c] = IF s = "RECV_VER" THEN <<"verify">> ELSE <<>>]
  /\ held' = [held EXCEPT ![c] = NoJob]
  /\ timer' = timer \cup {c}
  /\ freeHelper' = freeHelper \ {c}

\* reconnect of a connection whose job has an error set or is answered already
FailAndReconnect(c, r) ==
  /\ reconnect(c)
  /\ outcome' = Answered(held[c], r)
  /\ UNCHANGED <<queue, failed_send, sent, stray>>

\* The connection has finished: stage Idle and request_completed, with the given
\* requests still unanswered by the helper.
request_completed(c, w, t) ==
  /\ stage' = [stage EXCEPT ![c] = "IDLE"]
  /\ held' = [held EXCEPT ![c] = NoJob]
  /\ wire' = [wire EXCEPT ![c] = w]
  /\ timer' = t
  /\ freeHelper' = freeHelper \cup {c}

\* The packet of one of the internal requests: sent in part or in full
SendInternal(c, snd, rcv, what) ==
  \E full \in BOOLEAN :
    /\ stage' = [stage EXCEPT ![c] = IF full THEN rcv ELSE snd]
    /\ wire' = IF full THEN [wire EXCEPT ![c] = Append(@, what)] ELSE wire
    /\ timer' = timer \cup {c}
    /\ UNCHANGED <<held, health, freeHelper, queue, outcome, failed_send, sent, stray>>

-----------------------------------------------------------------------------
(***************************************************************************)
(* ConnectorGroup.                                                         *)
(***************************************************************************)
Free(g) == freeHelper \cap helperList(g)

\* As in the source: true when no helper is free.
has_free_helper(g) == queue[g] = <<>> /\ Free(g) = {}

UseFallback(g) == g = "slave" /\ has_free_helper("master")

\* The job is sent in part or in full.
attach_task(c, j) ==
  \E full \in BOOLEAN :
    /\ stage' = [stage EXCEPT ![c] = IF full THEN "RECV" ELSE "SEND"]
    /\ held' = [held EXCEPT ![c] = j]
    /\ wire' = IF full THEN [wire EXCEPT ![c] = Append(@, j)] ELSE wire
    /\ sent' = IF full THEN [sent EXCEPT ![j] = @ + 1] ELSE sent
    /\ timer' = timer \cup {c}

\* process_task of a group with a free helper: the job cannot be encoded and is
\* answered, or it is attached to the connection.
process_task(g, j) ==
  /\ \/ /\ outcome' = [outcome EXCEPT ![j] = "error"]
        /\ UNCHANGED <<conn, freeHelper, sent>>
     \/ \E c \in Free(g) :
          /\ attach_task(c, j)
          /\ freeHelper' = freeHelper \ {c}
          /\ outcome' = [outcome EXCEPT ![j] = "open"]
  /\ UNCHANGED undefined

\* process_task of a group without one: the head of an empty list is taken for a
\* helper, and nothing can be said of what follows.
process_without_helper == undefined' = TRUE /\ UNCHANGED <<conn, freeHelper, sent, outcome>>

reject(j) ==
  outcome' = [outcome EXCEPT ![j] = "error"] /\ UNCHANGED <<conn, freeHelper, sent, undefined>>

\* Mutant: an OFFLINE group does not answer its queue.
FlushHasWork_WaitsForHelper(g) ==
  /\ queue[g] # <<>>
  /\ Head(queue[g]) \in expired \/ Free(g) # {} \/ UseFallback(g)

FlushHasWork(g) ==
  /\ queue[g] # <<>>
  /\ \/ readyHelperCnt[g] = 0
     \/ Head(queue[g]) \in expired
     \/ Free(g) # {}
     \/ UseFallback(g)

\* One turn of the loop of flush_task, which the timers of the group and
\* job_ask_procedure run until it has nothing to do: nothing else happens before.
flush_task(g) ==
  LET j == Head(queue[g])
  IN /\ FlushHasWork(g)
     /\ queue' = [queue EXCEPT ![g] = Tail(@)]
     /\ IF readyHelperCnt[g] = 0 \/ j \in expired THEN reject(j)
        ELSE IF Free(g) # {} THEN process_task(g, j)
        ELSE process_without_helper
     /\ UNCHANGED <<health, expired, failed_send, reloads, stray>>
     /\ flushing' = {h \in {g} : FlushHasWork(h)'}

\* The helpers answer so slowly that the job would be overdue at its turn.
accept_new_request_fail(g, j) == Len(queue[g]) > helperMax(g) /\ j \notin CommitJob

\* Mutant: one job more than the queue has room for.
queue_full_OffByOne(g) == Len(queue[g]) > queueSize
queue_full(g) == Len(queue[g]) >= queueSize

\* After flush_task a new job is refused, processed or queued.
job_ask_procedure(g, j) ==
  /\ outcome[j] = "new"
  /\ g = "slave" => j \in ReadJob
  /\ ~FlushHasWork(g)
  /\ IF readyHelperCnt[g] = 0 \/ j \in expired THEN reject(j) /\ UNCHANGED queue
     ELSE IF Free(g) # {} THEN process_task(g, j) /\ UNCHANGED queue
     ELSE IF UseFallback(g) THEN process_without_helper /\ UNCHANGED queue
     ELSE \/ /\ queue_full(g) \/ accept_new_request_fail(g, j)
             /\ reject(j)
             /\ UNCHANGED queue
          \/ /\ ~queue_full(g)
             /\ queue' = [queue EXCEPT ![g] = Append(@, j)]
             /\ outcome' = [outcome EXCEPT ![j] = "open"]
             /\ UNCHANGED <<conn, freeHelper, sent, undefined>>
  /\ UNCHANGED <<health, flushing, expired, failed_send, reloads, stray>>

\* The command to reload goes to all groups; each of them lets its free
\* connections send it on, so a busy connection never hears of it.
collect_notify_helper_reload_config ==
  /\ reloads < max_reload
  /\ reloads' = reloads + 1
  /\ \E full \in SUBSET freeHelper :
       /\ stage' = [c \in Helper |-> IF c \in full THEN "RECV_RELOAD"
                                     ELSE IF c \in freeHelper THEN "SND_RELOAD" ELSE stage[c]]
       /\ wire' = [c \in Helper |-> IF c \in full THEN Append(wire[c], "reload") ELSE wire[c]]
  /\ timer' = timer \cup freeHelper
  /\ freeHelper' = {}
  /\ UNCHANGED <<held, health, queue, flushing, expired, outcome, failed_send, sent, stray,
                 undefined>>

\* The time of a job that has a deadline runs out.
expire(j) ==
  /\ j \notin CommitJob \cup expired
  /\ outcome[j] \in {"new", "open"}
  /\ expired' = expired \cup {j}
  /\ UNCHANGED <<conn, health, freeHelper, queue, flushing, outcome, failed_send, sent, reloads,
                 stray,
                 undefined>>
-----------------------------------------------------------------------------
(***************************************************************************)
(* ConnectorClient::output_notify.  In every other stage it only stops     *)
(* asking for output events, of which the model keeps no record: a send is *)
(* possible in the stages that send.                                       *)
(***************************************************************************)
output_connecting(c) ==
  stage[c] = "CONN" /\ SendInternal(c, "SND_VER", "RECV_VER", "verify")

send_verify(c) ==
  stage[c] = "SND_VER" /\ SendInternal(c, "SND_VER", "RECV_VER", "verify")

send_notify_helper_reload_config(c) ==
  stage[c] = "SND_RELOAD" /\ SendInternal(c, "SND_RELOAD", "RECV_RELOAD", "reload")

send_notify_helper_check(c) ==
  stage[c] = "SND_CHECK" /\ SendInternal(c, "SND_CHECK", "RECV_CHECK", "check")

\* The rest of the request is sent, or some of it and the timer starts again.
send_request(c) ==
  /\ stage[c] = "SEND"
  /\ \E full \in BOOLEAN :
       /\ stage' = IF full THEN [stage EXCEPT ![c] = "RECV"] ELSE stage
       /\ wire' = IF full THEN [wire EXCEPT ![c] = Append(@, held[c])] ELSE wire
       /\ sent' = IF full THEN [sent EXCEPT ![held[c]] = @ + 1] ELSE sent
  /\ timer' = timer \cup {c}
  /\ UNCHANGED <<held, health, freeHelper, queue, outcome, failed_send, stray>>

\* Mutant: the job of a failed send is forgotten.
queue_back_task_Forgets(c) ==
  /\ stage[c] = "SEND"
  /\ reconnect(c)
  /\ UNCHANGED <<queue, outcome, failed_send, sent, stray>>

\* The request cannot be sent: it gets an error code and goes back to the head of
\* the queue.
queue_back_task(c) ==
  /\ stage[c] = "SEND"
  /\ queue' = [queue EXCEPT ![GroupOf(c)] = <<held[c]>> \o @]
  /\ failed_send' = failed_send \cup {held[c]}
  /\ reconnect(c)
  /\ UNCHANGED <<outcome, sent, stray>>

output_notify(c) ==
  \/ output_connecting(c)
  \/ send_verify(c)
  \/ send_notify_helper_reload_config(c)
  \/ send_notify_helper_check(c)
  \/ send_request(c)
  \/ queue_back_task(c)

-----------------------------------------------------------------------------
(***************************************************************************)
(* ConnectorClient::input_notify: the helper's next reply is decoded.      *)
(***************************************************************************)
recv_verify(c) ==
  /\ stage[c] = "RECV_VER"
  /\ \/ /\ Ready(c)
        /\ request_completed(c, Tail(wire[c]), timer \ {c})
        /\ UNCHANGED <<queue, outcome, failed_send, sent, stray>>
     \/ Reset(c)

recv_notify_helper_reload_config(c) ==
  /\ stage[c] = "RECV_RELOAD"
  /\ \/ /\ request_completed(c, Tail(wire[c]), timer \ {c})
        /\ UNCHANGED <<health, queue, outcome, failed_send, sent, stray>>
     \/ Reset(c)

\* What a decoded reply means for the job it is taken for.  A reply with rows has
\* no result code and leaves the one of a failed send in place.
Replies(c) ==
  IF Head(wire[c]) # held[c] THEN {"foreign"}
  ELSE {"ok", "error"} \cup (IF held[c] \in failed_send \cap ReadJob THEN {"spoiled"} ELSE {})

\* A write that the helper reports as doubtful starts a check, and is answered
\* at once all the same: the connection is free while the check is under way.
client_notify_helper_check(c) ==
  /\ i_enable_check /\ held[c] \notin ReadJob
  /\ \E checked \in {<<>>, <<"check">>} :
       request_completed(c, Tail(wire[c]) \o checked, timer \cup {c})
  /\ \E r \in Replies(c) \ {"ok"} : outcome' = Answered(held[c], r)

recv_response(c) ==
  /\ stage[c] = "RECV"
  /\ \/ FailAndReconnect(c, "error")
     \/ /\ \/ /\ request_completed(c, Tail(wire[c]), timer \ {c})
              /\ \E r \in Replies(c) : outcome' = Answered(held[c], r)
           \/ client_notify_helper_check(c)
        /\ UNCHANGED <<health, queue, failed_send, sent, stray>>

\* The answer of a check only says what to log: the job gets an error.
recv_notify_helper_check(c) ==
  /\ stage[c] = "RECV_CHECK"
  /\ \/ FailAndReconnect(c, "error")
     \/ /\ request_completed(c, Tail(wire[c]), timer \ {c})
        /\ outcome' = Answered(held[c], "error")
        /\ UNCHANGED <<health, queue, failed_send, sent, stray>>

input_idle(c) == stage[c] = "IDLE" /\ Reset(c)

\* Input in another stage stops the timer and is left for later.
input_ignored(c) ==
  /\ stage[c] = "SEND"
  /\ timer' = timer \ {c}
  /\ UNCHANGED <<stage, held, wire, health, freeHelper, queue, outcome, failed_send, sent, stray>>

input_notify(c) ==
  /\ wire[c] # <<>>
  /\ \/ recv_verify(c)
     \/ recv_notify_helper_reload_config(c)
     \/ recv_notify_helper_check(c)
     \/ recv_response(c)
     \/ input_idle(c)
     \/ input_ignored(c)
-----------------------------------------------------------------------------
hangup_notify(c) == stage[c] # "DISC" /\ Reset(c)

\* The timer of a connection.  A write without a reply is checked over the same
\* connection, unless the check cannot be sent; everything else reconnects.
timeout_check(c) ==
  /\ i_enable_check /\ stage[c] = "RECV" /\ held[c] \notin ReadJob
  /\ SendInternal(c, "SND_CHECK", "RECV_CHECK", "check")

\* Mutants: the timer queues an unanswered job again, keeps the connection of an
\* unanswered job, or does not care for a job that cannot be sent.
job_timer_procedure_Retries(c) ==
  /\ c \in timer /\ stage[c] # "IDLE"
  /\ queue' = IF stage[c] = "RECV" THEN [queue EXCEPT ![GroupOf(c)] = Append(@, held[c])]
              ELSE queue
  /\ reconnect(c)
  /\ UNCHANGED <<outcome, failed_send, sent, stray>>

job_timer_procedure_KeepsConnection(c) ==
  /\ c \in timer /\ stage[c] # "IDLE"
  /\ IF stage[c] = "RECV"
     THEN /\ request_completed(c, wire[c], timer \ {c})
          /\ outcome' = Answered(held[c], "error")
          /\ UNCHANGED <<health, queue, failed_send, sent, stray>>
     ELSE FailAndReconnect(c, "error")

job_timer_procedure_NoSendTimeout(c) ==
  /\ c \in timer /\ stage[c] \notin {"IDLE", "SEND"}
  /\ FailAndReconnect(c, "error")

job_timer_procedure(c) ==
  /\ c \in timer /\ stage[c] # "IDLE"
  /\ \/ timeout_check(c)
     \/ /\ stage[c] = "CONN"
        /\ Reset(c)
     \/ /\ stage[c] # "CONN"
        /\ FailAndReconnect(c, "error")

Client(c) ==
  /\ \/ input_notify(c)
     \/ output_notify(c)
     \/ hangup_notify(c)
     \/ job_timer_procedure(c)
  /\ UNCHANGED <<flushing, expired, reloads, undefined>>

Next ==
  /\ ~undefined
  /\ \/ \E g \in Group : (flushing \subseteq {g}) /\ flush_task(g)
     \/ /\ flushing = {}
        /\ \/ \E g \in Group, j \in Job : job_ask_procedure(g, j)
           \/ \E c \in Helper : Client(c)
           \/ \E j \in Job : expire(j)
           \/ collect_notify_helper_reload_config
  /\ UNCHANGED i_enable_check

Spec == Init /\ [][Next]_vars

\* Timers fire.  The group's timer runs at the end of the turn of the event loop
\* in which a connection became free, so a connection that is free again and
\* again is used.
Fairness ==
  /\ \A c \in Helper :
       WF_vars(flushing = {} /\ job_timer_procedure(c)
                 /\ UNCHANGED <<i_enable_check, flushing, expired, reloads, undefined>>)
  /\ \A g \in Group : SF_vars(flush_task(g) /\ UNCHANGED i_enable_check)
  /\ \A j \in Job : WF_vars(flushing = {} /\ expire(j) /\ UNCHANGED i_enable_check)

FairSpec == Spec /\ Fairness

-----------------------------------------------------------------------------
(***************************************************************************)
(* Properties.                                                             *)
(***************************************************************************)
Working == {"RECV", "SEND", "SND_CHECK", "RECV_CHECK"}
Open == {j \in Job : outcome[j] = "open"}
Final == Outcome \ {"new", "open"}

\* Every variable has its type; a connection has a job exactly while it works on one.
TypeOK ==
  /\ i_enable_check \in EnableHwc
  /\ stage \in [Helper -> Stage]
  /\ held \in [Helper -> Job \cup {NoJob}]
  /\ wire \in [Helper -> Seq(Request)]
  /\ timer \subseteq Helper /\ freeHelper \subseteq Helper
  /\ connectErrorCnt \in [Helper -> 0 .. maxTryConnect + 1]
  /\ ready \in [Helper -> BOOLEAN]
  /\ readyHelperCnt \in [Group -> Nat]
  /\ \A g \in Group : readyHelperCnt[g] <= helperMax(g)
  /\ queue \in [Group -> Seq(Job)]
  /\ flushing \subseteq Group
  /\ expired \subseteq Job
  /\ outcome \in [Job -> Outcome]
  /\ failed_send \subseteq Job
  /\ sent \in [Job -> Nat]
  /\ reloads \in 0 .. max_reload
  /\ stray \in BOOLEAN /\ undefined \in BOOLEAN

\* The free list of a group, its count of ready connections and the stages of its
\* connections agree through every error path: a listed connection is idle and without
\* a job, and an idle one is listed, so none is given two jobs and none is lost to the
\* pool; and the count that decides between ONLINE and OFFLINE does not drift.
PoolConsistent ==
  /\ \A c \in Helper : /\ c \in freeHelper <=> stage[c] = "IDLE"
                       /\ stage[c] \in Working <=> held[c] # NoJob
  /\ \A g \in Group : readyHelperCnt[g] = Cardinality({c \in helperList(g) : ready[c]})

\* An open job is in exactly one place, a queue or a connection, and an answered
\* one in none: no job is forgotten or worked on twice.
JobInOnePlace ==
  \A j \in Job :
    Cardinality({c \in Helper : held[c] = j})
      + Cardinality({p \in UNION {{g} \X DOMAIN queue[g] : g \in Group} : queue[p[1]][p[2]] = j})
      = IF outcome[j] = "open" THEN 1 ELSE 0

\* queue_back_task does not look at queueSize: the queue can grow past it, but by
\* no more than the jobs the connections hold.
QueueBounded ==
  \A g \in Group :
    Len(queue[g]) + Cardinality({c \in helperList(g) : held[c] # NoJob})
      <= queueSize + helperMax(g)

\* A job that goes back to the queue never reached a helper, so no statement is
\* executed twice.
SentOnce ==
  /\ \A j \in Job : sent[j] <= 1
  /\ \A g \in Group : \A i \in DOMAIN queue[g] : sent[queue[g][i]] = 0

\* The result a job gets is the reply to its own statement, never one that was meant
\* for a job that had the connection before.
OwnReply == \A j \in Job : outcome[j] # "foreign"

\* A job is answered with success only when the reply of the helper said so.
SuccessWasReported == \A j \in Job : outcome[j] # "unsaid"

\* A job that was sent again after a failed send gets the result of that.
RetryCounts == \A j \in Job : outcome[j] # "spoiled"

\* A connection that is free has no reply under way ("no data from peer allowed
\* in idle state").
IdleIsQuiet == \A c \in freeHelper : wire[c] = <<>>

\* process_task is called for a group with a free helper only.
MustHaveFreeHelper == ~undefined

\* Only jobs that somebody asked are answered.
NoStrayAnswer == ~stray

\* A request that was not sent in full when the connection hangs up is pushed
\* back to the queue.
HangupPushesBack ==
  [][\A c \in Helper : stage[c] = "SEND" /\ hangup_notify(c)
                         => outcome'[held[c]] = "open"]_vars

\* Without the check of doubtful writes every job with a deadline is answered,
\* whatever the helpers do: the timers alone see to it.
EveryJobAnswered ==
  \A j \in Job \ CommitJob :
    (outcome[j] = "open" /\ ~i_enable_check) ~> (outcome[j] \in Final)

\* A flush job, which has no deadline, is answered when all connections are and
\* stay lost.
OfflineAnswersAll ==
  \A g \in Group, j \in CommitJob :
    (j \in {queue[g][i] : i \in DOMAIN queue[g]} /\ readyHelperCnt[g] = 0)
      ~> (outcome[j] \in Final \/ readyHelperCnt[g] > 0)
=============================================================================
