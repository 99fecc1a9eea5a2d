---------------------------- MODULE BufferProcess ----------------------------
(***************************************************************************)
(* BufferProcessAskChain, the cache in front of a database                 *)
(* (DTC_MODE_DATABASE_ADDITION), together with what lies behind it: the    *)
(* joint to the next unit, the back barrier and the database connector.    *)
(*                                                                         *)
(* In front of the cache is a barrier (module Barrier): at most one client *)
(* request of a key is between job_ask_procedure and its answer.  The      *)
(* table has the key as its unique field, so a key has one row or none.    *)
(* Memory is abstracted to its outcomes: storing a row may fail, and a     *)
(* clean node may be evicted.  Time is too: flush_next_node, which takes   *)
(* the oldest nodes of the dirty list at a speed that depends on their     *)
(* age, takes any dirty node.                                              *)
(***************************************************************************)
EXTENDS Naturals, Sequences, FiniteSets, FiniteSetsExt

CONSTANTS
  Key, Value,
  NoRow, NoNode, NoJob,   \* absent row, node and request
  Code,                   \* the request codes the clients use
  Config,                 \* the configurations dtcd may be started with
  max_flush_request_,
  max_late,               \* bound: statements the database executes after the timeout
  max_chain               \* bound: a key with that many queued requests gets no new one

(* the request codes; those of the first set have a statement *)
DbCodes == {"Get", "Insert", "Update", "Replace", "Delete"}
Codes == DbCodes \cup {"Purge", "Flush"}

(***************************************************************************)
(* A configuration: without or with update delay, purge instead of update  *)
(* (INSERT_ORDER_PURGE), the next unit in the same thread (main_chain      *)
(* queues) or in another one, and whether storing a row may fail with      *)
(* EC_NO_MEM.                                                              *)
(***************************************************************************)
Configuration ==
  [update_mode_ : {"SYNC", "ASYNC"}, insert_order_purge : BOOLEAN, use_queue : BOOLEAN,
   memory_may_run_out : BOOLEAN]

ASSUME ConfigAssumption ==
  /\ Config \subseteq Configuration
  /\ \A c \in Config : c.insert_order_purge => c.update_mode_ = "SYNC"
ASSUME SetAssumption ==
  /\ IsFiniteSet(Key)
  /\ Code \subseteq Codes
  /\ NoRow \notin Value
ASSUME BoundAssumption ==
  max_flush_request_ \in Nat \ {0} /\ max_late \in Nat /\ max_chain \in Nat \ {0}

Row == Value \cup {NoRow}

VARIABLES
  config,      \* the configuration this dtcd was started with
  node,        \* the cached node of each key: its row, the node's dirty flag, the row's
  db,          \* the row of each key in the database
  job,         \* the client request of each key between ask and answer
  chain,       \* on the way to the next unit: main_chain.queue, or the tunnel
  back,        \* the back barrier's queue of each key; the head is with the database
  ret,         \* answers on the way back through the tunnel
  memory_dirty_,
  current_pend_flush_request_,
  black_list_,
  late,        \* statements the database may still execute
  legal,       \* what a key's row may be, judging by the answers its clients got
  suspect,     \* keys a failed or doubtful statement was ignored for
  double_reply

vars == <<config, node, db, job, chain, back, ret, memory_dirty_, current_pend_flush_request_,
          black_list_, late, legal, suspect, double_reply>>

update_mode_ == config.update_mode_
insert_order_purge == config.insert_order_purge
use_queue == config.use_queue
memory_may_run_out == config.memory_may_run_out

Node == [val : Row, dirty : BOOLEAN, rowdirty : BOOLEAN]
Job == [code : Codes, val : Row, pass : BOOLEAN]
Entry == [kind : {"client", "flush"}, val : Row, wait : BOOLEAN]
Result == [code : {"ok", "dup", "refused", "unknown"}, row : Row, affected : {0, 1}]
Answer == [entry : Entry, res : Result]

ASSUME AbsentAssumption == NoNode \notin Node /\ NoJob \notin Job

Client == [kind |-> "client", val |-> NoRow, wait |-> FALSE]
FlushRow(v, w) == [kind |-> "flush", val |-> v, wait |-> w]
Clean(v) == [val |-> v, dirty |-> FALSE, rowdirty |-> FALSE]
Dirty(v) == [val |-> v, dirty |-> TRUE, rowdirty |-> TRUE]

IsDirty(k) == node[k] # NoNode /\ node[k].dirty

(* open_init_buffer on empty memory *)
Init ==
  /\ config \in Config
  /\ db \in [Key -> Row]
  /\ node = [k \in Key |-> NoNode]
  /\ job = [k \in Key |-> NoJob]
  /\ chain = [k \in Key |-> << >>]
  /\ back = [k \in Key |-> << >>]
  /\ ret = [k \in Key |-> << >>]
  /\ memory_dirty_ = FALSE
  /\ current_pend_flush_request_ = 0
  /\ black_list_ = {}
  /\ late = {}
  /\ legal = [k \in Key |-> {db[k]}]
  /\ suspect = {}
  /\ double_reply = FALSE
-----------------------------------------------------------------------------
(***************************************************************************)
(* Requests of clients: BufferProcessAskChain::job_ask_procedure.  What    *)
(* follows a double reply is undefined and not modelled.                   *)
(***************************************************************************)
Ask(k, code) ==
  /\ code \in Code
  /\ job[k] = NoJob
  /\ Len(chain[k]) < max_chain
  /\ ~double_reply
  /\ UNCHANGED <<db, ret, memory_dirty_, black_list_, late, suspect>>

(* turn_around_job_answer: the client's answer tells that the row is one of seen *)
turn_around_job_answer(k, seen) ==
  /\ legal' = [legal EXCEPT ![k] = seen]
  /\ UNCHANGED <<job, chain, back, current_pend_flush_request_, double_reply>>

(* mutant: the flush requests are pushed after the client's request *)
goto_next_chain_FlushLast(k, j, rows) ==
  /\ job' = [job EXCEPT ![k] = j]
  /\ chain' = [chain EXCEPT ![k] = @ \o <<Client>> \o rows]
  /\ current_pend_flush_request_' = current_pend_flush_request_ + Len(rows)
  /\ UNCHANGED <<back, legal, double_reply>>

(***************************************************************************)
(* main_chain.job_ask_procedure, after the flush requests rows went to     *)
(* main_chain.indirect_notify.  In one thread the request is with the next *)
(* unit at once and the flush requests wait for the timer; between two     *)
(* threads both go through the tunnel.                                     *)
(***************************************************************************)
goto_next_chain(k, j, rows) ==
  /\ job' = [job EXCEPT ![k] = j]
  /\ IF use_queue
     THEN /\ chain' = [chain EXCEPT ![k] = @ \o rows]
          /\ back' = [back EXCEPT ![k] = Append(@, Client)]
     ELSE /\ chain' = [chain EXCEPT ![k] = @ \o rows \o <<Client>>]
          /\ UNCHANGED back
  /\ current_pend_flush_request_' = current_pend_flush_request_ + Len(rows)
  /\ UNCHANGED <<legal, double_reply>>

(* do_flush: the requests that write the node's dirty row, and the node after it *)
flush_rows(k, wait) ==
  IF node[k].rowdirty THEN <<FlushRow(node[k].val, wait)>> ELSE << >>
flushed(k) == Clean(node[k].val)

(* mutant: a request with a waiting client is not counted *)
buffer_flush_data_Uncounted(k, code) ==
  /\ chain' = [chain EXCEPT ![k] = @ \o flush_rows(k, TRUE)]
  /\ job' = [job EXCEPT ![k] = [code |-> code, val |-> NoRow, pass |-> FALSE]]
  /\ UNCHANGED <<back, legal, double_reply, current_pend_flush_request_>>

(***************************************************************************)
(* buffer_flush_data(node, job): the client waits for the flush request.   *)
(* Without a dirty row commit_flush_request deletes the request, whose     *)
(* destructor answers the client; the caller answers it once more.         *)
(***************************************************************************)
buffer_flush_data(k, code) ==
  LET rows == flush_rows(k, TRUE) IN
  /\ chain' = [chain EXCEPT ![k] = @ \o rows]
  /\ current_pend_flush_request_' = current_pend_flush_request_ + Len(rows)
  /\ IF rows = << >>
     THEN double_reply' = TRUE /\ UNCHANGED job
     ELSE /\ job' = [job EXCEPT ![k] = [code |-> code, val |-> NoRow, pass |-> FALSE]]
          /\ UNCHANGED double_reply
  /\ UNCHANGED <<back, legal>>

(***************************************************************************)
(* buffer_get_data.  A key of the black list is purged and passes through; *)
(* it is never cached, so the flush in buffer_purge_data does not occur.   *)
(***************************************************************************)
ask_get(k) ==
  /\ Ask(k, "Get")
  /\ IF k \in black_list_
     THEN /\ node' = [node EXCEPT ![k] = NoNode]
          /\ goto_next_chain(k, [code |-> "Get", val |-> NoRow, pass |-> TRUE], << >>)
     ELSE /\ UNCHANGED node
          /\ IF node[k] = NoNode
             THEN \E no_cache \in BOOLEAN :
                    goto_next_chain(k, [code |-> "Get", val |-> NoRow, pass |-> no_cache], << >>)
             ELSE turn_around_job_answer(k, legal[k] \cap {node[k].val})

(* buffer_sync_insert_precheck, buffer_async_insert and buffer_insert_row *)
ask_insert(k, v) ==
  /\ Ask(k, "Insert")
  /\ IF node[k] # NoNode /\ node[k].val # NoRow
     THEN turn_around_job_answer(k, legal[k] \ {NoRow}) /\ UNCHANGED node
     ELSE IF node[k] = NoNode \/ update_mode_ = "SYNC"
     THEN /\ goto_next_chain(k, [code |-> "Insert", val |-> v, pass |-> FALSE], << >>)
          /\ UNCHANGED node
     ELSE \/ /\ node' = [node EXCEPT ![k] = Dirty(v)]
             /\ turn_around_job_answer(k, {v})
          \/ /\ memory_may_run_out
             /\ turn_around_job_answer(k, legal[k])
             /\ UNCHANGED node

(* buffer_async_update and buffer_update_rows *)
ask_update(k, v) ==
  /\ Ask(k, "Update")
  /\ IF node[k] = NoNode \/ update_mode_ = "SYNC"
     THEN /\ goto_next_chain(k, [code |-> "Update", val |-> v, pass |-> FALSE], << >>)
          /\ UNCHANGED node
     ELSE IF node[k].val = NoRow
     THEN turn_around_job_answer(k, legal[k] \cap {NoRow}) /\ UNCHANGED node
     ELSE \/ /\ node' = [node EXCEPT ![k] = Dirty(v)]
             /\ turn_around_job_answer(k, {v})
          \/ /\ memory_may_run_out   \* transaction_update_lru(async, LRU_ALWAYS)
             /\ node' = [node EXCEPT ![k].dirty = TRUE]
             /\ turn_around_job_answer(k, legal[k])

(* buffer_async_replace and buffer_replace_rows *)
ask_replace(k, v) ==
  /\ Ask(k, "Replace")
  /\ IF node[k] = NoNode \/ update_mode_ = "SYNC"
     THEN /\ goto_next_chain(k, [code |-> "Replace", val |-> v, pass |-> FALSE], << >>)
          /\ UNCHANGED node
     ELSE \/ /\ node' = [node EXCEPT ![k] = Dirty(v)]
             /\ turn_around_job_answer(k, {v})
          \/ /\ memory_may_run_out   \* a clean node is purged
             /\ node' = [node EXCEPT ![k] = IF IsDirty(k) THEN @ ELSE NoNode]
             /\ turn_around_job_answer(k, legal[k])

(* in ASYNC mode buffer_flush_data_before_delete first *)
ask_delete(k) ==
  /\ Ask(k, "Delete")
  /\ LET before == update_mode_ = "ASYNC" /\ IsDirty(k) IN
     /\ node' = IF before THEN [node EXCEPT ![k] = flushed(k)] ELSE node
     /\ goto_next_chain(k, [code |-> "Delete", val |-> NoRow, pass |-> FALSE],
                        IF before THEN flush_rows(k, FALSE) ELSE << >>)

(* buffer_purge_data; after a flush request the node goes too *)
ask_purge(k) ==
  /\ Ask(k, "Purge")
  /\ IF update_mode_ = "ASYNC" /\ IsDirty(k)
     THEN /\ buffer_flush_data(k, "Purge")
          /\ node' = [node EXCEPT ![k] = IF node[k].rowdirty THEN NoNode ELSE flushed(k)]
     ELSE /\ node' = [node EXCEPT ![k] = NoNode]
          /\ turn_around_job_answer(k, legal[k])

(* mutant: a clean node is flushed too *)
ask_flush_Clean(k) ==
  /\ Ask(k, "Flush")
  /\ node[k] # NoNode
  /\ buffer_flush_data(k, "Flush")
  /\ node' = [node EXCEPT ![k] = flushed(k)]

(* buffer_flush_data *)
ask_flush(k) ==
  /\ Ask(k, "Flush")
  /\ IF update_mode_ = "ASYNC" /\ IsDirty(k)
     THEN /\ buffer_flush_data(k, "Flush")
          /\ node' = [node EXCEPT ![k] = flushed(k)]
     ELSE turn_around_job_answer(k, legal[k]) /\ UNCHANGED node

job_ask_procedure(k) ==
  \/ ask_get(k)
  \/ \E v \in Value : ask_insert(k, v) \/ ask_update(k, v) \/ ask_replace(k, v)
  \/ ask_delete(k)
  \/ ask_purge(k)
  \/ ask_flush(k)
-----------------------------------------------------------------------------
(***************************************************************************)
(* Behind the cache.  In one thread main_chain's timer hands over every    *)
(* queued request; a tunnel delivers them one at a time.  The back barrier *)
(* lets one request of a key pass at a time.                               *)
(***************************************************************************)
chain_deliver ==
  /\ use_queue
  /\ \E k \in Key : chain[k] # << >>
  /\ back' = [k \in Key |-> back[k] \o chain[k]]
  /\ chain' = [k \in Key |-> << >>]
  /\ UNCHANGED <<node, db, job, ret, memory_dirty_, current_pend_flush_request_,
                 black_list_, late, legal, suspect, double_reply>>

tunnel_deliver(k) ==
  /\ ~use_queue
  /\ chain[k] # << >>
  /\ back' = [back EXCEPT ![k] = Append(@, Head(chain[k]))]
  /\ chain' = [chain EXCEPT ![k] = Tail(@)]
  /\ UNCHANGED <<node, db, job, ret, memory_dirty_, current_pend_flush_request_,
                 black_list_, late, legal, suspect, double_reply>>

(* the row that the statement of a request leaves of row r *)
Execute(code, v, r) ==
  CASE code = "Get" -> r
    [] code = "Insert" -> IF r = NoRow THEN v ELSE r
    [] code = "Update" -> IF r = NoRow THEN NoRow ELSE v
    [] code = "Replace" -> v
    [] code = "Delete" -> NoRow

EntryCode(k, e) == IF e.kind = "flush" THEN "Replace" ELSE job[k].code
EntryVal(k, e) == IF e.kind = "flush" THEN e.val ELSE job[k].val

(* the connector's answers when the statement was executed on row r; MySQL counts an    *)
(* update to the same value only with CLIENT_FOUND_ROWS (UseMatchedAsAffectedRows)      *)
Done(code, v, r) ==
  IF code = "Insert" /\ r # NoRow
  THEN {[code |-> "dup", row |-> NoRow, affected |-> 0]}
  ELSE {[code |-> "ok", row |-> IF code = "Get" THEN r ELSE NoRow, affected |-> n] :
          n \in IF code # "Update" THEN {1} ELSE IF r = NoRow THEN {0} ELSE IF r = v THEN {0, 1} ELSE {1}}

Failed(c) == [code |-> c, row |-> NoRow, affected |-> 0]
-----------------------------------------------------------------------------
(***************************************************************************)
(* Answers: BufferProcessAskChain::job_answer_procedure for the request j  *)
(* of key k, with result res.                                              *)
(***************************************************************************)
(* the node of k becomes n, or memory runs out: the node becomes m and the key may be *)
(* put on the black list                                                              *)
store(k, n, m) ==
  \/ node' = [node EXCEPT ![k] = n] /\ UNCHANGED black_list_
  \/ /\ memory_may_run_out
     /\ node' = [node EXCEPT ![k] = m]
     /\ black_list_' \in {black_list_, black_list_ \cup {k}}

keep == UNCHANGED <<node, black_list_>>
purge(k) == node' = [node EXCEPT ![k] = NoNode] /\ UNCHANGED black_list_

(* the node of k after a successful statement: its row written, its flags kept *)
Rewritten(k, v) == [node[k] EXCEPT !.val = v]

(* mutant: the answer of a Get that passes through is stored *)
answer_get_IgnoresPass(k, j, res) ==
  store(k, IF node[k] = NoNode THEN Clean(res.row) ELSE Rewritten(k, res.row), NoNode)

(* buffer_replace_result; it is skipped for a result beyond the size or row limit *)
answer_get(k, j, res) ==
  IF j.pass THEN keep
  ELSE \/ store(k, IF node[k] = NoNode THEN Clean(res.row) ELSE Rewritten(k, res.row), NoNode)
       \/ keep

(* buffer_purge_data or buffer_sync_insert *)
answer_insert(k, j) ==
  IF node[k] = NoNode THEN keep
  ELSE IF insert_order_purge THEN purge(k)
  ELSE store(k, Rewritten(k, j.val), NoNode)

(* mutant: an executed update leaves the node *)
answer_update_NotStored(k, j, res) == keep

(* buffer_purge_data or buffer_sync_update *)
answer_update(k, j, res) ==
  IF node[k] = NoNode \/ res.affected = 0 THEN keep
  ELSE IF insert_order_purge THEN purge(k)
  ELSE IF node[k].val = NoRow THEN keep
  ELSE store(k, Rewritten(k, j.val), NoNode)

(* buffer_sync_replace; on failure only a clean node is purged *)
answer_replace(k, j, res) ==
  IF node[k] = NoNode \/ res.affected = 0 THEN keep
  ELSE store(k, Rewritten(k, j.val), IF IsDirty(k) THEN node[k] ELSE NoNode)

(* buffer_sync_delete: the affected rows are not looked at *)
answer_delete(k) == purge(k)

reply_connector_answer(k, j, res) ==
  CASE j.code = "Get" -> answer_get(k, j, res)
    [] j.code = "Insert" -> answer_insert(k, j)
    [] j.code = "Update" -> answer_update(k, j, res)
    [] j.code = "Replace" -> answer_replace(k, j, res)
    [] j.code = "Delete" -> answer_delete(k)

(* mutant: an unknown outcome leaves the node *)
deal_flush_exeption_KeepsNode(k, j, res) == keep /\ UNCHANGED suspect

(***************************************************************************)
(* The outcome of the statement is unknown (-EC_UPSTREAM_ERROR or          *)
(* -CR_SERVER_LOST): SYNC mode purges the node, ASYNC mode logs that the   *)
(* data may be corrupted.  Replace has no case: the node stays.            *)
(***************************************************************************)
deal_flush_exeption(k, j, res) ==
  LET unknown == res.code = "unknown" IN
  /\ IF unknown /\ update_mode_ = "SYNC" /\ j.code \in {"Insert", "Delete", "Update"}
     THEN purge(k) ELSE keep
  /\ suspect' = IF unknown /\ (\/ j.code = "Replace"
                               \/ update_mode_ # "SYNC" /\ j.code \in {"Insert", "Delete"})
                THEN suspect \cup {k} ELSE suspect

(* what the answer tells the client about the row *)
Seen(k, j, res) ==
  CASE res.code = "ok" /\ j.code = "Get" -> legal[k] \cap {res.row}
    [] res.code = "ok" /\ j.code = "Update" /\ res.affected = 0 -> legal[k] \cap {NoRow, j.val}
    [] res.code = "ok" /\ j.code = "Update" /\ res.affected = 1 -> {j.val}
    [] res.code = "ok" /\ j.code \notin {"Get", "Update"} -> {j.val}
    [] res.code = "unknown" -> legal[k] \cup {Execute(j.code, j.val, r) : r \in legal[k]}
    [] res.code = "dup" -> legal[k] \ {NoRow}
    [] res.code = "refused" -> legal[k]

(* mutant: a refused request is tried again *)
client_answer_Retries(k, res) ==
  /\ IF res.code = "ok"
     THEN reply_connector_answer(k, job[k], res) /\ UNCHANGED suspect
     ELSE deal_flush_exeption(k, job[k], res)
  /\ legal' = [legal EXCEPT ![k] = Seen(k, job[k], res)]
  /\ IF res.code = "refused"
     THEN chain' = [chain EXCEPT ![k] = Append(@, Client)] /\ UNCHANGED job
     ELSE job' = [job EXCEPT ![k] = NoJob] /\ UNCHANGED chain
  /\ UNCHANGED <<memory_dirty_, current_pend_flush_request_>>

client_answer(k, res) ==
  /\ IF res.code = "ok"
     THEN reply_connector_answer(k, job[k], res) /\ UNCHANGED suspect
     ELSE deal_flush_exeption(k, job[k], res)
  /\ legal' = [legal EXCEPT ![k] = Seen(k, job[k], res)]
  /\ job' = [job EXCEPT ![k] = NoJob]
  /\ UNCHANGED <<chain, memory_dirty_, current_pend_flush_request_>>

(***************************************************************************)
(* Flushing: flush_next_node writes one dirty node, old enough by the time *)
(* markers; when a SYNC cache meets the last marker or the end of the      *)
(* list, it writes all that is left.  left requests are still pending.     *)
(***************************************************************************)
dirty_keys == {k \in Key : IsDirty(k)}
timer_rows(D) == [k \in Key |-> IF k \in D THEN flush_rows(k, FALSE) ELSE << >>]

buffer_flush_data_timer(D, left) ==
  /\ node' = [k \in Key |-> IF k \in D THEN flushed(k) ELSE node[k]]
  /\ current_pend_flush_request_' = left + Cardinality({k \in D : node[k].rowdirty})

(* mutant: the timer never stops *)
clean_memory_Never(D) == D = dirty_keys /\ UNCHANGED memory_dirty_

(* "mem clean now for sync cache" *)
clean_memory(D) ==
  /\ update_mode_ = "SYNC"
  /\ memory_dirty_
  /\ D = dirty_keys
  /\ memory_dirty_' = FALSE

(* mutant: the count does not go down *)
complete_flush_request_Counted(left) ==
  UNCHANGED <<node, chain, memory_dirty_, current_pend_flush_request_>>

complete_flush_request(left) ==
  \E D \in SUBSET dirty_keys :
    /\ buffer_flush_data_timer(D, left)
    /\ chain' = [k \in Key |-> chain[k] \o timer_rows(D)[k]]
    /\ \/ D = {} /\ UNCHANGED memory_dirty_
       \/ left < max_flush_request_ /\ Cardinality(D) = 1 /\ UNCHANGED memory_dirty_
       \/ left < max_flush_request_ /\ clean_memory(D)

(* DropDataReply: the result is not looked at; a waiting client is answered *)
flush_answer(k, e, res) ==
  /\ job' = IF e.wait THEN [job EXCEPT ![k] = NoJob] ELSE job
  /\ suspect' = IF res.code = "ok" THEN suspect ELSE suspect \cup {k}
  /\ complete_flush_request(current_pend_flush_request_ - 1)
  /\ UNCHANGED <<black_list_, legal>>

job_answer_procedure(k, e, res) ==
  /\ IF e.kind = "flush" THEN flush_answer(k, e, res) ELSE client_answer(k, res)
  /\ UNCHANGED double_reply

(***************************************************************************)
(* The flush timer: nodes are written while fewer than the maximum are     *)
(* pending; a node without a dirty row ends the loop.  In one thread the   *)
(* event loop empties main_chain.queue right after its timers.             *)
(***************************************************************************)
job_timer_procedure ==
  /\ update_mode_ = "ASYNC" \/ memory_dirty_
  /\ current_pend_flush_request_ < max_flush_request_
  /\ \E D \in SUBSET dirty_keys :
       /\ buffer_flush_data_timer(D, current_pend_flush_request_)
       /\ IF use_queue
          THEN /\ back' = [k \in Key |-> back[k] \o chain[k] \o timer_rows(D)[k]]
               /\ chain' = [k \in Key |-> << >>]
          ELSE /\ chain' = [k \in Key |-> chain[k] \o timer_rows(D)[k]]
               /\ UNCHANGED back
       /\ \/ /\ D # {}
             /\ LET without == Cardinality({k \in D : ~node[k].rowdirty}) IN
                 without <= 1 /\ current_pend_flush_request_' + without <= max_flush_request_
             /\ UNCHANGED memory_dirty_
          \/ clean_memory(D)
  /\ UNCHANGED <<db, job, ret, black_list_, late, legal, suspect, double_reply>>
-----------------------------------------------------------------------------
(***************************************************************************)
(* The connector and the database (external).  The statement of the        *)
(* request at the head of k's back barrier is executed and answered; or it *)
(* is refused (-EC_SERVER_BUSY, -ETIMEDOUT); or the connector answers      *)
(* -EC_UPSTREAM_ERROR and the statement was executed, or not, or will be.  *)
(* Nothing else of the key is with the database, so execution and answer   *)
(* are one step.  In one thread the answer is processed at once.           *)
(***************************************************************************)
answer(k, e, res) ==
  IF use_queue
  THEN job_answer_procedure(k, e, res) /\ UNCHANGED ret
  ELSE /\ ret' = [ret EXCEPT ![k] = Append(@, [entry |-> e, res |-> res])]
       /\ UNCHANGED <<node, job, chain, memory_dirty_, current_pend_flush_request_,
                      black_list_, legal, suspect, double_reply>>

helper_execute(k) ==
  /\ back[k] # << >>
  /\ back' = [back EXCEPT ![k] = Tail(@)]
  /\ LET e == Head(back[k])
         code == EntryCode(k, e)
         v == EntryVal(k, e)
         executed == db' = [db EXCEPT ![k] = Execute(code, v, @)]
     IN \/ /\ executed
           /\ \E res \in Done(code, v, db[k]) : answer(k, e, res)
           /\ UNCHANGED late
        \/ /\ \E c \in {"refused", "unknown"} : answer(k, e, Failed(c))
           /\ UNCHANGED <<db, late>>
        \/ /\ executed
           /\ answer(k, e, Failed("unknown"))
           /\ UNCHANGED late
        \/ /\ Cardinality(late) < max_late
           /\ code # "Get"
           /\ answer(k, e, Failed("unknown"))
           /\ late' = late \cup {[key |-> k, code |-> code, val |-> v]}
           /\ UNCHANGED db

(* the database executes a statement whose connection was given up *)
late_execute ==
  \E l \in late :
    /\ db' = [db EXCEPT ![l.key] = Execute(l.code, l.val, @)]
    /\ late' = late \ {l}
    /\ UNCHANGED <<node, job, chain, back, ret, memory_dirty_, current_pend_flush_request_,
                   black_list_, legal, suspect, double_reply>>

(* the tunnel hands an answer to the cache's thread *)
ret_deliver(k) ==
  /\ ret[k] # << >>
  /\ ret' = [ret EXCEPT ![k] = Tail(@)]
  /\ job_answer_procedure(k, Head(ret[k]).entry, Head(ret[k]).res)
  /\ UNCHANGED <<db, back, late>>
-----------------------------------------------------------------------------
(* delay_purge_notify, try_purge_size: the clean list is purged for memory, also in the *)
(* course of a request of another key                                                   *)
purge_clean_node(k) ==
  /\ node[k] # NoNode
  /\ ~IsDirty(k)
  /\ node' = [node EXCEPT ![k] = NoNode]
  /\ UNCHANGED <<db, job, chain, back, ret, memory_dirty_, current_pend_flush_request_,
                 black_list_, late, legal, suspect, double_reply>>

(* BlackListUnit::job_timer_procedure *)
try_expired_blacklist(k) ==
  /\ k \in black_list_
  /\ black_list_' = black_list_ \ {k}
  /\ UNCHANGED <<node, db, job, chain, back, ret, memory_dirty_, current_pend_flush_request_,
                 late, legal, suspect, double_reply>>

Next ==
  /\ \/ \E k \in Key : job_ask_procedure(k) \/ tunnel_deliver(k)
                       \/ helper_execute(k) \/ ret_deliver(k)
                       \/ purge_clean_node(k) \/ try_expired_blacklist(k)
     \/ chain_deliver
     \/ job_timer_procedure
     \/ late_execute
  /\ UNCHANGED config

Spec == Init /\ [][Next]_vars
-----------------------------------------------------------------------------
(***************************************************************************)
(* The state has its type.                                                 *)
(***************************************************************************)
TypeOK ==
  /\ config \in Config
  /\ node \in [Key -> Node \cup {NoNode}]
  /\ db \in [Key -> Row]
  /\ job \in [Key -> Job \cup {NoJob}]
  /\ chain \in [Key -> Seq(Entry)]
  /\ back \in [Key -> Seq(Entry)]
  /\ ret \in [Key -> Seq(Answer)]
  /\ memory_dirty_ \in BOOLEAN
  /\ current_pend_flush_request_ \in Nat
  /\ black_list_ \subseteq Key
  /\ late \subseteq [key : Key, code : DbCodes, val : Row]
  /\ legal \in [Key -> SUBSET Row]
  /\ suspect \subseteq Key
  /\ double_reply \in BOOLEAN

(* where a queue of requests has flush requests *)
Flushes(queue) == {i \in DOMAIN queue : queue[i].kind = "flush"}

(* the row once the database has executed the flush requests of a queue *)
Settled(queue, row) == IF Flushes(queue) = {} THEN row ELSE queue[Max(Flushes(queue))].val

(* the requests of k that the database has not executed, oldest first *)
Way(k) == back[k] \o chain[k]

(* the requests of k whose answer the cache has not got, oldest first *)
Entries(answers) == [i \in DOMAIN answers |-> answers[i].entry]
Path(k) == Entries(ret[k]) \o Way(k)

Unflushed(k) == Flushes(Way(k))
Latest(k) == Settled(Way(k), db[k])

(* no request of k is in work, and no statement of k failed without consequence *)
Quiet(k) ==
  /\ job[k] = NoJob
  /\ k \notin suspect
  /\ \A i \in DOMAIN ret[k] : ret[k][i].res.code = "ok"

(***************************************************************************)
(* The cached copy of a key that nobody works on, unless it has a row that *)
(* still has to be flushed, is the row the database has or gets from the   *)
(* flush requests on their way: neither answers, evictions, failures nor   *)
(* flushes leave a stale copy.  Keys for which a failed or doubtful        *)
(* statement was ignored are exempt.                                       *)
(***************************************************************************)
CleanCopyIsCurrent ==
  \A k \in Key :
    Quiet(k) /\ node[k] # NoNode /\ ~node[k].rowdirty => node[k].val = Latest(k)

(***************************************************************************)
(* What the clients of a key were told remains true: the row that the next *)
(* Get would answer is one that all the answers given so far allow, so no  *)
(* acknowledged write is lost and no deleted row comes back.               *)
(***************************************************************************)
NoWriteLost ==
  \A k \in Key :
    Quiet(k) => (IF node[k] = NoNode THEN Latest(k) ELSE node[k].val) \in legal[k]

(***************************************************************************)
(* "write-through policy, ensure cache and database data consistent"       *)
(* (README.md): without update delay, a copy in the cache of a key that    *)
(* has no request on its way is the row of the database.                   *)
(***************************************************************************)
WriteThrough ==
  \A k \in Key :
    job[k] = NoJob /\ node[k] # NoNode /\ Unflushed(k) = {} /\ ~node[k].rowdirty
      => node[k].val = db[k]

(***************************************************************************)
(* "flush before an asynchronous delete" (deal_single_database_addition_   *)
(* ask): when the database executes a Delete, no row of the key that was   *)
(* flushed earlier is still to be written.                                 *)
(***************************************************************************)
FlushedBeforeDelete ==
  \A k \in Key :
    job[k] # NoJob /\ job[k].code = "Delete" /\ back[k] # << >> /\ Head(back[k]) = Client
      => Unflushed(k) = {}

(***************************************************************************)
(* "In theory a node of the black list cannot be in the cache"             *)
(* (deal_single_database_addition_ask).                                    *)
(***************************************************************************)
BlackListedIsNotCached == \A k \in black_list_ : node[k] = NoNode

(* current_pend_flush_request_, which throttles the flush timer, is the number of *)
(* flush requests that have not been answered: none is counted twice or forgotten *)
FlushCounted ==
  current_pend_flush_request_ = Cardinality(UNION {{k} \X Flushes(Path(k)) : k \in Key})

(***************************************************************************)
(* TaskReplyList reports "possible double reply": no request is answered   *)
(* twice.                                                                  *)
(***************************************************************************)
NoDoubleReply == ~double_reply
=============================================================================
