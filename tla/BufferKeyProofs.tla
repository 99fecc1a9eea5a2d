--------------------------- MODULE BufferKeyProofs ---------------------------
(***************************************************************************)
(* What a step of BufferProcess does to one key, and theorems from it: no  *)
(* double reply, no copy of a key on the black list, no dirty row lost,    *)
(* every flush before a Delete.                                            *)
(***************************************************************************)
EXTENDS BufferProofs

USE Zenon

(***************************************************************************)
(* A client's request: the node and the answer when it is answered at      *)
(* once,                                                                   *)
(***************************************************************************)
Told(k, seen) ==
  \/ node'[k] = node[k] /\ seen = legal[k]
  \/ node[k] # NoNode /\ node'[k] = node[k] /\ seen = legal[k] \cap {node[k].val}
  \/ node[k] # NoNode /\ node[k].val # NoRow /\ node'[k] = node[k] /\ seen = legal[k] \ {NoRow}
  \/ /\ update_mode_ = "ASYNC" /\ node[k] # NoNode
     /\ \E v \in Value : node'[k] = Dirty(v) /\ seen = {v}
  \/ /\ update_mode_ = "ASYNC" /\ memory_may_run_out /\ node[k] # NoNode
     /\ node'[k] = [node[k] EXCEPT !.dirty = TRUE] /\ seen = legal[k]
  \/ /\ ~(update_mode_ = "ASYNC" /\ IsDirty(k)) /\ node'[k] = NoNode /\ seen = legal[k]

(* and when it goes to the database *)
Sent(k, j) ==
  \/ /\ j.code = "Get" /\ (k \in black_list_ => j.pass) /\ node'[k] = NoNode
     /\ node[k] = NoNode \/ k \in black_list_
  \/ /\ j.code \in {"Insert", "Update", "Replace"} /\ (node[k] = NoNode \/ update_mode_ = "SYNC")
     /\ node'[k] = node[k]
  \/ /\ j.code = "Delete" /\ j.val = NoRow /\ ~(update_mode_ = "ASYNC" /\ IsDirty(k))
     /\ node'[k] = node[k]

Delete == [code |-> "Delete", val |-> NoRow, pass |-> FALSE]

AskStep(k) ==
  \/ \E seen \in SUBSET Row : turn_around_job_answer(k, seen) /\ Told(k, seen)
  \/ \E j \in Job : goto_next_chain(k, j, << >>) /\ Sent(k, j)
  \/ /\ update_mode_ = "ASYNC" /\ IsDirty(k) /\ node'[k] = Clean(node[k].val)
     /\ goto_next_chain(k, Delete, flush_rows(k, FALSE))
  \/ /\ update_mode_ = "ASYNC" /\ IsDirty(k)
     /\ \/ node'[k] = Clean(node[k].val)
        \/ node[k].rowdirty /\ node'[k] = NoNode
     /\ \E code \in {"Purge", "Flush"} : buffer_flush_data(k, code)

LEMMA AskSteps ==
  ASSUME TypeOK, NEW k \in Key, job_ask_procedure(k)
  PROVE  AskStep(k)
<1>1. /\ node \in [Key -> NodeOrNone] /\ (node[k] # NoNode => node[k] \in Node)
      /\ legal[k] \in SUBSET Row /\ update_mode_ \in {"SYNC", "ASYNC"}
  BY ConfigAssumption, SMT DEF TypeOK, NodeOrNone, Configuration, update_mode_
<1>2. /\ \A v \in Value : v \in Row /\ {v} \in SUBSET Row
      /\ \A r : legal[k] \cap {r} \in SUBSET Row /\ legal[k] \ {r} \in SUBSET Row
  BY <1>1 DEF Row
<1>3. /\ \A n : node' = [node EXCEPT ![k] = n] => node'[k] = n
      /\ node' = node => node'[k] = node[k]
  BY <1>1
<1>4. \A c \in DbCodes, v \in Row, p \in BOOLEAN :
        LET j == [code |-> c, val |-> v, pass |-> p] IN
        j \in Job /\ j.code = c /\ j.val = v /\ j.pass = p
  BY JobTypes
<1>5. NoRow \in Row
  BY NodeTypes
<1>6. CASE ask_get(k)
  <2>1. CASE k \in black_list_
    <3> DEFINE j == [code |-> "Get", val |-> NoRow, pass |-> TRUE]
    <3>1. node'[k] = NoNode /\ goto_next_chain(k, j, << >>)
      BY <1>3, <1>6, <2>1 DEF ask_get
    <3>2. j \in Job /\ j.code = "Get" /\ j.pass
      BY <1>4, <1>5 DEF DbCodes
    <3> HIDE DEF j
    <3> QED BY <2>1, <3>1, <3>2 DEF AskStep, Sent
  <2>2. CASE k \notin black_list_ /\ node[k] = NoNode
    <3>1. PICK b \in BOOLEAN :
            goto_next_chain(k, [code |-> "Get", val |-> NoRow, pass |-> b], << >>)
      BY <1>6, <2>2 DEF ask_get
    <3> DEFINE j == [code |-> "Get", val |-> NoRow, pass |-> b]
    <3>2. j \in Job /\ j.code = "Get"
      BY <1>4, <1>5 DEF DbCodes
    <3>3. node'[k] = node[k] /\ goto_next_chain(k, j, << >>)
      BY <1>3, <1>6, <2>2, <3>1 DEF ask_get
    <3> HIDE DEF j
    <3> QED BY <2>2, <3>2, <3>3 DEF AskStep, Sent
  <2>3. CASE k \notin black_list_ /\ node[k] # NoNode
    BY <1>2, <1>3, <1>6, <2>3 DEF ask_get, AskStep, Told
  <2> QED BY <2>1, <2>2, <2>3
<1>7. ASSUME NEW v \in Value, ask_insert(k, v) \/ ask_update(k, v) \/ ask_replace(k, v)
      PROVE  AskStep(k)
  <2>1. ASSUME NEW code \in {"Insert", "Update", "Replace"},
               goto_next_chain(k, [code |-> code, val |-> v, pass |-> FALSE], << >>),
               node' = node, node[k] = NoNode \/ update_mode_ = "SYNC"
        PROVE  AskStep(k)
    <3> DEFINE j == [code |-> code, val |-> v, pass |-> FALSE]
    <3>1. j \in Job /\ j.code = code
      BY <1>2, <1>4 DEF DbCodes
    <3>2. goto_next_chain(k, j, << >>)
      BY <2>1
    <3> HIDE DEF j
    <3> QED BY <1>3, <2>1, <3>1, <3>2 DEF AskStep, Sent
  <2>2. ASSUME NEW seen \in SUBSET Row, turn_around_job_answer(k, seen), Told(k, seen)
        PROVE  AskStep(k)
    BY <2>2 DEF AskStep
  <2>3. ASSUME turn_around_job_answer(k, {v}), update_mode_ = "ASYNC", node[k] # NoNode,
               node' = [node EXCEPT ![k] = Dirty(v)]
        PROVE  AskStep(k)
    BY <1>2, <1>3, <2>2, <2>3 DEF Told
  <2>4. CASE ask_insert(k, v)
    BY <1>1, <1>2, <1>3, <2>1, <2>2, <2>3, <2>4 DEF ask_insert, Told
  <2>5. CASE ask_update(k, v)
    BY <1>1, <1>2, <1>3, <2>1, <2>2, <2>3, <2>5 DEF ask_update, Told
  <2>6. CASE ask_replace(k, v)
    BY <1>1, <1>2, <1>3, <2>1, <2>2, <2>3, <2>6 DEF ask_replace, Told
  <2> QED BY <1>7, <2>4, <2>5, <2>6
<1>8. CASE ask_delete(k)
  <2>1. Delete \in Job /\ Delete.code = "Delete" /\ Delete.val = NoRow
    BY <1>4, <1>5 DEF DbCodes, Delete
  <2>2. CASE update_mode_ = "ASYNC" /\ IsDirty(k)
    BY <1>3, <1>8, <2>2 DEF ask_delete, AskStep, flushed, Delete
  <2>3. CASE ~(update_mode_ = "ASYNC" /\ IsDirty(k))
    <3>1. goto_next_chain(k, Delete, << >>) /\ node'[k] = node[k]
      BY <1>3, <1>8, <2>3 DEF ask_delete, Delete
    <3> QED BY <2>1, <2>3, <3>1 DEF AskStep, Sent
  <2> QED BY <2>2, <2>3
<1>9. CASE ask_purge(k) \/ ask_flush(k)
  <2>1. CASE update_mode_ = "ASYNC" /\ IsDirty(k)
    BY <1>3, <1>9, <2>1 DEF ask_purge, ask_flush, flushed, AskStep
  <2>2. CASE ~(update_mode_ = "ASYNC" /\ IsDirty(k))
    BY <1>1, <1>3, <1>9, <2>2 DEF ask_purge, ask_flush, AskStep, Told
  <2> QED BY <2>1, <2>2
<1> QED BY <1>6, <1>7, <1>8, <1>9 DEF job_ask_procedure
(***************************************************************************)
(* The answer to a client's request: the node of its key.  It goes, stays, *)
(* is new, or is rewritten.                                                *)
(***************************************************************************)
Kept(k, res) ==
  LET j == job[k] IN
  /\ res.code = "ok" =>
       \/ IsDirty(k) \/ j.code = "Get"
       \/ j.code = "Update" /\ (res.affected = 0 \/ node[k].val = NoRow)
       \/ j.code = "Replace" /\ res.affected = 0
  /\ res.code = "unknown" =>
       update_mode_ # "SYNC" \/ j.code \notin {"Insert", "Delete", "Update"}

Rewrites(k, res) ==
  LET j == job[k] IN
  \/ j.code = "Get" /\ node'[k] = [node[k] EXCEPT !.val = res.row]
  \/ /\ j.code \in {"Insert", "Update", "Replace"} /\ node'[k] = [node[k] EXCEPT !.val = j.val]
     /\ j.code = "Update" => node[k].val # NoRow /\ res.affected # 0

AnswerStep(k, res) ==
  LET j == job[k] IN
  /\ legal'[k] = Seen(k, j, res) /\ job'[k] = NoJob
  /\ k \in black_list_' => k \in black_list_ \/ node'[k] = NoNode \/ IsDirty(k)
  /\ \/ node'[k] = NoNode
     \/ node[k] # NoNode /\ node'[k] = node[k] /\ Kept(k, res)
     \/ /\ res.code = "ok" /\ j.code = "Get" /\ ~j.pass /\ node[k] = NoNode
        /\ node'[k] = Clean(res.row)
     \/ res.code = "ok" /\ node[k] # NoNode /\ Rewrites(k, res)
  /\ suspect' = IF res.code = "unknown" /\ (\/ j.code = "Replace"
                                            \/ /\ update_mode_ # "SYNC"
                                               /\ j.code \in {"Insert", "Delete"})
                THEN suspect \cup {k} ELSE suspect

LEMMA AnswerSteps ==
  ASSUME TypeOK, NEW k \in Key, NEW res \in Result, client_answer(k, res),
         job[k] \in Job, job[k].code \in DbCodes
  PROVE  AnswerStep(k, res)
<1> DEFINE j == job[k]
           Black == k \in black_list_' => k \in black_list_ \/ node'[k] = NoNode \/ IsDirty(k)
           Nodes == \/ node'[k] = NoNode
                    \/ node[k] # NoNode /\ node'[k] = node[k] /\ Kept(k, res)
                    \/ /\ res.code = "ok" /\ j.code = "Get" /\ ~j.pass /\ node[k] = NoNode
                       /\ node'[k] = Clean(res.row)
                    \/ res.code = "ok" /\ node[k] # NoNode /\ Rewrites(k, res)
<1>1. node \in [Key -> NodeOrNone] /\ legal \in [Key -> SUBSET Row] /\ job \in [Key -> Job \cup {NoJob}]
  BY DEF TypeOK, NodeOrNone
<1>2. /\ \A n : node' = [node EXCEPT ![k] = n] => node'[k] = n
      /\ node' = node => node'[k] = node[k]
  BY <1>1
<1>3. legal'[k] = Seen(k, j, res) /\ job'[k] = NoJob
  <2>1. legal' = [legal EXCEPT ![k] = Seen(k, j, res)] /\ job' = [job EXCEPT ![k] = NoJob]
    BY DEF client_answer
  <2> HIDE DEF j
  <2> QED BY <1>1, <2>1
<1>4. keep => Black /\ (node[k] = NoNode \/ Kept(k, res) => Nodes)
  BY <1>2 DEF keep
<1>5. purge(k) => Black /\ Nodes
  BY <1>2 DEF purge
<1>6. ASSUME NEW n, store(k, n, NoNode)
      PROVE  node'[k] \in {n, NoNode} /\ (k \in black_list_' => k \in black_list_ \/ node'[k] = NoNode)
  <2>1. \/ node' = [node EXCEPT ![k] = n] /\ black_list_' = black_list_
        \/ node' = [node EXCEPT ![k] = NoNode]
    BY <1>6 DEF store
  <2> QED BY <1>2, <2>1
<1>7. CASE res.code # "ok"
  <2>1. suspect' = IF res.code = "unknown" /\ (\/ j.code = "Replace"
                                               \/ /\ update_mode_ # "SYNC"
                                                  /\ j.code \in {"Insert", "Delete"})
                   THEN suspect \cup {k} ELSE suspect
    BY <1>7 DEF client_answer, deal_flush_exeption
  <2>2. purge(k) \/ (keep /\ Kept(k, res))
    BY <1>7 DEF client_answer, deal_flush_exeption, Kept
  <2>3. Black /\ Nodes
    BY <1>4, <1>5, <2>2
  <2> QED BY <1>3, <2>1, <2>3 DEF AnswerStep
<1>8. CASE res.code = "ok"
  <2>1. reply_connector_answer(k, j, res) /\ suspect' = suspect
    BY <1>8 DEF client_answer
  <2>2. res.code # "unknown"
    BY <1>8
  <2>3. SUFFICES Black /\ Nodes
    BY <1>3, <2>1, <2>2 DEF AnswerStep
  <2>4. CASE j.code = "Get"
    <3> DEFINE n == IF node[k] = NoNode THEN Clean(res.row) ELSE Rewritten(k, res.row)
    <3>1. keep \/ (~j.pass /\ store(k, n, NoNode))
      BY <2>1, <2>4 DEF reply_connector_answer, answer_get
    <3>2. Kept(k, res)
      BY <2>2, <2>4 DEF Kept
    <3>3. node[k] # NoNode /\ node'[k] = n => Rewrites(k, res)
      BY <2>4 DEF Rewrites, Rewritten
    <3>4. node[k] = NoNode => n = Clean(res.row)
      OBVIOUS
    <3> HIDE DEF n
    <3> QED BY <1>4, <1>6, <1>8, <2>4, <3>1, <3>2, <3>3, <3>4
  <2>5. CASE j.code \in {"Insert", "Update"}
    <3>1. \/ keep /\ (node[k] = NoNode \/ Kept(k, res))
          \/ purge(k)
          \/ /\ node[k] # NoNode /\ store(k, Rewritten(k, j.val), NoNode)
             /\ j.code = "Update" => node[k].val # NoRow /\ res.affected # 0
      BY <2>1, <2>2, <2>5 DEF reply_connector_answer, answer_insert, answer_update, Kept
    <3>2. ASSUME node'[k] = Rewritten(k, j.val),
                 j.code = "Update" => node[k].val # NoRow /\ res.affected # 0
          PROVE  Rewrites(k, res)
      BY <2>5, <3>2 DEF Rewrites, Rewritten
    <3> QED BY <1>4, <1>5, <1>6, <1>8, <3>1, <3>2
  <2>6. CASE j.code = "Replace"
    <3> DEFINE n == Rewritten(k, j.val)
    <3>1. \/ keep /\ (node[k] = NoNode \/ res.affected = 0)
          \/ node[k] # NoNode /\ store(k, n, IF IsDirty(k) THEN node[k] ELSE NoNode)
      BY <2>1, <2>6 DEF reply_connector_answer, answer_replace
    <3>2. node[k] # NoNode /\ node'[k] = n => Rewrites(k, res)
      BY <2>6 DEF Rewrites, Rewritten
    <3>3. IsDirty(k) \/ res.affected = 0 => Kept(k, res)
      BY <2>2, <2>6 DEF Kept
    <3> HIDE DEF n
    <3>4. CASE node[k] # NoNode /\ store(k, n, NoNode)
      BY <1>6, <1>8, <3>2, <3>4
    <3>5. CASE node[k] # NoNode /\ IsDirty(k) /\ store(k, n, node[k])
      <4>1. node'[k] \in {n, node[k]}
        BY <1>2, <3>5 DEF store
      <4> QED BY <1>8, <3>2, <3>3, <3>5, <4>1
    <3> QED BY <1>4, <3>1, <3>3, <3>4, <3>5
  <2>7. CASE j.code = "Delete"
    BY <1>5, <2>1, <2>7 DEF reply_connector_answer, answer_delete
  <2> HIDE DEF j
  <2> QED BY <2>4, <2>5, <2>6, <2>7 DEF DbCodes, j
<1> QED BY <1>7, <1>8
-----------------------------------------------------------------------------
(***************************************************************************)
(* A step of the cache seen from key q: nobody is at q, or its clean node  *)
(* is purged;                                                              *)
(***************************************************************************)
Idle(q) ==
  /\ job'[q] = job[q] /\ ret'[q] = ret[q] /\ legal'[q] = legal[q] /\ Way(q)' = Way(q)
  /\ late = {} => db'[q] = db[q]
  /\ node'[q] = node[q] \/ (~IsDirty(q) /\ node'[q] = NoNode)
  /\ q \in black_list_' => q \in black_list_

(* its dirty node is flushed in the background; *)
TimerOn(q) ==
  /\ job'[q] = job[q] /\ ret'[q] = ret[q] /\ legal'[q] = legal[q] /\ db'[q] = db[q]
  /\ IsDirty(q) /\ node'[q] = Clean(node[q].val) /\ Way(q)' = Way(q) \o flush_rows(q, FALSE)
  /\ q \in black_list_' => q \in black_list_

(* its next statement is executed, and the answer goes into the tunnel; *)
Executes(q) ==
  /\ ~use_queue
  /\ node'[q] = node[q] /\ job'[q] = job[q] /\ legal'[q] = legal[q] /\ black_list_' = black_list_
  /\ Way(q) # << >> /\ Way(q)' = Tail(Way(q))
  /\ \E res \in Result :
       /\ Outcome(q, Head(Way(q)), res)
       /\ ret'[q] = Append(ret[q], [entry |-> Head(Way(q)), res |-> res])

(* the answer to a flush request is handled, and the node may be flushed again; *)
FlushAnswered(q) ==
  /\ legal'[q] = legal[q] /\ job'[q] \in {job[q], NoJob} /\ black_list_' = black_list_
  /\ \E rows \in Seq(Entry) :
       /\ \/ rows = << >> /\ node'[q] = node[q]
          \/ rows = flush_rows(q, FALSE) /\ IsDirty(q) /\ node'[q] = Clean(node[q].val)
       /\ IF use_queue
          THEN Way(q) # << >> /\ Head(Way(q)).kind = "flush" /\ Way(q)' = Tail(Way(q)) \o rows
          ELSE /\ Way(q)' = Way(q) \o rows /\ db'[q] = db[q]
               /\ ret[q] # << >> /\ ret'[q] = Tail(ret[q]) /\ Head(ret[q]).entry.kind = "flush"
               /\ Head(ret[q]).res.code = "ok" \/ q \in suspect'

(* or the answer to the client's request is handled *)
ClientAnswered(q) ==
  /\ job[q] \in Job /\ job[q].code \in DbCodes
  /\ \E res \in Result :
       /\ AnswerStep(q, res)
       /\ IF use_queue
          THEN /\ Way(q) # << >> /\ Way(q)' = Tail(Way(q)) /\ ret'[q] = << >>
               /\ Head(Way(q)).kind = "client" /\ Outcome(q, Head(Way(q)), res)
          ELSE /\ Way(q)' = Way(q) /\ db'[q] = db[q]
               /\ ret[q] # << >> /\ ret'[q] = Tail(ret[q])
               /\ Head(ret[q]).entry.kind = "client" /\ Head(ret[q]).res = res

KeyStep(q) ==
  \/ job_ask_procedure(q) \/ Idle(q) \/ TimerOn(q)
  \/ Executes(q) \/ FlushAnswered(q) \/ ClientAnswered(q)

(* The flush timer and key q *)
LEMMA TimerKey ==
  ASSUME TypeOK, NEW D \in SUBSET dirty_keys, NEW left \in Nat, buffer_flush_data_timer(D, left),
         NEW q \in Key
  PROVE  /\ timer_rows(D)[q] \in Seq(Entry)
         /\ \/ timer_rows(D)[q] = << >> /\ node'[q] = node[q]
            \/ /\ IsDirty(q) /\ node'[q] = Clean(node[q].val)
               /\ timer_rows(D)[q] = flush_rows(q, FALSE)
<1>1. timer_rows(D)[q] \in Seq(Entry)
  BY TimerRows
<1>2. timer_rows(D)[q] = IF q \in D THEN flush_rows(q, FALSE) ELSE << >>
  BY DEF timer_rows
<1>3. IF q \in D THEN node'[q] = Clean(node[q].val) ELSE node'[q] = node[q]
  BY TimerNodes
<1>4. q \in D => IsDirty(q)
  BY DEF dirty_keys
<1> QED BY <1>1, <1>2, <1>3, <1>4

(* An answer is handled: key by key *)
LEMMA HandledKeys ==
  ASSUME TypeOK, OneRequest, FlushCounted, UNCHANGED config, NEW k \in Key, NEW e, NEW res,
         Handled(k, e, res), \A p \in Key \ {k} : db'[p] = db[p] /\ back'[p] = back[p],
         NEW q \in Key, ret'[q] = ret[q] \/ q = k,
         IF use_queue
         THEN /\ back[k] # << >> /\ back'[k] = Tail(back[k]) /\ e = Head(back[k])
              /\ Outcome(k, e, res)
         ELSE /\ ret[k] # << >> /\ ret'[k] = Tail(ret[k]) /\ back'[k] = back[k] /\ db'[k] = db[k]
              /\ e = Head(ret[k]).entry /\ res = Head(ret[k]).res
  PROVE  KeyStep(q) /\ suspect \subseteq suspect'
<1>1. /\ back[k] \in Seq(Entry) /\ chain[k] \in Seq(Entry)
      /\ node \in [Key -> NodeOrNone] /\ job \in [Key -> Job \cup {NoJob}]
  BY DEF TypeOK, NodeOrNone
<1>2. \A p \in Key : Way(p) = back[p] \o chain[p] /\ Way(p)' = back'[p] \o chain'[p]
  BY DEF Way
<1>3. use_queue => Way(k) # << >> /\ Head(Way(k)) = e /\ Tail(Way(k)) = Tail(back[k]) \o chain[k]
  <2> DEFINE b == back[k]
             c == chain[k]
  <2>1. Way(k) = b \o c /\ b \in Seq(Entry) /\ c \in Seq(Entry) /\ (use_queue => b # << >> /\ e = Head(b))
    BY <1>1, <1>2
  <2> HIDE DEF b, c
  <2>2. b # << >> => b \o c # << >> /\ Head(b \o c) = Head(b) /\ Tail(b \o c) = Tail(b) \o c
    BY <2>1, TailConcat
  <2>3. use_queue => Way(k) # << >> /\ Head(Way(k)) = e /\ Tail(Way(k)) = Tail(b) \o c
    BY <2>1, <2>2
  <2> QED BY <2>3 DEF b, c
<1>4. e \in Entry /\ e.kind \in {"client", "flush"}
  BY DEF Handled, Entry
<1>5. CASE e.kind = "client"
  <2>1. /\ client_answer(k, res) /\ res \in Result /\ job[k] \in Job /\ job[k].code \in DbCodes
        /\ \A p \in Key : chain'[p] = chain[p]
    BY <1>5, HandledClient
  <2>2. /\ \A p \in Key \ {k} : node'[p] = node[p] /\ job'[p] = job[p] /\ legal'[p] = legal[p]
        /\ black_list_' \in {black_list_, black_list_ \cup {k}}
        /\ suspect' \in {suspect, suspect \cup {k}}
    BY <2>1, ClientNodes DEF client_answer, TypeOK
  <2>3. CASE q = k
    <3>1. AnswerStep(k, res)
      BY <2>1, AnswerSteps
    <3>2. use_queue => ret'[k] = << >>
      BY DEF Handled
    <3>3. Way(k)' = IF use_queue THEN Tail(Way(k)) ELSE Way(k)
      BY <1>2, <1>3, <2>1
    <3>4. ClientAnswered(k)
      BY <1>3, <1>5, <2>1, <3>1, <3>2, <3>3 DEF ClientAnswered
    <3> QED BY <2>2, <2>3, <3>4 DEF KeyStep
  <2>4. CASE q # k
    <3>1. Way(q)' = Way(q)
      BY <1>2, <2>1, <2>4
    <3> QED BY <2>2, <2>4, <3>1 DEF KeyStep, Idle
  <2> QED BY <2>3, <2>4
<1>6. CASE e.kind = "flush"
  <2>1. /\ legal' = legal /\ black_list_' = black_list_
        /\ job' = IF e.wait THEN [job EXCEPT ![k] = NoJob] ELSE job
        /\ suspect' = IF res.code = "ok" THEN suspect ELSE suspect \cup {k}
    BY <1>6, HandledFlush
  <2>2. PICK D \in SUBSET dirty_keys :
              /\ buffer_flush_data_timer(D, Cardinality(Spots(Answered(k))))
              /\ \A p \in Key : chain'[p] = chain[p] \o timer_rows(D)[p]
    BY <1>6, HandledFlush
  <2>3. Cardinality(Spots(Answered(k))) \in Nat
    BY HandledFirst
  <2> DEFINE rows == timer_rows(D)[q]
  <2>4. /\ rows \in Seq(Entry)
        /\ \/ rows = << >> /\ node'[q] = node[q]
           \/ IsDirty(q) /\ node'[q] = Clean(node[q].val) /\ rows = flush_rows(q, FALSE)
    BY <2>2, <2>3, TimerKey
  <2>5. chain'[q] = chain[q] \o rows
    BY <2>2
  <2> HIDE DEF rows
  <2>6. /\ back[q] \in Seq(Entry) /\ chain[q] \in Seq(Entry)
        /\ use_queue => Tail(back[k]) \in Seq(Entry)
    BY TailAt DEF TypeOK
  <2>9. (back[q] \o chain[q]) \o rows = back[q] \o (chain[q] \o rows)
    BY <2>4, <2>6, ConcatThree
  <2>10. use_queue => (Tail(back[k]) \o chain[q]) \o rows = Tail(back[k]) \o (chain[q] \o rows)
    BY <2>4, <2>6, ConcatThree
  <2>7. CASE q = k
    <3>1. job'[q] \in {job[q], NoJob}
      BY <1>1, <2>1
    <3>2. ~use_queue => Way(q)' = Way(q) \o rows
      BY <1>2, <2>5, <2>7, <2>9
    <3>3. use_queue => Way(q)' = Tail(Way(q)) \o rows
      BY <1>2, <1>3, <2>5, <2>7, <2>10
    <3>4. FlushAnswered(q)
      BY <1>3, <1>6, <2>1, <2>4, <2>7, <3>1, <3>2, <3>3 DEF FlushAnswered
    <3> QED BY <2>1, <3>4 DEF KeyStep
  <2>8. CASE q # k
    <3>1. job'[q] = job[q] /\ ret'[q] = ret[q] /\ db'[q] = db[q] /\ back'[q] = back[q]
      BY <1>1, <2>1, <2>8
    <3>2. Way(q)' = Way(q) \o rows
      BY <1>2, <2>5, <2>9, <3>1
    <3>3. CASE rows = << >> /\ node'[q] = node[q]
      <4>1. Way(q)' = Way(q)
        BY <3>2, <3>3, PathParts, ConcatNothing
      <4> QED BY <2>1, <3>1, <3>3, <4>1 DEF KeyStep, Idle
    <3>4. CASE IsDirty(q) /\ node'[q] = Clean(node[q].val) /\ rows = flush_rows(q, FALSE)
      BY <2>1, <3>1, <3>2, <3>4 DEF KeyStep, TimerOn
    <3> QED BY <2>1, <2>4, <3>3, <3>4
  <2> QED BY <2>7, <2>8
<1> QED BY <1>4, <1>5, <1>6
(* Every step of a running cache, key by key *)
LEMMA KeySteps ==
  ASSUME BaseInv, Next, NEW q \in Key
  PROVE  KeyStep(q) /\ suspect \subseteq suspect'
<1>1. TypeOK /\ OneRequest /\ FlushCounted /\ UNCHANGED config
  BY DEF BaseInv, RTypeOK, Next
<1>2. node \in [Key -> NodeOrNone] /\ ret \in [Key -> Seq(Answer)] /\ back \in [Key -> Seq(Entry)]
  BY <1>1 DEF TypeOK, NodeOrNone
<1>3. ASSUME NEW k \in Key, job_ask_procedure(k) PROVE KeyStep(q) /\ suspect \subseteq suspect'
  <2>1. /\ UNCHANGED <<db, ret, black_list_, suspect>>
        /\ \A p \in Key \ {k} : /\ node'[p] = node[p] /\ job'[p] = job[p] /\ legal'[p] = legal[p]
                                /\ Way(p)' = Way(p)
    BY <1>1, <1>3, AskCases, AskPaths
  <2> QED BY <1>3, <2>1 DEF KeyStep, Idle
<1>4. ASSUME \/ chain_deliver
             \/ \E k \in Key : tunnel_deliver(k)
      PROVE  KeyStep(q) /\ suspect \subseteq suspect'
  <2>1. /\ Way(q)' = Way(q)
        /\ UNCHANGED <<node, db, job, ret, black_list_, legal, suspect>>
    BY <1>1, <1>4, DeliverPaths
  <2> QED BY <2>1 DEF KeyStep, Idle
<1>5. CASE late_execute \/ \E k \in Key : purge_clean_node(k) \/ try_expired_blacklist(k)
  <2>1. Way(q)' = Way(q) /\ UNCHANGED <<job, ret, legal, suspect>>
    BY <1>1, <1>5, RestRight
  <2>2. CASE late_execute
    BY <2>1, <2>2 DEF late_execute, KeyStep, Idle
  <2>3. ASSUME NEW k \in Key, purge_clean_node(k) PROVE KeyStep(q)
    <3>1. /\ ~IsDirty(k) /\ node' = [node EXCEPT ![k] = NoNode] /\ UNCHANGED <<db, black_list_>>
      BY <2>3 DEF purge_clean_node
    <3>2. node'[q] = node[q] \/ (~IsDirty(q) /\ node'[q] = NoNode)
      BY <1>2, <3>1
    <3> QED BY <2>1, <3>1, <3>2 DEF KeyStep, Idle
  <2>4. ASSUME NEW k \in Key, try_expired_blacklist(k) PROVE KeyStep(q)
    BY <2>1, <2>4 DEF try_expired_blacklist, KeyStep, Idle
  <2> QED BY <1>5, <2>1, <2>2, <2>3, <2>4
<1>6. CASE job_timer_procedure
  <2>1. UNCHANGED <<db, job, ret, black_list_, legal, suspect>>
    BY <1>6 DEF job_timer_procedure
  <2>2. PICK D \in SUBSET dirty_keys :
          /\ buffer_flush_data_timer(D, current_pend_flush_request_)
          /\ \A p \in Key : Adds(p, timer_rows(D)[p])
    BY <1>1, <1>6, TimerPaths
  <2>3. current_pend_flush_request_ \in Nat
    BY <1>1 DEF TypeOK
  <2>4. \/ timer_rows(D)[q] = << >> /\ node'[q] = node[q]
        \/ /\ IsDirty(q) /\ node'[q] = Clean(node[q].val)
           /\ timer_rows(D)[q] = flush_rows(q, FALSE)
    BY <1>1, <2>2, <2>3, TimerKey
  <2>5. Way(q)' = Way(q) \o timer_rows(D)[q]
    BY <2>2 DEF Adds
  <2>6. Way(q) \o << >> = Way(q)
    BY <1>1, PathParts, ConcatNothing
  <2> QED BY <2>1, <2>4, <2>5, <2>6 DEF KeyStep, Idle, TimerOn
<1>7. ASSUME NEW k \in Key, ret_deliver(k) PROVE KeyStep(q) /\ suspect \subseteq suspect'
  <2>1. /\ ret[k] # << >> /\ ~use_queue /\ ret' = [ret EXCEPT ![k] = Tail(ret[k])]
        /\ Handled(k, Head(ret[k]).entry, Head(ret[k]).res) /\ UNCHANGED <<db, back>>
    BY <1>1, <1>7, DeliverHandled
  <2>2. ret'[k] = Tail(ret[k]) /\ (ret'[q] = ret[q] \/ q = k)
    BY <1>2, <2>1
  <2> QED BY <1>1, <2>1, <2>2, HandledKeys
<1>8. ASSUME NEW k \in Key, helper_execute(k), use_queue PROVE KeyStep(q) /\ suspect \subseteq suspect'
  <2>1. PICK res \in Result : /\ Outcome(k, Head(back[k]), res) /\ Handled(k, Head(back[k]), res)
                              /\ UNCHANGED ret
    BY <1>1, <1>8, HelperHandled
  <2>2. /\ back[k] # << >> /\ back' = [back EXCEPT ![k] = Tail(back[k])]
        /\ \A p \in Key \ {k} : db'[p] = db[p]
    BY <1>1, <1>8, HelperCases
  <2>3. back'[k] = Tail(back[k]) /\ \A p \in Key \ {k} : back'[p] = back[p]
    BY <1>2, <2>2
  <2> QED BY <1>1, <1>8, <2>1, <2>2, <2>3, HandledKeys
<1>9. ASSUME NEW k \in Key, helper_execute(k), ~use_queue PROVE KeyStep(q) /\ suspect \subseteq suspect'
  <2>1. /\ Way(k) # << >> /\ Head(Way(k)) = Head(back[k]) /\ Way(k)' = Tail(Way(k))
        /\ \A p \in Key \ {k} : Way(p)' = Way(p) /\ ret'[p] = ret[p] /\ db'[p] = db[p]
        /\ UNCHANGED <<node, job, black_list_, legal, suspect>>
        /\ \E res \in Result : /\ Outcome(k, Head(back[k]), res)
                               /\ ret'[k] = Append(ret[k], [entry |-> Head(back[k]), res |-> res])
    BY <1>1, <1>9, HelperAnswers
  <2>2. CASE q = k
    BY <1>9, <2>1, <2>2 DEF KeyStep, Executes
  <2>3. CASE q # k
    BY <2>1, <2>3 DEF KeyStep, Idle
  <2> QED BY <2>1, <2>2, <2>3
<1> QED BY <1>3, <1>4, <1>5, <1>6, <1>7, <1>8, <1>9 DEF Next
LEMMA RunOrOpen ==
  ASSUME [RNext]_allvars
  PROVE  Next \/ UNCHANGED vars \/ open_init_buffer
<1>1. CASE datasource_thread
  BY <1>1 DEF datasource_thread, Next
<1>2. CASE free_all_resource \/ kill \/ UNCHANGED allvars
  BY <1>2 DEF free_all_resource, kill, allvars
<1> QED BY <1>1, <1>2 DEF RNext

(* A start keeps every node or drops them all, and finds no request *)
LEMMA OpenNodes ==
  ASSUME TypeOK, open_init_buffer, NEW q \in Key
  PROVE  node'[q] \in {node[q], NoNode}
<1>1. node' = [k \in Key |-> NoNode] \/ node' = node
  BY DEF open_init_buffer, cache_open
<1> QED BY <1>1
-----------------------------------------------------------------------------
(***************************************************************************)
(* A request for which nothing has to be written is answered by the one    *)
(* who finds this out.  buffer_flush_data relies on that a node of the     *)
(* dirty list has a dirty row; an update for which memory runs out breaks  *)
(* it (buffer_update_rows).                                                *)
(***************************************************************************)
MemoryLasts == \A c \in Config : c.update_mode_ = "ASYNC" => ~c.memory_may_run_out

Full(q) == node[q] # NoNode /\ node[q].dirty => node[q].rowdirty

LEMMA FullKey ==
  ASSUME MemoryLasts, TypeOK, NEW q \in Key, Full(q), KeyStep(q)
  PROVE  Full(q)'
<1>1. \A v : ~Clean(v).dirty /\ Dirty(v).rowdirty
  BY DEF Clean, Dirty
<1>2. node[q] # NoNode => \A v : /\ [node[q] EXCEPT !.val = v].dirty = node[q].dirty
                                 /\ [node[q] EXCEPT !.val = v].rowdirty = node[q].rowdirty
  BY SMT DEF TypeOK, Node
<1>3. update_mode_ = "ASYNC" => ~memory_may_run_out
  BY DEF MemoryLasts, TypeOK, update_mode_, memory_may_run_out
<1>4. node'[q] \in {node[q], NoNode} => Full(q)'
  BY DEF Full
<1>5. (\E v : node'[q] = Clean(v) \/ node'[q] = Dirty(v)) => Full(q)'
  BY <1>1 DEF Full
<1>6. node[q] # NoNode /\ (\E v : node'[q] = [node[q] EXCEPT !.val = v]) => Full(q)'
  BY <1>2 DEF Full
<1>7. CASE job_ask_procedure(q)
  <2>1. AskStep(q)
    BY <1>7, AskSteps
  <2> QED BY <1>3, <1>4, <1>5, <2>1 DEF AskStep, Told, Sent
<1>8. CASE Idle(q) \/ TimerOn(q) \/ Executes(q) \/ FlushAnswered(q)
  BY <1>4, <1>5, <1>8 DEF Idle, TimerOn, Executes, FlushAnswered
<1>9. CASE ClientAnswered(q)
  <2>1. PICK res \in Result : AnswerStep(q, res)
    BY <1>9 DEF ClientAnswered
  <2> QED BY <1>4, <1>5, <1>6, <2>1 DEF AnswerStep, Rewrites
<1> QED BY <1>7, <1>8, <1>9 DEF KeyStep

LEMMA OneReply ==
  ASSUME BaseInv, \A q \in Key : Full(q), Next
  PROVE  double_reply' = double_reply
<1>1. TypeOK /\ OneRequest /\ FlushCounted /\ UNCHANGED config
  BY DEF BaseInv, RTypeOK, Next
<1>2. ASSUME NEW k \in Key, job_ask_procedure(k) PROVE double_reply' = double_reply
  <2>1. AskStep(k)
    BY <1>1, <1>2, AskSteps
  <2>2. ASSUME NEW code, buffer_flush_data(k, code), IsDirty(k) PROVE double_reply' = double_reply
    <3>1. node[k] \in Node /\ node[k].rowdirty
      BY <1>1, <2>2 DEF TypeOK, IsDirty, Full
    <3>2. flush_rows(k, TRUE) # << >>
      BY <3>1, RowsOf
    <3> QED BY <2>2, <3>2 DEF buffer_flush_data
  <2> QED BY <2>1, <2>2 DEF AskStep, turn_around_job_answer, goto_next_chain
<1>3. ASSUME NEW k \in Key, NEW e, NEW res, Handled(k, e, res) PROVE double_reply' = double_reply
  BY <1>3 DEF Handled, job_answer_procedure
<1>4. ASSUME NEW k \in Key, helper_execute(k) PROVE double_reply' = double_reply
  BY <1>1, <1>3, <1>4, HelperHandled, HelperAnswers
<1>5. ASSUME NEW k \in Key, ret_deliver(k) PROVE double_reply' = double_reply
  BY <1>1, <1>3, <1>5, DeliverHandled
<1>6. CASE chain_deliver \/ job_timer_procedure \/ late_execute
  BY <1>6 DEF chain_deliver, job_timer_procedure, late_execute
<1>7. CASE \E k \in Key : tunnel_deliver(k) \/ purge_clean_node(k) \/ try_expired_blacklist(k)
  BY <1>7 DEF tunnel_deliver, purge_clean_node, try_expired_blacklist
<1> QED BY <1>2, <1>4, <1>5, <1>6, <1>7 DEF Next

(***************************************************************************)
(* Theorem: no request is answered twice ("possible double reply" of       *)
(* TaskReplyList) by a cache that writes back, as long as its updates do   *)
(* not run out of memory, or that writes through; whatever is restarted,   *)
(* in which mode, and with how many keys and requests.                     *)
(***************************************************************************)
THEOREM RepliedOnce ==
  ASSUME MemoryLasts
  PROVE  RSpec => []NoDoubleReply
<1> DEFINE Inv == (\A q \in Key : Full(q)) /\ NoDoubleReply
<1>1. RInit => Inv
  <2>1. RInit => ~double_reply /\ \A q \in Key : node[q] = NoNode
    BY DEF RInit, Init
  <2> QED BY <2>1 DEF Full, NoDoubleReply
<1>2. BaseInv /\ Inv /\ [RNext]_allvars => Inv'
  <2> SUFFICES ASSUME BaseInv, Inv, [RNext]_allvars PROVE Inv'
    OBVIOUS
  <2>1. TypeOK
    BY DEF BaseInv, RTypeOK
  <2>2. CASE Next
    <3>1. \A q \in Key : Full(q)'
      BY <2>1, <2>2, KeySteps, FullKey
    <3>2. double_reply' = double_reply
      BY <2>2, OneReply
    <3> QED BY <3>1, <3>2 DEF NoDoubleReply
  <2>3. CASE UNCHANGED vars
    BY <2>3 DEF vars, Full, NoDoubleReply
  <2>4. CASE open_init_buffer
    <3>1. double_reply' = double_reply
      BY <2>4 DEF open_init_buffer
    <3> QED BY <2>1, <2>4, <3>1, OpenNodes DEF Full, NoDoubleReply
  <2> QED BY <2>2, <2>3, <2>4, RunOrOpen
<1> QED BY <1>1, <1>2, BaseAlways, PTL DEF RSpec
-----------------------------------------------------------------------------
(***************************************************************************)
(* If every start has the same update mode.  In SYNC mode nothing is dirty *)
(* and nothing is flushed.  In ASYNC mode the database has the requests of *)
(* keys that are not cached and the Deletes; either way the node of a key  *)
(* with a request in work is clean.                                        *)
(***************************************************************************)
CleanNode(n) == n # NoNode => ~n.dirty /\ ~n.rowdirty

Modes(k) ==
  /\ node[k] # NoNode /\ node[k].rowdirty => node[k].dirty
  /\ update_mode_ = "SYNC" => CleanNode(node[k])
  /\ job[k] # NoJob => CleanNode(node[k])
  /\ job[k] # NoJob /\ job[k].code = "Get" => node[k] = NoNode
  /\ job[k] # NoJob /\ update_mode_ = "ASYNC" /\ job[k].code \in {"Insert", "Update", "Replace"}
       => node[k] = NoNode
  /\ k \in black_list_ =>
       node[k] = NoNode /\ (job[k] # NoJob /\ job[k].code = "Get" => job[k].pass)

Unused == ~memory_dirty_ /\ (update_mode_ = "SYNC" => current_pend_flush_request_ = 0)

ModeInv == Unused /\ \A k \in Key : Modes(k)

LEMMA ModeKey ==
  ASSUME TypeOK, NEW q \in Key, Modes(q), KeyStep(q), UNCHANGED config
  PROVE  Modes(q)'
<1>1. /\ update_mode_' = update_mode_ /\ update_mode_ \in {"SYNC", "ASYNC"}
      /\ node[q] # NoNode => node[q] \in Node
  BY ConfigAssumption, SMT DEF TypeOK, Configuration, update_mode_
<1>2. \A v : ~Clean(v).dirty /\ ~Clean(v).rowdirty /\ Dirty(v).dirty
  BY DEF Clean, Dirty
<1>3. node[q] # NoNode => \A v : /\ [node[q] EXCEPT !.val = v].dirty = node[q].dirty
                                 /\ [node[q] EXCEPT !.val = v].rowdirty = node[q].rowdirty
                                 /\ [node[q] EXCEPT !.dirty = TRUE].dirty
  BY <1>1, SMT DEF Node
<1>4. ASSUME node'[q] = NoNode,
             \/ job'[q] = NoJob \/ job'[q].code # "Get" \/ job'[q].pass
             \/ q \notin black_list_'
      PROVE  Modes(q)'
  BY <1>4 DEF Modes, CleanNode
<1>5. ASSUME node'[q] = node[q], job'[q] \in {job[q], NoJob}, q \in black_list_' => q \in black_list_
      PROVE  Modes(q)'
  BY <1>1, <1>5 DEF Modes
<1>6. ASSUME NEW v, node'[q] = Clean(v), q \notin black_list_',
             job'[q] = NoJob \/ job'[q].code \in {"Delete", "Purge", "Flush"}
      PROVE  Modes(q)'
  BY <1>2, <1>6 DEF Modes, CleanNode
<1>7. node[q] # NoNode => q \notin black_list_
  BY DEF Modes
<1>8. CASE job_ask_procedure(q)
  <2>1. job[q] = NoJob /\ black_list_' = black_list_ /\ job \in [Key -> Job \cup {NoJob}]
    BY <1>8, AskCases DEF TypeOK
  <2>2. CASE \E seen \in SUBSET Row : turn_around_job_answer(q, seen) /\ Told(q, seen)
    <3>1. job'[q] = NoJob
      BY <2>1, <2>2 DEF turn_around_job_answer
    <3>2. PICK seen \in SUBSET Row : Told(q, seen)
      BY <2>2
    <3>3. CASE node'[q] \in {node[q], NoNode}
      BY <1>4, <1>5, <2>1, <3>1, <3>3
    <3>4. CASE update_mode_ = "ASYNC" /\ node[q] # NoNode /\ \E v : node'[q] = Dirty(v)
      BY <1>1, <1>2, <1>7, <2>1, <3>1, <3>4 DEF Modes
    <3>5. CASE update_mode_ = "ASYNC" /\ node[q] # NoNode /\ node'[q] = [node[q] EXCEPT !.dirty = TRUE]
      BY <1>1, <1>3, <1>7, <2>1, <3>1, <3>5 DEF Modes
    <3> QED BY <3>2, <3>3, <3>4, <3>5 DEF Told
  <2>3. ASSUME NEW j \in Job, goto_next_chain(q, j, << >>), Sent(q, j) PROVE Modes(q)'
    <3>1. job'[q] = j
      BY <2>1, <2>3 DEF goto_next_chain
    <3>2. CASE j.code = "Get" /\ (q \in black_list_ => j.pass) /\ node'[q] = NoNode
      BY <1>4, <2>1, <3>1, <3>2
    <3>3. CASE /\ j.code \in {"Insert", "Update", "Replace"} /\ node'[q] = node[q]
               /\ node[q] = NoNode \/ update_mode_ = "SYNC"
      BY <1>1, <2>1, <3>1, <3>3 DEF Modes, CleanNode
    <3>4. CASE /\ j.code = "Delete" /\ node'[q] = node[q]
               /\ ~(update_mode_ = "ASYNC" /\ IsDirty(q))
      BY <1>1, <2>1, <3>1, <3>4 DEF Modes, CleanNode, IsDirty
    <3> QED BY <2>3, <3>2, <3>3, <3>4 DEF Sent
  <2>4. CASE /\ IsDirty(q) /\ node'[q] = Clean(node[q].val)
             /\ goto_next_chain(q, Delete, flush_rows(q, FALSE))
    <3>1. job'[q] = Delete /\ Delete.code = "Delete"
      BY <2>1, <2>4 DEF goto_next_chain, Delete
    <3> QED BY <1>6, <1>7, <2>1, <2>4, <3>1 DEF IsDirty
  <2>5. ASSUME NEW code \in {"Purge", "Flush"}, buffer_flush_data(q, code), IsDirty(q),
               node'[q] = Clean(node[q].val) \/ node'[q] = NoNode
        PROVE  Modes(q)'
    <3> DEFINE j == [code |-> code, val |-> NoRow, pass |-> FALSE]
    <3>1. j.code = code /\ (job' = job \/ job' = [job EXCEPT ![q] = j])
      BY <2>5 DEF buffer_flush_data
    <3> HIDE DEF j
    <3>2. job'[q] = NoJob \/ job'[q].code = code
      BY <2>1, <3>1
    <3> QED BY <1>4, <1>6, <1>7, <2>1, <2>5, <3>2 DEF IsDirty
  <2> QED BY <1>8, <2>2, <2>3, <2>4, <2>5, AskSteps DEF AskStep
<1>9. CASE Idle(q) \/ Executes(q)
  <2>1. /\ job'[q] = job[q] /\ node'[q] \in {node[q], NoNode}
        /\ q \in black_list_' => q \in black_list_
    BY <1>9 DEF Idle, Executes
  <2>2. q \in black_list_ => job'[q] = NoJob \/ job'[q].code # "Get" \/ job'[q].pass
    BY <2>1 DEF Modes
  <2> QED BY <1>4, <1>5, <2>1, <2>2
<1>10. CASE TimerOn(q) \/ FlushAnswered(q)
  <2>1. /\ job'[q] \in {job[q], NoJob} /\ (q \in black_list_' => q \in black_list_)
        /\ node'[q] = node[q] \/ (IsDirty(q) /\ node'[q] = Clean(node[q].val))
    BY <1>10 DEF TimerOn, FlushAnswered
  <2>2. CASE IsDirty(q) /\ node'[q] = Clean(node[q].val)
    <3>1. job'[q] = NoJob
      BY <2>1, <2>2 DEF Modes, CleanNode, IsDirty
    <3> QED BY <1>6, <1>7, <2>1, <2>2, <3>1 DEF IsDirty
  <2> QED BY <1>5, <2>1, <2>2
<1>11. CASE ClientAnswered(q)
  <2>1. job[q] \in Job /\ job[q] # NoJob
    BY <1>11, JobTypes DEF ClientAnswered
  <2>2. PICK res \in Result : AnswerStep(q, res)
    BY <1>11 DEF ClientAnswered
  <2>3. CleanNode(node[q]) /\ ~IsDirty(q)
    BY <2>1 DEF Modes, CleanNode, IsDirty
  <2>4. job'[q] = NoJob /\ (q \in black_list_' => q \in black_list_ \/ node'[q] = NoNode)
    BY <2>2, <2>3 DEF AnswerStep
  <2>5. CASE node'[q] = NoNode
    BY <1>4, <2>4, <2>5
  <2>6. CASE node'[q] = node[q]
    BY <1>4, <1>5, <2>4, <2>6
  <2>7. CASE job[q].code = "Get" /\ ~job[q].pass /\ node'[q] = Clean(res.row)
    <3>1. q \notin black_list_
      BY <2>1, <2>7 DEF Modes
    <3> QED BY <1>2, <1>4, <1>6, <2>4, <2>7, <3>1
  <2>8. ASSUME node[q] # NoNode, NEW v, node'[q] = [node[q] EXCEPT !.val = v] PROVE Modes(q)'
    <3>1. ~node'[q].dirty /\ ~node'[q].rowdirty
      BY <1>3, <2>3, <2>8 DEF CleanNode
    <3>2. q \in black_list_' => node'[q] = NoNode
      BY <1>7, <2>4, <2>8
    <3> QED BY <2>4, <3>1, <3>2 DEF Modes, CleanNode
  <2> QED BY <2>2, <2>5, <2>6, <2>7, <2>8 DEF AnswerStep, Rewrites
<1> QED BY <1>8, <1>9, <1>10, <1>11 DEF KeyStep
(* A SYNC cache has nothing to flush *)
LEMMA UnusedNext ==
  ASSUME BaseInv, ModeInv, Next
  PROVE  Unused'
<1>1. /\ TypeOK /\ OneRequest /\ FlushCounted /\ UNCHANGED config /\ update_mode_' = update_mode_
      /\ current_pend_flush_request_ \in Nat
  BY DEF BaseInv, RTypeOK, Next, update_mode_, TypeOK
<1>2. ~memory_dirty_ /\ (update_mode_ = "SYNC" => current_pend_flush_request_ = 0)
  BY DEF ModeInv, Unused
<1>3. ASSUME memory_dirty_' \in {memory_dirty_, FALSE},
             update_mode_ = "SYNC" => current_pend_flush_request_' = current_pend_flush_request_
      PROVE  Unused'
  <2>1. memory_dirty_ = FALSE
    BY <1>1, <1>2 DEF TypeOK
  <2>2. memory_dirty_' = FALSE
    BY <1>3, <2>1
  <2>3. ~memory_dirty_'
    BY <2>2
  <2> QED BY <1>1, <1>2, <1>3, <2>3 DEF Unused
<1>4. ASSUME NEW k \in Key, job_ask_procedure(k) PROVE Unused'
  <2>1. memory_dirty_' = memory_dirty_ /\ AskStep(k)
    BY <1>1, <1>4, AskCases, AskSteps
  <2>2. Len(<< >>) = 0 /\ current_pend_flush_request_ + 0 = current_pend_flush_request_
    BY <1>1, SMT
  <2>3. update_mode_ = "SYNC" => current_pend_flush_request_' = current_pend_flush_request_
    BY <2>1, <2>2 DEF AskStep, turn_around_job_answer, goto_next_chain
  <2> QED BY <1>3, <2>1, <2>3
<1>5. ASSUME NEW k \in Key, NEW e, NEW res, Handled(k, e, res) PROVE Unused'
  <2>1. CASE e.kind = "client"
    <3>1. UNCHANGED <<memory_dirty_, current_pend_flush_request_>>
      BY <1>1, <1>5, <2>1, HandledClient DEF client_answer
    <3> QED BY <1>3, <3>1
  <2>2. CASE e.kind = "flush"
    <3>1. memory_dirty_' \in {memory_dirty_, FALSE}
      BY <1>1, <1>5, <2>2, HandledFlush
    <3>2. Cardinality(Spots(Answered(k))) \in Nat
          /\ current_pend_flush_request_ = Cardinality(Spots(Answered(k))) + 1
      BY <1>1, <1>5, <2>2, HandledFirst
    <3>3. current_pend_flush_request_ # 0
      BY <3>2, SMT
    <3> QED BY <1>2, <1>3, <3>1, <3>3
  <2> QED BY <1>5, <2>1, <2>2 DEF Handled, Entry
<1>6. ASSUME NEW k \in Key, helper_execute(k) PROVE Unused'
  <2>1. ~use_queue => UNCHANGED <<memory_dirty_, current_pend_flush_request_>>
    BY <1>1, <1>6, HelperAnswers
  <2>2. use_queue => \E res : Handled(k, Head(back[k]), res)
    BY <1>1, <1>6, HelperHandled
  <2> QED BY <1>3, <1>5, <2>1, <2>2
<1>7. ASSUME NEW k \in Key, ret_deliver(k) PROVE Unused'
  BY <1>1, <1>5, <1>7, DeliverHandled
<1>8. CASE job_timer_procedure
  BY <1>1, <1>2, <1>3, <1>8, TimerPaths
<1>9. ASSUME \/ chain_deliver \/ late_execute
             \/ \E k \in Key : tunnel_deliver(k) \/ purge_clean_node(k) \/ try_expired_blacklist(k)
      PROVE  Unused'
  <2>1. UNCHANGED <<memory_dirty_, current_pend_flush_request_>>
    BY <1>9 DEF chain_deliver, late_execute, tunnel_deliver, purge_clean_node, try_expired_blacklist
  <2> QED BY <1>3, <2>1
<1> QED BY <1>4, <1>6, <1>7, <1>8, <1>9 DEF Next

(* A start in the same mode *)
LEMMA ModeOpen ==
  ASSUME BaseInv, ModeInv, open_init_buffer, ~mode_changes
  PROVE  ModeInv' /\ update_mode_' = update_mode_
<1>1. TypeOK /\ OneRequest
  BY DEF BaseInv, RTypeOK
<1>2. /\ \A q \in Key : job'[q] = NoJob
      /\ current_pend_flush_request_' = 0 /\ black_list_' = {}
  BY <1>1, OpenPaths
<1>3. update_mode_' = update_mode_
  BY DEF open_init_buffer, update_mode_
<1>4. \A q \in Key : node'[q] \in {node[q], NoNode}
  BY <1>1, OpenNodes
<1>5. ASSUME NEW q \in Key PROVE Modes(q)' /\ (update_mode_ = "SYNC" => CleanNode(node'[q]))
  <2>1. Modes(q)
    BY DEF ModeInv
  <2> QED BY <1>2, <1>3, <1>4, <2>1 DEF Modes, CleanNode
<1>6. ~memory_dirty_'
  BY <1>3, <1>5 DEF open_init_buffer, CleanNode, update_mode_
<1> QED BY <1>2, <1>3, <1>5, <1>6 DEF ModeInv, Unused

LEMMA ModeNext ==
  ASSUME ~mode_changes
  PROVE  BaseInv /\ ModeInv /\ [RNext]_allvars => ModeInv'
<1> SUFFICES ASSUME BaseInv, ModeInv, [RNext]_allvars PROVE ModeInv'
  OBVIOUS
<1>1. CASE Next
  <2>1. TypeOK /\ UNCHANGED config
    BY <1>1 DEF BaseInv, RTypeOK, Next
  <2>2. \A q \in Key : Modes(q)'
    BY <1>1, <2>1, KeySteps, ModeKey DEF ModeInv
  <2>3. Unused'
    BY <1>1, UnusedNext
  <2> QED BY <2>2, <2>3 DEF ModeInv
<1>2. CASE UNCHANGED vars
  <2>1. UNCHANGED <<config, node, job, black_list_, memory_dirty_, current_pend_flush_request_>>
    BY <1>2 DEF vars
  <2> QED BY <2>1 DEF ModeInv, Unused, Modes, update_mode_
<1>3. CASE open_init_buffer
  BY <1>3, ModeOpen
<1> QED BY <1>1, <1>2, <1>3, RunOrOpen

LEMMA ModeAlways ==
  ASSUME ~mode_changes
  PROVE  RSpec => [](BaseInv /\ ModeInv)
<1>1. RInit => ModeInv
  <2> SUFFICES ASSUME RInit PROVE ModeInv
    OBVIOUS
  <2>1. /\ ~memory_dirty_ /\ current_pend_flush_request_ = 0 /\ black_list_ = {}
        /\ \A k \in Key : node[k] = NoNode /\ job[k] = NoJob
    BY DEF RInit, Init
  <2> QED BY <2>1 DEF ModeInv, Unused, Modes, CleanNode
<1> QED BY <1>1, ModeNext, BaseAlways, PTL DEF RSpec

(***************************************************************************)
(* Theorem: a key of the black list is not in the cache ("in theory a node *)
(* of the black list cannot be in the cache"), whatever is requested or    *)
(* restarted, if the mode stays.                                           *)
(***************************************************************************)
THEOREM BlackListedNotCached ==
  ASSUME ~mode_changes
  PROVE  RSpec => []BlackListedIsNotCached
<1>1. BaseInv /\ ModeInv => BlackListedIsNotCached
  BY DEF BaseInv, RTypeOK, TypeOK, ModeInv, Modes, BlackListedIsNotCached
<1> QED BY <1>1, ModeAlways, PTL
-----------------------------------------------------------------------------
(***************************************************************************)
(* A node's dirty row behind the other requests of its key: it is what     *)
(* will be in the database.                                                *)
(***************************************************************************)
LEMMA LastFlush ==
  ASSUME NEW s \in Seq(Entry), NEW k \in Key, node[k] \in Node, node[k].rowdirty, NEW w \in BOOLEAN,
         NEW row
  PROVE  LET t == s \o flush_rows(k, w) IN
         /\ t \in Seq(Entry) /\ flush_rows(k, w) \in Seq(Entry)
         /\ Flushes(t) # {} /\ Settled(t, row) = node[k].val
         /\ Flushes(t \o <<Client>>) # {} /\ Settled(t \o <<Client>>, row) = node[k].val
<1> DEFINE e == FlushRow(node[k].val, w)
           t == s \o <<e>>
<1>1. e \in Entry /\ e.kind = "flush" /\ e.val = node[k].val
  BY FlushEntry, NodeTypes
<1>2. flush_rows(k, w) = <<e>> /\ flush_rows(k, w) \in Seq(Entry)
  BY RowsOf DEF flush_rows
<1> HIDE DEF e
<1>3. t = Append(s, e) /\ t \in Seq(Entry) /\ Len(s) \in Nat
  BY <1>1, SMT
<1>4. Flushes(t) = Flushes(s) \cup {Len(s) + 1} /\ Settled(t, row) = node[k].val
  BY <1>1, <1>3, SettledAppend
<1>5. Flushes(t) # {}
  BY <1>4
<1> HIDE DEF t
<1>6. t \o <<Client>> = Append(t, Client)
  BY <1>3, ClientEntry, SMT
<1>7. Client.kind # "flush"
  BY ClientEntry
<1>8. Flushes(Append(t, Client)) = Flushes(t) /\ Settled(Append(t, Client), row) = Settled(t, row)
  BY <1>3, <1>7, ClientEntry, SettledAppend
<1> QED BY <1>2, <1>3, <1>4, <1>5, <1>6, <1>8 DEF t

LEMMA RowsNext ==
  ASSUME NEW q \in Key
  PROVE  Unflushed(q)' = Flushes(Way(q)') /\ Latest(q)' = Settled(Way(q)', db'[q])
BY DEF Unflushed, Latest, Settled, Flushes

LEMMA StillRowdirty ==
  \A n \in Node : [n EXCEPT !.dirty = TRUE].rowdirty = n.rowdirty
BY SMT DEF Node

Flushed(q) == Unflushed(q)' # {} /\ Latest(q)' = node[q].val

LEMMA DirtyKey ==
  ASSUME BaseInv, ModeInv, Next, NEW q \in Key, node[q] # NoNode, node[q].rowdirty
  PROVE  (node'[q] # NoNode /\ node'[q].rowdirty) \/ Flushed(q)
<1> DEFINE Goal == (node'[q] # NoNode /\ node'[q].rowdirty) \/ Flushed(q)
<1>1. /\ TypeOK /\ TypeOK' /\ OneRequest /\ UNCHANGED config
      /\ node[q] \in Node /\ update_mode_ \in {"SYNC", "ASYNC"}
  <2>1. TypeOK /\ TypeOK' /\ OneRequest /\ UNCHANGED config
    BY StepRight DEF BaseInv, RTypeOK, Next
  <2>2. node[q] \in Node
    BY <2>1 DEF TypeOK
  <2>3. update_mode_ \in {"SYNC", "ASYNC"}
    BY <2>1, ConfigAssumption, SMT DEF TypeOK, Configuration, update_mode_
  <2> QED BY <2>1, <2>2, <2>3
<1>2. Modes(q) /\ IsDirty(q) /\ update_mode_ = "ASYNC" /\ job[q] = NoJob /\ q \notin black_list_
  BY <1>1 DEF ModeInv, Modes, CleanNode, IsDirty
<1>3. node'[q] = node[q] => Goal
  OBVIOUS
<1>4. ASSUME NEW s \in Seq(Entry), NEW w \in BOOLEAN,
             \/ Way(q)' = s \o flush_rows(q, w)
             \/ Way(q)' = (s \o flush_rows(q, w)) \o <<Client>>
      PROVE  Goal
  <2>1. Unflushed(q)' = Flushes(Way(q)') /\ Latest(q)' = Settled(Way(q)', db'[q])
    BY RowsNext
  <2> DEFINE r == flush_rows(q, w)
  <2>2. node[q] \in Node /\ node[q].rowdirty
    BY <1>1
  <2>3. /\ Flushes(s \o r) # {} /\ Settled(s \o r, db'[q]) = node[q].val
        /\ Flushes((s \o r) \o <<Client>>) # {}
        /\ Settled((s \o r) \o <<Client>>, db'[q]) = node[q].val
    BY <2>2, LastFlush, SMT
  <2>4. Way(q)' = s \o r \/ Way(q)' = (s \o r) \o <<Client>>
    BY <1>4
  <2> HIDE DEF r
  <2>5. Unflushed(q)' # {} /\ Latest(q)' = node[q].val
    BY <2>1, <2>3, <2>4
  <2> QED BY <2>5 DEF Flushed
<1>5. /\ Way(q) \in Seq(Entry) /\ chain[q] \in Seq(Entry) /\ back[q] \in Seq(Entry)
      /\ <<Client>> \in Seq(Entry) /\ flush_rows(q, FALSE) \in Seq(Entry)
      /\ flush_rows(q, TRUE) \in Seq(Entry)
  BY <1>1, PathParts, ClientEntry, RowsOf
<1>6. CASE job_ask_procedure(q)
  <2>1. AskStep(q) /\ UNCHANGED ret
    BY <1>1, <1>6, AskSteps, AskCases
  <2>2. ASSUME NEW seen, Told(q, seen) PROVE Goal
    <3>1. \A v \in Value : Dirty(v) # NoNode /\ Dirty(v).rowdirty
      BY NodeTypes DEF Dirty
    <3> DEFINE n == [node[q] EXCEPT !.dirty = TRUE]
    <3>2. n # NoNode /\ n.rowdirty = node[q].rowdirty
      <4>1. n \in Node
        BY <1>1, NodeTypes
      <4>2. n.rowdirty = node[q].rowdirty
        BY <1>1, StillRowdirty
      <4> QED BY <4>1, <4>2, NodeTypes
    <3> HIDE DEF n
    <3>3. node'[q] = n => Goal
      BY <3>2
    <3> QED BY <1>2, <1>3, <2>2, <3>1, <3>3 DEF Told, n
  <2>3. ASSUME NEW j, Sent(q, j) PROVE Goal
    BY <1>2, <1>3, <2>3 DEF Sent
  <2>4. CASE goto_next_chain(q, Delete, flush_rows(q, FALSE))
    <3> DEFINE r == flush_rows(q, FALSE)
    <3>1. SentOn(q, r)
      BY <1>1, <1>5, <2>1, <2>4, SendsPaths
    <3> DEFINE b == back[q] \o <<Client>>
               s == b \o chain[q]
    <3>2. b \in Seq(Entry) /\ r \in Seq(Entry) /\ chain[q] \in Seq(Entry)
      BY <1>5, ConcatAt
    <3>3. Way(q)' = b \o (chain[q] \o r) \/ Way(q)' = (Way(q) \o r) \o <<Client>>
      BY <3>1 DEF SentOn
    <3> HIDE DEF b, r
    <3>4. s \o r = b \o (chain[q] \o r)
      BY <3>2, ConcatThree
    <3>5. Way(q)' = s \o r \/ Way(q)' = (Way(q) \o r) \o <<Client>>
      BY <3>3, <3>4
    <3>6. s \in Seq(Entry)
      BY <1>5, <3>2, ConcatAt
    <3> HIDE DEF s
    <3> QED BY <1>4, <1>5, <3>5, <3>6 DEF r
  <2>5. ASSUME NEW code, buffer_flush_data(q, code) PROVE Goal
    <3> DEFINE r == flush_rows(q, TRUE)
    <3>1. chain' = [chain EXCEPT ![q] = chain[q] \o r] /\ back' = back /\ r \in Seq(Entry)
      BY <1>5, <2>5 DEF buffer_flush_data
    <3> HIDE DEF r
    <3>2. chain'[q] = chain[q] \o r /\ back'[q] = back[q] /\ ret'[q] = ret[q]
      BY <1>1, <2>1, <3>1 DEF TypeOK
    <3>3. Way(q)' = Way(q) \o r
      BY <1>1, <3>1, <3>2, AddsRows DEF Adds
    <3> QED BY <1>4, <1>5, <3>3 DEF r
  <2> QED BY <2>1, <2>2, <2>3, <2>4, <2>5 DEF AskStep
<1>7. CASE Idle(q) \/ TimerOn(q) \/ Executes(q)
  BY <1>2, <1>3, <1>4, <1>5, <1>7 DEF Idle, TimerOn, Executes
<1>8. CASE FlushAnswered(q)
  <2>1. use_queue /\ Way(q) # << >> => Tail(Way(q)) \in Seq(Entry)
    BY <1>5, TailAt
  <2> QED BY <1>3, <1>4, <1>5, <1>8, <2>1 DEF FlushAnswered
<1>9. CASE ClientAnswered(q)
  BY <1>2, <1>9, JobTypes DEF ClientAnswered
<1> QED BY <1>6, <1>7, <1>8, <1>9, KeySteps DEF KeyStep

(* The mark of the memory: a dtcd that used it was killed unless the mark says, or will *)
(* say, that none was.                                                                  *)
MarkInv ==
  /\ ~need_set_integrity => killed
  /\ state = "killed" => killed
  /\ state = "stopping" /\ ~m_shmIntegrity => killed

LEMMA MarkNext ==
  ASSUME RTypeOK, MarkInv, [RNext]_allvars
  PROVE  MarkInv'
<1>1. /\ state \in {"up", "stopping", "killed"} /\ m_shmIntegrity \in BOOLEAN
      /\ need_set_integrity \in BOOLEAN /\ killed \in BOOLEAN
  BY DEF RTypeOK
<1>2. CASE UNCHANGED process
  BY <1>2 DEF process, MarkInv
<1>3. CASE free_all_resource
  BY <1>1, <1>3 DEF free_all_resource, MarkInv
<1>4. CASE kill
  BY <1>4 DEF kill, MarkInv
<1>5. CASE open_init_buffer
  <2>1. PICK a \in AutoDelete : cache_open(a)
    BY <1>5 DEF open_init_buffer
  <2>2. state' = "up" /\ state # "up"
    BY <1>5 DEF open_init_buffer
  <2>3. need_set_integrity' = (m_shmIntegrity \/ a)
    BY <2>1 DEF cache_open
  <2>4. ~(~m_shmIntegrity /\ a) => killed' = killed
    BY <2>1 DEF cache_open
  <2>5. ~need_set_integrity' => ~m_shmIntegrity /\ ~a
    BY <2>3
  <2>6. ~m_shmIntegrity => killed = TRUE
    BY <1>1, <2>2 DEF MarkInv
  <2>7. ~need_set_integrity' => killed' = TRUE
    BY <2>4, <2>5, <2>6
  <2> QED BY <2>2, <2>7 DEF MarkInv
<1> QED BY <1>2, <1>3, <1>4, <1>5 DEF RNext, datasource_thread, allvars

(* A start that deletes memory *)
LEMMA DirtyOpen ==
  ASSUME RTypeOK, MarkInv, open_init_buffer, NEW q \in Key, node'[q] # node[q]
  PROVE  killed /\ state # "up"
<1>1. state # "up" /\ state \in {"up", "stopping", "killed"}
  BY DEF open_init_buffer, RTypeOK
<1>2. ~m_shmIntegrity
  BY DEF open_init_buffer, cache_open
<1> QED BY <1>1, <1>2 DEF MarkInv

(***************************************************************************)
(* Theorem: no request, eviction, flush or restart loses a dirty row, if   *)
(* the mode stays.  It leaves the cache as a flush request of its value,   *)
(* behind all earlier ones of its key, or with memory that a killed dtcd   *)
(* left to one that deletes it.                                            *)
(***************************************************************************)
THEOREM DirtyRowsFlushed ==
  ASSUME ~mode_changes
  PROVE  RSpec => DirtyRowFlushed
<1> DEFINE Step == \A k \in Key :
                     node[k] # NoNode /\ node[k].rowdirty
                       => \/ node'[k] # NoNode /\ node'[k].rowdirty
                          \/ Unflushed(k)' # {} /\ Latest(k)' = node[k].val
                          \/ killed /\ state # "up"
<1>1. RInit => MarkInv
  BY DEF RInit, MarkInv
<1>2. BaseInv /\ MarkInv /\ [RNext]_allvars => MarkInv'
  BY MarkNext DEF BaseInv
<1>3. BaseInv /\ ModeInv /\ MarkInv /\ [RNext]_allvars => [Step]_allvars
  <2> SUFFICES ASSUME BaseInv, ModeInv, MarkInv, [RNext]_allvars, NEW k \in Key,
                      node[k] # NoNode, node[k].rowdirty
               PROVE  \/ node'[k] # NoNode /\ node'[k].rowdirty
                      \/ Unflushed(k)' # {} /\ Latest(k)' = node[k].val
                      \/ killed /\ state # "up"
    OBVIOUS
  <2>1. CASE Next
    BY <2>1, DirtyKey DEF Flushed
  <2>2. CASE UNCHANGED vars
    BY <2>2 DEF vars
  <2>3. CASE open_init_buffer
    BY <2>3, DirtyOpen DEF BaseInv
  <2> QED BY <2>1, <2>2, <2>3, RunOrOpen
<1>4. [][Step]_allvars => DirtyRowFlushed
  BY PTL DEF DirtyRowFlushed
<1> QED BY <1>1, <1>2, <1>3, <1>4, ModeAlways, PTL DEF RSpec
-----------------------------------------------------------------------------
(***************************************************************************)
(* Where a client's request is in the queue of its key.                    *)
(***************************************************************************)
NoClient(s) == \A i \in DOMAIN s : s[i].kind # "client"
ClientEnds(s) == \A i \in DOMAIN s : s[i].kind = "client" => i = Len(s)

LEMMA ClientPlaces ==
  ASSUME NEW s \in Seq(Entry), NEW t \in Seq(Entry)
  PROVE  /\ NoEnd(s) => NoClient(s)
         /\ NoClient(s) => ClientEnds(s)
         /\ NoClient(s) /\ NoClient(t) => NoClient(s \o t)
         /\ NoClient(s \o t) => NoClient(s) /\ NoClient(t)
         /\ NoClient(s) => ClientEnds(s \o <<Client>>)
         /\ s # << >> /\ ClientEnds(s) =>
              /\ ClientEnds(Tail(s))
              /\ Head(s).kind = "client" => Tail(s) = << >> /\ Flushes(s) = {}
<1>1. NoEnd(s) => NoClient(s)
  BY DEF NoEnd, NoClient, Ends
<1>2. NoClient(s) => ClientEnds(s)
  BY DEF NoClient, ClientEnds
<1>3. NoClient(s) /\ NoClient(t) <=> NoClient(s \o t)
  <2> DEFINE c == s \o t
             M == Len(s)
  <2>1. /\ M \in Nat /\ Len(t) \in Nat /\ DOMAIN s = 1 .. M /\ DOMAIN t = 1 .. Len(t)
        /\ DOMAIN c = 1 .. M + Len(t)
        /\ \A i \in 1 .. M : c[i] = s[i]
        /\ \A i \in 1 .. Len(t) : c[M + i] = t[i]
        /\ \A i \in DOMAIN c : i \in 1 .. M \/ i - M \in 1 .. Len(t)
        /\ \A i \in DOMAIN c : i \notin 1 .. M => c[i] = t[i - M]
    BY ConcatAt, SMT
  <2> HIDE DEF c, M
  <2>2. /\ \A i \in DOMAIN s : i \in DOMAIN c /\ c[i] = s[i]
        /\ \A i \in DOMAIN t : M + i \in DOMAIN c /\ c[M + i] = t[i]
        /\ \A i \in DOMAIN c : \/ i \in DOMAIN s /\ c[i] = s[i]
                               \/ i - M \in DOMAIN t /\ c[i] = t[i - M]
    BY <2>1, SMT
  <2>3. ASSUME NoClient(s), NoClient(t) PROVE NoClient(c)
    BY <2>2, <2>3 DEF NoClient
  <2>4. ASSUME NoClient(c) PROVE NoClient(s) /\ NoClient(t)
    BY <2>2, <2>4 DEF NoClient
  <2> QED BY <2>3, <2>4 DEF c
<1>4. NoClient(s) => ClientEnds(s \o <<Client>>)
  BY ClientEntry, SMT DEF NoClient, ClientEnds
<1>5. ASSUME s # << >>, ClientEnds(s)
      PROVE  /\ ClientEnds(Tail(s))
             /\ Head(s).kind = "client" => Tail(s) = << >> /\ Flushes(s) = {}
  <2>1. ClientEnds(Tail(s))
    BY <1>5, SMT DEF ClientEnds
  <2>2. ASSUME Head(s).kind = "client" PROVE Tail(s) = << >> /\ Flushes(s) = {}
    <3>1. Head(s) = s[1] /\ 1 \in DOMAIN s /\ Tail(s) \in Seq(Entry) /\ Len(Tail(s)) = Len(s) - 1
      BY <1>5, TailAt, SMT
    <3>2. Len(s) = 1
      BY <1>5, <2>2, <3>1 DEF ClientEnds
    <3> DEFINE u == Tail(s)
    <3>3. u \in Seq(Entry) /\ Len(u) = 0
      BY <3>1, <3>2, SMT
    <3> HIDE DEF u
    <3>4. u = << >>
      BY <3>3, SMT
    <3>5. Tail(s) = << >>
      BY <3>4 DEF u
    <3>6. s[1].kind # "flush" /\ DOMAIN s = {1}
      BY <2>2, <3>1, <3>2, SMT
    <3> QED BY <3>5, <3>6 DEF Flushes
  <2> QED BY <2>1, <2>2
<1> QED BY <1>1, <1>2, <1>3, <1>4, <1>5

(* A flush request is none of a client. *)
LEMMA RowsNoClient ==
  ASSUME NEW k \in Key, node[k] \in Node, NEW w \in BOOLEAN
  PROVE  NoClient(flush_rows(k, w))
<1>1. FlushRow(node[k].val, w).kind # "client"
  BY DEF FlushRow
<1>2. NoClient(<<FlushRow(node[k].val, w)>>) /\ NoClient(<< >>)
  BY <1>1, SMT DEF NoClient
<1> QED BY <1>2 DEF flush_rows

(* A SYNC cache has at most the client's request under way. *)
LEMMA SyncWay ==
  ASSUME BaseInv, Unused, update_mode_ = "SYNC", NEW k \in Key
  PROVE  /\ Flushes(Path(k)) = {} /\ Flushes(Way(k)) = {} /\ ClientEnds(Way(k))
         /\ job[k] = NoJob => Way(k) = << >>
<1>1. TypeOK /\ OneRequest /\ FlushCounted /\ current_pend_flush_request_ = 0
  BY DEF BaseInv, RTypeOK, Unused
<1>2. PathsOK /\ paths \in [Key -> Seq(Entry)] /\ Cardinality(Spots(paths)) = 0
  BY <1>1, PathsNow DEF PathsOK
<1>3. IsFiniteSet(Spots(paths)) /\ Spots(paths) = {}
  BY <1>2, SpotsOf, FS_EmptySet
<1>4. Flushes(Path(k)) = {}
  BY <1>2, <1>3, SpotsOf DEF PathsOK
<1> DEFINE s == Path(k)
           r == Entries(ret[k])
           w == Way(k)
<1>5. s = r \o w /\ s \in Seq(Entry) /\ r \in Seq(Entry) /\ w \in Seq(Entry)
  BY <1>1, PathParts
<1>6. Single(s) /\ Belongs(s, job[k])
  BY <1>1 DEF OneRequest
<1> HIDE DEF s, r, w
<1>7. Flushes(w) = {}
  BY <1>4, <1>5, ConcatFlushes DEF s
<1>8. Single(w) /\ Belongs(w, job[k])
  BY <1>5, <1>6, ConcatEnds
<1>9. \A i \in DOMAIN w : w[i].kind = "client"
  <2>1. \A i \in DOMAIN w : w[i] \in Entry
    BY <1>5, SMT
  <2>2. \A i \in DOMAIN w : w[i].kind \in {"client", "flush"}
    BY <2>1 DEF Entry
  <2> QED BY <1>7, <2>2 DEF Flushes
<1>10. \A i, j \in DOMAIN w : i = j
  BY <1>8, <1>9 DEF Single, Ends
<1>11. ClientEnds(w)
  BY <1>5, <1>10, SMT DEF ClientEnds
<1>12. ASSUME job[k] = NoJob PROVE w = << >>
  <2>1. NoEnd(w)
    BY <1>8, <1>12, NobodyEnds
  <2>2. DOMAIN w = {}
    BY <1>9, <2>1 DEF NoEnd, Ends
  <2> QED BY <1>5, <2>2, SMT
<1> QED BY <1>4, <1>7, <1>11, <1>12 DEF s, w
-----------------------------------------------------------------------------
(***************************************************************************)
(* A write-back cache in the same thread as its connector hands over a     *)
(* client's request before the flush requests that were made earlier       *)
(* (goto_next_chain).  Without such a cache, in whatever configuration     *)
(* dtcd is started, a client's request is behind all flush requests of its *)
(* key.                                                                    *)
(***************************************************************************)
Queueless == \A c \in Config : c.update_mode_ = "ASYNC" => ~c.use_queue

ClientLast(k) == ClientEnds(Way(k))

LEMMA SyncLast ==
  ASSUME NEW k \in Key
  PROVE  BaseInv /\ Unused /\ update_mode_ = "SYNC" => ClientLast(k)
BY SyncWay DEF ClientLast

LEMMA SyncLastNext ==
  ASSUME NEW k \in Key
  PROVE  BaseInv' /\ Unused' /\ (update_mode_ = "SYNC")' => ClientLast(k)'
<1>1. BaseInv /\ Unused /\ update_mode_ = "SYNC" => ClientLast(k)
  BY SyncLast
<1> QED BY <1>1, PTL

LEMMA LastKey ==
  ASSUME Queueless, BaseInv, BaseInv', ModeInv, Unused', Next, NEW q \in Key, ClientLast(q)
  PROVE  ClientLast(q)'
<1>1. /\ TypeOK /\ TypeOK' /\ OneRequest /\ UNCHANGED config
      /\ node[q] # NoNode => node[q] \in Node
  BY DEF BaseInv, RTypeOK, Next, TypeOK
<1>2. update_mode_ \in {"SYNC", "ASYNC"} /\ (update_mode_ = "ASYNC" => ~use_queue)
  BY <1>1, ConfigAssumption, SMT DEF TypeOK, Configuration, update_mode_, Queueless, use_queue
<1>3. ClientLast(q)' <=> ClientEnds(Way(q)')
  BY DEF ClientLast, ClientEnds
<1>4. CASE update_mode_ = "SYNC"
  <2>1. (update_mode_ = "SYNC")'
    BY <1>1, <1>4 DEF update_mode_
  <2> QED BY <2>1, SyncLastNext
<1>5. CASE update_mode_ = "ASYNC"
  <2> DEFINE w == Way(q)
  <2>1. /\ w \in Seq(Entry) /\ ClientEnds(w) /\ ~use_queue
        /\ w # << >> => Tail(w) \in Seq(Entry)
    BY <1>1, <1>2, <1>5, PathParts, TailAt DEF ClientLast
  <2>2. job[q] = NoJob => NoClient(w)
    <3>1. Belongs(Path(q), job[q]) /\ Path(q) = Entries(ret[q]) \o w /\ Entries(ret[q]) \in Seq(Entry)
      BY <1>1, PathParts DEF OneRequest
    <3>2. Belongs(w, job[q])
      BY <2>1, <3>1, ConcatEnds
    <3> QED BY <2>1, <3>2, NobodyEnds, ClientPlaces
  <2> HIDE DEF w
  <2>3. ASSUME Way(q)' = w \/ (w # << >> /\ Way(q)' = Tail(w)) PROVE ClientEnds(Way(q)')
    BY <2>1, <2>3, ClientPlaces
  <2>4. ASSUME NEW rows \in Seq(Entry), job[q] = NoJob, NoClient(rows)
        PROVE  w \o rows \in Seq(Entry) /\ NoClient(w \o rows) /\ ClientEnds(w \o rows)
               /\ ClientEnds((w \o rows) \o <<Client>>)
    <3>1. w \o rows \in Seq(Entry)
      BY <2>1, ConcatAt
    <3>2. NoClient(w \o rows)
      BY <2>1, <2>2, <2>4, ClientPlaces
    <3> QED BY <3>1, <3>2, ClientPlaces
  <2>5. ASSUME IsDirty(q), NEW f \in BOOLEAN
        PROVE  flush_rows(q, f) \in Seq(Entry) /\ NoClient(flush_rows(q, f))
    BY <1>1, <2>5, RowsOf, RowsNoClient DEF IsDirty
  <2>6. << >> \in Seq(Entry) /\ NoClient(<< >>) /\ w \o << >> = w
    BY <2>1, EmptyQueue, ConcatNothing, ClientPlaces
  <2>7. IsDirty(q) => job[q] = NoJob
    BY DEF ModeInv, Modes, CleanNode, IsDirty
  <2>8. CASE job_ask_procedure(q)
    <3>1. AskStep(q) /\ UNCHANGED ret /\ job[q] = NoJob /\ (Answers(q) => Way(q)' = w)
      BY <1>1, <2>8, AskSteps, AskCases, AskPaths DEF w
    <3>2. ASSUME NEW j, NEW rows \in Seq(Entry), NoClient(rows), goto_next_chain(q, j, rows)
          PROVE  ClientEnds(Way(q)')
      <4>1. Way(q)' = (w \o rows) \o <<Client>>
        BY <1>1, <2>1, <3>1, <3>2, SendsPaths DEF SentOn, w
      <4> QED BY <2>4, <3>1, <3>2, <4>1
    <3>3. ASSUME NEW code, buffer_flush_data(q, code), IsDirty(q) PROVE ClientEnds(Way(q)')
      <4> DEFINE rows == flush_rows(q, TRUE)
      <4>1. rows \in Seq(Entry) /\ NoClient(rows)
        BY <2>5, <3>3
      <4>2. chain' = [chain EXCEPT ![q] = chain[q] \o rows] /\ back' = back
        BY <3>3 DEF buffer_flush_data
      <4> HIDE DEF rows
      <4>3. chain'[q] = chain[q] \o rows /\ back'[q] = back[q] /\ ret'[q] = ret[q]
        BY <1>1, <3>1, <4>2 DEF TypeOK
      <4>4. Way(q)' = w \o rows
        BY <1>1, <4>1, <4>3, AddsRows DEF Adds, w
      <4> QED BY <2>4, <3>1, <4>1, <4>4
    <3>4. (\E seen \in SUBSET Row : turn_around_job_answer(q, seen)) => ClientEnds(Way(q)')
      BY <2>3, <3>1 DEF Answers
    <3> QED BY <1>3, <2>5, <2>6, <3>1, <3>2, <3>3, <3>4 DEF AskStep
  <2>9. CASE Idle(q) \/ Executes(q) \/ ClientAnswered(q)
    BY <1>3, <2>1, <2>3, <2>9 DEF Idle, Executes, ClientAnswered, w
  <2>10. CASE TimerOn(q) \/ FlushAnswered(q)
    <3>1. \/ Way(q)' = w \o << >>
          \/ IsDirty(q) /\ Way(q)' = w \o flush_rows(q, FALSE)
      BY <2>1, <2>10 DEF TimerOn, FlushAnswered, w
    <3> QED BY <1>3, <2>3, <2>4, <2>5, <2>6, <2>7, <3>1
  <2> QED BY <2>8, <2>9, <2>10, KeySteps DEF KeyStep
<1> QED BY <1>2, <1>4, <1>5

LastInv == \A k \in Key : ClientLast(k)

LEMMA LastAlways ==
  ASSUME ~mode_changes, Queueless
  PROVE  RSpec => [](BaseInv /\ ModeInv /\ LastInv)
<1>1. ASSUME \A k \in Key : Way(k) = << >> PROVE LastInv
  BY <1>1, EmptyQueue, ClientPlaces DEF LastInv, ClientLast
<1>2. RInit => LastInv
  <2> SUFFICES ASSUME RInit, NEW k \in Key PROVE Way(k) = << >>
    BY <1>1
  <2>1. Way(k) = << >> \o << >>
    BY DEF RInit, Init, Way
  <2> QED BY <2>1, EmptyQueue, ConcatNothing
<1>3. BaseInv /\ BaseInv' /\ ModeInv /\ ModeInv' /\ LastInv /\ [RNext]_allvars => LastInv'
  <2> SUFFICES ASSUME BaseInv, BaseInv', ModeInv, ModeInv', LastInv, [RNext]_allvars PROVE LastInv'
    OBVIOUS
  <2>1. TypeOK /\ OneRequest
    BY DEF BaseInv, RTypeOK
  <2>2. CASE Next
    <3>1. \A k \in Key : ClientLast(k)'
      BY <2>2, LastKey DEF LastInv, ModeInv
    <3> QED BY <3>1 DEF LastInv
  <2>3. CASE UNCHANGED vars
    BY <2>3, SameRight DEF LastInv, ClientLast, ClientEnds
  <2>4. CASE open_init_buffer
    <3>1. \A k \in Key : Way(k)' = << >>
      BY <2>1, <2>4, OpenPaths
    <3>2. ClientEnds(<< >>)
      BY EmptyQueue, ClientPlaces
    <3> QED BY <3>1, <3>2 DEF LastInv, ClientLast, ClientEnds
  <2> QED BY <2>2, <2>3, <2>4, RunOrOpen
<1> QED BY <1>2, <1>3, ModeAlways, PTL DEF RSpec

(***************************************************************************)
(* Theorem: when the database gets a Delete, it has executed every flush   *)
(* request of the key ("flush before an asynchronous delete"), so that the *)
(* row does not come back.  The mode stays, and no write-back cache shares *)
(* its thread with the connector.                                          *)
(***************************************************************************)
THEOREM DeletedLast ==
  ASSUME ~mode_changes, Queueless
  PROVE  RSpec => []FlushedBeforeDelete
<1>1. BaseInv /\ LastInv => FlushedBeforeDelete
  <2> SUFFICES ASSUME BaseInv, LastInv, NEW k \in Key, back[k] # << >>, Head(back[k]) = Client
               PROVE  Flushes(Way(k)) = {}
    BY DEF FlushedBeforeDelete, Unflushed
  <2> DEFINE b == back[k]
             c == chain[k]
  <2>1. Way(k) = b \o c /\ b \in Seq(Entry) /\ c \in Seq(Entry) /\ Way(k) \in Seq(Entry)
    BY PathParts DEF BaseInv, RTypeOK
  <2>2. b # << >> /\ Head(b) = Client
    OBVIOUS
  <2> HIDE DEF b, c
  <2>3. Way(k) # << >> /\ Head(Way(k)) = Client
    BY <2>1, <2>2, TailConcat
  <2>4. Head(Way(k)).kind = "client" /\ ClientEnds(Way(k))
    BY <2>3, ClientEntry DEF LastInv, ClientLast
  <2> QED BY <2>1, <2>3, <2>4, ClientPlaces
<1> QED BY <1>1, LastAlways, PTL
-----------------------------------------------------------------------------
(* row, the database's, when the request j had the result res, which the cache with node n *)
(* has not heard; rows are what it may have been                                           *)
Heard(row, rows, n, j, res) ==
  /\ row \in rows \cup {Execute(j.code, j.val, r) : r \in rows}
  /\ res.code = "ok" =>
       CASE j.code = "Get" -> res.row = row /\ row \in rows
         [] j.code = "Update" ->
              IF res.affected = 0
              THEN row \in rows \cap {NoRow, j.val} /\ (n # NoNode => n.val = row)
              ELSE row = j.val /\ (n # NoNode => n.val # NoRow)
         [] OTHER -> row = j.val /\ res.affected = 1
  /\ res.code = "dup" => row \in rows \ {NoRow} /\ (n # NoNode => n.val = row)
  /\ res.code = "refused" => row \in rows /\ (n # NoNode => n.val = row)

(* what the result of a statement that was executed on row r tells *)
Tells(c, v, r, res) ==
  \/ c = "Insert" /\ r # NoRow /\ res.code = "dup"
  \/ /\ c = "Insert" => r = NoRow
     /\ res.code = "ok" /\ (c = "Get" => res.row = r) /\ (c # "Update" => res.affected = 1)
     /\ c = "Update" /\ res.affected = 0 => r = NoRow \/ r = v
     /\ c = "Update" /\ res.affected # 0 => r # NoRow

LEMMA DoneTells ==
  ASSUME NEW c, NEW v, NEW r, NEW res, res \in Done(c, v, r)
  PROVE  Tells(c, v, r, res)
<1>1. CASE c = "Insert" /\ r # NoRow
  <2>1. res = [code |-> "dup", row |-> NoRow, affected |-> 0]
    BY <1>1 DEF Done
  <2>2. res.code = "dup"
    BY <2>1
  <2> QED BY <1>1, <2>2 DEF Tells
<1>2. CASE ~(c = "Insert" /\ r # NoRow)
  <2>1. PICK n \in IF c # "Update" THEN {1} ELSE IF r = NoRow THEN {0} ELSE IF r = v THEN {0, 1} ELSE {1} :
          res = [code |-> "ok", row |-> IF c = "Get" THEN r ELSE NoRow, affected |-> n]
    BY <1>2 DEF Done
  <2>2. res.code = "ok" /\ res.affected = n /\ (c = "Get" => res.row = r)
    BY <2>1
  <2>3. c # "Update" => n = 1
    BY <2>1
  <2>4. c = "Update" => (n = 0 => r = NoRow \/ r = v) /\ (n # 0 => r # NoRow)
    BY <2>1, SMT
  <2> QED BY <1>2, <2>2, <2>3, <2>4 DEF Tells
<1> QED BY <1>1, <1>2

(* The request j on row r: what the cache will hear *)
LEMMA HeardDone ==
  ASSUME NEW j, j.code \in DbCodes, j.code = "Delete" => j.val = NoRow,
         NEW rows, NEW r \in rows, NEW n, n # NoNode => n.val = r, NEW res, NEW row,
         \/ row = Execute(j.code, j.val, r) /\ res \in Done(j.code, j.val, r)
         \/ row \in {r, Execute(j.code, j.val, r)} /\ res.code = "unknown"
         \/ row = r /\ res.code = "refused"
  PROVE  Heard(row, rows, n, j, res)
<1> DEFINE v == j.val
<1>1. row \in rows \cup {Execute(j.code, v, x) : x \in rows}
  OBVIOUS
<1>2. CASE res.code = "unknown"
  BY <1>1, <1>2 DEF Heard
<1>3. CASE row = r /\ res.code = "refused"
  BY <1>1, <1>3 DEF Heard
<1>4. CASE row = Execute(j.code, v, r) /\ res \in Done(j.code, v, r)
  <2> DEFINE c == j.code
  <2>1. row = Execute(c, v, r) /\ res \in Done(c, v, r)
    BY <1>4
  <2> HIDE DEF c, v
  <2>2. /\ c = "Get" => row = r
        /\ c = "Insert" => row = IF r = NoRow THEN v ELSE r
        /\ c = "Update" => row = IF r = NoRow THEN NoRow ELSE v
        /\ c = "Replace" => row = v
        /\ c = "Delete" => row = NoRow
    BY <2>1, SMT DEF Execute
  <2>3. Tells(c, v, r, res)
    BY <2>1, DoneTells
  <2> USE DEF c, v
  <2>4. CASE j.code = "Insert" /\ r # NoRow /\ res.code = "dup"
    <3>1. row = r
      BY <2>2, <2>4
    <3> QED BY <1>1, <2>4, <3>1 DEF Heard
  <2>5. CASE /\ j.code = "Insert" => r = NoRow
             /\ res.code = "ok" /\ (j.code = "Get" => res.row = r)
             /\ j.code # "Update" => res.affected = 1
             /\ j.code = "Update" /\ res.affected = 0 => r = NoRow \/ r = v
             /\ j.code = "Update" /\ res.affected # 0 => r # NoRow
    <3>1. CASE j.code = "Get"
      <4>1. row = r
        BY <2>2, <3>1
      <4> QED BY <1>1, <2>5, <3>1, <4>1 DEF Heard
    <3>2. CASE j.code = "Update"
      <4>1. row = IF r = NoRow THEN NoRow ELSE v
        BY <2>2, <3>2
      <4>2. CASE res.affected = 0
        <5>1. row = r
          BY <2>5, <3>2, <4>1, <4>2
        <5> QED BY <1>1, <2>5, <3>2, <4>2, <5>1 DEF Heard
      <4>3. CASE res.affected # 0
        BY <1>1, <2>5, <3>2, <4>1, <4>3 DEF Heard
      <4> QED BY <4>2, <4>3
    <3>3. CASE j.code \in {"Insert", "Replace", "Delete"}
      <4>1. row = v
        BY <2>2, <2>5, <3>3
      <4> QED BY <1>1, <2>5, <3>3, <4>1 DEF Heard
    <3> QED BY <3>1, <3>2, <3>3 DEF DbCodes
  <2> QED BY <2>3, <2>4, <2>5 DEF Tells
<1> QED BY <1>2, <1>3, <1>4

(* An answer leaves the copy as the row is. *)
LEMMA HeardAnswered ==
  ASSUME TypeOK, NEW q \in Key, Modes(q), job[q] \in Job, job[q].code \in DbCodes,
         NEW res \in Result, NEW row, Heard(row, legal[q], node[q], job[q], res),
         AnswerStep(q, res), q \notin suspect'
  PROVE  /\ row \in legal'[q]
         /\ node'[q] # NoNode => ~node'[q].rowdirty /\ node'[q].val = row
<1> DEFINE j == job[q]
           n == node[q]
           L == legal[q]
<1>1. /\ j # NoJob /\ j.code \in DbCodes /\ (n # NoNode => n \in Node)
      /\ res.code \in {"ok", "dup", "refused", "unknown"} /\ res.affected \in {0, 1}
      /\ update_mode_ \in {"SYNC", "ASYNC"}
  <2>1. j # NoJob /\ (n # NoNode => n \in Node)
    BY AbsentAssumption DEF TypeOK
  <2>2. res.code \in {"ok", "dup", "refused", "unknown"} /\ res.affected \in {0, 1}
    BY DEF Result
  <2>3. update_mode_ \in {"SYNC", "ASYNC"}
    BY ConfigAssumption, SMT DEF TypeOK, Configuration, update_mode_
  <2> QED BY <2>1, <2>2, <2>3
<1>2. /\ n # NoNode => ~n.dirty /\ ~n.rowdirty
      /\ j.code = "Get" => n = NoNode
      /\ update_mode_ = "ASYNC" /\ j.code \in {"Insert", "Update", "Replace"} => n = NoNode
  BY <1>1 DEF Modes, CleanNode
<1>3. /\ row \in L \cup {Execute(j.code, j.val, r) : r \in L}
      /\ res.code = "ok" /\ j.code = "Get" => res.row = row /\ row \in L
      /\ res.code = "ok" /\ j.code = "Update" /\ res.affected = 0 =>
           row \in L \cap {NoRow, j.val} /\ (n # NoNode => n.val = row)
      /\ res.code = "ok" /\ j.code = "Update" /\ res.affected # 0 =>
           row = j.val /\ (n # NoNode => n.val # NoRow)
      /\ res.code = "ok" /\ j.code \in {"Insert", "Replace", "Delete"} =>
           row = j.val /\ res.affected = 1
      /\ res.code = "dup" => row \in L \ {NoRow} /\ (n # NoNode => n.val = row)
      /\ res.code = "refused" => row \in L /\ (n # NoNode => n.val = row)
  BY SMT DEF Heard
<1>4. legal'[q] = Seen(q, j, res)
  BY DEF AnswerStep
<1>5. row \in legal'[q]
  <2>1. CASE res.code = "ok" /\ j.code = "Get"
    BY <1>3, <1>4, <2>1, SMT DEF Seen
  <2>2. CASE res.code = "ok" /\ j.code = "Update" /\ res.affected = 0
    BY <1>3, <1>4, <2>2, SMT DEF Seen
  <2>3. CASE res.code = "ok" /\ j.code = "Update" /\ res.affected = 1
    BY <1>3, <1>4, <2>3, SMT DEF Seen
  <2>4. CASE res.code = "ok" /\ j.code \in {"Insert", "Replace", "Delete"}
    BY <1>3, <1>4, <2>4, SMT DEF Seen
  <2>5. CASE res.code = "unknown"
    BY <1>3, <1>4, <2>5, SMT DEF Seen
  <2>6. CASE res.code \in {"dup", "refused"}
    BY <1>3, <1>4, <2>6, SMT DEF Seen
  <2> QED BY <1>1, <2>1, <2>2, <2>3, <2>4, <2>5, <2>6 DEF DbCodes
<1>6. /\ Clean(res.row).val = res.row /\ ~Clean(res.row).rowdirty
      /\ n # NoNode => \A v : [n EXCEPT !.val = v].val = v
      /\ n # NoNode => \A v : ~[n EXCEPT !.val = v].rowdirty
  <2>1. Clean(res.row).val = res.row /\ ~Clean(res.row).rowdirty
    BY DEF Clean
  <2>2. n # NoNode => \A v : [n EXCEPT !.val = v].val = v
    BY <1>1, SMT DEF Node
  <2>3. n # NoNode => \A v : [n EXCEPT !.val = v].rowdirty = n.rowdirty
    BY <1>1, SMT DEF Node
  <2> QED BY <1>2, <2>1, <2>2, <2>3
<1> HIDE DEF j, n, L
<1>7. CASE node'[q] = NoNode
  BY <1>5, <1>7
<1>8. CASE n # NoNode /\ node'[q] = n /\ Kept(q, res)
  <2>1. ~IsDirty(q)
    BY <1>2 DEF IsDirty, n
  <2>2. CASE res.code = "ok"
    <3>1. \/ j.code = "Get"
          \/ j.code = "Update" /\ (res.affected = 0 \/ n.val = NoRow)
          \/ j.code = "Replace" /\ res.affected = 0
      BY <1>8, <2>1, <2>2 DEF Kept, j, n
    <3>2. j.code = "Replace" => res.affected = 1
      BY <1>3, <2>2
    <3>3. res.affected = 0 => res.affected # 1
      BY SMT
    <3>4. j.code = "Update" /\ (res.affected = 0 \/ n.val = NoRow)
      BY <1>2, <1>8, <3>1, <3>2, <3>3
    <3> QED BY <1>2, <1>3, <1>5, <1>8, <2>2, <3>4
  <2>3. CASE res.code = "unknown"
    <3>1. ~(j.code = "Replace" \/ (update_mode_ # "SYNC" /\ j.code \in {"Insert", "Delete"}))
      BY <2>3 DEF AnswerStep, j
    <3>2. update_mode_ # "SYNC" \/ j.code \notin {"Insert", "Delete", "Update"}
      BY <1>8, <2>3 DEF Kept, j
    <3> QED BY <1>1, <1>2, <1>8, <3>1, <3>2 DEF DbCodes
  <2>4. CASE res.code \in {"dup", "refused"}
    BY <1>2, <1>3, <1>5, <1>8, <2>4
  <2> QED BY <1>1, <2>2, <2>3, <2>4
<1>9. CASE res.code = "ok" /\ j.code = "Get" /\ node'[q] = Clean(res.row)
  BY <1>3, <1>5, <1>6, <1>9
<1>10. CASE res.code = "ok" /\ n # NoNode /\ Rewrites(q, res)
  <2>1. \/ j.code = "Get"
        \/ /\ j.code \in {"Insert", "Update", "Replace"} /\ node'[q] = [n EXCEPT !.val = j.val]
           /\ j.code = "Update" => res.affected # 0
    BY <1>10 DEF Rewrites, j, n
  <2>2. /\ j.code \in {"Insert", "Update", "Replace"} /\ node'[q] = [n EXCEPT !.val = j.val]
        /\ j.code = "Update" => res.affected # 0
    BY <1>2, <1>10, <2>1
  <2>3. row = j.val
    BY <1>3, <1>10, <2>2
  <2> QED BY <1>5, <1>6, <1>10, <2>2, <2>3
<1> QED BY <1>7, <1>8, <1>9, <1>10 DEF AnswerStep, j, n
=============================================================================
