--------------------------- MODULE BufferRowProofs ---------------------------
(***************************************************************************)
(* Theorems about the rows of the cache: no stale copy, and no write lost. *)
(***************************************************************************)
EXTENDS BufferKeyProofs

USE Zenon

(***************************************************************************)
(* What is known of the row of a key.  A key of which a statement failed   *)
(* for which the cache does nothing:                                       *)
(***************************************************************************)
Clouded(k) ==
  k \in suspect
    \/ \E i \in DOMAIN ret[k] : ret[k][i].entry.kind = "flush" /\ ret[k][i].res.code # "ok"

(* the answer to the client's request is on its way back *)
AnswerAt(k, i) == i \in DOMAIN ret[k] /\ ret[k][i].entry.kind = "client"

(* the rows of k, in the cache or on their way, when it is not *)
Settles(k) ==
  /\ node[k] = NoNode \/ ~node[k].rowdirty => Latest(k) \in legal[k]
  /\ node[k] # NoNode /\ ~node[k].rowdirty => node[k].val = Latest(k)
  /\ node[k] # NoNode /\ node[k].rowdirty => node[k].val \in legal[k]

Rows(k) ==
  /\ \A i \in DOMAIN ret[k] : AnswerAt(k, i) =>
       Way(k) = << >> /\ Heard(db[k], legal[k], node[k], job[k], ret[k][i].res)
  /\ (\A i \in DOMAIN ret[k] : ~AnswerAt(k, i)) => Settles(k)

RowsInv == late = {} /\ \A k \in Key : ~Clouded(k) => Rows(k)

(* No answer is on its way back to a client that asked nothing. *)
LEMMA NobodyAnswered ==
  ASSUME TypeOK, OneRequest, NEW k \in Key, NEW i \in DOMAIN ret[k], AnswerAt(k, i)
  PROVE  job[k] # NoJob /\ job[k].code \in DbCodes
<1> DEFINE r == Entries(ret[k])
<1>1. Belongs(Path(k), job[k]) /\ Path(k) = r \o Way(k) /\ r \in Seq(Entry) /\ Way(k) \in Seq(Entry)
  BY PathParts DEF OneRequest
<1>2. ret[k] \in Seq(Answer)
  BY DEF TypeOK
<1>3. i \in DOMAIN r /\ r[i].kind = "client"
  BY <1>2, EntriesOf DEF AnswerAt
<1> HIDE DEF r
<1>4. Belongs(r, job[k])
  BY <1>1, ConcatEnds
<1> QED BY <1>3, <1>4 DEF Belongs, Ends

Unanswered(k) == \A i \in DOMAIN ret[k] : ~AnswerAt(k, i)

LEMMA NobodyNext ==
  ASSUME NEW k \in Key
  PROVE  TypeOK' /\ OneRequest' /\ (job[k] = NoJob)' => Unanswered(k)'
<1>1. TypeOK /\ OneRequest /\ job[k] = NoJob => Unanswered(k)
  BY NobodyAnswered DEF Unanswered
<1> QED BY <1>1, PTL

(* The rows of a key after a step *)
LEMMA RowsPrime ==
  ASSUME NEW k \in Key,
         \A i \in DOMAIN ret'[k] : ret'[k][i].entry.kind = "client" =>
           /\ Way(k)' = << >>
           /\ Heard(db'[k], legal'[k], node'[k], job'[k], ret'[k][i].res),
         Unanswered(k)' => Settles(k)'
  PROVE  Rows(k)'
<1>1. ASSUME NEW i
      PROVE  Heard(db[k], legal[k], node[k], job[k], ret[k][i].res)' <=>
               Heard(db'[k], legal'[k], node'[k], job'[k], ret'[k][i].res)
  BY DEF Heard, Execute
<1>2. ASSUME NEW i PROVE AnswerAt(k, i)' <=> i \in DOMAIN ret'[k] /\ ret'[k][i].entry.kind = "client"
  BY DEF AnswerAt
<1> QED BY <1>1, <1>2 DEF Rows, Unanswered

(* A node is flushed, *)
LEMMA SettlesFlushed ==
  ASSUME NEW q \in Key, Settles(q), node[q] \in Node, legal'[q] = legal[q],
         node'[q] = Clean(node[q].val) \/ (node[q].rowdirty /\ node'[q] = NoNode),
         Latest(q)' = IF node[q].rowdirty THEN node[q].val ELSE Latest(q)
  PROVE  Settles(q)'
<1>1. Clean(node[q].val).val = node[q].val /\ ~Clean(node[q].val).rowdirty /\ node[q] # NoNode
  BY NodeTypes DEF Clean
<1>2. Latest(q)' = node[q].val /\ node[q].val \in legal'[q]
  BY <1>1 DEF Settles
<1> QED BY <1>1, <1>2 DEF Settles

(* or it and its row stay, or it goes when it is clean. *)
LEMMA SettlesSame ==
  ASSUME NEW q \in Key, Settles(q), legal'[q] = legal[q], Latest(q)' = Latest(q),
         node'[q] = node[q] \/ (node'[q] = NoNode /\ (node[q] = NoNode \/ ~node[q].rowdirty))
  PROVE  Settles(q)'
BY DEF Settles

(* What will be in the database does not change, *)
LEMMA LatestSame ==
  ASSUME NEW q \in Key, Way(q)' = Way(q), db'[q] = db[q]
  PROVE  Latest(q)' = Latest(q)
BY RowsNext DEF Latest

(* or is the row that is flushed. *)
LEMMA LatestFlushed ==
  ASSUME TypeOK, NEW q \in Key, node[q] \in Node, NEW w \in BOOLEAN, db'[q] = db[q],
         \/ Way(q)' = Way(q) \o flush_rows(q, w)
         \/ Way(q)' = (Way(q) \o flush_rows(q, w)) \o <<Client>>
  PROVE  Latest(q)' = IF node[q].rowdirty THEN node[q].val ELSE Latest(q)
<1> DEFINE s == Way(q)
           r == flush_rows(q, w)
<1>1. s \in Seq(Entry) /\ Latest(q)' = Settled(Way(q)', db[q]) /\ Latest(q) = Settled(s, db[q])
  BY PathParts, RowsNext DEF Latest
<1>2. CASE node[q].rowdirty
  <2>1. Settled(s \o r, db[q]) = node[q].val /\ Settled((s \o r) \o <<Client>>, db[q]) = node[q].val
    BY <1>1, <1>2, LastFlush, SMT
  <2>2. Way(q)' = s \o r \/ Way(q)' = (s \o r) \o <<Client>>
    OBVIOUS
  <2> HIDE DEF s, r
  <2> QED BY <1>1, <1>2, <2>1, <2>2
<1>3. CASE ~node[q].rowdirty
  <2>1. r = << >>
    BY <1>3 DEF flush_rows
  <2>2. Way(q)' = s \o << >> \/ Way(q)' = (s \o << >>) \o <<Client>>
    BY <2>1
  <2> HIDE DEF s, r
  <2>3. s \o << >> = s
    BY <1>1, ConcatNothing
  <2>4. s \o <<Client>> = Append(s, Client) /\ Client.kind # "flush" /\ Client \in Entry
    BY <1>1, ClientEntry, SMT
  <2>5. Settled(Append(s, Client), db[q]) = Settled(s, db[q])
    BY <1>1, <2>4, SettledAppend
  <2> QED BY <1>1, <1>3, <2>2, <2>3, <2>4, <2>5
<1> QED BY <1>2, <1>3
(* Behind a client's request that is sent on nothing changes either. *)
LEMMA LatestSent ==
  ASSUME TypeOK, NEW q \in Key, Way(q)' = (Way(q) \o << >>) \o <<Client>>, db'[q] = db[q]
  PROVE  Latest(q)' = Latest(q)
<1> DEFINE s == Way(q)
<1>1. /\ s \in Seq(Entry) /\ Latest(q)' = Settled(Way(q)', db[q]) /\ Latest(q) = Settled(s, db[q])
      /\ Way(q)' = (s \o << >>) \o <<Client>>
  BY PathParts, RowsNext DEF Latest
<1> HIDE DEF s
<1>2. s \o << >> = s
  BY <1>1, ConcatNothing
<1>3. s \o <<Client>> = Append(s, Client) /\ Client.kind # "flush" /\ Client \in Entry
  BY <1>1, ClientEntry, SMT
<1>4. Settled(Append(s, Client), db[q]) = Settled(s, db[q])
  BY <1>1, <1>3, SettledAppend
<1> QED BY <1>1, <1>2, <1>3, <1>4

(* In SYNC mode it is what the database has. *)
LEMMA SyncLatest ==
  ASSUME NEW k \in Key
  PROVE  BaseInv /\ Unused /\ update_mode_ = "SYNC" => Latest(k) = db[k]
<1> SUFFICES ASSUME BaseInv, Unused, update_mode_ = "SYNC" PROVE Latest(k) = db[k]
  OBVIOUS
<1>1. Flushes(Way(k)) = {}
  BY SyncWay
<1> QED BY <1>1 DEF Latest, Settled

LEMMA SyncLatestNext ==
  ASSUME NEW k \in Key
  PROVE  BaseInv' /\ Unused' /\ (update_mode_ = "SYNC")' => Latest(k)' = db'[k]
<1>1. BaseInv /\ Unused /\ update_mode_ = "SYNC" => Latest(k) = db[k]
  BY SyncLatest
<1>2. BaseInv' /\ Unused' /\ (update_mode_ = "SYNC")' => (Latest(k) = db[k])'
  BY <1>1, PTL
<1> QED BY <1>2

(* Without an answer on its way back, before and after *)
LEMMA RowsSettle ==
  ASSUME TypeOK, OneRequest, NEW q \in Key, Rows(q), job[q] = NoJob, ret'[q] = ret[q],
         Settles(q) => Settles(q)'
  PROVE  Rows(q)'
<1>1. Unanswered(q)
  BY NobodyAnswered DEF Unanswered
<1>2. Settles(q)
  BY <1>1 DEF Rows, Unanswered
<1>3. \A i \in DOMAIN ret'[q] : ret'[q][i].entry.kind # "client"
  BY <1>1 DEF Unanswered, AnswerAt
<1> QED BY <1>2, <1>3, RowsPrime

(* A client's request *)
LEMMA RowsAsk ==
  ASSUME Queueless, BaseInv, BaseInv', ModeInv, Unused', UNCHANGED config,
         NEW q \in Key, job_ask_procedure(q), Rows(q)
  PROVE  Rows(q)'
<1>1. /\ TypeOK /\ TypeOK' /\ OneRequest /\ (node[q] # NoNode => node[q] \in Node)
      /\ legal \in [Key -> SUBSET Row]
  BY DEF BaseInv, RTypeOK, TypeOK
<1>2. update_mode_ \in {"SYNC", "ASYNC"} /\ (update_mode_ = "ASYNC" => ~use_queue)
  BY <1>1, ConfigAssumption, SMT DEF TypeOK, Configuration, update_mode_, Queueless, use_queue
<1>3. /\ AskStep(q) /\ UNCHANGED <<db, ret>> /\ job[q] = NoJob
      /\ Answers(q) => Way(q)' = Way(q)
  BY <1>1, AskSteps, AskCases, AskPaths
<1>4. Modes(q) /\ Unused
  BY DEF ModeInv
<1> SUFFICES ASSUME Settles(q) PROVE Settles(q)'
  BY <1>1, <1>3, RowsSettle
<1>5. ASSUME NEW seen \in SUBSET Row, turn_around_job_answer(q, seen), Told(q, seen)
      PROVE  Settles(q)'
  <2>1. legal'[q] = seen
    BY <1>1, <1>5 DEF turn_around_job_answer
  <2>2. Latest(q)' = Latest(q)
    BY <1>3, <1>5, LatestSame DEF Answers
  <2>3. CASE /\ node'[q] = node[q] \/ (node'[q] = NoNode /\ (node[q] = NoNode \/ ~node[q].rowdirty))
             /\ seen = legal[q]
    BY <2>1, <2>2, <2>3, SettlesSame
  <2>4. CASE /\ node[q] # NoNode /\ node'[q] = node[q]
             /\ seen = legal[q] \cap {node[q].val} \/ (node[q].val # NoRow /\ seen = legal[q] \ {NoRow})
    <3>1. node[q].val \in seen
      BY <2>4 DEF Settles
    <3> QED BY <2>1, <2>2, <2>4, <3>1 DEF Settles
  <2>5. ASSUME NEW v \in Value, node'[q] = Dirty(v), seen = {v} PROVE Settles(q)'
    <3>1. Dirty(v) # NoNode /\ Dirty(v).rowdirty /\ Dirty(v).val = v
      BY NodeTypes DEF Dirty
    <3> QED BY <2>1, <2>5, <3>1 DEF Settles
  <2>6. CASE node[q] # NoNode /\ node'[q] = [node[q] EXCEPT !.dirty = TRUE] /\ seen = legal[q]
    <3> DEFINE n == [node[q] EXCEPT !.dirty = TRUE]
    <3>1. n # NoNode /\ n.rowdirty = node[q].rowdirty
      BY <1>1, <2>6, NodeTypes, StillRowdirty
    <3>2. n.val = node[q].val
      BY <1>1, <2>6, SMT DEF Node
    <3> HIDE DEF n
    <3>3. node'[q] = n
      BY <2>6 DEF n
    <3> QED BY <2>1, <2>2, <2>6, <3>1, <3>2, <3>3 DEF Settles
  <2>7. ~(update_mode_ = "ASYNC" /\ IsDirty(q)) => node[q] = NoNode \/ ~node[q].rowdirty
    BY <1>2, <1>4 DEF Modes, CleanNode, IsDirty
  <2> QED BY <1>5, <2>3, <2>4, <2>5, <2>6, <2>7 DEF Told
<1>6. ASSUME NEW j \in Job, goto_next_chain(q, j, << >>), Sent(q, j) PROVE Settles(q)'
  <2>1. legal'[q] = legal[q] /\ db'[q] = db[q]
    BY <1>3, <1>6 DEF goto_next_chain
  <2>2. node'[q] = node[q]
    BY <1>4, <1>6 DEF Sent, Modes
  <2>3. CASE update_mode_ = "SYNC"
    <3>1. (update_mode_ = "SYNC")'
      BY <2>3 DEF update_mode_
    <3>2. Latest(q)' = Latest(q)
      BY <1>4, <2>1, <2>3, <3>1, SyncLatest, SyncLatestNext
    <3> QED BY <2>1, <2>2, <3>2, SettlesSame
  <2>4. CASE update_mode_ = "ASYNC"
    <3>1. SentOn(q, << >>)
      BY <1>1, <1>3, <1>6, EmptyQueue, SendsPaths
    <3>2. Way(q)' = (Way(q) \o << >>) \o <<Client>>
      BY <1>2, <2>4, <3>1 DEF SentOn
    <3> QED BY <1>1, <2>1, <2>2, <3>2, LatestSent, SettlesSame
  <2> QED BY <1>2, <2>3, <2>4
<1>7. CASE /\ update_mode_ = "ASYNC" /\ IsDirty(q) /\ node'[q] = Clean(node[q].val)
           /\ goto_next_chain(q, Delete, flush_rows(q, FALSE))
  <2>1. legal'[q] = legal[q] /\ db'[q] = db[q] /\ node[q] \in Node
    BY <1>1, <1>3, <1>7 DEF goto_next_chain, IsDirty
  <2>2. SentOn(q, flush_rows(q, FALSE))
    BY <1>1, <1>3, <1>7, <2>1, RowsOf, SendsPaths
  <2>3. Way(q)' = (Way(q) \o flush_rows(q, FALSE)) \o <<Client>>
    BY <1>2, <1>7, <2>2 DEF SentOn
  <2> QED BY <1>1, <1>7, <2>1, <2>3, LatestFlushed, SettlesFlushed
<1>8. ASSUME IsDirty(q), NEW code, buffer_flush_data(q, code),
             node'[q] = Clean(node[q].val) \/ (node[q].rowdirty /\ node'[q] = NoNode)
      PROVE  Settles(q)'
  <2> DEFINE rows == flush_rows(q, TRUE)
  <2>1. legal'[q] = legal[q] /\ db'[q] = db[q] /\ node[q] \in Node
    BY <1>1, <1>3, <1>8 DEF buffer_flush_data, IsDirty
  <2>2. chain' = [chain EXCEPT ![q] = chain[q] \o rows] /\ back' = back /\ rows \in Seq(Entry)
    BY <1>8, <2>1, RowsOf DEF buffer_flush_data
  <2> HIDE DEF rows
  <2>3. chain'[q] = chain[q] \o rows /\ back'[q] = back[q] /\ ret'[q] = ret[q]
    BY <1>1, <1>3, <2>2 DEF TypeOK
  <2>4. Way(q)' = Way(q) \o rows
    BY <1>1, <2>2, <2>3, AddsRows DEF Adds
  <2>5. Latest(q)' = IF node[q].rowdirty THEN node[q].val ELSE Latest(q)
    BY <1>1, <2>1, <2>4, LatestFlushed DEF rows
  <2> QED BY <1>8, <2>1, <2>5, SettlesFlushed
<1> QED BY <1>3, <1>5, <1>6, <1>7, <1>8 DEF AskStep
(* A failure for which nothing is done is not forgotten. *)
LEMMA CloudedStays ==
  ASSUME TypeOK, OneRequest, NEW q \in Key, KeyStep(q), suspect \subseteq suspect', Clouded(q)
  PROVE  Clouded(q)'
<1>1. ret[q] \in Seq(Answer) /\ (use_queue => ret[q] = << >>)
  BY DEF TypeOK, OneRequest
<1>2. CASE q \in suspect
  BY <1>2 DEF Clouded
<1>3. ASSUME NEW i \in DOMAIN ret[q], ret[q][i].entry.kind = "flush", ret[q][i].res.code # "ok"
      PROVE  Clouded(q)'
  <2>1. ret[q] # << >> /\ ~use_queue
    BY <1>1, <1>3, SMT
  <2>2. ASSUME NEW k, k \in DOMAIN ret'[q], ret'[q][k] = ret[q][i] PROVE Clouded(q)'
    BY <1>3, <2>2 DEF Clouded
  <2>3. CASE ret'[q] = ret[q]
    BY <2>2, <2>3
  <2>4. ASSUME NEW a, ret'[q] = Append(ret[q], a) PROVE Clouded(q)'
    <3>1. i \in DOMAIN Append(ret[q], a) /\ Append(ret[q], a)[i] = ret[q][i]
      BY <1>1, <1>3, SMT
    <3> QED BY <2>2, <2>4, <3>1
  <2>5. ASSUME ret'[q] = Tail(ret[q]), i # 1 PROVE Clouded(q)'
    <3> DEFINE r == ret[q]
    <3>1. r \in Seq(Answer) /\ r # << >> /\ i \in DOMAIN r
      BY <1>1, <2>1
    <3> HIDE DEF r
    <3>2. i - 1 \in DOMAIN Tail(r) /\ Tail(r)[i - 1] = r[i]
      BY <2>5, <3>1, TailAt
    <3>3. i - 1 \in DOMAIN ret'[q] /\ ret'[q][i - 1] = ret[q][i]
      BY <2>5, <3>2 DEF r
    <3> QED BY <2>2, <3>3
  <2>6. Head(ret[q]) = ret[q][1]
    BY <1>1, <2>1, TailAt
  <2>7. CASE job_ask_procedure(q)
    BY <2>3, <2>7, AskCases
  <2>8. CASE Idle(q) \/ TimerOn(q)
    BY <2>3, <2>8 DEF Idle, TimerOn
  <2>9. CASE Executes(q)
    BY <2>4, <2>9 DEF Executes
  <2>10. CASE FlushAnswered(q)
    <3>1. ret'[q] = Tail(ret[q]) /\ (Head(ret[q]).res.code = "ok" \/ q \in suspect')
      BY <2>1, <2>10 DEF FlushAnswered
    <3>2. i = 1 => q \in suspect'
      BY <1>3, <2>6, <3>1
    <3> QED BY <2>5, <3>1, <3>2 DEF Clouded
  <2>11. CASE ClientAnswered(q)
    <3>1. ret'[q] = Tail(ret[q]) /\ Head(ret[q]).entry.kind = "client"
      BY <2>1, <2>11 DEF ClientAnswered
    <3>2. i # 1
      BY <1>3, <2>6, <3>1
    <3> QED BY <2>5, <3>1, <3>2
  <2> QED BY <2>7, <2>8, <2>9, <2>10, <2>11 DEF KeyStep
<1> QED BY <1>2, <1>3 DEF Clouded

LEMMA HeardPurged ==
  ASSUME NEW row, NEW rows, NEW n, NEW j, NEW res, Heard(row, rows, n, j, res)
  PROVE  Heard(row, rows, NoNode, j, res)
BY SMT DEF Heard

(* Nobody is at the key. *)
LEMMA RowsIdle ==
  ASSUME NEW q \in Key, Modes(q), late = {}, Idle(q), Rows(q)
  PROVE  Rows(q)'
<1>1. /\ job'[q] = job[q] /\ ret'[q] = ret[q] /\ legal'[q] = legal[q] /\ Way(q)' = Way(q)
      /\ db'[q] = db[q]
  BY DEF Idle
<1>2. node'[q] = node[q] \/ (node'[q] = NoNode /\ (node[q] = NoNode \/ ~node[q].rowdirty))
  BY DEF Idle, Modes, IsDirty
<1>3. ASSUME NEW i \in DOMAIN ret'[q], ret'[q][i].entry.kind = "client"
      PROVE  /\ Way(q)' = << >>
             /\ Heard(db'[q], legal'[q], node'[q], job'[q], ret'[q][i].res)
  <2>1. Way(q) = << >> /\ Heard(db[q], legal[q], node[q], job[q], ret[q][i].res)
    BY <1>1, <1>3 DEF Rows, AnswerAt
  <2>2. Heard(db[q], legal[q], NoNode, job[q], ret[q][i].res)
    BY <2>1, HeardPurged
  <2> QED BY <1>1, <1>2, <2>1, <2>2
<1>4. Unanswered(q)' => Settles(q)
  BY <1>1 DEF Unanswered, AnswerAt, Rows
<1>5. Settles(q) => Settles(q)'
  BY <1>1, <1>2, LatestSame, SettlesSame
<1> QED BY <1>3, <1>4, <1>5, RowsPrime

(* Its node is flushed in the background. *)
LEMMA RowsTimer ==
  ASSUME TypeOK, OneRequest, NEW q \in Key, Modes(q), TimerOn(q), Rows(q)
  PROVE  Rows(q)'
<1>1. /\ ret'[q] = ret[q] /\ legal'[q] = legal[q] /\ db'[q] = db[q] /\ IsDirty(q)
      /\ node'[q] = Clean(node[q].val) /\ Way(q)' = Way(q) \o flush_rows(q, FALSE)
  BY DEF TimerOn
<1>2. job[q] = NoJob /\ node[q] \in Node
  BY <1>1 DEF Modes, CleanNode, IsDirty, TypeOK
<1>3. Latest(q)' = IF node[q].rowdirty THEN node[q].val ELSE Latest(q)
  BY <1>1, <1>2, LatestFlushed
<1>4. Settles(q) => Settles(q)'
  BY <1>1, <1>2, <1>3, SettlesFlushed
<1> QED BY <1>1, <1>2, <1>4, RowsSettle
(* What becomes of the row when no statement is executed late *)
LEMMA OutcomeRows ==
  ASSUME TypeOK, max_late = 0, late = {}, NEW k \in Key, NEW e, NEW res, Outcome(k, e, res)
  PROVE  \/ /\ db'[k] = Execute(EntryCode(k, e), EntryVal(k, e), db[k])
            /\ res \in Done(EntryCode(k, e), EntryVal(k, e), db[k]) \/ res.code = "unknown"
         \/ db'[k] = db[k] /\ res.code \in {"refused", "unknown"}
<1> DEFINE c == EntryCode(k, e)
           v == EntryVal(k, e)
           x == Execute(c, v, db[k])
<1>1. ~(Cardinality(late) < max_late)
  BY FS_EmptySet, SMT
<1>2. Failed("refused").code = "refused" /\ Failed("unknown").code = "unknown"
  BY DEF Failed
<1>3. \/ db' = [db EXCEPT ![k] = x] /\ (res \in Done(c, v, db[k]) \/ res = Failed("unknown"))
      \/ db' = db /\ res \in {Failed("refused"), Failed("unknown")}
  BY <1>1 DEF Outcome
<1>4. db \in [Key -> Row]
  BY DEF TypeOK
<1> HIDE DEF x, c, v
<1>5. \/ db'[k] = x /\ (res \in Done(c, v, db[k]) \/ res.code = "unknown")
      \/ db'[k] = db[k] /\ res.code \in {"refused", "unknown"}
  BY <1>2, <1>3, <1>4
<1> QED BY <1>5 DEF x, c, v

(* The client's request is executed. *)
LEMMA ClientExecuted ==
  ASSUME BaseInv, max_late = 0, late = {}, NEW q \in Key, Modes(q), ClientLast(q), Settles(q),
         Way(q) # << >>, Head(Way(q)).kind = "client", NEW res, Outcome(q, Head(Way(q)), res)
  PROVE  Tail(Way(q)) = << >> /\ Heard(db'[q], legal[q], node[q], job[q], res)
<1> DEFINE w == Way(q)
           j == job[q]
<1>1. /\ TypeOK /\ OneRequest /\ w \in Seq(Entry) /\ w # << >> /\ ClientEnds(w)
      /\ Head(w).kind = "client"
  BY PathParts DEF BaseInv, RTypeOK, ClientLast
<1>2. /\ j # NoJob /\ j.code \in DbCodes /\ (j.code = "Delete" => j.val = NoRow)
      /\ EntryCode(q, Head(w)) = j.code /\ EntryVal(q, Head(w)) = j.val
  <2>1. Belongs(Path(q), j) /\ Path(q) = Entries(ret[q]) \o w /\ Entries(ret[q]) \in Seq(Entry)
    BY <1>1, PathParts DEF OneRequest
  <2>2. j # NoJob /\ j.code = "Delete" => j.val = NoRow
    BY <1>1 DEF OneRequest
  <2>3. EntryCode(q, Head(w)) = j.code /\ EntryVal(q, Head(w)) = j.val
    BY <1>1 DEF EntryCode, EntryVal
  <2> HIDE DEF w, j
  <2>4. Belongs(w, j)
    BY <1>1, <2>1, ConcatEnds
  <2>5. Head(w) = w[1] /\ 1 \in DOMAIN w
    BY <1>1, TailAt, SMT
  <2> QED BY <1>1, <2>2, <2>3, <2>4, <2>5 DEF Belongs, Ends
<1>3. Latest(q) = Settled(w, db[q]) /\ (node[q] # NoNode => ~node[q].rowdirty)
  BY <1>2 DEF Latest, Modes, CleanNode
<1>4. \/ /\ db'[q] = Execute(j.code, j.val, db[q])
         /\ res \in Done(j.code, j.val, db[q]) \/ res.code = "unknown"
      \/ db'[q] = db[q] /\ res.code \in {"refused", "unknown"}
  BY <1>1, <1>2, OutcomeRows
<1> HIDE DEF w, j
<1>5. Tail(w) = << >> /\ Flushes(w) = {}
  BY <1>1, ClientPlaces
<1>6. Settled(w, db[q]) = db[q]
  BY <1>5 DEF Settled
<1>7. db[q] \in legal[q] /\ (node[q] # NoNode => node[q].val = db[q])
  BY <1>3, <1>6 DEF Settles
<1>8. Heard(db'[q], legal[q], node[q], j, res)
  <2>1. \/ db'[q] = Execute(j.code, j.val, db[q]) /\ res \in Done(j.code, j.val, db[q])
        \/ db'[q] \in {db[q], Execute(j.code, j.val, db[q])} /\ res.code = "unknown"
        \/ db'[q] = db[q] /\ res.code = "refused"
    BY <1>4
  <2> QED BY <1>2, <1>7, <2>1, HeardDone
<1> QED BY <1>5, <1>8 DEF w, j

(* The next statement of the key is executed, and its answer is on its way. *)
LEMMA RowsExecutes ==
  ASSUME BaseInv, max_late = 0, late = {}, NEW q \in Key, Modes(q), ClientLast(q), Executes(q),
         Rows(q), ~Clouded(q)'
  PROVE  Rows(q)'
<1> DEFINE w == Way(q)
           e == Head(w)
           r == ret[q]
<1>1. /\ node'[q] = node[q] /\ job'[q] = job[q] /\ legal'[q] = legal[q]
      /\ w # << >> /\ Way(q)' = Tail(w)
  BY DEF Executes
<1>2. PICK res \in Result : Outcome(q, e, res) /\ ret'[q] = Append(r, [entry |-> e, res |-> res])
  BY DEF Executes
<1>3. TypeOK /\ r \in Seq(Answer) /\ w \in Seq(Entry) /\ e \in Entry
  BY <1>1, PathParts, TailAt DEF BaseInv, RTypeOK, TypeOK
<1>4. Unanswered(q) /\ Settles(q)
  BY <1>1 DEF Rows, Unanswered
<1>5. \A i \in DOMAIN r : r[i].entry.kind # "client"
  BY <1>4 DEF Unanswered, AnswerAt
<1>6. DOMAIN r = 1 .. Len(r) /\ Len(r) \in Nat
  BY <1>3, SMT
<1> DEFINE a == [entry |-> e, res |-> res]
           n == Len(r) + 1
<1>7. a.entry = e /\ a.res = res /\ ret'[q] = Append(r, a)
  BY <1>2
<1>8. e.kind \in {"client", "flush"} /\ Latest(q) = Settled(w, db[q])
  BY <1>3 DEF Entry, Latest
<1> HIDE DEF a, r, e
<1>9. /\ n \in DOMAIN Append(r, a) /\ Append(r, a)[n] = a
      /\ \A i \in DOMAIN Append(r, a) : i = n \/ (i \in DOMAIN r /\ Append(r, a)[i] = r[i])
  BY <1>3, <1>6, SMT
<1> HIDE DEF n
<1>10. /\ n \in DOMAIN ret'[q] /\ ret'[q][n] = a
       /\ \A i \in DOMAIN ret'[q] : i = n \/ ret'[q][i].entry.kind # "client"
  BY <1>5, <1>7, <1>9
<1>11. CASE e.kind = "flush"
  <2>1. res.code = "ok"
    BY <1>7, <1>10, <1>11 DEF Clouded
  <2>2. EntryCode(q, e) = "Replace" /\ EntryVal(q, e) = e.val
    BY <1>11 DEF EntryCode, EntryVal
  <2>3. db'[q] = Execute("Replace", e.val, db[q])
    BY <1>2, <1>3, <2>1, <2>2, OutcomeRows
  <2>4. db'[q] = e.val
    BY <2>3, SMT DEF Execute
  <2>5. Latest(q)' = Settled(Tail(w), e.val)
    BY <1>1, <2>4, RowsNext
  <2>6. Settled(Tail(w), e.val) = Settled(w, db[q])
    BY <1>1, <1>3, <1>11, SettledTail DEF e
  <2>7. Settles(q)'
    BY <1>1, <1>4, <1>8, <2>5, <2>6, SettlesSame
  <2>8. \A i \in DOMAIN ret'[q] : ret'[q][i].entry.kind # "client"
    BY <1>7, <1>10, <1>11
  <2> QED BY <2>7, <2>8, RowsPrime
<1>12. CASE e.kind = "client"
  <2>1. Tail(w) = << >> /\ Heard(db'[q], legal[q], node[q], job[q], res)
    BY <1>1, <1>2, <1>4, <1>12, ClientExecuted DEF e
  <2>2. ASSUME NEW i \in DOMAIN ret'[q], ret'[q][i].entry.kind = "client"
        PROVE  Way(q)' = << >> /\ Heard(db'[q], legal'[q], node'[q], job'[q], ret'[q][i].res)
    BY <1>1, <1>7, <1>10, <2>1, <2>2
  <2>3. ~Unanswered(q)'
    BY <1>7, <1>10, <1>12 DEF Unanswered, AnswerAt
  <2> QED BY <2>2, <2>3, RowsPrime
<1> QED BY <1>8, <1>11, <1>12
(* The answer to a flush request is handled. *)
LEMMA RowsFlushAnswered ==
  ASSUME Queueless, BaseInv, BaseInv', Unused, NEW q \in Key, Modes(q), FlushAnswered(q), Rows(q)
  PROVE  Rows(q)'
<1> DEFINE r == ret[q]
<1>1. TypeOK /\ TypeOK' /\ OneRequest /\ OneRequest' /\ r \in Seq(Answer) /\ Way(q) \in Seq(Entry)
  BY PathParts DEF BaseInv, RTypeOK, TypeOK
<1>2. update_mode_ \in {"SYNC", "ASYNC"} /\ (update_mode_ = "ASYNC" => ~use_queue)
  BY <1>1, ConfigAssumption, SMT DEF TypeOK, Configuration, update_mode_, Queueless, use_queue
<1>3. legal'[q] = legal[q] /\ job'[q] \in {job[q], NoJob}
  BY DEF FlushAnswered
<1>4. PICK rows \in Seq(Entry) :
        /\ \/ rows = << >> /\ node'[q] = node[q]
           \/ rows = flush_rows(q, FALSE) /\ IsDirty(q) /\ node'[q] = Clean(node[q].val)
        /\ IF use_queue
           THEN Way(q) # << >> /\ Head(Way(q)).kind = "flush" /\ Way(q)' = Tail(Way(q)) \o rows
           ELSE /\ Way(q)' = Way(q) \o rows /\ db'[q] = db[q]
                /\ r # << >> /\ ret'[q] = Tail(r) /\ Head(r).entry.kind = "flush"
  BY DEF FlushAnswered
<1>5. ~use_queue
  <2> SUFFICES ASSUME use_queue PROVE FALSE
    OBVIOUS
  <2>1. Flushes(Way(q)) = {}
    BY <1>2, SyncWay
  <2>2. 1 \in DOMAIN Way(q) /\ Way(q)[1] = Head(Way(q))
    BY <1>1, <1>4, TailAt, SMT
  <2> QED BY <1>4, <2>1, <2>2 DEF Flushes
<1>6. job'[q] = NoJob => \A i \in DOMAIN ret'[q] : ret'[q][i].entry.kind # "client"
  BY <1>1, NobodyNext DEF Unanswered, AnswerAt
<1>7. CASE rows = flush_rows(q, FALSE) /\ IsDirty(q) /\ node'[q] = Clean(node[q].val)
  <2>1. job[q] = NoJob /\ job'[q] = NoJob /\ node[q] \in Node
    BY <1>1, <1>3, <1>7 DEF Modes, CleanNode, IsDirty, TypeOK
  <2>2. Settles(q)
    BY <1>1, <2>1, NobodyAnswered DEF Rows
  <2>3. Latest(q)' = IF node[q].rowdirty THEN node[q].val ELSE Latest(q)
    BY <1>1, <1>4, <1>5, <1>7, <2>1, LatestFlushed
  <2>4. Settles(q)'
    BY <1>3, <1>7, <2>1, <2>2, <2>3, SettlesFlushed
  <2> QED BY <1>6, <2>1, <2>4, RowsPrime
<1>8. CASE rows = << >> /\ node'[q] = node[q]
  <2>1. Way(q)' = Way(q) /\ db'[q] = db[q] /\ r # << >> /\ ret'[q] = Tail(r) /\ Head(r).entry.kind = "flush"
    BY <1>1, <1>4, <1>5, <1>8, ConcatNothing
  <2> HIDE DEF r
  <2>2. /\ Head(r) = r[1]
        /\ \A i \in DOMAIN Tail(r) : i + 1 \in DOMAIN r /\ Tail(r)[i] = r[i + 1]
        /\ \A i \in DOMAIN r : i # 1 => i - 1 \in DOMAIN Tail(r) /\ Tail(r)[i - 1] = r[i]
    BY <1>1, <2>1, TailAt
  <2>3. ASSUME NEW i \in DOMAIN ret'[q], ret'[q][i].entry.kind = "client"
        PROVE  Way(q)' = << >> /\ Heard(db'[q], legal'[q], node'[q], job'[q], ret'[q][i].res)
    <3>1. i + 1 \in DOMAIN r /\ r[i + 1] = ret'[q][i]
      BY <2>1, <2>2, <2>3
    <3>2. Way(q) = << >> /\ Heard(db[q], legal[q], node[q], job[q], ret'[q][i].res)
      BY <2>3, <3>1 DEF Rows, AnswerAt, r
    <3>3. job'[q] = job[q]
      BY <1>3, <1>6, <2>3
    <3> QED BY <1>3, <1>8, <2>1, <3>2, <3>3
  <2>4. ASSUME Unanswered(q)' PROVE Settles(q)'
    <3>1. \A i \in DOMAIN Tail(r) : Tail(r)[i].entry.kind # "client"
      BY <2>1, <2>4 DEF Unanswered, AnswerAt
    <3>2. \A i \in DOMAIN r : r[i].entry.kind # "client"
      BY <2>1, <2>2, <3>1
    <3>3. Settles(q)
      BY <3>2 DEF Rows, AnswerAt, r
    <3> QED BY <1>3, <1>8, <2>1, <3>3, LatestSame, SettlesSame
  <2> QED BY <2>3, <2>4, RowsPrime
<1> QED BY <1>4, <1>7, <1>8

(* The answer to the client's request is handled. *)
LEMMA RowsClientAnswered ==
  ASSUME BaseInv, BaseInv', max_late = 0, late = {}, NEW q \in Key, Modes(q), ClientLast(q),
         ClientAnswered(q), Rows(q), ~Clouded(q)'
  PROVE  Rows(q)'
<1>1. /\ TypeOK /\ TypeOK' /\ OneRequest /\ OneRequest' /\ ret[q] \in Seq(Answer)
      /\ job[q] \in Job /\ job[q].code \in DbCodes /\ q \notin suspect'
  BY DEF BaseInv, RTypeOK, TypeOK, ClientAnswered, Clouded
<1>2. PICK res \in Result :
       /\ AnswerStep(q, res)
       /\ IF use_queue
          THEN /\ Way(q) # << >> /\ Way(q)' = Tail(Way(q)) /\ ret'[q] = << >>
               /\ Head(Way(q)).kind = "client" /\ Outcome(q, Head(Way(q)), res)
          ELSE /\ Way(q)' = Way(q) /\ db'[q] = db[q]
               /\ ret[q] # << >> /\ ret'[q] = Tail(ret[q])
               /\ Head(ret[q]).entry.kind = "client" /\ Head(ret[q]).res = res
  BY DEF ClientAnswered
<1>3. job'[q] = NoJob
  BY <1>2 DEF AnswerStep
<1>4. \A i \in DOMAIN ret'[q] : ret'[q][i].entry.kind # "client"
  BY <1>1, <1>3, NobodyNext DEF Unanswered, AnswerAt
<1>5. Way(q)' = << >> /\ Heard(db'[q], legal[q], node[q], job[q], res)
  <2>1. CASE use_queue
    <3>1. ret[q] = << >>
      BY <1>1, <2>1 DEF OneRequest
    <3>2. DOMAIN ret[q] = {}
      BY <3>1, SMT
    <3>3. Settles(q)
      BY <3>2 DEF Rows
    <3> QED BY <1>2, <2>1, <3>3, ClientExecuted
  <2>2. CASE ~use_queue
    <3>1. Head(ret[q]) = ret[q][1] /\ 1 \in DOMAIN ret[q]
      BY <1>1, <1>2, <2>2, TailAt, SMT
    <3>2. Way(q) = << >> /\ Heard(db[q], legal[q], node[q], job[q], ret[q][1].res)
      BY <1>2, <2>2, <3>1 DEF Rows, AnswerAt
    <3> QED BY <1>2, <2>2, <3>1, <3>2
  <2> QED BY <2>1, <2>2
<1>6. Latest(q)' = db'[q]
  BY <1>5, RowsNext, EmptyQueue DEF Settled
<1>7. /\ db'[q] \in legal'[q]
      /\ node'[q] # NoNode => ~node'[q].rowdirty /\ node'[q].val = db'[q]
  BY <1>1, <1>2, <1>5, HeardAnswered
<1>8. Settles(q)'
  BY <1>6, <1>7 DEF Settles
<1> QED BY <1>4, <1>8, RowsPrime

(* One step of a running cache *)
LEMMA RowsKey ==
  ASSUME Queueless, max_late = 0, BaseInv, BaseInv', ModeInv, Unused', LastInv, late = {}, Next,
         NEW q \in Key, ~Clouded(q) => Rows(q), ~Clouded(q)'
  PROVE  Rows(q)'
<1>1. /\ TypeOK /\ OneRequest /\ Modes(q) /\ Unused /\ ClientLast(q) /\ UNCHANGED config
  BY DEF BaseInv, RTypeOK, ModeInv, LastInv, Next
<1>2. KeyStep(q) /\ suspect \subseteq suspect'
  BY KeySteps
<1>3. Rows(q)
  BY <1>1, <1>2, CloudedStays
<1>4. CASE job_ask_procedure(q)
  BY <1>1, <1>3, <1>4, RowsAsk
<1>5. CASE Idle(q)
  BY <1>1, <1>3, <1>5, RowsIdle
<1>6. CASE TimerOn(q)
  BY <1>1, <1>3, <1>6, RowsTimer
<1>7. CASE Executes(q)
  BY <1>1, <1>3, <1>7, RowsExecutes
<1>8. CASE FlushAnswered(q)
  BY <1>1, <1>3, <1>8, RowsFlushAnswered
<1>9. CASE ClientAnswered(q)
  BY <1>1, <1>3, <1>9, RowsClientAnswered
<1> QED BY <1>2, <1>4, <1>5, <1>6, <1>7, <1>8, <1>9 DEF KeyStep
(* A start forgets what was under way: a key it does not put under suspicion *)
LEMMA OpenKey ==
  ASSUME TypeOK, OneRequest, max_late = 0, late = {}, open_init_buffer
  PROVE  /\ late' = {}
         /\ \A q \in Key : q \notin suspect' =>
              /\ ~Clouded(q) /\ Unflushed(q) = {}
              /\ node[q] # NoNode /\ node[q].rowdirty => node'[q] # NoNode
              /\ IsWrite(q) /\ Unheard(q) => node'[q] = NoNode
              /\ legal'[q] = IF IsWrite(q)
                             THEN legal[q] \cup {Execute(job[q].code, job[q].val, r) : r \in legal[q]}
                             ELSE legal[q]
              /\ \/ db'[q] = db[q]
                 \/ /\ back[q] # << >> /\ job[q] # NoJob /\ job[q].code \in DbCodes
                    /\ db'[q] = Execute(job[q].code, job[q].val, db[q])
                    /\ IsWrite(q) => node'[q] = NoNode
<1> DEFINE busy == {k \in Key : back[k] # << >>}
<1>1. PICK E \in SUBSET busy : \E L \in SUBSET (busy \ E) :
        Cardinality(late) + Cardinality(L) <= max_late /\ forget(E, L)
  BY DEF open_init_buffer
<1>2. PICK L \in SUBSET (busy \ E) :
        Cardinality(late) + Cardinality(L) <= max_late /\ forget(E, L)
  BY <1>1
<1>3. L = {}
  <2>1. L \subseteq Key /\ IsFiniteSet(Key)
    BY SetAssumption
  <2>2. IsFiniteSet(L)
    BY <2>1, FS_Subset
  <2>3. Cardinality(L) \in Nat
    BY <2>2, FS_CardinalityType
  <2>4. Cardinality(late) = 0
    BY FS_EmptySet
  <2>5. Cardinality(L) = 0
    BY <1>2, <2>3, <2>4, SMT
  <2> QED BY <2>2, <2>5, FS_EmptySet
<1>4. late' = {}
  BY <1>2, <1>3 DEF forget
<1>5. ASSUME NEW q \in Key, q \notin suspect'
      PROVE  /\ ~Clouded(q) /\ Unflushed(q) = {}
             /\ node[q] # NoNode /\ node[q].rowdirty => node'[q] # NoNode
             /\ IsWrite(q) /\ (q \in E \/ Unheard(q)) => node'[q] = NoNode
             /\ legal'[q] = IF IsWrite(q) THEN Seen(q, job[q], Failed("unknown")) ELSE legal[q]
             /\ db'[q] = IF q \in E THEN Execute(Pending(q).code, Pending(q).val, db[q]) ELSE db[q]
  <2>1. /\ q \notin suspect /\ ~(Unflushed(q) # {})
        /\ ~\E i \in DOMAIN ret[q] : ret[q][i].entry.kind = "flush" /\ ret[q][i].res.code # "ok"
        /\ ~(IsWrite(q) /\ (q \in E \cup L \/ Unheard(q)) /\ node'[q] # NoNode)
        /\ ~(node[q] # NoNode /\ node[q].rowdirty /\ node'[q] = NoNode)
    BY <1>2, <1>5 DEF forget
  <2>2. /\ legal'[q] = IF IsWrite(q) THEN Seen(q, job[q], Failed("unknown")) ELSE legal[q]
        /\ db'[q] = IF q \in E THEN Execute(Pending(q).code, Pending(q).val, db[q]) ELSE db[q]
    BY <1>2 DEF forget
  <2> QED BY <2>1, <2>2 DEF Clouded
<1>6. ASSUME NEW q \in Key
      PROVE  Seen(q, job[q], Failed("unknown")) =
               legal[q] \cup {Execute(job[q].code, job[q].val, r) : r \in legal[q]}
  <2>1. Failed("unknown").code = "unknown"
    BY DEF Failed
  <2> QED BY <2>1 DEF Seen
<1>7. ASSUME NEW q \in E, Unflushed(q) = {}
      PROVE  /\ back[q] # << >> /\ job[q] # NoJob /\ job[q].code \in DbCodes
             /\ Pending(q).code = job[q].code /\ Pending(q).val = job[q].val
  <2> DEFINE b == back[q]
             e == Head(b)
  <2>1. q \in Key /\ b # << >> /\ b \in Seq(Entry) /\ chain[q] \in Seq(Entry) /\ Way(q) = b \o chain[q]
    BY PathParts
  <2>2. e \in Entry /\ (e.kind = "client" => job[q] \in Job /\ job[q].code \in DbCodes)
    BY <2>1, HeadOf
  <2>3. e.kind = "client"
    <3> HIDE DEF b
    <3>1. Flushes(b) = {}
      BY <1>7, <2>1, ConcatFlushes DEF Unflushed
    <3>2. e = b[1] /\ 1 \in DOMAIN b
      BY <2>1, TailAt, SMT
    <3>3. e.kind # "flush"
      BY <3>1, <3>2 DEF Flushes
    <3> QED BY <2>2, <3>3 DEF Entry
  <2>4. EntryCode(q, e) = job[q].code /\ EntryVal(q, e) = job[q].val
    BY <2>3 DEF EntryCode, EntryVal
  <2>5. Pending(q).code = EntryCode(q, e) /\ Pending(q).val = EntryVal(q, e)
    BY DEF Pending
  <2>6. job[q] # NoJob
    BY <2>2, <2>3, AbsentAssumption
  <2> QED BY <2>1, <2>2, <2>3, <2>4, <2>5, <2>6
<1>8. ASSUME NEW q \in Key, q \notin suspect'
      PROVE  \/ db'[q] = db[q]
             \/ /\ back[q] # << >> /\ job[q] # NoJob /\ job[q].code \in DbCodes
                /\ db'[q] = Execute(job[q].code, job[q].val, db[q])
                /\ IsWrite(q) => node'[q] = NoNode
  BY <1>5, <1>7, <1>8
<1> QED BY <1>4, <1>5, <1>6, <1>8

LEMMA RowsOpen ==
  ASSUME TypeOK, OneRequest, max_late = 0, late = {}, open_init_buffer, NEW q \in Key, Modes(q),
         ~Clouded(q) => Rows(q), ~Clouded(q)'
  PROVE  Rows(q)'
<1> DEFINE X == {Execute(job[q].code, job[q].val, r) : r \in legal[q]}
<1>1. /\ ~Clouded(q) /\ Unflushed(q) = {}
      /\ node[q] # NoNode /\ node[q].rowdirty => node'[q] # NoNode
      /\ IsWrite(q) /\ Unheard(q) => node'[q] = NoNode
      /\ legal'[q] = IF IsWrite(q) THEN legal[q] \cup X ELSE legal[q]
      /\ \/ db'[q] = db[q]
         \/ /\ back[q] # << >> /\ job[q] # NoJob /\ job[q].code \in DbCodes
            /\ db'[q] = Execute(job[q].code, job[q].val, db[q])
            /\ IsWrite(q) => node'[q] = NoNode
  <2>1. q \notin suspect'
    BY DEF Clouded
  <2> QED BY <2>1, OpenKey
<1>2. Rows(q) /\ node'[q] \in {node[q], NoNode} /\ Latest(q) = db[q]
  BY <1>1, OpenNodes DEF Unflushed, Latest, Settled
<1>3. Way(q)' = << >> /\ ret'[q] = << >> /\ DOMAIN << >> = {}
  <2>1. DOMAIN << >> = {}
    BY SMT
  <2> QED BY <2>1, OpenPaths
<1>4. Latest(q)' = db'[q]
  BY <1>3, RowsNext, EmptyQueue DEF Settled
<1>5. \A r : Execute("Get", job[q].val, r) = r
  BY DEF Execute
<1>6. job[q] # NoJob /\ job[q].code \in DbCodes => job[q].code = "Get" \/ IsWrite(q)
  BY DEF DbCodes, IsWrite, Writes
<1>7. db[q] \in legal[q] => Execute(job[q].code, job[q].val, db[q]) \in X
  OBVIOUS
<1>8. job[q].code = "Get" => X = legal[q] /\ ~IsWrite(q)
  BY <1>5 DEF IsWrite, Writes
<1> HIDE DEF X
<1>9. CASE Unanswered(q)
  <2>1. Settles(q)
    BY <1>2, <1>9 DEF Rows, Unanswered
  <2> SUFFICES Settles(q)'
    BY <1>3, RowsPrime
  <2>2. legal[q] \subseteq legal'[q]
    BY <1>1
  <2>3. CASE db'[q] = db[q]
    BY <1>1, <1>2, <1>4, <2>1, <2>2, <2>3 DEF Settles
  <2>4. CASE /\ job[q] # NoJob /\ job[q].code \in DbCodes
             /\ db'[q] = Execute(job[q].code, job[q].val, db[q]) /\ (IsWrite(q) => node'[q] = NoNode)
    <3>1. CASE job[q].code = "Get"
      BY <1>5, <2>3, <2>4, <3>1
    <3>2. CASE IsWrite(q)
      <4>1. node'[q] = NoNode /\ db[q] \in legal[q]
        BY <1>1, <1>2, <2>1, <2>4, <3>2 DEF Settles
      <4>2. db'[q] \in legal'[q]
        BY <1>1, <1>7, <2>4, <3>2, <4>1
      <4> QED BY <1>4, <4>1, <4>2 DEF Settles
    <3> QED BY <1>6, <2>4, <3>1, <3>2
  <2> QED BY <1>1, <2>3, <2>4
<1>10. CASE ~Unanswered(q)
  <2>1. PICK i \in DOMAIN ret[q] : AnswerAt(q, i)
    BY <1>10 DEF Unanswered
  <2> DEFINE c == ret[q][i].res.code
  <2>2. Way(q) = << >> /\ Heard(db[q], legal[q], node[q], job[q], ret[q][i].res)
    BY <1>2, <2>1 DEF Rows
  <2>3. job[q] # NoJob /\ job[q].code \in DbCodes
    BY <2>1, NobodyAnswered
  <2>4. back[q] = << >>
    <3>1. back[q] \in Seq(Entry) /\ chain[q] \in Seq(Entry) /\ back[q] \o chain[q] = << >>
      BY <2>2, PathParts
    <3> QED BY <3>1, ConcatAt, SMT
  <2>5. db'[q] = db[q] /\ db[q] \in legal[q] \cup X
    BY <1>1, <2>2, <2>4 DEF Heard, X
  <2>6. db'[q] \in legal'[q]
    BY <1>1, <1>6, <1>8, <2>3, <2>5
  <2>7. ASSUME node'[q] # NoNode PROVE ~node'[q].rowdirty /\ node'[q].val = db'[q]
    <3>1. node'[q] = node[q] /\ node[q] # NoNode /\ ~node[q].rowdirty
      BY <1>2, <2>3, <2>7 DEF Modes, CleanNode
    <3>2. ~Unheard(q)
      BY <1>1, <1>6, <2>3, <2>7, <3>1 DEF Modes
    <3>3. ret[q] \in Seq(Answer)
      BY DEF TypeOK
    <3>4. ret[q][i] \in Answer
      BY <3>3, EntriesOf
    <3>5. c \in {"ok", "dup", "refused", "unknown"}
      BY <3>4 DEF Answer, Result
    <3>6. c \in {"dup", "refused"}
      BY <2>1, <3>2, <3>5 DEF Unheard, AnswerAt
    <3> QED BY <2>2, <2>5, <3>1, <3>6 DEF Heard
  <2>8. Settles(q)'
    BY <1>4, <2>6, <2>7 DEF Settles
  <2> QED BY <1>3, <2>8, RowsPrime
<1> QED BY <1>9, <1>10
(* No statement is executed late. *)
LEMMA NothingLate ==
  ASSUME TypeOK, max_late = 0, late = {}, Next
  PROVE  late' = {}
<1>1. ~(Cardinality(late) < max_late)
  BY FS_EmptySet, SMT
<1>2. ASSUME NEW k \in Key,
             \/ job_ask_procedure(k) \/ tunnel_deliver(k) \/ ret_deliver(k)
             \/ purge_clean_node(k) \/ try_expired_blacklist(k)
      PROVE  late' = late
  BY <1>2, AskCases DEF tunnel_deliver, ret_deliver, purge_clean_node, try_expired_blacklist
<1>3. ASSUME NEW k \in Key, helper_execute(k) PROVE late' = late
  BY <1>1, <1>3 DEF helper_execute
<1>4. CASE chain_deliver
  BY <1>4 DEF chain_deliver
<1>5. CASE job_timer_procedure
  BY <1>5 DEF job_timer_procedure
<1>6. ~late_execute
  BY DEF late_execute
<1> QED BY <1>2, <1>3, <1>4, <1>5, <1>6 DEF Next

LEMMA RowsInit ==
  ASSUME RInit
  PROVE  RowsInv
<1>1. late = {}
  BY DEF RInit, Init
<1>2. ASSUME NEW k \in Key PROVE Rows(k)
  <2>1. /\ node[k] = NoNode /\ back[k] = << >> /\ chain[k] = << >> /\ ret[k] = << >>
        /\ legal[k] = {db[k]}
    BY DEF RInit, Init
  <2>2. Way(k) = << >>
    BY <2>1, EmptyQueue, ConcatNothing DEF Way
  <2>3. Latest(k) = db[k] /\ DOMAIN ret[k] = {}
    <3>1. Latest(k) = db[k]
      BY <2>2, EmptyQueue DEF Latest, Settled
    <3>2. DOMAIN << >> = {}
      BY SMT
    <3> QED BY <2>1, <3>1, <3>2
  <2> QED BY <2>1, <2>3 DEF Rows, Settles
<1> QED BY <1>1, <1>2 DEF RowsInv

LEMMA RowsAlways ==
  ASSUME ~mode_changes, Queueless, max_late = 0
  PROVE  RSpec => [](BaseInv /\ RowsInv)
<1>1. RInit => RowsInv
  BY RowsInit
<1>2. BaseInv /\ BaseInv' /\ ModeInv /\ ModeInv' /\ LastInv /\ RowsInv /\ [RNext]_allvars => RowsInv'
  <2> SUFFICES ASSUME BaseInv, BaseInv', ModeInv, ModeInv', LastInv, RowsInv, [RNext]_allvars
               PROVE  RowsInv'
    OBVIOUS
  <2>1. TypeOK /\ OneRequest /\ late = {} /\ Unused' /\ \A k \in Key : Modes(k) /\ (~Clouded(k) => Rows(k))
    BY DEF BaseInv, RTypeOK, ModeInv, RowsInv
  <2>2. ASSUME late' = {}, \A k \in Key : ~Clouded(k)' => Rows(k)' PROVE RowsInv'
    BY <2>2 DEF RowsInv
  <2>3. CASE Next
    BY <2>1, <2>2, <2>3, NothingLate, RowsKey
  <2>4. CASE UNCHANGED vars
    <3>1. UNCHANGED <<node, db, job, ret, late, legal, suspect>>
      BY <2>4 DEF vars
    <3>2. ASSUME NEW k \in Key, ~Clouded(k)' PROVE Rows(k)'
      <4>1. Rows(k) /\ Way(k)' = Way(k)
        BY <2>1, <2>4, <3>1, <3>2, SameRight DEF Clouded
      <4>2. Unanswered(k)' => Settles(k)'
        BY <3>1, <4>1, LatestSame, SettlesSame DEF Rows, Unanswered, AnswerAt
      <4>3. \A i \in DOMAIN ret'[k] : ret'[k][i].entry.kind = "client" =>
              /\ Way(k)' = << >>
              /\ Heard(db'[k], legal'[k], node'[k], job'[k], ret'[k][i].res)
        BY <3>1, <4>1 DEF Rows, AnswerAt
      <4> QED BY <4>2, <4>3, RowsPrime
    <3> QED BY <2>1, <2>2, <3>1, <3>2
  <2>5. CASE open_init_buffer
    BY <2>1, <2>2, <2>5, OpenKey, RowsOpen
  <2> QED BY <2>3, <2>4, <2>5, RunOrOpen
<1> QED BY <1>1, <1>2, LastAlways, PTL DEF RSpec

(* A quiet key has no request in work, and nothing of it failed unheard. *)
LEMMA QuietSettles ==
  ASSUME BaseInv, RowsInv, NEW k \in Key, Quiet(k)
  PROVE  Settles(k)
<1>1. TypeOK /\ OneRequest /\ job[k] = NoJob /\ ~Clouded(k)
  BY DEF BaseInv, RTypeOK, Quiet, Clouded
<1>2. \A i \in DOMAIN ret[k] : ~AnswerAt(k, i)
  BY <1>1, NobodyAnswered
<1> QED BY <1>1, <1>2 DEF RowsInv, Rows

(***************************************************************************)
(* Theorem: the clean copy of a key that nobody works on is the row that   *)
(* the database has or gets from the flush requests on their way, whatever *)
(* was requested, answered, evicted, flushed, failed or restarted before.  *)
(* The mode stays, no write-back cache shares its thread with the          *)
(* connector, and a statement that timed out is executed by then or never. *)
(***************************************************************************)
THEOREM CopiesCurrent ==
  ASSUME ~mode_changes, Queueless, max_late = 0
  PROVE  RSpec => []CleanCopyIsCurrent
<1>1. BaseInv /\ RowsInv => CleanCopyIsCurrent
  BY QuietSettles DEF CleanCopyIsCurrent, Settles
<1> QED BY <1>1, RowsAlways, PTL

(***************************************************************************)
(* Theorem: under the same assumptions the row that the next Get of a      *)
(* quiet key is answered with is one that all answers given so far allow:  *)
(* no acknowledged write is lost and no deleted row comes back.            *)
(***************************************************************************)
THEOREM WritesKept ==
  ASSUME ~mode_changes, Queueless, max_late = 0
  PROVE  RSpec => []NoWriteLost
<1>1. BaseInv /\ RowsInv => NoWriteLost
  <2> SUFFICES ASSUME BaseInv, RowsInv, NEW k \in Key, Quiet(k)
               PROVE  (IF node[k] = NoNode THEN Latest(k) ELSE node[k].val) \in legal[k]
    BY DEF NoWriteLost
  <2> QED BY QuietSettles DEF Settles
<1> QED BY <1>1, RowsAlways, PTL
=============================================================================
