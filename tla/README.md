# DTC, the distributed table cache: a verification project

DTC is a cache in front of MySQL tables. An *agent* spreads the requests of
clients over cache servers by consistent hashing; a cache server (*dtcd*)
answers from shared memory or asks a *connector* process, the helper, which
executes SQL statements; *hwcserver* processes follow a log of changes to keep
a second copy. This directory holds TLA+ models of the parts of dtcd and of the
agent that are hard to test, the TLC runs that check them on small instances, and proofs,
checked by TLAPS, of what holds for instances of any size.

Paths below are relative to `src/src/`.

## 1. The system

### A request's way through dtcd

`core/main.cc` (170-342, one thread, the default; 344 on, several threads)
builds a chain of units. Each unit is a JobAskInterface (`job_ask_procedure`)
and hands a job to the next one; the units a job has passed are pushed on its
reply path (`TaskReplyList`, `libs/common/request/request_base.h`) and get it
back in `job_answer_procedure`, last one first.

    agent / client --> JobHub --> SystemCommand --> front barrier
       --> KeyRoute (--> RemoteDtc) --> BufferProcess (--> HotBackup)
       --> [back barrier] --> DataConnector --> helper --> MySQL

The back barrier is built when rows are written later than they are
acknowledged (DelayUpdate, here *ASYNC*), or when a server without delay (*SYNC*)
attaches to memory that an ASYNC server left dirty. Between two units is a
`ChainJoint`: in one thread it calls the next unit at once, but jobs given to
`indirect_notify` wait in its queue for a ready timer; between threads it is a
FIFO tunnel in both directions.

One turn of the event loop (`libs/common/poll/poller_base.cc`, 59-87) handles
all I/O events, then expired timers, then ready timers. Handlers run to their
end. So an action of the models is a handler, and concurrency comes from the
order of handlers, of messages between threads and processes, and of timers.

### Parts

| part | state | operations | hard to test |
|---|---|---|---|
| Barrier, front and back (`core/chain/barrier_*`) | queue of requests per key, count and free list of queues, joint's queue, reply paths | ask, answer, ready timer | key that stays blocked, limits, order, answer that goes to the wrong unit |
| BufferProcess (`core/chain/buffer_process_*`, `core/buffer/buffer_flush.cc`, `core/raw/`) | cached rows with dirty flags, pending flushes, black list, `memory_dirty_` | Get, Insert, Update, Replace, Delete, Purge, Flush, their answers, flush answers, flush timer, eviction | write that overtakes a flush, outcome that nobody knows, memory that runs out half-way |
| Connector (`libs/common/connector/`) | connections with a stage each, free list, queue, error counts | ask, flush, connect, verify, send, receive, check, reload, hangup, timeout | reply of one request taken for another's, connection lost to the pool, job answered twice or never |
| HotBackup (`core/hotbk/`, `core/log/`, `core/task/task_pendlist.cc`, `hwcserver/`) | log files, one reader for all slaves, polls that wait, a journal id per slave | log a change, log an access (LRU), register, poll, wake, time out, restart of either side | record skipped at a change of file, poll never woken, journal id ahead of what was applied |
| BufferPond (`core/buffer/buffer_pond.cc`) | hash, clean, dirty and empty lists, time markers, counters in shared memory | find, allocate, purge, move between lists | kill in the middle of a change, counters that drift |
| KeyRoute, FileBackedKeySet, RemoteDtc (`libs/common/key/`, `libs/common/file_backed_key_set.cc`, `libs/common/remote_dtc_*`) | state of the cluster's nodes, set of migrated keys, file of either | route, migrate, change of node state, reload, cascade, start | key served by a server with an old row or none, kill between change and save |
| DataConnector's routing (`libs/common/data_connector_ask_chain.cc`) | groups per machine, guards of slaves | choose group, migrate, switch | read that misses the client's own write |
| JobHub, multi requests (`libs/common/multi_request.cc`, `agent/`) | open sub-requests of a batch | split, collect, client goes away | count that never reaches zero |
| agent (`agent/`) | queues of client and server connections, tree of requests that dtcd has, timeout tree, connections with something to send | accept, login, forward, answer, time out, close of either side | late answer after a timeout or a close, message in a queue after it was freed, answer that nobody sends |
| others | see `components` in PROJECT.json | | |

### Modes

`BufferProcess` models a cache in front of a database
(DTC_MODE_DATABASE_ADDITION) in the modes SYNC and ASYNC; a SYNC cache may
update its copy after a write or purge it (INSERT_ORDER_PURGE).

## 2. Modules

| module | models |
|---|---|
| `Barrier` | BarrierAskAnswerChain |
| `SerialByKey` | what a barrier promises: per key one request at a time, in order of arrival |
| `BarrierSerial` | the refinement mapping from Barrier to SerialByKey |
| `MCBarrier` | an instance of BarrierSerial |
| `BarrierProofs` | theorems about Barrier, and that it implements SerialByKey |
| `BufferProcess` | the cache unit, composed with joint or tunnel, back barrier and database |
| `BufferRestart` | BufferProcess with the end of dtcd, by a stop or a kill, and its next start |
| `BufferProofs` | theorems about BufferRestart: types, the count of flush requests |
| `BufferKeyProofs` | what a step does to one key; replies, the black list, dirty rows, Deletes |
| `BufferRowProofs` | the rows of a key; copies and acknowledged writes |
| `Connector` | ConnectorGroup and ConnectorClient, with the helper as environment |
| `ConnectorProofs` | theorems about Connector: free list, counts and queue; jobs; replies |
| `HotBackup` | log, reader, pending polls of the master, and the slaves |
| `HotBackupProofs` | theorems about HotBackup: records in order |
| `KeyMigrate` | migration of keys between two servers: KeyRoute, FileBackedKeySet, RemoteDtc and `buffer_migrate` |
| `KeyMigrateProofs` | theorems about KeyMigrate: tables, files and restarts; copies |
| `Agent` | the agent: the life of a message between client and server connections |
| `AgentProofs` | induction and lemmas about sequences; theorems about Agent: messages in their places; output that leaves |
| `Queues` | removal from the intrusive lists of the agent |
| `MCBufferProcess` | an instance of BufferRestart |
| `MCConnector`, `MCHotBackup`, `MCKeyMigrate`, `MCAgent` | instances: configurations, and the symmetry of model values |

Operators have the names of the functions they model; PROJECT.json gives the
lines of each. Operators with a suffix (`accept_key_Recorded`) are mutants:
plausible mistakes at that place. They are used only to see that a property
fails when the code is wrong in that way.

### Barrier

`barrier[k]` is the BarrierQueue of a key, empty when the key has none;
`count` and `free` are the numbers of queues in use and on the free list;
`queue` is the joint's queue; `reply` the reply paths. The unit behind is the
environment: it answers in any order, but every job in the end. Asking has one
action per way out of `job_ask_procedure`: bypass (admin commands, batches),
first of its key, blocked behind others, and two refusals. Answering takes the
head off the key's queue, pushes the barrier on the next one's reply path and
leaves it to the ready timer, all in one step as in the code.

### BufferProcess

`config`, chosen in Init from the constant set Config, says whether the cache is
SYNC or ASYNC, updates or purges copies, and hands jobs on in its own thread or
through a tunnel. So one run covers several configurations. Memory is empty at
first; only a start (below) changes `config`.

One key has one client request at a time (that is what Barrier shows), so `job`
is a function of the key. `node` is the cached row with the flag of the node
(dirty list) and of the row; `chain`, `back` and `ret` are the ways to the
database and back, `db` is the database, `late` what it may still execute after
the connector gave up. Two variables are there for the properties: `legal[k]`
is the set of rows that the answers given so far allow, and `suspect` has the
keys for which the code itself logs that it ignored a failure.

Abstractions:
- one row per key (the key is the unique field); columns are not told apart;
- memory is its outcomes: storing may fail at every place where the code checks
  for it, and a clean node may be evicted at any time;
- the age of dirty nodes is left out: the timer may take any of them;
- an Update that changes nothing reports 0 or 1 affected rows, since that
  depends on UseMatchedAsAffectedRows;
- the empty-node filter, always off after `main_supply.cc:260`, lossy mode and
  m_bReplaceEmpty, off by default, are left out, as are batches and
  admin commands.

### BufferRestart

The rows are in shared memory, and survive dtcd with their dirty flags.
`free_all_resource` stops the threads one after the other, each at the end of its
turn, and waits for no request: what is in a tunnel, with the connector or
not yet answered is lost, but the connector's thread, if it has its own, still
serves its tunnel for a while (`datasource_thread`). Then `~BufferPond` sets
`m_shmIntegrity`, the mark that the memory is intact. A kill sets nothing. The
next start (`cache_open`, `open_init_buffer`) clears the mark. If there is none,
it deletes the memory (AutoDeleteDirtyShareMemory, off by default) or uses it
as it is, and then its own normal stop does not set the mark either. Statements
that were with the database may or may not be executed (`forget`), or later
(`late`). Writes that nobody answered have an unknown outcome for `legal`.

`forget` puts a key in `suspect` for four reasons, and with any one left out
CleanCopyIsCurrent or NoWriteLost fails: a flush request is lost though the node
is marked clean; the failure of a flush is not heard; a write is executed but
its answer not processed, so that an old copy stays; a dirty row is deleted with
the memory. A kill falls between two handlers.

### Connector

Each connection has the `stage` of the source, the job it `held`, and `wire`,
the requests its helper has not answered. A group has its queue; a slave group
may fall back to the master's. `flush_task` is one turn of its loop, and
`flushing` keeps everything else out until the loop ends. `outcome` says not
only that a job was answered but whether by its own reply. `i_enable_check`,
chosen in Init, is EnableHwc of the configuration: whether a write without a
reply is checked with the helper before it is answered.

Abstractions: any free connection may be taken; a packet sent in part has not
reached the helper; a decode that needs more data changes nothing; time is any
time: a timer that is armed may fire, a job with a deadline may become
overdue; failing epoll_ctl and `new` are left out, and so is a job that is asked
from inside the answer of another one.

### HotBackup

A file of the log is a sequence of parts, two per record (length and body), and
offsets count parts. This is the coarsest view in which a write can be cut
short and a reader can stand in the middle of a record. `reader` is the one
LogReader that all slaves share. `_pendlist`, `_wakeup` and `timer` are the
TaskPendingList; `timer` has one value because the timer object is on one list
at a time. The loop that asks waiting polls again is one turn at a time with
`copy`, and nothing runs in between. A slave registers twice, then polls with
its journal id, applies and saves; it may stop between applying and saving.

Abstractions: a poll asks for one record, hwcserver's default
(`hwc_sync_unit.h:75`); a misplaced read has any of its three outcomes; a poll
may survive two timeouts because ages are compared in whole seconds; a restart
of the master is one of the process, with its files and the shared memory
intact. Changes are logged once a slave has registered, as
`log_hotbackup_key_switch_` has it; a change of which no record can be made (no
memory, no key) is no step, and files can always be opened.

### KeyMigrate

Server A has all keys; server B joins, and the keys of the module are those that
the hash gives to B. `table`, `state`, `index` and `cascading` are what A's
KeyRoute knows, `cfgfile`, `statfile` and `keyfile` what its three files hold:
the cluster configuration, `cluster.stat`, and the recorded keys with a status
byte each. The status is only in the mapped file, so `Contains` reads it there;
`index` is the hash table over it, which a start builds anew (`Load`). `cache`
has a copy per server and key, `wire` the Migrate requests on their way to B,
`asked` A's Migrate job. RemoteDtc is a group of connections (16 by default,
`main_supply.cc:350`), and a request goes to whichever is free: B may handle the
requests of `wire` in any order, and a Migrate that A has stopped waiting for after
later requests of its key. `destination` and `refused` are the decisions of
`job_ask_procedure`. As in BufferProcess, `config` is chosen in Init: the mode,
fixed or variable size of keys, whether B may run out of memory, and the places
inside a handler where A may be killed. A kill between two handlers is always
possible (`Crash`); shared memory survives both.

`irregular` becomes true when a command leaves the procedure of a migration:
moving, then read-only, then completed once A has nothing left that only A
has. The code allows nearly every change of state, and with the wrong one keys
do change hands with an old row; the properties about rows are stated for
the procedure, the one about restarts for all commands. Two more variables
record what the properties about rows must except. A key is `overtaken` once it
is written on B with a Migrate of it still under way: `buffer_migrate` compares no
versions, and the late row replaces the newer one (section 4). It is `evicted`
when a server without a database has evicted its row, which `try_purge_size` does
unless it is configured not to (`main_supply.cc:230`).

Abstractions: the cache unit is a copy per key with a dirty flag, since
BufferProcess has the rest; a Get or a write that A passes on is one step, so
that its answer is not lost, and B serves its keys itself; A's front barrier lets
one request of a key in at a time. Left out: `change_node_address`, `get_cluster_state`, a state
file that cannot be opened, a key file that cannot grow.

### Agent

`core_loop` is three phases of a turn: events, then the connections of
`wait_send_queue`, then timeouts. Connections are slots that are used again,
as the pool of connection objects does. `cli_in`, `cli_out`, `sev_in` and `tree` are
the containers a request can be in, `tmo` is the timeout tree in the order of
expiry (all timeouts are equally long), `msg` the flags of each message.
`fresh` has the connections made in this turn, for which epoll reported nothing
yet. `active` is SEND_ACTIVE: epoll is asked when the connection can send.
`waiting` and `stray` belong to the clients and serve the property: the request
a client waits for, and answers that went to a client not waiting for it.

`server_timeout` is the Timeout of the pool of servers. Only a positive one gives
messages a timeout (`msg_tmo_insert`), and the default is -1 (`da_conf.h:35`); 0
stands for all that are not positive. What the agent does with an answer depends
on the admin code in the answer, which dtcd sets by the statement
(`packet_server.cc:1341`) and not by the code of the request, so `rsp_recv_done`
takes either code for every request. A client that sends the statement of the
agent's own request for the key is thus left without an answer. dtcd sends no
third code, for which `da_response.c:310` would leave the request in the in queue.

A send takes any number of whole messages; what was handed to `writev` and did
not leave keeps `sending`, as the code has it, and is treated differently when it
times out. Every close may happen at any event of its connection.

Abstractions: a request arrives whole; a client has one request at a time;
whether the agent answers a command itself or forwards it is a free choice;
one server with the master instance only. Left out: failing allocations,
choice of servers and replicas, statistics, hand-over of sockets at an
upgrade. Splitting a request is switched off in the source (`da_request.c:605`).

## 3. Runs

A run that passes explores all states of its instance.

| run | asks | states |
|---|---|---|
| `barrier` | order, exclusion, limits, answers, liveness, refinement of SerialByKey | 17,172 |
| `buffer_cache` | stale copies, lost writes, dirty rows and their flushes, over two ends of dtcd; five configurations | 1,884,138 (symmetry) |
| `buffer_one_thread` | one answer for each request, exact count of flushes; a SYNC start on the memory of an ASYNC cache gets clean | 86,245 |
| `connector_pool` | pool, queue and answers through all failures, without the check of writes | 849,592 (symmetry) |
| `connector_live` | the same for one connection, with and without the check; queue limit; timers alone get jobs answered | 287,406 |
| `hb_sync` | no record skipped, polls woken, rotation and restarts | 978,152 (symmetry) |
| `hb_live` | polls answered, slaves catch up | 31,692 |
| `migrate` | a key that moves is served with its last row, no old row is flushed, restarts are atomic; three modes | 1,187,541 |
| `agent` | every message in its place, answers to their own clients, nothing left unsent | 1,164,698 (symmetry) |
| `agent_live` | every message is given back, with a Timeout | 56,831 |

Two more runs, in section 4, show where code and text disagree.

### What the properties say

*Barrier.* A request past the barrier is the head of its key
(`PassedJobIsHead`), which is exclusion and makes two error messages of the
answer path unreachable. `BarriersBounded` relates the counters to the queues in
use. `EveryJobAnswered` is liveness, `ImplementsSerialByKey` the refinement.

*Cache.* `CleanCopyIsCurrent`: a clean copy nobody works on equals the row the
database has or will have from the flushes under way. `NoWriteLost`: the next
Get is allowed by all answers so far. `FlushedBeforeDelete` and
`BlackListedIsNotCached` are claims of comments. `FlushCounted` is the throttle
of the flush timer. `DirtyRowFlushed`: a dirty row leaves the memory only as a
flush request of its value, and survives every end of dtcd unless a kill came
before and a start deletes the memory. `MemoryBecomesClean` is about a start on dirty memory, `EveryRequestAnswered`
and `NoDoubleReply` are about answers.

*Connector.* `PoolConsistent` and `JobInOnePlace` tie free list, stages, jobs
and the count of ready connections together. `SentOnce`: no statement is executed
twice by a retry. `OwnReply`, `SuccessWasReported` and `QueueBounded` are about
the ways a connection can go wrong;
`EveryJobAnswered` and `OfflineAnswersAll` are liveness.

*Hot backup.* `NoRecordSkipped` and `JournalNotAhead` say that what a slave has
applied is a prefix of the log that covers its journal id, through rotation,
deletion and restarts. `EachReadIsARecord`: whatever
the shared reader was used for before, a poll gets one whole record.
`NewsWakesAtOnce` is about the one timer object of the waiting polls, which is
on the ready list or on the timeout list and must not miss a change.
`EveryPollAnswered` and `SlavesCatchUp` are liveness.

*Migration.* `ServedCopyIsCurrent`: the server that gets the next request of a
key has the last acknowledged write, or none when a server without a database
evicted it. `NoStaleFlush`: no dirty copy anywhere is older than that write, so that
no late flush sets the shared database back. Both are silent about overtaken keys.
`RestartIsAtomic`: a start after a kill finds the tables from before or from
after the command that was interrupted, or refuses to start.

*Agent.* `MessageInPlace` says for each message in which containers it is, from
its flags; a message that was freed is in none, so no container has a
dangling pointer. `OwnAnswer`: an answer goes to the client that waits for it, not
to the next client on the same connection object. `OutputHasTrigger`: a connection
with something to send is in `wait_send_queue`, or asked about in epoll, or about
to be closed. `EveryMessageEnds`: with a Timeout messages do not leak, even if dtcd
never answers; without one a message is given back or is with dtcd.

### Bounds, and why they are enough

- `barrier`: four requests and a bypassing one at a key with room for three, three
  keys with room for two: both limits are hit, and queues are reused.
- Cache: three values tell a row in the cache, one under way and one in the
  database apart. In `buffer_cache` one key is enough: while the mode does not
  change, keys share only the flush counter, the joint's queue and the memory,
  and memory may run out at any time anyway. Two ends of dtcd (`max_restart`) are
  a kill, a start on the unmarked memory, a stop that sets no mark, and a start
  that deletes. The mode stays (`mode_changes`); section 4 says why. A key has up to three requests on
  the way (`max_chain`), so a client request meets two earlier flushes.
  `buffer_one_thread` has two keys, which share the counter (limit 1), the queue
  and the end of the flush timer, clients that Get, Update, Purge and
  Flush, and one end of dtcd after which it may start in the other mode. `max_late` is 1 there: the database may execute a statement after the
  timeout. Memory does not run out in it: `NoDoubleReply` fails when it does (see
  section 4).
- Connector: two connections and a queue of one with three jobs, a read, a write
  and a flush without deadline, fill the pool and the queue. In `connector_live`
  there is one connection, so that jobs contend for it.
- Hot backup: files of two records and four records make a slave cross files and
  lose one to deletion; two slaves share the reader. Writes do not fail
  (`max_short` 0); section 4 says what happens when one does.
- Migration: keys share nothing but the files, so one key is enough; two writes
  tell an old row from a new one on each side, and two requests under way
  (`max_wire`) are one that A has stopped waiting for and its repetition, in
  either order. SYNC has kills at all places inside a handler; with ASYNC and
  CACHE_ONLY they are between handlers, since the files behave alike in all modes and
  the kill "purge" costs the row there (section 4). B has memory for a write-back row.
  The key has a fixed size.
- Agent: two clients, so that one can take over the place of the other, one
  connection to dtcd, and three messages (`max_msg`), enough for the login of the
  second client and a request of each. A connection is at most twice in
  `wait_send_queue`, so `sum_nconn` 6 is room for all; section 4 has less. Two
  connections to dtcd were checked as well, with a known key and room for 8
  (454,881 states), to the same result. The pool has a Timeout (`server_timeout` 1);
  without one both runs give the same result (342,071 and 11,504 states).

### Fairness, and why the code justifies it

Weak fairness is on what the event loop does on its own: ready timers, flush
timer, tunnels, connection timers, expiry of deadlines, the pending list's timer.
`Barrier` and `BufferProcess` assume that a job with the database is answered;
`connector_live` shows that timers alone achieve it for a job with a deadline
when writes are not checked. Nobody need start a dtcd that has ended: the watchdog
forks it again only after a crash (`daemons/main_entry.cc:72-105`), so that the
liveness of BufferRestart ends with the process. When writes are checked, a helper that takes a request in ever
smaller parts, or whose early input disarms the timer of the send, can hold
a job for ever, so `EveryJobAnswered` is stated without the check.
Flush jobs have none; they are answered when the group is OFFLINE
(`OfflineAnswersAll`) or a connection works. `flush_task` has strong fairness:
the group's timer runs in the turn of the event loop in which a connection
became free. A slave in `hb_live` goes on registering and polling, since its
loop has no other exit.

In `agent_live` the turns of `core_loop` go on (weak fairness of each phase) and
time passes: again and again all timeouts set so far have expired when the
timeouts are looked at. Strong fairness is on what epoll reports: a connection
it is asked about can send everything, because the peer reads or closes, and an
error of a connection is reported and closes it. Nothing is assumed of dtcd's
answers or of a client's requests.

CHECK_DEADLOCK is off where the system may stop: all requests answered
(`barrier`), behaviour undefined after a double reply (`buffer_cache`), all
slaves gone (`hb_sync`).

## 4. Disagreements between code and text

Each of these runs checks one property that a comment, message or document of
the repository states, and TLC finds a behaviour of the code against it.
PROJECT.json quotes the lines.

| run | what happens |
|---|---|
| `update_lost` | in one thread an Update of an evicted key overtakes the queued flush of its older row, which then replaces the update |
| `migrate_variable_keys` | a start that finds keys of variable size takes the status byte of a record for the length of the key, and forgets which keys have moved |

The first needs only an unlucky order, the second a restart during a migration.

The models have more behaviours of this kind. To see one, give the constants
the values named here and check the property; where a line is quoted, that
is the text the behaviour disagrees with.

| module, constants | property | what happens |
|---|---|---|
| BufferProcess, SYNC in one thread (WriteThroughOneThread), Code {"Get", "Replace"} | WriteThrough | a Replace with unknown outcome leaves the old row cached (`buffer_process_ask_chain.cc:2165`; the repository's README.md:22 "write-through policy, ensure cache and database data consistent") |
| Connector, one connection each in the master's and the slave's group, two reads | MustHaveFreeHelper | `has_free_helper` (`connector_group.h:62`) is true when no helper is free (`:101` "process a job, must has free helper") |
| Connector, one connection, one write, EnableHwc {TRUE} | SuccessWasReported | a hangup during a check answers the write with success (`connector_client.cc:141`; `connector_client.h:70` "If hangup_notify --> complete_task(error) -->Reconnect") |
| HotBackup, max_short 1 | EachReadIsARecord | after a short write (`logger.cc:184`) two records are read as one (`logger.h:163` "顺序读，每次读出一条binlog记录", one record each time) |
| KeyMigrate, ASYNC with scarce memory | ServedCopyIsCurrent | B has no room for a dirty row, purges its node and answers with success: the row is lost |
| KeyMigrate, ASYNC or CACHE_ONLY with the kill "purge" | ServedCopyIsCurrent | A is killed between purge and mark, and serves the key without its row |
| KeyMigrate, any kill of "config", "keyset", "open" | up # "refused" | the files disagree and A does not start until the operator removes `cluster.stat` |
| Agent, sum_nconn 3 (client_connections + 1) | OutputHasTrigger | `wait_send_queue` is full and a connection with something to send is dropped; `server_pool_each_calc_connections` (`da_server.c:878`, "calc the total server connection numbers") counts server connections only with replicas |
| Agent, server_timeout 1 | [][\A i \in Msg : phase = "timeout" /\ ~msg[i].swallow /\ msg'[i].swallow => i \notin Range(tmo')]_vars | `core_timeout` (`da_core.c:401-403`) gives a new timeout to the half-sent message it has just marked to be swallowed (`da_msg.c:92` "ASSERT(!msg->error && !msg->swallow)", which is compiled out or only logs unless the build panics on assertions, `da_util.h:81`) |
| KeyMigrate, ASYNC, with Key for Key \ overtaken | ServedCopyIsCurrent, NoStaleFlush | A stops waiting for a Migrate, B is declared COMPLETED, a write is passed on to B, and then the Migrate arrives over another connection: B puts the old row over the new one (`buffer_process_ask_chain.cc:3797-3857`), and flushes it when it came dirty |
| Agent, server_timeout 0 | EveryMessageEnds, without its second disjunct | no Timeout is configured, dtcd never answers, and the message stays for ever |
| Agent | stray = {} | a client gets the error of the agent's own request for the key, which it never made |
| BufferProcess, ASYNC in one thread | FlushedBeforeDelete | a Delete reaches the database before the flush that is meant to precede it |
| BufferProcess, SYNC, max_late 1 | WriteThrough | a statement executed after the timeout leaves a stale copy |
| BufferProcess, ASYNC, memory may run out | NoDoubleReply | a Flush of a node that is dirty without a dirty row is answered twice |
| BufferRestart, an ASYNC cache started as SYNC (mode_changes TRUE, max_restart 1), AutoDelete {FALSE} | NoWriteLost | an Update to the row that the database still has changes nothing there (`:1498` of `buffer_process_ask_chain.cc`), so that the older dirty row stays, is served and is flushed; and a Purge drops a dirty row, since `buffer_purge_data` (`:1101`) looks at the mode only |
| BufferRestart, SYNC, Code {"Get", "Update"}, max_restart 1, AutoDelete {FALSE} | WriteThrough | dtcd ends, also by a stop, after the database has executed an Update and before its answer is processed: the next one serves the old copy |
| BufferRestart, ASYNC, otherwise the same | CleanCopyIsCurrent, without the first reason of `forget` | dtcd ends, also by a stop, with a flush under way: the row is marked clean and never written |
| BufferRestart, ASYNC, AutoDelete {FALSE, TRUE}, max_restart 2 | DirtyRowFlushed, with the exception only while state = "killed" | after a kill and a start that uses the memory a normal stop sets no mark, and a later start with AutoDeleteDirtyShareMemory deletes the dirty rows |
| Connector, EnableHwc {TRUE} | IdleIsQuiet | a connection is free while the reply of a check is under way |
| Connector, with reload | NoStrayAnswer | an error during a reload answers a job nobody asked |
| Connector | HangupPushesBack | a hangup while sending answers with an error instead of queueing again |
| Connector | RetryCounts | the error of a failed send outlives the successful retry |
| HotBackup, max_short 1 | ReaderFileIsCurrent | a failed seek leaves the reader with another file than it believes |
| HotBackup, max_short 1 | JournalBetweenRecords | a missing body leaves the journal id inside a record |

Two observations are not in the models. A restart of the master begins a file of
the log and deletes none, so that the log outgrows its configured size by one
file per restart. And `rsp_send_next` (`da_response.c:439`) builds an error reply
anew at every attempt, so that one that was sent in part is sent again from its
beginning, although `da_msg.c:645` says "process remaining bytes later".

## 5. Proofs

`BarrierProofs` proves, for every set of requests, every finite set of keys and
all limits (assumptions KeyAssumption, BypassAssumption, LimitAssumption of
`Barrier`):

- `TypeCorrect`, `PassedIsHead`, `NoKeyForgotten`, `LimitsKept`: the invariants
  TypeOK, PassedJobIsHead, HeadHasPassed (the head of every key is with the next
  unit or in the joint's queue) and BarriersBounded;
- `Invariance`: the inductive invariant they follow from.

The safety invariants are not inductive by themselves: after an answer the next
request of the queue becomes the head, and to see that no other request of the
key is past the barrier one needs to know that the one answered was not also in
the joint's queue, and that the next one belongs to this key and does not
bypass. The invariant `IInv` adds exactly that: `QueuesAreKeyed`, a
BarrierQueue holds only requests of its key that do not bypass, and
`QueuedNotAsked`, a request in the joint's queue is not yet with the next unit.
That a request is parked only once is not needed. `BarriersBounded` and `TypeOK`
support each other: `count` is not decremented below zero because it is the
cardinality of a set that has the key. The proof has one lemma per way of
asking, one for the timer and two for answers, and in each one step per part
that the action disturbs. Facts about Append, Tail and Cardinality are lemmas at
the beginning.

The second half of `BarrierProofs` proves `BarrierImplementsSerial`: Spec of `Barrier` implies
Spec of `SerialByKey` under the mapping of `BarrierSerial`, from the same
assumptions. A request runs while the next unit has it, so that the head of a
key waits as long as it is in the joint's queue. Asking starts, accepts or
refuses; the timer starts the heads that are in the joint's queue, all in one
step; an answer finishes and starts nothing. `IInv` gives all of this except that
a request that comes is new to the abstract specification. `SInv` adds it as
`NewIsUnknown`: a request that has not come is in no queue and not with the next
unit. Each way of taking a step has its lemma.

The proofs about `KeyMigrate` hold for every set of keys, any number of writes
and of requests under way (MigrateAssumption and NoneAssumption, which only says
that `None` is none of the values it stands beside), and for the configurations
that two hypotheses name:

- `FixedSize`: keys are of fixed size, so that `Load` finds all of them. The
  violation run `migrate_variable_keys` shows that it is needed;
- `Sheltered`: a write-back B has memory for what it is sent, and A is killed
  between purge and mark only with write-through. Section 4 has what happens
  otherwise.

The first half of `KeyMigrateProofs` needs the first only. `RouteInvariance` is about the
invariant `RouteInv`: while A runs, its tables are what a start would read from
its files (`FilesAgree`); when it has been killed, its files give one of the two
tables it may come back with, or it does not start (`Restartable`); and only
the last request under way is awaited, and none that has an answer
(`Awaited`). The last part is why a killed A has no job whose answer could still
arrive, and why an answer is never that of an earlier Migrate.
`RestartAtomic` and `MigrateTypes` (RestartIsAtomic and TypeOK) follow from it.

The second half needs both. Its invariant `Rows` says, of a migration that
follows the procedure, where the last write of each key that is not overtaken is, by the files of A
and not by its tables, so that it speaks of a killed A too. A key is untouched
(B has no copy and nothing is under way), recorded, or moved (B has the last
write, and A has no copy of a key that is marked as moved). What a server without
a copy has is in the database or, without one, was evicted (`Backed`). Nothing old is under way or with B, and A's copy is old
only when it is clean and B serves the key. With files A cannot start from,
only this last part is claimed. The argument: A refuses to write a recorded key,
and a write on B with a request under way makes the key an overtaken one, so
that of all others no request gets older than the key while it is under way; a mark
is set only when a request with the row has arrived; and COMPLETED is reached only when A has nothing that the database has not.
`ServedCurrent` and `FlushCurrent` (ServedCopyIsCurrent and NoStaleFlush) follow.
There is one lemma per action, and `RowKept` for the keys that a step leaves
alone. TLC, too, finds `RouteInv` and `Rows` to hold on the instance of the run `migrate`.

The proofs about `Connector` hold for any finite sets of connections in one or
two groups, any jobs and any `queueSize`, `maxTryConnect` and number of reloads
(HelperAssumption, JobAssumption, BoundAssumption).

`ConnectorProofs` proves `PoolAgrees` (PoolConsistent), `PoolTypes` (TypeOK)
and `QueueIsBounded` (QueueBounded) without hypotheses. `PoolInv` is the first
two together, since each is needed for the other: the count of ready connections
is decremented only by one that counts, and is therefore a natural number. The
handlers of a connection are taken apart into what they do to the pool
(connect_error, Ready, Reset, reconnect), and each of these has a lemma. The
queue grows in two ways. `job_ask_procedure` appends when it is shorter than
`queueSize`, and the connections have at most one job each; `queue_back_task`
puts in front what a connection gives up, which leaves the sum as it was.

It goes on with `StatementSentOnce` (SentOnce) without hypotheses and
`JobPlaced` (JobInOnePlace) when there is no slave group (`OneGroup`): with one,
a job can be given to a group that has no free connection (MustHaveFreeHelper in
section 4), and is then nowhere. SentOnce says nothing about a connection that
is about to send. `JInv` adds that its job was not sent, that no job is in two
places, and that the open jobs are those in some place or lost to that
undefined behaviour. `NoFallback` shows that this never happens in one group.

Last it proves `ReplyIsOwn` (OwnReply) and `SuccessReported`
(SuccessWasReported) when doubtful writes are not checked (`NoCheck`); with the
check SuccessWasReported does not hold, as section 4 says. `RInv` has the reason:
what the helper was asked over a connection and has not answered is exactly what
the stage of the connection waits for, since every way out of a wait but the
reply closes the connection.

`HotBackupProofs` holds for any number of slaves, records and restarts and files
of any size (SlaveAssumption, SizeAssumption, BoundAssumption). `Types` (TypeOK)
has no hypothesis. `RecordsInOrder` (NoRecordSkipped), `JournalBehind`
(JournalNotAhead), `RecordsWhole` (EachReadIsARecord) and `NewsWakes`
(NewsWakesAtOnce) are for `max_short = 0`, when no write to
the log fails or is cut short: LogWriter goes on after such a write, and
what is read then is not a record. None of the four is inductive. `HBInv` adds
what the log is (`LogInv`: every file has whole records, records go up across
files, none is missing, `_cur_size` is the length of the last file, and the
files that exist are the last ones, without a gap), that the reader's file has
the reader's serial, and that every saved journal id and every waiting poll is a
place between two records, not ahead of what its slave has applied. The center
of the argument is `ReadNext`: from such a place `Read` returns the first record
after it, through ends of files, empty files and missing ones. That record is at
most one more than what the slave has, because the one before it is in the log,
therefore before the place, therefore applied. A poll that starts to wait has
seen all records, since none lies after the writer's place; from then on a
change sets the ready timer, and only `wake` takes it off. TLC finds `HBInv` to
hold on the instance of `hb_sync`.

The proofs about `Agent` hold for any finite sets of clients and server
connections, any messages, any capacity of the send queue and any Timeout, also
none (AgentAssumption).
`AgentProofs` proves `AgentTypes` (TypeOK), `MessagesPlaced` (MessageInPlace) and
`AnswerIsOwn` (OwnAnswer). Their
invariant `PlaceInv` adds to MessageInPlace what the containers are (each message at
most once in each queue, and in the queues of its own two connections only), that
a message on its way back is the one its client waits for, and that a closed
connection has nothing. Every handler removes messages from queues in the
middle, so that most of the proof is about `Without`, of which `InWithout` says
what is left and that the order and the absence of duplicates stay.

Its last part proves `SendQueueBounded`: a connection is in `wait_send_queue`
at most twice, once from the flag `writecached` and once because it is new in
this turn, so that the queue is never longer than two times the connections.
`OutputTriggered` (OutputHasTrigger) has the hypothesis `HasRoom`, that the queue
is not full after a step or has room for twice the connections, as in the run
`agent`: `cache_send_event` drops what does not fit. `TriggerInv` adds that the
flag implies a place in the queue, who may be twice in it, that a round of
sending leaves it empty, and that epoll is asked about a server connection being
made. TLC finds `PlaceInv` and `TriggerInv` to hold on the instance of `agent`.

`BufferProofs` is about BufferRestart, for any finite set of keys, any set of
configurations and any number of requests and restarts. `Types` (RTypeOK) and
`FlushesAreCounted` (FlushCounted) have no hypothesis. What the
proof follows is `Path(k)`, the requests of a key whose answer the cache has not
got, in the order in which the answers will come: answers, back barrier, joint or
tunnel. A handler puts requests at its end, a delivery moves the border
between two of its parts, and an answer takes its head. `OneRequest` adds to the
types that at most one place of the path ends the request of the client (its own
statement, or a flush request that it waits for), that this place belongs to
the request that `job` has, and that in one thread no answer waits; so the head
that an answer takes is the one that was counted. A step changes the path of one
key, or with a timer the paths of those it flushes, and at a start all are empty.

The other invariants are false of the code in some configurations, and the
theorems about them have the hypotheses that exclude these. Without each
section 4 has a behaviour that goes wrong:
- `MemoryLasts`: a write-back cache does not run out of memory (NoDoubleReply);
- `~mode_changes`: every start has the update mode of the first (NoWriteLost);
- `Queueless`: no write-back cache shares its thread with the connector
  (`update_lost`, FlushedBeforeDelete);
- `max_late = 0`: a statement that was given up is executed before the answer says
  so or never, as in the run `buffer_cache` (WriteThrough).

`BufferKeyProofs` starts with `KeySteps`: every step is, for any one key, a request
that is asked, a flush by the timer, an execution, the answer to a flush
request, the answer to the client, or nothing but an eviction. An invariant
that is about each key by itself is then proved by these six cases and the start.
- `RepliedOnce` (NoDoubleReply; MemoryLasts): a dirty node has a dirty row, so a
  Flush either sends it or is answered, not both.
- `BlackListedNotCached` (BlackListedIsNotCached; ~mode_changes), from `ModeInv`:
  in SYNC mode nothing is dirty and nothing is flushed; in every mode a key with
  a request in work has a clean node, and none if it is a Get or, in ASYNC mode,
  not a Delete. So the answer to a request never meets a dirty row.
- `DirtyRowsFlushed` (DirtyRowFlushed; ~mode_changes) is an action property. It needs
  `MarkInv`, that memory which no killed dtcd used has the mark when the next one
  starts.
- `DeletedLast` (FlushedBeforeDelete; ~mode_changes, Queueless), from `LastInv`: the
  request of the client is the last one of its key on the way to the database.

`BufferRowProofs` proves `CopiesCurrent` (CleanCopyIsCurrent) and `WritesKept`
(NoWriteLost), both from ~mode_changes, Queueless and max_late = 0. Quiet keys
alone are not inductive: while a request is in work the database may have
executed what the cache has not heard. `RowsInv` says what is known of every
key of which no statement failed unheeded. As long as no answer to the
client is on its way (`Settles`), the row the database has or will get is one
that the clients' answers allow, and a clean copy equals it; a dirty row is
itself one of these. Once the answer is on its way (`Heard`), nothing of the key
is left to execute, and code, row and count of the answer tell which row the
database has: one of the allowed rows or what the statement makes of one, and
for each result the row that the cache will store. `HeardAnswered` shows that
`client_answer` leaves the copy and the allowed rows accordingly, for all five
kinds of statement and four of result, and `RowsOpen` that a start which
forgets the answer marks the key or has no copy. TLC finds ModeInv,
MarkInv, LastInv and RowsInv to hold with one key, the configurations of
`buffer_cache` and one restart (462,849 states).

*Induction over data.* The library's induction rules take an operator as a
parameter, which the provers here cannot instantiate. `AgentProofs` goes around this:
a set of numbers has a least one (`NatMin`, from the well-foundedness of `<`),
so a set that has 0 and with n also n + 1 has all (`Induction`); and with it
a recursive function has the values its steps give (`Iteration`).
That is how `Without` and the loop `cache_clients`, functions over queues of any
length, are proved about.

*Provers.* Most steps have no arithmetic, and Zenon is the default of every proof
module (`USE Zenon`); a step with arithmetic, or about sequences as such, names
SMT.

Only model-checked: all liveness (the prover has no rule for fairness).

## 6. Not modelled

PROJECT.json lists every part with its reason. In short:
- raw structures without concurrency: allocator, T-tree, row layout, packets;
- text: configuration, SQL, rules, logging, statistics;
- operating system work: sockets, daemons, watchdogs, cron jobs;
- parts that are planned: see below;
- within modelled parts: batches and admin commands in BufferProcess,
  a kill in the middle of a handler (BufferRestart), time markers and flush speed, full synchronisation of a slave,
  routing and guards in DataConnector, clusters of more than two servers,
  replicas and the choice of a server in the agent.

## 7. Plan

Order is by what goes wrong worst and is tested least.

1. *Done:* Barrier, KeyMigrate, Connector, HotBackup, Agent, and BufferProcess
   with stop, kill and start, all with proofs.
2. `BufferPond`: clean, dirty and empty lists, their counters, purge and delayed
   purge, hash migration, a kill between two writes to the memory. An abstract
   map from key to node as the specification it implements.
3. Time markers and flush speed as a refinement of the flush timer.
4. `CacheOnly`: requests without a database and expiry.
5. `DataRouting`: choice of group, guards after writes, migration and switch of
   databases, composed with two instances of a group.
6. `MultiRequest`: split, count and collect, with a client that goes away.
7. `ColExpand`: change of the table while old rows are cached, with a restart.
8. An abstract replicated log for HotBackup: slaves as positions in one
   sequence, and the refinement mapping from files and journal ids.
