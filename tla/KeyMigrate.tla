----------------------------- MODULE KeyMigrate -----------------------------
(***************************************************************************)
(* Migration of keys from one cache server to another.  Server A has all   *)
(* keys; server B joins the cluster, and the keys of this module are those *)
(* that the hash gives to B as soon as A's cluster table has it.  A tool   *)
(* tells A the state of B (SetClusterNodeState) and asks it to move keys   *)
(* one by one (Migrate); KeyRouteAskChain of A decides for every request   *)
(* whether A serves it, refuses it or passes it on, from that state and a  *)
(* set of keys kept in a file (FileBackedKeySet).  RemoteDtcAskAnswerChain *)
(* carries requests to B.                                                  *)
(*                                                                         *)
(* Both servers have the cache unit; module BufferProcess models it, here  *)
(* it is reduced to a copy per key.  A's front barrier (module Barrier)    *)
(* lets one request of a key in at a time, Migrate included; the commands  *)
(* of the tool pass it by.  The connections of a ConnectorGroup carry what *)
(* A sends to B, so a Migrate that A has stopped waiting for may reach B   *)
(* after requests of the same key that A sent later.                       *)
(***************************************************************************)
EXTENDS Naturals, Sequences, Queues

CONSTANTS
  Key,
  None,          \* no copy in the cache, no record in the key file
  Config,        \* the configurations A and B may be started with
  max_write,     \* bound: writes of a key
  max_wire       \* bound: Migrate requests of a key under way to B

(***************************************************************************)
(* A configuration: write-through, write-back, or no database at all       *)
(* (DTC_MODE_CACHE_ONLY); keys of fixed or variable size; whether B may    *)
(* run out of memory; and the places inside a handler where A may be       *)
(* killed: after the configuration file was written, after the key set was *)
(* opened or cleared, after the state file was opened, after the copy of a *)
(* moved key was purged.                                                   *)
(***************************************************************************)
KillPoint == {"config", "keyset", "open", "purge"}
Configuration == [mode : {"SYNC", "ASYNC", "CACHE_ONLY"}, variable : BOOLEAN, scarce : BOOLEAN,
                  kill : SUBSET KillPoint]

ASSUME MigrateAssumption ==
  /\ Config \subseteq Configuration
  /\ max_write \in Nat
  /\ max_wire \in Nat \ {0}

NodeState == {"NOT_STARTED", "MIGRATING", "MIGRATE_READONLY", "COMPLETED"}
Version == 0 .. max_write
Status == {"START", "SUCCESS"}
Server == {"A", "B"}
Copy == [v : Version, dirty : BOOLEAN]
Message == [v : Version, dirty : BOOLEAN, awaited : BOOLEAN]

ASSUME NoneAssumption == None \notin Copy \cup Version \cup Status \cup [Key -> Status \cup {None}]

VARIABLES
  config,
  up,         \* A's process: running, killed, or stopped because a start failed
  table,      \* B is in A's cluster table, and so in m_selector
  state,      \* A's m_serverMigrationState of B
  index,      \* the keys FileBackedKeySet finds in its hash table
  cascading,  \* m_iCSState = CS_CASCADING: everything goes to B
  cfgfile,    \* B is in A's cluster configuration file
  statfile,   \* cluster.stat: absent, without content, or its entry for B
  keyfile,    \* B's key file: absent, or a status per recorded key
  cache,      \* the copy of each key on each server
  db,         \* the database both servers share
  wire,       \* Migrate requests on the way to B
  asked,      \* A's Migrate job of each key
  written,    \* the last write of each key that a client got an answer for
  overtaken,  \* keys written on B while a Migrate of them was still under way
  evicted,    \* keys of which a server without a database evicted the row since their last write
  irregular,  \* a command was outside of the procedure of a migration
  intact      \* what a start of A may find: tables as before or after the last command

vars == <<config, up, table, state, index, cascading, cfgfile, statfile, keyfile, cache, db,
          wire, asked, written, overtaken, evicted, irregular, intact>>

route == <<table, state, index, cascading>>
files == <<cfgfile, statfile, keyfile>>
past == <<written, overtaken, evicted>>
data == <<cache, db, past>>

mode == config.mode
Clean(v) == [v |-> v, dirty |-> FALSE]
in_migration(s) == s \in {"MIGRATING", "MIGRATE_READONLY"}

(***************************************************************************)
(* Before B joins A has every key, cached or, with a database, not.        *)
(***************************************************************************)
Init ==
  /\ config \in Config
  /\ up = "running"
  /\ table = FALSE
  /\ state = "NOT_STARTED"
  /\ index = {}
  /\ cascading = FALSE
  /\ cfgfile = FALSE
  /\ statfile = "absent"
  /\ keyfile = None
  /\ cache = [s \in Server |-> [k \in Key |->
                IF s = "A" /\ mode = "CACHE_ONLY" THEN Clean(0) ELSE None]]
  /\ db = [k \in Key |-> 0]
  /\ wire = [k \in Key |-> << >>]
  /\ asked = [k \in Key |-> "no"]
  /\ written = [k \in Key |-> 0]
  /\ overtaken = {}
  /\ evicted = {}
  /\ irregular = FALSE
  /\ intact = {}
-----------------------------------------------------------------------------
(* FileBackedKeySet *)
Contains(k) == k \in index /\ keyfile[k] = "SUCCESS"

is_migrating(k) == in_migration(state) /\ k \in index /\ keyfile[k] = "START"

(* mutant: the status of the record is not looked at *)
accept_key_Recorded(k) ==
  \/ state = "COMPLETED"
  \/ in_migration(state) /\ k \in index

accept_key(k) ==
  \/ state = "COMPLETED"
  \/ in_migration(state) /\ Contains(k)

(***************************************************************************)
(* KeyRouteAskChain::job_ask_procedure for a request of a client: the      *)
(* server it goes to, and whether A refuses it.                            *)
(***************************************************************************)
destination(k) == IF cascading \/ (table /\ accept_key(k)) THEN "B" ELSE "A"

refused(k, code) ==
  /\ destination(k) = "A"
  /\ code # "Get"
  /\ table /\ (is_migrating(k) \/ state = "MIGRATE_READONLY")

(* what a Get on server s answers *)
View(s, k) ==
  IF cache[s][k] # None THEN cache[s][k].v ELSE IF mode = "CACHE_ONLY" THEN None ELSE db[k]

(***************************************************************************)
(* The request gets through A's barrier and is not refused.  When it is    *)
(* passed on, RemoteDtcAskAnswerChain gives it to a free connection: it    *)
(* does not wait for the Migrates that are under way on others.            *)
(***************************************************************************)
Admitted(k, code) ==
  /\ up = "running"
  /\ asked[k] = "no"
  /\ ~refused(k, code)

(* a Get: with a database the row is in the cache afterwards *)
Get(k) ==
  LET s == destination(k) IN
  /\ Admitted(k, "Get")
  /\ View(s, k) # None
  /\ cache' = [cache EXCEPT ![s][k] = IF @ = None THEN Clean(db[k]) ELSE @]
  /\ UNCHANGED <<config, up, route, files, db, wire, asked, past, irregular, intact>>

(* any other request of a client that changes the row *)
Write(k) ==
  LET s == destination(k)
      v == written[k] + 1
  IN
  /\ Admitted(k, "Update")
  /\ v \in Version
  /\ written' = [written EXCEPT ![k] = v]
  /\ overtaken' = IF s = "B" /\ wire[k] # << >> THEN overtaken \cup {k} ELSE overtaken
  /\ evicted' = evicted \ {k}
  /\ CASE mode = "SYNC" ->
            /\ db' = [db EXCEPT ![k] = v]
            /\ cache' = [cache EXCEPT ![s][k] = IF @ = None THEN None ELSE Clean(v)]
       [] mode = "ASYNC" ->
            /\ cache' = [cache EXCEPT ![s][k] = [v |-> v, dirty |-> TRUE]]
            /\ UNCHANGED db
       [] mode = "CACHE_ONLY" ->
            /\ cache' = [cache EXCEPT ![s][k] = Clean(v)]
            /\ UNCHANGED db
  /\ UNCHANGED <<config, up, route, files, wire, asked, irregular, intact>>

(* a server writes a dirty row to the database *)
Flush(s, k) ==
  /\ s = "A" => up = "running"
  /\ cache[s][k] # None /\ cache[s][k].dirty
  /\ db' = [db EXCEPT ![k] = cache[s][k].v]
  /\ cache' = [cache EXCEPT ![s][k].dirty = FALSE]
  /\ UNCHANGED <<config, up, route, files, wire, asked, past, irregular, intact>>

(***************************************************************************)
(* A server that needs memory evicts a clean copy, and without a database, *)
(* where every copy is clean, that is the end of the row.                  *)
(***************************************************************************)
Evict(s, k) ==
  /\ s = "A" => up = "running"
  /\ cache[s][k] # None /\ ~cache[s][k].dirty
  /\ cache' = [cache EXCEPT ![s][k] = None]
  /\ evicted' = IF mode = "CACHE_ONLY" THEN evicted \cup {k} ELSE evicted
  /\ UNCHANGED <<config, up, route, files, db, wire, asked, written, overtaken, irregular, intact>>
-----------------------------------------------------------------------------
(***************************************************************************)
(* Migrate on A: KeyRouteAskChain::process_migrate, then buffer_migrate,   *)
(* which records the key (key_migrating) and builds the request for B.  In *)
(* any other state of B, or without a copy, the tool gets an error.  A     *)
(* Migrate of a key that has moved already finds no copy.                  *)
(***************************************************************************)
Migrate(k) ==
  /\ up = "running"
  /\ asked[k] = "no"
  /\ table /\ in_migration(state)
  /\ cache["A"][k] # None
  /\ Len(wire[k]) < max_wire
  /\ IF k \in index
     THEN UNCHANGED <<index, keyfile>>
     ELSE /\ keyfile' = [keyfile EXCEPT ![k] = "START"]
          /\ index' = index \cup {k}
  /\ wire' = [wire EXCEPT ![k] =
       Append(@, [v |-> cache["A"][k].v, dirty |-> cache["A"][k].dirty, awaited |-> TRUE])]
  /\ asked' = [asked EXCEPT ![k] = "sent"]
  /\ UNCHANGED <<config, up, table, state, cascading, cfgfile, statfile, data, irregular, intact>>

(* what buffer_migrate on B does with a request from A, by its outcome: B's copy *)
Replaced(m, outcome, copy) ==
  CASE outcome = "ok" -> [v |-> m.v, dirty |-> m.dirty]
    [] outcome = "no node" -> copy
    [] outcome = "no room" -> IF mode = "CACHE_ONLY" THEN copy ELSE None

Answered(outcome) ==
  IF outcome = "ok" \/ (outcome = "no room" /\ mode # "CACHE_ONLY") THEN "moved" ELSE "failed"

(***************************************************************************)
(* buffer_migrate on B.  There may be no memory for the node, or for the   *)
(* rows after the node was found: a cache with a database then purges the  *)
(* node and answers with success.  The answer may get lost.  The request   *)
(* has no version: B takes an old one for a new one.                       *)
(***************************************************************************)
buffer_migrate(k) ==
  \E i \in DOMAIN wire[k],
     outcome \in {"ok"} \cup IF config.scarce THEN {"no node", "no room"} ELSE {},
     lost \in BOOLEAN :
    LET m == wire[k][i] IN
    /\ cache' = [cache EXCEPT !["B"][k] = Replaced(m, outcome, @)]
    /\ wire' = [wire EXCEPT ![k] = Taken(@, i)]
    /\ asked' = [asked EXCEPT ![k] = IF m.awaited /\ ~lost THEN Answered(outcome) ELSE @]
    /\ UNCHANGED <<config, up, route, files, db, past, irregular, intact>>

(* a request is lost on the way *)
Lose(k) ==
  /\ \E i \in DOMAIN wire[k] : wire' = [wire EXCEPT ![k] = Taken(@, i)]
  /\ UNCHANGED <<config, up, route, files, data, asked, irregular, intact>>

Forgotten(queue) == [i \in DOMAIN queue |-> [queue[i] EXCEPT !.awaited = FALSE]]

(* key_migrated: only while B is in migration, and only a key that is found *)
key_migrated(k) ==
  keyfile' = IF in_migration(state) /\ k \in index
             THEN [keyfile EXCEPT ![k] = "SUCCESS"]
             ELSE keyfile

(* mutant: A keeps its copy *)
job_answer_procedure_KeepsCopy(k) ==
  /\ up = "running"
  /\ asked[k] = "moved"
  /\ key_migrated(k)
  /\ asked' = [asked EXCEPT ![k] = "no"]
  /\ UNCHANGED <<config, up, route, cfgfile, statfile, data, wire, irregular, intact>>

(***************************************************************************)
(* A gets B's answer: the copy is purged, then the key is marked.          *)
(***************************************************************************)
job_answer_procedure(k) ==
  /\ up = "running"
  /\ asked[k] = "moved"
  /\ key_migrated(k)
  /\ cache' = [cache EXCEPT !["A"][k] = None]
  /\ asked' = [asked EXCEPT ![k] = "no"]
  /\ UNCHANGED <<config, up, route, cfgfile, statfile, db, past, wire, irregular, intact>>

(* an error answer, from B or because the connection failed or timed out *)
job_answer_error(k) ==
  /\ up = "running"
  /\ asked[k] \in {"sent", "failed"}
  /\ asked' = [asked EXCEPT ![k] = "no"]
  /\ wire' = [wire EXCEPT ![k] = Forgotten(@)]
  /\ UNCHANGED <<config, up, route, files, data, irregular, intact>>
-----------------------------------------------------------------------------
(* what a client or the tool can see of A's tables *)
Tables(t, s, recorded) ==
  [table |-> t, state |-> s,
   keys |-> [k \in Key |-> IF in_migration(s) /\ k \in index THEN recorded[k] ELSE None]]

Now == Tables(table, state, keyfile)
EmptyKeyFile == [k \in Key |-> None]

(* A is killed; its cache is in shared memory and stays.  What it sent may still reach B. *)
Kill(possible) ==
  /\ up' = "killed"
  /\ table' = FALSE
  /\ state' = "NOT_STARTED"
  /\ index' = {}
  /\ cascading' = FALSE
  /\ asked' = [k \in Key |-> "no"]
  /\ wire' = [k \in Key |-> Forgotten(wire[k])]
  /\ intact' = possible

(* killed between two handlers *)
Crash ==
  /\ up = "running"
  /\ Kill({Now})
  /\ UNCHANGED <<config, files, data, irregular>>

(***************************************************************************)
(* The procedure of a migration: moving or read-only first, read-only in   *)
(* the end, and completed when A has nothing left that only A has.         *)
(***************************************************************************)
NothingLeft ==
  \A k \in Key : cache["A"][k] = None \/ (mode # "CACHE_ONLY" /\ ~cache["A"][k].dirty)

Regular(from, to) ==
  \/ from \in {"NOT_STARTED", "MIGRATING"} /\ in_migration(to)
  \/ from = "MIGRATE_READONLY" /\ to = "MIGRATING"
  \/ from = "MIGRATE_READONLY" /\ to = "COMPLETED" /\ NothingLeft

(* mutant: a new migration uses the key file that is there *)
key_file_after_NotOpened(from, to) ==
  IF in_migration(from) /\ ~in_migration(to) THEN None ELSE keyfile

(* the key file after the change: Open truncates or creates it, Clear unlinks it *)
key_file_after(from, to) ==
  CASE ~in_migration(from) /\ in_migration(to) -> EmptyKeyFile
    [] in_migration(from) /\ ~in_migration(to) -> None
    [] OTHER -> keyfile

(* mutant: the state is saved before it is changed *)
save_state_to_file_Old(t, s) == statfile' = IF t THEN state ELSE "alone"

(* save_state_to_file: one entry per node of the table *)
save_state_to_file(t, s) == statfile' = IF t THEN s ELSE "alone"

(***************************************************************************)
(* SetClusterNodeState: every change between two states is allowed.  The   *)
(* key set comes first, then the state file.                               *)
(***************************************************************************)
process_node_state_change(new) ==
  /\ up = "running"
  /\ table /\ new # state
  /\ keyfile' = key_file_after(state, new)
  /\ irregular' = (irregular \/ ~Regular(state, new))
  /\ \/ /\ state' = new
        /\ index' = IF in_migration(state) /\ in_migration(new) THEN index ELSE {}
        /\ save_state_to_file(table, new)
        /\ UNCHANGED <<up, table, cascading, wire, asked, intact>>
     \/ \E point \in config.kill \cap {"keyset", "open"} :
          /\ statfile' = IF point = "open" THEN "empty" ELSE statfile
          /\ Kill({Now, Tables(TRUE, new, keyfile)})
  /\ UNCHANGED <<config, cfgfile, data>>

(***************************************************************************)
(* ReloadClusterNodeList with or without B.  During a migration it is      *)
(* refused (and answered with success when the table is the same).  The    *)
(* configuration file comes first, then the state file; every other node   *)
(* is NOT_STARTED again.                                                   *)
(***************************************************************************)
process_reload(new) ==
  /\ up = "running"
  /\ ~in_migration(state)
  /\ cfgfile' = new
  /\ irregular' = (irregular \/ state # "NOT_STARTED")
  /\ \/ /\ table' = new
        /\ state' = "NOT_STARTED"
        /\ save_state_to_file(new, "NOT_STARTED")
        /\ UNCHANGED <<up, index, cascading, wire, asked, intact>>
     \/ \E point \in config.kill \cap {"config", "open"} :
          /\ statfile' = IF point = "open" THEN "empty" ELSE statfile
          /\ Kill({Now, Tables(new, "NOT_STARTED", keyfile)})
  /\ UNCHANGED <<config, keyfile, data>>

(* Cascade: while it is on, every request goes to the other server *)
process_cascade ==
  /\ up = "running"
  /\ cascading' = ~cascading
  /\ irregular' = TRUE
  /\ UNCHANGED <<config, up, table, state, index, files, data, wire, asked, intact>>

(* killed between the two statements of the answer to Migrate *)
job_answer_killed(k) ==
  /\ "purge" \in config.kill
  /\ up = "running"
  /\ asked[k] = "moved"
  /\ cache' = [cache EXCEPT !["A"][k] = None]
  /\ Kill({Now})
  /\ UNCHANGED <<config, files, db, past, irregular>>
-----------------------------------------------------------------------------
Recorded == {k \in Key : keyfile[k] # None}

(***************************************************************************)
(* FileBackedKeySet::Load.  For keys of variable size it takes the status  *)
(* byte of a record for the length of its key, so which keys are found     *)
(* again depends on their lengths.                                         *)
(***************************************************************************)
Load(found) ==
  /\ found \subseteq Recorded
  /\ ~config.variable => found = Recorded
  /\ index' = found

(***************************************************************************)
(* The start of A: KeyRouteAskChain::init and load_node_state_if_any.  It  *)
(* fails when the state file has no content (an assert), when it has       *)
(* another number of nodes than the configuration, and when the key file   *)
(* of a migration is missing.                                              *)
(***************************************************************************)
load_fails ==
  \/ statfile = "empty"
  \/ statfile = "alone" /\ cfgfile
  \/ statfile \in NodeState /\ ~cfgfile
  \/ in_migration(statfile) /\ keyfile = None

load_node_state_if_any ==
  /\ up = "killed"
  /\ ~load_fails
  /\ up' = "running"
  /\ table' = cfgfile
  /\ state' = IF statfile \in NodeState THEN statfile ELSE "NOT_STARTED"
  /\ IF in_migration(statfile)
     THEN \E found \in SUBSET Key : Load(found)
     ELSE index' = {}
  /\ UNCHANGED <<config, cascading, files, data, wire, asked, irregular, intact>>

start_fails ==
  /\ up = "killed"
  /\ load_fails
  /\ up' = "refused"
  /\ UNCHANGED <<config, route, files, data, wire, asked, irregular, intact>>

(* the operator removes the state file of a server that does not start *)
remove_state_file ==
  /\ up = "refused"
  /\ up' = "killed"
  /\ statfile' = "absent"
  /\ irregular' = TRUE
  /\ intact' = {}
  /\ UNCHANGED <<config, route, cfgfile, keyfile, data, wire, asked>>
-----------------------------------------------------------------------------
Next ==
  \/ \E k \in Key :
       \/ Get(k) \/ Write(k)
       \/ \E s \in Server : Flush(s, k) \/ Evict(s, k)
       \/ Migrate(k) \/ buffer_migrate(k) \/ Lose(k)
       \/ job_answer_procedure(k) \/ job_answer_error(k) \/ job_answer_killed(k)
  \/ \E new \in NodeState : process_node_state_change(new)
  \/ \E new \in BOOLEAN : process_reload(new)
  \/ process_cascade
  \/ Crash \/ load_node_state_if_any \/ start_fails \/ remove_state_file

Spec == Init /\ [][Next]_vars
-----------------------------------------------------------------------------
(* Every variable has its type, and while B is in migration its key file   *)
(* exists and FileBackedKeySet finds no key that is not recorded in it.    *)
TypeOK ==
  /\ config \in Config
  /\ up \in {"running", "killed", "refused"}
  /\ table \in BOOLEAN /\ cascading \in BOOLEAN /\ cfgfile \in BOOLEAN /\ irregular \in BOOLEAN
  /\ state \in NodeState
  /\ index \subseteq Key
  /\ statfile \in {"absent", "empty", "alone"} \cup NodeState
  /\ keyfile = None \/ keyfile \in [Key -> Status \cup {None}]
  /\ in_migration(state) => keyfile # None /\ index \subseteq Recorded
  /\ cache \in [Server -> [Key -> Copy \cup {None}]]
  /\ db \in [Key -> Version] /\ written \in [Key -> Version]
  /\ overtaken \subseteq Key /\ evicted \subseteq Key
  /\ wire \in [Key -> Seq(Message)] /\ \A k \in Key : Len(wire[k]) <= max_wire
  /\ asked \in [Key -> {"no", "sent", "moved", "failed"}]
  /\ intact \subseteq [table : BOOLEAN, state : NodeState, keys : [Key -> Status \cup {None}]]

(***************************************************************************)
(* During a migration that follows the procedure, the server that gets the *)
(* next request of a key answers it with the last write: neither a retry   *)
(* of Migrate, nor a request or an answer that is lost or late, nor a      *)
(* command or a restart of A in between makes job_ask_procedure send it to *)
(* a server that has an older row or none.  Two things are excepted.  A    *)
(* row may be missing when a server without a database has evicted it.     *)
(* And nothing is said of a key that was written on B before B had all the *)
(* Migrates of it that A sent: B would put the old row over the new one.   *)
(***************************************************************************)
ServedCopyIsCurrent ==
  (up = "running" /\ ~irregular) =>
    \A k \in Key \ overtaken :
      \/ View(destination(k), k) = written[k]
      \/ View(destination(k), k) = None /\ k \in evicted

(***************************************************************************)
(* Two servers may hold a dirty copy of a key at a time, but never one     *)
(* that is older than the last write: a late flush of either would put it  *)
(* over the newer row in the database they share.  This is why A purges    *)
(* its node, dirty or not, before it passes the key on to B.  Again a key  *)
(* that was written on B ahead of a Migrate of it is excepted.             *)
(***************************************************************************)
NoStaleFlush ==
  ~irregular =>
    \A s \in Server, k \in Key \ overtaken :
      cache[s][k] # None /\ cache[s][k].dirty => cache[s][k].v = written[k]

(***************************************************************************)
(* A restart of A, wherever it was killed, brings back the cluster table,  *)
(* the state of B and the keys with their status as they were before or    *)
(* after the command it was killed in, or A does not start at all.         *)
(***************************************************************************)
RestartIsAtomic ==
  [][up = "killed" /\ up' = "running" /\ intact # {} => Now' \in intact]_vars
=============================================================================
