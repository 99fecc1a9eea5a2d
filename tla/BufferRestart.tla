---------------------------- MODULE BufferRestart ----------------------------
(***************************************************************************)
(* The end of dtcd and its next start, around BufferProcess.  The rows are *)
(* in shared memory and survive; requests, queues and the black list do    *)
(* not.  A mark in the memory, its integrity, tells the next start whether *)
(* the last dtcd ended by free_all_resource or was killed.                 *)
(*                                                                         *)
(* A kill falls between two handlers.  One in the middle of a handler      *)
(* leaves memory of which only a start that deletes it can make sense.     *)
(***************************************************************************)
EXTENDS BufferProcess

CONSTANTS
  AutoDelete,   \* the values AutoDeleteDirtyShareMemory may have at a start
  mode_changes, \* whether DelayUpdate may have changed at a start
  max_restart   \* bound

ASSUME RestartAssumption ==
  AutoDelete \subseteq BOOLEAN /\ mode_changes \in BOOLEAN /\ max_restart \in Nat

VARIABLES
  state,        \* "up", "stopping" or "killed"
  m_shmIntegrity,
  need_set_integrity,
  restarts,
  killed        \* a dtcd that used this memory was killed

process == <<state, m_shmIntegrity, need_set_integrity, restarts, killed>>
allvars == <<vars, process>>

RInit ==
  /\ Init
  /\ state = "up"
  /\ m_shmIntegrity = FALSE /\ need_set_integrity = TRUE
  /\ restarts = 0
  /\ killed = FALSE
-----------------------------------------------------------------------------
(* mutant: the mark is not set *)
free_all_resource_NoMark ==
  /\ state = "up" /\ ~double_reply /\ restarts < max_restart
  /\ use_queue => \A k \in Key : chain[k] = << >>
  /\ state' = "stopping"
  /\ UNCHANGED <<vars, m_shmIntegrity, need_set_integrity, restarts, killed>>

(***************************************************************************)
(* free_all_resource: the thread of the cache ends after its turn, in      *)
(* which main_chain.queue is emptied; nothing waits for the requests that  *)
(* are under way.  ~BufferPond sets the mark.                              *)
(***************************************************************************)
free_all_resource ==
  /\ state = "up" /\ ~double_reply /\ restarts < max_restart
  /\ use_queue => \A k \in Key : chain[k] = << >>
  /\ state' = "stopping"
  /\ m_shmIntegrity' = (m_shmIntegrity \/ need_set_integrity)
  /\ UNCHANGED <<vars, need_set_integrity, restarts, killed>>

(* the thread of the connector, if it has its own, is interrupted later *)
datasource_thread ==
  /\ state = "stopping" /\ ~use_queue
  /\ \E k \in Key : tunnel_deliver(k) \/ helper_execute(k)
  /\ UNCHANGED <<config, process>>

kill ==
  /\ state = "up" /\ ~double_reply /\ restarts < max_restart
  /\ state' = "killed" /\ killed' = TRUE
  /\ UNCHANGED <<vars, m_shmIntegrity, need_set_integrity, restarts>>

(***************************************************************************)
(* BufferPond::cache_open: memory without the mark is deleted and created  *)
(* anew, or used with a warning; then the mark is not set again.           *)
(***************************************************************************)
cache_open(auto_delete) ==
  /\ IF ~m_shmIntegrity /\ auto_delete
     THEN node' = [k \in Key |-> NoNode] /\ killed' = FALSE
     ELSE UNCHANGED <<node, killed>>
  /\ need_set_integrity' = (m_shmIntegrity \/ auto_delete)
  /\ m_shmIntegrity' = FALSE

Writes == {"Insert", "Update", "Replace", "Delete"}
IsWrite(k) == job[k] # NoJob /\ job[k].code \in Writes

(* the statement of k that is with the database *)
Pending(k) ==
  [key |-> k, code |-> EntryCode(k, Head(back[k])), val |-> EntryVal(k, Head(back[k]))]

(* what the database made of the client's request of k, and the cache has not heard *)
Unheard(k) ==
  \E i \in DOMAIN ret[k] :
    ret[k][i].entry.kind = "client" /\ ret[k][i].res.code \in {"ok", "unknown"}

(***************************************************************************)
(* What is under way is gone.  The statements E, of those that were with   *)
(* the database, were executed all the same, and the statements L will be. *)
(* Flush requests that were not executed, and a copy that the cache has    *)
(* not heard to be old, are ignored failures.                              *)
(***************************************************************************)
forget(E, L) ==
  /\ db' = [k \in Key |-> IF k \in E THEN Execute(Pending(k).code, Pending(k).val, db[k]) ELSE db[k]]
  /\ late' = late \cup {Pending(k) : k \in L}
  /\ legal' = [k \in Key |-> IF IsWrite(k) THEN Seen(k, job[k], Failed("unknown")) ELSE legal[k]]
  /\ suspect' = suspect
       \cup {k \in Key : Unflushed(k) # {}}
       \cup {k \in Key : \E i \in DOMAIN ret[k] : ret[k][i].entry.kind = "flush" /\ ret[k][i].res.code # "ok"}
       \cup {k \in Key : IsWrite(k) /\ (k \in E \cup L \/ Unheard(k)) /\ node'[k] # NoNode}
       \cup {k \in Key : node[k] # NoNode /\ node[k].rowdirty /\ node'[k] = NoNode}
  /\ job' = [k \in Key |-> NoJob]
  /\ chain' = [k \in Key |-> << >>]
  /\ back' = [k \in Key |-> << >>]
  /\ ret' = [k \in Key |-> << >>]
  /\ current_pend_flush_request_' = 0
  /\ black_list_' = {}

open_init_buffer ==
  /\ state # "up"
  /\ state' = "up" /\ restarts' = restarts + 1
  /\ config' \in {c \in Config : mode_changes \/ c.update_mode_ = update_mode_}
  /\ \E auto_delete \in AutoDelete : cache_open(auto_delete)
  /\ memory_dirty_' = (config'.update_mode_ = "SYNC" /\ \E k \in Key : node'[k] # NoNode /\ node'[k].dirty)
  /\ LET busy == {k \in Key : back[k] # << >>} IN
     \E E \in SUBSET busy : \E L \in SUBSET (busy \ E) :
       /\ Cardinality(late) + Cardinality(L) <= max_late
       /\ forget(E, L)
  /\ UNCHANGED double_reply

RNext ==
  \/ state = "up" /\ Next /\ UNCHANGED process
  \/ free_all_resource
  \/ datasource_thread
  \/ kill
  \/ open_init_buffer

RSpec == RInit /\ [][RNext]_allvars

(* the queue's ready timer and the flush timer fire, the tunnels are served, the connector *)
(* answers or times out; nobody need start a dtcd that ended                               *)
Running == state = "up" /\ UNCHANGED <<config, process>>

Fairness ==
  /\ WF_allvars(chain_deliver /\ Running)
  /\ WF_allvars(job_timer_procedure /\ Running)
  /\ \A k \in Key : /\ WF_allvars(tunnel_deliver(k) /\ Running)
                    /\ WF_allvars(helper_execute(k) /\ Running)
                    /\ WF_allvars(ret_deliver(k) /\ Running)

FairSpec == RSpec /\ Fairness
-----------------------------------------------------------------------------
(***************************************************************************)
(* The state has its type; the mark is set only while no dtcd runs.        *)
(***************************************************************************)
RTypeOK ==
  /\ TypeOK
  /\ state \in {"up", "stopping", "killed"}
  /\ m_shmIntegrity \in BOOLEAN /\ need_set_integrity \in BOOLEAN /\ killed \in BOOLEAN
  /\ restarts \in 0 .. max_restart
  /\ m_shmIntegrity => state = "stopping"

(***************************************************************************)
(* A dirty row leaves the cache only as a flush request of its value, or   *)
(* with memory that a killed dtcd used and the next one deletes: it        *)
(* survives every other end of dtcd.                                       *)
(***************************************************************************)
DirtyRowFlushed ==
  [][\A k \in Key :
       node[k] # NoNode /\ node[k].rowdirty
         => \/ node'[k] # NoNode /\ node'[k].rowdirty
            \/ Unflushed(k)' # {} /\ Latest(k)' = node[k].val
            \/ killed /\ state # "up"]_allvars

(***************************************************************************)
(* A SYNC cache that was started on the dirty memory of an ASYNC one       *)
(* (case 0x00000 of open_init_buffer) writes all of it in the end, unless  *)
(* it ends before.                                                         *)
(***************************************************************************)
MemoryBecomesClean == []<>(~memory_dirty_ \/ state # "up")

(***************************************************************************)
(* Every client request that is not answered at once is answered in the    *)
(* end, unless dtcd ends before.                                           *)
(***************************************************************************)
EveryRequestAnswered == \A k \in Key : job[k] # NoJob ~> job[k] = NoJob \/ state # "up"
=============================================================================
