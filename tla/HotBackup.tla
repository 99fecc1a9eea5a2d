------------------------------ MODULE HotBackup ------------------------------
(***************************************************************************)
(* The hot backup: HotBackupAskChain of the master writes every change to  *)
(* a set of log files (HBLog, logger.cc) and serves slaves that poll for   *)
(* the records after a journal id.  A poll that finds nothing new waits in *)
(* a TaskPendingList for the next record or for a timeout.  The slaves are *)
(* hwcserver processes, which register, poll, apply and save the journal   *)
(* id of the answer.                                                       *)
(*                                                                         *)
(* A record has a length and a body; a file is a sequence of such parts,   *)
(* and sizes and offsets count parts.  What a record says is abstracted to *)
(* its number.  A poll asks for one record, as hwcserver's do.  A write to *)
(* the file may fail or be cut short (LogWriter logs that and goes on),    *)
(* the master may be restarted, and so may a slave.                        *)
(***************************************************************************)
EXTENDS Naturals, Sequences, FiniteSetsExt

CONSTANTS
  Slave, NoSlave,
  _max_size,          \* a file of that size is closed
  _total_size,
  max_records,        \* bound: records written
  max_restart,        \* bound: restarts of the master
  max_slave_restart,  \* bound: restarts of slaves
  max_short           \* bound: writes that fail or are cut short

ASSUME SlaveAssumption == NoSlave \notin Slave
ASSUME SizeAssumption ==
  _max_size \in Nat \ {0} /\ _total_size \in Nat \ {0}
ASSUME BoundAssumption ==
  /\ max_records \in Nat /\ max_restart \in Nat /\ max_slave_restart \in Nat
  /\ max_short \in Nat

VARIABLES
  file,             \* the contents of every file so far; file number n has serial n
  linked,           \* serials of the files that are not deleted
  _cur_min_serial,  \* LogWriter
  _cur_size,        \* LogWriter; its file is the last one
  reader,           \* LogReader: _cur_serial, _cur_offset and the file of _fd
  lru,              \* the records that write_lru_hb_log wrote
  written,          \* records so far
  _pendlist,        \* TaskPendingList: polls that wait
  _wakeup,
  timer,            \* list the pending list's timer object is on
  copy,             \* polls still to be asked again by job_timer_procedure
  phase,            \* of each slave
  jid,              \* the journal id each slave has saved
  applied,          \* the last record each slave has applied
  skipped,          \* slaves that got a record out of order
  garbled,          \* parts of two records were read as one
  log_hotbackup_key_switch_,
  restarts, slave_restarts, shorts

log == <<file, linked, _cur_min_serial, _cur_size, lru, written, shorts>>
pending == <<_pendlist, _wakeup, timer, copy>>
slaves == <<phase, jid, applied, skipped, garbled>>
vars == <<log, reader, pending, slaves, log_hotbackup_key_switch_, restarts, slave_restarts>>

JournalID == [serial : Nat, offset : Nat]
Zero == [serial |-> 0, offset |-> 0]
GE(a, b) == a.serial > b.serial \/ (a.serial = b.serial /\ a.offset >= b.offset)

get_writer_jid == [serial |-> Len(file), offset |-> _cur_size]

Part(r, p) == [rec |-> r, part |-> p]
Record(r) == <<Part(r, "length"), Part(r, "body")>>

\* HBLog::init in an empty directory.
Init ==
  /\ file = << <<>> >>
  /\ linked = {1}
  /\ _cur_min_serial = 0
  /\ _cur_size = 0
  /\ reader = [serial |-> 1, offset |-> 0, fd |-> 1]
  /\ lru = {}
  /\ written = 0
  /\ _pendlist = <<>>
  /\ _wakeup = FALSE
  /\ timer = "none"
  /\ copy = <<>>
  /\ phase = [s \in Slave |-> "new"]
  /\ jid = [s \in Slave |-> Zero]
  /\ applied = [s \in Slave |-> 0]
  /\ skipped = {}
  /\ garbled = FALSE
  /\ log_hotbackup_key_switch_ = FALSE
  /\ restarts = 0 /\ slave_restarts = 0 /\ shorts = 0
-----------------------------------------------------------------------------
(***************************************************************************)
(* Writing.                                                                *)
(***************************************************************************)
\* Mutant: the deleted file is the newest one.
shift_file_DeletesNewest(content, size) ==
  IF size < _max_size
  THEN /\ file' = [file EXCEPT ![Len(file)] = content]
       /\ _cur_size' = size
       /\ UNCHANGED <<linked, _cur_min_serial>>
  ELSE /\ file' = Append([file EXCEPT ![Len(file)] = content], <<>>)
       /\ linked' = (linked \ {Len(file)}) \cup {Len(file) + 1}
       /\ _cur_size' = 0
       /\ UNCHANGED _cur_min_serial

\* The last file now has the given content and _cur_size is size: a full file is
\* closed, the oldest one is deleted when there are too many, and a new one begins.
shift_file(content, size) ==
  LET need_delete == (Len(file) - _cur_min_serial) * _max_size >= _total_size
  IN IF size < _max_size
     THEN /\ file' = [file EXCEPT ![Len(file)] = content]
          /\ _cur_size' = size
          /\ UNCHANGED <<linked, _cur_min_serial>>
     ELSE /\ file' = Append([file EXCEPT ![Len(file)] = content], <<>>)
          /\ linked' = (IF need_delete THEN linked \ {_cur_min_serial} ELSE linked)
                         \cup {Len(file) + 1}
          /\ _cur_min_serial' = IF need_delete THEN _cur_min_serial + 1 ELSE _cur_min_serial
          /\ _cur_size' = 0

\* Mutant: the length is not counted.
write_BodyOnly(n) ==
  /\ log_hotbackup_key_switch_
  /\ written < max_records
  /\ n = 2
  /\ written' = written + 1
  /\ shift_file(file[Len(file)] \o Record(written + 1), _cur_size + 1)
  /\ UNCHANGED shorts

\* A change is logged once a slave has registered.  LogWriter::write: n parts of the
\* record get into the file.
write(n) ==
  /\ log_hotbackup_key_switch_
  /\ written < max_records
  /\ n < 2 => shorts < max_short
  /\ written' = written + 1
  /\ shorts' = IF n < 2 THEN shorts + 1 ELSE shorts
  /\ shift_file(file[Len(file)] \o SubSeq(Record(written + 1), 1, n), _cur_size + 2)

Wakeup == _wakeup' = TRUE /\ timer' = "ready" /\ UNCHANGED <<_pendlist, copy>>

\* A change of which no record can be made (no memory, no key) changes nothing and
\* wakes nobody.  Left out: the file cannot be opened after the write, and nobody is
\* woken although there is a record.
write_hb_log_process ==
  /\ \E n \in 0 .. 2 : write(n)
  /\ Wakeup
  /\ UNCHANGED <<lru, reader, slaves, log_hotbackup_key_switch_, restarts, slave_restarts>>

write_lru_hb_log_process ==
  /\ \E n \in 0 .. 2 : write(n)
  /\ lru' = lru \cup {written + 1}
  /\ UNCHANGED <<reader, pending, slaves, log_hotbackup_key_switch_, restarts, slave_restarts>>
-----------------------------------------------------------------------------
(***************************************************************************)
(* Reading.  These operators are functions of the state rd of a LogReader. *)
(***************************************************************************)
seek_fits(rd, v) ==
  v.serial \in linked /\ v.offset <= Len(file[IF v.serial # rd.serial THEN v.serial ELSE rd.fd])

\* LogReader::seek.  When the offset is too large the file is open already, and
\* _cur_serial is still the old one.
seek(rd, v) ==
  LET fd == IF v.serial # rd.serial THEN v.serial ELSE rd.fd
  IN IF v.serial \notin linked THEN rd
     ELSE IF seek_fits(rd, v) THEN [serial |-> v.serial, offset |-> v.offset, fd |-> fd]
     ELSE [rd EXCEPT !.fd = fd]

\* Mutant: the next file is not read.
read_SameFile(rd) ==
  IF rd.offset < Len(file[rd.fd])
  THEN [ok |-> TRUE, part |-> file[rd.fd][rd.offset + 1], rd |-> [rd EXCEPT !.offset = @ + 1]]
  ELSE [ok |-> FALSE, part |-> Part(0, "length"), rd |-> rd]

\* LogReader::read of one part: at the end of a file the next files that exist are
\* tried, up to the newest one.
read(rd) ==
  LET later == {t \in linked : t > rd.serial}
      filled == {t \in later : file[t] # <<>>}
      At(t, n) == [serial |-> t, offset |-> n, fd |-> t]
  IN IF rd.offset < Len(file[rd.fd])
     THEN [ok |-> TRUE, part |-> file[rd.fd][rd.offset + 1],
           rd |-> [rd EXCEPT !.offset = @ + 1]]
     ELSE IF filled # {}
     THEN [ok |-> TRUE, part |-> file[Min(filled)][1], rd |-> At(Min(filled), 1)]
     ELSE [ok |-> FALSE, part |-> Part(0, "length"),
           rd |-> IF later = {} THEN rd ELSE At(Len(file), 0)]

\* BinlogReader::Read: the length and then as much as it says.  When that is no
\* record, g says how it ends: no record, a record that does not decode, or one
\* that does.
Read(rd, g) ==
  LET len == read(rd)
      body == read(len.rd)
  IN IF ~len.ok THEN [what |-> "none", rec |-> 0, rd |-> len.rd]
     ELSE IF len.part.part = "body" /\ g = "none" THEN [what |-> "none", rec |-> 0, rd |-> len.rd]
     ELSE IF ~body.ok THEN [what |-> "none", rec |-> 0, rd |-> body.rd]
     ELSE IF len.part.part = "length" /\ body.part = Part(len.part.rec, "body")
     THEN [what |-> "record", rec |-> len.part.rec, rd |-> body.rd]
     ELSE [what |-> IF g = "broken" THEN "broken" ELSE "garbage", rec |-> 0, rd |-> body.rd]

-----------------------------------------------------------------------------
(***************************************************************************)
(* Polls.  An entry of the pending list has the poll's slave (NoSlave when *)
(* that is gone), its journal id, and how many timeouts it has survived.   *)
(***************************************************************************)
\* Mutant: the timer is started for every poll that has to wait.
add2_list_EveryTime(s, v) ==
  /\ _pendlist' = Append(_pendlist, [slave |-> s, jid |-> v, age |-> 0])
  /\ timer' = "timed"

\* The timer object is on one list at a time: starting it takes it off the ready list.
add2_list(s, v) ==
  /\ _pendlist' = Append(_pendlist, [slave |-> s, jid |-> v, age |-> 0])
  /\ timer' = IF _pendlist = <<>> THEN "timed" ELSE timer

\* Mutant: the journal id is saved before the record is applied.
apply_SavesFirst(s, r) ==
  /\ jid' = [jid EXCEPT ![s] = [serial |-> r.rd.serial, offset |-> r.rd.offset]]
  /\ \/ /\ applied' = [applied EXCEPT ![s] = IF r.rec > @ THEN r.rec ELSE @]
        /\ phase' = [phase EXCEPT ![s] = "sync"]
        /\ UNCHANGED slave_restarts
     \/ /\ slave_restarts < max_slave_restart
        /\ slave_restarts' = slave_restarts + 1
        /\ phase' = [phase EXCEPT ![s] = "new"]
        /\ UNCHANGED applied
  /\ UNCHANGED skipped

\* HwcSync::Run applies the record of an answer and saves its journal id, or stops in
\* between.  An answer without a record has a journal id too.
apply(s, r) ==
  /\ \E saved \in BOOLEAN :
       /\ ~saved => slave_restarts < max_slave_restart
       /\ jid' = IF saved THEN [jid EXCEPT ![s] = [serial |-> r.rd.serial, offset |-> r.rd.offset]]
                 ELSE jid
       /\ phase' = [phase EXCEPT ![s] = IF saved THEN "sync" ELSE "new"]
       /\ slave_restarts' = IF saved THEN slave_restarts ELSE slave_restarts + 1
  /\ applied' = [applied EXCEPT ![s] = IF r.rec > @ THEN r.rec ELSE @]
  /\ skipped' = IF r.rec > applied[s] + 1 THEN skipped \cup {s} ELSE skipped

\* The answer to a poll that gets no rows: the slave polls again with the same journal id.
retry(S) ==
  /\ phase' = [s \in Slave |-> IF s \in S THEN "sync" ELSE phase[s]]
  /\ UNCHANGED <<jid, applied, skipped, slave_restarts>>

\* HotBackupAskChain::read_hb_log_process for a poll with journal id v, and what the
\* slave does with the answer.
read_hb_log_process(s, v) ==
  IF GE(v, get_writer_jid)
  THEN /\ add2_list(s, v)
       /\ phase' = [t \in Slave |-> IF t = s THEN "waiting" ELSE phase[t]]
       /\ UNCHANGED <<reader, jid, applied, skipped, garbled, slave_restarts>>
  ELSE /\ UNCHANGED <<_pendlist, timer>>
       /\ IF ~seek_fits(reader, v)
          THEN reader' = seek(reader, v) /\ retry({s}) /\ UNCHANGED garbled
          ELSE \E g \in {"none", "broken", "garbage"} : \E r \in {Read(seek(reader, v), g)} :
                 /\ reader' = r.rd
                 /\ garbled' = (garbled \/ r.what \in {"broken", "garbage"})
                 /\ IF r.what = "broken" \/ s = NoSlave THEN retry({s}) ELSE apply(s, r)

poll(s) ==
  /\ phase[s] = "sync"
  /\ read_hb_log_process(s, jid[s])
  /\ UNCHANGED <<log, _wakeup, copy, log_hotbackup_key_switch_, restarts>>

\* register_hb_log_process.  hwcserver registers twice before it polls; a slave whose
\* journal id the master does not know gives up.
register_hb_log_process(s) ==
  /\ phase[s] \in {"new", "registered"}
  /\ log_hotbackup_key_switch_' = TRUE
  /\ LET next == IF phase[s] = "new" THEN "registered" ELSE "sync"
     IN IF jid[s] = Zero
        THEN /\ jid' = [jid EXCEPT ![s] = get_writer_jid]
             /\ applied' = [applied EXCEPT ![s] = written]
             /\ phase' = [phase EXCEPT ![s] = next]
             /\ UNCHANGED reader
        ELSE /\ reader' = seek(reader, jid[s])
             /\ phase' = [phase EXCEPT ![s] = IF seek_fits(reader, jid[s]) THEN next ELSE "fault"]
             /\ UNCHANGED <<jid, applied>>
  /\ UNCHANGED <<log, pending, skipped, garbled, restarts, slave_restarts>>

-----------------------------------------------------------------------------
(***************************************************************************)
(* TaskPendingList::job_timer_procedure.                                   *)
(***************************************************************************)
wake ==
  /\ timer # "none" /\ _wakeup
  /\ copy' = _pendlist
  /\ _pendlist' = <<>>
  /\ timer' = "none"
  /\ _wakeup' = (_pendlist # <<>>)
  /\ UNCHANGED <<log, reader, slaves, log_hotbackup_key_switch_, restarts, slave_restarts>>

\* One turn of the loop over the polls that were waiting; nothing else runs before
\* the last one.
wake_turn ==
  /\ copy # <<>>
  /\ copy' = Tail(copy)
  /\ _wakeup' = (Tail(copy) # <<>>)
  /\ read_hb_log_process(Head(copy).slave, Head(copy).jid)
  /\ UNCHANGED <<log, log_hotbackup_key_switch_, restarts>>

rearm(left) == IF left = <<>> THEN "none" ELSE "timed"

\* Mutant: no poll times out.
time_out_Never ==
  /\ timer # "none" /\ ~_wakeup
  /\ _pendlist' = [i \in DOMAIN _pendlist |-> [_pendlist[i] EXCEPT !.age = @ + 1]]
  /\ timer' = rearm(_pendlist)
  /\ UNCHANGED <<log, reader, _wakeup, copy, slaves, log_hotbackup_key_switch_, restarts,
                 slave_restarts>>

\* Mutant: the polls that stay are as new.
time_out_Fresh ==
  /\ timer # "none" /\ ~_wakeup
  /\ timer' = rearm(_pendlist)
  /\ UNCHANGED <<_pendlist, log, reader, _wakeup, copy, slaves, log_hotbackup_key_switch_, restarts,
                 slave_restarts>>

\* The n oldest polls time out.  Time is counted in seconds, so a poll may survive
\* the first timeouts after it came, but not the third.
time_out ==
  /\ timer # "none" /\ ~_wakeup
  /\ \E n \in 0 .. Len(_pendlist) :
       LET left == SubSeq(_pendlist, n + 1, Len(_pendlist))
       IN /\ \A i \in DOMAIN left : left[i].age < 2
          /\ _pendlist' = [i \in DOMAIN left |-> [left[i] EXCEPT !.age = @ + 1]]
          /\ timer' = rearm(left)
          /\ retry({_pendlist[i].slave : i \in 1 .. n})
  /\ UNCHANGED <<log, reader, _wakeup, copy, garbled, log_hotbackup_key_switch_, restarts>>

job_timer_procedure == wake \/ time_out
-----------------------------------------------------------------------------
\* The master is restarted on the log files it left: HBLog::init.  Polls that wait
\* are lost with their connections.
restart ==
  /\ restarts < max_restart
  /\ restarts' = restarts + 1
  /\ file' = Append(file, <<>>)
  /\ linked' = linked \cup {Len(file) + 1}
  /\ _cur_min_serial' = Min(linked)
  /\ _cur_size' = 0
  /\ reader' = [serial |-> Min(linked), offset |-> 0, fd |-> Min(linked)]
  /\ _pendlist' = <<>> /\ _wakeup' = FALSE /\ timer' = "none"
  /\ phase' = [s \in Slave |-> IF phase[s] = "waiting" THEN "sync" ELSE phase[s]]
  /\ UNCHANGED <<lru, written, shorts, copy, jid, applied, skipped, garbled,
                 log_hotbackup_key_switch_, slave_restarts>>

\* A slave is restarted; the master still has its poll.
slave_restart(s) ==
  /\ slave_restarts < max_slave_restart
  /\ slave_restarts' = slave_restarts + 1
  /\ phase[s] # "new"
  /\ phase' = [phase EXCEPT ![s] = "new"]
  /\ _pendlist' = [i \in DOMAIN _pendlist |->
                     IF _pendlist[i].slave = s THEN [_pendlist[i] EXCEPT !.slave = NoSlave]
                     ELSE _pendlist[i]]
  /\ UNCHANGED <<log, reader, _wakeup, timer, copy, jid, applied, skipped, garbled,
                 log_hotbackup_key_switch_, restarts>>

Next ==
  \/ wake_turn
  \/ /\ copy = <<>>
     /\ \/ write_hb_log_process
        \/ write_lru_hb_log_process
        \/ job_timer_procedure
        \/ restart
        \/ \E s \in Slave : register_hb_log_process(s) \/ poll(s) \/ slave_restart(s)

Spec == Init /\ [][Next]_vars

\* The timer fires and the slaves go on.
Fairness ==
  /\ WF_vars(wake_turn)
  /\ WF_vars(copy = <<>> /\ job_timer_procedure)
  /\ \A s \in Slave : WF_vars(copy = <<>> /\ (register_hb_log_process(s) \/ poll(s)))

FairSpec == Spec /\ Fairness
-----------------------------------------------------------------------------
(***************************************************************************)
(* Properties.                                                             *)
(***************************************************************************)
Entry == [slave : Slave \cup {NoSlave}, jid : JournalID, age : 0 .. 2]

\* Every variable has its type.
TypeOK ==
  /\ file \in Seq(Seq([rec : 1 .. max_records, part : {"length", "body"}]))
  /\ linked \subseteq DOMAIN file /\ Len(file) \in linked
  /\ _cur_min_serial \in 0 .. Len(file)
  /\ _cur_size \in Nat
  /\ reader \in [serial : DOMAIN file, offset : Nat, fd : DOMAIN file]
  /\ lru \subseteq 1 .. written /\ written \in 0 .. max_records
  /\ _pendlist \in Seq(Entry) /\ copy \in Seq(Entry)
  /\ _wakeup \in BOOLEAN /\ timer \in {"none", "timed", "ready"}
  /\ phase \in [Slave -> {"new", "registered", "sync", "waiting", "fault"}]
  /\ jid \in [Slave -> JournalID]
  /\ applied \in [Slave -> 0 .. max_records]
  /\ skipped \subseteq Slave /\ garbled \in BOOLEAN
  /\ log_hotbackup_key_switch_ \in BOOLEAN
  /\ restarts \in 0 .. max_restart /\ slave_restarts \in 0 .. max_slave_restart
  /\ shorts \in 0 .. max_short

\* A slave gets the records after its registration one after the other: it may get a
\* record again after a restart, but no record is passed over, whatever files are closed
\* and deleted and whoever else reads with the same LogReader.
NoRecordSkipped == skipped = {}

\* The records that lie before a journal id.
RecordsBefore(v) ==
  UNION {{file[t][i].rec : i \in {n \in DOMAIN file[t] : t < v.serial \/ n <= v.offset}}
           : t \in {u \in DOMAIN file : u <= v.serial}}

\* The journal id a slave has saved never runs ahead of what it has applied, so what
\* a restart of either side asks for again begins at the right place.
JournalNotAhead ==
  \A s \in Slave : \A r \in RecordsBefore(jid[s]) : r <= applied[s]

\* _cur_serial is the number of the file that is open.
ReaderFileIsCurrent == reader.fd = reader.serial

\* "sequential read, one record each time": a poll never gets parts of two records as one,
\* wherever files begin and whoever else has moved the reader.
EachReadIsARecord == ~garbled

\* A slave's journal id lies between two records: where nothing could be read the
\* reader has moved its position back.
JournalBetweenRecords ==
  \A s \in Slave :
    LET v == jid[s] IN
    v.serial \in DOMAIN file /\ v.offset \in DOMAIN file[v.serial]
      => file[v.serial][v.offset].part = "body"

\* A poll that waits while there is a change it has not seen is asked again in the
\* same turn of the event loop: the ready timer is not lost to a poll that starts the
\* timeout.  Only LRU records wait for the timeout.
NewsWakesAtOnce ==
  \A i \in DOMAIN _pendlist :
    (\E r \in (1 .. written) \ lru : r \notin RecordsBefore(_pendlist[i].jid)) /\ copy = <<>>
      => _wakeup /\ timer = "ready"

\* A poll is answered in the end, by a record or by the timeout.
EveryPollAnswered == \A s \in Slave : phase[s] = "waiting" ~> phase[s] # "waiting"

\* A slave that is registered gets all records in the end.
SlavesCatchUp ==
  \A s \in Slave : <>[](phase[s] \in {"sync", "waiting"} /\ applied[s] = written)
=============================================================================
