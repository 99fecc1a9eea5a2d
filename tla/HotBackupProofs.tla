--------------------------- MODULE HotBackupProofs ---------------------------
(***************************************************************************)
(* The log is read without a gap, for any number of slaves, files of any   *)
(* size and any number of restarts.                                        *)
(***************************************************************************)
EXTENDS HotBackup, WellFoundedInduction, TLAPS

(* most leaves need no arithmetic *)
USE Zenon

Parts == [rec : 1 .. max_records, part : {"length", "body"}]
Reader == [serial : DOMAIN file, offset : Nat, fd : DOMAIN file]

(* A set of numbers has a least one. *)
LEMMA NatMin ==
  ASSUME NEW T, T \subseteq Nat, T # {}
  PROVE \E x \in T : \A y \in T : x <= y
<1> DEFINE R == OpToRel(<, Nat)
<1>1. \A x, y \in Nat : y < x => <<y, x>> \in R
  BY DEF OpToRel
<1>2. PICK x \in T : \A y \in T : ~ (<<y, x>> \in R)
  BY NatLessThanWellFounded, WFMin
<1> HIDE DEF R
<1>3. \A y \in T : y \in Nat /\ x \in Nat /\ ~ (y < x)
  BY <1>1, <1>2
<1>4. \A y \in T : x <= y
  BY <1>3, SMT
<1> QED BY <1>4

(* Min returns the least member. *)
LEMMA MinLeast ==
  ASSUME NEW T, T \subseteq Nat, T # {}
  PROVE  Min(T) \in T /\ \A y \in T : Min(T) <= y
<1>1. \E x \in T : \A y \in T : x <= y
  BY NatMin
<1> QED BY <1>1 DEF Min

(* What TypeOK says of the files. *)
LEMMA FileType ==
  ASSUME TypeOK
  PROVE  /\ DOMAIN file = 1 .. Len(file) /\ Len(file) \in Nat
         /\ \A t \in DOMAIN file :
              /\ file[t] \in Seq(Parts) /\ Len(file[t]) \in Nat
              /\ DOMAIN file[t] = 1 .. Len(file[t])
              /\ \A i \in 1 .. Len(file[t]) : file[t][i] \in Parts
         /\ linked \subseteq 1 .. Len(file) /\ Len(file) \in linked
         /\ file \in Seq(Seq(Parts))
<1>1. file \in Seq(Seq(Parts)) /\ linked \subseteq DOMAIN file /\ Len(file) \in linked
  BY DEF TypeOK, Parts
<1>2. DOMAIN file = 1 .. Len(file) /\ Len(file) \in Nat /\ \A t \in DOMAIN file : file[t] \in Seq(Parts)
  BY <1>1, SMT
<1>3. \A f \in Seq(Parts) : /\ Len(f) \in Nat /\ DOMAIN f = 1 .. Len(f)
                            /\ \A i \in 1 .. Len(f) : f[i] \in Parts
  BY SMT
<1> QED BY <1>1, <1>2, <1>3

(* The same of the next state. *)
LEMMA FileTypeNext ==
  TypeOK' => /\ DOMAIN file' = 1 .. Len(file') /\ Len(file') \in Nat
             /\ \A t \in DOMAIN file' :
                  /\ Len(file'[t]) \in Nat /\ DOMAIN file'[t] = 1 .. Len(file'[t])
                  /\ \A i \in 1 .. Len(file'[t]) : file'[t][i] \in Parts
             /\ Len(file') \in linked' /\ linked' \subseteq DOMAIN file'
<1> DEFINE Files == /\ DOMAIN file = 1 .. Len(file) /\ Len(file) \in Nat
                    /\ \A t \in DOMAIN file :
                         /\ Len(file[t]) \in Nat /\ DOMAIN file[t] = 1 .. Len(file[t])
                         /\ \A i \in 1 .. Len(file[t]) : file[t][i] \in Parts
                    /\ Len(file) \in linked /\ linked \subseteq DOMAIN file
<1>1. TypeOK => Files
  BY FileType
<1> HIDE DEF Files
<1>2. TypeOK' => Files'
  BY <1>1, PTL
<1> QED BY <1>2 DEF Files

(* The number of a record is not 0. *)
LEMMA RecNat ==
  \A p \in Parts : p.rec \in Nat /\ p.rec >= 1
BY BoundAssumption, SMT DEF Parts

(* read leaves the reader on a file and returns a part of one. *)
LEMMA ReadType ==
  ASSUME TypeOK, NEW rd \in Reader
  PROVE  /\ read(rd).ok \in BOOLEAN /\ read(rd).rd \in Reader
         /\ read(rd).ok => read(rd).part \in Parts
<1> DEFINE later == {t \in linked : t > rd.serial}
           filled == {t \in later : file[t] # <<>>}
<1>1. rd.fd \in DOMAIN file /\ rd.offset \in Nat /\ rd.serial \in DOMAIN file
  BY DEF Reader
<1>2. CASE rd.offset < Len(file[rd.fd])
  <2>1. rd.offset + 1 \in 1 .. Len(file[rd.fd])
    BY <1>1, <1>2, FileType, SMTT(30)
  <2>2. [rd EXCEPT !.offset = @ + 1] \in Reader
    BY SMT DEF Reader
  <2> QED BY <1>1, <1>2, <2>1, <2>2, FileType DEF read
<1>3. CASE ~(rd.offset < Len(file[rd.fd])) /\ filled # {}
  <2>0. filled \subseteq Nat
    BY FileType, SMT
  <2>1. Min(filled) \in filled
    BY <1>3, <2>0, MinLeast
  <2> HIDE DEF filled
  <2> DEFINE m == Min(filled)
  <2>2. m \in DOMAIN file /\ file[m] # <<>>
    BY <2>1, FileType DEF filled
  <2>3. 1 \in 1 .. Len(file[m])
    BY <2>2, FileType, SMT
  <2>4. file[m][1] \in Parts /\ [serial |-> m, offset |-> 1, fd |-> m] \in Reader
    BY <2>2, <2>3, FileType DEF Reader
  <2>5. read(rd) = [ok |-> TRUE, part |-> file[m][1], rd |-> [serial |-> m, offset |-> 1, fd |-> m]]
    BY <1>3 DEF read, filled
  <2> HIDE DEF m
  <2> QED BY <2>4, <2>5, SMT
<1>4. CASE ~(rd.offset < Len(file[rd.fd])) /\ filled = {}
  <2>1. [serial |-> Len(file), offset |-> 0, fd |-> Len(file)] \in Reader
    BY FileType DEF Reader
  <2> QED BY <1>4, <2>1 DEF read
<1> QED BY <1>2, <1>3, <1>4

(* So does Read of a record. *)
LEMMA ReadRecordType ==
  ASSUME TypeOK, NEW rd \in Reader, NEW g
  PROVE  Read(rd, g).rd \in Reader /\ Read(rd, g).rec \in 0 .. max_records
<1> DEFINE len == read(rd)
           body == read(len.rd)
<1>1. len.ok \in BOOLEAN /\ len.rd \in Reader /\ (len.ok => len.part \in Parts)
  BY ReadType
<1>2. body.rd \in Reader
  BY <1>1, ReadType
<1> HIDE DEF len, body
<1>3. len.ok => len.part.rec \in 0 .. max_records
  BY <1>1, BoundAssumption, SMT DEF Parts
<1>4. 0 \in 0 .. max_records
  BY BoundAssumption, SMT
<1> QED BY <1>1, <1>2, <1>3, <1>4 DEF Read, len, body

(* And so does seek. *)
LEMMA SeekType ==
  ASSUME TypeOK, NEW v \in JournalID
  PROVE  seek(reader, v) \in Reader
<1>1. reader \in Reader
  BY DEF TypeOK, Reader
<1>2. v.serial \in linked => v.serial \in DOMAIN file
  BY FileType
<1> QED BY <1>1, <1>2 DEF seek, Reader, JournalID
(* shift_file keeps the types of the files and of the writer's counters. *)
LEMMA ShiftType ==
  ASSUME TypeOK, NEW content \in Seq(Parts), NEW size \in Nat, shift_file(content, size)
  PROVE  /\ file' \in Seq(Seq(Parts)) /\ linked' \subseteq DOMAIN file' /\ Len(file)' \in linked'
         /\ _cur_min_serial' \in 0 .. Len(file)' /\ _cur_size' \in Nat
         /\ DOMAIN file \subseteq DOMAIN file'
<1> DEFINE f == [file EXCEPT ![Len(file)] = content]
<1>1. file \in Seq(Seq(Parts)) /\ Len(file) \in DOMAIN file /\ Len(file) \in Nat
  BY FileType
<1>2. f \in Seq(Seq(Parts)) /\ Len(f) = Len(file) /\ DOMAIN f = DOMAIN file
  BY <1>1, SMT
<1>3. _cur_min_serial \in 0 .. Len(file) /\ linked \subseteq DOMAIN file /\ Len(file) \in linked
  BY DEF TypeOK
<1>4. CASE size < _max_size
  <2>1. file' = f /\ linked' = linked /\ _cur_min_serial' = _cur_min_serial /\ _cur_size' = size
    BY <1>4 DEF shift_file
  <2> HIDE DEF f
  <2>2. Len(file') = Len(file) /\ DOMAIN file' = DOMAIN file /\ file' \in Seq(Seq(Parts))
    BY <1>2, <2>1
  <2> QED BY <1>3, <2>1, <2>2
<1>5. CASE ~(size < _max_size)
  <2> DEFINE h == Append(f, <<>>)
  <2>1. file' = h
    BY <1>5 DEF shift_file
  <2>2. <<>> \in Seq(Parts)
    BY SMT
  <2> HIDE DEF f
  <2>3. h \in Seq(Seq(Parts)) /\ Len(h) = Len(file) + 1 /\ DOMAIN h = 1 .. Len(file) + 1
    BY <1>1, <1>2, <2>2, SMT
  <2>4. DOMAIN file = 1 .. Len(file)
    BY FileType
  <2> HIDE DEF h
  <2>5. /\ linked' \subseteq linked \cup {Len(file) + 1} /\ Len(file) + 1 \in linked'
        /\ _cur_min_serial' \in {_cur_min_serial, _cur_min_serial + 1} /\ _cur_size' = 0
    BY <1>5 DEF shift_file
  <2>6. /\ Len(file') = Len(file) + 1 /\ DOMAIN file' = 1 .. Len(file) + 1
        /\ file' \in Seq(Seq(Parts))
    BY <2>1, <2>3
  <2>7. 1 .. Len(file) \subseteq 1 .. Len(file) + 1 /\ Len(file) + 1 \in 1 .. Len(file) + 1
    BY <1>1, SMT
  <2>70. linked' \subseteq DOMAIN file' /\ DOMAIN file \subseteq DOMAIN file'
    BY <1>3, <2>4, <2>5, <2>6, <2>7
  <2>8. _cur_min_serial' \in 0 .. Len(file')
    BY <1>1, <1>3, <2>5, <2>6, SMTT(30)
  <2> QED BY <2>5, <2>6, <2>70, <2>8
<1> QED BY <1>4, <1>5

(* A write keeps the types of the log. *)
LEMMA WriteType ==
  ASSUME TypeOK, NEW n \in 0 .. 2, write(n)
  PROVE  /\ file' \in Seq(Seq(Parts)) /\ linked' \subseteq DOMAIN file' /\ Len(file)' \in linked'
         /\ _cur_min_serial' \in 0 .. Len(file)' /\ _cur_size' \in Nat
         /\ DOMAIN file \subseteq DOMAIN file'
         /\ written' = written + 1 /\ written' \in 0 .. max_records
         /\ shorts' \in 0 .. max_short
<1> DEFINE parts == SubSeq(Record(written + 1), 1, n)
           content == file[Len(file)] \o parts
<1>1. written \in 0 .. max_records /\ written < max_records /\ written' = written + 1
  BY DEF TypeOK, write
<1>2. Record(written + 1) \in Seq(Parts) /\ Len(Record(written + 1)) = 2
  BY <1>1, BoundAssumption, SMT DEF Record, Part, Parts
<1>3. parts \in Seq(Parts)
  BY <1>2, SMT
<1>4. file[Len(file)] \in Seq(Parts)
  BY FileType
<1> HIDE DEF parts
<1>5. content \in Seq(Parts)
  BY <1>3, <1>4, SMT
<1>6. _cur_size + 2 \in Nat
  BY SMT DEF TypeOK
<1>7. shift_file(content, _cur_size + 2)
  BY DEF write, parts
<1> HIDE DEF content
<1>8. shorts' \in 0 .. max_short
  BY BoundAssumption, SMT DEF write, TypeOK
<1> QED BY <1>1, <1>5, <1>6, <1>7, <1>8, ShiftType, BoundAssumption, SMTT(30)

(* TypeOK from its parts. *)
LEMMA TypeParts ==
  TypeOK <=>
    /\ file \in Seq(Seq(Parts)) /\ linked \subseteq DOMAIN file /\ Len(file) \in linked
    /\ _cur_min_serial \in 0 .. Len(file)
    /\ _cur_size \in Nat
    /\ reader \in Reader
    /\ lru \subseteq 1 .. written /\ written \in 0 .. max_records
    /\ _pendlist \in Seq(Entry) /\ copy \in Seq(Entry)
    /\ _wakeup \in BOOLEAN /\ timer \in {"none", "timed", "ready"}
    /\ phase \in [Slave -> {"new", "registered", "sync", "waiting", "fault"}]
    /\ jid \in [Slave -> JournalID]
    /\ applied \in [Slave -> 0 .. max_records]
    /\ skipped \subseteq Slave /\ garbled \in BOOLEAN
    /\ log_hotbackup_key_switch_ \in BOOLEAN
    /\ restarts \in 0 .. max_restart /\ slave_restarts \in 0 .. max_slave_restart
    /\ shorts \in 0 .. max_short
BY DEF TypeOK, Parts, Reader
(* What the handler of a poll changes, and the slave with its answer, has its type. *)
LEMMA PollType ==
  ASSUME TypeOK, NEW s \in Slave \cup {NoSlave}, NEW v \in JournalID, read_hb_log_process(s, v)
  PROVE  /\ _pendlist' \in Seq(Entry) /\ timer' \in {"none", "timed", "ready"}
         /\ reader' \in Reader
         /\ phase' \in [Slave -> {"new", "registered", "sync", "waiting", "fault"}]
         /\ jid' \in [Slave -> JournalID]
         /\ applied' \in [Slave -> 0 .. max_records]
         /\ skipped' \subseteq Slave /\ garbled' \in BOOLEAN
         /\ slave_restarts' \in 0 .. max_slave_restart
<1> DEFINE Phases == {"new", "registered", "sync", "waiting", "fault"}
<1>1. /\ _pendlist \in Seq(Entry) /\ timer \in {"none", "timed", "ready"} /\ reader \in Reader
      /\ phase \in [Slave -> Phases] /\ jid \in [Slave -> JournalID]
      /\ applied \in [Slave -> 0 .. max_records] /\ skipped \subseteq Slave /\ garbled \in BOOLEAN
      /\ slave_restarts \in 0 .. max_slave_restart
  BY TypeParts
<1>2. CASE GE(v, get_writer_jid)
  <2>1. /\ add2_list(s, v) /\ phase' = [t \in Slave |-> IF t = s THEN "waiting" ELSE phase[t]]
        /\ UNCHANGED <<reader, jid, applied, skipped, garbled, slave_restarts>>
    BY <1>2 DEF read_hb_log_process
  <2>2. [slave |-> s, jid |-> v, age |-> 0] \in Entry
    BY SMT DEF Entry
  <2>3. _pendlist' \in Seq(Entry) /\ timer' \in {"none", "timed", "ready"}
    BY <1>1, <2>1, <2>2, SMT DEF add2_list
  <2>4. phase' \in [Slave -> Phases]
    BY <1>1, <2>1
  <2> QED BY <1>1, <2>1, <2>3, <2>4
<1>3. ASSUME ~GE(v, get_writer_jid), NEW S, retry(S), reader' \in Reader,
             UNCHANGED <<_pendlist, timer>>, garbled' \in BOOLEAN
      PROVE  /\ phase' \in [Slave -> Phases] /\ jid' \in [Slave -> JournalID]
             /\ applied' \in [Slave -> 0 .. max_records] /\ skipped' \subseteq Slave
             /\ slave_restarts' \in 0 .. max_slave_restart
  BY <1>1, <1>3 DEF retry
<1>4. CASE ~GE(v, get_writer_jid) /\ ~seek_fits(reader, v)
  <2>1. /\ UNCHANGED <<_pendlist, timer, garbled>> /\ reader' = seek(reader, v) /\ retry({s})
    BY <1>4 DEF read_hb_log_process
  <2>2. reader' \in Reader /\ garbled' \in BOOLEAN
    BY <1>1, <2>1, SeekType
  <2> QED BY <1>1, <1>3, <1>4, <2>1, <2>2
<1>5. CASE ~GE(v, get_writer_jid) /\ seek_fits(reader, v)
  <2>1. UNCHANGED <<_pendlist, timer>>
    BY <1>5 DEF read_hb_log_process
  <2>2. PICK g : \E r \in {Read(seek(reader, v), g)} :
                 /\ reader' = r.rd
                 /\ garbled' = (garbled \/ r.what \in {"broken", "garbage"})
                 /\ IF r.what = "broken" \/ s = NoSlave THEN retry({s}) ELSE apply(s, r)
    BY <1>5 DEF read_hb_log_process
  <2> DEFINE r == Read(seek(reader, v), g)
  <2>3. r.rd \in Reader /\ r.rec \in 0 .. max_records
    BY SeekType, ReadRecordType
  <2> HIDE DEF r
  <2>4. reader' \in Reader /\ garbled' \in BOOLEAN
    BY <2>2, <2>3 DEF r
  <2>5. CASE retry({s})
    BY <1>1, <1>3, <1>5, <2>1, <2>4, <2>5
  <2>6. CASE ~(s = NoSlave) /\ apply(s, r)
    <3>1. s \in Slave
      BY <2>6
    <3>2. [serial |-> r.rd.serial, offset |-> r.rd.offset] \in JournalID
      BY <2>3, FileType, SMTT(30) DEF Reader, JournalID
    <3>3. jid' \in [Slave -> JournalID] /\ phase' \in [Slave -> Phases]
      BY <1>1, <2>6, <3>2, SMT DEF apply
    <3>4. applied' \in [Slave -> 0 .. max_records]
      BY <1>1, <2>3, <2>6 DEF apply
    <3>5. skipped' \subseteq Slave
      BY <1>1, <2>6, <3>1 DEF apply
    <3>6. slave_restarts' \in 0 .. max_slave_restart
      BY <1>1, <2>6, BoundAssumption, SMT DEF apply
    <3> QED BY <1>1, <2>1, <2>4, <3>3, <3>4, <3>5, <3>6
  <2>7. retry({s}) \/ (~(s = NoSlave) /\ apply(s, r))
    BY <2>2 DEF r
  <2> QED BY <2>5, <2>6, <2>7
<1> QED BY <1>2, <1>4, <1>5
(* The first state has its type. *)
LEMMA TypeInit ==
  Init => TypeOK
<1> SUFFICES ASSUME Init PROVE TypeOK
  OBVIOUS
<1>1. file \in Seq(Seq(Parts)) /\ Len(file) = 1 /\ DOMAIN file = {1}
  BY SMT DEF Init
<1>2. reader \in Reader
  BY <1>1 DEF Init, Reader
<1>3. jid \in [Slave -> JournalID]
  BY DEF Init, JournalID, Zero
<1>4. linked \subseteq DOMAIN file /\ Len(file) \in linked /\ _cur_min_serial \in 0 .. Len(file)
  BY <1>1, SMT DEF Init
<1>5. _pendlist \in Seq(Entry) /\ copy \in Seq(Entry)
  BY SMT DEF Init
<1>6. /\ 0 \in 0 .. max_records /\ 0 \in 0 .. max_restart /\ 0 \in 0 .. max_slave_restart
      /\ 0 \in 0 .. max_short
  BY BoundAssumption, SMT
<1> QED BY <1>1, <1>2, <1>3, <1>4, <1>5, <1>6, TypeParts DEF Init

(* A timeout drops the polls of the front of the list, and the others get older. *)
LEMMA OlderType ==
  ASSUME NEW q \in Seq(Entry), NEW n \in 0 .. Len(q),
         NEW left, left = SubSeq(q, n + 1, Len(q)), \A i \in DOMAIN left : left[i].age < 2
  PROVE  [i \in DOMAIN left |-> [left[i] EXCEPT !.age = @ + 1]] \in Seq(Entry)
<1>1. left \in Seq(Entry) /\ DOMAIN left = 1 .. Len(left) /\ Len(left) \in Nat
  BY SMT
<1>2. ASSUME NEW e \in Entry, e.age < 2
      PROVE  [e EXCEPT !.age = @ + 1] \in Entry
  BY <1>2, SMT DEF Entry
<1>3. \A i \in DOMAIN left : left[i] \in Entry
  BY <1>1, SMT
<1> DEFINE Older(i) == [left[i] EXCEPT !.age = @ + 1]
<1>4. \A i \in 1 .. Len(left) : Older(i) \in Entry
  BY <1>1, <1>2, <1>3
<1> HIDE DEF Older
<1>5. [i \in 1 .. Len(left) |-> Older(i)] \in Seq(Entry)
  BY <1>1, <1>4, SMT
<1> QED BY <1>1, <1>5 DEF Older

(* Every step keeps the types. *)
LEMMA TypeNext ==
  ASSUME TypeOK, [Next]_vars
  PROVE  TypeOK'
<1> DEFINE Phases == {"new", "registered", "sync", "waiting", "fault"}
           Log == /\ file \in Seq(Seq(Parts)) /\ linked \subseteq DOMAIN file
                  /\ Len(file) \in linked /\ _cur_min_serial \in 0 .. Len(file) /\ _cur_size \in Nat
                  /\ lru \subseteq 1 .. written /\ written \in 0 .. max_records
                  /\ shorts \in 0 .. max_short
           Pending == /\ _pendlist \in Seq(Entry) /\ copy \in Seq(Entry)
                      /\ _wakeup \in BOOLEAN /\ timer \in {"none", "timed", "ready"}
           Slaves == /\ phase \in [Slave -> Phases] /\ jid \in [Slave -> JournalID]
                     /\ applied \in [Slave -> 0 .. max_records]
                     /\ skipped \subseteq Slave /\ garbled \in BOOLEAN
           Switch == log_hotbackup_key_switch_ \in BOOLEAN /\ restarts \in 0 .. max_restart
           Stops == slave_restarts \in 0 .. max_slave_restart
<1>0. TypeOK <=> Log /\ reader \in Reader /\ Pending /\ Slaves /\ Switch /\ Stops
  BY TypeParts
<1>1. Log /\ reader \in Reader /\ Pending /\ Slaves /\ Switch /\ Stops
  BY <1>0
<1>2. Log' /\ (reader \in Reader)' /\ Pending' /\ Slaves' /\ Switch' /\ Stops' => TypeOK'
  BY DEF TypeOK, Parts, Reader
<1>3. UNCHANGED log => Log'
  BY <1>1 DEF log
<1>4. UNCHANGED pending => Pending'
  BY <1>1 DEF pending
<1>5. UNCHANGED slaves => Slaves'
  BY <1>1 DEF slaves
<1>6. UNCHANGED <<reader, log>> => (reader \in Reader)'
  BY <1>1 DEF log, Reader
<1>7. /\ UNCHANGED <<log_hotbackup_key_switch_, restarts>> => Switch'
      /\ UNCHANGED slave_restarts => Stops'
  BY <1>1
<1>8. ASSUME DOMAIN file \subseteq DOMAIN file', UNCHANGED reader
      PROVE  (reader \in Reader)'
  BY <1>1, <1>8 DEF Reader
<1>9. ASSUME NEW n \in 0 .. 2, write(n), lru' \in {lru, lru \cup {written + 1}}
      PROVE  Log' /\ DOMAIN file \subseteq DOMAIN file'
  <2>1. /\ file' \in Seq(Seq(Parts)) /\ linked' \subseteq DOMAIN file' /\ Len(file)' \in linked'
        /\ _cur_min_serial' \in 0 .. Len(file)' /\ _cur_size' \in Nat
        /\ DOMAIN file \subseteq DOMAIN file'
        /\ written' = written + 1 /\ written' \in 0 .. max_records
        /\ shorts' \in 0 .. max_short
    BY <1>9, WriteType
  <2>2. 1 .. written \subseteq 1 .. written' /\ written + 1 \in 1 .. written'
    BY <1>1, <2>1, BoundAssumption, SMT
  <2>3. lru' \subseteq 1 .. written'
    BY <1>1, <1>9, <2>2
  <2> QED BY <2>1, <2>3
<1>10. CASE write_hb_log_process
  <2>1. PICK n \in 0 .. 2 : write(n)
    BY <1>10 DEF write_hb_log_process
  <2>2. Log' /\ (reader \in Reader)'
    BY <1>8, <1>9, <1>10, <2>1 DEF write_hb_log_process
  <2>3. Pending'
    BY <1>1, <1>10 DEF write_hb_log_process, Wakeup
  <2>4. Slaves' /\ Switch' /\ Stops'
    BY <1>5, <1>7, <1>10 DEF write_hb_log_process
  <2> QED BY <1>2, <2>2, <2>3, <2>4
<1>11. CASE write_lru_hb_log_process
  <2>1. PICK n \in 0 .. 2 : write(n)
    BY <1>11 DEF write_lru_hb_log_process
  <2>2. Log' /\ (reader \in Reader)'
    BY <1>8, <1>9, <1>11, <2>1 DEF write_lru_hb_log_process
  <2>3. Pending' /\ Slaves' /\ Switch' /\ Stops'
    BY <1>4, <1>5, <1>7, <1>11 DEF write_lru_hb_log_process
  <2> QED BY <1>2, <2>2, <2>3
<1>12. CASE wake
  <2>1. Log' /\ (reader \in Reader)' /\ Slaves' /\ Switch' /\ Stops'
    BY <1>3, <1>5, <1>6, <1>7, <1>12 DEF wake
  <2>2. Pending'
    BY <1>1, <1>12, SMT DEF wake
  <2> QED BY <1>2, <2>1, <2>2
<1>13. CASE time_out
  <2>1. Log' /\ (reader \in Reader)' /\ Switch'
    BY <1>3, <1>6, <1>7, <1>13 DEF time_out
  <2>2. PICK n \in 0 .. Len(_pendlist) :
          LET left == SubSeq(_pendlist, n + 1, Len(_pendlist))
          IN /\ \A i \in DOMAIN left : left[i].age < 2
             /\ _pendlist' = [i \in DOMAIN left |-> [left[i] EXCEPT !.age = @ + 1]]
             /\ timer' = rearm(left)
             /\ retry({_pendlist[i].slave : i \in 1 .. n})
    BY <1>13 DEF time_out
  <2>3. _pendlist' \in Seq(Entry)
    BY <1>1, <2>2, OlderType
  <2>4. timer' \in {"none", "timed", "ready"}
    BY <2>2 DEF rearm
  <2>5. Pending'
    BY <1>1, <1>13, <2>3, <2>4 DEF time_out
  <2>6. Slaves' /\ Stops'
    BY <1>1, <1>13, <2>2 DEF time_out, retry
  <2> QED BY <1>2, <2>1, <2>5, <2>6
<1>14. CASE restart
  <2>1. linked \subseteq Nat /\ linked # {}
    BY FileType, SMT
  <2>2. Min(linked) \in linked
    BY <2>1, MinLeast
  <2>3. /\ file \in Seq(Seq(Parts)) /\ file' = Append(file, <<>>) /\ <<>> \in Seq(Parts)
        /\ Len(file) \in Nat /\ DOMAIN file = 1 .. Len(file)
    BY <1>1, <1>14, FileType, SMT DEF restart
  <2>4. file' \in Seq(Seq(Parts)) /\ Len(file') = Len(file) + 1 /\ DOMAIN file' = 1 .. Len(file) + 1
    BY <2>3, SMT
  <2>5. 1 .. Len(file) \subseteq 1 .. Len(file) + 1 /\ Len(file) + 1 \in 1 .. Len(file) + 1
    BY <2>3, SMT
  <2>6. linked' = linked \cup {Len(file) + 1} /\ _cur_min_serial' = Min(linked) /\ _cur_size' = 0
    BY <1>14 DEF restart
  <2>7. linked' \subseteq DOMAIN file' /\ Len(file') \in linked' /\ Min(linked) \in DOMAIN file'
    BY <1>1, <2>2, <2>3, <2>4, <2>5, <2>6
  <2>8. _cur_min_serial' \in 0 .. Len(file')
    BY <2>4, <2>6, <2>7, SMT
  <2>9. Log'
    BY <1>1, <1>14, <2>4, <2>6, <2>7, <2>8, SMTT(30) DEF restart
  <2>10. (reader \in Reader)'
    BY <1>14, <2>7 DEF restart, Reader
  <2>11. _pendlist' = <<>> /\ copy' = copy /\ _wakeup' = FALSE /\ timer' = "none"
    BY <1>14 DEF restart
  <2>13. <<>> \in Seq(Entry)
    BY SMT
  <2>110. Pending'
    BY <1>1, <2>11, <2>13
  <2>12. Slaves' /\ Switch' /\ Stops'
    BY <1>1, <1>14, BoundAssumption, SMT DEF restart
  <2> QED BY <1>2, <2>9, <2>10, <2>110, <2>12
<1>15. ASSUME NEW s \in Slave, register_hb_log_process(s)
       PROVE  TypeOK'
  <2>1. Log' /\ Pending' /\ Switch' /\ Stops'
    BY <1>1, <1>3, <1>4, <1>15 DEF register_hb_log_process
  <2>2. get_writer_jid \in JournalID
    BY <1>1, FileType DEF get_writer_jid, JournalID
  <2>3. jid[s] \in JournalID
    BY <1>1
  <2>4. Slaves'
    BY <1>1, <1>15, <2>2 DEF register_hb_log_process
  <2>5. reader' \in Reader
    BY <1>1, <1>15, <2>3, SeekType DEF register_hb_log_process
  <2>6. (reader \in Reader)'
    BY <1>15, <2>5 DEF register_hb_log_process, log, Reader
  <2> QED BY <1>2, <2>1, <2>4, <2>6
<1>16. ASSUME NEW s \in Slave \cup {NoSlave}, NEW v \in JournalID, read_hb_log_process(s, v),
              UNCHANGED <<log, log_hotbackup_key_switch_, restarts>>, _wakeup' \in BOOLEAN,
              copy' \in Seq(Entry)
       PROVE  TypeOK'
  <2>1. /\ _pendlist' \in Seq(Entry) /\ timer' \in {"none", "timed", "ready"} /\ reader' \in Reader
        /\ Slaves' /\ Stops'
    BY <1>16, PollType
  <2>2. (reader \in Reader)'
    BY <1>16, <2>1 DEF log, Reader
  <2>3. Log' /\ Switch'
    BY <1>3, <1>7, <1>16
  <2> QED BY <1>2, <1>16, <2>1, <2>2, <2>3
<1>17. ASSUME NEW s \in Slave, poll(s)
       PROVE  TypeOK'
  <2>1. jid[s] \in JournalID
    BY <1>1, SMT
  <2> QED BY <1>1, <1>16, <1>17, <2>1 DEF poll
<1>18. CASE wake_turn
  <2>1. copy \in Seq(Entry) /\ copy # <<>>
    BY <1>1, <1>18 DEF wake_turn
  <2>2. Head(copy) \in Entry /\ Tail(copy) \in Seq(Entry)
    BY <2>1, SMT
  <2>3. Head(copy).slave \in Slave \cup {NoSlave} /\ Head(copy).jid \in JournalID
    BY <2>2 DEF Entry
  <2> QED BY <1>16, <1>18, <2>2, <2>3 DEF wake_turn
<1>19. ASSUME NEW s \in Slave, slave_restart(s)
       PROVE  TypeOK'
  <2>1. Log' /\ (reader \in Reader)' /\ Switch'
    BY <1>3, <1>6, <1>7, <1>19 DEF slave_restart
  <2>20. Stops'
    <3>1. /\ slave_restarts < max_slave_restart /\ slave_restarts' = slave_restarts + 1
          /\ slave_restarts \in 0 .. max_slave_restart
      BY <1>1, <1>19 DEF slave_restart
    <3> QED BY <3>1, BoundAssumption, SMT
  <2>21. Slaves'
    BY <1>1, <1>19 DEF slave_restart
  <2>3. \A e \in Entry : [e EXCEPT !.slave = NoSlave] \in Entry
    BY DEF Entry
  <2>4. \A i \in DOMAIN _pendlist : _pendlist[i] \in Entry
    BY <1>1, SMT
  <2>5. DOMAIN _pendlist = 1 .. Len(_pendlist) /\ Len(_pendlist) \in Nat
    BY <1>1, SMT
  <2>6. _pendlist' \in Seq(Entry)
    BY <1>19, <2>3, <2>4, <2>5, SMT DEF slave_restart
  <2>7. Pending'
    BY <1>1, <1>19, <2>6 DEF slave_restart
  <2> QED BY <1>2, <2>1, <2>20, <2>21, <2>7
<1>20. CASE UNCHANGED vars
  BY <1>2, <1>3, <1>4, <1>5, <1>6, <1>7, <1>20 DEF vars
<1> QED BY <1>10, <1>11, <1>12, <1>13, <1>14, <1>15, <1>17, <1>18, <1>19, <1>20
        DEF Next, job_timer_procedure

(* Every variable has its type, however many writes fail. *)
THEOREM Types ==
  Spec => []TypeOK
BY TypeInit, TypeNext, PTL DEF Spec
-----------------------------------------------------------------------------
(***************************************************************************)
(* What the files hold when no write fails: whole records, one after the   *)
(* other, all of them, and the files that are not deleted are the last.    *)
(***************************************************************************)
Whole(f) ==
  \A i \in DOMAIN f :
    /\ i = 1 => f[i].part = "length"
    /\ f[i].part = "length" => i + 1 \in DOMAIN f /\ f[i + 1] = Part(f[i].rec, "body")
    /\ f[i].part = "body" /\ i + 1 \in DOMAIN f => f[i + 1].part = "length"

Ordered ==
  \A t, u \in DOMAIN file : \A i \in DOMAIN file[t], j \in DOMAIN file[u] :
    t < u \/ (t = u /\ i <= j) => file[t][i].rec <= file[u][j].rec

Complete ==
  \A r \in 1 .. written : \E t \in DOMAIN file : \E i \in DOMAIN file[t] : file[t][i].rec = r

LogInv ==
  /\ \A t \in DOMAIN file : Whole(file[t])
  /\ Ordered /\ Complete
  /\ \A t \in DOMAIN file : \A i \in DOMAIN file[t] : file[t][i].rec <= written
  /\ _cur_size = Len(file[Len(file)])
  /\ linked = {t \in DOMAIN file : t >= _cur_min_serial}

\* Part i of file t is one of those before v.
Upto(t, i, v) == t < v.serial \/ (t = v.serial /\ i <= v.offset)

\* v is a place between two records of the files f.
Between(f, v) ==
  /\ v.serial <= Len(f)
  /\ v.serial \in DOMAIN f =>
       /\ v.offset <= Len(f[v.serial])
       /\ v.offset # 0 => f[v.serial][v.offset].part = "body"

\* No record of the files f before v is later than r.
NotAhead(f, v, r) ==
  \A t \in DOMAIN f : \A i \in DOMAIN f[t] : Upto(t, i, v) => f[t][i].rec <= r

\* Record r of the files f is before v.
Seen(f, v, r) == \E t \in DOMAIN f : \E i \in DOMAIN f[t] : Upto(t, i, v) /\ f[t][i].rec = r

\* read of a part finds the length of a record at part i of file t, the first after rd.
Finds(rd, t, i) ==
  /\ read(rd) = [ok |-> TRUE, part |-> file[t][i], rd |-> [serial |-> t, offset |-> i, fd |-> t]]
  /\ file[t][i].part = "length"
  /\ \A u \in DOMAIN file : \A j \in DOMAIN file[u] :
       u < t \/ (u = t /\ j < i) => Upto(u, j, rd)

\* There is no part after rd.
FindsNothing(rd) ==
  /\ ~read(rd).ok /\ read(rd).rd \in Reader
  /\ read(rd).rd.fd = read(rd).rd.serial /\ Between(file, read(rd).rd)
  /\ \A u \in DOMAIN file : \A j \in DOMAIN file[u] : Upto(u, j, read(rd).rd) => Upto(u, j, rd)

(* From a place between two records, read of a part finds the length of the next record, *)
(* in this file or in the first later one that is not empty, or nothing.                 *)
LEMMA ReadLength ==
  ASSUME TypeOK, LogInv, NEW rd \in Reader, rd.fd = rd.serial, rd.serial \in linked, Between(file, rd)
  PROVE  (\E t \in linked : \E i \in DOMAIN file[t] : Finds(rd, t, i)) \/ FindsNothing(rd)
<1> DEFINE S == rd.serial
           later == {t \in linked : t > S}
           filled == {t \in later : file[t] # <<>>}
<1>0. /\ S \in DOMAIN file /\ S \in Nat /\ rd.offset \in Nat
      /\ rd = [serial |-> S, offset |-> rd.offset, fd |-> S]
  BY FileType, SMT DEF Reader
<1>1. \A u \in DOMAIN file : u \in Nat /\ \A j \in DOMAIN file[u] : j \in Nat /\ file[u] # <<>>
  BY FileType, SMT
<1>2. \A u \in DOMAIN file : u > S => u \in later
  <2>1. _cur_min_serial \in Nat /\ linked = {t \in DOMAIN file : t >= _cur_min_serial}
    BY FileType, SMTT(30) DEF LogInv, TypeOK
  <2> QED BY <1>0, <1>1, <2>1, SMT
<1>3. CASE rd.offset < Len(file[S])
  <2> DEFINE i == rd.offset + 1
  <2>1. i \in DOMAIN file[S]
    BY <1>0, <1>3, FileType, SMT
  <2>2. read(rd) = [ok |-> TRUE, part |-> file[S][i], rd |-> [serial |-> S, offset |-> i, fd |-> S]]
    BY <1>0, <1>3 DEF read
  <2>3. Whole(file[S]) /\ file[S][i] \in Parts
    BY <1>0, <2>1, FileType DEF LogInv
  <2>4. file[S][i].part = "length"
    <3>1. CASE rd.offset = 0
      BY <2>1, <2>3, <3>1, SMT DEF Whole
    <3>2. CASE rd.offset # 0
      <4>1. rd.offset \in DOMAIN file[S] /\ file[S][rd.offset].part = "body"
        BY <1>0, <1>3, <3>2, FileType, SMT DEF Between
      <4> QED BY <2>1, <2>3, <4>1 DEF Whole
    <3> QED BY <3>1, <3>2
  <2>5. \A u \in DOMAIN file : \A j \in DOMAIN file[u] :
          u < S \/ (u = S /\ j < i) => Upto(u, j, rd)
    BY <1>0, <1>1, SMT DEF Upto
  <2>6. Finds(rd, S, i)
    BY <2>2, <2>4, <2>5 DEF Finds
  <2> QED BY <2>1, <2>6
<1>4. CASE ~(rd.offset < Len(file[S])) /\ filled # {}
  <2>0. filled \subseteq Nat
    BY FileType, SMT
  <2>1. Min(filled) \in filled /\ \A y \in filled : Min(filled) <= y
    BY <1>4, <2>0, MinLeast
  <2> HIDE DEF filled
  <2> DEFINE m == Min(filled)
  <2>2. m \in linked /\ m \in DOMAIN file /\ file[m] # <<>> /\ m > S
    BY <2>1, FileType DEF filled
  <2>3. 1 \in DOMAIN file[m]
    BY <2>2, FileType, SMT
  <2>4. read(rd) = [ok |-> TRUE, part |-> file[m][1], rd |-> [serial |-> m, offset |-> 1, fd |-> m]]
    BY <1>4, <1>0 DEF read, filled
  <2>5. file[m][1].part = "length"
    BY <2>2, <2>3 DEF LogInv, Whole
  <2>6. ASSUME NEW u \in DOMAIN file, NEW j \in DOMAIN file[u], u < m \/ (u = m /\ j < 1)
        PROVE  Upto(u, j, rd)
    <3>1. u < m
      BY <2>6, <1>1, FileType, SMT
    <3>2. u \notin filled
      BY <1>1, <2>1, <2>2, <3>1, SMT
    <3>3. ~(u > S)
      BY <1>1, <1>2, <3>2 DEF filled
    <3>4. u = S => j <= rd.offset
      BY <1>0, <1>4, FileType, SMT
    <3> QED BY <1>0, <1>1, <3>3, <3>4, SMT DEF Upto
  <2>7. Finds(rd, m, 1)
    BY <2>4, <2>5, <2>6 DEF Finds
  <2> QED BY <2>2, <2>3, <2>7
<1>5. CASE ~(rd.offset < Len(file[S])) /\ filled = {}
  <2> DEFINE e == [serial |-> Len(file), offset |-> 0, fd |-> Len(file)]
  <2>1. read(rd).ok = FALSE /\ read(rd).rd \in {rd, e}
    BY <1>5, <1>0 DEF read
  <2>2. e \in Reader /\ Between(file, e)
    BY FileType, SMT DEF Reader, Between
  <2>3. ASSUME NEW u \in DOMAIN file, NEW j \in DOMAIN file[u], Upto(u, j, e)
        PROVE  Upto(u, j, rd)
    <3>1. u \in Nat /\ j \in 1 .. Len(file[u]) /\ Len(file[u]) \in Nat
      BY FileType, SMT
    <3>2. ~(u > S)
      BY <1>1, <1>2, <1>5
    <3>3. u = S => j <= rd.offset
      BY <1>0, <1>5, <3>1, SMT
    <3> QED BY <1>0, <3>1, <3>2, <3>3, SMT DEF Upto
  <2>4. e.fd = e.serial
    OBVIOUS
  <2> HIDE DEF e
  <2> QED BY <2>1, <2>2, <2>3, <2>4 DEF FindsNothing
<1> QED BY <1>0, <1>3, <1>4, <1>5
(* From a place between two records, Read returns the next record or nothing: what a *)
(* slave has after it is still without a gap, and the reader is between two records.  *)
LEMMA ReadNext ==
  ASSUME TypeOK, LogInv, NEW rd \in Reader, rd.fd = rd.serial, rd.serial \in linked, Between(file, rd),
         NEW g
  PROVE  LET r == Read(rd, g) IN
         /\ r.what \in {"none", "record"} /\ r.rec \in Nat /\ r.rec <= written
         /\ r.rd \in Reader /\ r.rd.fd = r.rd.serial /\ Between(file, r.rd)
         /\ \A a \in Nat : NotAhead(file, rd, a) =>
              r.rec <= a + 1 /\ NotAhead(file, r.rd, IF r.rec > a THEN r.rec ELSE a)
<1> DEFINE r == Read(rd, g)
<1>1. CASE FindsNothing(rd)
  <2>1. r = [what |-> "none", rec |-> 0, rd |-> read(rd).rd]
    BY <1>1 DEF Read, FindsNothing
  <2>2. \A a \in Nat : ~(0 > a) /\ 0 <= a + 1
    BY SMT
  <2>3. \A a \in Nat : NotAhead(file, rd, a) => NotAhead(file, r.rd, a)
    BY <1>1, <2>1, SMT DEF FindsNothing, NotAhead
  <2> HIDE DEF r
  <2>4. r.rd \in Reader /\ r.rd.fd = r.rd.serial /\ Between(file, r.rd)
    BY <1>1, <2>1 DEF FindsNothing
  <2>5. r.what = "none" /\ r.rec = 0
    BY <2>1
  <2>6. 0 <= written
    BY BoundAssumption, SMT DEF TypeOK
  <2> QED BY <2>2, <2>3, <2>4, <2>5, <2>6, SMT DEF r
<1>2. ASSUME NEW t \in linked, NEW i \in DOMAIN file[t], Finds(rd, t, i)
      PROVE  /\ r.what \in {"none", "record"} /\ r.rec \in Nat /\ r.rec <= written
             /\ r.rd \in Reader /\ r.rd.fd = r.rd.serial /\ Between(file, r.rd)
             /\ \A a \in Nat : NotAhead(file, rd, a) =>
                  r.rec <= a + 1 /\ NotAhead(file, r.rd, IF r.rec > a THEN r.rec ELSE a)
  <2> DEFINE at == [serial |-> t, offset |-> i, fd |-> t]
             end == [serial |-> t, offset |-> i + 1, fd |-> t]
             n == file[t][i].rec
  <2>0. t \in DOMAIN file /\ t \in Nat /\ i \in Nat /\ Len(file[t]) \in Nat
        /\ DOMAIN file[t] = 1 .. Len(file[t]) /\ file[t][i] \in Parts
    BY FileType, SMT
  <2>1. i + 1 \in DOMAIN file[t] /\ file[t][i + 1] = Part(n, "body") /\ file[t][i].part = "length"
    BY <1>2, <2>0 DEF LogInv, Whole, Finds
  <2>2. read(at) = [ok |-> TRUE, part |-> Part(n, "body"), rd |-> end]
    <3>1. at.offset < Len(file[at.fd])
      BY <2>0, <2>1, SMT
    <3> QED BY <2>1, <3>1 DEF read
  <2>3. read(rd) = [ok |-> TRUE, part |-> file[t][i], rd |-> at]
    BY <1>2 DEF Finds
  <2> HIDE DEF at, n
  <2>4. r = [what |-> "record", rec |-> n, rd |-> end]
    BY <2>1, <2>2, <2>3, SMT DEF Read, n
  <2> HIDE DEF r
  <2>5. r.what = "record" /\ r.rec = n /\ r.rd = end
    BY <2>4
  <2>6. end \in Reader /\ end.fd = end.serial
    BY <2>0, SMT DEF Reader
  <2>7. Between(file, end)
    BY <2>0, <2>1, FileType, SMT DEF Between, Part
  <2>8. n \in Nat /\ n >= 1 /\ n <= written /\ written \in Nat
    <3>1. n \in Nat /\ n >= 1
      BY <2>0, RecNat DEF n
    <3>2. n <= written
      BY <2>0 DEF n, LogInv
    <3>3. written \in Nat
      BY BoundAssumption, SMT DEF TypeOK
    <3> QED BY <3>1, <3>2, <3>3
  <2>9. ASSUME NEW a \in Nat, NotAhead(file, rd, a)
        PROVE  n <= a + 1 /\ NotAhead(file, end, IF n > a THEN n ELSE a)
    <3>1. n <= a + 1
      <4> SUFFICES ASSUME n > a + 1 PROVE FALSE
        BY <2>8, SMT
      <4>1. n - 1 \in 1 .. written
        BY <2>8, SMT
      <4>2. PICK u \in DOMAIN file : \E j \in DOMAIN file[u] : file[u][j].rec = n - 1
        BY <4>1 DEF LogInv, Complete
      <4>3. PICK j \in DOMAIN file[u] : file[u][j].rec = n - 1
        BY <4>2
      <4>4. u \in Nat /\ j \in Nat
        BY FileType, SMT
      <4>5. ~(t < u \/ (t = u /\ i <= j))
        <5>1. t < u \/ (t = u /\ i <= j) => file[t][i].rec <= file[u][j].rec
          BY <2>0 DEF LogInv, Ordered
        <5> QED BY <2>8, <4>3, <5>1, SMT DEF n
      <4>6. u < t \/ (u = t /\ j < i)
        BY <2>0, <4>4, <4>5, SMT
      <4>7. Upto(u, j, rd)
        BY <1>2, <4>6 DEF Finds
      <4>8. file[u][j].rec <= a
        BY <2>9, <4>7 DEF NotAhead
      <4> QED BY <2>8, <4>3, <4>8, SMT
    <3>2. ASSUME NEW u \in DOMAIN file, NEW j \in DOMAIN file[u], Upto(u, j, end)
          PROVE  file[u][j].rec <= a \/ file[u][j].rec = n
      <4>1. u \in Nat /\ j \in Nat
        BY FileType, SMTT(30)
      <4>2. u < t \/ (u = t /\ j < i) \/ (u = t /\ j = i) \/ (u = t /\ j = i + 1)
        BY <2>0, <3>2, <4>1, SMT DEF Upto
      <4>3. CASE u < t \/ (u = t /\ j < i)
        BY <1>2, <2>9, <4>3 DEF Finds, NotAhead
      <4>4. CASE (u = t /\ j = i) \/ (u = t /\ j = i + 1)
        BY <2>1, <4>4, SMT DEF n, Part
      <4> QED BY <4>2, <4>3, <4>4
    <3>3. \A u \in DOMAIN file : \A j \in DOMAIN file[u] : file[u][j].rec \in Nat
      BY FileType, RecNat
    <3>4. ASSUME NEW u \in DOMAIN file, NEW j \in DOMAIN file[u], Upto(u, j, end)
          PROVE  file[u][j].rec <= IF n > a THEN n ELSE a
      BY <2>8, <3>2, <3>3, <3>4, SMT
    <3> QED BY <3>1, <3>4 DEF NotAhead
  <2> HIDE DEF end
  <2> QED BY <2>5, <2>6, <2>7, <2>8, <2>9
<1> QED BY <1>1, <1>2, ReadLength
-----------------------------------------------------------------------------
(***************************************************************************)
(* The log grows.                                                          *)
(***************************************************************************)
\* The files keep their parts, and new ones come after all there were.
Grows ==
  /\ Len(file) <= Len(file')
  /\ \A t \in DOMAIN file :
       /\ t \in DOMAIN file' /\ Len(file[t]) <= Len(file'[t])
       /\ \A i \in DOMAIN file[t] : i \in DOMAIN file'[t] /\ file'[t][i] = file[t][i]
  /\ \A t \in DOMAIN file' : \A i \in DOMAIN file'[t] :
       \/ t \in DOMAIN file /\ i \in DOMAIN file[t]
       \/ t > Len(file)
       \/ t = Len(file) /\ i > Len(file[t])

\* The new parts are those of record r, at the end of the last file.
Adds(r) ==
  LET L == Len(file)
      M == Len(file[L])
  IN /\ Len(file') \in {L, L + 1}
     /\ \A t \in DOMAIN file : t # L => file'[t] = file[t]
     /\ Len(file'[L]) = M + 2
     /\ \A i \in 1 .. M : file'[L][i] = file[L][i]
     /\ file'[L][M + 1] = Part(r, "length") /\ file'[L][M + 2] = Part(r, "body")
     /\ Len(file') = L + 1 => file'[L + 1] = <<>>

(* Two parts at the end of a file. *)
LEMMA ConcatRecord ==
  ASSUME NEW f \in Seq(Parts), NEW r \in 1 .. max_records
  PROVE  LET c == f \o SubSeq(Record(r), 1, 2) IN
         /\ c \in Seq(Parts) /\ Len(c) = Len(f) + 2
         /\ \A i \in 1 .. Len(f) : c[i] = f[i]
         /\ c[Len(f) + 1] = Part(r, "length") /\ c[Len(f) + 2] = Part(r, "body")
<1>1. Part(r, "length") \in Parts /\ Part(r, "body") \in Parts
  BY DEF Part, Parts
<1> DEFINE x == Part(r, "length")
           y == Part(r, "body")
           s == SubSeq(<<x, y>>, 1, 2)
<1> HIDE DEF x, y
<1>2. s \in Seq(Parts) /\ Len(s) = 2 /\ s[1] = x /\ s[2] = y
  BY <1>1, SMT DEF x, y
<1> HIDE DEF s
<1> DEFINE c == f \o s
<1>30. s \in Seq(Parts)
  BY <1>2
<1>31. c \in Seq(Parts) /\ Len(c) = Len(f) + Len(s)
  BY <1>30, SMT
<1>3. c \in Seq(Parts) /\ Len(c) = Len(f) + 2 /\ Len(f) \in Nat
  BY <1>2, <1>31, SMT
<1>4. \A i \in 1 .. Len(f) : c[i] = f[i]
  BY <1>2, SMT
<1>5. Len(f) + 1 \in 1 .. Len(f) + 2 /\ Len(f) + 2 \in 1 .. Len(f) + 2
  BY <1>3, SMT
<1>6. c[Len(f) + 1] = s[1]
  BY <1>2, <1>3, <1>5, SMT
<1>7. c[Len(f) + 2] = s[2]
  BY <1>2, <1>3, <1>5, SMT
<1> QED BY <1>2, <1>3, <1>4, <1>6, <1>7 DEF s, x, y, Record
(* A write that does not fail adds its record. *)
LEMMA WriteAdds ==
  ASSUME TypeOK, max_short = 0, NEW n \in 0 .. 2, write(n)
  PROVE  /\ Adds(written + 1) /\ written' = written + 1
         /\ IF Len(file') = Len(file)
            THEN UNCHANGED <<linked, _cur_min_serial>> /\ _cur_size' = _cur_size + 2
            ELSE /\ _cur_size' = 0
                 /\ \/ /\ linked' = (linked \ {_cur_min_serial}) \cup {Len(file) + 1}
                       /\ _cur_min_serial' = _cur_min_serial + 1
                    \/ /\ linked' = linked \cup {Len(file) + 1}
                       /\ _cur_min_serial' = _cur_min_serial
<1> DEFINE L == Len(file)
           c == file[L] \o SubSeq(Record(written + 1), 1, 2)
           f == [file EXCEPT ![L] = c]
           M == Len(file[L])
<1>1. n = 2 /\ written' = written + 1 /\ written + 1 \in 1 .. max_records
  BY BoundAssumption, SMTT(30) DEF write, TypeOK
<1>2. shift_file(c, _cur_size + 2)
  BY <1>1 DEF write
<1>3. /\ file \in Seq(Seq(Parts)) /\ L \in DOMAIN file /\ L \in Nat /\ file[L] \in Seq(Parts)
      /\ M \in Nat /\ DOMAIN file = 1 .. L
  BY FileType
<1>4. /\ c \in Seq(Parts) /\ Len(c) = M + 2 /\ \A i \in 1 .. M : c[i] = file[L][i]
      /\ c[M + 1] = Part(written + 1, "length") /\ c[M + 2] = Part(written + 1, "body")
  BY <1>1, <1>3, ConcatRecord
<1> HIDE DEF c, M
<1>5. f \in Seq(Seq(Parts)) /\ Len(f) = L /\ f[L] = c /\ \A t \in DOMAIN file : t # L => f[t] = file[t]
  BY <1>3, <1>4, SMT
<1>6. ASSUME Len(file') \in {L, L + 1}, file'[L] = c,
             \A t \in DOMAIN file : t # L => file'[t] = file[t],
             Len(file') = L + 1 => file'[L + 1] = <<>>
      PROVE  Adds(written + 1)
  BY <1>4, <1>6 DEF Adds, M
<1>7. CASE _cur_size + 2 < _max_size
  <2>1. file' = f /\ UNCHANGED <<linked, _cur_min_serial>> /\ _cur_size' = _cur_size + 2
    BY <1>2, <1>7 DEF shift_file
  <2> HIDE DEF f, L
  <2>20. Len(file') = L
    BY <1>5, <2>1
  <2>2. Len(file') = L /\ L # L + 1
    BY <1>3, <2>20, SMT
  <2> QED BY <1>1, <1>5, <1>6, <2>1, <2>2 DEF L
<1>8. CASE ~(_cur_size + 2 < _max_size)
  <2>1. /\ file' = Append(f, <<>>) /\ _cur_size' = 0
        /\ \/ /\ linked' = (linked \ {_cur_min_serial}) \cup {L + 1}
              /\ _cur_min_serial' = _cur_min_serial + 1
           \/ linked' = linked \cup {L + 1} /\ _cur_min_serial' = _cur_min_serial
    BY <1>2, <1>8 DEF shift_file
  <2> HIDE DEF f
  <2>2. <<>> \in Seq(Parts)
    BY SMT
  <2> DEFINE h == Append(f, <<>>)
  <2>3. Len(h) = L + 1 /\ h[L + 1] = <<>> /\ \A t \in 1 .. L : h[t] = f[t]
    BY <1>3, <1>5, <2>2, SMT
  <2>4. file' = h
    BY <2>1
  <2> HIDE DEF h
  <2>5. Adds(written + 1)
    BY <1>3, <1>5, <1>6, <2>3, <2>4
  <2> HIDE DEF L
  <2>6. Len(file') = L + 1
    BY <2>3, <2>4
  <2>7. Len(file') # L
    BY <1>3, <2>6, SMT
  <2> QED BY <1>1, <2>1, <2>5, <2>7 DEF L
<1> QED BY <1>7, <1>8

(* So the log grows. *)
LEMMA AddsGrows ==
  ASSUME TypeOK, TypeOK', NEW r, Adds(r)
  PROVE  Grows
<1> DEFINE L == Len(file)
           M == Len(file[L])
<1>1. /\ L \in DOMAIN file /\ L \in Nat /\ M \in Nat /\ DOMAIN file = 1 .. L
      /\ \A t \in DOMAIN file : Len(file[t]) \in Nat /\ DOMAIN file[t] = 1 .. Len(file[t])
  BY FileType
<1>2. /\ DOMAIN file' = 1 .. Len(file') /\ Len(file') \in Nat
      /\ \A t \in DOMAIN file' : Len(file'[t]) \in Nat /\ DOMAIN file'[t] = 1 .. Len(file'[t])
  BY FileTypeNext
<1>3. Len(file') \in {L, L + 1} /\ \A t \in DOMAIN file : t # L => file'[t] = file[t]
  BY DEF Adds
<1>4. Len(file'[L]) = M + 2 /\ \A i \in 1 .. M : file'[L][i] = file[L][i]
  BY DEF Adds
<1> HIDE DEF L, M
<1>5. ASSUME NEW t \in DOMAIN file
      PROVE  /\ t \in DOMAIN file' /\ Len(file[t]) <= Len(file'[t])
             /\ \A i \in DOMAIN file[t] : i \in DOMAIN file'[t] /\ file'[t][i] = file[t][i]
  <2>1. t \in DOMAIN file'
    BY <1>1, <1>2, <1>3, SMT
  <2>2. CASE t # L
    BY <1>1, <1>3, <2>1, <2>2, SMT
  <2>3. CASE t = L
    BY <1>1, <1>2, <1>4, <2>1, <2>3, SMT DEF M
  <2> QED BY <2>2, <2>3
<1>6. ASSUME NEW t \in DOMAIN file', NEW i \in DOMAIN file'[t]
      PROVE  \/ t \in DOMAIN file /\ i \in DOMAIN file[t]
             \/ t > L
             \/ t = L /\ i > Len(file[t])
  <2>1. t > L \/ (t \in DOMAIN file /\ t # L) \/ t = L
    BY <1>1, <1>2, SMT
  <2>2. CASE t \in DOMAIN file /\ t # L
    BY <1>3, <2>2
  <2>3. CASE t = L
    BY <1>1, <1>2, <2>3, SMT
  <2> QED BY <2>1, <2>2, <2>3
<1>7. L <= Len(file')
  BY <1>1, <1>3, SMT
<1> QED BY <1>5, <1>6, <1>7 DEF Grows, L
(* A file to which a record is added has whole records. *)
LEMMA WholeAdds ==
  ASSUME NEW f, NEW h, NEW M \in Nat, NEW r, Whole(f), DOMAIN f = 1 .. M, DOMAIN h = 1 .. M + 2,
         \A i \in 1 .. M : h[i] = f[i] /\ f[i].part \in {"length", "body"},
         h[M + 1] = Part(r, "length"), h[M + 2] = Part(r, "body")
  PROVE  Whole(h)
<1> SUFFICES ASSUME NEW i \in 1 .. M + 2
             PROVE  /\ i = 1 => h[i].part = "length"
                    /\ h[i].part = "length" =>
                         i + 1 \in 1 .. M + 2 /\ h[i + 1] = Part(h[i].rec, "body")
                    /\ h[i].part = "body" /\ i + 1 \in 1 .. M + 2 => h[i + 1].part = "length"
  BY SMT DEF Whole
<1>1. h[M + 1].part = "length" /\ h[M + 1].rec = r /\ h[M + 2].part = "body"
  BY SMT DEF Part
<1>2. CASE i \in 1 .. M
  <2>1. h[i] = f[i] /\ f[i].part \in {"length", "body"}
    BY <1>2
  <2>2. i = 1 => f[i].part = "length"
    BY <1>2 DEF Whole
  <2>3. CASE f[i].part = "length"
    <3>1. i + 1 \in 1 .. M /\ f[i + 1] = Part(f[i].rec, "body")
      BY <1>2, <2>3 DEF Whole
    <3>2. h[i + 1] = f[i + 1] /\ i + 1 \in 1 .. M + 2
      BY <3>1, SMT
    <3> QED BY <2>1, <2>3, <3>1, <3>2
  <2>4. CASE f[i].part = "body"
    <3>1. CASE i = M
      BY <1>1, <2>1, <2>2, <2>4, <3>1
    <3>2. CASE i # M
      <4>1. i + 1 \in 1 .. M
        BY <1>2, <3>2, SMT
      <4>2. f[i + 1].part = "length" /\ h[i + 1] = f[i + 1]
        BY <1>2, <2>4, <4>1 DEF Whole
      <4> QED BY <2>1, <2>2, <2>4, <4>2
    <3> QED BY <3>1, <3>2
  <2> QED BY <2>1, <2>3, <2>4
<1>3. CASE i = M + 1
  <2>1. i + 1 = M + 2 /\ M + 2 \in 1 .. M + 2
    BY <1>3, SMT
  <2> QED BY <1>1, <1>3, <2>1
<1>4. CASE i = M + 2
  <2>1. i # 1 /\ i + 1 \notin 1 .. M + 2
    BY <1>4, SMT
  <2> QED BY <1>1, <1>4, <2>1
<1> QED BY <1>2, <1>3, <1>4, SMT
(* A write keeps the invariant of the log. *)
LEMMA WriteLog ==
  ASSUME TypeOK, TypeOK', LogInv, max_short = 0, NEW n \in 0 .. 2, write(n)
  PROVE  LogInv' /\ Grows
<1> DEFINE L == Len(file)
           M == Len(file[L])
           w == written + 1
           Old(t, i) == t \in DOMAIN file /\ i \in DOMAIN file[t]
<1>0. Adds(w) /\ Grows /\ written' = w
  BY WriteAdds, AddsGrows
<1>1. /\ L \in DOMAIN file /\ L \in Nat /\ M \in Nat /\ DOMAIN file = 1 .. L
      /\ \A t \in DOMAIN file : /\ Len(file[t]) \in Nat /\ DOMAIN file[t] = 1 .. Len(file[t])
                                /\ \A i \in DOMAIN file[t] : file[t][i] \in Parts
  BY FileType
<1>2. /\ DOMAIN file' = 1 .. Len(file') /\ Len(file') \in Nat
      /\ \A t \in DOMAIN file' : Len(file'[t]) \in Nat /\ DOMAIN file'[t] = 1 .. Len(file'[t])
  BY FileTypeNext
<1>3. Len(file') \in {L, L + 1} /\ \A t \in DOMAIN file : t # L => file'[t] = file[t]
  BY <1>0 DEF Adds
<1>4. /\ Len(file'[L]) = M + 2 /\ \A i \in 1 .. M : file'[L][i] = file[L][i]
      /\ file'[L][M + 1] = Part(w, "length") /\ file'[L][M + 2] = Part(w, "body")
  BY <1>0 DEF Adds
<1>5. Len(file') = L + 1 => file'[L + 1] = <<>>
  BY <1>0 DEF Adds
<1>6. written \in Nat /\ w \in Nat /\ w > written
  BY BoundAssumption, SMT DEF TypeOK
<1>60. M = Len(file[L])
  OBVIOUS
<1> HIDE DEF L, M, w
<1>61. L \in DOMAIN file'
  BY <1>1, <1>2, <1>3, SMT
<1>62. \A t \in DOMAIN file' : t \in DOMAIN file \/ (t = L + 1 /\ Len(file') = L + 1)
  BY <1>1, <1>2, <1>3, SMT
<1>7. ASSUME NEW t \in DOMAIN file', NEW i \in DOMAIN file'[t]
      PROVE  \/ Old(t, i) /\ file'[t][i] = file[t][i]
             \/ t = L /\ i \in {M + 1, M + 2} /\ file'[t][i].rec = w
  <2>1. CASE t \in DOMAIN file /\ t # L
    BY <1>3, <2>1
  <2>2. CASE t = L
    <3>1. i \in 1 .. M + 2
      BY <1>2, <1>4, <2>2
    <3>2. i \in 1 .. M \/ i = M + 1 \/ i = M + 2
      BY <1>1, <3>1, SMT
    <3>3. Part(w, "length").rec = w /\ Part(w, "body").rec = w
      BY DEF Part
    <3> QED BY <1>1, <1>4, <1>60, <2>2, <3>2, <3>3
  <2>3. CASE t = L + 1 /\ Len(file') = L + 1
    BY <1>5, <2>3, SMT
  <2> QED BY <1>62, <2>1, <2>2, <2>3
<1>8. \A t \in DOMAIN file : \A i \in DOMAIN file[t] : file[t][i].rec \in Nat /\ file[t][i].rec <= written
  BY <1>1, RecNat DEF LogInv
<1>9. \A t \in DOMAIN file' : Whole(file'[t])
  <2>1. ASSUME NEW t \in DOMAIN file, t # L
        PROVE  Whole(file'[t])
    BY <1>3, <2>1 DEF LogInv
  <2>2. Whole(file'[L])
    <3>1. Whole(file[L]) /\ DOMAIN file[L] = 1 .. M /\ DOMAIN file'[L] = 1 .. M + 2
      BY <1>1, <1>2, <1>4, <1>60, <1>61 DEF LogInv
    <3>2. \A i \in 1 .. M : file'[L][i] = file[L][i] /\ file[L][i].part \in {"length", "body"}
      BY <1>1, <1>4, <3>1 DEF Parts
    <3>3. M \in Nat
      BY <1>1
    <3>4. file'[L][M + 1] = Part(w, "length") /\ file'[L][M + 2] = Part(w, "body")
      BY <1>4
    <3> QED BY <3>1, <3>2, <3>3, <3>4, WholeAdds
  <2>3. Whole(<<>>)
    BY SMT DEF Whole
  <2> QED BY <1>5, <1>62, <2>1, <2>2, <2>3
<1>10. \A t \in DOMAIN file' : \A i \in DOMAIN file'[t] : file'[t][i].rec <= written'
  BY <1>0, <1>6, <1>7, <1>8, SMT
<1>11. Ordered'
  <2> SUFFICES ASSUME NEW t \in DOMAIN file', NEW u \in DOMAIN file',
                      NEW i \in DOMAIN file'[t], NEW j \in DOMAIN file'[u],
                      t < u \/ (t = u /\ i <= j)
               PROVE  file'[t][i].rec <= file'[u][j].rec
    BY DEF Ordered
  <2>1. CASE Old(u, j) /\ file'[u][j] = file[u][j]
    <3>1. t \in Nat /\ u \in Nat /\ i \in Nat /\ j \in Nat
      BY <1>2, SMT
    <3>2. u <= L /\ (u = L => j <= M)
      BY <1>1, <1>60, <2>1, <3>1, SMT
    <3>3. ~(t = L /\ i \in {M + 1, M + 2})
      BY <1>1, <3>1, <3>2, SMT
    <3>4. Old(t, i) /\ file'[t][i] = file[t][i]
      BY <1>7, <3>3
    <3> QED BY <2>1, <3>4 DEF LogInv, Ordered
  <2>2. CASE file'[u][j].rec = w
    BY <1>0, <1>10, <2>2
  <2> QED BY <1>7, <2>1, <2>2
<1>12. Complete'
  <2> SUFFICES ASSUME NEW r \in 1 .. w
               PROVE  \E t \in DOMAIN file' : \E i \in DOMAIN file'[t] : file'[t][i].rec = r
    BY <1>0 DEF Complete
  <2>1. CASE r = w
    <3>1. M + 1 \in DOMAIN file'[L] /\ file'[L][M + 1].rec = w
      BY <1>1, <1>2, <1>4, <1>61, SMT DEF Part
    <3> QED BY <1>61, <2>1, <3>1
  <2>2. CASE r # w
    <3>1. r \in 1 .. written
      BY <1>6, <2>2, SMT DEF w
    <3>2. PICK t \in DOMAIN file : \E i \in DOMAIN file[t] : file[t][i].rec = r
      BY <3>1 DEF LogInv, Complete
    <3>3. PICK i \in DOMAIN file[t] : file[t][i].rec = r
      BY <3>2
    <3>4. t \in DOMAIN file' /\ i \in DOMAIN file'[t] /\ file'[t][i].rec = r
      BY <1>0, <3>3 DEF Grows
    <3> QED BY <3>4
  <2> QED BY <2>1, <2>2
<1>13. _cur_size = M /\ linked = {t \in DOMAIN file : t >= _cur_min_serial} /\ _cur_min_serial \in 0 .. L
  BY DEF LogInv, TypeOK, L, M
<1>130. Len(file') = L + 1 => ~(Len(file') = L)
  BY <1>1, SMT
<1>14. _cur_size' = Len(file'[Len(file')])
  <2>1. CASE Len(file') = L
    BY <1>4, <1>13, <2>1, WriteAdds DEF L
  <2>2. CASE Len(file') = L + 1
    <3>1. _cur_size' = 0
      BY <1>130, <2>2, WriteAdds DEF L
    <3> QED BY <1>5, <2>2, <3>1, SMT
  <2> QED BY <1>3, <2>1, <2>2
<1>15. linked' = {t \in DOMAIN file' : t >= _cur_min_serial'}
  <2>1. CASE Len(file') = L
    BY <1>1, <1>2, <1>13, <2>1, WriteAdds DEF L
  <2>2. CASE Len(file') = L + 1
    <3>1. \/ /\ linked' = (linked \ {_cur_min_serial}) \cup {L + 1}
             /\ _cur_min_serial' = _cur_min_serial + 1
          \/ linked' = linked \cup {L + 1} /\ _cur_min_serial' = _cur_min_serial
      BY <1>130, <2>2, WriteAdds DEF L
    <3>2. DOMAIN file' = 1 .. L + 1 /\ DOMAIN file = 1 .. L
      BY <1>1, <1>2, <2>2
    <3>3. \A t : t \in linked' <=> t \in 1 .. L + 1 /\ t >= _cur_min_serial'
      BY <1>1, <1>13, <3>1, <3>2, SMT
    <3> QED BY <3>2, <3>3
  <2> QED BY <1>3, <2>1, <2>2
<1> QED BY <1>0, <1>9, <1>10, <1>11, <1>12, <1>14, <1>15 DEF LogInv
(* What was between two records is so still, and what lies before it is the same. *)
LEMMA GrowsKeeps ==
  ASSUME TypeOK, TypeOK', Grows, NEW v \in JournalID, Between(file, v)
  PROVE  /\ Between(file', v)
         /\ \A a : NotAhead(file, v, a) => NotAhead(file', v, a)
         /\ \A r : Seen(file, v, r) => Seen(file', v, r)
<1>1. /\ DOMAIN file = 1 .. Len(file) /\ Len(file) \in Nat
      /\ \A t \in DOMAIN file : Len(file[t]) \in Nat /\ DOMAIN file[t] = 1 .. Len(file[t])
  BY FileType
<1>2. /\ DOMAIN file' = 1 .. Len(file') /\ Len(file') \in Nat
      /\ \A t \in DOMAIN file' : Len(file'[t]) \in Nat /\ DOMAIN file'[t] = 1 .. Len(file'[t])
  BY FileTypeNext
<1>3. v.serial \in Nat /\ v.offset \in Nat
  BY DEF JournalID
<1>4. v.serial <= Len(file) /\ Len(file) <= Len(file')
  BY DEF Between, Grows
<1>5. v.serial \in DOMAIN file' => v.serial \in DOMAIN file
  BY <1>1, <1>2, <1>3, <1>4, SMT
<1>6. Between(file', v)
  <2>1. v.serial <= Len(file')
    BY <1>1, <1>2, <1>3, <1>4, SMT
  <2>2. ASSUME v.serial \in DOMAIN file
        PROVE  /\ v.offset <= Len(file'[v.serial])
               /\ v.offset # 0 => file'[v.serial][v.offset].part = "body"
    <3>1. v.offset <= Len(file[v.serial])
      BY <2>2 DEF Between
    <3>2. Len(file[v.serial]) <= Len(file'[v.serial]) /\ v.serial \in DOMAIN file'
      BY <2>2 DEF Grows
    <3>3. v.offset <= Len(file'[v.serial])
      BY <1>1, <1>2, <1>3, <2>2, <3>1, <3>2, SMT
    <3>4. CASE v.offset # 0
      <4>1. v.offset \in DOMAIN file[v.serial]
        BY <1>1, <1>3, <2>2, <3>1, <3>4, SMT
      <4> QED BY <2>2, <3>3, <3>4, <4>1, SMT DEF Grows, Between
    <3> QED BY <3>3, <3>4
  <2> QED BY <1>5, <2>1, <2>2 DEF Between
<1>7. ASSUME NEW t \in DOMAIN file', NEW i \in DOMAIN file'[t], Upto(t, i, v)
      PROVE  t \in DOMAIN file /\ i \in DOMAIN file[t]
  <2>1. t \in Nat /\ i \in Nat
    BY <1>2, SMT
  <2>2. ~(t > Len(file))
    BY <1>1, <1>3, <1>4, <1>7, <2>1, SMT DEF Upto
  <2>3. t = Len(file) => ~(i > Len(file[t]))
    <3> SUFFICES ASSUME t = Len(file) PROVE ~(i > Len(file[t]))
      OBVIOUS
    <3>1. t = v.serial /\ i <= v.offset
      BY <1>1, <1>3, <1>4, <1>7, <2>1, SMT DEF Upto
    <3>2. t \in DOMAIN file
      BY <1>1, <1>2, SMT
    <3>3. v.offset <= Len(file[t]) /\ Len(file[t]) \in Nat
      BY <1>1, <3>1, <3>2 DEF Between
    <3> QED BY <1>3, <2>1, <3>1, <3>3, SMT
  <2> QED BY <2>2, <2>3 DEF Grows
<1>8. ASSUME NEW a, NotAhead(file, v, a)
      PROVE  NotAhead(file', v, a)
  BY <1>7, <1>8, SMT DEF NotAhead, Grows
<1>9. ASSUME NEW r, Seen(file, v, r)
      PROVE  Seen(file', v, r)
  <2>1. PICK t \in DOMAIN file : \E i \in DOMAIN file[t] : Upto(t, i, v) /\ file[t][i].rec = r
    BY <1>9 DEF Seen
  <2>2. PICK i \in DOMAIN file[t] : Upto(t, i, v) /\ file[t][i].rec = r
    BY <2>1
  <2>3. t \in DOMAIN file' /\ i \in DOMAIN file'[t] /\ file'[t][i] = file[t][i]
    BY DEF Grows
  <2> QED BY <2>2, <2>3 DEF Seen
<1> QED BY <1>6, <1>8, <1>9

(* A restart of the master begins a new file. *)
LEMMA RestartLog ==
  ASSUME TypeOK, TypeOK', LogInv, restart
  PROVE  LogInv' /\ Grows
<1> DEFINE L == Len(file)
<1>1. /\ DOMAIN file = 1 .. L /\ L \in Nat /\ file \in Seq(Seq(Parts)) /\ L \in linked
      /\ linked \subseteq 1 .. L
      /\ \A t \in DOMAIN file : Len(file[t]) \in Nat /\ DOMAIN file[t] = 1 .. Len(file[t])
  BY FileType
<1>2. <<>> \in Seq(Parts) /\ file' = Append(file, <<>>)
  BY SMT DEF restart
<1>3. Len(file') = L + 1 /\ file'[L + 1] = <<>> /\ \A t \in 1 .. L : file'[t] = file[t]
  BY <1>1, <1>2, SMT
<1>4. DOMAIN file' = 1 .. L + 1
  BY <1>3, FileTypeNext
<1> HIDE DEF L
<1>5. \A t \in DOMAIN file : t \in DOMAIN file' /\ file'[t] = file[t]
  BY <1>1, <1>3, <1>4, SMT
<1>6. \A t \in DOMAIN file' : t \in DOMAIN file \/ (t = L + 1 /\ file'[t] = <<>>)
  BY <1>1, <1>3, <1>4, SMT
<1>7. \A t \in DOMAIN file' : \A i \in DOMAIN file'[t] : t \in DOMAIN file
  BY <1>6, SMT
<1>8. Grows
  <2>1. L <= Len(file')
    BY <1>1, <1>3, SMT
  <2>2. \A t \in DOMAIN file : Len(file[t]) <= Len(file'[t])
    BY <1>1, <1>5, SMT
  <2> QED BY <1>5, <1>7, <2>1, <2>2 DEF Grows, L
<1>9. \A t \in DOMAIN file' : Whole(file'[t])
  BY <1>5, <1>6, SMT DEF LogInv, Whole
<1>10. Ordered'
  <2> SUFFICES ASSUME NEW t \in DOMAIN file', NEW u \in DOMAIN file',
                      NEW i \in DOMAIN file'[t], NEW j \in DOMAIN file'[u],
                      t < u \/ (t = u /\ i <= j)
               PROVE  file'[t][i].rec <= file'[u][j].rec
    BY DEF Ordered
  <2> QED BY <1>5, <1>7 DEF LogInv, Ordered
<1>11. written' = written
  BY DEF restart
<1>12. Complete'
  BY <1>5, <1>11, SMT DEF LogInv, Complete
<1>13. \A t \in DOMAIN file' : \A i \in DOMAIN file'[t] : file'[t][i].rec <= written'
  BY <1>5, <1>7, <1>11 DEF LogInv
<1>14. _cur_size' = Len(file'[Len(file')])
  BY <1>3, SMT DEF restart
<1>15. linked' = {t \in DOMAIN file' : t >= _cur_min_serial'}
  <2>1. linked # {} /\ linked \subseteq Nat
    BY <1>1, SMT
  <2>2. Min(linked) \in linked /\ \A y \in linked : Min(linked) <= y
    BY <2>1, MinLeast
  <2> DEFINE m == Min(linked)
  <2>3. linked' = linked \cup {L + 1} /\ _cur_min_serial' = m
    BY DEF restart, L
  <2>40. _cur_min_serial \in Nat
    BY <1>1, SMT DEF TypeOK, L
  <2>4. linked = {t \in 1 .. L : t >= _cur_min_serial}
    BY <1>1 DEF LogInv
  <2> HIDE DEF m
  <2>5. m \in linked /\ \A y \in linked : m <= y
    BY <2>2 DEF m
  <2>50. m \in Nat /\ m >= _cur_min_serial
    BY <2>4, <2>5, SMT
  <2>6. \A t \in 1 .. L : t \in linked <=> t >= m
    BY <2>4, <2>40, <2>5, <2>50, SMT
  <2>7. L + 1 >= m
    BY <1>1, <2>5, SMT
  <2>70. \A t : t \in 1 .. L + 1 <=> t \in 1 .. L \/ t = L + 1
    BY <1>1, SMT
  <2>8. \A t : t \in linked' <=> t \in 1 .. L + 1 /\ t >= m
    BY <1>1, <2>3, <2>6, <2>7, <2>70
  <2> QED BY <1>4, <2>3, <2>8
<1> QED BY <1>8, <1>9, <1>10, <1>12, <1>13, <1>14, <1>15 DEF LogInv
-----------------------------------------------------------------------------
(***************************************************************************)
(* Polls and answers.  What a slave has saved, and what it asks for, is a  *)
(* place between two records that is not ahead of what it has applied.     *)
(***************************************************************************)
SavedOK(f, v, a) == \A s \in Slave : Between(f, v[s]) /\ NotAhead(f, v[s], a[s])

PollsOK(f, q, a) ==
  \A i \in DOMAIN q :
    /\ Between(f, q[i].jid)
    /\ q[i].slave \in Slave => NotAhead(f, q[i].jid, a[q[i].slave])

(* seek from a reader on its own file goes to the place, or it leaves the reader alone *)
(* because that file is deleted.                                                       *)
LEMMA SeekPlace ==
  ASSUME TypeOK, reader.fd = reader.serial, NEW v \in JournalID, Between(file, v)
  PROVE  LET rd == seek(reader, v) IN
         /\ rd \in Reader /\ rd.fd = rd.serial
         /\ seek_fits(reader, v) =>
              v.serial \in linked /\ rd = [serial |-> v.serial, offset |-> v.offset, fd |-> v.serial]
         /\ ~seek_fits(reader, v) => rd = reader
<1>1. reader \in Reader
  BY TypeParts
<1>2. v.serial \in linked => v.serial \in DOMAIN file
  BY FileType
<1>3. (IF v.serial # reader.serial THEN v.serial ELSE reader.fd) = v.serial
  OBVIOUS
<1>4. CASE v.serial \in linked
  <2>1. v.offset <= Len(file[v.serial])
    BY <1>2, <1>4 DEF Between
  <2>2. seek_fits(reader, v)
    BY <1>3, <1>4, <2>1 DEF seek_fits
  <2>3. seek(reader, v) = [serial |-> v.serial, offset |-> v.offset, fd |-> v.serial]
    BY <1>3, <1>4, <2>2 DEF seek
  <2>4. [serial |-> v.serial, offset |-> v.offset, fd |-> v.serial] \in Reader
    BY <1>2, <1>4 DEF Reader, JournalID
  <2> QED BY <1>4, <2>2, <2>3, <2>4, SMT
<1>5. CASE v.serial \notin linked
  <2>1. ~seek_fits(reader, v) /\ seek(reader, v) = reader
    BY <1>5 DEF seek_fits, seek
  <2> QED BY <1>1, <2>1
<1> QED BY <1>4, <1>5

(* A poll keeps what the slaves have in order: the answer is the next record or none. *)
LEMMA PollSlaves ==
  ASSUME TypeOK, LogInv, reader.fd = reader.serial,
         NEW s \in Slave \cup {NoSlave}, NEW v \in JournalID, read_hb_log_process(s, v),
         Between(file, v), s \in Slave => NotAhead(file, v, applied[s]),
         SavedOK(file, jid, applied), \A t \in Slave : applied[t] <= written,
         skipped = {}, ~garbled
  PROVE  /\ reader'.fd = reader'.serial /\ skipped' = {} /\ ~garbled'
         /\ SavedOK(file, jid', applied')
         /\ \A t \in Slave : applied[t] <= applied'[t] /\ applied'[t] <= written
<1>0. applied \in [Slave -> 0 .. max_records] /\ jid \in [Slave -> JournalID]
  BY TypeParts
<1>1. \A t \in Slave : applied[t] \in Nat /\ applied[t] <= applied[t]
  BY <1>0, BoundAssumption, SMT
<1>2. ASSUME UNCHANGED <<jid, applied, skipped>>
      PROVE  /\ skipped' = {} /\ SavedOK(file, jid', applied')
             /\ \A t \in Slave : applied[t] <= applied'[t] /\ applied'[t] <= written
  BY <1>1, <1>2
<1>3. CASE GE(v, get_writer_jid)
  BY <1>2, <1>3 DEF read_hb_log_process
<1>4. CASE ~GE(v, get_writer_jid) /\ ~seek_fits(reader, v)
  <2>1. reader' = seek(reader, v) /\ retry({s}) /\ UNCHANGED garbled
    BY <1>4 DEF read_hb_log_process
  <2>2. reader' = reader
    BY <1>4, <2>1, SeekPlace
  <2> QED BY <1>2, <2>1, <2>2 DEF retry
<1>5. CASE ~GE(v, get_writer_jid) /\ seek_fits(reader, v)
  <2> DEFINE rd == seek(reader, v)
  <2>1. PICK g : \E r \in {Read(rd, g)} :
                 /\ reader' = r.rd
                 /\ garbled' = (garbled \/ r.what \in {"broken", "garbage"})
                 /\ IF r.what = "broken" \/ s = NoSlave THEN retry({s}) ELSE apply(s, r)
    BY <1>5 DEF read_hb_log_process
  <2> DEFINE r == Read(rd, g)
  <2>2. /\ reader' = r.rd
        /\ garbled' = (garbled \/ r.what \in {"broken", "garbage"})
        /\ IF r.what = "broken" \/ s = NoSlave THEN retry({s}) ELSE apply(s, r)
    BY <2>1
  <2>3. /\ rd \in Reader /\ rd.fd = rd.serial /\ v.serial \in linked
        /\ rd = [serial |-> v.serial, offset |-> v.offset, fd |-> v.serial]
    BY <1>5, SeekPlace
  <2>4. rd.serial = v.serial /\ rd.offset = v.offset
    BY <2>3, SMT
  <2> HIDE DEF rd
  <2>5. rd.serial \in linked /\ Between(file, rd)
    BY <2>3, <2>4 DEF Between
  <2>6. \A a \in Nat : NotAhead(file, v, a) => NotAhead(file, rd, a)
    BY <2>4 DEF NotAhead, Upto
  <2>7. /\ r.what \in {"none", "record"} /\ r.rec \in Nat /\ r.rec <= written
        /\ r.rd \in Reader /\ r.rd.fd = r.rd.serial /\ Between(file, r.rd)
        /\ \A a \in Nat : NotAhead(file, rd, a) =>
             r.rec <= a + 1 /\ NotAhead(file, r.rd, IF r.rec > a THEN r.rec ELSE a)
    BY <2>3, <2>5, ReadNext
  <2> HIDE DEF r
  <2>8. reader'.fd = reader'.serial /\ ~garbled'
    BY <2>2, <2>7
  <2>9. CASE s = NoSlave
    <3>1. retry({s})
      BY <2>2, <2>9
    <3> QED BY <1>2, <2>8, <3>1 DEF retry
  <2>10. CASE s \in Slave
    <3>1. s # NoSlave /\ r.what # "broken"
      BY <2>7, <2>10, SlaveAssumption
    <3>2. apply(s, r)
      BY <2>2, <3>1
    <3> DEFINE a == applied[s]
               b == IF r.rec > a THEN r.rec ELSE a
               w == [serial |-> r.rd.serial, offset |-> r.rd.offset]
    <3>3. a \in Nat /\ NotAhead(file, rd, a)
      BY <1>1, <2>6, <2>10
    <3>4. r.rec <= a + 1 /\ NotAhead(file, r.rd, b)
      BY <2>7, <3>3
    <3>5. Between(file, w) /\ NotAhead(file, w, b)
      BY <2>7, <3>4 DEF Between, NotAhead, Upto
    <3>6. NotAhead(file, jid[s], a) /\ Between(file, jid[s])
      BY <2>10 DEF SavedOK
    <3>7. b \in Nat /\ a <= b /\ b <= written
      BY <2>7, <2>10, <3>3, SMT
    <3>8. NotAhead(file, jid[s], b)
      <4>1. \A t \in DOMAIN file : \A i \in DOMAIN file[t] : file[t][i].rec \in Nat
        BY FileType, RecNat
      <4> HIDE DEF a, b
      <4> QED BY <3>3, <3>6, <3>7, <4>1, SMT DEF NotAhead
    <3>9. applied' = [applied EXCEPT ![s] = b] /\ (jid' = [jid EXCEPT ![s] = w] \/ jid' = jid)
      BY <3>2 DEF apply
    <3>10. skipped' = {}
      BY <2>7, <3>2, <3>3, <3>4, SMT DEF apply
    <3> HIDE DEF a, b, w
    <3>11. /\ applied'[s] = b /\ \A t \in Slave \ {s} : applied'[t] = applied[t]
           /\ jid'[s] \in {w, jid[s]} /\ \A t \in Slave \ {s} : jid'[t] = jid[t]
      BY <1>0, <2>10, <3>9
    <3>12. SavedOK(file, jid', applied')
      <4> SUFFICES ASSUME NEW t \in Slave
                   PROVE  Between(file, jid'[t]) /\ NotAhead(file, jid'[t], applied'[t])
        BY DEF SavedOK
      <4>1. CASE t = s
        BY <3>5, <3>6, <3>8, <3>11, <4>1
      <4>2. CASE t # s
        <5>1. jid'[t] = jid[t] /\ applied'[t] = applied[t]
          BY <3>11, <4>2
        <5> QED BY <5>1 DEF SavedOK
      <4> QED BY <4>1, <4>2
    <3>13. \A t \in Slave : applied[t] <= applied'[t] /\ applied'[t] <= written
      BY <1>1, <3>7, <3>11 DEF a
    <3> QED BY <2>8, <3>10, <3>12, <3>13
  <2> QED BY <2>9, <2>10
<1> QED BY <1>3, <1>4, <1>5
\* There is a change that a poll at v has not seen.
News(v) == \E r \in (1 .. written) \ lru : ~Seen(file, v, r)

\* The invariant: of the log, the reader, the slaves and the polls.
HBInv ==
  /\ LogInv
  /\ reader.fd = reader.serial
  /\ SavedOK(file, jid, applied) /\ \A s \in Slave : applied[s] <= written
  /\ PollsOK(file, _pendlist, applied) /\ PollsOK(file, copy, applied)
  /\ \A i \in DOMAIN _pendlist :
       News(_pendlist[i].jid) => copy = <<>> /\ _wakeup /\ timer = "ready"
  /\ skipped = {} /\ ~garbled

(* Seen is what RecordsBefore says. *)
LEMMA SeenBefore ==
  ASSUME TypeOK, NEW v \in JournalID, NEW r
  PROVE  r \in RecordsBefore(v) <=> Seen(file, v, r)
<1>1. \A t \in DOMAIN file : t \in Nat /\ \A i \in DOMAIN file[t] : i \in Nat
  BY FileType, SMT
<1>2. v.serial \in Nat /\ v.offset \in Nat
  BY DEF JournalID
<1>3. r \in RecordsBefore(v) <=>
        \E t \in DOMAIN file : t <= v.serial /\
          \E i \in DOMAIN file[t] : (t < v.serial \/ i <= v.offset) /\ file[t][i].rec = r
  BY SMT DEF RecordsBefore
<1>4. ASSUME NEW t \in DOMAIN file, NEW i \in DOMAIN file[t]
      PROVE  t <= v.serial /\ (t < v.serial \/ i <= v.offset) <=> Upto(t, i, v)
  BY <1>1, <1>2, SMT DEF Upto
<1> QED BY <1>3, <1>4 DEF Seen

(* A poll at the end of the log has seen all records. *)
LEMMA EndSeesAll ==
  ASSUME TypeOK, LogInv, NEW v \in JournalID, GE(v, get_writer_jid)
  PROVE  ~News(v)
<1> SUFFICES ASSUME NEW r \in 1 .. written PROVE Seen(file, v, r)
  BY DEF News
<1>1. PICK t \in DOMAIN file : \E i \in DOMAIN file[t] : file[t][i].rec = r
  BY DEF LogInv, Complete
<1>2. PICK i \in DOMAIN file[t] : file[t][i].rec = r
  BY <1>1
<1>3. /\ t \in Nat /\ i \in Nat /\ t <= Len(file) /\ Len(file) \in Nat /\ i <= Len(file[t])
      /\ Len(file[t]) \in Nat
  BY FileType, SMT
<1>4. v.serial \in Nat /\ v.offset \in Nat
  BY DEF JournalID
<1>5. v.serial > Len(file) \/ (v.serial = Len(file) /\ v.offset >= Len(file[Len(file)]))
  BY DEF GE, get_writer_jid, LogInv
<1>6. Upto(t, i, v)
  BY <1>3, <1>4, <1>5, SMT DEF Upto
<1> QED BY <1>2, <1>6 DEF Seen

(* When the log grows, what is saved and what is asked for keep their place. *)
LEMMA GrowsPlaces ==
  ASSUME TypeOK, TypeOK', Grows
  PROVE  /\ SavedOK(file, jid, applied) => SavedOK(file', jid, applied)
         /\ \A q \in Seq(Entry) : PollsOK(file, q, applied) => PollsOK(file', q, applied)
<1>1. \A s \in Slave : jid[s] \in JournalID
  BY TypeParts
<1>2. ASSUME NEW v \in JournalID, NEW a, Between(file, v), NotAhead(file, v, a)
      PROVE  Between(file', v) /\ NotAhead(file', v, a)
  BY <1>2, GrowsKeeps
<1>3. ASSUME NEW v \in JournalID, Between(file, v)
      PROVE  Between(file', v)
  BY <1>3, GrowsKeeps
<1>4. SavedOK(file, jid, applied) => SavedOK(file', jid, applied)
  BY <1>1, <1>2 DEF SavedOK
<1>5. ASSUME NEW q \in Seq(Entry), PollsOK(file, q, applied)
      PROVE  PollsOK(file', q, applied)
  <2>1. \A i \in DOMAIN q : q[i].jid \in JournalID
    <3>1. \A i \in DOMAIN q : q[i] \in Entry
      BY SMT
    <3> QED BY <3>1 DEF Entry
  <2> QED BY <1>2, <1>3, <1>5, <2>1 DEF PollsOK
<1> QED BY <1>4, <1>5

(* A list of polls that come from another, with slaves that have applied no less. *)
LEMMA PollsFrom ==
  ASSUME TypeOK, NEW q, PollsOK(file, q, applied), NEW h, NEW b,
         \A i \in DOMAIN h : \E j \in DOMAIN q :
           h[i].jid = q[j].jid /\ (h[i].slave = q[j].slave \/ h[i].slave = NoSlave),
         \A s \in Slave : applied[s] \in Nat /\ b[s] \in Nat /\ applied[s] <= b[s]
  PROVE  PollsOK(file, h, b)
<1>1. \A t \in DOMAIN file : \A i \in DOMAIN file[t] : file[t][i].rec \in Nat
  BY FileType, RecNat
<1>2. ASSUME NEW i \in DOMAIN h
      PROVE  /\ Between(file, h[i].jid)
             /\ h[i].slave \in Slave => NotAhead(file, h[i].jid, b[h[i].slave])
  <2>1. PICK j \in DOMAIN q :
          h[i].jid = q[j].jid /\ (h[i].slave = q[j].slave \/ h[i].slave = NoSlave)
    OBVIOUS
  <2>2. Between(file, q[j].jid)
    BY DEF PollsOK
  <2>3. ASSUME h[i].slave \in Slave
        PROVE  NotAhead(file, h[i].jid, b[h[i].slave])
    <3> DEFINE s == q[j].slave
    <3>1. h[i].slave = s
      BY <2>1, <2>3, SlaveAssumption
    <3>2. s \in Slave /\ NotAhead(file, q[j].jid, applied[s])
      BY <2>3, <3>1 DEF PollsOK
    <3> HIDE DEF s
    <3>3. NotAhead(file, q[j].jid, b[s])
      BY <1>1, <3>2, SMT DEF NotAhead
    <3> QED BY <2>1, <3>1, <3>3
  <2> QED BY <2>1, <2>2, <2>3
<1> QED BY <1>2 DEF PollsOK

(* The invariant holds when the master starts with an empty log. *)
LEMMA HBInit ==
  Init => HBInv
<1> SUFFICES ASSUME Init PROVE HBInv
  BY SMT
<1>0. TypeOK
  BY TypeInit
<1>1. file = << <<>> >> /\ Len(file) = 1 /\ DOMAIN file = {1} /\ file[1] = <<>>
  BY SMT DEF Init
<1>2. \A t \in DOMAIN file : file[t] = <<>> /\ DOMAIN file[t] = {}
  BY <1>1, SMT
<1>3. written = 0 /\ _cur_size = 0 /\ linked = {1} /\ _cur_min_serial = 0
  BY DEF Init
<1>4. Ordered /\ Complete /\ \A t \in DOMAIN file : Whole(file[t])
  BY <1>2, <1>3, SMT DEF Ordered, Complete, Whole
<1>5. LogInv
  BY <1>1, <1>2, <1>3, <1>4, SMT DEF LogInv
<1>6. SavedOK(file, jid, applied)
  BY <1>1, <1>2, SMT DEF Init, Zero, SavedOK, Between, NotAhead
<1>7. _pendlist = <<>> /\ copy = <<>>
  BY DEF Init
<1>8. PollsOK(file, _pendlist, applied) /\ PollsOK(file, copy, applied)
  BY <1>7, SMT DEF PollsOK
<1>9. reader.fd = reader.serial /\ skipped = {} /\ ~garbled
  BY DEF Init
<1>10. \A s \in Slave : applied[s] <= written
  BY SMT DEF Init
<1> QED BY <1>5, <1>6, <1>7, <1>8, <1>9, <1>10, SMT DEF HBInv

(* A step that leaves the log alone keeps its invariant. *)
LEMMA SameLog ==
  ASSUME LogInv, UNCHANGED log
  PROVE  LogInv' /\ file' = file /\ written' = written /\ lru' = lru
BY SMT DEF LogInv, log, Ordered, Complete

(* A poll, of a slave or when it is asked again. *)
LEMMA PollKeeps ==
  ASSUME TypeOK, TypeOK', HBInv, NEW s \in Slave \cup {NoSlave}, NEW v \in JournalID,
         read_hb_log_process(s, v), Between(file, v), s \in Slave => NotAhead(file, v, applied[s]),
         UNCHANGED log, PollsOK(file, copy', applied),
         \/ copy' = <<>> /\ copy = <<>> /\ _wakeup' = _wakeup
         \/ copy # <<>>
  PROVE  HBInv'
<1>1. LogInv' /\ file' = file /\ written' = written /\ lru' = lru
  BY SameLog DEF HBInv
<1>2. /\ reader'.fd = reader'.serial /\ skipped' = {} /\ ~garbled'
      /\ SavedOK(file, jid', applied')
      /\ \A t \in Slave : applied[t] <= applied'[t] /\ applied'[t] <= written
  BY PollSlaves DEF HBInv
<1>3. \A t \in Slave : applied[t] \in Nat /\ applied'[t] \in Nat
  <2>1. applied \in [Slave -> 0 .. max_records] /\ applied' \in [Slave -> 0 .. max_records]
    BY DEF TypeOK
  <2> QED BY <2>1, BoundAssumption, SMT
<1>4. PollsOK(file, copy', applied')
  BY <1>2, <1>3, PollsFrom
<1>5. \/ GE(v, get_writer_jid) /\ add2_list(s, v)
      \/ UNCHANGED <<_pendlist, timer>>
  BY DEF read_hb_log_process
<1>6. \A w : News(w)' <=> News(w)
  BY <1>1 DEF News
<1>7. CASE UNCHANGED <<_pendlist, timer>>
  <2>1. PollsOK(file, _pendlist', applied')
    BY <1>2, <1>3, <1>7, PollsFrom DEF HBInv
  <2>2. \A i \in DOMAIN _pendlist :
          ~News(_pendlist[i].jid) \/ (copy = <<>> /\ _wakeup /\ timer = "ready")
    BY DEF HBInv
  <2>3. \A i \in DOMAIN _pendlist' :
          News(_pendlist[i].jid)' => copy' = <<>> /\ _wakeup' /\ timer' = "ready"
    BY <1>1, <1>7, <2>2, SMT DEF News
  <2> QED BY <1>1, <1>2, <1>4, <2>1, <2>3 DEF HBInv
<1>8. CASE GE(v, get_writer_jid) /\ add2_list(s, v)
  <2> DEFINE e == [slave |-> s, jid |-> v, age |-> 0]
             N == Len(_pendlist)
  <2>1. _pendlist \in Seq(Entry) /\ e \in Entry
    BY SMT DEF TypeOK, Entry
  <2>2. _pendlist' = Append(_pendlist, e) /\ timer' = IF _pendlist = <<>> THEN "timed" ELSE timer
    BY <1>8 DEF add2_list
  <2>3. ~News(v)
    BY <1>8, EndSeesAll DEF HBInv
  <2>4. e.slave = s /\ e.jid = v
    OBVIOUS
  <2> HIDE DEF e
  <2>5. /\ DOMAIN _pendlist' = 1 .. N + 1 /\ DOMAIN _pendlist = 1 .. N /\ N \in Nat
        /\ \A i \in 1 .. N : _pendlist'[i] = _pendlist[i]
        /\ _pendlist'[N + 1] = e
    BY <2>1, <2>2, SMT
  <2> HIDE DEF N
  <2>6. \A i \in DOMAIN _pendlist' : i \in DOMAIN _pendlist \/ _pendlist'[i] = e
    BY <2>5, SMT
  <2>7. \A i \in DOMAIN _pendlist' :
          /\ Between(file, _pendlist'[i].jid)
          /\ _pendlist'[i].slave \in Slave => NotAhead(file, _pendlist'[i].jid, applied[_pendlist'[i].slave])
    BY <2>4, <2>5, <2>6 DEF HBInv, PollsOK
  <2>8. PollsOK(file, _pendlist', applied)
    BY <2>7 DEF PollsOK
  <2>9. PollsOK(file, _pendlist', applied')
    BY <1>2, <1>3, <2>8, PollsFrom
  <2>10. ASSUME NEW i \in DOMAIN _pendlist', News(_pendlist[i].jid)'
         PROVE  copy' = <<>> /\ _wakeup' /\ timer' = "ready"
    <3> DEFINE w == _pendlist'[i].jid
    <3>1. News(w)
      BY <1>1, <2>10 DEF News
    <3>2. i \in DOMAIN _pendlist /\ News(_pendlist[i].jid)
      BY <2>3, <2>4, <2>5, <2>6, <3>1
    <3>3. copy = <<>> /\ _wakeup /\ timer = "ready"
      BY <3>2 DEF HBInv
    <3>4. _pendlist # <<>>
      BY <3>2, SMT
    <3> QED BY <2>2, <3>3, <3>4
  <2> QED BY <1>1, <1>2, <1>4, <2>9, <2>10 DEF HBInv
<1> QED BY <1>5, <1>7, <1>8
(* A step that changes neither the log nor what the slaves have, with polls from those *)
(* that waited: the slaves may only have given up, or have been answered.              *)
LEMMA FewerPolls ==
  ASSUME TypeOK, TypeOK', HBInv, UNCHANGED <<log, jid, applied, skipped, garbled>>,
         reader'.fd = reader'.serial, PollsOK(file, copy', applied),
         \A i \in DOMAIN _pendlist' : \E j \in DOMAIN _pendlist :
           /\ _pendlist'[i].jid = _pendlist[j].jid
           /\ _pendlist'[i].slave = _pendlist[j].slave \/ _pendlist'[i].slave = NoSlave,
         _pendlist' = <<>> \/ ~_wakeup \/ UNCHANGED <<copy, _wakeup, timer>>
  PROVE  HBInv'
<1>1. LogInv' /\ file' = file /\ written' = written /\ lru' = lru
  BY SameLog DEF HBInv
<1>2. \A s \in Slave : applied[s] \in Nat /\ applied[s] <= applied[s]
  <2>1. applied \in [Slave -> 0 .. max_records]
    BY DEF TypeOK
  <2> QED BY <2>1, BoundAssumption, SMT
<1>3. PollsOK(file, _pendlist, applied)
  BY DEF HBInv
<1>4. PollsOK(file, _pendlist', applied)
  BY <1>2, <1>3, PollsFrom, SMT
<1>5. ASSUME NEW i \in DOMAIN _pendlist', News(_pendlist[i].jid)'
      PROVE  copy' = <<>> /\ _wakeup' /\ timer' = "ready"
  <2> DEFINE w == _pendlist'[i].jid
  <2>1. News(w)
    BY <1>1, <1>5 DEF News
  <2>2. PICK j \in DOMAIN _pendlist : w = _pendlist[j].jid
    OBVIOUS
  <2>3. copy = <<>> /\ _wakeup /\ timer = "ready"
    BY <2>1, <2>2 DEF HBInv
  <2>4. _pendlist' # <<>>
    BY SMT
  <2> QED BY <2>3, <2>4
<1> QED BY <1>1, <1>4, <1>5 DEF HBInv

(* A record is written. *)
LEMMA WriteKeeps ==
  ASSUME TypeOK, TypeOK', HBInv, max_short = 0, NEW n \in 0 .. 2, write(n),
         UNCHANGED <<reader, slaves, _pendlist, copy>>, copy = <<>>,
         \/ _wakeup' /\ timer' = "ready"
         \/ lru' = lru \cup {written + 1} /\ UNCHANGED <<_wakeup, timer>>
  PROVE  HBInv'
<1>1. LogInv' /\ Grows /\ written' = written + 1
  BY WriteLog, WriteAdds DEF HBInv
<1>2. SavedOK(file', jid', applied')
  BY <1>1, GrowsPlaces DEF HBInv, slaves
<1>3. _pendlist \in Seq(Entry) /\ copy \in Seq(Entry) /\ written \in Nat
  BY BoundAssumption, SMT DEF TypeOK
<1>4. PollsOK(file', _pendlist', applied') /\ PollsOK(file', copy', applied')
  BY <1>1, <1>3, GrowsPlaces DEF HBInv, slaves
<1>5. ASSUME NEW i \in DOMAIN _pendlist', News(_pendlist[i].jid)'
      PROVE  copy' = <<>> /\ _wakeup' /\ timer' = "ready"
  <2>1. CASE _wakeup' /\ timer' = "ready"
    BY <2>1
  <2>2. CASE lru' = lru \cup {written + 1} /\ UNCHANGED <<_wakeup, timer>>
    <3> DEFINE w == _pendlist[i].jid
    <3>1. _pendlist[i] \in Entry /\ i \in DOMAIN _pendlist
      BY <1>3, SMT
    <3>2. w \in JournalID /\ Between(file, w)
      BY <3>1 DEF Entry, HBInv, PollsOK
    <3>3. PICK r \in (1 .. written') \ lru' : ~Seen(file', w, r)
      BY <1>5 DEF News
    <3>4. r \in (1 .. written) \ lru
      BY <1>1, <1>3, <2>2, <3>3, SMT
    <3>5. ~Seen(file, w, r)
      BY <1>1, <3>2, <3>3, GrowsKeeps
    <3>6. News(w)
      BY <3>4, <3>5 DEF News
    <3> QED BY <2>2, <3>1, <3>6 DEF HBInv
  <2> QED BY <2>1, <2>2
<1>6. \A s \in Slave : applied'[s] <= written'
  <2>1. applied \in [Slave -> 0 .. max_records] /\ applied' = applied
    BY DEF TypeOK, slaves
  <2> QED BY <1>1, <1>3, <2>1, BoundAssumption, SMT DEF HBInv
<1> QED BY <1>1, <1>2, <1>4, <1>5, <1>6 DEF HBInv, slaves

(* The master is restarted. *)
LEMMA RestartKeeps ==
  ASSUME TypeOK, TypeOK', HBInv, restart
  PROVE  HBInv'
<1>1. LogInv' /\ Grows
  BY RestartLog DEF HBInv
<1>2. UNCHANGED <<jid, applied, skipped, garbled, copy>> /\ _pendlist' = <<>>
  BY DEF restart
<1>3. SavedOK(file', jid', applied')
  BY <1>1, <1>2, GrowsPlaces DEF HBInv
<1>4. copy \in Seq(Entry)
  BY DEF TypeOK
<1>5. PollsOK(file', _pendlist', applied') /\ PollsOK(file', copy', applied')
  <2>1. PollsOK(file', <<>>, applied')
    BY SMT DEF PollsOK
  <2> QED BY <1>1, <1>2, <1>4, <2>1, GrowsPlaces DEF HBInv
<1>6. reader'.fd = reader'.serial
  BY DEF restart
<1>7. \A i \in DOMAIN _pendlist' : FALSE
  BY <1>2, SMT
<1>8. written' = written
  BY SMT DEF restart
<1> QED BY <1>1, <1>2, <1>3, <1>5, <1>6, <1>7, <1>8 DEF HBInv

(* A slave registers: the first time it gets the end of the log. *)
LEMMA RegisterKeeps ==
  ASSUME TypeOK, TypeOK', HBInv, NEW s \in Slave, register_hb_log_process(s), copy = <<>>
  PROVE  HBInv'
<1>1. LogInv' /\ file' = file /\ written' = written /\ lru' = lru
  BY SameLog DEF HBInv, register_hb_log_process
<1>2. UNCHANGED <<_pendlist, _wakeup, timer, copy, skipped, garbled>>
  BY DEF register_hb_log_process, pending
<1>3. /\ jid \in [Slave -> JournalID] /\ applied \in [Slave -> 0 .. max_records]
      /\ written \in 0 .. max_records
  BY DEF TypeOK
<1>4. \A t \in Slave : applied[t] \in Nat /\ written \in Nat /\ applied'[t] \in Nat
  <2>1. applied' \in [Slave -> 0 .. max_records]
    BY DEF TypeOK
  <2> QED BY <1>3, <2>1, BoundAssumption, SMT
<1>5. ASSUME \A t \in Slave : applied[t] <= applied'[t] /\ applied'[t] <= written, SavedOK(file, jid', applied'),
             reader'.fd = reader'.serial
      PROVE  HBInv'
  <2>1. PollsOK(file, _pendlist, applied) /\ PollsOK(file, copy, applied)
    BY DEF HBInv
  <2>2. PollsOK(file, _pendlist, applied') /\ PollsOK(file, copy, applied')
    BY <1>4, <1>5, <2>1, PollsFrom
  <2>3. ASSUME NEW i \in DOMAIN _pendlist', News(_pendlist[i].jid)'
        PROVE  copy' = <<>> /\ _wakeup' /\ timer' = "ready"
    <3>1. i \in DOMAIN _pendlist /\ News(_pendlist[i].jid)
      BY <1>1, <1>2, <2>3 DEF News
    <3> QED BY <1>2, <3>1 DEF HBInv
  <2> QED BY <1>1, <1>2, <1>5, <2>2, <2>3 DEF HBInv
<1>6. CASE jid[s] = Zero
  <2> DEFINE w == get_writer_jid
  <2>1. /\ jid' = [jid EXCEPT ![s] = w] /\ applied' = [applied EXCEPT ![s] = written]
        /\ reader' = reader
    BY <1>6 DEF register_hb_log_process
  <2>2. \A v : NotAhead(file, v, written)
    BY DEF NotAhead, HBInv, LogInv
  <2>3. Between(file, w)
    <3> DEFINE L == Len(file)
               M == Len(file[L])
    <3>1. L \in DOMAIN file /\ L \in Nat /\ M \in Nat /\ DOMAIN file[L] = 1 .. M
          /\ \A i \in 1 .. M : file[L][i] \in Parts
      BY FileType
    <3>2. w = [serial |-> L, offset |-> M]
      BY DEF get_writer_jid, HBInv, LogInv
    <3>3. Whole(file[L])
      BY <3>1 DEF HBInv, LogInv
    <3> HIDE DEF L, M, w
    <3>4. M # 0 => file[L][M].part = "body"
      <4> SUFFICES ASSUME M # 0, file[L][M].part # "body" PROVE FALSE
        OBVIOUS
      <4>1. M \in 1 .. M /\ M + 1 \notin 1 .. M
        BY <3>1, SMT
      <4>2. file[L][M].part = "length"
        BY <3>1, <4>1 DEF Parts
      <4> QED BY <3>1, <3>3, <4>1, <4>2 DEF Whole
    <3>5. w.serial = L /\ w.offset = M
      BY <3>2
    <3> QED BY <3>1, <3>4, <3>5, SMT DEF Between, L, M
  <2> HIDE DEF w
  <2>4. \A t \in Slave : jid'[t] = (IF t = s THEN w ELSE jid[t])
                         /\ applied'[t] = (IF t = s THEN written ELSE applied[t])
    BY <1>3, <2>1
  <2>5. \A t \in Slave : applied[t] <= applied'[t] /\ applied'[t] <= written
    BY <1>4, <2>4, SMT DEF HBInv
  <2>6. SavedOK(file, jid', applied')
    BY <2>2, <2>3, <2>4 DEF HBInv, SavedOK
  <2> QED BY <1>5, <2>1, <2>5, <2>6 DEF HBInv
<1>7. CASE jid[s] # Zero
  <2>1. reader' = seek(reader, jid[s]) /\ UNCHANGED <<jid, applied>>
    BY <1>7 DEF register_hb_log_process
  <2>2. jid[s] \in JournalID /\ Between(file, jid[s])
    BY <1>3 DEF HBInv, SavedOK
  <2>3. reader'.fd = reader'.serial
    BY <2>1, <2>2, SeekPlace DEF HBInv
  <2>4. \A t \in Slave : applied[t] <= applied'[t] /\ applied'[t] <= written
    BY <1>4, <2>1, SMT DEF HBInv
  <2> QED BY <1>5, <2>1, <2>3, <2>4 DEF HBInv
<1> QED BY <1>6, <1>7
(* Every step keeps the invariant when no write fails. *)
LEMMA HBNext ==
  ASSUME max_short = 0, TypeOK, TypeOK', HBInv, [Next]_vars
  PROVE  HBInv'
<1>0. _pendlist \in Seq(Entry) /\ copy \in Seq(Entry) /\ jid \in [Slave -> JournalID]
  BY DEF TypeOK
<1>1. CASE wake_turn
  <2>1. copy # <<>> /\ Head(copy) \in Entry /\ copy' = Tail(copy)
    BY <1>0, <1>1, SMT DEF wake_turn
  <2>2. DOMAIN copy = 1 .. Len(copy) /\ Len(copy) \in Nat /\ 1 \in DOMAIN copy /\ Head(copy) = copy[1]
    BY <1>0, <2>1, SMT
  <2>3. /\ DOMAIN copy' = 1 .. Len(copy) - 1
        /\ \A i \in DOMAIN copy' : i + 1 \in DOMAIN copy /\ copy'[i] = copy[i + 1]
    BY <1>0, <2>1, <2>2, SMT
  <2>4. PollsOK(file, copy', applied)
    <3>1. \A i \in DOMAIN copy' :
            /\ Between(file, copy'[i].jid)
            /\ copy'[i].slave \in Slave => NotAhead(file, copy'[i].jid, applied[copy'[i].slave])
      BY <2>3 DEF HBInv, PollsOK
    <3> QED BY <3>1 DEF PollsOK
  <2> DEFINE e == Head(copy)
  <2>5. e.slave \in Slave \cup {NoSlave} /\ e.jid \in JournalID
    BY <2>1 DEF Entry
  <2>6. Between(file, e.jid) /\ (e.slave \in Slave => NotAhead(file, e.jid, applied[e.slave]))
    BY <2>2 DEF HBInv, PollsOK
  <2>7. read_hb_log_process(e.slave, e.jid) /\ UNCHANGED log
    BY <1>1 DEF wake_turn
  <2> HIDE DEF e
  <2> QED BY <2>1, <2>4, <2>5, <2>6, <2>7, PollKeeps
<1>2. ASSUME NEW s \in Slave, poll(s), copy = <<>>
      PROVE  HBInv'
  <2>1. jid[s] \in JournalID /\ Between(file, jid[s]) /\ NotAhead(file, jid[s], applied[s])
    BY <1>0 DEF HBInv, SavedOK
  <2>2. /\ read_hb_log_process(s, jid[s]) /\ UNCHANGED log /\ copy' = <<>> /\ _wakeup' = _wakeup
        /\ PollsOK(file, copy', applied)
    BY <1>2 DEF poll, HBInv
  <2> QED BY <1>2, <2>1, <2>2, PollKeeps
<1>3. CASE write_hb_log_process /\ copy = <<>>
  BY <1>3, WriteKeeps DEF write_hb_log_process, Wakeup
<1>4. CASE write_lru_hb_log_process /\ copy = <<>>
  BY <1>4, WriteKeeps DEF write_lru_hb_log_process, pending
<1>5. CASE wake
  <2>1. /\ UNCHANGED <<log, jid, applied, skipped, garbled, reader>>
        /\ copy' = _pendlist /\ _pendlist' = <<>>
    BY <1>5 DEF wake, slaves
  <2>2. PollsOK(file, copy', applied) /\ reader'.fd = reader'.serial
    BY <2>1 DEF HBInv
  <2>3. \A i \in DOMAIN _pendlist' : FALSE
    BY <2>1, SMT
  <2> QED BY <2>1, <2>2, <2>3, FewerPolls
<1>6. CASE time_out /\ copy = <<>>
  <2>1. PICK n \in 0 .. Len(_pendlist) :
          LET left == SubSeq(_pendlist, n + 1, Len(_pendlist))
          IN /\ _pendlist' = [i \in DOMAIN left |-> [left[i] EXCEPT !.age = @ + 1]]
             /\ retry({_pendlist[i].slave : i \in 1 .. n})
    BY <1>6 DEF time_out
  <2>2. /\ UNCHANGED <<log, jid, applied, skipped, garbled, reader, copy>> /\ ~_wakeup
    BY <1>6, <2>1 DEF time_out, retry
  <2>3. PollsOK(file, copy', applied) /\ reader'.fd = reader'.serial
    BY <2>2 DEF HBInv
  <2> DEFINE left == SubSeq(_pendlist, n + 1, Len(_pendlist))
  <2>4. /\ left \in Seq(Entry)
        /\ \A i \in DOMAIN left : n + i \in DOMAIN _pendlist /\ left[i] = _pendlist[n + i]
    BY <1>0, SMT
  <2>5. _pendlist' = [i \in DOMAIN left |-> [left[i] EXCEPT !.age = @ + 1]]
    BY <2>1
  <2> HIDE DEF left
  <2>6. ASSUME NEW i \in DOMAIN _pendlist'
        PROVE  \E j \in DOMAIN _pendlist :
                 _pendlist'[i].jid = _pendlist[j].jid /\ _pendlist'[i].slave = _pendlist[j].slave
    <3>1. i \in DOMAIN left /\ _pendlist'[i] = [left[i] EXCEPT !.age = @ + 1]
      BY <2>5
    <3>2. left[i] \in Entry
      BY <2>4, <3>1, SMT
    <3>3. _pendlist'[i].jid = left[i].jid /\ _pendlist'[i].slave = left[i].slave
      BY <3>1, <3>2 DEF Entry
    <3> QED BY <2>4, <3>1, <3>3, SMT
  <2> QED BY <2>2, <2>3, <2>6, FewerPolls
<1>7. CASE restart
  BY <1>7, RestartKeeps
<1>8. ASSUME NEW s \in Slave, register_hb_log_process(s), copy = <<>>
      PROVE  HBInv'
  BY <1>8, RegisterKeeps
<1>9. ASSUME NEW s \in Slave, slave_restart(s)
      PROVE  HBInv'
  <2>1. /\ UNCHANGED <<log, jid, applied, skipped, garbled, reader, copy, _wakeup, timer>>
        /\ _pendlist' = [i \in DOMAIN _pendlist |->
                           IF _pendlist[i].slave = s THEN [_pendlist[i] EXCEPT !.slave = NoSlave]
                           ELSE _pendlist[i]]
    BY <1>9 DEF slave_restart
  <2>2. PollsOK(file, copy', applied) /\ reader'.fd = reader'.serial
    BY <2>1 DEF HBInv
  <2>3. ASSUME NEW i \in DOMAIN _pendlist'
        PROVE  \E j \in DOMAIN _pendlist :
                 /\ _pendlist'[i].jid = _pendlist[j].jid
                 /\ _pendlist'[i].slave = _pendlist[j].slave \/ _pendlist'[i].slave = NoSlave
    <3>1. i \in DOMAIN _pendlist /\ _pendlist[i] \in Entry
      BY <1>0, <2>1, SMT
    <3>2. _pendlist'[i] \in {_pendlist[i], [_pendlist[i] EXCEPT !.slave = NoSlave]}
      BY <2>1, <3>1
    <3>3. \A e \in Entry : /\ [e EXCEPT !.slave = NoSlave].jid = e.jid
                           /\ [e EXCEPT !.slave = NoSlave].slave = NoSlave
      BY DEF Entry
    <3> QED BY <3>1, <3>2, <3>3
  <2> QED BY <2>1, <2>2, <2>3, FewerPolls
<1>10. CASE UNCHANGED vars
  <2>1. /\ UNCHANGED <<log, jid, applied, skipped, garbled, reader, copy, _wakeup, timer, _pendlist>>
    BY <1>10 DEF vars, slaves, pending
  <2>2. PollsOK(file, copy', applied) /\ reader'.fd = reader'.serial
    BY <2>1 DEF HBInv
  <2> QED BY <2>1, <2>2, FewerPolls
<1> QED BY <1>1, <1>2, <1>3, <1>4, <1>5, <1>6, <1>7, <1>8, <1>9, <1>10
        DEF Next, job_timer_procedure

(* The invariant gives the properties. *)
LEMMA HBImplies ==
  ASSUME TypeOK, HBInv
  PROVE  NoRecordSkipped /\ JournalNotAhead /\ EachReadIsARecord /\ NewsWakesAtOnce
<1>1. NoRecordSkipped /\ EachReadIsARecord
  BY DEF HBInv, NoRecordSkipped, EachReadIsARecord
<1>2. \A s \in Slave : jid[s] \in JournalID
  BY DEF TypeOK
<1>3. JournalNotAhead
  <2> SUFFICES ASSUME NEW s \in Slave, NEW r \in RecordsBefore(jid[s])
               PROVE  r <= applied[s]
    BY DEF JournalNotAhead
  <2>1. Seen(file, jid[s], r)
    BY <1>2, SeenBefore
  <2> QED BY <2>1 DEF Seen, HBInv, SavedOK, NotAhead
<1>4. NewsWakesAtOnce
  <2> SUFFICES ASSUME NEW i \in DOMAIN _pendlist, NEW r \in (1 .. written) \ lru,
                      r \notin RecordsBefore(_pendlist[i].jid)
               PROVE  _wakeup /\ timer = "ready"
    BY DEF NewsWakesAtOnce
  <2>1. _pendlist[i] \in Entry
    BY SMT DEF TypeOK
  <2>2. _pendlist[i].jid \in JournalID
    BY <2>1 DEF Entry
  <2>3. News(_pendlist[i].jid)
    BY <2>2, SeenBefore DEF News
  <2> QED BY <2>3 DEF HBInv
<1> QED BY <1>1, <1>3, <1>4

LEMMA HBAlways ==
  ASSUME max_short = 0
  PROVE  Spec => [](NoRecordSkipped /\ JournalNotAhead /\ EachReadIsARecord /\ NewsWakesAtOnce)
<1>1. Init => TypeOK /\ HBInv
  BY TypeInit, HBInit
<1>2. TypeOK /\ HBInv /\ [Next]_vars => (TypeOK /\ HBInv)'
  BY TypeNext, HBNext
<1>3. TypeOK /\ HBInv => NoRecordSkipped /\ JournalNotAhead /\ EachReadIsARecord /\ NewsWakesAtOnce
  BY HBImplies
<1> QED BY <1>1, <1>2, <1>3, PTL DEF Spec

(* As long as no write to the log fails or is cut short, a slave gets the records one  *)
(* after the other; for any number of slaves and records, files of any size, whatever  *)
(* is deleted, and whenever the master or a slave is restarted.                        *)
THEOREM RecordsInOrder ==
  ASSUME max_short = 0
  PROVE  Spec => []NoRecordSkipped
BY HBAlways, PTL

(* In the same setting: the journal id that a slave saves is not ahead of what it has  *)
(* applied, so that a slave that stops and goes on from its file misses nothing.       *)
THEOREM JournalBehind ==
  ASSUME max_short = 0
  PROVE  Spec => []JournalNotAhead
BY HBAlways, PTL

(* In the same setting: a poll never gets parts of two records as one, wherever files  *)
(* begin and whoever else has moved the reader that all slaves share.                  *)
THEOREM RecordsWhole ==
  ASSUME max_short = 0
  PROVE  Spec => []EachReadIsARecord
BY HBAlways, PTL

(* In the same setting: a poll that waits is asked again at once when there is a       *)
(* change that its slave has not got.                                                  *)
THEOREM NewsWakes ==
  ASSUME max_short = 0
  PROVE  Spec => []NewsWakesAtOnce
BY HBAlways, PTL
====
