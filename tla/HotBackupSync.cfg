SPECIFICATION Spec
CONSTANTS
  Slave = {s1, s2}
  NoSlave = NoSlave
  _max_size = 3
  _total_size = 3
  max_records = 4
  max_restart = 1
  max_slave_restart = 1
  max_short = 0
SYMMETRY Symmetry
INVARIANTS TypeOK NoRecordSkipped JournalNotAhead NewsWakesAtOnce EachReadIsARecord
CHECK_DEADLOCK FALSE
