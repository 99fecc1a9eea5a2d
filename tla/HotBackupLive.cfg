SPECIFICATION FairSpec
CONSTANTS
  Slave = {s1, s2}
  NoSlave = NoSlave
  _max_size = 2
  _total_size = 100
  max_records = 2
  max_restart = 0
  max_slave_restart = 1
  max_short = 0
PROPERTIES EveryPollAnswered SlavesCatchUp
