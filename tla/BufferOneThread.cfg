SPECIFICATION FairSpec
CONSTANTS
  Key = {k1, k2}
  Value = {v1}
  NoRow = NoRow
  NoNode = NoNode
  NoJob = NoJob
  Code = {"Get", "Update", "Purge", "Flush"}
  Config <- OneThreadConfig
  max_flush_request_ = 1
  max_late = 1
  max_chain = 1
  AutoDelete = {FALSE}
  mode_changes = TRUE
  max_restart = 1
INVARIANTS FlushCounted NoDoubleReply
PROPERTIES EveryRequestAnswered MemoryBecomesClean
