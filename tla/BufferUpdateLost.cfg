SPECIFICATION RSpec
CONSTANTS
  Key = {k1}
  Value = {v1, v2}
  NoRow = NoRow
  NoNode = NoNode
  NoJob = NoJob
  Code = {"Get", "Update"}
  Config <- WriteBackOneThread
  max_flush_request_ = 2
  max_late = 0
  max_chain = 2
  AutoDelete = {FALSE}
  mode_changes = FALSE
  max_restart = 0
INVARIANTS NoWriteLost
