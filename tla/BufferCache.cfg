SPECIFICATION RSpec
CONSTANTS
  Key = {k1}
  Value = {v1, v2, v3}
  NoRow = NoRow
  NoNode = NoNode
  NoJob = NoJob
  Code = {"Get", "Insert", "Update", "Replace", "Delete", "Purge", "Flush"}
  Config <- CacheConfig
  max_flush_request_ = 3
  max_late = 0
  max_chain = 3
  AutoDelete = {FALSE, TRUE}
  mode_changes = FALSE
  max_restart = 2
SYMMETRY Symmetry
INVARIANTS RTypeOK CleanCopyIsCurrent NoWriteLost FlushedBeforeDelete BlackListedIsNotCached
PROPERTIES DirtyRowFlushed
CHECK_DEADLOCK FALSE
