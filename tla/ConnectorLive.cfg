SPECIFICATION FairSpec
CONSTANTS
  MasterHelper = {h1}
  SlaveHelper = {}
  Job = {r1, w1, w2}
  NoJob = NoJob
  ReadJob = {r1}
  CommitJob = {w2}
  queueSize = 1
  maxTryConnect = 1
  EnableHwc = {FALSE, TRUE}
  max_reload = 1
INVARIANTS QueueBounded
PROPERTIES EveryJobAnswered OfflineAnswersAll
