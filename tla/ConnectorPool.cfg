SPECIFICATION Spec
CONSTANTS
  MasterHelper = {h1, h2}
  SlaveHelper = {}
  Job = {r1, w1, w2}
  NoJob = NoJob
  ReadJob = {r1}
  CommitJob = {w2}
  queueSize = 1
  maxTryConnect = 1
  EnableHwc = {FALSE}
  max_reload = 1
SYMMETRY Symmetry
INVARIANTS TypeOK PoolConsistent JobInOnePlace SentOnce OwnReply SuccessWasReported
