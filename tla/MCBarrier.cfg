SPECIFICATION FairSpec
CONSTANTS
  j1 = j1  j2 = j2  j3 = j3  j4 = j4  j5 = j5  j6 = j6  j7 = j7
  k1 = k1  k2 = k2  k3 = k3
  Job <- MCJob
  Key <- MCKey
  barrier_key <- MCbarrier_key
  Bypass = {j7}
  max_barrier = 2
  max_key_count_ = 3
INVARIANTS TypeOK PassedJobIsHead BarriersBounded
PROPERTIES EveryJobAnswered ImplementsSerialByKey
CHECK_DEADLOCK FALSE
