SPECIFICATION FairSpec
CONSTANTS
  source = source
  broker = broker
  subsystem = subsystem
  brokerQueue = brokerQueue
  subsystemQueue = subsystemQueue
  NoThread = NoThread
  NoMsg = NoMsg
  Msgs = {m1, m2}
  Threads <- MCThreads
  Queues <- MCQueues
  Reader <- MCReader
  Targets <- MCTargets
  HeapSize = 2
  Pre = 1
INVARIANTS
  FailsCleanly
CHECK_DEADLOCK FALSE
