SPECIFICATION FairSpec
CONSTANTS
  source = source
  broker = broker
  subsystem = subsystem
  brokerQueue = brokerQueue
  subsystemQueue = subsystemQueue
  NoThread = NoThread
  NoMsg = NoMsg
  Msgs = {m1}
  Threads <- LiveThreads
  Queues <- LiveQueues
  Reader <- LiveReader
  Targets <- LiveTargets
  HeapSize = 2
  Pre = 1
PROPERTIES
  QueuesDrain
CHECK_DEADLOCK FALSE
