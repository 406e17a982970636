CONSTANTS
  t1 = t1
  t2 = t2
  b1 = b1
  b2 = b2
  w1 = w1
  Txns = {t1, t2}
  Blocks = {b1, b2}
  Workflows = {w1}
  WorkflowOf <- MCWorkflowOf
  BlockList <- MCRepeatedList
  MaxRetries = 2
  RefBatch = 2
  SqsBatch = 2
  NoNonce = NoNonce
  Consumers = {"background_gc"}
SPECIFICATION FairSpec
PROPERTIES
  EveryCallEnds
  OrphansCollected
CHECK_DEADLOCK FALSE
