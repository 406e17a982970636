CONSTANTS
  t1 = t1
  t2 = t2
  b1 = b1
  b2 = b2
  w1 = w1
  Txns = {t1, t2}
  Blocks = {b1, b2}
  Workflows = {w1}
  WorkflowOf <- MCWorkflowOf
  BlockList <- MCBlockList
  MaxRetries = 2
  RefBatch = 2
  SqsBatch = 2
  NoNonce = NoNonce
  Consumers = {"background_gc", "process_dlq_gc_message"}
SPECIFICATION Spec
INVARIANTS
  TypeOK
  ManifestReferencesCounted
  LossNeedsFailedSharer
PROPERTIES
  RefinesManifestCommit
  CallsAdvance
CHECK_DEADLOCK FALSE
