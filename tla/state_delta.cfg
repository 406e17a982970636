SPECIFICATION Spec
CONSTANTS
  e1 = e1
  e2 = e2
  b1 = b1
  b2 = b2
  NoManifest = NoManifest
  Executions = {e1, e2}
  Blocks = {b1, b2}
  Deltas <- MCDeltas
  Segments = 2
  TxnItems = 1
  MaxAttempts = 2
  MaxCalls <- MCOneLate
INVARIANTS
  TypeOK
  PointerNamesManifest
  PointerCoversAnswered
  ReferencesCounted
  TagsAgreeWithManifests
  UnflaggedChainComplete
PROPERTIES
  RefinesManifestChain
CHECK_DEADLOCK FALSE
