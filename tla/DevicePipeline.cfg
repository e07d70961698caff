\* Six samples over two boots, windows of two, an hour of three samples.
CONSTANTS
  Bundles <- MCBundles
  Answers <- MCAnswers
  Window = 2
  Stride = 1
  UplinkEvery = 2
  BatchSize = 2
  Capacity = 3
  Hour = 3
  MaxSamples = 6
  MaxBoots = 2
SPECIFICATION PipelineSpec
INVARIANTS GateMatchesBatch HeldBackIsInTheLedger CountsAddUp
CHECK_DEADLOCK FALSE
