SPECIFICATION FairSpec
CONSTANTS
  Adders = {a1}
  Flusher = flusher
  Stopper = stopper
  FlushMax = 2
  MaxBuffer = 2
  MaxEvents = 2
  Unencodable = {2}
PROPERTY FailedBatchesReturn
