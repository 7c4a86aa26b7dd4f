SPECIFICATION FairSpec
CONSTANTS
  Adders = {a1, a2}
  Flusher = flusher
  Stopper = stopper
  FlushMax = 2
  MaxBuffer = 2
  MaxEvents = 4
  Unencodable = {3}
INVARIANTS TypeOK OneOwner StopDrains
PROPERTIES BestEffort EventsDrain
