CONSTANTS
  NoEvent = NoEvent
  Events <- MCEvents
  MaxGeneration = 2
  MaxStamp = 3
  RingSize = 2
SPECIFICATION Spec
INVARIANTS
    WorkerInv
    BoundAsPair
    DetachedQuiet
PROPERTY OnlyKnownBlocks
