SPECIFICATION QSpec
CONSTANTS
  QueueSize = 4
  MaxFailed = 5
  MaxAccepted = 6
INVARIANTS
  HoldsTail
  QueueContents
  RetriesCorrect
PROPERTIES
  HeldPacketStable
  EveryPacketTaken
  ImplementsFifo
