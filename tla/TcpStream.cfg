SPECIFICATION Spec
CONSTANTS
  SeqMod = 16
  Isses = {2, 12, 15}
  Irs = 13
  Cap = 3
  Mtu = 2
  PeerLen = 4
  MaxSeg = 2
  MaxSend = 3
  MaxSent = 5
  Windows = {0, 2, 3}
  MaxOffers = 2
  PeerResets = TRUE
  BareSegments = TRUE
CHECK_DEADLOCK FALSE
INVARIANTS
  CountersCorrect
  DataInOrder
  AcksWhatIsStored
  PeerNotOverrun
