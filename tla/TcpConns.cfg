SPECIFICATION Spec
CONSTANTS
  NumConns = 3
  Port = {http, alt}
  Peer = {p1, p2}
  NoPeer = NoPeer
  TimeWaitMs = 2
  MaxTime = 1
SYMMETRY PeerSymmetry
INVARIANTS
  TableConsistent
  HandlesLive
  EndpointsUnique
PROPERTIES
  LostOnlyByListenerOrPeer
