SPECIFICATION Spec
CONSTANTS
  NumConns = 3
  Port = {http}
  Peer = {p1, p2}
  NoPeer = NoPeer
  TimeWaitMs = 2
  MaxTime = 1
INVARIANTS
  AcceptFindsEstablished
