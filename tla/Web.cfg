SPECIFICATION Spec
CONSTANTS
  Conns = {c1, c2}
  LineLen = 1
  HeaderLen = 3
  Cap = 3
  RecvRoom = 2
  Window = 2
  FileLen = 3
  HugeLen = 4
  MaxResponse = 3
  RecvRetries = 2
  RequestRetries = 2
CHECK_DEADLOCK FALSE
INVARIANTS
  ServerConsistent
  WholeResponse
PROPERTIES
  AcceptedIsClosed
