SPECIFICATION FairSpec
CONSTANTS
  Space = 16
  MaxConn = 2
  MaxSend = 2
  PeerData = 2
  Iss <- MCIss
  Irs <- MCIrs
  Windows = {0, 2}
INVARIANTS
  TypeOK
  SentInOrder
  AcksOnlyDelivered
  EstablishedAgreed
PROPERTIES
  IsByteStream
  HandshakeCompletes
CHECK_DEADLOCK FALSE
