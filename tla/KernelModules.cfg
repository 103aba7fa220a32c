CONSTANTS
  IntMax = 7
  Header = 2
  ByteValues = 4
  Beyond = {0, 3}
  ClientMessages <- MCMessages
  Paged <- MCPaged
  Rejected <- MCRejected
  NfBufferSize = 5
  Memory = 2
  MaxFrames = 3
  MaxBytes = 6
  Datagrams <- MCDatagrams
  UdpBufferSize = 5
  ReceiveSize = 8
  MaxFailedBinds = 2
  MaxQueue = 2
SPECIFICATION Spec
INVARIANTS TypeOK FilterHolds WholeFramesUnderstood SocketsHeld GivenIsReceived
PROPERTIES HookedFilters ArrivesUnlessBlocked EveryLoadEnds
