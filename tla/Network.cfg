SPECIFICATION Spec
CONSTANTS
  Threads = {"app"}
  OneSender = TRUE
  RxDescs = 3
  TxDescs = 2
  RingSize = 2
  MaxRx = 3
  MaxTx = 3
  MaxFrames = 4
  MaxFlips = 1
  DhcpServers = {"s", "t"}
  Hostnames = {"a", "b", "c"}
  Lans <- MCLans
  Askers = {"terminal"}
  Looks = 1
  MaxLabel = 3
  MaxName = 5
  OptionSize = 8
  Word = 4
  Characters = {97, 98}
  Bytes = {0, 1, 2, 3, 97, 192}
  OptionTypes = {1, 3}
  MaxInput = 5
INVARIANTS FramesInOrder ConfiguredAsAcked AnswerIsForTheName CodecsAgree
PROPERTIES EveryFrameHandled WhoAsksIsAnswered
CHECK_DEADLOCK FALSE
