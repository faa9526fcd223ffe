SPECIFICATION LiveSpec
CONSTANTS
  e = e
  Seqs <- TwoSeqs
  Cmds <- None
  Eids <- Neighbour
  EidByte <- PlainByte
  RingSize = 16
  RequestCap = 2
  RspFrags = 2
  ChatFrags <- Text192
  MaxConns = 2
  MaxChats = 1
PROPERTIES
  EmptyRingTakesText
