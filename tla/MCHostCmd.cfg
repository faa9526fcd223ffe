SPECIFICATION LiveSpec
CONSTANTS
  e = e
  Seqs <- TwoSeqs
  Cmds <- Requests
  Eids <- Neighbour
  EidByte <- PlainByte
  RingSize = 2
  RequestCap = 2
  RspFrags = 2
  ChatFrags <- ShortTexts
  MaxConns = 2
  MaxChats = 1
INVARIANTS
  RspReusesSeq
  WholeMessages
PROPERTIES
  Answered
  ChatSettles
