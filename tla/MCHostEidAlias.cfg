SPECIFICATION Spec
CONSTANTS
  e = e
  Seqs <- TwoSeqs
  Cmds <- TableOnly
  Eids <- Neighbour
  EidByte <- FileByte
  RingSize = 2
  RequestCap = 2
  RspFrags = 2
  ChatFrags <- ShortTexts
  MaxConns = 2
  MaxChats = 1
INVARIANTS
  RspReusesSeq
