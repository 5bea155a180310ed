SPECIFICATION FairSpec
CONSTANTS
  IdLen = 6
  MaxParms = 2048
  AddressSize = 64
  Chats <- MCChats
  Numbers <- MCNumbers
  Decimal <- MCDecimal
  Messages <- MCMessages
  HostLen = 22
  TokenLen = 8
  Bytes = {"a", "b", "e", "r"}
  MaxChunk = 1
  MaxChunks = 3
  ErrorText <- MCError
INVARIANTS TypeOK WholeRequest AnswerStored
PROPERTIES CallReturns
