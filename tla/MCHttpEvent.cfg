SPECIFICATION Spec
CONSTANTS
  MethodLen = 8
  PathLen = 128
  ProtocolLen = 16
  HeaderNum = 32
  HeaderLen = 32
  HeaderDataLen = 256
  Requests <- AllRequests
INVARIANTS TypeOK EventComplete NothingHeld GatewayUnderstood ReadBackSame
