SPECIFICATION Spec
CONSTANTS
  Sent <- MCSent
  Nothing = Nothing
INVARIANTS
  RequestIsRead
  ClientIsRead
  ScanFindsRequest
