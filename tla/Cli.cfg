\* Three runs share the credentials; one of them goes round its loop.
SPECIFICATION SpecMC
CONSTANTS
  None = None
  Invalid = Invalid
  p1 = p1
  p2 = p2
  p3 = p3
  c1 = c1
  c2 = c2
  Processes = {p1, p2, p3}
  This = p1
  MaxGrants = 2
  Calls = {c1}
  Lines = {0, 2}
  MaxEvents = 2
  Mailbox = 1
  Buffer = 2
CHECK_DEADLOCK FALSE
INVARIANTS
  AuthFileSound
  TurnsStayApart
PROPERTIES
  InputReturns
