\* Two invocations, in one batch or in two, the second perhaps against a write
\* that a cancelled first has left behind.
SPECIFICATION Spec
CONSTANTS
  Calls = {c1, c2}
  A = A
  B = B
  C = C
  Binary = Binary
  Lines = {A, B, C, Binary}
  NoFile = NoFile
  NoCall = NoCall
  Requests <- SomeRequests
  InitialFiles <- SomeFiles
  MaxReadLines = 2
CHECK_DEADLOCK FALSE
INVARIANTS
  FilesTypeOK
  AloneIsExact
PROPERTY
  CancelReports
