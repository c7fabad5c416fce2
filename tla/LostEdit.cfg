\* Two edits of different lines in one batch.
SPECIFICATION Spec
CONSTANTS
  Calls = {c1, c2}
  A = A
  B = B
  C = C
  Binary = Binary
  Lines = {A, B, C, Binary}
  NoFile = NoFile
  NoCall = NoCall
  Requests <- TwoEdits
  InitialFiles <- OneFile
  MaxReadLines = 2
CHECK_DEADLOCK FALSE
INVARIANT
  ReportedEditsLast
