\* Mailboxes of two messages stand for the hundred of the code: a Cancel is
\* handled while both mailboxes are full.
SPECIFICATION FairSpec
CONSTANTS
  SessionMailbox = 2
  StepMailbox = 2
  StreamReasons = {"Success"}
  ToolOutcomes = {"ExecSuccess"}
  HookVerdicts = {"Allow"}
  MaxInputs = 1
  MaxCancels = 1
  MaxPrompts = 0
  MaxSteps = 1
  MaxCalls = 0
  MaxDeltas = 5
PROPERTIES
  CancelEndsStep
CHECK_DEADLOCK FALSE
