\* Three inputs queued against turns of one step each, with a Cancel and a new
\* prompt at any point.
SPECIFICATION Spec
CONSTANTS
  SessionMailbox = 100
  StepMailbox = 100
  StreamReasons = {"ToolUse"}
  ToolOutcomes = {"ExecSuccess"}
  HookVerdicts = {"Allow"}
  MaxInputs = 3
  MaxCancels = 1
  MaxPrompts = 1
  MaxSteps = 1
  MaxCalls = 0
  MaxDeltas = 1
INVARIANTS
  InputsInOrder
  ProgressWithinStep
