\* One turn: a Cancel handled after its step has finished is lost.
SPECIFICATION Spec
CONSTANTS
  SessionMailbox = 100
  StepMailbox = 100
  StreamReasons = {"ToolUse"}
  ToolOutcomes = {"ExecSuccess"}
  HookVerdicts = {"Allow"}
  MaxInputs = 1
  MaxCancels = 1
  MaxPrompts = 0
  MaxSteps = 2
  MaxCalls = 1
  MaxDeltas = 0
PROPERTIES
  CancelStopsTurn
