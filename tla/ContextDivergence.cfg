\* One turn with one step.
SPECIFICATION Spec
CONSTANTS
  SessionMailbox = 100
  StepMailbox = 100
  StreamReasons = {"Success"}
  ToolOutcomes = {"ExecSuccess"}
  HookVerdicts = {"Allow"}
  MaxInputs = 1
  MaxCancels = 0
  MaxPrompts = 0
  MaxSteps = 1
  MaxCalls = 0
  MaxDeltas = 0
INVARIANTS
  ContextIsProjection
