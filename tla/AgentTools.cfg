\* One input whose turn runs batches of up to two tool calls: every order of
\* hooks, tools, a Cancel, a prompt and a close.
SPECIFICATION FairSpec
CONSTANTS
  SessionMailbox = 100
  StepMailbox = 100
  StreamReasons = {"ToolUse"}
  ToolOutcomes = {"ExecSuccess", "Error"}
  HookVerdicts = {"Allow", "Deny", "Error"}
  MaxInputs = 1
  MaxCancels = 1
  MaxPrompts = 0
  MaxSteps = 2
  MaxCalls = 2
  MaxDeltas = 0
INVARIANTS
  TypeOK
  OneCompletionInFlight
  LogReplaysToTurn
  ConversationWellFormed
  SnapshotIsFresh
PROPERTIES
  CancelledTurnWindsDown
  EveryInputAnswered
  CloseStops
