\* Each provider once: replies of two blocks of two fragments each.
SPECIFICATION Spec
CONSTANTS
  Providers = {"anthropic", "completions", "responses", "azure", "codex",
               "mistral", "google", "vertex", "bedrock", "faux"}
  Dialects = {"anthropic", "completions", "responses", "mistral", "google",
              "bedrock"}
  MaxBlocks = 2
  MaxFragments = 2
CHECK_DEADLOCK FALSE
INVARIANTS
  TypeOK
  ProtocolRespected
  DoneIsFaithful
  ConsumerFollows
  NoSilentEnd
  CallsAnsweredInPlace
  ReasoningReplayed
  CacheMarksLastInput
  TransformedHistoryAnswered
  ThinkingAsAsked
PROPERTIES
  AbortIsAnswered
  AbortReturns
