\* Calls of stream(): races in the registry, limits of the retries, bodies.
SPECIFICATION Spec
CONSTANTS
  None = None
  Nobody = Nobody
  caller = caller
  t1 = t1
  t2 = t2
  Caller = caller
  Threads = {caller, t1, t2}
  Apis <- SomeApis
  Builtins <- SomeBuiltins
  Limits <- SomeLimits
  RetryAfters = {1, 5, 66}
  Jitters = {1, 100}
  MaxWord = 65535
  Events <- StreamEvents
  Terminals <- TerminalEvents
  Scenarios <- AllScenarios
  Symbols <- SomeSymbols
CHECK_DEADLOCK FALSE
INVARIANTS
  BuiltinAlwaysFound
  RequestsBounded
  RetriesWarranted
  DeliveredInOrder
  ResultIsFirstTerminal
  ReplyInOrder
PROPERTIES
  CustomKept
  CancelSettlesResult
