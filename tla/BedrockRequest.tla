-------------------------- MODULE BedrockRequest --------------------------
(***************************************************************************)
(* The request of the Bedrock Converse provider                            *)
(* (providers/amazon_bedrock.rs).                                          *)
(***************************************************************************)
EXTENDS ProviderRequest, AmazonBedrock

\* Thinking goes back signed where the model is Claude, as text when it has
\* no signature, and unsigned to other models; blank thinking is left out.
ThinkingParts(block, options) ==
  IF block.text = <<>> THEN <<>>
  ELSE IF "claude" \notin options
  THEN <<[Part("thinking") EXCEPT !.text = block.text]>>
  ELSE IF block.sig # <<>>
  THEN <<[Part("thinking") EXCEPT !.text = block.text, !.sig = block.sig]>>
  ELSE <<TextPart(block.text)>>

BlockParts(block, options) ==
  CASE block.kind = "text"     -> <<TextPart(block.text)>>
    [] block.kind = "thinking" -> ThinkingParts(block, options)
    [] block.kind = "tool"     -> <<CallPart(block)>>

\* Every tool result is a user message of its own; an assistant message
\* without a part is left out.
ConvertMessage(message, options) ==
  CASE message.role = "user" ->
         <<Turn("user", UserParts(message.content))>>
    [] message.role = "assistant" ->
         LET parts == FlattenSeq([j \in DOMAIN message.content |->
                                    BlockParts(message.content[j], options)])
         IN IF parts = <<>> THEN <<>> ELSE <<Turn("assistant", parts)>>
    [] message.role = "result" ->
         <<Turn("user", <<ResultPart(message.id)>>)>>

ConvertMessages(history, options) ==
  FlattenSeq([i \in DOMAIN history |-> ConvertMessage(history[i], options)])

\* inferenceConfig always has a limit; Nova's high effort goes without it.
NovaHigh(thinking) == thinking = Thinking("nova", 4)
BuildRequestBody(history, options, tuned) ==
  [turns       |-> ConvertMessages(history, options),
   limit       |-> IF NovaHigh(tuned.thinking) THEN Unset
                   ELSE IF tuned.limit = Unset THEN 4096 ELSE tuned.limit,
   temperature |-> tuned.temperature /\ ~NovaHigh(tuned.thinking),
   thinking    |-> tuned.thinking]

----------------------------------------------------------------------------
\* Levels in the terms of the model's family: an effort, by the model's name
\* for the level if it has one; a budget that leaves room in the limit; or
\* the efforts of Nova.  Other models are refused.
DefaultBudgets == <<1024, 2048, 8192, 16384, 16384>>
MinThinkingBudget == 1024
Effort(level) == Max({2, Min({level, 4})})

\* MUTANT: a budget may take the whole limit.
BudgetUpToLimit(ask, limit) ==
  Min({Max({Budget(ask, DefaultBudgets[ask.level]), MinThinkingBudget}), limit})
BudgetWithin(ask, limit) ==
  Min({Max({Budget(ask, DefaultBudgets[ask.level]), MinThinkingBudget}),
       limit - 1})

SimpleAdaptive(ask, model) ==
  {Translated(ask, Thinking("effort",
     IF model.efforts[ask.level] = Unset THEN Effort(ask.level)
     ELSE model.efforts[ask.level]))}
SimpleFixed(ask, model) ==
  LET limit == IF ask.limit = Unset THEN model.limit ELSE ask.limit IN
  IF limit <= MinThinkingBudget THEN {}
  ELSE {Translated([ask EXCEPT !.limit = limit],
                   Thinking("budget", BudgetWithin(ask, limit)))}
SimpleNova(ask) ==
  LET thinking == Thinking("nova", Effort(ask.level)) IN
  {Translated(IF NovaHigh(thinking)
              THEN [ask EXCEPT !.limit = Unset, !.temperature = FALSE] ELSE ask,
              thinking)}
Simple(ask, model) ==
  IF ask.level = 0 THEN {Translated(ask, Unasked)}
  ELSE CASE model.family = "adaptive" -> SimpleAdaptive(ask, model)
         [] model.family = "fixed"    -> SimpleFixed(ask, model)
         [] model.family = "nova"     -> SimpleNova(ask)
         [] OTHER                     -> {}
===========================================================================
