------------------------- MODULE AnthropicRequest -------------------------
(***************************************************************************)
(* The request of the Anthropic Messages provider                          *)
(* (providers/anthropic.rs).                                               *)
(***************************************************************************)
EXTENDS ProviderRequest, AnthropicMessages

\* A redacted block goes back with its data or not at all, thinking without
\* a signature as text unless the model takes an empty signature.
BlockParts(block, options) ==
  CASE block.kind = "text" -> <<TextPart(block.text)>>
    [] block.kind = "tool" -> <<CallPart(block)>>
    [] block.kind = "thinking" /\ block.redacted ->
         IF block.sig = <<>> THEN <<>>
         ELSE <<[Part("redacted") EXCEPT !.sig = block.sig]>>
    [] OTHER ->
         IF block.sig # <<>> \/ "unsigned" \in options
         THEN <<[Part("thinking") EXCEPT !.text = block.text,
                                         !.sig = block.sig]>>
         ELSE <<TextPart(block.text)>>

\* cache_control on the last part of a user message.
MarkLast(parts) ==
  IF parts = <<>> THEN parts ELSE [parts EXCEPT ![Len(parts)].cached = TRUE]

\* MUTANT: tool results do not count as input.
IsUserInput(message) == message.role = "user"
IsInput(message) == message.role \in {"user", "result"}

\* Consecutive tool results become one user message.
ConvertMessages(history, options) ==
  LET last == SelectLastInSeq(history, IsInput)
      marked(i) == i = last /\ "cache" \in options
      answer(i) == [ResultPart(history[i].id) EXCEPT !.cached = marked(i)]
      Next(turns, i) ==
        CASE history[i].role = "user" ->
               LET parts == UserParts(history[i].content) IN
               Append(turns,
                 Turn("user", IF marked(i) THEN MarkLast(parts) ELSE parts))
          [] history[i].role = "assistant" ->
               Append(turns, Turn("assistant", FlattenSeq(
                 [j \in DOMAIN history[i].content |->
                    BlockParts(history[i].content[j], options)])))
          [] history[i].role = "result" ->
               IF i > 1 /\ history[i - 1].role = "result"
               THEN [turns EXCEPT ![Len(turns)].parts = Append(@, answer(i))]
               ELSE Append(turns, Turn("user", <<answer(i)>>))
  IN FoldLeft(Next, <<>>, [i \in DOMAIN history |-> i])

\* The vendor rejects temperature with thinking; a budget is sent as it is,
\* also when the limit leaves no room for it.
BuildRequestBody(history, options, tuned, model) ==
  [turns       |-> ConvertMessages(history, options),
   limit       |-> IF tuned.limit = Unset THEN model.limit ELSE tuned.limit,
   temperature |-> tuned.temperature /\ tuned.thinking.how # "budget",
   thinking    |-> tuned.thinking]

DefaultBudgets == <<1024, 4096, 8192, 16384, 32768>>
Simple(ask, model) ==
  {Translated(ask, IF ask.level = 0 THEN Unasked
                   ELSE Thinking("budget",
                                 Budget(ask, DefaultBudgets[ask.level])))}
===========================================================================
