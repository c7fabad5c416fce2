---------------------------- MODULE ChatRequest ----------------------------
(***************************************************************************)
(* The requests of the two providers that take chat messages: OpenAI Chat  *)
(* Completions (providers/openai_completions.rs) and Mistral               *)
(* (providers/mistral.rs).                                                 *)
(***************************************************************************)
EXTENDS ProviderRequest, Mistral

\* A user message without an image is one string.
UserContentToValue(content) ==
  IF OnlyText(content) THEN <<Part("text")>> ELSE UserParts(content)

\* Thinking is left out, and the images of a tool result.
CompletionsConvertMessage(message) ==
  CASE message.role = "user" ->
         Turn("user", UserContentToValue(message.content))
    [] message.role = "assistant" ->
         LET texts == SelectSeq(message.content, LAMBDA b : b.kind = "text")
             calls == Calls(message.content)
         IN Turn("assistant",
                 Joined([i \in DOMAIN texts |-> texts[i].text])
                 \o [i \in DOMAIN calls |-> CallPart(calls[i])])
    [] message.role = "result" -> Turn("tool", <<ResultPart(message.id)>>)

CompletionsConvertMessages(history) ==
  [i \in DOMAIN history |-> CompletionsConvertMessage(history[i])]

\* max_completion_tokens, where the model does not want max_tokens.
CompletionsBuildRequestBody(history, tuned) ==
  [turns |-> CompletionsConvertMessages(history),
   limit |-> tuned.limit, temperature |-> tuned.temperature,
   thinking |-> tuned.thinking]

CompletionsSimple(ask) == {AsEffort(ask, Min({ask.level, 4}))}

----------------------------------------------------------------------------
\* Text and thinking that is not blank, then the calls; images are left out.
MistralConvertMessage(message) ==
  CASE message.role = "user" -> Turn("user", <<Part("text")>>)
    [] message.role = "assistant" ->
         LET said == SelectSeq(message.content,
                               LAMBDA b : b.kind # "tool" /\ b.text # <<>>)
             calls == Calls(message.content)
             SaidPart(b) == [Part(b.kind) EXCEPT !.text = b.text]
             MadePart(b) == [CallPart(b) EXCEPT !.id = NormalizeToolCallId(@)]
         IN Turn("assistant", [i \in DOMAIN said |-> SaidPart(said[i])]
                              \o [i \in DOMAIN calls |-> MadePart(calls[i])])
    [] message.role = "result" ->
         Turn("tool", <<ResultPart(NormalizeToolCallId(message.id))>>)

MistralConvertMessages(history) ==
  [i \in DOMAIN history |-> MistralConvertMessage(history[i])]

MistralBuildRequestBody(history, tuned) ==
  [turns |-> MistralConvertMessages(history),
   limit |-> tuned.limit, temperature |-> tuned.temperature,
   thinking |-> tuned.thinking]

\* Efforts from low to high, of a reasoning model.
Effort(level) == Max({2, Min({level, 4})})
MistralSimple(ask, model) ==
  {IF model.reasoning THEN AsEffort(ask, Effort(ask.level))
   ELSE Translated(ask, Unasked)}
============================================================================
