------------------------- MODULE ResponsesRequest -------------------------
(***************************************************************************)
(* The request of the OpenAI Responses provider                            *)
(* (providers/openai_responses.rs), and those of the Azure and the Codex   *)
(* provider (azure_openai_responses.rs, openai_codex_responses.rs), which  *)
(* share its message conversion and its stream.                            *)
(***************************************************************************)
EXTENDS ProviderRequest, OpenaiResponses

\* The providers whose reasoning and text signatures are this API's.
\* MUTANT: only this provider's own.
OnlyResponses == {"responses"}
Family == {"responses", "azure", "codex"}

TextItem(block, api) ==
  [TextPart(block.text) EXCEPT !.sig = IF api \in Family THEN block.sig
                                       ELSE <<>>]

\* Reasoning goes back as the item the vendor sent (the signature of another
\* api is no such item); without one, as a summary where the model asks for
\* it, or not at all.
ReasoningItems(block, api, options) ==
  IF block.sig # <<>> /\ api \in Family
  THEN <<[Part("thinking") EXCEPT !.text = block.text, !.sig = block.sig]>>
  ELSE IF "replay" \in options /\ block.text # <<>>
       THEN <<[Part("thinking") EXCEPT !.text = block.text]>>
       ELSE <<>>

CallItem(block) ==
  [CallPart(block) EXCEPT !.id = SplitCallId(block.id),
                          !.sig = ItemId(block.id)]

BlockItems(block, api, options) ==
  CASE block.kind = "text"     -> <<TextItem(block, api)>>
    [] block.kind = "thinking" -> ReasoningItems(block, api, options)
    [] block.kind = "tool"     -> <<CallItem(block)>>

\* An assistant message is as many items as it has blocks; the images of a
\* tool result are left out.
ConvertMessage(message, options) ==
  CASE message.role = "user" -> Turn("user", UserParts(message.content))
    [] message.role = "assistant" ->
         Turn("assistant", FlattenSeq(
           [j \in DOMAIN message.content |->
              BlockItems(message.content[j], message.api, options)]))
    [] message.role = "result" ->
         Turn("tool", <<ResultPart(SplitCallId(message.id))>>)

ConvertMessages(history, options) ==
  [i \in DOMAIN history |-> ConvertMessage(history[i], options)]

\* Reasoning is asked of a reasoning model only, by the model's name for the
\* level, or by its own where the map has none for it.
Mapped(thinking, model) ==
  IF thinking = Unasked \/ ~model.reasoning THEN Unasked
  ELSE IF model.efforts[thinking.amount] = Unset THEN thinking
  ELSE Thinking("effort", model.efforts[thinking.amount])
BuildRequestBody(history, options, tuned, model) ==
  [turns |-> ConvertMessages(history, options),
   limit |-> tuned.limit, temperature |-> tuned.temperature,
   thinking |-> Mapped(tuned.thinking, model)]

Simple(ask) == {AsEffort(ask, ask.level)}

----------------------------------------------------------------------------
\* Azure.  The deployment's name replaces the model's; nothing else changes.
AzureBuildRequestBody(history, options, tuned, model) ==
  BuildRequestBody(history, options, tuned, model)

AzureSimple(ask) == {AsEffort(ask, ask.level)}

----------------------------------------------------------------------------
\* Codex.  Only reasoning items of the vendor with encrypted content are replayed:
\* here those of the family's own signature.
Replayable(message) ==
  IF message.role # "assistant" THEN message
  ELSE [message EXCEPT !.content =
          SelectSeq(@, LAMBDA b :
            b.kind = "thinking" =>
              b.sig # <<>> /\ message.api \in Family)]

\* What is left is replayed whatever the model asks for.
CodexConvertMessages(history) ==
  ConvertMessages([i \in DOMAIN history |-> Replayable(history[i])],
                            {"replay"})

\* No limit; the encrypted reasoning is always asked for.
CodexBuildRequestBody(history, tuned) ==
  [turns |-> CodexConvertMessages(history),
   limit |-> Unset, temperature |-> tuned.temperature,
   thinking |-> tuned.thinking]

CodexSimple(ask) == {AsEffort(ask, Min({ask.level, 4}))}
============================================================================
