-------------------- MODULE ProviderRequestProperties --------------------
(***************************************************************************)
(* What the request for the next turn owes the vendor, whichever two       *)
(* providers the two turns are of: a call of stream() whose message is     *)
(* received, and the requests that may follow it.                          *)
(***************************************************************************)
EXTENDS ProviderStreamProperties, ProviderRequest

AnthropicRequests   == INSTANCE AnthropicRequest
ChatRequests        == INSTANCE ChatRequest
ResponsesRequests   == INSTANCE ResponsesRequest
GeminiRequests      == INSTANCE GeminiRequest
BedrockRequests     == INSTANCE BedrockRequest

----------------------------------------------------------------------------
\* The next request.  The message just received, the result of each of its
\* calls, none of which ran when the message broke off, and what the user may
\* say before and after them.
Answers(message) ==
  LET calls == IF message.stop \in {"error", "aborted"} THEN <<>>
               ELSE Calls(message.content) IN
  [i \in DOMAIN calls |-> Result(calls[i].id, <<"text", "image">>)]
Continued(message, after) ==
  <<User(<<"text", "image">>), Assistant(provider, message)>>
  \o Answers(message) \o after
Histories(message) ==
  {Continued(message, after) : after \in {<<>>, <<User(<<"text">>)>>}}

\* A request that asks for nothing special, to a model of the vendor.
Plain == Translated([limit |-> Unset, temperature |-> FALSE], Unasked)
SomeModel == [limit |-> 4096, reasoning |-> TRUE, family |-> "adaptive",
              efforts |-> [l \in Levels |-> Unset]]

Targets == Providers \ {"faux"}
Body(target, history, options, tuned, model) ==
  CASE target = "anthropic"   ->
         AnthropicRequests!BuildRequestBody(history, options, tuned, model)
    [] target = "completions" -> ChatRequests!CompletionsBuildRequestBody(history, tuned)
    [] target = "responses"   ->
         ResponsesRequests!BuildRequestBody(history, options, tuned, model)
    [] target = "azure"       ->
         ResponsesRequests!AzureBuildRequestBody(history, options, tuned, model)
    [] target = "codex"       -> ResponsesRequests!CodexBuildRequestBody(history, tuned)
    [] target = "mistral"     -> ChatRequests!MistralBuildRequestBody(history, tuned)
    [] target = "google"      -> GeminiRequests!BuildRequestBody(history, tuned)
    [] target = "vertex"      -> GeminiRequests!VertexBuildRequestBody(history, tuned)
    [] target = "bedrock"     ->
         BedrockRequests!BuildRequestBody(history, options, tuned)
Request(target, history, options) ==
  Body(target, history, options, Plain, SomeModel)

\* The calls and the answers of a request, in order, and where the assistant
\* spoke.
Parts(turns) == FlattenSeq([i \in DOMAIN turns |-> turns[i].parts])
Ids(parts, type) ==
  LET of == SelectSeq(parts, LAMBDA p : p.type = type) IN
  [i \in DOMAIN of |-> of[i].id]
Spoken(turn) == turn.role \in {"assistant", "model"}

\* The turns that answer the calls of turn i: those up to the next that is
\* no answer.
OnlyResults(turn) == \A j \in DOMAIN turn.parts : turn.parts[j].type = "result"
AnswersTo(turns, i) ==
  LET after == SubSeq(turns, i + 1, Len(turns))
      Breaks(turn) == turn.parts = <<>> \/ ~OnlyResults(turn)
      stop == SelectInSeq(after, Breaks)
  IN Ids(Parts(IF stop = 0 THEN after ELSE SubSeq(after, 1, stop - 1)),
         "result")

\* The vendors that take the answers of one message in one message.
Grouping == {"anthropic", "google", "vertex"}
AnswersInPlace(target, turns) ==
  /\ \A i \in DOMAIN turns :
       LET calls == Ids(turns[i].parts, "call") IN
       (Spoken(turns[i]) /\ calls # <<>>) =>
         /\ AnswersTo(turns, i) = calls
         /\ target \in Grouping => Ids(turns[i + 1].parts, "result") = calls
  /\ Len(Ids(Parts(turns), "result")) = Len(Ids(Parts(turns), "call"))

\* Whatever provider the calls came from and whichever takes over, the
\* request answers each call once, under the id it has there, at once after
\* the message that made it, and no result is without its call: the ids are
\* joined, split, hashed and made up on the way.
CallsAnsweredInPlace ==
  view.phase = "done" =>
    \A target \in Targets, history \in Histories(view.last) :
      AnswersInPlace(target, Request(target, history, {}).turns)

\* Thinking with a signature goes back to the provider it came from as
\* thinking, with that signature, and redacted thinking with its data, where
\* the provider can sign at all: the vendor refuses or forgets it otherwise.
Keeping == {"anthropic", "responses", "azure", "codex", "google", "vertex",
            "bedrock"}
Signed(block) ==
  block.kind = "thinking" /\ block.sig # <<>> /\ block.text # <<>>
ReasoningReplayed ==
  (view.phase = "done" /\ provider \in Keeping) =>
    \A history \in Histories(view.last) :
      LET parts == Parts(Request(provider, history, {"claude"}).turns)
          sent == SelectSeq(view.last.content, Signed)
          kept == SelectSeq(parts, LAMBDA p :
                    p.type \in {"thinking", "redacted"} /\ p.sig # <<>>
                    /\ (p.type = "thinking" => p.text # <<>>))
      IN /\ Len(sent) = Len(kept)
         /\ \A i \in DOMAIN sent :
              /\ kept[i].sig = sent[i].sig
              /\ kept[i].type = IF sent[i].redacted THEN "redacted"
                                ELSE "thinking"
              /\ ~sent[i].redacted => kept[i].text = sent[i].text

\* With caching on, one part of the messages is marked, and it is the last
\* one the user or a tool put in: the prefix that the next turn repeats.
CacheMarksLastInput ==
  view.phase = "done" =>
    \A history \in Histories(view.last) :
      LET turns == Request("anthropic", history, {"cache"}).turns
          inputs == SelectSeq(turns, LAMBDA t : ~Spoken(t))
          marked == SelectSeq(Parts(turns), LAMBDA p : p.cached)
      IN Len(marked) = 1 /\ Parts(inputs)[Len(Parts(inputs))].cached

\* The ids of the model that takes over, as a test would choose them.
OwnId(id) == IF id = <<>> THEN <<>> ELSE <<2000 + 100 * Head(id) + id[Len(id)]>>
Handover == INSTANCE TransformMessages WITH NormalizeToolCallId <- OwnId

\* A history that breaks off anywhere, between a message and its results or
\* among them, and goes to another model through transform_messages, comes
\* out with every call answered where it was made, with no signature that is
\* not the new model's own, no redacted thinking of another model's, and no
\* image for a model that reads none.
TransformedHistoryAnswered ==
  view.phase \in {"done", "error"} =>
    \A target \in {"anthropic", "google"}, images \in BOOLEAN,
       history \in Histories(view.last) :
      \A n \in DOMAIN history :
        LET cut == SubSeq(history, 1, n) \o <<User(<<"image", "image">>)>>
            sent == Handover!Transform(cut, target, images)
        IN /\ AnswersInPlace(target, Request(target, sent, {}).turns)
           /\ \A i \in DOMAIN sent :
                /\ (sent[i].role = "assistant" /\ sent[i].api # target) =>
                     \A j \in DOMAIN sent[i].content :
                       /\ sent[i].content[j].sig = <<>>
                       /\ ~sent[i].content[j].redacted
                /\ (sent[i].role # "assistant" /\ ~images) =>
                     OnlyText(sent[i].content)
----------------------------------------------------------------------------
\* How a level of thinking reaches the body, {} for a refusal.
Simple(target, ask, model) ==
  CASE target = "anthropic"   -> AnthropicRequests!Simple(ask, model)
    [] target = "completions" -> ChatRequests!CompletionsSimple(ask)
    [] target = "responses"   -> ResponsesRequests!Simple(ask)
    [] target = "azure"       -> ResponsesRequests!AzureSimple(ask)
    [] target = "codex"       -> ResponsesRequests!CodexSimple(ask)
    [] target = "mistral"     -> ChatRequests!MistralSimple(ask, model)
    [] target = "google"      -> GeminiRequests!Simple(ask)
    [] target = "vertex"      -> GeminiRequests!VertexSimple(ask)
    [] target = "bedrock"     -> BedrockRequests!Simple(ask, model)
Sent(target, ask, model) ==
  {Body(target, <<>>, {}, tuned, model) : tuned \in Simple(target, ask, model)}

\* Limits and budgets around 1024 and each other; models with a name of their
\* own for a level and without.
Asks ==
  [level : {0} \cup Levels, temperature : BOOLEAN,
   limit : {Unset, 0, 1024, 1025, 4096, 64000},
   budgets : {[l \in 1..4 |-> b] : b \in {Unset, 0, 1025, 50000}}]
Models ==
  [limit : {1024, 4096, 64000}, reasoning : BOOLEAN,
   family : {"adaptive", "fixed", "nova", "other"},
   efforts : {[l \in Levels |-> e] : e \in {Unset}}
             \cup {[l \in Levels |-> IF l = 1 THEN 2 ELSE Unset]}]

Thinks(target, model) ==
  target \in {"responses", "azure", "mistral"} => model.reasoning
Unbudgeted(ask) == \A l \in 1..4 : ask.budgets[l] = Unset

\* A level of thinking is asked of the vendor or refused, never forgotten,
\* and never sent unasked.  A budget on Bedrock is at least the vendor's
\* minimum and leaves room in the limit that is sent (amazon_bedrock.rs:115);
\* a budget never goes to Anthropic with a temperature (anthropic.rs:668).
\* Who asks for more, with no budgets of its own, does not get less.
ThinkingAsAsked ==
  (stage = "setup" /\ provider # "faux" /\ ~token /\ ~dropped) =>
    \A ask \in Asks, model \in Models :
      \A sent \in Sent(provider, ask, model) :
        LET amount == sent.thinking.amount IN
        /\ (sent.thinking # Unasked) = (ask.level # 0 /\ Thinks(provider, model))
        /\ (provider = "bedrock" /\ sent.thinking.how = "budget") =>
             1024 <= amount /\ amount < sent.limit
        /\ (provider = "anthropic" /\ sent.thinking.how = "budget") =>
             ~sent.temperature
        /\ (ask.level > 1 /\ Unbudgeted(ask)) =>
             \A less \in Sent(provider, [ask EXCEPT !.level = @ - 1], model) :
               less.thinking.amount <= amount
===========================================================================
