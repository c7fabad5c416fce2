------------------------- MODULE OpenaiResponses -------------------------
(***************************************************************************)
(* The OpenAI Responses provider (providers/openai_responses.rs), whose    *)
(* stream and message conversion the Azure and Codex providers share.  at  *)
(* stands for item_to_content, output_to_content and                       *)
(* output_content_to_content: one number names an item by its id, its      *)
(* output index and, for a message, its one part.  buf holds               *)
(* tool_arg_buffers by content index, ended is ended_content.              *)
(***************************************************************************)
EXTENDS ProviderMachine

\* responses_tool_call_id and split_responses_tool_call_id: the call's id
\* and the item's, joined, and the call's id again.
JoinCallId(b) == <<b, -b>>
SplitCallId(id) == IF id = <<>> THEN <<>> ELSE <<Head(id)>>
ItemId(id) == IF id = <<>> THEN <<>> ELSE Tail(id)

\* A new block for item b at the end of the message, announced.
AddItem(m, b, block) ==
  LET n == [Add(m, block) EXCEPT !.at = Put(@, b, NextIndex(m))]
  IN EmitOpened(n, n.at[b])

\* The End of the block at i, once.
\* MUTANT: ended_content is not looked at.
EndAgain(m, i) == EmitEnded([m EXCEPT !.ended = @ \cup {i}], i)
EndOnce(m, i) ==
  IF i \in m.ended THEN m ELSE EmitEnded([m EXCEPT !.ended = @ \cup {i}], i)

\* An added message only leaves its signature for its parts; an added call
\* may come with the beginning of its arguments, of which no Delta tells.
OnOutputItemAdded(m, e) ==
  CASE e.kind = "text"     -> m
    [] e.kind = "thinking" -> AddItem(m, e.b, Block("thinking"))
    [] e.kind = "tool"     ->
         LET n == AddItem(m, e.b, ToolBlock(JoinCallId(e.b))) IN
         IF e.text = <<>> THEN n
         ELSE [n EXCEPT !.buf = Put(@, n.at[e.b], e.text)]

TextOf(b, text) == [Block("text") EXCEPT !.text = text, !.sig = <<b>>]

EnsureContentPartText(m, e, text) ==
  IF Known(m.at, e.b) THEN m ELSE AddItem(m, e.b, TextOf(e.b, text))

\* A part may be announced with the beginning of its text, of which no Delta
\* tells.
OnContentPartAdded(m, e) == EnsureContentPartText(m, e, e.text)

EndTextContent(m, i, text) ==
  IF i \in m.ended \/ ~Is(m, i, "text") THEN m
  ELSE EndOnce([m EXCEPT !.content[i].text = text], i)

OnTextDelta(m, e) ==
  LET n == EnsureContentPartText(m, e, <<>>)
      i == n.at[e.b]
  IN IF i \in n.ended \/ ~Is(n, i, "text") THEN n
     ELSE Emit(Extend(n, i, "text", e.text), Delta(i, "text", e.text))

OnTextDone(m, e) ==
  IF Known(m.at, e.b) THEN EndTextContent(m, m.at[e.b], e.text) ELSE m

OnContentPartDone(m, e) ==
  LET n == EnsureContentPartText(m, e, e.text)
  IN EndTextContent(n, n.at[e.b], e.text)

\* Reasoning deltas open their block when no item announced it.
OnThinkingDelta(m, e) ==
  LET n == IF Known(m.at, e.b) THEN m ELSE AddItem(m, e.b, Block("thinking"))
      i == n.at[e.b]
  IN Emit(Extend(n, i, "thinking", e.text), Delta(i, "thinking", e.text))

\* The text of the event, one part of the summary, replaces the block's.
OnThinkingDone(m, e) ==
  IF Known(m.at, e.b) /\ Is(m, m.at[e.b], "thinking")
  THEN [m EXCEPT !.content[m.at[e.b]].text = e.text] ELSE m

OnToolArgsDelta(m, e) ==
  IF ~Known(m.at, e.b) THEN m
  ELSE LET i == m.at[e.b] IN
       Emit(Collect(m, i, e.text), Delta(i, "tool", e.text))

OnToolArgsDone(m, e) ==
  IF ~Known(m.at, e.b) THEN m
  ELSE LET i == m.at[e.b] IN
       Parse([m EXCEPT !.buf = Put(@, i, e.text)], i, e.text)

\* A message's parts end with the item, also those never announced.
OnMessageItemDone(m, e) ==
  LET n == IF Known(m.at, e.b) THEN m ELSE AddItem(m, e.b, TextOf(e.b, <<>>))
      i == n.at[e.b]
  IN IF ~Is(n, i, "text") THEN n
     ELSE EndOnce([n EXCEPT !.content[i].text = e.text,
                            !.content[i].sig = <<e.b>>], i)

OnReasoningItemDone(m, e) ==
  LET i == m.at[e.b] IN
  IF ~Is(m, i, "thinking") THEN m
  ELSE EndOnce([m EXCEPT !.content[i].text = IF e.text = <<>> THEN @
                                             ELSE e.text,
                         !.content[i].sig = e.sig], i)

OnFunctionItemDone(m, e) ==
  LET i == m.at[e.b]
      raw == IF e.text = <<>> THEN Lookup(m.buf, i, <<>>) ELSE e.text
      n == Parse(m, i, raw)
  IN IF Is(n, i, "tool") THEN EndOnce(n, i) ELSE n

OnOutputItemDone(m, e) ==
  IF e.kind = "text" THEN OnMessageItemDone(m, e)
  ELSE IF ~Known(m.at, e.b) THEN m
  ELSE IF e.kind = "thinking" THEN OnReasoningItemDone(m, e)
  ELSE OnFunctionItemDone(m, e)

OnDelta(m, e) ==
  CASE e.kind = "text"     -> OnTextDelta(m, e)
    [] e.kind = "thinking" -> OnThinkingDelta(m, e)
    [] e.kind = "tool"     -> OnToolArgsDelta(m, e)

\* The done event of a part of the item, or of its arguments.
OnWhole(m, e) ==
  CASE e.kind = "text"     -> IF e.type = "part" THEN OnContentPartDone(m, e)
                              ELSE OnTextDone(m, e)
    [] e.kind = "thinking" -> OnThinkingDone(m, e)
    [] e.kind = "tool"     -> OnToolArgsDone(m, e)

\* response.completed, whose reason is ToolUse when the output has a call,
\* response.incomplete and response.cancelled.
OnResponseEnd(m, e) ==
  IF e.kind = "refused"
  THEN Finished(m, Failed("aborted", Message(m.content, "aborted")))
  ELSE Conclude([m EXCEPT !.stop = e.kind])

HandleEvent(m, e) ==
  CASE e.type = "open"  -> OnOutputItemAdded(m, e)
    [] e.type = "added" -> OnContentPartAdded(m, e)
    [] e.type = "frag"  -> OnDelta(m, e)
    [] e.type \in {"whole", "part"} -> OnWhole(m, e)
    [] e.type = "close" -> OnOutputItemDone(m, e)
    [] e.type = "end"   -> OnResponseEnd(m, e)
    [] e.type = "fail"  -> Incomplete(m)
    [] OTHER            -> m

Eof(m) == Incomplete(m)
===========================================================================
