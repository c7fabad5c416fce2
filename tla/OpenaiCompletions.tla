------------------------ MODULE OpenaiCompletions ------------------------
(***************************************************************************)
(* The OpenAI Chat Completions provider                                    *)
(* (providers/openai_completions.rs).  text and think are text_index and   *)
(* thinking_index; at and buf hold a ToolAccum by the call's index: its    *)
(* content index and its arguments.  The accumulator's id and the block's  *)
(* are one, as a call's id and name come in its first chunk.  A chunk that *)
(* carries several fields is handled as the same fields one by one.        *)
(***************************************************************************)
EXTENDS ProviderMachine

\* A fragment for the block at i, announced while it is empty.
Accumulate(m, i, text) ==
  LET kind == m.content[i].kind
      n == IF m.content[i].text = <<>> THEN EmitOpened(m, i) ELSE m
  IN Emit(Extend(n, i, kind, text), Delta(i, kind, text))

OnContent(m, e) ==
  IF e.text = <<>> THEN m
  ELSE IF m.text # 0 THEN Accumulate(m, m.text, e.text)
  ELSE LET i == NextIndex(m) IN
       Accumulate([Add(m, Block("text")) EXCEPT !.text = i], i, e.text)

OnReasoning(m, e) ==
  IF e.text = <<>> THEN m
  ELSE IF m.think # 0 THEN Accumulate(m, m.think, e.text)
  ELSE LET i == NextIndex(m) IN
       Accumulate([Add(m, Block("thinking")) EXCEPT !.think = i], i, e.text)

\* The call at this index, a new one when the index is new.
Entry(m, k) ==
  IF Known(m.at, k) THEN m
  ELSE [Add(m, ToolBlock(<<>>)) EXCEPT !.at = Put(@, k, NextIndex(m))]

OnToolCall(m, e) ==
  LET n == Entry(m, e.b)
      i == n.at[e.b]
      isNew == n.content[i].id = <<>> /\ Lookup(n.buf, e.b, <<>>) = <<>>
      begun == IF isNew
               THEN EmitOpened([n EXCEPT !.content[i].id =
                                  IF e.head THEN <<e.b>> ELSE <<>>], i)
               ELSE n
  IN IF e.text = <<>> THEN begun
     ELSE Emit(Collect(begun, e.b, e.text), Delta(i, "tool", e.text))

\* The end of the loop: every block ends, the text first, then the thinking,
\* then the calls by index.
Some(i) == IF i = 0 THEN <<>> ELSE <<i>>
Finalize(m) ==
  LET keys == Ascending(DOMAIN m.at)
      calls == [j \in DOMAIN keys |-> m.at[keys[j]]]
  IN EmitAllEnded(ParseCalls(m), Some(m.text) \o Some(m.think) \o calls)

MapStopReason(reason) == IF reason = "refused" THEN "error" ELSE reason

Finish(m) ==
  LET n == Finalize(m) IN
  IF ~m.saw /\ m.finish = "none" THEN Incomplete(n)
  ELSE Conclude([n EXCEPT !.stop = IF m.finish = "none" THEN "stop"
                                   ELSE MapStopReason(m.finish)])

OnDelta(m, e) ==
  CASE e.kind = "text"     -> OnContent(m, e)
    [] e.kind = "thinking" -> OnReasoning(m, e)
    [] e.kind = "tool"     -> OnToolCall(m, e)

HandleChunk(m, e) ==
  CASE e.type = "end"  -> Finish([m EXCEPT !.saw = TRUE])
    [] e.type = "stop" -> [m EXCEPT !.finish = e.kind]
    [] e.type = "frag" -> OnDelta(m, e)
    [] OTHER           -> m

Eof(m) == Finish(m)
===========================================================================
