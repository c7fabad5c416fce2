-------------------------- MODULE AmazonBedrock --------------------------
(***************************************************************************)
(* The Bedrock Converse provider (providers/amazon_bedrock.rs).  at is     *)
(* index_map, from contentBlockIndex to the content index, and buf         *)
(* tool_args by contentBlockIndex.                                         *)
(***************************************************************************)
EXTENDS ProviderMachine

OnContentBlockStart(m, e) ==
  IF e.kind # "tool" THEN m
  ELSE LET i == NextIndex(m) IN
       EmitOpened([Add(m, ToolBlock(<<e.b>>)) EXCEPT !.at = Put(@, e.b, i),
                                                  !.buf = Put(@, e.b, <<>>)],
                  i)

AddAt(m, e) == [Add(m, Block(e.kind)) EXCEPT !.at = Put(@, e.b, NextIndex(m))]

\* The block is announced as long as it is empty.
OnTextDelta(m, e) ==
  LET n == IF Known(m.at, e.b) THEN m ELSE AddAt(m, e)
      i == n.at[e.b]
      first == Is(n, i, "text") /\ n.content[i].text = <<>>
  IN Emit(Extend(IF first THEN EmitOpened(n, i) ELSE n, i, "text", e.text),
          Delta(i, "text", e.text))

\* A delta has a text or a signature.
OnReasoning(m, e) ==
  LET n == IF Known(m.at, e.b) THEN m
           ELSE LET a == AddAt(m, e) IN EmitOpened(a, a.at[e.b])
      i == n.at[e.b]
  IN IF e.type = "sign"
     THEN IF Is(n, i, "thinking") THEN [n EXCEPT !.content[i].sig = @ \o e.sig]
          ELSE n
     ELSE Emit(Extend(n, i, "thinking", e.text),
               Delta(i, "thinking", e.text))

OnToolInput(m, e) ==
  IF ~Known(m.at, e.b) THEN m
  ELSE Emit(Collect(m, e.b, e.text), Delta(m.at[e.b], "tool", e.text))

OnContentBlockDelta(m, e) ==
  CASE e.kind = "text"     -> OnTextDelta(m, e)
    [] e.kind = "thinking" -> OnReasoning(m, e)
    [] e.kind = "tool"     -> OnToolInput(m, e)

OnContentBlockStop(m, e) ==
  IF ~Known(m.at, e.b) THEN m
  ELSE LET i == m.at[e.b] IN
       EmitEnded(Parse(m, i, Lookup(m.buf, e.b, <<>>)), i)

MapStopReason(reason) ==
  IF reason \in {"stop", "length", "tool_use"} THEN reason ELSE "error"

HandleFrame(m, e) ==
  CASE e.type = "open"  -> OnContentBlockStart(m, e)
    [] e.type = "frag"  -> OnContentBlockDelta(m, e)
    [] e.type = "sign"  -> OnReasoning(m, e)
    [] e.type = "close" -> OnContentBlockStop(m, e)
    [] e.type = "stop"  -> [m EXCEPT !.saw = TRUE,
                                     !.stop = MapStopReason(e.kind)]
    [] e.type = "fail"  -> Incomplete(m)
    [] OTHER            -> m

Eof(m) == IF m.saw THEN Conclude(m) ELSE Incomplete(m)
===========================================================================
