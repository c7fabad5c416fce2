----------------------------- MODULE Mistral -----------------------------
(***************************************************************************)
(* The Mistral provider (providers/mistral.rs).  open is                   *)
(* open_content_index; at and buf are tool_call_positions and              *)
(* tool_arg_buffers, by the call's index.  A chunk that carries several    *)
(* fields is handled as the same fields one by one.                        *)
(***************************************************************************)
EXTENDS ProviderMachine

\* An id with the nine characters Mistral asks for is kept, here that of one
\* part a vendor gave.  Any other is replaced by a hash, here without
\* collisions.
NormalizeToolCallId(id) ==
  IF Len(id) = 1 /\ Head(id) > 0 THEN id
  ELSE <<1000 + 100 * Head(id) + id[Len(id)]>>

FinishContentBlock(m) ==
  IF m.open = 0 THEN m ELSE EmitEnded([m EXCEPT !.open = 0], m.open)

\* Running text of another kind ends and a new block begins.
AppendContentDelta(m, e) ==
  IF e.text = <<>> THEN m
  ELSE LET same == m.open # 0 /\ Is(m, m.open, e.kind)
           closed == FinishContentBlock(m)
           i == NextIndex(m)
           n == IF same THEN m
                ELSE EmitOpened([Add(closed, Block(e.kind)) EXCEPT !.open = i],
                                i)
       IN Emit(Extend(n, n.open, e.kind, e.text),
               Delta(n.open, e.kind, e.text))

OnToolCall(m, e) ==
  LET closed == FinishContentBlock(m)
      i == NextIndex(m)
      id == IF e.head THEN <<e.b>> ELSE <<>>
      n == IF Known(m.at, e.b) THEN closed
           ELSE EmitOpened([Add(closed, ToolBlock(NormalizeToolCallId(id)))
                              EXCEPT !.at = Put(@, e.b, i)], i)
  IN IF e.text = <<>> THEN n
     ELSE Emit(Collect(n, e.b, e.text), Delta(n.at[e.b], "tool", e.text))

\* All arguments are parsed before the calls end, in the message's order.
\* MUTANT: the text still open at the end is not ended.
FinalizeCalls(m) == EmitAllEnded(ParseCalls(m), Ascending(Range(m.at)))
Finalize(m) ==
  EmitAllEnded(ParseCalls(FinishContentBlock(m)), Ascending(Range(m.at)))

StopReason(m) ==
  CASE m.finish \in {"stop", "length", "tool_use"} -> m.finish
    [] m.finish = "none" /\ m.saw -> "stop"
    [] OTHER -> "error"

Finish(m) ==
  LET n == Finalize(m) IN
  IF ~m.saw /\ m.finish = "none" THEN Incomplete(n)
  ELSE Conclude([n EXCEPT !.stop = StopReason(m)])

HandleChunk(m, e) ==
  CASE e.type = "end"  -> Finish([m EXCEPT !.saw = TRUE])
    [] e.type = "stop" -> [m EXCEPT !.finish = e.kind]
    [] e.type = "frag" -> IF e.kind = "tool" THEN OnToolCall(m, e)
                          ELSE AppendContentDelta(m, e)
    [] OTHER           -> m

Eof(m) == Finish(m)
===========================================================================
