------------------------------ MODULE Google ------------------------------
(***************************************************************************)
(* The Gemini provider (providers/google.rs, google_shared.rs), whose      *)
(* stream and message conversion the Vertex provider shares.  open is the  *)
(* index of the open block, the last one of the message (the code keeps    *)
(* its kind), think the tool_counter.  A chunk of several parts is handled *)
(* as the same parts one by one.                                           *)
(***************************************************************************)
EXTENDS ProviderMachine

CloseOpenBlock(m) ==
  IF m.open = 0 THEN m ELSE EmitEnded([m EXCEPT !.open = 0], m.open)

RetainThoughtSignature(existing, incoming) ==
  IF incoming # <<>> THEN incoming ELSE existing

\* A part of another kind, with another signature, or after the first part
\* of its chunk, is a block of its own.
\* MUTANT: parts of one chunk are not told apart.
StartsBlockByKind(m, e) ==
  \/ m.open = 0
  \/ ~Is(m, m.open, e.kind)
  \/ e.sig # <<>> /\ m.content[m.open].sig # e.sig
StartsBlock(m, e) ==
  \/ m.open = 0
  \/ ~Is(m, m.open, e.kind)
  \/ e.sig # <<>> /\ m.content[m.open].sig # e.sig
  \/ e.head

OnText(m, e) ==
  LET i == NextIndex(m)
      n == IF StartsBlock(m, e)
           THEN EmitOpened([Add(CloseOpenBlock(m), Block(e.kind))
                              EXCEPT !.open = i], i)
           ELSE m
      signed == [n EXCEPT !.content[n.open].sig =
                            RetainThoughtSignature(@, e.sig)]
  IN Emit(Extend(signed, n.open, e.kind, e.text),
          Delta(n.open, e.kind, e.text))

\* A call comes whole; one without an id gets one from its name, the time
\* and the counter.
GeneratedId(counter) == <<-counter>>
OnFunctionCall(m, e) ==
  LET closed == CloseOpenBlock(m)
      i == NextIndex(m)
      count == IF e.head THEN m.think ELSE m.think + 1
      call == [ToolBlock(IF e.head THEN <<e.b>> ELSE GeneratedId(count))
                 EXCEPT !.text = e.text, !.sig = e.sig]
      n == EmitOpened([Add(closed, call) EXCEPT !.think = count], i)
  IN EmitEnded(Emit(n, Delta(i, "tool", e.text)), i)

\* STOP stands for ToolUse when the message has a call.
MapStopReason(m, reason) ==
  CASE reason = "stop"   -> IF \E i \in DOMAIN m.content : Is(m, i, "tool")
                            THEN "tool_use" ELSE "stop"
    [] reason = "length" -> "length"
    [] OTHER             -> "error"

Finish(m) ==
  LET n == CloseOpenBlock(m) IN IF m.saw THEN Conclude(n) ELSE Incomplete(n)

HandleChunk(m, e) ==
  CASE e.type = "frag" -> IF e.kind = "tool" THEN OnFunctionCall(m, e)
                          ELSE OnText(m, e)
    [] e.type = "stop" -> [m EXCEPT !.saw = TRUE,
                                    !.stop = MapStopReason(m, e.kind)]
    [] OTHER           -> m

Eof(m) == Finish(m)
===========================================================================
