------------------------ MODULE AnthropicMessages ------------------------
(***************************************************************************)
(* The Anthropic Messages provider (providers/anthropic.rs).  The vendor's *)
(* block index is the content index.  buf holds the argument fragments by  *)
(* index; message_delta leaves the stop reason in the message.             *)
(***************************************************************************)
EXTENDS ProviderMachine

RedactedText == <<"redacted">>

\* Missing blocks before i become empty texts; the block at i is replaced.
EnsureBlock(m, i, block) ==
  LET len == IF i > Len(m.content) THEN i ELSE Len(m.content) IN
  [m EXCEPT !.content =
     [j \in 1..len |-> IF j = i THEN block
                       ELSE IF j \in DOMAIN @ THEN @[j] ELSE Block("text")]]

OnContentBlockStart(m, e) ==
  LET block ==
        CASE e.kind = "tool"     -> ToolBlock(<<e.b>>)
          [] e.kind = "redacted" -> [Block("thinking") EXCEPT
                                       !.text = RedactedText, !.sig = e.sig,
                                       !.redacted = TRUE]
          [] OTHER               -> Block(e.kind)
  IN EmitOpened(EnsureBlock(m, e.b, block), e.b)

OnContentBlockDelta(m, e) ==
  LET n == IF e.kind = "tool" THEN Collect(m, e.b, e.text)
           ELSE Extend(m, e.b, e.kind, e.text)
  IN Emit(n, Delta(e.b, e.kind, e.text))

OnSignatureDelta(m, e) ==
  IF Is(m, e.b, "thinking") THEN [m EXCEPT !.content[e.b].sig = @ \o e.sig]
  ELSE m

OnContentBlockStop(m, e) ==
  LET n == Parse(m, e.b, Lookup(m.buf, e.b, <<>>))
  IN IF e.b \in DOMAIN n.content THEN EmitEnded(n, e.b) ELSE n

MapStopReason(reason) == IF reason = "refused" THEN "error" ELSE reason

HandleSse(m, e) ==
  CASE e.type = "open"  -> OnContentBlockStart(m, e)
    [] e.type = "frag"  -> OnContentBlockDelta(m, e)
    [] e.type = "sign"  -> OnSignatureDelta(m, e)
    [] e.type = "close" -> OnContentBlockStop(m, e)
    [] e.type = "stop"  -> [m EXCEPT !.stop = MapStopReason(e.kind)]
    [] e.type = "end"   -> Conclude(m)
    [] e.type = "fail"  -> Incomplete(m)
    [] OTHER            -> m

\* The connection ended before message_stop or an error.
Eof(m) == Incomplete(m)
===========================================================================
