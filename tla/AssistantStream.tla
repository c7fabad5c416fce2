------------------------- MODULE AssistantStream -------------------------
(***************************************************************************)
(* The event stream between a provider and its consumer                    *)
(* (crates/ai/src/types.rs, utils/event_stream.rs): the events, the        *)
(* assistant message a provider accumulates while it sends them, and what  *)
(* a consumer that only reads the events knows at each point.              *)
(*                                                                         *)
(* A fragment of text, or of a tool call's JSON arguments, is a value; a   *)
(* text is the sequence of its fragments.  Content indices start at 1.     *)
(***************************************************************************)
EXTENDS Integers, Sequences

Kinds == {"text", "thinking", "tool"}

\* A block of the message.  id is the tool call's, a sequence of the parts it
\* is joined from; sig the signature of a thinking or text block or of a
\* tool call; each <<>> when there is none.
Block(kind) ==
  [kind |-> kind, id |-> <<>>, text |-> <<>>, sig |-> <<>>, redacted |-> FALSE]

ToolBlock(id) == [Block("tool") EXCEPT !.id = id]

NoMessage == [content |-> <<>>, stop |-> "stop"]
Message(content, stop) == [content |-> content, stop |-> stop]

Started == [type |-> "start"]
Opened(i, kind) == [type |-> "open", at |-> i, kind |-> kind]
Delta(i, kind, text) ==
  [type |-> "delta", at |-> i, kind |-> kind, text |-> text]
Ended(i, block) ==
  [type |-> "end", at |-> i, kind |-> block.kind, text |-> block.text]
Done(reason, message) ==
  [type |-> "done", reason |-> reason, message |-> message]
Failed(reason, message) ==
  [type |-> "error", reason |-> reason, message |-> message]

IsTerminal(e) == e.type \in {"done", "error"}

\* push_error and push_aborted: a terminal event with a message of its own,
\* empty of what was streamed before.
PushError == Failed("error", Message(<<>>, "error"))
PushAborted == Failed("aborted", Message(<<>>, "aborted"))

\* The reason a Done carries for the message's stop reason: every provider
\* has this match, with Stop for what is left.
DoneReason(stop) == IF stop \in {"length", "tool_use"} THEN stop ELSE "stop"

----------------------------------------------------------------------------
\* What the events told the consumer: the phase of the stream, the blocks
\* announced so far by content index, the terminal event, and whether every
\* event was one that a consumer of the protocol expects.
Unseen == [phase |-> "quiet", blocks |-> <<>>, last |-> NoMessage,
           reason |-> "none", lawful |-> TRUE]

Announced(v, e) ==
  e.at \in DOMAIN v.blocks /\ v.blocks[e.at].kind = e.kind

\* A block that is announced again has nothing in it yet.
Expected(v, e) ==
  CASE e.type = "start" -> v.phase = "quiet"
    [] e.type = "open"  -> /\ v.phase = "open"
                           /\ e.at \in DOMAIN v.blocks =>
                                /\ Announced(v, e)
                                /\ v.blocks[e.at].text = <<>>
                                /\ v.blocks[e.at].live
    [] e.type \in {"delta", "end"} -> /\ v.phase = "open"
                                      /\ Announced(v, e)
                                      /\ v.blocks[e.at].live
    [] e.type = "done"  -> v.phase = "open"
    [] e.type = "error" -> v.phase \in {"quiet", "open"}

Put(blocks, i, b) ==
  [j \in DOMAIN blocks \cup {i} |-> IF j = i THEN b ELSE blocks[j]]

\* The consumer's next knowledge; an unexpected event changes nothing else.
Learn(v, e) ==
  CASE e.type = "start" -> [v EXCEPT !.phase = "open"]
    [] e.type = "open"  ->
         [v EXCEPT !.blocks = Put(@, e.at,
            [kind |-> e.kind, text |-> <<>>, live |-> TRUE])]
    [] e.type = "delta" ->
         [v EXCEPT !.blocks[e.at].text = @ \o e.text]
    [] e.type = "end"   ->
         [v EXCEPT !.blocks[e.at] =
            [kind |-> e.kind, text |-> e.text, live |-> FALSE]]
    [] OTHER ->
         [v EXCEPT !.phase = e.type, !.last = e.message, !.reason = e.reason]
Consume(v, e) ==
  IF Expected(v, e) THEN Learn(v, e) ELSE [v EXCEPT !.lawful = FALSE]

\* What it knows after each of these events.
ConsumeAll(v, events) ==
  LET known[n \in 0..Len(events)] ==
        IF n = 0 THEN v ELSE Consume(known[n - 1], events[n])
  IN known[Len(events)]
==========================================================================
