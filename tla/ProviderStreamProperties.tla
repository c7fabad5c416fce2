--------------------- MODULE ProviderStreamProperties ---------------------
(***************************************************************************)
(* What a provider owes the caller of stream().                            *)
(***************************************************************************)
EXTENDS ProviderStream

----------------------------------------------------------------------------
\* Every event is one the protocol of AssistantMessageEvent (types.rs:592)
\* allows where it comes: Start first, a block's deltas and End between its
\* own Start and End, no block ended or filled twice, one terminal event and
\* nothing after it.
ProtocolRespected == view.lawful

\* A call of Gemini without an id has one the provider made up.
Unnamed(id) == IF id # <<>> /\ Head(id) < 0 THEN <<>> ELSE id
Delivered(content) ==
  [i \in DOMAIN content |-> [content[i] EXCEPT !.id = Unnamed(@)]]

\* Responses may announce its blocks in another order than it began them.
SameBlocks(said, content) ==
  IF d = "responses" THEN Len(said) = Len(content)
                          /\ Range(said) = Range(content)
  ELSE said = content

RightReason(reason) ==
  CASE reply.stop = "none" -> reason = "stop"
    [] d = "google" /\ reply.stop = "stop" ->
         reason = IF HasTool(reply) THEN "tool_use" ELSE "stop"
    [] OTHER -> reason = reply.stop /\ reason # "refused"

\* A Done stands for a reply that the vendor ended, and has every block of it
\* with all its fragments in order, its signature and its id, whatever way
\* the events were cut and interleaved; calls of one message have ids of
\* their own.
DoneIsFaithful ==
  (view.phase = "done" /\ provider # "faux") =>
    LET content == view.last.content
        calls == {i \in DOMAIN content : content[i].kind = "tool"}
    IN /\ reply.complete
       /\ SameBlocks(Said(d, reply), Delivered(content))
       /\ RightReason(view.reason) /\ view.last.stop = view.reason
       /\ \A i, j \in calls : content[i].id = content[j].id => i = j

\* What the message has of a block and no Delta tells: the text a Responses
\* part was announced with (openai_responses.rs:705), until its End.
Untold(i) ==
  {reply.blocks[b].first : b \in {b \in DOMAIN machine.at :
                                   d = "responses" /\ machine.at[b] = i}}

\* A consumer that only reads the deltas and Ends has, while the reply
\* streams, the text of every block so far but for what is Untold, and at the
\* end the message itself: no block left open, none missing.  While it
\* streams, the message has less of a Responses summary than was sent: each
\* finished part replaces what it held (openai_responses.rs:900).
ConsumerFollows ==
  /\ (stage = "streaming" /\ ~dropped) =>
       \A i \in DOMAIN view.blocks :
         LET block == machine.content[i]
             seen == view.blocks[i]
         IN
         /\ i \in DOMAIN machine.content /\ block.kind = seen.kind
         /\ (block.kind # "tool" /\ ~(d = "responses" /\ block.kind = "thinking"))
              => \/ seen.text = block.text
                 \/ seen.live /\ \E first \in Untold(i) : block.text = first \o seen.text
                 \/ block.redacted
  /\ view.phase = "done" =>
       /\ DOMAIN view.blocks = DOMAIN view.last.content
       /\ \A i \in DOMAIN view.blocks :
            /\ ~view.blocks[i].live
            /\ view.blocks[i].text = view.last.content[i].text

\* A task that is over has told its consumer so, however it ended: a stream
\* without a terminal event leaves result() waiting or returning None
\* (event_stream.rs:89).
NoSilentEnd ==
  (stage = "over" /\ ~dropped) => view.phase \in {"done", "error"}

\* Once the caller has cancelled its token, a stream that has begun tells it
\* nothing any more but that it was aborted (abort.rs:99).
AbortIsAnswered ==
  [][(stage = "streaming" /\ token) =>
       view' = view \/ view'.reason = "aborted"]_vars

\* A cancelled stream ends without the vendor's help: a connection that went
\* quiet, in the setup or in the reply, does not hold it.
AbortReturns == token ~> stage = "over"
===========================================================================
