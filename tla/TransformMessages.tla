------------------------ MODULE TransformMessages ------------------------
(***************************************************************************)
(* The rewriting of a history for another model                            *)
(* (providers/transform_messages.rs).  A model is the api it is served by  *)
(* and whether it reads images; a message that ended in an error or was    *)
(* aborted carries its stop reason.                                        *)
(***************************************************************************)
EXTENDS ProviderRequest

CONSTANT NormalizeToolCallId(_)   \* the caller's: an id as the new model takes it

\* Runs of images become one placeholder, a text.
ReplaceImages(content) ==
  LET Next(acc, part) ==
        IF part = "text" THEN [parts |-> Append(acc.parts, part), after |-> FALSE]
        ELSE [parts |-> IF acc.after THEN acc.parts ELSE Append(acc.parts, "text"),
              after |-> TRUE]
  IN FoldLeft(Next, [parts |-> <<>>, after |-> FALSE], content).parts

Downgrade(message, images) ==
  IF images \/ message.role = "assistant" THEN message
  ELSE [message EXCEPT !.content = ReplaceImages(@)]

\* A block for the model: thinking of another model becomes text, redacted
\* or blank thinking is dropped, signatures of another model are removed.
Rewritten(block, same) ==
  CASE block.kind = "thinking" ->
         IF block.redacted THEN (IF same THEN <<block>> ELSE <<>>)
         ELSE IF same /\ block.sig # <<>> THEN <<block>>
         ELSE IF block.text = <<>> THEN <<>>
         ELSE IF same THEN <<block>>
         ELSE <<[Block("text") EXCEPT !.text = block.text]>>
    [] block.kind = "text" -> <<IF same THEN block
                                ELSE [block EXCEPT !.sig = <<>>]>>
    [] block.kind = "tool" ->
         <<IF same THEN block
           ELSE [block EXCEPT !.sig = <<>>, !.id = NormalizeToolCallId(@)]>>

\* First pass.  A result takes the new id of the call it answers when that
\* call came before it.
RewriteAll(history, api, images) ==
  LET Same(message) == message.api = api
      Renamed(i) ==
        \E j \in 1..(i - 1) :
          /\ history[j].role = "assistant" /\ ~Same(history[j])
          /\ \E k \in DOMAIN history[j].content :
               /\ history[j].content[k].kind = "tool"
               /\ history[j].content[k].id = history[i].id
      Rewrite(i) ==
        LET message == Downgrade(history[i], images) IN
        CASE message.role = "user" -> message
          [] message.role = "result" ->
               IF Renamed(i)
               THEN [message EXCEPT !.id = NormalizeToolCallId(@)]
               ELSE message
          [] message.role = "assistant" ->
               [message EXCEPT !.content = FlattenSeq(
                  [k \in DOMAIN @ |-> Rewritten(@[k], Same(message))])]
  IN [i \in DOMAIN history |-> Rewrite(i)]

\* Second pass: the calls of the last assistant message that no result
\* answered by the next user or assistant message get one that says so.
NoResult(id) == Result(id, <<"text">>)

\* MUTANT: every pending call gets one, answered or not.
FlushAll(state) ==
  IF state.pending = <<>> THEN state
  ELSE [result   |-> state.result
                     \o [i \in DOMAIN state.pending |->
                          NoResult(state.pending[i].id)],
        pending  |-> <<>>,
        answered |-> {}]
Flush(state) ==
  LET orphans == SelectSeq(state.pending, LAMBDA call :
                             call.id \notin state.answered)
  IN IF state.pending = <<>> THEN state
     ELSE [result   |-> state.result
                        \o [i \in DOMAIN orphans |-> NoResult(orphans[i].id)],
           pending  |-> <<>>,
           answered |-> {}]

\* A message that broke off is skipped, its calls with it.
BrokeOff(message) == message.stop \in {"error", "aborted"}

AddMessage(state, message) ==
  CASE message.role = "assistant" ->
         LET flushed == Flush(state)
             calls == Calls(message.content)
         IN IF BrokeOff(message) THEN flushed
            ELSE [result   |-> Append(flushed.result, message),
                  pending  |-> calls,
                  answered |-> IF calls = <<>> THEN flushed.answered ELSE {}]
    [] message.role = "result" ->
         [state EXCEPT !.result = Append(@, message),
                       !.answered = @ \cup {message.id}]
    [] message.role = "user" ->
         [Flush(state) EXCEPT !.result = Append(@, message)]

Transform(history, api, images) ==
  Flush(FoldLeft(AddMessage,
                 [result |-> <<>>, pending |-> <<>>, answered |-> {}],
                 RewriteAll(history, api, images))).result
==========================================================================
