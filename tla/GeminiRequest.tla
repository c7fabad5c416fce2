-------------------------- MODULE GeminiRequest ---------------------------
(***************************************************************************)
(* The request of the Gemini provider (providers/google.rs,                *)
(* google_shared.rs) and of the Vertex provider (google_vertex.rs).          *)
(***************************************************************************)
EXTENDS ProviderRequest, Google

\* Gemini pairs results with calls by the tool's name, for which the call's
\* id stands here: each call is of a tool of its own.
ModelPart(block) ==
  [Part(IF block.kind = "tool" THEN "call" ELSE block.kind)
     EXCEPT !.id = block.id, !.text = block.text, !.sig = block.sig]

IsResponse(part) == part.type = "result"
\* MUTANT: results are looked for under another role.
HasToolResponse(turn) ==
  turn.role = "tool" /\ SelectSeq(turn.parts, IsResponse) # <<>>
HasResponse(turn) == turn.role = "user" /\ SelectSeq(turn.parts, IsResponse) # <<>>

\* Messages without a part are left out; consecutive results are grouped.
ConvertMessages(history) ==
  LET AddTurn(turns, turn) ==
        IF turn.parts = <<>> THEN turns ELSE Append(turns, turn)
      Next(turns, message) ==
        CASE message.role = "user" ->
               AddTurn(turns, Turn("user", UserParts(message.content)))
          [] message.role = "assistant" ->
               AddTurn(turns, Turn("model",
                 [j \in DOMAIN message.content |->
                    ModelPart(message.content[j])]))
          [] message.role = "result" ->
               IF turns # <<>> /\ HasResponse(turns[Len(turns)])
               THEN [turns EXCEPT ![Len(turns)].parts =
                       Append(@, ResultPart(message.id))]
               ELSE Append(turns, Turn("user", <<ResultPart(message.id)>>))
  IN FoldLeft(Next, <<>>, history)

BuildRequestBody(history, tuned) ==
  [turns |-> ConvertMessages(history),
   limit |-> tuned.limit, temperature |-> tuned.temperature,
   thinking |-> tuned.thinking]

\* translate_simple: one default for every level.
Simple(ask) ==
  {Translated(ask, IF ask.level = 0 THEN Unasked
                   ELSE Thinking("budget", Budget(ask, 8192)))}

----------------------------------------------------------------------------
\* Vertex makes the same request.
VertexBuildRequestBody(history, tuned) == BuildRequestBody(history, tuned)
VertexSimple(ask) == Simple(ask)
============================================================================
