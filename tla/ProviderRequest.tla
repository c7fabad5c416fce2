------------------------- MODULE ProviderRequest -------------------------
(***************************************************************************)
(* What a provider is asked to send (crates/ai/src/types.rs): the messages *)
(* of a conversation, and the form all vendors' requests have in common,   *)
(* messages with a role and a sequence of parts.  A dialect's Convert maps *)
(* the one to the other.                                                   *)
(*                                                                         *)
(* The content of a user message or a tool result is a sequence over       *)
(* {"text", "image"}.  Options are a set of names: what the model or the   *)
(* caller asks of the form of the messages.                                *)
(***************************************************************************)
EXTENDS ProviderMachine, SequencesExt

User(content) ==
  [role |-> "user", content |-> content, id |-> <<>>, api |-> "none",
   stop |-> "none"]
Assistant(api, message) ==
  [role |-> "assistant", content |-> message.content, id |-> <<>>,
   api |-> api, stop |-> message.stop]
Result(id, content) ==
  [role |-> "result", content |-> content, id |-> id, api |-> "none",
   stop |-> "none"]

IsCall(block) == block.kind = "tool"
Calls(content) == SelectSeq(content, IsCall)

\* A message of the request and its parts: the text or arguments of a part,
\* the call it makes or answers, its signature, its cache_control mark.
Turn(role, parts) == [role |-> role, parts |-> parts]
Part(type) ==
  [type |-> type, id |-> <<>>, text |-> <<>>, sig |-> <<>>, cached |-> FALSE]
TextPart(text) == [Part("text") EXCEPT !.text = text]
CallPart(block) ==
  [Part("call") EXCEPT !.id = block.id, !.text = block.text]
ResultPart(id) == [Part("result") EXCEPT !.id = id]

\* user_block_to_value, in every dialect: text and images as they stand.
UserParts(content) == [i \in DOMAIN content |-> Part(content[i])]

OnlyText(content) == \A i \in DOMAIN content : content[i] = "text"

\* Texts joined with a newline: one part, or none when all are empty.
Joined(texts) ==
  LET text == FlattenSeq(texts) IN
  IF text = <<>> THEN <<>> ELSE <<TextPart(text)>>

----------------------------------------------------------------------------
\* stream_simple is asked for a level of thinking, 0 for None or the rank of
\* Minimal, Low, Medium, High and Xhigh; with the budgets the caller sets by
\* level, and the options that stay as they are.  It translates the level to
\* the vendor's terms and calls stream, which spawns the task.  An effort has
\* the rank of the level it is called after.
Levels == 1..5
Unset == -1
Thinking(how, amount) == [how |-> how, amount |-> amount]
Unasked == Thinking("none", Unset)
Translated(ask, thinking) ==
  [limit |-> ask.limit, temperature |-> ask.temperature, thinking |-> thinking]
AsEffort(ask, effort) ==
  Translated(ask, IF ask.level = 0 THEN Unasked ELSE Thinking("effort", effort))

\* budget_for: Xhigh has the budget of High.
Budget(ask, default) ==
  LET set == ask.budgets[Min({ask.level, 4})] IN
  IF set = Unset THEN default ELSE set
==========================================================================
