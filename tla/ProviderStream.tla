-------------------------- MODULE ProviderStream --------------------------
(***************************************************************************)
(* One call of stream() on one provider: the task it spawns goes through   *)
(* the setup of the request, reads the vendor's reply event by event and   *)
(* pushes what it makes of it, while the caller may cancel the token it    *)
(* passed or drop the stream it was given.                                 *)
(*                                                                         *)
(* A loop looks whether its consumer is gone before it waits for the next  *)
(* event: a task whose stream was dropped handles one event more.          *)
(***************************************************************************)
EXTENDS ProviderWire

CONSTANT Providers      \* the providers a run streams from

Anthropic   == INSTANCE AnthropicMessages
Completions == INSTANCE OpenaiCompletions
Responses   == INSTANCE OpenaiResponses
MistralApi  == INSTANCE Mistral
Gemini      == INSTANCE Google
Bedrock     == INSTANCE AmazonBedrock
Double      == INSTANCE Faux

\* The vendor protocol a provider reads.
Dialect(p) ==
  CASE p \in {"azure", "codex"} -> "responses"
    [] p = "vertex"             -> "google"
    [] OTHER                    -> p

ASSUME ProviderAssumption == {Dialect(p) : p \in Providers \ {"faux"}} = Dialects

----------------------------------------------------------------------------
\* The setup of run(), up to the response: what may fail, in order.  An
\* awaiting step also ends when the caller's token is cancelled.
Step(name, fails) == [name |-> name, fails |-> fails, awaits |-> FALSE]
Awaiting(name) == [name |-> name, fails |-> TRUE, awaits |-> TRUE]

\* run, until the response is there.
AnthropicSetup ==
  <<Step("key", TRUE), Step("body", FALSE), Step("client", TRUE),
    Step("base", TRUE), Step("headers", TRUE), Awaiting("send"),
    Awaiting("status")>>

CompletionsSetup ==
  <<Step("key", TRUE), Step("client", TRUE), Step("base", TRUE),
    Step("headers", TRUE), Awaiting("send"), Awaiting("status")>>

ResponsesSetup ==
  <<Step("key", TRUE), Step("body", FALSE), Step("client", TRUE),
    Step("base", TRUE), Step("headers", TRUE), Awaiting("send"),
    Awaiting("status")>>

AzureSetup ==
  <<Step("key", TRUE), Step("body", FALSE), Step("client", TRUE),
    Step("headers", TRUE), Awaiting("send"), Awaiting("status")>>

\* An empty token is none.
CodexSetup ==
  <<Step("key", TRUE), Step("client", TRUE), Step("headers", TRUE),
    Awaiting("send"), Awaiting("status")>>

MistralSetup ==
  <<Step("key", TRUE), Step("client", TRUE), Step("headers", TRUE),
    Awaiting("send"), Awaiting("status")>>

GeminiSetup ==
  <<Step("key", TRUE), Step("client", TRUE), Step("headers", TRUE),
    Awaiting("send"), Awaiting("status")>>

\* Where the token comes from: the caller or the environment, or the service
\* account, whose credentials are loaded and exchanged for a token; and where
\* the project does: the environment, the same account, or the account
\* loaded for it.
VertexSetup(explicitToken, explicitProject) ==
  (IF explicitToken THEN <<>>
   ELSE <<Step("account", TRUE), Awaiting("exchange")>>)
  \o (IF explicitProject THEN <<>> ELSE <<Step("project", TRUE)>>)
  \o <<Step("client", TRUE), Step("headers", TRUE), Awaiting("send"),
       Awaiting("status")>>

\* The request is signed, or carries a token, before it is sent.
BedrockSetup ==
  <<Step("credentials", TRUE), Step("body", FALSE), Step("client", TRUE),
    Step("url", TRUE), Step("headers", TRUE), Step("authorization", TRUE),
    Awaiting("send"), Awaiting("status")>>

Setups(p) ==
  CASE p = "anthropic"   -> {AnthropicSetup}
    [] p = "completions" -> {CompletionsSetup}
    [] p = "responses"   -> {ResponsesSetup}
    [] p = "azure"       -> {AzureSetup}
    [] p = "codex"       -> {CodexSetup}
    [] p = "mistral"     -> {MistralSetup}
    [] p = "google"      -> {GeminiSetup}
    [] p = "vertex"      -> {VertexSetup(t, q) : t, q \in BOOLEAN}
    [] p = "bedrock"     -> {BedrockSetup}
    [] p = "faux"        -> {<<>>}

\* What the loop of a dialect makes of an event that is not an error of the
\* transport, and of the end of the connection.
Handle(d, m, e) ==
  CASE d = "anthropic"   -> Anthropic!HandleSse(m, e)
    [] d = "completions" -> Completions!HandleChunk(m, e)
    [] d = "responses"   -> Responses!HandleEvent(m, e)
    [] d = "mistral"     -> MistralApi!HandleChunk(m, e)
    [] d = "google"      -> Gemini!HandleChunk(m, e)
    [] d = "bedrock"     -> Bedrock!HandleFrame(m, e)

Eof(d, m) ==
  CASE d = "anthropic"   -> Anthropic!Eof(m)
    [] d = "completions" -> Completions!Eof(m)
    [] d = "responses"   -> Responses!Eof(m)
    [] d = "mistral"     -> MistralApi!Eof(m)
    [] d = "google"      -> Gemini!Eof(m)
    [] d = "bedrock"     -> Bedrock!Eof(m)

VARIABLES
  provider,   \* whose stream() was called
  setup,      \* the steps of its setup still to be taken
  stage,      \* of its task: "setup", "streaming" or "over"
  machine,    \* the local variables of its loop
  reply,      \* what the vendor has sent
  token,      \* was the caller's token cancelled?
  dropped,    \* did the consumer drop the stream?
  view        \* what the consumer knows

vars == <<provider, setup, stage, machine, reply, token, dropped, view>>

d == Dialect(provider)

TypeOK ==
  /\ provider \in Providers
  /\ stage \in {"setup", "streaming", "over"}
  /\ (stage = "setup" /\ provider # "faux") => setup # <<>>
  /\ (stage = "streaming" /\ ~dropped) => view.phase = "open"
  /\ stage # "streaming" => machine = Machine
  /\ token \in BOOLEAN /\ dropped \in BOOLEAN
  /\ Len(reply.blocks) <= MaxBlocks
  /\ \A b \in DOMAIN reply.blocks : Len(reply.blocks[b].sent) <= MaxFragments
  /\ \A i \in DOMAIN machine.content : machine.content[i].kind \in Kinds
  /\ machine.out = <<>>
  /\ view.phase \in {"quiet", "open", "done", "error"}

Init ==
  /\ provider \in Providers
  /\ setup \in Setups(provider)
  /\ stage = "setup"
  /\ machine = Machine /\ reply = Reply /\ view = Unseen
  /\ token = FALSE /\ dropped = FALSE

\* The events pushed reach the consumer, unless it is gone.
Push(events) == view' = IF dropped THEN view ELSE ConsumeAll(view, events)

\* The task ends with this event.
EndWith(e) ==
  /\ stage' = "over"
  /\ Push(<<e>>)
  /\ machine' = Machine       \* its variables are gone

----------------------------------------------------------------------------
\* A cancelled token ends a step that awaits; a response is there already
\* when its status is looked at.
\* MUTANT: the service account's token is exchanged without a look at the
\* caller's.
InterruptedOnlyByResponse ==
  token /\ setup # <<>> /\ Head(setup).awaits /\ Head(setup).name # "exchange"
Interrupted == token /\ setup # <<>> /\ Head(setup).awaits

\* MUTANT: the loop begins without a Start.
StepDoneSilently ==
  /\ stage = "setup" /\ setup # <<>>
  /\ Interrupted => Head(setup).name = "status"
  /\ setup' = Tail(setup)
  /\ stage' = IF Len(setup) > 1 THEN stage ELSE "streaming"
  /\ UNCHANGED <<provider, machine, reply, token, dropped, view>>
StepDone ==
  /\ stage = "setup" /\ setup # <<>>
  /\ Interrupted => Head(setup).name = "status"
  /\ setup' = Tail(setup)
  /\ IF Len(setup) > 1
     THEN UNCHANGED <<stage, view>>
     ELSE stage' = "streaming" /\ Push(<<Started>>)
  /\ UNCHANGED <<provider, machine, reply, token, dropped>>

StepFailed ==
  /\ stage = "setup" /\ setup # <<>>
  /\ Head(setup).fails /\ ~Interrupted
  /\ EndWith(PushError)
  /\ UNCHANGED <<provider, setup, reply, token, dropped>>

\* MUTANT: the task returns when it is cancelled, and says nothing.
StepAbortedSilently ==
  /\ stage = "setup" /\ Interrupted
  /\ stage' = "over"
  /\ UNCHANGED <<provider, setup, machine, reply, token, dropped, view>>
StepAborted ==
  /\ stage = "setup" /\ Interrupted
  /\ EndWith(PushAborted)
  /\ UNCHANGED <<provider, setup, reply, token, dropped>>

----------------------------------------------------------------------------
\* The loop's variables after an event, and after it the events it pushed.
After(e) ==
  CASE e.type = "broken" -> Finished(machine, PushError)
    [] e.type = "eof"    -> Eof(d, machine)
    [] OTHER             -> Handle(d, machine, e)

\* A cancelled token is looked at before the connection is.
Receive ==
  /\ stage = "streaming" /\ ~token
  /\ \E move \in Moves(d, reply) :
       LET next == After(move.event) IN
       /\ reply' = move.reply
       /\ Push(next.out)
       /\ IF next.over \/ dropped
          THEN stage' = "over" /\ machine' = Machine
          ELSE stage' = stage /\ machine' = [next EXCEPT !.out = <<>>]
  /\ UNCHANGED <<provider, setup, token, dropped>>

\* MUTANT: a cancelled loop breaks off, as at the end of the connection.
AbortedAsEof ==
  /\ stage = "streaming" /\ token
  /\ stage' = "over" /\ machine' = Machine
  /\ Push(Eof(d, machine).out)
  /\ UNCHANGED <<provider, setup, reply, token, dropped>>
Aborted ==
  /\ stage = "streaming" /\ token
  /\ EndWith(PushAborted)
  /\ UNCHANGED <<provider, setup, reply, token, dropped>>

\* The double replays a message of the queue, at once, from the blocks a test
\* builds it of.
FauxMessages ==
  LET said(i, kind) == [Block(kind) EXCEPT
                          !.text = <<kind>>,
                          !.id = IF kind = "tool" THEN <<i>> ELSE <<>>]
      contents == {<<>>} \cup {<<said(1, k)>> : k \in Kinds}
                  \cup {<<said(1, k), said(2, l)>> : k, l \in Kinds}
  IN {Message(c, s) : c \in contents,
                      s \in {"stop", "length", "tool_use", "error", "aborted"}}

Replay ==
  /\ stage = "setup" /\ provider = "faux"
  /\ \E queue \in {<<>>} \cup {<<message>> : message \in FauxMessages} :
       view' = ConsumeAll(view, Double!Replay(Double!PopFront(queue)).out)
  /\ stage' = "over"
  /\ UNCHANGED <<provider, setup, machine, reply, token, dropped>>

----------------------------------------------------------------------------
\* The caller.
Abort ==
  /\ stage # "over" /\ ~token
  /\ token' = TRUE
  /\ UNCHANGED <<provider, setup, stage, machine, reply, dropped, view>>

Drop ==
  /\ stage # "over" /\ ~dropped
  /\ dropped' = TRUE
  /\ UNCHANGED <<provider, setup, stage, machine, reply, token, view>>

Next == \/ StepDone \/ StepFailed \/ StepAborted
        \/ Receive \/ Aborted \/ Replay
        \/ Abort \/ Drop

\* The task is scheduled; neither the vendor nor the caller need do anything:
\* what awaits them goes on only where the token interrupts it.
Scheduled ==
  \/ /\ setup # <<>> /\ (Head(setup).awaits => Interrupted)
     /\ StepDone \/ StepFailed
  \/ StepAborted \/ Aborted \/ Replay
Fairness == WF_vars(Scheduled)

Spec == Init /\ [][Next]_vars /\ Fairness
===========================================================================
