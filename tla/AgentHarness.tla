---------------------------- MODULE AgentHarness ----------------------------
(***************************************************************************)
(* One agent session (knuth-agent): the client that holds the              *)
(* AgentSession, the session actor (harness.rs over actor.rs), the actor   *)
(* of the current model step with the task that pumps the provider's       *)
(* stream into it (agent_step.rs), and the background tasks that run hooks *)
(* and tools.  They share nothing but bounded mailboxes and cancellation   *)
(* tokens.                                                                 *)
(*                                                                         *)
(* A handler of the session actor is one step: it owns its state and the   *)
(* in-memory store never fails or suspends.  The exceptions are modelled:  *)
(* a handler starts after its message left the mailbox (Receive), the      *)
(* shutdown token may be cancelled before it runs or between its two reads *)
(* of the token (CloseMayRace), and handling Cancel while a step streams   *)
(* waits for room in the step's mailbox.                                   *)
(*                                                                         *)
(* Left out: Subscribe (it only touches the subscriptions of the event     *)
(* log), the contents of prompts, inputs, patches, hints and results, the  *)
(* stream events a step ignores (start, tool calls), and the error paths of*)
(* a mailbox that is gone: the session holds its sender until close has    *)
(* awaited the actor.                                                      *)
(***************************************************************************)
EXTENDS SessionEvents, FiniteSets

CONSTANTS
  SessionMailbox,  \* capacity of the session actor's mailbox (100)
  StepMailbox,     \* capacity of a step actor's mailbox (100)
  StreamReasons,   \* the Done reasons the provider may give
  ToolOutcomes,    \* the outcomes the after-tool hooks may leave
  HookVerdicts,    \* what the before-tool hooks may answer, uncancelled
  MaxInputs, MaxCancels, MaxPrompts,   \* bounds on what the client sends
  MaxSteps,        \* steps numbered MaxSteps or more ask for no tools
  MaxCalls,        \* tool calls per assistant message
  MaxDeltas        \* progress events per step

ASSUME BoundsAssumption ==
  /\ SessionMailbox \in Nat \ {0} /\ StepMailbox \in Nat \ {0}
  /\ MaxInputs \in Nat /\ MaxCancels \in Nat /\ MaxPrompts \in Nat
  /\ MaxSteps \in Nat /\ MaxCalls \in Nat /\ MaxDeltas \in Nat

ASSUME DataAssumption ==
  /\ StreamReasons \subseteq DoneReasons
  /\ ToolOutcomes \subseteq Outcomes
  /\ HookVerdicts \subseteq {"Allow", "Deny", "Error"}

VARIABLES
  client,      \* "ready", "asking" (submit_input awaits its reply), "closed"
  sent,        \* how many inputs, cancels and prompts the client has sent
  actor,       \* the session actor's task: "starting", "running", "stopped"
  shutdown,    \* the session's shutdown token; every other token is its child
  mailbox,     \* the session actor's mailbox
  handling,    \* the message its handler is working on
  turn,        \* TurnState
  turns,       \* turn ids minted so far
  queue,       \* pending_input_queue
  generation,  \* the last step minted
  log,         \* EventLog
  tasks,       \* hooks and tools running in the background
  step,        \* the step actor that the Streaming state holds
  cancelRequested  \* history: the turns during which a Cancel was handled

clientVars == <<client, sent>>
actorVars == <<actor, handling>>
turnVars == <<turn, turns, queue, generation, cancelRequested>>
vars == <<client, sent, actor, shutdown, mailbox, handling, turn, turns, queue,
          generation, log, tasks, step, cancelRequested>>

-----------------------------------------------------------------------------
(* TurnState *)
Phases == {"Idle", "PreparingContext", "Streaming", "RunningTools"}
InvocationStates == {"Proposing", "Executing", "Finalized"}
NoPending == [k \in {} |-> "Proposing"]

Idle == [phase |-> "Idle", id |-> 0, step |-> 0, pending |-> NoPending,
         cancelled |-> FALSE]
PreparingContext(t) == [Idle EXCEPT !.phase = "PreparingContext", !.id = t]
Streaming(t, s) == [Idle EXCEPT !.phase = "Streaming", !.id = t, !.step = s]
RunningTools(t, pending) ==
  [Idle EXCEPT !.phase = "RunningTools", !.id = t, !.pending = pending]

\* MUTANT: the turn's own token is forgotten, only close() is seen.
TokenOfSessionOnly == shutdown

\* The token of the current PreparingContext or RunningTools state.
TokenCancelled == turn.cancelled \/ shutdown

\* running_invocation: the invocation k is one the batch still waits for.
Awaiting(k, state) ==
  /\ turn.phase = "RunningTools" /\ turn.id = k.turn
  /\ k \in DOMAIN turn.pending /\ turn.pending[k] = state

-----------------------------------------------------------------------------
(* AgentActorMessage *)
Nothing == [type |-> "None"]
Cancel == [type |-> "Cancel"]
SubmitInput(i) == [type |-> "SubmitInput", input |-> i]
SetSystemPrompt(p) == [type |-> "SetSystemPrompt", prompt |-> p]
StepEvent(e) == [type |-> "Step", event |-> e]
Live(e) == [type |-> "Live", event |-> e]
ContextPrepared(t, c) == [type |-> "ContextPrepared", turn |-> t, context |-> c]
StepFinished(s, r, m) ==
  [type |-> "StepFinished", step |-> s, reason |-> r, message |-> m]
ToolInputPrepared(k, v) ==
  [type |-> "ToolInputPrepared", inv |-> k, verdict |-> v]
ToolFinished(k) == [type |-> "ToolFinished", inv |-> k]
ToolResultFinalized(k, o) ==
  [type |-> "ToolResultFinalized", inv |-> k, outcome |-> o]

Verdicts == {"Allow", "Deny", "Error", "Cancelled"}

MailboxMessages ==
       [type: {"Cancel"}]
  \cup [type: {"SubmitInput"}, input: Nat]
  \cup [type: {"SetSystemPrompt"}, prompt: Nat]
  \cup [type: {"Step"}, event: Events]
  \cup [type: {"Live"}, event: LiveEvents]
  \cup [type: {"ContextPrepared"}, turn: Nat, context: Contexts]
  \cup [type: {"StepFinished"}, step: Nat, reason: StepReasons,
        message: AssistantMessages]
  \cup [type: {"ToolInputPrepared"}, inv: Invocations, verdict: Verdicts]
  \cup [type: {"ToolFinished"}, inv: Invocations]
  \cup [type: {"ToolResultFinalized"}, inv: Invocations, outcome: Outcomes]

\* Sender::send waits for room; it fails at once when the actor has stopped.
Deliver(m) ==
  \/ /\ actor # "stopped"
     /\ Len(mailbox) < SessionMailbox
     /\ mailbox' = Append(mailbox, m)
  \/ /\ actor = "stopped"
     /\ UNCHANGED mailbox

(* The tasks that tokio::spawn starts, each to send one message back. *)
ContextHooks(t, c) == [type |-> "ContextHooks", turn |-> t, context |-> c]
BeforeToolUse(k) == [type |-> "BeforeToolUse", inv |-> k]
RunTool(k) == [type |-> "RunTool", inv |-> k]
AfterToolUse(k) == [type |-> "AfterToolUse", inv |-> k]

Tasks == [type: {"ContextHooks"}, turn: Nat, context: Contexts]
    \cup [type: {"BeforeToolUse", "RunTool", "AfterToolUse"}, inv: Invocations]

(* AgentStepActor, its mailbox and the state of the stream it pumps. *)
StepMessages ==
       [type: {"Delta", "Error", "StreamEnded", "Cancel"}]
  \cup [type: {"Done"}, reason: DoneReasons, calls: Nat]

Steps == [id: Nat, status: {"starting", "running", "stopping", "finished"},
          stream: {"unopened", "open", "terminated", "closed"}, deltas: Nat,
          mailbox: Seq(StepMessages), reason: StepReasons,
          message: AssistantMessages, context: Contexts]

NewStep(s, c) ==
  [id |-> s, status |-> "starting", stream |-> "unopened", deltas |-> 0,
   mailbox |-> <<>>, reason |-> "Success", message |-> NoMessage,
   context |-> c]

FinishedStep(s) ==
  [NewStep(s, [messages |-> <<>>, prompt |-> 0]) EXCEPT !.status = "finished"]

-----------------------------------------------------------------------------
Init ==
  /\ client = "ready"
  /\ sent = [inputs |-> 0, cancels |-> 0, prompts |-> 0]
  /\ actor = "starting"
  /\ shutdown = FALSE
  /\ mailbox = <<>>
  /\ handling = Nothing
  /\ turn = Idle
  /\ turns = 0
  /\ queue = <<>>
  /\ generation = 0
  /\ log = EmptyLog
  /\ tasks = {}
  /\ step = FinishedStep(0)
  /\ cancelRequested = {}

-----------------------------------------------------------------------------
(* The client: every method of AgentSession takes it by &mut self, and     *)
(* close by self, so it makes one call at a time.                          *)

ClientSubmits ==
  /\ client = "ready"
  /\ sent.inputs < MaxInputs
  /\ Deliver(SubmitInput(sent.inputs + 1))
  /\ client' = "asking"
  /\ sent' = [sent EXCEPT !.inputs = @ + 1]
  /\ UNCHANGED <<actorVars, turnVars, shutdown, log, tasks, step>>

ClientCancels ==
  /\ client = "ready"
  /\ sent.cancels < MaxCancels
  /\ Deliver(Cancel)
  /\ sent' = [sent EXCEPT !.cancels = @ + 1]
  /\ UNCHANGED <<client, actorVars, turnVars, shutdown, log, tasks, step>>

ClientSetsPrompt ==
  /\ client = "ready"
  /\ sent.prompts < MaxPrompts
  /\ Deliver(SetSystemPrompt(sent.prompts + 1))
  /\ sent' = [sent EXCEPT !.prompts = @ + 1]
  /\ UNCHANGED <<client, actorVars, turnVars, shutdown, log, tasks, step>>

ClientCloses ==
  /\ client = "ready"
  /\ client' = "closed"
  /\ shutdown' = TRUE
  /\ UNCHANGED <<sent, mailbox, actorVars, turnVars, log, tasks, step>>

\* close() may cancel the shutdown token while a handler is running.
CloseMayRace ==
  \/ UNCHANGED <<client, shutdown>>
  \/ client = "ready" /\ client' = "closed" /\ shutdown' = TRUE

-----------------------------------------------------------------------------
(* The loop of spawn_actor: biased towards the shutdown token. *)

OnStart ==
  /\ actor = "starting"
  /\ actor' = "running"
  /\ log' = Commit(log, SessionStarted)
  /\ UNCHANGED <<clientVars, turnVars, shutdown, mailbox, handling, tasks, step>>

Receive ==
  /\ actor = "running" /\ handling = Nothing /\ ~shutdown
  /\ mailbox # <<>>
  /\ handling' = Head(mailbox)
  /\ mailbox' = Tail(mailbox)
  /\ UNCHANGED <<clientVars, turnVars, actor, shutdown, log, tasks, step>>

\* MUTANT: the loop drains the turn before it stops.
StopsWhenIdle ==
  /\ actor = "running" /\ handling = Nothing /\ shutdown /\ turn.phase = "Idle"
  /\ actor' = "stopped"
  /\ mailbox' = <<>>
  /\ log' = Commit(log, SessionEnded)
  /\ UNCHANGED <<clientVars, turnVars, shutdown, handling, tasks, step>>

OnStop ==
  /\ actor = "running" /\ handling = Nothing /\ shutdown
  /\ actor' = "stopped"
  /\ mailbox' = <<>>
  /\ log' = Commit(log, SessionEnded)
  /\ UNCHANGED <<clientVars, turnVars, shutdown, handling, tasks, step>>

-----------------------------------------------------------------------------
(* What several handlers end with; l is the log as committed so far. *)

\* MUTANT: the snapshot is taken before the handler's own commits.
PrepareContextEarly(t, l) ==
  /\ log' = l
  /\ turn' = PreparingContext(t)
  /\ tasks' = tasks \cup {ContextHooks(t, log.conversation)}

PrepareContext(t, l) ==
  /\ log' = l
  /\ turn' = PreparingContext(t)
  /\ tasks' = tasks \cup {ContextHooks(t, l.conversation)}

\* try_dispatch_next_input with the turn Idle and the pending inputs q.
DispatchNextInput(l, q) ==
  \/ /\ q = <<>>
     /\ log' = l
     /\ turn' = Idle
     /\ queue' = q
     /\ UNCHANGED <<turns, tasks>>
  \/ /\ q # <<>>
     /\ turns' = turns + 1
     /\ queue' = Tail(q)
     /\ PrepareContext(turns + 1,
          Commit(Commit(l, AgentTurnStarted(turns + 1)),
                 UserMessageCommitted(Head(q))))

\* MUTANT: the end of the turn is not committed.
EndTurnSilently(l) == DispatchNextInput(l, queue)

EndTurn(l) == DispatchNextInput(Commit(l, AgentTurnEnded(turn.id)), queue)

\* MUTANT: an invocation with a result stays pending.
StillPending(pending, k) == pending

WithoutInvocation(pending, k) == [j \in DOMAIN pending \ {k} |-> pending[j]]

CommitInvocationResult(k, l, outcome) ==
  LET rest == WithoutInvocation(turn.pending, k)
      done == PublishLive(Commit(l, ToolResultReceived(k, outcome)),
                          ToolExecutionEnded(k))
  IN /\ CloseMayRace
     /\ \/ /\ DOMAIN rest # {}
           /\ log' = done
           /\ turn' = [turn EXCEPT !.pending = rest]
           /\ UNCHANGED <<turns, queue, tasks>>
        \/ /\ DOMAIN rest = {}
           /\ turn.cancelled \/ shutdown'
           /\ EndTurn(done)
        \/ /\ DOMAIN rest = {}
           /\ ~(turn.cancelled \/ shutdown')
           /\ PrepareContext(k.turn, Commit(done, UserMessageCommitted(Hints)))
           /\ UNCHANGED <<turns, queue>>

\* Handles a message of this type and lets the loop continue.
Handle(type) ==
  /\ handling.type = type
  /\ handling' = Nothing
  /\ UNCHANGED <<sent, actor, mailbox>>

\* MUTANT: push_front.
EnqueuedFirst(q, i) == <<i>> \o q

Enqueued(q, i) == Append(q, i)

HandleSubmitInput ==
  /\ Handle("SubmitInput")
  /\ client' = "ready"
  /\ LET q == Enqueued(queue, handling.input) IN
     \/ /\ turn.phase # "Idle"
        /\ queue' = q
        /\ UNCHANGED <<turn, turns, log, tasks>>
     \/ /\ turn.phase = "Idle"
        /\ DispatchNextInput(log, q)
  /\ UNCHANGED <<generation, cancelRequested, shutdown, step>>

HandleSetSystemPrompt ==
  /\ Handle("SetSystemPrompt")
  /\ log' = Commit(log, SystemPromptSet(handling.prompt))
  /\ UNCHANGED <<client, turnVars, shutdown, tasks, step>>

\* AgentStepRunner::cancel waits for room in the mailbox of a live step.
CancelStep ==
  \/ step.status = "finished" /\ UNCHANGED step
  \/ /\ step.status # "finished"
     /\ Len(step.mailbox) < StepMailbox
     /\ step' = [step EXCEPT !.mailbox = Append(@, Cancel)]

HandleCancel ==
  /\ Handle("Cancel")
  /\ \/ turn.phase = "Idle" /\ UNCHANGED <<turn, step>>
     \/ /\ turn.phase \in {"PreparingContext", "RunningTools"}
        /\ turn' = [turn EXCEPT !.cancelled = TRUE]
        /\ UNCHANGED step
     \/ /\ turn.phase = "Streaming"
        /\ CancelStep
        /\ UNCHANGED turn
  /\ cancelRequested' = cancelRequested \cup ({turn.id} \ {Idle.id})
  /\ UNCHANGED <<client, turns, queue, generation, shutdown, log, tasks>>

\* AgentActorMessage::Step, committed verbatim.
HandleStepEvent ==
  /\ Handle("Step")
  /\ log' = Commit(log, handling.event)
  /\ UNCHANGED <<client, turnVars, shutdown, tasks, step>>

HandleLive ==
  /\ Handle("Live")
  /\ log' = PublishLive(log, handling.event)
  /\ UNCHANGED <<client, turnVars, shutdown, tasks, step>>

\* The context a step gets: the snapshot and a message with the hooks' hints.
StepContext(context) ==
  [context EXCEPT !.messages = Append(@, UserMessage(Hints))]

HandleContextPrepared ==
  LET current == turn.phase = "PreparingContext" /\ turn.id = handling.turn IN
  /\ Handle("ContextPrepared")
  /\ \/ /\ ~current
        /\ UNCHANGED <<turn, turns, queue, generation, log, tasks, step>>
     \/ /\ current /\ TokenCancelled
        /\ EndTurn(log)
        /\ UNCHANGED <<generation, step>>
     \/ /\ current /\ ~TokenCancelled
        /\ generation' = generation + 1
        /\ step' = NewStep(generation + 1, StepContext(handling.context))
        /\ turn' = Streaming(turn.id, generation + 1)
        /\ UNCHANGED <<turns, queue, log, tasks>>
  /\ UNCHANGED <<client, cancelRequested, shutdown>>

\* dispatch_tool_calls and prepare_tool_calls for n > 0 calls.
DispatchToolCalls(l, n) ==
  LET calls == [c \in 1..n |-> Invocation(turn.id, turn.step, c)]
      proposals == [c \in 1..n |-> ToolCallProposed(calls[c])]
      invocations == {calls[c] : c \in 1..n}
  IN /\ log' = [l EXCEPT !.events = @ \o proposals, !.feed = @ \o proposals]
     /\ turn' = RunningTools(turn.id, [k \in invocations |-> "Proposing"])
     /\ tasks' = tasks \cup {BeforeToolUse(k) : k \in invocations}
     /\ UNCHANGED <<turns, queue>>

HandleStepFinished ==
  LET current == turn.phase = "Streaming" /\ turn.step = handling.step
      ended == Commit(log, ModelStepEnded(handling.step, handling.reason,
                                          handling.message))
      tools == handling.reason \in DoneReasons /\ handling.message.calls > 0
  IN
  /\ Handle("StepFinished")
  /\ \/ ~current /\ UNCHANGED <<turn, turns, queue, log, tasks>>
     \/ /\ current /\ handling.reason = "Error"
        /\ EndTurn(Commit(ended, ErrorOccurred))
     \/ /\ current /\ tools
        /\ DispatchToolCalls(ended, handling.message.calls)
     \/ /\ current /\ handling.reason # "Error" /\ ~tools
        /\ EndTurn(ended)
  /\ UNCHANGED <<client, generation, cancelRequested, shutdown, step>>

\* MUTANT: the verdict is passed on as if it were an outcome.
VerdictAsOutcome(verdict) == verdict

\* handle_tool_input_prepared when the call is not to run.
RefusedOutcome(verdict) ==
  IF verdict = "Error" THEN "Error"
  ELSE IF verdict = "Cancelled" \/ TokenCancelled THEN "Cancelled"
  ELSE "PolicyDenied"

HandleToolInputPrepared ==
  LET k == handling.inv
      runs == handling.verdict = "Allow" /\ ~TokenCancelled
  IN
  /\ Handle("ToolInputPrepared")
  /\ \/ /\ ~Awaiting(k, "Proposing")
        /\ UNCHANGED <<client, shutdown, turn, turns, queue, log, tasks>>
     \/ /\ Awaiting(k, "Proposing") /\ ~runs
        /\ CommitInvocationResult(k, log, RefusedOutcome(handling.verdict))
     \/ /\ Awaiting(k, "Proposing") /\ runs
        /\ log' = PublishLive(Commit(log, ToolExecutionRequested(k)),
                              ToolExecutionStarted(k))
        /\ turn' = [turn EXCEPT !.pending[k] = "Executing"]
        /\ tasks' = tasks \cup {RunTool(k)}
        /\ UNCHANGED <<client, shutdown, turns, queue>>
  /\ UNCHANGED <<generation, cancelRequested, step>>

\* handle_tool_result_finalized, for an invocation known to be Finalized.
FinalizeResult(k, l, outcome) ==
  LET final == IF TokenCancelled THEN "Cancelled" ELSE outcome
  IN CommitInvocationResult(k,
       IF final = "ExecSuccess" THEN l ELSE Commit(l, ErrorOccurred), final)

HandleToolFinished ==
  LET k == handling.inv
      observed == Commit(log, ToolExecutionObserved(k))
  IN
  /\ Handle("ToolFinished")
  /\ \/ /\ ~Awaiting(k, "Executing")
        /\ UNCHANGED <<client, shutdown, turn, turns, queue, log, tasks>>
     \/ /\ Awaiting(k, "Executing") /\ TokenCancelled
        /\ FinalizeResult(k, observed, "Cancelled")
     \/ /\ Awaiting(k, "Executing") /\ ~TokenCancelled
        /\ log' = observed
        /\ turn' = [turn EXCEPT !.pending[k] = "Finalized"]
        /\ tasks' = tasks \cup {AfterToolUse(k)}
        /\ UNCHANGED <<client, shutdown, turns, queue>>
  /\ UNCHANGED <<generation, cancelRequested, step>>

HandleToolResultFinalized ==
  LET k == handling.inv IN
  /\ Handle("ToolResultFinalized")
  /\ \/ /\ ~Awaiting(k, "Finalized")
        /\ UNCHANGED <<client, shutdown, turn, turns, queue, log, tasks>>
     \/ /\ Awaiting(k, "Finalized")
        /\ FinalizeResult(k, log, handling.outcome)
  /\ UNCHANGED <<generation, cancelRequested, step>>

-----------------------------------------------------------------------------
(* The background tasks.  A task races its work with the token, so a       *)
(* cancelled token may, but need not, show in what it sends; it then waits *)
(* for room in the mailbox.                                                *)

TaskVars == <<client, sent, actorVars, turnVars, shutdown, log, step>>

FinishContextHooks ==
  \E task \in tasks :
    /\ task.type = "ContextHooks"
    /\ Deliver(ContextPrepared(task.turn, task.context))
    /\ tasks' = tasks \ {task}
    /\ UNCHANGED TaskVars

FinishBeforeToolUse ==
  \E task \in tasks :
    /\ task.type = "BeforeToolUse"
    /\ \E v \in HookVerdicts \cup IF TokenCancelled THEN {"Cancelled"} ELSE {} :
         Deliver(ToolInputPrepared(task.inv, v))
    /\ tasks' = tasks \ {task}
    /\ UNCHANGED TaskVars

FinishTool ==
  \E task \in tasks :
    /\ task.type = "RunTool"
    /\ Deliver(ToolFinished(task.inv))
    /\ tasks' = tasks \ {task}
    /\ UNCHANGED TaskVars

\* An error of a hook, a Cancelled one too, becomes an Error result.
FinishAfterToolUse ==
  \E task \in tasks :
    /\ task.type = "AfterToolUse"
    /\ \E o \in ToolOutcomes \cup {"Error"} :
         Deliver(ToolResultFinalized(task.inv, o))
    /\ tasks' = tasks \ {task}
    /\ UNCHANGED TaskVars

-----------------------------------------------------------------------------
(* The step actor.  The message it works on stays at the head of its       *)
(* mailbox until the handler is done; Cancel can be behind any of them.    *)

StepVars == <<clientVars, actorVars, turnVars, shutdown, log, tasks>>

StepStarts ==
  /\ step.status = "starting"
  /\ Deliver(StepEvent(ModelStepStarted(step.id)))
  /\ step' = [step EXCEPT !.status = "running", !.stream = "open"]
  /\ UNCHANGED StepVars

StepReceives(type) ==
  /\ step.status = "running"
  /\ step.mailbox # <<>> /\ Head(step.mailbox).type = type

\* MUTANT: progress is published directly, not through the mailbox.
StepPublishesDelta ==
  /\ StepReceives("Delta")
  /\ log' = PublishLive(log, StepProgress(step.id))
  /\ step' = [step EXCEPT !.mailbox = Tail(@)]
  /\ UNCHANGED <<clientVars, actorVars, turnVars, shutdown, tasks, mailbox>>

\* emit_live fails once the session actor is gone, and the step breaks off.
StepForwardsDelta ==
  /\ StepReceives("Delta")
  /\ Deliver(Live(StepProgress(step.id)))
  /\ step' = [step EXCEPT !.mailbox = Tail(@),
       !.status = IF actor = "stopped" THEN "stopping" ELSE @,
       !.reason = IF actor = "stopped" THEN "Error" ELSE @]
  /\ UNCHANGED StepVars

StepTakesDone ==
  /\ StepReceives("Done")
  /\ step' = [step EXCEPT !.mailbox = Tail(@),
       !.reason = Head(step.mailbox).reason,
       !.message = Message(Head(step.mailbox).calls)]
  /\ UNCHANGED <<StepVars, mailbox>>

\* The events after which handle returns Break, and the reason they leave.
BreakReason(type) ==
  CASE type = "Error" -> "Error"
    [] type = "Cancel" -> "Cancelled"
    [] type = "StreamEnded" ->
         IF step.message.present THEN step.reason ELSE "Error"

StepBreaks ==
  \E type \in {"Error", "Cancel", "StreamEnded"} :
    /\ StepReceives(type)
    /\ step' = [step EXCEPT !.status = "stopping", !.reason = BreakReason(type)]
    /\ UNCHANGED <<StepVars, mailbox>>

\* MUTANT: a cancelled step reports nothing.
StopsQuietly ==
  /\ step.status = "stopping"
  /\ \/ step.reason # "Cancelled" /\ Deliver(StepFinished(step.id, step.reason, step.message))
     \/ step.reason = "Cancelled" /\ UNCHANGED mailbox
  /\ step' = FinishedStep(step.id)
  /\ UNCHANGED StepVars

\* on_stop; nothing ever cancels the step's own shutdown token.
StepStops ==
  /\ step.status = "stopping"
  /\ Deliver(StepFinished(step.id, step.reason, step.message))
  /\ step' = FinishedStep(step.id)
  /\ UNCHANGED StepVars

(* The provider's stream: deltas, then Done or Error, then its end; a      *)
(* broken one just ends.  The pump waits for room in the step's mailbox.   *)
Pump(messages, stream) ==
  /\ step.status \in {"running", "stopping"}
  /\ Len(step.mailbox) < StepMailbox
  /\ \E m \in messages :
       step' = [step EXCEPT !.mailbox = Append(@, m), !.stream = stream,
                            !.deltas = @ + IF m.type = "Delta" THEN 1 ELSE 0]
  /\ UNCHANGED <<StepVars, mailbox>>

StreamProgresses ==
  /\ step.stream = "open" /\ step.deltas < MaxDeltas
  /\ Pump({[type |-> "Delta"]}, "open")

StreamTerminates ==
  /\ step.stream = "open"
  /\ LET calls == IF step.id < MaxSteps THEN 0..MaxCalls ELSE {0} IN
     Pump([type: {"Done"}, reason: StreamReasons, calls: calls]
            \cup [type: {"Error"}], "terminated")

StreamEnds ==
  /\ step.stream \in {"open", "terminated"}
  /\ Pump({[type |-> "StreamEnded"]}, "closed")

-----------------------------------------------------------------------------
ClientNext ==
  ClientSubmits \/ ClientCancels \/ ClientSetsPrompt \/ ClientCloses

Handlers ==
  \/ HandleSubmitInput \/ HandleSetSystemPrompt \/ HandleCancel
  \/ HandleStepEvent \/ HandleLive \/ HandleContextPrepared
  \/ HandleStepFinished \/ HandleToolInputPrepared \/ HandleToolFinished
  \/ HandleToolResultFinalized

ActorNext == OnStart \/ Receive \/ Handlers \/ OnStop

TaskNext ==
  \/ FinishContextHooks \/ FinishBeforeToolUse \/ FinishTool
  \/ FinishAfterToolUse

StepNext ==
  \/ StepStarts \/ StepForwardsDelta \/ StepTakesDone \/ StepBreaks
  \/ StepStops

StreamNext == StreamProgresses \/ StreamTerminates \/ StreamEnds

\* Nothing left to do: the session waits for its client, or has ended.
AtRest ==
  /\ tasks = {} /\ step.status = "finished"
  /\ \/ actor = "stopped"
     \/ /\ actor = "running" /\ ~shutdown /\ client = "ready"
        /\ turn = Idle /\ handling = Nothing /\ mailbox = <<>>
  /\ UNCHANGED vars

Next ==
  ClientNext \/ ActorNext \/ TaskNext \/ StepNext \/ StreamNext \/ AtRest

Spec == Init /\ [][Next]_vars

(***************************************************************************)
(* The runtime schedules every task that can run: the session actor, the   *)
(* step actor, hooks and tools (which finish), and the provider's stream   *)
(* (which ends).  The client owes nothing.                                 *)
(***************************************************************************)
Fairness ==
  WF_vars(ActorNext) /\ WF_vars(TaskNext) /\ WF_vars(StepNext)
    /\ WF_vars(StreamNext)

FairSpec == Spec /\ Fairness

-----------------------------------------------------------------------------
(* Properties *)

\* A TurnState, in one record for all phases.
TurnOK(t) ==
  /\ t \in [phase: Phases, id: Nat, step: Nat, cancelled: BOOLEAN,
            pending: {t.pending}]
  /\ t.pending \in [DOMAIN t.pending -> InvocationStates]
  /\ DOMAIN t.pending \subseteq Invocations

\* Every variable holds a value of its type in the code.
TypeOK ==
  /\ client \in {"ready", "asking", "closed"}
  /\ sent \in [inputs: 0..MaxInputs, cancels: 0..MaxCancels, prompts: 0..MaxPrompts]
  /\ actor \in {"starting", "running", "stopped"}
  /\ shutdown \in BOOLEAN
  /\ mailbox \in Seq(MailboxMessages)
  /\ handling \in MailboxMessages \cup {Nothing}
  /\ TurnOK(turn)
  /\ turns \in Nat
  /\ queue \in Seq(Nat)
  /\ generation \in Nat
  /\ log \in Logs
  /\ tasks \subseteq Tasks
  /\ step \in Steps
  /\ cancelRequested \subseteq Nat

(***************************************************************************)
(* What the turn waits for, and what is on its way: background tasks, the  *)
(* live step, and the messages that report a completion.                   *)
(***************************************************************************)
Wait(state, t, s, c) == [state |-> state, turn |-> t, step |-> s, call |-> c]
InvocationWait(state, k) == Wait(state, k.turn, k.step, k.call)

Waits ==
  CASE turn.phase = "Idle" -> {}
    [] turn.phase = "PreparingContext" ->
         {Wait("PreparingContext", turn.id, 0, 0)}
    [] turn.phase = "Streaming" -> {Wait("Streaming", 0, turn.step, 0)}
    [] turn.phase = "RunningTools" ->
         {InvocationWait(turn.pending[k], k) : k \in DOMAIN turn.pending}

TaskWait(task) ==
  CASE task.type = "ContextHooks" -> Wait("PreparingContext", task.turn, 0, 0)
    [] task.type = "BeforeToolUse" -> InvocationWait("Proposing", task.inv)
    [] task.type = "RunTool" -> InvocationWait("Executing", task.inv)
    [] task.type = "AfterToolUse" -> InvocationWait("Finalized", task.inv)

Completions == {"ContextPrepared", "StepFinished", "ToolInputPrepared",
                "ToolFinished", "ToolResultFinalized"}

MessageWait(m) ==
  CASE m.type = "ContextPrepared" -> Wait("PreparingContext", m.turn, 0, 0)
    [] m.type = "StepFinished" -> Wait("Streaming", 0, m.step, 0)
    [] m.type = "ToolInputPrepared" -> InvocationWait("Proposing", m.inv)
    [] m.type = "ToolFinished" -> InvocationWait("Executing", m.inv)
    [] m.type = "ToolResultFinalized" -> InvocationWait("Finalized", m.inv)

StepWait == Wait("Streaming", 0, step.id, 0)

(* The messages the session actor has yet to work on: 0 is the one in hand. *)
Transit == [i \in 0..Len(mailbox) |-> IF i = 0 THEN handling ELSE mailbox[i]]

CompletionsInTransit == {i \in DOMAIN Transit : Transit[i].type \in Completions}

NoneStale ==
  /\ \A task \in tasks : TaskWait(task) \in Waits
  /\ step.status # "finished" => StepWait \in Waits
  /\ \A i \in CompletionsInTransit : MessageWait(Transit[i]) \in Waits

NoneLost ==
  \A w \in Waits :
    \/ \E task \in tasks : TaskWait(task) = w
    \/ step.status # "finished" /\ StepWait = w
    \/ \E i \in CompletionsInTransit : MessageWait(Transit[i]) = w

NoneTwice ==
  /\ \A task1, task2 \in tasks : TaskWait(task1) = TaskWait(task2) => task1 = task2
  /\ \A i, j \in CompletionsInTransit :
       MessageWait(Transit[i]) = MessageWait(Transit[j]) => i = j
  /\ \A i \in CompletionsInTransit :
       /\ \A task \in tasks : MessageWait(Transit[i]) # TaskWait(task)
       /\ step.status # "finished" => MessageWait(Transit[i]) # StepWait

(***************************************************************************)
(* Everything the turn waits for has exactly one completion on its way,    *)
(* and nothing else is on its way: no hook, tool or step is forgotten,     *)
(* started twice, or reports to a turn, step or batch that is over.  The   *)
(* stale-message checks of harness.rs are then never needed, and no turn   *)
(* is stuck for a lost wakeup.                                             *)
(***************************************************************************)
OneCompletionInFlight ==
  actor # "stopped" => NoneStale /\ NoneLost /\ NoneTwice

(***************************************************************************)
(* Once the token of a context preparation or of a tool batch is           *)
(* cancelled, the turn winds down: no further tool starts and no further   *)
(* step is prepared for it.                                                *)
(***************************************************************************)
CancelledTurnWindsDown ==
  [][turn.cancelled /\ turn'.id = turn.id =>
       /\ turn'.phase = turn.phase
       /\ \A k \in DOMAIN turn'.pending :
            turn'.pending[k] = "Executing" => turn.pending[k] = "Executing"]_vars
=============================================================================
