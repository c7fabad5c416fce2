------------------------- MODULE AgentHarness_proofs -------------------------
(*****************************************************************************)
(* Proofs about AgentHarness, for every value of its constants, in three     *)
(* parts: the types and the order of a turn; what relates a session's history *)
(* to its present; what its event log tells.                                 *)
(*****************************************************************************)
EXTENDS AgentHarnessProperties, WellFoundedInduction,
        FiniteSetTheorems, TLAPS

-----------------------------------------------------------------------------
(* Typing of messages, tasks and turns. *)

LEMMA MessageFields ==
  ASSUME NEW m \in MailboxMessages
  PROVE  /\ m.type = "SubmitInput" => m.input \in Nat
         /\ m.type = "SetSystemPrompt" => m.prompt \in Nat
         /\ m.type = "Step" => m.event \in Events
         /\ m.type = "Live" => m.event \in LiveEvents
         /\ m.type = "ContextPrepared" => m.turn \in Nat /\ m.context \in Contexts
         /\ m.type = "StepFinished" =>
              /\ m.step \in Nat /\ m.reason \in StepReasons
              /\ m.message \in AssistantMessages
         /\ m.type = "ToolInputPrepared" =>
              m.inv \in Invocations /\ m.verdict \in Verdicts
         /\ m.type = "ToolFinished" => m.inv \in Invocations
         /\ m.type = "ToolResultFinalized" =>
              m.inv \in Invocations /\ m.outcome \in Outcomes
BY DEF MailboxMessages

LEMMA TaskFields ==
  ASSUME NEW task \in Tasks
  PROVE  /\ task.type \in {"ContextHooks", "BeforeToolUse", "RunTool", "AfterToolUse"}
         /\ task.type = "ContextHooks" => task.turn \in Nat /\ task.context \in Contexts
         /\ task.type # "ContextHooks" => task.inv \in Invocations
BY DEF Tasks

LEMMA MessageTypes ==
  /\ Cancel \in MailboxMessages
  /\ \A n \in Nat : SubmitInput(n) \in MailboxMessages /\ SetSystemPrompt(n) \in MailboxMessages
  /\ \A e \in Events : StepEvent(e) \in MailboxMessages
  /\ \A e \in LiveEvents : Live(e) \in MailboxMessages
  /\ \A t \in Nat, c \in Contexts : ContextPrepared(t, c) \in MailboxMessages
  /\ \A s \in Nat, r \in StepReasons, m \in AssistantMessages :
       StepFinished(s, r, m) \in MailboxMessages
  /\ \A k \in Invocations : ToolFinished(k) \in MailboxMessages
  /\ \A k \in Invocations, v \in Verdicts : ToolInputPrepared(k, v) \in MailboxMessages
  /\ \A k \in Invocations, o \in Outcomes : ToolResultFinalized(k, o) \in MailboxMessages
BY DEF MailboxMessages, Cancel, SubmitInput, SetSystemPrompt, StepEvent, Live,
       ContextPrepared, StepFinished, ToolFinished, ToolInputPrepared,
       ToolResultFinalized

LEMMA TaskTypes ==
  /\ \A t \in Nat, c \in Contexts : ContextHooks(t, c) \in Tasks
  /\ \A k \in Invocations :
       BeforeToolUse(k) \in Tasks /\ RunTool(k) \in Tasks /\ AfterToolUse(k) \in Tasks
BY DEF Tasks, ContextHooks, BeforeToolUse, RunTool, AfterToolUse

LEMMA NothingIsNoMessage ==
  /\ Nothing.type = "None"
  /\ \A m \in MailboxMessages : m.type # "None"
BY DEF Nothing, MailboxMessages

LEMMA NoPendingType ==
  NoPending \in [DOMAIN NoPending -> InvocationStates] /\ DOMAIN NoPending = {}
BY DEF NoPending

LEMMA TurnTypes ==
  /\ TurnOK(Idle)
  /\ \A t \in Nat : TurnOK(PreparingContext(t))
  /\ \A t \in Nat, s \in Nat : TurnOK(Streaming(t, s))
BY NoPendingType DEF TurnOK, Idle, PreparingContext, Streaming, Phases

LEMMA RunningToolsType ==
  ASSUME NEW t \in Nat, NEW S \in SUBSET Invocations, NEW p \in [S -> InvocationStates]
  PROVE  TurnOK(RunningTools(t, p))
BY DEF TurnOK, Idle, RunningTools, Phases

LEMMA TurnWithPending ==
  ASSUME NEW t, TurnOK(t),
         NEW S \in SUBSET Invocations, NEW p \in [S -> InvocationStates]
  PROVE  TurnOK([t EXCEPT !.pending = p])
BY DEF TurnOK

LEMMA TurnWithState ==
  ASSUME NEW t, TurnOK(t), NEW k \in DOMAIN t.pending, NEW s \in InvocationStates
  PROVE  TurnOK([t EXCEPT !.pending[k] = s])
<1>1. [t.pending EXCEPT ![k] = s] \in [DOMAIN t.pending -> InvocationStates]
  BY DEF TurnOK
<1>2. [t EXCEPT !.pending[k] = s] = [t EXCEPT !.pending = [t.pending EXCEPT ![k] = s]]
  BY DEF TurnOK
<1>. QED BY <1>1, <1>2, TurnWithPending DEF TurnOK

-----------------------------------------------------------------------------
(* Typing of what the handlers end with. *)

LEMMA DeliverType ==
  ASSUME TypeOK, NEW m \in MailboxMessages, Deliver(m)
  PROVE  mailbox' \in Seq(MailboxMessages)
<1>1. mailbox \in Seq(MailboxMessages)
  BY DEF TypeOK
<1>2. Append(mailbox, m) \in Seq(MailboxMessages)
  BY <1>1
<1>. QED BY <1>1, <1>2 DEF Deliver

\* What the end of a handler may change.
SessionOK ==
  TurnOK(turn) /\ turns \in Nat /\ queue \in Seq(Nat) /\ log \in Logs /\ tasks \subseteq Tasks

LEMMA PrepareContextType ==
  ASSUME TypeOK, NEW t \in Nat, NEW l \in Logs, PrepareContext(t, l)
  PROVE  TurnOK(turn') /\ log' \in Logs /\ tasks' \subseteq Tasks
<1>1. l.conversation \in Contexts
  BY DEF Logs
<1>2. ContextHooks(t, l.conversation) \in Tasks
  BY <1>1, TaskTypes
<1>. QED BY <1>2, TurnTypes DEF PrepareContext, TypeOK

LEMMA DispatchNextInputType ==
  ASSUME TypeOK, NEW l \in Logs, NEW q \in Seq(Nat), DispatchNextInput(l, q)
  PROVE  SessionOK'
<1>1. CASE q = <<>>
  BY <1>1, TurnTypes DEF DispatchNextInput, TypeOK, SessionOK
<1>2. CASE q # <<>>
  <2>1. turns + 1 \in Nat /\ Head(q) \in Nat /\ Tail(q) \in Seq(Nat)
    BY <1>2 DEF TypeOK
  <2>. DEFINE started == Commit(l, AgentTurnStarted(turns + 1))
              committed == Commit(started, UserMessageCommitted(Head(q)))
  <2>2. started \in Logs
    BY <2>1, CommitType, TurnEventTypes
  <2>3. committed \in Logs
    BY <2>1, <2>2, CommitType, TurnEventTypes
  <2>4. /\ turns' = turns + 1 /\ queue' = Tail(q)
        /\ PrepareContext(turns + 1, committed)
    BY <1>2 DEF DispatchNextInput
  <2>. QED BY <2>1, <2>3, <2>4, PrepareContextType DEF SessionOK
<1>. QED BY <1>1, <1>2

LEMMA EndTurnType ==
  ASSUME TypeOK, NEW l \in Logs, EndTurn(l)
  PROVE  SessionOK'
<1>1. turn.id \in Nat /\ queue \in Seq(Nat)
  BY DEF TypeOK, TurnOK
<1>2. Commit(l, AgentTurnEnded(turn.id)) \in Logs
  BY <1>1, CommitType, TurnEventTypes
<1>. QED BY <1>1, <1>2, DispatchNextInputType DEF EndTurn

LEMMA WithoutInvocationType ==
  ASSUME NEW p, NEW k, p \in [DOMAIN p -> InvocationStates], DOMAIN p \subseteq Invocations
  PROVE  /\ WithoutInvocation(p, k) \in [DOMAIN p \ {k} -> InvocationStates]
         /\ DOMAIN p \ {k} \in SUBSET Invocations
BY DEF WithoutInvocation

LEMMA CommitInvocationResultType ==
  ASSUME TypeOK, NEW k \in Invocations, NEW l \in Logs, NEW o \in Outcomes,
         CommitInvocationResult(k, l, o)
  PROVE  SessionOK' /\ client' \in {client, "closed"} /\ shutdown' \in BOOLEAN
<1>. DEFINE received == Commit(l, ToolResultReceived(k, o))
            done == PublishLive(received, ToolExecutionEnded(k))
            rest == WithoutInvocation(turn.pending, k)
<1>1. client' \in {client, "closed"} /\ shutdown' \in BOOLEAN
  BY DEF CommitInvocationResult, CloseMayRace, TypeOK
<1>2. received \in Logs
  BY CommitType, InvocationEventTypes
<1>3. done \in Logs
  BY <1>2, PublishLiveType, InvocationEventTypes
<1>4. CASE /\ DOMAIN rest # {} /\ log' = done
           /\ turn' = [turn EXCEPT !.pending = rest]
           /\ UNCHANGED <<turns, queue, tasks>>
  <2>1. /\ TurnOK(turn)
        /\ turn.pending \in [DOMAIN turn.pending -> InvocationStates]
        /\ DOMAIN turn.pending \subseteq Invocations
    BY DEF TypeOK, TurnOK
  <2>2. /\ rest \in [DOMAIN turn.pending \ {k} -> InvocationStates]
        /\ DOMAIN turn.pending \ {k} \in SUBSET Invocations
    BY <2>1, WithoutInvocationType
  <2>3. TurnOK(turn')
    BY <1>4, <2>1, <2>2, TurnWithPending
  <2>. QED BY <1>1, <1>3, <1>4, <2>3 DEF SessionOK, TypeOK
<1>5. CASE EndTurn(done)
  BY <1>1, <1>3, <1>5, EndTurnType
<1>6. CASE /\ PrepareContext(k.turn, Commit(done, UserMessageCommitted(Hints)))
           /\ UNCHANGED <<turns, queue>>
  <2>1. k.turn \in Nat /\ Hints \in Nat
    BY DEF Invocations, Hints
  <2>2. Commit(done, UserMessageCommitted(Hints)) \in Logs
    BY <1>3, <2>1, CommitType, TurnEventTypes
  <2>. QED BY <1>1, <1>6, <2>1, <2>2, PrepareContextType DEF SessionOK, TypeOK
<1>. QED BY <1>4, <1>5, <1>6 DEF CommitInvocationResult

\* A handler that ended well leaves everything else as it was, or typed too.
LEMMA HandledType ==
  ASSUME TypeOK, NEW type, Handle(type), SessionOK',
         client' \in {client, "ready", "closed"}, shutdown' \in BOOLEAN,
         generation' \in Nat, step' \in Steps, cancelRequested' \subseteq Nat
  PROVE  TypeOK'
<1>1. /\ sent' \in [inputs: 0..MaxInputs, cancels: 0..MaxCancels, prompts: 0..MaxPrompts]
      /\ client' \in {"ready", "asking", "closed"}
      /\ actor' \in {"starting", "running", "stopped"}
      /\ mailbox' \in Seq(MailboxMessages)
      /\ handling' \in MailboxMessages \cup {Nothing}
  BY DEF TypeOK, Handle
<1>. QED BY <1>1 DEF TypeOK, SessionOK

\* The message a handler works on.
LEMMA HandledMessage ==
  ASSUME TypeOK, NEW type, type # "None", Handle(type)
  PROVE  handling \in MailboxMessages /\ handling.type = type
BY DEF TypeOK, Handle, Nothing

LEMMA StepContextType ==
  ASSUME NEW c \in Contexts
  PROVE  StepContext(c) \in Contexts
<1>1. UserMessage(Hints) \in Messages
  BY DEF UserMessage, Hints, Messages
<1>. QED BY <1>1, AppendMessage DEF StepContext

LEMMA NewStepType ==
  ASSUME NEW s \in Nat, NEW c \in Contexts
  PROVE  NewStep(s, c) \in Steps /\ FinishedStep(s) \in Steps
<1>1. NoMessage \in AssistantMessages
  BY DEF NoMessage, AssistantMessages
<1>2. <<>> \in Seq(StepMessages) /\ <<>> \in Seq(Messages)
  OBVIOUS
<1>3. [messages |-> <<>>, prompt |-> 0] \in Contexts
  BY <1>2 DEF Contexts
<1>. QED BY <1>1, <1>2, <1>3 DEF NewStep, FinishedStep, Steps, StepReasons, DoneReasons

\* A message more in the step's mailbox.
LEMMA StepWithMessage ==
  ASSUME TypeOK, NEW m \in StepMessages
  PROVE  [step EXCEPT !.mailbox = Append(step.mailbox, m)] \in Steps
<1>1. step \in Steps
  BY DEF TypeOK
<1>2. Append(step.mailbox, m) \in Seq(StepMessages)
  BY <1>1 DEF Steps
<1>. QED BY <1>1, <1>2 DEF Steps

-----------------------------------------------------------------------------
LEMMA InitType == Init => TypeOK
<1>. SUFFICES ASSUME Init PROVE TypeOK
  OBVIOUS
<1>1. EmptyLog \in Logs
  BY DEF EmptyLog, Logs, Contexts
<1>2. FinishedStep(0) \in Steps
  <2>1. EmptyLog.conversation \in Contexts
    BY <1>1 DEF Logs
  <2>. QED BY <2>1, NewStepType
<1>3. sent \in [inputs: 0..MaxInputs, cancels: 0..MaxCancels, prompts: 0..MaxPrompts]
  BY BoundsAssumption DEF Init
<1>4. TurnOK(turn) /\ log \in Logs /\ step \in Steps
  BY <1>1, <1>2, TurnTypes DEF Init
<1>5. mailbox \in Seq(MailboxMessages) /\ queue \in Seq(Nat)
  BY DEF Init
<1>6. /\ client \in {"ready", "asking", "closed"}
      /\ actor \in {"starting", "running", "stopped"}
      /\ shutdown \in BOOLEAN /\ handling \in MailboxMessages \cup {Nothing}
      /\ turns \in Nat /\ generation \in Nat
      /\ tasks \subseteq Tasks /\ cancelRequested \subseteq Nat
  BY DEF Init
<1>. QED BY <1>3, <1>4, <1>5, <1>6 DEF TypeOK

\* A message more in the session actor's mailbox, from a client that is ready.
LEMMA ClientType ==
  ASSUME TypeOK, ClientNext
  PROVE  TypeOK'
<1>. USE DEF clientVars, actorVars, turnVars
<1>1. /\ sent.inputs \in 0..MaxInputs
      /\ sent.cancels \in 0..MaxCancels
      /\ sent.prompts \in 0..MaxPrompts
      /\ sent = [inputs |-> sent.inputs, cancels |-> sent.cancels,
                 prompts |-> sent.prompts]
  BY DEF TypeOK
<1>2. ASSUME ClientSubmits PROVE TypeOK'
  <2>1. sent.inputs + 1 \in Nat /\ sent.inputs + 1 \in 0..MaxInputs
    BY <1>1, <1>2, BoundsAssumption DEF ClientSubmits
  <2>2. mailbox' \in Seq(MailboxMessages)
    BY <1>2, <2>1, MessageTypes, DeliverType DEF ClientSubmits
  <2>3. sent' \in [inputs: 0..MaxInputs, cancels: 0..MaxCancels, prompts: 0..MaxPrompts]
    BY <1>1, <1>2, <2>1 DEF ClientSubmits
  <2>. QED BY <1>2, <2>2, <2>3 DEF ClientSubmits, TypeOK
<1>3. ASSUME ClientCancels PROVE TypeOK'
  <2>1. sent.cancels + 1 \in 0..MaxCancels
    BY <1>1, <1>3, BoundsAssumption DEF ClientCancels
  <2>2. mailbox' \in Seq(MailboxMessages)
    BY <1>3, MessageTypes, DeliverType DEF ClientCancels
  <2>3. sent' \in [inputs: 0..MaxInputs, cancels: 0..MaxCancels, prompts: 0..MaxPrompts]
    BY <1>1, <1>3, <2>1 DEF ClientCancels
  <2>. QED BY <1>3, <2>2, <2>3 DEF ClientCancels, TypeOK
<1>4. ASSUME ClientSetsPrompt PROVE TypeOK'
  <2>1. sent.prompts + 1 \in Nat /\ sent.prompts + 1 \in 0..MaxPrompts
    BY <1>1, <1>4, BoundsAssumption DEF ClientSetsPrompt
  <2>2. mailbox' \in Seq(MailboxMessages)
    BY <1>4, <2>1, MessageTypes, DeliverType DEF ClientSetsPrompt
  <2>3. sent' \in [inputs: 0..MaxInputs, cancels: 0..MaxCancels, prompts: 0..MaxPrompts]
    BY <1>1, <1>4, <2>1 DEF ClientSetsPrompt
  <2>. QED BY <1>4, <2>2, <2>3 DEF ClientSetsPrompt, TypeOK
<1>5. ASSUME ClientCloses PROVE TypeOK'
  BY <1>5 DEF ClientCloses, TypeOK
<1>. QED BY <1>2, <1>3, <1>4, <1>5 DEF ClientNext

LEMMA TaskType ==
  ASSUME TypeOK, TaskNext
  PROVE  TypeOK'
<1>. USE DEF actorVars, turnVars, TaskVars
<1>1. \E task \in tasks, m \in MailboxMessages :
        Deliver(m) /\ tasks' = tasks \ {task} /\ UNCHANGED TaskVars
  <2>1. tasks \subseteq Tasks
    BY DEF TypeOK
  <2>2. HookVerdicts \subseteq Verdicts /\ "Cancelled" \in Verdicts
          /\ ToolOutcomes \subseteq Outcomes /\ "Error" \in Outcomes
    BY DataAssumption DEF Verdicts, Outcomes
  <2>3. CASE FinishContextHooks
    BY <2>1, <2>3, TaskFields, MessageTypes DEF FinishContextHooks
  <2>4. CASE FinishBeforeToolUse
    BY <2>1, <2>2, <2>4, TaskFields, MessageTypes DEF FinishBeforeToolUse
  <2>5. CASE FinishTool
    BY <2>1, <2>5, TaskFields, MessageTypes DEF FinishTool
  <2>6. CASE FinishAfterToolUse
    BY <2>1, <2>2, <2>6, TaskFields, MessageTypes DEF FinishAfterToolUse
  <2>. QED BY <2>3, <2>4, <2>5, <2>6 DEF TaskNext
<1>2. mailbox' \in Seq(MailboxMessages)
  BY <1>1, DeliverType
<1>3. tasks' \subseteq Tasks
  BY <1>1 DEF TypeOK
<1>. QED BY <1>1, <1>2, <1>3 DEF TypeOK

LEMMA StepFields ==
  ASSUME TypeOK
  PROVE  /\ step.id \in Nat /\ step.reason \in StepReasons
         /\ step.message \in AssistantMessages
         /\ step.mailbox \in Seq(StepMessages)
BY DEF TypeOK, Steps

LEMMA StepType ==
  ASSUME TypeOK, StepNext
  PROVE  TypeOK'
<1>. USE DEF clientVars, actorVars, turnVars, StepVars
<1>1. step \in Steps
  BY DEF TypeOK
<1>2. ASSUME NEW type, StepReceives(type)
      PROVE  /\ Head(step.mailbox) \in StepMessages
             /\ Head(step.mailbox).type = type
             /\ Tail(step.mailbox) \in Seq(StepMessages)
  BY <1>2, StepFields DEF StepReceives
<1>3. "Error" \in StepReasons /\ "Cancelled" \in StepReasons
  BY DEF StepReasons
<1>4. ASSUME step' \in Steps, mailbox' \in Seq(MailboxMessages), UNCHANGED StepVars
      PROVE  TypeOK'
  BY <1>4 DEF TypeOK
<1>5. ASSUME StepStarts PROVE TypeOK'
  <2>1. mailbox' \in Seq(MailboxMessages)
    BY <1>5, StepFields, TurnEventTypes, MessageTypes, DeliverType DEF StepStarts
  <2>2. step' \in Steps
    BY <1>1, <1>5 DEF StepStarts, Steps
  <2>. QED BY <1>4, <1>5, <2>1, <2>2 DEF StepStarts
<1>6. ASSUME StepForwardsDelta PROVE TypeOK'
  <2>1. mailbox' \in Seq(MailboxMessages)
    BY <1>6, StepFields, TurnEventTypes, MessageTypes, DeliverType DEF StepForwardsDelta
  <2>2. Tail(step.mailbox) \in Seq(StepMessages)
    BY <1>2, <1>6 DEF StepForwardsDelta
  <2>3. step' \in Steps
    BY <1>1, <1>3, <1>6, <2>2 DEF StepForwardsDelta, Steps
  <2>. QED BY <1>4, <1>6, <2>1, <2>3 DEF StepForwardsDelta
<1>7. ASSUME StepTakesDone PROVE TypeOK'
  <2>. DEFINE m == Head(step.mailbox)
  <2>1. m \in StepMessages /\ m.type = "Done" /\ Tail(step.mailbox) \in Seq(StepMessages)
    BY <1>2, <1>7 DEF StepTakesDone
  <2>2. m.reason \in DoneReasons /\ m.calls \in Nat
    BY <2>1 DEF StepMessages
  <2>3. m.reason \in StepReasons /\ Message(m.calls) \in AssistantMessages
    BY <2>2 DEF StepReasons, Message, AssistantMessages
  <2>4. step' \in Steps
    BY <1>1, <1>7, <2>1, <2>3 DEF StepTakesDone, Steps
  <2>. QED BY <1>4, <1>7, <2>4 DEF StepTakesDone, TypeOK
<1>8. ASSUME StepBreaks PROVE TypeOK'
  <2>1. PICK type \in {"Error", "Cancel", "StreamEnded"} :
          /\ step' = [step EXCEPT !.status = "stopping", !.reason = BreakReason(type)]
          /\ UNCHANGED <<StepVars, mailbox>>
    BY <1>8 DEF StepBreaks
  <2>2. BreakReason(type) \in StepReasons
    BY <1>3, StepFields DEF BreakReason
  <2>3. step' \in Steps
    BY <1>1, <2>1, <2>2 DEF Steps
  <2>. QED BY <1>4, <2>1, <2>3 DEF TypeOK
<1>9. ASSUME StepStops PROVE TypeOK'
  <2>1. mailbox' \in Seq(MailboxMessages)
    BY <1>9, StepFields, MessageTypes, DeliverType DEF StepStops
  <2>2. EmptyLog.conversation \in Contexts
    BY DEF EmptyLog, Contexts
  <2>3. step' \in Steps
    BY <1>9, <2>2, StepFields, NewStepType DEF StepStops
  <2>. QED BY <1>4, <1>9, <2>1, <2>3 DEF StepStops
<1>. QED BY <1>5, <1>6, <1>7, <1>8, <1>9 DEF StepNext

LEMMA StreamType ==
  ASSUME TypeOK, StreamNext
  PROVE  TypeOK'
<1>. USE DEF clientVars, actorVars, turnVars, StepVars
<1>1. ASSUME NEW messages \in SUBSET StepMessages,
             NEW stream \in {"unopened", "open", "terminated", "closed"},
             Pump(messages, stream)
      PROVE  TypeOK'
  <2>1. PICK m \in messages :
          step' = [step EXCEPT !.mailbox = Append(step.mailbox, m), !.stream = stream,
                     !.deltas = step.deltas + IF m.type = "Delta" THEN 1 ELSE 0]
    BY <1>1 DEF Pump
  <2>2. step \in Steps
    BY DEF TypeOK
  <2>3. Append(step.mailbox, m) \in Seq(StepMessages)
    BY StepFields
  <2>4. step.deltas + (IF m.type = "Delta" THEN 1 ELSE 0) \in Nat
    BY <2>2 DEF Steps
  <2>5. step' \in Steps
    BY <2>1, <2>2, <2>3, <2>4 DEF Steps
  <2>. QED BY <1>1, <2>5 DEF Pump, TypeOK
<1>2. ASSUME StreamProgresses PROVE TypeOK'
  <2>1. {[type |-> "Delta"]} \in SUBSET StepMessages
    BY DEF StepMessages
  <2>. QED BY <1>1, <1>2, <2>1 DEF StreamProgresses
<1>3. ASSUME StreamTerminates PROVE TypeOK'
  <2>. DEFINE calls == IF step.id < MaxSteps THEN 0..MaxCalls ELSE {0}
              ends == [type: {"Done"}, reason: StreamReasons, calls: calls]
                        \cup [type: {"Error"}]
  <2>1. calls \subseteq Nat
    BY BoundsAssumption
  <2>2. ends \in SUBSET StepMessages
    BY <2>1, DataAssumption DEF StepMessages
  <2>. QED BY <1>1, <1>3, <2>2 DEF StreamTerminates
<1>4. ASSUME StreamEnds PROVE TypeOK'
  <2>1. {[type |-> "StreamEnded"]} \in SUBSET StepMessages
    BY DEF StepMessages
  <2>. QED BY <1>1, <1>4, <2>1 DEF StreamEnds
<1>. QED BY <1>2, <1>3, <1>4 DEF StreamNext

\* The loop around the handlers.
LEMMA LoopType ==
  ASSUME TypeOK, OnStart \/ Receive \/ OnStop
  PROVE  TypeOK'
<1>. USE DEF clientVars, actorVars, turnVars
<1>1. /\ Commit(log, SessionStarted) \in Logs /\ Commit(log, SessionEnded) \in Logs
      /\ <<>> \in Seq(MailboxMessages)
  BY CommitType, SessionEventTypes DEF TypeOK
<1>2. CASE OnStart
  BY <1>1, <1>2 DEF OnStart, TypeOK
<1>3. CASE Receive
  <2>1. Head(mailbox) \in MailboxMessages /\ Tail(mailbox) \in Seq(MailboxMessages)
    BY <1>3 DEF Receive, TypeOK
  <2>. QED BY <1>3, <2>1 DEF Receive, TypeOK
<1>4. CASE OnStop
  BY <1>1, <1>4 DEF OnStop, TypeOK
<1>. QED BY <1>2, <1>3, <1>4

LEMMA HandlersType ==
  ASSUME TypeOK, Handlers
  PROVE  TypeOK'
<1>. USE DEF turnVars
<1>1. /\ log \in Logs /\ TurnOK(turn) /\ turn.id \in Nat /\ turn.step \in Nat
      /\ generation \in Nat /\ generation + 1 \in Nat /\ step \in Steps
      /\ shutdown \in BOOLEAN /\ cancelRequested \subseteq Nat
      /\ queue \in Seq(Nat) /\ turns \in Nat /\ tasks \subseteq Tasks
  BY DEF TypeOK, TurnOK
<1>2. ASSUME HandleSubmitInput PROVE TypeOK'
  <2>1. handling.input \in Nat
    BY <1>2, HandledMessage, MessageFields DEF HandleSubmitInput
  <2>. DEFINE q == Enqueued(queue, handling.input)
  <2>2. q \in Seq(Nat)
    BY <1>1, <2>1 DEF Enqueued
  <2>3. SessionOK'
    <3>1. CASE /\ queue' = q
               /\ UNCHANGED <<turn, turns, log, tasks>>
      BY <1>1, <2>2, <3>1 DEF SessionOK
    <3>2. CASE DispatchNextInput(log, q)
      BY <1>1, <2>2, <3>2, DispatchNextInputType
    <3>. QED BY <1>2, <3>1, <3>2 DEF HandleSubmitInput
  <2>. QED BY <1>1, <1>2, <2>3, HandledType DEF HandleSubmitInput
<1>3. ASSUME HandleSetSystemPrompt PROVE TypeOK'
  <2>1. handling.prompt \in Nat
    BY <1>3, HandledMessage, MessageFields DEF HandleSetSystemPrompt
  <2>2. Commit(log, SystemPromptSet(handling.prompt)) \in Logs
    BY <1>1, <2>1, CommitType, TurnEventTypes
  <2>3. SessionOK'
    BY <1>1, <1>3, <2>2 DEF HandleSetSystemPrompt, SessionOK
  <2>. QED BY <1>1, <1>3, <2>3, HandledType DEF HandleSetSystemPrompt
<1>4. ASSUME HandleCancel PROVE TypeOK'
  <2>1. TurnOK([turn EXCEPT !.cancelled = TRUE])
    BY <1>1 DEF TurnOK
  <2>2. SessionOK'
    BY <1>1, <1>4, <2>1 DEF HandleCancel, SessionOK
  <2>3. Cancel \in StepMessages
    BY DEF Cancel, StepMessages
  <2>4. step' \in Steps
    BY <1>1, <1>4, <2>3, StepWithMessage DEF HandleCancel, CancelStep
  <2>. QED BY <1>1, <1>4, <2>2, <2>4, HandledType DEF HandleCancel
<1>5. ASSUME HandleStepEvent PROVE TypeOK'
  <2>1. Commit(log, handling.event) \in Logs
    BY <1>1, <1>5, HandledMessage, MessageFields, CommitType DEF HandleStepEvent
  <2>2. SessionOK'
    BY <1>1, <1>5, <2>1 DEF HandleStepEvent, SessionOK
  <2>. QED BY <1>1, <1>5, <2>2, HandledType DEF HandleStepEvent
<1>6. ASSUME HandleLive PROVE TypeOK'
  <2>1. PublishLive(log, handling.event) \in Logs
    BY <1>1, <1>6, HandledMessage, MessageFields, PublishLiveType DEF HandleLive
  <2>2. SessionOK'
    BY <1>1, <1>6, <2>1 DEF HandleLive, SessionOK
  <2>. QED BY <1>1, <1>6, <2>2, HandledType DEF HandleLive
<1>7. ASSUME HandleContextPrepared PROVE TypeOK'
  <2>1. handling.turn \in Nat /\ handling.context \in Contexts
    BY <1>7, HandledMessage, MessageFields DEF HandleContextPrepared
  <2>2. NewStep(generation + 1, StepContext(handling.context)) \in Steps
    BY <1>1, <2>1, StepContextType, NewStepType
  <2>3. generation' \in Nat /\ step' \in Steps
    BY <1>1, <1>7, <2>2 DEF HandleContextPrepared
  <2>4. SessionOK'
    <3>1. CASE UNCHANGED <<turn, turns, queue, log, tasks>>
      BY <1>1, <3>1 DEF SessionOK
    <3>2. CASE EndTurn(log)
      BY <1>1, <3>2, EndTurnType
    <3>3. CASE /\ turn' = Streaming(turn.id, generation + 1)
               /\ UNCHANGED <<turns, queue, log, tasks>>
      BY <1>1, <3>3, TurnTypes DEF SessionOK
    <3>. QED BY <1>7, <3>1, <3>2, <3>3 DEF HandleContextPrepared
  <2>. QED BY <1>1, <1>7, <2>3, <2>4, HandledType DEF HandleContextPrepared
<1>8. ASSUME HandleToolInputPrepared PROVE TypeOK'
  <2>1. handling.inv \in Invocations /\ handling.verdict \in Verdicts
    BY <1>8, HandledMessage, MessageFields DEF HandleToolInputPrepared
  <2>2. RefusedOutcome(handling.verdict) \in Outcomes
    BY DEF RefusedOutcome, Outcomes
  <2>3. SessionOK' /\ client' \in {client, "closed"} /\ shutdown' \in BOOLEAN
    <3>1. CASE UNCHANGED <<client, shutdown, turn, turns, queue, log, tasks>>
      BY <1>1, <3>1 DEF SessionOK
    <3>2. CASE CommitInvocationResult(handling.inv, log, RefusedOutcome(handling.verdict))
      BY <1>1, <2>1, <2>2, <3>2, CommitInvocationResultType
    <3>3. CASE /\ Awaiting(handling.inv, "Proposing")
               /\ log' = PublishLive(Commit(log, ToolExecutionRequested(handling.inv)),
                                     ToolExecutionStarted(handling.inv))
               /\ turn' = [turn EXCEPT !.pending[handling.inv] = "Executing"]
               /\ tasks' = tasks \cup {RunTool(handling.inv)}
               /\ UNCHANGED <<client, shutdown, turns, queue>>
      <4>1. log' \in Logs
        BY <1>1, <2>1, <3>3, CommitType, PublishLiveType, InvocationEventTypes
      <4>2. TurnOK(turn')
        BY <1>1, <3>3, TurnWithState DEF Awaiting, InvocationStates
      <4>3. tasks' \subseteq Tasks
        BY <1>1, <2>1, <3>3, TaskTypes
      <4>. QED BY <1>1, <3>3, <4>1, <4>2, <4>3 DEF SessionOK
    <3>. QED BY <1>8, <3>1, <3>2, <3>3 DEF HandleToolInputPrepared
  <2>. QED BY <1>1, <1>8, <2>3, HandledType DEF HandleToolInputPrepared
<1>9. ASSUME NEW l \in Logs, NEW o \in Outcomes, NEW k \in Invocations,
             FinalizeResult(k, l, o)
      PROVE  SessionOK' /\ client' \in {client, "closed"} /\ shutdown' \in BOOLEAN
  <2>. DEFINE final == IF TokenCancelled THEN "Cancelled" ELSE o
              committed == IF final = "ExecSuccess" THEN l ELSE Commit(l, ErrorOccurred)
  <2>1. final \in Outcomes /\ committed \in Logs
    BY CommitType, SessionEventTypes DEF Outcomes
  <2>2. CommitInvocationResult(k, committed, final)
    BY <1>9 DEF FinalizeResult
  <2>. HIDE DEF final, committed
  <2>. QED BY <2>1, <2>2, CommitInvocationResultType
<1>10. ASSUME HandleToolFinished PROVE TypeOK'
  <2>. DEFINE observed == Commit(log, ToolExecutionObserved(handling.inv))
  <2>1. handling.inv \in Invocations
    BY <1>10, HandledMessage, MessageFields DEF HandleToolFinished
  <2>2. observed \in Logs
    BY <1>1, <2>1, CommitType, InvocationEventTypes
  <2>3. SessionOK' /\ client' \in {client, "closed"} /\ shutdown' \in BOOLEAN
    <3>1. CASE UNCHANGED <<client, shutdown, turn, turns, queue, log, tasks>>
      BY <1>1, <3>1 DEF SessionOK
    <3>2. CASE FinalizeResult(handling.inv, observed, "Cancelled")
      BY <1>9, <2>1, <2>2, <3>2 DEF Outcomes
    <3>3. CASE /\ Awaiting(handling.inv, "Executing")
               /\ log' = observed
               /\ turn' = [turn EXCEPT !.pending[handling.inv] = "Finalized"]
               /\ tasks' = tasks \cup {AfterToolUse(handling.inv)}
               /\ UNCHANGED <<client, shutdown, turns, queue>>
      <4>1. TurnOK(turn')
        BY <1>1, <3>3, TurnWithState DEF Awaiting, InvocationStates
      <4>2. tasks' \subseteq Tasks
        BY <1>1, <2>1, <3>3, TaskTypes
      <4>. QED BY <1>1, <2>2, <3>3, <4>1, <4>2 DEF SessionOK
    <3>. QED BY <1>10, <3>1, <3>2, <3>3 DEF HandleToolFinished
  <2>. QED BY <1>1, <1>10, <2>3, HandledType DEF HandleToolFinished
<1>11. ASSUME HandleToolResultFinalized PROVE TypeOK'
  <2>1. handling.inv \in Invocations /\ handling.outcome \in Outcomes
    BY <1>11, HandledMessage, MessageFields DEF HandleToolResultFinalized
  <2>2. SessionOK' /\ client' \in {client, "closed"} /\ shutdown' \in BOOLEAN
    <3>1. CASE UNCHANGED <<client, shutdown, turn, turns, queue, log, tasks>>
      BY <1>1, <3>1 DEF SessionOK
    <3>2. CASE FinalizeResult(handling.inv, log, handling.outcome)
      BY <1>1, <1>9, <2>1, <3>2
    <3>. QED BY <1>11, <3>1, <3>2 DEF HandleToolResultFinalized
  <2>. QED BY <1>1, <1>11, <2>2, HandledType DEF HandleToolResultFinalized
<1>12. ASSUME HandleStepFinished PROVE TypeOK'
  <2>. DEFINE ended == Commit(log, ModelStepEnded(handling.step, handling.reason,
                                                  handling.message))
              n == handling.message.calls
  <2>1. /\ handling.step \in Nat /\ handling.reason \in StepReasons
        /\ handling.message \in AssistantMessages
    BY <1>12, HandledMessage, MessageFields DEF HandleStepFinished
  <2>2. ended \in Logs /\ n \in Nat
    BY <1>1, <2>1, CommitType, ModelStepEndedType DEF AssistantMessages
  <2>3. SessionOK'
    <3>1. CASE UNCHANGED <<turn, turns, queue, log, tasks>>
      BY <1>1, <3>1 DEF SessionOK
    <3>2. CASE EndTurn(ended)
      BY <2>2, <3>2, EndTurnType
    <3>3. CASE EndTurn(Commit(ended, ErrorOccurred))
      BY <2>2, <3>3, CommitType, SessionEventTypes, EndTurnType
    <3>4. CASE DispatchToolCalls(ended, n)
      <4>. HIDE DEF ended, n
      <4>. DEFINE calls == [c \in 1..n |-> Invocation(turn.id, turn.step, c)]
                  proposals == [c \in 1..n |-> ToolCallProposed(calls[c])]
                  invocations == {calls[c] : c \in 1..n}
      <4>1. \A c \in 1..n : calls[c] \in Invocations
        BY <1>1, <2>2, InvocationType
      <4>2. proposals \in Seq(Events) /\ proposals \in Seq(Events \cup LiveEvents)
        BY <2>2, <4>1, InvocationEventTypes
      <4>3. invocations \in SUBSET Invocations
        BY <4>1
      <4>. HIDE DEF calls, proposals, invocations
      <4>4. log' \in Logs
        <5>1. log' = [ended EXCEPT !.events = ended.events \o proposals,
                                   !.feed = ended.feed \o proposals]
          BY <3>4 DEF DispatchToolCalls, calls, proposals
        <5>2. ended.events \in Seq(Events) /\ ended.feed \in Seq(Events \cup LiveEvents)
          BY <2>2 DEF Logs
        <5>3. /\ ended.events \o proposals \in Seq(Events)
              /\ ended.feed \o proposals \in Seq(Events \cup LiveEvents)
          BY <4>2, <5>2
        <5>. QED BY <2>2, <5>1, <5>3 DEF Logs
      <4>5. TurnOK(turn')
        <5>1. turn' = RunningTools(turn.id, [k \in invocations |-> "Proposing"])
          BY <3>4 DEF DispatchToolCalls, calls, invocations
        <5>2. [k \in invocations |-> "Proposing"] \in [invocations -> InvocationStates]
          BY DEF InvocationStates
        <5>. QED BY <1>1, <4>3, <5>1, <5>2, RunningToolsType
      <4>6. tasks' \subseteq Tasks
        <5>1. tasks' = tasks \cup {BeforeToolUse(k) : k \in invocations}
          BY <3>4 DEF DispatchToolCalls, calls, invocations
        <5>. QED BY <1>1, <4>3, <5>1, TaskTypes
      <4>. QED BY <1>1, <3>4, <4>4, <4>5, <4>6 DEF DispatchToolCalls, SessionOK
    <3>. QED BY <1>12, <3>1, <3>2, <3>3, <3>4 DEF HandleStepFinished
  <2>. QED BY <1>1, <1>12, <2>3, HandledType DEF HandleStepFinished
<1>. QED BY <1>2, <1>3, <1>4, <1>5, <1>6, <1>7, <1>8, <1>10, <1>11, <1>12 DEF Handlers

LEMMA NextType == TypeOK /\ [Next]_vars => TypeOK'
<1>. SUFFICES ASSUME TypeOK, [Next]_vars PROVE TypeOK'
  OBVIOUS
<1>1. CASE UNCHANGED vars
  BY <1>1 DEF vars, TypeOK
<1>2. CASE ActorNext
  BY <1>2, LoopType, HandlersType DEF ActorNext
<1>. QED
  BY <1>1, <1>2, ClientType, TaskType, StepType, StreamType DEF Next, AtRest

(* Every reachable state is well typed. *)
THEOREM TypeCorrect == Spec => []TypeOK
BY InitType, NextType, PTL DEF Spec

-----------------------------------------------------------------------------
(***************************************************************************)
(* What a step of AgentHarness may do to the turn, and what follows from   *)
(* it: invariants of TurnState, and that a cancelled turn winds down.      *)
(***************************************************************************)

\* All pending invocations are of the open turn.
BatchOfTurn == \A k \in DOMAIN turn.pending : k.turn = turn.id

\* A turn id is minted once; a token can be cancelled where there is one.
TurnIds ==
  /\ turn.id <= turns
  /\ turn.phase = "Idle" <=> turn.id = 0
  /\ turn.cancelled => turn.phase \in {"PreparingContext", "RunningTools"}

TurnInv == BatchOfTurn /\ TurnIds

-----------------------------------------------------------------------------
(* The steps of TurnState. *)

TurnCancelled ==
  /\ turn.phase \in {"PreparingContext", "RunningTools"}
  /\ turn' = [turn EXCEPT !.cancelled = TRUE]
  /\ turns' = turns

NextTurn ==
  \/ turn' = Idle /\ turns' = turns
  \/ turn' = PreparingContext(turns + 1) /\ turns' = turns + 1

SameTurnGoesOn ==
  /\ ~turn.cancelled /\ turn.phase # "Idle" /\ turns' = turns
  /\ \/ turn' = PreparingContext(turn.id)
     \/ \E s \in Nat : turn' = Streaming(turn.id, s)
     \/ \E S \in SUBSET Invocations :
          /\ \A k \in S : k.turn = turn.id
          /\ turn' = RunningTools(turn.id, [k \in S |-> "Proposing"])

BatchShrinks ==
  /\ turn.phase = "RunningTools" /\ turns' = turns
  /\ \E k : turn' = [turn EXCEPT !.pending = WithoutInvocation(turn.pending, k)]

InvocationMoves ==
  /\ ~turn.cancelled /\ turn.phase = "RunningTools" /\ turns' = turns
  /\ \E k, s : turn' = [turn EXCEPT !.pending[k] = s]

TurnStep ==
  \/ turn' = turn /\ turns' = turns
  \/ TurnCancelled \/ NextTurn \/ SameTurnGoesOn \/ BatchShrinks
  \/ InvocationMoves

LEMMA TurnFields ==
  /\ Idle.phase = "Idle" /\ Idle.id = 0 /\ Idle.cancelled = FALSE
  /\ DOMAIN Idle.pending = {}
  /\ \A t : /\ PreparingContext(t).phase = "PreparingContext"
            /\ PreparingContext(t).id = t
            /\ PreparingContext(t).cancelled = FALSE
            /\ DOMAIN PreparingContext(t).pending = {}
BY NoPendingType DEF Idle, PreparingContext

LEMMA DispatchIsNextTurn ==
  ASSUME NEW l, NEW q, DispatchNextInput(l, q)
  PROVE  NextTurn
BY DEF DispatchNextInput, PrepareContext, NextTurn

LEMMA EndTurnIsNextTurn ==
  ASSUME NEW l, EndTurn(l)
  PROVE  NextTurn
BY DispatchIsNextTurn DEF EndTurn

LEMMA CommitInvocationResultSteps ==
  ASSUME TypeOK, NEW k, NEW s, Awaiting(k, s), NEW l, NEW o,
         CommitInvocationResult(k, l, o)
  PROVE  TurnStep
<1>. DEFINE rest == WithoutInvocation(turn.pending, k)
<1>1. turn.phase = "RunningTools" /\ turn.id = k.turn
  BY DEF Awaiting
<1>2. CASE turn' = [turn EXCEPT !.pending = rest] /\ turns' = turns
  BY <1>1, <1>2 DEF TurnStep, BatchShrinks
<1>3. CASE \E d : EndTurn(d)
  BY <1>3, EndTurnIsNextTurn DEF TurnStep
<1>4. CASE ~turn.cancelled /\ turns' = turns /\ \E d : PrepareContext(k.turn, d)
  BY <1>1, <1>4 DEF PrepareContext, TurnStep, SameTurnGoesOn
<1>. QED BY <1>2, <1>3, <1>4 DEF CommitInvocationResult

LEMMA ToolHandlersStep ==
  ASSUME TypeOK,
         HandleToolInputPrepared \/ HandleToolFinished \/ HandleToolResultFinalized
  PROVE  TurnStep
<1>. DEFINE k == handling.inv
<1>1. CASE UNCHANGED <<turn, turns>>
  BY <1>1 DEF TurnStep
<1>2. CASE \E s, l, o : Awaiting(k, s) /\ CommitInvocationResult(k, l, o)
  BY <1>2, CommitInvocationResultSteps
<1>3. CASE /\ \E s : Awaiting(k, s)
           /\ ~TokenCancelled /\ turns' = turns
           /\ \E next : turn' = [turn EXCEPT !.pending[k] = next]
  BY <1>3 DEF TurnStep, InvocationMoves, Awaiting, TokenCancelled
<1>4. CASE HandleToolInputPrepared
  BY <1>1, <1>2, <1>3, <1>4 DEF HandleToolInputPrepared
<1>5. CASE HandleToolFinished
  BY <1>1, <1>2, <1>3, <1>5 DEF HandleToolFinished, FinalizeResult
<1>6. CASE HandleToolResultFinalized
  BY <1>1, <1>2, <1>6 DEF HandleToolResultFinalized, FinalizeResult
<1>. QED BY <1>4, <1>5, <1>6

LEMMA StepFinishedSteps ==
  ASSUME TypeOK, TurnInv, HandleStepFinished
  PROVE  TurnStep
<1>1. CASE UNCHANGED <<turn, turns>>
  BY <1>1 DEF TurnStep
<1>2. CASE \E l : EndTurn(l)
  BY <1>2, EndTurnIsNextTurn DEF TurnStep
<1>3. CASE /\ turn.phase = "Streaming"
           /\ \E l : DispatchToolCalls(l, handling.message.calls)
  <2>. DEFINE n == handling.message.calls
              calls == [c \in 1..n |-> Invocation(turn.id, turn.step, c)]
              invocations == {calls[c] : c \in 1..n}
  <2>1. turn.id \in Nat /\ turn.step \in Nat /\ n \in Nat
    BY HandledMessage, MessageFields
       DEF HandleStepFinished, AssistantMessages, TypeOK, TurnOK
  <2>. HIDE DEF n
  <2>2. /\ invocations \in SUBSET Invocations
        /\ \A k \in invocations : k.turn = turn.id
    BY <2>1, InvocationType DEF Invocation
  <2>3. /\ turn' = RunningTools(turn.id, [k \in invocations |-> "Proposing"])
        /\ turns' = turns
    BY <1>3 DEF DispatchToolCalls, n
  <2>4. ~turn.cancelled
    BY <1>3 DEF TurnInv, TurnIds, TypeOK, TurnOK
  <2>. QED BY <1>3, <2>2, <2>3, <2>4 DEF TurnStep, SameTurnGoesOn
<1>. QED BY <1>1, <1>2, <1>3 DEF HandleStepFinished

LEMMA TurnSteps ==
  ASSUME TypeOK, TurnInv, [Next]_vars
  PROVE  TurnStep
<1>. USE DEF TurnStep
<1>1. CASE UNCHANGED vars
  BY <1>1 DEF vars
<1>2. CASE ClientNext
  BY <1>2 DEF ClientNext, ClientSubmits, ClientCancels, ClientSetsPrompt,
              ClientCloses, turnVars
<1>3. CASE TaskNext
  BY <1>3 DEF TaskNext, FinishContextHooks, FinishBeforeToolUse, FinishTool,
              FinishAfterToolUse, TaskVars, turnVars
<1>4. CASE StepNext
  BY <1>4 DEF StepNext, StepStarts, StepForwardsDelta, StepTakesDone, StepBreaks,
              StepStops, StepVars, turnVars
<1>5. CASE StreamNext
  BY <1>5 DEF StreamNext, StreamProgresses, StreamTerminates, StreamEnds, Pump,
              StepVars, turnVars
<1>6. CASE OnStart \/ Receive \/ OnStop
  BY <1>6 DEF OnStart, Receive, OnStop, turnVars
<1>7. CASE HandleSubmitInput
  BY <1>7, DispatchIsNextTurn DEF HandleSubmitInput
<1>8. CASE HandleSetSystemPrompt \/ HandleStepEvent \/ HandleLive
  BY <1>8 DEF HandleSetSystemPrompt, HandleStepEvent, HandleLive, turnVars
<1>9. CASE HandleCancel
  BY <1>9 DEF HandleCancel, TurnCancelled
<1>10. CASE HandleContextPrepared
  <2>1. CASE UNCHANGED <<turn, turns>>
    BY <2>1
  <2>2. CASE EndTurn(log)
    BY <2>2, EndTurnIsNextTurn
  <2>3. CASE /\ turn.phase = "PreparingContext" /\ ~TokenCancelled
             /\ turn' = Streaming(turn.id, generation + 1) /\ turns' = turns
    <3>1. generation + 1 \in Nat
      BY DEF TypeOK
    <3>. QED BY <2>3, <3>1 DEF SameTurnGoesOn, TokenCancelled
  <2>. QED BY <1>10, <2>1, <2>2, <2>3 DEF HandleContextPrepared
<1>. QED
  BY <1>1, <1>2, <1>3, <1>4, <1>5, <1>6, <1>7, <1>8, <1>9, <1>10,
     StepFinishedSteps, ToolHandlersStep DEF Next, ActorNext, Handlers, AtRest

-----------------------------------------------------------------------------
LEMMA InitTurn == Init => TurnInv
BY NoPendingType DEF Init, Idle, TurnInv, BatchOfTurn, TurnIds

LEMMA NextTurnInv ==
  ASSUME TypeOK, TurnInv, [Next]_vars
  PROVE  TurnInv'
<1>. USE DEF TurnInv, BatchOfTurn, TurnIds
<1>1. /\ TurnOK(turn) /\ turn.id \in Nat /\ turns \in Nat
  BY DEF TypeOK, TurnOK
<1>2. CASE turn' = turn /\ turns' = turns
  BY <1>2
<1>3. CASE TurnCancelled
  <2>1. /\ turn'.id = turn.id /\ turn'.phase = turn.phase
        /\ turn'.pending = turn.pending
    BY <1>1, <1>3 DEF TurnCancelled, TurnOK
  <2>. QED BY <1>3, <2>1 DEF TurnCancelled
<1>4. CASE NextTurn
  BY <1>1, <1>4, TurnFields DEF NextTurn
<1>5. CASE SameTurnGoesOn
  <2>1. turn'.id = turn.id /\ turn'.phase # "Idle" /\ turn'.cancelled = FALSE
    BY <1>5 DEF SameTurnGoesOn, Idle, PreparingContext, Streaming, RunningTools
  <2>2. \A k \in DOMAIN turn'.pending : k.turn = turn.id
    BY <1>5, NoPendingType
       DEF SameTurnGoesOn, Idle, PreparingContext, Streaming, RunningTools
  <2>. QED BY <1>1, <1>5, <2>1, <2>2 DEF SameTurnGoesOn
<1>6. CASE BatchShrinks
  <2>1. /\ turn'.id = turn.id /\ turn'.phase = turn.phase
        /\ turn'.cancelled = turn.cancelled
        /\ DOMAIN turn'.pending \subseteq DOMAIN turn.pending
    BY <1>1, <1>6 DEF BatchShrinks, WithoutInvocation, TurnOK
  <2>. QED BY <1>6, <2>1 DEF BatchShrinks
<1>7. CASE InvocationMoves
  <2>1. /\ turn'.id = turn.id /\ turn'.phase = turn.phase
        /\ turn'.cancelled = turn.cancelled
        /\ DOMAIN turn'.pending = DOMAIN turn.pending
    BY <1>1, <1>7 DEF InvocationMoves, TurnOK
  <2>. QED BY <1>7, <2>1 DEF InvocationMoves
<1>. QED BY <1>2, <1>3, <1>4, <1>5, <1>6, <1>7, TurnSteps DEF TurnStep

THEOREM TurnInvariant == Spec => [](TypeOK /\ TurnInv)
BY InitType, NextType, InitTurn, NextTurnInv, PTL DEF Spec

WindsDown ==
  turn.cancelled /\ turn'.id = turn.id =>
    /\ turn'.phase = turn.phase
    /\ \A k \in DOMAIN turn'.pending :
         turn'.pending[k] = "Executing" => turn.pending[k] = "Executing"

LEMMA StepWindsDown ==
  ASSUME TypeOK, TurnInv, [Next]_vars
  PROVE  WindsDown
<1>. SUFFICES ASSUME turn.cancelled, turn'.id = turn.id
              PROVE  /\ turn'.phase = turn.phase
                     /\ \A k \in DOMAIN turn'.pending :
                          turn'.pending[k] = "Executing" => turn.pending[k] = "Executing"
  BY DEF WindsDown
<1>1. TurnOK(turn) /\ turn.id \in Nat /\ turns \in Nat
  BY DEF TypeOK, TurnOK
<1>2. turn.id # 0 /\ turn.id <= turns
  BY DEF TurnInv, TurnIds
<1>3. CASE TurnCancelled
  BY <1>1, <1>3 DEF TurnCancelled, TurnOK
<1>4. ~NextTurn
  BY <1>1, <1>2, TurnFields DEF NextTurn
<1>5. CASE BatchShrinks
  BY <1>1, <1>5 DEF BatchShrinks, WithoutInvocation, TurnOK
<1>. QED
  BY <1>3, <1>4, <1>5, TurnSteps DEF TurnStep, SameTurnGoesOn, InvocationMoves

(***************************************************************************)
(* Once the token of a context preparation or of a tool batch is           *)
(* cancelled, no step and no tool is started for that turn any more:       *)
(* whatever the handler in hand, it keeps the phase and starts nothing, or *)
(* it ends the turn.                                                       *)
(***************************************************************************)
THEOREM CancelledTurnStaysCancelled == Spec => CancelledTurnWindsDown
<1>1. TypeOK /\ TurnInv /\ [Next]_vars => [WindsDown]_vars
  BY StepWindsDown
<1>. QED
  BY <1>1, TurnInvariant, PTL DEF Spec, CancelledTurnWindsDown, WindsDown

-----------------------------------------------------------------------------
(***************************************************************************)
(* Everything a turn waits for has exactly one completion on its way       *)
(* (OneCompletionInFlight).                                                *)
(*                                                                         *)
(* The argument: a wait is replaced only by the handler of its completion. *)
(* NoneTwice makes that completion the only one, so with NoneStale nothing *)
(* is left on its way for the wait that goes, and the handler starts one   *)
(* task, or one step, for each wait that comes.                            *)
(***************************************************************************)

InFlight == NoneStale /\ NoneLost /\ NoneTwice

-----------------------------------------------------------------------------
(* What happens to the messages in transit. *)

LEMMA TransitIndexes ==
  ASSUME TypeOK
  PROVE  /\ Len(mailbox) \in Nat
         /\ DOMAIN Transit = 0..Len(mailbox)
         /\ Transit[0] = handling
         /\ \A i \in 1..Len(mailbox) : Transit[i] = mailbox[i]
<1>1. Len(mailbox) \in Nat
  BY DEF TypeOK
<1>. QED BY <1>1 DEF Transit

\* A message is put behind the others.
LEMMA DeliverTransit ==
  ASSUME TypeOK, NEW m \in MailboxMessages, actor # "stopped", Deliver(m),
         handling' = handling
  PROVE  /\ DOMAIN Transit' = DOMAIN Transit \cup {Len(mailbox) + 1}
         /\ Len(mailbox) + 1 \notin DOMAIN Transit
         /\ Transit'[Len(mailbox) + 1] = m
         /\ \A i \in DOMAIN Transit : Transit'[i] = Transit[i]
<1>1. mailbox \in Seq(MailboxMessages) /\ mailbox' = Append(mailbox, m)
  BY DEF TypeOK, Deliver
<1>2. /\ Len(mailbox) \in Nat /\ Len(mailbox') = Len(mailbox) + 1
      /\ \A i \in 1..Len(mailbox) : mailbox'[i] = mailbox[i]
      /\ mailbox'[Len(mailbox) + 1] = m
  BY <1>1
<1>. QED BY <1>2 DEF Transit

LEMMA DeliverCompletion ==
  ASSUME TypeOK, NEW m \in MailboxMessages, actor # "stopped", Deliver(m),
         handling' = handling, m.type \in Completions
  PROVE  \E n : /\ n \notin CompletionsInTransit
                /\ CompletionsInTransit' = CompletionsInTransit \cup {n}
                /\ Transit'[n] = m
                /\ \A i \in CompletionsInTransit : Transit'[i] = Transit[i]
BY DeliverTransit DEF CompletionsInTransit

\* Nothing happens to the completions but that they may move up by d.
Shifted(d) ==
  /\ \A i \in CompletionsInTransit' :
       i + d \in CompletionsInTransit /\ Transit'[i] = Transit[i + d]
  /\ \A j \in CompletionsInTransit : j - d \in CompletionsInTransit'
  /\ CompletionsInTransit \subseteq Nat /\ CompletionsInTransit' \subseteq Nat

LEMMA DeliverOther ==
  ASSUME TypeOK, NEW m \in MailboxMessages, actor # "stopped", Deliver(m),
         handling' = handling, m.type \notin Completions
  PROVE  Shifted(0)
<1>1. DOMAIN Transit \subseteq Nat /\ Len(mailbox) \in Nat
  BY TransitIndexes
<1>2. CompletionsInTransit' = CompletionsInTransit
  BY DeliverTransit DEF CompletionsInTransit
<1>3. \A i \in CompletionsInTransit : i \in Nat /\ Transit'[i] = Transit[i]
  BY <1>1, DeliverTransit DEF CompletionsInTransit
<1>. QED BY <1>2, <1>3 DEF Shifted

LEMMA UnchangedTransit ==
  ASSUME TypeOK, UNCHANGED <<mailbox, handling>>
  PROVE  Shifted(0)
<1>1. DOMAIN Transit \subseteq Nat
  BY TransitIndexes
<1>2. Transit' = Transit
  BY DEF Transit
<1>3. CompletionsInTransit' = CompletionsInTransit /\ CompletionsInTransit \subseteq Nat
  BY <1>1, <1>2 DEF CompletionsInTransit
<1>. QED BY <1>2, <1>3 DEF Shifted

LEMMA ReceiveTransit ==
  ASSUME TypeOK, Receive
  PROVE  Shifted(1)
<1>1. mailbox \in Seq(MailboxMessages) /\ mailbox # <<>>
  BY DEF TypeOK, Receive
<1>2. /\ Len(mailbox) \in Nat /\ Len(mailbox) >= 1
      /\ Len(mailbox') = Len(mailbox) - 1
      /\ handling' = mailbox[1]
      /\ \A i \in 1..Len(mailbox') : mailbox'[i] = mailbox[i + 1]
  BY <1>1 DEF Receive
<1>3. /\ DOMAIN Transit = 0..Len(mailbox)
      /\ DOMAIN Transit' = 0..(Len(mailbox) - 1)
      /\ \A i \in 0..(Len(mailbox) - 1) : Transit'[i] = Transit[i + 1]
  BY <1>2 DEF Transit
<1>4. 0 \notin CompletionsInTransit
  BY TransitIndexes DEF Receive, CompletionsInTransit, Completions, Nothing
<1>. QED BY <1>2, <1>3, <1>4 DEF Shifted, CompletionsInTransit

\* The handler is done with the message in hand.
LEMMA HandledTransit ==
  ASSUME TypeOK, handling' = Nothing, mailbox' = mailbox
  PROVE  /\ CompletionsInTransit' = CompletionsInTransit \ {0}
         /\ \A i \in CompletionsInTransit' : Transit'[i] = Transit[i]
         /\ 0 \in CompletionsInTransit <=> handling.type \in Completions
<1>1. /\ DOMAIN Transit' = DOMAIN Transit /\ DOMAIN Transit = 0..Len(mailbox)
      /\ Transit[0] = handling /\ Transit'[0] = Nothing
      /\ \A i \in DOMAIN Transit \ {0} : Transit'[i] = Transit[i]
      /\ 0 \in DOMAIN Transit
  BY TransitIndexes DEF Transit
<1>2. Nothing.type \notin Completions
  BY DEF Nothing, Completions
<1>. QED BY <1>1, <1>2 DEF CompletionsInTransit

-----------------------------------------------------------------------------
(* The four ways a step keeps InFlight. *)

\* What is waited for, what is on its way: nothing but positions change.
LEMMA Quiet ==
  ASSUME InFlight, NEW d \in {0, 1}, Shifted(d),
         Waits' = Waits, tasks' = tasks, step'.id = step.id,
         (step'.status = "finished") = (step.status = "finished")
  PROVE  InFlight'
<1>1. StepWait' = StepWait
  BY DEF StepWait
<1>2. NoneStale'
  BY <1>1 DEF InFlight, NoneStale, Shifted
<1>3. NoneLost'
  <2>. SUFFICES ASSUME NEW w \in Waits
                PROVE  \/ \E task \in tasks' : TaskWait(task) = w
                       \/ step'.status # "finished" /\ StepWait' = w
                       \/ \E i \in CompletionsInTransit' : MessageWait(Transit'[i]) = w
    BY DEF NoneLost
  <2>1. CASE \E i \in CompletionsInTransit : MessageWait(Transit[i]) = w
    <3>1. PICK j \in CompletionsInTransit : MessageWait(Transit[j]) = w
      BY <2>1
    <3>2. j \in Nat /\ j - d \in CompletionsInTransit'
      BY DEF Shifted
    <3>3. (j - d) + d = j
      BY <3>2
    <3>4. Transit'[j - d] = Transit[j]
      BY <3>2, <3>3 DEF Shifted
    <3>. QED BY <3>1, <3>2, <3>4
  <2>. QED BY <1>1, <2>1 DEF InFlight, NoneLost
<1>4. NoneTwice'
  <2>1. \A i, j \in CompletionsInTransit' :
          MessageWait(Transit'[i]) = MessageWait(Transit'[j]) => i = j
    <3>. SUFFICES ASSUME NEW i \in CompletionsInTransit', NEW j \in CompletionsInTransit',
                         MessageWait(Transit'[i]) = MessageWait(Transit'[j])
                  PROVE  i = j
      OBVIOUS
    <3>1. i + d = j + d
      BY DEF InFlight, NoneTwice, Shifted
    <3>. QED BY <3>1 DEF Shifted
  <2>2. \A i \in CompletionsInTransit' :
          /\ \A task \in tasks' : MessageWait(Transit'[i]) # TaskWait(task)
          /\ step'.status # "finished" => MessageWait(Transit'[i]) # StepWait'
    BY <1>1 DEF InFlight, NoneTwice, Shifted
  <2>. QED BY <2>1, <2>2 DEF InFlight, NoneTwice
<1>. QED BY <1>2, <1>3, <1>4 DEF InFlight

\* A task ends by sending the completion it was started for.
LEMMA TaskReports ==
  ASSUME TypeOK, InFlight, actor # "stopped", NEW task \in tasks,
         NEW m \in MailboxMessages, Deliver(m), handling' = handling,
         m.type \in Completions, MessageWait(m) = TaskWait(task),
         tasks' = tasks \ {task}, UNCHANGED <<turn, step>>
  PROVE  InFlight'
<1>1. PICK n : /\ n \notin CompletionsInTransit
               /\ CompletionsInTransit' = CompletionsInTransit \cup {n}
               /\ Transit'[n] = m
               /\ \A i \in CompletionsInTransit : Transit'[i] = Transit[i]
  BY DeliverCompletion
<1>2. Waits' = Waits /\ StepWait' = StepWait
  BY DEF Waits, StepWait
<1>3. TaskWait(task) \in Waits
  BY DEF InFlight, NoneStale
<1>4. NoneStale'
  BY <1>1, <1>2, <1>3 DEF InFlight, NoneStale
<1>5. NoneLost'
  BY <1>1, <1>2 DEF InFlight, NoneLost
<1>6. NoneTwice'
  <2>1. step.status # "finished" => TaskWait(task) # StepWait
    BY DEF TypeOK, Tasks, TaskWait, StepWait, InvocationWait, Wait
  <2>. QED BY <1>1, <1>2, <2>1 DEF InFlight, NoneTwice
<1>. QED BY <1>4, <1>5, <1>6 DEF InFlight

\* The step ends by sending its StepFinished.
LEMMA StepReports ==
  ASSUME TypeOK, InFlight, actor # "stopped", step.status # "finished",
         NEW m \in MailboxMessages, Deliver(m), handling' = handling,
         m.type \in Completions, MessageWait(m) = StepWait,
         step'.status = "finished", UNCHANGED <<turn, tasks>>
  PROVE  InFlight'
<1>1. PICK n : /\ n \notin CompletionsInTransit
               /\ CompletionsInTransit' = CompletionsInTransit \cup {n}
               /\ Transit'[n] = m
               /\ \A i \in CompletionsInTransit : Transit'[i] = Transit[i]
  BY DeliverCompletion
<1>2. Waits' = Waits
  BY DEF Waits
<1>3. StepWait \in Waits
  BY DEF InFlight, NoneStale
<1>4. NoneStale'
  BY <1>1, <1>2, <1>3 DEF InFlight, NoneStale
<1>5. NoneLost'
  BY <1>1, <1>2 DEF InFlight, NoneLost
<1>6. NoneTwice'
  <2>1. \A task \in tasks : TaskWait(task) # StepWait
    BY DEF TypeOK, Tasks, TaskWait, StepWait, InvocationWait, Wait
  <2>. QED BY <1>1, <1>2, <2>1 DEF InFlight, NoneTwice
<1>. QED BY <1>4, <1>5, <1>6 DEF InFlight

\* What the message in hand completes.
Completed == IF handling.type \in Completions THEN {MessageWait(handling)} ELSE {}

\* A handler replaces the wait its message completes by those it starts tasks for.
LEMMA TasksStart ==
  ASSUME TypeOK, InFlight, handling' = Nothing, mailbox' = mailbox,
         NEW started, NEW new,
         \A task \in started : TaskWait(task) \in new,
         \A w \in new : \E task \in started : TaskWait(task) = w,
         \A t1, t2 \in started : TaskWait(t1) = TaskWait(t2) => t1 = t2,
         new \cap (Waits \ Completed) = {},
         Waits' = (Waits \ Completed) \cup new,
         tasks' = tasks \cup started, step' = step
  PROVE  InFlight'
<1>1. /\ CompletionsInTransit' = CompletionsInTransit \ {0}
      /\ \A i \in CompletionsInTransit' : Transit'[i] = Transit[i]
      /\ 0 \in CompletionsInTransit <=> handling.type \in Completions
      /\ Transit[0] = handling
  BY HandledTransit, TransitIndexes
<1>2. StepWait' = StepWait
  BY DEF StepWait
<1>3. \A task \in tasks : TaskWait(task) \in Waits \ Completed
  BY <1>1 DEF InFlight, NoneStale, NoneTwice, Completed
<1>4. step.status # "finished" => StepWait \in Waits \ Completed
  BY <1>1 DEF InFlight, NoneStale, NoneTwice, Completed
<1>5. \A i \in CompletionsInTransit' : MessageWait(Transit[i]) \in Waits \ Completed
  BY <1>1 DEF InFlight, NoneStale, NoneTwice, Completed
<1>6. NoneStale'
  BY <1>1, <1>2, <1>3, <1>4, <1>5 DEF NoneStale
<1>7. NoneLost'
  BY <1>1, <1>2 DEF InFlight, NoneLost, Completed
<1>8. NoneTwice'
  <2>1. \A t1, t2 \in tasks' : TaskWait(t1) = TaskWait(t2) => t1 = t2
    BY <1>3 DEF InFlight, NoneTwice
  <2>2. \A i, j \in CompletionsInTransit' :
          MessageWait(Transit'[i]) = MessageWait(Transit'[j]) => i = j
    BY <1>1 DEF InFlight, NoneTwice
  <2>3. \A i \in CompletionsInTransit' :
          /\ \A task \in tasks' : MessageWait(Transit'[i]) # TaskWait(task)
          /\ step'.status # "finished" => MessageWait(Transit'[i]) # StepWait'
    BY <1>1, <1>2, <1>5 DEF InFlight, NoneTwice
  <2>. QED BY <2>1, <2>2, <2>3 DEF NoneTwice
<1>. QED BY <1>6, <1>7, <1>8 DEF InFlight

LEMMA TaskStarts ==
  ASSUME TypeOK, InFlight, handling' = Nothing, mailbox' = mailbox, step' = step,
         NEW task, TaskWait(task) \notin Waits \ Completed,
         Waits' = (Waits \ Completed) \cup {TaskWait(task)},
         tasks' = tasks \cup {task}
  PROVE  InFlight'
<1>. DEFINE started == {task}
            new == {TaskWait(task)}
<1>1. /\ \A t \in started : TaskWait(t) \in new
      /\ \A w \in new : \E t \in started : TaskWait(t) = w
      /\ \A t1, t2 \in started : TaskWait(t1) = TaskWait(t2) => t1 = t2
      /\ new \cap (Waits \ Completed) = {}
      /\ Waits' = (Waits \ Completed) \cup new
      /\ tasks' = tasks \cup started
  OBVIOUS
<1>. HIDE DEF started, new
<1>. QED BY <1>1, TasksStart

LEMMA NoTaskStarts ==
  ASSUME TypeOK, InFlight, handling' = Nothing, mailbox' = mailbox, step' = step,
         Waits' = Waits \ Completed, tasks' = tasks
  PROVE  InFlight'
<1>. DEFINE started == {}
            new == {}
<1>1. /\ \A t \in started : TaskWait(t) \in new
      /\ \A w \in new : \E t \in started : TaskWait(t) = w
      /\ \A t1, t2 \in started : TaskWait(t1) = TaskWait(t2) => t1 = t2
      /\ new \cap (Waits \ Completed) = {}
      /\ Waits' = (Waits \ Completed) \cup new
      /\ tasks' = tasks \cup started
  OBVIOUS
<1>. HIDE DEF started, new
<1>. QED BY <1>1, TasksStart

-----------------------------------------------------------------------------
(* What the turn waits for, phase by phase. *)

LEMMA WaitsOfPhase ==
  ASSUME TypeOK
  PROVE  /\ turn.phase \in Phases
         /\ turn.phase = "Idle" => Waits = {}
         /\ turn.phase = "PreparingContext" =>
              Waits = {Wait("PreparingContext", turn.id, 0, 0)}
         /\ turn.phase = "Streaming" => Waits = {Wait("Streaming", 0, turn.step, 0)}
         /\ turn.phase = "RunningTools" =>
              Waits = {InvocationWait(turn.pending[k], k) : k \in DOMAIN turn.pending}
BY DEF TypeOK, TurnOK, Phases, Waits

LEMMA InvocationWaitInjective ==
  ASSUME NEW j \in Invocations, NEW k \in Invocations, NEW s1, NEW s2,
         InvocationWait(s1, j) = InvocationWait(s2, k)
  PROVE  j = k /\ s1 = s2
<1>1. s1 = s2 /\ j.turn = k.turn /\ j.step = k.step /\ j.call = k.call
  BY DEF InvocationWait, Wait
<1>2. /\ j = [turn |-> j.turn, step |-> j.step, call |-> j.call]
      /\ k = [turn |-> k.turn, step |-> k.step, call |-> k.call]
  BY DEF Invocations
<1>. QED BY <1>1, <1>2

LEMMA PendingType ==
  ASSUME TypeOK
  PROVE  /\ DOMAIN turn.pending \subseteq Invocations
         /\ \A k \in DOMAIN turn.pending : turn.pending[k] \in InvocationStates
BY DEF TypeOK, TurnOK

\* A completion in hand is never stale.
LEMMA NotStale ==
  ASSUME TypeOK, InFlight, handling.type \in Completions
  PROVE  MessageWait(handling) \in Waits
<1>1. 0 \in CompletionsInTransit /\ Transit[0] = handling
  BY TransitIndexes DEF CompletionsInTransit
<1>. QED BY <1>1 DEF InFlight, NoneStale

LEMMA AwaitedInvocation ==
  ASSUME TypeOK, BatchOfTurn, InFlight, handling.type \in Completions,
         NEW k \in Invocations, NEW s \in InvocationStates,
         MessageWait(handling) = InvocationWait(s, k)
  PROVE  Awaiting(k, s)
<1>1. InvocationWait(s, k) \in Waits
  BY NotStale
<1>2. turn.phase = "RunningTools"
  BY <1>1, WaitsOfPhase DEF InvocationWait, Wait, InvocationStates, Phases
<1>3. PICK j \in DOMAIN turn.pending :
        InvocationWait(turn.pending[j], j) = InvocationWait(s, k)
  BY <1>1, <1>2, WaitsOfPhase
<1>4. j = k /\ turn.pending[j] = s
  BY <1>3, PendingType, InvocationWaitInjective
<1>. QED BY <1>2, <1>4 DEF Awaiting, BatchOfTurn

LEMMA CurrentPreparation ==
  ASSUME TypeOK, InFlight, handling.type = "ContextPrepared"
  PROVE  /\ turn.phase = "PreparingContext" /\ turn.id = handling.turn
         /\ Waits = Completed
<1>1. MessageWait(handling) = Wait("PreparingContext", handling.turn, 0, 0)
  BY DEF MessageWait
<1>2. Wait("PreparingContext", handling.turn, 0, 0) \in Waits
  BY <1>1, NotStale DEF Completions
<1>3. turn.phase = "PreparingContext"
  BY <1>2, WaitsOfPhase, PendingType
     DEF InvocationWait, Wait, InvocationStates, Phases
<1>4. turn.id = handling.turn
  BY <1>2, <1>3, WaitsOfPhase DEF Wait
<1>. QED BY <1>1, <1>3, <1>4, WaitsOfPhase DEF Completed, Completions

LEMMA CurrentStep ==
  ASSUME TypeOK, InFlight, handling.type = "StepFinished"
  PROVE  /\ turn.phase = "Streaming" /\ turn.step = handling.step
         /\ Waits = Completed
<1>1. MessageWait(handling) = Wait("Streaming", 0, handling.step, 0)
  BY DEF MessageWait
<1>2. Wait("Streaming", 0, handling.step, 0) \in Waits
  BY <1>1, NotStale DEF Completions
<1>3. turn.phase = "Streaming"
  BY <1>2, WaitsOfPhase, PendingType
     DEF InvocationWait, Wait, InvocationStates, Phases
<1>4. turn.step = handling.step
  BY <1>2, <1>3, WaitsOfPhase DEF Wait
<1>. QED BY <1>1, <1>3, <1>4, WaitsOfPhase DEF Completed, Completions

-----------------------------------------------------------------------------
(* What several handlers end with. *)

\* The handler has no message left and touches no step.
Over == handling' = Nothing /\ mailbox' = mailbox /\ step' = step

LEMMA PrepareContextStarts ==
  ASSUME TypeOK, InFlight, Over, Waits \subseteq Completed, NEW t, NEW l,
         PrepareContext(t, l)
  PROVE  InFlight'
<1>1. Waits' = {Wait("PreparingContext", t, 0, 0)}
  BY DEF PrepareContext, PreparingContext, Idle, Waits
<1>2. TaskWait(ContextHooks(t, l.conversation)) = Wait("PreparingContext", t, 0, 0)
  BY DEF TaskWait, ContextHooks
<1>3. tasks' = tasks \cup {ContextHooks(t, l.conversation)}
  BY DEF PrepareContext
<1>4. Waits \ Completed = {}
  OBVIOUS
<1>. QED BY <1>1, <1>2, <1>3, <1>4, TaskStarts DEF Over

LEMMA DispatchStarts ==
  ASSUME TypeOK, InFlight, Over, Waits \subseteq Completed, NEW l, NEW q,
         DispatchNextInput(l, q)
  PROVE  InFlight'
<1>1. CASE q = <<>>
  <2>1. Waits' = {} /\ tasks' = tasks
    BY <1>1 DEF DispatchNextInput, Waits, Idle
  <2>2. Waits \ Completed = {}
    OBVIOUS
  <2>. QED BY <2>1, <2>2, NoTaskStarts DEF Over
<1>2. CASE q # <<>>
  BY <1>2, PrepareContextStarts DEF DispatchNextInput
<1>. QED BY <1>1, <1>2

LEMMA EndTurnStarts ==
  ASSUME TypeOK, InFlight, Over, Waits \subseteq Completed, NEW l, EndTurn(l)
  PROVE  InFlight'
BY DispatchStarts DEF EndTurn

\* The awaited invocation k gets its result.
LEMMA ResultCommitted ==
  ASSUME TypeOK, InFlight, Over, handling.type \in Completions,
         NEW k \in Invocations, NEW s, Awaiting(k, s),
         MessageWait(handling) = InvocationWait(s, k),
         NEW l, NEW o, CommitInvocationResult(k, l, o)
  PROVE  InFlight'
<1>. DEFINE rest == WithoutInvocation(turn.pending, k)
<1>1. /\ turn.phase = "RunningTools" /\ k \in DOMAIN turn.pending
      /\ turn.pending[k] = s
      /\ DOMAIN rest = DOMAIN turn.pending \ {k}
      /\ \A j \in DOMAIN rest : rest[j] = turn.pending[j]
  BY DEF Awaiting, WithoutInvocation
<1>2. Completed = {InvocationWait(s, k)}
  BY DEF Completed
<1>3. CASE DOMAIN rest # {} /\ turn' = [turn EXCEPT !.pending = rest]
             /\ tasks' = tasks
  <2>1. turn'.phase = "RunningTools" /\ turn'.pending = rest
    BY <1>1, <1>3 DEF TypeOK, TurnOK
  <2>2. Waits' = {InvocationWait(rest[j], j) : j \in DOMAIN rest}
    BY <2>1 DEF Waits
  <2>3. Waits' = Waits \ Completed
    <3>1. \A j \in DOMAIN turn.pending :
            InvocationWait(turn.pending[j], j) \in Completed <=> j = k
      BY <1>1, <1>2, PendingType, InvocationWaitInjective
    <3>. QED BY <1>1, <2>2, <3>1, WaitsOfPhase
  <2>. QED BY <1>3, <2>3, NoTaskStarts DEF Over
<1>4. CASE DOMAIN rest = {}
  <2>1. Waits \subseteq Completed
    BY <1>1, <1>2, <1>4, WaitsOfPhase
  <2>. QED
    BY <1>4, <2>1, EndTurnStarts, PrepareContextStarts DEF CommitInvocationResult
<1>. QED BY <1>3, <1>4 DEF CommitInvocationResult

\* The awaited invocation k goes on, and waits for the next task.
LEMMA InvocationAdvances ==
  ASSUME TypeOK, InFlight, Over, handling.type \in Completions,
         NEW k \in Invocations, NEW s, Awaiting(k, s),
         MessageWait(handling) = InvocationWait(s, k),
         NEW next \in InvocationStates, turn' = [turn EXCEPT !.pending[k] = next],
         NEW task, TaskWait(task) = InvocationWait(next, k), tasks' = tasks \cup {task}
  PROVE  InFlight'
<1>1. /\ turn.phase = "RunningTools" /\ k \in DOMAIN turn.pending
      /\ turn.pending[k] = s
  BY DEF Awaiting
<1>2. Completed = {InvocationWait(s, k)}
  BY DEF Completed
<1>3. /\ turn'.phase = "RunningTools" /\ DOMAIN turn'.pending = DOMAIN turn.pending
      /\ turn'.pending[k] = next
      /\ \A j \in DOMAIN turn.pending \ {k} : turn'.pending[j] = turn.pending[j]
  BY <1>1 DEF TypeOK, TurnOK
<1>4. Waits' = {InvocationWait(turn'.pending[j], j) : j \in DOMAIN turn.pending}
  BY <1>3 DEF Waits
<1>5. \A j \in DOMAIN turn.pending :
        InvocationWait(turn.pending[j], j) \in Completed <=> j = k
  BY <1>1, <1>2, PendingType, InvocationWaitInjective
<1>6. Waits \ Completed =
        {InvocationWait(turn.pending[j], j) : j \in DOMAIN turn.pending \ {k}}
  BY <1>1, <1>5, WaitsOfPhase
<1>7. Waits' = (Waits \ Completed) \cup {InvocationWait(next, k)}
  BY <1>1, <1>3, <1>4, <1>6
<1>8. InvocationWait(next, k) \notin Waits \ Completed
  BY <1>1, <1>6, PendingType, InvocationWaitInjective
<1>. QED BY <1>7, <1>8, TaskStarts DEF Over

-----------------------------------------------------------------------------
(* One lemma per kind of step. *)

\* The message in hand was no completion.
LEMMA HandledOther ==
  ASSUME TypeOK, handling.type \notin Completions, handling' = Nothing,
         mailbox' = mailbox
  PROVE  Shifted(0) /\ Completed = {}
<1>1. DOMAIN Transit \subseteq Nat
  BY TransitIndexes
<1>2. CompletionsInTransit' = CompletionsInTransit
  BY HandledTransit
<1>3. \A i \in CompletionsInTransit : i \in Nat /\ Transit'[i] = Transit[i]
  BY <1>1, <1>2, HandledTransit DEF CompletionsInTransit
<1>. QED BY <1>2, <1>3 DEF Shifted, Completed

LEMMA ClientInFlight ==
  ASSUME TypeOK, InFlight, actor # "stopped", ClientNext
  PROVE  InFlight'
<1>. USE DEF actorVars, turnVars
<1>1. /\ sent.inputs + 1 \in Nat /\ sent.prompts + 1 \in Nat
  BY DEF TypeOK
<1>2. Waits' = Waits /\ tasks' = tasks /\ step' = step /\ handling' = handling
  BY DEF ClientNext, ClientSubmits, ClientCancels, ClientSetsPrompt, ClientCloses,
         Waits
<1>3. CASE ClientCloses
  BY <1>2, <1>3, UnchangedTransit, Quiet DEF ClientCloses
<1>4. CASE ClientSubmits \/ ClientCancels \/ ClientSetsPrompt
  <2>1. \E m \in MailboxMessages : Deliver(m) /\ m.type \notin Completions
    BY <1>1, <1>4, MessageTypes
       DEF ClientSubmits, ClientCancels, ClientSetsPrompt, SubmitInput, Cancel,
           SetSystemPrompt, Completions
  <2>. QED BY <1>2, <2>1, DeliverOther, Quiet
<1>. QED BY <1>3, <1>4 DEF ClientNext

LEMMA TaskInFlight ==
  ASSUME TypeOK, InFlight, actor # "stopped", TaskNext
  PROVE  InFlight'
<1>. USE DEF actorVars, turnVars, TaskVars
<1>1. \E task \in tasks, m \in MailboxMessages :
        /\ Deliver(m) /\ tasks' = tasks \ {task} /\ UNCHANGED TaskVars
        /\ m.type \in Completions /\ MessageWait(m) = TaskWait(task)
  <2>. USE DEF Completions, MessageWait, TaskWait
  <2>1. tasks \subseteq Tasks
    BY DEF TypeOK
  <2>2. HookVerdicts \subseteq Verdicts /\ "Cancelled" \in Verdicts
          /\ ToolOutcomes \subseteq Outcomes /\ "Error" \in Outcomes
    BY DataAssumption DEF Verdicts, Outcomes
  <2>3. CASE FinishContextHooks
    BY <2>1, <2>3, TaskFields, MessageTypes DEF FinishContextHooks, ContextPrepared
  <2>4. CASE FinishBeforeToolUse
    BY <2>1, <2>2, <2>4, TaskFields, MessageTypes
       DEF FinishBeforeToolUse, ToolInputPrepared
  <2>5. CASE FinishTool
    BY <2>1, <2>5, TaskFields, MessageTypes DEF FinishTool, ToolFinished
  <2>6. CASE FinishAfterToolUse
    BY <2>1, <2>2, <2>6, TaskFields, MessageTypes
       DEF FinishAfterToolUse, ToolResultFinalized
  <2>. QED BY <2>3, <2>4, <2>5, <2>6 DEF TaskNext
<1>. QED BY <1>1, TaskReports

LEMMA StepInFlight ==
  ASSUME TypeOK, InFlight, actor # "stopped", StepNext \/ StreamNext
  PROVE  InFlight'
<1>. USE DEF clientVars, actorVars, turnVars, StepVars
<1>1. /\ step \in Steps /\ step.id \in Nat /\ step.reason \in StepReasons
      /\ step.message \in AssistantMessages
  BY DEF TypeOK, Steps
<1>2. UNCHANGED <<turn, tasks, handling>> /\ Waits' = Waits
  <2>1. ASSUME StreamNext PROVE UNCHANGED <<turn, tasks, handling>>
    BY <2>1 DEF StreamNext, StreamProgresses, StreamTerminates, StreamEnds, Pump
  <2>2. ASSUME StepNext PROVE UNCHANGED <<turn, tasks, handling>>
    BY <2>2 DEF StepNext, StepStarts, StepForwardsDelta, StepTakesDone,
                StepBreaks, StepStops
  <2>. QED BY <2>1, <2>2 DEF Waits
<1>3. CASE StepStops
  <2>. DEFINE m == StepFinished(step.id, step.reason, step.message)
  <2>1. m \in MailboxMessages
    BY <1>1, MessageTypes
  <2>2. m.type \in Completions /\ MessageWait(m) = StepWait
    BY DEF StepFinished, Completions, MessageWait, StepWait
  <2>3. step.status # "finished" /\ step'.status = "finished" /\ Deliver(m)
    BY <1>3 DEF StepStops, FinishedStep, NewStep
  <2>. HIDE DEF m
  <2>. QED BY <1>2, <2>1, <2>2, <2>3, StepReports
<1>4. CASE StepStarts
  <2>. DEFINE m == StepEvent(ModelStepStarted(step.id))
  <2>1. m \in MailboxMessages /\ m.type \notin Completions
    BY <1>1, MessageTypes, TurnEventTypes DEF StepEvent, Completions
  <2>2. /\ Deliver(m) /\ step'.id = step.id
        /\ step.status # "finished" /\ step'.status # "finished"
    BY <1>1, <1>4 DEF StepStarts, Steps
  <2>. HIDE DEF m
  <2>. QED BY <1>2, <2>1, <2>2, DeliverOther, Quiet
<1>5. CASE StepForwardsDelta
  <2>. DEFINE m == Live(StepProgress(step.id))
  <2>1. m \in MailboxMessages /\ m.type \notin Completions
    BY <1>1, MessageTypes, TurnEventTypes DEF Live, Completions
  <2>2. /\ Deliver(m) /\ step'.id = step.id
        /\ step.status # "finished" /\ step'.status # "finished"
    BY <1>1, <1>5 DEF StepForwardsDelta, StepReceives, Steps
  <2>. HIDE DEF m
  <2>. QED BY <1>2, <2>1, <2>2, DeliverOther, Quiet
<1>6. CASE StepTakesDone \/ StepBreaks \/ StreamNext
  <2>1. /\ mailbox' = mailbox /\ step'.id = step.id
        /\ (step'.status = "finished") = (step.status = "finished")
    <3>1. CASE StepTakesDone
      BY <1>1, <3>1 DEF StepTakesDone, StepReceives, Steps
    <3>2. CASE StepBreaks
      BY <1>1, <3>2 DEF StepBreaks, StepReceives, Steps
    <3>3. ASSUME NEW messages, NEW stream, Pump(messages, stream)
          PROVE  /\ mailbox' = mailbox /\ step'.id = step.id
                 /\ (step'.status = "finished") = (step.status = "finished")
      BY <1>1, <3>3 DEF Pump, Steps
    <3>. QED
      BY <1>6, <3>1, <3>2, <3>3
         DEF StreamNext, StreamProgresses, StreamTerminates, StreamEnds
  <2>. QED BY <1>2, <2>1, UnchangedTransit, Quiet
<1>. QED BY <1>3, <1>4, <1>5, <1>6 DEF StepNext

LEMMA LoopInFlight ==
  ASSUME TypeOK, InFlight, OnStart \/ Receive
  PROVE  InFlight'
<1>. USE DEF clientVars, turnVars
<1>1. Waits' = Waits /\ tasks' = tasks /\ step' = step
  BY DEF OnStart, Receive, Waits
<1>2. CASE OnStart
  BY <1>1, <1>2, UnchangedTransit, Quiet DEF OnStart
<1>3. CASE Receive
  BY <1>1, <1>3, ReceiveTransit, Quiet
<1>. QED BY <1>2, <1>3

\* A handler that completes nothing and starts nothing.
LEMMA QuietHandler ==
  ASSUME TypeOK, InFlight, handling.type \notin Completions, handling' = Nothing,
         mailbox' = mailbox, Waits' = Waits, tasks' = tasks, step'.id = step.id,
         (step'.status = "finished") = (step.status = "finished")
  PROVE  InFlight'
BY HandledOther, Quiet

LEMMA ContextPreparedInFlight ==
  ASSUME TypeOK, InFlight, HandleContextPrepared
  PROVE  InFlight'
<1>1. /\ turn.phase = "PreparingContext" /\ turn.id = handling.turn
      /\ Waits = Completed
  BY CurrentPreparation DEF HandleContextPrepared, Handle
<1>2. handling' = Nothing /\ mailbox' = mailbox
  BY DEF HandleContextPrepared, Handle
<1>3. CASE EndTurn(log) /\ UNCHANGED step
  BY <1>1, <1>2, <1>3, EndTurnStarts DEF Over
<1>4. CASE /\ step' = NewStep(generation + 1, StepContext(handling.context))
           /\ turn' = Streaming(turn.id, generation + 1)
           /\ UNCHANGED tasks
  <2>1. /\ step'.status # "finished" /\ step'.id = generation + 1
        /\ Waits' = {Wait("Streaming", 0, generation + 1, 0)}
    BY <1>4 DEF NewStep, Streaming, Idle, Waits
  <2>2. Waits' = {StepWait'}
    BY <2>1 DEF StepWait
  <2>3. Completed = {MessageWait(handling)} /\ 0 \in CompletionsInTransit
    BY <1>2, HandledTransit DEF Completed, HandleContextPrepared, Handle, Completions
  <2>4. tasks' = {}
    BY <1>1, <1>4, <2>3, TransitIndexes DEF InFlight, NoneStale, NoneTwice
  <2>5. CompletionsInTransit' = {}
    <3>1. \A i \in CompletionsInTransit : i = 0
      BY <1>1, <2>3, TransitIndexes DEF InFlight, NoneStale, NoneTwice
    <3>. QED BY <1>2, <3>1, HandledTransit
  <2>. QED BY <2>1, <2>2, <2>4, <2>5 DEF InFlight, NoneStale, NoneLost, NoneTwice
<1>. QED BY <1>1, <1>3, <1>4 DEF HandleContextPrepared

\* The tools of one assistant message are proposed together.
LEMMA DispatchToolCallsStarts ==
  ASSUME TypeOK, InFlight, Over, Waits \subseteq Completed, NEW l, NEW n \in Nat,
         DispatchToolCalls(l, n)
  PROVE  InFlight'
<1>. DEFINE calls == [c \in 1..n |-> Invocation(turn.id, turn.step, c)]
            invocations == {calls[c] : c \in 1..n}
            started == {BeforeToolUse(k) : k \in invocations}
            new == {InvocationWait("Proposing", k) : k \in invocations}
<1>1. invocations \subseteq Invocations
  BY InvocationType DEF TypeOK, TurnOK
<1>2. /\ turn' = RunningTools(turn.id, [k \in invocations |-> "Proposing"])
      /\ tasks' = tasks \cup started
  BY DEF DispatchToolCalls
<1>. HIDE DEF invocations, calls
<1>3. Waits' = new
  BY <1>2 DEF RunningTools, Idle, Waits
<1>4. \A k \in invocations : TaskWait(BeforeToolUse(k)) = InvocationWait("Proposing", k)
  BY DEF TaskWait, BeforeToolUse
<1>5. /\ \A task \in started : TaskWait(task) \in new
      /\ \A w \in new : \E task \in started : TaskWait(task) = w
  BY <1>4
<1>6. \A t1, t2 \in started : TaskWait(t1) = TaskWait(t2) => t1 = t2
  BY <1>1, <1>4, InvocationWaitInjective
<1>7. new \cap (Waits \ Completed) = {} /\ Waits' = (Waits \ Completed) \cup new
  BY <1>3
<1>. HIDE DEF started, new
<1>. QED BY <1>2, <1>5, <1>6, <1>7, TasksStart DEF Over

LEMMA StepFinishedInFlight ==
  ASSUME TypeOK, InFlight, HandleStepFinished
  PROVE  InFlight'
<1>1. /\ turn.phase = "Streaming" /\ turn.step = handling.step
      /\ Waits = Completed /\ Over
  BY CurrentStep DEF HandleStepFinished, Handle, Over
<1>2. handling.message.calls \in Nat
  BY HandledMessage, MessageFields DEF HandleStepFinished, AssistantMessages
<1>3. \E l : EndTurn(l) \/ DispatchToolCalls(l, handling.message.calls)
  BY <1>1 DEF HandleStepFinished
<1>. QED BY <1>1, <1>2, <1>3, EndTurnStarts, DispatchToolCallsStarts

LEMMA ToolHandlersInFlight ==
  ASSUME TypeOK, BatchOfTurn, InFlight,
         HandleToolInputPrepared \/ HandleToolFinished \/ HandleToolResultFinalized
  PROVE  InFlight'
<1>. DEFINE k == handling.inv
<1>1. Over /\ handling.type \in Completions /\ k \in Invocations
  BY HandledMessage, MessageFields
     DEF HandleToolInputPrepared, HandleToolFinished, HandleToolResultFinalized,
         Handle, Over, Completions
<1>2. CASE HandleToolInputPrepared
  <2>1. MessageWait(handling) = InvocationWait("Proposing", k)
    BY <1>2 DEF HandleToolInputPrepared, Handle, MessageWait
  <2>2. Awaiting(k, "Proposing")
    BY <1>1, <2>1, AwaitedInvocation DEF InvocationStates
  <2>3. CASE CommitInvocationResult(k, log, RefusedOutcome(handling.verdict))
    BY <1>1, <2>1, <2>2, <2>3, ResultCommitted
  <2>4. CASE /\ turn' = [turn EXCEPT !.pending[k] = "Executing"]
             /\ tasks' = tasks \cup {RunTool(k)}
    <3>1. TaskWait(RunTool(k)) = InvocationWait("Executing", k)
      BY DEF TaskWait, RunTool
    <3>. QED
      BY <1>1, <2>1, <2>2, <2>4, <3>1, InvocationAdvances DEF InvocationStates
  <2>. QED BY <1>2, <2>2, <2>3, <2>4 DEF HandleToolInputPrepared
<1>3. CASE HandleToolFinished
  <2>1. MessageWait(handling) = InvocationWait("Executing", k)
    BY <1>3 DEF HandleToolFinished, Handle, MessageWait
  <2>2. Awaiting(k, "Executing")
    BY <1>1, <2>1, AwaitedInvocation DEF InvocationStates
  <2>3. CASE \E l : FinalizeResult(k, l, "Cancelled")
    BY <1>1, <2>1, <2>2, <2>3, ResultCommitted DEF FinalizeResult
  <2>4. CASE /\ turn' = [turn EXCEPT !.pending[k] = "Finalized"]
             /\ tasks' = tasks \cup {AfterToolUse(k)}
    <3>1. TaskWait(AfterToolUse(k)) = InvocationWait("Finalized", k)
      BY DEF TaskWait, AfterToolUse
    <3>. QED
      BY <1>1, <2>1, <2>2, <2>4, <3>1, InvocationAdvances DEF InvocationStates
  <2>. QED BY <1>3, <2>2, <2>3, <2>4 DEF HandleToolFinished
<1>4. CASE HandleToolResultFinalized
  <2>1. MessageWait(handling) = InvocationWait("Finalized", k)
    BY <1>4 DEF HandleToolResultFinalized, Handle, MessageWait
  <2>2. Awaiting(k, "Finalized")
    BY <1>1, <2>1, AwaitedInvocation DEF InvocationStates
  <2>3. FinalizeResult(k, log, handling.outcome)
    BY <1>4, <2>2 DEF HandleToolResultFinalized
  <2>. QED BY <1>1, <2>1, <2>2, <2>3, ResultCommitted DEF FinalizeResult
<1>. QED BY <1>2, <1>3, <1>4

LEMMA HandlersInFlight ==
  ASSUME TypeOK, BatchOfTurn, InFlight, Handlers
  PROVE  InFlight'
<1>. USE DEF turnVars, Handle
<1>1. CASE HandleSubmitInput
  <2>1. handling.type \notin Completions
    BY <1>1 DEF HandleSubmitInput, Completions
  <2>2. CASE UNCHANGED <<turn, tasks>>
    BY <1>1, <2>1, <2>2, QuietHandler DEF HandleSubmitInput, Waits
  <2>3. CASE turn.phase = "Idle" /\ \E q : DispatchNextInput(log, q)
    BY <1>1, <2>3, WaitsOfPhase, DispatchStarts DEF HandleSubmitInput, Over
  <2>. QED BY <1>1, <2>2, <2>3 DEF HandleSubmitInput
<1>2. CASE HandleSetSystemPrompt \/ HandleStepEvent \/ HandleLive
  BY <1>2, QuietHandler
     DEF HandleSetSystemPrompt, HandleStepEvent, HandleLive, Waits, Completions
<1>3. CASE HandleCancel
  <2>1. handling.type \notin Completions
    BY <1>3 DEF HandleCancel, Completions
  <2>2. Waits' = Waits
    <3>1. /\ turn'.phase = turn.phase /\ turn'.id = turn.id
          /\ turn'.step = turn.step /\ turn'.pending = turn.pending
      BY <1>3 DEF HandleCancel, TypeOK, TurnOK
    <3>. QED BY <3>1 DEF Waits
  <2>3. /\ step'.id = step.id
        /\ (step'.status = "finished") = (step.status = "finished")
    BY <1>3 DEF HandleCancel, CancelStep, TypeOK, Steps
  <2>. QED BY <1>3, <2>1, <2>2, <2>3, QuietHandler DEF HandleCancel
<1>. QED
  BY <1>1, <1>2, <1>3, ContextPreparedInFlight, StepFinishedInFlight,
     ToolHandlersInFlight DEF Handlers

LEMMA NextInFlight ==
  ASSUME TypeOK, BatchOfTurn, OneCompletionInFlight, [Next]_vars
  PROVE  OneCompletionInFlight'
<1>. SUFFICES ASSUME actor' # "stopped" PROVE InFlight'
  BY DEF OneCompletionInFlight, InFlight
<1>. USE DEF clientVars, actorVars, turnVars
<1>1. CASE ClientNext
  <2>1. actor # "stopped"
    BY <1>1 DEF ClientNext, ClientSubmits, ClientCancels, ClientSetsPrompt,
                ClientCloses
  <2>. QED BY <1>1, <2>1, ClientInFlight DEF OneCompletionInFlight, InFlight
<1>2. CASE TaskNext
  <2>1. actor # "stopped"
    BY <1>2 DEF TaskNext, FinishContextHooks, FinishBeforeToolUse, FinishTool,
                FinishAfterToolUse, TaskVars
  <2>. QED BY <1>2, <2>1, TaskInFlight DEF OneCompletionInFlight, InFlight
<1>3. CASE StepNext \/ StreamNext
  <2>1. actor # "stopped"
    BY <1>3 DEF StepNext, StreamNext, StepStarts, StepForwardsDelta, StepTakesDone,
                StepBreaks, StepStops, StreamProgresses, StreamTerminates,
                StreamEnds, Pump, StepVars
  <2>. QED BY <1>3, <2>1, StepInFlight DEF OneCompletionInFlight, InFlight
<1>4. CASE OnStart \/ Receive
  <2>1. actor # "stopped"
    BY <1>4 DEF OnStart, Receive
  <2>. QED BY <1>4, <2>1, LoopInFlight DEF OneCompletionInFlight, InFlight
<1>5. CASE Handlers
  <2>1. actor # "stopped"
    BY <1>5 DEF Handlers, Handle, HandleSubmitInput, HandleSetSystemPrompt,
                HandleCancel, HandleStepEvent, HandleLive, HandleContextPrepared,
                HandleStepFinished, HandleToolInputPrepared, HandleToolFinished,
                HandleToolResultFinalized
  <2>. QED BY <1>5, <2>1, HandlersInFlight DEF OneCompletionInFlight, InFlight
<1>6. CASE UNCHANGED vars
  <2>1. actor # "stopped"
    BY <1>6 DEF vars
  <2>2. Waits' = Waits
    BY <1>6 DEF vars, Waits
  <2>. QED
    BY <1>6, <2>1, <2>2, UnchangedTransit, Quiet
       DEF vars, OneCompletionInFlight, InFlight
<1>7. ~OnStop
  BY DEF OnStop
<1>. QED
  BY <1>1, <1>2, <1>3, <1>4, <1>5, <1>6, <1>7 DEF Next, ActorNext, AtRest

LEMMA InitInFlight == Init => OneCompletionInFlight
<1>. SUFFICES ASSUME Init PROVE InFlight
  BY DEF OneCompletionInFlight, InFlight
<1>1. Waits = {} /\ tasks = {} /\ step.status = "finished"
  BY DEF Init, Idle, Waits, FinishedStep, NewStep
<1>2. CompletionsInTransit = {}
  BY DEF Init, Transit, CompletionsInTransit, Completions, Nothing
<1>. QED BY <1>1, <1>2 DEF InFlight, NoneStale, NoneLost, NoneTwice

(***************************************************************************)
(* While the session runs, each wait of its turn (the hooks of a context,  *)
(* the step, each tool call) has exactly one completion on its way, as a   *)
(* task, as the live step or as a message, and no other completion is:     *)
(* the handlers of harness.rs neither lose nor repeat work, and their      *)
(* checks for stale messages are never needed.                             *)
(***************************************************************************)
THEOREM CompletionsCorrect == Spec => []OneCompletionInFlight
<1>. DEFINE IInv == TypeOK /\ TurnInv /\ OneCompletionInFlight
<1>1. Init => IInv
  BY InitType, InitTurn, InitInFlight
<1>2. IInv /\ [Next]_vars => IInv'
  BY NextType, NextTurnInv, NextInFlight DEF TurnInv
<1>3. IInv => OneCompletionInFlight
  OBVIOUS
<1>. QED BY <1>1, <1>2, <1>3, PTL DEF Spec

(*****************************************************************************)
(* A session's history and its present: the snapshot a step streams from is  *)
(* fresh, progress is published within its step, inputs are committed in     *)
(* order.  These rest on OneCompletionInFlight, which says when nobody can   *)
(* hold a snapshot, and on the order in which a step reports: its start, its *)
(* progress, its end, all through the one mailbox of the session actor.      *)
(*****************************************************************************)

-----------------------------------------------------------------------------
(* The life of the session actor. *)

ActorInv ==
  /\ handling # Nothing => actor = "running"
  /\ actor = "stopped" => mailbox = <<>>
  /\ actor = "starting" =>
       /\ log = EmptyLog /\ turn = Idle /\ queue = <<>>
       /\ turns = 0 /\ generation = 0

\* The client, tasks, a step or a stream moves.
Outside == ClientNext \/ TaskNext \/ StepNext \/ StreamNext \/ UNCHANGED vars

LEMMA OutsideMoves ==
  ASSUME Outside
  PROVE  /\ UNCHANGED <<actor, handling, turn, turns, queue, generation, log>>
         /\ mailbox' = mailbox \/ \E m : Deliver(m)
<1>. USE DEF actorVars, turnVars, TaskVars, StepVars
<1>1. CASE ClientNext
  BY <1>1 DEF ClientNext, ClientSubmits, ClientCancels, ClientSetsPrompt, ClientCloses
<1>2. CASE TaskNext
  BY <1>2 DEF TaskNext, FinishContextHooks, FinishBeforeToolUse, FinishTool,
              FinishAfterToolUse
<1>3. CASE StepNext
  BY <1>3 DEF StepNext, StepStarts, StepForwardsDelta, StepTakesDone, StepBreaks,
              StepStops
<1>4. CASE StreamNext
  BY <1>4 DEF StreamNext, StreamProgresses, StreamTerminates, StreamEnds, Pump
<1>5. CASE UNCHANGED vars
  BY <1>5 DEF vars
<1>. QED BY <1>1, <1>2, <1>3, <1>4, <1>5 DEF Outside

LEMMA HandlersMove ==
  ASSUME Handlers
  PROVE  /\ handling.type # "None" /\ handling' = Nothing
         /\ UNCHANGED <<actor, mailbox, sent>>
BY DEF Handlers, Handle, HandleSubmitInput, HandleSetSystemPrompt, HandleCancel,
       HandleStepEvent, HandleLive, HandleContextPrepared, HandleStepFinished,
       HandleToolInputPrepared, HandleToolFinished, HandleToolResultFinalized

LEMMA StepKinds ==
  ASSUME [Next]_vars
  PROVE  OnStart \/ Receive \/ OnStop \/ Handlers \/ Outside
BY DEF Next, ActorNext, AtRest, Outside

LEMMA InitActor == Init => ActorInv
BY DEF Init, ActorInv

LEMMA NextActor ==
  ASSUME TypeOK, ActorInv, [Next]_vars
  PROVE  ActorInv'
<1>. USE DEF ActorInv
<1>1. CASE OnStart
  BY <1>1 DEF OnStart, TypeOK
<1>2. CASE Receive
  BY <1>2 DEF Receive
<1>3. CASE OnStop
  BY <1>3 DEF OnStop
<1>4. CASE Handlers
  <2>1. handling # Nothing
    BY <1>4, HandlersMove DEF Nothing
  <2>. QED BY <1>4, <2>1, HandlersMove
<1>5. CASE Outside
  BY <1>5, OutsideMoves DEF Deliver
<1>. QED BY <1>1, <1>2, <1>3, <1>4, <1>5, StepKinds

LEMMA HandlerRuns ==
  ASSUME ActorInv, Handlers
  PROVE  actor = "running" /\ actor' = "running"
BY HandlersMove DEF ActorInv, Nothing

-----------------------------------------------------------------------------
(* The messages in transit keep their order. *)

\* What was at i + d is at i, but for the messages at gone.
Moved(d, gone) ==
  /\ \A i \in DOMAIN Transit' :
       \/ Transit'[i] = Nothing
       \/ i + d \in DOMAIN Transit \ gone /\ Transit'[i] = Transit[i + d]
  /\ \A j \in DOMAIN Transit \ gone :
       Transit[j] = Nothing \/ (j - d \in DOMAIN Transit' /\ Transit'[j - d] = Transit[j])
  /\ DOMAIN Transit \subseteq Nat /\ DOMAIN Transit' \subseteq Nat

LEMMA UnchangedMoved ==
  ASSUME TypeOK, UNCHANGED <<mailbox, handling>>
  PROVE  Moved(0, {})
<1>1. DOMAIN Transit \subseteq Nat
  BY TransitIndexes
<1>2. Transit' = Transit
  BY DEF Transit
<1>. QED BY <1>1, <1>2 DEF Moved

LEMMA ReceiveMoved ==
  ASSUME TypeOK, Receive
  PROVE  Moved(1, {})
<1>1. mailbox \in Seq(MailboxMessages) /\ mailbox # <<>>
  BY DEF TypeOK, Receive
<1>2. /\ Len(mailbox) \in Nat /\ Len(mailbox) >= 1
      /\ Len(mailbox') = Len(mailbox) - 1
      /\ handling' = mailbox[1]
      /\ \A i \in 1..Len(mailbox') : mailbox'[i] = mailbox[i + 1]
  BY <1>1 DEF Receive
<1>3. /\ DOMAIN Transit = 0..Len(mailbox)
      /\ DOMAIN Transit' = 0..(Len(mailbox) - 1)
      /\ \A i \in 0..(Len(mailbox) - 1) : Transit'[i] = Transit[i + 1]
      /\ Transit[0] = Nothing
  BY <1>2 DEF Transit, Receive
<1>4. \A j \in DOMAIN Transit : j # 0 => j - 1 \in DOMAIN Transit' /\ (j - 1) + 1 = j
  BY <1>2, <1>3
<1>. QED BY <1>2, <1>3, <1>4 DEF Moved

LEMMA HandledMoved ==
  ASSUME TypeOK, handling' = Nothing, mailbox' = mailbox
  PROVE  Moved(0, {0})
<1>1. /\ DOMAIN Transit = 0..Len(mailbox) /\ DOMAIN Transit' = 0..Len(mailbox)
      /\ Len(mailbox) \in Nat /\ Transit'[0] = Nothing
      /\ \A i \in 1..Len(mailbox) : Transit'[i] = Transit[i]
  BY TransitIndexes DEF Transit
<1>. QED BY <1>1 DEF Moved

-----------------------------------------------------------------------------
(* A step reports its start, then its progress, then its end. *)

Reports == {"Step", "Live", "StepFinished"}

StreamOrder ==
  /\ turn.phase = "Streaming" => turn.step = generation
  /\ step.status = "starting" =>
       \A i \in DOMAIN Transit : Transit[i].type \notin Reports
  /\ \A i \in DOMAIN Transit : Transit[i].type = "Step" =>
       /\ turn.phase = "Streaming"
       /\ Transit[i].event = ModelStepStarted(turn.step)
       /\ \A j \in DOMAIN Transit : j < i => Transit[j].type \notin Reports
  /\ \A i \in DOMAIN Transit : Transit[i].type = "Live" =>
       /\ turn.phase = "Streaming"
       /\ Transit[i].event = StepProgress(turn.step)
       /\ \A j \in DOMAIN Transit : j < i => Transit[j].type # "StepFinished"

\* While a step lives, the turn waits for it and for nothing else.
LEMMA LiveStep ==
  ASSUME TypeOK, InFlight, step.status # "finished"
  PROVE  /\ turn.phase = "Streaming" /\ turn.step = step.id
         /\ tasks = {} /\ CompletionsInTransit = {}
<1>1. StepWait \in Waits
  BY DEF InFlight, NoneStale
<1>2. turn.phase = "Streaming"
  BY <1>1, WaitsOfPhase, PendingType
     DEF StepWait, InvocationWait, Wait, InvocationStates, Phases
<1>3. Waits = {StepWait} /\ turn.step = step.id
  BY <1>1, <1>2, WaitsOfPhase DEF StepWait, Wait
<1>4. CompletionsInTransit = {}
  BY <1>3 DEF InFlight, NoneStale, NoneTwice
<1>5. tasks = {}
  <2>. SUFFICES ASSUME NEW task \in tasks PROVE FALSE
    OBVIOUS
  <2>1. TaskWait(task) = StepWait
    BY <1>3 DEF InFlight, NoneStale
  <2>. QED
    BY <2>1 DEF TypeOK, Tasks, TaskWait, StepWait, InvocationWait, Wait
<1>. QED BY <1>2, <1>3, <1>4, <1>5

\* The messages move, and what they are about stays.
LEMMA OrderKept ==
  ASSUME StreamOrder, NEW d \in {0, 1}, NEW gone, Moved(d, gone),
         turn'.phase = turn.phase, turn'.step = turn.step, generation' = generation,
         step'.status = "starting" => step.status = "starting"
  PROVE  StreamOrder'
<1>1. Nothing.type \notin Reports
  BY DEF Nothing, Reports
<1>2. \A i \in DOMAIN Transit' : Transit'[i].type \in Reports =>
        i + d \in DOMAIN Transit /\ Transit'[i] = Transit[i + d]
  BY <1>1 DEF Moved
<1>3. \A i, j \in DOMAIN Transit' : j < i => j + d < i + d
  BY DEF Moved
<1>4. "Step" \in Reports /\ "Live" \in Reports /\ "StepFinished" \in Reports
  BY DEF Reports
<1>. HIDE DEF Reports
<1>5. ASSUME NEW i \in DOMAIN Transit', Transit'[i].type = "Step"
      PROVE  /\ turn'.phase = "Streaming"
             /\ Transit'[i].event = ModelStepStarted(turn'.step)
             /\ \A j \in DOMAIN Transit' : j < i => Transit'[j].type \notin Reports
  BY <1>2, <1>3, <1>4, <1>5 DEF StreamOrder
<1>6. ASSUME NEW i \in DOMAIN Transit', Transit'[i].type = "Live"
      PROVE  /\ turn'.phase = "Streaming"
             /\ Transit'[i].event = StepProgress(turn'.step)
             /\ \A j \in DOMAIN Transit' : j < i => Transit'[j].type # "StepFinished"
  BY <1>2, <1>3, <1>4, <1>6 DEF StreamOrder
<1>7. step'.status = "starting" =>
        \A i \in DOMAIN Transit' : Transit'[i].type \notin Reports
  BY <1>2 DEF StreamOrder
<1>. QED BY <1>5, <1>6, <1>7 DEF StreamOrder

\* One more message, which is no report or comes in its turn.
LEMMA OrderWithMessage ==
  ASSUME TypeOK, StreamOrder, actor # "stopped", handling' = handling,
         NEW m \in MailboxMessages, Deliver(m), UNCHANGED <<turn, generation>>,
         step'.status = "starting" => step.status = "starting" /\ m.type \notin Reports,
         m.type = "Step" =>
           /\ m.event = ModelStepStarted(turn.step) /\ turn.phase = "Streaming"
           /\ step.status = "starting",
         m.type = "Live" =>
           /\ m.event = StepProgress(turn.step) /\ turn.phase = "Streaming"
           /\ CompletionsInTransit = {}
  PROVE  StreamOrder'
<1>. DEFINE n == Len(mailbox) + 1
<1>1. /\ DOMAIN Transit' = DOMAIN Transit \cup {n} /\ n \notin DOMAIN Transit
      /\ Transit'[n] = m /\ \A i \in DOMAIN Transit : Transit'[i] = Transit[i]
  BY DeliverTransit
<1>2. /\ n \in Nat /\ DOMAIN Transit \subseteq Nat
      /\ \A i \in DOMAIN Transit : i < n
  BY TransitIndexes
<1>. HIDE DEF n
<1>3. "Step" \in Reports /\ "Live" \in Reports /\ "StepFinished" \in Reports
  BY DEF Reports
<1>4. CompletionsInTransit = {} =>
        \A i \in DOMAIN Transit : Transit[i].type # "StepFinished"
  BY DEF CompletionsInTransit, Completions
<1>5. ASSUME NEW i \in DOMAIN Transit', Transit'[i].type = "Step"
      PROVE  /\ turn'.phase = "Streaming"
             /\ Transit'[i].event = ModelStepStarted(turn'.step)
             /\ \A j \in DOMAIN Transit' : j < i => Transit'[j].type \notin Reports
  BY <1>1, <1>2, <1>3, <1>5 DEF StreamOrder
<1>6. ASSUME NEW i \in DOMAIN Transit', Transit'[i].type = "Live"
      PROVE  /\ turn'.phase = "Streaming"
             /\ Transit'[i].event = StepProgress(turn'.step)
             /\ \A j \in DOMAIN Transit' : j < i => Transit'[j].type # "StepFinished"
  BY <1>1, <1>2, <1>3, <1>4, <1>6 DEF StreamOrder
<1>7. step'.status = "starting" =>
        \A i \in DOMAIN Transit' : Transit'[i].type \notin Reports
  BY <1>1 DEF StreamOrder
<1>. QED BY <1>5, <1>6, <1>7 DEF StreamOrder

LEMMA OutsideOrder ==
  ASSUME TypeOK, InFlight, StreamOrder, actor # "stopped", Outside
  PROVE  StreamOrder'
<1>. USE DEF actorVars, turnVars, TaskVars, StepVars
<1>1. /\ sent.inputs + 1 \in Nat /\ sent.prompts + 1 \in Nat
      /\ step \in Steps /\ step.id \in Nat /\ step.reason \in StepReasons
      /\ step.message \in AssistantMessages
  BY DEF TypeOK, Steps
<1>2. UNCHANGED <<turn, generation, handling>>
  BY OutsideMoves
<1>3. CASE UNCHANGED mailbox /\ (step'.status = "starting" => step.status = "starting")
  BY <1>2, <1>3, UnchangedMoved, OrderKept
<1>4. CASE ClientNext
  <2>1. CASE ClientCloses
    BY <1>3, <2>1 DEF ClientCloses
  <2>2. CASE ClientSubmits \/ ClientCancels \/ ClientSetsPrompt
    <3>1. /\ \E m \in MailboxMessages : Deliver(m) /\ m.type \notin Reports
          /\ UNCHANGED step
      BY <1>1, <2>2, MessageTypes
         DEF ClientSubmits, ClientCancels, ClientSetsPrompt, SubmitInput, Cancel,
             SetSystemPrompt, Reports
    <3>. QED BY <1>2, <3>1, OrderWithMessage DEF Reports
  <2>. QED BY <1>4, <2>1, <2>2 DEF ClientNext
<1>5. CASE TaskNext
  <2>1. tasks \subseteq Tasks /\ HookVerdicts \subseteq Verdicts
          /\ "Cancelled" \in Verdicts /\ ToolOutcomes \subseteq Outcomes
          /\ "Error" \in Outcomes
    BY DataAssumption DEF Verdicts, Outcomes, TypeOK
  <2>2. \E m \in MailboxMessages :
          Deliver(m) /\ m.type \notin Reports /\ UNCHANGED step
    <3>1. CASE FinishContextHooks
      BY <2>1, <3>1, TaskFields, MessageTypes
         DEF FinishContextHooks, ContextPrepared, Reports
    <3>2. CASE FinishBeforeToolUse
      BY <2>1, <3>2, TaskFields, MessageTypes
         DEF FinishBeforeToolUse, ToolInputPrepared, Reports
    <3>3. CASE FinishTool
      BY <2>1, <3>3, TaskFields, MessageTypes DEF FinishTool, ToolFinished, Reports
    <3>4. CASE FinishAfterToolUse
      BY <2>1, <3>4, TaskFields, MessageTypes
         DEF FinishAfterToolUse, ToolResultFinalized, Reports
    <3>. QED BY <1>5, <3>1, <3>2, <3>3, <3>4 DEF TaskNext
  <2>. QED BY <1>2, <2>2, OrderWithMessage DEF Reports
<1>6. CASE StepStarts
  <2>. DEFINE m == StepEvent(ModelStepStarted(step.id))
  <2>1. m \in MailboxMessages /\ m.type = "Step" /\ m.event = ModelStepStarted(step.id)
    BY <1>1, MessageTypes, TurnEventTypes DEF StepEvent
  <2>2. Deliver(m) /\ step.status = "starting" /\ step'.status = "running"
    BY <1>1, <1>6 DEF StepStarts, Steps
  <2>. HIDE DEF m
  <2>. QED BY <1>2, <2>1, <2>2, LiveStep, OrderWithMessage
<1>7. CASE StepForwardsDelta
  <2>. DEFINE m == Live(StepProgress(step.id))
  <2>1. m \in MailboxMessages /\ m.type = "Live" /\ m.event = StepProgress(step.id)
    BY <1>1, MessageTypes, TurnEventTypes DEF Live
  <2>2. Deliver(m) /\ step.status = "running" /\ step'.status # "starting"
    BY <1>1, <1>7 DEF StepForwardsDelta, StepReceives, Steps
  <2>. HIDE DEF m
  <2>. QED BY <1>2, <2>1, <2>2, LiveStep, OrderWithMessage
<1>8. CASE StepStops
  <2>. DEFINE m == StepFinished(step.id, step.reason, step.message)
  <2>1. m \in MailboxMessages /\ m.type = "StepFinished"
    BY <1>1, MessageTypes DEF StepFinished
  <2>2. Deliver(m) /\ step'.status = "finished"
    BY <1>8 DEF StepStops, FinishedStep, NewStep
  <2>. HIDE DEF m
  <2>. QED BY <1>2, <2>1, <2>2, OrderWithMessage
<1>9. CASE StepTakesDone \/ StepBreaks
  <2>1. UNCHANGED mailbox /\ (step'.status = "starting" => step.status = "starting")
    <3>1. CASE StepTakesDone
      BY <1>1, <3>1 DEF StepTakesDone, StepReceives, Steps
    <3>2. CASE StepBreaks
      BY <1>1, <3>2 DEF StepBreaks, StepReceives, Steps
    <3>. QED BY <1>9, <3>1, <3>2
  <2>. QED BY <1>3, <2>1
<1>10. CASE StreamNext
  <2>1. \E messages, stream : Pump(messages, stream)
    BY <1>10 DEF StreamNext, StreamProgresses, StreamTerminates, StreamEnds
  <2>2. UNCHANGED mailbox /\ (step'.status = "starting" => step.status = "starting")
    BY <1>1, <2>1 DEF Pump, Steps
  <2>. QED BY <1>3, <2>2
<1>11. CASE UNCHANGED vars
  BY <1>3, <1>11 DEF vars
<1>. QED
  BY <1>4, <1>5, <1>6, <1>7, <1>8, <1>9, <1>10, <1>11 DEF Outside, StepNext

\* Of a live step, a handler changes the mailbox only.
SameStep == step'.status = step.status /\ step'.id = step.id /\ step'.context = step.context

\* A handler that is not told the end of the step a turn streams from leaves
\* the turn and the step as they are.
LEMMA StreamingGoesOn ==
  ASSUME TypeOK, InFlight, Handlers, turn.phase = "Streaming",
         handling.type # "StepFinished"
  PROVE  UNCHANGED <<turn, turns, generation, tasks>> /\ SameStep
<1>. USE DEF turnVars
<1>1. CASE HandleSubmitInput \/ HandleSetSystemPrompt \/ HandleStepEvent \/ HandleLive
  BY <1>1
     DEF HandleSubmitInput, HandleSetSystemPrompt, HandleStepEvent, HandleLive, SameStep
<1>2. CASE HandleCancel
  BY <1>2 DEF HandleCancel, CancelStep, SameStep, TypeOK, Steps
<1>3. CASE HandleContextPrepared
  BY <1>3, CurrentPreparation DEF HandleContextPrepared, Handle
<1>4. CASE HandleToolInputPrepared \/ HandleToolFinished \/ HandleToolResultFinalized
  BY <1>4
     DEF HandleToolInputPrepared, HandleToolFinished, HandleToolResultFinalized,
         Awaiting, SameStep
<1>5. CASE HandleStepFinished
  BY <1>5 DEF HandleStepFinished, Handle
<1>. QED BY <1>1, <1>2, <1>3, <1>4, <1>5 DEF Handlers

\* No message from the step is on its way when its turn does not stream, nor
\* when its end is in hand.
LEMMA NothingReported ==
  ASSUME TypeOK, InFlight, StreamOrder, Handlers,
         turn.phase # "Streaming" \/ handling.type = "StepFinished"
  PROVE  /\ \A i \in DOMAIN Transit' : Transit'[i].type \notin {"Step", "Live"}
         /\ turn.phase # "Streaming" =>
              \A i \in DOMAIN Transit' : Transit'[i].type \notin Reports
<1>1. Moved(0, {0})
  BY HandlersMove, HandledMoved
<1>2. Nothing.type \notin Reports
  BY DEF Nothing, Reports
<1>3. \A i \in DOMAIN Transit' : Transit'[i].type \in Reports =>
        /\ i \in DOMAIN Transit /\ 0 < i /\ Transit'[i] = Transit[i]
  BY <1>1, <1>2 DEF Moved
<1>4. 0 \in DOMAIN Transit /\ Transit[0] = handling
  BY TransitIndexes
<1>5. \A i \in DOMAIN Transit' : Transit'[i].type \notin {"Step", "Live"}
  BY <1>3, <1>4 DEF StreamOrder, Reports
<1>6. ASSUME turn.phase # "Streaming"
      PROVE  \A i \in DOMAIN Transit : Transit[i].type # "StepFinished"
  <2>1. \A w \in Waits : w.state # "Streaming"
    BY <1>6, WaitsOfPhase, PendingType
       DEF InvocationWait, Wait, InvocationStates, Phases
  <2>2. \A i \in DOMAIN Transit : Transit[i].type = "StepFinished" =>
          i \in CompletionsInTransit /\ MessageWait(Transit[i]).state = "Streaming"
    BY DEF CompletionsInTransit, Completions, MessageWait, Wait
  <2>. QED BY <2>1, <2>2 DEF InFlight, NoneStale
<1>7. ASSUME turn.phase # "Streaming"
      PROVE  \A i \in DOMAIN Transit' : Transit'[i].type \notin Reports
  BY <1>3, <1>5, <1>6, <1>7 DEF Reports
<1>. QED BY <1>5, <1>7

\* A turn starts to stream with the step minted for it.
LEMMA StreamingStarts ==
  ASSUME TypeOK, InFlight, Handlers,
         turn.phase # "Streaming" \/ handling.type = "StepFinished"
  PROVE  \/ /\ turn'.phase # "Streaming" /\ generation' = generation /\ SameStep
         \/ /\ turn.phase = "PreparingContext" /\ handling.type = "ContextPrepared"
            /\ turn' = Streaming(turn.id, generation + 1) /\ turns' = turns
            /\ generation' = generation + 1 /\ log' = log /\ tasks' = tasks
            /\ step' = NewStep(generation + 1, StepContext(handling.context))
<1>. USE DEF turnVars
<1>1. \A l, t : PrepareContext(t, l) => turn'.phase = "PreparingContext"
  BY DEF PrepareContext, PreparingContext, Idle
<1>2. \A l, q : DispatchNextInput(l, q) => turn'.phase \in {"Idle", "PreparingContext"}
  BY <1>1 DEF DispatchNextInput, Idle
<1>3. \A l : EndTurn(l) => turn'.phase \in {"Idle", "PreparingContext"}
  BY <1>2 DEF EndTurn
<1>4. ASSUME NEW k, NEW s, NEW l, NEW o, Awaiting(k, s), CommitInvocationResult(k, l, o)
      PROVE  turn'.phase # "Streaming"
  BY <1>1, <1>3, <1>4 DEF CommitInvocationResult, Awaiting, TypeOK, TurnOK
<1>5. CASE HandleSubmitInput
  BY <1>2, <1>5 DEF HandleSubmitInput, Handle, SameStep
<1>6. CASE HandleSetSystemPrompt \/ HandleStepEvent \/ HandleLive
  BY <1>6 DEF HandleSetSystemPrompt, HandleStepEvent, HandleLive, Handle, SameStep
<1>7. CASE HandleCancel
  BY <1>7 DEF HandleCancel, Handle, SameStep, TypeOK, TurnOK
<1>8. CASE HandleContextPrepared
  <2>1. turn.phase = "PreparingContext" /\ turn.id = handling.turn
    BY <1>8, CurrentPreparation DEF HandleContextPrepared, Handle
  <2>. QED BY <1>3, <1>8, <2>1 DEF HandleContextPrepared, Handle, SameStep
<1>9. CASE HandleStepFinished
  <2>1. turn.phase = "Streaming" /\ turn.step = handling.step
    BY <1>9, CurrentStep DEF HandleStepFinished, Handle
  <2>2. \A l, n : DispatchToolCalls(l, n) => turn'.phase = "RunningTools"
    BY DEF DispatchToolCalls, RunningTools, Idle
  <2>. QED BY <1>3, <1>9, <2>1, <2>2 DEF HandleStepFinished, SameStep
<1>10. CASE HandleToolInputPrepared \/ HandleToolFinished \/ HandleToolResultFinalized
  <2>1. turn.phase # "Streaming" /\ generation' = generation /\ SameStep
    BY <1>10
       DEF HandleToolInputPrepared, HandleToolFinished, HandleToolResultFinalized,
           Handle, SameStep
  <2>2. CASE UNCHANGED turn
    BY <2>1, <2>2
  <2>3. CASE \E k, s, l, o : Awaiting(k, s) /\ CommitInvocationResult(k, l, o)
    BY <1>4, <2>1, <2>3
  <2>4. CASE \E k, s : turn' = [turn EXCEPT !.pending[k] = s]
    BY <2>1, <2>4 DEF TypeOK, TurnOK
  <2>. QED
    BY <1>10, <2>2, <2>3, <2>4
       DEF HandleToolInputPrepared, HandleToolFinished, HandleToolResultFinalized,
           FinalizeResult
<1>. QED BY <1>5, <1>6, <1>7, <1>8, <1>9, <1>10 DEF Handlers

LEMMA HandlersOrder ==
  ASSUME TypeOK, InFlight, StreamOrder, Handlers
  PROVE  StreamOrder'
<1>1. CASE turn.phase = "Streaming" /\ handling.type # "StepFinished"
  BY <1>1, StreamingGoesOn, HandlersMove, HandledMoved, OrderKept DEF SameStep
<1>2. CASE turn.phase # "Streaming" \/ handling.type = "StepFinished"
  <2>1. \A i \in DOMAIN Transit' : Transit'[i].type \notin {"Step", "Live"}
    BY <1>2, NothingReported
  <2>2. turn'.phase = "Streaming" => turn'.step = generation'
    BY <1>2, StreamingStarts DEF Streaming, Idle
  <2>3. step'.status = "starting" =>
          \A i \in DOMAIN Transit' : Transit'[i].type \notin Reports
    <3>1. CASE turn.phase # "Streaming"
      BY <3>1, NothingReported
    <3>2. CASE handling.type = "StepFinished"
      <4>1. 0 \in CompletionsInTransit
        BY <3>2, TransitIndexes DEF CompletionsInTransit, Completions
      <4>2. step.status = "finished"
        BY <4>1, LiveStep
      <4>. QED BY <1>2, <3>2, <4>2, StreamingStarts DEF SameStep
    <3>. QED BY <1>2, <3>1, <3>2
  <2>. QED BY <2>1, <2>2, <2>3 DEF StreamOrder
<1>. QED BY <1>1, <1>2

StreamOrderInv == actor # "stopped" => StreamOrder

LEMMA InitOrder == Init => StreamOrderInv
<1>. SUFFICES ASSUME Init PROVE StreamOrder
  BY DEF StreamOrderInv
<1>1. \A i \in DOMAIN Transit : Transit[i] = Nothing
  BY DEF Init, Transit
<1>2. step.status = "finished" /\ turn.phase = "Idle"
  BY DEF Init, FinishedStep, NewStep, Idle
<1>. QED BY <1>1, <1>2 DEF StreamOrder, Nothing

LEMMA NextOrder ==
  ASSUME TypeOK, ActorInv, OneCompletionInFlight, StreamOrderInv, [Next]_vars
  PROVE  StreamOrderInv'
<1>. SUFFICES ASSUME actor' # "stopped" PROVE StreamOrder'
  BY DEF StreamOrderInv
<1>. USE DEF StreamOrderInv, OneCompletionInFlight, InFlight
<1>1. CASE OnStart
  BY <1>1, UnchangedMoved, OrderKept DEF OnStart, turnVars
<1>2. CASE Receive
  BY <1>2, ReceiveMoved, OrderKept DEF Receive, turnVars
<1>3. CASE Handlers
  BY <1>3, HandlerRuns, HandlersOrder
<1>4. CASE Outside
  BY <1>4, OutsideMoves, OutsideOrder
<1>. QED BY <1>1, <1>2, <1>3, <1>4, StepKinds DEF OnStop

-----------------------------------------------------------------------------
(* Snapshots of the conversation. *)

\* Whoever holds a snapshot for the turn holds the conversation as it is.
Fresh ==
  /\ \A task \in tasks : task.type = "ContextHooks" =>
       task.context.messages = ConversationMessages
  /\ \A i \in DOMAIN Transit : Transit[i].type = "ContextPrepared" =>
       Transit[i].context.messages = ConversationMessages
  /\ SnapshotIsFresh

\* The hooks hold the conversation if their turn prepares its context.
Snapshot ==
  turn.phase = "PreparingContext" =>
    ContextHooks(turn.id, log.conversation) \in tasks

SnapshotTaken ==
  \/ turn.phase # "Streaming" /\ Snapshot
  \/ step.status # "finished" /\ SnapshotIsFresh

\* Only the hooks of such a turn, or its live step, can hold a snapshot, for
\* no completion is on its way twice.
LEMMA FreshState == TypeOK /\ InFlight /\ SnapshotTaken => Fresh
<1>. SUFFICES ASSUME TypeOK, InFlight, SnapshotTaken PROVE Fresh
  OBVIOUS
<1>0. CASE step.status # "finished" /\ SnapshotIsFresh
  <2>1. tasks = {} /\ \A i \in DOMAIN Transit : Transit[i].type # "ContextPrepared"
    BY <1>0, LiveStep DEF CompletionsInTransit, Completions
  <2>. QED BY <1>0, <2>1 DEF Fresh
<1>. SUFFICES ASSUME turn.phase # "Streaming", Snapshot PROVE Fresh
  BY <1>0 DEF SnapshotTaken
<1>1. step.status = "finished"
  BY LiveStep
<1>. DEFINE hooks == ContextHooks(turn.id, log.conversation)
            w == Wait("PreparingContext", turn.id, 0, 0)
<1>2. /\ hooks.type = "ContextHooks" /\ hooks.context = log.conversation
      /\ TaskWait(hooks) = w
  BY DEF ContextHooks, TaskWait
<1>3. CASE turn.phase = "PreparingContext"
  <2>1. Waits = {w} /\ hooks \in tasks
    BY <1>3, WaitsOfPhase DEF Snapshot
  <2>. HIDE DEF hooks, w
  <2>2. \A task \in tasks : task = hooks
    BY <1>2, <2>1 DEF InFlight, NoneStale, NoneTwice
  <2>3. CompletionsInTransit = {}
    BY <1>2, <2>1 DEF InFlight, NoneStale, NoneTwice
  <2>4. \A i \in DOMAIN Transit : Transit[i].type # "ContextPrepared"
    BY <2>3 DEF CompletionsInTransit, Completions
  <2>. QED
    BY <1>1, <1>2, <2>2, <2>4 DEF Fresh, SnapshotIsFresh, ConversationMessages
<1>4. CASE turn.phase # "PreparingContext"
  <2>1. \A v \in Waits : v.state # "PreparingContext"
    BY <1>4, WaitsOfPhase, PendingType
       DEF InvocationWait, Wait, InvocationStates, Phases
  <2>2. \A task \in tasks : task.type # "ContextHooks"
    BY <2>1 DEF InFlight, NoneStale, TaskWait, Wait
  <2>3. \A i \in DOMAIN Transit : Transit[i].type = "ContextPrepared" =>
          i \in CompletionsInTransit /\ MessageWait(Transit[i]).state = "PreparingContext"
    BY DEF CompletionsInTransit, Completions, MessageWait, Wait
  <2>4. \A i \in DOMAIN Transit : Transit[i].type # "ContextPrepared"
    BY <2>1, <2>3 DEF InFlight, NoneStale
  <2>. QED BY <1>1, <2>2, <2>4 DEF Fresh, SnapshotIsFresh
<1>. QED BY <1>3, <1>4

SameMessages == log'.conversation.messages = log.conversation.messages
SameContext ==
  step'.status # "finished" =>
    step.status # "finished" /\ step'.context = step.context

LEMMA FreshKept ==
  ASSUME Fresh, NEW d \in {0, 1}, NEW gone, Moved(d, gone), SameMessages,
         tasks' \subseteq tasks, SameContext
  PROVE  Fresh'
<1>1. Nothing.type # "ContextPrepared"
  BY DEF Nothing
<1>. QED
  BY <1>1
     DEF Fresh, Moved, SameMessages, SameContext, SnapshotIsFresh, ConversationMessages

LEMMA FreshWithMessage ==
  ASSUME TypeOK, Fresh, actor # "stopped", handling' = handling,
         NEW m \in MailboxMessages, Deliver(m), SameMessages,
         m.type = "ContextPrepared" => m.context.messages = ConversationMessages,
         tasks' \subseteq tasks, SameContext
  PROVE  Fresh'
BY DeliverTransit
   DEF Fresh, SameMessages, SameContext, SnapshotIsFresh, ConversationMessages

\* A commit that is no message, no result and no prompt of the user.
LEMMA CommitKeepsMessages ==
  ASSUME NEW l \in Logs, NEW e,
         ~AssistantEnters(e), e.type \notin {"UserMessageCommitted", "ToolResultReceived"}
  PROVE  Commit(l, e).conversation.messages = l.conversation.messages
BY DEF Commit, ApplyEvent, Logs, Contexts

\* What a handler does to the conversation and to the snapshots of it.
LEMMA HandlersSnapshot ==
  ASSUME TypeOK, InFlight, StreamOrder, Handlers
  PROVE  \/ SameMessages /\ tasks' = tasks /\ SameStep
         \/ turn'.phase # "Streaming" /\ Snapshot'
         \/ /\ turn.phase = "PreparingContext" /\ handling.type = "ContextPrepared"
            /\ turn' = Streaming(turn.id, generation + 1)
            /\ SameMessages
            /\ step' = NewStep(generation + 1, StepContext(handling.context))
<1>. USE DEF turnVars
<1>1. \A l, t : PrepareContext(t, l) => turn'.phase # "Streaming" /\ Snapshot'
  BY DEF PrepareContext, PreparingContext, Idle, Snapshot
<1>2. \A l, q : DispatchNextInput(l, q) => turn'.phase # "Streaming" /\ Snapshot'
  BY <1>1 DEF DispatchNextInput, Idle, Snapshot
<1>3. \A l : EndTurn(l) => turn'.phase # "Streaming" /\ Snapshot'
  BY <1>2 DEF EndTurn
<1>4. ASSUME turn'.phase = "RunningTools" PROVE turn'.phase # "Streaming" /\ Snapshot'
  BY <1>4 DEF Snapshot
<1>5. ASSUME NEW k, NEW s, NEW l, NEW o, Awaiting(k, s), CommitInvocationResult(k, l, o)
      PROVE  turn'.phase # "Streaming" /\ Snapshot'
  <2>1. CASE turn' = [turn EXCEPT !.pending = WithoutInvocation(turn.pending, k)]
    BY <1>4, <1>5, <2>1 DEF Awaiting, TypeOK, TurnOK
  <2>. QED BY <1>1, <1>3, <1>5, <2>1 DEF CommitInvocationResult
<1>6. CASE HandleSubmitInput
  BY <1>2, <1>6 DEF HandleSubmitInput, SameMessages, SameStep
<1>7. CASE HandleSetSystemPrompt
  <2>1. SystemPromptSet(handling.prompt).type = "SystemPromptSet"
    BY DEF SystemPromptSet
  <2>. QED
    BY <1>7, <2>1, CommitKeepsMessages
       DEF HandleSetSystemPrompt, SameMessages, SameStep, AssistantEnters, TypeOK
<1>8. CASE HandleStepEvent
  <2>1. handling.event = ModelStepStarted(turn.step)
    BY <1>8, TransitIndexes DEF HandleStepEvent, Handle, StreamOrder
  <2>2. handling.event.type = "ModelStepStarted"
    BY <2>1 DEF ModelStepStarted
  <2>. QED
    BY <1>8, <2>2, CommitKeepsMessages
       DEF HandleStepEvent, SameMessages, SameStep, AssistantEnters, TypeOK
<1>9. CASE HandleLive
  BY <1>9 DEF HandleLive, PublishLive, SameMessages, SameStep, TypeOK, Logs
<1>10. CASE HandleCancel
  BY <1>10 DEF HandleCancel, CancelStep, SameMessages, SameStep, TypeOK, Steps
<1>11. CASE HandleContextPrepared
  BY <1>3, <1>11, CurrentPreparation
     DEF HandleContextPrepared, Handle, SameMessages, SameStep
<1>12. CASE HandleStepFinished
  <2>1. \A l, n : DispatchToolCalls(l, n) => turn'.phase = "RunningTools"
    BY DEF DispatchToolCalls, RunningTools, Idle
  <2>. QED
    BY <1>3, <1>4, <1>12, <2>1 DEF HandleStepFinished, SameMessages, SameStep
<1>13. CASE HandleToolInputPrepared \/ HandleToolFinished \/ HandleToolResultFinalized
  <2>1. SameStep
    BY <1>13
       DEF HandleToolInputPrepared, HandleToolFinished, HandleToolResultFinalized,
           SameStep
  <2>2. CASE UNCHANGED <<log, tasks>>
    BY <2>1, <2>2 DEF SameMessages
  <2>3. CASE \E k, s, l, o : Awaiting(k, s) /\ CommitInvocationResult(k, l, o)
    BY <1>5, <2>3
  <2>4. CASE \E k, r, s : Awaiting(k, r) /\ turn' = [turn EXCEPT !.pending[k] = s]
    BY <1>4, <2>4 DEF TypeOK, TurnOK, Awaiting
  <2>. QED
    BY <1>13, <2>2, <2>3, <2>4
       DEF HandleToolInputPrepared, HandleToolFinished, HandleToolResultFinalized,
           FinalizeResult
<1>. QED
  BY <1>6, <1>7, <1>8, <1>9, <1>10, <1>11, <1>12, <1>13 DEF Handlers

LEMMA OutsideFresh ==
  ASSUME TypeOK, Fresh, Outside
  PROVE  Fresh'
<1>. USE DEF actorVars, turnVars, TaskVars, StepVars
<1>1. /\ sent.inputs + 1 \in Nat /\ sent.prompts + 1 \in Nat
      /\ step \in Steps /\ step.id \in Nat /\ step.reason \in StepReasons
      /\ step.message \in AssistantMessages /\ tasks \subseteq Tasks
  BY DEF TypeOK, Steps
<1>2. UNCHANGED <<actor, handling>> /\ SameMessages
  BY OutsideMoves DEF SameMessages
<1>3. CASE UNCHANGED mailbox /\ tasks' \subseteq tasks /\ SameContext
  BY <1>2, <1>3, UnchangedMoved, FreshKept
<1>4. CASE /\ \E m \in MailboxMessages :
                /\ Deliver(m)
                /\ m.type = "ContextPrepared" => m.context.messages = ConversationMessages
           /\ tasks' \subseteq tasks /\ SameContext
  <2>1. CASE actor = "stopped"
    BY <1>3, <1>4, <2>1 DEF Deliver
  <2>. QED BY <1>2, <1>4, <2>1, FreshWithMessage
<1>5. CASE ClientNext
  <2>1. UNCHANGED <<step, tasks>>
    BY <1>5 DEF ClientNext, ClientSubmits, ClientCancels, ClientSetsPrompt, ClientCloses
  <2>2. CASE ClientSubmits \/ ClientCancels \/ ClientSetsPrompt
    <3>1. \E m \in MailboxMessages : Deliver(m) /\ m.type # "ContextPrepared"
      BY <1>1, <2>2, MessageTypes
         DEF ClientSubmits, ClientCancels, ClientSetsPrompt, SubmitInput, Cancel,
             SetSystemPrompt
    <3>. QED BY <1>4, <2>1, <3>1 DEF SameContext
  <2>. QED BY <1>3, <1>5, <2>1, <2>2 DEF ClientNext, ClientCloses, SameContext
<1>6. CASE TaskNext
  <2>1. /\ HookVerdicts \subseteq Verdicts /\ "Cancelled" \in Verdicts
        /\ ToolOutcomes \subseteq Outcomes /\ "Error" \in Outcomes
    BY DataAssumption DEF Verdicts, Outcomes
  <2>2. \E m \in MailboxMessages :
          /\ Deliver(m)
          /\ m.type = "ContextPrepared" => m.context.messages = ConversationMessages
    <3>1. CASE FinishContextHooks
      BY <1>1, <3>1, TaskFields, MessageTypes
         DEF FinishContextHooks, ContextPrepared, Fresh
    <3>2. CASE FinishBeforeToolUse
      BY <1>1, <2>1, <3>2, TaskFields, MessageTypes
         DEF FinishBeforeToolUse, ToolInputPrepared
    <3>3. CASE FinishTool
      BY <1>1, <3>3, TaskFields, MessageTypes DEF FinishTool, ToolFinished
    <3>4. CASE FinishAfterToolUse
      BY <1>1, <2>1, <3>4, TaskFields, MessageTypes
         DEF FinishAfterToolUse, ToolResultFinalized
    <3>. QED BY <1>6, <3>1, <3>2, <3>3, <3>4 DEF TaskNext
  <2>3. tasks' \subseteq tasks /\ UNCHANGED step
    BY <1>6 DEF TaskNext, FinishContextHooks, FinishBeforeToolUse, FinishTool,
                FinishAfterToolUse
  <2>. QED BY <1>4, <2>2, <2>3 DEF SameContext
<1>7. CASE StepNext
  <2>1. SameContext
    BY <1>1, <1>7
       DEF StepNext, StepStarts, StepForwardsDelta, StepTakesDone, StepBreaks,
           StepStops, StepReceives, FinishedStep, NewStep, Steps, SameContext
  <2>2. tasks' = tasks
    BY <1>7 DEF StepNext, StepStarts, StepForwardsDelta, StepTakesDone, StepBreaks,
                StepStops
  <2>3. \/ UNCHANGED mailbox
        \/ \E m \in MailboxMessages : Deliver(m) /\ m.type # "ContextPrepared"
    BY <1>1, <1>7, MessageTypes, TurnEventTypes
       DEF StepNext, StepStarts, StepForwardsDelta, StepTakesDone, StepBreaks,
           StepStops, StepEvent, Live, StepFinished
  <2>. QED BY <1>3, <1>4, <2>1, <2>2, <2>3
<1>8. CASE StreamNext
  <2>1. \E messages, stream : Pump(messages, stream)
    BY <1>8 DEF StreamNext, StreamProgresses, StreamTerminates, StreamEnds
  <2>2. UNCHANGED <<mailbox, tasks>> /\ SameContext
    BY <1>1, <2>1 DEF Pump, Steps, SameContext
  <2>. QED BY <1>3, <2>2
<1>9. CASE UNCHANGED vars
  BY <1>3, <1>9 DEF vars, SameContext
<1>. QED BY <1>5, <1>6, <1>7, <1>8, <1>9 DEF Outside

LEMMA InitFresh == Init => Fresh
<1>. SUFFICES ASSUME Init PROVE Fresh
  OBVIOUS
<1>1. \A i \in DOMAIN Transit : Transit[i] = Nothing
  BY DEF Init, Transit
<1>2. step.status = "finished" /\ tasks = {}
  BY DEF Init, FinishedStep, NewStep
<1>. QED BY <1>1, <1>2 DEF Fresh, SnapshotIsFresh, Nothing

LEMMA NextFresh ==
  ASSUME TypeOK, ActorInv, OneCompletionInFlight, StreamOrderInv, Fresh, [Next]_vars,
         (TypeOK /\ InFlight /\ SnapshotTaken => Fresh)',
         TypeOK', OneCompletionInFlight'
  PROVE  Fresh'
<1>1. CASE OnStart \/ OnStop
  <2>1. log \in Logs
    BY DEF TypeOK
  <2>2. SameMessages /\ tasks' = tasks /\ step' = step
    <3>1. /\ SessionStarted.type = "SessionStarted"
          /\ SessionEnded.type = "SessionEnded"
      BY DEF SessionStarted, SessionEnded
    <3>. QED
      BY <1>1, <2>1, <3>1, CommitKeepsMessages
         DEF OnStart, OnStop, SameMessages, AssistantEnters
  <2>3. CASE OnStart
    BY <2>2, <2>3, UnchangedMoved, FreshKept DEF OnStart, SameContext
  <2>4. CASE OnStop
    <3>1. \A i \in DOMAIN Transit' : Transit'[i] = Nothing
      BY <2>4 DEF OnStop, Transit
    <3>. QED
      BY <2>2, <3>1
         DEF Fresh, SameMessages, SnapshotIsFresh, ConversationMessages, Nothing
  <2>. QED BY <1>1, <2>3, <2>4
<1>2. CASE Receive
  BY <1>2, ReceiveMoved, FreshKept DEF Receive, SameMessages, SameContext
<1>3. CASE Handlers
  <2>1. actor = "running" /\ actor' = "running"
    BY <1>3, HandlerRuns
  <2>2. InFlight /\ InFlight' /\ StreamOrder
    BY <2>1 DEF OneCompletionInFlight, InFlight, StreamOrderInv
  <2>3. CASE SameMessages /\ tasks' = tasks /\ SameStep
    BY <1>3, <2>3, HandlersMove, HandledMoved, FreshKept DEF SameStep, SameContext
  <2>4. CASE turn'.phase # "Streaming" /\ Snapshot'
    BY <2>2, <2>4 DEF SnapshotTaken
  <2>5. CASE /\ turn' = Streaming(turn.id, generation + 1)
             /\ handling.type = "ContextPrepared"
             /\ SameMessages
             /\ step' = NewStep(generation + 1, StepContext(handling.context))
    <3>1. handling.context.messages = log.conversation.messages
      BY <2>5, TransitIndexes DEF Fresh, ConversationMessages
    <3>2. handling.context \in Contexts
      BY <1>3, <2>5, HandlersMove, MessageFields DEF TypeOK, Nothing
    <3>3. step'.context.messages = Append(log'.conversation.messages, UserMessage(Hints))
      BY <2>5, <3>1, <3>2 DEF NewStep, StepContext, Contexts, SameMessages
    <3>4. step'.status # "finished"
      BY <2>5 DEF NewStep
    <3>. QED
      BY <2>2, <3>3, <3>4 DEF SnapshotTaken, SnapshotIsFresh, ConversationMessages
  <2>. QED BY <1>3, <2>2, <2>3, <2>4, <2>5, HandlersSnapshot
<1>4. CASE Outside
  BY <1>4, OutsideFresh
<1>. QED BY <1>1, <1>2, <1>3, <1>4, StepKinds

\* The invariant of the parts so far.
StreamInv ==
  /\ TypeOK /\ TurnInv /\ OneCompletionInFlight
  /\ ActorInv /\ StreamOrderInv

LEMMA InitStream == Init => StreamInv /\ Fresh
BY InitType, InitTurn, InitInFlight, InitActor, InitOrder, InitFresh DEF StreamInv

LEMMA NextStream == StreamInv /\ [Next]_vars => StreamInv'
BY NextType, NextTurnInv, NextInFlight, NextActor, NextOrder DEF StreamInv, TurnInv

(***************************************************************************)
(* A step streams from the conversation as it is, with the hints of the    *)
(* hooks behind it: between assemble_context and the end of the step no    *)
(* handler of harness.rs adds a message.                                   *)
(***************************************************************************)
THEOREM SnapshotsAreFresh == Spec => []SnapshotIsFresh
<1>1. StreamInv /\ Fresh /\ [Next]_vars
        /\ (TypeOK /\ InFlight /\ SnapshotTaken => Fresh)' => (StreamInv /\ Fresh)'
  <2>. SUFFICES ASSUME StreamInv, Fresh, [Next]_vars,
                       (TypeOK /\ InFlight /\ SnapshotTaken => Fresh)'
                PROVE  StreamInv' /\ Fresh'
    OBVIOUS
  <2>1. StreamInv'
    BY NextStream
  <2>. QED BY <2>1, NextFresh DEF StreamInv
<1>2. Fresh => SnapshotIsFresh
  BY DEF Fresh
<1>. QED
  BY <1>1, <1>2, InitStream, FreshState, PTL DEF Spec

-----------------------------------------------------------------------------
(* What the subscribers see of a step. *)

IsSequence(s) == \E S : s \in Seq(S)

\* The feed of the log l, of which all steps that ended are below n.
FeedOf(l, n) ==
  /\ IsSequence(l.feed)
  /\ \A i \in DOMAIN l.feed : l.feed[i].type = "ModelStepEnded" => l.feed[i].step < n
  /\ \A i \in DOMAIN l.feed : l.feed[i].type = "StepProgress" =>
       /\ \E j \in 1..i - 1 : l.feed[j] = ModelStepStarted(l.feed[i].step)
       /\ \A j \in 1..i - 1 :
            l.feed[j].type = "ModelStepEnded" => l.feed[j].step # l.feed[i].step

StartSeen(l, s) == \E i \in DOMAIN l.feed : l.feed[i] = ModelStepStarted(s)

LEMMA AppendToFeed ==
  ASSUME NEW f, IsSequence(f), NEW e
  PROVE  /\ IsSequence(Append(f, e))
         /\ Len(f) \in Nat /\ DOMAIN f = 1..Len(f)
         /\ DOMAIN Append(f, e) = 1..Len(f) + 1
         /\ Append(f, e)[Len(f) + 1] = e
         /\ \A i \in 1..Len(f) : Append(f, e)[i] = f[i]
<1>1. PICK S : f \in Seq(S)
  BY DEF IsSequence
<1>2. f \in Seq(S \cup {e})
  BY <1>1
<1>3. Append(f, e) \in Seq(S \cup {e})
  BY <1>2
<1>. QED BY <1>2, <1>3 DEF IsSequence

LEMMA Concatenation ==
  ASSUME NEW S, NEW f \in Seq(S), NEW g \in Seq(S)
  PROVE  /\ f \o g \in Seq(S) /\ Len(f) \in Nat /\ Len(g) \in Nat
         /\ DOMAIN f = 1..Len(f) /\ DOMAIN g = 1..Len(g)
         /\ DOMAIN (f \o g) = 1..Len(f) + Len(g)
         /\ \A i \in 1..Len(f) : (f \o g)[i] = f[i]
         /\ \A i \in Len(f) + 1..Len(f) + Len(g) : (f \o g)[i] = g[i - Len(f)]
OBVIOUS

\* An event that is neither progress nor the end of a step.
LEMMA FeedWithEvent ==
  ASSUME NEW l, NEW n, FeedOf(l, n), NEW f, NEW e, f.feed = Append(l.feed, e),
         e.type \notin {"ModelStepEnded", "StepProgress"}
  PROVE  FeedOf(f, n) /\ \A s : StartSeen(l, s) => StartSeen(f, s)
<1>1. /\ IsSequence(f.feed)
      /\ Len(l.feed) \in Nat /\ DOMAIN l.feed = 1..Len(l.feed)
      /\ DOMAIN f.feed = 1..Len(l.feed) + 1
      /\ f.feed[Len(l.feed) + 1] = e
      /\ \A i \in 1..Len(l.feed) : f.feed[i] = l.feed[i]
  BY AppendToFeed DEF FeedOf
<1>2. \A i \in DOMAIN f.feed : f.feed[i].type \in {"ModelStepEnded", "StepProgress"} =>
        i \in DOMAIN l.feed
  BY <1>1
<1>3. \A i \in DOMAIN l.feed : \A j \in 1..i - 1 : j \in DOMAIN l.feed
  BY <1>1
<1>. QED BY <1>1, <1>2, <1>3 DEF FeedOf, StartSeen

LEMMA FeedWithStepEnd ==
  ASSUME NEW l, NEW n \in Nat, FeedOf(l, n), NEW f, NEW e, f.feed = Append(l.feed, e),
         e.type = "ModelStepEnded", e.step = n, l.feed \in Seq(Events \cup LiveEvents)
  PROVE  FeedOf(f, n + 1)
<1>1. /\ IsSequence(f.feed)
      /\ Len(l.feed) \in Nat /\ DOMAIN l.feed = 1..Len(l.feed)
      /\ DOMAIN f.feed = 1..Len(l.feed) + 1
      /\ f.feed[Len(l.feed) + 1] = e
      /\ \A i \in 1..Len(l.feed) : f.feed[i] = l.feed[i]
  BY AppendToFeed DEF FeedOf
<1>2. \A i \in DOMAIN f.feed : f.feed[i].type = "StepProgress" => i \in DOMAIN l.feed
  BY <1>1
<1>3. \A i \in DOMAIN l.feed : \A j \in 1..i - 1 : j \in DOMAIN l.feed
  BY <1>1
<1>4. ASSUME NEW i \in DOMAIN f.feed, f.feed[i].type = "ModelStepEnded"
      PROVE  f.feed[i].step < n + 1
  <2>1. CASE i = Len(l.feed) + 1
    BY <1>1, <2>1
  <2>2. CASE i \in DOMAIN l.feed
    <3>1. l.feed[i] \in Events \cup LiveEvents /\ l.feed[i].type = "ModelStepEnded"
      BY <1>1, <1>4, <2>2
    <3>2. l.feed[i].step \in Nat
      BY <3>1 DEF Events, LiveEvents
    <3>. QED BY <1>1, <1>4, <2>2, <3>2 DEF FeedOf
  <2>. QED BY <1>1, <2>1, <2>2
<1>. QED BY <1>1, <1>2, <1>3, <1>4 DEF FeedOf

LEMMA FeedWithProgress ==
  ASSUME NEW l, NEW n \in Nat, FeedOf(l, n), StartSeen(l, n),
         NEW f, NEW e, f.feed = Append(l.feed, e),
         e.type = "StepProgress", e.step = n
  PROVE  FeedOf(f, n) /\ StartSeen(f, n)
<1>1. /\ IsSequence(f.feed)
      /\ Len(l.feed) \in Nat /\ DOMAIN l.feed = 1..Len(l.feed)
      /\ DOMAIN f.feed = 1..Len(l.feed) + 1
      /\ f.feed[Len(l.feed) + 1] = e
      /\ \A i \in 1..Len(l.feed) : f.feed[i] = l.feed[i]
  BY AppendToFeed DEF FeedOf
<1>2. \A i \in DOMAIN f.feed : f.feed[i].type = "ModelStepEnded" => i \in DOMAIN l.feed
  BY <1>1
<1>3. \A i \in DOMAIN l.feed : \A j \in 1..i - 1 : j \in DOMAIN l.feed
  BY <1>1
<1>4. ASSUME NEW i \in DOMAIN f.feed, f.feed[i].type = "StepProgress"
      PROVE  /\ \E j \in 1..i - 1 : f.feed[j] = ModelStepStarted(f.feed[i].step)
             /\ \A j \in 1..i - 1 :
                  f.feed[j].type = "ModelStepEnded" => f.feed[j].step # f.feed[i].step
  <2>1. CASE i = Len(l.feed) + 1
    <3>1. 1..i - 1 = DOMAIN l.feed /\ f.feed[i].step = n
      BY <1>1, <2>1
    <3>2. \A j \in DOMAIN l.feed :
            l.feed[j].type = "ModelStepEnded" => l.feed[j].step # n
      BY DEF FeedOf
    <3>. QED BY <1>1, <3>1, <3>2 DEF StartSeen
  <2>2. CASE i \in DOMAIN l.feed
    BY <1>1, <1>3, <1>4, <2>2 DEF FeedOf
  <2>. QED BY <1>1, <2>1, <2>2
<1>. QED BY <1>1, <1>2, <1>4 DEF FeedOf, StartSeen

\* Events that are neither progress nor the end of a step.
Plain(e) == e.type \notin {"ModelStepEnded", "StepProgress"}

LEMMA PlainEvents ==
  /\ Plain(SessionStarted) /\ Plain(SessionEnded) /\ Plain(ErrorOccurred)
  /\ \A n : /\ Plain(AgentTurnStarted(n)) /\ Plain(AgentTurnEnded(n))
            /\ Plain(UserMessageCommitted(n)) /\ Plain(SystemPromptSet(n))
            /\ Plain(ModelStepStarted(n))
  /\ \A k : /\ Plain(ToolCallProposed(k)) /\ Plain(ToolExecutionRequested(k))
            /\ Plain(ToolExecutionObserved(k)) /\ Plain(ToolExecutionStarted(k))
            /\ Plain(ToolExecutionEnded(k))
            /\ \A o : Plain(ToolResultReceived(k, o))
BY DEF Plain, SessionStarted, SessionEnded, ErrorOccurred, AgentTurnStarted,
       AgentTurnEnded, UserMessageCommitted, SystemPromptSet, ModelStepStarted,
       ToolCallProposed, ToolExecutionRequested, ToolExecutionObserved,
       ToolExecutionStarted, ToolExecutionEnded, ToolResultReceived

LEMMA PlainCommit ==
  ASSUME NEW l, NEW n, FeedOf(l, n), NEW e, Plain(e)
  PROVE  /\ FeedOf(Commit(l, e), n)
         /\ \A s : StartSeen(l, s) => StartSeen(Commit(l, e), s)
<1>1. Commit(l, e).feed = Append(l.feed, e)
  BY DEF Commit
<1>. QED BY <1>1, FeedWithEvent DEF Plain

LEMMA PlainPublish ==
  ASSUME NEW l \in Logs, NEW n, FeedOf(l, n), NEW e, Plain(e)
  PROVE  FeedOf(PublishLive(l, e), n)
<1>1. PublishLive(l, e).feed = Append(l.feed, e)
  BY DEF PublishLive, Logs
<1>. QED BY <1>1, FeedWithEvent DEF Plain

LEMMA DispatchFeed ==
  ASSUME NEW l, NEW n, FeedOf(l, n), NEW q, DispatchNextInput(l, q)
  PROVE  FeedOf(log', n) /\ turn'.phase # "Streaming"
<1>. DEFINE started == Commit(l, AgentTurnStarted(turns + 1))
            committed == Commit(started, UserMessageCommitted(Head(q)))
<1>1. FeedOf(started, n)
  BY PlainCommit, PlainEvents
<1>2. FeedOf(committed, n)
  BY <1>1, PlainCommit, PlainEvents
<1>3. \/ log' = l /\ turn' = Idle
      \/ log' = committed /\ turn' = PreparingContext(turns + 1)
  BY DEF DispatchNextInput, PrepareContext
<1>. HIDE DEF started, committed
<1>. QED BY <1>2, <1>3, TurnFields

LEMMA EndTurnFeed ==
  ASSUME NEW l, NEW n, FeedOf(l, n), EndTurn(l)
  PROVE  FeedOf(log', n) /\ turn'.phase # "Streaming"
BY PlainCommit, PlainEvents, DispatchFeed DEF EndTurn

LEMMA ResultFeed ==
  ASSUME TypeOK, NEW k \in Invocations, NEW s, Awaiting(k, s), NEW l \in Logs,
         NEW n, FeedOf(l, n), NEW o \in Outcomes, CommitInvocationResult(k, l, o)
  PROVE  FeedOf(log', n) /\ turn'.phase # "Streaming"
<1>. DEFINE received == Commit(l, ToolResultReceived(k, o))
            done == PublishLive(received, ToolExecutionEnded(k))
<1>1. received \in Logs
  BY CommitType, InvocationEventTypes
<1>2. FeedOf(done, n)
  BY <1>1, PlainCommit, PlainPublish, PlainEvents
<1>3. \/ /\ log' = done
         /\ turn' = [turn EXCEPT !.pending = WithoutInvocation(turn.pending, k)]
      \/ EndTurn(done)
      \/ PrepareContext(k.turn, Commit(done, UserMessageCommitted(Hints)))
  BY DEF CommitInvocationResult
<1>4. turn.phase = "RunningTools"
  BY DEF Awaiting
<1>. HIDE DEF done
<1>5. CASE /\ log' = done
           /\ turn' = [turn EXCEPT !.pending = WithoutInvocation(turn.pending, k)]
  BY <1>2, <1>4, <1>5 DEF TypeOK, TurnOK
<1>6. CASE EndTurn(done)
  BY <1>2, <1>6, EndTurnFeed
<1>7. CASE PrepareContext(k.turn, Commit(done, UserMessageCommitted(Hints)))
  BY <1>2, <1>7, PlainCommit, PlainEvents DEF PrepareContext, PreparingContext, Idle
<1>. QED BY <1>3, <1>5, <1>6, <1>7

LEMMA ProposalsFeed ==
  ASSUME NEW l \in Logs, NEW n, FeedOf(l, n), NEW c \in Nat, DispatchToolCalls(l, c)
  PROVE  FeedOf(log', n) /\ turn'.phase # "Streaming"
<1>. DEFINE calls == [i \in 1..c |-> Invocation(turn.id, turn.step, i)]
            proposals == [i \in 1..c |-> ToolCallProposed(calls[i])]
            S == {ToolCallProposed(calls[i]) : i \in 1..c}
<1>1. log' = [l EXCEPT !.events = l.events \o proposals, !.feed = l.feed \o proposals]
        /\ turn'.phase # "Streaming"
  BY DEF DispatchToolCalls, RunningTools, Idle
<1>2. proposals \in Seq(S) /\ Len(proposals) = c
      /\ \A i \in 1..c : Plain(proposals[i])
  BY PlainEvents
<1>. HIDE DEF proposals, S
<1>3. PICK T : l.feed \in Seq(T)
  BY DEF FeedOf, IsSequence
<1>4. /\ log'.feed = l.feed \o proposals
      /\ l.feed \in Seq(S \cup T) /\ proposals \in Seq(S \cup T)
  BY <1>1, <1>2, <1>3 DEF Logs
<1>. DEFINE f == log'.feed
<1>5. /\ f \in Seq(S \cup T)
      /\ Len(l.feed) \in Nat /\ DOMAIN l.feed = 1..Len(l.feed)
      /\ DOMAIN f = 1..Len(l.feed) + c
      /\ \A i \in 1..Len(l.feed) : f[i] = l.feed[i]
      /\ \A i \in DOMAIN f : i > Len(l.feed) => Plain(f[i])
  <2>. DEFINE U == S \cup T
              g == l.feed
  <2>1. f = g \o proposals /\ g \in Seq(U) /\ proposals \in Seq(U)
    BY <1>4
  <2>. HIDE DEF U, g, f
  <2>2. /\ f \in Seq(U) /\ Len(g) \in Nat /\ DOMAIN g = 1..Len(g)
        /\ DOMAIN f = 1..Len(g) + c
        /\ \A i \in 1..Len(g) : f[i] = g[i]
        /\ \A i \in Len(g) + 1..Len(g) + c : f[i] = proposals[i - Len(g)]
    <3>. DEFINE h == g \o proposals
    <3>1. /\ h \in Seq(U) /\ Len(g) \in Nat /\ DOMAIN g = 1..Len(g)
          /\ DOMAIN h = 1..Len(g) + Len(proposals)
          /\ \A i \in 1..Len(g) : h[i] = g[i]
          /\ \A i \in Len(g) + 1..Len(g) + Len(proposals) :
               h[i] = proposals[i - Len(g)]
      BY <2>1, Concatenation
    <3>2. f = h /\ Len(proposals) = c
      BY <1>2, <2>1
    <3>. HIDE DEF h
    <3>. QED BY <3>1, <3>2
  <2>3. \A i \in DOMAIN f : i > Len(g) => i - Len(g) \in 1..c
    BY <2>2
  <2>4. \A i \in DOMAIN f : i > Len(g) => Plain(f[i])
    BY <1>2, <2>2, <2>3
  <2>. QED BY <2>2, <2>4 DEF U, g
<1>. HIDE DEF f
<1>6. IsSequence(f)
  BY <1>5 DEF IsSequence
<1>7. \A i \in DOMAIN f : f[i].type \in {"ModelStepEnded", "StepProgress"} =>
        i \in DOMAIN l.feed
  BY <1>5 DEF Plain
<1>8. \A i \in DOMAIN l.feed : \A j \in 1..i - 1 : j \in DOMAIN l.feed
  BY <1>5
<1>9. /\ \A i \in DOMAIN f : f[i].type = "ModelStepEnded" => f[i].step < n
      /\ \A i \in DOMAIN f : f[i].type = "StepProgress" =>
           /\ \E j \in 1..i - 1 : f[j] = ModelStepStarted(f[i].step)
           /\ \A j \in 1..i - 1 :
                f[j].type = "ModelStepEnded" => f[j].step # f[i].step
  BY <1>5, <1>7, <1>8 DEF FeedOf
<1>. QED BY <1>1, <1>6, <1>9 DEF FeedOf, f

-----------------------------------------------------------------------------
\* The step that streams has told the session actor that it started.
Announced ==
  /\ step.status # "starting"
  /\ \A i \in DOMAIN Transit : Transit[i].type # "Step"

FeedInv ==
  /\ FeedOf(log, IF turn.phase = "Streaming" THEN generation ELSE generation + 1)
  /\ actor # "stopped" /\ turn.phase = "Streaming" /\ Announced =>
       StartSeen(log, generation)

LEMMA ToolHandlersFeed ==
  ASSUME TypeOK, NEW n, FeedOf(log, n), turn.phase # "Streaming",
         HandleToolInputPrepared \/ HandleToolFinished \/ HandleToolResultFinalized
  PROVE  FeedOf(log', n) /\ turn'.phase # "Streaming" /\ generation' = generation
<1>. DEFINE k == handling.inv
            observed == Commit(log, ToolExecutionObserved(k))
<1>1. k \in Invocations /\ generation' = generation /\ log \in Logs
  BY HandledMessage, MessageFields
     DEF HandleToolInputPrepared, HandleToolFinished, HandleToolResultFinalized,
         Handle, TypeOK
<1>2. CASE UNCHANGED <<turn, log>>
  BY <1>1, <1>2
<1>3. observed \in Logs /\ FeedOf(observed, n)
  BY <1>1, CommitType, InvocationEventTypes, PlainCommit, PlainEvents
<1>4. ASSUME NEW l \in Logs, FeedOf(l, n), NEW o \in Outcomes, NEW s, Awaiting(k, s),
             FinalizeResult(k, l, o)
      PROVE  FeedOf(log', n) /\ turn'.phase # "Streaming"
  <2>1. Commit(l, ErrorOccurred) \in Logs /\ FeedOf(Commit(l, ErrorOccurred), n)
    BY <1>4, CommitType, SessionEventTypes, PlainCommit, PlainEvents
  <2>2. \E f \in {l, Commit(l, ErrorOccurred)}, p \in {o, "Cancelled"} :
          CommitInvocationResult(k, f, p)
    BY <1>4 DEF FinalizeResult
  <2>3. "Cancelled" \in Outcomes
    BY DEF Outcomes
  <2>. QED BY <1>1, <1>4, <2>1, <2>2, <2>3, ResultFeed
<1>. HIDE DEF observed
<1>5. CASE HandleToolInputPrepared
  <2>1. CASE CommitInvocationResult(k, log, RefusedOutcome(handling.verdict))
             /\ Awaiting(k, "Proposing")
    <3>1. RefusedOutcome(handling.verdict) \in Outcomes
      BY DEF RefusedOutcome, Outcomes
    <3>. QED BY <1>1, <2>1, <3>1, ResultFeed
  <2>2. CASE /\ log' = PublishLive(Commit(log, ToolExecutionRequested(k)),
                                   ToolExecutionStarted(k))
             /\ turn' = [turn EXCEPT !.pending[k] = "Executing"]
    <3>1. Commit(log, ToolExecutionRequested(k)) \in Logs
      BY <1>1, CommitType, InvocationEventTypes
    <3>2. FeedOf(log', n)
      BY <2>2, <3>1, PlainCommit, PlainPublish, PlainEvents
    <3>. QED BY <1>1, <2>2, <3>2 DEF TypeOK, TurnOK
  <2>. QED BY <1>1, <1>2, <1>5, <2>1, <2>2 DEF HandleToolInputPrepared
<1>6. CASE HandleToolFinished
  <2>1. CASE log' = observed /\ turn' = [turn EXCEPT !.pending[k] = "Finalized"]
    BY <1>1, <1>3, <2>1 DEF TypeOK, TurnOK
  <2>2. "Cancelled" \in Outcomes
    BY DEF Outcomes
  <2>. QED
    BY <1>1, <1>2, <1>3, <1>4, <1>6, <2>1, <2>2 DEF HandleToolFinished, observed
<1>7. CASE HandleToolResultFinalized
  <2>1. handling.outcome \in Outcomes
    BY <1>7, HandledMessage, MessageFields DEF HandleToolResultFinalized
  <2>. QED BY <1>1, <1>2, <1>4, <1>7, <2>1 DEF HandleToolResultFinalized
<1>. QED BY <1>5, <1>6, <1>7

\* Messages move: the step is not announced by that, unless its Step is handled.
LEMMA AnnouncedMoves ==
  ASSUME NEW d \in {0, 1}, NEW gone, Moved(d, gone), gone \subseteq {0},
         0 \in gone => Transit[0].type # "Step",
         step'.status = step.status, Announced'
  PROVE  Announced
<1>1. \A i \in DOMAIN Transit : Transit[i].type = "Step" => Transit[i] # Nothing
  BY DEF Nothing
<1>. QED BY <1>1 DEF Announced, Moved

LEMMA HandlersFeed ==
  ASSUME TypeOK, InFlight, StreamOrder, actor # "stopped", FeedInv, Handlers
  PROVE  FeedInv'
<1>. DEFINE bound == IF turn.phase = "Streaming" THEN generation ELSE generation + 1
<1>1. FeedOf(log, bound) /\ log \in Logs /\ generation \in Nat
  BY DEF FeedInv, TypeOK
<1>2. Moved(0, {0}) /\ 0 \in DOMAIN Transit /\ Transit[0] = handling
        /\ actor' = actor
  BY HandlersMove, HandledMoved, TransitIndexes
<1>3. CASE turn.phase = "Streaming" /\ handling.type # "StepFinished"
  <2>1. UNCHANGED <<turn, generation>> /\ SameStep
    BY <1>3, StreamingGoesOn
  <2>2. Announced' => Announced \/ handling.type = "Step"
    BY <1>2, <2>1, AnnouncedMoves DEF SameStep
  <2>3. CASE UNCHANGED log /\ handling.type # "Step"
    BY <1>3, <2>1, <2>2, <2>3, <1>2 DEF FeedInv
  <2>4. CASE HandleSetSystemPrompt
    <3>1. /\ FeedOf(log', generation)
          /\ StartSeen(log, generation) => StartSeen(log', generation)
      BY <1>1, <1>3, <2>4, PlainCommit, PlainEvents DEF HandleSetSystemPrompt
    <3>2. handling.type # "Step"
      BY <2>4 DEF HandleSetSystemPrompt, Handle
    <3>. QED BY <1>2, <1>3, <2>1, <2>2, <3>1, <3>2 DEF FeedInv
  <2>5. CASE HandleStepEvent
    <3>1. handling.event = ModelStepStarted(generation)
      BY <1>2, <1>3, <2>5 DEF HandleStepEvent, Handle, StreamOrder
    <3>2. FeedOf(log', generation)
      BY <1>1, <1>3, <2>5, <3>1, PlainCommit, PlainEvents DEF HandleStepEvent
    <3>3. StartSeen(log', generation)
      <4>1. log'.feed = Append(log.feed, ModelStepStarted(generation))
        BY <2>5, <3>1 DEF HandleStepEvent, Commit
      <4>2. IsSequence(log.feed)
        BY <1>1 DEF FeedOf
      <4>. HIDE DEF bound
      <4>. QED BY <4>1, <4>2, AppendToFeed DEF StartSeen
    <3>. QED BY <1>3, <2>1, <3>2, <3>3 DEF FeedInv
  <2>6. CASE HandleLive
    <3>1. handling.type = "Live"
      BY <2>6 DEF HandleLive, Handle
    <3>2. handling.event = StepProgress(generation)
      BY <1>2, <1>3, <3>1 DEF StreamOrder
    <3>3. Announced
      <4>1. step.status # "starting"
        BY <1>2, <3>1 DEF StreamOrder, Reports
      <4>2. \A i \in DOMAIN Transit : Transit[i].type # "Step"
        <5>1. \A i \in DOMAIN Transit : i # 0 => 0 < i
          BY <1>2 DEF Moved
        <5>. QED BY <1>2, <3>1, <5>1 DEF StreamOrder, Reports
      <4>. QED BY <4>1, <4>2 DEF Announced
    <3>4. StartSeen(log, generation)
      BY <1>3, <3>3 DEF FeedInv
    <3>5. log'.feed = Append(log.feed, StepProgress(generation))
      BY <1>1, <2>6, <3>2 DEF HandleLive, PublishLive, Logs
    <3>6. /\ StepProgress(generation).type = "StepProgress"
          /\ StepProgress(generation).step = generation
      BY DEF StepProgress
    <3>7. FeedOf(log', generation) /\ StartSeen(log', generation)
      BY <1>1, <1>3, <3>4, <3>5, <3>6, FeedWithProgress
    <3>. QED BY <1>3, <2>1, <3>7 DEF FeedInv
  <2>7. \/ UNCHANGED log /\ handling.type # "Step"
        \/ HandleSetSystemPrompt \/ HandleStepEvent \/ HandleLive
    <3>1. CASE HandleSubmitInput
      BY <1>3, <3>1 DEF HandleSubmitInput, Handle
    <3>2. CASE HandleCancel
      BY <3>2 DEF HandleCancel, Handle
    <3>3. CASE HandleContextPrepared
      BY <1>3, <3>3, CurrentPreparation DEF HandleContextPrepared, Handle
    <3>4. CASE HandleToolInputPrepared \/ HandleToolFinished \/ HandleToolResultFinalized
      BY <1>3, <3>4
         DEF HandleToolInputPrepared, HandleToolFinished, HandleToolResultFinalized,
             Handle, Awaiting
    <3>5. ~HandleStepFinished
      BY <1>3 DEF HandleStepFinished, Handle
    <3>. QED BY <3>1, <3>2, <3>3, <3>4, <3>5 DEF Handlers
  <2>. QED BY <2>3, <2>4, <2>5, <2>6, <2>7
<1>4. CASE HandleStepFinished
  <2>1. turn.phase = "Streaming" /\ turn.step = handling.step /\ turn.step = generation
    BY <1>4, CurrentStep DEF HandleStepFinished, Handle, StreamOrder
  <2>. DEFINE e == ModelStepEnded(handling.step, handling.reason, handling.message)
              ended == Commit(log, e)
  <2>2. ended \in Logs /\ handling.message.calls \in Nat
    BY <1>1, <1>4, HandledMessage, MessageFields, CommitType, ModelStepEndedType
       DEF HandleStepFinished, AssistantMessages
  <2>3. FeedOf(ended, generation + 1)
    <3>1. e.type = "ModelStepEnded" /\ e.step = generation
      BY <2>1 DEF ModelStepEnded
    <3>2. ended.feed = Append(log.feed, e) /\ log.feed \in Seq(Events \cup LiveEvents)
      BY <1>1 DEF Commit, Logs
    <3>. HIDE DEF e, ended
    <3>. QED BY <1>1, <2>1, <3>1, <3>2, FeedWithStepEnd
  <2>4. /\ generation' = generation
        /\ \/ EndTurn(Commit(ended, ErrorOccurred)) \/ EndTurn(ended)
           \/ DispatchToolCalls(ended, handling.message.calls)
    BY <1>4, <2>1 DEF HandleStepFinished
  <2>. HIDE DEF ended
  <2>5. FeedOf(log', generation + 1) /\ turn'.phase # "Streaming"
    BY <2>2, <2>3, <2>4, PlainCommit, PlainEvents, EndTurnFeed, ProposalsFeed
  <2>. QED BY <2>4, <2>5 DEF FeedInv
<1>5. CASE turn.phase # "Streaming"
  <2>. DEFINE n == generation + 1
  <2>1. FeedOf(log, n)
    BY <1>1, <1>5
  <2>. HIDE DEF n
  <2>2. CASE FeedOf(log', n) /\ turn'.phase # "Streaming" /\ generation' = generation
    BY <2>2 DEF FeedInv, n
  <2>3. CASE UNCHANGED log
    <3>1. CASE turn'.phase # "Streaming" /\ generation' = generation
      BY <2>1, <2>2, <2>3, <3>1
    <3>2. CASE /\ turn' = Streaming(turn.id, generation + 1)
               /\ generation' = generation + 1
               /\ step' = NewStep(generation + 1, StepContext(handling.context))
      BY <2>1, <2>3, <3>2
         DEF FeedInv, Announced, NewStep, Streaming, Idle, n
    <3>. QED BY <1>5, <3>1, <3>2, StreamingStarts
  <2>4. CASE HandleSubmitInput
    BY <1>5, <2>1, <2>2, <2>3, <2>4, DispatchFeed DEF HandleSubmitInput
  <2>5. CASE HandleSetSystemPrompt \/ HandleStepEvent \/ HandleLive
    <3>1. UNCHANGED <<turn, generation>>
      BY <2>5 DEF HandleSetSystemPrompt, HandleStepEvent, HandleLive, turnVars
    <3>2. HandleSetSystemPrompt
      BY <1>2, <1>5, <2>5 DEF HandleStepEvent, HandleLive, Handle, StreamOrder
    <3>3. FeedOf(log', n)
      BY <2>1, <3>2, PlainCommit, PlainEvents DEF HandleSetSystemPrompt
    <3>. QED BY <1>5, <2>2, <3>1, <3>3
  <2>6. CASE HandleCancel
    BY <2>3, <2>6 DEF HandleCancel
  <2>7. CASE HandleContextPrepared
    BY <2>1, <2>2, <2>3, <2>7, EndTurnFeed DEF HandleContextPrepared
  <2>8. CASE HandleToolInputPrepared \/ HandleToolFinished \/ HandleToolResultFinalized
    BY <1>5, <2>1, <2>2, <2>8, ToolHandlersFeed
  <2>9. ~HandleStepFinished
    BY <1>5, CurrentStep DEF HandleStepFinished, Handle
  <2>. QED BY <2>4, <2>5, <2>6, <2>7, <2>8, <2>9 DEF Handlers
<1>6. HandleStepFinished \/ handling.type # "StepFinished"
  BY DEF Handlers, Handle, HandleSubmitInput, HandleSetSystemPrompt, HandleCancel,
         HandleStepEvent, HandleLive, HandleContextPrepared, HandleStepFinished,
         HandleToolInputPrepared, HandleToolFinished, HandleToolResultFinalized
<1>. QED BY <1>3, <1>4, <1>5, <1>6

\* Whoever is outside the session actor only adds a message.
LEMMA OutsideTransit ==
  ASSUME TypeOK, Outside
  PROVE  \A i \in DOMAIN Transit : i \in DOMAIN Transit' /\ Transit'[i] = Transit[i]
<1>1. handling' = handling /\ (mailbox' = mailbox \/ \E m : mailbox' = Append(mailbox, m))
  BY OutsideMoves DEF Deliver
<1>2. CASE mailbox' = mailbox
  BY <1>1, <1>2 DEF Transit
<1>3. ASSUME NEW m, mailbox' = Append(mailbox, m)
      PROVE  \A i \in DOMAIN Transit : i \in DOMAIN Transit' /\ Transit'[i] = Transit[i]
  <2>1. IsSequence(mailbox)
    BY DEF TypeOK, IsSequence
  <2>2. /\ Len(mailbox) \in Nat /\ Len(mailbox') = Len(mailbox) + 1
        /\ \A i \in 1..Len(mailbox) : mailbox'[i] = mailbox[i]
    <3>1. PICK S : mailbox \in Seq(S)
      BY <2>1 DEF IsSequence
    <3>2. mailbox \in Seq(S \cup {m})
      BY <3>1
    <3>. QED BY <1>3, <3>2
  <2>. QED BY <1>1, <2>2 DEF Transit
<1>. QED BY <1>1, <1>2, <1>3

\* What is outside the session actor announces no step, save by its message.
LEMMA OutsideAnnounced ==
  ASSUME TypeOK, Outside, actor # "stopped", Announced'
  PROVE  Announced
<1>1. \A i \in DOMAIN Transit : Transit[i].type # "Step"
  BY OutsideTransit DEF Announced
<1>2. step.status = "starting" => step'.status = "starting" \/ StepStarts
  <2>1. step \in Steps
    BY DEF TypeOK
  <2>. USE DEF StepVars
  <2>2. CASE ClientNext
    BY <2>2 DEF ClientNext, ClientSubmits, ClientCancels, ClientSetsPrompt,
                ClientCloses
  <2>3. CASE TaskNext
    BY <2>3 DEF TaskNext, TaskVars, FinishContextHooks, FinishBeforeToolUse,
                FinishTool, FinishAfterToolUse
  <2>4. CASE StepNext
    BY <2>4 DEF StepNext, StepForwardsDelta, StepTakesDone, StepBreaks, StepStops,
                StepReceives
  <2>5. CASE StreamNext
    BY <2>5 DEF StreamNext, StreamProgresses, StreamTerminates, StreamEnds, Pump
  <2>6. CASE UNCHANGED vars
    BY <2>6 DEF vars
  <2>. QED BY <2>2, <2>3, <2>4, <2>5, <2>6 DEF Outside
<1>3. ~StepStarts
  <2>. SUFFICES ASSUME StepStarts PROVE FALSE
    OBVIOUS
  <2>. DEFINE m == StepEvent(ModelStepStarted(step.id))
  <2>1. m \in MailboxMessages /\ m.type = "Step"
    BY MessageTypes, TurnEventTypes DEF StepEvent, TypeOK, Steps
  <2>2. Deliver(m) /\ handling' = handling
    BY DEF StepStarts, StepVars, actorVars
  <2>. HIDE DEF m
  <2>. QED BY <2>1, <2>2, DeliverTransit DEF Announced
<1>. QED BY <1>1, <1>2, <1>3 DEF Announced

LEMMA OutsideFeed ==
  ASSUME TypeOK, FeedInv, Outside
  PROVE  FeedInv'
<1>1. UNCHANGED <<log, turn, generation, actor>>
  BY OutsideMoves
<1>. QED BY <1>1, OutsideAnnounced DEF FeedInv

LEMMA InitFeed == Init => FeedInv
<1>. SUFFICES ASSUME Init PROVE FeedInv
  OBVIOUS
<1>1. turn.phase = "Idle" /\ log.feed = <<>>
  BY DEF Init, Idle, EmptyLog
<1>2. <<>> \in Seq({})
  OBVIOUS
<1>. QED BY <1>1, <1>2 DEF FeedInv, FeedOf, IsSequence

LEMMA NextFeed ==
  ASSUME StreamInv, FeedInv, [Next]_vars
  PROVE  FeedInv'
<1>. USE DEF StreamInv
<1>1. CASE OnStart
  <2>1. turn.phase = "Idle" /\ UNCHANGED <<turn, generation>>
    BY <1>1 DEF OnStart, turnVars, ActorInv, Idle
  <2>2. FeedOf(log', generation + 1)
    BY <1>1, <2>1, PlainCommit, PlainEvents DEF OnStart, FeedInv
  <2>. QED BY <2>1, <2>2 DEF FeedInv
<1>2. CASE OnStop
  <2>1. actor' = "stopped" /\ UNCHANGED <<turn, generation>>
    BY <1>2 DEF OnStop, turnVars
  <2>. DEFINE n == IF turn.phase = "Streaming" THEN generation ELSE generation + 1
  <2>2. FeedOf(log, n)
    BY DEF FeedInv
  <2>. HIDE DEF n
  <2>3. FeedOf(log', n)
    BY <1>2, <2>2, PlainCommit, PlainEvents DEF OnStop
  <2>. QED BY <2>1, <2>3 DEF FeedInv, n
<1>3. CASE Receive
  <2>1. UNCHANGED <<turn, generation, log, actor, step>>
    BY <1>3 DEF Receive, turnVars
  <2>2. Announced' => Announced
    BY <1>3, <2>1, ReceiveMoved, AnnouncedMoves
  <2>. QED BY <2>1, <2>2 DEF FeedInv
<1>4. CASE Handlers
  <2>1. actor # "stopped"
    BY <1>4, HandlerRuns
  <2>. QED
    BY <1>4, <2>1, HandlersFeed DEF OneCompletionInFlight, InFlight, StreamOrderInv
<1>5. CASE Outside
  BY <1>5, OutsideFeed
<1>. QED BY <1>1, <1>2, <1>3, <1>4, <1>5, StepKinds

(***************************************************************************)
(* Subscribers see the progress of a step after its ModelStepStarted and   *)
(* before its ModelStepEnded: agent_step.rs sends both, and its end,       *)
(* through one mailbox, and no other step is minted in between.            *)
(***************************************************************************)
THEOREM ProgressStaysWithinStep == Spec => []ProgressWithinStep
<1>1. Init => StreamInv /\ FeedInv
  BY InitStream, InitFeed
<1>2. StreamInv /\ FeedInv /\ [Next]_vars => (StreamInv /\ FeedInv)'
  BY NextStream, NextFeed
<1>3. FeedInv => ProgressWithinStep
  <2>. SUFFICES ASSUME FeedInv, NEW i \in DOMAIN log.feed,
                       log.feed[i].type = "StepProgress"
                PROVE  LET s == log.feed[i].step
                           before == {log.feed[j] : j \in 1..i - 1}
                       IN /\ ModelStepStarted(s) \in before
                          /\ \A e \in before : e.type = "ModelStepEnded" => e.step # s
    BY DEF ProgressWithinStep
  <2>1. /\ \E j \in 1..i - 1 : log.feed[j] = ModelStepStarted(log.feed[i].step)
        /\ \A j \in 1..i - 1 : log.feed[j].type = "ModelStepEnded" =>
             log.feed[j].step # log.feed[i].step
    BY DEF FeedInv, FeedOf
  <2>. QED BY <2>1
<1>. QED BY <1>1, <1>2, <1>3, PTL DEF Spec

-----------------------------------------------------------------------------
(* The inputs: those of the turns so far, the queued ones, the last one. *)

\* The log l has the inputs 1 to n, in this order.
InputsOf(l, n) ==
  /\ IsSequence(l.events)
  /\ \A i \in DOMAIN l.events : IsInput(l.events[i]) => l.events[i].input \in 1..n
  /\ \A i, j \in DOMAIN l.events :
       IsInput(l.events[i]) /\ IsInput(l.events[j]) /\ i < j =>
         l.events[i].input < l.events[j].input
  /\ \A k \in 1..n :
       \E i \in DOMAIN l.events : IsInput(l.events[i]) /\ l.events[i].input = k

QueueOf(q, n) == q \in Seq(Nat) /\ \A i \in 1..Len(q) : q[i] = n + i

\* A submission is on its way when and only when the client waits for it.
AskedOnce ==
  /\ \A i \in DOMAIN Transit : IsSubmission(Transit[i]) =>
       client = "asking" /\ Transit[i].input = sent.inputs
  /\ client = "asking" => \E i \in DOMAIN Transit : IsSubmission(Transit[i])
  /\ \A i, j \in DOMAIN Transit :
       IsSubmission(Transit[i]) /\ IsSubmission(Transit[j]) => i = j

InputInv ==
  actor # "stopped" =>
    /\ AskedOnce /\ InputsOf(log, turns) /\ QueueOf(queue, turns)
    /\ turn.phase = "Idle" => queue = <<>>
    /\ sent.inputs = turns + Len(queue) + IF client = "asking" THEN 1 ELSE 0

LEMMA OtherEvents ==
  /\ ~IsInput(SessionStarted) /\ ~IsInput(SessionEnded) /\ ~IsInput(ErrorOccurred)
  /\ ~IsInput(UserMessageCommitted(Hints))
  /\ \A n : /\ ~IsInput(AgentTurnStarted(n)) /\ ~IsInput(AgentTurnEnded(n))
            /\ ~IsInput(SystemPromptSet(n)) /\ ~IsInput(ModelStepStarted(n))
            /\ \A r, m : ~IsInput(ModelStepEnded(n, r, m))
  /\ \A k : /\ ~IsInput(ToolCallProposed(k)) /\ ~IsInput(ToolExecutionRequested(k))
            /\ ~IsInput(ToolExecutionObserved(k))
            /\ \A o : ~IsInput(ToolResultReceived(k, o))
BY DEF IsInput, SessionStarted, SessionEnded, ErrorOccurred, AgentTurnStarted,
       AgentTurnEnded, UserMessageCommitted, SystemPromptSet, ModelStepStarted,
       ModelStepEnded, ToolCallProposed, ToolExecutionRequested,
       ToolExecutionObserved, ToolResultReceived

LEMMA CommitOther ==
  ASSUME NEW l, NEW n, InputsOf(l, n), NEW e, ~IsInput(e)
  PROVE  InputsOf(Commit(l, e), n)
<1>. DEFINE f == Commit(l, e).events
<1>1. f = Append(l.events, e)
  BY DEF Commit
<1>. HIDE DEF f
<1>2. /\ IsSequence(f)
      /\ Len(l.events) \in Nat /\ DOMAIN l.events = 1..Len(l.events)
      /\ DOMAIN f = 1..Len(l.events) + 1
      /\ f[Len(l.events) + 1] = e
      /\ \A i \in 1..Len(l.events) : f[i] = l.events[i]
  BY <1>1, AppendToFeed DEF InputsOf
<1>3. \A i \in DOMAIN f : IsInput(f[i]) => i \in DOMAIN l.events
  BY <1>2
<1>4. \A i \in DOMAIN l.events : i \in DOMAIN f /\ f[i] = l.events[i]
  BY <1>2
<1>5. /\ \A i \in DOMAIN f : IsInput(f[i]) => f[i].input \in 1..n
      /\ \A i, j \in DOMAIN f :
           IsInput(f[i]) /\ IsInput(f[j]) /\ i < j => f[i].input < f[j].input
      /\ \A k \in 1..n : \E i \in DOMAIN f : IsInput(f[i]) /\ f[i].input = k
  BY <1>3, <1>4 DEF InputsOf
<1>. QED BY <1>2, <1>5 DEF InputsOf, f

LEMMA CommitNextInput ==
  ASSUME NEW l, NEW n \in Nat, InputsOf(l, n)
  PROVE  InputsOf(Commit(l, UserMessageCommitted(n + 1)), n + 1)
<1>. DEFINE e == UserMessageCommitted(n + 1)
            f == Commit(l, e).events
<1>1. f = Append(l.events, e)
  BY DEF Commit
<1>2. IsInput(e) /\ e.input = n + 1
  BY DEF IsInput, UserMessageCommitted, Hints
<1>. HIDE DEF e, f
<1>3. /\ IsSequence(f)
      /\ Len(l.events) \in Nat /\ DOMAIN l.events = 1..Len(l.events)
      /\ DOMAIN f = 1..Len(l.events) + 1
      /\ f[Len(l.events) + 1] = e
      /\ \A i \in 1..Len(l.events) : f[i] = l.events[i]
  BY <1>1, AppendToFeed DEF InputsOf
<1>. DEFINE last == Len(l.events) + 1
<1>4. /\ last \in DOMAIN f /\ f[last] = e
      /\ \A i \in DOMAIN l.events : i \in DOMAIN f /\ f[i] = l.events[i]
      /\ \A i \in DOMAIN f : i = last \/ i \in DOMAIN l.events
      /\ \A i \in DOMAIN f : ~(last < i)
  BY <1>3
<1>. HIDE DEF last
<1>5. \A i \in DOMAIN f : IsInput(f[i]) => f[i].input \in 1..n + 1
  BY <1>2, <1>4 DEF InputsOf
<1>6. ASSUME NEW i \in DOMAIN f, NEW j \in DOMAIN f, IsInput(f[i]), IsInput(f[j]), i < j
      PROVE  f[i].input < f[j].input
  <2>1. i \in DOMAIN l.events /\ f[i].input \in 1..n
    BY <1>4, <1>6 DEF InputsOf
  <2>. QED BY <1>2, <1>4, <1>6, <2>1 DEF InputsOf
<1>7. ASSUME NEW k \in 1..n + 1
      PROVE  \E i \in DOMAIN f : IsInput(f[i]) /\ f[i].input = k
  BY <1>2, <1>4 DEF InputsOf
<1>. QED BY <1>3, <1>5, <1>6, <1>7 DEF InputsOf, f, e

LEMMA DispatchInputs ==
  ASSUME turns \in Nat, NEW l, InputsOf(l, turns), NEW q, QueueOf(q, turns),
         DispatchNextInput(l, q)
  PROVE  /\ InputsOf(log', turns') /\ QueueOf(queue', turns')
         /\ turns' + Len(queue') = turns + Len(q)
         /\ turn'.phase = "Idle" => queue' = <<>>
<1>1. CASE q = <<>>
  BY <1>1 DEF DispatchNextInput
<1>2. CASE q # <<>>
  <2>. DEFINE started == Commit(l, AgentTurnStarted(turns + 1))
  <2>1. q \in Seq(Nat) /\ Len(q) \in Nat /\ Len(q) >= 1 /\ Head(q) = turns + 1
    BY <1>2 DEF QueueOf
  <2>2. InputsOf(started, turns)
    BY CommitOther, OtherEvents
  <2>. HIDE DEF started
  <2>3. InputsOf(Commit(started, UserMessageCommitted(turns + 1)), turns + 1)
    BY <2>2, CommitNextInput
  <2>4. /\ Tail(q) \in Seq(Nat) /\ Len(Tail(q)) = Len(q) - 1
        /\ \A i \in 1..Len(q) - 1 : Tail(q)[i] = q[i + 1]
    BY <1>2, <2>1
  <2>5. QueueOf(Tail(q), turns + 1)
    BY <2>1, <2>4 DEF QueueOf
  <2>6. turns' = turns + 1 /\ queue' = Tail(q) /\ turn'.phase = "PreparingContext"
        /\ log' = Commit(started, UserMessageCommitted(turns + 1))
    BY <1>2, <2>1, TurnFields DEF DispatchNextInput, PrepareContext, started
  <2>. QED BY <2>1, <2>3, <2>4, <2>5, <2>6
<1>. QED BY <1>1, <1>2

\* What a handler keeps of the inputs when it takes no submission.
InputsGoOn ==
  /\ InputsOf(log', turns') /\ QueueOf(queue', turns')
  /\ turns' + Len(queue') = turns + Len(queue)
  /\ turn'.phase = "Idle" => queue' = <<>>

LEMMA EndTurnInputs ==
  ASSUME turns \in Nat, NEW l, InputsOf(l, turns), QueueOf(queue, turns), EndTurn(l)
  PROVE  InputsGoOn
BY CommitOther, OtherEvents, DispatchInputs DEF EndTurn, InputsGoOn

LEMMA ResultInputs ==
  ASSUME TypeOK, NEW k \in Invocations, NEW s, Awaiting(k, s),
         NEW l \in Logs, NEW o \in Outcomes,
         InputsOf(l, turns), QueueOf(queue, turns), CommitInvocationResult(k, l, o)
  PROVE  InputsGoOn
<1>. DEFINE received == Commit(l, ToolResultReceived(k, o))
            done == PublishLive(received, ToolExecutionEnded(k))
<1>1. received \in Logs
  BY CommitType, InvocationEventTypes
<1>2. done.events = received.events
  BY <1>1 DEF PublishLive, Logs
<1>3. InputsOf(done, turns)
  <2>1. InputsOf(received, turns)
    BY CommitOther, OtherEvents
  <2>. HIDE DEF received, done
  <2>. QED BY <1>2, <2>1 DEF InputsOf
<1>4. \/ /\ log' = done /\ UNCHANGED <<turns, queue>>
         /\ turn' = [turn EXCEPT !.pending = WithoutInvocation(turn.pending, k)]
      \/ EndTurn(done)
      \/ /\ PrepareContext(k.turn, Commit(done, UserMessageCommitted(Hints)))
         /\ UNCHANGED <<turns, queue>>
  BY DEF CommitInvocationResult
<1>5. turns \in Nat /\ turn.phase = "RunningTools"
  BY DEF TypeOK, Awaiting
<1>. HIDE DEF done
<1>6. CASE /\ log' = done /\ UNCHANGED <<turns, queue>>
           /\ turn' = [turn EXCEPT !.pending = WithoutInvocation(turn.pending, k)]
  <2>1. turn'.phase = "RunningTools"
    BY <1>5, <1>6 DEF TypeOK, TurnOK
  <2>. QED BY <1>3, <1>6, <2>1 DEF InputsGoOn
<1>7. CASE EndTurn(done)
  BY <1>3, <1>5, <1>7, EndTurnInputs
<1>8. CASE /\ PrepareContext(k.turn, Commit(done, UserMessageCommitted(Hints)))
           /\ UNCHANGED <<turns, queue>>
  BY <1>3, <1>8, CommitOther, OtherEvents, TurnFields DEF PrepareContext, InputsGoOn
<1>. QED BY <1>4, <1>6, <1>7, <1>8

LEMMA ProposalsInputs ==
  ASSUME TypeOK, NEW l \in Logs, NEW n \in Nat, InputsOf(l, turns),
         QueueOf(queue, turns), DispatchToolCalls(l, n)
  PROVE  InputsGoOn
<1>. DEFINE calls == [i \in 1..n |-> Invocation(turn.id, turn.step, i)]
            proposals == [i \in 1..n |-> ToolCallProposed(calls[i])]
            S == {ToolCallProposed(calls[i]) : i \in 1..n}
            U == Events \cup S
            g == l.events
            f == log'.events
            h == g \o proposals
<1>0. /\ log' = [l EXCEPT !.events = l.events \o proposals, !.feed = l.feed \o proposals]
      /\ turn'.phase # "Idle" /\ UNCHANGED <<turns, queue>>
  BY DEF DispatchToolCalls, RunningTools, Idle
<1>2. /\ proposals \in Seq(S) /\ Len(proposals) = n
      /\ \A i \in 1..n : ~IsInput(proposals[i])
  BY OtherEvents
<1>. HIDE DEF proposals, S
<1>1. f = h /\ g \in Seq(U) /\ proposals \in Seq(U)
  BY <1>0, <1>2 DEF Logs
<1>. HIDE DEF proposals, U, f
<1>3. /\ h \in Seq(U) /\ Len(g) \in Nat /\ DOMAIN g = 1..Len(g)
      /\ DOMAIN h = 1..Len(g) + n
      /\ \A i \in 1..Len(g) : h[i] = g[i]
      /\ \A i \in Len(g) + 1..Len(g) + n : h[i] = proposals[i - Len(g)]
  <2>. HIDE DEF g
  <2>1. /\ h \in Seq(U) /\ Len(g) \in Nat /\ DOMAIN g = 1..Len(g)
        /\ DOMAIN h = 1..Len(g) + Len(proposals)
        /\ \A i \in 1..Len(g) : h[i] = g[i]
        /\ \A i \in Len(g) + 1..Len(g) + Len(proposals) :
             h[i] = proposals[i - Len(g)]
    BY <1>1, Concatenation
  <2>. HIDE DEF h
  <2>. QED BY <1>2, <2>1
<1>. HIDE DEF h, g
<1>4. \A i \in DOMAIN h : IsInput(h[i]) => i \in DOMAIN g
  <2>1. \A i \in DOMAIN h : i > Len(g) => i - Len(g) \in 1..n
    BY <1>3
  <2>. QED BY <1>2, <1>3, <2>1
<1>5. \A i \in DOMAIN g : i \in DOMAIN h /\ h[i] = g[i]
  BY <1>3
<1>6. /\ \A i \in DOMAIN h : IsInput(h[i]) => h[i].input \in 1..turns
      /\ \A i, j \in DOMAIN h :
           IsInput(h[i]) /\ IsInput(h[j]) /\ i < j => h[i].input < h[j].input
      /\ \A k \in 1..turns : \E i \in DOMAIN h : IsInput(h[i]) /\ h[i].input = k
  BY <1>4, <1>5 DEF InputsOf, g
<1>7. InputsOf(log', turns)
  BY <1>1, <1>3, <1>6 DEF InputsOf, IsSequence, f
<1>. QED BY <1>0, <1>7 DEF InputsGoOn

LEMMA ToolHandlersInputs ==
  ASSUME TypeOK, InputsOf(log, turns), QueueOf(queue, turns), turn.phase # "Idle",
         HandleToolInputPrepared \/ HandleToolFinished \/ HandleToolResultFinalized
  PROVE  InputsGoOn
<1>. DEFINE k == handling.inv
            observed == Commit(log, ToolExecutionObserved(k))
<1>1. k \in Invocations /\ log \in Logs
  BY HandledMessage, MessageFields
     DEF HandleToolInputPrepared, HandleToolFinished, HandleToolResultFinalized,
         Handle, TypeOK
<1>2. CASE UNCHANGED <<turn, turns, queue, log>>
  BY <1>2 DEF InputsGoOn
<1>3. observed \in Logs /\ InputsOf(observed, turns)
  BY <1>1, CommitType, InvocationEventTypes, CommitOther, OtherEvents
<1>4. ASSUME NEW l \in Logs, InputsOf(l, turns), NEW o \in Outcomes, NEW s,
             Awaiting(k, s), FinalizeResult(k, l, o)
      PROVE  InputsGoOn
  <2>1. /\ Commit(l, ErrorOccurred) \in Logs
        /\ InputsOf(Commit(l, ErrorOccurred), turns)
    BY <1>4, CommitType, SessionEventTypes, CommitOther, OtherEvents
  <2>2. \E f \in {l, Commit(l, ErrorOccurred)}, p \in {o, "Cancelled"} :
          CommitInvocationResult(k, f, p)
    BY <1>4 DEF FinalizeResult
  <2>3. "Cancelled" \in Outcomes
    BY DEF Outcomes
  <2>. QED BY <1>1, <1>4, <2>1, <2>2, <2>3, ResultInputs
<1>. HIDE DEF observed
<1>5. ASSUME NEW s, turn' = [turn EXCEPT !.pending[k] = s]
      PROVE  turn'.phase # "Idle"
  BY <1>5 DEF TypeOK, TurnOK
<1>6. CASE HandleToolInputPrepared
  <2>1. CASE CommitInvocationResult(k, log, RefusedOutcome(handling.verdict))
             /\ Awaiting(k, "Proposing")
    <3>1. RefusedOutcome(handling.verdict) \in Outcomes
      BY DEF RefusedOutcome, Outcomes
    <3>. QED BY <1>1, <2>1, <3>1, ResultInputs
  <2>. DEFINE requested == Commit(log, ToolExecutionRequested(k))
  <2>2. CASE /\ log' = PublishLive(requested, ToolExecutionStarted(k))
             /\ turn' = [turn EXCEPT !.pending[k] = "Executing"]
             /\ UNCHANGED <<turns, queue>>
    <3>1. requested \in Logs /\ InputsOf(requested, turns)
      BY <1>1, CommitType, InvocationEventTypes, CommitOther, OtherEvents
    <3>. HIDE DEF requested
    <3>2. log'.events = requested.events
      BY <2>2, <3>1 DEF PublishLive, Logs
    <3>3. InputsOf(log', turns)
      BY <3>1, <3>2 DEF InputsOf
    <3>. QED BY <1>5, <2>2, <3>3 DEF InputsGoOn
  <2>. QED BY <1>2, <1>6, <2>1, <2>2 DEF HandleToolInputPrepared
<1>7. CASE HandleToolFinished
  <2>1. CASE /\ log' = observed /\ turn' = [turn EXCEPT !.pending[k] = "Finalized"]
             /\ UNCHANGED <<turns, queue>>
    BY <1>3, <1>5, <2>1 DEF InputsGoOn
  <2>2. "Cancelled" \in Outcomes
    BY DEF Outcomes
  <2>. QED BY <1>2, <1>3, <1>4, <1>7, <2>1, <2>2 DEF HandleToolFinished, observed
<1>8. CASE HandleToolResultFinalized
  <2>1. handling.outcome \in Outcomes
    BY <1>8, HandledMessage, MessageFields DEF HandleToolResultFinalized
  <2>. QED BY <1>1, <1>2, <1>4, <1>8, <2>1 DEF HandleToolResultFinalized
<1>. QED BY <1>6, <1>7, <1>8

\* A handler that takes no submission.
LEMMA OtherHandlersInputs ==
  ASSUME TypeOK, InFlight, StreamOrder, actor # "stopped", InputInv, Handlers,
         handling.type # "SubmitInput"
  PROVE  InputsGoOn
<1>1. /\ InputsOf(log, turns) /\ QueueOf(queue, turns)
      /\ turn.phase = "Idle" => queue = <<>>
      /\ turns \in Nat /\ log \in Logs
  BY DEF InputInv, TypeOK
<1>. USE DEF turnVars
<1>2. CASE HandleSetSystemPrompt
  BY <1>1, <1>2, CommitOther, OtherEvents DEF HandleSetSystemPrompt, InputsGoOn
<1>3. CASE HandleStepEvent
  <2>1. handling.event = ModelStepStarted(turn.step)
    BY <1>3, TransitIndexes DEF HandleStepEvent, Handle, StreamOrder
  <2>. QED
    BY <1>1, <1>3, <2>1, CommitOther, OtherEvents DEF HandleStepEvent, InputsGoOn
<1>4. CASE HandleLive
  <2>1. log'.events = log.events
    BY <1>1, <1>4 DEF HandleLive, PublishLive, Logs
  <2>2. InputsOf(log', turns)
    BY <1>1, <2>1 DEF InputsOf
  <2>. QED BY <1>1, <1>4, <2>2 DEF HandleLive, InputsGoOn
<1>5. CASE HandleCancel
  <2>1. UNCHANGED <<log, turns, queue>> /\ turn'.phase = turn.phase
    BY <1>5 DEF HandleCancel, TypeOK, TurnOK
  <2>. QED BY <1>1, <2>1 DEF InputsGoOn
<1>6. CASE HandleContextPrepared
  <2>1. CASE EndTurn(log)
    BY <1>1, <2>1, EndTurnInputs
  <2>2. CASE UNCHANGED <<log, turns, queue>> /\ turn' = Streaming(turn.id, generation + 1)
    BY <1>1, <2>2 DEF Streaming, Idle, InputsGoOn
  <2>. QED
    BY <1>6, <2>1, <2>2, CurrentPreparation DEF HandleContextPrepared, Handle
<1>7. CASE HandleStepFinished
  <2>. DEFINE ended == Commit(log, ModelStepEnded(handling.step, handling.reason,
                                                   handling.message))
  <2>1. InputsOf(ended, turns) /\ InputsOf(Commit(ended, ErrorOccurred), turns)
    BY <1>1, CommitOther, OtherEvents
  <2>2. ended \in Logs /\ handling.message.calls \in Nat
    BY <1>1, <1>7, HandledMessage, MessageFields, CommitType, ModelStepEndedType
       DEF HandleStepFinished, AssistantMessages
  <2>3. \/ EndTurn(Commit(ended, ErrorOccurred)) \/ EndTurn(ended)
        \/ DispatchToolCalls(ended, handling.message.calls)
    BY <1>7, CurrentStep DEF HandleStepFinished, Handle
  <2>. HIDE DEF ended
  <2>. QED BY <1>1, <2>1, <2>2, <2>3, EndTurnInputs, ProposalsInputs
<1>8. CASE HandleToolInputPrepared \/ HandleToolFinished \/ HandleToolResultFinalized
  <2>1. CASE UNCHANGED <<turn, turns, queue, log>>
    BY <1>1, <2>1 DEF InputsGoOn
  <2>2. CASE turn.phase # "Idle"
    BY <1>1, <1>8, <2>2, ToolHandlersInputs
  <2>. QED
    BY <1>8, <2>1, <2>2
       DEF HandleToolInputPrepared, HandleToolFinished, HandleToolResultFinalized,
           Awaiting
<1>. QED
  BY <1>2, <1>3, <1>4, <1>5, <1>6, <1>7, <1>8 DEF Handlers, HandleSubmitInput, Handle

\* The client is still waiting, or still is not.
SameAsking ==
  /\ sent'.inputs = sent.inputs
  /\ client' = client \/ (client = "ready" /\ client' = "closed")

LEMMA AskedMoved ==
  ASSUME AskedOnce, NEW d \in {0, 1}, NEW gone, Moved(d, gone), SameAsking,
         \A j \in DOMAIN Transit \cap gone : ~IsSubmission(Transit[j])
  PROVE  AskedOnce' /\ (client' = "asking" <=> client = "asking")
<1>1. ~IsSubmission(Nothing)
  BY DEF IsSubmission, Nothing
<1>2. client' = "asking" <=> client = "asking"
  BY DEF SameAsking
<1>3. \A i \in DOMAIN Transit' : IsSubmission(Transit'[i]) =>
        i + d \in DOMAIN Transit /\ Transit'[i] = Transit[i + d]
  BY <1>1 DEF Moved
<1>4. \A i, j \in DOMAIN Transit' : i + d = j + d => i = j
  BY DEF Moved
<1>5. client' = "asking" => \E i \in DOMAIN Transit' : IsSubmission(Transit'[i])
  BY <1>1, <1>2 DEF Moved, AskedOnce
<1>6. \A i \in DOMAIN Transit' : IsSubmission(Transit'[i]) =>
        client' = "asking" /\ Transit'[i].input = sent'.inputs
  BY <1>2, <1>3 DEF AskedOnce, SameAsking
<1>7. \A i, j \in DOMAIN Transit' :
        IsSubmission(Transit'[i]) /\ IsSubmission(Transit'[j]) => i = j
  BY <1>3, <1>4 DEF AskedOnce
<1>8. AskedOnce'
  BY <1>5, <1>6, <1>7 DEF AskedOnce, IsSubmission
<1>. QED BY <1>2, <1>8

LEMMA OutsideSends ==
  ASSUME TypeOK, Outside
  PROVE  \/ ClientSubmits
         \/ /\ SameAsking
            /\ \/ mailbox' = mailbox
               \/ \E m \in MailboxMessages : Deliver(m) /\ ~IsSubmission(m)
<1>. USE DEF actorVars, turnVars, TaskVars, StepVars, clientVars, SameAsking
<1>1. /\ sent.prompts + 1 \in Nat /\ tasks \subseteq Tasks
      /\ step.id \in Nat /\ step.reason \in StepReasons
      /\ step.message \in AssistantMessages
      /\ sent \in [inputs: 0..MaxInputs, cancels: 0..MaxCancels, prompts: 0..MaxPrompts]
  BY DEF TypeOK, Steps
<1>2. CASE ClientNext
  <2>1. CASE ClientCancels \/ ClientSetsPrompt
    BY <1>1, <2>1, MessageTypes
       DEF ClientCancels, ClientSetsPrompt, Cancel, SetSystemPrompt, IsSubmission
  <2>. QED BY <1>2, <2>1 DEF ClientNext, ClientCloses
<1>3. CASE TaskNext
  <2>1. /\ HookVerdicts \subseteq Verdicts /\ "Cancelled" \in Verdicts
        /\ ToolOutcomes \subseteq Outcomes /\ "Error" \in Outcomes
    BY DataAssumption DEF Verdicts, Outcomes
  <2>. USE DEF IsSubmission
  <2>2. CASE FinishContextHooks
    BY <1>1, <2>2, TaskFields, MessageTypes DEF FinishContextHooks, ContextPrepared
  <2>3. CASE FinishBeforeToolUse
    BY <1>1, <2>1, <2>3, TaskFields, MessageTypes
       DEF FinishBeforeToolUse, ToolInputPrepared
  <2>4. CASE FinishTool
    BY <1>1, <2>4, TaskFields, MessageTypes DEF FinishTool, ToolFinished
  <2>5. CASE FinishAfterToolUse
    BY <1>1, <2>1, <2>5, TaskFields, MessageTypes
       DEF FinishAfterToolUse, ToolResultFinalized
  <2>. QED BY <1>3, <2>2, <2>3, <2>4, <2>5 DEF TaskNext
<1>4. CASE StepNext
  BY <1>1, <1>4, MessageTypes, TurnEventTypes
     DEF StepNext, StepStarts, StepForwardsDelta, StepTakesDone, StepBreaks,
         StepStops, StepEvent, Live, StepFinished, IsSubmission
<1>5. CASE StreamNext
  BY <1>5 DEF StreamNext, StreamProgresses, StreamTerminates, StreamEnds, Pump
<1>6. CASE UNCHANGED vars
  BY <1>6 DEF vars
<1>. QED BY <1>2, <1>3, <1>4, <1>5, <1>6 DEF Outside

LEMMA OutsideInput ==
  ASSUME TypeOK, InputInv, Outside
  PROVE  InputInv'
<1>. SUFFICES ASSUME actor # "stopped" PROVE InputInv'
  BY OutsideMoves DEF InputInv
<1>1. UNCHANGED <<actor, handling, turn, turns, queue, log>>
  BY OutsideMoves
<1>2. CASE AskedOnce' /\ SameAsking
  BY <1>1, <1>2 DEF InputInv, SameAsking
<1>3. CASE ClientSubmits
  <2>. DEFINE m == SubmitInput(sent.inputs + 1)
  <2>1. /\ sent.inputs \in Nat /\ turns \in Nat /\ Len(queue) \in Nat
        /\ sent \in [inputs: 0..MaxInputs, cancels: 0..MaxCancels, prompts: 0..MaxPrompts]
    BY DEF TypeOK
  <2>2. /\ Deliver(m) /\ client = "ready" /\ client' = "asking"
        /\ sent'.inputs = sent.inputs + 1
    BY <1>3, <2>1 DEF ClientSubmits
  <2>3. m \in MailboxMessages /\ IsSubmission(m) /\ m.input = sent.inputs + 1
    BY <2>1, MessageTypes DEF SubmitInput, IsSubmission
  <2>. HIDE DEF m
  <2>4. \A i \in DOMAIN Transit : ~IsSubmission(Transit[i])
    BY <2>2 DEF InputInv, AskedOnce
  <2>. DEFINE n == Len(mailbox) + 1
  <2>5. /\ DOMAIN Transit' = DOMAIN Transit \cup {n} /\ Transit'[n] = m
        /\ \A i \in DOMAIN Transit : Transit'[i] = Transit[i]
    BY <1>1, <2>2, <2>3, DeliverTransit
  <2>. HIDE DEF n
  <2>6. \A i \in DOMAIN Transit' : IsSubmission(Transit'[i]) => i = n
    BY <2>4, <2>5
  <2>7. AskedOnce'
    BY <2>2, <2>3, <2>5, <2>6 DEF AskedOnce, IsSubmission
  <2>. QED BY <1>1, <2>1, <2>2, <2>7 DEF InputInv
<1>4. CASE SameAsking /\ mailbox' = mailbox
  <2>1. AskedOnce'
    BY <1>1, <1>4, UnchangedMoved, AskedMoved DEF InputInv
  <2>. QED BY <1>2, <1>4, <2>1
<1>5. CASE SameAsking /\ \E m \in MailboxMessages : Deliver(m) /\ ~IsSubmission(m)
  <2>1. PICK m \in MailboxMessages : Deliver(m) /\ ~IsSubmission(m)
    BY <1>5
  <2>. DEFINE n == Len(mailbox) + 1
  <2>2. /\ DOMAIN Transit' = DOMAIN Transit \cup {n} /\ Transit'[n] = m
        /\ \A i \in DOMAIN Transit : Transit'[i] = Transit[i]
    BY <1>1, <2>1, DeliverTransit
  <2>. HIDE DEF n
  <2>3. \A i \in DOMAIN Transit' : IsSubmission(Transit'[i]) => i \in DOMAIN Transit
    BY <2>1, <2>2
  <2>4. AskedOnce'
    BY <1>5, <2>2, <2>3 DEF InputInv, AskedOnce, IsSubmission, SameAsking
  <2>. QED BY <1>2, <1>5, <2>4
<1>. QED BY <1>3, <1>4, <1>5, OutsideSends

LEMMA SubmitInputs ==
  ASSUME TypeOK, InputInv, actor # "stopped", HandleSubmitInput
  PROVE  InputInv'
<1>1. /\ handling.type = "SubmitInput" /\ handling' = Nothing /\ mailbox' = mailbox
      /\ sent' = sent /\ client' = "ready"
  BY DEF HandleSubmitInput, Handle
<1>2. /\ AskedOnce /\ InputsOf(log, turns) /\ QueueOf(queue, turns)
      /\ turn.phase = "Idle" => queue = <<>>
      /\ turns \in Nat /\ Len(queue) \in Nat /\ queue \in Seq(Nat)
  BY DEF InputInv, TypeOK
<1>3. 0 \in DOMAIN Transit /\ Transit[0] = handling /\ IsSubmission(handling)
  BY <1>1, TransitIndexes DEF IsSubmission
<1>4. client = "asking" /\ handling.input = sent.inputs
  BY <1>2, <1>3 DEF AskedOnce
<1>5. sent.inputs = turns + Len(queue) + 1
  BY <1>4 DEF InputInv
<1>6. \A i \in DOMAIN Transit' : ~IsSubmission(Transit'[i])
  <2>1. Moved(0, {0}) /\ ~IsSubmission(Nothing)
    BY <1>1, HandledMoved DEF IsSubmission, Nothing
  <2>2. \A i \in DOMAIN Transit' : IsSubmission(Transit'[i]) =>
          i \in DOMAIN Transit \ {0} /\ Transit'[i] = Transit[i]
    BY <2>1 DEF Moved
  <2>. QED BY <1>2, <1>3, <2>2 DEF AskedOnce
<1>7. AskedOnce'
  BY <1>1, <1>6 DEF AskedOnce, IsSubmission
<1>. DEFINE q == Append(queue, handling.input)
<1>8. QueueOf(q, turns) /\ Len(q) = Len(queue) + 1
  <2>1. handling.input = turns + (Len(queue) + 1) /\ handling.input \in Nat
    BY <1>2, <1>4, <1>5
  <2>2. /\ q \in Seq(Nat) /\ Len(q) = Len(queue) + 1
        /\ q[Len(queue) + 1] = handling.input
        /\ \A i \in 1..Len(queue) : q[i] = queue[i]
    BY <1>2, <2>1
  <2>. HIDE DEF q
  <2>3. \A i \in 1..Len(q) : i \in 1..Len(queue) \/ i = Len(queue) + 1
    BY <1>2, <2>2
  <2>4. \A i \in 1..Len(queue) : queue[i] = turns + i
    BY <1>2 DEF QueueOf
  <2>5. \A i \in 1..Len(q) : q[i] = turns + i
    BY <2>1, <2>2, <2>3, <2>4
  <2>. QED BY <2>2, <2>5 DEF QueueOf
<1>. HIDE DEF q
<1>9. CASE turn.phase # "Idle" /\ queue' = q /\ UNCHANGED <<turn, turns, log>>
  BY <1>1, <1>2, <1>5, <1>7, <1>8, <1>9 DEF InputInv
<1>10. CASE turn.phase = "Idle" /\ DispatchNextInput(log, q)
  <2>1. /\ InputsOf(log', turns') /\ QueueOf(queue', turns')
        /\ turns' + Len(queue') = turns + Len(q)
        /\ turn'.phase = "Idle" => queue' = <<>>
    BY <1>2, <1>8, <1>10, DispatchInputs
  <2>2. sent'.inputs = turns' + Len(queue') + 0
    BY <1>1, <1>2, <1>5, <1>8, <2>1
  <2>. QED BY <1>1, <1>7, <2>1, <2>2 DEF InputInv
<1>. QED BY <1>9, <1>10 DEF HandleSubmitInput, Enqueued, q

LEMMA OtherHandlersAsking ==
  ASSUME TypeOK, Handlers, handling.type # "SubmitInput"
  PROVE  SameAsking
<1>1. \A k, l, o : CommitInvocationResult(k, l, o) =>
        client' = client \/ (client = "ready" /\ client' = "closed")
  BY DEF CommitInvocationResult, CloseMayRace
<1>2. sent' = sent
  BY HandlersMove
<1>3. CASE HandleSetSystemPrompt \/ HandleCancel \/ HandleStepEvent \/ HandleLive
           \/ HandleStepFinished
  BY <1>2, <1>3
     DEF HandleSetSystemPrompt, HandleCancel, HandleStepEvent, HandleLive,
         HandleStepFinished, SameAsking
<1>4. CASE HandleContextPrepared
  BY <1>2, <1>4 DEF HandleContextPrepared, SameAsking
<1>5. CASE HandleToolInputPrepared \/ HandleToolFinished \/ HandleToolResultFinalized
  BY <1>1, <1>2, <1>5
     DEF HandleToolInputPrepared, HandleToolFinished, HandleToolResultFinalized,
         FinalizeResult, SameAsking
<1>. QED BY <1>3, <1>4, <1>5 DEF Handlers, HandleSubmitInput, Handle

LEMMA InitInput == Init => InputInv
<1>. SUFFICES ASSUME Init PROVE InputInv
  OBVIOUS
<1>1. /\ client = "ready" /\ turn.phase = "Idle" /\ queue = <<>> /\ turns = 0
      /\ log.events = <<>> /\ sent.inputs = 0
  BY DEF Init, Idle, EmptyLog
<1>2. \A i \in DOMAIN Transit : Transit[i] = Nothing
  BY DEF Init, Transit
<1>3. AskedOnce
  BY <1>1, <1>2 DEF AskedOnce, IsSubmission, Nothing
<1>4. <<>> \in Seq({}) /\ <<>> \in Seq(Nat) /\ Len(<<>>) = 0
  OBVIOUS
<1>5. InputsOf(log, turns) /\ QueueOf(queue, turns)
  BY <1>1, <1>4 DEF InputsOf, QueueOf, IsSequence
<1>. QED BY <1>1, <1>3, <1>4, <1>5 DEF InputInv

LEMMA NextInput ==
  ASSUME StreamInv, InputInv, [Next]_vars
  PROVE  InputInv'
<1>. USE DEF StreamInv
<1>. SUFFICES ASSUME actor' # "stopped" PROVE InputInv'
  BY DEF InputInv
<1>1. CASE OnStart \/ Receive
  <2>1. UNCHANGED <<turn, turns, queue, client, sent>> /\ actor # "stopped"
    BY <1>1 DEF OnStart, Receive, turnVars, clientVars
  <2>2. AskedOnce'
    <3>1. CASE OnStart
      BY <2>1, <3>1, UnchangedMoved, AskedMoved DEF OnStart, InputInv, SameAsking
    <3>2. CASE Receive
      BY <2>1, <3>2, ReceiveMoved, AskedMoved DEF InputInv, SameAsking
    <3>. QED BY <1>1, <3>1, <3>2
  <2>3. InputsOf(log', turns)
    BY <1>1, <2>1, CommitOther, OtherEvents DEF OnStart, Receive, InputInv
  <2>. QED BY <2>1, <2>2, <2>3 DEF InputInv
<1>2. CASE Handlers
  <2>1. actor # "stopped" /\ InFlight /\ StreamOrder
    BY <1>2, HandlerRuns DEF OneCompletionInFlight, InFlight, StreamOrderInv
  <2>2. CASE handling.type # "SubmitInput"
    <3>1. InputsGoOn /\ SameAsking
      BY <1>2, <2>1, <2>2, OtherHandlersInputs, OtherHandlersAsking
    <3>2. Moved(0, {0}) /\ Transit[0] = handling /\ ~IsSubmission(handling)
      BY <1>2, <2>2, HandlersMove, HandledMoved, TransitIndexes DEF IsSubmission
    <3>3. AskedOnce' /\ (client' = "asking" <=> client = "asking")
      BY <2>1, <3>1, <3>2, AskedMoved DEF InputInv
    <3>. QED BY <2>1, <3>1, <3>3 DEF InputInv, InputsGoOn, SameAsking
  <2>3. CASE handling.type = "SubmitInput"
    <3>1. HandleSubmitInput
      BY <1>2, <2>3
         DEF Handlers, Handle, HandleSetSystemPrompt, HandleCancel, HandleStepEvent,
             HandleLive, HandleContextPrepared, HandleStepFinished,
             HandleToolInputPrepared, HandleToolFinished, HandleToolResultFinalized
    <3>. QED BY <2>1, <3>1, SubmitInputs
  <2>. QED BY <2>2, <2>3
<1>3. CASE Outside
  BY <1>3, OutsideInput
<1>. QED BY <1>1, <1>2, <1>3, StepKinds DEF OnStop

(***************************************************************************)
(* Inputs are committed once each, in the order they were submitted: what  *)
(* the client sent is, without a gap, what the turns so far began with,    *)
(* what is queued and what is still on its way; an idle session has        *)
(* nothing queued (try_dispatch_next_input at the end of every turn).      *)
(***************************************************************************)
THEOREM InputsStayInOrder == Spec => []InputsInOrder
<1>1. Init => StreamInv /\ InputInv
  BY InitStream, InitInput
<1>2. StreamInv /\ InputInv /\ [Next]_vars => (StreamInv /\ InputInv)'
  BY NextStream, NextInput
<1>3. StreamInv /\ InputInv => InputsInOrder
  <2>. DEFINE committed == {i \in DOMAIN log.events : IsInput(log.events[i])}
              submitted == {i \in DOMAIN Transit : IsSubmission(Transit[i])}
  <2>. SUFFICES ASSUME StreamInv, InputInv, actor # "stopped"
                PROVE
       /\ \A i, j \in committed : i < j => log.events[i].input < log.events[j].input
       /\ {log.events[i].input : i \in committed} = 1..turns
       /\ queue = [i \in 1..Len(queue) |-> turns + i]
       /\ \A i, j \in submitted : i < j => Transit[i].input < Transit[j].input
       /\ {Transit[i].input : i \in submitted} = turns + Len(queue) + 1..sent.inputs
       /\ turn.phase = "Idle" => queue = <<>>
    BY DEF InputsInOrder
  <2>1. /\ AskedOnce /\ InputsOf(log, turns) /\ QueueOf(queue, turns)
        /\ turn.phase = "Idle" => queue = <<>>
        /\ sent.inputs = turns + Len(queue) + IF client = "asking" THEN 1 ELSE 0
        /\ turns \in Nat /\ Len(queue) \in Nat /\ DOMAIN Transit \subseteq Nat
    BY TransitIndexes DEF InputInv, StreamInv, TypeOK
  <2>2. \A i, j \in committed : i < j => log.events[i].input < log.events[j].input
    BY <2>1 DEF InputsOf
  <2>3. {log.events[i].input : i \in committed} = 1..turns
    BY <2>1 DEF InputsOf
  <2>4. queue = [i \in 1..Len(queue) |-> turns + i]
    BY <2>1 DEF QueueOf
  <2>5. \A i, j \in submitted : i < j => Transit[i].input < Transit[j].input
    <3>1. \A i, j \in submitted : i = j
      BY <2>1 DEF AskedOnce
    <3>2. \A i \in submitted : ~(i < i)
      BY <2>1
    <3>. QED BY <3>1, <3>2
  <2>6. {Transit[i].input : i \in submitted} = turns + Len(queue) + 1..sent.inputs
    <3>1. CASE client = "asking"
      <4>1. {Transit[i].input : i \in submitted} = {sent.inputs}
        BY <2>1, <3>1 DEF AskedOnce
      <4>2. turns + Len(queue) + 1..sent.inputs = {sent.inputs}
        BY <2>1, <3>1
      <4>. QED BY <4>1, <4>2
    <3>2. CASE client # "asking"
      <4>1. submitted = {}
        BY <2>1, <3>2 DEF AskedOnce
      <4>2. turns + Len(queue) + 1..sent.inputs = {}
        BY <2>1, <3>2
      <4>. QED BY <4>1, <4>2
    <3>. QED BY <3>1, <3>2
  <2>. HIDE DEF committed, submitted
  <2>. QED BY <2>1, <2>2, <2>3, <2>4, <2>5, <2>6
<1>. QED BY <1>1, <1>2, <1>3, PTL DEF Spec

(*****************************************************************************)
(* The event log of a session tells its state: the log is a well-formed      *)
(* history, and a reader that replays it knows the open turn and its pending *)
(* invocations; and the conversation the log projects to is one a provider   *)
(* accepts.                                                                  *)
(*****************************************************************************)

-----------------------------------------------------------------------------
(* Replaying a log, event by event. *)

LEMMA LeastNatural ==
  ASSUME NEW T, T \subseteq Nat, T # {}
  PROVE  \E n \in T : \A m \in T : n <= m
<1>. DEFINE R == OpToRel(<, Nat)
<1>1. IsWellFoundedOn(R, Nat)
  BY NatLessThanWellFounded
<1>2. \A m, n \in Nat : m < n => <<m, n>> \in R
  BY DEF OpToRel
<1>. HIDE DEF R
<1>3. PICK n \in T : \A m \in T : ~(<<m, n>> \in R)
  BY <1>1, WFMin
<1>4. ASSUME NEW m \in T PROVE n <= m
  <2>1. m \in Nat /\ n \in Nat
    OBVIOUS
  <2>2. ~(m < n)
    BY <1>2, <1>3, <2>1
  <2>. QED BY <2>1, <2>2
<1>. QED BY <1>4

\* f is what Readings defines for the first n events of s.
ReadsTo(f, s, n) ==
  f = [i \in 0..n |-> IF i = 0 THEN EmptyReplay ELSE ReplayEvent(f[i - 1], s[i])]

LEMMA ReadsToFields ==
  ASSUME NEW s, NEW n \in Nat, NEW f, ReadsTo(f, s, n)
  PROVE  /\ DOMAIN f = 0..n /\ f[0] = EmptyReplay
         /\ \A i \in 1..n : f[i] = ReplayEvent(f[i - 1], s[i])
<1>. HIDE DEF ReplayEvent, EmptyReplay
<1>. QED BY DEF ReadsTo

\* There is a reading of every log: the least length without one is not the
\* successor of a length with one.
LEMMA ReadingExists ==
  ASSUME NEW s, NEW n \in Nat
  PROVE  \E f : ReadsTo(f, s, n)
<1>. DEFINE T == {k \in Nat : ~\E f : ReadsTo(f, s, k)}
<1>1. 0 \notin T
  <2>. DEFINE f == [i \in 0..0 |-> EmptyReplay]
  <2>1. ReadsTo(f, s, 0)
    BY DEF ReadsTo
  <2>. QED BY <2>1
<1>2. ASSUME NEW k \in Nat, k \notin T PROVE k + 1 \notin T
  <2>1. PICK f : ReadsTo(f, s, k)
    BY <1>2
  <2>. DEFINE g == [i \in 0..k + 1 |->
                      IF i = k + 1 THEN ReplayEvent(f[k], s[k + 1]) ELSE f[i]]
  <2>2. \A i \in 0..k + 1 :
          g[i] = IF i = 0 THEN EmptyReplay ELSE ReplayEvent(g[i - 1], s[i])
    BY <2>1, ReadsToFields
  <2>3. g = [i \in 0..k + 1 |-> g[i]]
    OBVIOUS
  <2>. HIDE DEF g
  <2>4. ReadsTo(g, s, k + 1)
    BY <2>2, <2>3 DEF ReadsTo
  <2>. QED BY <2>4
<1>3. T = {}
  <2>. SUFFICES ASSUME T # {} PROVE FALSE
    OBVIOUS
  <2>1. PICK k \in T : \A m \in T : k <= m
    BY LeastNatural
  <2>. HIDE DEF T
  <2>2. k \in Nat
    BY <2>1 DEF T
  <2>3. k # 0 /\ k - 1 \in Nat /\ (k - 1) + 1 = k
    BY <1>1, <2>1, <2>2
  <2>4. k - 1 \notin T
    BY <2>1, <2>2
  <2>. QED BY <1>2, <2>1, <2>3, <2>4
<1>. QED BY <1>3

LEMMA ReadingsRead ==
  ASSUME NEW s, Len(s) \in Nat
  PROVE  ReadsTo(Readings(s), s, Len(s))
<1>1. \E f : ReadsTo(f, s, Len(s))
  BY ReadingExists
<1>2. Readings(s) = CHOOSE f : ReadsTo(f, s, Len(s))
  BY DEF Readings, ReadsTo
<1>. QED BY <1>1, <1>2

\* Two logs that begin alike are read alike that far.
LEMMA ReadingsAgree ==
  ASSUME NEW s, NEW u, NEW n \in Nat, NEW f, NEW g, NEW m \in Nat,
         ReadsTo(f, s, n), ReadsTo(g, u, m), n <= m, \A i \in 1..n : u[i] = s[i]
  PROVE  \A i \in 0..n : g[i] = f[i]
<1>. DEFINE T == {i \in 0..n : g[i] # f[i]}
<1>1. /\ f[0] = EmptyReplay /\ \A i \in 1..n : f[i] = ReplayEvent(f[i - 1], s[i])
      /\ g[0] = EmptyReplay /\ \A i \in 1..m : g[i] = ReplayEvent(g[i - 1], u[i])
  BY ReadsToFields
<1>2. T = {}
  <2>. SUFFICES ASSUME T # {} PROVE FALSE
    OBVIOUS
  <2>1. T \subseteq Nat
    OBVIOUS
  <2>2. PICK k \in T : \A i \in T : k <= i
    BY <2>1, LeastNatural
  <2>3. k \in 0..n /\ g[k] # f[k]
    BY <2>2
  <2>4. k # 0 /\ k \in 1..n /\ k \in 1..m /\ k - 1 \in 0..n /\ ~(k <= k - 1)
    BY <1>1, <2>3
  <2>5. g[k - 1] = f[k - 1]
    BY <2>2, <2>4
  <2>. QED BY <1>1, <2>3, <2>4, <2>5
<1>. QED BY <1>2

LEMMA ReplayEmpty == Replay(<<>>) = EmptyReplay
<1>1. Len(<<>>) = 0
  OBVIOUS
<1>. QED BY <1>1, ReadingsRead, ReadsToFields DEF Replay

LEMMA ReplayAppend ==
  ASSUME NEW s, IsSequence(s), NEW e
  PROVE  Replay(Append(s, e)) = ReplayEvent(Replay(s), e)
<1>. DEFINE u == Append(s, e)
            n == Len(s)
<1>1. n \in Nat /\ Len(u) = n + 1 /\ u[n + 1] = e /\ \A i \in 1..n : u[i] = s[i]
  BY AppendToFeed DEF IsSequence
<1>. HIDE DEF u
<1>2. ReadsTo(Readings(s), s, n) /\ ReadsTo(Readings(u), u, n + 1)
  BY <1>1, ReadingsRead
<1>3. Readings(u)[n] = Readings(s)[n]
  BY <1>1, <1>2, ReadingsAgree
<1>4. Readings(u)[n + 1] = ReplayEvent(Readings(u)[n], u[n + 1])
  BY <1>1, <1>2, ReadsToFields
<1>. QED BY <1>1, <1>3, <1>4 DEF Replay, u

-----------------------------------------------------------------------------
(* What a reader of a well-formed log knows of a session that runs. *)

Reader(t, n, o, s, p) ==
  [valid |-> TRUE, session |-> "started", turn |-> t, turns |-> n,
   open |-> o, last |-> s, pending |-> p]

Reads(l, r) == IsSequence(l.events) /\ Replay(l.events) = r

LEMMA CommitReads ==
  ASSUME NEW l, NEW r, Reads(l, r), NEW e
  PROVE  Reads(Commit(l, e), ReplayEvent(r, e))
<1>1. Commit(l, e).events = Append(l.events, e)
  BY DEF Commit
<1>. QED BY <1>1, AppendToFeed, ReplayAppend DEF Reads

\* An event that may come is read as ReadEvent says.
LEMMA ValidRead ==
  ASSUME NEW r, NEW e, MayFollow(r, e), NEW t, NEW n, NEW o, NEW s, NEW p,
         ReadEvent(r, e) = Reader(t, n, o, s, p)
  PROVE  ReplayEvent(r, e) = Reader(t, n, o, s, p)
<1>1. ReplayEvent(r, e)
        = [Reader(t, n, o, s, p) EXCEPT !.valid = TRUE /\ MayFollow(r, e)]
  BY DEF ReplayEvent, Reader
<1>. QED BY <1>1 DEF Reader

LEMMA SessionReads ==
  ASSUME NEW t, NEW n, NEW o, NEW s, NEW p
  PROVE  /\ ReplayEvent(EmptyReplay, SessionStarted) = Reader(0, 0, 0, 0, NoPending)
         /\ \A i : ReplayEvent(Reader(t, n, o, s, p), SystemPromptSet(i))
                    = Reader(t, n, o, s, p)
         /\ t # 0 => ReplayEvent(Reader(t, n, o, s, p), ErrorOccurred)
                       = Reader(t, n, o, s, p)
<1>. DEFINE r == Reader(t, n, o, s, p)
<1>1. r.session = "started" /\ r.turn = t /\ EmptyReplay.session = "new"
  BY DEF Reader, EmptyReplay
<1>2. ReplayEvent(EmptyReplay, SessionStarted) = Reader(0, 0, 0, 0, NoPending)
  <2>1. SessionStarted.type = "SessionStarted"
    BY DEF SessionStarted
  <2>2. MayFollow(EmptyReplay, SessionStarted)
    BY <1>1, <2>1 DEF MayFollow
  <2>3. ReadEvent(EmptyReplay, SessionStarted) = [EmptyReplay EXCEPT !.session = "started"]
    BY <2>1 DEF ReadEvent
  <2>4. ReadEvent(EmptyReplay, SessionStarted) = Reader(0, 0, 0, 0, NoPending)
    BY <2>3 DEF EmptyReplay, Reader
  <2>. QED BY <2>2, <2>4, ValidRead
<1>. HIDE DEF r
<1>3. ASSUME NEW i PROVE ReplayEvent(r, SystemPromptSet(i)) = r
  <2>1. SystemPromptSet(i).type = "SystemPromptSet"
    BY DEF SystemPromptSet
  <2>2. MayFollow(r, SystemPromptSet(i)) /\ ReadEvent(r, SystemPromptSet(i)) = r
    BY <1>1, <2>1 DEF MayFollow, ReadEvent
  <2>. QED BY <2>2, ValidRead DEF r
<1>4. ASSUME t # 0 PROVE ReplayEvent(r, ErrorOccurred) = r
  <2>1. ErrorOccurred.type = "ErrorOccurred"
    BY DEF ErrorOccurred
  <2>2. MayFollow(r, ErrorOccurred) /\ ReadEvent(r, ErrorOccurred) = r
    BY <1>1, <1>4, <2>1 DEF MayFollow, ReadEvent
  <2>. QED BY <2>2, ValidRead DEF r
<1>. QED BY <1>2, <1>3, <1>4 DEF r

LEMMA TurnReads ==
  ASSUME NEW t, NEW n, NEW s
  PROVE  /\ ReplayEvent(Reader(0, n, 0, s, NoPending), AgentTurnStarted(n + 1))
              = Reader(n + 1, n + 1, 0, s, NoPending)
         /\ ReplayEvent(Reader(t, n, 0, s, NoPending), AgentTurnEnded(t))
              = Reader(0, n, 0, s, NoPending)
         /\ \A i : t # 0 =>
              ReplayEvent(Reader(t, n, 0, s, NoPending), UserMessageCommitted(i))
                = Reader(t, n, 0, s, NoPending)
<1>1. ASSUME NEW i
      PROVE  /\ Reader(i, n, 0, s, NoPending).session = "started"
             /\ Reader(i, n, 0, s, NoPending).turn = i
             /\ Reader(i, n, 0, s, NoPending).turns = n
             /\ Settled(Reader(i, n, 0, s, NoPending))
  BY DEF Reader, Settled
<1>2. ReplayEvent(Reader(0, n, 0, s, NoPending), AgentTurnStarted(n + 1))
        = Reader(n + 1, n + 1, 0, s, NoPending)
  <2>. DEFINE r == Reader(0, n, 0, s, NoPending)
              e == AgentTurnStarted(n + 1)
  <2>1. e.type = "AgentTurnStarted" /\ e.turn = n + 1
    BY DEF AgentTurnStarted
  <2>. HIDE DEF e
  <2>2. ReadEvent(r, e) = [r EXCEPT !.turn = e.turn, !.turns = e.turn]
    BY <2>1 DEF ReadEvent
  <2>3. ReadEvent(r, e) = Reader(n + 1, n + 1, 0, s, NoPending)
    BY <2>1, <2>2 DEF Reader
  <2>. HIDE DEF r
  <2>4. MayFollow(r, e)
    BY <1>1, <2>1 DEF MayFollow, r
  <2>. QED BY <2>3, <2>4, ValidRead DEF r, e
<1>3. ReplayEvent(Reader(t, n, 0, s, NoPending), AgentTurnEnded(t))
        = Reader(0, n, 0, s, NoPending)
  <2>. DEFINE r == Reader(t, n, 0, s, NoPending)
              e == AgentTurnEnded(t)
  <2>1. e.type = "AgentTurnEnded" /\ e.turn = t
    BY DEF AgentTurnEnded
  <2>. HIDE DEF e
  <2>2. ReadEvent(r, e) = [r EXCEPT !.turn = 0]
    BY <2>1 DEF ReadEvent
  <2>3. ReadEvent(r, e) = Reader(0, n, 0, s, NoPending)
    BY <2>2 DEF Reader
  <2>. HIDE DEF r
  <2>4. MayFollow(r, e)
    BY <1>1, <2>1 DEF MayFollow, r
  <2>. QED BY <2>3, <2>4, ValidRead DEF r, e
<1>4. ASSUME NEW i, t # 0
      PROVE  ReplayEvent(Reader(t, n, 0, s, NoPending), UserMessageCommitted(i))
               = Reader(t, n, 0, s, NoPending)
  <2>. DEFINE r == Reader(t, n, 0, s, NoPending)
              e == UserMessageCommitted(i)
  <2>1. e.type = "UserMessageCommitted"
    BY DEF UserMessageCommitted
  <2>. HIDE DEF e, r
  <2>2. ReadEvent(r, e) = r /\ MayFollow(r, e)
    BY <1>1, <1>4, <2>1 DEF ReadEvent, MayFollow, r
  <2>. QED BY <2>2, ValidRead DEF r, e
<1>. QED BY <1>2, <1>3, <1>4

LEMMA StepReads ==
  ASSUME NEW t, NEW n, NEW s
  PROVE  /\ t # 0 =>
              ReplayEvent(Reader(t, n, 0, s, NoPending), ModelStepStarted(s + 1))
                = Reader(t, n, s + 1, s + 1, NoPending)
         /\ \A r, m :
              ReplayEvent(Reader(t, n, s, s, NoPending), ModelStepEnded(s, r, m))
                = Reader(t, n, 0, s, NoPending)
<1>1. ASSUME t # 0
      PROVE  ReplayEvent(Reader(t, n, 0, s, NoPending), ModelStepStarted(s + 1))
               = Reader(t, n, s + 1, s + 1, NoPending)
  <2>. DEFINE r == Reader(t, n, 0, s, NoPending)
              e == ModelStepStarted(s + 1)
  <2>1. e.type = "ModelStepStarted" /\ e.step = s + 1
    BY DEF ModelStepStarted
  <2>. HIDE DEF e
  <2>2. ReadEvent(r, e) = [r EXCEPT !.open = e.step, !.last = e.step]
    BY <2>1 DEF ReadEvent
  <2>3. ReadEvent(r, e) = Reader(t, n, s + 1, s + 1, NoPending)
    BY <2>1, <2>2 DEF Reader
  <2>4. r.turn = t /\ Settled(r) /\ r.last = s
    BY DEF Reader, Settled
  <2>. HIDE DEF r
  <2>5. MayFollow(r, e)
    BY <1>1, <2>1, <2>4 DEF MayFollow
  <2>. QED BY <2>3, <2>5, ValidRead DEF r, e
<1>2. ASSUME NEW reason, NEW m
      PROVE  ReplayEvent(Reader(t, n, s, s, NoPending), ModelStepEnded(s, reason, m))
               = Reader(t, n, 0, s, NoPending)
  <2>. DEFINE r == Reader(t, n, s, s, NoPending)
              e == ModelStepEnded(s, reason, m)
  <2>1. e.type = "ModelStepEnded" /\ e.step = s
    BY DEF ModelStepEnded
  <2>. HIDE DEF e
  <2>2. ReadEvent(r, e) = [r EXCEPT !.open = 0]
    BY <2>1 DEF ReadEvent
  <2>3. ReadEvent(r, e) = Reader(t, n, 0, s, NoPending) /\ r.open = s
    BY <2>2 DEF Reader
  <2>. HIDE DEF r
  <2>4. MayFollow(r, e)
    BY <2>1, <2>3 DEF MayFollow
  <2>. QED BY <2>3, <2>4, ValidRead DEF r, e
<1>. QED BY <1>1, <1>2

LEMMA ProposalReads ==
  ASSUME NEW t, NEW n, NEW s, NEW p, NEW k, k.turn = t, k.step = s, k \notin DOMAIN p
  PROVE  ReplayEvent(Reader(t, n, 0, s, p), ToolCallProposed(k))
           = Reader(t, n, 0, s, WithState(p, k, "Proposing"))
<1>. DEFINE r == Reader(t, n, 0, s, p)
            e == ToolCallProposed(k)
<1>1. e.type = "ToolCallProposed" /\ e.inv = k
  BY DEF ToolCallProposed
<1>. HIDE DEF e
<1>2. ReadEvent(r, e) = [r EXCEPT !.pending = WithState(r.pending, e.inv, "Proposing")]
  BY <1>1 DEF ReadEvent
<1>. HIDE DEF WithState
<1>3. ReadEvent(r, e) = Reader(t, n, 0, s, WithState(p, k, "Proposing"))
  BY <1>1, <1>2 DEF Reader
<1>4. r.turn = t /\ r.open = 0 /\ r.last = s /\ r.pending = p
  BY DEF Reader
<1>. HIDE DEF r
<1>5. MayFollow(r, e)
  BY <1>1, <1>4 DEF MayFollow
<1>. QED BY <1>3, <1>5, ValidRead DEF r, e

LEMMA ReaderWithPending ==
  ASSUME NEW t, NEW n, NEW s, NEW p, NEW q,
         NEW r, r = [Reader(t, n, 0, s, p) EXCEPT !.pending = q]
  PROVE  r = Reader(t, n, 0, s, q)
BY DEF Reader

LEMMA InvocationReads ==
  ASSUME NEW t, NEW n, NEW s, NEW p, NEW k \in DOMAIN p
  PROVE  /\ p[k] = "Proposing" =>
              ReplayEvent(Reader(t, n, 0, s, p), ToolExecutionRequested(k))
                = Reader(t, n, 0, s, WithState(p, k, "Executing"))
         /\ p[k] = "Executing" =>
              ReplayEvent(Reader(t, n, 0, s, p), ToolExecutionObserved(k))
                = Reader(t, n, 0, s, WithState(p, k, "Finalized"))
         /\ \A o : p[k] = "Finalized" \/ (p[k] = "Proposing" /\ o # "ExecSuccess") =>
              ReplayEvent(Reader(t, n, 0, s, p), ToolResultReceived(k, o))
                = Reader(t, n, 0, s, WithoutInvocation(p, k))
<1>. DEFINE r == Reader(t, n, 0, s, p)
<1>1. r.pending = p
  BY DEF Reader
<1>2. ASSUME NEW q, NEW x, x = [r EXCEPT !.pending = q]
      PROVE  x = Reader(t, n, 0, s, q)
  BY <1>2, ReaderWithPending
<1>. HIDE DEF r
<1>3. ASSUME p[k] = "Proposing"
      PROVE  ReplayEvent(r, ToolExecutionRequested(k))
               = Reader(t, n, 0, s, WithState(p, k, "Executing"))
  <2>. DEFINE e == ToolExecutionRequested(k)
  <2>1. e.type = "ToolExecutionRequested" /\ e.inv = k
    BY DEF ToolExecutionRequested
  <2>. HIDE DEF e
  <2>2. MayFollow(r, e)
    BY <1>1, <1>3, <2>1 DEF MayFollow
  <2>3. ReadEvent(r, e) = [r EXCEPT !.pending = WithState(p, k, "Executing")]
    BY <1>1, <2>1 DEF ReadEvent
  <2>. QED BY <1>2, <2>2, <2>3, ValidRead DEF e
<1>4. ASSUME p[k] = "Executing"
      PROVE  ReplayEvent(r, ToolExecutionObserved(k))
               = Reader(t, n, 0, s, WithState(p, k, "Finalized"))
  <2>. DEFINE e == ToolExecutionObserved(k)
  <2>1. e.type = "ToolExecutionObserved" /\ e.inv = k
    BY DEF ToolExecutionObserved
  <2>. HIDE DEF e
  <2>2. MayFollow(r, e)
    BY <1>1, <1>4, <2>1 DEF MayFollow
  <2>3. ReadEvent(r, e) = [r EXCEPT !.pending = WithState(p, k, "Finalized")]
    BY <1>1, <2>1 DEF ReadEvent
  <2>. QED BY <1>2, <2>2, <2>3, ValidRead DEF e
<1>5. ASSUME NEW o, p[k] = "Finalized" \/ (p[k] = "Proposing" /\ o # "ExecSuccess")
      PROVE  ReplayEvent(r, ToolResultReceived(k, o))
               = Reader(t, n, 0, s, WithoutInvocation(p, k))
  <2>. DEFINE e == ToolResultReceived(k, o)
  <2>1. e.type = "ToolResultReceived" /\ e.inv = k /\ e.outcome = o
    BY DEF ToolResultReceived
  <2>. HIDE DEF e
  <2>2. MayFollow(r, e)
    BY <1>1, <1>5, <2>1 DEF MayFollow
  <2>3. ReadEvent(r, e) = [r EXCEPT !.pending = WithoutInvocation(p, k)]
    BY <1>1, <2>1 DEF ReadEvent
  <2>. QED BY <1>2, <2>2, <2>3, ValidRead DEF e
<1>. QED BY <1>3, <1>4, <1>5 DEF r

\* The reader's states of the invocations, as the turn keeps them.
LEMMA PendingStates ==
  ASSUME TypeOK, NEW k \in DOMAIN turn.pending, NEW s
  PROVE  /\ WithState(turn.pending, k, s) = [turn.pending EXCEPT ![k] = s]
         /\ WithoutInvocation(WithState(turn.pending, k, s), k)
              = WithoutInvocation(turn.pending, k)
<1>1. turn.pending = [j \in DOMAIN turn.pending |-> turn.pending[j]]
  BY DEF TypeOK, TurnOK
<1>. QED BY <1>1 DEF WithState, WithoutInvocation

-----------------------------------------------------------------------------
(* What the handlers leave: no step is open. *)

\* The log l tells the turn of the next state, in which no step is open.
Tells(l, s) ==
  /\ Reads(l, Reader(turn'.id, turns', 0, s, turn'.pending))
  /\ turn'.phase # "Streaming"

LEMMA IdleFields ==
  /\ Idle.id = 0 /\ Idle.pending = NoPending
  /\ \A t : PreparingContext(t).id = t /\ PreparingContext(t).pending = NoPending
BY DEF Idle, PreparingContext

LEMMA DispatchTells ==
  ASSUME turns \in Nat, NEW l, NEW s, Reads(l, Reader(0, turns, 0, s, NoPending)),
         NEW q, DispatchNextInput(l, q)
  PROVE  Tells(log', s)
<1>. DEFINE started == Commit(l, AgentTurnStarted(turns + 1))
            committed == Commit(started, UserMessageCommitted(Head(q)))
<1>1. Reads(started, Reader(turns + 1, turns + 1, 0, s, NoPending))
  BY CommitReads, TurnReads
<1>. HIDE DEF started
<1>2. turns + 1 # 0
  OBVIOUS
<1>3. Reads(committed, Reader(turns + 1, turns + 1, 0, s, NoPending))
  BY <1>1, <1>2, CommitReads, TurnReads
<1>4. \/ log' = l /\ turn' = Idle /\ turns' = turns
      \/ /\ log' = committed /\ turn' = PreparingContext(turns + 1)
         /\ turns' = turns + 1
  BY DEF DispatchNextInput, PrepareContext, started
<1>. HIDE DEF committed
<1>. QED BY <1>3, <1>4, IdleFields, TurnFields DEF Tells

LEMMA EndTurnTells ==
  ASSUME turns \in Nat, NEW l, NEW s,
         Reads(l, Reader(turn.id, turns, 0, s, NoPending)), EndTurn(l)
  PROVE  Tells(log', s)
<1>1. Reads(Commit(l, AgentTurnEnded(turn.id)), Reader(0, turns, 0, s, NoPending))
  BY CommitReads, TurnReads
<1>. QED BY <1>1, DispatchTells DEF EndTurn

LEMMA ResultTells ==
  ASSUME TypeOK, TurnInv, NEW k \in Invocations, NEW state, Awaiting(k, state),
         NEW l \in Logs, NEW o \in Outcomes, CommitInvocationResult(k, l, o),
         NEW s, NEW p, Reads(l, Reader(turn.id, turns, 0, s, p)),
         k \in DOMAIN p, p[k] = "Finalized" \/ (p[k] = "Proposing" /\ o # "ExecSuccess"),
         WithoutInvocation(p, k) = WithoutInvocation(turn.pending, k)
  PROVE  Tells(log', s)
<1>. DEFINE received == Commit(l, ToolResultReceived(k, o))
            done == PublishLive(received, ToolExecutionEnded(k))
            rest == WithoutInvocation(turn.pending, k)
            r == Reader(turn.id, turns, 0, s, rest)
<1>1. received \in Logs /\ Reads(received, r)
  <2>1. ReplayEvent(Reader(turn.id, turns, 0, s, p), ToolResultReceived(k, o)) = r
    BY InvocationReads
  <2>. QED BY <2>1, CommitType, InvocationEventTypes, CommitReads
<1>2. done.events = received.events
  BY <1>1 DEF PublishLive, Logs
<1>. HIDE DEF received, done
<1>3. Reads(done, r)
  BY <1>1, <1>2 DEF Reads
<1>4. turn.phase = "RunningTools" /\ turn.id = k.turn /\ turn.id # 0 /\ turns \in Nat
  BY DEF Awaiting, TurnInv, TurnIds, TypeOK
<1>5. DOMAIN rest = {} => rest = NoPending
  BY DEF WithoutInvocation, NoPending
<1>6. \/ /\ log' = done /\ turn' = [turn EXCEPT !.pending = rest] /\ turns' = turns
      \/ DOMAIN rest = {} /\ EndTurn(done)
      \/ /\ DOMAIN rest = {} /\ turns' = turns
         /\ PrepareContext(k.turn, Commit(done, UserMessageCommitted(Hints)))
  BY DEF CommitInvocationResult, received, done
<1>. HIDE DEF rest
<1>7. CASE log' = done /\ turn' = [turn EXCEPT !.pending = rest] /\ turns' = turns
  <2>1. turn'.id = turn.id /\ turn'.pending = rest /\ turn'.phase = "RunningTools"
    BY <1>4, <1>7 DEF TypeOK, TurnOK
  <2>. QED BY <1>3, <1>7, <2>1 DEF Tells
<1>8. CASE DOMAIN rest = {} /\ EndTurn(done)
  BY <1>3, <1>4, <1>5, <1>8, EndTurnTells
<1>9. CASE /\ DOMAIN rest = {} /\ turns' = turns
           /\ PrepareContext(k.turn, Commit(done, UserMessageCommitted(Hints)))
  <2>1. Reads(Commit(done, UserMessageCommitted(Hints)), r)
    BY <1>3, <1>4, <1>5, <1>9, CommitReads, TurnReads
  <2>. QED BY <1>4, <1>5, <1>9, <2>1, IdleFields, TurnFields DEF PrepareContext, Tells
<1>. QED BY <1>6, <1>7, <1>8, <1>9

\* The first c calls of a step, proposed.
Proposed(t, s, c) == [k \in {Invocation(t, s, i) : i \in 1..c} |-> "Proposing"]

LEMMA NoneProposed ==
  ASSUME NEW t, NEW s
  PROVE  Proposed(t, s, 0) = NoPending
BY DEF Proposed, NoPending

LEMMA OneMoreProposed ==
  ASSUME NEW t, NEW s, NEW c \in Nat, c > 0
  PROVE  /\ Invocation(t, s, c) \notin DOMAIN Proposed(t, s, c - 1)
         /\ WithState(Proposed(t, s, c - 1), Invocation(t, s, c), "Proposing")
              = Proposed(t, s, c)
<1>. DEFINE A == {Invocation(t, s, i) : i \in 1..c - 1}
            B == {Invocation(t, s, i) : i \in 1..c}
            k == Invocation(t, s, c)
<1>1. \A i \in Nat : Invocation(t, s, i) = k => i = c
  BY DEF Invocation
<1>2. B = A \cup {k}
  <2>1. \A i \in 1..c : i \in 1..c - 1 \/ i = c
    OBVIOUS
  <2>2. c \in 1..c /\ \A i \in 1..c - 1 : i \in 1..c
    OBVIOUS
  <2>. QED BY <2>1, <2>2
<1>3. k \notin A
  BY <1>1
<1>. HIDE DEF A, B, k
<1>4. [j \in A \cup {k} |-> IF j = k THEN "Proposing" ELSE [i \in A |-> "Proposing"][j]]
        = [j \in B |-> "Proposing"]
  BY <1>2, <1>3
<1>. QED BY <1>3, <1>4 DEF Proposed, WithState, A, B, k

LEMMA ProposalStep ==
  ASSUME NEW t, NEW n, NEW s, NEW c \in Nat, c > 0
  PROVE  ReplayEvent(Reader(t, n, 0, s, Proposed(t, s, c - 1)),
                     ToolCallProposed(Invocation(t, s, c)))
           = Reader(t, n, 0, s, Proposed(t, s, c))
<1>. DEFINE k == Invocation(t, s, c)
            p == Proposed(t, s, c - 1)
<1>1. k.turn = t /\ k.step = s
  BY DEF Invocation
<1>2. k \notin DOMAIN p /\ WithState(p, k, "Proposing") = Proposed(t, s, c)
  BY OneMoreProposed
<1>. HIDE DEF k, p
<1>3. ReplayEvent(Reader(t, n, 0, s, p), ToolCallProposed(k))
        = Reader(t, n, 0, s, WithState(p, k, "Proposing"))
  BY <1>1, <1>2, ProposalReads
<1>. QED BY <1>2, <1>3 DEF k, p

LEMMA ConcatenatedItems ==
  ASSUME NEW S, NEW e \in Seq(S), NEW q \in Seq(S)
  PROVE  /\ Len(e) \in Nat /\ Len(e \o q) = Len(e) + Len(q)
         /\ \A i \in 1..Len(e) : (e \o q)[i] = e[i]
         /\ \A i \in Len(e) + 1..Len(e) + Len(q) : (e \o q)[i] = q[i - Len(e)]
OBVIOUS

\* Reading the proposals of a step one by one; the least one that is not
\* read so would follow one that is.
LEMMA ProposalsRead ==
  ASSUME NEW S, NEW e \in Seq(S), NEW n \in Nat, NEW t, NEW turnsSoFar, NEW s,
         Replay(e) = Reader(t, turnsSoFar, 0, s, NoPending),
         NEW q \in Seq(S), Len(q) = n,
         \A i \in 1..n : q[i] = ToolCallProposed(Invocation(t, s, i))
  PROVE  Replay(e \o q) = Reader(t, turnsSoFar, 0, s, Proposed(t, s, n))
<1>. DEFINE u == e \o q
            m == Len(e)
            f == Readings(e)
            g == Readings(u)
<1>1. /\ m \in Nat /\ Len(u) = m + n
      /\ \A i \in 1..m : u[i] = e[i]
      /\ \A i \in m + 1..m + n : u[i] = q[i - m]
  BY ConcatenatedItems
<1>2. \A c \in 1..n : u[m + c] = ToolCallProposed(Invocation(t, s, c))
  <2>1. \A c \in 1..n : m + c \in m + 1..m + n /\ (m + c) - m = c
    BY <1>1
  <2>. HIDE DEF m, u
  <2>. QED BY <1>1, <2>1
<1>. HIDE DEF u
<1>3. ReadsTo(f, e, m) /\ ReadsTo(g, u, m + n)
  <2>1. m + n \in Nat
    BY <1>1
  <2>2. ReadsTo(f, e, m)
    BY <1>1, ReadingsRead
  <2>. HIDE DEF m
  <2>3. ReadsTo(g, u, Len(u))
    BY <1>1, <2>1, ReadingsRead
  <2>. QED BY <1>1, <2>2, <2>3
<1>. HIDE DEF m, f, g
<1>4. g[m + 0] = Reader(t, turnsSoFar, 0, s, Proposed(t, s, 0))
  <2>1. g[m] = f[m]
    BY <1>1, <1>3, ReadingsAgree
  <2>2. f[m] = Reader(t, turnsSoFar, 0, s, NoPending)
    BY DEF Replay, f, m
  <2>. QED BY <1>1, <2>1, <2>2, NoneProposed
<1>5. ASSUME NEW c \in 1..n,
             g[m + (c - 1)] = Reader(t, turnsSoFar, 0, s, Proposed(t, s, c - 1))
      PROVE  g[m + c] = Reader(t, turnsSoFar, 0, s, Proposed(t, s, c))
  <2>1. m + c \in 1..m + n /\ (m + c) - 1 = m + (c - 1) /\ c > 0 /\ c \in Nat
    BY <1>1
  <2>2. g[m + c] = ReplayEvent(g[m + (c - 1)], u[m + c])
    <3>1. m + n \in Nat
      BY <1>1
    <3>2. \A i \in 1..m + n : g[i] = ReplayEvent(g[i - 1], u[i])
      BY <1>3, <3>1, ReadsToFields
    <3>3. g[m + c] = ReplayEvent(g[(m + c) - 1], u[m + c])
      BY <2>1, <3>2
    <3>. QED BY <2>1, <3>3
  <2>3. u[m + c] = ToolCallProposed(Invocation(t, s, c))
    BY <1>2
  <2>. QED BY <1>5, <2>1, <2>2, <2>3, ProposalStep
<1>. DEFINE r(c) == Reader(t, turnsSoFar, 0, s, Proposed(t, s, c))
            T == {c \in 0..n : g[m + c] # r(c)}
<1>6. T = {}
  <2>. SUFFICES ASSUME T # {} PROVE FALSE
    OBVIOUS
  <2>1. T \subseteq Nat
    OBVIOUS
  <2>2. PICK c \in T : \A i \in T : c <= i
    BY <2>1, LeastNatural
  <2>3. c \in 0..n /\ g[m + c] # r(c)
    BY <2>2
  <2>4. c # 0
    BY <1>4, <2>3
  <2>5. c \in 1..n /\ c - 1 \in 0..n /\ ~(c <= c - 1)
    BY <2>3, <2>4
  <2>6. g[m + (c - 1)] = r(c - 1)
    BY <2>2, <2>5
  <2>. QED BY <1>5, <2>3, <2>5, <2>6
<1>7. n \in 0..n
  OBVIOUS
<1>8. g[m + n] = r(n)
  BY <1>6, <1>7
<1>. QED BY <1>1, <1>8 DEF Replay, g, u

LEMMA ProposalsTell ==
  ASSUME NEW l \in Logs, NEW n \in Nat,
         Reads(l, Reader(turn.id, turns, 0, turn.step, NoPending)),
         DispatchToolCalls(l, n)
  PROVE  Tells(log', turn.step)
<1>. DEFINE calls == [c \in 1..n |-> Invocation(turn.id, turn.step, c)]
            q == [c \in 1..n |-> ToolCallProposed(calls[c])]
            Q == {ToolCallProposed(calls[c]) : c \in 1..n}
            S == Events \cup Q
<1>1. /\ log'.events = l.events \o q /\ turns' = turns
      /\ turn' = RunningTools(turn.id, [k \in {calls[c] : c \in 1..n} |-> "Proposing"])
  BY DEF DispatchToolCalls, Logs
<1>2. {calls[c] : c \in 1..n} = {Invocation(turn.id, turn.step, c) : c \in 1..n}
  OBVIOUS
<1>3. /\ turn'.id = turn.id /\ turn'.phase = "RunningTools"
      /\ turn'.pending = Proposed(turn.id, turn.step, n)
  BY <1>1, <1>2 DEF RunningTools, Idle, Proposed
<1>4. /\ q \in Seq(Q) /\ Len(q) = n
      /\ \A i \in 1..n : q[i] = ToolCallProposed(Invocation(turn.id, turn.step, i))
  OBVIOUS
<1>. HIDE DEF q, Q
<1>5. l.events \in Seq(S) /\ q \in Seq(S)
  BY <1>4 DEF Logs
<1>. HIDE DEF S
<1>6. Replay(l.events \o q) = Reader(turn.id, turns, 0, turn.step, turn'.pending)
  BY <1>3, <1>4, <1>5, ProposalsRead DEF Reads
<1>7. IsSequence(l.events \o q)
  BY <1>5 DEF IsSequence
<1>. QED BY <1>1, <1>3, <1>6, <1>7 DEF Tells, Reads

LEMMA PublishReads ==
  ASSUME NEW l \in Logs, NEW r, Reads(l, r), NEW e
  PROVE  Reads(PublishLive(l, e), r)
<1>1. PublishLive(l, e).events = l.events
  BY DEF PublishLive, Logs
<1>. QED BY <1>1 DEF Reads

LEMMA ToolHandlersTell ==
  ASSUME TypeOK, TurnInv, NEW s,
         Reads(log, Reader(turn.id, turns, 0, s, turn.pending)),
         turn.phase # "Streaming",
         HandleToolInputPrepared \/ HandleToolFinished \/ HandleToolResultFinalized
  PROVE  Tells(log', s)
<1>. DEFINE k == handling.inv
            r == Reader(turn.id, turns, 0, s, turn.pending)
            observed == Commit(log, ToolExecutionObserved(k))
<1>1. /\ k \in Invocations /\ log \in Logs /\ Reads(log, r)
      /\ turn.phase = "RunningTools" => turn.id # 0
  BY HandledMessage, MessageFields
     DEF HandleToolInputPrepared, HandleToolFinished, HandleToolResultFinalized,
         Handle, TypeOK, TurnInv, TurnIds
<1>2. CASE UNCHANGED <<turn, turns, log>>
  BY <1>1, <1>2 DEF Tells
<1>3. ASSUME NEW state, Awaiting(k, state)
      PROVE  /\ turn.phase = "RunningTools" /\ turn.id # 0
             /\ k \in DOMAIN turn.pending /\ turn.pending[k] = state
  BY <1>1, <1>3 DEF Awaiting
\* An invocation goes on: the reader sees its next state.
<1>4. ASSUME NEW state, Awaiting(k, state), NEW next,
             turn' = [turn EXCEPT !.pending[k] = next], turns' = turns,
             NEW l, Reads(l, Reader(turn.id, turns, 0, s, WithState(turn.pending, k, next))),
             log'.events = l.events
      PROVE  Tells(log', s)
  <2>1. /\ turn'.phase = "RunningTools" /\ turn'.id = turn.id
        /\ turn'.pending = [turn.pending EXCEPT ![k] = next]
    BY <1>3, <1>4 DEF TypeOK, TurnOK
  <2>2. turn'.pending = WithState(turn.pending, k, next)
    BY <1>3, <1>4, <2>1, PendingStates
  <2>. QED BY <1>4, <2>1, <2>2 DEF Tells, Reads
<1>5. ASSUME Awaiting(k, "Executing")
      PROVE  /\ observed \in Logs
             /\ Reads(observed, Reader(turn.id, turns, 0, s,
                                       WithState(turn.pending, k, "Finalized")))
  <2>1. ReplayEvent(r, ToolExecutionObserved(k))
          = Reader(turn.id, turns, 0, s, WithState(turn.pending, k, "Finalized"))
    BY <1>3, <1>5, InvocationReads
  <2>. HIDE DEF r
  <2>. QED BY <1>1, <2>1, CommitReads, CommitType, InvocationEventTypes
\* The result of an invocation that the reader knows to be finalized.
<1>6. ASSUME NEW state, Awaiting(k, state), NEW l \in Logs, NEW o \in Outcomes,
             FinalizeResult(k, l, o), NEW p,
             Reads(l, Reader(turn.id, turns, 0, s, p)),
             k \in DOMAIN p, p[k] = "Finalized",
             WithoutInvocation(p, k) = WithoutInvocation(turn.pending, k)
      PROVE  Tells(log', s)
  <2>1. turn.id # 0
    BY <1>3, <1>6
  <2>2. /\ Commit(l, ErrorOccurred) \in Logs
        /\ Reads(Commit(l, ErrorOccurred), Reader(turn.id, turns, 0, s, p))
    BY <1>6, <2>1, CommitReads, SessionReads, CommitType, SessionEventTypes
  <2>3. \E f \in {l, Commit(l, ErrorOccurred)}, q \in {o, "Cancelled"} :
          CommitInvocationResult(k, f, q)
    BY <1>6 DEF FinalizeResult
  <2>4. "Cancelled" \in Outcomes
    BY DEF Outcomes
  <2>. QED BY <1>1, <1>6, <2>2, <2>3, <2>4, ResultTells
<1>. HIDE DEF observed, r
<1>7. CASE HandleToolInputPrepared
  <2>1. CASE /\ Awaiting(k, "Proposing")
             /\ ~(handling.verdict = "Allow" /\ ~TokenCancelled)
             /\ CommitInvocationResult(k, log, RefusedOutcome(handling.verdict))
    <3>1. /\ RefusedOutcome(handling.verdict) \in Outcomes
          /\ RefusedOutcome(handling.verdict) # "ExecSuccess"
      BY DEF RefusedOutcome, Outcomes
    <3>. QED BY <1>1, <1>3, <2>1, <3>1, ResultTells DEF r
  <2>2. CASE /\ Awaiting(k, "Proposing")
             /\ log' = PublishLive(Commit(log, ToolExecutionRequested(k)),
                                   ToolExecutionStarted(k))
             /\ turn' = [turn EXCEPT !.pending[k] = "Executing"] /\ turns' = turns
    <3>. DEFINE l == Commit(log, ToolExecutionRequested(k))
    <3>1. ReplayEvent(r, ToolExecutionRequested(k))
            = Reader(turn.id, turns, 0, s, WithState(turn.pending, k, "Executing"))
      BY <1>3, <2>2, InvocationReads DEF r
    <3>2. l \in Logs
      BY <1>1, CommitType, InvocationEventTypes
    <3>3. Reads(l, Reader(turn.id, turns, 0, s, WithState(turn.pending, k, "Executing")))
      BY <1>1, <3>1, CommitReads
    <3>. HIDE DEF l
    <3>4. log'.events = l.events
      BY <2>2, <3>2 DEF PublishLive, Logs, l
    <3>. QED BY <1>4, <2>2, <3>3, <3>4
  <2>. QED BY <1>2, <1>7, <2>1, <2>2 DEF HandleToolInputPrepared
<1>8. CASE HandleToolFinished
  <2>1. CASE /\ Awaiting(k, "Executing") /\ log' = observed
             /\ turn' = [turn EXCEPT !.pending[k] = "Finalized"] /\ turns' = turns
    BY <1>4, <1>5, <2>1
  <2>2. CASE Awaiting(k, "Executing") /\ FinalizeResult(k, observed, "Cancelled")
    <3>. DEFINE p == WithState(turn.pending, k, "Finalized")
    <3>1. /\ k \in DOMAIN p /\ p[k] = "Finalized"
      BY DEF WithState
    <3>2. WithoutInvocation(p, k) = WithoutInvocation(turn.pending, k)
      BY <1>3, <2>2, PendingStates
    <3>3. "Cancelled" \in Outcomes
      BY DEF Outcomes
    <3>4. observed \in Logs /\ Reads(observed, Reader(turn.id, turns, 0, s, p))
      BY <1>5, <2>2
    <3>. HIDE DEF p
    <3>. QED BY <1>6, <2>2, <3>1, <3>2, <3>3, <3>4
  <2>. QED BY <1>2, <1>8, <2>1, <2>2 DEF HandleToolFinished, observed
<1>9. CASE HandleToolResultFinalized
  <2>1. handling.outcome \in Outcomes
    BY <1>9, HandledMessage, MessageFields DEF HandleToolResultFinalized
  <2>2. CASE Awaiting(k, "Finalized") /\ FinalizeResult(k, log, handling.outcome)
    BY <1>1, <1>3, <1>6, <2>1, <2>2 DEF r
  <2>. QED BY <1>2, <1>9, <2>2 DEF HandleToolResultFinalized
<1>. QED BY <1>7, <1>8, <1>9

-----------------------------------------------------------------------------
(* Whether the step that streams is announced, as the messages move. *)

LEMMA AnnouncedKept ==
  ASSUME NEW d, NEW gone, Moved(d, gone), step'.status = step.status, Announced
  PROVE  Announced'
<1>1. Nothing.type # "Step"
  BY DEF Nothing
<1>. QED BY <1>1 DEF Announced, Moved

LEMMA OutsideKeepsAnnounced ==
  ASSUME TypeOK, Outside, actor # "stopped", Announced
  PROVE  Announced'
<1>. USE DEF actorVars, turnVars, TaskVars, StepVars, clientVars
<1>1. /\ sent.prompts + 1 \in Nat /\ sent.inputs + 1 \in Nat /\ tasks \subseteq Tasks
      /\ step \in Steps /\ step.id \in Nat /\ step.reason \in StepReasons
      /\ step.message \in AssistantMessages /\ step.status # "starting"
  BY DEF TypeOK, Steps, Announced
<1>2. /\ step'.status # "starting"
      /\ mailbox' = mailbox \/ \E m \in MailboxMessages : Deliver(m) /\ m.type # "Step"
  <2>1. CASE ClientNext
    BY <1>1, <2>1, MessageTypes
       DEF ClientNext, ClientSubmits, ClientCancels, ClientSetsPrompt, ClientCloses,
           SubmitInput, Cancel, SetSystemPrompt
  <2>2. CASE TaskNext
    <3>1. /\ HookVerdicts \subseteq Verdicts /\ "Cancelled" \in Verdicts
          /\ ToolOutcomes \subseteq Outcomes /\ "Error" \in Outcomes
      BY DataAssumption DEF Verdicts, Outcomes
    <3>2. CASE FinishContextHooks
      BY <1>1, <3>2, TaskFields, MessageTypes DEF FinishContextHooks, ContextPrepared
    <3>3. CASE FinishBeforeToolUse
      BY <1>1, <3>1, <3>3, TaskFields, MessageTypes
         DEF FinishBeforeToolUse, ToolInputPrepared
    <3>4. CASE FinishTool
      BY <1>1, <3>4, TaskFields, MessageTypes DEF FinishTool, ToolFinished
    <3>5. CASE FinishAfterToolUse
      BY <1>1, <3>1, <3>5, TaskFields, MessageTypes
         DEF FinishAfterToolUse, ToolResultFinalized
    <3>. QED BY <2>2, <3>2, <3>3, <3>4, <3>5 DEF TaskNext
  <2>3. CASE StepForwardsDelta
    <3>1. Live(StepProgress(step.id)) \in MailboxMessages
      BY <1>1, MessageTypes, TurnEventTypes
    <3>. QED BY <1>1, <2>3, <3>1 DEF StepForwardsDelta, StepReceives, Steps, Live
  <2>4. CASE StepStops
    <3>1. StepFinished(step.id, step.reason, step.message) \in MailboxMessages
      BY <1>1, MessageTypes
    <3>. QED BY <1>1, <2>4, <3>1 DEF StepStops, FinishedStep, NewStep, StepFinished
  <2>5. CASE StepStarts \/ StepTakesDone \/ StepBreaks
    BY <1>1, <2>5 DEF StepStarts, StepTakesDone, StepBreaks, StepReceives, Steps
  <2>6. CASE StreamNext
    BY <1>1, <2>6
       DEF StreamNext, StreamProgresses, StreamTerminates, StreamEnds, Pump, Steps
  <2>7. CASE UNCHANGED vars
    BY <1>1, <2>7 DEF vars
  <2>. QED BY <2>1, <2>2, <2>3, <2>4, <2>5, <2>6, <2>7 DEF Outside, StepNext
<1>3. handling' = handling
  BY OutsideMoves
<1>4. CASE mailbox' = mailbox
  <2>1. Transit' = Transit
    BY <1>3, <1>4 DEF Transit
  <2>. QED BY <1>2, <2>1 DEF Announced
<1>5. CASE \E m \in MailboxMessages : Deliver(m) /\ m.type # "Step"
  BY <1>2, <1>3, <1>5, DeliverTransit DEF Announced
<1>. QED BY <1>2, <1>4, <1>5

-----------------------------------------------------------------------------
(* The log of a session that runs tells its turn. *)

\* The step a reader of the log knows as open, and the last one it knows.
StepRead(o, s) ==
  \/ turn.phase # "Streaming" /\ o = 0 /\ s = generation
  \/ turn.phase = "Streaming" /\ ~Announced /\ o = 0 /\ s + 1 = generation
  \/ turn.phase = "Streaming" /\ Announced /\ o = generation /\ s = generation

NoneLeft == turn.phase # "RunningTools" => turn.pending = NoPending

RunTold ==
  \E o, s \in Nat :
    Reads(log, Reader(turn.id, turns, o, s, turn.pending)) /\ StepRead(o, s)

Told ==
  /\ NoneLeft
  /\ actor = "running" => RunTold
  /\ actor = "stopped" => LogReplaysToTurn

LEMMA NextNoneLeft ==
  ASSUME TypeOK, TurnInv, NoneLeft, [Next]_vars
  PROVE  NoneLeft'
<1>1. CASE TurnCancelled \/ BatchShrinks \/ InvocationMoves
  BY <1>1 DEF TurnCancelled, BatchShrinks, InvocationMoves, NoneLeft, TypeOK, TurnOK
<1>2. CASE NextTurn
  BY <1>2, IdleFields DEF NextTurn, NoneLeft
<1>3. CASE SameTurnGoesOn
  BY <1>3, IdleFields
     DEF SameTurnGoesOn, NoneLeft, Streaming, RunningTools, Idle
<1>. QED BY <1>1, <1>2, <1>3, TurnSteps DEF TurnStep, NoneLeft

LEMMA NothingChanges ==
  ASSUME RunTold, Announced' <=> Announced,
         UNCHANGED <<log, turn, turns, generation>>
  PROVE  RunTold'
BY DEF RunTold, StepRead, Reads

\* While a step streams.
LEMMA StreamingTells ==
  ASSUME TypeOK, TurnInv, InFlight, StreamOrder, NoneLeft, RunTold, Handlers,
         turn.phase = "Streaming", handling.type # "StepFinished"
  PROVE  RunTold'
<1>1. UNCHANGED <<turn, turns, generation>> /\ SameStep
  BY StreamingGoesOn
<1>2. Moved(0, {0}) /\ 0 \in DOMAIN Transit /\ Transit[0] = handling
  BY HandlersMove, HandledMoved, TransitIndexes
<1>3. handling.type # "Step" => (Announced' <=> Announced)
  BY <1>1, <1>2, AnnouncedMoves, AnnouncedKept DEF SameStep
<1>4. /\ turn.pending = NoPending /\ turn.id # 0 /\ log \in Logs
      /\ turn.step = generation /\ generation \in Nat
  BY DEF NoneLeft, TurnInv, TurnIds, TypeOK, StreamOrder
<1>5. PICK o \in Nat, s \in Nat :
        Reads(log, Reader(turn.id, turns, o, s, turn.pending)) /\ StepRead(o, s)
  BY DEF RunTold
<1>6. ASSUME Announced' <=> Announced,
             Reads(log', Reader(turn.id, turns, o, s, turn.pending))
      PROVE  RunTold'
  <2>1. StepRead(o, s)'
    BY <1>1, <1>5, <1>6 DEF StepRead
  <2>. QED BY <1>1, <1>6, <2>1 DEF RunTold
<1>7. CASE UNCHANGED log /\ handling.type # "Step"
  BY <1>3, <1>5, <1>6, <1>7 DEF Reads
<1>8. CASE HandleSetSystemPrompt
  <2>1. handling.type # "Step" /\ log' = Commit(log, SystemPromptSet(handling.prompt))
    BY <1>8 DEF HandleSetSystemPrompt, Handle
  <2>2. Reads(log', Reader(turn.id, turns, o, s, turn.pending))
    BY <1>5, <2>1, CommitReads, SessionReads
  <2>. QED BY <1>3, <1>6, <2>1, <2>2
<1>9. CASE HandleStepEvent
  <2>1. handling.type = "Step" /\ log' = Commit(log, handling.event)
    BY <1>9 DEF HandleStepEvent, Handle
  <2>2. handling.event = ModelStepStarted(generation) /\ ~Announced
    BY <1>2, <1>4, <2>1 DEF StreamOrder, Announced
  <2>3. o = 0 /\ s + 1 = generation
    BY <1>5, <2>2 DEF StepRead
  <2>4. Reads(log', Reader(turn.id, turns, generation, generation, turn.pending))
    BY <1>4, <1>5, <2>1, <2>2, <2>3, CommitReads, StepReads
  <2>5. Announced'
    <3>1. step'.status # "starting"
      BY <1>1, <1>2, <2>1 DEF SameStep, StreamOrder, Reports
    <3>2. \A i \in DOMAIN Transit \ {0} : Transit[i].type # "Step"
      <4>1. \A i \in DOMAIN Transit \ {0} : 0 < i
        BY <1>2 DEF Moved
      <4>. QED BY <1>2, <2>1, <4>1 DEF StreamOrder, Reports
    <3>3. Nothing.type # "Step"
      BY DEF Nothing
    <3>. QED BY <1>2, <3>1, <3>2, <3>3 DEF Moved, Announced
  <2>6. StepRead(generation, generation)'
    BY <1>1, <2>5 DEF StepRead
  <2>. QED BY <1>1, <1>4, <2>4, <2>6 DEF RunTold
<1>10. CASE HandleLive
  <2>1. handling.type # "Step" /\ log' = PublishLive(log, handling.event)
    BY <1>10 DEF HandleLive, Handle
  <2>2. Reads(log', Reader(turn.id, turns, o, s, turn.pending))
    BY <1>4, <1>5, <2>1, PublishReads
  <2>. QED BY <1>3, <1>6, <2>1, <2>2
<1>11. \/ UNCHANGED log /\ handling.type # "Step"
       \/ HandleSetSystemPrompt \/ HandleStepEvent \/ HandleLive
  <2>1. CASE HandleSubmitInput
    BY <2>1 DEF HandleSubmitInput, Handle
  <2>2. CASE HandleCancel
    BY <2>2 DEF HandleCancel, Handle
  <2>3. CASE HandleContextPrepared
    BY <2>3, CurrentPreparation DEF HandleContextPrepared, Handle
  <2>4. CASE HandleToolInputPrepared \/ HandleToolFinished \/ HandleToolResultFinalized
    BY <2>4
       DEF HandleToolInputPrepared, HandleToolFinished, HandleToolResultFinalized,
           Handle, Awaiting
  <2>5. ~HandleStepFinished
    BY DEF HandleStepFinished, Handle
  <2>. QED BY <2>1, <2>2, <2>3, <2>4, <2>5 DEF Handlers
<1>. QED BY <1>7, <1>8, <1>9, <1>10, <1>11

\* The end of a step closes it, for it was announced.
LEMMA StepFinishedTells ==
  ASSUME TypeOK, TurnInv, InFlight, StreamOrder, NoneLeft, RunTold, HandleStepFinished
  PROVE  Tells(log', generation)
<1>1. /\ turn.phase = "Streaming" /\ turn.step = handling.step /\ turn.step = generation
      /\ handling.type = "StepFinished"
  BY CurrentStep DEF HandleStepFinished, Handle, StreamOrder
<1>2. /\ turn.pending = NoPending /\ turn.id # 0 /\ log \in Logs /\ turns \in Nat
  BY <1>1 DEF NoneLeft, TurnInv, TurnIds, TypeOK
<1>3. Announced
  <2>1. 0 \in DOMAIN Transit /\ Transit[0] = handling /\ DOMAIN Transit \subseteq Nat
    BY TransitIndexes
  <2>2. 0 \in CompletionsInTransit
    BY <1>1, <2>1 DEF CompletionsInTransit, Completions
  <2>3. step.status = "finished"
    BY <2>2, LiveStep
  <2>4. \A i \in DOMAIN Transit : i # 0 => 0 < i
    BY <2>1
  <2>5. \A i \in DOMAIN Transit : Transit[i].type # "Step"
    BY <1>1, <2>1, <2>4 DEF StreamOrder, Reports
  <2>. QED BY <2>3, <2>5 DEF Announced
<1>4. Reads(log, Reader(turn.id, turns, generation, generation, NoPending))
  BY <1>1, <1>2, <1>3 DEF RunTold, StepRead
<1>. DEFINE e == ModelStepEnded(handling.step, handling.reason, handling.message)
            ended == Commit(log, e)
            n == handling.message.calls
<1>5. /\ ended \in Logs /\ n \in Nat
      /\ Reads(ended, Reader(turn.id, turns, 0, generation, NoPending))
  <2>1. ended \in Logs /\ n \in Nat
    BY <1>2, HandledMessage, MessageFields, CommitType, ModelStepEndedType
       DEF HandleStepFinished, AssistantMessages
  <2>2. ReplayEvent(Reader(turn.id, turns, generation, generation, NoPending), e)
          = Reader(turn.id, turns, 0, generation, NoPending)
    BY <1>1, StepReads
  <2>. QED BY <1>4, <2>1, <2>2, CommitReads
<1>6. Reads(Commit(ended, ErrorOccurred),
            Reader(turn.id, turns, 0, generation, NoPending))
  BY <1>2, <1>5, CommitReads, SessionReads
<1>7. \/ EndTurn(Commit(ended, ErrorOccurred)) \/ EndTurn(ended)
      \/ DispatchToolCalls(ended, n)
  BY <1>1 DEF HandleStepFinished
<1>. HIDE DEF ended, n
<1>8. CASE EndTurn(Commit(ended, ErrorOccurred)) \/ EndTurn(ended)
  BY <1>2, <1>5, <1>6, <1>8, EndTurnTells
<1>9. CASE DispatchToolCalls(ended, n)
  BY <1>1, <1>5, <1>9, ProposalsTell
<1>. QED BY <1>7, <1>8, <1>9

\* When no step streams.
LEMMA OtherwiseTells ==
  ASSUME TypeOK, TurnInv, InFlight, StreamOrder, NoneLeft, RunTold, Handlers,
         turn.phase # "Streaming"
  PROVE  RunTold'
<1>1. /\ Reads(log, Reader(turn.id, turns, 0, generation, turn.pending))
      /\ log \in Logs /\ turns \in Nat /\ generation \in Nat
      /\ turn.phase = "Idle" => turn.id = 0
  BY DEF RunTold, StepRead, TypeOK, TurnInv, TurnIds
<1>2. CASE Tells(log', generation) /\ generation' = generation
  BY <1>1, <1>2 DEF Tells, RunTold, StepRead
<1>3. CASE UNCHANGED log /\ turn' = Streaming(turn.id, generation + 1)
           /\ turns' = turns /\ generation' = generation + 1
           /\ step' = NewStep(generation + 1, StepContext(handling.context))
           /\ turn.phase = "PreparingContext"
  <2>1. /\ turn'.id = turn.id /\ turn'.pending = turn.pending
        /\ turn'.phase = "Streaming" /\ step'.status = "starting"
    BY <1>3 DEF Streaming, Idle, NewStep, NoneLeft
  <2>2. PICK s \in Nat : s = generation
    BY <1>1
  <2>3. StepRead(0, s)'
    BY <1>3, <2>1, <2>2 DEF StepRead, Announced
  <2>. QED BY <1>1, <1>3, <2>1, <2>2, <2>3 DEF RunTold, Reads
<1>4. CASE UNCHANGED <<log, turns, generation>> /\ turn'.phase # "Streaming"
           /\ turn'.id = turn.id /\ turn'.pending = turn.pending
  BY <1>1, <1>2, <1>4 DEF Tells, Reads
<1>5. CASE HandleSubmitInput
  <2>1. generation' = generation
    BY <1>5 DEF HandleSubmitInput
  <2>2. CASE UNCHANGED <<turn, turns, log>>
    BY <1>4, <2>1, <2>2
  <2>3. CASE turn.phase = "Idle" /\ \E q : DispatchNextInput(log, q)
    <3>1. turn.id = 0 /\ turn.pending = NoPending
      BY <1>1, <2>3 DEF NoneLeft
    <3>2. Tells(log', generation)
      BY <1>1, <2>3, <3>1, DispatchTells
    <3>. QED BY <1>2, <2>1, <3>2
  <2>. QED BY <1>5, <2>2, <2>3 DEF HandleSubmitInput
<1>6. CASE HandleSetSystemPrompt \/ HandleStepEvent \/ HandleLive
  <2>1. UNCHANGED <<turn, turns, generation>>
    BY <1>6 DEF HandleSetSystemPrompt, HandleStepEvent, HandleLive, turnVars
  <2>2. HandleSetSystemPrompt
    <3>1. 0 \in DOMAIN Transit /\ Transit[0] = handling
      BY TransitIndexes
    <3>. QED BY <1>6, <3>1 DEF HandleStepEvent, HandleLive, Handle, StreamOrder
  <2>3. Reads(log', Reader(turn.id, turns, 0, generation, turn.pending))
    BY <1>1, <2>2, CommitReads, SessionReads DEF HandleSetSystemPrompt
  <2>. QED BY <1>2, <2>1, <2>3 DEF Tells
<1>7. CASE HandleCancel
  BY <1>4, <1>7 DEF HandleCancel, TypeOK, TurnOK
<1>8. CASE HandleContextPrepared
  <2>1. turn.phase = "PreparingContext" /\ turn.id = handling.turn
    BY <1>8, CurrentPreparation DEF HandleContextPrepared, Handle
  <2>2. CASE EndTurn(log) /\ generation' = generation
    <3>1. turn.pending = NoPending
      BY <2>1 DEF NoneLeft
    <3>. QED BY <1>1, <1>2, <2>2, <3>1, EndTurnTells
  <2>. QED BY <1>3, <1>8, <2>1, <2>2 DEF HandleContextPrepared
<1>9. CASE HandleToolInputPrepared \/ HandleToolFinished \/ HandleToolResultFinalized
  <2>1. generation' = generation
    BY <1>9
       DEF HandleToolInputPrepared, HandleToolFinished, HandleToolResultFinalized
  <2>. QED BY <1>1, <1>2, <1>9, <2>1, ToolHandlersTell
<1>10. ~HandleStepFinished
  BY CurrentStep DEF HandleStepFinished, Handle
<1>. QED BY <1>5, <1>6, <1>7, <1>8, <1>9, <1>10 DEF Handlers

\* What a reader knows of a session that has ended.
LEMMA EndedReads ==
  ASSUME NEW t, NEW n, NEW o, NEW s, NEW p
  PROVE  LET r == ReplayEvent(Reader(t, n, o, s, p), SessionEnded) IN
         r.valid /\ r.turn = t /\ r.turns = n /\ r.open = o /\ r.pending = p
<1>. DEFINE r == Reader(t, n, o, s, p)
            e == SessionEnded
<1>1. e.type = "SessionEnded"
  BY DEF SessionEnded
<1>. HIDE DEF e
<1>2. ReadEvent(r, e) = [r EXCEPT !.session = "ended"]
  BY <1>1 DEF ReadEvent
<1>3. MayFollow(r, e)
  BY <1>1 DEF MayFollow, Reader
<1>4. ReplayEvent(r, e) = [[r EXCEPT !.session = "ended"] EXCEPT !.valid = @ /\ TRUE]
  BY <1>2, <1>3 DEF ReplayEvent
<1>. QED BY <1>4 DEF Reader, e

LEMMA ReaderFields ==
  ASSUME NEW t, NEW n, NEW o, NEW s, NEW p
  PROVE  LET r == Reader(t, n, o, s, p) IN
         r.valid /\ r.turn = t /\ r.turns = n /\ r.open = o /\ r.pending = p
BY DEF Reader

LEMMA StepReadFields ==
  ASSUME TypeOK, StreamOrder, NEW o, NEW s, StepRead(o, s), o # 0
  PROVE  turn.phase = "Streaming" /\ o = turn.step
BY DEF StepRead, StreamOrder

LEMMA InitTold == Init => Told
BY IdleFields DEF Init, Told, NoneLeft

LEMMA NextTold ==
  ASSUME StreamInv, Told, [Next]_vars
  PROVE  Told'
<1>. USE DEF StreamInv
<1>1. NoneLeft'
  BY NextNoneLeft DEF Told
<1>2. CASE OnStart
  <2>1. /\ log = EmptyLog /\ turn = Idle /\ turns = 0 /\ generation = 0
        /\ log' = Commit(log, SessionStarted) /\ actor' = "running"
        /\ UNCHANGED <<turn, turns, generation>>
    BY <1>2 DEF OnStart, turnVars, ActorInv
  <2>2. <<>> \in Seq({}) /\ EmptyLog.events = <<>>
    BY DEF EmptyLog
  <2>3. Reads(log, EmptyReplay)
    BY <2>1, <2>2, ReplayEmpty DEF Reads, IsSequence
  <2>4. Reads(log', Reader(0, 0, 0, 0, NoPending))
    BY <2>1, <2>3, CommitReads, SessionReads
  <2>5. turn'.phase = "Idle" /\ turn'.id = 0 /\ turn'.pending = NoPending
    BY <2>1, TurnFields, IdleFields
  <2>6. StepRead(0, 0)'
    BY <2>1, <2>5 DEF StepRead
  <2>7. RunTold'
    BY <2>1, <2>4, <2>5, <2>6 DEF RunTold
  <2>. QED BY <1>1, <2>1, <2>7 DEF Told
<1>3. CASE OnStop
  <2>1. /\ RunTold /\ log' = Commit(log, SessionEnded) /\ actor' = "stopped"
        /\ UNCHANGED <<turn, turns, generation>> /\ StreamOrder
    BY <1>3 DEF OnStop, turnVars, Told, StreamOrderInv
  <2>2. PICK o \in Nat, s \in Nat :
          Reads(log, Reader(turn.id, turns, o, s, turn.pending)) /\ StepRead(o, s)
    BY <2>1 DEF RunTold
  <2>3. Replay(log'.events)
          = ReplayEvent(Reader(turn.id, turns, o, s, turn.pending), SessionEnded)
    BY <2>1, <2>2, CommitReads DEF Reads
  <2>4. o # 0 => turn.phase = "Streaming" /\ o = turn.step
    BY <2>1, <2>2, StepReadFields
  <2>5. LogReplaysToTurn'
    BY <2>1, <2>3, <2>4, EndedReads DEF LogReplaysToTurn
  <2>. QED BY <1>1, <2>1, <2>5 DEF Told
<1>4. CASE Receive
  <2>1. UNCHANGED <<turn, turns, generation, log, actor, step>> /\ actor = "running"
    BY <1>4 DEF Receive, turnVars
  <2>2. Moved(1, {})
    BY <1>4, ReceiveMoved
  <2>3. Announced' <=> Announced
    BY <2>1, <2>2, AnnouncedMoves, AnnouncedKept
  <2>4. RunTold'
    BY <2>1, <2>3, NothingChanges DEF Told
  <2>. QED BY <1>1, <2>1, <2>4 DEF Told
<1>5. CASE Handlers
  <2>1. actor = "running" /\ actor' = "running" /\ InFlight /\ StreamOrder
    BY <1>5, HandlerRuns DEF OneCompletionInFlight, InFlight, StreamOrderInv
  <2>2. NoneLeft /\ RunTold
    BY <2>1 DEF Told
  <2>3. CASE handling.type = "StepFinished"
    <3>1. HandleStepFinished
      BY <1>5, <2>3
         DEF Handlers, Handle, HandleSubmitInput, HandleSetSystemPrompt, HandleCancel,
             HandleStepEvent, HandleLive, HandleContextPrepared,
             HandleToolInputPrepared, HandleToolFinished, HandleToolResultFinalized
    <3>2. Tells(log', generation) /\ generation' = generation /\ generation \in Nat
      BY <2>1, <2>2, <3>1, StepFinishedTells DEF HandleStepFinished, TypeOK
    <3>3. RunTold'
      BY <3>2 DEF Tells, RunTold, StepRead
    <3>. QED BY <1>1, <2>1, <3>3 DEF Told
  <2>4. CASE turn.phase = "Streaming" /\ handling.type # "StepFinished"
    BY <1>1, <1>5, <2>1, <2>2, <2>4, StreamingTells DEF Told
  <2>5. CASE turn.phase # "Streaming"
    BY <1>1, <1>5, <2>1, <2>2, <2>5, OtherwiseTells DEF Told
  <2>. QED BY <2>3, <2>4, <2>5
<1>6. CASE Outside
  <2>1. UNCHANGED <<turn, turns, generation, log, actor>>
    BY <1>6, OutsideMoves
  <2>2. CASE actor = "running"
    <3>1. Announced' <=> Announced
      BY <1>6, <2>2, OutsideAnnounced, OutsideKeepsAnnounced
    <3>2. RunTold'
      BY <2>1, <2>2, <3>1, NothingChanges DEF Told
    <3>. QED BY <1>1, <2>1, <2>2, <3>2 DEF Told
  <2>3. CASE actor # "running"
    BY <1>1, <2>1, <2>3 DEF Told, LogReplaysToTurn
  <2>. QED BY <2>2, <2>3
<1>. QED BY <1>2, <1>3, <1>4, <1>5, <1>6, StepKinds

(***************************************************************************)
(* Whoever replays the stored events of a session finds a well-formed      *)
(* history and knows the open turn, the open step and the state of every   *)
(* invocation without a result, as the session actor has them in memory,   *)
(* also after close() cut a turn short: no handler of harness.rs changes   *)
(* its TurnState without committing the event that says so.                *)
(***************************************************************************)
THEOREM LogTellsTurn == Spec => []LogReplaysToTurn
<1>1. Init => StreamInv /\ Told
  BY InitStream, InitTold
<1>2. StreamInv /\ Told /\ [Next]_vars => (StreamInv /\ Told)'
  BY NextStream, NextTold
<1>3. StreamInv /\ Told => LogReplaysToTurn
  <2>. SUFFICES ASSUME StreamInv, Told PROVE LogReplaysToTurn
    OBVIOUS
  <2>. USE DEF StreamInv
  <2>1. CASE actor = "starting"
    <3>1. log = EmptyLog /\ turn = Idle /\ turns = 0
      BY <2>1 DEF ActorInv
    <3>2. Replay(log.events) = EmptyReplay
      BY <3>1, ReplayEmpty DEF EmptyLog
    <3>3. EmptyReplay.valid /\ EmptyReplay.turn = 0 /\ EmptyReplay.turns = 0
            /\ EmptyReplay.open = 0 /\ EmptyReplay.pending = NoPending
      BY DEF EmptyReplay
    <3>. QED BY <3>1, <3>2, <3>3, IdleFields DEF LogReplaysToTurn
  <2>2. CASE actor = "running"
    <3>1. PICK o \in Nat, s \in Nat :
            Reads(log, Reader(turn.id, turns, o, s, turn.pending)) /\ StepRead(o, s)
      BY <2>2 DEF Told, RunTold
    <3>2. Replay(log.events) = Reader(turn.id, turns, o, s, turn.pending)
      BY <3>1 DEF Reads
    <3>3. o # 0 => turn.phase = "Streaming" /\ o = turn.step
      BY <2>2, <3>1, StepReadFields DEF StreamOrderInv
    <3>. QED BY <3>2, <3>3, ReaderFields DEF LogReplaysToTurn
  <2>3. CASE actor = "stopped"
    BY <2>3 DEF Told
  <2>. QED BY <2>1, <2>2, <2>3 DEF TypeOK
<1>. QED BY <1>1, <1>2, <1>3, PTL DEF Spec

-----------------------------------------------------------------------------
(* A conversation, as messages are appended to it. *)

\* The call that the result j answers is one of the assistant message before it.
Asked(ms, j) ==
  \E i \in 1..j - 1 : /\ ms[i].role = "assistant"
                      /\ IsResultOf(ms[j], ms[i].step)
                      /\ j <= i + ms[i].calls

AnswerIn(ms, from, to, s, c) ==
  \E j \in from + 1..to : IsResultOf(ms[j], s) /\ ms[j].inv.call = c

Answered(ms, i) ==
  /\ i + ms[i].calls <= Len(ms)
  /\ \A c \in 1..ms[i].calls : AnswerIn(ms, i, i + ms[i].calls, ms[i].step, c)

\* The assistant message at a is the last one, and its calls in S have no
\* result yet: there is room for just as many.
Open(ms, a, s, n, S) ==
  /\ \A i \in DOMAIN ms : i # a /\ ms[i].role = "assistant" => Answered(ms, i)
  /\ \A j \in DOMAIN ms : ms[j].role = "toolResult" => Asked(ms, j)
  /\ a \in DOMAIN ms /\ ms[a].role = "assistant" /\ ms[a].step = s /\ ms[a].calls = n
  /\ S \subseteq 1..n /\ Len(ms) + Cardinality(S) = a + n
  /\ \A c \in (1..n) \ S : AnswerIn(ms, a, Len(ms), s, c)

LEMMA WellFormedParts ==
  ASSUME NEW ms
  PROVE  WellFormed(ms) <=>
           /\ \A i \in DOMAIN ms : ms[i].role = "assistant" => Answered(ms, i)
           /\ \A j \in DOMAIN ms : ms[j].role = "toolResult" => Asked(ms, j)
<1>1. ASSUME NEW i
      PROVE  {c \in 1..ms[i].calls :
                \E j \in i + 1..i + ms[i].calls :
                  IsResultOf(ms[j], ms[i].step) /\ ms[j].inv.call = c}
               = 1..ms[i].calls
             <=> \A c \in 1..ms[i].calls :
                   AnswerIn(ms, i, i + ms[i].calls, ms[i].step, c)
  BY DEF AnswerIn
<1>. QED BY <1>1 DEF WellFormed, Answered, Asked

LEMMA MessageAppended ==
  ASSUME NEW ms \in Seq(Messages), NEW m \in Messages
  PROVE  /\ Append(ms, m) \in Seq(Messages) /\ Len(ms) \in Nat
         /\ DOMAIN ms = 1..Len(ms) /\ DOMAIN Append(ms, m) = 1..Len(ms) + 1
         /\ Len(Append(ms, m)) = Len(ms) + 1 /\ Append(ms, m)[Len(ms) + 1] = m
         /\ \A i \in 1..Len(ms) : Append(ms, m)[i] = ms[i] /\ ms[i] \in Messages
OBVIOUS

LEMMA CallsType ==
  ASSUME NEW m \in Messages
  PROVE  m.role = "assistant" => m.calls \in Nat
BY DEF Messages

\* What is appended leaves what was asked and what was answered.
LEMMA AppendKeepsAnswers ==
  ASSUME NEW ms \in Seq(Messages), NEW m \in Messages
  PROVE  /\ \A j \in DOMAIN ms : Asked(ms, j) => Asked(Append(ms, m), j)
         /\ \A i \in DOMAIN ms : ms[i].role = "assistant" /\ Answered(ms, i) =>
              Answered(Append(ms, m), i)
         /\ \A s, c : \A i \in Nat : AnswerIn(ms, i, Len(ms), s, c) =>
              AnswerIn(Append(ms, m), i, Len(ms) + 1, s, c)
<1>. DEFINE u == Append(ms, m)
            n == Len(ms)
<1>1. /\ n \in Nat /\ DOMAIN ms = 1..n /\ Len(u) = n + 1
      /\ \A i \in 1..n : u[i] = ms[i] /\ ms[i] \in Messages
  BY MessageAppended
<1>. HIDE DEF u, n
<1>2. ASSUME NEW j \in 1..n, Asked(ms, j) PROVE Asked(u, j)
  <2>1. \A i \in 1..j - 1 : i \in 1..n
    BY <1>1
  <2>. QED BY <1>1, <1>2, <2>1 DEF Asked
<1>3. ASSUME NEW i \in Nat, NEW to \in Nat, to <= n, NEW s, NEW c, AnswerIn(ms, i, to, s, c)
      PROVE  AnswerIn(u, i, to, s, c)
  <2>1. \A j \in i + 1..to : j \in 1..n
    BY <1>1, <1>3
  <2>. QED BY <1>1, <1>3, <2>1 DEF AnswerIn
<1>4. ASSUME NEW i \in 1..n, ms[i].role = "assistant", Answered(ms, i)
      PROVE  Answered(u, i)
  <2>1. ms[i].calls \in Nat /\ u[i] = ms[i] /\ i \in Nat
    BY <1>1, <1>4, CallsType
  <2>2. i + ms[i].calls <= n
    BY <1>4 DEF Answered, n
  <2>3. i + ms[i].calls \in Nat /\ i + ms[i].calls <= Len(u)
    BY <1>1, <2>1, <2>2
  <2>. QED BY <1>3, <1>4, <2>1, <2>2, <2>3 DEF Answered
<1>5. ASSUME NEW i \in Nat, NEW s, NEW c, AnswerIn(ms, i, n, s, c)
      PROVE  AnswerIn(u, i, n + 1, s, c)
  <2>1. AnswerIn(u, i, n, s, c)
    BY <1>1, <1>3, <1>5
  <2>2. \A j \in i + 1..n : j \in i + 1..n + 1
    BY <1>1
  <2>. QED BY <2>1, <2>2 DEF AnswerIn
<1>. QED BY <1>1, <1>2, <1>4, <1>5 DEF u, n

LEMMA NoMessages == WellFormed(<<>>)
BY WellFormedParts

\* A message that asks for nothing and answers nothing.
LEMMA PlainMessage ==
  ASSUME NEW ms \in Seq(Messages), WellFormed(ms), NEW m \in Messages,
         m.role # "toolResult", m.role = "assistant" => m.calls = 0
  PROVE  WellFormed(Append(ms, m))
<1>. DEFINE u == Append(ms, m)
            n == Len(ms)
<1>1. /\ n \in Nat /\ DOMAIN ms = 1..n /\ DOMAIN u = 1..n + 1 /\ Len(u) = n + 1
      /\ u[n + 1] = m /\ \A i \in 1..n : u[i] = ms[i]
  BY MessageAppended
<1>2. /\ \A j \in 1..n : Asked(ms, j) => Asked(u, j)
      /\ \A i \in 1..n : ms[i].role = "assistant" /\ Answered(ms, i) => Answered(u, i)
  BY <1>1, AppendKeepsAnswers
<1>. HIDE DEF u, n
<1>3. \A i \in 1..n + 1 : i \in 1..n \/ i = n + 1
  BY <1>1
<1>4. m.role = "assistant" => Answered(u, n + 1)
  BY <1>1 DEF Answered
<1>5. \A i \in DOMAIN u : u[i].role = "assistant" => Answered(u, i)
  BY <1>1, <1>2, <1>3, <1>4, WellFormedParts
<1>6. \A j \in DOMAIN u : u[j].role = "toolResult" => Asked(u, j)
  BY <1>1, <1>2, <1>3, WellFormedParts
<1>. QED BY <1>5, <1>6, WellFormedParts DEF u

LEMMA BatchOpens ==
  ASSUME NEW ms \in Seq(Messages), WellFormed(ms), NEW s \in Nat, NEW n \in Nat
  PROVE  Open(Append(ms, AssistantMessage(s, n)), Len(ms) + 1, s, n, 1..n)
<1>. DEFINE m == AssistantMessage(s, n)
            u == Append(ms, m)
            k == Len(ms)
<1>0. m \in Messages /\ m.role = "assistant" /\ m.step = s /\ m.calls = n
  BY DEF AssistantMessage, Messages
<1>. HIDE DEF m
<1>1. /\ k \in Nat /\ DOMAIN ms = 1..k /\ DOMAIN u = 1..k + 1 /\ Len(u) = k + 1
      /\ u[k + 1] = m /\ \A i \in 1..k : u[i] = ms[i]
  BY <1>0, MessageAppended
<1>2. /\ \A j \in 1..k : Asked(ms, j) => Asked(u, j)
      /\ \A i \in 1..k : ms[i].role = "assistant" /\ Answered(ms, i) => Answered(u, i)
  BY <1>0, <1>1, AppendKeepsAnswers
<1>. HIDE DEF u, k
<1>3. k + 1 \in 1..k + 1 /\ \A i \in 1..k + 1 : i \in 1..k \/ i = k + 1
  BY <1>1
<1>4. Cardinality(1..n) = n
  BY FS_Interval
<1>5. \A i \in DOMAIN u : i # k + 1 /\ u[i].role = "assistant" => Answered(u, i)
  BY <1>1, <1>2, <1>3, WellFormedParts
<1>6. \A j \in DOMAIN u : u[j].role = "toolResult" => Asked(u, j)
  BY <1>0, <1>1, <1>2, <1>3, WellFormedParts
<1>7. (1..n) \ (1..n) = {}
  OBVIOUS
<1>. QED BY <1>0, <1>1, <1>3, <1>4, <1>5, <1>6, <1>7 DEF Open, m, u, k

LEMMA BatchCloses ==
  ASSUME NEW ms \in Seq(Messages), NEW a, NEW s, NEW n \in Nat, Open(ms, a, s, n, {})
  PROVE  WellFormed(ms)
<1>1. /\ a \in DOMAIN ms /\ Len(ms) + Cardinality({}) = a + n /\ ms[a].step = s
      /\ ms[a].calls = n /\ \A c \in (1..n) \ {} : AnswerIn(ms, a, Len(ms), s, c)
  BY DEF Open
<1>2. Len(ms) \in Nat /\ DOMAIN ms = 1..Len(ms) /\ a \in Nat
  BY <1>1
<1>3. Len(ms) = a + n
  BY <1>1, <1>2, FS_EmptySet
<1>4. Answered(ms, a)
  <2>1. a + ms[a].calls <= Len(ms)
    BY <1>1, <1>2, <1>3
  <2>2. \A c \in 1..ms[a].calls : AnswerIn(ms, a, a + ms[a].calls, ms[a].step, c)
    BY <1>1, <1>3
  <2>. QED BY <2>1, <2>2 DEF Answered
<1>. QED BY <1>4, WellFormedParts DEF Open

\* One of the results that are waited for; there is room for it.
LEMMA ResultAnswers ==
  ASSUME NEW ms \in Seq(Messages), NEW a, NEW s, NEW n \in Nat, NEW S,
         Open(ms, a, s, n, S), NEW k \in Invocations, k.step = s, k.call \in S,
         NEW e \in BOOLEAN
  PROVE  Open(Append(ms, ToolResultMessage(k, e)), a, s, n, S \ {k.call})
<1>. DEFINE m == ToolResultMessage(k, e)
            u == Append(ms, m)
            l == Len(ms)
            c == k.call
<1>0. /\ m \in Messages /\ m.role = "toolResult" /\ m.inv.call = c
      /\ IsResultOf(m, s)
  BY DEF ToolResultMessage, Messages, IsResultOf
<1>. HIDE DEF m, c
<1>1. /\ l \in Nat /\ DOMAIN ms = 1..l /\ DOMAIN u = 1..l + 1 /\ Len(u) = l + 1
      /\ u[l + 1] = m /\ \A i \in 1..l : u[i] = ms[i]
  BY <1>0, MessageAppended
<1>2. /\ \A j \in 1..l : Asked(ms, j) => Asked(u, j)
      /\ \A i \in 1..l : ms[i].role = "assistant" /\ Answered(ms, i) => Answered(u, i)
      /\ \A d : AnswerIn(ms, a, l, s, d) => AnswerIn(u, a, l + 1, s, d)
  BY <1>0, <1>1, AppendKeepsAnswers DEF Open
<1>3. /\ a \in 1..l /\ ms[a].role = "assistant" /\ ms[a].step = s /\ ms[a].calls = n
      /\ S \subseteq 1..n /\ l + Cardinality(S) = a + n
      /\ \A d \in (1..n) \ S : AnswerIn(ms, a, l, s, d)
  BY <1>1 DEF Open
<1>. HIDE DEF u, l
<1>4. l + 1 \in 1..l + 1 /\ \A i \in 1..l + 1 : i \in 1..l \/ i = l + 1
  BY <1>1
<1>5. /\ Cardinality(S) \in Nat /\ Cardinality(S) # 0
      /\ Cardinality(S \ {c}) = Cardinality(S) - 1
  <2>1. IsFiniteSet(S)
    <3>1. S \in SUBSET (1..n)
      BY <1>3
    <3>2. IsFiniteSet(1..n)
      BY FS_Interval
    <3>. QED BY <3>1, <3>2, FS_Subset
  <2>. QED BY <2>1, FS_RemoveElement, FS_CardinalityType, FS_EmptySet DEF c
<1>6. l + 1 <= a + n /\ (l + 1) + Cardinality(S \ {c}) = a + n
  BY <1>1, <1>3, <1>5
<1>7. \A i \in DOMAIN u : i # a /\ u[i].role = "assistant" => Answered(u, i)
  BY <1>0, <1>1, <1>2, <1>4 DEF Open
<1>8. \A j \in DOMAIN u : u[j].role = "toolResult" => Asked(u, j)
  <2>1. Asked(u, l + 1)
    <3>1. a \in 1..(l + 1) - 1
      BY <1>1, <1>3
    <3>. QED BY <1>0, <1>1, <1>3, <1>6, <3>1 DEF Asked
  <2>. QED BY <1>1, <1>2, <1>4, <2>1 DEF Open
<1>9. \A d \in (1..n) \ (S \ {c}) : AnswerIn(u, a, l + 1, s, d)
  <2>1. AnswerIn(u, a, l + 1, s, c)
    <3>1. l + 1 \in a + 1..l + 1
      BY <1>1, <1>3
    <3>. QED BY <1>0, <1>1, <3>1 DEF AnswerIn
  <2>2. ASSUME NEW d \in 1..n, d \notin S \ {c} PROVE AnswerIn(u, a, l + 1, s, d)
    <3>1. d = c \/ d \in (1..n) \ S
      BY <2>2
    <3>. QED BY <1>2, <1>3, <2>1, <3>1
  <2>. QED BY <2>2
<1>10. a \in DOMAIN u /\ u[a] = ms[a]
  BY <1>1, <1>3
<1>. QED BY <1>1, <1>3, <1>6, <1>7, <1>8, <1>9, <1>10 DEF Open, m, u, c

-----------------------------------------------------------------------------
(* The conversation of a session. *)

MessagesOf(l) == l.conversation.messages

\* The conversation ms waits for the invocations of the turn t.
Batch(ms, t) ==
  \E a, s, n \in Nat, S \in SUBSET Nat :
    Open(ms, a, s, n, S) /\ DOMAIN t.pending = {Invocation(t.id, s, c) : c \in S}

Converses(l, t) ==
  IF t.phase = "RunningTools" THEN Batch(MessagesOf(l), t)
  ELSE WellFormed(MessagesOf(l))

LEMMA LoggedMessages ==
  ASSUME NEW l \in Logs
  PROVE  MessagesOf(l) \in Seq(Messages)
BY DEF MessagesOf, Logs, Contexts

LEMMA CommitMessages ==
  ASSUME NEW l \in Logs
  PROVE  /\ \A i : MessagesOf(Commit(l, UserMessageCommitted(i)))
                  = Append(MessagesOf(l), UserMessage(i))
         /\ \A k, o : MessagesOf(Commit(l, ToolResultReceived(k, o)))
                     = Append(MessagesOf(l), ToolResultMessage(k, o # "ExecSuccess"))
         /\ \A s, r, m : MessagesOf(Commit(l, ModelStepEnded(s, r, m)))
                        = IF m.present /\ r \in DoneReasons
                          THEN Append(MessagesOf(l), AssistantMessage(s, m.calls))
                          ELSE MessagesOf(l)
<1>1. ASSUME NEW i
      PROVE  MessagesOf(Commit(l, UserMessageCommitted(i)))
               = Append(MessagesOf(l), UserMessage(i))
  BY DEF MessagesOf, Commit, ApplyEvent, AssistantEnters, UserMessageCommitted, Logs,
         Contexts
<1>2. ASSUME NEW k, NEW o
      PROVE  MessagesOf(Commit(l, ToolResultReceived(k, o)))
               = Append(MessagesOf(l), ToolResultMessage(k, o # "ExecSuccess"))
  BY DEF MessagesOf, Commit, ApplyEvent, AssistantEnters, ToolResultReceived, Logs,
         Contexts
<1>3. ASSUME NEW s, NEW r, NEW m
      PROVE  MessagesOf(Commit(l, ModelStepEnded(s, r, m)))
               = IF m.present /\ r \in DoneReasons
                 THEN Append(MessagesOf(l), AssistantMessage(s, m.calls))
                 ELSE MessagesOf(l)
  BY DEF MessagesOf, Commit, ApplyEvent, AssistantEnters, ModelStepEnded, Logs, Contexts
<1>. QED BY <1>1, <1>2, <1>3

LEMMA OtherCommits ==
  ASSUME NEW l \in Logs
  PROVE  /\ \A n : /\ MessagesOf(Commit(l, AgentTurnStarted(n))) = MessagesOf(l)
                  /\ MessagesOf(Commit(l, AgentTurnEnded(n))) = MessagesOf(l)
                  /\ MessagesOf(Commit(l, ModelStepStarted(n))) = MessagesOf(l)
                  /\ MessagesOf(Commit(l, SystemPromptSet(n))) = MessagesOf(l)
         /\ \A k : /\ MessagesOf(Commit(l, ToolExecutionRequested(k))) = MessagesOf(l)
                  /\ MessagesOf(Commit(l, ToolExecutionObserved(k))) = MessagesOf(l)
         /\ MessagesOf(Commit(l, ErrorOccurred)) = MessagesOf(l)
         /\ MessagesOf(Commit(l, SessionStarted)) = MessagesOf(l)
         /\ MessagesOf(Commit(l, SessionEnded)) = MessagesOf(l)
         /\ \A e : MessagesOf(PublishLive(l, e)) = MessagesOf(l)
<1>1. ASSUME NEW e, e.type \notin {"ModelStepEnded", "UserMessageCommitted",
                                  "ToolResultReceived"}
      PROVE  MessagesOf(Commit(l, e)) = MessagesOf(l)
  BY <1>1, CommitKeepsMessages DEF MessagesOf, AssistantEnters
<1>2. \A e : MessagesOf(PublishLive(l, e)) = MessagesOf(l)
  BY DEF MessagesOf, PublishLive, Logs
<1>. QED
  BY <1>1, <1>2
     DEF AgentTurnStarted, AgentTurnEnded, ModelStepStarted, SystemPromptSet,
         ToolExecutionRequested, ToolExecutionObserved, ErrorOccurred, SessionStarted,
         SessionEnded

LEMMA UserMessageAdds ==
  ASSUME NEW l \in Logs, WellFormed(MessagesOf(l)), NEW i \in Nat
  PROVE  WellFormed(MessagesOf(Commit(l, UserMessageCommitted(i))))
<1>1. UserMessage(i) \in Messages /\ UserMessage(i).role = "user"
  BY DEF UserMessage, Messages
<1>. QED BY <1>1, LoggedMessages, PlainMessage, CommitMessages

LEMMA DispatchConverses ==
  ASSUME TypeOK, NEW l \in Logs, WellFormed(MessagesOf(l)), NEW q \in Seq(Nat),
         DispatchNextInput(l, q)
  PROVE  Converses(log', turn')
<1>. DEFINE started == Commit(l, AgentTurnStarted(turns + 1))
            committed == Commit(started, UserMessageCommitted(Head(q)))
<1>1. started \in Logs /\ WellFormed(MessagesOf(started))
  <2>1. turns + 1 \in Nat
    BY DEF TypeOK
  <2>2. AgentTurnStarted(turns + 1) \in Events
    BY <2>1, TurnEventTypes
  <2>3. MessagesOf(started) = MessagesOf(l)
    BY OtherCommits
  <2>. QED BY <2>2, <2>3, CommitType
<1>2. \/ log' = l /\ turn' = Idle
      \/ q # <<>> /\ log' = committed /\ turn' = PreparingContext(turns + 1)
  BY DEF DispatchNextInput, PrepareContext
<1>. HIDE DEF started
<1>3. q # <<>> => WellFormed(MessagesOf(committed))
  BY <1>1, UserMessageAdds
<1>. HIDE DEF committed
<1>. QED BY <1>2, <1>3, TurnFields DEF Converses

LEMMA EndTurnConverses ==
  ASSUME TypeOK, NEW l \in Logs, WellFormed(MessagesOf(l)), EndTurn(l)
  PROVE  Converses(log', turn')
<1>1. turn.id \in Nat /\ queue \in Seq(Nat)
  BY DEF TypeOK, TurnOK
<1>2. /\ Commit(l, AgentTurnEnded(turn.id)) \in Logs
      /\ WellFormed(MessagesOf(Commit(l, AgentTurnEnded(turn.id))))
  BY <1>1, CommitType, TurnEventTypes, OtherCommits
<1>. QED BY <1>1, <1>2, DispatchConverses DEF EndTurn

\* The result of an invocation of the batch; the last one closes it.
LEMMA ResultConverses ==
  ASSUME TypeOK, NEW k \in Invocations, NEW state, Awaiting(k, state),
         Converses(log, turn), NEW l \in Logs, MessagesOf(l) = MessagesOf(log),
         NEW o \in Outcomes, CommitInvocationResult(k, l, o)
  PROVE  Converses(log', turn')
<1>. DEFINE received == Commit(l, ToolResultReceived(k, o))
            done == PublishLive(received, ToolExecutionEnded(k))
            rest == WithoutInvocation(turn.pending, k)
            ms == MessagesOf(l)
            m == ToolResultMessage(k, o # "ExecSuccess")
<1>1. /\ turn.phase = "RunningTools" /\ turn.id = k.turn /\ k \in DOMAIN turn.pending
      /\ ms \in Seq(Messages)
  BY LoggedMessages DEF Awaiting
<1>2. PICK a \in Nat, s \in Nat, n \in Nat, S \in SUBSET Nat :
        /\ Open(ms, a, s, n, S)
        /\ DOMAIN turn.pending = {Invocation(turn.id, s, c) : c \in S}
  BY <1>1 DEF Converses, Batch
<1>3. done \in Logs /\ MessagesOf(done) = Append(ms, m)
  <2>1. received \in Logs
    BY CommitType, InvocationEventTypes
  <2>2. done \in Logs /\ MessagesOf(done) = MessagesOf(received)
    BY <2>1, PublishLiveType, InvocationEventTypes, OtherCommits
  <2>. QED BY <2>2, CommitMessages
<1>4. \/ log' = done /\ turn' = [turn EXCEPT !.pending = rest]
      \/ DOMAIN rest = {} /\ EndTurn(done)
      \/ /\ DOMAIN rest = {}
         /\ PrepareContext(k.turn, Commit(done, UserMessageCommitted(Hints)))
  BY DEF CommitInvocationResult
<1>. HIDE DEF received, done, ms, m
<1>5. k.step = s /\ k.call \in S
  BY <1>1, <1>2 DEF Invocation
<1>6. DOMAIN rest = {Invocation(turn.id, s, c) : c \in S \ {k.call}}
  <2>1. DOMAIN rest = DOMAIN turn.pending \ {k}
    BY DEF WithoutInvocation
  <2>2. \A c \in S : Invocation(turn.id, s, c) = k <=> c = k.call
    BY <1>1, <1>2 DEF Invocation
  <2>. HIDE DEF rest
  <2>. QED BY <1>2, <2>1, <2>2
<1>7. Open(MessagesOf(done), a, s, n, S \ {k.call})
  <2>1. PICK e \in BOOLEAN : e = (o # "ExecSuccess")
    OBVIOUS
  <2>2. Open(Append(ms, ToolResultMessage(k, e)), a, s, n, S \ {k.call})
    BY <1>1, <1>2, <1>5, ResultAnswers
  <2>. QED BY <1>3, <2>1, <2>2 DEF m
<1>8. DOMAIN rest = {} => WellFormed(MessagesOf(done))
  <2>. SUFFICES ASSUME DOMAIN rest = {} PROVE WellFormed(MessagesOf(done))
    OBVIOUS
  <2>. HIDE DEF rest
  <2>1. S \ {k.call} = {}
    BY <1>6
  <2>. QED BY <1>3, <1>7, <2>1, LoggedMessages, BatchCloses
<1>. HIDE DEF rest
<1>9. CASE log' = done /\ turn' = [turn EXCEPT !.pending = rest]
  <2>1. turn'.phase = "RunningTools" /\ turn'.id = turn.id /\ turn'.pending = rest
    BY <1>1, <1>9 DEF TypeOK, TurnOK
  <2>2. S \ {k.call} \in SUBSET Nat
    OBVIOUS
  <2>3. Batch(MessagesOf(done), turn')
    BY <1>6, <1>7, <2>1, <2>2 DEF Batch
  <2>. QED BY <1>9, <2>1, <2>3 DEF Converses
<1>10. CASE DOMAIN rest = {} /\ EndTurn(done)
  BY <1>3, <1>8, <1>10, EndTurnConverses
<1>11. CASE /\ DOMAIN rest = {}
            /\ PrepareContext(k.turn, Commit(done, UserMessageCommitted(Hints)))
  <2>1. WellFormed(MessagesOf(Commit(done, UserMessageCommitted(Hints))))
    BY <1>3, <1>8, <1>11, UserMessageAdds DEF Hints
  <2>. QED BY <1>11, <2>1, TurnFields DEF PrepareContext, Converses
<1>. QED BY <1>4, <1>9, <1>10, <1>11

\* A message that asks for tools is there.
Complete(m) == m.calls > 0 => m.present

\* A step that ends with calls opens a batch, any other one adds at most a
\* message without calls.
LEMMA StepFinishedConverses ==
  ASSUME TypeOK, InFlight, Converses(log, turn), Complete(handling.message),
         HandleStepFinished
  PROVE  Converses(log', turn')
<1>. DEFINE s == handling.step
            r == handling.reason
            m == handling.message
            ms == MessagesOf(log)
            ended == Commit(log, ModelStepEnded(s, r, m))
<1>1. turn.phase = "Streaming" /\ turn.step = s
  BY CurrentStep DEF HandleStepFinished, Handle
<1>2. /\ s \in Nat /\ r \in StepReasons /\ m \in AssistantMessages /\ m.calls \in Nat
      /\ log \in Logs /\ ended \in Logs /\ ms \in Seq(Messages)
  <2>1. s \in Nat /\ r \in StepReasons /\ m \in AssistantMessages
    BY HandledMessage, MessageFields DEF HandleStepFinished
  <2>. QED BY <2>1, CommitType, ModelStepEndedType, LoggedMessages
             DEF TypeOK, AssistantMessages
<1>3. WellFormed(ms)
  BY <1>1 DEF Converses
<1>4. MessagesOf(ended) = IF m.present /\ r \in DoneReasons
                          THEN Append(ms, AssistantMessage(s, m.calls)) ELSE ms
  <2>. HIDE DEF s, r, m
  <2>. QED BY <1>2, CommitMessages
<1>5. \/ r = "Error" /\ EndTurn(Commit(ended, ErrorOccurred))
      \/ r \in DoneReasons /\ m.calls > 0 /\ DispatchToolCalls(ended, m.calls)
      \/ ~(r \in DoneReasons /\ m.calls > 0) /\ EndTurn(ended)
  BY <1>1 DEF HandleStepFinished
<1>. HIDE DEF s, r, m, ms, ended
<1>6. ~(r \in DoneReasons /\ m.calls > 0) => WellFormed(MessagesOf(ended))
  <2>1. AssistantMessage(s, 0) \in Messages /\ AssistantMessage(s, 0).role = "assistant"
          /\ AssistantMessage(s, 0).calls = 0
    BY <1>2 DEF AssistantMessage, Messages
  <2>. QED BY <1>2, <1>3, <1>4, <2>1, PlainMessage
<1>7. CASE r = "Error" /\ EndTurn(Commit(ended, ErrorOccurred))
  <2>1. "Error" \notin DoneReasons
    BY DEF DoneReasons
  <2>2. Commit(ended, ErrorOccurred) \in Logs
    BY <1>2, CommitType, SessionEventTypes
  <2>3. WellFormed(MessagesOf(Commit(ended, ErrorOccurred)))
    BY <1>2, <1>6, <1>7, <2>1, OtherCommits
  <2>. QED BY <1>7, <2>2, <2>3, EndTurnConverses
<1>8. CASE ~(r \in DoneReasons /\ m.calls > 0) /\ EndTurn(ended)
  BY <1>2, <1>6, <1>8, EndTurnConverses
<1>9. CASE r \in DoneReasons /\ m.calls > 0 /\ DispatchToolCalls(ended, m.calls)
  <2>. DEFINE n == m.calls
              calls == [c \in 1..n |-> Invocation(turn.id, turn.step, c)]
  <2>1. m.present
    BY <1>9 DEF Complete, m
  <2>2. Open(MessagesOf(ended), Len(ms) + 1, s, n, 1..n)
    BY <1>2, <1>3, <1>4, <1>9, <2>1, BatchOpens
  <2>3. MessagesOf(log') = MessagesOf(ended)
    BY <1>2, <1>9 DEF DispatchToolCalls, MessagesOf, Logs
  <2>4. {calls[c] : c \in 1..n} = {Invocation(turn.id, s, c) : c \in 1..n}
    BY <1>1
  <2>5. turn' = RunningTools(turn.id, [k \in {calls[c] : c \in 1..n} |-> "Proposing"])
    BY <1>9 DEF DispatchToolCalls
  <2>6. /\ turn'.phase = "RunningTools" /\ turn'.id = turn.id
        /\ DOMAIN turn'.pending = {Invocation(turn.id, s, c) : c \in 1..n}
    BY <2>4, <2>5 DEF RunningTools, Idle
  <2>7. Len(ms) + 1 \in Nat /\ n \in Nat /\ 1..n \in SUBSET Nat
    BY <1>2
  <2>. HIDE DEF n
  <2>8. Batch(MessagesOf(ended), turn')
    BY <1>2, <2>2, <2>6, <2>7 DEF Batch
  <2>. QED BY <2>3, <2>6, <2>8 DEF Converses
<1>. QED BY <1>5, <1>7, <1>8, <1>9

\* An invocation of the batch goes on, without a result.
LEMMA InvocationConverses ==
  ASSUME TypeOK, NEW k, NEW state, Awaiting(k, state), Converses(log, turn),
         MessagesOf(log') = MessagesOf(log), NEW next,
         turn' = [turn EXCEPT !.pending[k] = next]
  PROVE  Converses(log', turn')
<1>1. /\ turn'.phase = "RunningTools" /\ turn.phase = "RunningTools"
      /\ turn'.id = turn.id /\ DOMAIN turn'.pending = DOMAIN turn.pending
  BY DEF Awaiting, TypeOK, TurnOK
<1>2. PICK a \in Nat, s \in Nat, n \in Nat, S \in SUBSET Nat :
        /\ Open(MessagesOf(log), a, s, n, S)
        /\ DOMAIN turn.pending = {Invocation(turn.id, s, c) : c \in S}
  BY <1>1 DEF Converses, Batch
<1>3. Batch(MessagesOf(log'), turn')
  BY <1>1, <1>2 DEF Batch
<1>. QED BY <1>1, <1>3 DEF Converses

LEMMA ToolHandlersConverse ==
  ASSUME TypeOK, Converses(log, turn),
         HandleToolInputPrepared \/ HandleToolFinished \/ HandleToolResultFinalized
  PROVE  Converses(log', turn')
<1>. DEFINE k == handling.inv
            observed == Commit(log, ToolExecutionObserved(k))
            requested == Commit(log, ToolExecutionRequested(k))
<1>1. k \in Invocations /\ log \in Logs
  BY HandledMessage, MessageFields
     DEF HandleToolInputPrepared, HandleToolFinished, HandleToolResultFinalized,
         Handle, TypeOK
<1>2. CASE UNCHANGED <<turn, log>>
  BY <1>2
<1>3. /\ observed \in Logs /\ MessagesOf(observed) = MessagesOf(log)
      /\ MessagesOf(PublishLive(requested, ToolExecutionStarted(k))) = MessagesOf(log)
  <2>1. observed \in Logs /\ requested \in Logs
    BY <1>1, CommitType, InvocationEventTypes
  <2>. QED BY <1>1, <2>1, OtherCommits
<1>4. ASSUME NEW state, Awaiting(k, state), NEW l \in Logs, NEW o \in Outcomes,
             MessagesOf(l) = MessagesOf(log), FinalizeResult(k, l, o)
      PROVE  Converses(log', turn')
  <2>1. Commit(l, ErrorOccurred) \in Logs
        /\ MessagesOf(Commit(l, ErrorOccurred)) = MessagesOf(log)
    BY <1>4, CommitType, SessionEventTypes, OtherCommits
  <2>2. \E f \in {l, Commit(l, ErrorOccurred)}, q \in {o, "Cancelled"} :
          CommitInvocationResult(k, f, q)
    BY <1>4 DEF FinalizeResult
  <2>3. "Cancelled" \in Outcomes
    BY DEF Outcomes
  <2>. QED BY <1>1, <1>4, <2>1, <2>2, <2>3, ResultConverses
<1>. HIDE DEF observed, requested
<1>5. CASE HandleToolInputPrepared
  <2>1. CASE /\ Awaiting(k, "Proposing")
             /\ CommitInvocationResult(k, log, RefusedOutcome(handling.verdict))
    <3>1. RefusedOutcome(handling.verdict) \in Outcomes
      BY DEF RefusedOutcome, Outcomes
    <3>. QED BY <1>1, <2>1, <3>1, ResultConverses
  <2>2. CASE /\ Awaiting(k, "Proposing")
             /\ log' = PublishLive(requested, ToolExecutionStarted(k))
             /\ turn' = [turn EXCEPT !.pending[k] = "Executing"]
    BY <1>3, <2>2, InvocationConverses
  <2>. QED BY <1>2, <1>5, <2>1, <2>2 DEF HandleToolInputPrepared, requested
<1>6. CASE HandleToolFinished
  <2>1. CASE /\ Awaiting(k, "Executing") /\ log' = observed
             /\ turn' = [turn EXCEPT !.pending[k] = "Finalized"]
    BY <1>3, <2>1, InvocationConverses
  <2>2. CASE Awaiting(k, "Executing") /\ FinalizeResult(k, observed, "Cancelled")
    <3>1. "Cancelled" \in Outcomes
      BY DEF Outcomes
    <3>. QED BY <1>3, <1>4, <2>2, <3>1
  <2>. QED BY <1>2, <1>6, <2>1, <2>2 DEF HandleToolFinished, observed
<1>7. CASE HandleToolResultFinalized
  <2>1. CASE Awaiting(k, "Finalized") /\ FinalizeResult(k, log, handling.outcome)
    <3>1. handling.outcome \in Outcomes
      BY <1>7, HandledMessage, MessageFields DEF HandleToolResultFinalized
    <3>. QED BY <1>1, <1>4, <2>1, <3>1
  <2>. QED BY <1>2, <1>7, <2>1 DEF HandleToolResultFinalized
<1>. QED BY <1>5, <1>6, <1>7

LEMMA HandlersConverse ==
  ASSUME TypeOK, InFlight, StreamOrder, Converses(log, turn), Handlers,
         handling.type = "StepFinished" => Complete(handling.message)
  PROVE  Converses(log', turn')
<1>. USE DEF turnVars
<1>1. log \in Logs /\ turn.phase \in Phases /\ queue \in Seq(Nat)
  BY DEF TypeOK, TurnOK
<1>2. CASE turn' = turn /\ MessagesOf(log') = MessagesOf(log)
  BY <1>2 DEF Converses, Batch
<1>3. CASE HandleSubmitInput
  <2>1. CASE turn.phase = "Idle" /\ DispatchNextInput(log, Enqueued(queue, handling.input))
    <3>1. Enqueued(queue, handling.input) \in Seq(Nat)
      BY <1>1, <1>3, HandledMessage, MessageFields DEF HandleSubmitInput, Enqueued
    <3>2. WellFormed(MessagesOf(log))
      BY <2>1 DEF Converses
    <3>. QED BY <1>1, <2>1, <3>1, <3>2, DispatchConverses
  <2>. QED BY <1>2, <1>3, <2>1 DEF HandleSubmitInput
<1>4. CASE HandleSetSystemPrompt
  BY <1>1, <1>2, <1>4, OtherCommits DEF HandleSetSystemPrompt
<1>5. CASE HandleStepEvent
  <2>1. handling.event = ModelStepStarted(turn.step)
    BY <1>5, TransitIndexes DEF HandleStepEvent, Handle, StreamOrder
  <2>. QED BY <1>1, <1>2, <1>5, <2>1, OtherCommits DEF HandleStepEvent
<1>6. CASE HandleLive
  BY <1>1, <1>2, <1>6, OtherCommits DEF HandleLive
<1>7. CASE HandleCancel
  <2>1. /\ turn'.phase = turn.phase /\ turn'.id = turn.id
        /\ turn'.pending = turn.pending /\ log' = log
    BY <1>7 DEF HandleCancel, TypeOK, TurnOK
  <2>2. Batch(MessagesOf(log), turn) => Batch(MessagesOf(log'), turn')
    BY <2>1 DEF Batch
  <2>. QED BY <2>1, <2>2 DEF Converses
<1>8. CASE HandleContextPrepared
  <2>1. turn.phase = "PreparingContext"
    BY <1>8, CurrentPreparation DEF HandleContextPrepared, Handle
  <2>2. WellFormed(MessagesOf(log))
    BY <2>1 DEF Converses
  <2>3. CASE EndTurn(log)
    BY <1>1, <2>2, <2>3, EndTurnConverses
  <2>4. CASE log' = log /\ turn' = Streaming(turn.id, generation + 1)
    BY <2>2, <2>4 DEF Converses, Streaming, Idle
  <2>. QED BY <1>2, <1>8, <2>3, <2>4 DEF HandleContextPrepared
<1>9. CASE HandleStepFinished
  BY <1>9, StepFinishedConverses DEF HandleStepFinished, Handle
<1>. QED
  BY <1>3, <1>4, <1>5, <1>6, <1>7, <1>8, <1>9, ToolHandlersConverse DEF Handlers

-----------------------------------------------------------------------------
(* A message that asks for tools is there: it is Done that brings both. *)

ReportComplete(m) == m.type = "StepFinished" => Complete(m.message)

CompleteInv ==
  /\ Complete(step.message) /\ ReportComplete(handling)
  /\ \A i \in 1..Len(mailbox) : ReportComplete(mailbox[i])

LEMMA OtherMessages ==
  /\ ReportComplete(Nothing) /\ ReportComplete(Cancel)
  /\ \A n : ReportComplete(SubmitInput(n)) /\ ReportComplete(SetSystemPrompt(n))
  /\ \A e : ReportComplete(StepEvent(e)) /\ ReportComplete(Live(e))
  /\ \A t, c : ReportComplete(ContextPrepared(t, c))
  /\ \A k : ReportComplete(ToolFinished(k))
  /\ \A k, v : ReportComplete(ToolInputPrepared(k, v))
                /\ ReportComplete(ToolResultFinalized(k, v))
BY DEF ReportComplete, Nothing, Cancel, SubmitInput, SetSystemPrompt, StepEvent, Live,
       ContextPrepared, ToolFinished, ToolInputPrepared, ToolResultFinalized

LEMMA StepMessagesComplete ==
  /\ \A s, c : Complete(NewStep(s, c).message) /\ Complete(FinishedStep(s).message)
  /\ \A n : Complete(Message(n))
BY DEF Complete, NewStep, FinishedStep, NoMessage, Message

LEMMA DeliverComplete ==
  ASSUME TypeOK, CompleteInv, NEW m, ReportComplete(m), Deliver(m),
         handling' = handling, Complete(step'.message)
  PROVE  CompleteInv'
<1>1. CASE mailbox' = mailbox
  BY <1>1 DEF CompleteInv
<1>2. CASE mailbox' = Append(mailbox, m)
  <2>1. /\ Len(mailbox') = Len(mailbox) + 1 /\ mailbox'[Len(mailbox) + 1] = m
        /\ \A i \in 1..Len(mailbox) : mailbox'[i] = mailbox[i]
        /\ \A i \in 1..Len(mailbox) + 1 : i \in 1..Len(mailbox) \/ i = Len(mailbox) + 1
    BY <1>2 DEF TypeOK
  <2>. QED BY <2>1 DEF CompleteInv
<1>. QED BY <1>1, <1>2 DEF Deliver

LEMMA OutsideComplete ==
  ASSUME TypeOK, CompleteInv, Outside
  PROVE  CompleteInv'
<1>1. handling' = handling
  BY OutsideMoves
<1>2. CASE mailbox' = mailbox /\ Complete(step'.message)
  BY <1>1, <1>2 DEF CompleteInv
<1>3. CASE ClientNext
  <2>1. step' = step
    BY <1>3
       DEF ClientNext, ClientSubmits, ClientCancels, ClientSetsPrompt, ClientCloses
  <2>2. mailbox' = mailbox \/ \E m : Deliver(m) /\ ReportComplete(m)
    BY <1>3, OtherMessages
       DEF ClientNext, ClientSubmits, ClientCancels, ClientSetsPrompt, ClientCloses
  <2>. QED BY <1>1, <2>1, <2>2, DeliverComplete DEF CompleteInv
<1>4. CASE TaskNext
  <2>1. step' = step
    BY <1>4
       DEF TaskNext, FinishContextHooks, FinishBeforeToolUse, FinishTool,
           FinishAfterToolUse, TaskVars
  <2>2. \E m : Deliver(m) /\ ReportComplete(m)
    BY <1>4, OtherMessages
       DEF TaskNext, FinishContextHooks, FinishBeforeToolUse, FinishTool,
           FinishAfterToolUse
  <2>. QED BY <1>1, <2>1, <2>2, DeliverComplete DEF CompleteInv
<1>5. CASE StepStarts \/ StepForwardsDelta
  <2>1. step'.message = step.message
    BY <1>5 DEF StepStarts, StepForwardsDelta, TypeOK, Steps
  <2>2. \E m : Deliver(m) /\ ReportComplete(m)
    BY <1>5, OtherMessages DEF StepStarts, StepForwardsDelta
  <2>. QED BY <1>1, <2>1, <2>2, DeliverComplete DEF CompleteInv
<1>6. CASE StepTakesDone
  <2>1. \E n : step'.message = Message(n)
    BY <1>6 DEF StepTakesDone, TypeOK, Steps
  <2>. QED BY <1>2, <1>6, <2>1, StepMessagesComplete DEF StepTakesDone
<1>7. CASE StepBreaks \/ StreamNext
  <2>1. mailbox' = mailbox
    BY <1>7 DEF StepBreaks, StreamNext, StreamProgresses, StreamTerminates, StreamEnds, Pump
  <2>2. step'.message = step.message
    BY <1>7
       DEF StepBreaks, StreamNext, StreamProgresses, StreamTerminates, StreamEnds, Pump,
           TypeOK, Steps
  <2>. QED BY <1>2, <2>1, <2>2 DEF CompleteInv
<1>8. CASE StepStops
  <2>1. ReportComplete(StepFinished(step.id, step.reason, step.message))
    BY DEF ReportComplete, StepFinished, CompleteInv
  <2>. QED
    BY <1>1, <1>8, <2>1, DeliverComplete, StepMessagesComplete DEF StepStops
<1>9. CASE UNCHANGED vars
  BY <1>9 DEF vars, CompleteInv
<1>. QED
  BY <1>3, <1>4, <1>5, <1>6, <1>7, <1>8, <1>9 DEF Outside, StepNext

LEMMA NextComplete ==
  ASSUME TypeOK, CompleteInv, [Next]_vars
  PROVE  CompleteInv'
<1>1. CASE OnStart
  BY <1>1 DEF OnStart, CompleteInv
<1>2. CASE OnStop
  <2>1. mailbox' = <<>> /\ handling' = handling /\ step' = step
    BY <1>2 DEF OnStop
  <2>. QED BY <2>1 DEF CompleteInv
<1>3. CASE Receive
  <2>1. /\ handling' = mailbox[1] /\ 1 \in 1..Len(mailbox) /\ step' = step
        /\ Len(mailbox') = Len(mailbox) - 1
        /\ \A i \in 1..Len(mailbox) - 1 :
             mailbox'[i] = mailbox[i + 1] /\ i + 1 \in 1..Len(mailbox)
    BY <1>3 DEF Receive, TypeOK
  <2>. QED BY <2>1 DEF CompleteInv
<1>4. CASE Handlers
  <2>1. handling' = Nothing /\ mailbox' = mailbox
    BY <1>4
       DEF Handlers, Handle, HandleSubmitInput, HandleSetSystemPrompt, HandleCancel,
           HandleStepEvent, HandleLive, HandleContextPrepared, HandleStepFinished,
           HandleToolInputPrepared, HandleToolFinished, HandleToolResultFinalized
  <2>2. \/ step'.message = step.message
        \/ \E s, c : step' = NewStep(s, c)
    BY <1>4
       DEF Handlers, HandleSubmitInput, HandleSetSystemPrompt, HandleCancel, CancelStep,
           HandleStepEvent, HandleLive, HandleContextPrepared, HandleStepFinished,
           HandleToolInputPrepared, HandleToolFinished, HandleToolResultFinalized,
           TypeOK, Steps
  <2>. QED BY <2>1, <2>2, OtherMessages, StepMessagesComplete DEF CompleteInv
<1>. QED BY <1>1, <1>2, <1>3, <1>4, OutsideComplete, StepKinds

-----------------------------------------------------------------------------
(* While a step lives, no tool runs; also after the session actor stopped. *)

LiveStreams == step.status # "finished" => turn.phase = "Streaming"

LEMMA LiveStreamsNow == TypeOK /\ InFlight => LiveStreams
BY LiveStep DEF LiveStreams

LEMMA NextLiveStreams ==
  ASSUME TypeOK, ActorInv, OneCompletionInFlight, LiveStreams, [Next]_vars,
         TypeOK', OneCompletionInFlight', (TypeOK /\ InFlight => LiveStreams)'
  PROVE  LiveStreams'
<1>1. CASE actor' # "stopped"
  BY <1>1 DEF OneCompletionInFlight, InFlight
<1>2. CASE OnStop
  BY <1>2 DEF OnStop, LiveStreams, turnVars
<1>3. CASE Outside
  <2>1. turn' = turn
    BY <1>3, OutsideMoves
  <2>2. step'.status # "finished" => step.status # "finished"
    BY <1>3
       DEF Outside, ClientNext, ClientSubmits, ClientCancels, ClientSetsPrompt,
           ClientCloses, TaskNext, FinishContextHooks, FinishBeforeToolUse, FinishTool,
           FinishAfterToolUse, TaskVars, StepNext, StepStarts, StepForwardsDelta,
           StepTakesDone, StepReceives, StepBreaks, StepStops, FinishedStep, NewStep,
           StreamNext, StreamProgresses, StreamTerminates, StreamEnds, Pump, vars,
           TypeOK, Steps
  <2>. QED BY <2>1, <2>2 DEF LiveStreams
<1>4. OnStart \/ Receive \/ Handlers => actor' # "stopped"
  BY HandlerRuns DEF OnStart, Receive
<1>. QED BY <1>1, <1>2, <1>3, <1>4, StepKinds

-----------------------------------------------------------------------------

ConversesInv == CompleteInv /\ LiveStreams /\ Converses(log, turn)

LEMMA InitConverses == Init => ConversesInv
<1>. SUFFICES ASSUME Init PROVE ConversesInv
  OBVIOUS
<1>1. MessagesOf(log) = <<>> /\ turn = Idle
  BY DEF Init, EmptyLog, MessagesOf
<1>2. CompleteInv
  <2>1. mailbox = <<>> /\ handling = Nothing /\ step = FinishedStep(0)
    BY DEF Init
  <2>. QED BY <2>1, OtherMessages, StepMessagesComplete DEF CompleteInv
<1>3. LiveStreams
  BY DEF Init, LiveStreams, FinishedStep, NewStep
<1>. QED BY <1>1, <1>2, <1>3, NoMessages, TurnFields DEF Converses, ConversesInv

LEMMA NextConverses ==
  ASSUME StreamInv, ConversesInv, [Next]_vars
  PROVE  Converses(log', turn')
<1>. USE DEF StreamInv, ConversesInv
<1>1. log \in Logs
  BY DEF TypeOK
<1>2. CASE turn' = turn /\ MessagesOf(log') = MessagesOf(log)
  BY <1>2 DEF Converses, Batch
<1>3. CASE OnStart \/ OnStop
  BY <1>1, <1>2, <1>3, OtherCommits DEF OnStart, OnStop, turnVars
<1>4. CASE Receive
  BY <1>2, <1>4 DEF Receive, turnVars
<1>5. CASE Outside
  BY <1>2, <1>5, OutsideMoves
<1>6. CASE Handlers
  <2>1. InFlight /\ StreamOrder
    BY <1>6, HandlerRuns DEF OneCompletionInFlight, InFlight, StreamOrderInv
  <2>2. handling.type = "StepFinished" => Complete(handling.message)
    BY DEF CompleteInv, ReportComplete
  <2>. QED BY <1>6, <2>1, <2>2, HandlersConverse
<1>. QED BY <1>3, <1>4, <1>5, <1>6, StepKinds

(***************************************************************************)
(* Every context that goes to the provider is a conversation it accepts,   *)
(* and so is what a turn leaves behind, however it ended: by its last      *)
(* message, an error, a cancel or the close of the session; harness.rs     *)
(* commits a result for every call of an assistant message, once, before   *)
(* anything else enters the conversation.                                  *)
(***************************************************************************)
THEOREM ConversationStaysWellFormed == Spec => []ConversationWellFormed
<1>1. Init => StreamInv /\ ConversesInv
  BY InitStream, InitConverses
<1>2. StreamInv /\ ConversesInv /\ [Next]_vars /\ (TypeOK /\ InFlight => LiveStreams)'
        => (StreamInv /\ ConversesInv)'
  <2>. SUFFICES ASSUME StreamInv, ConversesInv, [Next]_vars,
                       (TypeOK /\ InFlight => LiveStreams)'
                PROVE  StreamInv' /\ ConversesInv'
    OBVIOUS
  <2>1. StreamInv'
    BY NextStream
  <2>2. CompleteInv' /\ LiveStreams'
    BY <2>1, NextComplete, NextLiveStreams DEF StreamInv, ConversesInv
  <2>3. Converses(log', turn')
    BY NextConverses
  <2>. QED BY <2>1, <2>2, <2>3 DEF ConversesInv
<1>3. StreamInv /\ ConversesInv /\ SnapshotIsFresh => ConversationWellFormed
  <2>. SUFFICES ASSUME StreamInv, ConversesInv, SnapshotIsFresh
                PROVE  ConversationWellFormed
    OBVIOUS
  <2>1. MessagesOf(log) = ConversationMessages /\ ConversationMessages \in Seq(Messages)
    BY LoggedMessages DEF StreamInv, TypeOK, MessagesOf, ConversationMessages
  <2>2. turn.phase # "RunningTools" => WellFormed(ConversationMessages)
    BY <2>1 DEF ConversesInv, Converses
  <2>3. ASSUME step.status # "finished" PROVE WellFormed(step.context.messages)
    <3>1. UserMessage(Hints) \in Messages /\ UserMessage(Hints).role = "user"
      BY DEF UserMessage, Messages, Hints
    <3>2. WellFormed(ConversationMessages)
      BY <2>2, <2>3 DEF ConversesInv, LiveStreams
    <3>3. WellFormed(Append(ConversationMessages, UserMessage(Hints)))
      BY <2>1, <3>1, <3>2, PlainMessage
    <3>. QED BY <2>3, <3>3 DEF SnapshotIsFresh
  <2>. QED BY <2>2, <2>3 DEF ConversationWellFormed
<1>. QED BY <1>1, <1>2, <1>3, LiveStreamsNow, SnapshotsAreFresh, PTL DEF Spec
==============================================================================
