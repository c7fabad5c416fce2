---------------------------- MODULE SessionEvents ----------------------------
(***************************************************************************)
(* The durable events of a session (knuth-core, events.rs), the live ones  *)
(* (live.rs), and what EventLog.commit does with an event (knuth-agent,    *)
(* event_log.rs): store it, project it onto the conversation, publish it.  *)
(*                                                                         *)
(* Payloads are abstracted to what decides the control: an input is its    *)
(* number, an assistant message is the number of tool calls it asks for.   *)
(* StepId and Generation are minted together (harness.rs, next_step_id)    *)
(* and never apart, so one number stands for both; an invocation is the    *)
(* ToolInvocationKey, whose invocation_id is fresh for each call of a step.*)
(***************************************************************************)
EXTENDS Naturals, Sequences, TLAPS

Outcomes == {"ExecSuccess", "PolicyDenied", "Cancelled", "Error"}
DoneReasons == {"Success", "Length", "ToolUse"}
StepReasons == DoneReasons \cup {"Error", "Cancelled"}

\* The content of the user message that carries the hooks' hints.
Hints == 0

(* Option<AssistantMessage>: None, or a message with n tool calls. *)
AssistantMessages == [present: BOOLEAN, calls: Nat]
NoMessage == [present |-> FALSE, calls |-> 0]
Message(n) == [present |-> TRUE, calls |-> n]

(* ToolInvocationKey: the c-th call of step s of turn t. *)
Invocations == [turn: Nat, step: Nat, call: Nat]
Invocation(t, s, c) == [turn |-> t, step |-> s, call |-> c]

-----------------------------------------------------------------------------
(* AgentEvent, one constructor per variant that the harness commits. *)
SessionStarted == [type |-> "SessionStarted"]
SessionEnded == [type |-> "SessionEnded"]
AgentTurnStarted(t) == [type |-> "AgentTurnStarted", turn |-> t]
AgentTurnEnded(t) == [type |-> "AgentTurnEnded", turn |-> t]
UserMessageCommitted(i) == [type |-> "UserMessageCommitted", input |-> i]
SystemPromptSet(p) == [type |-> "SystemPromptSet", prompt |-> p]
ModelStepStarted(s) == [type |-> "ModelStepStarted", step |-> s]
ModelStepEnded(s, r, m) ==
  [type |-> "ModelStepEnded", step |-> s, reason |-> r, message |-> m]
ToolCallProposed(k) == [type |-> "ToolCallProposed", inv |-> k]
ToolExecutionRequested(k) == [type |-> "ToolExecutionRequested", inv |-> k]
ToolExecutionObserved(k) == [type |-> "ToolExecutionObserved", inv |-> k]
ToolResultReceived(k, o) ==
  [type |-> "ToolResultReceived", inv |-> k, outcome |-> o]
ErrorOccurred == [type |-> "ErrorOccurred"]

(* LiveEvent: progress of a step, start and end of a tool's execution. *)
StepProgress(s) == [type |-> "StepProgress", step |-> s]
ToolExecutionStarted(k) == [type |-> "ToolExecutionStarted", inv |-> k]
ToolExecutionEnded(k) == [type |-> "ToolExecutionEnded", inv |-> k]

Events ==
       [type: {"SessionStarted", "SessionEnded", "ErrorOccurred"}]
  \cup [type: {"AgentTurnStarted", "AgentTurnEnded"}, turn: Nat]
  \cup [type: {"UserMessageCommitted"}, input: Nat]
  \cup [type: {"SystemPromptSet"}, prompt: Nat]
  \cup [type: {"ModelStepStarted"}, step: Nat]
  \cup [type: {"ModelStepEnded"}, step: Nat, reason: StepReasons,
        message: AssistantMessages]
  \cup [type: {"ToolCallProposed", "ToolExecutionRequested",
               "ToolExecutionObserved"}, inv: Invocations]
  \cup [type: {"ToolResultReceived"}, inv: Invocations, outcome: Outcomes]

LiveEvents ==
       [type: {"StepProgress"}, step: Nat]
  \cup [type: {"ToolExecutionStarted", "ToolExecutionEnded"}, inv: Invocations]

-----------------------------------------------------------------------------
(* The conversation: the messages the projection keeps. *)
UserMessage(i) == [role |-> "user", input |-> i]
AssistantMessage(s, n) == [role |-> "assistant", step |-> s, calls |-> n]
ToolResultMessage(k, e) == [role |-> "toolResult", inv |-> k, error |-> e]

Messages ==
       [role: {"user"}, input: Nat]
  \cup [role: {"assistant"}, step: Nat, calls: Nat]
  \cup [role: {"toolResult"}, inv: Invocations, error: BOOLEAN]

(* The model's context: assemble_context's snapshot of the conversation. *)
Contexts == [messages: Seq(Messages), prompt: Nat]

\* MUTANT: whatever the reason a step ended for, its message counts.
AnyMessageEnters(e) == e.type = "ModelStepEnded" /\ e.message.present

(***************************************************************************)
(* ConversationState::apply_event: an assistant message enters the         *)
(* conversation only when its step ended with a Done reason.               *)
(***************************************************************************)
AssistantEnters(e) ==
  e.type = "ModelStepEnded" /\ e.message.present /\ e.reason \in DoneReasons

ApplyEvent(conversation, e) ==
  CASE AssistantEnters(e) ->
         [conversation EXCEPT !.messages =
            Append(@, AssistantMessage(e.step, e.message.calls))]
    [] e.type = "UserMessageCommitted" ->
         [conversation EXCEPT !.messages = Append(@, UserMessage(e.input))]
    [] e.type = "ToolResultReceived" ->
         [conversation EXCEPT !.messages =
            Append(@, ToolResultMessage(e.inv, e.outcome # "ExecSuccess"))]
    [] e.type = "SystemPromptSet" ->
         [conversation EXCEPT !.prompt = e.prompt]
    [] OTHER -> conversation

(***************************************************************************)
(* EventLog: the stored events, the conversation they project to, and what *)
(* is published to subscribers, durable and live events in one order.      *)
(***************************************************************************)
Logs == [events: Seq(Events), conversation: Contexts,
         feed: Seq(Events \cup LiveEvents)]

EmptyLog ==
  [events |-> <<>>, conversation |-> [messages |-> <<>>, prompt |-> 0],
   feed |-> <<>>]

(* EventLog::commit, the only write path. *)
Commit(log, e) ==
  [events |-> Append(log.events, e),
   conversation |-> ApplyEvent(log.conversation, e),
   feed |-> Append(log.feed, e)]

(* EventLog::publish_live reaches the subscribers only. *)
PublishLive(log, e) == [log EXCEPT !.feed = Append(@, e)]

-----------------------------------------------------------------------------
(* What these operations preserve: an event of its type takes a log to a log, *)
(* its projection to a conversation. *)

LEMMA AppendMessage ==
  ASSUME NEW c \in Contexts, NEW m \in Messages
  PROVE  [c EXCEPT !.messages = Append(c.messages, m)] \in Contexts
BY DEF Contexts

\* apply_event turns a conversation into a conversation.
LEMMA ApplyEventType ==
  ASSUME NEW c \in Contexts, NEW e \in Events
  PROVE  ApplyEvent(c, e) \in Contexts
<1>1. CASE AssistantEnters(e)
  <2>1. AssistantMessage(e.step, e.message.calls) \in Messages
    <3>1. e.step \in Nat /\ e.message \in AssistantMessages
      BY <1>1 DEF AssistantEnters, Events
    <3>2. e.message.calls \in Nat
      BY <3>1 DEF AssistantMessages
    <3>. QED BY <3>1, <3>2 DEF AssistantMessage, Messages
  <2>2. ApplyEvent(c, e) = [c EXCEPT !.messages =
          Append(c.messages, AssistantMessage(e.step, e.message.calls))]
    BY <1>1 DEF ApplyEvent, AssistantEnters
  <2>. QED BY <2>1, <2>2, AppendMessage
<1>2. CASE e.type = "UserMessageCommitted"
  <2>1. UserMessage(e.input) \in Messages
    BY <1>2 DEF UserMessage, Messages, Events
  <2>2. ApplyEvent(c, e) = [c EXCEPT !.messages =
          Append(c.messages, UserMessage(e.input))]
    BY <1>2 DEF ApplyEvent, AssistantEnters
  <2>. QED BY <2>1, <2>2, AppendMessage
<1>3. CASE e.type = "ToolResultReceived"
  <2>1. ToolResultMessage(e.inv, e.outcome # "ExecSuccess") \in Messages
    BY <1>3 DEF ToolResultMessage, Messages, Events
  <2>2. ApplyEvent(c, e) = [c EXCEPT !.messages =
          Append(c.messages, ToolResultMessage(e.inv, e.outcome # "ExecSuccess"))]
    BY <1>3 DEF ApplyEvent, AssistantEnters
  <2>. QED BY <2>1, <2>2, AppendMessage
<1>4. CASE e.type = "SystemPromptSet"
  BY <1>4 DEF ApplyEvent, AssistantEnters, Events, Contexts
<1>5. CASE ~AssistantEnters(e) /\ e.type \notin {"UserMessageCommitted",
             "ToolResultReceived", "SystemPromptSet"}
  BY <1>5 DEF ApplyEvent
<1>. QED BY <1>1, <1>2, <1>3, <1>4, <1>5

LEMMA CommitType ==
  ASSUME NEW l \in Logs, NEW e \in Events
  PROVE  Commit(l, e) \in Logs
<1>1. e \in Events \cup LiveEvents /\ l.events \in Seq(Events)
        /\ l.feed \in Seq(Events \cup LiveEvents) /\ l.conversation \in Contexts
  BY DEF Logs
<1>2. /\ Append(l.events, e) \in Seq(Events)
      /\ Append(l.feed, e) \in Seq(Events \cup LiveEvents)
      /\ ApplyEvent(l.conversation, e) \in Contexts
  BY <1>1, ApplyEventType
<1>. QED BY <1>2 DEF Commit, Logs

LEMMA PublishLiveType ==
  ASSUME NEW l \in Logs, NEW e \in LiveEvents
  PROVE  PublishLive(l, e) \in Logs
<1>1. e \in Events \cup LiveEvents /\ l.feed \in Seq(Events \cup LiveEvents)
  BY DEF Logs
<1>2. Append(l.feed, e) \in Seq(Events \cup LiveEvents)
  BY <1>1
<1>. QED BY <1>2 DEF PublishLive, Logs

-----------------------------------------------------------------------------
(* The constructors build what they are named for. *)

LEMMA InvocationType ==
  ASSUME NEW t \in Nat, NEW s \in Nat, NEW c \in Nat
  PROVE  Invocation(t, s, c) \in Invocations
BY DEF Invocation, Invocations

LEMMA SessionEventTypes ==
  SessionStarted \in Events /\ SessionEnded \in Events /\ ErrorOccurred \in Events
BY DEF SessionStarted, SessionEnded, ErrorOccurred, Events

LEMMA TurnEventTypes ==
  ASSUME NEW n \in Nat
  PROVE  /\ AgentTurnStarted(n) \in Events /\ AgentTurnEnded(n) \in Events
         /\ UserMessageCommitted(n) \in Events /\ SystemPromptSet(n) \in Events
         /\ ModelStepStarted(n) \in Events /\ StepProgress(n) \in LiveEvents
BY DEF AgentTurnStarted, AgentTurnEnded, UserMessageCommitted, SystemPromptSet,
       ModelStepStarted, StepProgress, Events, LiveEvents

LEMMA ModelStepEndedType ==
  ASSUME NEW s \in Nat, NEW r \in StepReasons, NEW m \in AssistantMessages
  PROVE  ModelStepEnded(s, r, m) \in Events
BY DEF ModelStepEnded, Events

LEMMA InvocationEventTypes ==
  ASSUME NEW k \in Invocations
  PROVE  /\ ToolCallProposed(k) \in Events
         /\ ToolExecutionRequested(k) \in Events
         /\ ToolExecutionObserved(k) \in Events
         /\ \A o \in Outcomes : ToolResultReceived(k, o) \in Events
         /\ ToolExecutionStarted(k) \in LiveEvents
         /\ ToolExecutionEnded(k) \in LiveEvents
BY DEF ToolCallProposed, ToolExecutionRequested, ToolExecutionObserved,
       ToolResultReceived, ToolExecutionStarted, ToolExecutionEnded, Events,
       LiveEvents
=============================================================================
