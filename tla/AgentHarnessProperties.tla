----------------------- MODULE AgentHarnessProperties -----------------------
(***************************************************************************)
(* The properties of AgentHarness that need the history of a session: its  *)
(* event log, its conversation and what its subscribers see.               *)
(***************************************************************************)
EXTENDS AgentHarness, SequencesExt

ConversationMessages == log.conversation.messages

-----------------------------------------------------------------------------
(***************************************************************************)
(* The protocol of the durable log, as the state a reader of the log is in *)
(* after replaying it: the open turn, the open step, the last step and the *)
(* invocations without a result; valid says that every event came when it  *)
(* may come.                                                               *)
(***************************************************************************)
EmptyReplay == [valid |-> TRUE, session |-> "new", turn |-> 0, turns |-> 0,
                open |-> 0, last |-> 0, pending |-> NoPending]

\* No step is open and every proposed call has its result.
Settled(r) == r.open = 0 /\ r.pending = NoPending

MayFollow(r, e) ==
  CASE e.type = "SessionStarted" -> r.session = "new"
    [] e.type = "SessionEnded" -> r.session = "started"
    [] e.type = "AgentTurnStarted" ->
         r.session = "started" /\ r.turn = 0 /\ e.turn = r.turns + 1
    [] e.type = "UserMessageCommitted" -> r.turn # 0 /\ Settled(r)
    [] e.type = "ModelStepStarted" ->
         r.turn # 0 /\ Settled(r) /\ e.step = r.last + 1
    [] e.type = "ModelStepEnded" -> r.open = e.step
    [] e.type = "ToolCallProposed" ->
         /\ r.turn = e.inv.turn /\ r.open = 0 /\ r.last = e.inv.step
         /\ e.inv \notin DOMAIN r.pending
    [] e.type = "ToolExecutionRequested" ->
         e.inv \in DOMAIN r.pending /\ r.pending[e.inv] = "Proposing"
    [] e.type = "ToolExecutionObserved" ->
         e.inv \in DOMAIN r.pending /\ r.pending[e.inv] = "Executing"
    [] e.type = "ToolResultReceived" ->
         /\ e.inv \in DOMAIN r.pending
         /\ r.pending[e.inv] \in {"Proposing", "Finalized"}
         /\ e.outcome = "ExecSuccess" => r.pending[e.inv] = "Finalized"
    [] e.type = "AgentTurnEnded" -> r.turn = e.turn /\ Settled(r)
    [] e.type = "SystemPromptSet" -> r.session = "started"
    [] e.type = "ErrorOccurred" -> r.turn # 0

WithState(pending, k, state) ==
  [j \in DOMAIN pending \cup {k} |-> IF j = k THEN state ELSE pending[j]]

ReadEvent(r, e) ==
  CASE e.type = "SessionStarted" -> [r EXCEPT !.session = "started"]
    [] e.type = "SessionEnded" -> [r EXCEPT !.session = "ended"]
    [] e.type = "AgentTurnStarted" ->
         [r EXCEPT !.turn = e.turn, !.turns = e.turn]
    [] e.type = "AgentTurnEnded" -> [r EXCEPT !.turn = 0]
    [] e.type = "ModelStepStarted" ->
         [r EXCEPT !.open = e.step, !.last = e.step]
    [] e.type = "ModelStepEnded" -> [r EXCEPT !.open = 0]
    [] e.type = "ToolCallProposed" ->
         [r EXCEPT !.pending = WithState(@, e.inv, "Proposing")]
    [] e.type = "ToolExecutionRequested" ->
         [r EXCEPT !.pending = WithState(@, e.inv, "Executing")]
    [] e.type = "ToolExecutionObserved" ->
         [r EXCEPT !.pending = WithState(@, e.inv, "Finalized")]
    [] e.type = "ToolResultReceived" ->
         [r EXCEPT !.pending = WithoutInvocation(@, e.inv)]
    [] OTHER -> r

ReplayEvent(r, e) ==
  [ReadEvent(r, e) EXCEPT !.valid = @ /\ MayFollow(r, e)]

\* The states of a reader, from before the first event to after the last.
Readings(events) ==
  LET at[i \in 0..Len(events)] ==
        IF i = 0 THEN EmptyReplay ELSE ReplayEvent(at[i - 1], events[i])
  IN at

Replay(events) == Readings(events)[Len(events)]

(***************************************************************************)
(* The log is a well-formed history and the turn can be read off it: turns *)
(* do not overlap, steps do not overlap, each proposed call is requested,  *)
(* observed and answered at most once and in this order, a turn never ends *)
(* or goes on with a call unanswered, nothing follows SessionEnded, and    *)
(* the open turn and its pending invocations are those of TurnState.       *)
(***************************************************************************)
LogReplaysToTurn ==
  LET r == Replay(log.events) IN
  /\ r.valid
  /\ r.turn = turn.id /\ r.turns = turns
  /\ r.pending = turn.pending
  /\ r.open # 0 => turn.phase = "Streaming" /\ r.open = turn.step

(***************************************************************************)
(* A conversation a provider accepts: each assistant message is followed   *)
(* at once by one result for each of its tool calls, and results appear    *)
(* nowhere else.                                                           *)
(***************************************************************************)
IsResultOf(m, s) == m.role = "toolResult" /\ m.inv.step = s

WellFormed(ms) ==
  /\ \A i \in DOMAIN ms : ms[i].role = "assistant" =>
       /\ i + ms[i].calls <= Len(ms)
       /\ {c \in 1..ms[i].calls :
             \E j \in i + 1..i + ms[i].calls :
               IsResultOf(ms[j], ms[i].step) /\ ms[j].inv.call = c}
            = 1..ms[i].calls
  /\ \A j \in DOMAIN ms : ms[j].role = "toolResult" =>
       \E i \in 1..j - 1 : /\ ms[i].role = "assistant"
                           /\ IsResultOf(ms[j], ms[i].step)
                           /\ j <= i + ms[i].calls

(***************************************************************************)
(* Every context that goes to the provider is such a conversation, and so  *)
(* is what a turn leaves behind, however it ended: only the turn that runs *)
(* tools has calls without a result.                                       *)
(***************************************************************************)
ConversationWellFormed ==
  /\ step.status # "finished" => WellFormed(step.context.messages)
  /\ turn.phase # "RunningTools" => WellFormed(ConversationMessages)

(***************************************************************************)
(* The snapshot a step streams from is not stale: while it runs, it is     *)
(* still the conversation, with the hooks' hints behind it.                *)
(***************************************************************************)
SnapshotIsFresh ==
  step.status # "finished" =>
    step.context.messages = Append(ConversationMessages, UserMessage(Hints))

(***************************************************************************)
(* Inputs are committed once each, in the order they were submitted, each  *)
(* as the input of a turn of its own: the log has those of the turns so    *)
(* far, the queue the next ones, the mailbox the last ones the client sent,*)
(* and none is left queued by an idle session.                             *)
(***************************************************************************)
IsInput(e) == e.type = "UserMessageCommitted" /\ e.input # Hints
IsSubmission(m) == m.type = "SubmitInput"

InputsInOrder ==
  LET committed == {i \in DOMAIN log.events : IsInput(log.events[i])}
      submitted == {i \in DOMAIN Transit : IsSubmission(Transit[i])}
  IN actor # "stopped" =>
       /\ \A i, j \in committed : i < j => log.events[i].input < log.events[j].input
       /\ {log.events[i].input : i \in committed} = 1..turns
       /\ queue = [i \in 1..Len(queue) |-> turns + i]
       /\ \A i, j \in submitted : i < j => Transit[i].input < Transit[j].input
       /\ {Transit[i].input : i \in submitted} = turns + Len(queue) + 1..sent.inputs
       /\ turn.phase = "Idle" => queue = <<>>

(***************************************************************************)
(* Subscribers see a step's progress between its ModelStepStarted and its  *)
(* ModelStepEnded (agent_step.rs routes both through one mailbox).         *)
(***************************************************************************)
ProgressWithinStep ==
  \A i \in DOMAIN log.feed : log.feed[i].type = "StepProgress" =>
    LET s == log.feed[i].step
        before == {log.feed[j] : j \in 1..i - 1}
    IN /\ ModelStepStarted(s) \in before
       /\ \A e \in before : e.type = "ModelStepEnded" => e.step # s

-----------------------------------------------------------------------------
(* Liveness, under the fairness of AgentHarness. *)

\* Unless the client closes the session, every input's turn ends.
EveryInputAnswered ==
  \A i \in 1..MaxInputs :
    sent.inputs >= i ~> \/ AgentTurnEnded(i) \in Range(log.events)
                        \/ client = "closed"

\* close() returns, and the hooks, tools and the step it leaves end too.
CloseStops ==
  shutdown ~> actor = "stopped" /\ tasks = {} /\ step.status = "finished"

-----------------------------------------------------------------------------
(* What the repository says and the code does not do. *)

(***************************************************************************)
(* main.rs on Ctrl+C: the first one cancels the turn.  Then a turn that    *)
(* has handled a Cancel starts no further tool and prepares no further     *)
(* step.                                                                   *)
(***************************************************************************)
CancelStopsTurn ==
  [][\A t \in cancelRequested : turn.id = t /\ turn'.id = t =>
       /\ turn'.phase = "PreparingContext" => turn.phase = "PreparingContext"
       /\ \A k \in DOMAIN turn'.pending : turn'.pending[k] = "Executing" =>
            k \in DOMAIN turn.pending /\ turn.pending[k] = "Executing"]_vars

(***************************************************************************)
(* main.rs again: the cancelled turn ends normally.  Then a Cancel that is *)
(* being handled while a step streams leads to the end of that step,       *)
(* unless the caller closes the session, whose turn is then left as it is. *)
(***************************************************************************)
CancelEndsStep ==
  handling = Cancel /\ turn.phase = "Streaming" ~>
    turn.phase # "Streaming" \/ client = "closed"

(***************************************************************************)
(* events.rs and event_log.rs: the conversation sent to the model is       *)
(* exactly what the projection of the durable events contains.             *)
(***************************************************************************)
ContextIsProjection ==
  step.status # "finished" => step.context.messages = ConversationMessages
=============================================================================
