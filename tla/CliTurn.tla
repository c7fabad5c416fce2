------------------------------ MODULE CliTurn ------------------------------
(***************************************************************************)
(* The CLI around a session (crates/knuth-cli/src/main.rs): the loop that  *)
(* reads a line, submits it and renders the session's events until the     *)
(* turn ends, with Ctrl+C, a subscription that may be dropped and spinners *)
(* on the screen.  The session is AgentHarness, by what the loop sees.     *)
(***************************************************************************)
EXTENDS Integers, Sequences, FiniteSets

CONSTANTS
  Calls,          \* ids of tool calls
  Lines,          \* bound: how many lines the user may enter
  MaxEvents,      \* bound: events of a turn before its last
  Mailbox,        \* places in the session's mailbox
  Buffer          \* places in the subscription (SUBSCRIPTION_BUFFER)

ASSUME TurnAssumption ==
  Lines \cup {MaxEvents, Mailbox, Buffer} \subseteq Nat /\ Mailbox > 0

VARIABLES
  at,             \* where the program is
  oneshot,        \* is it run with --input?
  lines,          \* how many lines the user enters
  input,          \* the number of the last line submitted
  cancelRequested, \* run_turn's flag
  pressed,        \* a Ctrl+C the select! has not taken
  presses,        \* inputs during whose turn a Ctrl+C was taken
  thinking,       \* CliRenderer: is there a spinner for thinking?
  tools,          \* CliRenderer: calls with a spinner
  foreign,        \* did a turn render an event of another?
  mailbox,        \* of the session: inputs, and "cancel"
  turn,           \* the session's turn, or 0
  emitted,        \* events of that turn so far
  cancelled,      \* inputs whose turn a Cancel reached
  subscription,   \* events on their way to the CLI
  subscribed      \* FALSE: the session dropped it

cliVars == <<at, oneshot, lines, input, cancelRequested, pressed, presses,
             thinking, tools, foreign>>
sessionVars == <<mailbox, turn, emitted, cancelled, subscription, subscribed>>
turnVars == <<cliVars, sessionVars>>

\* "asking" is submit_input, "cancelling" the send of a Cancel, each awaited.
Ats == {"loading", "prompt", "asking", "turn", "cancelling", "closing",
        "closed", "bailed", "quit"}
Over == {"closed", "bailed", "quit"}

\* Messages to the session, and events by what the renderer does.
Cancel == [op |-> "cancel", input |-> 0]
Input(n) == [op |-> "input", input |-> n]
Event(of, kind, calls) == [turn |-> of, kind |-> kind, calls |-> calls]
Events(of) ==
  {Event(of, kind, {}) : kind \in {"thinking", "thought", "other"}}
  \cup {Event(of, kind, {c}) : kind \in {"started", "ended"}, c \in Calls}
TurnEnded(of) == Event(of, "turn_ended", {})

TurnInit ==
  /\ at = "loading" /\ oneshot \in BOOLEAN /\ lines \in Lines
  /\ input = 0 /\ cancelRequested = FALSE /\ pressed = FALSE /\ presses = {}
  /\ thinking = FALSE /\ tools = {} /\ foreign = FALSE
  /\ mailbox = <<>> /\ turn = 0 /\ emitted = 0 /\ cancelled = {}
  /\ subscription = <<>> /\ subscribed = TRUE

----------------------------------------------------------------------------
\* The loop.  oneshot submits its one input and then closes.
Submit ==
  /\ at = "prompt" /\ input < lines /\ (oneshot => input = 0)
  /\ Len(mailbox) < Mailbox
  /\ input' = input + 1 /\ mailbox' = Append(mailbox, Input(input + 1))
  /\ at' = "asking"
  /\ UNCHANGED <<oneshot, lines, cancelRequested, pressed, presses, thinking,
                 tools, foreign, turn, emitted, cancelled, subscription,
                 subscribed>>

\* The session has answered: run_turn begins with a renderer of its own.
BeginTurn ==
  /\ at = "asking" /\ Input(input) \notin {mailbox[i] : i \in 1..Len(mailbox)}
  /\ at' = "turn" /\ cancelRequested' = FALSE /\ pressed' = FALSE
  /\ thinking' = FALSE /\ tools' = {}
  /\ UNCHANGED <<oneshot, lines, input, presses, foreign, sessionVars>>

\* Ctrl+C and Ctrl+D at the prompt, and the end of oneshot.
Close ==
  /\ at = "prompt" /\ (oneshot => input > 0 \/ lines = 0)
  /\ at' = "closing"
  /\ UNCHANGED <<oneshot, lines, input, cancelRequested, pressed, presses,
                 thinking, tools, foreign, sessionVars>>

\* close() awaits the actor's task, and that the handler it is in.
Closed ==
  /\ at = "closing"
  /\ at' = "closed" /\ turn' = 0 /\ mailbox' = <<>>
  /\ UNCHANGED <<oneshot, lines, input, cancelRequested, pressed, presses,
                 thinking, tools, foreign, emitted, cancelled, subscription,
                 subscribed>>

----------------------------------------------------------------------------
\* run_turn's select!.  The signal is listened to while it waits: one that
\* comes at another time, or that an event wins against, is lost, as each
\* round listens anew.
Press ==
  /\ at = "turn" /\ ~pressed
  /\ pressed' = TRUE
  /\ UNCHANGED <<at, oneshot, lines, input, cancelRequested, presses, thinking,
                 tools, foreign, sessionVars>>

\* The first one cancels, a second one quits.
TakeCtrlC ==
  /\ at = "turn" /\ pressed
  /\ pressed' = FALSE /\ cancelRequested' = TRUE
  /\ at' = IF cancelRequested THEN "quit" ELSE "cancelling"
  /\ presses' = IF cancelRequested THEN presses ELSE presses \cup {input}
  /\ UNCHANGED <<oneshot, lines, input, thinking, tools, foreign, sessionVars>>

\* cancel_current_turn waits for room; nothing is rendered until then.
SendCancel ==
  /\ at = "cancelling" /\ Len(mailbox) < Mailbox
  /\ mailbox' = Append(mailbox, Cancel) /\ at' = "turn"
  /\ UNCHANGED <<oneshot, lines, input, cancelRequested, pressed, presses,
                 thinking, tools, foreign, turn, emitted, cancelled,
                 subscription, subscribed>>

\* CliRenderer: render_live and render_durable.
Render(e) ==
  /\ thinking' = IF e.kind \in {"thinking", "thought"} THEN e.kind = "thinking"
                 ELSE thinking
  /\ tools' = CASE e.kind = "started" -> tools \cup e.calls
                [] e.kind = "ended"   -> tools \ e.calls
                [] OTHER              -> tools

\* Drop for CliRenderer: whatever spins is cleared, however run_turn ends.
\* MUTANT: the spinners of tools that never reported stay.
DropRendererThinking == thinking' = FALSE /\ UNCHANGED tools
DropRenderer == thinking' = FALSE /\ tools' = {}

TakeEvent ==
  /\ at = "turn" /\ subscription # <<>>
  /\ LET e == Head(subscription) IN
     /\ subscription' = Tail(subscription)
     /\ foreign' = (foreign \/ e.turn # input)
     /\ IF e = TurnEnded(e.turn) THEN at' = "prompt" /\ DropRenderer
        ELSE UNCHANGED at /\ Render(e)
  /\ pressed' = FALSE
  /\ UNCHANGED <<oneshot, lines, input, cancelRequested, presses, mailbox, turn,
                 emitted, cancelled, subscribed>>

\* A subscription that was dropped ends, and so does the program.
\* MUTANT: the loop waits for an event that cannot come.
TakeEndAndGoOn ==
  /\ at = "turn" /\ subscription = <<>> /\ ~subscribed
  /\ pressed' = FALSE
  /\ UNCHANGED <<at, oneshot, lines, input, cancelRequested, presses, thinking,
                 tools, foreign, sessionVars>>
TakeEnd ==
  /\ at = "turn" /\ subscription = <<>> /\ ~subscribed
  /\ at' = "bailed" /\ DropRenderer /\ pressed' = FALSE
  /\ UNCHANGED <<oneshot, lines, input, cancelRequested, presses, foreign,
                 sessionVars>>

Loop == Submit \/ BeginTurn \/ Close \/ Closed \/ TakeCtrlC \/ SendCancel
        \/ TakeEvent \/ TakeEnd

----------------------------------------------------------------------------
\* The session.  Events go out without waiting: a subscription that is full
\* is dropped (event_log.rs: notify_subscriptions).
Emit(e) ==
  /\ subscription' = IF subscribed /\ Len(subscription) < Buffer
                     THEN Append(subscription, e) ELSE subscription
  /\ subscribed' = (subscribed /\ Len(subscription) < Buffer)

SessionTakes ==
  /\ at \notin Over /\ mailbox # <<>>
  /\ LET m == Head(mailbox) IN
     IF m = Cancel
     THEN /\ cancelled' = IF turn = 0 THEN cancelled ELSE cancelled \cup {turn}
          /\ UNCHANGED <<turn, emitted>>
     ELSE turn = 0 /\ turn' = m.input /\ emitted' = 0 /\ UNCHANGED cancelled
  /\ mailbox' = Tail(mailbox)
  /\ UNCHANGED <<cliVars, subscription, subscribed>>

\* A turn that is cancelled may leave calls without an end.
SessionEmits ==
  /\ at \notin Over /\ turn # 0 /\ emitted < MaxEvents
  /\ \E e \in Events(turn) : Emit(e)
  /\ emitted' = emitted + 1
  /\ UNCHANGED <<cliVars, mailbox, turn, cancelled>>

SessionEndsTurn ==
  /\ at \notin Over /\ turn # 0
  /\ Emit(TurnEnded(turn))
  /\ turn' = 0 /\ emitted' = 0
  /\ UNCHANGED <<cliVars, mailbox, cancelled>>

Session == SessionTakes \/ SessionEmits \/ SessionEndsTurn

TurnNext == Loop \/ Press \/ Session

----------------------------------------------------------------------------
\* One turn does not reach into another.  A Ctrl+C cancels the turn it was
\* pressed in or none, though the Cancel it sends names no turn
\* (harness.rs:1217); each turn renders its own events; at the prompt nothing
\* spins, whichever calls never reported (main.rs: Drop for CliRenderer).
TurnsStayApart ==
  /\ cancelled \subseteq presses
  /\ ~foreign
  /\ at \in {"prompt", "closing", "closed", "bailed"} => ~thinking /\ tools = {}

\* Every input comes back to the prompt or ends the program: also when the
\* subscription was dropped, and when the turn is cancelled.
InputReturns ==
  at \in {"asking", "turn", "cancelling"} ~> at \in {"prompt"} \cup Over
===========================================================================
