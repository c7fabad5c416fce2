-------------------------------- MODULE Cli --------------------------------
(***************************************************************************)
(* The program (crates/knuth-cli/src/main.rs): one run loads its settings, *)
(* with the credentials other runs work on, builds a session and goes      *)
(* round its loop.                                                         *)
(***************************************************************************)
EXTENDS CodexAuth, CliTurn

CONSTANTS
  This            \* the process whose loop is modelled

ASSUME CliAssumption == This \in Processes

vars == <<authVars, turnVars>>

Init == AuthInit /\ TurnInit

\* main: UserSettings::load, then build_session, or an error.  build_session
\* reads files, and unwraps one of them.
Settled ==
  /\ at = "loading" /\ procs[This].at \in Ended
  /\ at' \in {"bailed"} \cup (IF procs[This].at = "done" THEN {"prompt"} ELSE {})
  /\ UNCHANGED <<authVars, oneshot, lines, input, cancelRequested, pressed, presses,
                 thinking, tools, foreign, sessionVars>>

Credentials == AuthNext /\ UNCHANGED turnVars
TurnStep == TurnNext /\ UNCHANGED authVars

Next == Credentials \/ Settled \/ TurnStep

\* A run that loads, and the session, go on, as AgentHarness and its tools do
\* (EveryInputAnswered); that the user types, or presses a key, is not assumed.
Fairness ==
  /\ WF_vars((Load(This) /\ UNCHANGED turnVars) \/ Settled)
  /\ WF_vars((BeginTurn \/ Closed \/ SendCancel \/ TakeEvent \/ TakeEnd)
             /\ UNCHANGED authVars)
  /\ WF_vars((SessionTakes \/ SessionEndsTurn) /\ UNCHANGED authVars)

Spec == Init /\ [][Next]_vars /\ Fairness
===========================================================================
