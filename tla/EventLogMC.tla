------------------------------ MODULE EventLogMC ------------------------------
(* Instances of EventLog for TLC: the events that a session may emit. *)
EXTENDS EventLog

\* One that the projection keeps and one that it must not keep.
SomeDurable == {UserMessageCommitted(1),
                ModelStepEnded(1, "Cancelled", Message(1))}
SomeLive == {StepProgress(1)}
=============================================================================
