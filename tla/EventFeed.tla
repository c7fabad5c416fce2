------------------------------ MODULE EventFeed ------------------------------
(***************************************************************************)
(* What the event log of a session promises: the durable log and its       *)
(* conversation move together, by Commit and PublishLive of SessionEvents  *)
(* and nothing else, and a subscriber receives a run of the feed without a *)
(* gap, from the moment it subscribed up to the moment it is detached.     *)
(*                                                                         *)
(* AgentHarness uses this log without subscribers; EventLog implements it. *)
(***************************************************************************)
EXTENDS SessionEvents

CONSTANT Subscribers

VARIABLES
  log,       \* as in SessionEvents
  attached,  \* the subscribers that new events go to
  from,      \* where in the feed each subscriber started
  upto,      \* how far into the feed each is entitled to read
  received   \* what each has read

vars == <<log, attached, from, upto, received>>

Init ==
  /\ log = EmptyLog
  /\ attached = {}
  /\ from = [s \in Subscribers |-> 0]
  /\ upto = [s \in Subscribers |-> 0]
  /\ received = [s \in Subscribers |-> <<>>]

\* An event may detach subscribers, who are then not owed it.
Publish(e) ==
  /\ \/ e \in Events /\ log' = Commit(log, e)
     \/ e \in LiveEvents /\ log' = PublishLive(log, e)
  /\ attached' \subseteq attached
  /\ upto' = [s \in Subscribers |->
                IF s \in attached' THEN Len(log'.feed) ELSE upto[s]]
  /\ UNCHANGED <<from, received>>

Subscribe(s) ==
  /\ s \notin attached /\ from[s] = upto[s] /\ received[s] = <<>>
  /\ attached' = attached \cup {s}
  /\ from' = [from EXCEPT ![s] = Len(log.feed)]
  /\ upto' = [upto EXCEPT ![s] = Len(log.feed)]
  /\ UNCHANGED <<log, received>>

Detach ==
  /\ attached' \subseteq attached
  /\ UNCHANGED <<log, from, upto, received>>

Read(s) ==
  LET n == from[s] + Len(received[s]) IN
  /\ n < upto[s]
  /\ received' = [received EXCEPT ![s] = Append(@, log.feed[n + 1])]
  /\ UNCHANGED <<log, attached, from, upto>>

Next ==
  \/ Len(log'.feed) = Len(log.feed) + 1 /\ Publish(log'.feed[Len(log'.feed)])
  \/ \E s \in Subscribers : Subscribe(s) \/ Read(s)
  \/ Detach

Spec == Init /\ [][Next]_vars
=============================================================================
