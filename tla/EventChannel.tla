--------------------------- MODULE EventChannel ---------------------------
(***************************************************************************)
(* The stream a provider's task and its consumer share                     *)
(* (crates/ai/src/utils/event_stream.rs): a queue of events without a      *)
(* bound, and a oneshot that the first terminal event resolves.            *)
(***************************************************************************)
EXTENDS Integers, Sequences

CONSTANTS
  Events,         \* what may be pushed
  Terminals,      \* those of them that are Done or Error
  Nobody          \* no message

ASSUME ChannelAssumption ==
  /\ Terminals \subseteq Events /\ Nobody \notin Events

VARIABLES
  queue,          \* sent and not received
  sender,         \* does the producer still have its half?
  final,          \* final_tx: "unsent", "sent", or dropped with the sender
  message,        \* what it was resolved with
  consumer,       \* "reading", "awaiting" in result(), "resolved" or "gone"
  received,       \* what the consumer was given
  result,         \* what result() returned
  pushed          \* all that was pushed, for the properties

channelVars == <<queue, sender, final, message, consumer, received, result,
                 pushed>>

\* Until the consumer is gone, or result() returned, the receiving half lives.
Open == consumer \in {"reading", "awaiting"}

ChannelTypeOK ==
  /\ queue \in Seq(Events) /\ received \in Seq(Events) /\ pushed \in Seq(Events)
  /\ sender \in BOOLEAN
  /\ final \in {"unsent", "sent"}
  /\ message \in Terminals \cup {Nobody} /\ result \in Terminals \cup {Nobody}
  /\ consumer \in {"reading", "awaiting", "resolved", "gone"}

ChannelInit ==
  /\ queue = <<>> /\ received = <<>> /\ pushed = <<>>
  /\ sender = TRUE /\ final = "unsent"
  /\ message = Nobody /\ result = Nobody
  /\ consumer = "reading"

----------------------------------------------------------------------------
\* push: the first terminal event resolves the oneshot; a consumer that is
\* gone is no error.
PushEvent(e) ==
  /\ sender
  /\ IF e \in Terminals /\ final = "unsent"
     THEN final' = "sent" /\ message' = e
     ELSE UNCHANGED <<final, message>>
  /\ queue' = IF Open THEN Append(queue, e) ELSE queue
  /\ pushed' = Append(pushed, e)
  /\ UNCHANGED <<sender, consumer, received, result>>

CloseSender ==
  /\ sender
  /\ sender' = FALSE
  /\ UNCHANGED <<queue, final, message, consumer, received, result, pushed>>

\* poll_next.
\* MUTANT: the newest event first.
TakeNewest ==
  /\ consumer = "reading" /\ queue # <<>>
  /\ received' = Append(received, queue[Len(queue)])
  /\ queue' = SubSeq(queue, 1, Len(queue) - 1)
  /\ UNCHANGED <<sender, final, message, consumer, result, pushed>>
TakeNext ==
  /\ consumer = "reading" /\ queue # <<>>
  /\ received' = Append(received, Head(queue)) /\ queue' = Tail(queue)
  /\ UNCHANGED <<sender, final, message, consumer, result, pushed>>

DropStream ==
  /\ consumer = "reading"
  /\ consumer' = "gone" /\ queue' = <<>>
  /\ UNCHANGED <<sender, final, message, received, result, pushed>>

\* result() consumes the stream, also one that was read in part.
CallResult ==
  /\ consumer = "reading"
  /\ consumer' = "awaiting"
  /\ UNCHANGED <<queue, sender, final, message, received, result, pushed>>

\* The oneshot was resolved, or dropped with the sender.
\* MUTANT: result() does not wait once there is nothing to read.
ResolveResultAtOnce ==
  /\ consumer = "awaiting" /\ (final = "sent" \/ ~sender \/ queue = <<>>)
  /\ consumer' = "resolved" /\ result' = message /\ queue' = <<>>
  /\ UNCHANGED <<sender, final, message, received, pushed>>
ResolveResult ==
  /\ consumer = "awaiting" /\ (final = "sent" \/ ~sender)
  /\ consumer' = "resolved" /\ result' = message /\ queue' = <<>>
  /\ UNCHANGED <<sender, final, message, received, pushed>>

ConsumerStep == TakeNext \/ DropStream \/ CallResult \/ ResolveResult
ChannelNext == (\E e \in Events : PushEvent(e)) \/ CloseSender \/ ConsumerStep

ChannelSpec == ChannelInit /\ [][ChannelNext]_channelVars

----------------------------------------------------------------------------
\* The consumer gets the events in the order they were pushed, none lost and
\* none twice; what it stops reading is all it misses.
DeliveredInOrder ==
  /\ Len(received) <= Len(pushed)
  /\ \A i \in 1..Len(received) : received[i] = pushed[i]
  /\ Open => received \o queue = pushed

\* result() returns the first terminal event that was pushed, however many
\* events the consumer read before and whatever was pushed after it, and
\* nothing only when the producer pushed none.
FirstTerminal(events, e) ==
  \E i \in 1..Len(events) :
    /\ events[i] = e /\ e \in Terminals
    /\ \A j \in 1..(i - 1) : events[j] \notin Terminals
ResultIsFirstTerminal ==
  consumer = "resolved" =>
    \/ FirstTerminal(pushed, result)
    \/ /\ result = Nobody /\ ~sender
       /\ \A i \in 1..Len(pushed) : pushed[i] \notin Terminals
===========================================================================
