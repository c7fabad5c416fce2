------------------------------- MODULE EventLog -------------------------------
(***************************************************************************)
(* The event log of a session: the in-memory store with its hash chain     *)
(* (knuth-core, store.rs) and EventLog with its subscriptions (knuth-      *)
(* agent, event_log.rs), between the session actor that owns it and the    *)
(* subscribers, who read their channels whenever they like.                *)
(*                                                                         *)
(* commit, publish_live and subscribe run in handlers of the session actor *)
(* and never suspend, so each is one step.  A subscriber is one            *)
(* subscription; one that comes back is another subscriber.                *)
(*                                                                         *)
(* A digest is a collision-free function of what it is taken of: the       *)
(* sequence of the events up to this one.  The timestamp and the Uuid of a *)
(* stored event are left out, its stream_seq makes it unique.  Hashing     *)
(* does not fail.                                                          *)
(***************************************************************************)
EXTENDS SessionEvents, FiniteSets, SequencesExt

CONSTANTS
  Subscribers,
  SubscriptionBuffer,  \* capacity of a subscriber's channel (100)
  CommittedEvents,     \* the durable events the session may commit
  PublishedEvents,     \* the live events it may publish
  ResumePoints,        \* the from_seq a subscriber may ask for
  MaxFeed              \* bound on what is published

ASSUME BufferAssumption == SubscriptionBuffer \in Nat \ {0}

ASSUME EventsAssumption ==
  /\ CommittedEvents \subseteq Events /\ PublishedEvents \subseteq LiveEvents
  /\ ResumePoints \subseteq Nat /\ MaxFeed \in Nat

VARIABLES
  open,           \* the session actor, which owns the log, is there
  store,          \* InMemoryEventStore::events
  conversation,   \* ConversationState
  subscriptions,  \* the subscribers whose Sender the log holds
  channel,        \* what is in each subscriber's channel
  receiver,       \* a subscriber: "none", "reading", "ended", "dropped"
  fromSeq,        \* the from_seq it asked for
  feed, start, received  \* history: what was published in all, where in it a
                         \* subscriber started, and what it has received

logVars == <<store, conversation, feed>>
readerVars == <<receiver, fromSeq, start, received>>
vars == <<open, logVars, subscriptions, channel, readerVars>>

-----------------------------------------------------------------------------
(* StoredEvent; parent_hash None is the empty sequence, which is no hash. *)
NoHash == <<>>
Digest(event, seq, parent) == Append(parent, [event |-> event, seq |-> seq])
Hashes == Seq([event: Events, seq: Nat])

StoredEvents == [event: Events, seq: Nat, hash: Hashes, parent: Hashes]

NewStoredEvent(event, seq, parent) ==
  [event |-> event, seq |-> seq, parent |-> parent,
   hash |-> Digest(event, seq, parent)]

\* EventStore::append, to a store of these events.
AppendTo(events, event) ==
  Append(events, NewStoredEvent(event, Len(events),
           IF events = <<>> THEN NoHash ELSE Last(events).hash))

\* EventStore::range
EventRange(events, from, limit) ==
  SubSeq(events, from + 1, Min({from + limit, Len(events)}))

\* MUTANT: the parents are not compared.
DigestsMatch(events) ==
  \A i \in DOMAIN events :
    events[i].hash = Digest(events[i].event, events[i].seq, events[i].parent)

\* EventStore::verify_hash_chain returns Ok.
ChainVerifies(events) ==
  \A i \in DOMAIN events :
    /\ events[i].parent = IF i = 1 THEN NoHash ELSE events[i - 1].hash
    /\ events[i].hash = Digest(events[i].event, events[i].seq, events[i].parent)

-----------------------------------------------------------------------------
Durable(stored) == [kind |-> "Durable", stored |-> stored]
LiveItem(e) == [kind |-> "Live", event |-> e]
SessionEvents == [kind: {"Durable"}, stored: StoredEvents]
            \cup [kind: {"Live"}, event: LiveEvents]

Init ==
  /\ open = TRUE
  /\ store = <<>>
  /\ conversation = EmptyLog.conversation
  /\ feed = <<>>
  /\ subscriptions = {}
  /\ channel = [s \in Subscribers |-> <<>>]
  /\ receiver = [s \in Subscribers |-> "none"]
  /\ fromSeq = [s \in Subscribers |-> 0]
  /\ start = [s \in Subscribers |-> 0]
  /\ received = [s \in Subscribers |-> <<>>]

\* try_send succeeds.
Accepts(s) == receiver[s] # "dropped" /\ Len(channel[s]) < SubscriptionBuffer

\* MUTANT: only a closed channel is given up, a full one misses the event.
NotifyWhoHasRoom(item) ==
  /\ subscriptions' = {s \in subscriptions : receiver[s] # "dropped"}
  /\ channel' = [s \in Subscribers |->
       IF s \in subscriptions /\ Accepts(s) THEN Append(channel[s], item)
       ELSE channel[s]]
  /\ feed' = Append(feed, item)

NotifySubscriptions(item) ==
  /\ subscriptions' = {s \in subscriptions : Accepts(s)}
  /\ channel' = [s \in Subscribers |->
       IF s \in subscriptions' THEN Append(channel[s], item) ELSE channel[s]]
  /\ feed' = Append(feed, item)

CommitEvent ==
  /\ open /\ Len(feed) < MaxFeed
  /\ \E e \in CommittedEvents :
       /\ store' = AppendTo(store, e)
       /\ conversation' = ApplyEvent(conversation, e)
       /\ NotifySubscriptions(Durable(Last(store')))
  /\ UNCHANGED <<open, readerVars>>

\* MUTANT: live events are persisted too.
PublishAndStore ==
  /\ open /\ Len(feed) < MaxFeed
  /\ \E e \in PublishedEvents :
       NotifySubscriptions(LiveItem(e)) /\ store' = AppendTo(store, e)
  /\ UNCHANGED <<open, conversation, readerVars>>

PublishLiveEvent ==
  /\ open /\ Len(feed) < MaxFeed
  /\ \E e \in PublishedEvents : NotifySubscriptions(LiveItem(e))
  /\ UNCHANGED <<open, store, conversation, readerVars>>

\* AgentActor::subscribe ignores from_seq.
Subscribe(s) ==
  /\ open /\ receiver[s] = "none"
  /\ subscriptions' = subscriptions \cup {s}
  /\ receiver' = [receiver EXCEPT ![s] = "reading"]
  /\ \E n \in {m \in ResumePoints : m <= Len(store)} :
       fromSeq' = [fromSeq EXCEPT ![s] = n]
  /\ start' = [start EXCEPT ![s] = Len(feed)]
  /\ UNCHANGED <<open, logVars, channel, received>>

\* MUTANT: somebody keeps the senders.
CloseKeepsSenders ==
  /\ open /\ open' = FALSE
  /\ UNCHANGED <<logVars, subscriptions, channel, readerVars>>

\* The session actor stops and drops the log with its senders.
Close ==
  /\ open /\ open' = FALSE
  /\ subscriptions' = {}
  /\ UNCHANGED <<logVars, channel, readerVars>>

\* AgentSubscription::poll_next: Some(event), None, or pending.
Read(s) ==
  /\ receiver[s] = "reading" /\ channel[s] # <<>>
  /\ received' = [received EXCEPT ![s] = Append(@, Head(channel[s]))]
  /\ channel' = [channel EXCEPT ![s] = Tail(@)]
  /\ UNCHANGED <<open, logVars, subscriptions, receiver, fromSeq, start>>

ReadEnd(s) ==
  /\ receiver[s] = "reading" /\ channel[s] = <<>> /\ s \notin subscriptions
  /\ receiver' = [receiver EXCEPT ![s] = "ended"]
  /\ UNCHANGED <<open, logVars, subscriptions, channel, fromSeq, start, received>>

Drop(s) ==
  /\ receiver[s] = "reading"
  /\ receiver' = [receiver EXCEPT ![s] = "dropped"]
  /\ UNCHANGED <<open, logVars, subscriptions, channel, fromSeq, start, received>>

AtRest ==
  /\ ~open /\ \A s \in Subscribers : receiver[s] # "reading"
  /\ UNCHANGED vars

Next ==
  \/ CommitEvent \/ PublishLiveEvent \/ Close \/ AtRest
  \/ \E s \in Subscribers : Subscribe(s) \/ Read(s) \/ ReadEnd(s) \/ Drop(s)

Spec == Init /\ [][Next]_vars

\* A subscriber that does not drop its stream goes on reading it.
FairSpec == Spec /\ \A s \in Subscribers : WF_vars(Read(s) \/ ReadEnd(s))

-----------------------------------------------------------------------------
(* Properties *)

\* Every variable holds a value of its type in the code.
TypeOK ==
  /\ open \in BOOLEAN
  /\ store \in Seq(StoredEvents)
  /\ conversation \in Contexts
  /\ feed \in Seq(SessionEvents)
  /\ subscriptions \subseteq Subscribers
  /\ channel \in [Subscribers -> Seq(SessionEvents)]
  /\ receiver \in [Subscribers -> {"none", "reading", "ended", "dropped"}]
  /\ fromSeq \in [Subscribers -> Nat]
  /\ start \in [Subscribers -> Nat]
  /\ received \in [Subscribers -> Seq(SessionEvents)]

(***************************************************************************)
(* verify_hash_chain accepts what append has built, at any length, and     *)
(* rejects it once an event was replaced (even with its own hash made to   *)
(* match, unless it is the last), removed before the last, repeated or     *)
(* swapped with another.                                                   *)
(***************************************************************************)
Replaced(n, e) == [store[n] EXCEPT !.event = e]
Rehashed(stored) == [stored EXCEPT !.hash = Digest(stored.event, stored.seq, stored.parent)]

ChainDetectsTampering ==
  /\ \A n \in 0..Len(store) : ChainVerifies(EventRange(store, 0, n))
  /\ \A n \in DOMAIN store : \A e \in CommittedEvents \ {store[n].event} :
       /\ ~ChainVerifies(ReplaceAt(store, n, Replaced(n, e)))
       /\ n < Len(store) =>
            ~ChainVerifies(ReplaceAt(store, n, Rehashed(Replaced(n, e))))
  /\ \A m, n \in DOMAIN store :
       /\ m < Len(store) => ~ChainVerifies(RemoveAt(store, m))
       /\ ~ChainVerifies(InsertAt(store, m, store[n]))
       /\ m # n => ~ChainVerifies(ReplaceAt(ReplaceAt(store, m, store[n]), n, store[m]))

(***************************************************************************)
(* The log is the feed that EventFeed promises: the store, the projection  *)
(* and what is published stay in step, and each subscriber receives a run  *)
(* of the feed without a gap, however slowly it reads.                     *)
(***************************************************************************)
Payload(item) == IF item.kind = "Durable" THEN item.stored.event ELSE item.event
Payloads(items) == [i \in DOMAIN items |-> Payload(items[i])]

Feed == INSTANCE EventFeed WITH
  log <- [events |-> [i \in DOMAIN store |-> store[i].event],
          conversation |-> conversation, feed |-> Payloads(feed)],
  attached <- subscriptions,
  from <- start,
  upto <- [s \in Subscribers |-> start[s] + Len(received[s]) + Len(channel[s])],
  received <- [s \in Subscribers |-> Payloads(received[s])]

ImplementsFeed == Feed!Spec

(***************************************************************************)
(* A subscriber that goes on reading receives each event published since   *)
(* it subscribed or learns, by the end of its stream, that it does not;    *)
(* and it learns that the session is over.                                 *)
(***************************************************************************)
Gone(s) == receiver[s] \in {"ended", "dropped"}

NoReaderHangs ==
  \A s \in Subscribers :
    /\ \A n \in 1..MaxFeed :
         receiver[s] = "reading" /\ Len(feed) >= n
           ~> Gone(s) \/ start[s] + Len(received[s]) >= n
    /\ receiver[s] = "reading" /\ ~open ~> Gone(s)

(***************************************************************************)
(* store.rs says that a subscriber can resume from a stream_seq.  Then the *)
(* first durable event it receives is the one with the from_seq it gave.   *)
(***************************************************************************)
ResumesFromSeq ==
  \A s \in Subscribers :
    LET durable == SelectSeq(received[s], LAMBDA item : item.kind = "Durable")
    IN durable # <<>> => Head(durable).stored.seq = fromSeq[s]
=============================================================================
