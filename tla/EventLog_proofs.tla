---------------------------- MODULE EventLog_proofs ----------------------------
(***************************************************************************)
(* The event log: its types, the hash chain of the store, and that the log *)
(* with its subscriptions implements the feed that EventFeed promises.     *)
(***************************************************************************)
EXTENDS EventLog, SequenceTheorems, TLAPS

-----------------------------------------------------------------------------
(* What the operators that alter a store return, read by position. *)

LEMMA ReplaceAtReads ==
  ASSUME NEW s \in Seq(StoredEvents), NEW n \in 1..Len(s), NEW x \in StoredEvents
  PROVE  LET t == ReplaceAt(s, n, x) IN
         /\ t \in Seq(StoredEvents) /\ Len(t) = Len(s) /\ t[n] = x
         /\ \A i \in 1..Len(s) : i # n => t[i] = s[i]
<1>1. ReplaceAt(s, n, x) = [s EXCEPT ![n] = x]
  BY DEF ReplaceAt
<1>. QED BY <1>1, ExceptSeq

LEMMA SubSeqReads ==
  ASSUME NEW s \in Seq(StoredEvents), NEW m \in 1..Len(s) + 1, NEW n \in 0..Len(s)
  PROVE  LET t == SubSeq(s, m, n) IN
         /\ t \in Seq(StoredEvents) /\ Len(t) = IF m <= n THEN n - m + 1 ELSE 0
         /\ \A i \in 1..Len(t) : t[i] = s[m + i - 1]
BY SubSeqProperties, ElementOfSeq

LEMMA RemoveAtReads ==
  ASSUME NEW s \in Seq(StoredEvents), NEW m \in 1..Len(s)
  PROVE  LET t == RemoveAt(s, m) IN
         /\ t \in Seq(StoredEvents) /\ Len(t) = Len(s) - 1
         /\ \A i \in 1..m - 1 : t[i] = s[i]
         /\ \A i \in m..Len(s) - 1 : t[i] = s[i + 1]
<1>. DEFINE a == SubSeq(s, 1, m - 1)
            b == SubSeq(s, m + 1, Len(s))
<1>1. /\ a \in Seq(StoredEvents) /\ Len(a) = m - 1
      /\ \A i \in 1..m - 1 : a[i] = s[i]
  BY SubSeqReads
<1>2. /\ b \in Seq(StoredEvents) /\ Len(b) = Len(s) - m
      /\ \A i \in 1..Len(s) - m : b[i] = s[m + i]
  BY SubSeqReads
<1>3. RemoveAt(s, m) = a \o b
  BY DEF RemoveAt
<1>. HIDE DEF a, b
<1>4. /\ a \o b \in Seq(StoredEvents) /\ Len(a \o b) = Len(s) - 1
      /\ \A i \in 1..m - 1 : (a \o b)[i] = a[i]
      /\ \A i \in m..Len(s) - 1 : (a \o b)[i] = b[i - m + 1]
  <2>1. /\ a \o b \in Seq(StoredEvents) /\ Len(a \o b) = Len(a) + Len(b)
        /\ \A i \in 1..Len(a) + Len(b) :
             (a \o b)[i] = IF i <= Len(a) THEN a[i] ELSE b[i - Len(a)]
    BY <1>1, <1>2, ConcatProperties
  <2>2. Len(a) + Len(b) = Len(s) - 1
    BY <1>1, <1>2
  <2>3. ASSUME NEW i \in 1..m - 1
        PROVE  (a \o b)[i] = a[i]
    BY <1>1, <2>1, <2>2
  <2>4. ASSUME NEW i \in m..Len(s) - 1
        PROVE  (a \o b)[i] = b[i - m + 1]
    <3>1. i \in 1..Len(a) + Len(b) /\ ~(i <= Len(a)) /\ i - Len(a) = i - m + 1
      BY <1>1, <2>2
    <3>. QED BY <2>1, <3>1
  <2>. QED BY <2>1, <2>2, <2>3, <2>4
<1>5. \A i \in m..Len(s) - 1 : b[i - m + 1] = s[i + 1]
  BY <1>2
<1>. QED BY <1>1, <1>3, <1>4, <1>5

LEMMA InsertAtReads ==
  ASSUME NEW s \in Seq(StoredEvents), NEW m \in 1..Len(s), NEW x \in StoredEvents
  PROVE  LET t == InsertAt(s, m, x) IN
         /\ t \in Seq(StoredEvents) /\ Len(t) = Len(s) + 1 /\ t[m] = x
         /\ \A i \in 1..m - 1 : t[i] = s[i]
         /\ t[m + 1] = s[m]
<1>. DEFINE a == SubSeq(s, 1, m - 1)
            b == SubSeq(s, m, Len(s))
<1>1. /\ a \in Seq(StoredEvents) /\ Len(a) = m - 1
      /\ \A i \in 1..m - 1 : a[i] = s[i]
  BY SubSeqReads
<1>2. b \in Seq(StoredEvents) /\ Len(b) = Len(s) - m + 1 /\ b[1] = s[m]
  BY SubSeqReads
<1>3. InsertAt(s, m, x) = a \o <<x>> \o b
  BY DEF InsertAt
<1>. HIDE DEF a, b
<1>4. /\ a \o <<x>> \in Seq(StoredEvents) /\ Len(a \o <<x>>) = m /\ (a \o <<x>>)[m] = x
      /\ \A i \in 1..m - 1 : (a \o <<x>>)[i] = a[i]
  BY <1>1
<1>. DEFINE c == a \o <<x>>
<1>. HIDE DEF c
<1>5. /\ c \in Seq(StoredEvents) /\ Len(c) = m /\ c[m] = x
      /\ \A i \in 1..m - 1 : c[i] = a[i]
  BY <1>4 DEF c
<1>6. /\ c \o b \in Seq(StoredEvents) /\ Len(c \o b) = Len(s) + 1
      /\ \A i \in 1..m : (c \o b)[i] = c[i]
      /\ (c \o b)[m + 1] = b[1]
  BY <1>2, <1>5
<1>. QED BY <1>1, <1>2, <1>3, <1>5, <1>6 DEF c

-----------------------------------------------------------------------------
(* Types. *)

LEMMA DigestType ==
  ASSUME NEW e \in Events, NEW n \in Nat, NEW p \in Hashes
  PROVE  /\ Digest(e, n, p) \in Hashes /\ Len(Digest(e, n, p)) = Len(p) + 1
         /\ Digest(e, n, p)[Len(p) + 1] = [event |-> e, seq |-> n]
<1>. DEFINE d == [event |-> e, seq |-> n]
<1>1. d \in [event: Events, seq: Nat]
  OBVIOUS
<1>2. p \in Seq([event: Events, seq: Nat])
  BY DEF Hashes
<1>3. Digest(e, n, p) = Append(p, d)
  BY DEF Digest
<1>4. p \in Seq([event: Events, seq: Nat]) /\ d \in [event: Events, seq: Nat]
        => /\ Append(p, d) \in Seq([event: Events, seq: Nat])
           /\ Len(Append(p, d)) = Len(p) + 1 /\ Append(p, d)[Len(p) + 1] = d
  <2>. HIDE DEF d
  <2>. QED OBVIOUS
<1>. QED BY <1>1, <1>2, <1>3, <1>4 DEF Hashes

LEMMA NewStoredType ==
  ASSUME NEW e \in Events, NEW n \in Nat, NEW p \in Hashes
  PROVE  NewStoredEvent(e, n, p) \in StoredEvents
BY DigestType DEF NewStoredEvent, StoredEvents

\* append adds one event to the store, chained to the one before it.
LEMMA AppendToIs ==
  ASSUME NEW events \in Seq(StoredEvents), NEW e \in Events
  PROVE  \E p \in Hashes :
           /\ p = IF events = <<>> THEN NoHash ELSE events[Len(events)].hash
           /\ NewStoredEvent(e, Len(events), p) \in StoredEvents
           /\ AppendTo(events, e) = Append(events, NewStoredEvent(e, Len(events), p))
<1>. DEFINE p == IF events = <<>> THEN NoHash ELSE events[Len(events)].hash
<1>1. p \in Hashes
  <2>1. CASE events = <<>>
    BY <2>1 DEF NoHash, Hashes
  <2>2. CASE events # <<>>
    <3>1. events[Len(events)] \in StoredEvents
      BY <2>2
    <3>. QED BY <2>2, <3>1 DEF StoredEvents
  <2>. QED BY <2>1, <2>2
<1>2. Len(events) \in Nat
  OBVIOUS
<1>3. NewStoredEvent(e, Len(events), p) \in StoredEvents
  BY <1>1, <1>2, NewStoredType
<1>4. AppendTo(events, e) = Append(events, NewStoredEvent(e, Len(events), p))
  BY DEF AppendTo, Last
<1>. QED BY <1>1, <1>3, <1>4

\* What append returns, read by position.
LEMMA AppendToReads ==
  ASSUME NEW events \in Seq(StoredEvents), NEW e \in Events
  PROVE  LET new == AppendTo(events, e) IN
         /\ new \in Seq(StoredEvents) /\ Len(new) = Len(events) + 1
         /\ \A i \in 1..Len(events) : new[i] = events[i]
         /\ new[Len(events) + 1].event = e
         /\ new[Len(events) + 1].seq = Len(events)
         /\ new[Len(events) + 1].parent =
              IF events = <<>> THEN NoHash ELSE events[Len(events)].hash
         /\ new[Len(events) + 1].hash =
              Digest(e, Len(events), new[Len(events) + 1].parent)
<1>1. PICK p \in Hashes :
        /\ p = IF events = <<>> THEN NoHash ELSE events[Len(events)].hash
        /\ NewStoredEvent(e, Len(events), p) \in StoredEvents
        /\ AppendTo(events, e) = Append(events, NewStoredEvent(e, Len(events), p))
  BY AppendToIs
<1>2. PICK x \in StoredEvents : x = NewStoredEvent(e, Len(events), p)
  BY <1>1
<1>3. /\ Append(events, x) \in Seq(StoredEvents)
      /\ Len(Append(events, x)) = Len(events) + 1
      /\ \A i \in 1..Len(events) : Append(events, x)[i] = events[i]
      /\ Append(events, x)[Len(events) + 1] = x
  OBVIOUS
<1>4. /\ x.event = e /\ x.seq = Len(events) /\ x.parent = p
      /\ x.hash = Digest(e, Len(events), p)
  BY <1>2 DEF NewStoredEvent
<1>5. AppendTo(events, e) = Append(events, x)
  BY <1>1, <1>2
<1>. QED BY <1>1, <1>3, <1>4, <1>5

LEMMA ItemTypes ==
  /\ \A x \in StoredEvents : Durable(x) \in SessionEvents
  /\ \A e \in LiveEvents : LiveItem(e) \in SessionEvents
BY DEF Durable, LiveItem, SessionEvents

\* The channels grow by one event each, where they grow.
LEMMA NotifyType ==
  ASSUME TypeOK, NEW item \in SessionEvents, NotifySubscriptions(item)
  PROVE  /\ subscriptions' \subseteq Subscribers
         /\ channel' \in [Subscribers -> Seq(SessionEvents)]
         /\ feed' \in Seq(SessionEvents)
<1>1. subscriptions' \subseteq subscriptions /\ subscriptions \subseteq Subscribers
  BY DEF NotifySubscriptions, TypeOK
<1>2. \A s \in Subscribers :
        /\ channel[s] \in Seq(SessionEvents)
        /\ Append(channel[s], item) \in Seq(SessionEvents)
  BY DEF TypeOK
<1>3. channel' \in [Subscribers -> Seq(SessionEvents)]
  BY <1>2 DEF NotifySubscriptions
<1>4. feed' \in Seq(SessionEvents)
  BY DEF NotifySubscriptions, TypeOK
<1>. QED BY <1>1, <1>3, <1>4

\* A commit stores the event, projects it and publishes what it stored.
LEMMA CommitDoes ==
  ASSUME TypeOK, CommitEvent
  PROVE  \E e \in CommittedEvents, x \in StoredEvents :
           /\ e \in Events
           /\ store' = AppendTo(store, e) /\ conversation' = ApplyEvent(conversation, e)
           /\ x = store'[Len(store) + 1] /\ x.event = e
           /\ Durable(x) \in SessionEvents /\ NotifySubscriptions(Durable(x))
<1>1. PICK e \in CommittedEvents :
        /\ store' = AppendTo(store, e) /\ conversation' = ApplyEvent(conversation, e)
        /\ NotifySubscriptions(Durable(Last(store')))
  BY DEF CommitEvent
<1>2. e \in Events
  BY EventsAssumption
<1>3. store \in Seq(StoredEvents)
  BY DEF TypeOK
<1>4. /\ store' \in Seq(StoredEvents) /\ Len(store') = Len(store) + 1
      /\ store'[Len(store) + 1].event = e
  BY <1>1, <1>2, <1>3, AppendToReads
<1>5. Last(store') = store'[Len(store) + 1] /\ store'[Len(store) + 1] \in StoredEvents
  BY <1>3, <1>4 DEF Last
<1>6. Durable(store'[Len(store) + 1]) \in SessionEvents
  BY <1>5, ItemTypes
<1>. QED BY <1>1, <1>2, <1>4, <1>5, <1>6

LEMMA LogTypeInit == Init => TypeOK
BY DEF Init, TypeOK, EmptyLog, Contexts

LEMMA LogTypeStep ==
  ASSUME TypeOK, [Next]_vars
  PROVE  TypeOK'
<1>. USE DEF TypeOK
<1>1. CASE CommitEvent
  <2>1. PICK e \in CommittedEvents, x \in StoredEvents :
          /\ e \in Events
          /\ store' = AppendTo(store, e) /\ conversation' = ApplyEvent(conversation, e)
          /\ Durable(x) \in SessionEvents /\ NotifySubscriptions(Durable(x))
    BY <1>1, CommitDoes
  <2>2. store' \in Seq(StoredEvents)
    BY <2>1, AppendToReads
  <2>3. conversation' \in Contexts
    BY <2>1, ApplyEventType
  <2>4. /\ subscriptions' \subseteq Subscribers
        /\ channel' \in [Subscribers -> Seq(SessionEvents)]
        /\ feed' \in Seq(SessionEvents)
    BY <2>1, NotifyType
  <2>. QED BY <1>1, <2>2, <2>3, <2>4 DEF CommitEvent, readerVars
<1>2. CASE PublishLiveEvent
  <2>1. PICK e \in PublishedEvents : NotifySubscriptions(LiveItem(e))
    BY <1>2 DEF PublishLiveEvent
  <2>2. LiveItem(e) \in SessionEvents
    BY EventsAssumption, ItemTypes
  <2>3. /\ subscriptions' \subseteq Subscribers
        /\ channel' \in [Subscribers -> Seq(SessionEvents)]
        /\ feed' \in Seq(SessionEvents)
    BY <2>1, <2>2, NotifyType
  <2>. QED BY <1>2, <2>3 DEF PublishLiveEvent, readerVars
<1>3. CASE Close \/ AtRest
  BY <1>3 DEF Close, AtRest, vars, logVars, readerVars
<1>4. ASSUME NEW s \in Subscribers, Subscribe(s)
      PROVE  TypeOK'
  <2>1. PICK n \in ResumePoints : fromSeq' = [fromSeq EXCEPT ![s] = n]
    BY <1>4 DEF Subscribe
  <2>2. fromSeq' \in [Subscribers -> Nat]
    BY <2>1, EventsAssumption
  <2>3. start' \in [Subscribers -> Nat]
    BY <1>4 DEF Subscribe
  <2>. QED BY <1>4, <2>2, <2>3 DEF Subscribe, logVars
<1>5. ASSUME NEW s \in Subscribers, Read(s)
      PROVE  TypeOK'
  <2>1. PICK c \in Seq(SessionEvents) : c = channel[s]
    OBVIOUS
  <2>2. PICK r \in Seq(SessionEvents) : r = received[s]
    OBVIOUS
  <2>3. c # <<>>
    BY <1>5, <2>1 DEF Read
  <2>4. Tail(c) \in Seq(SessionEvents) /\ Append(r, Head(c)) \in Seq(SessionEvents)
    BY <2>3
  <2>5. /\ channel' = [channel EXCEPT ![s] = Tail(c)]
        /\ received' = [received EXCEPT ![s] = Append(r, Head(c))]
    BY <1>5, <2>1, <2>2 DEF Read
  <2>6. /\ channel' \in [Subscribers -> Seq(SessionEvents)]
        /\ received' \in [Subscribers -> Seq(SessionEvents)]
    BY <2>4, <2>5
  <2>. QED BY <1>5, <2>6 DEF Read, logVars
<1>6. ASSUME NEW s \in Subscribers, ReadEnd(s) \/ Drop(s)
      PROVE  TypeOK'
  BY <1>6 DEF ReadEnd, Drop, logVars
<1>7. CASE UNCHANGED vars
  BY <1>7 DEF vars, logVars, readerVars
<1>. QED BY <1>1, <1>2, <1>3, <1>4, <1>5, <1>6, <1>7 DEF Next

(***************************************************************************)
(* Store, projection, feed, channels and what the subscribers received     *)
(* have their types, whatever is committed and published.                  *)
(***************************************************************************)
THEOREM LogTypeCorrect == Spec => []TypeOK
BY LogTypeInit, LogTypeStep, PTL DEF Spec

-----------------------------------------------------------------------------
(***************************************************************************)
(* The hash chain.  A hash is as long as the chain up to its event, so the *)
(* length of a parent tells the place its event was appended at: this is   *)
(* what an event moved to another place betrays itself by.                 *)
(***************************************************************************)
Chained(s) ==
  \A i \in 1..Len(s) :
    /\ s[i].parent = IF i = 1 THEN NoHash ELSE s[i - 1].hash
    /\ s[i].hash = Digest(s[i].event, s[i].seq, s[i].parent)
    /\ Len(s[i].hash) = i /\ Len(s[i].parent) = i - 1

ChainInv == store \in Seq(StoredEvents) /\ Chained(store)

LEMMA AppendToChained ==
  ASSUME NEW s \in Seq(StoredEvents), Chained(s), NEW e \in Events
  PROVE  Chained(AppendTo(s, e))
<1>1. PICK t : t = AppendTo(s, e)
  OBVIOUS
<1>2. /\ t \in Seq(StoredEvents) /\ Len(t) = Len(s) + 1
      /\ \A i \in 1..Len(s) : t[i] = s[i]
      /\ t[Len(s) + 1].event = e /\ t[Len(s) + 1].seq = Len(s)
      /\ t[Len(s) + 1].parent = IF s = <<>> THEN NoHash ELSE s[Len(s)].hash
      /\ t[Len(s) + 1].hash = Digest(e, Len(s), t[Len(s) + 1].parent)
  BY <1>1, AppendToReads
<1>3. ASSUME NEW i \in 1..Len(s)
      PROVE  /\ t[i].parent = IF i = 1 THEN NoHash ELSE t[i - 1].hash
             /\ t[i].hash = Digest(t[i].event, t[i].seq, t[i].parent)
             /\ Len(t[i].hash) = i /\ Len(t[i].parent) = i - 1
  <2>1. t[i] = s[i] /\ (i # 1 => t[i - 1] = s[i - 1])
    BY <1>2
  <2>. QED BY <2>1 DEF Chained
<1>4. PICK n \in Nat : n = Len(s)
  OBVIOUS
<1>5. /\ t[n + 1].parent = IF n + 1 = 1 THEN NoHash ELSE t[n].hash
      /\ t[n + 1].parent \in Hashes /\ Len(t[n + 1].parent) = n
  <2>1. CASE n = 0
    <3>1. s = <<>>
      BY <1>4, <2>1, EmptySeq
    <3>2. t[n + 1].parent = NoHash
      BY <1>2, <1>4, <3>1
    <3>. QED BY <2>1, <3>2 DEF NoHash, Hashes
  <2>2. CASE n # 0
    <3>1. s # <<>> /\ n \in 1..Len(s) /\ s[n] \in StoredEvents
      BY <1>4, <2>2
    <3>2. t[n + 1].parent = s[n].hash /\ t[n] = s[n]
      BY <1>2, <1>4, <3>1
    <3>3. s[n].hash \in Hashes /\ Len(s[n].hash) = n
      BY <3>1 DEF StoredEvents, Chained
    <3>. QED BY <2>2, <3>2, <3>3
  <2>. QED BY <2>1, <2>2
<1>6. /\ t[n + 1].hash = Digest(t[n + 1].event, t[n + 1].seq, t[n + 1].parent)
      /\ Len(t[n + 1].hash) = n + 1
  <2>1. e \in Events /\ n \in Nat /\ t[n + 1].parent \in Hashes
    BY <1>5
  <2>2. Len(Digest(e, n, t[n + 1].parent)) = n + 1
    <3>1. PICK p \in Hashes : p = t[n + 1].parent /\ Len(p) = n
      BY <1>5
    <3>2. Len(Digest(e, n, p)) = Len(p) + 1
      BY <2>1, DigestType
    <3>. QED BY <3>1, <3>2
  <2>. QED BY <1>2, <1>4, <2>2
<1>7. ASSUME NEW i \in 1..Len(t)
      PROVE  /\ t[i].parent = IF i = 1 THEN NoHash ELSE t[i - 1].hash
             /\ t[i].hash = Digest(t[i].event, t[i].seq, t[i].parent)
             /\ Len(t[i].hash) = i /\ Len(t[i].parent) = i - 1
  <2>1. CASE i \in 1..Len(s)
    BY <1>3, <2>1
  <2>2. CASE i = n + 1
    BY <1>5, <1>6, <2>2
  <2>. QED BY <1>2, <1>4, <2>1, <2>2
<1>. QED BY <1>1, <1>7 DEF Chained

LEMMA ChainInit == Init => ChainInv
BY DEF Init, ChainInv, Chained

LEMMA ChainStep ==
  ASSUME TypeOK, ChainInv, [Next]_vars
  PROVE  ChainInv'
<1>1. CASE CommitEvent
  <2>1. PICK e \in CommittedEvents : e \in Events /\ store' = AppendTo(store, e)
    BY <1>1, CommitDoes
  <2>. QED BY <2>1, AppendToReads, AppendToChained DEF ChainInv
<1>2. CASE store' = store
  BY <1>2 DEF ChainInv
<1>. QED BY <1>1, <1>2 DEF Next, PublishLiveEvent, Close, AtRest, Subscribe, Read,
                           ReadEnd, Drop, vars, logVars

(* What a chain that verifies has at each place. *)
LEMMA Verified ==
  ASSUME NEW t \in Seq(StoredEvents), ChainVerifies(t), NEW i \in 1..Len(t)
  PROVE  /\ i = 1 => t[i].parent = NoHash
         /\ i # 1 => t[i].parent = t[i - 1].hash
         /\ t[i].hash = Digest(t[i].event, t[i].seq, t[i].parent)
BY DEF ChainVerifies

\* Every prefix of the store verifies.
LEMMA PrefixVerifies ==
  ASSUME NEW s \in Seq(StoredEvents), Chained(s), NEW n \in 0..Len(s)
  PROVE  ChainVerifies(EventRange(s, 0, n))
<1>1. PICK len \in Nat : len = Len(s)
  OBVIOUS
<1>2. Min({0 + n, Len(s)}) = n
  <2>1. 0 + n = n /\ n \in Nat /\ n <= len
    BY <1>1
  <2>2. Min({n, len}) = n
    BY <2>1 DEF Min
  <2>. QED BY <1>1, <2>1, <2>2
<1>3. EventRange(s, 0, n) = SubSeq(s, 1, n)
  <2>1. EventRange(s, 0, n) = SubSeq(s, 0 + 1, Min({0 + n, Len(s)}))
    BY DEF EventRange
  <2>2. 0 + 1 = 1
    OBVIOUS
  <2>. QED BY <1>2, <2>1, <2>2
<1>4. PICK t : t = SubSeq(s, 1, n)
  OBVIOUS
<1>5. t \in Seq(StoredEvents) /\ Len(t) = n /\ \A i \in 1..n : t[i] = s[i]
  BY <1>4, SubSeqReads
<1>6. ASSUME NEW i \in DOMAIN t
      PROVE  /\ t[i].parent = IF i = 1 THEN NoHash ELSE t[i - 1].hash
             /\ t[i].hash = Digest(t[i].event, t[i].seq, t[i].parent)
  <2>1. i \in 1..n /\ i \in 1..Len(s) /\ t[i] = s[i]
    BY <1>5
  <2>2. i # 1 => t[i - 1] = s[i - 1]
    BY <1>5, <2>1
  <2>. QED BY <2>1, <2>2 DEF Chained
<1>7. ChainVerifies(t)
  BY <1>6 DEF ChainVerifies
<1>. QED BY <1>3, <1>4, <1>7

\* An event put in another's place does not match the hash, nor, with the
\* hash made to match, the parent of the next.
LEMMA ReplacedDetected ==
  ASSUME NEW s \in Seq(StoredEvents), Chained(s), NEW n \in 1..Len(s),
         NEW e \in Events, e # s[n].event
  PROVE  /\ ~ChainVerifies(ReplaceAt(s, n, [s[n] EXCEPT !.event = e]))
         /\ n < Len(s) =>
              ~ChainVerifies(ReplaceAt(s, n, Rehashed([s[n] EXCEPT !.event = e])))
<1>1. PICK old \in StoredEvents : old = s[n]
  OBVIOUS
<1>2. PICK new \in StoredEvents : new = [old EXCEPT !.event = e]
  BY DEF StoredEvents
<1>3. /\ new.event = e /\ new.seq = old.seq /\ new.seq \in Nat
      /\ new.parent = old.parent /\ new.parent \in Hashes /\ new.hash = old.hash
      /\ old.event \in Events
  BY <1>2 DEF StoredEvents
<1>4. old.hash = Digest(old.event, old.seq, old.parent)
  BY <1>1 DEF Chained
<1>5. Digest(e, old.seq, old.parent) # Digest(old.event, old.seq, old.parent)
  <2>1. Digest(e, old.seq, old.parent)[Len(old.parent) + 1]
          = [event |-> e, seq |-> old.seq]
    BY <1>3, DigestType
  <2>2. Digest(old.event, old.seq, old.parent)[Len(old.parent) + 1]
          = [event |-> old.event, seq |-> old.seq]
    BY <1>3, DigestType
  <2>3. [event |-> e, seq |-> old.seq] # [event |-> old.event, seq |-> old.seq]
    <3>1. [event |-> e, seq |-> old.seq].event
            # [event |-> old.event, seq |-> old.seq].event
      BY <1>1
    <3>. QED BY <3>1
  <2>. QED BY <2>1, <2>2, <2>3
<1>6. ~ChainVerifies(ReplaceAt(s, n, new))
  <2>1. PICK t \in Seq(StoredEvents) : t = ReplaceAt(s, n, new)
    BY ReplaceAtReads
  <2>2. Len(t) = Len(s) /\ t[n] = new
    BY <2>1, ReplaceAtReads
  <2>. QED BY <1>3, <1>4, <1>5, <2>1, <2>2, Verified
<1>7. ASSUME n < Len(s)
      PROVE  ~ChainVerifies(ReplaceAt(s, n, Rehashed(new)))
  <2>1. PICK x \in StoredEvents :
          /\ x = Rehashed(new) /\ x.hash = Digest(e, old.seq, old.parent)
    <3>1. Digest(e, old.seq, old.parent) \in Hashes
      BY <1>3, DigestType
    <3>2. PICK h \in Hashes : h = Digest(new.event, new.seq, new.parent)
      BY <1>3, <3>1
    <3>3. Rehashed(new) = [new EXCEPT !.hash = h]
      BY <3>2 DEF Rehashed
    <3>4. /\ [new EXCEPT !.hash = h] \in StoredEvents
          /\ [new EXCEPT !.hash = h].hash = h
      BY DEF StoredEvents
    <3>. QED BY <1>3, <3>2, <3>3, <3>4
  <2>2. PICK t \in Seq(StoredEvents) : t = ReplaceAt(s, n, x)
    BY ReplaceAtReads
  <2>3. Len(t) = Len(s) /\ t[n] = x /\ n + 1 \in 1..Len(t) /\ t[n + 1] = s[n + 1]
    <3>1. /\ Len(t) = Len(s) /\ t[n] = x
          /\ \A i \in 1..Len(s) : i # n => t[i] = s[i]
      BY <2>2, ReplaceAtReads
    <3>. QED BY <1>7, <3>1
  <2>4. s[n + 1].parent = old.hash
    BY <1>1, <1>7 DEF Chained
  <2>. QED BY <1>4, <1>5, <2>1, <2>2, <2>3, <2>4, Verified
<1>. QED BY <1>1, <1>2, <1>6, <1>7

\* Where an event was removed, the next one's parent is one too long.
LEMMA RemovedDetected ==
  ASSUME NEW s \in Seq(StoredEvents), Chained(s), NEW m \in 1..Len(s), m < Len(s)
  PROVE  ~ChainVerifies(RemoveAt(s, m))
<1>1. PICK t : t = RemoveAt(s, m)
  OBVIOUS
<1>2. /\ t \in Seq(StoredEvents) /\ m \in 1..Len(t) /\ t[m] = s[m + 1]
      /\ m # 1 => t[m - 1] = s[m - 1]
  <2>1. /\ t \in Seq(StoredEvents) /\ Len(t) = Len(s) - 1
        /\ \A i \in 1..m - 1 : t[i] = s[i]
        /\ \A i \in m..Len(s) - 1 : t[i] = s[i + 1]
    BY <1>1, RemoveAtReads
  <2>. QED BY <2>1
<1>3. Len(s[m + 1].parent) = m /\ (m # 1 => Len(s[m - 1].hash) = m - 1)
  <2>1. m + 1 \in 1..Len(s) /\ (m + 1) - 1 = m /\ (m # 1 => m - 1 \in 1..Len(s))
    OBVIOUS
  <2>. QED BY <2>1 DEF Chained
<1>4. Len(NoHash) = 0
  BY DEF NoHash
<1>. QED BY <1>1, <1>2, <1>3, <1>4, Verified

\* An event repeated at another place has a parent of another length; at its
\* own place, the event it pushes back has.
LEMMA RepeatedDetected ==
  ASSUME NEW s \in Seq(StoredEvents), Chained(s), NEW m \in 1..Len(s),
         NEW n \in 1..Len(s)
  PROVE  ~ChainVerifies(InsertAt(s, m, s[n]))
<1>1. PICK t : t = InsertAt(s, m, s[n])
  OBVIOUS
<1>2. /\ t \in Seq(StoredEvents) /\ m \in 1..Len(t) /\ m + 1 \in 1..Len(t)
      /\ t[m] = s[n] /\ t[m + 1] = s[m]
      /\ m # 1 => t[m - 1] = s[m - 1]
  <2>1. PICK x \in StoredEvents : x = s[n]
    OBVIOUS
  <2>. DEFINE u == InsertAt(s, m, x)
  <2>2. /\ u \in Seq(StoredEvents) /\ Len(u) = Len(s) + 1 /\ u[m] = x
        /\ \A i \in 1..m - 1 : u[i] = s[i]
        /\ u[m + 1] = s[m]
    BY InsertAtReads
  <2>3. u = t
    BY <1>1, <2>1
  <2>. HIDE DEF u
  <2>4. /\ t \in Seq(StoredEvents) /\ Len(t) = Len(s) + 1 /\ t[m] = s[n]
        /\ \A i \in 1..m - 1 : t[i] = s[i]
        /\ t[m + 1] = s[m]
    BY <2>1, <2>2, <2>3
  <2>. QED BY <2>4
<1>3. /\ Len(s[n].parent) = n - 1 /\ Len(s[n].hash) = n /\ Len(s[m].parent) = m - 1
      /\ m # 1 => Len(s[m - 1].hash) = m - 1
  BY DEF Chained
<1>4. Len(NoHash) = 0
  BY DEF NoHash
<1>5. SUFFICES ASSUME ChainVerifies(t)
               PROVE  FALSE
  BY <1>1
<1>6. n = m
  <2>1. m = 1 => t[m].parent = NoHash
    BY <1>2, <1>5, Verified
  <2>2. m # 1 => t[m].parent = t[m - 1].hash
    BY <1>2, <1>5, Verified
  <2>. QED BY <1>2, <1>3, <1>4, <2>1, <2>2
<1>7. t[m + 1].parent = t[m].hash
  <2>1. m + 1 # 1 /\ (m + 1) - 1 = m
    OBVIOUS
  <2>. QED BY <1>2, <1>5, <2>1, Verified
<1>. QED BY <1>2, <1>3, <1>6, <1>7

\* Of two events swapped, the first place tells.
LEMMA SwappedDetected ==
  ASSUME NEW s \in Seq(StoredEvents), Chained(s), NEW m \in 1..Len(s),
         NEW n \in 1..Len(s), m # n
  PROVE  ~ChainVerifies(ReplaceAt(ReplaceAt(s, m, s[n]), n, s[m]))
<1>1. PICK t : t = ReplaceAt(ReplaceAt(s, m, s[n]), n, s[m])
  OBVIOUS
<1>2. /\ t \in Seq(StoredEvents) /\ m \in 1..Len(t) /\ t[m] = s[n]
      /\ m # 1 /\ m - 1 # n => t[m - 1] = s[m - 1]
      /\ m - 1 = n => t[m - 1] = s[m]
  <2>1. PICK x \in StoredEvents, y \in StoredEvents : x = s[n] /\ y = s[m]
    OBVIOUS
  <2>. DEFINE u == ReplaceAt(s, m, x)
  <2>2. /\ u \in Seq(StoredEvents) /\ Len(u) = Len(s) /\ u[m] = x
        /\ \A i \in 1..Len(s) : i # m => u[i] = s[i]
    BY ReplaceAtReads
  <2>3. t = ReplaceAt(u, n, y)
    BY <1>1, <2>1
  <2>. HIDE DEF u
  <2>. DEFINE v == ReplaceAt(u, n, y)
  <2>4. n \in 1..Len(u)
    BY <2>2
  <2>5. /\ v \in Seq(StoredEvents) /\ Len(v) = Len(u) /\ v[n] = y
        /\ \A i \in 1..Len(u) : i # n => v[i] = u[i]
    BY <2>2, <2>4, ReplaceAtReads
  <2>6. v = t
    BY <2>3
  <2>. HIDE DEF v
  <2>7. /\ t \in Seq(StoredEvents) /\ Len(t) = Len(s) /\ t[n] = s[m] /\ t[m] = s[n]
        /\ \A i \in 1..Len(s) : i # m /\ i # n => t[i] = s[i]
    BY <2>1, <2>2, <2>5, <2>6
  <2>. QED BY <2>7
<1>3. /\ Len(s[n].parent) = n - 1 /\ Len(s[m].hash) = m
      /\ m # 1 => Len(s[m - 1].hash) = m - 1
  BY DEF Chained
<1>4. Len(NoHash) = 0
  BY DEF NoHash
<1>5. SUFFICES ASSUME ChainVerifies(t)
               PROVE  FALSE
  BY <1>1
<1>6. (m = 1 => t[m].parent = NoHash) /\ (m # 1 => t[m].parent = t[m - 1].hash)
  BY <1>2, <1>5, Verified
<1>. QED BY <1>2, <1>3, <1>4, <1>6

LEMMA ChainDetects ==
  ASSUME ChainInv
  PROVE  ChainDetectsTampering
<1>. USE DEF ChainInv
<1>1. ASSUME NEW n \in 0..Len(store)
      PROVE  ChainVerifies(EventRange(store, 0, n))
  BY PrefixVerifies
<1>2. ASSUME NEW n \in DOMAIN store, NEW e \in CommittedEvents \ {store[n].event}
      PROVE  /\ ~ChainVerifies(ReplaceAt(store, n, Replaced(n, e)))
             /\ n < Len(store) =>
                  ~ChainVerifies(ReplaceAt(store, n, Rehashed(Replaced(n, e))))
  <2>1. n \in 1..Len(store) /\ e \in Events /\ e # store[n].event
    BY EventsAssumption
  <2>. QED BY <2>1, ReplacedDetected DEF Replaced
<1>3. ASSUME NEW m \in DOMAIN store, NEW n \in DOMAIN store
      PROVE  /\ m < Len(store) => ~ChainVerifies(RemoveAt(store, m))
             /\ ~ChainVerifies(InsertAt(store, m, store[n]))
             /\ m # n =>
                  ~ChainVerifies(ReplaceAt(ReplaceAt(store, m, store[n]), n, store[m]))
  <2>1. m \in 1..Len(store) /\ n \in 1..Len(store)
    OBVIOUS
  <2>. QED BY <2>1, RemovedDetected, RepeatedDetected, SwappedDetected
<1>. QED BY <1>1, <1>2, <1>3 DEF ChainDetectsTampering

(***************************************************************************)
(* verify_hash_chain accepts every prefix of a store that append built,    *)
(* and rejects the store once an event of it was replaced, removed before  *)
(* the last, repeated or swapped, however long the store is.               *)
(***************************************************************************)
THEOREM ChainTellsTampering == Spec => []ChainDetectsTampering
<1>1. Init => ChainInv
  BY ChainInit
<1>2. TypeOK /\ ChainInv /\ [Next]_vars => ChainInv'
  BY ChainStep
<1>3. ChainInv => ChainDetectsTampering
  BY ChainDetects
<1>. QED BY <1>1, <1>2, <1>3, LogTypeCorrect, PTL DEF Spec

-----------------------------------------------------------------------------
(***************************************************************************)
(* The feed.  EventFeed has its own copy of the operations on a log, and   *)
(* its variables are read off those of the event log.                      *)
(***************************************************************************)
LEMMA SameEvents ==
  /\ Feed!Events = Events /\ Feed!LiveEvents = LiveEvents
  /\ Feed!EmptyLog = EmptyLog
BY DEF Events, LiveEvents, EmptyLog, Feed!Events, Feed!LiveEvents, Feed!EmptyLog,
       StepReasons, DoneReasons, AssistantMessages, Invocations, Outcomes,
       Feed!StepReasons, Feed!DoneReasons, Feed!AssistantMessages,
       Feed!Invocations, Feed!Outcomes

LEMMA SameProjection ==
  ASSUME NEW c, NEW e
  PROVE  Feed!ApplyEvent(c, e) = ApplyEvent(c, e)
BY DEF ApplyEvent, Feed!ApplyEvent, AssistantEnters, Feed!AssistantEnters,
       DoneReasons, Feed!DoneReasons, UserMessage, Feed!UserMessage,
       AssistantMessage, Feed!AssistantMessage, ToolResultMessage,
       Feed!ToolResultMessage

LEMMA SameLog ==
  ASSUME NEW l, NEW e
  PROVE  Feed!Commit(l, e) = Commit(l, e) /\ Feed!PublishLive(l, e) = PublishLive(l, e)
BY SameProjection DEF Commit, Feed!Commit, PublishLive, Feed!PublishLive

\* The variables of EventFeed in a state of this module.
FeedLog ==
  [events |-> [i \in DOMAIN store |-> store[i].event],
   conversation |-> conversation, feed |-> Payloads(feed)]
Upto == [s \in Subscribers |-> start[s] + Len(received[s]) + Len(channel[s])]
PayloadsReceived == [s \in Subscribers |-> Payloads(received[s])]

LEMMA PayloadType ==
  \A item \in SessionEvents : Payload(item) \in Events \cup LiveEvents
BY DEF SessionEvents, Payload, StoredEvents

\* Of the items the payloads, of the stored events the events: both are read
\* item by item, so the new item's payload is appended to the earlier ones.
LEMMA PayloadsRead ==
  ASSUME NEW q \in Seq(SessionEvents)
  PROVE  /\ Payloads(q) \in Seq(Events \cup LiveEvents) /\ Len(Payloads(q)) = Len(q)
         /\ \A i \in 1..Len(q) : Payloads(q)[i] = Payload(q[i])
<1>1. Len(q) \in Nat /\ DOMAIN q = 1..Len(q)
  OBVIOUS
<1>2. Payloads(q) \in [1..Len(q) -> Events \cup LiveEvents]
  BY <1>1, PayloadType DEF Payloads
<1>3. Payloads(q) \in Seq(Events \cup LiveEvents)
  BY <1>1, <1>2, SeqDef
<1>. QED BY <1>1, <1>2, <1>3 DEF Payloads

LEMMA PayloadsAppend ==
  ASSUME NEW q \in Seq(SessionEvents), NEW item \in SessionEvents
  PROVE  Payloads(Append(q, item)) = Append(Payloads(q), Payload(item))
<1>1. PICK r \in Seq(SessionEvents) :
        /\ r = Append(q, item) /\ Len(r) = Len(q) + 1 /\ r[Len(q) + 1] = item
        /\ \A i \in 1..Len(q) : r[i] = q[i]
  <2>. DEFINE r == Append(q, item)
  <2>1. /\ r \in Seq(SessionEvents) /\ Len(r) = Len(q) + 1 /\ r[Len(q) + 1] = item
        /\ \A i \in 1..Len(q) : r[i] = q[i]
    BY AppendProperties
  <2>2. r = Append(q, item)
    OBVIOUS
  <2>. HIDE DEF r
  <2>. QED BY <2>1, <2>2
<1>2. PICK a \in Seq(Events \cup LiveEvents) : a = Payloads(r)
  BY PayloadsRead
<1>3. PICK b \in Seq(Events \cup LiveEvents) : b = Payloads(q)
  BY PayloadsRead
<1>4. PICK p \in Events \cup LiveEvents : p = Payload(item)
  BY PayloadType
<1>5. /\ Len(a) = Len(q) + 1 /\ a[Len(q) + 1] = p
      /\ \A i \in 1..Len(q) : a[i] = Payload(q[i])
  <2>1. /\ Len(a) = Len(r)
        /\ \A i \in 1..Len(r) : a[i] = Payload(r[i])
    BY <1>2, PayloadsRead
  <2>. QED BY <1>1, <1>4, <2>1
<1>6. Len(b) = Len(q) /\ \A i \in 1..Len(q) : b[i] = Payload(q[i])
  BY <1>3, PayloadsRead
<1>7. PICK c \in Seq(Events \cup LiveEvents) :
        /\ c = Append(b, p) /\ Len(c) = Len(b) + 1 /\ c[Len(b) + 1] = p
        /\ \A i \in 1..Len(b) : c[i] = b[i]
  <2>. DEFINE c == Append(b, p)
  <2>1. /\ c \in Seq(Events \cup LiveEvents) /\ Len(c) = Len(b) + 1
        /\ c[Len(b) + 1] = p /\ \A i \in 1..Len(b) : c[i] = b[i]
    BY AppendProperties
  <2>2. c = Append(b, p)
    OBVIOUS
  <2>. HIDE DEF c
  <2>. QED BY <2>1, <2>2
<1>8. a = c
  <2>1. Len(a) = Len(c)
    BY <1>5, <1>6, <1>7
  <2>2. \A i \in 1..Len(a) : a[i] = c[i]
    BY <1>5, <1>6, <1>7
  <2>. QED BY <2>1, <2>2, SeqEqual
<1>. QED BY <1>1, <1>2, <1>3, <1>4, <1>7, <1>8

EventsOf(q) == [i \in DOMAIN q |-> q[i].event]

LEMMA EventsOfRead ==
  ASSUME NEW q \in Seq(StoredEvents)
  PROVE  /\ EventsOf(q) \in Seq(Events) /\ Len(EventsOf(q)) = Len(q)
         /\ \A i \in 1..Len(q) : EventsOf(q)[i] = q[i].event
<1>1. Len(q) \in Nat /\ DOMAIN q = 1..Len(q)
  OBVIOUS
<1>2. \A i \in 1..Len(q) : q[i].event \in Events
  <2>1. ASSUME NEW i \in 1..Len(q)
        PROVE  q[i].event \in Events
    <3>1. q[i] \in StoredEvents
      BY <2>1
    <3>. QED BY <3>1 DEF StoredEvents
  <2>. QED BY <2>1
<1>3. EventsOf(q) \in [1..Len(q) -> Events]
  BY <1>1, <1>2 DEF EventsOf
<1>4. EventsOf(q) \in Seq(Events)
  BY <1>1, <1>3, SeqDef
<1>. QED BY <1>1, <1>3, <1>4 DEF EventsOf

LEMMA EventsOfAppend ==
  ASSUME NEW q \in Seq(StoredEvents), NEW e \in Events
  PROVE  EventsOf(AppendTo(q, e)) = Append(EventsOf(q), e)
<1>1. PICK r \in Seq(StoredEvents) :
        /\ r = AppendTo(q, e) /\ Len(r) = Len(q) + 1 /\ r[Len(q) + 1].event = e
        /\ \A i \in 1..Len(q) : r[i] = q[i]
  BY AppendToReads
<1>2. PICK a \in Seq(Events) : a = EventsOf(r)
  BY EventsOfRead
<1>3. PICK b \in Seq(Events) : b = EventsOf(q)
  BY EventsOfRead
<1>4. /\ Len(a) = Len(q) + 1 /\ a[Len(q) + 1] = e
      /\ \A i \in 1..Len(q) : a[i] = q[i].event
  BY <1>1, <1>2, EventsOfRead
<1>5. Len(b) = Len(q) /\ \A i \in 1..Len(q) : b[i] = q[i].event
  BY <1>3, EventsOfRead
<1>6. PICK c \in Seq(Events) :
        /\ c = Append(b, e) /\ Len(c) = Len(b) + 1 /\ c[Len(b) + 1] = e
        /\ \A i \in 1..Len(b) : c[i] = b[i]
  <2>. DEFINE c == Append(b, e)
  <2>1. /\ c \in Seq(Events) /\ Len(c) = Len(b) + 1
        /\ c[Len(b) + 1] = e /\ \A i \in 1..Len(b) : c[i] = b[i]
    BY AppendProperties
  <2>2. c = Append(b, e)
    OBVIOUS
  <2>. HIDE DEF c
  <2>. QED BY <2>1, <2>2
<1>7. a = c
  <2>1. Len(a) = Len(c)
    BY <1>4, <1>5, <1>6
  <2>2. \A i \in 1..Len(a) : a[i] = c[i]
    BY <1>4, <1>5, <1>6
  <2>. QED BY <2>1, <2>2, SeqEqual
<1>. QED BY <1>1, <1>2, <1>3, <1>6, <1>7

-----------------------------------------------------------------------------
(***************************************************************************)
(* What the channel of a subscriber still holds is the run of the feed     *)
(* from where it has read to; while the log holds its sender, up to the    *)
(* end.  Without it a step of the log could be no step of the feed.        *)
(***************************************************************************)
Pending(s) ==
  /\ receiver[s] = "none" =>
       s \notin subscriptions /\ channel[s] = <<>> /\ received[s] = <<>>
  /\ start[s] + Len(received[s]) + Len(channel[s]) <= Len(feed)
  /\ s \in subscriptions =>
       start[s] + Len(received[s]) + Len(channel[s]) = Len(feed)
  /\ \A i \in 1..Len(channel[s]) :
       channel[s][i] = feed[start[s] + Len(received[s]) + i]

FeedInv == \A s \in Subscribers : Pending(s)

LEMMA FeedInvInit == Init => FeedInv
BY DEF Init, FeedInv, Pending

LEMMA NotifyFeedInv ==
  ASSUME TypeOK, FeedInv, NEW item \in SessionEvents, NotifySubscriptions(item),
         UNCHANGED readerVars
  PROVE  FeedInv'
<1>. SUFFICES ASSUME NEW s \in Subscribers
              PROVE  Pending(s)'
  BY DEF FeedInv
<1>1. PICK c \in Seq(SessionEvents) : c = channel[s]
  BY DEF TypeOK
<1>2. PICK f \in Seq(SessionEvents) : f = feed
  BY DEF TypeOK
<1>3. PICK n \in Nat : n = start[s] + Len(received[s])
  BY DEF TypeOK
<1>4. Pending(s)
  BY DEF FeedInv
<1>5. /\ feed' = Append(f, item) /\ n = (start[s] + Len(received[s]))'
      /\ receiver'[s] = receiver[s] /\ received'[s] = received[s]
      /\ s \in subscriptions' <=> s \in subscriptions /\ Accepts(s)
      /\ channel'[s] = IF s \in subscriptions' THEN Append(c, item) ELSE c
  BY <1>1, <1>2, <1>3 DEF NotifySubscriptions, readerVars
<1>6. /\ n + Len(c) <= Len(f) /\ (s \in subscriptions => n + Len(c) = Len(f))
      /\ \A i \in 1..Len(c) : c[i] = f[n + i]
      /\ receiver[s] = "none" => s \notin subscriptions /\ c = <<>> /\ received[s] = <<>>
  BY <1>1, <1>2, <1>3, <1>4 DEF Pending
<1>7. /\ Len(Append(f, item)) = Len(f) + 1 /\ Append(f, item)[Len(f) + 1] = item
      /\ \A i \in 1..Len(f) : Append(f, item)[i] = f[i]
  OBVIOUS
<1>8. /\ Len(Append(c, item)) = Len(c) + 1 /\ Append(c, item)[Len(c) + 1] = item
      /\ \A i \in 1..Len(c) : Append(c, item)[i] = c[i]
  OBVIOUS
<1>9. CASE s \in subscriptions'
  <2>1. \A i \in 1..Len(c) + 1 : Append(c, item)[i] = Append(f, item)[n + i]
    BY <1>5, <1>6, <1>7, <1>8, <1>9
  <2>. QED BY <1>5, <1>6, <1>7, <1>8, <1>9, <2>1 DEF Pending
<1>10. CASE s \notin subscriptions'
  <2>1. \A i \in 1..Len(c) : c[i] = Append(f, item)[n + i]
    BY <1>6, <1>7
  <2>. QED BY <1>5, <1>6, <1>7, <1>10, <2>1 DEF Pending
<1>. QED BY <1>9, <1>10

LEMMA FeedInvStep ==
  ASSUME TypeOK, FeedInv, [Next]_vars
  PROVE  FeedInv'
<1>1. CASE CommitEvent
  <2>1. PICK x \in StoredEvents :
          Durable(x) \in SessionEvents /\ NotifySubscriptions(Durable(x))
    BY <1>1, CommitDoes
  <2>2. UNCHANGED readerVars
    BY <1>1 DEF CommitEvent
  <2>. QED BY <2>1, <2>2, NotifyFeedInv
<1>2. CASE PublishLiveEvent
  <2>1. PICK e \in PublishedEvents : NotifySubscriptions(LiveItem(e))
    BY <1>2 DEF PublishLiveEvent
  <2>2. LiveItem(e) \in SessionEvents /\ UNCHANGED readerVars
    BY <1>2, EventsAssumption, ItemTypes DEF PublishLiveEvent
  <2>. QED BY <2>1, <2>2, NotifyFeedInv
<1>3. CASE Close
  BY <1>3 DEF Close, FeedInv, Pending, logVars, readerVars
<1>4. ASSUME NEW t \in Subscribers, Subscribe(t)
      PROVE  FeedInv'
  <2>. SUFFICES ASSUME NEW s \in Subscribers
                PROVE  Pending(s)'
    BY DEF FeedInv
  <2>1. Pending(s) /\ Len(feed) \in Nat
    BY DEF FeedInv, TypeOK
  <2>2. /\ feed' = feed /\ channel' = channel /\ received' = received
        /\ subscriptions' = subscriptions \cup {t} /\ receiver[t] = "none"
        /\ receiver'[s] = IF s = t THEN "reading" ELSE receiver[s]
        /\ start'[s] = IF s = t THEN Len(feed) ELSE start[s]
    BY <1>4 DEF Subscribe, TypeOK, logVars
  <2>3. CASE s = t
    <3>1. channel[s] = <<>> /\ received[s] = <<>> /\ Len(<<>>) = 0
      BY <2>1, <2>2, <2>3 DEF Pending
    <3>. QED BY <2>1, <2>2, <2>3, <3>1 DEF Pending
  <2>4. CASE s # t
    BY <2>1, <2>2, <2>4 DEF Pending
  <2>. QED BY <2>3, <2>4
<1>5. ASSUME NEW t \in Subscribers, Read(t)
      PROVE  FeedInv'
  <2>. SUFFICES ASSUME NEW s \in Subscribers
                PROVE  Pending(s)'
    BY DEF FeedInv
  <2>1. Pending(s)
    BY DEF FeedInv
  <2>2. /\ feed' = feed /\ start' = start /\ subscriptions' = subscriptions
        /\ receiver' = receiver
    BY <1>5 DEF Read, logVars
  <2>3. CASE s # t
    <3>1. channel'[s] = channel[s] /\ received'[s] = received[s]
      BY <1>5, <2>3 DEF Read, TypeOK
    <3>. QED BY <2>1, <2>2, <3>1 DEF Pending
  <2>4. CASE s = t
    <3>1. PICK c \in Seq(SessionEvents) : c = channel[s]
      BY DEF TypeOK
    <3>2. PICK r \in Seq(SessionEvents) : r = received[s]
      BY DEF TypeOK
    <3>3. PICK n \in Nat : n = start[s]
      BY DEF TypeOK
    <3>4. /\ c # <<>> /\ receiver[s] # "none"
          /\ channel'[s] = Tail(c) /\ received'[s] = Append(r, Head(c))
      BY <1>5, <2>4, <3>1, <3>2 DEF Read, TypeOK
    <3>5. /\ Len(Tail(c)) = Len(c) - 1 /\ \A i \in 1..Len(c) - 1 : Tail(c)[i] = c[i + 1]
      BY <3>4
    <3>6. Len(Append(r, Head(c))) = Len(r) + 1
      OBVIOUS
    <3>7. /\ n + Len(r) + Len(c) <= Len(feed)
          /\ s \in subscriptions => n + Len(r) + Len(c) = Len(feed)
          /\ \A i \in 1..Len(c) : c[i] = feed[n + Len(r) + i]
      BY <2>1, <3>1, <3>2, <3>3 DEF Pending
    <3>8. Len(feed) \in Nat
      BY DEF TypeOK
    <3>9. \A i \in 1..Len(c) - 1 : Tail(c)[i] = feed[n + (Len(r) + 1) + i]
      <4>1. ASSUME NEW i \in 1..Len(c) - 1
            PROVE  Tail(c)[i] = feed[n + (Len(r) + 1) + i]
        <5>1. i + 1 \in 1..Len(c) /\ n + Len(r) + (i + 1) = n + (Len(r) + 1) + i
          OBVIOUS
        <5>2. c[i + 1] = feed[n + Len(r) + (i + 1)]
          BY <3>7, <5>1
        <5>. QED BY <3>5, <5>1, <5>2
      <4>. QED BY <4>1
    <3>10. Pending(s)' =
        (/\ receiver[s] = "none" =>
            s \notin subscriptions /\ Tail(c) = <<>> /\ Append(r, Head(c)) = <<>>
         /\ n + Len(Append(r, Head(c))) + Len(Tail(c)) <= Len(feed)
         /\ s \in subscriptions =>
              n + Len(Append(r, Head(c))) + Len(Tail(c)) = Len(feed)
         /\ \A i \in 1..Len(Tail(c)) :
              Tail(c)[i] = feed[n + Len(Append(r, Head(c))) + i])
      BY <2>2, <3>3, <3>4 DEF Pending
    <3>11. n + (Len(r) + 1) + (Len(c) - 1) = n + Len(r) + Len(c)
      OBVIOUS
    <3>. QED BY <3>4, <3>5, <3>6, <3>7, <3>8, <3>9, <3>10, <3>11
  <2>. QED BY <2>3, <2>4
<1>6. ASSUME NEW t \in Subscribers, ReadEnd(t) \/ Drop(t)
      PROVE  FeedInv'
  <2>. SUFFICES ASSUME NEW s \in Subscribers
                PROVE  Pending(s)'
    BY DEF FeedInv
  <2>1. Pending(s)
    BY DEF FeedInv
  <2>2. /\ feed' = feed /\ start' = start /\ subscriptions' = subscriptions
        /\ channel' = channel /\ received' = received
        /\ receiver'[s] = "none" => receiver[s] = "none"
    BY <1>6 DEF ReadEnd, Drop, logVars, TypeOK
  <2>. QED BY <2>1, <2>2 DEF Pending
<1>7. CASE UNCHANGED vars \/ AtRest
  BY <1>7 DEF AtRest, vars, logVars, readerVars, FeedInv, Pending
<1>. QED BY <1>1, <1>2, <1>3, <1>4, <1>5, <1>6, <1>7 DEF Next

-----------------------------------------------------------------------------
(* The refinement, step by step. *)

LEMMA FeedLogReads ==
  ASSUME TypeOK
  PROVE  /\ FeedLog.events = EventsOf(store) /\ FeedLog.conversation = conversation
         /\ FeedLog.feed = Payloads(feed) /\ Len(FeedLog.feed) = Len(feed)
         /\ \A i \in 1..Len(feed) : FeedLog.feed[i] = Payload(feed[i])
<1>1. FeedLog.feed = Payloads(feed)
  BY DEF FeedLog
<1>2. feed \in Seq(SessionEvents)
  BY DEF TypeOK
<1>. QED BY <1>1, <1>2, PayloadsRead DEF FeedLog, EventsOf

\* What is notified is published, and whoever missed it is detached.
LEMMA NotifyPublishes ==
  ASSUME TypeOK, TypeOK', FeedInv, FeedInv', NEW item \in SessionEvents,
         NotifySubscriptions(item), UNCHANGED readerVars,
         \/ Payload(item) \in Events /\ FeedLog' = Commit(FeedLog, Payload(item))
         \/ Payload(item) \in LiveEvents
              /\ FeedLog' = PublishLive(FeedLog, Payload(item))
  PROVE  Feed!Next
<1>. DEFINE e == Payload(item)
<1>1. /\ Len(FeedLog'.feed) = Len(FeedLog.feed) + 1
      /\ FeedLog'.feed[Len(FeedLog'.feed)] = e
  <2>1. feed' = Append(feed, item) /\ feed \in Seq(SessionEvents)
    BY DEF NotifySubscriptions, TypeOK
  <2>2. Len(feed') = Len(feed) + 1 /\ feed'[Len(feed')] = item /\ Len(feed) \in Nat
    BY <2>1
  <2>3. Len(FeedLog.feed) = Len(feed)
    BY FeedLogReads
  <2>4. /\ Len(FeedLog'.feed) = Len(feed')
        /\ \A i \in 1..Len(feed') : FeedLog'.feed[i] = Payload(feed'[i])
    <3>1. FeedLog'.feed = Payloads(feed') /\ feed' \in Seq(SessionEvents)
      BY DEF FeedLog, TypeOK
    <3>. QED BY <3>1, PayloadsRead
  <2>5. Len(feed') \in 1..Len(feed')
    BY <2>2
  <2>. QED BY <2>2, <2>3, <2>4, <2>5
<1>2. subscriptions' \subseteq subscriptions
  BY DEF NotifySubscriptions
<1>3. Upto' = [s \in Subscribers |->
                 IF s \in subscriptions' THEN Len(FeedLog'.feed) ELSE Upto[s]]
  <2>1. ASSUME NEW s \in Subscribers
        PROVE  start'[s] + Len(received'[s]) + Len(channel'[s])
                 = IF s \in subscriptions' THEN Len(FeedLog'.feed) ELSE Upto[s]
    <3>1. CASE s \in subscriptions'
      <4>1. start'[s] + Len(received'[s]) + Len(channel'[s]) = Len(feed')
        BY <3>1 DEF FeedInv, Pending
      <4>2. Len(FeedLog'.feed) = Len(feed')
        <5>1. FeedLog'.feed = Payloads(feed') /\ feed' \in Seq(SessionEvents)
          BY DEF FeedLog, TypeOK
        <5>. QED BY <5>1, PayloadsRead
      <4>. QED BY <3>1, <4>1, <4>2
    <3>2. CASE s \notin subscriptions'
      BY <3>2 DEF Upto, NotifySubscriptions, readerVars
    <3>. QED BY <3>1, <3>2
  <2>. QED BY <2>1 DEF Upto
<1>4. UNCHANGED <<start, PayloadsReceived>>
  BY DEF readerVars, PayloadsReceived
<1>5. \/ e \in Feed!Events /\ FeedLog' = Feed!Commit(FeedLog, e)
      \/ e \in Feed!LiveEvents /\ FeedLog' = Feed!PublishLive(FeedLog, e)
  BY SameEvents, SameLog
<1>. HIDE DEF e
<1>. QED BY <1>1, <1>2, <1>3, <1>4, <1>5
         DEF Feed!Next, Feed!Publish, FeedLog, Upto, PayloadsReceived

LEMMA CommitPublishes ==
  ASSUME TypeOK, TypeOK', FeedInv, FeedInv', CommitEvent
  PROVE  Feed!Next
<1>1. PICK e \in CommittedEvents, x \in StoredEvents :
        /\ e \in Events
        /\ store' = AppendTo(store, e) /\ conversation' = ApplyEvent(conversation, e)
        /\ x.event = e
        /\ Durable(x) \in SessionEvents /\ NotifySubscriptions(Durable(x))
  BY CommitDoes
<1>2. Payload(Durable(x)) = e
  BY <1>1 DEF Payload, Durable
<1>3. FeedLog' = Commit(FeedLog, e)
  <2>1. EventsOf(store') = Append(EventsOf(store), e)
    BY <1>1, EventsOfAppend DEF TypeOK
  <2>2. Payloads(feed') = Append(Payloads(feed), e)
    BY <1>1, <1>2, PayloadsAppend DEF TypeOK, NotifySubscriptions
  <2>. QED BY <1>1, <2>1, <2>2 DEF Commit, FeedLog, EventsOf
<1>4. UNCHANGED readerVars
  BY DEF CommitEvent
<1>. QED BY <1>1, <1>2, <1>3, <1>4, NotifyPublishes

LEMMA LivePublishes ==
  ASSUME TypeOK, TypeOK', FeedInv, FeedInv', PublishLiveEvent
  PROVE  Feed!Next
<1>1. PICK e \in PublishedEvents : NotifySubscriptions(LiveItem(e))
  BY DEF PublishLiveEvent
<1>2. e \in LiveEvents /\ LiveItem(e) \in SessionEvents /\ Payload(LiveItem(e)) = e
  BY EventsAssumption, ItemTypes DEF Payload, LiveItem
<1>3. FeedLog' = PublishLive(FeedLog, e)
  <2>1. Payloads(feed') = Append(Payloads(feed), e)
    BY <1>1, <1>2, PayloadsAppend DEF TypeOK, NotifySubscriptions
  <2>2. FeedLog = [events |-> EventsOf(store), conversation |-> conversation,
                   feed |-> Payloads(feed)]
    BY DEF FeedLog, EventsOf
  <2>3. FeedLog' = [events |-> EventsOf(store), conversation |-> conversation,
                    feed |-> Append(Payloads(feed), e)]
    BY <2>1 DEF FeedLog, EventsOf, PublishLiveEvent
  <2>4. PICK a, c, f : a = EventsOf(store) /\ c = conversation /\ f = Payloads(feed)
    OBVIOUS
  <2>5. PublishLive([events |-> a, conversation |-> c, feed |-> f], e)
          = [events |-> a, conversation |-> c, feed |-> Append(f, e)]
    BY DEF PublishLive
  <2>. QED BY <2>2, <2>3, <2>4, <2>5
<1>4. UNCHANGED readerVars
  BY DEF PublishLiveEvent
<1>. QED BY <1>1, <1>2, <1>3, <1>4, NotifyPublishes

LEMMA SubscribeSubscribes ==
  ASSUME TypeOK, FeedInv, NEW s \in Subscribers, Subscribe(s)
  PROVE  Feed!Next
<1>1. /\ s \notin subscriptions /\ channel[s] = <<>> /\ received[s] = <<>>
      /\ start[s] \in Nat
  BY DEF Subscribe, FeedInv, Pending, TypeOK
<1>2. Upto[s] = start[s] /\ PayloadsReceived[s] = <<>>
  <2>1. Len(<<>>) = 0
    OBVIOUS
  <2>2. PayloadsReceived[s] = Payloads(<<>>)
    BY <1>1 DEF PayloadsReceived
  <2>. QED BY <1>1, <2>1, <2>2 DEF Upto, Payloads
<1>3. Len(FeedLog.feed) = Len(feed) /\ Len(feed) \in Nat
  BY FeedLogReads DEF TypeOK
<1>4. /\ start' = [start EXCEPT ![s] = Len(FeedLog.feed)]
      /\ subscriptions' = subscriptions \cup {s}
      /\ UNCHANGED <<FeedLog, PayloadsReceived>>
  BY <1>3 DEF Subscribe, logVars, FeedLog, PayloadsReceived
<1>5. Upto' = [Upto EXCEPT ![s] = Len(FeedLog.feed)]
  <2>1. UNCHANGED <<channel, received>>
    BY DEF Subscribe
  <2>2. ASSUME NEW t \in Subscribers
        PROVE  start'[t] + Len(received[t]) + Len(channel[t])
                 = IF t = s THEN Len(FeedLog.feed) ELSE Upto[t]
    BY <1>1, <1>3, <1>4 DEF Upto, TypeOK
  <2>. QED BY <2>1, <2>2 DEF Upto
<1>6. Feed!Subscribe(s)
  BY <1>1, <1>2, <1>4, <1>5 DEF Feed!Subscribe, FeedLog, Upto, PayloadsReceived
<1>. QED BY <1>6 DEF Feed!Next

LEMMA ReadReads ==
  ASSUME TypeOK, FeedInv, NEW s \in Subscribers, Read(s)
  PROVE  Feed!Next
<1>1. PICK c \in Seq(SessionEvents) : c = channel[s]
  BY DEF TypeOK
<1>2. PICK r \in Seq(SessionEvents) : r = received[s]
  BY DEF TypeOK
<1>3. PICK n \in Nat : n = start[s]
  BY DEF TypeOK
<1>4. /\ c # <<>> /\ channel' = [channel EXCEPT ![s] = Tail(c)]
      /\ received' = [received EXCEPT ![s] = Append(r, Head(c))]
      /\ UNCHANGED <<open, store, conversation, feed, subscriptions, start>>
  BY <1>1, <1>2 DEF Read, logVars
<1>5. Len(c) \in Nat \ {0} /\ Head(c) \in SessionEvents /\ Head(c) = c[1]
        /\ Len(Tail(c)) = Len(c) - 1
  BY <1>4
<1>6. Len(feed) \in Nat /\ n + Len(r) + 1 \in 1..Len(feed)
        /\ Head(c) = feed[n + Len(r) + 1]
  <2>1. /\ n + Len(r) + Len(c) <= Len(feed)
        /\ \A i \in 1..Len(c) : c[i] = feed[n + Len(r) + i]
    BY <1>1, <1>2, <1>3 DEF FeedInv, Pending
  <2>. QED BY <1>5, <2>1 DEF TypeOK
<1>7. FeedLog.feed[n + Len(r) + 1] = Payload(Head(c))
  BY <1>6, FeedLogReads
<1>8. PayloadsReceived[s] = Payloads(r) /\ Len(Payloads(r)) = Len(r)
  BY <1>2, PayloadsRead DEF PayloadsReceived
<1>9. PayloadsReceived' = [PayloadsReceived EXCEPT ![s] =
                             Append(Payloads(r), FeedLog.feed[n + Len(r) + 1])]
  <2>1. Payloads(Append(r, Head(c))) = Append(Payloads(r), Payload(Head(c)))
    BY <1>5, PayloadsAppend
  <2>2. ASSUME NEW t \in Subscribers
        PROVE  Payloads(received'[t]) = IF t = s THEN Payloads(Append(r, Head(c)))
                                        ELSE Payloads(received[t])
    BY <1>4 DEF TypeOK
  <2>. QED BY <1>7, <2>1, <2>2 DEF PayloadsReceived
<1>10. Upto[s] = n + Len(r) + Len(c)
  BY <1>1, <1>2, <1>3 DEF Upto
<1>11. Upto' = Upto
  <2>1. ASSUME NEW t \in Subscribers
        PROVE  start'[t] + Len(received'[t]) + Len(channel'[t])
                 = start[t] + Len(received[t]) + Len(channel[t])
    <3>1. CASE t = s
      <4>1. received'[t] = Append(r, Head(c)) /\ channel'[t] = Tail(c) /\ start'[t] = n
        BY <1>3, <1>4, <3>1 DEF TypeOK
      <4>2. Len(Append(r, Head(c))) = Len(r) + 1
        OBVIOUS
      <4>3. start[t] = n /\ Len(received[t]) = Len(r) /\ Len(channel[t]) = Len(c)
        BY <1>1, <1>2, <1>3, <3>1
      <4>4. n + (Len(r) + 1) + (Len(c) - 1) = n + Len(r) + Len(c)
        BY <1>5
      <4>. QED BY <1>5, <4>1, <4>2, <4>3, <4>4
    <3>2. CASE t # s
      BY <1>4, <3>2 DEF TypeOK
    <3>. QED BY <3>1, <3>2
  <2>. QED BY <2>1 DEF Upto
<1>12. UNCHANGED <<FeedLog, subscriptions, start>>
  BY <1>4 DEF FeedLog
<1>13. start[s] + Len(PayloadsReceived[s]) = n + Len(r)
  BY <1>3, <1>8
<1>14. n + Len(r) < Upto[s]
  BY <1>5, <1>10
<1>15. Feed!Read(s)
  BY <1>8, <1>9, <1>11, <1>12, <1>13, <1>14
     DEF Feed!Read, FeedLog, Upto, PayloadsReceived
<1>. QED BY <1>15 DEF Feed!Next

LEMMA FeedInit == Init => Feed!Init
<1>1. Init => FeedLog = EmptyLog
  BY DEF Init, FeedLog, EmptyLog, Payloads
<1>. QED BY <1>1, SameEvents DEF Init, Feed!Init, FeedLog, Payloads

LEMMA FeedStep ==
  ASSUME TypeOK, TypeOK', FeedInv, FeedInv', [Next]_vars
  PROVE  [Feed!Next]_(Feed!vars)
<1>1. CASE CommitEvent \/ PublishLiveEvent
  BY <1>1, CommitPublishes, LivePublishes
<1>2. CASE Close
  BY <1>2 DEF Close, logVars, readerVars, Feed!Next, Feed!Detach, Payloads, Payload
<1>3. ASSUME NEW s \in Subscribers, Subscribe(s) \/ Read(s)
      PROVE  Feed!Next
  BY <1>3, SubscribeSubscribes, ReadReads
<1>4. ASSUME NEW s \in Subscribers, ReadEnd(s) \/ Drop(s)
      PROVE  UNCHANGED Feed!vars
  BY <1>4 DEF ReadEnd, Drop, logVars, Feed!vars, Payloads, Payload
<1>5. CASE UNCHANGED vars \/ AtRest
  BY <1>5 DEF AtRest, vars, logVars, readerVars, Feed!vars, Payloads, Payload
<1>. QED BY <1>1, <1>2, <1>3, <1>4, <1>5 DEF Next

(***************************************************************************)
(* The log keeps the promise of EventFeed: the store, the projection and   *)
(* what is published move together, and each subscriber receives a run of  *)
(* the feed without a gap, until it is detached.                           *)
(***************************************************************************)
THEOREM LogImplementsFeed == Spec => ImplementsFeed
<1>1. Init => Feed!Init /\ FeedInv
  BY FeedInit, FeedInvInit
<1>2. TypeOK /\ FeedInv /\ [Next]_vars => FeedInv'
  BY FeedInvStep
<1>3. TypeOK /\ TypeOK' /\ FeedInv /\ FeedInv' /\ [Next]_vars => [Feed!Next]_(Feed!vars)
  BY FeedStep
<1>. QED BY <1>1, <1>2, <1>3, LogTypeCorrect, PTL DEF Spec, ImplementsFeed, Feed!Spec
===============================================================================
