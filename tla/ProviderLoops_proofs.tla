------------------------ MODULE ProviderLoops_proofs ------------------------
(***************************************************************************)
(* The loops of the providers, for replies of any length.  First what      *)
(* events tell a consumer and what the vendors may send; then, a dialect   *)
(* at a time, that every event of the wire leaves a machine that can go on *)
(* or has told its end; then that a machine follows the reply: its message *)
(* has what the vendor sent, and its consumer what the message has, for    *)
(* Anthropic, Bedrock and Completions here, for the others in              *)
(* ProviderStream_proofs.                                                  *)
(***************************************************************************)
EXTENDS ProviderStreamProperties, WellFoundedInduction, FiniteSetTheorems,
        TLAPS

-----------------------------------------------------------------------------
(* A consumer reads event by event. *)

IsSequence(s) == \E S : s \in Seq(S)

LEMMA Appended ==
  ASSUME NEW s, IsSequence(s), NEW e
  PROVE  /\ IsSequence(Append(s, e))
         /\ Len(s) \in Nat /\ DOMAIN s = 1..Len(s)
         /\ Len(Append(s, e)) = Len(s) + 1
         /\ DOMAIN Append(s, e) = 1..Len(s) + 1
         /\ Append(s, e)[Len(s) + 1] = e
         /\ \A i \in 1..Len(s) : Append(s, e)[i] = s[i]
<1>1. PICK S : s \in Seq(S)
  BY DEF IsSequence
<1>2. s \in Seq(S \cup {e})
  BY <1>1
<1>3. Append(s, e) \in Seq(S \cup {e})
  BY <1>2
<1>. QED BY <1>2, <1>3 DEF IsSequence

LEMMA LeastNatural ==
  ASSUME NEW T, T \subseteq Nat, T # {}
  PROVE  \E n \in T : \A m \in T : n <= m
<1>. DEFINE R == OpToRel(<, Nat)
<1>1. IsWellFoundedOn(R, Nat)
  BY NatLessThanWellFounded
<1>2. \A m, n \in Nat : m < n => <<m, n>> \in R
  BY DEF OpToRel
<1>. HIDE DEF R
<1>3. PICK n \in T : \A m \in T : ~(<<m, n>> \in R)
  BY <1>1, WFMin
<1>4. ASSUME NEW m \in T PROVE n <= m
  <2>1. m \in Nat /\ n \in Nat
    OBVIOUS
  <2>2. ~(m < n)
    BY <1>2, <1>3, <2>1
  <2>. QED BY <2>1, <2>2
<1>. QED BY <1>4

\* f is what ConsumeAll knows after each of the first n events of s.
Knows(f, v, s, n) ==
  f = [i \in 0..n |-> IF i = 0 THEN v ELSE Consume(f[i - 1], s[i])]

LEMMA KnowsFields ==
  ASSUME NEW v, NEW s, NEW n \in Nat, NEW f, Knows(f, v, s, n)
  PROVE  /\ DOMAIN f = 0..n /\ f[0] = v
         /\ \A i \in 1..n : f[i] = Consume(f[i - 1], s[i])
<1>. HIDE DEF Consume
<1>. QED BY DEF Knows

LEMMA KnowledgeExists ==
  ASSUME NEW v, NEW s, NEW n \in Nat
  PROVE  \E f : Knows(f, v, s, n)
<1>. DEFINE T == {k \in Nat : ~\E f : Knows(f, v, s, k)}
<1>1. 0 \notin T
  <2>. DEFINE f == [i \in 0..0 |-> v]
  <2>1. Knows(f, v, s, 0)
    BY DEF Knows
  <2>. QED BY <2>1
<1>2. ASSUME NEW k \in Nat, k \notin T PROVE k + 1 \notin T
  <2>1. PICK f : Knows(f, v, s, k)
    BY <1>2
  <2>. DEFINE g == [i \in 0..k + 1 |->
                      IF i = k + 1 THEN Consume(f[k], s[k + 1]) ELSE f[i]]
  <2>2. \A i \in 0..k + 1 :
          g[i] = IF i = 0 THEN v ELSE Consume(g[i - 1], s[i])
    <3>1. DOMAIN f = 0..k /\ f[0] = v /\ \A i \in 1..k : f[i] = Consume(f[i - 1], s[i])
      BY <2>1, KnowsFields
    <3>2. \A i \in 0..k : g[i] = f[i]
      OBVIOUS
    <3>3. g[k + 1] = Consume(f[k], s[k + 1])
      OBVIOUS
    <3>. HIDE DEF g
    <3>4. ASSUME NEW i \in 1..k PROVE g[i] = Consume(g[i - 1], s[i])
      BY <3>1, <3>2
    <3>5. g[k + 1] = Consume(g[k], s[k + 1]) /\ (k + 1) - 1 = k
      BY <3>2, <3>3
    <3>6. g[0] = v
      BY <3>1, <3>2
    <3>. QED BY <3>4, <3>5, <3>6
  <2>3. g = [i \in 0..k + 1 |-> g[i]]
    OBVIOUS
  <2>. HIDE DEF g
  <2>4. Knows(g, v, s, k + 1)
    BY <2>2, <2>3 DEF Knows
  <2>. QED BY <2>4
<1>3. T = {}
  <2>. SUFFICES ASSUME T # {} PROVE FALSE
    OBVIOUS
  <2>1. PICK k \in T : \A m \in T : k <= m
    BY LeastNatural
  <2>. HIDE DEF T
  <2>2. k \in Nat
    BY <2>1 DEF T
  <2>3. k # 0 /\ k - 1 \in Nat /\ (k - 1) + 1 = k
    BY <1>1, <2>1, <2>2
  <2>4. k - 1 \notin T
    BY <2>1, <2>2
  <2>. QED BY <1>2, <2>1, <2>3, <2>4
<1>. QED BY <1>3

LEMMA ConsumeAllIs ==
  ASSUME NEW v, NEW s, Len(s) \in Nat
  PROVE  \E f : Knows(f, v, s, Len(s)) /\ ConsumeAll(v, s) = f[Len(s)]
<1>. DEFINE f == CHOOSE f : Knows(f, v, s, Len(s))
<1>1. Knows(f, v, s, Len(s))
  BY KnowledgeExists
<1>2. ConsumeAll(v, s) = f[Len(s)]
  BY DEF ConsumeAll, Knows
<1>. QED BY <1>1, <1>2

LEMMA KnowledgeAgrees ==
  ASSUME NEW v, NEW s, NEW u, NEW n \in Nat, NEW m \in Nat, NEW f, NEW g,
         Knows(f, v, s, n), Knows(g, v, u, m), n <= m, \A i \in 1..n : u[i] = s[i]
  PROVE  g[n] = f[n]
<1>. DEFINE T == {i \in 0..n : g[i] # f[i]}
<1>1. /\ f[0] = v /\ \A i \in 1..n : f[i] = Consume(f[i - 1], s[i])
      /\ g[0] = v /\ \A i \in 1..m : g[i] = Consume(g[i - 1], u[i])
  BY KnowsFields
<1>2. T = {}
  <2>. SUFFICES ASSUME T # {} PROVE FALSE
    OBVIOUS
  <2>1. T \subseteq Nat
    OBVIOUS
  <2>2. PICK k \in T : \A i \in T : k <= i
    BY <2>1, LeastNatural
  <2>3. k \in 0..n /\ g[k] # f[k]
    BY <2>2
  <2>4. k # 0 /\ k \in 1..n /\ k \in 1..m /\ k - 1 \in 0..n /\ ~(k <= k - 1)
    BY <1>1, <2>3
  <2>5. g[k - 1] = f[k - 1]
    BY <2>2, <2>4
  <2>. QED BY <1>1, <2>3, <2>4, <2>5
<1>. QED BY <1>2

LEMMA ConsumeNothing == ASSUME NEW v PROVE ConsumeAll(v, <<>>) = v
<1>1. Len(<<>>) = 0
  OBVIOUS
<1>2. PICK f : Knows(f, v, <<>>, 0) /\ ConsumeAll(v, <<>>) = f[0]
  BY <1>1, ConsumeAllIs
<1>. QED BY <1>2, KnowsFields

LEMMA ConsumeAppended ==
  ASSUME NEW v, NEW s, IsSequence(s), NEW e
  PROVE  ConsumeAll(v, Append(s, e)) = Consume(ConsumeAll(v, s), e)
<1>. DEFINE u == Append(s, e)
            n == Len(s)
<1>1. n \in Nat /\ Len(u) = n + 1 /\ u[n + 1] = e /\ \A i \in 1..n : u[i] = s[i]
  BY Appended
<1>. HIDE DEF u
<1>2. PICK f : Knows(f, v, s, n) /\ ConsumeAll(v, s) = f[n]
  BY <1>1, ConsumeAllIs
<1>3. PICK g : Knows(g, v, u, n + 1) /\ ConsumeAll(v, u) = g[n + 1]
  BY <1>1, ConsumeAllIs
<1>4. g[n] = f[n]
  BY <1>1, <1>2, <1>3, KnowledgeAgrees
<1>5. g[n + 1] = Consume(g[n], u[n + 1])
  BY <1>1, <1>3, KnowsFields
<1>. QED BY <1>1, <1>2, <1>3, <1>4, <1>5 DEF u

-----------------------------------------------------------------------------
(* What a consumer knows while the stream is open: its blocks. *)

Live(kind, text) == [kind |-> kind, text |-> text, live |-> TRUE]
Shut(kind, text) == [kind |-> kind, text |-> text, live |-> FALSE]
Open(bs) == [phase |-> "open", blocks |-> bs, last |-> NoMessage, reason |-> "none",
             lawful |-> TRUE]
Over(bs, reason, message) ==
  [phase |-> "done", blocks |-> bs, last |-> message, reason |-> reason,
   lawful |-> TRUE]
Broken(bs, reason, message) ==
  [phase |-> "error", blocks |-> bs, last |-> message, reason |-> reason,
   lawful |-> TRUE]

LEMMA ExpectedIs ==
  ASSUME NEW v, NEW e
  PROVE  /\ (e.type = "start" /\ v.phase = "quiet") => Expected(v, e)
         /\ (e.type = "open" /\ v.phase = "open") =>
              ((e.at \in DOMAIN v.blocks =>
                  /\ Announced(v, e)
                  /\ v.blocks[e.at].text = <<>>
                  /\ v.blocks[e.at].live)
                 => Expected(v, e))
         /\ (e.type \in {"delta", "end"} /\ v.phase = "open") =>
              ((Announced(v, e) /\ v.blocks[e.at].live) => Expected(v, e))
         /\ (e.type = "done" /\ v.phase = "open") => Expected(v, e)
         /\ (e.type = "error" /\ v.phase \in {"quiet", "open"}) => Expected(v, e)
<1>. HIDE DEF Announced
<1>. QED BY DEF Expected

LEMMA ConsumeIs ==
  ASSUME NEW v, NEW e, Expected(v, e)
  PROVE  /\ e.type = "start" => Consume(v, e) = [v EXCEPT !.phase = "open"]
         /\ e.type = "open" =>
              Consume(v, e) = [v EXCEPT !.blocks = Put(v.blocks, e.at,
                                 [kind |-> e.kind, text |-> <<>>, live |-> TRUE])]
         /\ e.type = "delta" =>
              Consume(v, e) = [v EXCEPT !.blocks[e.at].text = @ \o e.text]
         /\ e.type = "end" =>
              Consume(v, e) = [v EXCEPT !.blocks[e.at] =
                                 [kind |-> e.kind, text |-> e.text, live |-> FALSE]]
         /\ e.type = "done" =>
              Consume(v, e) = [v EXCEPT !.phase = "done", !.last = e.message,
                                        !.reason = e.reason]
         /\ e.type = "error" =>
              Consume(v, e) = [v EXCEPT !.phase = "error", !.last = e.message,
                                        !.reason = e.reason]
<1>1. ASSUME e.type = "start" PROVE  Consume(v, e) = [v EXCEPT !.phase = "open"]
  BY <1>1, Zenon DEF Consume, Learn
<1>2. ASSUME e.type = "open"
      PROVE  Consume(v, e) = [v EXCEPT !.blocks = Put(v.blocks, e.at,
                                [kind |-> e.kind, text |-> <<>>, live |-> TRUE])]
  BY <1>2, Zenon DEF Consume, Learn
<1>3. ASSUME e.type = "delta"
      PROVE  Consume(v, e) = [v EXCEPT !.blocks[e.at].text = @ \o e.text]
  BY <1>3, Zenon DEF Consume, Learn
<1>4. ASSUME e.type = "end"
      PROVE  Consume(v, e) = [v EXCEPT !.blocks[e.at] =
                                [kind |-> e.kind, text |-> e.text, live |-> FALSE]]
  BY <1>4, Zenon DEF Consume, Learn
<1>5. ASSUME e.type = "done"
      PROVE  Consume(v, e) = [v EXCEPT !.phase = e.type, !.last = e.message,
                                       !.reason = e.reason]
  BY <1>5, Zenon DEF Consume, Learn
<1>6. ASSUME e.type = "error"
      PROVE  Consume(v, e) = [v EXCEPT !.phase = e.type, !.last = e.message,
                                       !.reason = e.reason]
  BY <1>6, Zenon DEF Consume, Learn
<1>. HIDE DEF Consume, Put
<1>7. ASSUME e.type = "done"
      PROVE  Consume(v, e) = [v EXCEPT !.phase = "done", !.last = e.message,
                                       !.reason = e.reason]
  BY <1>5, <1>7
<1>8. ASSUME e.type = "error"
      PROVE  Consume(v, e) = [v EXCEPT !.phase = "error", !.last = e.message,
                                       !.reason = e.reason]
  BY <1>6, <1>8
<1>. QED BY <1>1, <1>2, <1>3, <1>4, <1>7, <1>8, Zenon

LEMMA ConsumeStarted == Consume(Unseen, Started) = Open(<<>>)
<1>1. Started.type = "start" /\ Unseen.phase = "quiet"
  BY DEF Started, Unseen
<1>2. Expected(Unseen, Started)
  BY <1>1, ExpectedIs
<1>3. Consume(Unseen, Started) = [Unseen EXCEPT !.phase = "open"]
  BY <1>1, <1>2, ConsumeIs
<1>. QED BY <1>3 DEF Unseen, Open

LEMMA ConsumeOpened ==
  ASSUME NEW bs, NEW i, NEW kind,
         i \in DOMAIN bs => bs[i] = Live(kind, <<>>)
  PROVE  Consume(Open(bs), Opened(i, kind)) = Open(Put(bs, i, Live(kind, <<>>)))
<1>. DEFINE e == Opened(i, kind)
<1>1. e.type = "open" /\ e.at = i /\ e.kind = kind
  BY DEF Opened
<1>. HIDE DEF e
<1>2. Expected(Open(bs), e)
  BY <1>1, ExpectedIs DEF Announced, Open, Live
<1>. HIDE DEF Put
<1>3. Consume(Open(bs), e) = [Open(bs) EXCEPT !.blocks = Put(bs, i, Live(kind, <<>>))]
  BY <1>1, <1>2, ConsumeIs DEF Open, Live
<1>. QED BY <1>3 DEF Open, e

IsView(v) ==
  v = [phase |-> v.phase, blocks |-> v.blocks, last |-> v.last, reason |-> v.reason,
       lawful |-> v.lawful]

LEMMA ViewExcept ==
  ASSUME NEW v, IsView(v), NEW x, NEW w, w = [v EXCEPT !.blocks = x]
  PROVE  w = [phase |-> v.phase, blocks |-> x, last |-> v.last, reason |-> v.reason,
              lawful |-> v.lawful]
BY Zenon DEF IsView

LEMMA OpenExcept ==
  ASSUME NEW bs, NEW x
  PROVE  [Open(bs) EXCEPT !.blocks = x] = Open(x)
<1>. DEFINE v == Open(bs)
            w == [v EXCEPT !.blocks = x]
<1>1. /\ IsView(v) /\ v.phase = "open" /\ v.last = NoMessage /\ v.reason = "none"
      /\ v.lawful = TRUE
  BY DEF Open, IsView
<1>. HIDE DEF v
<1>2. w = [v EXCEPT !.blocks = x]
  OBVIOUS
<1>. HIDE DEF w
<1>3. w = [phase |-> v.phase, blocks |-> x, last |-> v.last, reason |-> v.reason,
           lawful |-> v.lawful]
  BY <1>1, <1>2, ViewExcept, Zenon
<1>4. w = Open(x)
  BY <1>1, <1>3, Zenon DEF Open
<1>. QED BY <1>4 DEF v, w

Retold(block, text) == [block EXCEPT !.text = text]
RetoldAt(v, i, text) == [v EXCEPT !.blocks[i].text = text]

LEMMA RetoldLive ==
  ASSUME NEW kind, NEW text, NEW x
  PROVE  Retold(Live(kind, text), x) = Live(kind, x)
<1>1. \A live : Retold([kind |-> kind, text |-> text, live |-> live], x)
                   = [kind |-> kind, text |-> x, live |-> live]
  BY SMT DEF Retold
<1>. QED BY <1>1, Zenon DEF Live

LEMMA RetoldOpen ==
  ASSUME NEW bs, NEW i \in DOMAIN bs, NEW kind, NEW said, NEW text,
         bs[i] = Live(kind, said)
  PROVE  RetoldAt(Open(bs), i, text) = Open(Put(bs, i, Live(kind, text)))
<1>. DEFINE x == Live(kind, text)
<1>1. [bs EXCEPT ![i].text = text] = [bs EXCEPT ![i] = Retold(bs[i], text)]
  BY Zenon DEF Retold
<1>2. Retold(bs[i], text) = x
  <2>. HIDE DEF Live
  <2>1. Retold(Live(kind, said), text) = Live(kind, text)
    BY RetoldLive, Zenon
  <2>. QED BY <2>1, Zenon
<1>. HIDE DEF x
<1>3. [bs EXCEPT ![i] = x] = Put(bs, i, x)
  <2>1. DOMAIN bs \cup {i} = DOMAIN bs
    OBVIOUS
  <2>. QED BY <2>1 DEF Put
<1>4. RetoldAt(Open(bs), i, text) = [Open(bs) EXCEPT !.blocks = [bs EXCEPT ![i].text = text]]
  BY DEF Open, RetoldAt
<1>. HIDE DEF Put, Open
<1>5. [bs EXCEPT ![i].text = text] = Put(bs, i, x)
  BY <1>1, <1>2, <1>3, Zenon
<1>6. RetoldAt(Open(bs), i, text) = [Open(bs) EXCEPT !.blocks = Put(bs, i, x)]
  BY <1>4, <1>5, Zenon
<1>7. [Open(bs) EXCEPT !.blocks = Put(bs, i, x)] = Open(Put(bs, i, x))
  BY OpenExcept
<1>. QED BY <1>6, <1>7, Zenon DEF x

LEMMA ConsumeDelta ==
  ASSUME NEW bs, NEW i \in DOMAIN bs, NEW kind, NEW said, NEW text,
         bs[i] = Live(kind, said)
  PROVE  Consume(Open(bs), Delta(i, kind, text))
           = Open(Put(bs, i, Live(kind, said \o text)))
<1>. DEFINE e == Delta(i, kind, text)
<1>1. e.type = "delta" /\ e.at = i /\ e.kind = kind /\ e.text = text
  BY DEF Delta
<1>. HIDE DEF e
<1>2. Expected(Open(bs), e)
  BY <1>1, ExpectedIs DEF Announced, Open, Live
<1>3. Consume(Open(bs), e) = [Open(bs) EXCEPT !.blocks[i].text = @ \o text]
  BY <1>1, <1>2, ConsumeIs
<1>4. Open(bs).blocks[i].text = said
  BY DEF Open, Live
<1>5. Consume(Open(bs), e) = RetoldAt(Open(bs), i, said \o text)
  BY <1>3, <1>4, Zenon DEF RetoldAt
<1>. HIDE DEF Open, Put, Live
<1>. QED BY <1>5, RetoldOpen DEF e

LEMMA ConsumeEnded ==
  ASSUME NEW bs, NEW i \in DOMAIN bs, NEW block, NEW said,
         bs[i] = Live(block.kind, said)
  PROVE  Consume(Open(bs), Ended(i, block))
           = Open(Put(bs, i, Shut(block.kind, block.text)))
<1>. DEFINE e == Ended(i, block)
<1>1. e.type = "end" /\ e.at = i /\ e.kind = block.kind /\ e.text = block.text
  BY DEF Ended
<1>. HIDE DEF e
<1>2. Expected(Open(bs), e)
  BY <1>1, ExpectedIs DEF Announced, Open, Live
<1>3. Consume(Open(bs), e)
        = [Open(bs) EXCEPT !.blocks[i] = Shut(block.kind, block.text)]
  <2>1. Consume(Open(bs), e)
          = [Open(bs) EXCEPT !.blocks[e.at] =
               [kind |-> e.kind, text |-> e.text, live |-> FALSE]]
    BY <1>1, <1>2, ConsumeIs
  <2>2. [kind |-> e.kind, text |-> e.text, live |-> FALSE]
          = Shut(block.kind, block.text)
    BY <1>1 DEF Shut
  <2>. QED BY <1>1, <2>1, <2>2
<1>4. [bs EXCEPT ![i] = Shut(block.kind, block.text)]
        = Put(bs, i, Shut(block.kind, block.text))
  <2>1. DOMAIN bs \cup {i} = DOMAIN bs
    OBVIOUS
  <2>. QED BY <2>1 DEF Put
<1>5. Consume(Open(bs), e)
        = [Open(bs) EXCEPT !.blocks = [bs EXCEPT ![i] = Shut(block.kind, block.text)]]
  BY <1>3 DEF Open
<1>. HIDE DEF Live, Shut, Put
<1>. QED BY <1>4, <1>5 DEF Open, e

LEMMA ConsumeLast ==
  ASSUME NEW v, IsView(v), NEW reason, NEW message
  PROVE  /\ v.phase \in {"quiet", "open"} =>
              Consume(v, Failed(reason, message))
                = [phase |-> "error", blocks |-> v.blocks, last |-> message,
                   reason |-> reason, lawful |-> v.lawful]
         /\ v.phase = "open" =>
              Consume(v, Done(reason, message))
                = [phase |-> "done", blocks |-> v.blocks, last |-> message,
                   reason |-> reason, lawful |-> v.lawful]
<1>1. ASSUME v.phase \in {"quiet", "open"}, NEW w, w = Consume(v, Failed(reason, message))
      PROVE  w = [phase |-> "error", blocks |-> v.blocks, last |-> message,
                  reason |-> reason, lawful |-> v.lawful]
  <2>. DEFINE e == Failed(reason, message)
  <2>1. e.type = "error" /\ e.message = message /\ e.reason = reason
    BY DEF Failed
  <2>. HIDE DEF e
  <2>2. Expected(v, e)
    BY <1>1, <2>1, ExpectedIs
  <2>3. Consume(v, e) = [v EXCEPT !.phase = "error", !.last = message, !.reason = reason]
    BY <2>1, <2>2, ConsumeIs
  <2>4. w = [v EXCEPT !.phase = "error", !.last = message, !.reason = reason]
    BY <1>1, <2>3 DEF e
  <2>. QED BY <2>4, Zenon DEF IsView
<1>2. ASSUME v.phase = "open", NEW w, w = Consume(v, Done(reason, message))
      PROVE  w = [phase |-> "done", blocks |-> v.blocks, last |-> message,
                  reason |-> reason, lawful |-> v.lawful]
  <2>. DEFINE e == Done(reason, message)
  <2>1. e.type = "done" /\ e.message = message /\ e.reason = reason
    BY DEF Done
  <2>. HIDE DEF e
  <2>2. Expected(v, e)
    BY <1>2, <2>1, ExpectedIs
  <2>3. Consume(v, e) = [v EXCEPT !.phase = "done", !.last = message, !.reason = reason]
    BY <2>1, <2>2, ConsumeIs
  <2>4. w = [v EXCEPT !.phase = "done", !.last = message, !.reason = reason]
    BY <1>2, <2>3 DEF e
  <2>. QED BY <2>4, Zenon DEF IsView
<1>. HIDE DEF Consume, Failed, Done
<1>. QED BY <1>1, <1>2

LEMMA ConsumeEnd ==
  ASSUME NEW bs, NEW reason, NEW message
  PROVE  /\ Consume(Open(bs), Done(reason, message)) = Over(bs, reason, message)
         /\ Consume(Open(bs), Failed(reason, message)) = Broken(bs, reason, message)
         /\ Consume(Unseen, Failed(reason, message)) = Broken(<<>>, reason, message)
<1>1. IsView(Open(bs)) /\ IsView(Unseen)
  BY DEF IsView, Open, Unseen
<1>2. /\ Open(bs).phase = "open" /\ Open(bs).blocks = bs /\ Open(bs).lawful = TRUE
      /\ Unseen.phase = "quiet" /\ Unseen.blocks = <<>> /\ Unseen.lawful = TRUE
  BY DEF Open, Unseen
<1>3. Consume(Open(bs), Done(reason, message)) = Over(bs, reason, message)
  BY <1>1, <1>2, ConsumeLast DEF Over
<1>4. Consume(Open(bs), Failed(reason, message)) = Broken(bs, reason, message)
  BY <1>1, <1>2, ConsumeLast DEF Broken
<1>5. Consume(Unseen, Failed(reason, message)) = Broken(<<>>, reason, message)
  BY <1>1, <1>2, ConsumeLast DEF Broken
<1>. QED BY <1>3, <1>4, <1>5

LEMMA Consumed ==
  ASSUME NEW bs, NEW i
  PROVE  /\ \A kind : (i \in DOMAIN bs => bs[i] = Live(kind, <<>>)) =>
              Consume(Open(bs), Opened(i, kind)) = Open(Put(bs, i, Live(kind, <<>>)))
         /\ \A kind, said, text : (i \in DOMAIN bs /\ bs[i] = Live(kind, said)) =>
              Consume(Open(bs), Delta(i, kind, text)) = Open(Put(bs, i, Live(kind, said \o text)))
         /\ \A block, said : (i \in DOMAIN bs /\ bs[i] = Live(block.kind, said)) =>
              Consume(Open(bs), Ended(i, block)) = Open(Put(bs, i, Shut(block.kind, block.text)))
<1>1. ASSUME NEW kind, i \in DOMAIN bs => bs[i] = Live(kind, <<>>)
      PROVE  Consume(Open(bs), Opened(i, kind)) = Open(Put(bs, i, Live(kind, <<>>)))
  BY <1>1, ConsumeOpened, Zenon
<1>2. ASSUME NEW kind, NEW said, NEW text, i \in DOMAIN bs, bs[i] = Live(kind, said)
      PROVE  Consume(Open(bs), Delta(i, kind, text)) = Open(Put(bs, i, Live(kind, said \o text)))
  BY <1>2, ConsumeDelta, SMT
<1>3. ASSUME NEW block, NEW said, i \in DOMAIN bs, bs[i] = Live(block.kind, said)
      PROVE  Consume(Open(bs), Ended(i, block)) = Open(Put(bs, i, Shut(block.kind, block.text)))
  BY <1>3, ConsumeEnded, Zenon
<1>. QED BY <1>1, <1>2, <1>3, Zenon

LEMMA PutReads ==
  ASSUME NEW bs, NEW i, NEW x
  PROVE  /\ DOMAIN Put(bs, i, x) = DOMAIN bs \cup {i}
         /\ Put(bs, i, x)[i] = x
         /\ \A j \in DOMAIN bs : j # i => Put(bs, i, x)[j] = bs[j]
BY DEF Put

LEMMA PutPut ==
  ASSUME NEW bs, NEW i, NEW x, NEW y
  PROVE  Put(Put(bs, i, x), i, y) = Put(bs, i, y)
<1>1. DOMAIN Put(bs, i, x) \cup {i} = DOMAIN bs \cup {i}
  BY PutReads
<1>2. \A j \in DOMAIN bs \cup {i} :
        (IF j = i THEN y ELSE Put(bs, i, x)[j]) = (IF j = i THEN y ELSE bs[j])
  <2>. SUFFICES ASSUME NEW j \in DOMAIN bs \cup {i}
                PROVE  (IF j = i THEN y ELSE Put(bs, i, x)[j]) = (IF j = i THEN y ELSE bs[j])
    OBVIOUS
  <2>1. CASE j = i
    BY <2>1
  <2>2. CASE j # i
    <3>1. j \in DOMAIN bs
      BY <2>2
    <3>2. Put(bs, i, x)[j] = bs[j]
      BY <2>2, <3>1 DEF Put
    <3>. QED BY <2>2, <3>2
  <2>. QED BY <2>1, <2>2
<1>3. Put(Put(bs, i, x), i, y)
        = [j \in DOMAIN Put(bs, i, x) \cup {i} |-> IF j = i THEN y ELSE Put(bs, i, x)[j]]
  <2>. DEFINE cs == Put(bs, i, x)
  <2>. HIDE DEF cs
  <2>1. Put(cs, i, y) = [j \in DOMAIN cs \cup {i} |-> IF j = i THEN y ELSE cs[j]]
    BY DEF Put
  <2>. QED BY <2>1 DEF cs
<1>4. Put(bs, i, y) = [j \in DOMAIN bs \cup {i} |-> IF j = i THEN y ELSE bs[j]]
  BY Zenon DEF Put
<1>. HIDE DEF Put
<1>5. [j \in DOMAIN bs \cup {i} |-> IF j = i THEN y ELSE Put(bs, i, x)[j]]
        = [j \in DOMAIN bs \cup {i} |-> IF j = i THEN y ELSE bs[j]]
  BY <1>2, Zenon
<1>. QED BY <1>1, <1>3, <1>4, <1>5, Zenon

LEMMA ConsumeFew ==
  ASSUME NEW v, NEW a, NEW b, NEW c, NEW e, NEW f
  PROVE  /\ ConsumeAll(v, Append(<<>>, a)) = Consume(v, a)
         /\ ConsumeAll(v, Append(Append(<<>>, a), b)) = Consume(Consume(v, a), b)
         /\ ConsumeAll(v, Append(Append(Append(<<>>, a), b), c))
              = Consume(Consume(Consume(v, a), b), c)
         /\ ConsumeAll(v, Append(Append(Append(Append(<<>>, a), b), c), e))
              = Consume(Consume(Consume(Consume(v, a), b), c), e)
         /\ ConsumeAll(v, Append(Append(Append(Append(Append(<<>>, a), b), c), e), f))
              = Consume(Consume(Consume(Consume(Consume(v, a), b), c), e), f)
<1>. DEFINE s1 == Append(<<>>, a)
            s2 == Append(s1, b)
            s3 == Append(s2, c)
            s4 == Append(s3, e)
<1>1. <<>> \in Seq({})
  OBVIOUS
<1>2. IsSequence(<<>>)
  BY <1>1 DEF IsSequence
<1>3. IsSequence(s1) /\ IsSequence(s2) /\ IsSequence(s3) /\ IsSequence(s4)
  <2>1. IsSequence(s1)
    BY <1>2, Appended
  <2>. HIDE DEF s1
  <2>2. IsSequence(s2)
    BY <2>1, Appended
  <2>. HIDE DEF s2
  <2>3. IsSequence(s3)
    BY <2>2, Appended
  <2>. HIDE DEF s3
  <2>4. IsSequence(s4)
    BY <2>3, Appended
  <2>. QED BY <2>1, <2>2, <2>3, <2>4
<1>4. ConsumeAll(v, s1) = Consume(v, a)
  <2>1. ConsumeAll(v, Append(<<>>, a)) = Consume(ConsumeAll(v, <<>>), a)
    BY <1>2, ConsumeAppended
  <2>. QED BY <2>1, ConsumeNothing
<1>. HIDE DEF s1
<1>5. ConsumeAll(v, s2) = Consume(Consume(v, a), b)
  BY <1>3, <1>4, ConsumeAppended
<1>. HIDE DEF s2
<1>6. ConsumeAll(v, s3) = Consume(Consume(Consume(v, a), b), c)
  BY <1>3, <1>5, ConsumeAppended
<1>. HIDE DEF s3
<1>7. ConsumeAll(v, s4) = Consume(Consume(Consume(Consume(v, a), b), c), e)
  BY <1>3, <1>6, ConsumeAppended
<1>. HIDE DEF s4
<1>8. ConsumeAll(v, Append(s4, f))
        = Consume(Consume(Consume(Consume(Consume(v, a), b), c), e), f)
  BY <1>3, <1>7, ConsumeAppended
<1>. QED BY <1>4, <1>5, <1>6, <1>7, <1>8 DEF s1, s2, s3, s4

-----------------------------------------------------------------------------
(* What the vendor sends, move by move. *)

Sizes(r, n) ==
  DOMAIN r = DOMAIN Reply /\ IsSequence(r.blocks) /\ Len(r.blocks) = n

SaidFields == {"kind", "sent", "first", "sig", "whole", "open", "named"}
Alike(s, t) ==
  /\ DOMAIN s = SaidFields /\ DOMAIN t = SaidFields
  /\ s.kind = t.kind /\ s.sent = t.sent /\ s.sig = t.sig /\ s.named = t.named
  /\ s.whole = t.whole /\ s.first = t.first

IsSaid(api, b, s) ==
  /\ DOMAIN s = SaidFields
  /\ s.kind \in Kinds \cup {"redacted"}
  /\ s.kind = "redacted" => api = "anthropic" /\ s.sent = <<>> /\ s.sig = <<b>>
  /\ s.sent \in Seq(Seq(Nat)) /\ Len(s.sent) <= MaxFragments
  /\ s.first \in Seq(Seq(Nat))
  /\ s.sig \in {<<>>, <<b>>}
  /\ s.whole \in BOOLEAN /\ s.open \in BOOLEAN /\ s.named \in BOOLEAN
  /\ api # "google" => s.named
  /\ api # "google" /\ s.kind = "tool" => s.sig = <<>>
  /\ api = "google" /\ s.kind = "tool" => ~s.open

IsReply(api, r) ==
  /\ Sizes(r, Len(r.blocks)) /\ Len(r.blocks) <= MaxBlocks
  /\ \A b \in 1..Len(r.blocks) : IsSaid(api, b, r.blocks[b])
  /\ r.stop \in {"none", "length", "refused", "tool_use", "stop"}
  /\ r.stop # "none" => r.complete
  /\ Closes(api) /\ r.stop # "none" => \A b \in 1..Len(r.blocks) : ~r.blocks[b].open

\* A block begins.
Begins(api, r, e, q) ==
  LET b == Len(r.blocks) + 1
      s == q.blocks[b]
  IN /\ Sizes(q, b)
     /\ q.stop = r.stop /\ q.complete = r.complete /\ q.over = r.over
     /\ DOMAIN s = SaidFields
     /\ s.kind = e.kind /\ s.sent = e.text /\ s.sig = e.sig /\ s.named = e.head
     /\ s.first = e.text
     /\ s.whole = FALSE /\ (s.open <=> ~(api = "google" /\ e.kind = "tool")) /\ s.open \in BOOLEAN
     /\ \A c \in 1..Len(r.blocks) :
          /\ Alike(q.blocks[c], r.blocks[c])
          /\ q.blocks[c].open <=> (r.blocks[c].open /\ c \notin Superseded(api, r))
          /\ q.blocks[c].open \in BOOLEAN
     /\ \/ /\ e.type = IF Framed(api) \/ (api = "bedrock" /\ e.kind = "tool") THEN "open"
                       ELSE "frag"
           /\ api = "responses" /\ e.kind = "text" => e.text = <<>>
        \/ api = "responses" /\ e.kind = "text" /\ e.type = "added"
     /\ e.b = b /\ e.kind \in Kinds \cup {"redacted"} /\ e.text \in Heads(api, e.kind, b)
     /\ e.sig \in {<<>>, <<b>>} /\ e.head \in Named(api, r, e.kind, e.sig)
     /\ MayBegin(api, r, e.kind) /\ MayComeSigned(api, e.kind, e.sig # <<>>)

LEMMA EndingIs ==
  ASSUME NEW api, NEW r, IsReply(api, r), NEW S
  PROVE  /\ IsSequence(Ending(r, S)) /\ Len(Ending(r, S)) = Len(r.blocks)
         /\ \A c \in 1..Len(r.blocks) :
              /\ Alike(Ending(r, S)[c], r.blocks[c])
              /\ Ending(r, S)[c].open <=> (r.blocks[c].open /\ c \notin S)
              /\ Ending(r, S)[c].open \in BOOLEAN
<1>. DEFINE n == Len(r.blocks)
            held == Ending(r, S)
<1>2. DOMAIN r = DOMAIN Reply /\ n \in Nat /\ DOMAIN r.blocks = 1..n
  BY Appended DEF IsReply, Sizes
<1>3. \A c \in 1..n : DOMAIN r.blocks[c] = SaidFields /\ r.blocks[c].open \in BOOLEAN
  BY DEF IsReply, IsSaid
<1>4. /\ IsSequence(held) /\ Len(held) = n
      /\ \A c \in 1..n :
           held[c] = [r.blocks[c] EXCEPT !.open = r.blocks[c].open /\ c \notin S]
  <2>1. DOMAIN held = 1..n
    BY <1>2 DEF Ending
  <2>2. \A c \in 1..n :
           held[c] = [r.blocks[c] EXCEPT !.open = r.blocks[c].open /\ c \notin S]
    BY <1>2, Zenon DEF Ending
  <2>3. held \in Seq(Range(held))
    BY <1>2 DEF Range, Ending
  <2>. HIDE DEF held
  <2>4. Len(held) = n
    BY <1>2, <2>1, <2>3
  <2>. QED BY <2>2, <2>3, <2>4 DEF IsSequence
<1>. SUFFICES ASSUME NEW c \in 1..n
              PROVE  /\ Alike(held[c], r.blocks[c])
                     /\ held[c].open <=> (r.blocks[c].open /\ c \notin S)
                     /\ held[c].open \in BOOLEAN
  BY <1>4, Zenon
<1>. DEFINE s == r.blocks[c]
            yet == s.open /\ c \notin S
<1>5. held[c] = [s EXCEPT !.open = yet]
  BY <1>4, Zenon
<1>6. yet \in BOOLEAN
  BY Zenon
<1>7. DOMAIN s = SaidFields
  BY <1>3
<1>. HIDE DEF held, s, yet
<1>8. /\ DOMAIN held[c] = SaidFields /\ held[c].open = yet
      /\ held[c].kind = s.kind /\ held[c].sent = s.sent /\ held[c].sig = s.sig
      /\ held[c].named = s.named /\ held[c].whole = s.whole
      /\ held[c].first = s.first
  BY <1>5, <1>7 DEF SaidFields
<1>9. held[c].open <=> s.open /\ c \notin S
  BY <1>8, Zenon DEF yet
<1>. QED BY <1>6, <1>7, <1>8, <1>9, Zenon DEF Alike, s

LEMMA BegunIs ==
  ASSUME NEW api, NEW r, IsReply(api, r), NEW kind, NEW text, NEW sig, NEW named
  PROVE  LET q == Begun(api, r, kind, text, sig, named)
             b == Len(r.blocks) + 1
             s == q.blocks[b]
         IN /\ Sizes(q, b)
            /\ q.stop = r.stop /\ q.complete = r.complete /\ q.over = r.over
            /\ DOMAIN s = SaidFields
            /\ s.kind = kind /\ s.sent = text /\ s.sig = sig /\ s.named = named
            /\ s.first = text
            /\ s.whole = FALSE /\ (s.open <=> ~(api = "google" /\ kind = "tool")) /\ s.open \in BOOLEAN
            /\ \A c \in 1..Len(r.blocks) :
                 /\ Alike(q.blocks[c], r.blocks[c])
                 /\ q.blocks[c].open <=> (r.blocks[c].open /\ c \notin Superseded(api, r))
                 /\ q.blocks[c].open \in BOOLEAN
<1>. DEFINE n == Len(r.blocks)
            S == Superseded(api, r)
            held == Ending(r, S)
            new == [kind |-> kind, sent |-> text, first |-> text, sig |-> sig,
                    whole |-> FALSE,
                    open |-> ~(api = "google" /\ kind = "tool"), named |-> named]
            q == Begun(api, r, kind, text, sig, named)
<1>1. q = [r EXCEPT !.blocks = Append(held, new)]
  BY Zenon DEF Begun
<1>2. DOMAIN r = DOMAIN Reply /\ n \in Nat /\ DOMAIN r.blocks = 1..n
  BY Appended DEF IsReply, Sizes
<1>. HIDE DEF S
<1>4. IsSequence(held) /\ Len(held) = n
  BY EndingIs
<1>5. \A c \in 1..n :
        /\ Alike(held[c], r.blocks[c])
        /\ held[c].open <=> (r.blocks[c].open /\ c \notin S)
        /\ held[c].open \in BOOLEAN
  BY EndingIs, Zenon
<1>. HIDE DEF held, new
<1>6. /\ IsSequence(Append(held, new)) /\ Len(Append(held, new)) = n + 1
      /\ Append(held, new)[n + 1] = new
      /\ \A c \in 1..n : Append(held, new)[c] = held[c]
  BY <1>4, Appended
<1>7. /\ DOMAIN q = DOMAIN Reply /\ q.blocks = Append(held, new)
      /\ q.stop = r.stop /\ q.complete = r.complete /\ q.over = r.over
  BY <1>1, <1>2 DEF Reply
<1>8. /\ DOMAIN new = SaidFields
      /\ new.kind = kind /\ new.sent = text /\ new.sig = sig /\ new.named = named
      /\ new.first = text /\ new.whole = FALSE
  BY DEF new, SaidFields
<1>9. (new.open <=> ~(api = "google" /\ kind = "tool")) /\ new.open \in BOOLEAN
  BY DEF new
<1>. HIDE DEF q
<1>10. Sizes(q, n + 1) /\ q.blocks[n + 1] = new /\ \A c \in 1..n : q.blocks[c] = held[c]
  BY <1>6, <1>7 DEF Sizes
<1>. QED BY <1>5, <1>7, <1>8, <1>9, <1>10, Zenon DEF q, S

\* The other blocks stay as they are, but for those that go on no more.
Rest(r, q, b, ended) ==
  \A c \in (1..Len(r.blocks)) \ {b} :
    /\ Alike(q.blocks[c], r.blocks[c])
    /\ q.blocks[c].open <=> (r.blocks[c].open /\ c \notin ended)
    /\ q.blocks[c].open \in BOOLEAN

\* The block at b changes, and the reply goes on.
Changes(r, q, b, ended) ==
  /\ Sizes(q, Len(r.blocks))
  /\ q.stop = r.stop /\ q.complete = r.complete /\ q.over = r.over
  /\ DOMAIN q.blocks[b] = SaidFields
  /\ q.blocks[b].kind = r.blocks[b].kind /\ q.blocks[b].named = r.blocks[b].named
  /\ q.blocks[b].first = r.blocks[b].first
  /\ Rest(r, q, b, ended)

\* q is r with s for the block at b, where these go on no more.
Exchanged(r, q, b, s, ended) ==
  /\ b \in 1..Len(r.blocks) /\ DOMAIN s = SaidFields
  /\ s.kind = r.blocks[b].kind /\ s.named = r.blocks[b].named
  /\ s.first = r.blocks[b].first
  /\ \/ ended = {} /\ q.blocks = [r.blocks EXCEPT ![b] = s]
     \/ q.blocks = [Ending(r, ended) EXCEPT ![b] = s]
  /\ DOMAIN q = DOMAIN r
  /\ q.stop = r.stop /\ q.complete = r.complete /\ q.over = r.over

LEMMA ChangedIs ==
  ASSUME NEW api, NEW r, IsReply(api, r), NEW q, NEW b, NEW s, NEW C,
         Exchanged(r, q, b, s, C)
  PROVE  Changes(r, q, b, C) /\ q.blocks[b] = s
<1>0. PICK held : /\ (held = r.blocks /\ C = {}) \/ held = Ending(r, C)
                  /\ q.blocks = [held EXCEPT ![b] = s]
  BY Zenon DEF Exchanged
<1>11. /\ b \in 1..Len(r.blocks) /\ DOMAIN s = SaidFields
       /\ s.kind = r.blocks[b].kind /\ s.named = r.blocks[b].named
       /\ s.first = r.blocks[b].first
       /\ DOMAIN q = DOMAIN r
       /\ q.stop = r.stop /\ q.complete = r.complete /\ q.over = r.over
  BY Zenon DEF Exchanged
<1>. DEFINE n == Len(r.blocks)
            new == [held EXCEPT ![b] = s]
<1>1. DOMAIN r = DOMAIN Reply /\ IsSequence(r.blocks) /\ n \in Nat /\ DOMAIN r.blocks = 1..n
  BY Appended DEF IsReply, Sizes
<1>2. \A c \in 1..n : DOMAIN r.blocks[c] = SaidFields /\ r.blocks[c].open \in BOOLEAN
  BY DEF IsReply, IsSaid
<1>3. IsSequence(held) /\ Len(held) = n
  BY <1>0, <1>1, EndingIs
<1>10. ASSUME NEW c \in 1..n
       PROVE  /\ Alike(held[c], r.blocks[c])
              /\ held[c].open <=> (r.blocks[c].open /\ c \notin C)
              /\ held[c].open \in BOOLEAN
  <2>1. CASE held = r.blocks /\ C = {}
    BY <1>2, <2>1 DEF Alike
  <2>2. CASE held = Ending(r, C)
    BY <2>2, EndingIs, Zenon
  <2>. QED BY <1>0, <2>1, <2>2
<1>4. PICK S : held \in Seq(S)
  BY <1>3 DEF IsSequence
<1>5. DOMAIN held = 1..n
  BY <1>3, Appended
<1>6. /\ IsSequence(new) /\ Len(new) = n /\ new[b] = s
      /\ \A c \in (1..n) \ {b} : new[c] = held[c]
  <2>1. new \in Seq(S \cup {s})
    BY <1>3, <1>4, <1>5, <1>11
  <2>2. DOMAIN new = 1..n
    BY <1>5
  <2>3. Len(new) = n
    BY <1>1, <2>1, <2>2
  <2>4. new[b] = s /\ \A c \in (1..n) \ {b} : new[c] = held[c]
    BY <1>5, <1>11
  <2>. QED BY <2>1, <2>3, <2>4 DEF IsSequence
<1>. HIDE DEF new
<1>7. DOMAIN q = DOMAIN Reply /\ q.blocks = new
  BY <1>0, <1>1, <1>11 DEF new
<1>8. Sizes(q, n)
  BY <1>6, <1>7 DEF Sizes
<1>9. Rest(r, q, b, C)
  BY <1>10, <1>6, <1>7, Zenon DEF Rest
<1>. QED BY <1>6, <1>7, <1>8, <1>9, <1>11, Zenon DEF Changes

\* A block goes on.
Grows(api, r, e, q) ==
  \E b \in 1..Len(r.blocks) :
    LET s == r.blocks[b]
        t == q.blocks[b]
        text == <<<<b, Len(s.sent) + 1>>>>
    IN /\ MayGrow(r, b)
       /\ e = Wire("frag", b, s.kind, text, s.sig, FALSE)
       /\ Changes(r, q, b, IF api = "mistral" /\ s.kind = "tool" THEN Current(r) ELSE {})
       /\ t.sent = s.sent \o text /\ t.sig = s.sig /\ t.whole = s.whole /\ t.open

LEMMA GrowIs ==
  ASSUME NEW api, NEW r, IsReply(api, r), NEW move \in Grow(api, r)
  PROVE  Grows(api, r, move.event, move.reply)
<1>1. /\ Sizes(r, Len(r.blocks)) /\ Len(r.blocks) \in Nat
      /\ DOMAIN r.blocks = 1..Len(r.blocks) /\ DOMAIN r = DOMAIN Reply
  BY Appended DEF IsReply, Sizes
<1>2. PICK b \in 1..Len(r.blocks) :
        /\ MayGrow(r, b)
        /\ move = LET text == <<<<b, Len(r.blocks[b].sent) + 1>>>> IN
            [event |-> Wire("frag", b, r.blocks[b].kind, text, r.blocks[b].sig, FALSE),
             reply |-> [Ceding(api, r, b) EXCEPT !.blocks[b].sent = @ \o text]]
  BY <1>1, Zenon DEF Grow
<1>. DEFINE s == r.blocks[b]
            text == <<<<b, Len(s.sent) + 1>>>>
            C == IF api = "mistral" /\ s.kind = "tool" THEN Current(r) ELSE {}
            p == Ceding(api, r, b)
            held == p.blocks
            q == [p EXCEPT !.blocks[b].sent = @ \o text]
            t == [held[b] EXCEPT !.sent = @ \o text]
<1>3. /\ move.event = Wire("frag", b, s.kind, text, s.sig, FALSE)
      /\ move.reply = q
  <2>. HIDE DEF Wire, Ceding
  <2>. QED BY <1>2
<1>4. IsSaid(api, b, s) /\ DOMAIN s = SaidFields /\ s.open
  BY <1>2 DEF IsReply, IsSaid, MayGrow
<1>5. /\ DOMAIN p = DOMAIN r /\ p.stop = r.stop /\ p.complete = r.complete
      /\ p.over = r.over /\ ((held = r.blocks /\ C = {}) \/ held = Ending(r, C))
  <2>1. CASE api = "mistral" /\ s.kind = "tool"
    <3>1. p = [r EXCEPT !.blocks = Ending(r, Current(r))] /\ C = Current(r)
      BY <2>1 DEF Ceding
    <3>. QED BY <1>1, <3>1 DEF Reply
  <2>2. CASE ~(api = "mistral" /\ s.kind = "tool")
    <3>1. p = r /\ C = {}
      BY <2>2 DEF Ceding
    <3>. QED BY <3>1
  <2>. QED BY <2>1, <2>2
<1>6. b \notin C
  BY <1>1 DEF Current
<1>. HIDE DEF p, C
<1>7. /\ Alike(held[b], s) /\ held[b].open = TRUE /\ DOMAIN held = 1..Len(r.blocks)
  <2>1. CASE held = r.blocks /\ C = {}
    BY <1>1, <1>4, <2>1 DEF Alike, IsSaid
  <2>2. CASE held = Ending(r, C)
    BY <1>1, <1>4, <1>6, <2>2, EndingIs, Appended
  <2>. QED BY <1>5, <2>1, <2>2
<1>. HIDE DEF held
<1>8. /\ DOMAIN t = SaidFields /\ t.kind = s.kind /\ t.named = s.named /\ t.first = s.first
      /\ t.sent = s.sent \o text /\ t.sig = s.sig /\ t.whole = s.whole /\ t.open = TRUE
  BY <1>7 DEF Alike, SaidFields
<1>9. /\ DOMAIN q = DOMAIN r /\ q.blocks = [held EXCEPT ![b] = t]
      /\ q.stop = r.stop /\ q.complete = r.complete /\ q.over = r.over
  BY <1>1, <1>5 DEF Reply, held
<1>. HIDE DEF q, t, s, text
<1>10. Changes(r, q, b, C) /\ q.blocks[b] = t
  <2>1. t.kind = r.blocks[b].kind /\ t.named = r.blocks[b].named /\ t.first = r.blocks[b].first
    BY <1>8 DEF s
  <2>2. Exchanged(r, q, b, t, C)
    BY <1>5, <1>8, <1>9, <2>1, Zenon DEF Exchanged
  <2>. QED BY <2>2, ChangedIs
<1>. QED BY <1>2, <1>3, <1>8, <1>10, Zenon DEF Grows, s, text, C

\* A block is signed.
Signs(api, r, e, q) ==
  \E b \in 1..Len(r.blocks) :
    LET s == r.blocks[b]
        t == q.blocks[b]
    IN /\ api \in {"anthropic", "bedrock"}
       /\ s.kind = "thinking" /\ s.open /\ s.sent # <<>> /\ s.sig = <<>>
       /\ e = Wire("sign", b, "thinking", <<>>, <<b>>, FALSE)
       /\ Changes(r, q, b, {})
       /\ t.sent = s.sent /\ t.sig = <<b>> /\ t.whole = s.whole /\ t.open

\* The whole of a Responses block is repeated, or the last part of a summary.
Repeats(api, r, e, q) ==
  \E b \in 1..Len(r.blocks), type \in {"whole", "part"} :
    LET s == r.blocks[b]
        t == q.blocks[b]
        text == IF s.kind = "thinking" THEN <<s.sent[Len(s.sent)]>> ELSE s.sent
    IN /\ api = "responses" /\ s.open /\ ~s.whole
       /\ s.kind = "thinking" => s.sent # <<>>
       /\ e = Wire(type, b, s.kind, text, <<>>, FALSE)
       /\ Changes(r, q, b, {})
       /\ t.sent = s.sent /\ t.sig = s.sig /\ t.open
       /\ t.whole = (s.kind # "thinking")

\* A block is closed.
Shuts(api, r, e, q) ==
  \E b \in 1..Len(r.blocks) :
    LET s == r.blocks[b]
        t == q.blocks[b]
        sig == IF api = "responses" /\ s.kind # "tool" THEN <<b>> ELSE s.sig
    IN /\ Closes(api) /\ s.open
       /\ e = Wire("close", b, s.kind, s.sent, sig, FALSE)
       /\ Changes(r, q, b, {})
       /\ t.sent = s.sent /\ t.sig = sig /\ t.whole = s.whole /\ t.open = FALSE

LEMMA ReplyFacts ==
  ASSUME NEW api, NEW r, IsReply(api, r)
  PROVE  /\ IsSequence(r.blocks) /\ Len(r.blocks) \in Nat /\ DOMAIN r.blocks = 1..Len(r.blocks)
         /\ DOMAIN r = DOMAIN Reply
         /\ \A b \in 1..Len(r.blocks) :
              /\ DOMAIN r.blocks[b] = SaidFields
              /\ r.blocks[b].open \in BOOLEAN /\ r.blocks[b].whole \in BOOLEAN
              /\ r.blocks[b].sent \in Seq(Seq(Nat))
<1>1. /\ IsSequence(r.blocks) /\ DOMAIN r = DOMAIN Reply
  BY DEF IsReply, Sizes
<1>2. \A b \in 1..Len(r.blocks) :
              /\ DOMAIN r.blocks[b] = SaidFields
              /\ r.blocks[b].open \in BOOLEAN /\ r.blocks[b].whole \in BOOLEAN
              /\ r.blocks[b].sent \in Seq(Seq(Nat))
  BY DEF IsReply, IsSaid
<1>. QED BY <1>1, <1>2, Appended

LEMMA SignIs ==
  ASSUME NEW api, NEW r, IsReply(api, r), NEW move \in Sign(api, r)
  PROVE  Signs(api, r, move.event, move.reply)
<1>1. PICK b \in 1..Len(r.blocks) :
        /\ api \in {"anthropic", "bedrock"}
        /\ r.blocks[b].kind = "thinking" /\ r.blocks[b].open
        /\ r.blocks[b].sent # <<>> /\ r.blocks[b].sig = <<>>
        /\ move = [event |-> Wire("sign", b, "thinking", <<>>, <<b>>, FALSE),
                   reply |-> [r EXCEPT !.blocks[b].sig = <<b>>]]
  BY ReplyFacts, Zenon DEF Sign
<1>. DEFINE s == r.blocks[b]
            q == [r EXCEPT !.blocks[b].sig = <<b>>]
            t == [s EXCEPT !.sig = <<b>>]
<1>2. /\ move.event = Wire("sign", b, "thinking", <<>>, <<b>>, FALSE)
      /\ move.reply = q
  <2>. HIDE DEF Wire
  <2>. QED BY <1>1
<1>3. /\ DOMAIN s = SaidFields /\ DOMAIN r = DOMAIN Reply /\ s.open = TRUE
      /\ DOMAIN r.blocks = 1..Len(r.blocks)
  BY <1>1, ReplyFacts
<1>4. /\ DOMAIN t = SaidFields /\ t.kind = s.kind /\ t.named = s.named /\ t.first = s.first
      /\ t.sent = s.sent /\ t.sig = <<b>> /\ t.whole = s.whole /\ t.open = TRUE
  BY <1>3 DEF SaidFields
<1>5. /\ DOMAIN q = DOMAIN r /\ q.blocks = [r.blocks EXCEPT ![b] = t]
      /\ q.stop = r.stop /\ q.complete = r.complete /\ q.over = r.over
  BY <1>3 DEF Reply
<1>. HIDE DEF q, t
<1>6. Exchanged(r, q, b, t, {})
  BY <1>4, <1>5, Zenon DEF Exchanged
<1>7. Changes(r, q, b, {}) /\ q.blocks[b] = t
  BY <1>6, ChangedIs
<1>. QED BY <1>1, <1>2, <1>4, <1>7, Zenon DEF Signs

LEMMA RepeatIs ==
  ASSUME NEW api, NEW r, IsReply(api, r), NEW move \in Repeat(api, r)
  PROVE  Repeats(api, r, move.event, move.reply)
<1>0. PICK b \in {b \in DOMAIN r.blocks :
                   /\ api = "responses" /\ r.blocks[b].open /\ ~r.blocks[b].whole
                   /\ r.blocks[b].kind = "thinking" => r.blocks[b].sent # <<>>},
           type \in {"whole", "part"} : move = Repeated(r, b, type)
  <2>. HIDE DEF Repeated
  <2>. QED BY SMT DEF Repeat
<1>1. /\ b \in 1..Len(r.blocks) /\ type \in {"whole", "part"}
      /\ api = "responses" /\ r.blocks[b].open /\ ~r.blocks[b].whole
      /\ r.blocks[b].kind = "thinking" => r.blocks[b].sent # <<>>
  BY <1>0, ReplyFacts, Zenon
<1>. DEFINE s == r.blocks[b]
            text == IF s.kind = "thinking" THEN <<s.sent[Len(s.sent)]>> ELSE s.sent
            whole == s.kind # "thinking"
            q == [r EXCEPT !.blocks[b].whole = whole]
            t == [s EXCEPT !.whole = whole]
<1>2. move.event = Wire(type, b, s.kind, text, <<>>, FALSE) /\ move.reply = q
  <2>. HIDE DEF Wire
  <2>. QED BY <1>0 DEF Repeated
<1>3. /\ DOMAIN s = SaidFields /\ DOMAIN r = DOMAIN Reply /\ s.open = TRUE
      /\ DOMAIN r.blocks = 1..Len(r.blocks)
  BY <1>1, ReplyFacts
<1>. HIDE DEF whole
<1>4. /\ DOMAIN t = SaidFields /\ t.kind = s.kind /\ t.named = s.named /\ t.first = s.first
      /\ t.sent = s.sent /\ t.sig = s.sig /\ t.whole = whole /\ t.open = TRUE
  BY <1>3 DEF SaidFields
<1>5. /\ DOMAIN q = DOMAIN r /\ q.blocks = [r.blocks EXCEPT ![b] = t]
      /\ q.stop = r.stop /\ q.complete = r.complete /\ q.over = r.over
  BY <1>3 DEF Reply
<1>. HIDE DEF q, t, text
<1>6. Exchanged(r, q, b, t, {})
  BY <1>1, <1>4, <1>5, Zenon DEF Exchanged
<1>7. Changes(r, q, b, {}) /\ q.blocks[b] = t
  BY <1>6, ChangedIs
<1>. QED BY <1>1, <1>2, <1>4, <1>7, Zenon DEF Repeats, whole, text

LEMMA CloseIs ==
  ASSUME NEW api, NEW r, IsReply(api, r), NEW move \in Close(api, r)
  PROVE  Shuts(api, r, move.event, move.reply)
<1>1. PICK b \in 1..Len(r.blocks) :
        /\ Closes(api) /\ r.blocks[b].open
        /\ move = LET sig == IF api = "responses" /\ r.blocks[b].kind # "tool"
                             THEN <<b>> ELSE r.blocks[b].sig
                  IN [event |-> Wire("close", b, r.blocks[b].kind, r.blocks[b].sent, sig, FALSE),
                      reply |-> [r EXCEPT !.blocks[b].open = FALSE, !.blocks[b].sig = sig]]
  BY ReplyFacts, Zenon DEF Close
<1>. DEFINE s == r.blocks[b]
            sig == IF api = "responses" /\ s.kind # "tool" THEN <<b>> ELSE s.sig
            q == [r EXCEPT !.blocks[b].open = FALSE, !.blocks[b].sig = sig]
            t == [s EXCEPT !.open = FALSE, !.sig = sig]
<1>2. move.event = Wire("close", b, s.kind, s.sent, sig, FALSE) /\ move.reply = q
  <2>. HIDE DEF Wire
  <2>. QED BY <1>1
<1>3. /\ DOMAIN s = SaidFields /\ DOMAIN r = DOMAIN Reply
      /\ DOMAIN r.blocks = 1..Len(r.blocks)
  BY <1>1, ReplyFacts
<1>. HIDE DEF sig
<1>4. /\ DOMAIN t = SaidFields /\ t.kind = s.kind /\ t.named = s.named /\ t.first = s.first
      /\ t.sent = s.sent /\ t.sig = sig /\ t.whole = s.whole /\ t.open = FALSE
  BY <1>3 DEF SaidFields
<1>5. /\ DOMAIN q = DOMAIN r /\ q.blocks = [r.blocks EXCEPT ![b] = t]
      /\ q.stop = r.stop /\ q.complete = r.complete /\ q.over = r.over
  BY <1>3 DEF Reply
<1>. HIDE DEF q, t
<1>6. Exchanged(r, q, b, t, {})
  BY <1>4, <1>5, Zenon DEF Exchanged
<1>7. Changes(r, q, b, {}) /\ q.blocks[b] = t
  BY <1>6, ChangedIs
<1>. QED BY <1>1, <1>2, <1>4, <1>7, Zenon DEF Shuts, sig

\* A Responses text comes whole.
ComesLate(api, r, e, q) ==
  LET b == Len(r.blocks) + 1
      s == q.blocks[b]
      text == <<<<b, 1>>>>
  IN /\ api = "responses" /\ MayBegin(api, r, "text")
     /\ \E type \in {"part", "close"} : e = Wire(type, b, "text", text, <<>>, TRUE)
     /\ Sizes(q, b)
     /\ q.stop = r.stop /\ q.complete = r.complete /\ q.over = r.over
     /\ \A c \in 1..Len(r.blocks) : q.blocks[c] = r.blocks[c]
     /\ s = [kind |-> "text", sent |-> text, first |-> <<>>, sig |-> <<b>>,
             whole |-> TRUE, open |-> FALSE, named |-> TRUE]

\* The blocks stay as they are.
Stops(api, r, e, q) ==
  \E reason \in Reasons(api, r) :
    /\ MayStop(api, r)
    /\ e = Signal(IF api = "responses" THEN "end" ELSE "stop", reason)
    /\ q = [r EXCEPT !.stop = reason, !.complete = TRUE, !.over = (api = "responses")]

Concludes(api, r, e, q) ==
  /\ \/ api = "anthropic" /\ r.stop # "none"
     \/ api \in {"completions", "mistral"}
  /\ e = Signal("end", r.stop)
  /\ q = [r EXCEPT !.complete = TRUE, !.over = TRUE]

Breaks(api, r, e, q) ==
  /\ \E type \in {"eof", "broken", "fail"} :
       /\ e = Signal(type, "none")
       /\ type = "fail" => api \in {"anthropic", "responses", "bedrock"}
  /\ q = [r EXCEPT !.over = TRUE]

LEMMA LateIs ==
  ASSUME NEW api, NEW r, IsReply(api, r), NEW move \in Late(api, r)
  PROVE  ComesLate(api, r, move.event, move.reply)
<1>. DEFINE b == Len(r.blocks) + 1
            text == <<<<b, 1>>>>
            s == [kind |-> "text", sent |-> text, first |-> <<>>, sig |-> <<b>>,
                  whole |-> TRUE, open |-> FALSE, named |-> TRUE]
            q == [r EXCEPT !.blocks = Append(@, s)]
<1>1. api = "responses" /\ MayBegin(api, r, "text")
  BY Zenon DEF Late
<1>2. PICK type \in {"part", "close"} :
        move = [event |-> Wire(type, b, "text", text, <<>>, TRUE), reply |-> q]
  <2>. HIDE DEF Wire, MayBegin
  <2>. QED BY <1>1, Zenon DEF Late
<1>3. move.event = Wire(type, b, "text", text, <<>>, TRUE) /\ move.reply = q
  <2>. HIDE DEF Wire, q
  <2>. QED BY <1>2
<1>4. /\ IsSequence(r.blocks) /\ Len(r.blocks) \in Nat /\ DOMAIN r = DOMAIN Reply
  BY ReplyFacts
<1>. HIDE DEF s
<1>5. /\ IsSequence(Append(r.blocks, s)) /\ Len(Append(r.blocks, s)) = b
      /\ Append(r.blocks, s)[b] = s
      /\ \A c \in 1..Len(r.blocks) : Append(r.blocks, s)[c] = r.blocks[c]
  BY <1>4, Appended
<1>6. /\ DOMAIN q = DOMAIN Reply /\ q.blocks = Append(r.blocks, s)
      /\ q.stop = r.stop /\ q.complete = r.complete /\ q.over = r.over
  BY <1>4 DEF Reply
<1>. HIDE DEF q, b
<1>7. /\ Sizes(q, b) /\ q.blocks[b] = s
      /\ \A c \in 1..Len(r.blocks) : q.blocks[c] = r.blocks[c]
  BY <1>5, <1>6 DEF Sizes
<1>. QED BY <1>1, <1>3, <1>6, <1>7, Zenon DEF ComesLate, s, b

LEMMA StopIs ==
  ASSUME NEW api, NEW r, NEW move \in Stop(api, r)
  PROVE  Stops(api, r, move.event, move.reply)
<1>. HIDE DEF Signal, Reasons
<1>1. MayStop(api, r)
  BY Zenon DEF Stop
<1>2. PICK reason \in Reasons(api, r) :
        move = [event |-> Signal(IF api = "responses" THEN "end" ELSE "stop", reason),
                reply |-> [r EXCEPT !.stop = reason, !.complete = TRUE,
                                    !.over = (api = "responses")]]
  BY <1>1, Zenon DEF Stop
<1>3. /\ move.event = Signal(IF api = "responses" THEN "end" ELSE "stop", reason)
      /\ move.reply = [r EXCEPT !.stop = reason, !.complete = TRUE,
                                !.over = (api = "responses")]
  BY <1>2, Zenon
<1>. QED BY <1>1, <1>3, Zenon DEF Stops

LEMMA FinaleIs ==
  ASSUME NEW api, NEW r, NEW move \in Finale(api, r)
  PROVE  Concludes(api, r, move.event, move.reply)
<1>. HIDE DEF Signal
<1>1. \/ api = "anthropic" /\ r.stop # "none"
      \/ api \in {"completions", "mistral"}
  BY Zenon DEF Finale
<1>2. move = [event |-> Signal("end", r.stop),
              reply |-> [r EXCEPT !.complete = TRUE, !.over = TRUE]]
  BY <1>1, Zenon DEF Finale
<1>3. /\ move.event = Signal("end", r.stop)
      /\ move.reply = [r EXCEPT !.complete = TRUE, !.over = TRUE]
  BY <1>2, Zenon
<1>. QED BY <1>1, <1>3, Zenon DEF Concludes

LEMMA BreakIs ==
  ASSUME NEW api, NEW r, NEW move \in Break(api, r)
  PROVE  Breaks(api, r, move.event, move.reply)
<1>. HIDE DEF Signal
<1>. DEFINE types == {"eof", "broken"}
                \cup (IF api \in {"anthropic", "responses", "bedrock"} THEN {"fail"}
                      ELSE {})
<1>1. PICK type \in types :
        move = [event |-> Signal(type, "none"), reply |-> [r EXCEPT !.over = TRUE]]
  BY Zenon DEF Break
<1>2. /\ type \in {"eof", "broken", "fail"}
      /\ type = "fail" => api \in {"anthropic", "responses", "bedrock"}
  OBVIOUS
<1>3. move.event = Signal(type, "none") /\ move.reply = [r EXCEPT !.over = TRUE]
  BY <1>1, Zenon
<1>. QED BY <1>2, <1>3, Zenon DEF Breaks

LEMMA BeginIs ==
  ASSUME NEW api, NEW r, IsReply(api, r), NEW move \in Begin(api, r)
  PROVE  Begins(api, r, move.event, move.reply)
<1>. DEFINE b == Len(r.blocks) + 1
<1>. HIDE DEF Wire, Begun, Heads, Named, MayBegin, MayComeSigned, Framed, Openings
<1>0. PICK kind \in Kinds \cup {"redacted"}, sig \in {<<>>, <<b>>} :
        move \in Beginnings(api, r, b, kind, sig)
  <2>. HIDE DEF Beginnings
  <2>. QED BY SMT DEF Begin
<1>1. MayBegin(api, r, kind) /\ MayComeSigned(api, kind, sig # <<>>)
  <2>1. CASE ~(MayBegin(api, r, kind) /\ MayComeSigned(api, kind, sig # <<>>))
    <3>1. Beginnings(api, r, b, kind, sig) = {}
      BY <2>1, SMT DEF Beginnings
    <3>2. move \in Beginnings(api, r, b, kind, sig)
      BY <1>0, Zenon
    <3>. HIDE DEF Beginnings
    <3>. QED BY <3>1, <3>2
  <2>. QED BY <2>1
<1>2. PICK text \in Heads(api, kind, b), named \in Named(api, r, kind, sig) :
        \E type \in Openings(api, kind, text) :
          move = [event |-> Wire(type, b, kind, text, sig, named),
                  reply |-> Begun(api, r, kind, text, sig, named)]
  BY <1>0, <1>1, SMT DEF Beginnings
<1>11. PICK type \in Openings(api, kind, text) :
         move = [event |-> Wire(type, b, kind, text, sig, named),
                 reply |-> Begun(api, r, kind, text, sig, named)]
  BY <1>2, Zenon
<1>12. \/ /\ type = IF Framed(api) \/ (api = "bedrock" /\ kind = "tool") THEN "open"
                     ELSE "frag"
          /\ api = "responses" /\ kind = "text" => text = <<>>
       \/ api = "responses" /\ kind = "text" /\ type = "added"
  BY <1>11 DEF Openings, Framed
<1>. DEFINE e == Wire(type, b, kind, text, sig, named)
            q == Begun(api, r, kind, text, sig, named)
<1>3. move.event = e /\ move.reply = q
  <2>. HIDE DEF e, q
  <2>1. move = [event |-> e, reply |-> q]
    BY <1>11 DEF e, q
  <2>. QED BY <2>1
<1>4. /\ e.type = type /\ e.b = b /\ e.kind = kind /\ e.text = text
      /\ e.sig = sig /\ e.head = named
  BY DEF Wire
<1>. DEFINE s == q.blocks[b]
<1>5. /\ Sizes(q, b)
      /\ q.stop = r.stop /\ q.complete = r.complete /\ q.over = r.over
      /\ DOMAIN s = SaidFields
      /\ s.kind = kind /\ s.sent = text /\ s.sig = sig /\ s.named = named
      /\ s.first = text
      /\ s.whole = FALSE /\ (s.open <=> ~(api = "google" /\ kind = "tool")) /\ s.open \in BOOLEAN
      /\ \A c \in 1..Len(r.blocks) :
           /\ Alike(q.blocks[c], r.blocks[c])
           /\ q.blocks[c].open <=> (r.blocks[c].open /\ c \notin Superseded(api, r))
           /\ q.blocks[c].open \in BOOLEAN
  BY BegunIs, Zenon
<1>. HIDE DEF e, q
<1>6. /\ e.text \in Heads(api, e.kind, b) /\ e.sig \in {<<>>, <<b>>}
      /\ e.head \in Named(api, r, e.kind, e.sig) /\ e.kind \in Kinds \cup {"redacted"}
      /\ MayBegin(api, r, e.kind)
  BY <1>0, <1>1, <1>2, <1>4
<1>7. MayComeSigned(api, e.kind, e.sig # <<>>)
  BY <1>1, <1>4, Zenon
<1>8. /\ s.kind = e.kind /\ s.sent = e.text /\ s.sig = e.sig /\ s.named = e.head
      /\ s.first = e.text
  BY <1>4, <1>5
<1>9. (s.open <=> ~(api = "google" /\ e.kind = "tool")) /\ s.open \in BOOLEAN
  BY <1>4, <1>5, Zenon
<1>13. \/ /\ e.type = IF Framed(api) \/ (api = "bedrock" /\ e.kind = "tool") THEN "open"
                       ELSE "frag"
          /\ api = "responses" /\ e.kind = "text" => e.text = <<>>
       \/ api = "responses" /\ e.kind = "text" /\ e.type = "added"
  BY <1>4, <1>12, Zenon
<1>. HIDE DEF s
<1>10. Begins(api, r, e, q)
  BY <1>4, <1>5, <1>6, <1>7, <1>8, <1>9, <1>13, Zenon DEF Begins, s
<1>. QED BY <1>3, <1>10, Zenon

Moved(api, r, e, q) ==
  \/ Begins(api, r, e, q)
  \/ Grows(api, r, e, q)
  \/ Signs(api, r, e, q)
  \/ Repeats(api, r, e, q)
  \/ Shuts(api, r, e, q)
  \/ ComesLate(api, r, e, q)
  \/ Stops(api, r, e, q)
  \/ Concludes(api, r, e, q)
  \/ Breaks(api, r, e, q)

LEMMA MoveCases ==
  ASSUME NEW api, NEW r, IsReply(api, r), NEW move \in Moves(api, r)
  PROVE  ~r.over /\ Moved(api, r, move.event, move.reply)
<1>1. CASE r.over
  <2>1. Moves(api, r) = {}
    BY <1>1, SMT DEF Moves
  <2>. QED BY <2>1
<1>2. CASE ~r.over
  <2>. HIDE DEF Begin, Grow, Sign, Repeat, Close, Late, Stop, Finale, Break
  <2>1. \/ move \in Begin(api, r) \/ move \in Grow(api, r) \/ move \in Sign(api, r)
        \/ move \in Repeat(api, r) \/ move \in Close(api, r) \/ move \in Late(api, r)
        \/ move \in Stop(api, r) \/ move \in Finale(api, r) \/ move \in Break(api, r)
    BY <1>2, SMT DEF Moves
  <2>. QED BY <1>2, <2>1, BeginIs, GrowIs, SignIs, RepeatIs, CloseIs, LateIs, StopIs,
              FinaleIs, BreakIs, Zenon DEF Moved
<1>. QED BY <1>1, <1>2

LEMMA SaidStays ==
  ASSUME NEW api, NEW b, NEW s, NEW t, IsSaid(api, b, s), Alike(t, s),
         t.open \in BOOLEAN, t.open => s.open
  PROVE  IsSaid(api, b, t)
BY DEF IsSaid, Alike

LEMMA RestStays ==
  ASSUME NEW api, NEW r, IsReply(api, r), NEW q, NEW b, NEW C, Changes(r, q, b, C),
         b \in 1..Len(r.blocks), IsSaid(api, b, q.blocks[b]),
         Closes(api) /\ r.stop # "none" => ~q.blocks[b].open
  PROVE  IsReply(api, q)
<1>. DEFINE n == Len(r.blocks)
<1>1. /\ Sizes(q, n) /\ q.stop = r.stop /\ q.complete = r.complete
      /\ \A c \in (1..n) \ {b} :
           /\ Alike(q.blocks[c], r.blocks[c])
           /\ q.blocks[c].open => r.blocks[c].open
           /\ q.blocks[c].open \in BOOLEAN
  BY Zenon DEF Changes, Rest
<1>2. ASSUME NEW c \in 1..n PROVE IsSaid(api, c, q.blocks[c])
  <2>1. CASE c = b
    BY <2>1
  <2>2. CASE c # b
    <3>1. IsSaid(api, c, r.blocks[c])
      BY DEF IsReply
    <3>. QED BY <1>1, <2>2, <3>1, SaidStays
  <2>. QED BY <2>1, <2>2
<1>3. Len(q.blocks) = n
  BY <1>1 DEF Sizes
<1>4. ASSUME Closes(api), q.stop # "none", NEW c \in 1..n PROVE ~q.blocks[c].open
  <2>1. ~r.blocks[c].open
    BY <1>1, <1>4 DEF IsReply
  <2>. QED BY <1>1, <1>4, <2>1
<1>5. /\ q.stop \in {"none", "length", "refused", "tool_use", "stop"}
      /\ q.stop # "none" => q.complete
      /\ n <= MaxBlocks
  BY <1>1 DEF IsReply
<1>. QED BY <1>1, <1>2, <1>3, <1>4, <1>5, Zenon DEF IsReply

LEMMA AddedStays ==
  ASSUME NEW api, NEW r, IsReply(api, r), NEW q, Sizes(q, Len(r.blocks) + 1),
         q.stop = r.stop, r.stop = "none", Len(r.blocks) < MaxBlocks,
         IsSaid(api, Len(r.blocks) + 1, q.blocks[Len(r.blocks) + 1]),
         \A c \in 1..Len(r.blocks) : IsSaid(api, c, q.blocks[c])
  PROVE  IsReply(api, q)
<1>1. Len(r.blocks) \in Nat /\ Len(q.blocks) = Len(r.blocks) + 1
  BY ReplyFacts DEF Sizes
<1>2. Len(q.blocks) <= MaxBlocks
  BY <1>1, WireAssumption
<1>3. \A c \in 1..Len(q.blocks) : IsSaid(api, c, q.blocks[c])
  BY <1>1
<1>4. Sizes(q, Len(q.blocks))
  BY <1>1
<1>. QED BY <1>2, <1>3, <1>4, Zenon DEF IsReply

LEMMA HeadsShort ==
  ASSUME NEW api, NEW kind, NEW b \in Nat, NEW text \in Heads(api, kind, b)
  PROVE  /\ text \in Seq(Seq(Nat)) /\ Len(text) <= MaxFragments
         /\ api = "anthropic" => text = <<>>
<1>. DEFINE one == <<<<b, 1>>>>
<1>1. text \in {<<>>, one} /\ (api = "anthropic" => text = <<>>)
  BY SMT DEF Heads
<1>2. /\ <<>> \in Seq(Seq(Nat)) /\ Len(<<>>) <= MaxFragments
      /\ one \in Seq(Seq(Nat)) /\ Len(one) <= MaxFragments
  BY WireAssumption
<1>. HIDE DEF one
<1>. QED BY <1>1, <1>2

LEMMA NewBlockIs ==
  ASSUME NEW api, NEW r, IsReply(api, r), NEW e, NEW q, Begins(api, r, e, q)
  PROVE  IsSaid(api, Len(r.blocks) + 1, q.blocks[Len(r.blocks) + 1])
<1>. DEFINE b == Len(r.blocks) + 1
            s == q.blocks[b]
<1>0. b \in Nat
  BY ReplyFacts
<1>1. /\ DOMAIN s = SaidFields
      /\ s.kind = e.kind /\ s.sent = e.text /\ s.sig = e.sig /\ s.named = e.head
      /\ s.first = e.text
      /\ s.whole = FALSE /\ (s.open <=> ~(api = "google" /\ e.kind = "tool")) /\ s.open \in BOOLEAN
      /\ e.kind \in Kinds \cup {"redacted"} /\ e.text \in Heads(api, e.kind, b)
      /\ e.sig \in {<<>>, <<b>>} /\ e.head \in Named(api, r, e.kind, e.sig)
      /\ MayBegin(api, r, e.kind) /\ MayComeSigned(api, e.kind, e.sig # <<>>)
  BY Zenon DEF Begins
<1>. HIDE DEF b, s
<1>2. e.text \in Seq(Seq(Nat)) /\ Len(e.text) <= MaxFragments
      /\ (api = "anthropic" => e.text = <<>>)
  BY <1>0, <1>1, HeadsShort, Zenon
<1>3. e.kind = "redacted" => api = "anthropic"
  BY <1>1 DEF MayBegin
<1>4. api # "google" => (e.sig # <<>> <=> e.kind = "redacted")
  BY <1>1 DEF MayComeSigned
<1>5. e.head \in BOOLEAN /\ (api # "google" => e.head = TRUE)
  <2>1. CASE api # "google"
    <3>1. Named(api, r, e.kind, e.sig) = {TRUE}
      BY <2>1 DEF Named
    <3>. QED BY <1>1, <3>1
  <2>2. CASE api = "google"
    <3>1. Named(api, r, e.kind, e.sig) \subseteq BOOLEAN
      BY <2>2 DEF Named
    <3>. QED BY <1>1, <2>2, <3>1
  <2>. QED BY <2>1, <2>2
<1>6. api = "google" /\ s.kind = "tool" => ~s.open
  BY <1>1, Zenon
<1>7. s.kind = "redacted" => api = "anthropic" /\ s.sent = <<>> /\ s.sig = <<b>>
  BY <1>1, <1>2, <1>3, <1>4
<1>. QED BY <1>1, <1>2, <1>3, <1>4, <1>5, <1>6, <1>7 DEF IsSaid, b, s

LEMMA BeginStays ==
  ASSUME NEW api, NEW r, IsReply(api, r), NEW e, NEW q, Begins(api, r, e, q)
  PROVE  IsReply(api, q)
<1>1. IsSaid(api, Len(r.blocks) + 1, q.blocks[Len(r.blocks) + 1])
  BY NewBlockIs
<1>2. /\ Sizes(q, Len(r.blocks) + 1) /\ q.stop = r.stop
      /\ MayBegin(api, r, e.kind)
      /\ \A c \in 1..Len(r.blocks) :
           /\ Alike(q.blocks[c], r.blocks[c])
           /\ q.blocks[c].open => r.blocks[c].open
           /\ q.blocks[c].open \in BOOLEAN
  BY Zenon DEF Begins
<1>3. r.stop = "none" /\ Len(r.blocks) < MaxBlocks
  BY <1>2 DEF MayBegin
<1>4. \A c \in 1..Len(r.blocks) : IsSaid(api, c, q.blocks[c])
  <2>. TAKE c \in 1..Len(r.blocks)
  <2>1. IsSaid(api, c, r.blocks[c])
    BY DEF IsReply
  <2>. QED BY <1>2, <2>1, SaidStays
<1>. QED BY <1>1, <1>2, <1>3, <1>4, AddedStays

LEMMA LateStays ==
  ASSUME NEW api, NEW r, IsReply(api, r), NEW e, NEW q, ComesLate(api, r, e, q)
  PROVE  IsReply(api, q)
<1>. DEFINE b == Len(r.blocks) + 1
            s == q.blocks[b]
<1>1. /\ Sizes(q, b) /\ q.stop = r.stop /\ api = "responses"
      /\ MayBegin(api, r, "text")
      /\ \A c \in 1..Len(r.blocks) : q.blocks[c] = r.blocks[c]
      /\ s = [kind |-> "text", sent |-> <<<<b, 1>>>>, first |-> <<>>, sig |-> <<b>>,
              whole |-> TRUE, open |-> FALSE, named |-> TRUE]
  BY Zenon DEF ComesLate
<1>2. r.stop = "none" /\ Len(r.blocks) < MaxBlocks
  BY <1>1 DEF MayBegin
<1>3. b \in Nat
  BY ReplyFacts
<1>. HIDE DEF b
<1>4. IsSaid(api, b, s)
  BY <1>1, <1>3, WireAssumption DEF IsSaid, SaidFields, Kinds
<1>5. \A c \in 1..Len(r.blocks) : IsSaid(api, c, q.blocks[c])
  BY <1>1 DEF IsReply
<1>. QED BY <1>1, <1>2, <1>4, <1>5, AddedStays DEF b

LEMMA ChangeStays ==
  ASSUME NEW api, NEW r, IsReply(api, r), NEW e, NEW q,
         Grows(api, r, e, q) \/ Signs(api, r, e, q) \/ Repeats(api, r, e, q)
         \/ Shuts(api, r, e, q)
  PROVE  IsReply(api, q)
<1>1. CASE Grows(api, r, e, q)
  <2>1. PICK b \in 1..Len(r.blocks) :
          /\ MayGrow(r, b)
          /\ Changes(r, q, b, IF api = "mistral" /\ r.blocks[b].kind = "tool"
                              THEN Current(r) ELSE {})
          /\ q.blocks[b].sent = r.blocks[b].sent \o <<<<b, Len(r.blocks[b].sent) + 1>>>>
          /\ q.blocks[b].sig = r.blocks[b].sig
          /\ q.blocks[b].whole = r.blocks[b].whole /\ q.blocks[b].open = TRUE
    BY <1>1, Zenon DEF Grows
  <2>. DEFINE s == r.blocks[b]
              t == q.blocks[b]
  <2>2. IsSaid(api, b, s)
    BY DEF IsReply
  <2>3. DOMAIN t = SaidFields /\ t.kind = s.kind /\ t.named = s.named /\ t.first = s.first
    BY <2>1 DEF Changes
  <2>4. r.stop = "none" /\ Len(s.sent) < MaxFragments /\ s.kind # "redacted" /\ s.open
    BY <2>1 DEF MayGrow
  <2>5. /\ s.sent \in Seq(Seq(Nat)) /\ t.sent = s.sent \o <<<<b, Len(s.sent) + 1>>>>
        /\ b \in Nat
    BY <2>1, <2>2, ReplyFacts DEF IsSaid
  <2>. HIDE DEF s, t
  <2>6. t.sent \in Seq(Seq(Nat)) /\ Len(t.sent) <= MaxFragments
    <3>1. Len(s.sent) + 1 \in Nat
      BY <2>5
    <3>2. <<b, Len(s.sent) + 1>> \in Seq(Nat)
      BY <2>5, <3>1
    <3>. HIDE DEF s
    <3>3. \A x \in Seq(Nat) : s.sent \o <<x>> \in Seq(Seq(Nat)) /\ Len(s.sent \o <<x>>) = Len(s.sent) + 1
      BY <2>5
    <3>. QED BY <2>4, <2>5, <3>1, <3>2, <3>3, WireAssumption
  <2>7. IsSaid(api, b, t)
    BY <2>1, <2>2, <2>3, <2>4, <2>6 DEF IsSaid, s, t
  <2>. QED BY <2>1, <2>4, <2>7, RestStays DEF t
<1>2. CASE Signs(api, r, e, q)
  <2>1. PICK b \in 1..Len(r.blocks) :
          /\ api \in {"anthropic", "bedrock"} /\ Changes(r, q, b, {})
          /\ r.blocks[b].kind = "thinking" /\ r.blocks[b].open
          /\ q.blocks[b].sent = r.blocks[b].sent /\ q.blocks[b].sig = <<b>>
          /\ q.blocks[b].whole = r.blocks[b].whole /\ q.blocks[b].open = TRUE
    BY <1>2, Zenon DEF Signs
  <2>2. IsSaid(api, b, r.blocks[b])
    BY DEF IsReply
  <2>3. /\ DOMAIN q.blocks[b] = SaidFields /\ q.blocks[b].kind = r.blocks[b].kind
        /\ q.blocks[b].named = r.blocks[b].named
        /\ q.blocks[b].first = r.blocks[b].first
    BY <2>1 DEF Changes
  <2>4. IsSaid(api, b, q.blocks[b])
    BY <2>1, <2>2, <2>3 DEF IsSaid
  <2>5. Closes(api) /\ r.stop # "none" => FALSE
    BY <2>1 DEF IsReply
  <2>. QED BY <2>1, <2>4, <2>5, RestStays
<1>3. CASE Repeats(api, r, e, q)
  <2>1. PICK b \in 1..Len(r.blocks) :
          /\ api = "responses" /\ Changes(r, q, b, {})
          /\ r.blocks[b].open
          /\ q.blocks[b].sent = r.blocks[b].sent /\ q.blocks[b].sig = r.blocks[b].sig
          /\ q.blocks[b].whole = (r.blocks[b].kind # "thinking") /\ q.blocks[b].open = TRUE
    BY <1>3, Zenon DEF Repeats
  <2>2. IsSaid(api, b, r.blocks[b])
    BY DEF IsReply
  <2>3. /\ DOMAIN q.blocks[b] = SaidFields /\ q.blocks[b].kind = r.blocks[b].kind
        /\ q.blocks[b].named = r.blocks[b].named
        /\ q.blocks[b].first = r.blocks[b].first
    BY <2>1 DEF Changes
  <2>6. q.blocks[b].whole \in BOOLEAN
    BY <2>1
  <2>4. IsSaid(api, b, q.blocks[b])
    BY <2>1, <2>2, <2>3, <2>6 DEF IsSaid
  <2>5. Closes(api) /\ r.stop # "none" => FALSE
    BY <2>1 DEF IsReply
  <2>. QED BY <2>1, <2>4, <2>5, RestStays
<1>4. CASE Shuts(api, r, e, q)
  <2>1. PICK b \in 1..Len(r.blocks) :
          /\ Closes(api) /\ Changes(r, q, b, {})
          /\ r.blocks[b].open
          /\ q.blocks[b].sent = r.blocks[b].sent
          /\ q.blocks[b].sig = IF api = "responses" /\ r.blocks[b].kind # "tool" THEN <<b>>
                              ELSE r.blocks[b].sig
          /\ q.blocks[b].whole = r.blocks[b].whole /\ q.blocks[b].open = FALSE
    BY <1>4, Zenon DEF Shuts
  <2>2. IsSaid(api, b, r.blocks[b])
    BY DEF IsReply
  <2>3. /\ DOMAIN q.blocks[b] = SaidFields /\ q.blocks[b].kind = r.blocks[b].kind
        /\ q.blocks[b].named = r.blocks[b].named
        /\ q.blocks[b].first = r.blocks[b].first
    BY <2>1 DEF Changes
  <2>4. IsSaid(api, b, q.blocks[b])
    BY <2>1, <2>2, <2>3 DEF IsSaid
  <2>. QED BY <2>1, <2>4, RestStays
<1>. QED BY <1>1, <1>2, <1>3, <1>4

LEMMA EndStays ==
  ASSUME NEW api, NEW r, IsReply(api, r), NEW e, NEW q,
         Stops(api, r, e, q) \/ Concludes(api, r, e, q) \/ Breaks(api, r, e, q)
  PROVE  IsReply(api, q)
<1>0. DOMAIN r = DOMAIN Reply /\ Sizes(r, Len(r.blocks))
  BY DEF IsReply, Sizes
<1>1. CASE Stops(api, r, e, q)
  <2>1. PICK reason \in Reasons(api, r) :
          /\ MayStop(api, r)
          /\ q = [r EXCEPT !.stop = reason, !.complete = TRUE, !.over = (api = "responses")]
    BY <1>1, Zenon DEF Stops
  <2>2. /\ DOMAIN q = DOMAIN r /\ q.blocks = r.blocks /\ q.stop = reason
        /\ q.complete = TRUE
    BY <1>0, <2>1 DEF Reply
  <2>3. reason \in {"none", "length", "refused", "tool_use", "stop"}
    BY DEF Reasons
  <2>4. Closes(api) => \A b \in 1..Len(r.blocks) : ~r.blocks[b].open
    BY <2>1, ReplyFacts DEF MayStop
  <2>. QED BY <1>0, <2>2, <2>3, <2>4, Zenon DEF IsReply, Sizes
<1>2. CASE Concludes(api, r, e, q)
  <2>1. q = [r EXCEPT !.complete = TRUE, !.over = TRUE]
    BY <1>2, Zenon DEF Concludes
  <2>2. /\ DOMAIN q = DOMAIN r /\ q.blocks = r.blocks /\ q.stop = r.stop
        /\ q.complete = TRUE
    BY <1>0, <2>1 DEF Reply
  <2>. QED BY <1>0, <2>2, Zenon DEF IsReply, Sizes
<1>3. CASE Breaks(api, r, e, q)
  <2>1. q = [r EXCEPT !.over = TRUE]
    BY <1>3, Zenon DEF Breaks
  <2>2. /\ DOMAIN q = DOMAIN r /\ q.blocks = r.blocks /\ q.stop = r.stop
        /\ q.complete = r.complete
    BY <1>0, <2>1 DEF Reply
  <2>. QED BY <1>0, <2>2, Zenon DEF IsReply, Sizes
<1>. QED BY <1>1, <1>2, <1>3

\* Whatever the vendor sends next, it is one of its moves, and leaves a reply.
LEMMA ReplyStays ==
  ASSUME NEW api, NEW r, IsReply(api, r), NEW move \in Moves(api, r)
  PROVE  IsReply(api, move.reply)
<1>1. Moved(api, r, move.event, move.reply)
  BY MoveCases
<1>. QED BY <1>1, BeginStays, LateStays, ChangeStays, EndStays, Zenon DEF Moved

LEMMA NoReply == ASSUME NEW api PROVE IsReply(api, Reply)
<1>1. <<>> \in Seq({}) /\ Len(<<>>) = 0
  OBVIOUS
<1>2. Sizes(Reply, 0) /\ Reply.blocks = <<>> /\ Reply.stop = "none"
  BY <1>1 DEF Sizes, Reply, IsSequence
<1>. QED BY <1>1, <1>2, WireAssumption DEF IsReply

-----------------------------------------------------------------------------
(* What any events tell a consumer, lawful or not. *)

ViewFields == {"phase", "blocks", "last", "reason", "lawful"}
IsKnowledge(v) == DOMAIN v = ViewFields

\* Only its blocks and its verdict change.
Hears(v, w) ==
  IsKnowledge(w) /\ w.phase = v.phase /\ w.last = v.last /\ w.reason = v.reason

Talk(e) == e.type \in {"open", "delta", "end"}

LEMMA ConsumeUnexpected ==
  ASSUME NEW v, NEW e, ~Expected(v, e)
  PROVE  Consume(v, e) = [v EXCEPT !.lawful = FALSE]
BY Zenon DEF Consume

LEMMA ConsumeTalk ==
  ASSUME NEW v, IsKnowledge(v), NEW e, Talk(e)
  PROVE  Hears(v, Consume(v, e))
<1>. DEFINE w == Consume(v, e)
<1>1. CASE ~Expected(v, e)
  <2>. HIDE DEF Expected
  <2>1. w = [v EXCEPT !.lawful = FALSE]
    BY <1>1, ConsumeUnexpected, Zenon
  <2>. QED BY <2>1 DEF Hears, IsKnowledge, ViewFields
<1>2. CASE Expected(v, e)
  <2>. HIDE DEF Put, Expected
  <2>0. \E x : w = [v EXCEPT !.blocks = x]
    <3>1. CASE e.type = "open"
      <4>1. w = [v EXCEPT !.blocks = Put(v.blocks, e.at,
                   [kind |-> e.kind, text |-> <<>>, live |-> TRUE])]
        BY <1>2, <3>1, ConsumeIs, Zenon
      <4>. QED BY <4>1, Zenon
    <3>2. CASE e.type = "delta"
      <4>1. w = [v EXCEPT !.blocks[e.at].text = @ \o e.text]
        BY <1>2, <3>2, ConsumeIs, Zenon
      <4>2. w = [v EXCEPT !.blocks = [v.blocks EXCEPT ![e.at].text = @ \o e.text]]
        BY <4>1, Zenon
      <4>. QED BY <4>2, Zenon
    <3>3. CASE e.type = "end"
      <4>1. w = [v EXCEPT !.blocks[e.at] = [kind |-> e.kind, text |-> e.text, live |-> FALSE]]
        BY <1>2, <3>3, ConsumeIs, Zenon
      <4>2. w = [v EXCEPT !.blocks = [v.blocks EXCEPT ![e.at] =
                   [kind |-> e.kind, text |-> e.text, live |-> FALSE]]]
        BY <4>1, Zenon
      <4>. QED BY <4>2, Zenon
    <3>. QED BY <3>1, <3>2, <3>3 DEF Talk
  <2>1. PICK x : w = [v EXCEPT !.blocks = x]
    BY <2>0
  <2>. HIDE DEF w
  <2>2. Hears(v, w)
    BY <2>1 DEF Hears, IsKnowledge, ViewFields
  <2>. QED BY <2>2 DEF w
<1>. QED BY <1>1, <1>2

LEMMA ConsumeTerminal ==
  ASSUME NEW v, IsKnowledge(v), v.phase = "open", NEW e, IsTerminal(e)
  PROVE  LET w == Consume(v, e) IN
         /\ IsKnowledge(w) /\ w.phase = e.type /\ w.reason = e.reason
         /\ w.last = e.message
<1>. DEFINE w == Consume(v, e)
<1>1. Expected(v, e)
  <2>. HIDE DEF Expected
  <2>1. e.type = "done" \/ e.type = "error"
    BY DEF IsTerminal
  <2>2. v.phase \in {"quiet", "open"}
    OBVIOUS
  <2>. QED BY <2>1, <2>2, ExpectedIs, Zenon
<1>2. \/ e.type = "done" /\ w = [v EXCEPT !.phase = "done", !.last = e.message, !.reason = e.reason]
      \/ e.type = "error" /\ w = [v EXCEPT !.phase = "error", !.last = e.message, !.reason = e.reason]
  <2>. HIDE DEF Consume
  <2>. QED BY <1>1, ConsumeIs DEF IsTerminal
<1>. HIDE DEF w
<1>3. IsKnowledge(w) /\ w.phase = e.type /\ w.reason = e.reason /\ w.last = e.message
  BY <1>2 DEF IsKnowledge, ViewFields
<1>. QED BY <1>3 DEF w

LEMMA TalkOn ==
  ASSUME NEW v, NEW s, NEW n \in Nat, NEW f, Knows(f, v, s, n), NEW k \in 0..n,
         IsKnowledge(f[k]), \A i \in k + 1..n : Talk(s[i])
  PROVE  Hears(f[k], f[n])
<1>. DEFINE T == {i \in k..n : ~Hears(f[k], f[i])}
<1>1. \A i \in 1..n : f[i] = Consume(f[i - 1], s[i])
  BY KnowsFields
<1>2. T = {}
  <2>. SUFFICES ASSUME T # {} PROVE FALSE
    OBVIOUS
  <2>1. T \subseteq Nat
    OBVIOUS
  <2>2. PICK i \in T : \A j \in T : i <= j
    BY <2>1, LeastNatural
  <2>3. i \in k..n /\ ~Hears(f[k], f[i])
    BY <2>2
  <2>4. Hears(f[k], f[k])
    BY DEF Hears
  <2>5. i # k /\ i \in 1..n /\ i \in k + 1..n /\ i - 1 \in k..n /\ ~(i <= i - 1)
    BY <2>3, <2>4
  <2>6. Hears(f[k], f[i - 1])
    BY <2>2, <2>5
  <2>7. f[i] = Consume(f[i - 1], s[i]) /\ Talk(s[i])
    BY <1>1, <2>5
  <2>8. Hears(f[i - 1], f[i])
    BY <2>6, <2>7, ConsumeTalk DEF Hears
  <2>. QED BY <2>3, <2>6, <2>8 DEF Hears
<1>. QED BY <1>2

\* A sequence of events that neither begin nor end the stream.
Talks(s) == IsSequence(s) /\ \A i \in 1..Len(s) : Talk(s[i])

LEMMA TalkThrough ==
  ASSUME NEW v, IsKnowledge(v), NEW s, Talks(s)
  PROVE  Hears(v, ConsumeAll(v, s))
<1>1. Len(s) \in Nat
  BY Appended DEF Talks
<1>2. PICK f : Knows(f, v, s, Len(s)) /\ ConsumeAll(v, s) = f[Len(s)]
  BY <1>1, ConsumeAllIs
<1>3. f[0] = v
  <2>. DEFINE n == Len(s)
  <2>1. n \in Nat /\ Knows(f, v, s, n)
    BY <1>1, <1>2
  <2>. HIDE DEF n
  <2>. QED BY <2>1, KnowsFields
<1>4. 0 \in 0..Len(s) /\ \A i \in 0 + 1..Len(s) : Talk(s[i])
  BY <1>1 DEF Talks
<1>5. Hears(f[0], f[Len(s)])
  BY <1>1, <1>2, <1>3, <1>4, TalkOn
<1>. QED BY <1>2, <1>3, <1>5

\* Events of which the last alone ends the stream.
Ends(s) == \E t, e : s = Append(t, e) /\ Talks(t) /\ IsTerminal(e)

LEMMA EndsStream ==
  ASSUME NEW v, IsKnowledge(v), v.phase = "open", NEW s, Ends(s)
  PROVE  IsKnowledge(ConsumeAll(v, s)) /\ ConsumeAll(v, s).phase \in {"done", "error"}
<1>1. PICK t, e : s = Append(t, e) /\ Talks(t) /\ IsTerminal(e)
  BY DEF Ends
<1>2. ConsumeAll(v, s) = Consume(ConsumeAll(v, t), e)
  BY <1>1, ConsumeAppended DEF Talks
<1>3. Hears(v, ConsumeAll(v, t))
  BY <1>1, TalkThrough
<1>4. IsKnowledge(ConsumeAll(v, s)) /\ ConsumeAll(v, s).phase = e.type
  BY <1>2, <1>3, <1>1, ConsumeTerminal DEF Hears
<1>. QED BY <1>1, <1>4 DEF IsTerminal

-----------------------------------------------------------------------------
(* What a loop pushes. *)

BlockFields == {"kind", "id", "text", "sig", "redacted"}
IsBlock(b) == DOMAIN b = BlockFields /\ b.kind \in Kinds
HasBlocks(m) == IsSequence(m.content) /\ \A i \in DOMAIN m.content : IsBlock(m.content[i])

\* Where the vendor's blocks are: a finite map of numbers.
IsIndex(at) == \E n \in Nat : \A k \in DOMAIN at : k \in 0..n /\ at[k] \in 0..n

\* A loop that goes on.
Speaks(m) ==
  /\ DOMAIN m = DOMAIN Machine /\ m.over = FALSE
  /\ Talks(m.out) /\ HasBlocks(m) /\ IsIndex(m.at)

LEMMA MachineSpeaks == Speaks(Machine)
<1>1. /\ DOMAIN Machine = DOMAIN Machine /\ Machine.over = FALSE /\ Machine.out = <<>>
      /\ Machine.content = <<>> /\ Machine.at = <<>>
  BY DEF Machine, Nothing
<1>2. IsSequence(<<>>) /\ Len(<<>>) = 0 /\ DOMAIN <<>> = {}
  <2>1. <<>> \in Seq({})
    OBVIOUS
  <2>2. IsSequence(<<>>)
    BY <2>1 DEF IsSequence
  <2>. QED BY <2>2
<1>3. IsIndex(<<>>)
  <2>1. \A k \in DOMAIN <<>> : k \in 0..0 /\ <<>>[k] \in 0..0
    BY <1>2
  <2>. QED BY <2>1 DEF IsIndex
<1>. QED BY <1>1, <1>2, <1>3 DEF Speaks, Talks, HasBlocks

LEMMA TalksOn ==
  ASSUME NEW s, Talks(s), NEW e, Talk(e)
  PROVE  Talks(Append(s, e))
<1>. DEFINE t == Append(s, e)
<1>1. /\ IsSequence(t) /\ Len(t) = Len(s) + 1 /\ t[Len(s) + 1] = e
      /\ \A i \in 1..Len(s) : t[i] = s[i]
      /\ Len(s) \in Nat
  BY Appended DEF Talks
<1>. HIDE DEF t
<1>2. \A i \in 1..Len(t) : Talk(t[i])
  <2>. TAKE i \in 1..Len(t)
  <2>1. CASE i = Len(s) + 1
    BY <1>1, <2>1
  <2>2. CASE i # Len(s) + 1
    <3>1. i \in 1..Len(s)
      BY <1>1, <2>2
    <3>. QED BY <1>1, <3>1 DEF Talks
  <2>. QED BY <2>1, <2>2
<1>3. Talks(t)
  BY <1>1, <1>2 DEF Talks
<1>. QED BY <1>3 DEF t

\* n is m with another message.
Holds(m, n, content) ==
  DOMAIN n = DOMAIN m /\ n.out = m.out /\ n.over = m.over /\ n.content = content
  /\ n.at = m.at

LEMMA Emits ==
  ASSUME NEW m, Speaks(m), NEW e, Talk(e)
  PROVE  /\ Speaks(Emit(m, e)) /\ Emit(m, e).content = m.content
         /\ Emit(m, e).at = m.at
<1>. DEFINE n == Emit(m, e)
<1>1. /\ DOMAIN n = DOMAIN Machine /\ n.over = FALSE /\ n.out = Append(m.out, e)
      /\ n.content = m.content /\ n.at = m.at
  BY DEF Speaks, Emit, Machine
<1>2. Talks(Append(m.out, e))
  BY TalksOn DEF Speaks
<1>. HIDE DEF n
<1>3. Speaks(n)
  BY <1>1, <1>2 DEF Speaks, HasBlocks
<1>. QED BY <1>1, <1>3 DEF n

LEMMA Events ==
  ASSUME NEW i
  PROVE  /\ \A kind : Talk(Opened(i, kind))
         /\ \A kind, text : Talk(Delta(i, kind, text))
         /\ \A block : Talk(Ended(i, block))
BY DEF Talk, Opened, Delta, Ended

LEMMA EmitsBlocks ==
  ASSUME NEW m, Speaks(m), NEW i
  PROVE  /\ Speaks(EmitOpened(m, i)) /\ EmitOpened(m, i).content = m.content
         /\ Speaks(EmitEnded(m, i)) /\ EmitEnded(m, i).content = m.content
BY Emits, Events DEF EmitOpened, EmitEnded

LEMMA HoldsOn ==
  ASSUME NEW m, Speaks(m), NEW n, NEW content, Holds(m, n, content), IsSequence(content),
         \A i \in DOMAIN content : IsBlock(content[i])
  PROVE  Speaks(n)
BY DEF Speaks, Holds, HasBlocks

LEMMA Adds ==
  ASSUME NEW m, Speaks(m), NEW block, IsBlock(block)
  PROVE  Speaks(Add(m, block))
<1>. DEFINE n == Add(m, block)
            content == Append(m.content, block)
<1>1. Holds(m, n, content)
  BY DEF Speaks, Holds, Add, Machine
<1>2. /\ IsSequence(content) /\ DOMAIN content = 1..Len(m.content) + 1
      /\ content[Len(m.content) + 1] = block
      /\ \A i \in 1..Len(m.content) : content[i] = m.content[i]
      /\ Len(m.content) \in Nat /\ DOMAIN m.content = 1..Len(m.content)
  BY Appended DEF Speaks, HasBlocks
<1>. HIDE DEF content
<1>3. \A i \in DOMAIN content : IsBlock(content[i])
  <2>. TAKE i \in DOMAIN content
  <2>1. CASE i = Len(m.content) + 1
    BY <1>2, <2>1
  <2>2. CASE i # Len(m.content) + 1
    <3>1. i \in DOMAIN m.content
      BY <1>2, <2>2
    <3>. QED BY <1>2, <3>1 DEF Speaks, HasBlocks
  <2>. QED BY <2>1, <2>2
<1>. QED BY <1>1, <1>2, <1>3, HoldsOn

\* The message keeps its blocks, whatever is in them.
Recast(before, after) ==
  /\ after = [i \in DOMAIN before |-> after[i]]
  /\ \A i \in DOMAIN before :
       DOMAIN after[i] = DOMAIN before[i] /\ after[i].kind = before[i].kind

LEMMA RecastOn ==
  ASSUME NEW m, Speaks(m), NEW n, NEW content, Holds(m, n, content),
         Recast(m.content, content)
  PROVE  Speaks(n)
<1>1. DOMAIN content = 1..Len(m.content) /\ Len(m.content) \in Nat
      /\ DOMAIN m.content = 1..Len(m.content)
  BY Appended DEF Speaks, HasBlocks, Recast
<1>2. IsSequence(content)
  <2>1. content \in [1..Len(m.content) -> Range(content)]
    BY <1>1 DEF Range, Recast
  <2>2. content \in Seq(Range(content))
    BY <1>1, <2>1
  <2>. QED BY <2>2 DEF IsSequence
<1>3. \A i \in DOMAIN content : IsBlock(content[i])
  BY <1>1 DEF Speaks, HasBlocks, IsBlock, Recast
<1>. QED BY <1>2, <1>3, HoldsOn

\* n is m with this for the block at i.
LEMMA Retouches ==
  ASSUME NEW m, Speaks(m), NEW i, NEW n, NEW block,
         n = [m EXCEPT !.content[i] = block],
         i \in DOMAIN m.content =>
           DOMAIN block = BlockFields /\ block.kind = m.content[i].kind
  PROVE  Speaks(n) /\ DOMAIN n.content = DOMAIN m.content
<1>. DEFINE content == [m.content EXCEPT ![i] = block]
<1>1. n = [m EXCEPT !.content = content]
  BY Zenon
<1>2. Recast(m.content, content) /\ DOMAIN content = DOMAIN m.content
  BY DEF Recast, Speaks, HasBlocks, IsBlock
<1>. HIDE DEF content
<1>3. Holds(m, n, content)
  BY <1>1 DEF Speaks, Holds, Machine
<1>. QED BY <1>2, <1>3, RecastOn DEF Holds

LEMMA Rewrites ==
  ASSUME NEW m, Speaks(m), NEW i, NEW x, NEW n,
         \/ n = [m EXCEPT !.content[i].text = x]
         \/ n = [m EXCEPT !.content[i].sig = x]
         \/ n = [m EXCEPT !.content[i].id = x]
  PROVE  Speaks(n) /\ DOMAIN n.content = DOMAIN m.content
<1>1. PICK block :
        /\ n = [m EXCEPT !.content[i] = block]
        /\ \/ block = [m.content[i] EXCEPT !.text = x]
           \/ block = [m.content[i] EXCEPT !.sig = x]
           \/ block = [m.content[i] EXCEPT !.id = x]
  <2>1. CASE n = [m EXCEPT !.content[i].text = x]
    <3>1. n = [m EXCEPT !.content[i] = [m.content[i] EXCEPT !.text = x]]
      BY <2>1, Zenon
    <3>. QED BY <3>1, Zenon
  <2>2. CASE n = [m EXCEPT !.content[i].sig = x]
    <3>1. n = [m EXCEPT !.content[i] = [m.content[i] EXCEPT !.sig = x]]
      BY <2>2, Zenon
    <3>. QED BY <3>1, Zenon
  <2>3. CASE n = [m EXCEPT !.content[i].id = x]
    <3>1. n = [m EXCEPT !.content[i] = [m.content[i] EXCEPT !.id = x]]
      BY <2>3, Zenon
    <3>. QED BY <3>1, Zenon
  <2>. QED BY <2>1, <2>2, <2>3
<1>2. i \in DOMAIN m.content =>
        DOMAIN block = BlockFields /\ block.kind = m.content[i].kind
  BY <1>1 DEF Speaks, HasBlocks, IsBlock, BlockFields
<1>. QED BY <1>1, <1>2, Retouches

\* Variables of its own.
LEMMA Keeps ==
  ASSUME NEW m, Speaks(m), NEW n, DOMAIN n = DOMAIN m, n.out = m.out, n.over = m.over,
         n.content = m.content, n.at = m.at
  PROVE  Speaks(n)
BY DEF Speaks, HasBlocks

LEMMA Extends ==
  ASSUME NEW m, Speaks(m), NEW i, NEW kind, NEW text
  PROVE  Speaks(Extend(m, i, kind, text))
<1>. DEFINE n == [m EXCEPT !.content[i].text = @ \o text]
<1>1. n = [m EXCEPT !.content[i].text = m.content[i].text \o text]
  BY Zenon
<1>. HIDE DEF n
<1>2. Speaks(n)
  BY <1>1, Rewrites
<1>3. Extend(m, i, kind, text) = n \/ Extend(m, i, kind, text) = m
  BY Zenon DEF Extend, n
<1>. QED BY <1>2, <1>3

LEMMA Collects ==
  ASSUME NEW m, Speaks(m), NEW k, NEW text
  PROVE  Speaks(Collect(m, k, text))
<1>. DEFINE n == Collect(m, k, text)
            buf == Put(m.buf, k, Lookup(m.buf, k, <<>>) \o text)
<1>1. n = [m EXCEPT !.buf = buf]
  BY Zenon DEF Collect
<1>. HIDE DEF buf
<1>2. DOMAIN n = DOMAIN m /\ n.out = m.out /\ n.over = m.over /\ n.content = m.content
      /\ n.at = m.at
  BY <1>1 DEF Speaks, Machine
<1>. QED BY <1>2, Keeps

LEMMA ParsedIs ==
  ASSUME NEW block, IsBlock(block), NEW raw
  PROVE  DOMAIN Parsed(block, raw) = BlockFields /\ Parsed(block, raw).kind = block.kind
<1>1. \/ Parsed(block, raw) = block \/ Parsed(block, raw) = [block EXCEPT !.text = raw]
  BY Zenon DEF Parsed
<1>. QED BY <1>1 DEF IsBlock, BlockFields

LEMMA Parses ==
  ASSUME NEW m, Speaks(m), NEW i, NEW raw
  PROVE  Speaks(Parse(m, i, raw))
<1>. DEFINE block == Parsed(m.content[i], raw)
            n == [m EXCEPT !.content[i] = block]
<1>1. CASE i \in DOMAIN m.content
  <2>1. Parse(m, i, raw) = n
    BY <1>1, Zenon DEF Parse
  <2>2. DOMAIN block = BlockFields /\ block.kind = m.content[i].kind
    BY <1>1, ParsedIs DEF Speaks, HasBlocks
  <2>. HIDE DEF block
  <2>3. Speaks(n)
    BY <2>2, Retouches
  <2>. QED BY <2>1, <2>3
<1>2. CASE i \notin DOMAIN m.content
  BY <1>2, Zenon DEF Parse
<1>. QED BY <1>1, <1>2

LEMMA ParsesCalls ==
  ASSUME NEW m, Speaks(m)
  PROVE  Speaks(ParseCalls(m)) /\ ParseCalls(m).out = m.out
<1>. DEFINE content == [i \in DOMAIN m.content |-> Parsed(m.content[i], Arguments(m, i))]
            n == ParseCalls(m)
<1>1. n = [m EXCEPT !.content = content]
  BY Zenon DEF ParseCalls
<1>2. Recast(m.content, content)
  BY ParsedIs DEF Recast, Speaks, HasBlocks, IsBlock
<1>. HIDE DEF content, n
<1>3. Holds(m, n, content)
  BY <1>1 DEF Speaks, Holds, Machine
<1>. QED BY <1>2, <1>3, RecastOn DEF Holds, n

LEMMA EmitsAll ==
  ASSUME NEW m, Speaks(m), NEW order, IsSequence(order)
  PROVE  Speaks(EmitAllEnded(m, order))
<1>. DEFINE ends == [j \in DOMAIN order |-> Ended(order[j], m.content[order[j]])]
            n == EmitAllEnded(m, order)
<1>1. n = [m EXCEPT !.out = m.out \o ends]
  BY Zenon DEF EmitAllEnded
<1>2. Len(order) \in Nat /\ DOMAIN order = 1..Len(order)
  BY Appended
<1>3. ends \in Seq(Range(ends)) /\ Len(ends) = Len(order)
  <2>1. ends \in [1..Len(order) -> Range(ends)]
    BY <1>2 DEF Range
  <2>. HIDE DEF ends
  <2>. QED BY <1>2, <2>1
<1>4. \A j \in 1..Len(ends) : Talk(ends[j])
  BY <1>2, <1>3, Events
<1>. HIDE DEF ends
<1>5. Talks(m.out \o ends)
  <2>1. PICK S : m.out \in Seq(S)
    BY DEF Speaks, Talks, IsSequence
  <2>2. m.out \in Seq(S \cup Range(ends)) /\ ends \in Seq(S \cup Range(ends))
    BY <1>3, <2>1
  <2>3. /\ m.out \o ends \in Seq(S \cup Range(ends))
        /\ Len(m.out \o ends) = Len(m.out) + Len(ends)
        /\ \A i \in 1..Len(m.out) + Len(ends) :
             (m.out \o ends)[i] = IF i <= Len(m.out) THEN m.out[i] ELSE ends[i - Len(m.out)]
    BY <2>2
  <2>4. IsSequence(m.out \o ends)
    BY <2>3 DEF IsSequence
  <2>5. \A i \in 1..Len(m.out) : Talk(m.out[i])
    BY DEF Speaks, Talks
  <2>6. Len(m.out) \in Nat /\ Len(ends) \in Nat
    BY <1>3, <2>1
  <2>7. \A i \in 1..Len(m.out \o ends) : Talk((m.out \o ends)[i])
    <3>. TAKE i \in 1..Len(m.out \o ends)
    <3>1. CASE i <= Len(m.out)
      BY <2>3, <2>5, <2>6, <3>1
    <3>2. CASE ~(i <= Len(m.out))
      BY <1>4, <2>3, <2>6, <3>2
    <3>. QED BY <3>1, <3>2
  <2>. QED BY <2>4, <2>7 DEF Talks
<1>. DEFINE out == m.out \o ends
<1>. HIDE DEF out, n
<1>6. n = [m EXCEPT !.out = out] /\ Talks(out)
  BY <1>1, <1>5 DEF out
<1>. QED BY <1>6 DEF Speaks, Machine, HasBlocks, n

-----------------------------------------------------------------------------
(* How a loop ends. *)

\* It goes on, or it is over and its last event ends the stream.
Goes(n) == Speaks(n) \/ (n.over = TRUE /\ Ends(n.out))

LEMMA Finishes ==
  ASSUME NEW m, Speaks(m), NEW e, IsTerminal(e)
  PROVE  Finished(m, e).over = TRUE /\ Ends(Finished(m, e).out)
<1>. DEFINE n == Finished(m, e)
<1>1. n.over = TRUE /\ n.out = Append(m.out, e)
  BY DEF Finished, Emit, Speaks, Machine
<1>2. Ends(Append(m.out, e))
  BY DEF Ends, Speaks
<1>. QED BY <1>1, <1>2

LEMMA Terminals ==
  ASSUME NEW reason, NEW message
  PROVE  IsTerminal(Done(reason, message)) /\ IsTerminal(Failed(reason, message))
BY DEF IsTerminal, Done, Failed

LEMMA Concluded ==
  ASSUME NEW m, Speaks(m)
  PROVE  /\ Conclude(m).over = TRUE /\ Ends(Conclude(m).out)
         /\ Incomplete(m).over = TRUE /\ Ends(Incomplete(m).out)
<1>1. Incomplete(m).over = TRUE /\ Ends(Incomplete(m).out)
  BY Finishes, Terminals DEF Incomplete
<1>2. \/ Conclude(m) = Incomplete(m)
      \/ Conclude(m) = Finished(m, Done(DoneReason(m.stop), Message(m.content, m.stop)))
  BY Zenon DEF Conclude
<1>3. Conclude(m).over = TRUE /\ Ends(Conclude(m).out)
  BY <1>1, <1>2, Finishes, Terminals
<1>. QED BY <1>1, <1>3
LEMMA Notes ==
  ASSUME NEW m, Speaks(m), NEW x, NEW n,
         \/ n = [m EXCEPT !.buf = x]
         \/ n = [m EXCEPT !.ended = x]
         \/ n = [m EXCEPT !.open = x]
         \/ n = [m EXCEPT !.text = x]
         \/ n = [m EXCEPT !.think = x]
         \/ n = [m EXCEPT !.finish = x]
         \/ n = [m EXCEPT !.saw = x]
         \/ n = [m EXCEPT !.stop = x]
  PROVE  Speaks(n) /\ n.content = m.content /\ n.at = m.at
<1>1. /\ DOMAIN n = DOMAIN m /\ n.out = m.out /\ n.over = m.over /\ n.content = m.content
      /\ n.at = m.at
  BY DEF Speaks, Machine
<1>. QED BY <1>1, Keeps

LEMMA Indexes ==
  ASSUME NEW m, Speaks(m), NEW k \in Nat, NEW i \in Nat, NEW n,
         n = [m EXCEPT !.at = Put(m.at, k, i)]
  PROVE  Speaks(n) /\ n.content = m.content /\ n.at = Put(m.at, k, i) /\ n.at[k] = i
<1>. DEFINE at == Put(m.at, k, i)
<1>1. PICK top \in Nat : \A l \in DOMAIN m.at : l \in 0..top /\ m.at[l] \in 0..top
  BY DEF Speaks, IsIndex
<1>2. PICK far \in Nat : top <= far /\ k <= far /\ i <= far
  <2>1. top <= top + k + i /\ k <= top + k + i /\ i <= top + k + i /\ top + k + i \in Nat
    OBVIOUS
  <2>. QED BY <2>1
<1>3. /\ DOMAIN at = DOMAIN m.at \cup {k} /\ at[k] = i
      /\ \A l \in DOMAIN m.at : l # k => at[l] = m.at[l]
  BY DEF Put
<1>. HIDE DEF at
<1>4. \A l \in DOMAIN at : l \in 0..far /\ at[l] \in 0..far
  <2>. TAKE l \in DOMAIN at
  <2>1. CASE l = k
    BY <1>2, <1>3, <2>1
  <2>2. CASE l # k
    BY <1>1, <1>2, <1>3, <2>2
  <2>. QED BY <2>1, <2>2
<1>5. IsIndex(at)
  BY <1>4 DEF IsIndex
<1>6. n = [m EXCEPT !.at = at]
  BY DEF at
<1>. QED BY <1>3, <1>5, <1>6 DEF Speaks, Machine, HasBlocks, at

LEMMA NewBlocks ==
  /\ \A kind \in Kinds : IsBlock(Block(kind))
  /\ \A id : IsBlock(ToolBlock(id))
BY DEF IsBlock, BlockFields, Block, ToolBlock, Kinds

\* A content index that is there.
LEMMA NextIndexIs ==
  ASSUME NEW m, Speaks(m)
  PROVE  NextIndex(m) \in Nat /\ Len(m.content) \in Nat /\ DOMAIN m.content = 1..Len(m.content)
BY Appended DEF Speaks, HasBlocks, NextIndex

\* An event about a block.
Fits(api, e) ==
  e.type \in {"open", "added", "frag", "sign", "whole", "part", "close"} =>
    /\ e.b \in Nat /\ e.kind \in Kinds \cup {"redacted"}
    /\ e.kind = "redacted" => api = "anthropic"

LEMMA MoveFits ==
  ASSUME NEW api, NEW r, IsReply(api, r), NEW move \in Moves(api, r)
  PROVE  Fits(api, move.event)
<1>. DEFINE e == move.event
            q == move.reply
<1>. HIDE DEF e, q
<1>1. Moved(api, r, e, q)
  BY MoveCases DEF e, q
<1>2. Len(r.blocks) + 1 \in Nat /\ \A b \in 1..Len(r.blocks) : b \in Nat
  BY ReplyFacts
<1>3. \A b \in 1..Len(r.blocks) :
        /\ r.blocks[b].kind \in Kinds \cup {"redacted"}
        /\ r.blocks[b].kind = "redacted" => api = "anthropic"
  BY DEF IsReply, IsSaid
<1>4. CASE Begins(api, r, e, q)
  <2>1. /\ e.b = Len(r.blocks) + 1 /\ e.kind \in Kinds \cup {"redacted"}
        /\ MayBegin(api, r, e.kind)
    BY <1>4, Zenon DEF Begins
  <2>. QED BY <1>2, <2>1 DEF Fits, MayBegin, e
<1>5. CASE \/ Grows(api, r, e, q) \/ Signs(api, r, e, q) \/ Repeats(api, r, e, q)
          \/ Shuts(api, r, e, q)
  <2>1. \E b \in 1..Len(r.blocks) : e.b = b /\ e.kind = r.blocks[b].kind
    <3>1. \E b \in 1..Len(r.blocks) : \E type, text, sig :
            e = Wire(type, b, r.blocks[b].kind, text, sig, FALSE)
      BY <1>5, Zenon DEF Grows, Signs, Repeats, Shuts
    <3>. QED BY <3>1 DEF Wire
  <2>. QED BY <1>2, <1>3, <2>1 DEF Fits, e
<1>6. CASE ComesLate(api, r, e, q)
  <2>1. PICK type : e = Wire(type, Len(r.blocks) + 1, "text",
                            <<<<Len(r.blocks) + 1, 1>>>>, <<>>, TRUE)
    BY <1>6, Zenon DEF ComesLate
  <2>2. e.b = Len(r.blocks) + 1 /\ e.kind = "text"
    BY <2>1 DEF Wire
  <2>. QED BY <1>2, <2>2 DEF Fits, Kinds, e
<1>7. CASE Stops(api, r, e, q) \/ Concludes(api, r, e, q) \/ Breaks(api, r, e, q)
  <2>1. PICK type \in {"end", "stop", "eof", "broken", "fail"} :
          \E reason : e = Signal(type, reason)
    <3>1. CASE Stops(api, r, e, q)
      <4>1. PICK reason : e = Signal(IF api = "responses" THEN "end" ELSE "stop", reason)
        BY <3>1, Zenon DEF Stops
      <4>2. CASE api = "responses"
        BY <4>1, <4>2
      <4>3. CASE api # "responses"
        BY <4>1, <4>3
      <4>. QED BY <4>2, <4>3
    <3>2. CASE Concludes(api, r, e, q)
      BY <3>2, Zenon DEF Concludes
    <3>3. CASE Breaks(api, r, e, q)
      BY <3>3, Zenon DEF Breaks
    <3>. QED BY <1>7, <3>1, <3>2, <3>3
  <2>2. e.type = type
    BY <2>1 DEF Signal, Wire
  <2>. QED BY <2>2 DEF Fits, e
<1>. QED BY <1>1, <1>4, <1>5, <1>6, <1>7, Zenon DEF Moved, e

-----------------------------------------------------------------------------
(* Members in ascending order. *)

Ascends(s, S, n) ==
  s \in [1..n -> S] /\ \A i, j \in DOMAIN s : i < j => s[i] < s[j]

\* The least member goes before the others.
LEMMA AscendingStep ==
  ASSUME NEW U, U \subseteq Nat, NEW x \in U, \A y \in U : x <= y,
         NEW k \in Nat, NEW t, Ascends(t, U \ {x}, k)
  PROVE  \E s : Ascends(s, U, k + 1)
<1>. DEFINE s == [i \in 1..k + 1 |-> IF i = 1 THEN x ELSE t[i - 1]]
<1>0. /\ \A i \in 1..k : t[i] \in U /\ t[i] # x
      /\ \A i, j \in 1..k : i < j => t[i] < t[j]
  BY DEF Ascends
<1>1. \A i \in 1..k + 1 : s[i] \in U
  <2>. TAKE i \in 1..k + 1
  <2>1. CASE i = 1
    BY <2>1
  <2>2. CASE i # 1
    <3>1. i - 1 \in 1..k
      BY <2>2
    <3>. QED BY <1>0, <2>2, <3>1
  <2>. QED BY <2>1, <2>2
<1>2. ASSUME NEW i \in 1..k + 1, NEW j \in 1..k + 1, i < j PROVE s[i] < s[j]
  <2>1. j # 1 /\ j - 1 \in 1..k
    BY <1>2
  <2>2. s[j] = t[j - 1] /\ t[j - 1] \in U /\ t[j - 1] # x
    BY <1>0, <2>1
  <2>3. CASE i = 1
    <3>1. s[i] = x
      BY <2>3
    <3>2. x <= t[j - 1] /\ x \in Nat /\ t[j - 1] \in Nat
      BY <2>2
    <3>. QED BY <2>2, <3>1, <3>2
  <2>4. CASE i # 1
    <3>1. i - 1 \in 1..k /\ i - 1 < j - 1
      BY <1>2, <2>4
    <3>2. s[i] = t[i - 1]
      BY <2>4
    <3>. QED BY <1>0, <2>1, <2>2, <3>1, <3>2
  <2>. QED BY <2>3, <2>4
<1>. HIDE DEF s
<1>3. s \in [1..k + 1 -> U]
  <2>1. DOMAIN s = 1..k + 1 /\ s = [i \in 1..k + 1 |-> s[i]]
    BY DEF s
  <2>. QED BY <1>1, <2>1
<1>4. DOMAIN s = 1..k + 1
  BY <1>3
<1>5. Ascends(s, U, k + 1)
  BY <1>2, <1>3, <1>4 DEF Ascends
<1>. QED BY <1>5

\* Every finite set of numbers can be put in order: of those that cannot, one
\* with the least members would be such a set without its least member too.
Scrambled(U) ==
  U \subseteq Nat /\ IsFiniteSet(U) /\ ~\E s : Ascends(s, U, Cardinality(U))

LEMMA AscendingExists ==
  ASSUME NEW S, S \subseteq Nat, IsFiniteSet(S)
  PROVE  \E s : Ascends(s, S, Cardinality(S))
<1>. DEFINE T == {n \in Nat : \E U : Scrambled(U) /\ Cardinality(U) = n}
<1>1. \A U : IsFiniteSet(U) => Cardinality(U) \in Nat
  BY FS_CardinalityType
<1>2. SUFFICES ASSUME T # {} PROVE FALSE
  BY <1>1 DEF Scrambled
<1>3. PICK n \in T : \A k \in T : n <= k
  <2>1. T \subseteq Nat
    OBVIOUS
  <2>. HIDE DEF T
  <2>. QED BY <1>2, <2>1, LeastNatural
<1>4. PICK U : Scrambled(U) /\ Cardinality(U) = n /\ n \in Nat
  BY <1>3
<1>5. /\ U \subseteq Nat /\ IsFiniteSet(U) /\ Cardinality(U) = n
      /\ ~\E s : Ascends(s, U, n)
  BY <1>4 DEF Scrambled
<1>6. U # {}
  <2>. SUFFICES ASSUME U = {} PROVE FALSE
    OBVIOUS
  <2>1. n = 0
    BY <1>5, FS_EmptySet
  <2>. DEFINE s == [i \in 1..0 |-> 0]
  <2>2. Ascends(s, U, 0)
    BY DEF Ascends
  <2>. QED BY <1>5, <2>1, <2>2
<1>7. PICK x \in U : \A y \in U : x <= y
  BY <1>5, <1>6, LeastNatural
<1>. DEFINE V == U \ {x}
<1>8. V \subseteq Nat /\ IsFiniteSet(V) /\ Cardinality(V) = n - 1
  BY <1>5, FS_RemoveElement
<1>9. n - 1 \in Nat
  BY <1>1, <1>8
<1>10. n - 1 \notin T
  BY <1>3, <1>4, <1>9
<1>11. PICK t : Ascends(t, V, n - 1)
  <2>1. ~Scrambled(V)
    <3>. HIDE DEF V
    <3>. QED BY <1>8, <1>9, <1>10
  <2>. HIDE DEF V
  <2>. QED BY <1>8, <2>1 DEF Scrambled
<1>12. \E s : Ascends(s, U, n - 1 + 1)
  BY <1>5, <1>7, <1>9, <1>11, AscendingStep
<1>13. n - 1 + 1 = n
  BY <1>4
<1>. QED BY <1>5, <1>12, <1>13

LEMMA AscendingIs ==
  ASSUME NEW S, S \subseteq Nat, IsFiniteSet(S)
  PROVE  /\ Ascends(Ascending(S), S, Cardinality(S)) /\ Cardinality(S) \in Nat
         /\ IsSequence(Ascending(S)) /\ Len(Ascending(S)) = Cardinality(S)
<1>1. PICK s : Ascends(s, S, Cardinality(S))
  BY AscendingExists
<1>2. Ascends(Ascending(S), S, Cardinality(S))
  BY <1>1 DEF Ascends, Ascending
<1>3. Cardinality(S) \in Nat
  BY FS_CardinalityType
<1>4. Ascending(S) \in Seq(S) /\ Len(Ascending(S)) = Cardinality(S)
  BY <1>2, <1>3 DEF Ascends
<1>. QED BY <1>2, <1>3, <1>4 DEF IsSequence

LEMMA IndexFinite ==
  ASSUME NEW m, Speaks(m)
  PROVE  /\ DOMAIN m.at \subseteq Nat /\ IsFiniteSet(DOMAIN m.at)
         /\ \A k \in DOMAIN m.at : m.at[k] \in Nat
<1>1. PICK n \in Nat : \A k \in DOMAIN m.at : k \in 0..n /\ m.at[k] \in 0..n
  BY DEF Speaks, IsIndex
<1>2. /\ DOMAIN m.at \subseteq Nat /\ \A k \in DOMAIN m.at : k <= n
      /\ \A k \in DOMAIN m.at : m.at[k] \in Nat
  BY <1>1
<1>3. IsFiniteSet(DOMAIN m.at)
  <2>1. DOMAIN m.at \subseteq 0..n
    BY <1>1
  <2>2. 0 \in Int /\ n \in Int
    OBVIOUS
  <2>3. IsFiniteSet(0..n)
    BY <2>2, FS_Interval
  <2>. QED BY <2>1, <2>3, FS_Subset
<1>. QED BY <1>2, <1>3

-----------------------------------------------------------------------------
(* The shared steps, as each dialect's module has them. *)

LEMMA AnthropicShares ==
  /\ \A kind : Anthropic!Block(kind) = Block(kind)
  /\ \A id : Anthropic!ToolBlock(id) = ToolBlock(id)
  /\ \A m, i, kind : Anthropic!Is(m, i, kind) <=> Is(m, i, kind)
  /\ \A map, k : Anthropic!Known(map, k) <=> Known(map, k)
  /\ \A map, k, default : Anthropic!Lookup(map, k, default) = Lookup(map, k, default)
  /\ \A blocks, i, b : Anthropic!Put(blocks, i, b) = Put(blocks, i, b)
  /\ \A i, kind, text : Anthropic!Delta(i, kind, text) = Delta(i, kind, text)
  /\ \A m, e : Anthropic!Emit(m, e) = Emit(m, e)
  /\ \A m, i : Anthropic!EmitOpened(m, i) = EmitOpened(m, i)
  /\ \A m, i : Anthropic!EmitEnded(m, i) = EmitEnded(m, i)
  /\ \A m : Anthropic!Incomplete(m) = Incomplete(m)
  /\ \A m : Anthropic!Conclude(m) = Conclude(m)
  /\ \A m, i, kind, text : Anthropic!Extend(m, i, kind, text) = Extend(m, i, kind, text)
  /\ \A m, i, raw : Anthropic!Parse(m, i, raw) = Parse(m, i, raw)
  /\ \A m, k, text : Anthropic!Collect(m, k, text) = Collect(m, k, text)
<1>1. \A kind : Anthropic!Block(kind) = Block(kind)
  BY DEF Block, Anthropic!Block
<1>2. \A id : Anthropic!ToolBlock(id) = ToolBlock(id)
  BY <1>1 DEF ToolBlock, Anthropic!ToolBlock
<1>3. \A m, i, kind : Anthropic!Is(m, i, kind) <=> Is(m, i, kind)
  BY DEF Is, Anthropic!Is
<1>4. \A map, k : Anthropic!Known(map, k) <=> Known(map, k)
  BY DEF Known, Anthropic!Known
<1>5. \A map, k, default : Anthropic!Lookup(map, k, default) = Lookup(map, k, default)
  BY <1>4 DEF Lookup, Anthropic!Lookup
<1>6. \A blocks, i, b : Anthropic!Put(blocks, i, b) = Put(blocks, i, b)
  BY DEF Put, Anthropic!Put
<1>7. \A i, kind, text : Anthropic!Delta(i, kind, text) = Delta(i, kind, text)
  BY DEF Delta, Anthropic!Delta
<1>8. \A m, e : Anthropic!Emit(m, e) = Emit(m, e)
  BY DEF Emit, Anthropic!Emit
<1>9. \A m, i : Anthropic!EmitOpened(m, i) = EmitOpened(m, i)
  BY <1>8 DEF EmitOpened, Anthropic!EmitOpened, Opened, Anthropic!Opened
<1>10. \A m, i : Anthropic!EmitEnded(m, i) = EmitEnded(m, i)
  BY <1>8 DEF EmitEnded, Anthropic!EmitEnded, Ended, Anthropic!Ended
<1>11. \A m, e : Anthropic!Finished(m, e) = Finished(m, e)
  BY <1>8 DEF Finished, Anthropic!Finished
<1>12. \A m : Anthropic!Incomplete(m) = Incomplete(m)
  BY <1>11 DEF Incomplete, Anthropic!Incomplete, Failed, Anthropic!Failed, Message,
     Anthropic!Message
<1>13. \A m : Anthropic!Conclude(m) = Conclude(m)
  <2>1. \A stop : Anthropic!DoneReason(stop) = DoneReason(stop)
    BY DEF DoneReason, Anthropic!DoneReason
  <2>2. \A reason, message : Anthropic!Done(reason, message) = Done(reason, message)
    BY DEF Done, Anthropic!Done
  <2>3. \A content, stop : Anthropic!Message(content, stop) = Message(content, stop)
    BY DEF Message, Anthropic!Message
  <2>. QED BY <1>11, <1>12, <2>1, <2>2, <2>3
              DEF Conclude, Anthropic!Conclude
<1>14. \A m, i, kind, text : Anthropic!Extend(m, i, kind, text) = Extend(m, i, kind, text)
  BY <1>3 DEF Extend, Anthropic!Extend
<1>15. \A m, i, raw : Anthropic!Parse(m, i, raw) = Parse(m, i, raw)
  <2>1. \A block, raw : Anthropic!Parsed(block, raw) = Parsed(block, raw)
    BY DEF Parsed, Anthropic!Parsed
  <2>. QED BY <2>1 DEF Parse, Anthropic!Parse
<1>16. \A m, k, text : Anthropic!Collect(m, k, text) = Collect(m, k, text)
  BY <1>6, <1>5 DEF Collect, Anthropic!Collect
<1>. QED BY <1>1, <1>2, <1>3, <1>4, <1>5, <1>6, <1>7, <1>8, <1>9, <1>10, <1>12,
            <1>13, <1>14, <1>15, <1>16

LEMMA CompletionsShares ==
  /\ \A kind : Completions!Block(kind) = Block(kind)
  /\ \A id : Completions!ToolBlock(id) = ToolBlock(id)
  /\ \A m : Completions!NextIndex(m) = NextIndex(m)
  /\ \A m, block : Completions!Add(m, block) = Add(m, block)
  /\ \A m, i, kind : Completions!Is(m, i, kind) <=> Is(m, i, kind)
  /\ \A map, k : Completions!Known(map, k) <=> Known(map, k)
  /\ \A map, k, default : Completions!Lookup(map, k, default) = Lookup(map, k, default)
  /\ \A blocks, i, b : Completions!Put(blocks, i, b) = Put(blocks, i, b)
  /\ \A i, kind, text : Completions!Delta(i, kind, text) = Delta(i, kind, text)
  /\ \A m, e : Completions!Emit(m, e) = Emit(m, e)
  /\ \A m, i : Completions!EmitOpened(m, i) = EmitOpened(m, i)
  /\ \A m, order : Completions!EmitAllEnded(m, order) = EmitAllEnded(m, order)
  /\ \A S : Completions!Ascending(S) = Ascending(S)
  /\ \A m : Completions!Incomplete(m) = Incomplete(m)
  /\ \A m : Completions!Conclude(m) = Conclude(m)
  /\ \A m, i, kind, text : Completions!Extend(m, i, kind, text) = Extend(m, i, kind, text)
  /\ \A m : Completions!ParseCalls(m) = ParseCalls(m)
  /\ \A m, k, text : Completions!Collect(m, k, text) = Collect(m, k, text)
<1>1. \A kind : Completions!Block(kind) = Block(kind)
  BY DEF Block, Completions!Block
<1>2. \A id : Completions!ToolBlock(id) = ToolBlock(id)
  BY <1>1 DEF ToolBlock, Completions!ToolBlock
<1>3. \A m : Completions!NextIndex(m) = NextIndex(m)
  BY DEF NextIndex, Completions!NextIndex
<1>4. \A m, block : Completions!Add(m, block) = Add(m, block)
  BY DEF Add, Completions!Add
<1>5. \A m, i, kind : Completions!Is(m, i, kind) <=> Is(m, i, kind)
  BY DEF Is, Completions!Is
<1>6. \A map, k : Completions!Known(map, k) <=> Known(map, k)
  BY DEF Known, Completions!Known
<1>7. \A map, k, default : Completions!Lookup(map, k, default) = Lookup(map, k, default)
  BY <1>6 DEF Lookup, Completions!Lookup
<1>8. \A blocks, i, b : Completions!Put(blocks, i, b) = Put(blocks, i, b)
  BY DEF Put, Completions!Put
<1>9. \A i, kind, text : Completions!Delta(i, kind, text) = Delta(i, kind, text)
  BY DEF Delta, Completions!Delta
<1>10. \A m, e : Completions!Emit(m, e) = Emit(m, e)
  BY DEF Emit, Completions!Emit
<1>11. \A m, i : Completions!EmitOpened(m, i) = EmitOpened(m, i)
  BY <1>10 DEF EmitOpened, Completions!EmitOpened, Opened, Completions!Opened
<1>12. \A m, order : Completions!EmitAllEnded(m, order) = EmitAllEnded(m, order)
  BY DEF EmitAllEnded, Completions!EmitAllEnded, Ended, Completions!Ended
<1>13. \A S : Completions!Ascending(S) = Ascending(S)
  <2>. TAKE S
  <2>1. Completions!Cardinality(S) = Cardinality(S)
    BY Zenon DEF Cardinality, Completions!Cardinality
  <2>. QED BY <2>1, Zenon DEF Ascending, Completions!Ascending
<1>14. \A m, e : Completions!Finished(m, e) = Finished(m, e)
  BY <1>10 DEF Finished, Completions!Finished
<1>15. \A m : Completions!Incomplete(m) = Incomplete(m)
  BY <1>14 DEF Incomplete, Completions!Incomplete, Failed, Completions!Failed, Message,
     Completions!Message
<1>16. \A m : Completions!Conclude(m) = Conclude(m)
  <2>1. \A stop : Completions!DoneReason(stop) = DoneReason(stop)
    BY DEF DoneReason, Completions!DoneReason
  <2>2. \A reason, message : Completions!Done(reason, message) = Done(reason, message)
    BY DEF Done, Completions!Done
  <2>3. \A content, stop : Completions!Message(content, stop) = Message(content, stop)
    BY DEF Message, Completions!Message
  <2>. QED BY <1>14, <1>15, <2>1, <2>2, <2>3
              DEF Conclude, Completions!Conclude
<1>17. \A m, i, kind, text : Completions!Extend(m, i, kind, text) = Extend(m, i, kind, text)
  BY <1>5 DEF Extend, Completions!Extend
<1>18. \A m : Completions!ParseCalls(m) = ParseCalls(m)
  <2>1. \A block, raw : Completions!Parsed(block, raw) = Parsed(block, raw)
    BY DEF Parsed, Completions!Parsed
  <2>2. \A m, i : Completions!Arguments(m, i) = Arguments(m, i)
    BY Zenon DEF Arguments, Completions!Arguments
  <2>. QED BY <2>1, <2>2 DEF ParseCalls, Completions!ParseCalls
<1>19. \A m, k, text : Completions!Collect(m, k, text) = Collect(m, k, text)
  BY <1>8, <1>7 DEF Collect, Completions!Collect
<1>. QED BY <1>1, <1>2, <1>3, <1>4, <1>5, <1>6, <1>7, <1>8, <1>9, <1>10, <1>11,
            <1>12, <1>13, <1>15, <1>16, <1>17, <1>18, <1>19

LEMMA ResponsesShares ==
  /\ \A kind : Responses!Block(kind) = Block(kind)
  /\ \A id : Responses!ToolBlock(id) = ToolBlock(id)
  /\ \A m : Responses!NextIndex(m) = NextIndex(m)
  /\ \A m, block : Responses!Add(m, block) = Add(m, block)
  /\ \A m, i, kind : Responses!Is(m, i, kind) <=> Is(m, i, kind)
  /\ \A map, k : Responses!Known(map, k) <=> Known(map, k)
  /\ \A map, k, default : Responses!Lookup(map, k, default) = Lookup(map, k, default)
  /\ \A blocks, i, b : Responses!Put(blocks, i, b) = Put(blocks, i, b)
  /\ \A i, kind, text : Responses!Delta(i, kind, text) = Delta(i, kind, text)
  /\ \A m, e : Responses!Emit(m, e) = Emit(m, e)
  /\ \A m, i : Responses!EmitOpened(m, i) = EmitOpened(m, i)
  /\ \A m, i : Responses!EmitEnded(m, i) = EmitEnded(m, i)
  /\ \A reason, message : Responses!Failed(reason, message) = Failed(reason, message)
  /\ \A content, stop : Responses!Message(content, stop) = Message(content, stop)
  /\ \A m, e : Responses!Finished(m, e) = Finished(m, e)
  /\ \A m : Responses!Incomplete(m) = Incomplete(m)
  /\ \A m : Responses!Conclude(m) = Conclude(m)
  /\ \A m, i, kind, text : Responses!Extend(m, i, kind, text) = Extend(m, i, kind, text)
  /\ \A m, i, raw : Responses!Parse(m, i, raw) = Parse(m, i, raw)
  /\ \A m, k, text : Responses!Collect(m, k, text) = Collect(m, k, text)
<1>1. \A kind : Responses!Block(kind) = Block(kind)
  BY DEF Block, Responses!Block
<1>2. \A id : Responses!ToolBlock(id) = ToolBlock(id)
  BY <1>1 DEF ToolBlock, Responses!ToolBlock
<1>3. \A m : Responses!NextIndex(m) = NextIndex(m)
  BY DEF NextIndex, Responses!NextIndex
<1>4. \A m, block : Responses!Add(m, block) = Add(m, block)
  BY DEF Add, Responses!Add
<1>5. \A m, i, kind : Responses!Is(m, i, kind) <=> Is(m, i, kind)
  BY DEF Is, Responses!Is
<1>6. \A map, k : Responses!Known(map, k) <=> Known(map, k)
  BY DEF Known, Responses!Known
<1>7. \A map, k, default : Responses!Lookup(map, k, default) = Lookup(map, k, default)
  BY <1>6 DEF Lookup, Responses!Lookup
<1>8. \A blocks, i, b : Responses!Put(blocks, i, b) = Put(blocks, i, b)
  BY DEF Put, Responses!Put
<1>9. \A i, kind, text : Responses!Delta(i, kind, text) = Delta(i, kind, text)
  BY DEF Delta, Responses!Delta
<1>10. \A m, e : Responses!Emit(m, e) = Emit(m, e)
  BY DEF Emit, Responses!Emit
<1>11. \A m, i : Responses!EmitOpened(m, i) = EmitOpened(m, i)
  BY <1>10 DEF EmitOpened, Responses!EmitOpened, Opened, Responses!Opened
<1>12. \A m, i : Responses!EmitEnded(m, i) = EmitEnded(m, i)
  BY <1>10 DEF EmitEnded, Responses!EmitEnded, Ended, Responses!Ended
<1>13. \A reason, message : Responses!Failed(reason, message) = Failed(reason, message)
  BY DEF Failed, Responses!Failed
<1>14. \A content, stop : Responses!Message(content, stop) = Message(content, stop)
  BY DEF Message, Responses!Message
<1>15. \A m, e : Responses!Finished(m, e) = Finished(m, e)
  BY <1>10 DEF Finished, Responses!Finished
<1>16. \A m : Responses!Incomplete(m) = Incomplete(m)
  BY <1>15 DEF Incomplete, Responses!Incomplete, Failed, Responses!Failed, Message,
     Responses!Message
<1>17. \A m : Responses!Conclude(m) = Conclude(m)
  <2>1. \A stop : Responses!DoneReason(stop) = DoneReason(stop)
    BY DEF DoneReason, Responses!DoneReason
  <2>2. \A reason, message : Responses!Done(reason, message) = Done(reason, message)
    BY DEF Done, Responses!Done
  <2>3. \A content, stop : Responses!Message(content, stop) = Message(content, stop)
    BY DEF Message, Responses!Message
  <2>. QED BY <1>15, <1>16, <2>1, <2>2, <2>3
              DEF Conclude, Responses!Conclude
<1>18. \A m, i, kind, text : Responses!Extend(m, i, kind, text) = Extend(m, i, kind, text)
  BY <1>5 DEF Extend, Responses!Extend
<1>19. \A m, i, raw : Responses!Parse(m, i, raw) = Parse(m, i, raw)
  <2>1. \A block, raw : Responses!Parsed(block, raw) = Parsed(block, raw)
    BY DEF Parsed, Responses!Parsed
  <2>. QED BY <2>1 DEF Parse, Responses!Parse
<1>20. \A m, k, text : Responses!Collect(m, k, text) = Collect(m, k, text)
  BY <1>8, <1>7 DEF Collect, Responses!Collect
<1>. QED BY <1>1, <1>2, <1>3, <1>4, <1>5, <1>6, <1>7, <1>8, <1>9, <1>10, <1>11,
            <1>12, <1>13, <1>14, <1>15, <1>16, <1>17, <1>18, <1>19, <1>20

LEMMA MistralApiShares ==
  /\ \A kind : MistralApi!Block(kind) = Block(kind)
  /\ \A id : MistralApi!ToolBlock(id) = ToolBlock(id)
  /\ \A m : MistralApi!NextIndex(m) = NextIndex(m)
  /\ \A m, block : MistralApi!Add(m, block) = Add(m, block)
  /\ \A m, i, kind : MistralApi!Is(m, i, kind) <=> Is(m, i, kind)
  /\ \A map, k : MistralApi!Known(map, k) <=> Known(map, k)
  /\ \A map, k, default : MistralApi!Lookup(map, k, default) = Lookup(map, k, default)
  /\ \A blocks, i, b : MistralApi!Put(blocks, i, b) = Put(blocks, i, b)
  /\ \A i, kind, text : MistralApi!Delta(i, kind, text) = Delta(i, kind, text)
  /\ \A m, e : MistralApi!Emit(m, e) = Emit(m, e)
  /\ \A m, i : MistralApi!EmitOpened(m, i) = EmitOpened(m, i)
  /\ \A m, i : MistralApi!EmitEnded(m, i) = EmitEnded(m, i)
  /\ \A m, order : MistralApi!EmitAllEnded(m, order) = EmitAllEnded(m, order)
  /\ \A S : MistralApi!Ascending(S) = Ascending(S)
  /\ \A m : MistralApi!Incomplete(m) = Incomplete(m)
  /\ \A m : MistralApi!Conclude(m) = Conclude(m)
  /\ \A m, i, kind, text : MistralApi!Extend(m, i, kind, text) = Extend(m, i, kind, text)
  /\ \A m : MistralApi!ParseCalls(m) = ParseCalls(m)
  /\ \A m, k, text : MistralApi!Collect(m, k, text) = Collect(m, k, text)
<1>1. \A kind : MistralApi!Block(kind) = Block(kind)
  BY DEF Block, MistralApi!Block
<1>2. \A id : MistralApi!ToolBlock(id) = ToolBlock(id)
  BY <1>1 DEF ToolBlock, MistralApi!ToolBlock
<1>3. \A m : MistralApi!NextIndex(m) = NextIndex(m)
  BY DEF NextIndex, MistralApi!NextIndex
<1>4. \A m, block : MistralApi!Add(m, block) = Add(m, block)
  BY DEF Add, MistralApi!Add
<1>5. \A m, i, kind : MistralApi!Is(m, i, kind) <=> Is(m, i, kind)
  BY DEF Is, MistralApi!Is
<1>6. \A map, k : MistralApi!Known(map, k) <=> Known(map, k)
  BY DEF Known, MistralApi!Known
<1>7. \A map, k, default : MistralApi!Lookup(map, k, default) = Lookup(map, k, default)
  BY <1>6 DEF Lookup, MistralApi!Lookup
<1>8. \A blocks, i, b : MistralApi!Put(blocks, i, b) = Put(blocks, i, b)
  BY DEF Put, MistralApi!Put
<1>9. \A i, kind, text : MistralApi!Delta(i, kind, text) = Delta(i, kind, text)
  BY DEF Delta, MistralApi!Delta
<1>10. \A m, e : MistralApi!Emit(m, e) = Emit(m, e)
  BY DEF Emit, MistralApi!Emit
<1>11. \A m, i : MistralApi!EmitOpened(m, i) = EmitOpened(m, i)
  BY <1>10 DEF EmitOpened, MistralApi!EmitOpened, Opened, MistralApi!Opened
<1>12. \A m, i : MistralApi!EmitEnded(m, i) = EmitEnded(m, i)
  BY <1>10 DEF EmitEnded, MistralApi!EmitEnded, Ended, MistralApi!Ended
<1>13. \A m, order : MistralApi!EmitAllEnded(m, order) = EmitAllEnded(m, order)
  BY DEF EmitAllEnded, MistralApi!EmitAllEnded, Ended, MistralApi!Ended
<1>14. \A S : MistralApi!Ascending(S) = Ascending(S)
  <2>. TAKE S
  <2>1. MistralApi!Cardinality(S) = Cardinality(S)
    BY Zenon DEF Cardinality, MistralApi!Cardinality
  <2>. QED BY <2>1, Zenon DEF Ascending, MistralApi!Ascending
<1>15. \A m, e : MistralApi!Finished(m, e) = Finished(m, e)
  BY <1>10 DEF Finished, MistralApi!Finished
<1>16. \A m : MistralApi!Incomplete(m) = Incomplete(m)
  BY <1>15 DEF Incomplete, MistralApi!Incomplete, Failed, MistralApi!Failed, Message,
     MistralApi!Message
<1>17. \A m : MistralApi!Conclude(m) = Conclude(m)
  <2>1. \A stop : MistralApi!DoneReason(stop) = DoneReason(stop)
    BY DEF DoneReason, MistralApi!DoneReason
  <2>2. \A reason, message : MistralApi!Done(reason, message) = Done(reason, message)
    BY DEF Done, MistralApi!Done
  <2>3. \A content, stop : MistralApi!Message(content, stop) = Message(content, stop)
    BY DEF Message, MistralApi!Message
  <2>. QED BY <1>15, <1>16, <2>1, <2>2, <2>3
              DEF Conclude, MistralApi!Conclude
<1>18. \A m, i, kind, text : MistralApi!Extend(m, i, kind, text) = Extend(m, i, kind, text)
  BY <1>5 DEF Extend, MistralApi!Extend
<1>19. \A m : MistralApi!ParseCalls(m) = ParseCalls(m)
  <2>1. \A block, raw : MistralApi!Parsed(block, raw) = Parsed(block, raw)
    BY DEF Parsed, MistralApi!Parsed
  <2>2. \A m, i : MistralApi!Arguments(m, i) = Arguments(m, i)
    BY Zenon DEF Arguments, MistralApi!Arguments
  <2>. QED BY <2>1, <2>2 DEF ParseCalls, MistralApi!ParseCalls
<1>20. \A m, k, text : MistralApi!Collect(m, k, text) = Collect(m, k, text)
  BY <1>8, <1>7 DEF Collect, MistralApi!Collect
<1>. QED BY <1>1, <1>2, <1>3, <1>4, <1>5, <1>6, <1>7, <1>8, <1>9, <1>10, <1>11,
            <1>12, <1>13, <1>14, <1>16, <1>17, <1>18, <1>19, <1>20

LEMMA GeminiShares ==
  /\ \A kind : Gemini!Block(kind) = Block(kind)
  /\ \A id : Gemini!ToolBlock(id) = ToolBlock(id)
  /\ \A m : Gemini!NextIndex(m) = NextIndex(m)
  /\ \A m, block : Gemini!Add(m, block) = Add(m, block)
  /\ \A m, i, kind : Gemini!Is(m, i, kind) <=> Is(m, i, kind)
  /\ \A i, kind, text : Gemini!Delta(i, kind, text) = Delta(i, kind, text)
  /\ \A m, e : Gemini!Emit(m, e) = Emit(m, e)
  /\ \A m, i : Gemini!EmitOpened(m, i) = EmitOpened(m, i)
  /\ \A m, i : Gemini!EmitEnded(m, i) = EmitEnded(m, i)
  /\ \A m : Gemini!Incomplete(m) = Incomplete(m)
  /\ \A m : Gemini!Conclude(m) = Conclude(m)
  /\ \A m, i, kind, text : Gemini!Extend(m, i, kind, text) = Extend(m, i, kind, text)
<1>1. \A kind : Gemini!Block(kind) = Block(kind)
  BY DEF Block, Gemini!Block
<1>2. \A id : Gemini!ToolBlock(id) = ToolBlock(id)
  BY <1>1 DEF ToolBlock, Gemini!ToolBlock
<1>3. \A m : Gemini!NextIndex(m) = NextIndex(m)
  BY DEF NextIndex, Gemini!NextIndex
<1>4. \A m, block : Gemini!Add(m, block) = Add(m, block)
  BY DEF Add, Gemini!Add
<1>5. \A m, i, kind : Gemini!Is(m, i, kind) <=> Is(m, i, kind)
  BY DEF Is, Gemini!Is
<1>6. \A i, kind, text : Gemini!Delta(i, kind, text) = Delta(i, kind, text)
  BY DEF Delta, Gemini!Delta
<1>7. \A m, e : Gemini!Emit(m, e) = Emit(m, e)
  BY DEF Emit, Gemini!Emit
<1>8. \A m, i : Gemini!EmitOpened(m, i) = EmitOpened(m, i)
  BY <1>7 DEF EmitOpened, Gemini!EmitOpened, Opened, Gemini!Opened
<1>9. \A m, i : Gemini!EmitEnded(m, i) = EmitEnded(m, i)
  BY <1>7 DEF EmitEnded, Gemini!EmitEnded, Ended, Gemini!Ended
<1>10. \A m, e : Gemini!Finished(m, e) = Finished(m, e)
  BY <1>7 DEF Finished, Gemini!Finished
<1>11. \A m : Gemini!Incomplete(m) = Incomplete(m)
  BY <1>10 DEF Incomplete, Gemini!Incomplete, Failed, Gemini!Failed, Message,
     Gemini!Message
<1>12. \A m : Gemini!Conclude(m) = Conclude(m)
  <2>1. \A stop : Gemini!DoneReason(stop) = DoneReason(stop)
    BY DEF DoneReason, Gemini!DoneReason
  <2>2. \A reason, message : Gemini!Done(reason, message) = Done(reason, message)
    BY DEF Done, Gemini!Done
  <2>3. \A content, stop : Gemini!Message(content, stop) = Message(content, stop)
    BY DEF Message, Gemini!Message
  <2>. QED BY <1>10, <1>11, <2>1, <2>2, <2>3
              DEF Conclude, Gemini!Conclude
<1>13. \A m, i, kind, text : Gemini!Extend(m, i, kind, text) = Extend(m, i, kind, text)
  BY <1>5 DEF Extend, Gemini!Extend
<1>. QED BY <1>1, <1>2, <1>3, <1>4, <1>5, <1>6, <1>7, <1>8, <1>9, <1>11, <1>12,
            <1>13

LEMMA BedrockShares ==
  /\ \A kind : Bedrock!Block(kind) = Block(kind)
  /\ \A id : Bedrock!ToolBlock(id) = ToolBlock(id)
  /\ \A m : Bedrock!NextIndex(m) = NextIndex(m)
  /\ \A m, block : Bedrock!Add(m, block) = Add(m, block)
  /\ \A m, i, kind : Bedrock!Is(m, i, kind) <=> Is(m, i, kind)
  /\ \A map, k : Bedrock!Known(map, k) <=> Known(map, k)
  /\ \A map, k, default : Bedrock!Lookup(map, k, default) = Lookup(map, k, default)
  /\ \A blocks, i, b : Bedrock!Put(blocks, i, b) = Put(blocks, i, b)
  /\ \A i, kind, text : Bedrock!Delta(i, kind, text) = Delta(i, kind, text)
  /\ \A m, e : Bedrock!Emit(m, e) = Emit(m, e)
  /\ \A m, i : Bedrock!EmitOpened(m, i) = EmitOpened(m, i)
  /\ \A m, i : Bedrock!EmitEnded(m, i) = EmitEnded(m, i)
  /\ \A m : Bedrock!Incomplete(m) = Incomplete(m)
  /\ \A m : Bedrock!Conclude(m) = Conclude(m)
  /\ \A m, i, kind, text : Bedrock!Extend(m, i, kind, text) = Extend(m, i, kind, text)
  /\ \A m, i, raw : Bedrock!Parse(m, i, raw) = Parse(m, i, raw)
  /\ \A m, k, text : Bedrock!Collect(m, k, text) = Collect(m, k, text)
<1>1. \A kind : Bedrock!Block(kind) = Block(kind)
  BY DEF Block, Bedrock!Block
<1>2. \A id : Bedrock!ToolBlock(id) = ToolBlock(id)
  BY <1>1 DEF ToolBlock, Bedrock!ToolBlock
<1>3. \A m : Bedrock!NextIndex(m) = NextIndex(m)
  BY DEF NextIndex, Bedrock!NextIndex
<1>4. \A m, block : Bedrock!Add(m, block) = Add(m, block)
  BY DEF Add, Bedrock!Add
<1>5. \A m, i, kind : Bedrock!Is(m, i, kind) <=> Is(m, i, kind)
  BY DEF Is, Bedrock!Is
<1>6. \A map, k : Bedrock!Known(map, k) <=> Known(map, k)
  BY DEF Known, Bedrock!Known
<1>7. \A map, k, default : Bedrock!Lookup(map, k, default) = Lookup(map, k, default)
  BY <1>6 DEF Lookup, Bedrock!Lookup
<1>8. \A blocks, i, b : Bedrock!Put(blocks, i, b) = Put(blocks, i, b)
  BY DEF Put, Bedrock!Put
<1>9. \A i, kind, text : Bedrock!Delta(i, kind, text) = Delta(i, kind, text)
  BY DEF Delta, Bedrock!Delta
<1>10. \A m, e : Bedrock!Emit(m, e) = Emit(m, e)
  BY DEF Emit, Bedrock!Emit
<1>11. \A m, i : Bedrock!EmitOpened(m, i) = EmitOpened(m, i)
  BY <1>10 DEF EmitOpened, Bedrock!EmitOpened, Opened, Bedrock!Opened
<1>12. \A m, i : Bedrock!EmitEnded(m, i) = EmitEnded(m, i)
  BY <1>10 DEF EmitEnded, Bedrock!EmitEnded, Ended, Bedrock!Ended
<1>13. \A m, e : Bedrock!Finished(m, e) = Finished(m, e)
  BY <1>10 DEF Finished, Bedrock!Finished
<1>14. \A m : Bedrock!Incomplete(m) = Incomplete(m)
  BY <1>13 DEF Incomplete, Bedrock!Incomplete, Failed, Bedrock!Failed, Message,
     Bedrock!Message
<1>15. \A m : Bedrock!Conclude(m) = Conclude(m)
  <2>1. \A stop : Bedrock!DoneReason(stop) = DoneReason(stop)
    BY DEF DoneReason, Bedrock!DoneReason
  <2>2. \A reason, message : Bedrock!Done(reason, message) = Done(reason, message)
    BY DEF Done, Bedrock!Done
  <2>3. \A content, stop : Bedrock!Message(content, stop) = Message(content, stop)
    BY DEF Message, Bedrock!Message
  <2>. QED BY <1>13, <1>14, <2>1, <2>2, <2>3
              DEF Conclude, Bedrock!Conclude
<1>16. \A m, i, kind, text : Bedrock!Extend(m, i, kind, text) = Extend(m, i, kind, text)
  BY <1>5 DEF Extend, Bedrock!Extend
<1>17. \A m, i, raw : Bedrock!Parse(m, i, raw) = Parse(m, i, raw)
  <2>1. \A block, raw : Bedrock!Parsed(block, raw) = Parsed(block, raw)
    BY DEF Parsed, Bedrock!Parsed
  <2>. QED BY <2>1 DEF Parse, Bedrock!Parse
<1>18. \A m, k, text : Bedrock!Collect(m, k, text) = Collect(m, k, text)
  BY <1>8, <1>7 DEF Collect, Bedrock!Collect
<1>. QED BY <1>1, <1>2, <1>3, <1>4, <1>5, <1>6, <1>7, <1>8, <1>9, <1>10, <1>11,
            <1>12, <1>14, <1>15, <1>16, <1>17, <1>18

-----------------------------------------------------------------------------
(* Anthropic Messages. *)

LEMMA AnthropicEnsures ==
  ASSUME NEW m, Speaks(m), NEW i \in Nat, NEW block, IsBlock(block)
  PROVE  Speaks(Anthropic!EnsureBlock(m, i, block))
<1>. DEFINE len == IF i > Len(m.content) THEN i ELSE Len(m.content)
            content == [j \in 1..len |-> IF j = i THEN block
                          ELSE IF j \in DOMAIN m.content THEN m.content[j] ELSE Block("text")]
            n == Anthropic!EnsureBlock(m, i, block)
<1>1. n = [m EXCEPT !.content = content]
  <2>1. Anthropic!Block("text") = Block("text")
    BY AnthropicShares
  <2>. QED BY <2>1, Zenon DEF Anthropic!EnsureBlock
<1>2. len \in Nat
  BY NextIndexIs
<1>3. \A j \in 1..len : IsBlock(content[j])
  <2>1. IsBlock(Block("text"))
    BY NewBlocks DEF Kinds
  <2>2. \A j \in DOMAIN m.content : IsBlock(m.content[j])
    BY DEF Speaks, HasBlocks
  <2>. QED BY <2>1, <2>2
<1>4. DOMAIN content = 1..len /\ IsSequence(content)
  <2>1. content \in [1..len -> Range(content)]
    BY DEF Range
  <2>. HIDE DEF content, len
  <2>2. content \in Seq(Range(content))
    BY <1>2, <2>1
  <2>. QED BY <2>1, <2>2 DEF IsSequence
<1>. HIDE DEF content, len, n
<1>5. Holds(m, n, content)
  BY <1>1 DEF Speaks, Holds, Machine
<1>6. Speaks(n)
  BY <1>3, <1>4, <1>5, HoldsOn
<1>. QED BY <1>6 DEF n

\* What the loop makes of an event.
LEMMA AnthropicHandles ==
  ASSUME NEW m, NEW e
  PROVE  LET n == Anthropic!HandleSse(m, e) IN
         /\ e.type = "open"  => n = Anthropic!OnContentBlockStart(m, e)
         /\ e.type = "frag"  => n = Anthropic!OnContentBlockDelta(m, e)
         /\ e.type = "sign"  => n = Anthropic!OnSignatureDelta(m, e)
         /\ e.type = "close" => n = Anthropic!OnContentBlockStop(m, e)
         /\ e.type = "stop"  => n = [m EXCEPT !.stop = Anthropic!MapStopReason(e.kind)]
         /\ e.type = "end"   => n = Anthropic!Conclude(m)
         /\ e.type = "fail"  => n = Anthropic!Incomplete(m)
         /\ e.type \notin {"open", "frag", "sign", "close", "stop", "end", "fail"} => n = m
BY DEF Anthropic!HandleSse

LEMMA AnthropicStarts ==
  ASSUME NEW m, Speaks(m), NEW e, e.b \in Nat, e.kind \in Kinds \cup {"redacted"}
  PROVE  Speaks(Anthropic!OnContentBlockStart(m, e))
<1>. DEFINE block ==
       CASE e.kind = "tool"     -> ToolBlock(<<e.b>>)
         [] e.kind = "redacted" -> [Block("thinking") EXCEPT
                                      !.text = Anthropic!RedactedText, !.sig = e.sig,
                                      !.redacted = TRUE]
         [] OTHER               -> Block(e.kind)
<1>1. IsBlock(block)
  <2>1. CASE e.kind = "tool"
    BY <2>1, NewBlocks
  <2>2. CASE e.kind = "redacted"
    BY <2>2 DEF IsBlock, BlockFields, Block, Kinds
  <2>3. CASE e.kind \in Kinds /\ e.kind # "tool"
    BY <2>3, NewBlocks DEF Kinds
  <2>. QED BY <2>1, <2>2, <2>3
<1>2. Anthropic!OnContentBlockStart(m, e)
        = Anthropic!EmitOpened(Anthropic!EnsureBlock(m, e.b, block), e.b)
  <2>1. /\ Anthropic!ToolBlock(<<e.b>>) = ToolBlock(<<e.b>>)
        /\ Anthropic!Block("thinking") = Block("thinking")
        /\ Anthropic!Block(e.kind) = Block(e.kind)
    BY AnthropicShares
  <2>. QED BY <2>1, Zenon DEF Anthropic!OnContentBlockStart
<1>. HIDE DEF block
<1>3. Speaks(EmitOpened(Anthropic!EnsureBlock(m, e.b, block), e.b))
  BY <1>1, AnthropicEnsures, EmitsBlocks
<1>. QED BY <1>2, <1>3, AnthropicShares

LEMMA AnthropicDeltas ==
  ASSUME NEW m, Speaks(m), NEW e
  PROVE  Speaks(Anthropic!OnContentBlockDelta(m, e))
<1>1. PICK n : /\ n = Collect(m, e.b, e.text) \/ n = Extend(m, e.b, e.kind, e.text)
               /\ Anthropic!OnContentBlockDelta(m, e) = Emit(n, Delta(e.b, e.kind, e.text))
  BY AnthropicShares, Zenon DEF Anthropic!OnContentBlockDelta
<1>2. Speaks(n)
  BY <1>1, Collects, Extends
<1>. QED BY <1>1, <1>2, Emits, Events

LEMMA AnthropicSigns ==
  ASSUME NEW m, Speaks(m), NEW e
  PROVE  Speaks(Anthropic!OnSignatureDelta(m, e))
<1>. DEFINE sig == m.content[e.b].sig \o e.sig
            n == [m EXCEPT !.content[e.b].sig = sig]
<1>1. \/ Anthropic!OnSignatureDelta(m, e) = m
      \/ Anthropic!OnSignatureDelta(m, e) = n
  BY Zenon DEF Anthropic!OnSignatureDelta
<1>. HIDE DEF sig
<1>2. Speaks(n)
  BY Rewrites
<1>. QED BY <1>1, <1>2

LEMMA AnthropicStops ==
  ASSUME NEW m, Speaks(m), NEW e
  PROVE  Speaks(Anthropic!OnContentBlockStop(m, e))
<1>. DEFINE p == Parse(m, e.b, Lookup(m.buf, e.b, <<>>))
            n == Anthropic!OnContentBlockStop(m, e)
<1>1. Anthropic!Parse(m, e.b, Anthropic!Lookup(m.buf, e.b, <<>>)) = p
  BY AnthropicShares
<1>2. Speaks(p)
  BY Parses
<1>3. n = Anthropic!EmitEnded(p, e.b) \/ n = p
  <2>. HIDE DEF p
  <2>. QED BY <1>1, Zenon DEF Anthropic!OnContentBlockStop
<1>. HIDE DEF p, n
<1>4. Speaks(n)
  BY <1>2, <1>3, AnthropicShares, EmitsBlocks
<1>. QED BY <1>4 DEF n

LEMMA AnthropicGoes ==
  ASSUME NEW m, Speaks(m), NEW e, Fits("anthropic", e)
  PROVE  Goes(Anthropic!HandleSse(m, e)) /\ Goes(Anthropic!Eof(m))
<1>. DEFINE n == Anthropic!HandleSse(m, e)
            stop == Anthropic!MapStopReason(e.kind)
<1>1. /\ Goes(Anthropic!Incomplete(m)) /\ Goes(Anthropic!Conclude(m)) /\ Goes(m)
  BY Concluded, AnthropicShares DEF Goes
<1>2. e.type = "open" => Speaks(Anthropic!OnContentBlockStart(m, e))
  BY AnthropicStarts DEF Fits
<1>3. /\ e.type = "open"  => n = Anthropic!OnContentBlockStart(m, e)
      /\ e.type = "frag"  => n = Anthropic!OnContentBlockDelta(m, e)
      /\ e.type = "sign"  => n = Anthropic!OnSignatureDelta(m, e)
      /\ e.type = "close" => n = Anthropic!OnContentBlockStop(m, e)
      /\ e.type = "stop"  => n = [m EXCEPT !.stop = stop]
      /\ e.type = "end"   => n = Anthropic!Conclude(m)
      /\ e.type = "fail"  => n = Anthropic!Incomplete(m)
      /\ e.type \notin {"open", "frag", "sign", "close", "stop", "end", "fail"} => n = m
  BY AnthropicHandles
<1>. HIDE DEF n, stop
<1>4. e.type = "stop" => Speaks(n)
  <2>. SUFFICES ASSUME e.type = "stop" PROVE Speaks(n)
    OBVIOUS
  <2>1. n = [m EXCEPT !.stop = stop]
    BY <1>3
  <2>. QED BY <2>1, Notes
<1>5. Goes(n)
  BY <1>1, <1>2, <1>3, <1>4, AnthropicDeltas, AnthropicSigns, AnthropicStops DEF Goes
<1>6. Goes(Anthropic!Eof(m))
  BY <1>1 DEF Anthropic!Eof
<1>. QED BY <1>5, <1>6 DEF n

-----------------------------------------------------------------------------
(* Chat Completions. *)

LEMMA Concatenated ==
  ASSUME NEW s, IsSequence(s), NEW t, IsSequence(t)
  PROVE  IsSequence(s \o t)
<1>1. PICK S, T : s \in Seq(S) /\ t \in Seq(T)
  BY DEF IsSequence
<1>2. s \in Seq(S \cup T) /\ t \in Seq(S \cup T)
  BY <1>1
<1>3. s \o t \in Seq(S \cup T)
  BY <1>2
<1>. QED BY <1>3 DEF IsSequence

LEMMA CompletionsHandles ==
  ASSUME NEW m, NEW e
  PROVE  LET n == Completions!HandleChunk(m, e) IN
         /\ e.type = "end"  => n = Completions!Finish([m EXCEPT !.saw = TRUE])
         /\ e.type = "stop" => n = [m EXCEPT !.finish = e.kind]
         /\ e.type = "frag" /\ e.kind = "text"     => n = Completions!OnContent(m, e)
         /\ e.type = "frag" /\ e.kind = "thinking" => n = Completions!OnReasoning(m, e)
         /\ e.type = "frag" /\ e.kind = "tool"     => n = Completions!OnToolCall(m, e)
         /\ e.type \notin {"end", "stop", "frag"} => n = m
BY DEF Completions!HandleChunk, Completions!OnDelta

LEMMA Accumulates ==
  ASSUME NEW m, Speaks(m), NEW i, NEW text
  PROVE  Speaks(Completions!Accumulate(m, i, text))
<1>1. PICK n, kind :
        /\ n = EmitOpened(m, i) \/ n = m
        /\ Completions!Accumulate(m, i, text) = Emit(Extend(n, i, kind, text), Delta(i, kind, text))
  <2>. DEFINE kind == m.content[i].kind
              n == IF m.content[i].text = <<>> THEN EmitOpened(m, i) ELSE m
  <2>1. Completions!Accumulate(m, i, text)
          = Completions!Emit(Completions!Extend(
              IF m.content[i].text = <<>> THEN Completions!EmitOpened(m, i) ELSE m,
              i, kind, text), Completions!Delta(i, kind, text))
    BY Zenon DEF Completions!Accumulate
  <2>2. (IF m.content[i].text = <<>> THEN Completions!EmitOpened(m, i) ELSE m) = n
    BY CompletionsShares
  <2>3. Completions!Accumulate(m, i, text) = Emit(Extend(n, i, kind, text), Delta(i, kind, text))
    <3>. HIDE DEF n, kind
    <3>. QED BY <2>1, <2>2, CompletionsShares
  <2>4. n = EmitOpened(m, i) \/ n = m
    OBVIOUS
  <2>. QED BY <2>3, <2>4
<1>2. Speaks(n)
  BY <1>1, EmitsBlocks
<1>. QED BY <1>1, <1>2, Extends, Emits, Events

LEMMA OnContents ==
  ASSUME NEW m, Speaks(m), NEW e
  PROVE  Speaks(Completions!OnContent(m, e)) /\ Speaks(Completions!OnReasoning(m, e))
<1>. DEFINE i == NextIndex(m)
            text == [Add(m, Block("text")) EXCEPT !.text = i]
            think == [Add(m, Block("thinking")) EXCEPT !.think = i]
<1>1. Speaks(Add(m, Block("text"))) /\ Speaks(Add(m, Block("thinking")))
  BY Adds, NewBlocks DEF Kinds
<1>2. Speaks(text) /\ Speaks(think)
  <2>. HIDE DEF i
  <2>. QED BY <1>1, Notes
<1>3. /\ Completions!NextIndex(m) = i
      /\ Completions!Add(m, Completions!Block("text")) = Add(m, Block("text"))
      /\ Completions!Add(m, Completions!Block("thinking")) = Add(m, Block("thinking"))
  BY CompletionsShares
<1>4. \/ Completions!OnContent(m, e) = m
      \/ \E j : Completions!OnContent(m, e) = Completions!Accumulate(m, j, e.text)
      \/ Completions!OnContent(m, e) = Completions!Accumulate(text, i, e.text)
  <2>. HIDE DEF i
  <2>. QED BY <1>3, Zenon DEF Completions!OnContent
<1>5. \/ Completions!OnReasoning(m, e) = m
      \/ \E j : Completions!OnReasoning(m, e) = Completions!Accumulate(m, j, e.text)
      \/ Completions!OnReasoning(m, e) = Completions!Accumulate(think, i, e.text)
  <2>. HIDE DEF i
  <2>. QED BY <1>3, Zenon DEF Completions!OnReasoning
<1>. HIDE DEF i, text, think
<1>. QED BY <1>2, <1>4, <1>5, Accumulates

LEMMA Entries ==
  ASSUME NEW m, Speaks(m), NEW k \in Nat
  PROVE  Speaks(Completions!Entry(m, k))
<1>. DEFINE a == Add(m, ToolBlock(<<>>))
            i == NextIndex(m)
            n == [a EXCEPT !.at = Put(a.at, k, i)]
<1>1. Speaks(a)
  BY Adds, NewBlocks
<1>2. i \in Nat
  BY NextIndexIs
<1>3. Completions!Entry(m, k) = m \/ Completions!Entry(m, k) = n
  <2>1. /\ Completions!Add(m, Completions!ToolBlock(<<>>)) = a
        /\ Completions!NextIndex(m) = i
        /\ Completions!Put(a.at, k, i) = Put(a.at, k, i)
    BY CompletionsShares
  <2>. HIDE DEF a, i
  <2>. QED BY <2>1, Zenon DEF Completions!Entry
<1>. HIDE DEF a, i
<1>4. Speaks(n)
  BY <1>1, <1>2, Indexes
<1>. QED BY <1>3, <1>4

LEMMA OnToolCalls ==
  ASSUME NEW m, Speaks(m), NEW e, e.b \in Nat
  PROVE  Speaks(Completions!OnToolCall(m, e))
<1>. DEFINE n == Completions!Entry(m, e.b)
            i == n.at[e.b]
            id == IF e.head THEN <<e.b>> ELSE <<>>
            named == [n EXCEPT !.content[i].id = id]
            isNew == n.content[i].id = <<>> /\ Completions!Lookup(n.buf, e.b, <<>>) = <<>>
            begun == IF isNew THEN Completions!EmitOpened(named, i) ELSE n
<1>1. Speaks(n)
  BY Entries
<1>2. Speaks(named)
  <2>. HIDE DEF n, i, id
  <2>. QED BY <1>1, Rewrites
<1>3. Speaks(begun)
  <2>1. begun = EmitOpened(named, i) \/ begun = n
    <3>1. Completions!EmitOpened(named, i) = EmitOpened(named, i)
      BY CompletionsShares
    <3>. HIDE DEF named, i, n, isNew
    <3>. QED BY <3>1
  <2>. HIDE DEF begun, named, n, i
  <2>. QED BY <1>1, <1>2, <2>1, EmitsBlocks
<1>4. \/ Completions!OnToolCall(m, e) = begun
      \/ Completions!OnToolCall(m, e)
           = Completions!Emit(Completions!Collect(begun, e.b, e.text), Completions!Delta(i, "tool", e.text))
  BY Zenon DEF Completions!OnToolCall
<1>. HIDE DEF begun, i
<1>. QED BY <1>3, <1>4, CompletionsShares, Collects, Emits, Events

LEMMA Finalizes ==
  ASSUME NEW m, Speaks(m)
  PROVE  Speaks(Completions!Finalize(m))
<1>. DEFINE keys == Ascending(DOMAIN m.at)
            calls == [j \in DOMAIN keys |-> m.at[keys[j]]]
            order == Completions!Some(m.text) \o Completions!Some(m.think) \o calls
<1>1. DOMAIN keys = 1..Len(keys) /\ Len(keys) \in Nat
  BY IndexFinite, AscendingIs, Appended
<1>2. IsSequence(calls)
  <2>. HIDE DEF keys
  <2>1. calls \in [1..Len(keys) -> Range(calls)]
    BY <1>1 DEF Range
  <2>. HIDE DEF calls
  <2>2. calls \in Seq(Range(calls))
    BY <1>1, <2>1
  <2>. QED BY <2>2 DEF IsSequence
<1>3. \A i : IsSequence(Completions!Some(i))
  <2>. TAKE i
  <2>1. <<>> \in Seq({i}) /\ <<i>> \in Seq({i})
    OBVIOUS
  <2>2. Completions!Some(i) = <<>> \/ Completions!Some(i) = <<i>>
    BY DEF Completions!Some
  <2>3. Completions!Some(i) \in Seq({i})
    BY <2>1, <2>2
  <2>. QED BY <2>3 DEF IsSequence
<1>4. IsSequence(order)
  <2>. HIDE DEF calls
  <2>. QED BY <1>2, <1>3, Concatenated
<1>5. Completions!Finalize(m) = EmitAllEnded(ParseCalls(m), order)
  <2>1. /\ Completions!Ascending(DOMAIN m.at) = keys
        /\ Completions!ParseCalls(m) = ParseCalls(m)
    BY CompletionsShares
  <2>2. Completions!Finalize(m) = Completions!EmitAllEnded(ParseCalls(m), order)
    <3>. HIDE DEF keys
    <3>. QED BY <2>1, Zenon DEF Completions!Finalize
  <2>. HIDE DEF order
  <2>. QED BY <2>2, CompletionsShares
<1>. HIDE DEF order
<1>. QED BY <1>4, <1>5, ParsesCalls, EmitsAll

LEMMA CompletionsFinish ==
  ASSUME NEW m, Speaks(m)
  PROVE  Goes(Completions!Finish(m))
<1>. DEFINE n == Completions!Finalize(m)
<1>1. Speaks(n)
  BY Finalizes
<1>2. \/ Completions!Finish(m) = Completions!Incomplete(n)
      \/ \E stop : Completions!Finish(m) = Completions!Conclude([n EXCEPT !.stop = stop])
  BY Zenon DEF Completions!Finish
<1>. HIDE DEF n
<1>3. CASE Completions!Finish(m) = Completions!Incomplete(n)
  BY <1>1, <1>3, CompletionsShares, Concluded DEF Goes
<1>4. ASSUME NEW stop, Completions!Finish(m) = Completions!Conclude([n EXCEPT !.stop = stop])
      PROVE  Goes(Completions!Finish(m))
  <2>. DEFINE o == [n EXCEPT !.stop = stop]
  <2>1. Speaks(o)
    BY <1>1, Notes
  <2>2. Completions!Finish(m) = Completions!Conclude(o)
    BY <1>4
  <2>. HIDE DEF o
  <2>. QED BY <2>1, <2>2, CompletionsShares, Concluded DEF Goes
<1>. QED BY <1>2, <1>3, <1>4

LEMMA CompletionsGoes ==
  ASSUME NEW m, Speaks(m), NEW e, Fits("completions", e)
  PROVE  Goes(Completions!HandleChunk(m, e)) /\ Goes(Completions!Eof(m))
<1>. DEFINE n == Completions!HandleChunk(m, e)
            done == [m EXCEPT !.saw = TRUE]
            kind == e.kind
<1>1. /\ e.type = "end"  => n = Completions!Finish(done)
      /\ e.type = "stop" => n = [m EXCEPT !.finish = kind]
      /\ e.type = "frag" /\ e.kind = "text"     => n = Completions!OnContent(m, e)
      /\ e.type = "frag" /\ e.kind = "thinking" => n = Completions!OnReasoning(m, e)
      /\ e.type = "frag" /\ e.kind = "tool"     => n = Completions!OnToolCall(m, e)
      /\ e.type \notin {"end", "stop", "frag"} => n = m
  BY CompletionsHandles, Zenon
<1>2. Speaks(done)
  BY Notes, Zenon
<1>3. Speaks([m EXCEPT !.finish = kind])
  <2>. HIDE DEF kind
  <2>. QED BY Notes
<1>4. e.type = "frag" => e.b \in Nat /\ e.kind \in Kinds
  BY DEF Fits
<1>. HIDE DEF n, done, kind
<1>5. Goes(n)
  BY <1>1, <1>2, <1>3, <1>4, OnContents, OnToolCalls, CompletionsFinish DEF Goes, Kinds
<1>6. Goes(Completions!Eof(m))
  BY CompletionsFinish DEF Completions!Eof
<1>. QED BY <1>5, <1>6 DEF n

-----------------------------------------------------------------------------
(* Responses. *)

LEMMA ResponsesHandles ==
  ASSUME NEW m, NEW e
  PROVE  LET n == Responses!HandleEvent(m, e) IN
         /\ e.type = "open"  => n = Responses!OnOutputItemAdded(m, e)
         /\ e.type = "added" => n = Responses!OnContentPartAdded(m, e)
         /\ e.type = "frag"  => n = Responses!OnDelta(m, e)
         /\ e.type \in {"whole", "part"} => n = Responses!OnWhole(m, e)
         /\ e.type = "close" => n = Responses!OnOutputItemDone(m, e)
         /\ e.type = "end"   => n = Responses!OnResponseEnd(m, e)
         /\ e.type = "fail"  => n = Responses!Incomplete(m)
         /\ e.type \notin {"open", "added", "frag", "whole", "part", "close", "end", "fail"} => n = m
BY DEF Responses!HandleEvent

LEMMA AddsItems ==
  ASSUME NEW m, Speaks(m), NEW b \in Nat, NEW block, IsBlock(block)
  PROVE  Speaks(Responses!AddItem(m, b, block))
<1>. DEFINE a == Add(m, block)
            i == NextIndex(m)
            n == [a EXCEPT !.at = Put(a.at, b, i)]
<1>1. Speaks(a)
  BY Adds
<1>2. i \in Nat
  BY NextIndexIs
<1>3. Responses!AddItem(m, b, block) = Responses!EmitOpened(n, n.at[b])
  <2>1. /\ Responses!Add(m, block) = a /\ Responses!NextIndex(m) = i
        /\ Responses!Put(a.at, b, i) = Put(a.at, b, i)
    BY ResponsesShares
  <2>. HIDE DEF a, i
  <2>. QED BY <2>1, Zenon DEF Responses!AddItem
<1>4. Speaks(n)
  <2>. HIDE DEF a, i
  <2>. QED BY <1>1, <1>2, Indexes
<1>. HIDE DEF n
<1>. QED BY <1>3, <1>4, ResponsesShares, EmitsBlocks

LEMMA EndsOnce ==
  ASSUME NEW m, Speaks(m), NEW i
  PROVE  Speaks(Responses!EndOnce(m, i))
<1>. DEFINE ended == m.ended \cup {i}
            n == [m EXCEPT !.ended = ended]
<1>1. \/ Responses!EndOnce(m, i) = m
      \/ Responses!EndOnce(m, i) = Responses!EmitEnded(n, i)
  BY Zenon DEF Responses!EndOnce
<1>2. Speaks(n)
  <2>. HIDE DEF ended
  <2>. QED BY Notes
<1>. HIDE DEF n
<1>. QED BY <1>1, <1>2, ResponsesShares, EmitsBlocks

LEMMA TextOfIs ==
  ASSUME NEW b, NEW text
  PROVE  IsBlock(Responses!TextOf(b, text))
<1>. DEFINE block == Block("text")
<1>1. Responses!Block("text") = block
  BY ResponsesShares
<1>2. Responses!TextOf(b, text) = [block EXCEPT !.text = text, !.sig = <<b>>]
  <2>. HIDE DEF block
  <2>. QED BY <1>1, Zenon DEF Responses!TextOf
<1>3. IsBlock(block)
  BY NewBlocks DEF Kinds
<1>. HIDE DEF block
<1>. QED BY <1>2, <1>3 DEF IsBlock, BlockFields

LEMMA Announces ==
  ASSUME NEW m, Speaks(m), NEW e, e.b \in Nat, e.kind \in Kinds
  PROVE  Speaks(Responses!OnOutputItemAdded(m, e))
<1>. DEFINE n == Responses!AddItem(m, e.b, Responses!ToolBlock(Responses!JoinCallId(e.b)))
            buf == Responses!Put(n.buf, n.at[e.b], e.text)
            held == [n EXCEPT !.buf = buf]
<1>1. IsBlock(Responses!Block("thinking"))
      /\ IsBlock(Responses!ToolBlock(Responses!JoinCallId(e.b)))
  BY ResponsesShares, NewBlocks DEF Kinds
<1>2. Speaks(n)
  BY <1>1, AddsItems
<1>3. Speaks(held)
  <2>. HIDE DEF n, buf
  <2>. QED BY <1>2, Notes
<1>4. CASE e.kind = "text"
  <2>1. Responses!OnOutputItemAdded(m, e) = m
    BY <1>4 DEF Responses!OnOutputItemAdded
  <2>. QED BY <2>1
<1>5. CASE e.kind = "thinking"
  <2>1. Responses!OnOutputItemAdded(m, e) = Responses!AddItem(m, e.b, Responses!Block("thinking"))
    BY <1>5 DEF Responses!OnOutputItemAdded
  <2>. QED BY <1>1, <2>1, AddsItems
<1>6. CASE e.kind = "tool"
  <2>1. Responses!OnOutputItemAdded(m, e)
          = IF e.text = <<>> THEN n ELSE [n EXCEPT !.buf = Responses!Put(@, n.at[e.b], e.text)]
    <3>. HIDE DEF n
    <3>. QED BY <1>6 DEF Responses!OnOutputItemAdded, n
  <2>2. Responses!OnOutputItemAdded(m, e) = n \/ Responses!OnOutputItemAdded(m, e) = held
    <3>. HIDE DEF n
    <3>. QED BY <2>1
  <2>. HIDE DEF n, held
  <2>. QED BY <1>2, <1>3, <2>2
<1>. QED BY <1>4, <1>5, <1>6 DEF Kinds

LEMMA TextParts ==
  ASSUME NEW m, Speaks(m), NEW e, e.b \in Nat, NEW text, NEW i
  PROVE  /\ Speaks(Responses!EnsureContentPartText(m, e, text))
         /\ Speaks(Responses!EndTextContent(m, i, text))
<1>. DEFINE n == [m EXCEPT !.content[i].text = text]
<1>1. Speaks(n)
  BY Rewrites
<1>2. \/ Responses!EnsureContentPartText(m, e, text) = m
      \/ Responses!EnsureContentPartText(m, e, text)
           = Responses!AddItem(m, e.b, Responses!TextOf(e.b, text))
  BY Zenon DEF Responses!EnsureContentPartText
<1>3. \/ Responses!EndTextContent(m, i, text) = m
      \/ Responses!EndTextContent(m, i, text) = Responses!EndOnce(n, i)
  BY Zenon DEF Responses!EndTextContent
<1>. HIDE DEF n
<1>4. Speaks(Responses!EnsureContentPartText(m, e, text))
  BY <1>2, TextOfIs, AddsItems
<1>5. Speaks(Responses!EndTextContent(m, i, text))
  BY <1>1, <1>3, EndsOnce
<1>. QED BY <1>4, <1>5

LEMMA TextEvents ==
  ASSUME NEW m, Speaks(m), NEW e, e.b \in Nat
  PROVE  /\ Speaks(Responses!OnTextDelta(m, e))
         /\ Speaks(Responses!OnTextDone(m, e))
         /\ Speaks(Responses!OnContentPartDone(m, e))
<1>1. Speaks(Responses!OnTextDelta(m, e))
  <2>. DEFINE n == Responses!EnsureContentPartText(m, e, <<>>)
              i == n.at[e.b]
  <2>1. Speaks(n)
    BY TextParts
  <2>2. \/ Responses!OnTextDelta(m, e) = n
        \/ Responses!OnTextDelta(m, e)
             = Responses!Emit(Responses!Extend(n, i, "text", e.text),
                              Responses!Delta(i, "text", e.text))
    BY Zenon DEF Responses!OnTextDelta
  <2>. HIDE DEF n, i
  <2>. QED BY <2>1, <2>2, ResponsesShares, Extends, Emits, Events
<1>2. Speaks(Responses!OnTextDone(m, e))
  <2>1. \/ Responses!OnTextDone(m, e) = m
        \/ Responses!OnTextDone(m, e) = Responses!EndTextContent(m, m.at[e.b], e.text)
    BY Zenon DEF Responses!OnTextDone
  <2>. QED BY <2>1, TextParts
<1>3. Speaks(Responses!OnContentPartDone(m, e))
  <2>. DEFINE n == Responses!EnsureContentPartText(m, e, e.text)
  <2>1. Speaks(n)
    BY TextParts
  <2>2. Responses!OnContentPartDone(m, e) = Responses!EndTextContent(n, n.at[e.b], e.text)
    BY Zenon DEF Responses!OnContentPartDone
  <2>. HIDE DEF n
  <2>. QED BY <2>1, <2>2, TextParts
<1>. QED BY <1>1, <1>2, <1>3

LEMMA ThinkingEvents ==
  ASSUME NEW m, Speaks(m), NEW e, e.b \in Nat
  PROVE  /\ Speaks(Responses!OnThinkingDelta(m, e))
         /\ Speaks(Responses!OnThinkingDone(m, e))
<1>1. Speaks(Responses!OnThinkingDelta(m, e))
  <2>. DEFINE n == IF Responses!Known(m.at, e.b) THEN m
                   ELSE Responses!AddItem(m, e.b, Responses!Block("thinking"))
              i == n.at[e.b]
  <2>1. IsBlock(Responses!Block("thinking"))
    BY ResponsesShares, NewBlocks DEF Kinds
  <2>2. Speaks(n)
    BY <2>1, AddsItems
  <2>3. Responses!OnThinkingDelta(m, e)
          = Responses!Emit(Responses!Extend(n, i, "thinking", e.text),
                           Responses!Delta(i, "thinking", e.text))
    BY Zenon DEF Responses!OnThinkingDelta
  <2>. HIDE DEF n, i
  <2>. QED BY <2>2, <2>3, ResponsesShares, Extends, Emits, Events
<1>2. Speaks(Responses!OnThinkingDone(m, e))
  <2>. DEFINE text == e.text
              i == m.at[e.b]
              n == [m EXCEPT !.content[i].text = text]
  <2>1. Responses!OnThinkingDone(m, e) = m \/ Responses!OnThinkingDone(m, e) = n
    BY Zenon DEF Responses!OnThinkingDone
  <2>. HIDE DEF text, i
  <2>. QED BY <2>1, Rewrites
<1>. QED BY <1>1, <1>2

LEMMA ArgumentEvents ==
  ASSUME NEW m, Speaks(m), NEW e
  PROVE  /\ Speaks(Responses!OnToolArgsDelta(m, e))
         /\ Speaks(Responses!OnToolArgsDone(m, e))
<1>. DEFINE i == m.at[e.b]
<1>1. Speaks(Responses!OnToolArgsDelta(m, e))
  <2>1. \/ Responses!OnToolArgsDelta(m, e) = m
        \/ Responses!OnToolArgsDelta(m, e)
             = Responses!Emit(Responses!Collect(m, i, e.text), Responses!Delta(i, "tool", e.text))
    BY Zenon DEF Responses!OnToolArgsDelta
  <2>. HIDE DEF i
  <2>. QED BY <2>1, ResponsesShares, Collects, Emits, Events
<1>2. Speaks(Responses!OnToolArgsDone(m, e))
  <2>. DEFINE buf == Responses!Put(m.buf, i, e.text)
              n == [m EXCEPT !.buf = buf]
  <2>1. \/ Responses!OnToolArgsDone(m, e) = m
        \/ Responses!OnToolArgsDone(m, e) = Responses!Parse(n, i, e.text)
    BY Zenon DEF Responses!OnToolArgsDone
  <2>2. Speaks(n)
    <3>. HIDE DEF buf
    <3>. QED BY Notes
  <2>. HIDE DEF n, i
  <2>. QED BY <2>1, <2>2, ResponsesShares, Parses
<1>. QED BY <1>1, <1>2

LEMMA ItemsDone ==
  ASSUME NEW m, Speaks(m), NEW e, e.b \in Nat
  PROVE  Speaks(Responses!OnOutputItemDone(m, e))
<1>1. Speaks(Responses!OnMessageItemDone(m, e))
  <2>. DEFINE n == IF Responses!Known(m.at, e.b) THEN m
                   ELSE Responses!AddItem(m, e.b, Responses!TextOf(e.b, <<>>))
              i == n.at[e.b]
              text == e.text
              sig == <<e.b>>
              told == [n EXCEPT !.content[i].text = text]
              o == [told EXCEPT !.content[i].sig = sig]
  <2>1. Speaks(n)
    BY TextOfIs, AddsItems
  <2>2. \/ Responses!OnMessageItemDone(m, e) = n
        \/ Responses!OnMessageItemDone(m, e) = Responses!EndOnce(o, i)
    BY Zenon DEF Responses!OnMessageItemDone
  <2>3. Speaks(told)
    <3>. HIDE DEF n, i, text
    <3>. QED BY <2>1, Rewrites
  <2>4. Speaks(o)
    <3>. HIDE DEF told, i, sig
    <3>. QED BY <2>3, Rewrites
  <2>. HIDE DEF n, i, o
  <2>. QED BY <2>1, <2>2, <2>4, EndsOnce
<1>2. Speaks(Responses!OnReasoningItemDone(m, e))
  <2>. DEFINE i == m.at[e.b]
              text == IF e.text = <<>> THEN m.content[i].text ELSE e.text
              sig == e.sig
              told == [m EXCEPT !.content[i].text = text]
              o == [told EXCEPT !.content[i].sig = sig]
  <2>1. \/ Responses!OnReasoningItemDone(m, e) = m
        \/ Responses!OnReasoningItemDone(m, e) = Responses!EndOnce(o, i)
    BY Zenon DEF Responses!OnReasoningItemDone
  <2>2. Speaks(told)
    <3>. HIDE DEF i, text
    <3>. QED BY Rewrites
  <2>3. Speaks(o)
    <3>. HIDE DEF told, i, sig
    <3>. QED BY <2>2, Rewrites
  <2>. HIDE DEF i, o
  <2>. QED BY <2>1, <2>3, EndsOnce
<1>3. Speaks(Responses!OnFunctionItemDone(m, e))
  <2>. DEFINE i == m.at[e.b]
              raw == IF e.text = <<>> THEN Responses!Lookup(m.buf, i, <<>>) ELSE e.text
              n == Responses!Parse(m, i, raw)
  <2>1. \/ Responses!OnFunctionItemDone(m, e) = n
        \/ Responses!OnFunctionItemDone(m, e) = Responses!EndOnce(n, i)
    BY Zenon DEF Responses!OnFunctionItemDone
  <2>2. Speaks(n)
    <3>. HIDE DEF i, raw
    <3>. QED BY ResponsesShares, Parses
  <2>. HIDE DEF i, n
  <2>. QED BY <2>1, <2>2, EndsOnce
<1>4. \/ Responses!OnOutputItemDone(m, e) = Responses!OnMessageItemDone(m, e)
      \/ Responses!OnOutputItemDone(m, e) = Responses!OnReasoningItemDone(m, e)
      \/ Responses!OnOutputItemDone(m, e) = Responses!OnFunctionItemDone(m, e)
      \/ Responses!OnOutputItemDone(m, e) = m
  BY Zenon DEF Responses!OnOutputItemDone
<1>. QED BY <1>1, <1>2, <1>3, <1>4

LEMMA ResponseEnds ==
  ASSUME NEW m, Speaks(m), NEW e
  PROVE  Goes(Responses!OnResponseEnd(m, e))
<1>. DEFINE n == [m EXCEPT !.stop = e.kind]
<1>1. \/ \E message : Responses!OnResponseEnd(m, e)
           = Responses!Finished(m, Responses!Failed("aborted", message))
      \/ Responses!OnResponseEnd(m, e) = Responses!Conclude(n)
  BY Zenon DEF Responses!OnResponseEnd
<1>2. Speaks(n)
  <2>. DEFINE stop == e.kind
  <2>. HIDE DEF stop
  <2>1. Speaks([m EXCEPT !.stop = stop])
    BY Notes
  <2>. QED BY <2>1 DEF stop
<1>. HIDE DEF n
<1>3. Goes(Responses!Conclude(n))
  BY <1>2, Concluded, ResponsesShares DEF Goes
<1>4. ASSUME NEW message
      PROVE  Goes(Responses!Finished(m, Responses!Failed("aborted", message)))
  <2>1. Responses!Finished(m, Responses!Failed("aborted", message))
          = Finished(m, Failed("aborted", message))
    BY ResponsesShares
  <2>. QED BY <2>1, Finishes, Terminals DEF Goes
<1>. QED BY <1>1, <1>3, <1>4

LEMMA ResponsesGoes ==
  ASSUME NEW m, Speaks(m), NEW e, Fits("responses", e)
  PROVE  Goes(Responses!HandleEvent(m, e)) /\ Goes(Responses!Eof(m))
<1>. DEFINE n == Responses!HandleEvent(m, e)
<1>1. Goes(Responses!Incomplete(m)) /\ Goes(m)
  BY Concluded, ResponsesShares DEF Goes
<1>2. e.type \in {"open", "added", "frag", "whole", "part", "close"} => e.b \in Nat /\ e.kind \in Kinds
  BY DEF Fits
<1>3. e.type = "open" => Speaks(n)
  BY <1>2, ResponsesHandles, Announces
<1>10. e.type = "added" => Speaks(n)
  <2>1. e.type = "added" => n = Responses!EnsureContentPartText(m, e, e.text)
    BY ResponsesHandles, Zenon DEF Responses!OnContentPartAdded
  <2>. HIDE DEF n
  <2>. QED BY <1>2, <2>1, TextParts
<1>4. e.type = "frag" => Speaks(n)
  <2>1. e.type = "frag" => n = Responses!OnDelta(m, e)
    BY ResponsesHandles
  <2>2. e.kind \in Kinds =>
          \/ Responses!OnDelta(m, e) = Responses!OnTextDelta(m, e)
          \/ Responses!OnDelta(m, e) = Responses!OnThinkingDelta(m, e)
          \/ Responses!OnDelta(m, e) = Responses!OnToolArgsDelta(m, e)
    BY DEF Responses!OnDelta, Kinds
  <2>. HIDE DEF n
  <2>. QED BY <1>2, <2>1, <2>2, TextEvents, ThinkingEvents, ArgumentEvents
<1>5. e.type \in {"whole", "part"} => Speaks(n)
  <2>1. e.type \in {"whole", "part"} => n = Responses!OnWhole(m, e)
    BY ResponsesHandles
  <2>2. e.kind \in Kinds =>
          \/ Responses!OnWhole(m, e) = Responses!OnContentPartDone(m, e)
          \/ Responses!OnWhole(m, e) = Responses!OnTextDone(m, e)
          \/ Responses!OnWhole(m, e) = Responses!OnThinkingDone(m, e)
          \/ Responses!OnWhole(m, e) = Responses!OnToolArgsDone(m, e)
    BY DEF Responses!OnWhole, Kinds
  <2>. HIDE DEF n
  <2>. QED BY <1>2, <2>1, <2>2, TextEvents, ThinkingEvents, ArgumentEvents
<1>6. e.type = "close" => Speaks(n)
  BY <1>2, ResponsesHandles, ItemsDone
<1>7. /\ e.type = "end"   => n = Responses!OnResponseEnd(m, e)
      /\ e.type = "fail"  => n = Responses!Incomplete(m)
      /\ e.type \notin {"open", "added", "frag", "whole", "part", "close", "end", "fail"} => n = m
  BY ResponsesHandles
<1>. HIDE DEF n
<1>8. Goes(n)
  BY <1>1, <1>3, <1>4, <1>5, <1>6, <1>7, <1>10, ResponseEnds DEF Goes
<1>9. Goes(Responses!Eof(m))
  BY <1>1 DEF Responses!Eof
<1>. QED BY <1>8, <1>9 DEF n

-----------------------------------------------------------------------------
(* Mistral. *)

LEMMA MistralHandles ==
  ASSUME NEW m, NEW e
  PROVE  LET n == MistralApi!HandleChunk(m, e) IN
         /\ e.type = "end"  => n = MistralApi!Finish([m EXCEPT !.saw = TRUE])
         /\ e.type = "stop" => n = [m EXCEPT !.finish = e.kind]
         /\ e.type = "frag" => \/ n = MistralApi!OnToolCall(m, e)
                               \/ n = MistralApi!AppendContentDelta(m, e)
         /\ e.type \notin {"end", "stop", "frag"} => n = m
BY DEF MistralApi!HandleChunk

LEMMA FinishesContent ==
  ASSUME NEW m, Speaks(m)
  PROVE  /\ Speaks(MistralApi!FinishContentBlock(m))
         /\ MistralApi!FinishContentBlock(m).content = m.content
         /\ MistralApi!FinishContentBlock(m).at = m.at
<1>. DEFINE n == [m EXCEPT !.open = 0]
            i == m.open
<1>1. \/ MistralApi!FinishContentBlock(m) = m
      \/ MistralApi!FinishContentBlock(m) = MistralApi!EmitEnded(n, i)
  BY Zenon DEF MistralApi!FinishContentBlock
<1>2. Speaks(n) /\ n.content = m.content /\ n.at = m.at
  BY Notes
<1>. HIDE DEF n, i
<1>3. Speaks(EmitEnded(n, i)) /\ EmitEnded(n, i).content = n.content
      /\ EmitEnded(n, i).at = n.at
  BY <1>2, EmitsBlocks, Emits, Events DEF EmitEnded
<1>. QED BY <1>1, <1>2, <1>3, MistralApiShares

LEMMA AppendsContent ==
  ASSUME NEW m, Speaks(m), NEW e, e.kind \in Kinds
  PROVE  Speaks(MistralApi!AppendContentDelta(m, e))
<1>. DEFINE same == m.open # 0 /\ MistralApi!Is(m, m.open, e.kind)
            closed == MistralApi!FinishContentBlock(m)
            i == MistralApi!NextIndex(m)
            a == MistralApi!Add(closed, MistralApi!Block(e.kind))
            o == [a EXCEPT !.open = i]
            n == IF same THEN m ELSE MistralApi!EmitOpened(o, i)
<1>1. Speaks(a)
  BY FinishesContent, MistralApiShares, Adds, NewBlocks
<1>2. Speaks(o)
  <2>. HIDE DEF a, i
  <2>. QED BY <1>1, Notes
<1>3. Speaks(n)
  <2>. HIDE DEF o, i, same
  <2>. QED BY <1>2, MistralApiShares, EmitsBlocks
<1>4. \/ MistralApi!AppendContentDelta(m, e) = m
      \/ MistralApi!AppendContentDelta(m, e)
           = MistralApi!Emit(MistralApi!Extend(n, n.open, e.kind, e.text),
                             MistralApi!Delta(n.open, e.kind, e.text))
  BY Zenon DEF MistralApi!AppendContentDelta
<1>. HIDE DEF n
<1>. QED BY <1>3, <1>4, MistralApiShares, Extends, Emits, Events

LEMMA MistralCalls ==
  ASSUME NEW m, Speaks(m), NEW e, e.b \in Nat
  PROVE  Speaks(MistralApi!OnToolCall(m, e))
<1>. DEFINE closed == MistralApi!FinishContentBlock(m)
            i == MistralApi!NextIndex(m)
            id == MistralApi!NormalizeToolCallId(IF e.head THEN <<e.b>> ELSE <<>>)
            a == MistralApi!Add(closed, MistralApi!ToolBlock(id))
            at == MistralApi!Put(a.at, e.b, i)
            o == [a EXCEPT !.at = at]
            n == IF MistralApi!Known(m.at, e.b) THEN closed
                 ELSE MistralApi!EmitOpened(o, i)
<1>1. Speaks(closed)
  BY FinishesContent
<1>2. Speaks(a)
  <2>. HIDE DEF closed, id
  <2>. QED BY <1>1, MistralApiShares, Adds, NewBlocks
<1>3. Speaks(o)
  <2>1. i = NextIndex(m) /\ at = Put(a.at, e.b, i)
    BY MistralApiShares
  <2>2. i \in Nat
    BY <2>1, NextIndexIs
  <2>. HIDE DEF a, i
  <2>. QED BY <1>2, <2>1, <2>2, Indexes
<1>4. Speaks(n)
  <2>. HIDE DEF o, i, closed
  <2>. QED BY <1>1, <1>3, MistralApiShares, EmitsBlocks
<1>5. \/ MistralApi!OnToolCall(m, e) = n
      \/ MistralApi!OnToolCall(m, e)
           = MistralApi!Emit(MistralApi!Collect(n, e.b, e.text),
                             MistralApi!Delta(n.at[e.b], "tool", e.text))
  BY Zenon DEF MistralApi!OnToolCall
<1>. HIDE DEF n
<1>. QED BY <1>4, <1>5, MistralApiShares, Collects, Emits, Events

\* The calls' indices, sorted.
LEMMA PlacesSorted ==
  ASSUME NEW m, Speaks(m)
  PROVE  IsSequence(Ascending(Range(m.at)))
<1>1. PICK n \in Nat : \A k \in DOMAIN m.at : k \in 0..n /\ m.at[k] \in 0..n
  BY DEF Speaks, IsIndex
<1>2. Range(m.at) \subseteq 0..n /\ Range(m.at) \subseteq Nat
  BY <1>1 DEF Range
<1>3. 0 \in Int /\ n \in Int
  OBVIOUS
<1>4. IsFiniteSet(0..n)
  BY <1>3, FS_Interval
<1>5. IsFiniteSet(Range(m.at))
  BY <1>2, <1>4, FS_Subset
<1>. QED BY <1>2, <1>5, AscendingIs

LEMMA MistralFinish ==
  ASSUME NEW m, Speaks(m)
  PROVE  Goes(MistralApi!Finish(m))
<1>. DEFINE f == MistralApi!FinishContentBlock(m)
            order == Ascending(Range(m.at))
            n == MistralApi!Finalize(m)
            stop == MistralApi!StopReason(m)
            o == [n EXCEPT !.stop = stop]
<1>1. n = EmitAllEnded(ParseCalls(f), order)
  <2>1. MistralApi!Range(m.at) = Range(m.at)
    BY DEF MistralApi!Range, Range
  <2>2. MistralApi!Finalize(m)
          = MistralApi!EmitAllEnded(MistralApi!ParseCalls(f), MistralApi!Ascending(MistralApi!Range(m.at)))
    BY Zenon DEF MistralApi!Finalize
  <2>. HIDE DEF f, n
  <2>3. MistralApi!ParseCalls(f) = ParseCalls(f)
        /\ MistralApi!Ascending(MistralApi!Range(m.at)) = order
    BY <2>1, MistralApiShares, Zenon
  <2>. HIDE DEF order
  <2>4. MistralApi!EmitAllEnded(ParseCalls(f), order) = EmitAllEnded(ParseCalls(f), order)
    BY MistralApiShares, Zenon
  <2>5. MistralApi!Finalize(m) = EmitAllEnded(ParseCalls(f), order)
    BY <2>2, <2>3, <2>4, Zenon
  <2>. QED BY <2>5 DEF n
<1>2. Speaks(n)
  <2>1. Speaks(f) /\ IsSequence(order)
    BY FinishesContent, PlacesSorted
  <2>. HIDE DEF f, order, n
  <2>. QED BY <1>1, <2>1, ParsesCalls, EmitsAll
<1>3. Speaks(o)
  <2>. HIDE DEF n, stop
  <2>. QED BY <1>2, Notes
<1>4. \/ MistralApi!Finish(m) = MistralApi!Incomplete(n)
      \/ MistralApi!Finish(m) = MistralApi!Conclude(o)
  BY Zenon DEF MistralApi!Finish
<1>. HIDE DEF n, o
<1>5. Goes(MistralApi!Incomplete(n)) /\ Goes(MistralApi!Conclude(o))
  BY <1>2, <1>3, MistralApiShares, Concluded DEF Goes
<1>. QED BY <1>4, <1>5

LEMMA MistralGoes ==
  ASSUME NEW m, Speaks(m), NEW e, Fits("mistral", e)
  PROVE  Goes(MistralApi!HandleChunk(m, e)) /\ Goes(MistralApi!Eof(m))
<1>. DEFINE n == MistralApi!HandleChunk(m, e)
            done == [m EXCEPT !.saw = TRUE]
            kind == e.kind
<1>1. /\ e.type = "end"  => n = MistralApi!Finish(done)
      /\ e.type = "stop" => n = [m EXCEPT !.finish = kind]
      /\ e.type = "frag" => \/ n = MistralApi!OnToolCall(m, e)
                            \/ n = MistralApi!AppendContentDelta(m, e)
      /\ e.type \notin {"end", "stop", "frag"} => n = m
  BY MistralHandles, Zenon
<1>2. Speaks(done)
  BY Notes, Zenon
<1>3. Speaks([m EXCEPT !.finish = kind])
  <2>. HIDE DEF kind
  <2>. QED BY Notes
<1>4. e.type = "frag" => e.b \in Nat /\ e.kind \in Kinds
  BY DEF Fits
<1>. HIDE DEF n, done, kind
<1>5. Goes(n)
  BY <1>1, <1>2, <1>3, <1>4, AppendsContent, MistralCalls, MistralFinish DEF Goes
<1>6. Goes(MistralApi!Eof(m))
  BY MistralFinish DEF MistralApi!Eof
<1>. QED BY <1>5, <1>6 DEF n

-----------------------------------------------------------------------------
(* Gemini. *)

LEMMA GeminiHandles ==
  ASSUME NEW m, NEW e
  PROVE  LET n == Gemini!HandleChunk(m, e) IN
         /\ e.type = "frag" => n = Gemini!OnFunctionCall(m, e) \/ n = Gemini!OnText(m, e)
         /\ e.type = "stop" => n = [m EXCEPT !.saw = TRUE,
                                             !.stop = Gemini!MapStopReason(m, e.kind)]
         /\ e.type \notin {"frag", "stop"} => n = m
BY DEF Gemini!HandleChunk

LEMMA ClosesOpen ==
  ASSUME NEW m, Speaks(m)
  PROVE  Speaks(Gemini!CloseOpenBlock(m))
<1>. DEFINE n == [m EXCEPT !.open = 0]
            i == m.open
<1>1. \/ Gemini!CloseOpenBlock(m) = m
      \/ Gemini!CloseOpenBlock(m) = Gemini!EmitEnded(n, i)
  BY Zenon DEF Gemini!CloseOpenBlock
<1>2. Speaks(n)
  BY Notes
<1>. HIDE DEF n, i
<1>. QED BY <1>1, <1>2, EmitsBlocks, GeminiShares

LEMMA GeminiTexts ==
  ASSUME NEW m, Speaks(m), NEW e, e.kind \in Kinds
  PROVE  Speaks(Gemini!OnText(m, e))
<1>. DEFINE i == Gemini!NextIndex(m)
            a == Gemini!Add(Gemini!CloseOpenBlock(m), Gemini!Block(e.kind))
            o == [a EXCEPT !.open = i]
            n == IF Gemini!StartsBlock(m, e) THEN Gemini!EmitOpened(o, i) ELSE m
            open == n.open
            sig == Gemini!RetainThoughtSignature(n.content[n.open].sig, e.sig)
            signed == [n EXCEPT !.content[open].sig = sig]
<1>1. Speaks(a)
  BY ClosesOpen, GeminiShares, Adds, NewBlocks
<1>2. Speaks(o)
  <2>. HIDE DEF a, i
  <2>. QED BY <1>1, Notes
<1>3. Speaks(n)
  <2>. HIDE DEF o, i
  <2>. QED BY <1>2, GeminiShares, EmitsBlocks
<1>4. Speaks(signed)
  <2>. HIDE DEF n, sig, open
  <2>. QED BY <1>3, Rewrites
<1>5. Gemini!OnText(m, e)
        = Gemini!Emit(Gemini!Extend(signed, n.open, e.kind, e.text),
                      Gemini!Delta(n.open, e.kind, e.text))
  BY Zenon DEF Gemini!OnText
<1>. HIDE DEF n, signed
<1>. QED BY <1>4, <1>5, GeminiShares, Extends, Emits, Events

LEMMA GeminiCalls ==
  ASSUME NEW m, Speaks(m), NEW e
  PROVE  Speaks(Gemini!OnFunctionCall(m, e))
<1>. DEFINE closed == Gemini!CloseOpenBlock(m)
            i == Gemini!NextIndex(m)
            count == IF e.head THEN m.think ELSE m.think + 1
            tool == Gemini!ToolBlock(IF e.head THEN <<e.b>> ELSE Gemini!GeneratedId(count))
            text == e.text
            sig == e.sig
            call == [tool EXCEPT !.text = text, !.sig = sig]
            a == Gemini!Add(closed, call)
            o == [a EXCEPT !.think = count]
            n == Gemini!EmitOpened(o, i)
<1>1. IsBlock(call)
  <2>1. IsBlock(tool)
    BY GeminiShares, NewBlocks
  <2>. HIDE DEF tool, text, sig
  <2>. QED BY <2>1 DEF IsBlock, BlockFields
<1>2. Speaks(closed)
  BY ClosesOpen
<1>3. Speaks(a)
  <2>. HIDE DEF call, closed
  <2>. QED BY <1>1, <1>2, GeminiShares, Adds
<1>4. Speaks(o)
  <2>. HIDE DEF a, count
  <2>. QED BY <1>3, Notes
<1>5. Speaks(n)
  <2>. HIDE DEF o, i
  <2>. QED BY <1>4, GeminiShares, EmitsBlocks
<1>6. Gemini!OnFunctionCall(m, e) = Gemini!EmitEnded(Gemini!Emit(n, Gemini!Delta(i, "tool", e.text)), i)
  BY Zenon DEF Gemini!OnFunctionCall
<1>. HIDE DEF n, i
<1>. QED BY <1>5, <1>6, GeminiShares, Emits, Events, EmitsBlocks

LEMMA GeminiGoes ==
  ASSUME NEW m, Speaks(m), NEW e, Fits("google", e)
  PROVE  Goes(Gemini!HandleChunk(m, e)) /\ Goes(Gemini!Eof(m))
<1>. DEFINE n == Gemini!HandleChunk(m, e)
            saw == [m EXCEPT !.saw = TRUE]
            stop == Gemini!MapStopReason(m, e.kind)
            noted == [saw EXCEPT !.stop = stop]
            closed == Gemini!CloseOpenBlock(m)
<1>1. /\ e.type = "frag" => n = Gemini!OnFunctionCall(m, e) \/ n = Gemini!OnText(m, e)
      /\ e.type \notin {"frag", "stop"} => n = m
  BY GeminiHandles, Zenon
<1>2. e.type = "stop" => n = noted
  <2>1. [m EXCEPT !.saw = TRUE, !.stop = stop] = noted
    BY Zenon
  <2>. HIDE DEF noted
  <2>. QED BY <2>1, GeminiHandles, Zenon
<1>3. Speaks(saw)
  BY Notes, Zenon
<1>4. Speaks(noted)
  <2>. HIDE DEF saw, stop
  <2>. QED BY <1>3, Notes
<1>5. e.type = "frag" => e.kind \in Kinds
  BY DEF Fits
<1>. HIDE DEF n, noted
<1>6. Goes(n)
  BY <1>1, <1>2, <1>4, <1>5, GeminiTexts, GeminiCalls DEF Goes
<1>7. Goes(Gemini!Eof(m))
  <2>1. Gemini!Eof(m) = Gemini!Conclude(closed) \/ Gemini!Eof(m) = Gemini!Incomplete(closed)
    BY Zenon DEF Gemini!Eof, Gemini!Finish
  <2>2. Speaks(closed)
    BY ClosesOpen
  <2>. HIDE DEF closed
  <2>3. Goes(Gemini!Conclude(closed)) /\ Goes(Gemini!Incomplete(closed))
    BY <2>2, GeminiShares, Concluded DEF Goes
  <2>. QED BY <2>1, <2>3
<1>. QED BY <1>6, <1>7 DEF n

-----------------------------------------------------------------------------
(* Bedrock. *)

LEMMA BedrockHandles ==
  ASSUME NEW m, NEW e
  PROVE  LET n == Bedrock!HandleFrame(m, e) IN
         /\ e.type = "open"  => n = Bedrock!OnContentBlockStart(m, e)
         /\ e.type = "frag"  => n = Bedrock!OnContentBlockDelta(m, e)
         /\ e.type = "sign"  => n = Bedrock!OnReasoning(m, e)
         /\ e.type = "close" => n = Bedrock!OnContentBlockStop(m, e)
         /\ e.type = "stop"  => n = [m EXCEPT !.saw = TRUE, !.stop = Bedrock!MapStopReason(e.kind)]
         /\ e.type = "fail"  => n = Bedrock!Incomplete(m)
         /\ e.type \notin {"open", "frag", "sign", "close", "stop", "fail"} => n = m
BY DEF Bedrock!HandleFrame

LEMMA BedrockStarts ==
  ASSUME NEW m, Speaks(m), NEW e, e.b \in Nat
  PROVE  Speaks(Bedrock!OnContentBlockStart(m, e))
<1>. DEFINE a == Bedrock!Add(m, Bedrock!ToolBlock(<<e.b>>))
            i == Bedrock!NextIndex(m)
            at == Bedrock!Put(a.at, e.b, i)
            o == [a EXCEPT !.at = at]
            buf == Bedrock!Put(a.buf, e.b, <<>>)
            p == [o EXCEPT !.buf = buf]
<1>1. Speaks(a)
  BY BedrockShares, Adds, NewBlocks
<1>2. Speaks(o)
  <2>1. i = NextIndex(m) /\ at = Put(a.at, e.b, i)
    BY BedrockShares
  <2>2. i \in Nat
    BY <2>1, NextIndexIs
  <2>. HIDE DEF a, i
  <2>. QED BY <1>1, <2>1, <2>2, Indexes
<1>3. Speaks(p)
  <2>. HIDE DEF o, buf
  <2>. QED BY <1>2, Notes
<1>4. \/ Bedrock!OnContentBlockStart(m, e) = m
      \/ Bedrock!OnContentBlockStart(m, e) = Bedrock!EmitOpened(p, i)
  BY Zenon DEF Bedrock!OnContentBlockStart
<1>. HIDE DEF p, i
<1>. QED BY <1>3, <1>4, BedrockShares, EmitsBlocks

LEMMA AddsAt ==
  ASSUME NEW m, Speaks(m), NEW e, e.b \in Nat, e.kind \in Kinds
  PROVE  Speaks(Bedrock!AddAt(m, e))
<1>. DEFINE a == Bedrock!Add(m, Bedrock!Block(e.kind))
            i == Bedrock!NextIndex(m)
            at == Bedrock!Put(a.at, e.b, i)
            o == [a EXCEPT !.at = at]
<1>1. Speaks(a)
  BY BedrockShares, Adds, NewBlocks
<1>2. Speaks(o)
  <2>1. i = NextIndex(m) /\ at = Put(a.at, e.b, i)
    BY BedrockShares
  <2>2. i \in Nat
    BY <2>1, NextIndexIs
  <2>. HIDE DEF a, i
  <2>. QED BY <1>1, <2>1, <2>2, Indexes
<1>3. Bedrock!AddAt(m, e) = o
  BY Zenon DEF Bedrock!AddAt
<1>. QED BY <1>2, <1>3

LEMMA BedrockTexts ==
  ASSUME NEW m, Speaks(m), NEW e, e.b \in Nat, e.kind \in Kinds
  PROVE  Speaks(Bedrock!OnTextDelta(m, e)) /\ Speaks(Bedrock!OnReasoning(m, e))
<1>1. Speaks(Bedrock!OnTextDelta(m, e))
  <2>. DEFINE n == IF Bedrock!Known(m.at, e.b) THEN m ELSE Bedrock!AddAt(m, e)
              i == n.at[e.b]
              first == Bedrock!Is(n, i, "text") /\ n.content[i].text = <<>>
              o == IF first THEN Bedrock!EmitOpened(n, i) ELSE n
  <2>1. Speaks(n)
    BY AddsAt
  <2>2. Speaks(o)
    <3>. HIDE DEF n, i, first
    <3>. QED BY <2>1, BedrockShares, EmitsBlocks
  <2>3. Bedrock!OnTextDelta(m, e)
          = Bedrock!Emit(Bedrock!Extend(o, i, "text", e.text), Bedrock!Delta(i, "text", e.text))
    BY Zenon DEF Bedrock!OnTextDelta
  <2>. HIDE DEF o, i
  <2>. QED BY <2>2, <2>3, BedrockShares, Extends, Emits, Events
<1>2. Speaks(Bedrock!OnReasoning(m, e))
  <2>. DEFINE a == Bedrock!AddAt(m, e)
              n == IF Bedrock!Known(m.at, e.b) THEN m ELSE Bedrock!EmitOpened(a, a.at[e.b])
              i == n.at[e.b]
              sig == n.content[i].sig \o e.sig
              o == [n EXCEPT !.content[i].sig = sig]
  <2>1. Speaks(n)
    <3>1. Speaks(a)
      BY AddsAt
    <3>. HIDE DEF a
    <3>. QED BY <3>1, BedrockShares, EmitsBlocks
  <2>2. Speaks(o)
    <3>. HIDE DEF n, i, sig
    <3>. QED BY <2>1, Rewrites
  <2>3. \/ Bedrock!OnReasoning(m, e) = o
        \/ Bedrock!OnReasoning(m, e) = n
        \/ Bedrock!OnReasoning(m, e) = Bedrock!Emit(Bedrock!Extend(n, i, "thinking", e.text),
                                                    Bedrock!Delta(i, "thinking", e.text))
    BY Zenon DEF Bedrock!OnReasoning
  <2>. HIDE DEF n, i, o
  <2>. QED BY <2>1, <2>2, <2>3, BedrockShares, Extends, Emits, Events
<1>. QED BY <1>1, <1>2

LEMMA BedrockInputs ==
  ASSUME NEW m, Speaks(m), NEW e
  PROVE  /\ Speaks(Bedrock!OnToolInput(m, e))
         /\ Speaks(Bedrock!OnContentBlockStop(m, e))
<1>. DEFINE i == m.at[e.b]
            raw == Bedrock!Lookup(m.buf, e.b, <<>>)
<1>1. \/ Bedrock!OnToolInput(m, e) = m
      \/ Bedrock!OnToolInput(m, e)
           = Bedrock!Emit(Bedrock!Collect(m, e.b, e.text), Bedrock!Delta(i, "tool", e.text))
  BY Zenon DEF Bedrock!OnToolInput
<1>2. \/ Bedrock!OnContentBlockStop(m, e) = m
      \/ Bedrock!OnContentBlockStop(m, e) = Bedrock!EmitEnded(Bedrock!Parse(m, i, raw), i)
  BY Zenon DEF Bedrock!OnContentBlockStop
<1>. HIDE DEF i, raw
<1>. QED BY <1>1, <1>2, BedrockShares, Collects, Emits, Events, Parses, EmitsBlocks

LEMMA BedrockGoes ==
  ASSUME NEW m, Speaks(m), NEW e, Fits("bedrock", e)
  PROVE  Goes(Bedrock!HandleFrame(m, e)) /\ Goes(Bedrock!Eof(m))
<1>. DEFINE n == Bedrock!HandleFrame(m, e)
            saw == [m EXCEPT !.saw = TRUE]
            stop == Bedrock!MapStopReason(e.kind)
            noted == [saw EXCEPT !.stop = stop]
<1>1. Goes(Bedrock!Incomplete(m)) /\ Goes(Bedrock!Conclude(m)) /\ Goes(m)
  BY Concluded, BedrockShares DEF Goes
<1>2. e.type \in {"open", "frag", "sign", "close"} => e.b \in Nat /\ e.kind \in Kinds
  BY DEF Fits
<1>3. /\ e.type = "open"  => n = Bedrock!OnContentBlockStart(m, e)
      /\ e.type = "frag"  => n = Bedrock!OnContentBlockDelta(m, e)
      /\ e.type = "sign"  => n = Bedrock!OnReasoning(m, e)
      /\ e.type = "close" => n = Bedrock!OnContentBlockStop(m, e)
      /\ e.type = "fail"  => n = Bedrock!Incomplete(m)
      /\ e.type \notin {"open", "frag", "sign", "close", "stop", "fail"} => n = m
  BY BedrockHandles, Zenon
<1>4. e.type = "open" => Speaks(n)
  <2>. HIDE DEF n
  <2>. QED BY <1>2, <1>3, BedrockStarts
<1>5. e.type = "frag" => Speaks(n)
  <2>2. e.kind \in Kinds =>
          \/ Bedrock!OnContentBlockDelta(m, e) = Bedrock!OnTextDelta(m, e)
          \/ Bedrock!OnContentBlockDelta(m, e) = Bedrock!OnReasoning(m, e)
          \/ Bedrock!OnContentBlockDelta(m, e) = Bedrock!OnToolInput(m, e)
    BY DEF Bedrock!OnContentBlockDelta, Kinds
  <2>. HIDE DEF n
  <2>. QED BY <1>2, <1>3, <2>2, BedrockTexts, BedrockInputs
<1>6. e.type = "sign" => Speaks(n)
  <2>. HIDE DEF n
  <2>. QED BY <1>2, <1>3, BedrockTexts
<1>7. e.type = "close" => Speaks(n)
  <2>. HIDE DEF n
  <2>. QED BY <1>3, BedrockInputs
<1>8. e.type = "stop" => n = noted
  <2>1. [m EXCEPT !.saw = TRUE, !.stop = stop] = noted
    BY Zenon
  <2>. HIDE DEF noted
  <2>. QED BY <2>1, BedrockHandles, Zenon
<1>9. Speaks(noted)
  <2>1. Speaks(saw)
    BY Notes, Zenon
  <2>. HIDE DEF saw, stop
  <2>. QED BY <2>1, Notes
<1>. HIDE DEF n, noted
<1>10. Goes(n)
  BY <1>3, <1>1, <1>4, <1>5, <1>6, <1>7, <1>8, <1>9 DEF Goes
<1>11. Goes(Bedrock!Eof(m))
  BY <1>1 DEF Bedrock!Eof
<1>. QED BY <1>10, <1>11 DEF n

-----------------------------------------------------------------------------
(* The test double. *)

LEMMA DoubleShares ==
  /\ Double!Machine = Machine /\ Double!Started = Started
  /\ \A m : Double!NextIndex(m) = NextIndex(m)
  /\ \A m, block : Double!Add(m, block) = Add(m, block)
  /\ \A i, kind : Double!Opened(i, kind) = Opened(i, kind)
  /\ \A i, kind, text : Double!Delta(i, kind, text) = Delta(i, kind, text)
  /\ \A m, e : Double!Emit(m, e) = Emit(m, e)
  /\ \A m, i : Double!EmitEnded(m, i) = EmitEnded(m, i)
  /\ \A m, e : Double!Finished(m, e) = Finished(m, e)
  /\ \A reason, message : Double!Failed(reason, message) = Failed(reason, message)
  /\ \A reason, message : Double!Done(reason, message) = Done(reason, message)
<1>1. Double!Machine = Machine /\ Double!Started = Started
  BY DEF Machine, Double!Machine, Nothing, Double!Nothing, Started, Double!Started
<1>2. /\ \A m : Double!NextIndex(m) = NextIndex(m)
      /\ \A m, block : Double!Add(m, block) = Add(m, block)
      /\ \A i, kind : Double!Opened(i, kind) = Opened(i, kind)
      /\ \A i, kind, text : Double!Delta(i, kind, text) = Delta(i, kind, text)
      /\ \A m, e : Double!Emit(m, e) = Emit(m, e)
  BY DEF NextIndex, Double!NextIndex, Add, Double!Add, Opened, Double!Opened, Delta,
         Double!Delta, Emit, Double!Emit
<1>3. \A m, i : Double!EmitEnded(m, i) = EmitEnded(m, i)
  BY <1>2 DEF EmitEnded, Double!EmitEnded, Ended, Double!Ended
<1>4. \A m, e : Double!Finished(m, e) = Finished(m, e)
  BY <1>2 DEF Finished, Double!Finished
<1>5. /\ \A reason, message : Double!Failed(reason, message) = Failed(reason, message)
      /\ \A reason, message : Double!Done(reason, message) = Done(reason, message)
  BY DEF Failed, Double!Failed, Done, Double!Done
<1>. QED BY <1>1, <1>2, <1>3, <1>4, <1>5

\* What a consumer knows of the first n blocks of a replayed message.
Replayed(c, n) == [j \in 1..n |-> Shut(c[j].kind, c[j].text)]

Played(m, c, n) ==
  /\ DOMAIN m = DOMAIN Machine
  /\ IsSequence(m.content) /\ Len(m.content) = n
  /\ IsSequence(m.out) /\ ConsumeAll(Unseen, m.out) = Open(Replayed(c, n))

LEMMA PlayedNothing ==
  ASSUME NEW c
  PROVE  Played(Emit(Machine, Started), c, 0)
<1>. DEFINE m == Emit(Machine, Started)
<1>1. /\ DOMAIN m = DOMAIN Machine /\ m.content = <<>> /\ m.out = Append(<<>>, Started)
  BY DEF Emit, Machine
<1>2. IsSequence(<<>>) /\ Len(<<>>) = 0
  <2>1. <<>> \in Seq({})
    OBVIOUS
  <2>. QED BY <2>1 DEF IsSequence
<1>3. IsSequence(Append(<<>>, Started))
  BY <1>2, Appended
<1>4. ConsumeAll(Unseen, Append(<<>>, Started)) = Open(<<>>)
  BY ConsumeFew, ConsumeStarted
<1>5. Replayed(c, 0) = <<>>
  BY DEF Replayed
<1>. HIDE DEF m
<1>6. Played(m, c, 0)
  BY <1>1, <1>2, <1>3, <1>4, <1>5 DEF Played
<1>. QED BY <1>6 DEF m

LEMMA ShutAfter ==
  ASSUME NEW bs, NEW k, k \notin DOMAIN bs, NEW block
  PROVE  Consume(Consume(Consume(Open(bs), Opened(k, block.kind)),
                         Delta(k, block.kind, block.text)), Ended(k, block))
           = Open(Put(bs, k, Shut(block.kind, block.text)))
<1>. DEFINE kind == block.kind
            text == block.text
            x == Live(kind, <<>>)
            y == Live(kind, <<>> \o text)
            z == Shut(kind, text)
            a == Put(bs, k, x)
            b == Put(a, k, y)
<1>. HIDE DEF kind, text
<1>1. Consume(Open(bs), Opened(k, kind)) = Open(a)
  BY Consumed, Zenon
<1>2. Consume(Open(a), Delta(k, kind, text)) = Open(b)
  <2>1. k \in DOMAIN a /\ a[k] = x
    <3>. HIDE DEF x
    <3>. QED BY DEF Put
  <2>. HIDE DEF a
  <2>2. \A said : (k \in DOMAIN a /\ a[k] = Live(kind, said)) =>
          Consume(Open(a), Delta(k, kind, text)) = Open(Put(a, k, Live(kind, said \o text)))
    BY Consumed, SMT
  <2>. QED BY <2>1, <2>2
<1>3. Consume(Open(b), Ended(k, block)) = Open(Put(b, k, z))
  <2>1. k \in DOMAIN b /\ b[k] = y
    <3>. HIDE DEF y, a
    <3>. QED BY DEF Put
  <2>. HIDE DEF b
  <2>. QED BY <2>1, Consumed, Zenon DEF kind, text
<1>4. Put(b, k, z) = Put(bs, k, z)
  <2>. HIDE DEF x, y, z
  <2>1. Put(Put(bs, k, x), k, y) = Put(bs, k, y)
    BY PutPut
  <2>2. Put(Put(bs, k, y), k, z) = Put(bs, k, z)
    BY PutPut
  <2>. QED BY <2>1, <2>2
<1>. HIDE DEF a, b, z
<1>5. Consume(Consume(Consume(Open(bs), Opened(k, kind)), Delta(k, kind, text)), Ended(k, block))
        = Open(Put(bs, k, z))
  BY <1>1, <1>2, <1>3, <1>4
<1>. QED BY <1>5 DEF kind, text, z

LEMMA ReplayedOn ==
  ASSUME NEW c, NEW n \in Nat
  PROVE  /\ Put(Replayed(c, n), n + 1, Shut(c[n + 1].kind, c[n + 1].text)) = Replayed(c, n + 1)
         /\ n + 1 \notin DOMAIN Replayed(c, n)
<1>1. 1..n + 1 = 1..n \cup {n + 1} /\ n + 1 \notin 1..n
  OBVIOUS
<1>2. DOMAIN Replayed(c, n) = 1..n
  BY DEF Replayed
<1>3. Put(Replayed(c, n), n + 1, Shut(c[n + 1].kind, c[n + 1].text))
        = [j \in 1..n \cup {n + 1} |-> Shut(c[j].kind, c[j].text)]
  <2>. HIDE DEF Shut
  <2>. QED BY <1>1, <1>2 DEF Put, Replayed
<1>4. Replayed(c, n + 1) = [j \in 1..n \cup {n + 1} |-> Shut(c[j].kind, c[j].text)]
  BY <1>1, Zenon DEF Replayed
<1>. QED BY <1>1, <1>2, <1>3, <1>4

LEMMA PlayedOn ==
  ASSUME NEW m, NEW c, NEW n \in Nat, Played(m, c, n)
  PROVE  Played(Double!ReplayBlock(m, c[n + 1]), c, n + 1)
<1>. DEFINE block == c[n + 1]
            k == NextIndex(m)
            a == Opened(k, block.kind)
            b == Delta(k, block.kind, block.text)
            o1 == Append(m.out, a)
            o2 == Append(o1, b)
            o3 == Append(o2, Ended(k, block))
            content == Append(m.content, block)
            whole == [Add(m, block) EXCEPT !.out = Emit(m, a).out]
            p == EmitEnded(Emit(whole, b), k)
<1>1. k = n + 1
  BY DEF Played, NextIndex
<1>2. IsSequence(content) /\ Len(content) = k /\ content[k] = block
  BY <1>1, Appended DEF Played
<1>3. /\ DOMAIN whole = DOMAIN Machine /\ whole.content = content /\ whole.out = o1
  <2>. HIDE DEF a, k, block
  <2>. QED BY DEF Played, Machine, Add, Emit
<1>4. /\ DOMAIN p = DOMAIN Machine /\ p.content = content /\ p.out = o3
  <2>. HIDE DEF whole, content, o1, block, b, k
  <2>. QED BY <1>2, <1>3 DEF EmitEnded, Emit, Machine
<1>5. /\ IsSequence(o1) /\ IsSequence(o2) /\ IsSequence(o3)
  <2>1. IsSequence(o1)
    BY Appended DEF Played
  <2>. HIDE DEF o1
  <2>2. IsSequence(o2)
    BY <2>1, Appended
  <2>. HIDE DEF o2
  <2>3. IsSequence(o3)
    BY <2>2, Appended
  <2>. QED BY <2>1, <2>2, <2>3
<1>6. ConsumeAll(Unseen, o3)
        = Consume(Consume(Consume(Open(Replayed(c, n)), a), b), Ended(k, block))
  <2>1. ConsumeAll(Unseen, o1) = Consume(Open(Replayed(c, n)), a)
    BY ConsumeAppended DEF Played
  <2>. HIDE DEF o1, a, b, block, k
  <2>2. ConsumeAll(Unseen, o2) = Consume(ConsumeAll(Unseen, o1), b)
    BY <1>5, ConsumeAppended
  <2>. HIDE DEF o2
  <2>3. ConsumeAll(Unseen, o3) = Consume(ConsumeAll(Unseen, o2), Ended(k, block))
    BY <1>5, ConsumeAppended
  <2>. QED BY <2>1, <2>2, <2>3
<1>7. ConsumeAll(Unseen, o3) = Open(Replayed(c, n + 1))
  <2>1. k \notin DOMAIN Replayed(c, n)
    BY <1>1, ReplayedOn
  <2>2. Put(Replayed(c, n), k, Shut(block.kind, block.text)) = Replayed(c, n + 1)
    BY <1>1, ReplayedOn
  <2>. HIDE DEF block, k
  <2>3. Consume(Consume(Consume(Open(Replayed(c, n)), a), b), Ended(k, block))
          = Open(Put(Replayed(c, n), k, Shut(block.kind, block.text)))
    BY <2>1, ShutAfter
  <2>. QED BY <1>6, <2>2, <2>3
<1>8. Double!ReplayBlock(m, block) = p
  <2>1. /\ Double!NextIndex(m) = k /\ Double!Add(m, block) = Add(m, block)
        /\ Double!Emit(m, Double!Opened(k, block.kind)) = Emit(m, a)
    BY DoubleShares
  <2>2. Double!ReplayBlock(m, block) = Double!EmitEnded(Double!Emit(whole, Double!Delta(k, block.kind, block.text)), k)
    <3>. HIDE DEF k, a, block
    <3>. QED BY <2>1, Zenon DEF Double!ReplayBlock
  <2>. HIDE DEF whole, k, block
  <2>. QED BY <2>2, DoubleShares
<1>. HIDE DEF p, o3, content
<1>9. Played(p, c, n + 1)
  BY <1>1, <1>2, <1>4, <1>5, <1>7 DEF Played
<1>. QED BY <1>8, <1>9

-----------------------------------------------------------------------------
Plays(f, c, n) ==
  f = [i \in 0..n |-> IF i = 0 THEN Emit(Machine, Started)
                      ELSE Double!ReplayBlock(f[i - 1], c[i])]

LEMMA PlaysExist ==
  ASSUME NEW c, NEW n \in Nat
  PROVE  \E f : Plays(f, c, n) /\ Played(f[n], c, n)
<1>. DEFINE T == {k \in 0..n : ~\E f : Plays(f, c, k) /\ Played(f[k], c, k)}
<1>1. 0 \notin T
  <2>. DEFINE f == [i \in 0..0 |-> Emit(Machine, Started)]
  <2>1. Plays(f, c, 0)
    BY DEF Plays
  <2>2. Played(f[0], c, 0)
    BY PlayedNothing
  <2>. QED BY <2>1, <2>2
<1>2. ASSUME NEW k \in 0..n, k + 1 \in 0..n, k \notin T PROVE k + 1 \notin T
  <2>1. PICK f : Plays(f, c, k) /\ Played(f[k], c, k)
    BY <1>2
  <2>. DEFINE last == Double!ReplayBlock(f[k], c[k + 1])
              g == [i \in 0..k + 1 |-> IF i = k + 1 THEN last ELSE f[i]]
  <2>2. /\ DOMAIN f = 0..k /\ f[0] = Emit(Machine, Started)
        /\ \A i \in 1..k : f[i] = Double!ReplayBlock(f[i - 1], c[i])
    <3>. DEFINE step(i) == IF i = 0 THEN Emit(Machine, Started)
                           ELSE Double!ReplayBlock(f[i - 1], c[i])
    <3>1. f = [i \in 0..k |-> step(i)]
      BY <2>1, Zenon DEF Plays
    <3>. HIDE DEF step
    <3>2. DOMAIN f = 0..k /\ f[0] = step(0) /\ \A i \in 1..k : f[i] = step(i)
      BY <1>2, <3>1
    <3>. QED BY <1>2, <3>2 DEF step
  <2>3. Played(last, c, k + 1)
    BY <1>2, <2>1, PlayedOn
  <2>4. /\ g = [i \in 0..k + 1 |-> g[i]] /\ g[k + 1] = last /\ \A i \in 0..k : g[i] = f[i]
    <3>. HIDE DEF last
    <3>. QED BY <1>2
  <2>. HIDE DEF g
  <2>5. \A i \in 0..k + 1 : g[i] = IF i = 0 THEN Emit(Machine, Started)
                                   ELSE Double!ReplayBlock(g[i - 1], c[i])
    <3>1. ASSUME NEW i \in 1..k PROVE g[i] = Double!ReplayBlock(g[i - 1], c[i])
      <4>1. i \in 0..k /\ i - 1 \in 0..k
        BY <1>2
      <4>2. g[i] = f[i] /\ g[i - 1] = f[i - 1]
        BY <2>4, <4>1
      <4>. QED BY <2>2, <4>2
    <3>2. g[k + 1] = Double!ReplayBlock(g[k], c[k + 1]) /\ (k + 1) - 1 = k
      <4>1. k \in 0..k
        BY <1>2
      <4>2. g[k] = f[k]
        BY <2>4, <4>1
      <4>3. (k + 1) - 1 = k
        BY <1>2
      <4>. QED BY <2>4, <4>2, <4>3
    <3>3. g[0] = Emit(Machine, Started)
      BY <1>2, <2>2, <2>4
    <3>4. ASSUME NEW i \in 0..k + 1
          PROVE  i = 0 \/ i \in 1..k \/ i = k + 1
      BY <1>2
    <3>. QED BY <1>2, <3>1, <3>2, <3>3, <3>4
  <2>6. Plays(g, c, k + 1)
    BY <2>4, <2>5 DEF Plays
  <2>. QED BY <2>3, <2>4, <2>6
<1>3. T = {}
  <2>. SUFFICES ASSUME T # {} PROVE FALSE
    OBVIOUS
  <2>1. T \subseteq Nat
    OBVIOUS
  <2>2. PICK k \in T : \A i \in T : k <= i
    BY <2>1, LeastNatural
  <2>3. k \in 0..n
    BY <2>2
  <2>. HIDE DEF T
  <2>4. k # 0 /\ k - 1 \in 0..n /\ (k - 1) + 1 = k /\ ~(k <= k - 1)
    BY <1>1, <2>2, <2>3
  <2>5. k - 1 \notin T
    BY <2>2, <2>4
  <2>. QED BY <1>2, <2>2, <2>3, <2>4, <2>5
<1>4. n \in 0..n
  OBVIOUS
<1>. QED BY <1>3, <1>4

\* All blocks are there, each whole, and then the message itself.
LEMMA ReplayIs ==
  ASSUME NEW message, Len(message.content) \in Nat
  PROVE  \E reason :
           \/ ConsumeAll(Unseen, Double!Replay(message).out)
                = Over(Replayed(message.content, Len(message.content)), reason, message)
           \/ ConsumeAll(Unseen, Double!Replay(message).out)
                = Broken(Replayed(message.content, Len(message.content)), reason, message)
<1>. DEFINE c == message.content
            n == Len(message.content)
            f == CHOOSE f : Plays(f, c, n)
            e == Double!Terminal(message)
            m == f[n]
<1>1. PICK g : Plays(g, c, n) /\ Played(g[n], c, n)
  BY PlaysExist
<1>2. Plays(f, c, n)
  BY <1>1
<1>3. f = g
  <2>. DEFINE T == {i \in 0..n : f[i] # g[i]}
  <2>1. /\ DOMAIN f = 0..n /\ f[0] = Emit(Machine, Started)
        /\ \A i \in 1..n : f[i] = Double!ReplayBlock(f[i - 1], c[i])
        /\ f = [i \in 0..n |-> f[i]]
    <3>. HIDE DEF f, n, c
    <3>1. n \in Nat
      BY DEF n
    <3>. QED BY <1>2, <3>1 DEF Plays
  <2>2. /\ DOMAIN g = 0..n /\ g[0] = Emit(Machine, Started)
        /\ \A i \in 1..n : g[i] = Double!ReplayBlock(g[i - 1], c[i])
        /\ g = [i \in 0..n |-> g[i]]
    <3>. HIDE DEF f, n, c
    <3>1. n \in Nat
      BY DEF n
    <3>. QED BY <1>1, <3>1 DEF Plays
  <2>. HIDE DEF f, c
  <2>3. T = {}
    <3>. SUFFICES ASSUME T # {} PROVE FALSE
      OBVIOUS
    <3>1. T \subseteq Nat
      OBVIOUS
    <3>2. PICK k \in T : \A i \in T : k <= i
      BY <3>1, LeastNatural
    <3>3. k \in 0..n /\ f[k] # g[k]
      BY <3>2
    <3>4. k # 0 /\ k \in 1..n /\ k - 1 \in 0..n /\ ~(k <= k - 1)
      BY <2>1, <2>2, <3>3
    <3>5. f[k - 1] = g[k - 1]
      BY <3>2, <3>4
    <3>. QED BY <2>1, <2>2, <3>3, <3>4, <3>5
  <2>4. \A i \in 0..n : f[i] = g[i]
    BY <2>3
  <2>. HIDE DEF n
  <2>. QED BY <2>1, <2>2, <2>4
<1>4. Played(m, c, n)
  BY <1>1, <1>3
<1>5. Double!Replay(message) = Finished(m, e)
  <2>1. Double!Replay(message) = Double!Finished(m, e)
    <3>1. Double!Emit(Double!Machine, Double!Started) = Emit(Machine, Started)
      BY DoubleShares
    <3>. QED BY <3>1, Zenon DEF Double!Replay, Plays
  <2>. HIDE DEF m, e
  <2>. QED BY <2>1, DoubleShares
<1>6. Finished(m, e).out = Append(m.out, e)
  <2>. HIDE DEF m, e
  <2>. QED BY <1>4 DEF Played, Finished, Emit, Machine
<1>7. ConsumeAll(Unseen, Append(m.out, e)) = Consume(Open(Replayed(c, n)), e)
  <2>. HIDE DEF m, e
  <2>. QED BY <1>4, ConsumeAppended DEF Played
<1>8. \E reason : e = Failed(reason, message) \/ e = Done(reason, message)
  BY DoubleShares, Zenon DEF Double!Terminal
<1>9. PICK reason : e = Failed(reason, message) \/ e = Done(reason, message)
  BY <1>8
<1>. HIDE DEF e, m, c, n
<1>10. \/ Consume(Open(Replayed(c, n)), e) = Over(Replayed(c, n), reason, message)
       \/ Consume(Open(Replayed(c, n)), e) = Broken(Replayed(c, n), reason, message)
  BY <1>9, ConsumeEnd
<1>. QED BY <1>5, <1>6, <1>7, <1>10 DEF c, n

-----------------------------------------------------------------------------
(* The task. *)

AllDialects == {"anthropic", "responses", "completions", "mistral", "google", "bedrock"}
AllProviders == AllDialects \cup {"azure", "codex", "vertex", "faux"}

LEMMA ProvidersAre ==
  ASSUME NEW p \in Providers
  PROVE  /\ p \in AllProviders
         /\ p # "faux" => Dialect(p) \in AllDialects
<1>1. p # "faux" => Dialect(p) \in AllDialects
  BY ProviderAssumption, WireAssumption DEF AllDialects
<1>2. Dialect(p) = IF p \in {"azure", "codex"} THEN "responses"
                   ELSE IF p = "vertex" THEN "google" ELSE p
  BY DEF Dialect
<1>. QED BY <1>1, <1>2 DEF AllDialects, AllProviders

LEMMA Tuples ==
  ASSUME NEW a, NEW b, NEW c, NEW e, NEW f, NEW g, NEW h, NEW k
  PROVE  /\ IsSequence(<<>>) /\ IsSequence(<<a>>) /\ IsSequence(<<a, b>>)
         /\ IsSequence(<<a, b, c, e>>)
         /\ IsSequence(<<a, b, c, e, f>>)
         /\ IsSequence(<<a, b, c, e, f, g>>)
         /\ IsSequence(<<a, b, c, e, f, g, h>>)
         /\ IsSequence(<<a, b, c, e, f, g, h, k>>)
<1>1. IsSequence(<<>>)
  <2>1. <<>> \in Seq({})
    OBVIOUS
  <2>. QED BY <2>1 DEF IsSequence
<1>2. <<a>> \in Seq({a}) /\ <<a, b>> \in Seq({a, b})
  OBVIOUS
<1>3. <<a, b, c, e>> \in Seq({a, b, c, e})
  OBVIOUS
<1>4. <<a, b, c, e, f>> \in Seq({a, b, c, e, f})
  OBVIOUS
<1>5. <<a, b, c, e, f, g>> \in Seq({a, b, c, e, f, g})
  OBVIOUS
<1>6. <<a, b, c, e, f, g, h>> \in Seq({a, b, c, e, f, g, h})
  OBVIOUS
<1>7. <<a, b, c, e, f, g, h, k>> \in Seq({a, b, c, e, f, g, h, k})
  OBVIOUS
<1>. QED BY <1>1, <1>2, <1>3, <1>4, <1>5, <1>6, <1>7 DEF IsSequence

\* Steps to take.
IsSetup(s) == IsSequence(s) /\ Len(s) > 0

LEMMA Longer ==
  ASSUME NEW s, IsSequence(s), NEW t, IsSequence(t), Len(t) > 0
  PROVE  IsSetup(s \o t)
<1>1. PICK S, T : s \in Seq(S) /\ t \in Seq(T)
  BY DEF IsSequence
<1>2. s \in Seq(S \cup T) /\ t \in Seq(S \cup T)
  BY <1>1
<1>3. s \o t \in Seq(S \cup T) /\ Len(s \o t) = Len(s) + Len(t) /\ Len(s) \in Nat
      /\ Len(t) \in Nat
  BY <1>2
<1>. QED BY <1>3 DEF IsSequence, IsSetup

LEMMA SetupsAre ==
  ASSUME NEW p \in AllProviders, NEW s \in Setups(p)
  PROVE  /\ p = "faux" => s = <<>>
         /\ p # "faux" => IsSetup(s)
<1>1. /\ IsSetup(AnthropicSetup) /\ IsSetup(CompletionsSetup) /\ IsSetup(ResponsesSetup)
      /\ IsSetup(AzureSetup) /\ IsSetup(CodexSetup) /\ IsSetup(MistralSetup)
      /\ IsSetup(GeminiSetup) /\ IsSetup(BedrockSetup)
  <2>1. /\ Len(AnthropicSetup) > 0 /\ Len(CompletionsSetup) > 0 /\ Len(ResponsesSetup) > 0
        /\ Len(AzureSetup) > 0 /\ Len(CodexSetup) > 0 /\ Len(MistralSetup) > 0
        /\ Len(GeminiSetup) > 0 /\ Len(BedrockSetup) > 0
    BY DEF AnthropicSetup, CompletionsSetup, ResponsesSetup, AzureSetup, CodexSetup,
           MistralSetup, GeminiSetup, BedrockSetup
  <2>2. /\ IsSequence(AnthropicSetup) /\ IsSequence(ResponsesSetup)
    BY Tuples DEF AnthropicSetup, ResponsesSetup
  <2>3. /\ IsSequence(CompletionsSetup) /\ IsSequence(AzureSetup)
    BY Tuples DEF CompletionsSetup, AzureSetup
  <2>4. /\ IsSequence(CodexSetup) /\ IsSequence(MistralSetup) /\ IsSequence(GeminiSetup)
    BY Tuples DEF CodexSetup, MistralSetup, GeminiSetup
  <2>5. IsSequence(BedrockSetup)
    BY Tuples DEF BedrockSetup
  <2>. QED BY <2>1, <2>2, <2>3, <2>4, <2>5 DEF IsSetup
<1>2. ASSUME NEW t, NEW q
      PROVE  IsSetup(VertexSetup(t, q))
  <2>. DEFINE a == IF t THEN <<>> ELSE <<Step("account", TRUE), Awaiting("exchange")>>
              b == IF q THEN <<>> ELSE <<Step("project", TRUE)>>
              c == <<Step("client", TRUE), Step("headers", TRUE), Awaiting("send"),
                     Awaiting("status")>>
  <2>1. IsSequence(a) /\ IsSequence(b)
    BY Tuples
  <2>2. IsSequence(c) /\ Len(c) > 0
    <3>1. Len(c) = 4
      OBVIOUS
    <3>2. IsSequence(c)
      BY Tuples, Zenon
    <3>. QED BY <3>1, <3>2
  <2>3. VertexSetup(t, q) = (a \o b) \o c
    BY Zenon DEF VertexSetup
  <2>. HIDE DEF a, b, c
  <2>4. IsSequence(a \o b)
    BY <2>1, Concatenated
  <2>. QED BY <2>2, <2>3, <2>4, Longer
<1>3. \/ p = "anthropic" /\ s = AnthropicSetup
      \/ p = "completions" /\ s = CompletionsSetup
      \/ p = "responses" /\ s = ResponsesSetup
      \/ p = "azure" /\ s = AzureSetup
      \/ p = "codex" /\ s = CodexSetup
      \/ p = "mistral" /\ s = MistralSetup
      \/ p = "google" /\ s = GeminiSetup
      \/ p = "vertex" /\ \E t, q \in BOOLEAN : s = VertexSetup(t, q)
      \/ p = "bedrock" /\ s = BedrockSetup
      \/ p = "faux" /\ s = <<>>
  BY DEF Setups, AllProviders, AllDialects
<1>. QED BY <1>1, <1>2, <1>3

\* What the loop makes of the next event, whatever it is.
LEMMA AfterGoes ==
  ASSUME d \in AllDialects, Speaks(machine), NEW e, Fits(d, e)
  PROVE  Goes(After(e))
<1>1. \/ After(e) = Finished(machine, PushError)
      \/ After(e) = Eof(d, machine)
      \/ After(e) = Handle(d, machine, e)
  <2>1. CASE e.type = "broken"
    BY <2>1, Zenon DEF After
  <2>2. CASE e.type = "eof"
    BY <2>2 DEF After
  <2>3. CASE e.type \notin {"broken", "eof"}
    BY <2>3 DEF After
  <2>. QED BY <2>1, <2>2, <2>3
<1>2. Goes(Finished(machine, PushError))
  BY Finishes, Terminals DEF PushError, Goes
<1>3. Goes(Eof(d, machine)) /\ Goes(Handle(d, machine, e))
  <2>1. CASE d = "anthropic"
    <3>1. Eof(d, machine) = Anthropic!Eof(machine)
          /\ Handle(d, machine, e) = Anthropic!HandleSse(machine, e)
      BY <2>1 DEF Eof, Handle
    <3>. QED BY <2>1, <3>1, AnthropicGoes
  <2>2. CASE d = "completions"
    <3>1. Eof(d, machine) = Completions!Eof(machine)
          /\ Handle(d, machine, e) = Completions!HandleChunk(machine, e)
      BY <2>2 DEF Eof, Handle
    <3>. QED BY <2>2, <3>1, CompletionsGoes
  <2>3. CASE d = "responses"
    <3>1. Eof(d, machine) = Responses!Eof(machine)
          /\ Handle(d, machine, e) = Responses!HandleEvent(machine, e)
      BY <2>3 DEF Eof, Handle
    <3>. QED BY <2>3, <3>1, ResponsesGoes
  <2>4. CASE d = "mistral"
    <3>1. Eof(d, machine) = MistralApi!Eof(machine)
          /\ Handle(d, machine, e) = MistralApi!HandleChunk(machine, e)
      BY <2>4 DEF Eof, Handle
    <3>. QED BY <2>4, <3>1, MistralGoes
  <2>5. CASE d = "google"
    <3>1. Eof(d, machine) = Gemini!Eof(machine)
          /\ Handle(d, machine, e) = Gemini!HandleChunk(machine, e)
      BY <2>5 DEF Eof, Handle
    <3>. QED BY <2>5, <3>1, GeminiGoes
  <2>6. CASE d = "bedrock"
    <3>1. Eof(d, machine) = Bedrock!Eof(machine)
          /\ Handle(d, machine, e) = Bedrock!HandleFrame(machine, e)
      BY <2>6 DEF Eof, Handle
    <3>. QED BY <2>6, <3>1, BedrockGoes
  <2>. QED BY <2>1, <2>2, <2>3, <2>4, <2>5, <2>6 DEF AllDialects
<1>. QED BY <1>1, <1>2, <1>3

-----------------------------------------------------------------------------
(* What a loop has told so far, and what its steps leave alone. *)

SameBooks(m, n) ==
  /\ n.stop = m.stop /\ n.at = m.at /\ n.buf = m.buf /\ n.ended = m.ended
  /\ n.open = m.open /\ n.text = m.text /\ n.think = m.think
  /\ n.finish = m.finish /\ n.saw = m.saw

\* A loop that goes on, whose events taught a consumer these blocks.
Telling(v, m, bs) == Speaks(m) /\ ConsumeAll(v, m.out) = Open(bs)

LEMMA TellingStarts ==
  ASSUME NEW m, Speaks(m), m.out = <<>>, NEW bs
  PROVE  Telling(Open(bs), m, bs)
BY ConsumeNothing DEF Telling

LEMMA EmitIs ==
  ASSUME NEW m, Speaks(m), NEW e
  PROVE  /\ Emit(m, e).out = Append(m.out, e) /\ Emit(m, e).content = m.content
         /\ SameBooks(m, Emit(m, e))
BY DEF Speaks, Emit, Machine, SameBooks

LEMMA TellsOne ==
  ASSUME NEW v, NEW m, NEW bs, Telling(v, m, bs), NEW e, Talk(e), NEW cs,
         Consume(Open(bs), e) = Open(cs)
  PROVE  /\ Telling(v, Emit(m, e), cs) /\ Emit(m, e).content = m.content
         /\ SameBooks(m, Emit(m, e))
<1>1. Speaks(Emit(m, e)) /\ Emit(m, e).out = Append(m.out, e)
      /\ Emit(m, e).content = m.content /\ SameBooks(m, Emit(m, e))
  BY Emits, EmitIs DEF Telling
<1>2. IsSequence(m.out)
  BY DEF Telling, Speaks, Talks
<1>3. ConsumeAll(v, Append(m.out, e)) = Open(cs)
  BY <1>2, ConsumeAppended DEF Telling
<1>. QED BY <1>1, <1>3 DEF Telling

LEMMA TellsOpened ==
  ASSUME NEW v, NEW m, NEW bs, Telling(v, m, bs), NEW i,
         i \in DOMAIN bs => bs[i] = Live(m.content[i].kind, <<>>)
  PROVE  /\ Telling(v, EmitOpened(m, i), Put(bs, i, Live(m.content[i].kind, <<>>)))
         /\ EmitOpened(m, i).content = m.content /\ SameBooks(m, EmitOpened(m, i))
<1>1. Consume(Open(bs), Opened(i, m.content[i].kind))
        = Open(Put(bs, i, Live(m.content[i].kind, <<>>)))
  BY Consumed, Zenon
<1>. QED BY <1>1, TellsOne, Events DEF EmitOpened

LEMMA TellsDelta ==
  ASSUME NEW v, NEW m, NEW bs, Telling(v, m, bs), NEW i \in DOMAIN bs, NEW kind, NEW said,
         bs[i] = Live(kind, said), NEW text
  PROVE  LET n == Emit(m, Delta(i, kind, text)) IN
         /\ Telling(v, n, Put(bs, i, Live(kind, said \o text)))
         /\ n.content = m.content /\ SameBooks(m, n)
<1>1. Consume(Open(bs), Delta(i, kind, text)) = Open(Put(bs, i, Live(kind, said \o text)))
  BY ConsumeDelta, SMT
<1>. QED BY <1>1, TellsOne, Events

LEMMA TellsEnded ==
  ASSUME NEW v, NEW m, NEW bs, Telling(v, m, bs), NEW i \in DOMAIN bs, NEW said,
         bs[i] = Live(m.content[i].kind, said)
  PROVE  /\ Telling(v, EmitEnded(m, i), Put(bs, i, Shut(m.content[i].kind, m.content[i].text)))
         /\ EmitEnded(m, i).content = m.content /\ SameBooks(m, EmitEnded(m, i))
<1>1. Consume(Open(bs), Ended(i, m.content[i]))
        = Open(Put(bs, i, Shut(m.content[i].kind, m.content[i].text)))
  BY Consumed, Zenon
<1>. QED BY <1>1, TellsOne, Events DEF EmitEnded

LEMMA TellsSame ==
  ASSUME NEW v, NEW m, NEW bs, Telling(v, m, bs), NEW n, Speaks(n), n.out = m.out
  PROVE  Telling(v, n, bs)
BY DEF Telling

\* The loop returns.
LEMMA FinishedIs ==
  ASSUME NEW m, Speaks(m), NEW e
  PROVE  Finished(m, e).over = TRUE /\ Finished(m, e).out = Append(m.out, e)
BY DEF Speaks, Machine, Finished, Emit

LEMMA TellsEnd ==
  ASSUME NEW v, NEW m, NEW bs, Telling(v, m, bs), NEW e, NEW n, n = Finished(m, e)
  PROVE  n.over /\ ConsumeAll(v, n.out) = Consume(Open(bs), e)
<1>1. n.over = TRUE /\ n.out = Append(m.out, e)
  BY FinishedIs DEF Telling
<1>2. ConsumeAll(v, Append(m.out, e)) = Consume(Open(bs), e)
  BY ConsumeAppended DEF Telling, Speaks, Talks
<1>. QED BY <1>1, <1>2

-----------------------------------------------------------------------------
(* What the shared steps do to the message. *)

\* The block at i is exchanged.
Swaps(before, after, i, block) ==
  /\ Len(after) = Len(before) /\ DOMAIN after = DOMAIN before /\ after[i] = block
  /\ \A j \in DOMAIN before : j # i => after[j] = before[j]

\* One more block.
Gains(before, after, block) ==
  /\ Len(after) = Len(before) + 1 /\ DOMAIN after = 1..Len(before) + 1
  /\ after[Len(before) + 1] = block
  /\ \A j \in 1..Len(before) : after[j] = before[j]

\* The content index is the next one.
LEMMA ContentIs ==
  ASSUME NEW m, Speaks(m)
  PROVE  /\ IsSequence(m.content) /\ Len(m.content) \in Nat
         /\ DOMAIN m.content = 1..Len(m.content) /\ NextIndex(m) = Len(m.content) + 1
         /\ \A i \in 1..Len(m.content) : IsBlock(m.content[i])
BY NextIndexIs DEF Speaks, HasBlocks, NextIndex

LEMMA AddIs ==
  ASSUME NEW m, Speaks(m), NEW block, IsBlock(block)
  PROVE  LET n == Add(m, block) IN
         /\ Speaks(n) /\ n.out = m.out /\ SameBooks(m, n)
         /\ Gains(m.content, n.content, block)
<1>. DEFINE n == Add(m, block)
<1>1. n.content = Append(m.content, block) /\ n.out = m.out /\ SameBooks(m, n)
  BY DEF Add, Speaks, Machine, SameBooks
<1>2. IsSequence(m.content)
  BY DEF Speaks, HasBlocks
<1>3. Gains(m.content, Append(m.content, block), block)
  BY <1>2, Appended DEF Gains
<1>. QED BY <1>1, <1>3, Adds

\* n is m with this for the block at i.
Reblocked(m, n, i, block) == n = [m EXCEPT !.content[i] = block]

LEMMA ReblockedIs ==
  ASSUME NEW m, Speaks(m), NEW i, NEW block, NEW n, Reblocked(m, n, i, block),
         i \in 1..Len(m.content), DOMAIN block = BlockFields, block.kind = m.content[i].kind
  PROVE  Speaks(n) /\ n.out = m.out /\ SameBooks(m, n) /\ Swaps(m.content, n.content, i, block)
<1>1. n = [m EXCEPT !.content[i] = block]
  BY DEF Reblocked
<1>2. Speaks(n) /\ DOMAIN n.content = DOMAIN m.content
  BY <1>1, Retouches
<1>3. n.out = m.out /\ SameBooks(m, n) /\ n.content = [m.content EXCEPT ![i] = block]
  BY <1>1 DEF Speaks, Machine, SameBooks
<1>4. DOMAIN m.content = 1..Len(m.content) /\ DOMAIN n.content = 1..Len(n.content)
      /\ Len(m.content) \in Nat /\ Len(n.content) \in Nat
  BY <1>2, ContentIs
<1>5. Len(n.content) = Len(m.content)
  BY <1>2, <1>4
<1>6. n.content[i] = block /\ \A j \in DOMAIN m.content : j # i => n.content[j] = m.content[j]
  BY <1>3, <1>4
<1>. QED BY <1>2, <1>3, <1>5, <1>6 DEF Swaps

Resigned(block, sig) == [block EXCEPT !.sig = sig]
Renamed(block, id) == [block EXCEPT !.id = id]

LEMMA BlockEdits ==
  ASSUME NEW c, IsBlock(c), NEW x
  PROVE  /\ IsBlock(Retold(c, x)) /\ Retold(c, x).text = x /\ Retold(c, x).kind = c.kind
         /\ Retold(c, x).id = c.id /\ Retold(c, x).sig = c.sig
         /\ Retold(c, x).redacted = c.redacted
         /\ IsBlock(Resigned(c, x)) /\ Resigned(c, x).sig = x /\ Resigned(c, x).kind = c.kind
         /\ Resigned(c, x).id = c.id /\ Resigned(c, x).text = c.text
         /\ Resigned(c, x).redacted = c.redacted
         /\ IsBlock(Renamed(c, x)) /\ Renamed(c, x).id = x /\ Renamed(c, x).kind = c.kind
         /\ Renamed(c, x).sig = c.sig /\ Renamed(c, x).text = c.text
         /\ Renamed(c, x).redacted = c.redacted
BY DEF IsBlock, BlockFields, Retold, Resigned, Renamed

\* The new blocks.
LEMMA NewBlockFields ==
  /\ \A kind \in Kinds :
       /\ IsBlock(Block(kind)) /\ Block(kind).kind = kind /\ Block(kind).id = <<>>
       /\ Block(kind).text = <<>> /\ Block(kind).sig = <<>> /\ Block(kind).redacted = FALSE
  /\ \A id :
       /\ IsBlock(ToolBlock(id)) /\ ToolBlock(id).kind = "tool" /\ ToolBlock(id).id = id
       /\ ToolBlock(id).text = <<>> /\ ToolBlock(id).sig = <<>>
       /\ ToolBlock(id).redacted = FALSE
<1>1. \A kind : Block(kind) = [kind |-> kind, id |-> <<>>, text |-> <<>>, sig |-> <<>>,
                               redacted |-> FALSE]
  BY DEF Block
<1>2. \A kind \in Kinds :
        /\ IsBlock(Block(kind)) /\ Block(kind).kind = kind /\ Block(kind).id = <<>>
        /\ Block(kind).text = <<>> /\ Block(kind).sig = <<>> /\ Block(kind).redacted = FALSE
  BY <1>1 DEF IsBlock, BlockFields
<1>3. \A id : ToolBlock(id) = Renamed(Block("tool"), id)
  BY Zenon DEF ToolBlock, Renamed
<1>4. "tool" \in Kinds
  BY DEF Kinds
<1>. QED BY <1>2, <1>3, <1>4, BlockEdits

LEMMA ExtendIs ==
  ASSUME NEW m, Speaks(m), NEW i \in 1..Len(m.content), NEW kind,
         m.content[i].kind = kind, NEW text
  PROVE  LET n == Extend(m, i, kind, text)
             c == m.content[i]
         IN /\ Speaks(n) /\ n.out = m.out /\ SameBooks(m, n)
            /\ Swaps(m.content, n.content, i, Retold(c, c.text \o text))
<1>. DEFINE n == Extend(m, i, kind, text)
            c == m.content[i]
            block == Retold(c, c.text \o text)
<1>1. n = [m EXCEPT !.content[i].text = @ \o text]
  BY ContentIs, Zenon DEF Extend, Is
<1>2. Reblocked(m, n, i, block)
  BY <1>1, Zenon DEF Reblocked, Retold
<1>3. IsBlock(c)
  BY ContentIs
<1>4. DOMAIN block = BlockFields /\ block.kind = c.kind
  BY <1>3, BlockEdits DEF IsBlock
<1>. HIDE DEF n, block
<1>5. Speaks(n) /\ n.out = m.out /\ SameBooks(m, n) /\ Swaps(m.content, n.content, i, block)
  BY <1>2, <1>4, ReblockedIs
<1>. QED BY <1>5 DEF n, block

LEMMA CollectIs ==
  ASSUME NEW m, Speaks(m), NEW k, NEW text
  PROVE  LET n == Collect(m, k, text) IN
         /\ Speaks(n) /\ n.out = m.out /\ n.content = m.content
         /\ n.buf = Put(m.buf, k, Lookup(m.buf, k, <<>>) \o text)
         /\ n.stop = m.stop /\ n.at = m.at /\ n.ended = m.ended /\ n.open = m.open
         /\ n.text = m.text /\ n.think = m.think /\ n.finish = m.finish /\ n.saw = m.saw
<1>. DEFINE buf == Put(m.buf, k, Lookup(m.buf, k, <<>>) \o text)
<1>1. Collect(m, k, text) = [m EXCEPT !.buf = buf]
  BY Zenon DEF Collect
<1>. HIDE DEF buf
<1>2. Speaks(Collect(m, k, text))
  BY Collects
<1>3. LET n == Collect(m, k, text) IN
      /\ n.out = m.out /\ n.content = m.content /\ n.buf = buf
      /\ n.stop = m.stop /\ n.at = m.at /\ n.ended = m.ended /\ n.open = m.open
      /\ n.text = m.text /\ n.think = m.think /\ n.finish = m.finish /\ n.saw = m.saw
  BY <1>1 DEF Speaks, Machine
<1>. QED BY <1>2, <1>3 DEF buf

\* What is looked up after it was collected.
LEMMA PutLookup ==
  ASSUME NEW map, NEW k, NEW x
  PROVE  /\ Lookup(Put(map, k, x), k, <<>>) = x
         /\ \A j : j # k => Lookup(Put(map, k, x), j, <<>>) = Lookup(map, j, <<>>)
         /\ DOMAIN Put(map, k, x) = DOMAIN map \cup {k}
<1>1. Lookup(Put(map, k, x), k, <<>>) = x
  BY DEF Lookup, Known, Put
<1>2. ASSUME NEW j, j # k PROVE Lookup(Put(map, k, x), j, <<>>) = Lookup(map, j, <<>>)
  <2>1. j \in DOMAIN Put(map, k, x) <=> j \in DOMAIN map
    BY <1>2 DEF Put
  <2>2. j \in DOMAIN map => Put(map, k, x)[j] = map[j]
    BY <1>2 DEF Put
  <2>. QED BY <2>1, <2>2 DEF Lookup, Known
<1>3. DOMAIN Put(map, k, x) = DOMAIN map \cup {k}
  BY DEF Put
<1>. QED BY <1>1, <1>2, <1>3

\* Arguments are parsed into a call; nothing else is.
Parsing(c, x, raw) ==
  /\ IsBlock(x) /\ x.kind = c.kind /\ x.id = c.id /\ x.sig = c.sig /\ x.redacted = c.redacted
  /\ c.kind # "tool" => x.text = c.text
  /\ c.kind = "tool" /\ raw # <<>> => x.text = raw
  /\ raw = <<>> => x.text = c.text

LEMMA ParsingIs ==
  ASSUME NEW c, IsBlock(c), NEW raw
  PROVE  Parsing(c, Parsed(c, raw), raw)
<1>1. CASE c.kind = "tool" /\ raw # <<>>
  <2>1. Parsed(c, raw) = Retold(c, raw)
    BY <1>1, Zenon DEF Parsed, Retold
  <2>. QED BY <1>1, <2>1, BlockEdits DEF Parsing
<1>2. CASE ~(c.kind = "tool" /\ raw # <<>>)
  <2>1. Parsed(c, raw) = c
    BY <1>2, Zenon DEF Parsed
  <2>. QED BY <1>2, <2>1 DEF Parsing
<1>. QED BY <1>1, <1>2

LEMMA ParseIs ==
  ASSUME NEW m, Speaks(m), NEW i \in 1..Len(m.content), NEW raw
  PROVE  LET n == Parse(m, i, raw) IN
         /\ Speaks(n) /\ n.out = m.out /\ SameBooks(m, n)
         /\ Swaps(m.content, n.content, i, Parsed(m.content[i], raw))
         /\ Parsing(m.content[i], Parsed(m.content[i], raw), raw)
<1>. DEFINE n == Parse(m, i, raw)
            block == Parsed(m.content[i], raw)
<1>1. Parsing(m.content[i], block, raw)
  BY ContentIs, ParsingIs
<1>2. Reblocked(m, n, i, block)
  BY ContentIs, Zenon DEF Parse, Reblocked
<1>. HIDE DEF n, block
<1>3. Speaks(n) /\ n.out = m.out /\ SameBooks(m, n) /\ Swaps(m.content, n.content, i, block)
  BY <1>1, <1>2, ReblockedIs DEF Parsing, IsBlock
<1>. QED BY <1>1, <1>3 DEF n, block

-----------------------------------------------------------------------------
(* What the message and the consumer have of each block the vendor sent.  In  *)
(* every dialect but Responses the content index is the vendor's number.  *)

Seen(s, kind, text) == IF s.open THEN Live(kind, s.sent) ELSE Shut(kind, text)

AgreesRedacted(s, c, w) ==
  /\ c.kind = "thinking" /\ c.id = <<>> /\ c.redacted = TRUE /\ c.text = RedactedText
  /\ w = Seen(s, "thinking", RedactedText)
AgreesProse(s, c, w) ==
  /\ c.kind = s.kind /\ c.id = <<>> /\ c.redacted = FALSE /\ c.text = s.sent
  /\ w = Seen(s, s.kind, s.sent)

\* A call keeps its arguments elsewhere while it is open.
IsCallId(b, named, id) ==
  IF named THEN id = <<b>> ELSE \E k \in Nat \ {0} : id = <<-k>>
AgreesCall(b, s, c, w) ==
  /\ c.kind = "tool" /\ c.redacted = FALSE /\ IsCallId(b, s.named, c.id)
  /\ c.text = IF s.open THEN <<>> ELSE s.sent
  /\ w = Seen(s, "tool", s.sent)

Prose == {"text", "thinking"}
Agrees(b, s, c, w) ==
  /\ IsBlock(c) /\ c.sig = s.sig
  /\ s.kind = "redacted" => AgreesRedacted(s, c, w)
  /\ s.kind \in Prose => AgreesProse(s, c, w)
  /\ s.kind = "tool" => AgreesCall(b, s, c, w)

Matches(r, content, bs) ==
  /\ Len(content) = Len(r.blocks) /\ DOMAIN content = 1..Len(r.blocks)
  /\ DOMAIN bs = 1..Len(r.blocks)
  /\ \A b \in 1..Len(r.blocks) : Agrees(b, r.blocks[b], content[b], bs[b])

\* The vendor has not changed the block.
Same(r, q, b) ==
  Alike(q.blocks[b], r.blocks[b]) /\ (q.blocks[b].open <=> r.blocks[b].open)

LEMMA AgreesStill ==
  ASSUME NEW b, NEW s, NEW t, NEW c, NEW w, Agrees(b, s, c, w), Alike(t, s), t.open <=> s.open
  PROVE  Agrees(b, t, c, w)
<1>1. t.kind = s.kind /\ t.sig = s.sig /\ t.sent = s.sent /\ t.named = s.named
  BY DEF Alike
<1>2. \A kind, text : Seen(t, kind, text) = Seen(s, kind, text)
  BY <1>1, Zenon DEF Seen
<1>3. (IF t.open THEN <<>> ELSE t.sent) = (IF s.open THEN <<>> ELSE s.sent)
  BY <1>1, Zenon
<1>4. s.kind = "redacted" => AgreesRedacted(t, c, w)
  BY <1>1, <1>2, Zenon DEF Agrees, AgreesRedacted
<1>5. s.kind \in Prose => AgreesProse(t, c, w)
  BY <1>1, <1>2, Zenon DEF Agrees, AgreesProse
<1>6. s.kind = "tool" => AgreesCall(b, t, c, w)
  BY <1>1, <1>2, <1>3, Zenon DEF Agrees, AgreesCall
<1>. QED BY <1>1, <1>4, <1>5, <1>6, Zenon DEF Agrees

\* Running text that goes on no more.
LEMMA AgreesShut ==
  ASSUME NEW b, NEW s, NEW t, NEW c, NEW w, Agrees(b, s, c, w), s.kind \in Prose,
         Alike(t, s), ~t.open
  PROVE  Agrees(b, t, c, Shut(c.kind, c.text))
<1>1. t.kind = s.kind /\ t.sig = s.sig /\ t.sent = s.sent /\ t.named = s.named
  BY DEF Alike
<1>2. \A kind, text : Seen(t, kind, text) = Shut(kind, text)
  BY Zenon DEF Seen
<1>3. AgreesProse(s, c, w)
  BY DEF Agrees
<1>4. AgreesProse(t, c, Shut(c.kind, c.text))
  BY <1>1, <1>2, <1>3, Zenon DEF AgreesProse
<1>5. s.kind # "redacted" /\ s.kind # "tool"
  BY DEF Prose
<1>. QED BY <1>1, <1>4, <1>5, Zenon DEF Agrees

LEMMA MatchGains ==
  ASSUME NEW r, NEW q, NEW n \in Nat, n = Len(r.blocks), Len(q.blocks) = n + 1,
         \A k \in 1..n : Same(r, q, k),
         NEW c, NEW bs, Matches(r, c, bs), NEW x, NEW f, Gains(c, f, x), NEW w,
         Agrees(n + 1, q.blocks[n + 1], x, w)
  PROVE  Matches(q, f, Put(bs, n + 1, w))
<1>. DEFINE gs == Put(bs, n + 1, w)
<1>1. /\ Len(f) = n + 1 /\ DOMAIN f = 1..n + 1 /\ f[n + 1] = x
      /\ \A k \in 1..n : f[k] = c[k]
  BY DEF Matches, Gains
<1>2. DOMAIN gs = 1..n + 1 /\ gs[n + 1] = w /\ \A k \in 1..n : gs[k] = bs[k]
  BY DEF Matches, Put
<1>. HIDE DEF gs
<1>3. ASSUME NEW k \in 1..n + 1 PROVE Agrees(k, q.blocks[k], f[k], gs[k])
  <2>1. CASE k = n + 1
    BY <1>1, <1>2, <2>1
  <2>2. CASE k # n + 1
    <3>1. k \in 1..n
      BY <2>2
    <3>2. Agrees(k, r.blocks[k], c[k], bs[k]) /\ Same(r, q, k)
      BY <3>1 DEF Matches
    <3>3. Agrees(k, q.blocks[k], c[k], bs[k])
      BY <3>2, AgreesStill DEF Same
    <3>. QED BY <1>1, <1>2, <3>1, <3>3
  <2>. QED BY <2>1, <2>2
<1>. QED BY <1>1, <1>2, <1>3 DEF Matches, gs

\* The consumer has this for the block at b.
Replaces(bs, gs, b, w) ==
  /\ DOMAIN gs = DOMAIN bs /\ gs[b] = w
  /\ \A k \in DOMAIN bs : k # b => gs[k] = bs[k]

LEMMA PutReplaces ==
  ASSUME NEW bs, NEW b \in DOMAIN bs, NEW w
  PROVE  Replaces(bs, Put(bs, b, w), b, w)
BY DEF Replaces, Put

LEMMA MatchSwaps ==
  ASSUME NEW r, NEW q, NEW n \in Nat, n = Len(r.blocks), Len(q.blocks) = n,
         NEW b \in 1..n, \A k \in (1..n) \ {b} : Same(r, q, k),
         NEW c, NEW bs, Matches(r, c, bs), NEW x, NEW f, Swaps(c, f, b, x), NEW w, NEW gs,
         Replaces(bs, gs, b, w), Agrees(b, q.blocks[b], x, w)
  PROVE  Matches(q, f, gs)
<1>1. /\ Len(f) = n /\ DOMAIN f = 1..n /\ f[b] = x
      /\ \A k \in (1..n) \ {b} : f[k] = c[k]
  BY DEF Matches, Swaps
<1>2. DOMAIN gs = 1..n /\ gs[b] = w /\ \A k \in (1..n) \ {b} : gs[k] = bs[k]
  BY DEF Matches, Replaces
<1>3. ASSUME NEW k \in 1..n PROVE Agrees(k, q.blocks[k], f[k], gs[k])
  <2>1. CASE k = b
    BY <1>1, <1>2, <2>1
  <2>2. CASE k # b
    <3>1. Agrees(k, r.blocks[k], c[k], bs[k]) /\ Same(r, q, k)
      BY <2>2 DEF Matches
    <3>2. Agrees(k, q.blocks[k], c[k], bs[k])
      BY <3>1, AgreesStill DEF Same
    <3>. QED BY <1>1, <1>2, <2>2, <3>2
  <2>. QED BY <2>1, <2>2
<1>. QED BY <1>1, <1>2, <1>3 DEF Matches

LEMMA MatchStill ==
  ASSUME NEW r, NEW q, NEW c, NEW bs, Matches(r, c, bs), Len(q.blocks) = Len(r.blocks),
         \A k \in 1..Len(r.blocks) : Same(r, q, k)
  PROVE  Matches(q, c, bs)
BY AgreesStill DEF Matches, Same

-----------------------------------------------------------------------------
(* What a Done has to stand for. *)

\* A block of the message when it is finished.
WholeBlock(b, s, c) ==
  /\ IsBlock(c) /\ c.sig = s.sig
  /\ s.kind = "redacted" => /\ c.kind = "thinking" /\ c.id = <<>> /\ c.redacted = TRUE
                            /\ c.text = RedactedText
  /\ s.kind # "redacted" => c.kind = s.kind /\ c.redacted = FALSE /\ c.text = s.sent
  /\ s.kind \in Prose => c.id = <<>>
  /\ s.kind = "tool" => IsCallId(b, s.named, c.id)
Whole(r, content) ==
  /\ Len(content) = Len(r.blocks) /\ DOMAIN content = 1..Len(r.blocks)
  /\ \A b \in 1..Len(r.blocks) : WholeBlock(b, r.blocks[b], content[b])

UniqueIds(content) ==
  \A i, j \in DOMAIN content :
    content[i].kind = "tool" /\ content[j].kind = "tool" /\ content[i].id = content[j].id
      => i = j

SaidBlock(api, r, b) ==
  LET s == r.blocks[b] IN
  IF s.kind = "redacted"
  THEN [Block("thinking") EXCEPT !.text = RedactedText, !.sig = s.sig, !.redacted = TRUE]
  ELSE [Block(s.kind) EXCEPT !.text = s.sent, !.sig = s.sig,
                             !.id = IF s.kind = "tool" THEN CallId(api, r, b) ELSE <<>>]

LEMMA UnnamedIs ==
  /\ Unnamed(<<>>) = <<>>
  /\ \A b \in Nat : Unnamed(<<b>>) = <<b>> /\ Unnamed(<<b, -b>>) = <<b, -b>>
  /\ \A k \in Nat \ {0} : Unnamed(<<-k>>) = <<>>
<1>1. Unnamed(<<>>) = <<>>
  BY Zenon DEF Unnamed
<1>2. ASSUME NEW b \in Nat PROVE Unnamed(<<b>>) = <<b>> /\ Unnamed(<<b, -b>>) = <<b, -b>>
  <2>1. Head(<<b>>) = b /\ Head(<<b, -b>>) = b /\ ~(b < 0)
    OBVIOUS
  <2>. QED BY <2>1, Zenon DEF Unnamed
<1>3. ASSUME NEW k \in Nat \ {0} PROVE Unnamed(<<-k>>) = <<>>
  <2>1. Head(<<-k>>) = -k /\ -k < 0 /\ <<-k>> # <<>>
    OBVIOUS
  <2>. QED BY <2>1, Zenon DEF Unnamed
<1>. QED BY <1>1, <1>2, <1>3

\* The fields of a block as the vendor said it.
LEMMA SaidFieldsAre ==
  ASSUME NEW api, NEW r, NEW b, r.blocks[b].kind \in Kinds \cup {"redacted"}
  PROVE  LET s == r.blocks[b]
             x == SaidBlock(api, r, b)
         IN /\ x = [k \in BlockFields |-> x[k]] /\ x.sig = s.sig
            /\ s.kind = "redacted" => /\ x.kind = "thinking" /\ x.id = <<>>
                                      /\ x.redacted = TRUE /\ x.text = RedactedText
            /\ s.kind # "redacted" => x.kind = s.kind /\ x.redacted = FALSE /\ x.text = s.sent
            /\ s.kind \in Prose => x.id = <<>>
            /\ s.kind = "tool" => x.id = CallId(api, r, b)
<1>. DEFINE s == r.blocks[b]
            x == SaidBlock(api, r, b)
            id == IF s.kind = "tool" THEN CallId(api, r, b) ELSE <<>>
            block == Block(s.kind)
            thought == Block("thinking")
<1>1. CASE s.kind = "redacted"
  <2>1. x = [thought EXCEPT !.text = RedactedText, !.sig = s.sig, !.redacted = TRUE]
    BY <1>1, Zenon DEF SaidBlock
  <2>2. DOMAIN thought = BlockFields /\ thought.kind = "thinking" /\ thought.id = <<>>
    BY NewBlockFields DEF Kinds, IsBlock
  <2>. HIDE DEF x, thought
  <2>3. /\ x = [k \in BlockFields |-> x[k]] /\ x.sig = s.sig /\ x.kind = "thinking"
        /\ x.id = <<>> /\ x.redacted = TRUE /\ x.text = RedactedText
    BY <2>1, <2>2 DEF BlockFields
  <2>. QED BY <1>1, <2>3 DEF x, Prose
<1>2. CASE s.kind # "redacted"
  <2>1. x = [block EXCEPT !.text = s.sent, !.sig = s.sig, !.id = id]
    BY <1>2, Zenon DEF SaidBlock
  <2>2. DOMAIN block = BlockFields /\ block.kind = s.kind /\ block.redacted = FALSE
    BY <1>2, NewBlockFields DEF IsBlock
  <2>3. /\ s.kind \in Prose => id = <<>>
        /\ s.kind = "tool" => id = CallId(api, r, b)
    BY DEF Prose
  <2>. HIDE DEF x, block, id
  <2>4. /\ x = [k \in BlockFields |-> x[k]] /\ x.sig = s.sig /\ x.kind = s.kind
        /\ x.id = id /\ x.redacted = FALSE /\ x.text = s.sent
    BY <2>1, <2>2 DEF BlockFields
  <2>. QED BY <1>2, <2>3, <2>4 DEF x
<1>. QED BY <1>1, <1>2

\* Blocks are the same when their fields are.
LEMMA SameFields ==
  ASSUME NEW x, NEW y, x = [k \in BlockFields |-> x[k]], y = [k \in BlockFields |-> y[k]],
         x.kind = y.kind, x.id = y.id, x.text = y.text, x.sig = y.sig, x.redacted = y.redacted
  PROVE  x = y
<1>1. \A k \in BlockFields : x[k] = y[k]
  BY DEF BlockFields
<1>. QED BY <1>1, Zenon

DeliveredBlock(c) == [c EXCEPT !.id = Unnamed(c.id)]

LEMMA DeliveredFields ==
  ASSUME NEW c, IsBlock(c)
  PROVE  LET y == DeliveredBlock(c) IN
         /\ y = [k \in BlockFields |-> y[k]] /\ y.kind = c.kind /\ y.id = Unnamed(c.id)
         /\ y.text = c.text /\ y.sig = c.sig /\ y.redacted = c.redacted
BY DEF IsBlock, BlockFields, DeliveredBlock

LEMMA WholeBlockSaid ==
  ASSUME NEW api, api # "responses", NEW r, IsReply(api, r), NEW b \in 1..Len(r.blocks),
         NEW c, WholeBlock(b, r.blocks[b], c)
  PROVE  SaidBlock(api, r, b) = DeliveredBlock(c)
<1>. DEFINE s == r.blocks[b]
            x == SaidBlock(api, r, b)
            y == DeliveredBlock(c)
<1>1. s.kind \in Kinds \cup {"redacted"} /\ b \in Nat
  BY ReplyFacts DEF IsReply, IsSaid
<1>2. /\ x = [k \in BlockFields |-> x[k]] /\ x.sig = s.sig
      /\ s.kind = "redacted" => /\ x.kind = "thinking" /\ x.id = <<>>
                                /\ x.redacted = TRUE /\ x.text = RedactedText
      /\ s.kind # "redacted" => x.kind = s.kind /\ x.redacted = FALSE /\ x.text = s.sent
      /\ s.kind \in Prose => x.id = <<>>
      /\ s.kind = "tool" => x.id = CallId(api, r, b)
  BY <1>1, SaidFieldsAre
<1>3. /\ y = [k \in BlockFields |-> y[k]] /\ y.kind = c.kind /\ y.id = Unnamed(c.id)
      /\ y.text = c.text /\ y.sig = c.sig /\ y.redacted = c.redacted
  BY DeliveredFields DEF WholeBlock
<1>4. CallId(api, r, b) = IF s.named THEN <<b>> ELSE <<>>
  BY Zenon DEF CallId
<1>5. s.kind = "tool" => Unnamed(c.id) = CallId(api, r, b)
  <2>. SUFFICES ASSUME s.kind = "tool" PROVE Unnamed(c.id) = CallId(api, r, b)
    OBVIOUS
  <2>1. IsCallId(b, s.named, c.id)
    BY DEF WholeBlock
  <2>2. CASE s.named
    BY <1>1, <1>4, <2>1, <2>2, UnnamedIs DEF IsCallId
  <2>3. CASE ~s.named
    <3>1. PICK k \in Nat \ {0} : c.id = <<-k>>
      BY <2>1, <2>3 DEF IsCallId
    <3>. QED BY <1>4, <2>3, <3>1, UnnamedIs
  <2>. QED BY <2>2, <2>3
<1>. HIDE DEF x, y
<1>6. x.id = y.id
  BY <1>1, <1>2, <1>3, <1>5, UnnamedIs DEF WholeBlock, Kinds, Prose
<1>7. x.kind = y.kind /\ x.text = y.text /\ x.sig = y.sig /\ x.redacted = y.redacted
  BY <1>2, <1>3 DEF WholeBlock
<1>8. x = y
  BY <1>2, <1>3, <1>6, <1>7, SameFields
<1>. QED BY <1>8 DEF x, y

LEMMA WholeSaid ==
  ASSUME NEW api, api # "responses", NEW r, IsReply(api, r), NEW content, Whole(r, content)
  PROVE  Said(api, r) = Delivered(content)
<1>1. Said(api, r) = [b \in DOMAIN r.blocks |-> SaidBlock(api, r, b)]
  BY Zenon DEF Said, SaidBlock
<1>2. Delivered(content) = [b \in DOMAIN content |-> DeliveredBlock(content[b])]
  BY Zenon DEF Delivered, DeliveredBlock
<1>3. DOMAIN content = 1..Len(r.blocks) /\ DOMAIN r.blocks = 1..Len(r.blocks)
  BY ReplyFacts DEF Whole
<1>4. \A b \in 1..Len(r.blocks) : SaidBlock(api, r, b) = DeliveredBlock(content[b])
  BY WholeBlockSaid DEF Whole
<1>. QED BY <1>1, <1>2, <1>3, <1>4, Zenon

-----------------------------------------------------------------------------
(* What may come of an event. *)

\* The properties' terms, of any reply.
SameMessage(api, said, content) ==
  IF api = "responses" THEN Len(said) = Len(content) /\ Range(said) = Range(content)
  ELSE said = content
Reasoned(api, r, reason) ==
  CASE r.stop = "none" -> reason = "stop"
    [] api = "google" /\ r.stop = "stop" -> reason = IF HasTool(r) THEN "tool_use" ELSE "stop"
    [] OTHER -> reason = r.stop /\ reason # "refused"
AllShut(bs, content) ==
  /\ DOMAIN bs = DOMAIN content
  /\ \A i \in DOMAIN bs : ~bs[i].live /\ bs[i].text = content[i].text
Faithful(api, r, content) ==
  SameMessage(api, Said(api, r), Delivered(content)) /\ UniqueIds(content)

Completes(api, q, v, n) ==
  n.over /\
  \E bs, content, reason :
    /\ ConsumeAll(v, n.out) = Over(bs, reason, Message(content, reason))
    /\ q.complete /\ Faithful(api, q, content) /\ Reasoned(api, q, reason)
    /\ AllShut(bs, content)
Fails(v, n) ==
  n.over /\
  \E bs, reason, message : ConsumeAll(v, n.out) = Broken(bs, reason, message)

LEMMA ShutWhole ==
  ASSUME NEW b, NEW s, NEW x, NEW w, Agrees(b, s, x, w), ~s.open,
         s.kind \in Kinds \cup {"redacted"}
  PROVE  WholeBlock(b, s, x) /\ ~w.live /\ w.text = x.text
<1>1. \A kind, text : Seen(s, kind, text) = Shut(kind, text)
  BY Zenon DEF Seen
<1>2. \A kind, text : ~Shut(kind, text).live /\ Shut(kind, text).text = text
  BY DEF Shut
<1>3. (IF s.open THEN <<>> ELSE s.sent) = s.sent
  BY Zenon
<1>4. CASE s.kind = "redacted"
  BY <1>1, <1>2, <1>4 DEF Agrees, AgreesRedacted, WholeBlock, Prose
<1>5. CASE s.kind \in Prose
  <2>1. /\ x.kind = s.kind /\ x.id = <<>> /\ x.redacted = FALSE /\ x.text = s.sent
        /\ w = Shut(s.kind, s.sent)
    BY <1>1, <1>5 DEF Agrees, AgreesProse
  <2>. QED BY <1>2, <1>5, <2>1 DEF Agrees, WholeBlock, Prose
<1>6. CASE s.kind = "tool"
  <2>1. /\ x.kind = "tool" /\ x.redacted = FALSE /\ IsCallId(b, s.named, x.id)
        /\ x.text = s.sent /\ w = Shut("tool", s.sent)
    BY <1>1, <1>3, <1>6 DEF Agrees, AgreesCall
  <2>. QED BY <1>2, <1>6, <2>1 DEF Agrees, WholeBlock, Prose
<1>. QED BY <1>4, <1>5, <1>6 DEF Kinds, Prose

LEMMA MatchWhole ==
  ASSUME NEW api, NEW r, IsReply(api, r), NEW c, NEW bs, Matches(r, c, bs),
         \A b \in 1..Len(r.blocks) : ~r.blocks[b].open
  PROVE  Whole(r, c) /\ AllShut(bs, c)
<1>1. ASSUME NEW b \in 1..Len(r.blocks)
      PROVE  WholeBlock(b, r.blocks[b], c[b]) /\ ~bs[b].live /\ bs[b].text = c[b].text
  <2>1. /\ Agrees(b, r.blocks[b], c[b], bs[b]) /\ ~r.blocks[b].open
        /\ r.blocks[b].kind \in Kinds \cup {"redacted"}
    BY DEF Matches, IsReply, IsSaid
  <2>. QED BY <2>1, ShutWhole
<1>. QED BY <1>1 DEF Matches, Whole, AllShut

\* Ids that the vendor gave.
LEMMA NamedUnique ==
  ASSUME NEW api, api # "google", NEW r, IsReply(api, r), NEW content, Whole(r, content)
  PROVE  UniqueIds(content)
<1>. SUFFICES ASSUME NEW i \in DOMAIN content, NEW j \in DOMAIN content,
                     content[i].kind = "tool", content[j].kind = "tool",
                     content[i].id = content[j].id
              PROVE  i = j
  BY DEF UniqueIds
<1>1. ASSUME NEW b \in DOMAIN content, content[b].kind = "tool"
      PROVE  content[b].id = <<b>>
  <2>1. WholeBlock(b, r.blocks[b], content[b]) /\ b \in 1..Len(r.blocks)
    BY DEF Whole
  <2>2. r.blocks[b].kind = "tool"
    BY <1>1, <2>1 DEF WholeBlock
  <2>3. r.blocks[b].named
    BY <2>1 DEF IsReply, IsSaid
  <2>. QED BY <2>1, <2>2, <2>3 DEF WholeBlock, IsCallId
<1>. QED BY <1>1

LEMMA WholeFaithful ==
  ASSUME NEW api, api # "responses", NEW r, IsReply(api, r), NEW content, Whole(r, content),
         api # "google" \/ UniqueIds(content)
  PROVE  Faithful(api, r, content)
BY NamedUnique, WholeSaid, Zenon DEF Faithful, SameMessage

\* The message is pushed whole.
LEMMA ConcludeIs ==
  ASSUME NEW v, NEW m, NEW bs, Telling(v, m, bs)
  PROVE  /\ Fails(v, Incomplete(m))
         /\ m.stop = "error" => Fails(v, Conclude(m))
         /\ m.stop \in {"stop", "length", "tool_use"} =>
              /\ Conclude(m).over
              /\ ConsumeAll(v, Conclude(m).out) = Over(bs, m.stop, Message(m.content, m.stop))
<1>1. Fails(v, Incomplete(m))
  <2>. DEFINE message == Message(m.content, "error")
              n == Incomplete(m)
  <2>1. n = Finished(m, Failed("error", message))
    BY Zenon DEF Incomplete
  <2>2. Consume(Open(bs), Failed("error", message)) = Broken(bs, "error", message)
    BY ConsumeEnd
  <2>. HIDE DEF message, n
  <2>3. n.over /\ ConsumeAll(v, n.out) = Broken(bs, "error", message)
    BY <2>1, <2>2, TellsEnd
  <2>4. Fails(v, n)
    BY <2>3 DEF Fails
  <2>. QED BY <2>4 DEF n
<1>2. m.stop = "error" => Conclude(m) = Incomplete(m)
  BY Zenon DEF Conclude
<1>3. m.stop \in {"stop", "length", "tool_use"} =>
        /\ Conclude(m) = Finished(m, Done(DoneReason(m.stop), Message(m.content, m.stop)))
        /\ DoneReason(m.stop) = m.stop
  BY DEF Conclude, DoneReason
<1>4. ASSUME m.stop \in {"stop", "length", "tool_use"}
      PROVE  /\ Conclude(m).over
             /\ ConsumeAll(v, Conclude(m).out) = Over(bs, m.stop, Message(m.content, m.stop))
  <2>. DEFINE message == Message(m.content, m.stop)
              n == Conclude(m)
  <2>1. n = Finished(m, Done(m.stop, message))
    BY <1>3, <1>4
  <2>2. Consume(Open(bs), Done(m.stop, message)) = Over(bs, m.stop, message)
    BY ConsumeEnd
  <2>. HIDE DEF message, n
  <2>3. n.over /\ ConsumeAll(v, n.out) = Over(bs, m.stop, message)
    BY <2>1, <2>2, TellsEnd
  <2>. QED BY <2>3 DEF message, n
<1>. QED BY <1>1, <1>2, <1>4

LEMMA ConcludesWell ==
  ASSUME NEW api, NEW q, NEW v, NEW m, NEW bs, Telling(v, m, bs),
         m.stop \in {"stop", "length", "tool_use", "error"},
         m.stop # "error" => /\ q.complete /\ Faithful(api, q, m.content)
                             /\ Reasoned(api, q, m.stop) /\ AllShut(bs, m.content)
  PROVE  Completes(api, q, v, Conclude(m)) \/ Fails(v, Conclude(m))
<1>1. CASE m.stop = "error"
  BY <1>1, ConcludeIs
<1>2. CASE m.stop # "error"
  BY <1>2, ConcludeIs DEF Completes
<1>. QED BY <1>1, <1>2

-----------------------------------------------------------------------------
(* What the loops keep beside the message, and all that is told while a reply *)
(* streams. *)

Tools(r) == {b \in 1..Len(r.blocks) : r.blocks[b].kind = "tool"}

\* The arguments collected so far.
Args(r, m) ==
  /\ DOMAIN m.buf \subseteq 1..Len(r.blocks)
  /\ \A b \in Tools(r) : Lookup(m.buf, b, <<>>) = r.blocks[b].sent
Placed(m, S) == DOMAIN m.at = S /\ \A b \in S : m.at[b] = b

\* The running text, where one kind of text ends another.
Running(r, i) == i \in 0..Len(r.blocks) /\ Current(r) = IF i = 0 THEN {} ELSE {i}

\* The one block of its kind.
Only(r, kind, i) ==
  /\ i \in 0..Len(r.blocks)
  /\ \A b \in 1..Len(r.blocks) : r.blocks[b].kind = kind <=> b = i

StopFollows(r, stop) ==
  stop = IF r.stop = "none" THEN "stop" ELSE IF r.stop = "refused" THEN "error" ELSE r.stop

AnthropicBooks(r, m) == Args(r, m) /\ StopFollows(r, m.stop)
CompletionsBooks(r, m) ==
  /\ Args(r, m) /\ DOMAIN m.buf \subseteq Tools(r) /\ Placed(m, Tools(r))
  /\ Only(r, "text", m.text) /\ Only(r, "thinking", m.think)
  /\ m.finish = r.stop /\ m.saw = FALSE
  /\ \A b \in 1..Len(r.blocks) : r.blocks[b].open /\ (r.blocks[b].sent = <<>> => b \in Tools(r))
MistralBooks(r, m) ==
  /\ Args(r, m) /\ DOMAIN m.buf \subseteq Tools(r) /\ Placed(m, Tools(r))
  /\ Running(r, m.open) /\ m.finish = r.stop /\ m.saw = FALSE
  /\ \A b \in Tools(r) : r.blocks[b].open

\* An id that was made up says which one it is.
MadeUp(r, content, count) ==
  /\ count \in Nat
  /\ \A b \in Tools(r) : ~r.blocks[b].named => \E k \in 1..count : content[b].id = <<-k>>
  /\ \A b, c \in Tools(r) :
       ~r.blocks[b].named /\ ~r.blocks[c].named /\ content[b].id = content[c].id => b = c
GeminiBooks(r, m) ==
  /\ Running(r, m.open) /\ MadeUp(r, m.content, m.think)
  /\ m.saw \in BOOLEAN /\ (m.saw <=> r.stop # "none")
  /\ IF r.stop = "stop" /\ HasTool(r) THEN m.stop = "tool_use" ELSE StopFollows(r, m.stop)
BedrockBooks(r, m) ==
  /\ Args(r, m) /\ Placed(m, 1..Len(r.blocks))
  /\ m.saw \in BOOLEAN /\ (m.saw <=> r.stop # "none") /\ StopFollows(r, m.stop)

LEMMA BooksSame ==
  ASSUME NEW r, NEW m, NEW n, n.content = m.content, SameBooks(m, n)
  PROVE  /\ AnthropicBooks(r, m) => AnthropicBooks(r, n)
         /\ CompletionsBooks(r, m) => CompletionsBooks(r, n)
         /\ MistralBooks(r, m) => MistralBooks(r, n)
         /\ GeminiBooks(r, m) => GeminiBooks(r, n)
         /\ BedrockBooks(r, m) => BedrockBooks(r, n)
<1>1. /\ n.stop = m.stop /\ n.at = m.at /\ n.buf = m.buf
      /\ n.open = m.open /\ n.text = m.text /\ n.think = m.think
      /\ n.finish = m.finish /\ n.saw = m.saw
  BY DEF SameBooks
<1>2. Args(r, m) <=> Args(r, n)
  BY <1>1, Zenon DEF Args
<1>3. \A S : Placed(m, S) <=> Placed(n, S)
  BY <1>1, Zenon DEF Placed
<1>4. AnthropicBooks(r, m) => AnthropicBooks(r, n)
  BY <1>1, <1>2, Zenon DEF AnthropicBooks
<1>5. CompletionsBooks(r, m) => CompletionsBooks(r, n)
  BY <1>1, <1>2, <1>3, Zenon DEF CompletionsBooks
<1>6. MistralBooks(r, m) => MistralBooks(r, n)
  BY <1>1, <1>2, <1>3, Zenon DEF MistralBooks
<1>7. GeminiBooks(r, m) => GeminiBooks(r, n)
  BY <1>1, Zenon DEF GeminiBooks
<1>8. BedrockBooks(r, m) => BedrockBooks(r, n)
  BY <1>1, <1>2, <1>3, Zenon DEF BedrockBooks
<1>. QED BY <1>4, <1>5, <1>6, <1>7, <1>8

LEMMA ReasonIs ==
  ASSUME NEW api, NEW r, IsReply(api, r), NEW stop, StopFollows(r, stop),
         api = "google" => ~(r.stop = "stop" /\ HasTool(r))
  PROVE  /\ stop \in {"stop", "length", "tool_use", "error"}
         /\ stop # "error" => Reasoned(api, r, stop)
<1>1. r.stop \in {"none", "length", "refused", "tool_use", "stop"}
  BY DEF IsReply
<1>2. CASE r.stop = "none"
  BY <1>2 DEF StopFollows, Reasoned
<1>3. CASE r.stop = "refused"
  BY <1>3 DEF StopFollows
<1>4. CASE r.stop \in {"length", "tool_use", "stop"}
  <2>1. stop = r.stop
    BY <1>4 DEF StopFollows
  <2>. QED BY <1>4, <2>1 DEF Reasoned
<1>. QED BY <1>1, <1>2, <1>3, <1>4

-----------------------------------------------------------------------------
(* How the steps of a loop keep the message and its consumer in line with the *)
(* reply. *)

LEMMA SignalIs ==
  ASSUME NEW type, NEW reason, NEW e, e = Signal(type, reason)
  PROVE  e.type = type /\ e.kind = reason
BY DEF Signal, Wire

\* One block began, and none ended.
LEMMA BeginsSame ==
  ASSUME NEW api, NEW r, IsReply(api, r), NEW e, NEW q, Begins(api, r, e, q),
         Superseded(api, r) = {}
  PROVE  /\ Len(q.blocks) = Len(r.blocks) + 1 /\ Len(r.blocks) \in Nat
         /\ q.stop = r.stop /\ q.complete = r.complete
         /\ \A k \in 1..Len(r.blocks) : Same(r, q, k)
<1>1. Len(r.blocks) \in Nat
  BY ReplyFacts
<1>2. /\ Sizes(q, Len(r.blocks) + 1) /\ q.stop = r.stop /\ q.complete = r.complete
      /\ \A c \in 1..Len(r.blocks) :
           /\ Alike(q.blocks[c], r.blocks[c])
           /\ q.blocks[c].open <=> (r.blocks[c].open /\ c \notin {})
  BY Zenon DEF Begins
<1>3. \A c : c \notin {}
  OBVIOUS
<1>. QED BY <1>1, <1>2, <1>3, Zenon DEF Sizes, Same

-----------------------------------------------------------------------------
(* The machine and the consumer follow the reply. *)

Following(r, v, m) == \E bs : Telling(v, m, bs) /\ Matches(r, m.content, bs)

LEMMA FollowingIs ==
  ASSUME NEW r, NEW v, NEW m, Following(r, v, m)
  PROVE  /\ Speaks(m) /\ Len(r.blocks) \in Nat /\ Len(m.content) = Len(r.blocks)
         /\ DOMAIN m.content = 1..Len(r.blocks)
         /\ \E bs : /\ Telling(v, m, bs) /\ Matches(r, m.content, bs)
                    /\ DOMAIN bs = 1..Len(r.blocks)
                    /\ \A b \in 1..Len(r.blocks) :
                         Agrees(b, r.blocks[b], m.content[b], bs[b])
<1>1. PICK bs : Telling(v, m, bs) /\ Matches(r, m.content, bs)
  BY DEF Following
<1>2. Speaks(m)
  BY <1>1 DEF Telling
<1>3. Len(m.content) \in Nat
  BY <1>2, ContentIs
<1>. QED BY <1>1, <1>2, <1>3 DEF Matches

\* What the message has of a block.
Kept(b, s, c) ==
  /\ IsBlock(c) /\ c.sig = s.sig
  /\ s.kind \in Prose => c.kind = s.kind /\ c.text = s.sent
  /\ s.kind = "tool" => c.kind = "tool" /\ IsCallId(b, s.named, c.id)
  /\ s.kind = "redacted" => c.kind = "thinking"
LEMMA KeptIs ==
  ASSUME NEW r, NEW v, NEW m, Following(r, v, m), NEW b \in 1..Len(r.blocks)
  PROVE  Kept(b, r.blocks[b], m.content[b])
<1>1. PICK bs : Agrees(b, r.blocks[b], m.content[b], bs[b])
  BY FollowingIs
<1>. QED BY <1>1, Zenon DEF Agrees, AgreesProse, AgreesCall, AgreesRedacted, Kept

LEMMA FollowsSame ==
  ASSUME NEW r, NEW v, NEW m, Following(r, v, m), NEW n, Speaks(n), n.out = m.out,
         n.content = m.content, NEW q, Len(q.blocks) = Len(r.blocks),
         \A k \in 1..Len(r.blocks) : Same(r, q, k)
  PROVE  Following(q, v, n)
<1>1. PICK bs : Telling(v, m, bs) /\ Matches(r, m.content, bs)
  BY DEF Following
<1>2. Telling(v, n, bs) /\ Matches(q, n.content, bs)
  BY <1>1, TellsSame, MatchStill
<1>. QED BY <1>2 DEF Following

\* One block of the reply changed, or one more began.
Touches(r, q, b) ==
  /\ b \in 1..Len(r.blocks) /\ Len(q.blocks) = Len(r.blocks)
  /\ \A k \in (1..Len(r.blocks)) \ {b} : Same(r, q, k)
Lengthens(r, q) ==
  Len(q.blocks) = Len(r.blocks) + 1 /\ \A k \in 1..Len(r.blocks) : Same(r, q, k)

\* A fragment was added to it.
LongerBy(s, t, text) ==
  /\ s.open /\ t.open /\ t.kind = s.kind /\ t.sig = s.sig /\ t.named = s.named
  /\ t.sent = s.sent \o text

\* The next block is announced.
LEMMA OpensNew ==
  ASSUME NEW r, NEW v, NEW m, Following(r, v, m), NEW q, Lengthens(r, q),
         NEW i, i = Len(r.blocks) + 1, NEW p, Speaks(p), p.out = m.out,
         NEW x, Gains(m.content, p.content, x),
         NEW w, w = Live(x.kind, <<>>), Agrees(i, q.blocks[i], x, w), NEW n, n = EmitOpened(p, i)
  PROVE  /\ SameBooks(p, n) /\ n.content = p.content /\ Following(q, v, n)
<1>1. PICK bs : Telling(v, m, bs) /\ Matches(r, m.content, bs) /\ DOMAIN bs = 1..Len(r.blocks)
  BY FollowingIs
<1>2. Len(r.blocks) \in Nat /\ Len(m.content) = Len(r.blocks)
  BY FollowingIs
<1>3. Telling(v, p, bs) /\ p.content[i] = x /\ i \notin DOMAIN bs
  BY <1>1, <1>2, TellsSame DEF Gains
<1>4. Telling(v, n, Put(bs, i, w)) /\ n.content = p.content /\ SameBooks(p, n)
  BY <1>3, TellsOpened
<1>5. Matches(q, p.content, Put(bs, i, w))
  <2>. DEFINE k == Len(r.blocks)
  <2>1. k \in Nat /\ Len(q.blocks) = k + 1 /\ \A j \in 1..k : Same(r, q, j)
    BY <1>2 DEF Lengthens
  <2>2. Agrees(k + 1, q.blocks[k + 1], x, w)
    OBVIOUS
  <2>. HIDE DEF k
  <2>3. Matches(q, p.content, Put(bs, k + 1, w))
    BY <1>1, <2>1, <2>2, MatchGains DEF k
  <2>. QED BY <2>3 DEF k
<1>. QED BY <1>4, <1>5 DEF Following

\* An empty text is announced again.
LEMMA OpensAgain ==
  ASSUME NEW r, NEW v, NEW m, Following(r, v, m), NEW b \in 1..Len(r.blocks),
         r.blocks[b].open, r.blocks[b].kind \in Prose, r.blocks[b].sent = <<>>,
         NEW n, n = EmitOpened(m, b)
  PROVE  SameBooks(m, n) /\ n.content = m.content /\ Following(r, v, n)
<1>. DEFINE s == r.blocks[b]
            c == m.content[b]
<1>1. PICK bs : /\ Telling(v, m, bs) /\ Matches(r, m.content, bs) /\ DOMAIN bs = 1..Len(r.blocks)
                /\ Agrees(b, s, c, bs[b])
  BY FollowingIs
<1>2. bs[b] = Live(c.kind, <<>>)
  <2>. HIDE DEF s, c
  <2>1. s.open /\ s.kind \in Prose /\ s.sent = <<>>
    BY DEF s
  <2>. QED BY <1>1, <2>1, Zenon DEF Agrees, AgreesProse, Seen
<1>3. /\ Telling(v, n, Put(bs, b, Live(c.kind, <<>>))) /\ n.content = m.content
      /\ SameBooks(m, n)
  BY <1>1, <1>2, TellsOpened
<1>4. Matches(r, m.content, Put(bs, b, Live(c.kind, <<>>)))
  <2>. DEFINE w == Live(c.kind, <<>>)
              gs == Put(bs, b, w)
  <2>1. Replaces(bs, gs, b, w) /\ bs[b] = w
    BY <1>1, <1>2, PutReplaces
  <2>. HIDE DEF w, gs, c
  <2>2. DOMAIN gs = DOMAIN bs /\ \A k \in DOMAIN bs : gs[k] = bs[k]
    BY <2>1 DEF Replaces
  <2>3. Matches(r, m.content, gs)
    BY <1>1, <2>2 DEF Matches
  <2>. QED BY <2>3 DEF gs, w
<1>. QED BY <1>3, <1>4 DEF Following

LEMMA TellsProse ==
  ASSUME NEW v, NEW m, NEW bs, Telling(v, m, bs), NEW i \in DOMAIN bs,
         i \in 1..Len(m.content), NEW kind, m.content[i].kind = kind,
         bs[i] = Live(kind, m.content[i].text), NEW text
  PROVE  LET n == Emit(Extend(m, i, kind, text), Delta(i, kind, text))
             c == m.content[i]
         IN /\ Telling(v, n, Put(bs, i, Live(kind, c.text \o text)))
            /\ SameBooks(m, n)
            /\ Swaps(m.content, n.content, i, Retold(c, c.text \o text))
<1>. DEFINE p == Extend(m, i, kind, text)
            n == Emit(p, Delta(i, kind, text))
            c == m.content[i]
<1>1. /\ Speaks(p) /\ p.out = m.out /\ SameBooks(m, p)
      /\ Swaps(m.content, p.content, i, Retold(c, c.text \o text))
  BY ExtendIs DEF Telling
<1>. HIDE DEF p
<1>2. Telling(v, p, bs)
  BY <1>1, TellsSame
<1>3. /\ Telling(v, n, Put(bs, i, Live(kind, c.text \o text)))
      /\ n.content = p.content /\ SameBooks(p, n)
  BY <1>2, TellsDelta
<1>4. SameBooks(m, n)
  BY <1>1, <1>3 DEF SameBooks
<1>5. Swaps(m.content, n.content, i, Retold(c, c.text \o text))
  BY <1>1, <1>3
<1>. QED BY <1>3, <1>4, <1>5 DEF p

LEMMA TellsArgs ==
  ASSUME NEW v, NEW m, NEW bs, Telling(v, m, bs), NEW i \in DOMAIN bs, NEW said,
         bs[i] = Live("tool", said), NEW k, NEW text
  PROVE  LET n == Emit(Collect(m, k, text), Delta(i, "tool", text)) IN
         /\ Telling(v, n, Put(bs, i, Live("tool", said \o text)))
         /\ n.content = m.content
         /\ n.buf = Put(m.buf, k, Lookup(m.buf, k, <<>>) \o text)
         /\ n.stop = m.stop /\ n.at = m.at /\ n.open = m.open
         /\ n.text = m.text /\ n.think = m.think /\ n.finish = m.finish /\ n.saw = m.saw
<1>. DEFINE p == Collect(m, k, text)
            n == Emit(p, Delta(i, "tool", text))
<1>1. /\ Speaks(p) /\ p.out = m.out /\ p.content = m.content
      /\ p.buf = Put(m.buf, k, Lookup(m.buf, k, <<>>) \o text)
      /\ p.stop = m.stop /\ p.at = m.at /\ p.open = m.open
      /\ p.text = m.text /\ p.think = m.think /\ p.finish = m.finish /\ p.saw = m.saw
  BY CollectIs DEF Telling
<1>. HIDE DEF p
<1>2. Telling(v, p, bs)
  BY <1>1, TellsSame
<1>3. /\ Telling(v, n, Put(bs, i, Live("tool", said \o text)))
      /\ n.content = p.content /\ SameBooks(p, n)
  BY <1>2, TellsDelta
<1>. QED BY <1>1, <1>3 DEF SameBooks, p

\* Each kind of block, when a fragment of it came.
LEMMA AgreesGrown ==
  ASSUME NEW b, NEW s, NEW c, NEW w, Agrees(b, s, c, w), s.open, NEW said, NEW t,
         t.kind = s.kind, t.sig = s.sig, t.named = s.named, t.sent = said, t.open
  PROVE  /\ s.kind \in Prose =>
              /\ Agrees(b, t, Retold(c, said), Live(s.kind, said))
              /\ w = Live(s.kind, c.text) /\ c.kind = s.kind /\ c.text = s.sent
         /\ s.kind = "tool" => Agrees(b, t, c, Live("tool", said)) /\ w = Live("tool", s.sent)
<1>1. /\ \A kind, text1 : Seen(s, kind, text1) = Live(kind, s.sent)
      /\ \A kind, text1 : Seen(t, kind, text1) = Live(kind, t.sent)
  BY Zenon DEF Seen
<1>2. CASE s.kind \in Prose
  <2>1. /\ IsBlock(c) /\ c.sig = s.sig /\ c.kind = s.kind /\ c.id = <<>> /\ c.redacted = FALSE
        /\ c.text = s.sent /\ w = Live(s.kind, s.sent)
    BY <1>1, <1>2, Zenon DEF Agrees, AgreesProse
  <2>. DEFINE x == Retold(c, said)
  <2>2. /\ IsBlock(x) /\ x.text = said /\ x.kind = c.kind /\ x.id = c.id
        /\ x.sig = c.sig /\ x.redacted = c.redacted
    BY <2>1, BlockEdits
  <2>. HIDE DEF x
  <2>3. AgreesProse(t, x, Live(s.kind, said))
    BY <1>1, <2>1, <2>2 DEF AgreesProse
  <2>4. s.kind # "redacted" /\ s.kind # "tool"
    BY <1>2 DEF Prose
  <2>5. Agrees(b, t, x, Live(s.kind, said))
    BY <2>1, <2>2, <2>3, <2>4 DEF Agrees
  <2>. QED BY <2>1, <2>4, <2>5 DEF x
<1>3. CASE s.kind = "tool"
  <2>1. /\ IsBlock(c) /\ c.sig = s.sig /\ c.kind = "tool" /\ c.redacted = FALSE
        /\ IsCallId(b, s.named, c.id) /\ c.text = <<>> /\ w = Live("tool", s.sent)
    BY <1>1, <1>3, Zenon DEF Agrees, AgreesCall
  <2>2. AgreesCall(b, t, c, Live("tool", said))
    BY <1>1, <2>1 DEF AgreesCall
  <2>3. s.kind \notin Prose
    BY <1>3 DEF Prose
  <2>4. Agrees(b, t, c, Live("tool", said))
    BY <1>3, <2>1, <2>2, <2>3 DEF Agrees
  <2>. QED BY <2>1, <2>3, <2>4
<1>. QED BY <1>2, <1>3


\* What the machine kept of a block or of its arguments.
Retells(m, n, b) ==
  /\ SameBooks(m, n) /\ Len(n.content) = Len(m.content)
  /\ \A k \in (1..Len(m.content)) \ {b} : n.content[k] = m.content[k]
  /\ n.content[b].kind = m.content[b].kind /\ n.content[b].id = m.content[b].id
Buffers(m, n, b, text) ==
  /\ n.buf = Put(m.buf, b, Lookup(m.buf, b, <<>>) \o text)
  /\ n.stop = m.stop /\ n.at = m.at /\ n.open = m.open
  /\ n.text = m.text /\ n.think = m.think /\ n.finish = m.finish /\ n.saw = m.saw
  /\ n.content = m.content

\* A fragment of text.
LEMMA GrowsProse ==
  ASSUME NEW r, NEW v, NEW m, Following(r, v, m), NEW q, NEW b, Touches(r, q, b), NEW text,
         LongerBy(r.blocks[b], q.blocks[b], text), NEW kind, kind = r.blocks[b].kind,
         kind \in Prose,
         NEW n, n = Emit(Extend(m, b, kind, text), Delta(b, kind, text))
  PROVE  Retells(m, n, b) /\ Following(q, v, n)
<1>. DEFINE s == r.blocks[b]
            t == q.blocks[b]
            c == m.content[b]
            said == c.text \o text
            x == Retold(c, said)
            w == Live(kind, said)
<1>0. /\ b \in 1..Len(r.blocks) /\ Len(q.blocks) = Len(r.blocks)
      /\ \A k \in (1..Len(r.blocks)) \ {b} : Same(r, q, k)
      /\ s.open /\ t.open /\ t.kind = s.kind /\ t.sig = s.sig /\ t.named = s.named
      /\ t.sent = s.sent \o text
  BY DEF Touches, LongerBy
<1>1. PICK bs : /\ Telling(v, m, bs) /\ Matches(r, m.content, bs)
                /\ DOMAIN bs = 1..Len(r.blocks) /\ Agrees(b, s, c, bs[b])
  BY <1>0, FollowingIs
<1>11. Len(r.blocks) \in Nat /\ Len(m.content) = Len(r.blocks) /\ DOMAIN m.content = 1..Len(r.blocks)
  BY FollowingIs
<1>. DEFINE gs == Put(bs, b, w)
<1>2. bs[b] = Live(kind, c.text) /\ c.kind = kind /\ c.text = s.sent
  <2>. HIDE DEF s, c
  <2>1. s.open /\ s.kind \in Prose /\ s.kind = kind
    BY <1>0 DEF s
  <2>. QED BY <1>1, <2>1, Zenon DEF Agrees, AgreesProse, Seen
<1>3. /\ Telling(v, n, gs) /\ SameBooks(m, n) /\ Swaps(m.content, n.content, b, x)
  BY <1>0, <1>1, <1>11, <1>2, TellsProse
<1>4. Replaces(bs, gs, b, w)
  BY <1>0, <1>1, PutReplaces
<1>5. IsBlock(c)
  BY <1>1 DEF Agrees
<1>6. x.id = c.id /\ x.kind = c.kind
  BY <1>5, BlockEdits
<1>7. Agrees(b, q.blocks[b], x, w)
  <2>1. t.sent = said
    BY <1>0, <1>2
  <2>. HIDE DEF said
  <2>2. s.open /\ s.kind \in Prose /\ s.kind = kind /\ t.kind = s.kind /\ t.sig = s.sig
        /\ t.named = s.named /\ t.open
    BY <1>0
  <2>. HIDE DEF s, t, c
  <2>. QED BY <1>1, <2>1, <2>2, AgreesGrown DEF t
<1>. HIDE DEF x, w, gs, c, s, t
<1>8. Matches(q, n.content, gs)
  BY <1>0, <1>1, <1>11, <1>3, <1>4, <1>7, MatchSwaps
<1>9. n.content[b] = x /\ Len(n.content) = Len(m.content)
      /\ \A k \in (1..Len(m.content)) \ {b} : n.content[k] = m.content[k]
  BY <1>11, <1>3 DEF Swaps
<1>10. n.content[b].kind = m.content[b].kind /\ n.content[b].id = m.content[b].id
  BY <1>6, <1>9 DEF c
<1>12. Retells(m, n, b)
  BY <1>3, <1>9, <1>10 DEF Retells
<1>13. Following(q, v, n)
  BY <1>3, <1>8 DEF Following
<1>. QED BY <1>12, <1>13

\* A fragment of a call's arguments.
LEMMA GrowsCall ==
  ASSUME NEW r, NEW v, NEW m, Following(r, v, m), NEW q, NEW b, Touches(r, q, b), NEW text,
         LongerBy(r.blocks[b], q.blocks[b], text), r.blocks[b].kind = "tool",
         NEW n, n = Emit(Collect(m, b, text), Delta(b, "tool", text))
  PROVE  Buffers(m, n, b, text) /\ Following(q, v, n)
<1>. DEFINE s == r.blocks[b]
            w == Live("tool", s.sent \o text)
<1>0. /\ b \in 1..Len(r.blocks) /\ Len(q.blocks) = Len(r.blocks)
      /\ \A k \in (1..Len(r.blocks)) \ {b} : Same(r, q, k)
  BY DEF Touches
<1>1. PICK bs : /\ Telling(v, m, bs) /\ Matches(r, m.content, bs)
                /\ DOMAIN bs = 1..Len(r.blocks) /\ Agrees(b, r.blocks[b], m.content[b], bs[b])
  BY <1>0, FollowingIs
<1>11. Len(r.blocks) \in Nat /\ Len(m.content) = Len(r.blocks) /\ DOMAIN m.content = 1..Len(r.blocks)
  BY FollowingIs
<1>. DEFINE gs == Put(bs, b, w)
<1>2. Agrees(b, q.blocks[b], m.content[b], w) /\ bs[b] = Live("tool", s.sent)
  <2>. DEFINE t == q.blocks[b]
              c == m.content[b]
              said == s.sent \o text
  <2>1. s.open /\ s.kind = "tool" /\ t.kind = s.kind /\ t.sig = s.sig
        /\ t.named = s.named /\ t.open /\ t.sent = said /\ Agrees(b, s, c, bs[b])
    BY <1>1 DEF LongerBy
  <2>. HIDE DEF s, t, c, said
  <2>2. Agrees(b, t, c, Live("tool", said)) /\ bs[b] = Live("tool", s.sent)
    BY <2>1, AgreesGrown
  <2>. QED BY <2>2 DEF t, c, said
<1>3. /\ Telling(v, n, gs) /\ n.content = m.content
      /\ n.buf = Put(m.buf, b, Lookup(m.buf, b, <<>>) \o text)
      /\ n.stop = m.stop /\ n.at = m.at /\ n.open = m.open
      /\ n.text = m.text /\ n.think = m.think /\ n.finish = m.finish /\ n.saw = m.saw
  <2>1. b \in DOMAIN bs
    BY <1>0, <1>1
  <2>. QED BY <1>1, <1>2, <2>1, TellsArgs
<1>4. Replaces(bs, gs, b, w)
  BY <1>0, <1>1, PutReplaces
<1>5. Swaps(m.content, m.content, b, m.content[b])
  BY <1>0, <1>11 DEF Swaps
<1>. HIDE DEF w, gs
<1>6. Matches(q, m.content, gs)
  BY <1>0, <1>1, <1>11, <1>2, <1>4, <1>5, MatchSwaps
<1>7. Following(q, v, n)
  BY <1>3, <1>6 DEF Following
<1>8. Buffers(m, n, b, text)
  BY <1>3 DEF Buffers
<1>. QED BY <1>7, <1>8

\* A block closes, its arguments parsed.
LEMMA AgreesClosed ==
  ASSUME NEW b, NEW s, NEW c, NEW w, Agrees(b, s, c, w), s.open, NEW t,
         s.kind \in Kinds \cup {"redacted"},
         t.kind = s.kind, t.sig = s.sig, t.named = s.named, t.sent = s.sent, ~t.open,
         NEW raw, NEW x, Parsing(c, x, raw), s.kind = "tool" => raw = s.sent
  PROVE  Agrees(b, t, x, Shut(x.kind, x.text)) /\ w = Live(x.kind, s.sent)
<1>1. /\ \A kind, text1 : Seen(s, kind, text1) = Live(kind, s.sent)
      /\ \A kind, text1 : Seen(t, kind, text1) = Shut(kind, text1)
  BY Zenon DEF Seen
<1>2. /\ IsBlock(x) /\ x.kind = c.kind /\ x.id = c.id /\ x.sig = c.sig
      /\ x.redacted = c.redacted /\ c.sig = s.sig
      /\ c.kind # "tool" => x.text = c.text
      /\ c.kind = "tool" /\ raw # <<>> => x.text = raw
      /\ raw = <<>> => x.text = c.text
  BY DEF Parsing, Agrees
<1>3. CASE s.kind = "redacted"
  <2>1. /\ c.kind = "thinking" /\ c.id = <<>> /\ c.redacted = TRUE /\ c.text = RedactedText
        /\ w = Live("thinking", s.sent)
    BY <1>1, <1>3, Zenon DEF Agrees, AgreesRedacted
  <2>2. AgreesRedacted(t, x, Shut(x.kind, x.text))
    BY <1>1, <1>2, <2>1 DEF AgreesRedacted
  <2>. QED BY <1>2, <1>3, <2>1, <2>2 DEF Agrees, Prose
<1>4. CASE s.kind \in Prose
  <2>0. s.kind # "tool" /\ s.kind # "redacted"
    BY <1>4 DEF Prose
  <2>1. /\ c.kind = s.kind /\ c.id = <<>> /\ c.redacted = FALSE /\ c.text = s.sent
        /\ w = Live(s.kind, s.sent)
    BY <1>1, <1>4, Zenon DEF Agrees, AgreesProse
  <2>2. AgreesProse(t, x, Shut(x.kind, x.text))
    BY <1>1, <1>2, <2>0, <2>1 DEF AgreesProse
  <2>. QED BY <1>2, <2>0, <2>1, <2>2 DEF Agrees
<1>5. CASE s.kind = "tool"
  <2>1. /\ c.kind = "tool" /\ c.redacted = FALSE /\ IsCallId(b, s.named, c.id)
        /\ c.text = <<>> /\ w = Live("tool", s.sent)
    BY <1>1, <1>5, Zenon DEF Agrees, AgreesCall
  <2>2. x.text = s.sent
    BY <1>2, <1>5, <2>1
  <2>3. AgreesCall(b, t, x, Shut(x.kind, x.text))
    BY <1>1, <1>2, <2>1, <2>2 DEF AgreesCall
  <2>. QED BY <1>2, <1>5, <2>1, <2>3 DEF Agrees, Prose
<1>. QED BY <1>3, <1>4, <1>5 DEF Kinds, Prose

LEMMA ClosesBlock ==
  ASSUME NEW r, NEW v, NEW m, Following(r, v, m), NEW q, NEW b, Touches(r, q, b),
         r.blocks[b].open, ~q.blocks[b].open,
         q.blocks[b].kind = r.blocks[b].kind, q.blocks[b].sig = r.blocks[b].sig,
         q.blocks[b].named = r.blocks[b].named, q.blocks[b].sent = r.blocks[b].sent,
         r.blocks[b].kind \in Kinds \cup {"redacted"},
         NEW raw, r.blocks[b].kind = "tool" => raw = r.blocks[b].sent,
         NEW p, p = Parse(m, b, raw), NEW n, n = EmitEnded(p, b)
  PROVE  SameBooks(m, n) /\ b \in DOMAIN p.content /\ Following(q, v, n)
<1>. DEFINE s == r.blocks[b]
            c == m.content[b]
            x == Parsed(c, raw)
            w == Shut(x.kind, x.text)
<1>0. /\ b \in 1..Len(r.blocks) /\ Len(q.blocks) = Len(r.blocks)
      /\ \A k \in (1..Len(r.blocks)) \ {b} : Same(r, q, k)
  BY DEF Touches
<1>1. PICK bs : /\ Telling(v, m, bs) /\ Matches(r, m.content, bs)
                /\ DOMAIN bs = 1..Len(r.blocks) /\ Agrees(b, s, c, bs[b])
  BY <1>0, FollowingIs
<1>11. Len(r.blocks) \in Nat /\ Len(m.content) = Len(r.blocks) /\ DOMAIN m.content = 1..Len(r.blocks)
  BY FollowingIs
<1>. DEFINE gs == Put(bs, b, w)
<1>2. /\ Speaks(p) /\ p.out = m.out /\ SameBooks(m, p)
      /\ Swaps(m.content, p.content, b, x) /\ Parsing(c, x, raw)
  BY <1>0, <1>1, <1>11, ParseIs DEF Telling
<1>3. Agrees(b, q.blocks[b], x, w) /\ bs[b] = Live(x.kind, s.sent)
  <2>. DEFINE t == q.blocks[b]
  <2>1. /\ s.open /\ s.kind \in Kinds \cup {"redacted"} /\ t.kind = s.kind /\ t.sig = s.sig
        /\ t.named = s.named /\ t.sent = s.sent /\ ~t.open
        /\ s.kind = "tool" => raw = s.sent
    OBVIOUS
  <2>. HIDE DEF s, t, c, x
  <2>2. Agrees(b, t, x, Shut(x.kind, x.text)) /\ bs[b] = Live(x.kind, s.sent)
    BY <1>1, <1>2, <2>1, AgreesClosed
  <2>. QED BY <2>2 DEF t
<1>. HIDE DEF x
<1>4. Telling(v, p, bs) /\ p.content[b] = x /\ b \in DOMAIN p.content
  BY <1>0, <1>1, <1>11, <1>2, TellsSame DEF Swaps
<1>5. Telling(v, n, gs) /\ n.content = p.content /\ SameBooks(p, n)
  <2>1. b \in DOMAIN bs
    BY <1>0, <1>1
  <2>. QED BY <1>3, <1>4, <2>1, TellsEnded
<1>6. Replaces(bs, gs, b, w)
  BY <1>0, <1>1, PutReplaces
<1>. HIDE DEF w, gs, c, s
<1>7. Matches(q, p.content, gs)
  BY <1>0, <1>1, <1>11, <1>2, <1>3, <1>6, MatchSwaps
<1>8. SameBooks(m, n)
  BY <1>2, <1>5 DEF SameBooks
<1>9. Following(q, v, n)
  BY <1>5, <1>7 DEF Following
<1>. QED BY <1>4, <1>8, <1>9

\* Running text goes on no more.
LEMMA EndsProse ==
  ASSUME NEW r, NEW v, NEW m, Following(r, v, m), NEW q, NEW b, Touches(r, q, b),
         r.blocks[b].open, ~q.blocks[b].open, Alike(q.blocks[b], r.blocks[b]),
         r.blocks[b].kind \in Prose, NEW n, n = EmitEnded(m, b)
  PROVE  SameBooks(m, n) /\ n.content = m.content /\ Following(q, v, n)
<1>. DEFINE s == r.blocks[b]
            c == m.content[b]
            w == Shut(c.kind, c.text)
<1>0. /\ b \in 1..Len(r.blocks) /\ Len(q.blocks) = Len(r.blocks)
      /\ \A k \in (1..Len(r.blocks)) \ {b} : Same(r, q, k)
  BY DEF Touches
<1>1. PICK bs : /\ Telling(v, m, bs) /\ Matches(r, m.content, bs)
                /\ DOMAIN bs = 1..Len(r.blocks) /\ Agrees(b, s, c, bs[b])
  BY <1>0, FollowingIs
<1>11. Len(r.blocks) \in Nat /\ Len(m.content) = Len(r.blocks) /\ DOMAIN m.content = 1..Len(r.blocks)
  BY FollowingIs
<1>. DEFINE gs == Put(bs, b, w)
<1>2. bs[b] = Live(c.kind, s.sent)
  <2>. HIDE DEF s, c
  <2>1. s.open /\ s.kind \in Prose
    BY DEF s
  <2>. QED BY <1>1, <2>1, Zenon DEF Agrees, AgreesProse, Seen
<1>3. Agrees(b, q.blocks[b], c, w)
  <2>. DEFINE t == q.blocks[b]
  <2>1. Agrees(b, s, c, bs[b]) /\ s.kind \in Prose /\ Alike(t, s) /\ ~t.open
    BY <1>1
  <2>. HIDE DEF s, t, c
  <2>. QED BY <2>1, AgreesShut DEF t
<1>5. Telling(v, n, gs) /\ n.content = m.content /\ SameBooks(m, n)
  <2>1. b \in DOMAIN bs
    BY <1>0, <1>1
  <2>. QED BY <1>1, <1>2, <2>1, TellsEnded
<1>6. Replaces(bs, gs, b, w) /\ Swaps(m.content, m.content, b, c)
  BY <1>0, <1>1, <1>11, PutReplaces DEF Swaps
<1>. HIDE DEF w, gs, c, s
<1>7. Matches(q, m.content, gs)
  BY <1>0, <1>1, <1>11, <1>3, <1>6, MatchSwaps
<1>9. Following(q, v, n)
  BY <1>5, <1>7 DEF Following
<1>. QED BY <1>5, <1>9

\* Text is signed, while it is open.
LEMMA SignsProse ==
  ASSUME NEW r, NEW v, NEW m, Following(r, v, m), NEW q, NEW b, Touches(r, q, b),
         r.blocks[b].open, q.blocks[b].open, r.blocks[b].kind \in Prose,
         q.blocks[b].kind = r.blocks[b].kind, q.blocks[b].sent = r.blocks[b].sent,
         q.blocks[b].named = r.blocks[b].named,
         NEW sig, q.blocks[b].sig = sig,
         NEW n, Reblocked(m, n, b, Resigned(m.content[b], sig))
  PROVE  Retells(m, n, b) /\ Following(q, v, n) /\ Speaks(n) /\ n.out = m.out
<1>. DEFINE s == r.blocks[b]
            t == q.blocks[b]
            c == m.content[b]
            x == Resigned(c, sig)
<1>0. /\ b \in 1..Len(r.blocks) /\ Len(q.blocks) = Len(r.blocks)
      /\ \A k \in (1..Len(r.blocks)) \ {b} : Same(r, q, k)
  BY DEF Touches
<1>1. PICK bs : /\ Telling(v, m, bs) /\ Matches(r, m.content, bs)
                /\ DOMAIN bs = 1..Len(r.blocks) /\ Agrees(b, s, c, bs[b])
  BY <1>0, FollowingIs
<1>. DEFINE w == bs[b]
<1>11. Len(r.blocks) \in Nat /\ Len(m.content) = Len(r.blocks) /\ DOMAIN m.content = 1..Len(r.blocks)
       /\ Speaks(m)
  BY FollowingIs
<1>5. /\ IsBlock(x) /\ x.sig = sig /\ x.kind = c.kind /\ x.id = c.id /\ x.text = c.text
      /\ x.redacted = c.redacted
  <2>1. IsBlock(c)
    BY <1>1 DEF Agrees
  <2>. HIDE DEF c
  <2>. QED BY <2>1, BlockEdits
<1>6. Speaks(n) /\ n.out = m.out /\ SameBooks(m, n) /\ Swaps(m.content, n.content, b, x)
  <2>1. Reblocked(m, n, b, x) /\ b \in 1..Len(m.content) /\ DOMAIN x = BlockFields
        /\ x.kind = m.content[b].kind
    BY <1>0, <1>11, <1>5 DEF IsBlock
  <2>. HIDE DEF x
  <2>. QED BY <1>11, <2>1, ReblockedIs
<1>7. Telling(v, n, bs)
  BY <1>1, <1>6, TellsSame
<1>8. Agrees(b, t, x, w)
  <2>1. t.kind = s.kind /\ t.sig = sig /\ t.open /\ s.open /\ t.sent = s.sent
        /\ s.kind \in Prose
    OBVIOUS
  <2>. HIDE DEF s, t, c, x, w
  <2>2. Seen(t, t.kind, t.sent) = Seen(s, s.kind, s.sent)
    BY <2>1, Zenon DEF Seen
  <2>3. AgreesProse(s, c, w)
    BY <1>1, <2>1 DEF Agrees, w
  <2>4. AgreesProse(t, x, w)
    BY <1>5, <2>1, <2>2, <2>3 DEF AgreesProse
  <2>5. t.kind # "redacted" /\ t.kind # "tool"
    BY <2>1 DEF Prose
  <2>. QED BY <1>5, <2>1, <2>4, <2>5 DEF Agrees
<1>9. Replaces(bs, bs, b, w)
  BY DEF Replaces
<1>. HIDE DEF w, s, t, c, x
<1>10. Matches(q, n.content, bs)
  BY <1>0, <1>1, <1>11, <1>6, <1>8, <1>9, MatchSwaps DEF t
<1>12. Following(q, v, n)
  BY <1>7, <1>10 DEF Following
<1>13. Retells(m, n, b)
  BY <1>0, <1>11, <1>5, <1>6 DEF Retells, Swaps, c
<1>. QED BY <1>6, <1>12, <1>13

-----------------------------------------------------------------------------
(* What an event comes to, in the dialects whose content index is the vendor's *)
(* number. *)

Books(api, r, m) ==
  /\ api = "anthropic"   => AnthropicBooks(r, m)
  /\ api = "completions" => CompletionsBooks(r, m)
  /\ api = "mistral"     => MistralBooks(r, m)
  /\ api = "google"      => GeminiBooks(r, m)
  /\ api = "bedrock"     => BedrockBooks(r, m)

GoesOn(api, r, v, m) == Following(r, v, m) /\ Books(api, r, m)
Answers(api, q, v, n) == GoesOn(api, q, v, n) \/ Completes(api, q, v, n) \/ Fails(v, n)

LEMMA BooksAre ==
  ASSUME NEW r, NEW m
  PROVE  /\ Books("anthropic", r, m) <=> AnthropicBooks(r, m)
         /\ Books("completions", r, m) <=> CompletionsBooks(r, m)
         /\ Books("mistral", r, m) <=> MistralBooks(r, m)
         /\ Books("google", r, m) <=> GeminiBooks(r, m)
         /\ Books("bedrock", r, m) <=> BedrockBooks(r, m)
BY DEF Books

\* The arguments collected, when the block at b changed or began.
LEMMA ArgsAre ==
  ASSUME NEW api, NEW r, IsReply(api, r), NEW m, Args(r, m), NEW q, NEW n,
         Len(q.blocks) \in Nat, Len(r.blocks) <= Len(q.blocks), NEW b \in 1..Len(q.blocks),
         \A k \in (1..Len(q.blocks)) \ {b} : k \in 1..Len(r.blocks) /\ Same(r, q, k),
         DOMAIN n.buf \subseteq DOMAIN m.buf \cup {b},
         \A k : k # b => Lookup(n.buf, k, <<>>) = Lookup(m.buf, k, <<>>),
         q.blocks[b].kind = "tool" => Lookup(n.buf, b, <<>>) = q.blocks[b].sent
  PROVE  Args(q, n)
<1>1. Len(r.blocks) \in Nat
  BY ReplyFacts
<1>2. DOMAIN n.buf \subseteq 1..Len(q.blocks)
  BY <1>1 DEF Args
<1>3. ASSUME NEW k \in Tools(q) PROVE Lookup(n.buf, k, <<>>) = q.blocks[k].sent
  <2>1. CASE k = b
    BY <2>1, <1>3 DEF Tools
  <2>2. CASE k # b
    <3>1. k \in 1..Len(r.blocks) /\ Same(r, q, k)
      BY <2>2 DEF Tools
    <3>2. k \in Tools(r) /\ q.blocks[k].sent = r.blocks[k].sent
      BY <3>1 DEF Tools, Same, Alike
    <3>. QED BY <2>2, <3>2 DEF Args
  <2>. QED BY <2>1, <2>2
<1>. QED BY <1>2, <1>3 DEF Args

\* When a call's arguments grew.
LEMMA ArgsGrow ==
  ASSUME NEW api, NEW r, IsReply(api, r), NEW m, Args(r, m), NEW q, NEW n, NEW b,
         Touches(r, q, b), NEW text, LongerBy(r.blocks[b], q.blocks[b], text),
         r.blocks[b].kind = "tool", Buffers(m, n, b, text)
  PROVE  Args(q, n)
<1>0. /\ b \in 1..Len(r.blocks) /\ Len(q.blocks) = Len(r.blocks)
      /\ \A k \in (1..Len(r.blocks)) \ {b} : Same(r, q, k)
      /\ q.blocks[b].sent = r.blocks[b].sent \o text
      /\ n.buf = Put(m.buf, b, Lookup(m.buf, b, <<>>) \o text)
  BY DEF Touches, LongerBy, Buffers
<1>1. Lookup(m.buf, b, <<>>) = r.blocks[b].sent
  BY <1>0 DEF Args, Tools
<1>2. /\ Lookup(n.buf, b, <<>>) = q.blocks[b].sent
      /\ DOMAIN n.buf = DOMAIN m.buf \cup {b}
      /\ \A k : k # b => Lookup(n.buf, k, <<>>) = Lookup(m.buf, k, <<>>)
  <2>. DEFINE x == Lookup(m.buf, b, <<>>) \o text
  <2>1. x = q.blocks[b].sent /\ n.buf = Put(m.buf, b, x)
    BY <1>0, <1>1
  <2>. HIDE DEF x
  <2>2. /\ Lookup(Put(m.buf, b, x), b, <<>>) = x
        /\ \A k : k # b => Lookup(Put(m.buf, b, x), k, <<>>) = Lookup(m.buf, k, <<>>)
        /\ DOMAIN Put(m.buf, b, x) = DOMAIN m.buf \cup {b}
    BY PutLookup, Zenon
  <2>. QED BY <2>1, <2>2
<1>3. Len(r.blocks) \in Nat
  BY ReplyFacts
<1>4. /\ Len(q.blocks) \in Nat /\ Len(r.blocks) <= Len(q.blocks) /\ b \in 1..Len(q.blocks)
      /\ \A k \in (1..Len(q.blocks)) \ {b} : k \in 1..Len(r.blocks) /\ Same(r, q, k)
      /\ DOMAIN n.buf \subseteq DOMAIN m.buf \cup {b}
  BY <1>0, <1>2, <1>3
<1>. QED BY <1>2, <1>4, ArgsAre

\* When something else did.
LEMMA ArgsKept ==
  ASSUME NEW api, NEW r, IsReply(api, r), NEW m, Args(r, m), NEW q, NEW n, n.buf = m.buf,
         NEW b, Touches(r, q, b), q.blocks[b].kind = r.blocks[b].kind,
         r.blocks[b].kind = "tool" => q.blocks[b].sent = r.blocks[b].sent
  PROVE  Args(q, n)
<1>0. /\ b \in 1..Len(r.blocks) /\ Len(q.blocks) = Len(r.blocks)
      /\ \A k \in (1..Len(r.blocks)) \ {b} : Same(r, q, k)
  BY DEF Touches
<1>1. Len(r.blocks) \in Nat
  BY ReplyFacts
<1>2. q.blocks[b].kind = "tool" => Lookup(n.buf, b, <<>>) = q.blocks[b].sent
  BY <1>0 DEF Args, Tools
<1>. QED BY <1>0, <1>1, <1>2, ArgsAre

\* When a block began.
LEMMA ArgsBegin ==
  ASSUME NEW api, NEW r, IsReply(api, r), NEW m, Args(r, m), NEW q, NEW n, NEW b,
         b = Len(r.blocks) + 1, Lengthens(r, q),
         \/ n.buf = m.buf /\ (q.blocks[b].kind = "tool" => q.blocks[b].sent = <<>>)
         \/ n.buf = Put(m.buf, b, q.blocks[b].sent)
  PROVE  Args(q, n)
<1>0. Len(q.blocks) = b /\ \A k \in 1..Len(r.blocks) : Same(r, q, k)
  BY DEF Lengthens
<1>1. Len(r.blocks) \in Nat /\ b \in 1..Len(q.blocks) /\ b \notin 1..Len(r.blocks)
  BY <1>0, ReplyFacts
<1>2. b \notin DOMAIN m.buf
  BY <1>1 DEF Args
<1>3. /\ DOMAIN n.buf \subseteq DOMAIN m.buf \cup {b}
      /\ \A k : k # b => Lookup(n.buf, k, <<>>) = Lookup(m.buf, k, <<>>)
      /\ q.blocks[b].kind = "tool" => Lookup(n.buf, b, <<>>) = q.blocks[b].sent
  <2>1. CASE n.buf = m.buf /\ (q.blocks[b].kind = "tool" => q.blocks[b].sent = <<>>)
    <3>1. Lookup(n.buf, b, <<>>) = <<>>
      BY <1>2, <2>1, Zenon DEF Lookup, Known
    <3>. QED BY <2>1, <3>1
  <2>2. CASE n.buf = Put(m.buf, b, q.blocks[b].sent)
    <3>. DEFINE x == q.blocks[b].sent
    <3>1. n.buf = Put(m.buf, b, x)
      BY <2>2
    <3>. HIDE DEF x
    <3>2. /\ Lookup(Put(m.buf, b, x), b, <<>>) = x
          /\ \A k : k # b => Lookup(Put(m.buf, b, x), k, <<>>) = Lookup(m.buf, k, <<>>)
          /\ DOMAIN Put(m.buf, b, x) = DOMAIN m.buf \cup {b}
      BY ONLY PutLookup, Zenon
    <3>. QED BY <3>1, <3>2 DEF x
  <2>. QED BY <2>1, <2>2
<1>4. \A k \in (1..Len(q.blocks)) \ {b} : k \in 1..Len(r.blocks) /\ Same(r, q, k)
  BY <1>0, <1>1
<1>5. Len(r.blocks) <= Len(q.blocks)
  BY <1>0, <1>1
<1>. QED BY <1>1, <1>3, <1>4, <1>5, ArgsAre

-----------------------------------------------------------------------------
(* The moves of the vendor, as the machine meets them. *)

LEMMA ChangesTouch ==
  ASSUME NEW api, NEW r, IsReply(api, r), NEW q, NEW b \in 1..Len(r.blocks),
         NEW ended, Changes(r, q, b, ended), \A k : k \notin ended
  PROVE  /\ Touches(r, q, b) /\ q.stop = r.stop /\ q.complete = r.complete
         /\ q.blocks[b].kind = r.blocks[b].kind /\ q.blocks[b].named = r.blocks[b].named
         /\ r.blocks[b].kind \in Kinds \cup {"redacted"}
<1>1. r.blocks[b].kind \in Kinds \cup {"redacted"}
  BY DEF IsReply, IsSaid
<1>. QED BY <1>1, Zenon DEF Changes, Rest, Sizes, Same, Touches

\* A fragment of a block that was there.
Grown(r, e, q) ==
  /\ Touches(r, q, e.b) /\ LongerBy(r.blocks[e.b], q.blocks[e.b], e.text)
  /\ e.type = "frag" /\ e.kind = r.blocks[e.b].kind /\ e.kind \in Kinds /\ e.text # <<>>
  /\ e.sig = r.blocks[e.b].sig /\ e.head = FALSE
  /\ r.stop = "none" /\ q.stop = r.stop /\ q.complete = r.complete

LEMMA GrowthIs ==
  ASSUME NEW api, NEW r, IsReply(api, r), NEW e, NEW q, Grows(api, r, e, q),
         api = "mistral" => e.kind # "tool"
  PROVE  Grown(r, e, q)
<1>2. PICK b \in 1..Len(r.blocks) :
        LET s == r.blocks[b]
            t == q.blocks[b]
            text == <<<<b, Len(s.sent) + 1>>>>
        IN /\ MayGrow(r, b)
           /\ e = Wire("frag", b, s.kind, text, s.sig, FALSE)
           /\ Changes(r, q, b, IF api = "mistral" /\ s.kind = "tool" THEN Current(r) ELSE {})
           /\ t.sent = s.sent \o text /\ t.sig = s.sig /\ t.whole = s.whole /\ t.open
  BY Zenon DEF Grows
<1>. DEFINE s == r.blocks[b]
            t == q.blocks[b]
            text == <<<<b, Len(s.sent) + 1>>>>
<1>4. /\ e.type = "frag" /\ e.b = b /\ e.kind = s.kind /\ e.text = text /\ e.sig = s.sig
      /\ e.head = FALSE
  BY <1>2 DEF Wire
<1>3. Changes(r, q, b, {})
  BY <1>2, <1>4
<1>5. /\ t.sent = s.sent \o text /\ t.sig = s.sig /\ t.open
      /\ s.open /\ s.kind # "redacted" /\ r.stop = "none"
  BY <1>2 DEF MayGrow
<1>6. /\ Touches(r, q, b) /\ q.stop = r.stop /\ q.complete = r.complete
      /\ t.kind = s.kind /\ t.named = s.named /\ s.kind \in Kinds \cup {"redacted"}
  BY <1>3, ChangesTouch
<1>7. text # <<>>
  OBVIOUS
<1>. HIDE DEF text
<1>8. LongerBy(s, t, text)
  BY <1>5, <1>6 DEF LongerBy
<1>. QED BY <1>4, <1>5, <1>6, <1>7, <1>8 DEF Grown

\* A block that begins where none ends.
Begun1(api, r, e, q) ==
  LET s == q.blocks[e.b] IN
  /\ e.b = Len(r.blocks) + 1 /\ Lengthens(r, q)
  /\ q.stop = r.stop /\ q.complete = r.complete
  /\ s.kind = e.kind /\ s.sent = e.text /\ s.sig = e.sig /\ s.named = e.head
  /\ s.first = e.text
  /\ e.kind \in Kinds \cup {"redacted"} /\ e.text \in Heads(api, e.kind, e.b)
  /\ MayComeSigned(api, e.kind, e.sig # <<>>) /\ MayBegin(api, r, e.kind)

LEMMA BeginningIs ==
  ASSUME NEW api, NEW r, IsReply(api, r), NEW e, NEW q, Begins(api, r, e, q),
         Superseded(api, r) = {}, api # "google"
  PROVE  /\ Begun1(api, r, e, q) /\ q.blocks[e.b].open /\ e.head = TRUE
         /\ api = "responses" =>
              \/ e.type = "open" /\ (e.kind = "text" => e.text = <<>>)
              \/ e.type = "added" /\ e.kind = "text"
<1>1. Len(q.blocks) = Len(r.blocks) + 1 /\ \A k \in 1..Len(r.blocks) : Same(r, q, k)
  BY BeginsSame
<1>2. LET b == Len(r.blocks) + 1
          s == q.blocks[b]
      IN /\ q.stop = r.stop /\ q.complete = r.complete
         /\ s.kind = e.kind /\ s.sent = e.text /\ s.sig = e.sig /\ s.named = e.head
         /\ (s.open <=> ~(api = "google" /\ e.kind = "tool"))
         /\ e.b = b /\ e.kind \in Kinds \cup {"redacted"} /\ e.text \in Heads(api, e.kind, b)
         /\ s.first = e.text
         /\ \/ /\ e.type = IF Framed(api) \/ (api = "bedrock" /\ e.kind = "tool") THEN "open"
                           ELSE "frag"
               /\ api = "responses" /\ e.kind = "text" => e.text = <<>>
            \/ api = "responses" /\ e.kind = "text" /\ e.type = "added"
         /\ e.head \in Named(api, r, e.kind, e.sig)
         /\ MayComeSigned(api, e.kind, e.sig # <<>>) /\ MayBegin(api, r, e.kind)
  BY Zenon DEF Begins
<1>3. Named(api, r, e.kind, e.sig) = {TRUE}
  BY DEF Named
<1>4. e.head = TRUE
  BY <1>2, <1>3
<1>5. q.blocks[e.b].open
  BY <1>2
<1>6. Begun1(api, r, e, q)
  BY <1>1, <1>2 DEF Begun1, Lengthens
<1>7. api = "responses" =>
        \/ e.type = "open" /\ (e.kind = "text" => e.text = <<>>)
        \/ e.type = "added" /\ e.kind = "text"
  BY <1>2 DEF Framed
<1>. QED BY <1>2, <1>4, <1>5, <1>6, <1>7

LEMMA BeginsElsewhere ==
  ASSUME NEW api, NEW r, IsReply(api, r), NEW e, NEW q, Begins(api, r, e, q),
         Superseded(api, r) = {}, api # "google", api # "responses"
  PROVE  /\ Begun1(api, r, e, q) /\ q.blocks[e.b].open /\ e.head = TRUE
         /\ e.type = IF Framed(api) \/ (api = "bedrock" /\ e.kind = "tool") THEN "open"
                     ELSE "frag"
<1>1. Begun1(api, r, e, q) /\ q.blocks[e.b].open /\ e.head = TRUE
  BY BeginningIs
<1>2. \/ e.type = IF Framed(api) \/ (api = "bedrock" /\ e.kind = "tool") THEN "open" ELSE "frag"
      \/ api = "responses"
  BY Zenon DEF Begins
<1>. QED BY <1>1, <1>2

-----------------------------------------------------------------------------
(* Anthropic Messages. *)

LEMMA EnsureIs ==
  ASSUME NEW m, Speaks(m), NEW i, i = Len(m.content) + 1, NEW block, IsBlock(block)
  PROVE  LET n == Anthropic!EnsureBlock(m, i, block) IN
         /\ Speaks(n) /\ n.out = m.out /\ SameBooks(m, n)
         /\ Gains(m.content, n.content, block)
<1>. DEFINE len == IF i > Len(m.content) THEN i ELSE Len(m.content)
            content == [j \in 1..len |-> IF j = i THEN block
                          ELSE IF j \in DOMAIN m.content THEN m.content[j] ELSE Block("text")]
            n == Anthropic!EnsureBlock(m, i, block)
<1>1. n = [m EXCEPT !.content = content]
  <2>1. Anthropic!Block("text") = Block("text")
    BY AnthropicShares
  <2>. QED BY <2>1, Zenon DEF Anthropic!EnsureBlock
<1>2. Len(m.content) \in Nat /\ DOMAIN m.content = 1..Len(m.content)
  BY ContentIs
<1>3. len = i /\ i \in Nat
  BY <1>2
<1>4. /\ DOMAIN content = 1..i /\ content[i] = block
      /\ \A j \in 1..Len(m.content) : content[j] = m.content[j]
  BY <1>2, <1>3
<1>5. Speaks(n)
  BY <1>3, AnthropicEnsures
<1>. HIDE DEF content, len, n
<1>6. n.content = content /\ n.out = m.out /\ SameBooks(m, n)
  BY <1>1 DEF Speaks, Machine, SameBooks
<1>7. Len(n.content) \in Nat /\ DOMAIN n.content = 1..Len(n.content)
  BY <1>5, ContentIs
<1>8. Len(n.content) = i
  BY <1>3, <1>4, <1>6, <1>7
<1>9. Gains(m.content, content, block)
  BY <1>2, <1>4, <1>6, <1>8 DEF Gains
<1>. QED BY <1>5, <1>6, <1>9 DEF n

\* The block that a content_block_start announces.
AnthropicBlock(e) ==
  CASE e.kind = "tool"     -> ToolBlock(<<e.b>>)
    [] e.kind = "redacted" -> [Block("thinking") EXCEPT !.text = RedactedText, !.sig = e.sig,
                                                        !.redacted = TRUE]
    [] OTHER               -> Block(e.kind)

LEMMA AnthropicOpenIs ==
  ASSUME NEW m, NEW e
  PROVE  Anthropic!OnContentBlockStart(m, e)
           = EmitOpened(Anthropic!EnsureBlock(m, e.b, AnthropicBlock(e)), e.b)
<1>1. /\ Anthropic!ToolBlock(<<e.b>>) = ToolBlock(<<e.b>>)
      /\ Anthropic!Block("thinking") = Block("thinking")
      /\ Anthropic!Block(e.kind) = Block(e.kind)
  BY AnthropicShares
<1>2. Anthropic!RedactedText = RedactedText
  BY DEF Anthropic!RedactedText, RedactedText
<1>3. Anthropic!OnContentBlockStart(m, e)
        = Anthropic!EmitOpened(Anthropic!EnsureBlock(m, e.b, AnthropicBlock(e)), e.b)
  BY <1>1, <1>2, Zenon DEF Anthropic!OnContentBlockStart, AnthropicBlock
<1>. QED BY <1>3, AnthropicShares

\* It agrees with what was said, of which there is nothing yet.
LEMMA AnthropicBlockIs ==
  ASSUME NEW b, NEW s, NEW e, e.b = b, e.kind = s.kind, s.kind \in Kinds \cup {"redacted"},
         s.sig = IF s.kind = "redacted" THEN e.sig ELSE <<>>, s.named = TRUE, s.open,
         s.sent = <<>>
  PROVE  LET x == AnthropicBlock(e) IN
         IsBlock(x) /\ Agrees(b, s, x, Live(x.kind, <<>>))
<1>. DEFINE x == AnthropicBlock(e)
<1>1. \A kind, text : Seen(s, kind, text) = Live(kind, <<>>)
  BY Zenon DEF Seen
<1>2. CASE s.kind = "redacted"
  <2>. DEFINE y == Block("thinking")
  <2>1. x = [y EXCEPT !.text = RedactedText, !.sig = e.sig, !.redacted = TRUE]
    BY <1>2, Zenon DEF AnthropicBlock
  <2>2. DOMAIN y = BlockFields /\ y.kind = "thinking" /\ y.id = <<>>
    BY NewBlockFields DEF IsBlock, Kinds
  <2>. HIDE DEF y, x
  <2>3. /\ IsBlock(x) /\ x.sig = e.sig /\ x.kind = "thinking" /\ x.id = <<>>
        /\ x.redacted = TRUE /\ x.text = RedactedText
    BY <2>1, <2>2 DEF IsBlock, BlockFields, Kinds
  <2>4. Agrees(b, s, x, Live(x.kind, <<>>))
    BY <1>1, <1>2, <2>3 DEF Agrees, AgreesRedacted, Prose
  <2>. QED BY <2>3, <2>4 DEF x
<1>3. CASE s.kind \in Prose
  <2>1. x = Block(s.kind) /\ s.kind \in Kinds
    BY <1>3 DEF AnthropicBlock, Prose, Kinds
  <2>2. IsBlock(x) /\ x.kind = s.kind /\ x.id = <<>> /\ x.text = <<>> /\ x.sig = <<>>
        /\ x.redacted = FALSE
    BY <2>1, NewBlockFields
  <2>3. s.kind # "redacted" /\ s.kind # "tool"
    BY <1>3 DEF Prose
  <2>. HIDE DEF x
  <2>4. Agrees(b, s, x, Live(x.kind, <<>>))
    BY <1>1, <1>3, <2>2, <2>3 DEF Agrees, AgreesProse
  <2>. QED BY <2>2, <2>4 DEF x
<1>4. CASE s.kind = "tool"
  <2>1. x = ToolBlock(<<b>>)
    BY <1>4, Zenon DEF AnthropicBlock
  <2>2. IsBlock(x) /\ x.kind = "tool" /\ x.id = <<b>> /\ x.text = <<>> /\ x.sig = <<>>
        /\ x.redacted = FALSE
    BY <2>1, NewBlockFields
  <2>. HIDE DEF x
  <2>3. IsCallId(b, s.named, x.id)
    BY <2>2, Zenon DEF IsCallId
  <2>4. Agrees(b, s, x, Live(x.kind, <<>>))
    BY <1>1, <1>4, <2>2, <2>3 DEF Agrees, AgreesCall, Prose
  <2>. QED BY <2>2, <2>4 DEF x
<1>. QED BY <1>2, <1>3, <1>4 DEF Kinds, Prose

LEMMA AnthropicOpens ==
  ASSUME NEW r, IsReply("anthropic", r), NEW e, NEW q, Begins("anthropic", r, e, q),
         NEW v, NEW m, GoesOn("anthropic", r, v, m)
  PROVE  /\ e.type = "open"
         /\ GoesOn("anthropic", q, v, Anthropic!OnContentBlockStart(m, e))
<1>. DEFINE b == e.b
            s == q.blocks[b]
            x == AnthropicBlock(e)
            p == Anthropic!EnsureBlock(m, b, x)
            n == EmitOpened(p, b)
            w == Live(x.kind, <<>>)
<1>1. /\ Following(r, v, m) /\ AnthropicBooks(r, m) /\ Speaks(m)
      /\ Len(r.blocks) \in Nat /\ Len(m.content) = Len(r.blocks)
  BY FollowingIs, BooksAre DEF GoesOn
<1>2. /\ Begun1("anthropic", r, e, q) /\ s.open /\ e.head = TRUE
      /\ e.type = IF Framed("anthropic") \/ ("anthropic" = "bedrock" /\ e.kind = "tool")
                  THEN "open" ELSE "frag"
  <2>1. Superseded("anthropic", r) = {}
    BY DEF Superseded
  <2>. QED BY <2>1, BeginsElsewhere
<1>3. /\ b = Len(r.blocks) + 1 /\ Lengthens(r, q) /\ q.stop = r.stop
      /\ s.kind = e.kind /\ s.sent = e.text /\ s.sig = e.sig /\ s.named = TRUE
      /\ e.kind \in Kinds \cup {"redacted"}
      /\ e.text \in Heads("anthropic", e.kind, e.b)
      /\ MayComeSigned("anthropic", e.kind, e.sig # <<>>)
  BY <1>2 DEF Begun1
<1>4. e.type = "open"
  BY <1>2 DEF Framed
<1>5. s.sent = <<>>
  BY <1>3 DEF Heads
<1>6. s.sig = IF s.kind = "redacted" THEN e.sig ELSE <<>>
  <2>1. (e.sig # <<>>) = (e.kind = "redacted")
    BY <1>3 DEF MayComeSigned
  <2>. QED BY <1>3, <2>1
<1>7. IsBlock(x) /\ Agrees(b, s, x, Live(x.kind, <<>>))
  <2>. HIDE DEF s
  <2>. QED BY <1>2, <1>3, <1>5, <1>6, AnthropicBlockIs
<1>. HIDE DEF x
<1>8. Speaks(p) /\ p.out = m.out /\ SameBooks(m, p) /\ Gains(m.content, p.content, x)
  BY <1>1, <1>3, <1>7, EnsureIs
<1>. HIDE DEF p, w
<1>9. SameBooks(p, n) /\ n.content = p.content /\ Following(q, v, n)
  <2>1. b = Len(r.blocks) + 1 /\ w = Live(x.kind, <<>>) /\ Agrees(b, q.blocks[b], x, w)
        /\ n = EmitOpened(p, b)
    BY <1>3, <1>7 DEF w
  <2>. HIDE DEF b, n
  <2>. QED BY <1>1, <1>3, <1>8, <2>1, OpensNew
<1>10. AnthropicBooks(q, n)
  <2>1. n.buf = m.buf /\ n.stop = m.stop
    BY <1>8, <1>9 DEF SameBooks
  <2>2. n.buf = m.buf /\ (q.blocks[b].kind = "tool" => q.blocks[b].sent = <<>>)
    BY <1>5, <2>1
  <2>3. Args(q, n)
    <3>1. Args(r, m) /\ b = Len(r.blocks) + 1 /\ Lengthens(r, q)
      BY <1>1, <1>3 DEF AnthropicBooks
    <3>. HIDE DEF b, n
    <3>. QED BY <2>2, <3>1, ArgsBegin
  <2>. QED BY <1>1, <1>3, <2>1, <2>3 DEF AnthropicBooks, StopFollows
<1>11. GoesOn("anthropic", q, v, n)
  BY <1>9, <1>10, BooksAre DEF GoesOn
<1>12. n = Anthropic!OnContentBlockStart(m, e)
  BY AnthropicOpenIs DEF p, x
<1>. QED BY <1>4, <1>11, <1>12

LEMMA AnthropicGrows ==
  ASSUME NEW r, IsReply("anthropic", r), NEW e, NEW q, Grows("anthropic", r, e, q),
         NEW v, NEW m, GoesOn("anthropic", r, v, m)
  PROVE  /\ e.type = "frag"
         /\ GoesOn("anthropic", q, v, Anthropic!OnContentBlockDelta(m, e))
<1>. DEFINE n == Anthropic!OnContentBlockDelta(m, e)
<1>1. Following(r, v, m) /\ AnthropicBooks(r, m)
  BY BooksAre DEF GoesOn
<1>2. Grown(r, e, q)
  BY GrowthIs
<1>3. /\ Touches(r, q, e.b) /\ LongerBy(r.blocks[e.b], q.blocks[e.b], e.text)
      /\ e.kind = r.blocks[e.b].kind /\ e.kind \in Kinds /\ q.stop = r.stop
      /\ q.blocks[e.b].kind = r.blocks[e.b].kind /\ e.type = "frag"
  BY <1>2 DEF Grown, LongerBy
<1>8. CASE e.kind = "tool"
  <2>1. n = Emit(Collect(m, e.b, e.text), Delta(e.b, "tool", e.text))
    BY <1>8, AnthropicShares, Zenon DEF Anthropic!OnContentBlockDelta
  <2>. HIDE DEF n
  <2>2. Buffers(m, n, e.b, e.text) /\ Following(q, v, n)
    BY <1>1, <1>3, <1>8, <2>1, GrowsCall
  <2>3. Args(q, n)
    BY <1>1, <1>3, <1>8, <2>2, ArgsGrow DEF AnthropicBooks
  <2>4. AnthropicBooks(q, n)
    BY <1>1, <1>3, <2>2, <2>3 DEF AnthropicBooks, StopFollows, Buffers
  <2>. QED BY <1>3, <2>2, <2>4, BooksAre DEF GoesOn, n
<1>9. CASE e.kind # "tool"
  <2>0. e.kind \in Prose
    BY <1>3, <1>9 DEF Kinds, Prose
  <2>1. n = Emit(Extend(m, e.b, e.kind, e.text), Delta(e.b, e.kind, e.text))
    BY <1>9, AnthropicShares, Zenon DEF Anthropic!OnContentBlockDelta
  <2>. HIDE DEF n
  <2>2. Retells(m, n, e.b) /\ Following(q, v, n)
    BY <1>1, <1>3, <2>0, <2>1, GrowsProse
  <2>3. n.buf = m.buf /\ n.stop = m.stop
    BY <2>2 DEF Retells, SameBooks
  <2>4. Args(q, n)
    BY <1>1, <1>3, <1>9, <2>3, ArgsKept DEF AnthropicBooks
  <2>5. AnthropicBooks(q, n)
    BY <1>1, <1>3, <2>3, <2>4 DEF AnthropicBooks, StopFollows
  <2>. QED BY <1>3, <2>2, <2>5, BooksAre DEF GoesOn, n
<1>. QED BY <1>8, <1>9

\* A block of thinking is signed.
Signed(r, e, q) ==
  LET s == r.blocks[e.b]
      t == q.blocks[e.b]
  IN /\ Touches(r, q, e.b) /\ q.stop = r.stop /\ q.complete = r.complete
     /\ s.kind = "thinking" /\ s.open /\ s.sig = <<>>
     /\ t.kind = "thinking" /\ t.open /\ t.sig = e.sig /\ t.sent = s.sent /\ t.named = s.named
     /\ e.type = "sign" /\ e.kind = "thinking" /\ e.sig = <<e.b>>
     /\ s.sent # <<>>

LEMMA SigningIs ==
  ASSUME NEW api, NEW r, IsReply(api, r), NEW e, NEW q, Signs(api, r, e, q)
  PROVE  Signed(r, e, q)
<1>2. PICK b \in 1..Len(r.blocks) :
        LET s == r.blocks[b]
            t == q.blocks[b]
        IN /\ s.kind = "thinking" /\ s.open /\ s.sig = <<>> /\ s.sent # <<>>
           /\ e = Wire("sign", b, "thinking", <<>>, <<b>>, FALSE)
           /\ Changes(r, q, b, {})
           /\ t.sent = s.sent /\ t.sig = <<b>> /\ t.open
  BY Zenon DEF Signs
<1>. DEFINE sig == <<b>>
<1>4. /\ e.type = "sign" /\ e.b = b /\ e.sig = sig /\ e.kind = "thinking"
  BY <1>2 DEF Wire
<1>6. /\ Touches(r, q, b) /\ q.stop = r.stop /\ q.complete = r.complete
      /\ q.blocks[b].kind = r.blocks[b].kind /\ q.blocks[b].named = r.blocks[b].named
  BY <1>2, ChangesTouch
<1>. QED BY <1>2, <1>4, <1>6 DEF Signed

\* A block is closed, as it was sent.
Closed(r, e, q) ==
  LET s == r.blocks[e.b]
      t == q.blocks[e.b]
  IN /\ Touches(r, q, e.b) /\ q.stop = r.stop /\ q.complete = r.complete
     /\ s.open /\ ~t.open /\ t.kind = s.kind /\ t.sig = s.sig /\ t.named = s.named
     /\ t.sent = s.sent /\ s.kind \in Kinds \cup {"redacted"}
     /\ e.type = "close" /\ e.kind = s.kind

LEMMA ClosingIs ==
  ASSUME NEW api, api # "responses", NEW r, IsReply(api, r), NEW e, NEW q, Shuts(api, r, e, q)
  PROVE  Closed(r, e, q)
<1>2. PICK b \in 1..Len(r.blocks) :
        LET s == r.blocks[b]
            t == q.blocks[b]
            sig == IF api = "responses" /\ s.kind # "tool" THEN <<b>> ELSE s.sig
        IN /\ s.open
           /\ e = Wire("close", b, s.kind, s.sent, sig, FALSE)
           /\ Changes(r, q, b, {})
           /\ t.sent = s.sent /\ t.sig = sig /\ t.open = FALSE
  BY Zenon DEF Shuts
<1>4. e.type = "close" /\ e.b = b /\ e.kind = r.blocks[b].kind
  BY <1>2 DEF Wire
<1>6. /\ Touches(r, q, b) /\ q.stop = r.stop /\ q.complete = r.complete
      /\ q.blocks[b].kind = r.blocks[b].kind /\ q.blocks[b].named = r.blocks[b].named
      /\ r.blocks[b].kind \in Kinds \cup {"redacted"}
  BY <1>2, ChangesTouch
<1>7. q.blocks[b].sig = r.blocks[b].sig
  BY <1>2
<1>. QED BY <1>2, <1>4, <1>6, <1>7 DEF Closed

\* The blocks stay.
LEMMA Unchanging ==
  ASSUME NEW api, NEW r, IsReply(api, r), NEW q, q.blocks = r.blocks
  PROVE  Len(q.blocks) = Len(r.blocks) /\ \A k \in 1..Len(r.blocks) : Same(r, q, k)
BY ReplyFacts DEF Same, Alike

Stopped(r, e, q) ==
  /\ q.blocks = r.blocks /\ r.stop = "none" /\ q.stop = e.kind /\ q.complete
  /\ e.kind \in {"length", "refused", "tool_use", "stop"}

LEMMA StoppingIs ==
  ASSUME NEW api, NEW r, IsReply(api, r), NEW e, NEW q, Stops(api, r, e, q)
  PROVE  /\ Stopped(r, e, q) /\ e.kind \in Reasons(api, r) /\ MayStop(api, r)
         /\ e.type = IF api = "responses" THEN "end" ELSE "stop"
<1>1. PICK reason \in Reasons(api, r) :
        /\ MayStop(api, r)
        /\ e = Signal(IF api = "responses" THEN "end" ELSE "stop", reason)
        /\ q = [r EXCEPT !.stop = reason, !.complete = TRUE, !.over = (api = "responses")]
  BY DEF Stops
<1>2. e.type = (IF api = "responses" THEN "end" ELSE "stop") /\ e.kind = reason
  BY <1>1, SignalIs
<1>3. q.blocks = r.blocks /\ q.stop = reason /\ q.complete
  BY <1>1, ReplyFacts DEF Reply
<1>4. reason \in {"length", "refused", "tool_use", "stop"}
  BY <1>1 DEF Reasons
<1>5. r.stop = "none"
  BY <1>1 DEF MayStop
<1>. QED BY <1>1, <1>2, <1>3, <1>4, <1>5 DEF Stopped

LEMMA ConcludingIs ==
  ASSUME NEW api, NEW r, IsReply(api, r), NEW e, NEW q, Concludes(api, r, e, q)
  PROVE  /\ q.blocks = r.blocks /\ q.stop = r.stop /\ q.complete /\ e.type = "end"
         /\ api \in {"anthropic", "completions", "mistral"}
         /\ api = "anthropic" => r.stop # "none"
BY SignalIs, ReplyFacts DEF Concludes, Reply

LEMMA BreakingIs ==
  ASSUME NEW api, NEW r, IsReply(api, r), NEW e, NEW q, Breaks(api, r, e, q)
  PROVE  /\ q.blocks = r.blocks /\ q.stop = r.stop /\ q.complete = r.complete
         /\ e.type \in {"eof", "broken", "fail"}
         /\ e.type = "fail" => api \in {"anthropic", "responses", "bedrock"}
BY SignalIs, ReplyFacts DEF Breaks, Reply

-----------------------------------------------------------------------------
(* How a stream ends. *)

LEMMA BreaksOff ==
  ASSUME NEW v, NEW m, NEW bs, Telling(v, m, bs), NEW e, NEW message,
         e = Failed("error", message), NEW n, n = Finished(m, e)
  PROVE  Fails(v, n)
<1>1. n.over /\ ConsumeAll(v, n.out) = Consume(Open(bs), e)
  BY TellsEnd
<1>2. Consume(Open(bs), e) = Broken(bs, "error", message)
  BY ConsumeEnd
<1>. QED BY <1>1, <1>2 DEF Fails

LEMMA FollowingFails ==
  ASSUME NEW r, NEW v, NEW m, Following(r, v, m)
  PROVE  /\ Fails(v, Incomplete(m)) /\ Fails(v, Finished(m, PushError))
<1>1. PICK bs : Telling(v, m, bs)
  BY DEF Following
<1>2. PushError = Failed("error", Message(<<>>, "error"))
  BY Zenon DEF PushError
<1>. DEFINE message == Message(<<>>, "error")
            e == PushError
            n == Finished(m, e)
<1>3. e = Failed("error", message) /\ n = Finished(m, e)
  BY <1>2
<1>. HIDE DEF message, e, n
<1>4. Fails(v, n)
  BY <1>1, <1>3, BreaksOff
<1>5. Fails(v, Finished(m, PushError))
  BY <1>4 DEF n, e
<1>. QED BY <1>1, <1>5, ConcludeIs

LEMMA WellConcluded ==
  ASSUME NEW api, api # "responses", NEW q, IsReply(api, q), q.complete,
         \A b \in 1..Len(q.blocks) : ~q.blocks[b].open,
         NEW v, NEW m, Following(q, v, m), api = "google" => UniqueIds(m.content),
         m.stop \in {"stop", "length", "tool_use", "error"},
         m.stop # "error" => Reasoned(api, q, m.stop)
  PROVE  Answers(api, q, v, Conclude(m))
<1>1. PICK bs : Telling(v, m, bs) /\ Matches(q, m.content, bs)
  BY DEF Following
<1>2. Whole(q, m.content) /\ AllShut(bs, m.content)
  BY <1>1, MatchWhole
<1>3. Faithful(api, q, m.content)
  BY <1>2, WholeFaithful
<1>4. Completes(api, q, v, Conclude(m)) \/ Fails(v, Conclude(m))
  BY <1>1, <1>2, <1>3, ConcludesWell
<1>. QED BY <1>4 DEF Answers

-----------------------------------------------------------------------------
LEMMA AnthropicSigned ==
  ASSUME NEW r, IsReply("anthropic", r), NEW e, NEW q, Signs("anthropic", r, e, q),
         NEW v, NEW m, GoesOn("anthropic", r, v, m)
  PROVE  /\ e.type = "sign"
         /\ GoesOn("anthropic", q, v, Anthropic!OnSignatureDelta(m, e))
<1>. DEFINE n == Anthropic!OnSignatureDelta(m, e)
            b == e.b
            c == m.content[b]
            sig == e.sig
<1>1. Following(r, v, m) /\ AnthropicBooks(r, m) /\ Speaks(m)
  BY BooksAre, FollowingIs DEF GoesOn
<1>2. Signed(r, e, q)
  BY SigningIs
<1>3. /\ Touches(r, q, b) /\ b \in 1..Len(r.blocks) /\ q.stop = r.stop
      /\ r.blocks[b].open /\ q.blocks[b].open /\ r.blocks[b].kind \in Prose
      /\ r.blocks[b].kind = "thinking"
      /\ q.blocks[b].kind = r.blocks[b].kind /\ q.blocks[b].sent = r.blocks[b].sent
      /\ q.blocks[b].named = r.blocks[b].named /\ q.blocks[b].sig = sig
      /\ r.blocks[b].sig = <<>> /\ e.type = "sign" /\ sig = <<b>>
  BY <1>2 DEF Signed, Touches, Prose
<1>4. c.kind = "thinking" /\ c.sig = <<>> /\ b \in DOMAIN m.content
  BY <1>1, <1>3, KeptIs, FollowingIs DEF Kept
<1>5. Reblocked(m, n, b, Resigned(c, sig))
  <2>1. n = [m EXCEPT !.content[b].sig = @ \o sig]
    <3>1. Anthropic!Is(m, e.b, "thinking")
      BY <1>4, AnthropicShares DEF Is
    <3>. QED BY <3>1, Zenon DEF Anthropic!OnSignatureDelta
  <2>. DEFINE y == c.sig \o sig
  <2>2. n = [m EXCEPT !.content[b].sig = y]
    BY <2>1, Zenon
  <2>3. y = sig
    BY <1>3, <1>4
  <2>. HIDE DEF y, n
  <2>. QED BY <2>2, <2>3, Zenon DEF Reblocked, Resigned
<1>. HIDE DEF n, sig
<1>6. Retells(m, n, b) /\ Following(q, v, n)
  BY <1>1, <1>3, <1>5, SignsProse
<1>7. n.buf = m.buf /\ n.stop = m.stop
  BY <1>6 DEF Retells, SameBooks
<1>8. Args(q, n)
  BY <1>1, <1>3, <1>7, ArgsKept DEF AnthropicBooks
<1>9. AnthropicBooks(q, n)
  BY <1>1, <1>3, <1>7, <1>8 DEF AnthropicBooks, StopFollows
<1>. QED BY <1>3, <1>6, <1>9, BooksAre DEF GoesOn, n

LEMMA AnthropicCloses ==
  ASSUME NEW r, IsReply("anthropic", r), NEW e, NEW q, Shuts("anthropic", r, e, q),
         NEW v, NEW m, GoesOn("anthropic", r, v, m)
  PROVE  /\ e.type = "close"
         /\ GoesOn("anthropic", q, v, Anthropic!OnContentBlockStop(m, e))
<1>. DEFINE b == e.b
            n == Anthropic!OnContentBlockStop(m, e)
            raw == Lookup(m.buf, b, <<>>)
            p == Parse(m, b, raw)
            o == EmitEnded(p, b)
<1>1. Following(r, v, m) /\ AnthropicBooks(r, m)
  BY BooksAre DEF GoesOn
<1>2. Closed(r, e, q)
  BY ClosingIs
<1>3. /\ Touches(r, q, b) /\ b \in 1..Len(r.blocks) /\ q.stop = r.stop
      /\ r.blocks[b].open /\ ~q.blocks[b].open
      /\ q.blocks[b].kind = r.blocks[b].kind /\ q.blocks[b].sig = r.blocks[b].sig
      /\ q.blocks[b].named = r.blocks[b].named /\ q.blocks[b].sent = r.blocks[b].sent
      /\ r.blocks[b].kind \in Kinds \cup {"redacted"} /\ e.type = "close"
  BY <1>2 DEF Closed, Touches
<1>7. r.blocks[b].kind = "tool" => raw = r.blocks[b].sent
  BY <1>1, <1>3 DEF AnthropicBooks, Args, Tools
<1>. HIDE DEF raw
<1>8. SameBooks(m, o) /\ b \in DOMAIN p.content /\ Following(q, v, o)
  BY <1>1, <1>3, <1>7, ClosesBlock
<1>9. n = o
  <2>1. Anthropic!Parse(m, e.b, Anthropic!Lookup(m.buf, e.b, <<>>)) = p
    BY AnthropicShares, Zenon DEF raw
  <2>2. n = IF e.b \in DOMAIN p.content THEN Anthropic!EmitEnded(p, e.b) ELSE p
    <3>. HIDE DEF p
    <3>. QED BY <2>1, Zenon DEF Anthropic!OnContentBlockStop
  <2>. HIDE DEF p, n
  <2>. QED BY <1>8, <2>2, AnthropicShares
<1>. HIDE DEF n, p, o
<1>10. n.buf = m.buf /\ n.stop = m.stop /\ Following(q, v, n)
  BY <1>8, <1>9 DEF SameBooks
<1>11. Args(q, n)
  BY <1>1, <1>3, <1>10, ArgsKept DEF AnthropicBooks
<1>12. AnthropicBooks(q, n)
  BY <1>1, <1>3, <1>10, <1>11 DEF AnthropicBooks, StopFollows
<1>. QED BY <1>3, <1>10, <1>12, BooksAre DEF GoesOn, n

LEMMA AnthropicStopped ==
  ASSUME NEW r, IsReply("anthropic", r), NEW e, NEW q, Stops("anthropic", r, e, q),
         NEW v, NEW m, GoesOn("anthropic", r, v, m), NEW n,
         n = [m EXCEPT !.stop = Anthropic!MapStopReason(e.kind)]
  PROVE  e.type = "stop" /\ GoesOn("anthropic", q, v, n)
<1>1. Following(r, v, m) /\ AnthropicBooks(r, m) /\ Speaks(m)
  BY BooksAre, FollowingIs DEF GoesOn
<1>2. Stopped(r, e, q) /\ e.type = IF "anthropic" = "responses" THEN "end" ELSE "stop"
  BY StoppingIs
<1>3. /\ q.blocks = r.blocks /\ r.stop = "none" /\ q.stop = e.kind
      /\ e.kind \in {"length", "refused", "tool_use", "stop"} /\ e.type = "stop"
  BY <1>2 DEF Stopped
<1>. DEFINE stop == Anthropic!MapStopReason(e.kind)
<1>4. stop = IF e.kind = "refused" THEN "error" ELSE e.kind
  BY DEF Anthropic!MapStopReason
<1>. HIDE DEF stop
<1>5. Speaks(n) /\ n.content = m.content /\ n.stop = stop /\ n.buf = m.buf /\ n.out = m.out
  <2>1. n = [m EXCEPT !.stop = stop]
    BY DEF stop
  <2>2. Speaks(n) /\ n.content = m.content
    BY <1>1, <2>1, Notes
  <2>. QED BY <1>1, <2>1, <2>2 DEF Speaks, Machine
<1>6. Len(q.blocks) = Len(r.blocks) /\ \A k \in 1..Len(r.blocks) : Same(r, q, k)
  BY <1>3, Unchanging
<1>7. Following(q, v, n)
  BY <1>1, <1>5, <1>6, FollowsSame
<1>8. Args(q, n)
  BY <1>1, <1>3, <1>5, Zenon DEF AnthropicBooks, Args, Tools
<1>9. StopFollows(q, n.stop)
  BY <1>3, <1>4, <1>5 DEF StopFollows
<1>. QED BY <1>3, <1>7, <1>8, <1>9, BooksAre DEF GoesOn, AnthropicBooks

LEMMA AnthropicConcludes ==
  ASSUME NEW r, IsReply("anthropic", r), NEW e, NEW q, IsReply("anthropic", q),
         Concludes("anthropic", r, e, q), NEW v, NEW m, GoesOn("anthropic", r, v, m)
  PROVE  e.type = "end" /\ Answers("anthropic", q, v, Conclude(m))
<1>1. Following(r, v, m) /\ AnthropicBooks(r, m) /\ Speaks(m)
  BY BooksAre, FollowingIs DEF GoesOn
<1>2. /\ q.blocks = r.blocks /\ q.stop = r.stop /\ q.complete /\ e.type = "end"
      /\ r.stop # "none"
  BY ConcludingIs
<1>3. \A b \in 1..Len(q.blocks) : ~q.blocks[b].open
  BY <1>2 DEF IsReply, Closes
<1>4. Following(q, v, m)
  BY <1>1, <1>2, Unchanging, FollowsSame
<1>5. StopFollows(q, m.stop)
  BY <1>1, <1>2 DEF AnthropicBooks, StopFollows
<1>6. /\ m.stop \in {"stop", "length", "tool_use", "error"}
      /\ m.stop # "error" => Reasoned("anthropic", q, m.stop)
  BY <1>5, ReasonIs
<1>. QED BY <1>2, <1>3, <1>4, <1>6, WellConcluded

\* Whatever Anthropic sends, the loop is in line with it, or ends well.
LEMMA AnthropicAnswers ==
  ASSUME NEW r, IsReply("anthropic", r), NEW e, NEW q, IsReply("anthropic", q),
         Moved("anthropic", r, e, q), NEW v, NEW m, GoesOn("anthropic", r, v, m)
  PROVE  /\ e.type \notin {"eof", "broken"} => Answers("anthropic", q, v, Anthropic!HandleSse(m, e))
         /\ Answers("anthropic", q, v, Anthropic!Eof(m))
<1>. DEFINE n == Anthropic!HandleSse(m, e)
<1>1. Anthropic!Eof(m) = Incomplete(m) /\ Anthropic!Conclude(m) = Conclude(m)
      /\ Anthropic!Incomplete(m) = Incomplete(m)
  BY AnthropicShares DEF Anthropic!Eof
<1>2. Fails(v, Incomplete(m))
  BY FollowingFails DEF GoesOn
<1>3. /\ e.type = "open"  => n = Anthropic!OnContentBlockStart(m, e)
      /\ e.type = "frag"  => n = Anthropic!OnContentBlockDelta(m, e)
      /\ e.type = "sign"  => n = Anthropic!OnSignatureDelta(m, e)
      /\ e.type = "close" => n = Anthropic!OnContentBlockStop(m, e)
      /\ e.type = "stop"  => n = [m EXCEPT !.stop = Anthropic!MapStopReason(e.kind)]
      /\ e.type = "end"   => n = Conclude(m)
      /\ e.type = "fail"  => n = Incomplete(m)
  BY <1>1, AnthropicHandles
<1>. HIDE DEF n
<1>4. ASSUME e.type \notin {"eof", "broken"} PROVE Answers("anthropic", q, v, n)
  <2>1. CASE Begins("anthropic", r, e, q)
    BY <1>3, <2>1, AnthropicOpens DEF Answers
  <2>2. CASE Grows("anthropic", r, e, q)
    BY <1>3, <2>2, AnthropicGrows DEF Answers
  <2>3. CASE Signs("anthropic", r, e, q)
    BY <1>3, <2>3, AnthropicSigned DEF Answers
  <2>4. CASE Shuts("anthropic", r, e, q)
    BY <1>3, <2>4, AnthropicCloses DEF Answers
  <2>5. CASE Stops("anthropic", r, e, q)
    <3>. DEFINE p == [m EXCEPT !.stop = Anthropic!MapStopReason(e.kind)]
    <3>1. e.type = "stop" /\ GoesOn("anthropic", q, v, p)
      BY <2>5, AnthropicStopped
    <3>. QED BY <1>3, <3>1, Zenon DEF Answers
  <2>6. CASE Concludes("anthropic", r, e, q)
    BY <1>3, <2>6, AnthropicConcludes
  <2>7. CASE Breaks("anthropic", r, e, q)
    <3>1. e.type = "fail"
      BY <1>4, <2>7, BreakingIs
    <3>. QED BY <1>2, <1>3, <3>1 DEF Answers
  <2>8. ~Repeats("anthropic", r, e, q) /\ ~ComesLate("anthropic", r, e, q)
    BY DEF Repeats, ComesLate
  <2>. QED BY <2>1, <2>2, <2>3, <2>4, <2>5, <2>6, <2>7, <2>8 DEF Moved
<1>. QED BY <1>1, <1>2, <1>4 DEF Answers, n

-----------------------------------------------------------------------------
(* A block that begins with its first fragment: as if it was announced and    *)
(* then grew.  r1 is the reply in between, with nothing in the block.         *)

Blanked(q, b, sig, r1) ==
  LET s == r1.blocks[b] IN
  /\ Touches(r1, q, b) /\ s.sig = sig
  /\ s.kind = q.blocks[b].kind /\ s.named = q.blocks[b].named /\ s.open /\ s.sent = <<>>

LEMMA BlankExists ==
  ASSUME NEW api, NEW q, IsReply(api, q), NEW b \in 1..Len(q.blocks), NEW sig
  PROVE  \E r1 : Blanked(q, b, sig, r1)
<1>. DEFINE blank == [kind |-> q.blocks[b].kind, sent |-> <<>>, sig |-> sig, whole |-> FALSE,
                      open |-> TRUE, named |-> q.blocks[b].named]
            blocks == [k \in 1..Len(q.blocks) |-> IF k = b THEN blank ELSE q.blocks[k]]
            r1 == [blocks |-> blocks]
<1>1. /\ blank.kind = q.blocks[b].kind /\ blank.named = q.blocks[b].named /\ blank.open
      /\ blank.sent = <<>> /\ blank.sig = sig
  OBVIOUS
<1>. HIDE DEF blank
<1>2. Len(q.blocks) \in Nat /\ \A k \in 1..Len(q.blocks) : DOMAIN q.blocks[k] = SaidFields
  BY ReplyFacts
<1>3. Len(blocks) = Len(q.blocks)
  <2>1. blocks \in [1..Len(q.blocks) -> {blank} \cup {q.blocks[k] : k \in 1..Len(q.blocks)}]
    OBVIOUS
  <2>2. blocks \in Seq({blank} \cup {q.blocks[k] : k \in 1..Len(q.blocks)})
    BY <1>2, <2>1
  <2>3. DOMAIN blocks = 1..Len(q.blocks)
    OBVIOUS
  <2>. HIDE DEF blocks
  <2>. QED BY <1>2, <2>2, <2>3
<1>4. r1.blocks[b] = blank /\ \A k \in (1..Len(q.blocks)) \ {b} : r1.blocks[k] = q.blocks[k]
  OBVIOUS
<1>5. r1.blocks = blocks
  OBVIOUS
<1>. HIDE DEF r1, blocks
<1>6. \A k \in (1..Len(q.blocks)) \ {b} : Same(r1, q, k)
  BY <1>2, <1>4 DEF Same, Alike
<1>7. Touches(r1, q, b)
  BY <1>3, <1>5, <1>6 DEF Touches
<1>8. Blanked(q, b, sig, r1)
  BY <1>1, <1>4, <1>7 DEF Blanked
<1>. QED BY <1>8

\* A block with nothing in it.
Fresh(q, b, sig, x) ==
  /\ IsBlock(x) /\ x.kind = q.blocks[b].kind /\ x.text = <<>> /\ x.sig = sig
  /\ x.redacted = FALSE /\ (x.kind \in Prose => x.id = <<>>)
  /\ (x.kind = "tool" => IsCallId(b, q.blocks[b].named, x.id))

\* b is the new block.
Adds1(r, q, b) == Lengthens(r, q) /\ b = Len(r.blocks) + 1

LEMMA OpensBlank ==
  ASSUME NEW r, NEW v, NEW m, Following(r, v, m), NEW q, NEW b, Adds1(r, q, b), NEW sig, NEW r1, Blanked(q, b, sig, r1),
         NEW p, Speaks(p), p.out = m.out, NEW x, Fresh(q, b, sig, x), Gains(m.content, p.content, x),
         NEW n, n = EmitOpened(p, b)
  PROVE  SameBooks(p, n) /\ n.content = p.content /\ Following(r1, v, n)
<1>. DEFINE s == r1.blocks[b]
            w == Live(x.kind, <<>>)
<1>1. /\ Len(r.blocks) \in Nat
  BY FollowingIs
<1>2. /\ Len(q.blocks) = Len(r1.blocks) /\ Len(q.blocks) = b
      /\ \A k \in 1..Len(r.blocks) : Same(r, q, k) /\ Same(r1, q, k)
      /\ s.kind = x.kind /\ s.named = q.blocks[b].named /\ s.open /\ s.sent = <<>>
  BY <1>1 DEF Blanked, Adds1, Lengthens, Touches, Fresh
<1>3. Lengthens(r, r1)
  <2>1. \A k \in 1..Len(r.blocks) : Same(r, r1, k)
    BY <1>2 DEF Same, Alike
  <2>2. Len(r1.blocks) = Len(r.blocks) + 1
    BY <1>2 DEF Adds1
  <2>. QED BY <2>1, <2>2 DEF Lengthens
<1>4. Agrees(b, s, x, w)
  <2>1. s.kind \in Kinds /\ s.kind # "redacted" /\ s.sig = x.sig
    BY <1>2 DEF Blanked, IsBlock, Kinds, Fresh
  <2>. HIDE DEF s
  <2>2. \A kind, text : Seen(s, kind, text) = Live(kind, <<>>)
    BY <1>2, Zenon DEF Seen
  <2>3. s.kind \in Prose => AgreesProse(s, x, w)
    BY <1>2, <2>2 DEF AgreesProse, Fresh
  <2>4. s.kind = "tool" => AgreesCall(b, s, x, w)
    BY <1>2, <2>2 DEF AgreesCall, Fresh
  <2>. QED BY <2>1, <2>3, <2>4 DEF Agrees, Fresh
<1>5. w = Live(x.kind, <<>>)
  OBVIOUS
<1>. HIDE DEF w, s
<1>. QED BY <1>3, <1>4, <1>5, OpensNew DEF s, Adds1, Fresh

LEMMA SameThrough ==
  ASSUME NEW m, NEW n, SameBooks(m, n), NEW o, SameBooks(n, o)
  PROVE  SameBooks(m, o)
BY DEF SameBooks

\* What was there stays.
Stays(m, n) == \A k \in 1..Len(m.content) : n.content[k] = m.content[k]

LEMMA BeginsProse ==
  ASSUME NEW api, NEW q, IsReply(api, q), NEW r, NEW v, NEW m, Following(r, v, m),
         NEW b, Adds1(r, q, b), NEW kind, kind \in Prose,
         q.blocks[b].kind = kind, q.blocks[b].open, q.blocks[b].sig = <<>>,
         NEW p, Speaks(p), p.out = m.out, NEW x, x = Block(kind),
         Gains(m.content, p.content, x), NEW text, text = q.blocks[b].sent,
         NEW o, o = EmitOpened(p, b), NEW n, n = Emit(Extend(o, b, kind, text), Delta(b, kind, text))
  PROVE  SameBooks(p, n) /\ Stays(m, n) /\ n.content[b].kind = kind /\ Following(q, v, n)
<1>0. /\ Following(r, v, m) /\ Adds1(r, q, b)
      /\ Speaks(p) /\ p.out = m.out /\ Gains(m.content, p.content, x) /\ o = EmitOpened(p, b)
  OBVIOUS
<1>1. Len(r.blocks) \in Nat /\ Len(m.content) = Len(r.blocks) /\ b \in 1..Len(q.blocks)
      /\ b = Len(r.blocks) + 1 /\ Lengthens(r, q)
  BY FollowingIs DEF Lengthens, Adds1
<1>. DEFINE sig == <<>>
<1>2. PICK r1 : Blanked(q, b, sig, r1)
  <2>. HIDE DEF sig
  <2>. QED BY <1>1, BlankExists
<1>3. IsBlock(x) /\ x.kind = kind /\ x.id = <<>> /\ x.text = <<>> /\ x.sig = <<>>
      /\ x.redacted = FALSE /\ kind # "tool"
  BY NewBlockFields DEF Prose, Kinds
<1>31. Fresh(q, b, sig, x)
  BY <1>3 DEF Fresh
<1>. HIDE DEF sig
<1>4. SameBooks(p, o) /\ o.content = p.content /\ Following(r1, v, o)
  BY ONLY <1>0, <1>2, <1>31, OpensBlank
<1>32. Touches(r1, q, b) /\ LongerBy(r1.blocks[b], q.blocks[b], text)
      /\ kind = r1.blocks[b].kind
  <2>1. text \in Seq(Seq(Nat))
    BY <1>1, ReplyFacts
  <2>2. <<>> \o text = text
    BY <2>1
  <2>. QED BY <1>2, <2>2 DEF Blanked, LongerBy, sig
<1>6. Retells(o, n, b) /\ Following(q, v, n)
  BY <1>4, <1>32, GrowsProse
<1>7. SameBooks(p, n)
  BY ONLY <1>4, <1>6, SameThrough DEF Retells
<1>8. Stays(m, n) /\ n.content[b].kind = kind
  <2>1. Gains(m.content, o.content, x) /\ Retells(o, n, b) /\ x.kind = kind
        /\ Len(m.content) \in Nat /\ b = Len(m.content) + 1
    BY <1>1, <1>3, <1>4, <1>6
  <2>. QED BY ONLY <2>1 DEF Retells, Stays, Gains
<1>. QED BY <1>6, <1>7, <1>8

LEMMA ArgsAdded ==
  ASSUME NEW api, NEW r, IsReply(api, r), NEW m, Args(r, m), NEW q, NEW n, NEW b,
         Adds1(r, q, b),
         \/ n.buf = m.buf /\ (q.blocks[b].kind = "tool" => q.blocks[b].sent = <<>>)
         \/ n.buf = Put(m.buf, b, q.blocks[b].sent)
  PROVE  Args(q, n)
<1>1. b = Len(r.blocks) + 1 /\ Lengthens(r, q)
  BY DEF Adds1
<1>. QED BY <1>1, ArgsBegin

LEMMA BeginsCall ==
  ASSUME NEW api, NEW q, IsReply(api, q), NEW r, NEW v, NEW m, Following(r, v, m),
         NEW b, Adds1(r, q, b),
         q.blocks[b].kind = "tool", q.blocks[b].open, q.blocks[b].sig = <<>>, q.blocks[b].named,
         NEW p, Speaks(p), p.out = m.out, NEW id, id = <<b>>, NEW x, x = ToolBlock(id),
         Gains(m.content, p.content, x), NEW text, text = q.blocks[b].sent,
         p.buf = m.buf, IsReply(api, r), Args(r, m),
         NEW o, o = EmitOpened(p, b), NEW n,
         n = IF text = <<>> THEN o ELSE Emit(Collect(o, b, text), Delta(b, "tool", text))
  PROVE  /\ Following(q, v, n) /\ Args(q, n)
         /\ n.stop = p.stop /\ n.at = p.at /\ n.open = p.open /\ n.text = p.text
         /\ n.think = p.think /\ n.finish = p.finish /\ n.saw = p.saw
         /\ DOMAIN n.buf \subseteq DOMAIN m.buf \cup {b}
<1>0. /\ Following(r, v, m) /\ Adds1(r, q, b)
      /\ Speaks(p) /\ p.out = m.out /\ Gains(m.content, p.content, x) /\ o = EmitOpened(p, b)
  OBVIOUS
<1>1. Len(r.blocks) \in Nat /\ Len(m.content) = Len(r.blocks) /\ b \in 1..Len(q.blocks)
      /\ b = Len(r.blocks) + 1 /\ Lengthens(r, q)
  BY FollowingIs DEF Lengthens, Adds1
<1>3. IsBlock(x) /\ x.kind = "tool" /\ x.id = id /\ x.text = <<>> /\ x.sig = <<>>
      /\ x.redacted = FALSE /\ x.kind \notin Prose
  BY NewBlockFields DEF Prose
<1>4. IsCallId(b, q.blocks[b].named, x.id)
  BY <1>3, Zenon DEF IsCallId
<1>5. text \in Seq(Seq(Nat)) /\ \A k \in 1..Len(q.blocks) : DOMAIN q.blocks[k] = SaidFields
  BY <1>1, ReplyFacts
<1>6. <<>> \o text = text
  BY <1>5
<1>7. b \notin DOMAIN m.buf
  BY <1>1 DEF Args
<1>8. CASE text = <<>>
  <2>1. n = o
    BY <1>8
  <2>. DEFINE sig == x.sig
  <2>2. Blanked(q, b, sig, q) /\ Fresh(q, b, sig, x)
    BY <1>1, <1>3, <1>4, <1>5, <1>8 DEF Blanked, Touches, Same, Alike, Fresh
  <2>. HIDE DEF sig
  <2>3. SameBooks(p, n) /\ Following(q, v, n)
    BY ONLY <1>0, <2>1, <2>2, OpensBlank
  <2>4. n.buf = m.buf /\ q.blocks[b].sent = <<>>
    BY <1>8, <2>3 DEF SameBooks
  <2>5. Args(q, n)
    BY <2>4, ArgsAdded
  <2>. QED BY <2>3, <2>4, <2>5 DEF SameBooks
<1>9. CASE text # <<>>
  <2>. DEFINE sig == <<>>
  <2>1. n = Emit(Collect(o, b, text), Delta(b, "tool", text))
    BY <1>9
  <2>2. PICK r1 : Blanked(q, b, sig, r1)
    <3>. HIDE DEF sig
    <3>. QED BY <1>1, BlankExists
  <2>21. Fresh(q, b, sig, x)
    BY <1>3, <1>4 DEF Fresh
  <2>22. <<>> = sig
    OBVIOUS
  <2>. HIDE DEF sig
  <2>3. SameBooks(p, o) /\ o.content = p.content /\ Following(r1, v, o)
    BY ONLY <1>0, <2>2, <2>21, OpensBlank
  <2>4. /\ Touches(r1, q, b) /\ LongerBy(r1.blocks[b], q.blocks[b], text)
        /\ r1.blocks[b].kind = "tool"
    BY <1>6, <2>2, <2>22 DEF Blanked, LongerBy
  <2>5. Buffers(o, n, b, text) /\ Following(q, v, n)
    BY <2>1, <2>3, <2>4, GrowsCall
  <2>6. o.buf = m.buf
    BY <2>3 DEF SameBooks
  <2>7. n.buf = Put(m.buf, b, text)
    <3>1. Lookup(m.buf, b, <<>>) = <<>>
      BY <1>7, Zenon DEF Lookup, Known
    <3>. QED BY ONLY <1>6, <2>5, <2>6, <3>1, Zenon DEF Buffers
  <2>8. Args(q, n)
    BY <2>7, ArgsAdded
  <2>9. DOMAIN n.buf \subseteq DOMAIN m.buf \cup {b}
    BY <2>7, Zenon DEF Put
  <2>. QED BY <2>3, <2>5, <2>8, <2>9 DEF Buffers, SameBooks
<1>. QED BY <1>8, <1>9

-----------------------------------------------------------------------------
(* Bedrock. *)

\* A block was put at the end of the message, and at b of the index.
Puts(m, n, b, block) ==
  /\ Speaks(n) /\ n.out = m.out /\ Gains(m.content, n.content, block)
  /\ n.at = Put(m.at, b, b) /\ n.stop = m.stop /\ n.buf = m.buf /\ n.ended = m.ended
  /\ n.open = m.open /\ n.text = m.text /\ n.think = m.think /\ n.finish = m.finish
  /\ n.saw = m.saw

LEMMA PutsIs ==
  ASSUME NEW m, Speaks(m), NEW b, b = Len(m.content) + 1, NEW block, IsBlock(block), NEW n,
         n = [Add(m, block) EXCEPT !.at = Put(@, b, NextIndex(m))]
  PROVE  Puts(m, n, b, block)
<1>. DEFINE a == Add(m, block)
            at == Put(a.at, b, b)
<1>1. Speaks(a) /\ a.out = m.out /\ SameBooks(m, a) /\ Gains(m.content, a.content, block)
  BY AddIs
<1>2. NextIndex(m) = b /\ b \in Nat
  BY ContentIs
<1>. HIDE DEF a
<1>3. n = [a EXCEPT !.at = at]
  BY <1>2, Zenon DEF a
<1>4. Speaks(n) /\ n.content = a.content /\ n.at = at
  BY ONLY <1>1, <1>2, <1>3, Indexes
<1>. HIDE DEF at
<1>5. /\ n.out = a.out /\ n.stop = a.stop /\ n.buf = a.buf /\ n.ended = a.ended
      /\ n.open = a.open /\ n.text = a.text /\ n.think = a.think /\ n.finish = a.finish
      /\ n.saw = a.saw
  BY <1>1, <1>3 DEF Speaks, Machine
<1>6. at = Put(m.at, b, b)
  BY <1>1 DEF at, SameBooks
<1>. QED BY <1>1, <1>4, <1>5, <1>6 DEF Puts, SameBooks

\* The index after one more block.
LEMMA PlacedOn ==
  ASSUME NEW m, NEW S, Placed(m, S), NEW b, NEW n, n.at = Put(m.at, b, b)
  PROVE  Placed(n, S \cup {b})
BY DEF Placed, Put

\* A fragment of text, whose block is announced as long as it is empty.
LEMMA GrowsAgain ==
  ASSUME NEW r, NEW v, NEW m, Following(r, v, m), NEW q, NEW b, Touches(r, q, b), NEW text,
         LongerBy(r.blocks[b], q.blocks[b], text), NEW kind, kind = r.blocks[b].kind,
         kind \in Prose,
         NEW o, o = IF m.content[b].text = <<>> THEN EmitOpened(m, b) ELSE m,
         NEW n, n = Emit(Extend(o, b, kind, text), Delta(b, kind, text))
  PROVE  Retells(m, n, b) /\ Following(q, v, n)
<1>0. Following(r, v, m) /\ b \in 1..Len(r.blocks) /\ r.blocks[b].open
      /\ r.blocks[b].kind \in Prose
  BY DEF Touches, LongerBy
<1>1. m.content[b].text = r.blocks[b].sent
  BY <1>0, KeptIs DEF Kept
<1>2. SameBooks(m, o) /\ o.content = m.content /\ Following(r, v, o)
  <2>1. CASE m.content[b].text = <<>>
    <3>1. o = EmitOpened(m, b) /\ r.blocks[b].sent = <<>>
      BY <1>1, <2>1
    <3>. QED BY ONLY <1>0, <3>1, OpensAgain
  <2>2. CASE m.content[b].text # <<>>
    BY <1>0, <2>2 DEF SameBooks
  <2>. QED BY <2>1, <2>2
<1>3. /\ Touches(r, q, b) /\ LongerBy(r.blocks[b], q.blocks[b], text)
      /\ kind = r.blocks[b].kind /\ kind \in Prose
      /\ n = Emit(Extend(o, b, kind, text), Delta(b, kind, text))
  OBVIOUS
<1>4. Retells(o, n, b) /\ Following(q, v, n)
  BY ONLY <1>2, <1>3, GrowsProse
<1>5. SameBooks(m, n)
  BY ONLY <1>2, <1>4, SameThrough DEF Retells
<1>6. Retells(m, n, b)
  BY ONLY <1>2, <1>4, <1>5 DEF Retells
<1>. QED BY <1>4, <1>6

-----------------------------------------------------------------------------
(* Bedrock. *)

LEMMA BedrockStays ==
  ASSUME NEW r, NEW m, BedrockBooks(r, m), NEW q, q.stop = r.stop,
         NEW n, n.stop = m.stop, n.saw = m.saw, Args(q, n), Placed(n, 1..Len(q.blocks))
  PROVE  BedrockBooks(q, n)
BY DEF BedrockBooks, StopFollows

\* A call is announced.
LEMMA BedrockOpens ==
  ASSUME NEW r, IsReply("bedrock", r), NEW e, NEW q, IsReply("bedrock", q),
         Begun1("bedrock", r, e, q), q.blocks[e.b].open, e.head = TRUE, e.kind = "tool",
         NEW v, NEW m, GoesOn("bedrock", r, v, m)
  PROVE  GoesOn("bedrock", q, v, Bedrock!OnContentBlockStart(m, e))
<1>. DEFINE b == e.b
            id == <<b>>
            x == ToolBlock(id)
            a == [Add(m, x) EXCEPT !.at = Put(@, b, NextIndex(m))]
            buf == Put(a.buf, b, <<>>)
            p == [a EXCEPT !.buf = buf]
            n == EmitOpened(p, b)
            sig == <<>>
<1>1. /\ Following(r, v, m) /\ BedrockBooks(r, m) /\ Speaks(m)
      /\ Len(r.blocks) \in Nat /\ Len(m.content) = Len(r.blocks)
  BY FollowingIs, BooksAre DEF GoesOn
<1>2. /\ b = Len(r.blocks) + 1 /\ Adds1(r, q, b) /\ q.stop = r.stop
      /\ q.blocks[b].kind = "tool" /\ q.blocks[b].sent = e.text /\ q.blocks[b].sig = e.sig
      /\ q.blocks[b].named
      /\ e.text \in Heads("bedrock", e.kind, e.b)
      /\ MayComeSigned("bedrock", e.kind, e.sig # <<>>)
      /\ Len(q.blocks) = Len(r.blocks) + 1
  BY DEF Begun1, Adds1, Lengthens
<1>3. q.blocks[b].sent = <<>>
  BY <1>2 DEF Heads
<1>4. q.blocks[b].sig = sig
  <2>1. (e.sig # <<>>) = (e.kind = "redacted")
    BY <1>2 DEF MayComeSigned
  <2>. QED BY <1>2, <2>1
<1>5. IsBlock(x) /\ x.kind = "tool" /\ x.id = id /\ x.text = <<>> /\ x.sig = <<>>
      /\ x.redacted = FALSE /\ x.kind \notin Prose
  BY NewBlockFields DEF Prose
<1>6. IsCallId(b, q.blocks[b].named, x.id)
  BY <1>2, <1>5, Zenon DEF IsCallId
<1>7. Fresh(q, b, sig, x)
  BY <1>2, <1>5, <1>6 DEF Fresh
<1>8. Blanked(q, b, sig, q)
  <2>1. \A k \in 1..Len(q.blocks) : Same(q, q, k)
    BY ReplyFacts DEF Same, Alike
  <2>. QED BY <1>1, <1>2, <1>3, <1>4, <2>1 DEF Blanked, Touches
<1>. HIDE DEF x, sig
<1>9. Puts(m, a, b, x)
  BY <1>1, <1>2, <1>5, PutsIs
<1>. HIDE DEF a
<1>10. Speaks(a) /\ Gains(m.content, a.content, x) /\ a.at = Put(m.at, b, b) /\ a.buf = m.buf
       /\ a.out = m.out /\ a.stop = m.stop /\ a.saw = m.saw
  BY <1>9 DEF Puts
<1>. HIDE DEF buf
<1>11. Speaks(p) /\ p.content = a.content /\ p.at = a.at /\ p.buf = buf /\ p.out = a.out
       /\ p.stop = a.stop /\ p.saw = a.saw
  <2>1. Speaks(p) /\ p.content = a.content /\ p.at = a.at
    BY <1>10, Notes
  <2>. QED BY <1>10, <2>1 DEF Speaks, Machine
<1>. HIDE DEF p
<1>12. p.out = m.out /\ Gains(m.content, p.content, x)
  BY <1>10, <1>11
<1>13. n = EmitOpened(p, b)
  OBVIOUS
<1>. HIDE DEF n
<1>14. SameBooks(p, n) /\ n.content = p.content /\ Following(q, v, n)
  <2>. HIDE DEF b
  <2>. QED BY ONLY <1>1, <1>2, <1>7, <1>8, <1>11, <1>12, <1>13, OpensBlank
<1>15. BedrockBooks(q, n)
  <2>1. n.buf = Put(m.buf, b, q.blocks[b].sent)
    BY <1>3, <1>10, <1>11, <1>14 DEF SameBooks, buf
  <2>2. Args(q, n)
    <3>. HIDE DEF b
    <3>. QED BY <1>1, <1>2, <2>1, ArgsAdded DEF BedrockBooks
  <2>3. n.at = Put(m.at, b, b) /\ n.stop = m.stop /\ n.saw = m.saw
    BY <1>10, <1>11, <1>14 DEF SameBooks
  <2>4. Placed(n, 1..Len(q.blocks))
    <3>1. Placed(n, (1..Len(r.blocks)) \cup {b})
      BY <1>1, <2>3, PlacedOn DEF BedrockBooks
    <3>2. (1..Len(r.blocks)) \cup {b} = 1..Len(q.blocks)
      BY <1>1, <1>2
    <3>. QED BY <3>1, <3>2
  <2>. QED BY <1>1, <1>2, <2>2, <2>3, <2>4, BedrockStays
<1>16. n = Bedrock!OnContentBlockStart(m, e)
  <2>1. Bedrock!OnContentBlockStart(m, e) =
          EmitOpened([Add(m, x) EXCEPT !.at = Put(@, b, NextIndex(m)),
                                       !.buf = Put(@, b, <<>>)], NextIndex(m))
    BY BedrockShares, Zenon DEF Bedrock!OnContentBlockStart, x
  <2>2. NextIndex(m) = b
    BY <1>1, <1>2, ContentIs
  <2>3. [Add(m, x) EXCEPT !.at = Put(@, b, NextIndex(m)), !.buf = Put(@, b, <<>>)] = p
    <3>1. Speaks(Add(m, x))
      BY <1>1, <1>5, AddIs
    <3>2. \A f, at1 : [f EXCEPT !.at = at1, !.buf = Put(@, b, <<>>)]
            = [[f EXCEPT !.at = at1] EXCEPT !.buf = Put(f.buf, b, <<>>)]
      OBVIOUS
    <3>3. a.buf = Add(m, x).buf
      BY <1>10, <1>1 DEF Add, Speaks, Machine
    <3>. DEFINE f == Add(m, x)
                at1 == Put(f.at, b, NextIndex(m))
    <3>4. [f EXCEPT !.at = at1, !.buf = Put(@, b, <<>>)]
            = [[f EXCEPT !.at = at1] EXCEPT !.buf = Put(f.buf, b, <<>>)]
      BY <3>2
    <3>5. a = [f EXCEPT !.at = at1]
      BY DEF a
    <3>. HIDE DEF f
    <3>6. Put(f.buf, b, <<>>) = buf
      BY <3>3 DEF f, buf
    <3>. QED BY <3>4, <3>5, <3>6 DEF f, at1, p
  <2>. QED BY <2>1, <2>2, <2>3 DEF n
<1>17. GoesOn("bedrock", q, v, n)
  BY <1>14, <1>15, BooksAre DEF GoesOn
<1>. QED BY <1>16, <1>17

\* A text or a thought begins with its first fragment.
LEMMA BedrockBegins ==
  ASSUME NEW r, IsReply("bedrock", r), NEW e, NEW q, IsReply("bedrock", q),
         Begun1("bedrock", r, e, q), q.blocks[e.b].open, e.kind \in Prose, e.type = "frag",
         NEW v, NEW m, GoesOn("bedrock", r, v, m)
  PROVE  GoesOn("bedrock", q, v, Bedrock!OnContentBlockDelta(m, e))
<1>. DEFINE b == e.b
            kind == e.kind
            text == e.text
            x == Block(kind)
            p == [Add(m, x) EXCEPT !.at = Put(@, b, NextIndex(m))]
            o == EmitOpened(p, b)
            n == Emit(Extend(o, b, kind, text), Delta(b, kind, text))
<1>1. /\ Following(r, v, m) /\ BedrockBooks(r, m) /\ Speaks(m)
      /\ Len(r.blocks) \in Nat /\ Len(m.content) = Len(r.blocks)
  BY FollowingIs, BooksAre DEF GoesOn
<1>2. /\ b = Len(r.blocks) + 1 /\ Adds1(r, q, b) /\ q.stop = r.stop
      /\ q.blocks[b].kind = kind /\ text = q.blocks[b].sent /\ q.blocks[b].sig = e.sig
      /\ MayComeSigned("bedrock", e.kind, e.sig # <<>>)
      /\ Len(q.blocks) = Len(r.blocks) + 1 /\ q.blocks[b].open
  BY DEF Begun1, Adds1, Lengthens
<1>3. kind # "tool" /\ kind # "redacted" /\ kind \in Kinds /\ kind \in Prose
  BY DEF Prose, Kinds
<1>4. q.blocks[b].sig = <<>>
  <2>1. (e.sig # <<>>) = (e.kind = "redacted")
    BY <1>2 DEF MayComeSigned
  <2>. QED BY <1>2, <1>3, <2>1
<1>5. IsBlock(x) /\ x = Block(kind) /\ x.text = <<>> /\ x.kind = kind
  BY <1>3, NewBlockFields
<1>. HIDE DEF x
<1>6. Puts(m, p, b, x)
  BY <1>1, <1>2, <1>5, PutsIs
<1>7. p = [Add(m, x) EXCEPT !.at = Put(@, b, NextIndex(m))]
  OBVIOUS
<1>. HIDE DEF p
<1>8. Speaks(p) /\ Gains(m.content, p.content, x) /\ p.at = Put(m.at, b, b) /\ p.buf = m.buf
       /\ p.out = m.out /\ p.stop = m.stop /\ p.saw = m.saw
  BY <1>6 DEF Puts
<1>9. o = EmitOpened(p, b) /\ n = Emit(Extend(o, b, kind, text), Delta(b, kind, text))
  OBVIOUS
<1>10. IsReply("bedrock", q)
  OBVIOUS
<1>. HIDE DEF o, n
<1>11. SameBooks(p, n) /\ Stays(m, n) /\ n.content[b].kind = kind /\ Following(q, v, n)
  <2>. HIDE DEF b, kind, text
  <2>. QED BY ONLY <1>1, <1>2, <1>3, <1>4, <1>5, <1>8, <1>9, <1>10, BeginsProse
<1>12. BedrockBooks(q, n)
  <2>1. n.buf = m.buf /\ n.at = Put(m.at, b, b) /\ n.stop = m.stop /\ n.saw = m.saw
    BY <1>8, <1>11 DEF SameBooks
  <2>2. Args(q, n)
    <3>. HIDE DEF b, kind
    <3>. QED BY <1>1, <1>2, <1>3, <2>1, ArgsAdded DEF BedrockBooks
  <2>4. Placed(n, 1..Len(q.blocks))
    <3>1. Placed(n, (1..Len(r.blocks)) \cup {b})
      BY <1>1, <2>1, PlacedOn DEF BedrockBooks
    <3>2. (1..Len(r.blocks)) \cup {b} = 1..Len(q.blocks)
      BY <1>1, <1>2
    <3>. QED BY <3>1, <3>2
  <2>. QED BY <1>1, <1>2, <2>1, <2>2, <2>4, BedrockStays
<1>13. n = Bedrock!OnContentBlockDelta(m, e)
  <2>1. Bedrock!AddAt(m, e) = p
    BY <1>7, BedrockShares, Zenon DEF Bedrock!AddAt, x
  <2>2. ~Bedrock!Known(m.at, e.b)
    <3>1. DOMAIN m.at = 1..Len(r.blocks)
      BY <1>1 DEF BedrockBooks, Placed
    <3>2. b \notin 1..Len(r.blocks)
      BY <1>1, <1>2
    <3>. QED BY <3>1, <3>2, BedrockShares DEF Known
  <2>3. p.at[b] = b /\ p.content[b] = x
    <3>1. p.at[b] = b
      BY <1>8 DEF Put
    <3>2. b = Len(m.content) + 1
      BY <1>1, <1>2
    <3>. QED BY <1>8, <3>1, <3>2 DEF Gains
  <2>4. CASE kind = "text"
    <3>1. Bedrock!Is(p, b, "text")
      <4>1. b \in DOMAIN p.content
        BY <1>1, <1>2, <1>8 DEF Gains
      <4>. QED BY <1>5, <2>3, <2>4, <4>1, BedrockShares DEF Is
    <3>2. Bedrock!OnContentBlockDelta(m, e) = Bedrock!OnTextDelta(m, e)
      BY <2>4, Zenon DEF Bedrock!OnContentBlockDelta
    <3>3. Bedrock!OnTextDelta(m, e) =
            LET i == p.at[e.b]
                first == Bedrock!Is(p, i, "text") /\ p.content[i].text = <<>>
            IN Bedrock!Emit(Bedrock!Extend(IF first THEN Bedrock!EmitOpened(p, i) ELSE p,
                                           i, "text", e.text),
                            Bedrock!Delta(i, "text", e.text))
      BY <2>1, <2>2, Zenon DEF Bedrock!OnTextDelta
    <3>4. p.at[e.b] = b
      BY <2>3
    <3>5. p.content[b].text = <<>>
      BY <1>5, <2>3
    <3>6. Bedrock!OnTextDelta(m, e) =
            Bedrock!Emit(Bedrock!Extend(Bedrock!EmitOpened(p, b), b, "text", e.text),
                         Bedrock!Delta(b, "text", e.text))
      <4>. HIDE DEF b
      <4>. QED BY <3>1, <3>3, <3>4, <3>5, Zenon
    <3>. QED BY <1>9, <2>4, <3>2, <3>6, BedrockShares, Zenon
  <2>5. CASE kind = "thinking"
    <3>2. Bedrock!OnContentBlockDelta(m, e) = Bedrock!OnReasoning(m, e)
      BY <2>5, Zenon DEF Bedrock!OnContentBlockDelta
    <3>3. Bedrock!EmitOpened(p, p.at[e.b]) = o
      BY <1>9, <2>3, BedrockShares, Zenon
    <3>4. o.at = p.at
      BY <1>8, <1>9, EmitIs DEF EmitOpened, SameBooks
    <3>5. o.at[e.b] = b
      BY <2>3, <3>4
    <3>6. Bedrock!OnReasoning(m, e) =
            Bedrock!Emit(Bedrock!Extend(o, o.at[e.b], "thinking", e.text),
                         Bedrock!Delta(o.at[e.b], "thinking", e.text))
      <4>1. e.type # "sign"
        OBVIOUS
      <4>. QED BY <2>1, <2>2, <3>3, <4>1, Zenon DEF Bedrock!OnReasoning
    <3>. QED BY <1>9, <2>5, <3>2, <3>5, <3>6, BedrockShares, Zenon
  <2>. QED BY <1>3, <2>4, <2>5 DEF Prose
<1>14. GoesOn("bedrock", q, v, n)
  BY <1>11, <1>12, BooksAre DEF GoesOn
<1>. QED BY <1>13, <1>14

\* A fragment of a block that is there.
LEMMA BedrockGrows ==
  ASSUME NEW r, IsReply("bedrock", r), NEW e, NEW q, Grows("bedrock", r, e, q),
         NEW v, NEW m, GoesOn("bedrock", r, v, m)
  PROVE  /\ e.type = "frag"
         /\ GoesOn("bedrock", q, v, Bedrock!OnContentBlockDelta(m, e))
<1>. DEFINE n == Bedrock!OnContentBlockDelta(m, e)
            b == e.b
<1>1. Following(r, v, m) /\ BedrockBooks(r, m)
  BY BooksAre DEF GoesOn
<1>2. Grown(r, e, q)
  BY GrowthIs
<1>3. /\ Touches(r, q, b) /\ LongerBy(r.blocks[b], q.blocks[b], e.text)
      /\ e.kind = r.blocks[b].kind /\ e.kind \in Kinds /\ q.stop = r.stop
      /\ q.blocks[b].kind = r.blocks[b].kind /\ e.type = "frag"
      /\ b \in 1..Len(r.blocks) /\ Len(q.blocks) = Len(r.blocks)
  BY <1>2 DEF Grown, LongerBy, Touches
<1>4. Bedrock!Known(m.at, e.b) /\ m.at[e.b] = b /\ Placed(m, 1..Len(r.blocks))
  BY <1>1, <1>3, BedrockShares DEF BedrockBooks, Placed, Known
<1>5. CASE e.kind = "tool"
  <2>1. n = Emit(Collect(m, b, e.text), Delta(b, "tool", e.text))
    <3>1. n = Bedrock!OnToolInput(m, e)
      BY <1>5, Zenon DEF Bedrock!OnContentBlockDelta
    <3>2. Bedrock!OnToolInput(m, e) =
            Bedrock!Emit(Bedrock!Collect(m, e.b, e.text), Bedrock!Delta(m.at[e.b], "tool", e.text))
      BY <1>4, Zenon DEF Bedrock!OnToolInput
    <3>. QED BY <1>4, <3>1, <3>2, BedrockShares, Zenon
  <2>. HIDE DEF n, b
  <2>2. Buffers(m, n, b, e.text) /\ Following(q, v, n)
    BY <1>1, <1>3, <1>5, <2>1, GrowsCall
  <2>3. Args(q, n)
    BY <1>1, <1>3, <1>5, <2>2, ArgsGrow DEF BedrockBooks
  <2>4. n.stop = m.stop /\ n.saw = m.saw /\ Placed(n, 1..Len(q.blocks))
    BY <1>3, <1>4, <2>2 DEF Buffers, Placed
  <2>5. BedrockBooks(q, n)
    BY <1>1, <1>3, <2>3, <2>4, BedrockStays
  <2>. QED BY <1>3, <2>2, <2>5, BooksAre DEF GoesOn, n
<1>6. CASE e.kind # "tool"
  <2>0. e.kind \in Prose /\ r.blocks[b].kind # "tool"
    BY <1>3, <1>6 DEF Kinds, Prose
  <2>1. Retells(m, n, b) /\ Following(q, v, n)
    <3>1. CASE e.kind = "text"
      <4>1. Bedrock!Is(m, b, "text")
        <5>1. Kept(b, r.blocks[b], m.content[b]) /\ DOMAIN m.content = 1..Len(r.blocks)
          BY <1>1, <1>3, KeptIs, FollowingIs
        <5>2. m.content[b].kind = "text"
          BY <1>3, <2>0, <3>1, <5>1 DEF Kept
        <5>. QED BY <1>3, <5>1, <5>2, BedrockShares DEF Is
      <4>. DEFINE kind == e.kind
                  o == IF m.content[b].text = <<>> THEN EmitOpened(m, b) ELSE m
      <4>2. n = Bedrock!OnTextDelta(m, e)
        BY <3>1, Zenon DEF Bedrock!OnContentBlockDelta
      <4>3. Bedrock!OnTextDelta(m, e) =
              LET i == m.at[e.b]
                  first == Bedrock!Is(m, i, "text") /\ m.content[i].text = <<>>
              IN Bedrock!Emit(Bedrock!Extend(IF first THEN Bedrock!EmitOpened(m, i) ELSE m,
                                             i, "text", e.text),
                              Bedrock!Delta(i, "text", e.text))
        BY <1>4, Zenon DEF Bedrock!OnTextDelta
      <4>4. Bedrock!OnTextDelta(m, e) = Emit(Extend(o, b, "text", e.text), Delta(b, "text", e.text))
        <5>. HIDE DEF b
        <5>. QED BY <1>4, <4>1, <4>3, BedrockShares, Zenon
      <4>5. n = Emit(Extend(o, b, kind, e.text), Delta(b, kind, e.text))
        BY <3>1, <4>2, <4>4, Zenon
      <4>6. o = IF m.content[b].text = <<>> THEN EmitOpened(m, b) ELSE m
        OBVIOUS
      <4>. HIDE DEF n, o, kind
      <4>7. kind \in Prose /\ kind = r.blocks[b].kind
        BY <1>3, <2>0 DEF kind
      <4>. QED BY <1>1, <1>3, <4>5, <4>6, <4>7, GrowsAgain
    <3>2. CASE e.kind = "thinking"
      <4>1. n = Bedrock!OnReasoning(m, e)
        BY <3>2, Zenon DEF Bedrock!OnContentBlockDelta
      <4>2. Bedrock!OnReasoning(m, e) =
              Bedrock!Emit(Bedrock!Extend(m, m.at[e.b], "thinking", e.text),
                           Bedrock!Delta(m.at[e.b], "thinking", e.text))
        <5>1. e.type # "sign"
          BY <1>3
        <5>. QED BY <1>4, <5>1, Zenon DEF Bedrock!OnReasoning
      <4>3. n = Emit(Extend(m, b, e.kind, e.text), Delta(b, e.kind, e.text))
        BY <1>4, <3>2, <4>1, <4>2, BedrockShares, Zenon
      <4>. HIDE DEF n
      <4>. QED BY <1>1, <1>3, <2>0, <4>3, GrowsProse
    <3>. QED BY <2>0, <3>1, <3>2 DEF Prose
  <2>. HIDE DEF n
  <2>2. n.buf = m.buf /\ n.stop = m.stop /\ n.saw = m.saw /\ n.at = m.at
    BY <2>1 DEF Retells, SameBooks
  <2>3. Args(q, n)
    BY <1>1, <1>3, <2>0, <2>2, ArgsKept DEF BedrockBooks
  <2>4. Placed(n, 1..Len(q.blocks))
    BY <1>3, <1>4, <2>2 DEF Placed
  <2>5. BedrockBooks(q, n)
    BY <1>1, <1>3, <2>2, <2>3, <2>4, BedrockStays
  <2>. QED BY <1>3, <2>1, <2>5, BooksAre DEF GoesOn, n
<1>. QED BY <1>5, <1>6

LEMMA BedrockSigned ==
  ASSUME NEW r, IsReply("bedrock", r), NEW e, NEW q, Signs("bedrock", r, e, q),
         NEW v, NEW m, GoesOn("bedrock", r, v, m)
  PROVE  /\ e.type = "sign"
         /\ GoesOn("bedrock", q, v, Bedrock!OnReasoning(m, e))
<1>. DEFINE n == Bedrock!OnReasoning(m, e)
            b == e.b
            c == m.content[b]
            sig == e.sig
<1>1. Following(r, v, m) /\ BedrockBooks(r, m) /\ Speaks(m)
  BY BooksAre, FollowingIs DEF GoesOn
<1>2. Signed(r, e, q)
  BY SigningIs
<1>3. /\ Touches(r, q, b) /\ b \in 1..Len(r.blocks) /\ q.stop = r.stop
      /\ r.blocks[b].open /\ q.blocks[b].open /\ r.blocks[b].kind \in Prose
      /\ r.blocks[b].kind = "thinking"
      /\ q.blocks[b].kind = r.blocks[b].kind /\ q.blocks[b].sent = r.blocks[b].sent
      /\ q.blocks[b].named = r.blocks[b].named /\ q.blocks[b].sig = sig
      /\ r.blocks[b].sig = <<>> /\ e.type = "sign" /\ sig = <<b>>
      /\ Len(q.blocks) = Len(r.blocks)
  BY <1>2 DEF Signed, Touches, Prose
<1>4. c.kind = "thinking" /\ c.sig = <<>> /\ b \in DOMAIN m.content
  BY <1>1, <1>3, KeptIs, FollowingIs DEF Kept
<1>41. Bedrock!Known(m.at, e.b) /\ m.at[e.b] = b /\ Placed(m, 1..Len(r.blocks))
  BY <1>1, <1>3, BedrockShares DEF BedrockBooks, Placed, Known
<1>5. Reblocked(m, n, b, Resigned(c, sig))
  <2>1. n = [m EXCEPT !.content[b].sig = @ \o sig]
    <3>1. Bedrock!Is(m, b, "thinking")
      BY <1>4, BedrockShares DEF Is
    <3>2. n = LET i == m.at[e.b] IN
              IF Bedrock!Is(m, i, "thinking") THEN [m EXCEPT !.content[i].sig = @ \o e.sig] ELSE m
      BY <1>3, <1>41, Zenon DEF Bedrock!OnReasoning
    <3>. HIDE DEF n, b
    <3>. QED BY <1>41, <3>1, <3>2, Zenon
  <2>. DEFINE y == c.sig \o sig
  <2>2. n = [m EXCEPT !.content[b].sig = y]
    BY <2>1, Zenon
  <2>3. y = sig
    BY <1>3, <1>4
  <2>. HIDE DEF y, n
  <2>. QED BY <2>2, <2>3, Zenon DEF Reblocked, Resigned
<1>. HIDE DEF n, sig
<1>6. Retells(m, n, b) /\ Following(q, v, n)
  BY <1>1, <1>3, <1>5, SignsProse
<1>7. n.buf = m.buf /\ n.stop = m.stop /\ n.saw = m.saw /\ n.at = m.at
  BY <1>6 DEF Retells, SameBooks
<1>8. Args(q, n)
  BY <1>1, <1>3, <1>7, ArgsKept DEF BedrockBooks
<1>81. Placed(n, 1..Len(q.blocks))
  BY <1>3, <1>41, <1>7 DEF Placed
<1>9. BedrockBooks(q, n)
  BY <1>1, <1>3, <1>7, <1>8, <1>81, BedrockStays
<1>. QED BY <1>3, <1>6, <1>9, BooksAre DEF GoesOn, n

LEMMA BedrockCloses ==
  ASSUME NEW r, IsReply("bedrock", r), NEW e, NEW q, Shuts("bedrock", r, e, q),
         NEW v, NEW m, GoesOn("bedrock", r, v, m)
  PROVE  /\ e.type = "close"
         /\ GoesOn("bedrock", q, v, Bedrock!OnContentBlockStop(m, e))
<1>. DEFINE b == e.b
            n == Bedrock!OnContentBlockStop(m, e)
            raw == Lookup(m.buf, b, <<>>)
            p == Parse(m, b, raw)
            o == EmitEnded(p, b)
<1>1. Following(r, v, m) /\ BedrockBooks(r, m)
  BY BooksAre DEF GoesOn
<1>2. Closed(r, e, q)
  BY ClosingIs
<1>3. /\ Touches(r, q, b) /\ b \in 1..Len(r.blocks) /\ q.stop = r.stop
      /\ r.blocks[b].open /\ ~q.blocks[b].open
      /\ q.blocks[b].kind = r.blocks[b].kind /\ q.blocks[b].sig = r.blocks[b].sig
      /\ q.blocks[b].named = r.blocks[b].named /\ q.blocks[b].sent = r.blocks[b].sent
      /\ r.blocks[b].kind \in Kinds \cup {"redacted"} /\ e.type = "close"
      /\ Len(q.blocks) = Len(r.blocks)
  BY <1>2 DEF Closed, Touches
<1>41. Bedrock!Known(m.at, e.b) /\ m.at[e.b] = b /\ Placed(m, 1..Len(r.blocks))
  BY <1>1, <1>3, BedrockShares DEF BedrockBooks, Placed, Known
<1>7. r.blocks[b].kind = "tool" => raw = r.blocks[b].sent
  BY <1>1, <1>3 DEF BedrockBooks, Args, Tools
<1>. HIDE DEF raw
<1>8. SameBooks(m, o) /\ Following(q, v, o)
  BY <1>1, <1>3, <1>7, ClosesBlock
<1>9. n = o
  <2>1. n = LET i == m.at[e.b] IN
            Bedrock!EmitEnded(Bedrock!Parse(m, i, Bedrock!Lookup(m.buf, e.b, <<>>)), i)
    BY <1>41, Zenon DEF Bedrock!OnContentBlockStop
  <2>. QED BY <1>41, <2>1, BedrockShares, Zenon DEF raw
<1>. HIDE DEF n, p, o
<1>10. n.buf = m.buf /\ n.stop = m.stop /\ n.saw = m.saw /\ n.at = m.at /\ Following(q, v, n)
  BY <1>8, <1>9 DEF SameBooks
<1>11. Args(q, n)
  BY <1>1, <1>3, <1>10, ArgsKept DEF BedrockBooks
<1>12. Placed(n, 1..Len(q.blocks))
  BY <1>3, <1>41, <1>10 DEF Placed
<1>13. BedrockBooks(q, n)
  BY <1>1, <1>3, <1>10, <1>11, <1>12, BedrockStays
<1>. QED BY <1>3, <1>10, <1>13, BooksAre DEF GoesOn, n

\* The reply's reason is noted.
BedrockNotes(m, e, n) == n = [m EXCEPT !.saw = TRUE, !.stop = Bedrock!MapStopReason(e.kind)]

LEMMA BedrockStopped ==
  ASSUME NEW r, IsReply("bedrock", r), NEW e, NEW q, Stops("bedrock", r, e, q),
         NEW v, NEW m, GoesOn("bedrock", r, v, m), NEW n, BedrockNotes(m, e, n)
  PROVE  e.type = "stop" /\ GoesOn("bedrock", q, v, n)
<1>1. Following(r, v, m) /\ BedrockBooks(r, m) /\ Speaks(m)
  BY BooksAre, FollowingIs DEF GoesOn
<1>2. Stopped(r, e, q) /\ e.type = IF "bedrock" = "responses" THEN "end" ELSE "stop"
  BY StoppingIs
<1>3. /\ q.blocks = r.blocks /\ r.stop = "none" /\ q.stop = e.kind
      /\ e.kind \in {"length", "refused", "tool_use", "stop"} /\ e.type = "stop"
  BY <1>2 DEF Stopped
<1>. DEFINE stop == Bedrock!MapStopReason(e.kind)
<1>4. stop = IF e.kind = "refused" THEN "error" ELSE e.kind
  BY <1>3 DEF Bedrock!MapStopReason
<1>. HIDE DEF stop
<1>5. /\ Speaks(n) /\ n.content = m.content /\ n.stop = stop /\ n.buf = m.buf /\ n.out = m.out
      /\ n.at = m.at /\ n.saw = TRUE
  <2>1. n = [m EXCEPT !.saw = TRUE, !.stop = stop]
    BY DEF stop, BedrockNotes
  <2>2. DOMAIN n = DOMAIN m /\ n.content = m.content /\ n.stop = stop /\ n.buf = m.buf
        /\ n.out = m.out /\ n.at = m.at /\ n.saw = TRUE /\ n.over = m.over
    BY <1>1, <2>1 DEF Speaks, Machine
  <2>. QED BY <1>1, <2>2, Keeps
<1>6. Len(q.blocks) = Len(r.blocks) /\ \A k \in 1..Len(r.blocks) : Same(r, q, k)
  BY <1>3, Unchanging
<1>7. Following(q, v, n)
  BY <1>1, <1>5, <1>6, FollowsSame
<1>8. Args(q, n)
  BY <1>1, <1>3, <1>5, Zenon DEF BedrockBooks, Args, Tools
<1>9. StopFollows(q, n.stop)
  BY <1>3, <1>4, <1>5 DEF StopFollows
<1>10. Placed(n, 1..Len(q.blocks))
  BY <1>1, <1>3, <1>5 DEF BedrockBooks, Placed
<1>11. n.saw \in BOOLEAN /\ (n.saw <=> q.stop # "none")
  BY <1>3, <1>5
<1>12. BedrockBooks(q, n)
  BY <1>8, <1>9, <1>10, <1>11 DEF BedrockBooks
<1>. QED BY <1>3, <1>7, <1>12, BooksAre DEF GoesOn

\* The connection ends.
LEMMA BedrockEnds ==
  ASSUME NEW r, IsReply("bedrock", r), NEW v, NEW m, GoesOn("bedrock", r, v, m)
  PROVE  /\ Fails(v, Incomplete(m))
         /\ Answers("bedrock", r, v, Bedrock!Eof(m))
<1>1. Following(r, v, m) /\ BedrockBooks(r, m) /\ Speaks(m)
  BY BooksAre, FollowingIs DEF GoesOn
<1>2. Fails(v, Incomplete(m))
  BY <1>1, FollowingFails
<1>3. Bedrock!Eof(m) = IF m.saw THEN Conclude(m) ELSE Incomplete(m)
  BY BedrockShares, Zenon DEF Bedrock!Eof
<1>4. CASE ~m.saw
  <2>1. Bedrock!Eof(m) = Incomplete(m)
    BY <1>3, <1>4
  <2>. QED BY <1>2, <2>1 DEF Answers
<1>5. CASE m.saw
  <2>1. Bedrock!Eof(m) = Conclude(m)
    BY <1>3, <1>5
  <2>2. r.stop # "none"
    BY <1>1, <1>5 DEF BedrockBooks
  <2>3. r.complete /\ \A b \in 1..Len(r.blocks) : ~r.blocks[b].open
    BY <2>2 DEF IsReply, Closes
  <2>4. StopFollows(r, m.stop)
    BY <1>1 DEF BedrockBooks
  <2>5. /\ m.stop \in {"stop", "length", "tool_use", "error"}
        /\ m.stop # "error" => Reasoned("bedrock", r, m.stop)
    BY <2>4, ReasonIs
  <2>6. Answers("bedrock", r, v, Conclude(m))
    BY <1>1, <2>3, <2>5, WellConcluded
  <2>. QED BY <1>2, <2>1, <2>6
<1>. QED BY <1>2, <1>4, <1>5

\* The end of the connection says nothing of the reply.
LEMMA GoesStill ==
  ASSUME NEW api, NEW r, IsReply(api, r), NEW q, q.blocks = r.blocks, q.stop = r.stop,
         NEW v, NEW m, GoesOn(api, r, v, m)
  PROVE  GoesOn(api, q, v, m)
<1>1. Following(r, v, m) /\ Books(api, r, m)
  BY DEF GoesOn
<1>2. Following(q, v, m)
  BY <1>1, Unchanging, FollowsSame, FollowingIs
<1>3. /\ Tools(q) = Tools(r) /\ Current(q) = Current(r) /\ (HasTool(q) <=> HasTool(r))
      /\ \A stop : StopFollows(q, stop) <=> StopFollows(r, stop)
  BY DEF Tools, Current, HasTool, StopFollows
<1>4. Args(r, m) => Args(q, m)
  BY <1>3, Zenon DEF Args
<1>5. AnthropicBooks(r, m) => AnthropicBooks(q, m)
  BY <1>3, <1>4 DEF AnthropicBooks
<1>6. CompletionsBooks(r, m) => CompletionsBooks(q, m)
  <2>1. \A kind, i : Only(r, kind, i) => Only(q, kind, i)
    BY DEF Only
  <2>. QED BY <1>3, <1>4, <2>1 DEF CompletionsBooks
<1>7. (\A i : Running(r, i) => Running(q, i))
  BY <1>3 DEF Running
<1>8. MistralBooks(r, m) => MistralBooks(q, m)
  BY <1>3, <1>4, <1>7 DEF MistralBooks
<1>9. MadeUp(r, m.content, m.think) => MadeUp(q, m.content, m.think)
  BY <1>3, Zenon DEF MadeUp
<1>10. GeminiBooks(r, m) => GeminiBooks(q, m)
  BY <1>3, <1>7, <1>9, Zenon DEF GeminiBooks
<1>11. BedrockBooks(r, m) => BedrockBooks(q, m)
  BY <1>3, <1>4 DEF BedrockBooks
<1>. QED BY <1>1, <1>2, <1>5, <1>6, <1>8, <1>10, <1>11 DEF GoesOn, Books

LEMMA EofBreaks ==
  ASSUME NEW api, NEW r, IsReply(api, r), NEW e, NEW q, Moved(api, r, e, q), e.type = "eof"
  PROVE  q.blocks = r.blocks /\ q.stop = r.stop /\ q.complete = r.complete
<1>1. CASE Breaks(api, r, e, q)
  BY <1>1, BreakingIs
<1>2. ~Begins(api, r, e, q)
  BY DEF Begins
<1>3. ~Grows(api, r, e, q) /\ ~Signs(api, r, e, q) /\ ~Shuts(api, r, e, q)
  <2>1. /\ Grows(api, r, e, q) => \E b, kind, text, sig : e = Wire("frag", b, kind, text, sig, FALSE)
        /\ Signs(api, r, e, q) => \E b, kind, text, sig : e = Wire("sign", b, kind, text, sig, FALSE)
        /\ Shuts(api, r, e, q) => \E b, kind, text, sig : e = Wire("close", b, kind, text, sig, FALSE)
    BY Zenon DEF Grows, Signs, Shuts
  <2>. QED BY <2>1 DEF Wire
<1>4. ~Repeats(api, r, e, q) /\ ~ComesLate(api, r, e, q)
  <2>1. /\ Repeats(api, r, e, q) => \E type \in {"whole", "part"} : \E b, kind, text, sig, head :
               e = Wire(type, b, kind, text, sig, head)
        /\ ComesLate(api, r, e, q) => \E type \in {"part", "close"} : \E b, kind, text, sig, head :
               e = Wire(type, b, kind, text, sig, head)
    BY Zenon DEF Repeats, ComesLate
  <2>. QED BY <2>1 DEF Wire
<1>5. ~Stops(api, r, e, q)
  <2>1. ASSUME Stops(api, r, e, q) PROVE FALSE
    <3>1. e.type = IF api = "responses" THEN "end" ELSE "stop"
      BY <2>1, StoppingIs
    <3>. QED BY <3>1
  <2>. QED BY <2>1
<1>6. ~Concludes(api, r, e, q)
  <2>1. ASSUME Concludes(api, r, e, q) PROVE FALSE
    BY <2>1, ConcludingIs
  <2>. QED BY <2>1
<1>. QED BY <1>1, <1>2, <1>3, <1>4, <1>5, <1>6 DEF Moved

\* Whatever Bedrock sends, the loop is in line with it, or ends well.
LEMMA BedrockAnswers ==
  ASSUME NEW r, IsReply("bedrock", r), NEW e, NEW q, IsReply("bedrock", q),
         Moved("bedrock", r, e, q), NEW v, NEW m, GoesOn("bedrock", r, v, m)
  PROVE  /\ e.type \notin {"eof", "broken"} => Answers("bedrock", q, v, Bedrock!HandleFrame(m, e))
         /\ e.type = "eof" => Answers("bedrock", q, v, Bedrock!Eof(m))
<1>. DEFINE n == Bedrock!HandleFrame(m, e)
<1>1. Fails(v, Incomplete(m))
  BY BedrockEnds
<1>3. /\ e.type = "open"  => n = Bedrock!OnContentBlockStart(m, e)
      /\ e.type = "frag"  => n = Bedrock!OnContentBlockDelta(m, e)
      /\ e.type = "sign"  => n = Bedrock!OnReasoning(m, e)
      /\ e.type = "close" => n = Bedrock!OnContentBlockStop(m, e)
      /\ e.type = "stop"  => n = [m EXCEPT !.saw = TRUE, !.stop = Bedrock!MapStopReason(e.kind)]
      /\ e.type = "fail"  => n = Incomplete(m)
  BY BedrockHandles, BedrockShares
<1>. HIDE DEF n
<1>4. ASSUME e.type \notin {"eof", "broken"} PROVE Answers("bedrock", q, v, n)
  <2>1. CASE Begins("bedrock", r, e, q)
    <3>1. /\ Begun1("bedrock", r, e, q) /\ q.blocks[e.b].open /\ e.head = TRUE
          /\ e.type = IF Framed("bedrock") \/ ("bedrock" = "bedrock" /\ e.kind = "tool")
                      THEN "open" ELSE "frag"
      <4>1. Superseded("bedrock", r) = {}
        BY DEF Superseded
      <4>. QED BY <2>1, <4>1, BeginsElsewhere
    <3>2. ~Framed("bedrock")
      BY DEF Framed
    <3>3. e.kind # "redacted" /\ e.kind \in Kinds \cup {"redacted"}
      BY <3>1 DEF Begun1, MayBegin
    <3>4. CASE e.kind = "tool"
      <4>1. e.type = "open"
        BY <3>1, <3>4
      <4>2. GoesOn("bedrock", q, v, Bedrock!OnContentBlockStart(m, e))
        BY <3>1, <3>4, BedrockOpens
      <4>. QED BY <1>3, <4>1, <4>2 DEF Answers
    <3>5. CASE e.kind # "tool"
      <4>1. e.type = "frag" /\ e.kind \in Prose
        BY <3>1, <3>2, <3>3, <3>5 DEF Prose, Kinds
      <4>2. GoesOn("bedrock", q, v, Bedrock!OnContentBlockDelta(m, e))
        BY <3>1, <4>1, BedrockBegins
      <4>. QED BY <1>3, <4>1, <4>2 DEF Answers
    <3>. QED BY <3>4, <3>5
  <2>2. CASE Grows("bedrock", r, e, q)
    BY <1>3, <2>2, BedrockGrows DEF Answers
  <2>3. CASE Signs("bedrock", r, e, q)
    BY <1>3, <2>3, BedrockSigned DEF Answers
  <2>4. CASE Shuts("bedrock", r, e, q)
    BY <1>3, <2>4, BedrockCloses DEF Answers
  <2>5. CASE Stops("bedrock", r, e, q)
    <3>1. e.type = "stop"
      BY <2>5, StoppingIs
    <3>2. BedrockNotes(m, e, n)
      BY <1>3, <3>1, Zenon DEF BedrockNotes
    <3>. QED BY <2>5, <3>2, BedrockStopped DEF Answers
  <2>6. ~Concludes("bedrock", r, e, q)
    BY DEF Concludes
  <2>7. CASE Breaks("bedrock", r, e, q)
    <3>1. e.type = "fail"
      BY <1>4, <2>7, BreakingIs
    <3>. QED BY <1>1, <1>3, <3>1 DEF Answers
  <2>8. ~Repeats("bedrock", r, e, q) /\ ~ComesLate("bedrock", r, e, q)
    BY DEF Repeats, ComesLate
  <2>. QED BY <2>1, <2>2, <2>3, <2>4, <2>5, <2>6, <2>7, <2>8 DEF Moved
<1>5. ASSUME e.type = "eof" PROVE Answers("bedrock", q, v, Bedrock!Eof(m))
  <2>1. GoesOn("bedrock", q, v, m)
    BY <1>5, EofBreaks, GoesStill
  <2>. QED BY <2>1, BedrockEnds
<1>. QED BY <1>4, <1>5 DEF n

-----------------------------------------------------------------------------
(* The end of a loop that ends its blocks there. *)

\* What the consumer has when the first n blocks of the order ended.
Seals(bs, gs, c, order, n) ==
  /\ DOMAIN gs = DOMAIN bs
  /\ \A i \in DOMAIN bs :
       gs[i] = IF \E k \in 1..n : order[k] = i THEN Shut(c[i].kind, c[i].text) ELSE bs[i]

\* Each index once, of a block that is open.
OnceOpen(bs, c, order) ==
  /\ IsSequence(order)
  /\ \A j \in 1..Len(order) :
       order[j] \in DOMAIN bs /\ \E said : bs[order[j]] = Live(c[order[j]].kind, said)
  /\ \A j, k \in 1..Len(order) : order[j] = order[k] => j = k

LEMMA SealsNext ==
  ASSUME NEW bs, NEW c, NEW order, OnceOpen(bs, c, order), NEW n \in Nat, n + 1 <= Len(order),
         NEW gs, Seals(bs, gs, c, order, n), NEW i, i = order[n + 1]
  PROVE  /\ Consume(Open(gs), Ended(i, c[i])) = Open(Put(gs, i, Shut(c[i].kind, c[i].text)))
         /\ Seals(bs, Put(gs, i, Shut(c[i].kind, c[i].text)), c, order, n + 1)
<1>1. Len(order) \in Nat
  BY Appended DEF OnceOpen
<1>2. n + 1 \in 1..Len(order) /\ \A k \in 1..n : k \in 1..Len(order) /\ k # n + 1
  BY <1>1
<1>3. i \in DOMAIN bs /\ ~\E k \in 1..n : order[k] = i
  BY <1>2 DEF OnceOpen
<1>4. PICK said : bs[i] = Live(c[i].kind, said)
  BY <1>2 DEF OnceOpen
<1>5. i \in DOMAIN gs /\ gs[i] = Live(c[i].kind, said)
  BY <1>3, <1>4 DEF Seals
<1>. DEFINE block == c[i]
            w == Shut(block.kind, block.text)
            hs == Put(gs, i, w)
<1>6. Consume(Open(gs), Ended(i, block)) = Open(Put(gs, i, Shut(block.kind, block.text)))
  <2>1. gs[i] = Live(block.kind, said)
    BY <1>5
  <2>. HIDE DEF block
  <2>. QED BY <1>5, <2>1, ConsumeEnded
<1>. HIDE DEF w
<1>7. Replaces(gs, hs, i, w)
  BY <1>5, PutReplaces
<1>. HIDE DEF hs
<1>8. ASSUME NEW j \in DOMAIN bs
      PROVE  hs[j] = IF \E k \in 1..n + 1 : order[k] = j THEN Shut(c[j].kind, c[j].text) ELSE bs[j]
  <2>1. CASE j = i
    <3>1. hs[j] = w /\ n + 1 \in 1..n + 1
      BY <1>7, <2>1 DEF Replaces
    <3>. QED BY <2>1, <3>1 DEF w
  <2>2. CASE j # i
    <3>1. hs[j] = gs[j]
      BY <1>7, <2>2 DEF Replaces, Seals
    <3>2. (\E k \in 1..n + 1 : order[k] = j) <=> (\E k \in 1..n : order[k] = j)
      BY <2>2
    <3>3. gs[j] = IF \E k \in 1..n : order[k] = j THEN Shut(c[j].kind, c[j].text) ELSE bs[j]
      BY DEF Seals
    <3>. QED BY <3>1, <3>2, <3>3, Zenon
  <2>. QED BY <2>1, <2>2
<1>9. Seals(bs, hs, c, order, n + 1)
  BY <1>7, <1>8 DEF Seals, Replaces
<1>. QED BY <1>6, <1>9 DEF hs, w

\* All that a consumer heard, when the first j blocks ended.
Heard(f, n, bs, c, order, j) ==
  \E gs : f[n + j] = Open(gs) /\ Seals(bs, gs, c, order, j)

LEMMA HeardAll ==
  ASSUME NEW bs, NEW c, NEW order, OnceOpen(bs, c, order), NEW n \in Nat, NEW v, NEW s, NEW f,
         NEW l, l = Len(order), Knows(f, v, s, n + l), f[n] = Open(bs),
         \A j \in 1..l : s[n + j] = Ended(order[j], c[order[j]])
  PROVE  Heard(f, n, bs, c, order, l)
<1>1. l \in Nat /\ n + l \in Nat
  BY Appended DEF OnceOpen
<1>2. \A i \in 1..n + l : f[i] = Consume(f[i - 1], s[i])
  <2>. DEFINE z == n + l
  <2>1. z \in Nat /\ Knows(f, v, s, z)
    BY <1>1
  <2>. HIDE DEF z
  <2>2. \A i \in 1..z : f[i] = Consume(f[i - 1], s[i])
    BY <2>1, KnowsFields
  <2>. QED BY <2>2 DEF z
<1>. DEFINE T == {j \in 0..l : ~Heard(f, n, bs, c, order, j)}
<1>3. T = {}
  <2>. SUFFICES ASSUME T # {} PROVE FALSE
    OBVIOUS
  <2>1. T \subseteq Nat
    BY <1>1
  <2>2. PICK j \in T : \A k \in T : j <= k
    BY <2>1, LeastNatural
  <2>3. j \in 0..l /\ ~Heard(f, n, bs, c, order, j)
    BY <2>2
  <2>4. Heard(f, n, bs, c, order, 0)
    <3>1. n + 0 = n
      OBVIOUS
    <3>2. Seals(bs, bs, c, order, 0)
      BY DEF Seals
    <3>. QED BY <3>1, <3>2 DEF Heard
  <2>5. j # 0 /\ j \in 1..l /\ j - 1 \in 0..l /\ ~(j <= j - 1) /\ j - 1 \in Nat
    BY <1>1, <2>3, <2>4
  <2>6. Heard(f, n, bs, c, order, j - 1)
    BY <2>2, <2>5
  <2>7. PICK gs : f[n + (j - 1)] = Open(gs) /\ Seals(bs, gs, c, order, j - 1)
    BY <2>6 DEF Heard
  <2>8. n + j \in 1..n + l /\ (n + j) - 1 = n + (j - 1)
    BY <1>1, <2>5
  <2>9. f[n + j] = Consume(Open(gs), Ended(order[j], c[order[j]]))
    BY <1>2, <2>5, <2>7, <2>8
  <2>. DEFINE p == j - 1
              i == order[j]
              hs == Put(gs, i, Shut(c[i].kind, c[i].text))
  <2>10. p \in Nat /\ p + 1 = j /\ p + 1 <= Len(order) /\ i = order[p + 1]
    BY <1>1, <2>5
  <2>11. Seals(bs, gs, c, order, p)
    BY <2>7
  <2>. HIDE DEF p, i
  <2>12. Consume(Open(gs), Ended(i, c[i])) = Open(hs) /\ Seals(bs, hs, c, order, p + 1)
    BY <2>10, <2>11, SealsNext
  <2>. HIDE DEF hs
  <2>13. f[n + j] = Open(hs) /\ Seals(bs, hs, c, order, j)
    BY <2>9, <2>10, <2>12 DEF i
  <2>. QED BY <2>3, <2>13 DEF Heard
<1>4. l \in 0..l
  BY <1>1
<1>. QED BY <1>3, <1>4

SealedTo(v, n, gs, bs, c, order) == Telling(v, n, gs) /\ Seals(bs, gs, c, order, Len(order))

LEMMA EndsAll ==
  ASSUME NEW v, NEW m, NEW bs, Telling(v, m, bs), NEW c, c = m.content, NEW order,
         OnceOpen(bs, c, order), NEW n, n = EmitAllEnded(m, order)
  PROVE  /\ \E gs : SealedTo(v, n, gs, bs, c, order)
         /\ Speaks(n) /\ n.content = m.content /\ SameBooks(m, n)
<1>. DEFINE ends == [j \in DOMAIN order |-> Ended(order[j], c[order[j]])]
            s == m.out \o ends
            k == Len(m.out)
            l == Len(order)
<1>1. Speaks(m) /\ ConsumeAll(v, m.out) = Open(bs) /\ IsSequence(m.out) /\ IsSequence(order)
  BY DEF Telling, Speaks, Talks, OnceOpen
<1>2. n = [m EXCEPT !.out = s]
  BY Zenon DEF EmitAllEnded
<1>3. k \in Nat /\ l \in Nat /\ DOMAIN order = 1..l
  BY <1>1, Appended
<1>4. Len(ends) = l /\ IsSequence(ends)
  <2>1. ends \in [1..l -> Range(ends)]
    BY <1>3 DEF Range
  <2>. HIDE DEF ends
  <2>2. ends \in Seq(Range(ends))
    BY <1>3, <2>1
  <2>. QED BY <1>3, <2>1, <2>2 DEF IsSequence
<1>5. \A j \in 1..l : ends[j] = Ended(order[j], c[order[j]])
  BY <1>3
<1>. HIDE DEF ends
<1>6. /\ Len(s) = k + l
      /\ \A j \in 1..k : s[j] = m.out[j]
      /\ \A j \in 1..l : s[k + j] = ends[j]
  <2>1. PICK S, U : m.out \in Seq(S) /\ ends \in Seq(U)
    BY <1>1, <1>4 DEF IsSequence
  <2>2. m.out \in Seq(S \cup U) /\ ends \in Seq(S \cup U)
    BY <2>1
  <2>3. /\ Len(s) = k + l
        /\ \A j \in 1..k + l : s[j] = IF j <= k THEN m.out[j] ELSE ends[j - k]
    BY <1>4, <2>2
  <2>4. \A j \in 1..k : j \in 1..k + l /\ j <= k
    BY <1>3
  <2>5. \A j \in 1..l : k + j \in 1..k + l /\ ~(k + j <= k) /\ (k + j) - k = j
    BY <1>3
  <2>. HIDE DEF s, k, l
  <2>. QED BY <2>3, <2>4, <2>5
<1>. HIDE DEF s
<1>7. k + l \in Nat /\ k <= k + l
  BY <1>3
<1>8. PICK f : Knows(f, v, s, k + l) /\ ConsumeAll(v, s) = f[k + l]
  BY <1>6, <1>7, ConsumeAllIs
<1>9. PICK g : Knows(g, v, m.out, k) /\ ConsumeAll(v, m.out) = g[k]
  BY <1>3, ConsumeAllIs
<1>. HIDE DEF k, l
<1>10. f[k] = Open(bs)
  <2>. DEFINE out == m.out
              z == k + l
  <2>1. Knows(g, v, out, k) /\ Knows(f, v, s, z) /\ z \in Nat /\ k \in Nat /\ k <= z
        /\ \A j \in 1..k : s[j] = out[j]
    BY <1>3, <1>6, <1>7, <1>8, <1>9
  <2>. HIDE DEF out, z
  <2>2. f[k] = g[k]
    BY <2>1, KnowledgeAgrees
  <2>. QED BY <1>1, <1>9, <2>2
<1>11. Heard(f, k, bs, c, order, l)
  <2>1. l = Len(order) /\ \A j \in 1..l : s[k + j] = Ended(order[j], c[order[j]])
    BY <1>5, <1>6 DEF l
  <2>. QED BY <1>3, <1>8, <1>10, <2>1, HeardAll
<1>12. PICK gs : f[k + l] = Open(gs) /\ Seals(bs, gs, c, order, l)
  BY <1>11 DEF Heard
<1>13. Speaks(n)
  BY <1>1, EmitsAll
<1>14. n.out = s /\ n.content = m.content /\ SameBooks(m, n)
  BY <1>1, <1>2 DEF Speaks, Machine, SameBooks
<1>15. SealedTo(v, n, gs, bs, c, order)
  BY <1>8, <1>12, <1>13, <1>14 DEF SealedTo, Telling, l
<1>. QED BY <1>13, <1>14, <1>15

\* The reply when these blocks go on no more.
Halts(api, r, q, S) ==
  /\ IsReply(api, q) /\ Len(q.blocks) = Len(r.blocks)
  /\ q.stop = r.stop /\ q.complete = r.complete
  /\ \A b \in 1..Len(r.blocks) :
       /\ Alike(q.blocks[b], r.blocks[b])
       /\ q.blocks[b].open <=> (r.blocks[b].open /\ b \notin S)

LEMMA HaltExists ==
  ASSUME NEW api, NEW r, IsReply(api, r), NEW S
  PROVE  \E q : Halts(api, r, q, S)
<1>. DEFINE blocks == Ending(r, S)
            q == [r EXCEPT !.blocks = blocks]
<1>1. /\ IsSequence(blocks) /\ Len(blocks) = Len(r.blocks)
      /\ \A c \in 1..Len(r.blocks) :
           /\ Alike(blocks[c], r.blocks[c])
           /\ blocks[c].open <=> (r.blocks[c].open /\ c \notin S)
           /\ blocks[c].open \in BOOLEAN
  BY EndingIs
<1>2. DOMAIN r = DOMAIN Reply /\ Len(r.blocks) \in Nat
  BY ReplyFacts
<1>. HIDE DEF blocks
<1>3. /\ q.blocks = blocks /\ q.stop = r.stop /\ q.complete = r.complete
      /\ DOMAIN q = DOMAIN Reply
  BY <1>2 DEF Reply
<1>. HIDE DEF q
<1>4. \A b \in 1..Len(r.blocks) : IsSaid(api, b, blocks[b])
  <2>. TAKE b \in 1..Len(r.blocks)
  <2>1. IsSaid(api, b, r.blocks[b])
    BY DEF IsReply
  <2>. QED BY <1>1, <2>1, SaidStays
<1>5. \A b \in 1..Len(r.blocks) : blocks[b].open => r.blocks[b].open
  BY <1>1
<1>6. IsReply(api, q)
  BY <1>1, <1>2, <1>3, <1>4, <1>5 DEF IsReply, Sizes
<1>7. Halts(api, r, q, S)
  BY <1>1, <1>3, <1>6 DEF Halts
<1>. QED BY <1>7

\* The same was said.
LEMMA HaltedSaid ==
  ASSUME NEW api, NEW r, IsReply(api, r), NEW S, NEW q, Halts(api, r, q, S)
  PROVE  Said(api, q) = Said(api, r) /\ (HasTool(q) <=> HasTool(r))
<1>1. /\ DOMAIN q.blocks = 1..Len(r.blocks) /\ DOMAIN r.blocks = 1..Len(r.blocks)
      /\ \A b \in 1..Len(r.blocks) : Alike(q.blocks[b], r.blocks[b])
  BY ReplyFacts DEF Halts
<1>2. \A b \in 1..Len(r.blocks) :
        /\ q.blocks[b].kind = r.blocks[b].kind /\ q.blocks[b].sent = r.blocks[b].sent
        /\ q.blocks[b].sig = r.blocks[b].sig /\ q.blocks[b].named = r.blocks[b].named
  BY <1>1 DEF Alike
<1>3. \A b \in 1..Len(r.blocks) : CallId(api, q, b) = CallId(api, r, b)
  BY <1>2, Zenon DEF CallId
<1>4. \A b \in 1..Len(r.blocks) : SaidBlock(api, q, b) = SaidBlock(api, r, b)
  BY <1>2, <1>3, Zenon DEF SaidBlock
<1>5. /\ Said(api, q) = [b \in DOMAIN q.blocks |-> SaidBlock(api, q, b)]
      /\ Said(api, r) = [b \in DOMAIN r.blocks |-> SaidBlock(api, r, b)]
  BY Zenon DEF Said, SaidBlock
<1>6. Said(api, q) = Said(api, r)
  BY <1>1, <1>4, <1>5
<1>7. HasTool(q) <=> HasTool(r)
  BY <1>1, <1>2 DEF HasTool
<1>. QED BY <1>6, <1>7

LEMMA HaltedCompletes ==
  ASSUME NEW api, NEW r, IsReply(api, r), NEW S, NEW q, Halts(api, r, q, S), NEW v, NEW n,
         Completes(api, q, v, n) \/ Fails(v, n)
  PROVE  Completes(api, r, v, n) \/ Fails(v, n)
<1>1. Said(api, q) = Said(api, r) /\ (HasTool(q) <=> HasTool(r))
  BY HaltedSaid
<1>2. q.stop = r.stop /\ q.complete = r.complete
  BY DEF Halts
<1>3. \A content : Faithful(api, q, content) => Faithful(api, r, content)
  BY <1>1, Zenon DEF Faithful
<1>4. \A reason : Reasoned(api, q, reason) => Reasoned(api, r, reason)
  BY <1>1, <1>2 DEF Reasoned
<1>5. Completes(api, q, v, n) => Completes(api, r, v, n)
  BY <1>2, <1>3, <1>4, Zenon DEF Completes
<1>. QED BY <1>5

-----------------------------------------------------------------------------
\* The blocks that are open, each once.
Orders(r, order) ==
  /\ IsSequence(order)
  /\ \A j \in 1..Len(order) : order[j] \in 1..Len(r.blocks) /\ r.blocks[order[j]].open
  /\ \A j, k \in 1..Len(order) : order[j] = order[k] => j = k
  /\ \A b \in 1..Len(r.blocks) : r.blocks[b].open => \E j \in 1..Len(order) : order[j] = b

\* The arguments of every call, all of which are open.
Collected(r, m) ==
  \A b \in Tools(r) : r.blocks[b].open /\ Arguments(m, b) = r.blocks[b].sent

LEMMA ParseCallsIs ==
  ASSUME NEW m, Speaks(m)
  PROVE  LET n == ParseCalls(m) IN
         /\ Speaks(n) /\ n.out = m.out /\ SameBooks(m, n)
         /\ DOMAIN n.content = DOMAIN m.content /\ Len(n.content) = Len(m.content)
         /\ \A i \in DOMAIN m.content : n.content[i] = Parsed(m.content[i], Arguments(m, i))
<1>. DEFINE content == [i \in DOMAIN m.content |-> Parsed(m.content[i], Arguments(m, i))]
            n == ParseCalls(m)
<1>1. n = [m EXCEPT !.content = content]
  BY Zenon DEF ParseCalls
<1>2. Speaks(n) /\ n.out = m.out
  BY ParsesCalls
<1>3. DOMAIN content = DOMAIN m.content
      /\ \A i \in DOMAIN m.content : content[i] = Parsed(m.content[i], Arguments(m, i))
  OBVIOUS
<1>. HIDE DEF content, n
<1>4. n.content = content /\ SameBooks(m, n)
  BY <1>1 DEF Speaks, Machine, SameBooks
<1>5. Len(n.content) = Len(m.content)
  <2>1. DOMAIN m.content = 1..Len(m.content) /\ DOMAIN n.content = 1..Len(n.content)
        /\ Len(m.content) \in Nat /\ Len(n.content) \in Nat
    BY <1>2, ContentIs
  <2>. QED BY <1>3, <1>4, <2>1
<1>. QED BY <1>2, <1>3, <1>4, <1>5 DEF n

\* A block, and what the consumer has of it, when its arguments are parsed.
LEMMA AgreesParsed ==
  ASSUME NEW b, NEW s, NEW c, NEW w, Agrees(b, s, c, w), NEW t, Alike(t, s), ~t.open,
         s.kind \in Kinds \cup {"redacted"}, NEW raw, NEW x, x = Parsed(c, raw),
         s.kind = "tool" => s.open /\ raw = s.sent
  PROVE  /\ s.open => Agrees(b, t, x, Shut(x.kind, x.text)) /\ w = Live(x.kind, s.sent)
         /\ ~s.open => Agrees(b, t, x, w)
<1>1. /\ t.kind = s.kind /\ t.sig = s.sig /\ t.named = s.named /\ t.sent = s.sent
  BY DEF Alike
<1>2. Parsing(c, x, raw)
  BY ParsingIs DEF Agrees
<1>3. ASSUME s.open PROVE Agrees(b, t, x, Shut(x.kind, x.text)) /\ w = Live(x.kind, s.sent)
  BY ONLY <1>1, <1>2, <1>3, Agrees(b, s, c, w), ~t.open, s.kind \in Kinds \cup {"redacted"},
          s.kind = "tool" => s.open /\ raw = s.sent, AgreesClosed
<1>4. ASSUME ~s.open PROVE Agrees(b, t, x, w)
  <2>1. c.kind # "tool"
    BY <1>4 DEF Agrees, AgreesProse, AgreesRedacted, Prose, Kinds
  <2>2. x = c
    BY <2>1, Zenon DEF Parsed
  <2>3. t.open <=> s.open
    BY <1>4
  <2>. QED BY <2>2, <2>3, AgreesStill
<1>. QED BY <1>3, <1>4

LEMMA FinalizesAll ==
  ASSUME NEW api, NEW r, IsReply(api, r), NEW v, NEW m, Following(r, v, m),
         NEW order, Orders(r, order), Collected(r, m),
         NEW all, all = 1..Len(r.blocks), NEW q, Halts(api, r, q, all),
         NEW n, n = EmitAllEnded(ParseCalls(m), order)
  PROVE  Following(q, v, n) /\ SameBooks(m, n)
<1>. DEFINE p == ParseCalls(m)
            c == p.content
<1>1. Speaks(m) /\ DOMAIN m.content = 1..Len(r.blocks)
  BY FollowingIs
<1>2. /\ Speaks(p) /\ p.out = m.out /\ SameBooks(m, p)
      /\ DOMAIN c = DOMAIN m.content /\ Len(c) = Len(m.content)
      /\ \A i \in DOMAIN m.content : c[i] = Parsed(m.content[i], Arguments(m, i))
  BY <1>1, ParseCallsIs
<1>3. n = EmitAllEnded(p, order)
  OBVIOUS
<1>. HIDE DEF p
<1>4. PICK bs : Telling(v, m, bs) /\ Matches(r, m.content, bs)
  BY DEF Following
<1>5. Telling(v, p, bs)
  BY <1>2, <1>4, TellsSame
<1>6. /\ Len(q.blocks) = Len(r.blocks) /\ DOMAIN bs = 1..Len(r.blocks)
      /\ Len(m.content) = Len(r.blocks)
  BY <1>4 DEF Halts, Matches
<1>7. ASSUME NEW b \in 1..Len(r.blocks)
      PROVE  /\ r.blocks[b].open => /\ Agrees(b, q.blocks[b], c[b], Shut(c[b].kind, c[b].text))
                                    /\ bs[b] = Live(c[b].kind, r.blocks[b].sent)
             /\ ~r.blocks[b].open => Agrees(b, q.blocks[b], c[b], bs[b])
  <2>. DEFINE s == r.blocks[b]
              t == q.blocks[b]
              f == m.content[b]
              w == bs[b]
              raw == Arguments(m, b)
              x == c[b]
  <2>1. Agrees(b, s, f, w)
    BY <1>4 DEF Matches
  <2>2. Alike(t, s) /\ ~t.open
    BY DEF Halts
  <2>3. s.kind \in Kinds \cup {"redacted"}
    BY DEF IsReply, IsSaid
  <2>4. x = Parsed(f, raw)
    BY <1>1, <1>2
  <2>5. s.kind = "tool" => s.open /\ raw = s.sent
    BY DEF Collected, Tools
  <2>. HIDE DEF s, t, f, w, raw, x
  <2>6. /\ s.open => Agrees(b, t, x, Shut(x.kind, x.text)) /\ w = Live(x.kind, s.sent)
        /\ ~s.open => Agrees(b, t, x, w)
    BY ONLY <2>1, <2>2, <2>3, <2>4, <2>5, AgreesParsed
  <2>. QED BY <2>6 DEF s, t, w, x
<1>8. OnceOpen(bs, c, order)
  <2>1. ASSUME NEW j \in 1..Len(order)
        PROVE  order[j] \in DOMAIN bs /\ \E said : bs[order[j]] = Live(c[order[j]].kind, said)
    <3>1. order[j] \in 1..Len(r.blocks) /\ r.blocks[order[j]].open
      BY DEF Orders
    <3>. QED BY <1>6, <1>7, <3>1
  <2>. QED BY <2>1 DEF Orders, OnceOpen
<1>9. /\ \E gs : SealedTo(v, n, gs, bs, c, order)
      /\ Speaks(n) /\ n.content = p.content /\ SameBooks(p, n)
  <2>1. c = p.content
    OBVIOUS
  <2>. HIDE DEF c
  <2>. QED BY ONLY <1>3, <1>5, <1>8, <2>1, EndsAll
<1>10. PICK gs : SealedTo(v, n, gs, bs, c, order)
  BY <1>9
<1>11. ASSUME NEW b \in 1..Len(r.blocks)
       PROVE  Agrees(b, q.blocks[b], c[b], gs[b])
  <2>1. gs[b] = IF \E k \in 1..Len(order) : order[k] = b THEN Shut(c[b].kind, c[b].text) ELSE bs[b]
    BY <1>6, <1>10 DEF SealedTo, Seals
  <2>2. (\E k \in 1..Len(order) : order[k] = b) <=> r.blocks[b].open
    BY DEF Orders
  <2>. QED BY <1>7, <2>1, <2>2
<1>12. DOMAIN gs = 1..Len(r.blocks)
  BY <1>6, <1>10 DEF SealedTo, Seals
<1>13. Matches(q, n.content, gs)
  BY <1>1, <1>2, <1>6, <1>9, <1>11, <1>12 DEF Matches
<1>14. Following(q, v, n)
  BY <1>10, <1>13 DEF Following, SealedTo
<1>15. SameBooks(m, n)
  BY <1>2, <1>9, SameThrough
<1>. QED BY <1>14, <1>15

\* The end of the stream, once every block has ended.
LEMMA HaltedEnds ==
  ASSUME NEW api, api # "responses", NEW r, IsReply(api, r), NEW S, NEW q, Halts(api, r, q, S),
         q.complete, \A b \in 1..Len(q.blocks) : ~q.blocks[b].open,
         NEW v, NEW m, Following(q, v, m), api = "google" => UniqueIds(m.content),
         m.stop \in {"stop", "length", "tool_use", "error"},
         m.stop # "error" => Reasoned(api, r, m.stop)
  PROVE  Completes(api, r, v, Conclude(m)) \/ Fails(v, Conclude(m))
<1>. DEFINE n == Conclude(m)
<1>1. IsReply(api, q) /\ q.stop = r.stop
  BY DEF Halts
<1>2. PICK bs : Telling(v, m, bs) /\ Matches(q, m.content, bs)
  BY DEF Following
<1>3. Whole(q, m.content) /\ AllShut(bs, m.content)
  BY <1>1, <1>2, MatchWhole
<1>4. Faithful(api, q, m.content)
  <2>. DEFINE content == m.content
  <2>1. Whole(q, content) /\ (api # "google" \/ UniqueIds(content))
    BY <1>3
  <2>. HIDE DEF content
  <2>2. Faithful(api, q, content)
    BY ONLY <1>1, <2>1, api # "responses", WholeFaithful
  <2>. QED BY <2>2 DEF content
<1>5. \A reason : Reasoned(api, r, reason) => Reasoned(api, q, reason)
  <2>1. HasTool(q) <=> HasTool(r)
    BY HaltedSaid
  <2>. QED BY <1>1, <2>1, Zenon DEF Reasoned
<1>6. Completes(api, q, v, n) \/ Fails(v, n)
  <2>1. m.stop # "error" => /\ q.complete /\ Faithful(api, q, m.content)
                            /\ Reasoned(api, q, m.stop) /\ AllShut(bs, m.content)
    BY <1>3, <1>4, <1>5
  <2>. QED BY ONLY <1>2, <2>1, m.stop \in {"stop", "length", "tool_use", "error"}, ConcludesWell
<1>. HIDE DEF n
<1>7. Completes(api, r, v, n) \/ Fails(v, n)
  BY ONLY <1>6, IsReply(api, r), Halts(api, r, q, S), HaltedCompletes
<1>. QED BY <1>7 DEF n

-----------------------------------------------------------------------------
(* Where the blocks of a kind are, when the reply went on. *)

LEMMA KindsTouched ==
  ASSUME NEW r, NEW q, NEW b, Touches(r, q, b), q.blocks[b].kind = r.blocks[b].kind
  PROVE  /\ Tools(q) = Tools(r)
         /\ \A kind, i : Only(r, kind, i) => Only(q, kind, i)
<1>1. Len(q.blocks) = Len(r.blocks)
      /\ \A k \in 1..Len(r.blocks) : q.blocks[k].kind = r.blocks[k].kind
  BY DEF Touches, Same, Alike
<1>2. Tools(q) = Tools(r)
  BY <1>1 DEF Tools
<1>3. \A kind, i : Only(r, kind, i) => Only(q, kind, i)
  BY <1>1 DEF Only
<1>. QED BY <1>2, <1>3

LEMMA KindsAdded ==
  ASSUME NEW r, NEW q, NEW b, Adds1(r, q, b), Len(r.blocks) \in Nat
  PROVE  /\ q.blocks[b].kind = "tool" => Tools(q) = Tools(r) \cup {b}
         /\ q.blocks[b].kind # "tool" => Tools(q) = Tools(r)
         /\ \A kind, i : Only(r, kind, i) =>
              /\ q.blocks[b].kind # kind => Only(q, kind, i)
              /\ q.blocks[b].kind = kind /\ i = 0 => Only(q, kind, b)
<1>1. /\ Len(q.blocks) = Len(r.blocks) + 1 /\ b = Len(r.blocks) + 1
      /\ \A k \in 1..Len(r.blocks) : q.blocks[k].kind = r.blocks[k].kind
  BY DEF Adds1, Lengthens, Same, Alike
<1>2. /\ q.blocks[b].kind = "tool" => Tools(q) = Tools(r) \cup {b}
      /\ q.blocks[b].kind # "tool" => Tools(q) = Tools(r)
  BY <1>1 DEF Tools
<1>3. ASSUME NEW kind, NEW i, Only(r, kind, i)
      PROVE  /\ q.blocks[b].kind # kind => Only(q, kind, i)
             /\ q.blocks[b].kind = kind /\ i = 0 => Only(q, kind, b)
  <2>1. i \in 0..Len(r.blocks) /\ \A k \in 1..Len(r.blocks) : q.blocks[k].kind = kind <=> k = i
    BY <1>1, <1>3 DEF Only
  <2>2. ASSUME NEW k \in 1..Len(q.blocks)
        PROVE  k \in 1..Len(r.blocks) \/ k = b
    BY <1>1
  <2>3. i # b /\ i \in 0..Len(q.blocks) /\ b \in 0..Len(q.blocks)
    BY <1>1, <2>1
  <2>4. ASSUME q.blocks[b].kind # kind PROVE Only(q, kind, i)
    BY <2>1, <2>2, <2>3, <2>4 DEF Only
  <2>5. ASSUME q.blocks[b].kind = kind, i = 0 PROVE Only(q, kind, b)
    <3>1. ASSUME NEW k \in 1..Len(q.blocks) PROVE q.blocks[k].kind = kind <=> k = b
      <4>1. CASE k = b
        BY <2>5, <4>1
      <4>2. CASE k # b
        <5>1. k \in 1..Len(r.blocks) /\ k # i
          BY <2>2, <2>5, <4>2
        <5>. QED BY <2>1, <4>2, <5>1
      <4>. QED BY <4>1, <4>2
    <3>. QED BY <2>3, <3>1 DEF Only
  <2>. QED BY <2>4, <2>5
<1>. QED BY <1>2, <1>3

-----------------------------------------------------------------------------
(* Chat Completions. *)

LEMMA AccumulateIs ==
  ASSUME NEW m, NEW i, NEW kind, m.content[i].kind = kind, NEW text,
         NEW o, o = IF m.content[i].text = <<>> THEN EmitOpened(m, i) ELSE m
  PROVE  Completions!Accumulate(m, i, text) = Emit(Extend(o, i, kind, text), Delta(i, kind, text))
<1>1. Completions!EmitOpened(m, i) = EmitOpened(m, i)
  BY CompletionsShares
<1>2. Completions!Accumulate(m, i, text)
        = Completions!Emit(Completions!Extend(o, i, kind, text), Completions!Delta(i, kind, text))
  BY <1>1, Zenon DEF Completions!Accumulate
<1>. HIDE DEF Completions!Accumulate
<1>. QED BY <1>2, CompletionsShares

\* What CompletionsBooks asks of a reply that went on.
LEMMA CompletionsStays ==
  ASSUME NEW r, NEW m, CompletionsBooks(r, m), NEW q, q.stop = r.stop, NEW n,
         n.finish = m.finish, n.saw = m.saw,
         Args(q, n), DOMAIN n.buf \subseteq Tools(q), Placed(n, Tools(q)),
         Only(q, "text", n.text), Only(q, "thinking", n.think), Len(r.blocks) <= Len(q.blocks),
         Len(r.blocks) \in Nat, Len(q.blocks) \in Nat, NEW b,
         \A k \in 1..Len(q.blocks) : k # b => k \in 1..Len(r.blocks) /\ Same(r, q, k),
         q.blocks[b].open, q.blocks[b].sent = <<>> => b \in Tools(q)
  PROVE  CompletionsBooks(q, n)
<1>1. ASSUME NEW k \in 1..Len(q.blocks)
      PROVE  q.blocks[k].open /\ (q.blocks[k].sent = <<>> => k \in Tools(q))
  <2>1. CASE k = b
    BY <2>1
  <2>2. CASE k # b
    <3>1. k \in 1..Len(r.blocks) /\ Same(r, q, k)
      BY <2>2
    <3>2. r.blocks[k].open /\ (r.blocks[k].sent = <<>> => k \in Tools(r))
      BY <3>1 DEF CompletionsBooks
    <3>. QED BY <3>1, <3>2 DEF Same, Alike, Tools
  <2>. QED BY <2>1, <2>2
<1>. QED BY <1>1 DEF CompletionsBooks

\* A text or a thought begins with its first fragment.
LEMMA CompletionsBegins ==
  ASSUME NEW r, IsReply("completions", r), NEW e, NEW q, IsReply("completions", q),
         Begun1("completions", r, e, q), q.blocks[e.b].open, e.kind \in Prose,
         NEW v, NEW m, GoesOn("completions", r, v, m)
  PROVE  /\ e.kind = "text" => GoesOn("completions", q, v, Completions!OnContent(m, e))
         /\ e.kind = "thinking" => GoesOn("completions", q, v, Completions!OnReasoning(m, e))
<1>. DEFINE b == e.b
            kind == e.kind
            text == e.text
            x == Block(kind)
            a == Add(m, x)
<1>1. /\ Following(r, v, m) /\ CompletionsBooks(r, m) /\ Speaks(m)
      /\ Len(r.blocks) \in Nat /\ Len(m.content) = Len(r.blocks)
  BY FollowingIs, BooksAre DEF GoesOn
<1>2. /\ b = Len(r.blocks) + 1 /\ Adds1(r, q, b) /\ q.stop = r.stop
      /\ q.blocks[b].kind = kind /\ text = q.blocks[b].sent /\ q.blocks[b].sig = e.sig
      /\ MayComeSigned("completions", e.kind, e.sig # <<>>)
      /\ MayBegin("completions", r, e.kind) /\ e.text \in Heads("completions", e.kind, b)
      /\ Len(q.blocks) = Len(r.blocks) + 1 /\ q.blocks[b].open
  BY DEF Begun1, Adds1, Lengthens
<1>3. kind # "tool" /\ kind # "redacted" /\ kind \in Kinds /\ kind \in Prose
  BY DEF Prose, Kinds
<1>4. q.blocks[b].sig = <<>>
  <2>1. (e.sig # <<>>) = (e.kind = "redacted")
    BY <1>2 DEF MayComeSigned
  <2>. QED BY <1>2, <1>3, <2>1
<1>5. IsBlock(x) /\ x = Block(kind) /\ x.text = <<>> /\ x.kind = kind
  BY <1>3, NewBlockFields
<1>6. text # <<>>
  <2>1. text \in {<<<<b, 1>>>>}
    BY <1>2, <1>3, Zenon DEF Heads
  <2>2. \A y : <<y>> # <<>>
    OBVIOUS
  <2>. QED BY <2>1, <2>2, Zenon
<1>7. \A k \in 1..Len(r.blocks) : r.blocks[k].kind # kind
  <2>1. \A k \in DOMAIN r.blocks : r.blocks[k].kind # kind
    BY <1>2, <1>3 DEF MayBegin
  <2>. QED BY <2>1, ReplyFacts
<1>. HIDE DEF x
<1>8. Speaks(a) /\ a.out = m.out /\ SameBooks(m, a) /\ Gains(m.content, a.content, x)
  BY <1>1, <1>5, AddIs
<1>. HIDE DEF a
<1>9. ASSUME NEW p, Speaks(p), p.out = a.out, p.content = a.content, p.stop = a.stop, p.at = a.at,
             p.buf = a.buf, p.finish = a.finish, p.saw = a.saw,
             Only(q, "text", p.text), Only(q, "thinking", p.think),
             NEW n, n = Completions!Accumulate(p, b, text)
      PROVE  GoesOn("completions", q, v, n)
  <2>. DEFINE o == EmitOpened(p, b)
  <2>1. p.out = m.out /\ Gains(m.content, p.content, x)
    BY <1>8, <1>9
  <2>2. p.content[b] = x
    BY <1>1, <1>2, <2>1 DEF Gains
  <2>3. n = Emit(Extend(o, b, kind, text), Delta(b, kind, text))
    <3>1. p.content[b].kind = kind /\ p.content[b].text = <<>>
      BY <1>5, <2>2
    <3>2. o = IF p.content[b].text = <<>> THEN EmitOpened(p, b) ELSE p
      BY <3>1
    <3>. HIDE DEF o
    <3>. QED BY <1>9, <3>1, <3>2, AccumulateIs
  <2>4. o = EmitOpened(p, b) /\ Speaks(p) /\ IsReply("completions", q)
    BY <1>9
  <2>. HIDE DEF o
  <2>5. SameBooks(p, n) /\ Following(q, v, n)
    <3>. HIDE DEF b, kind, text
    <3>. QED BY ONLY <1>1, <1>2, <1>3, <1>4, <1>5, <2>1, <2>3, <2>4, BeginsProse
  <2>6. /\ n.at = m.at /\ n.buf = m.buf /\ n.finish = m.finish /\ n.saw = m.saw
        /\ n.text = p.text /\ n.think = p.think
    BY <1>8, <1>9, <2>5 DEF SameBooks
  <2>7. Tools(q) = Tools(r)
    BY <1>1, <1>2, <1>3, KindsAdded
  <2>8. Args(q, n)
    <3>. HIDE DEF b, kind
    <3>. QED BY <1>1, <1>2, <1>3, <2>6, ArgsAdded DEF CompletionsBooks
  <2>9. DOMAIN n.buf \subseteq Tools(q) /\ Placed(n, Tools(q))
    BY <1>1, <2>6, <2>7 DEF CompletionsBooks, Placed
  <2>10. \A k \in 1..Len(q.blocks) : k # b => k \in 1..Len(r.blocks) /\ Same(r, q, k)
    BY <1>1, <1>2 DEF Adds1, Lengthens
  <2>11. q.blocks[b].open /\ q.blocks[b].sent # <<>>
    BY <1>2, <1>6
  <2>12. Len(r.blocks) <= Len(q.blocks) /\ Len(q.blocks) \in Nat
    BY <1>1, <1>2
  <2>13. Only(q, "text", n.text) /\ Only(q, "thinking", n.think)
    BY <1>9, <2>6
  <2>14. CompletionsBooks(q, n)
    <3>. HIDE DEF b, text
    <3>. QED BY ONLY <1>1, <1>2, <2>6, <2>8, <2>9, <2>10, <2>11, <2>12, <2>13, CompletionsStays
  <2>. QED BY <2>5, <2>14, BooksAre DEF GoesOn
<1>10. Only(r, "text", m.text) /\ Only(r, "thinking", m.think)
       /\ m.text \in 0..Len(r.blocks) /\ m.think \in 0..Len(r.blocks)
  BY <1>1 DEF CompletionsBooks, Only
<1>11. NextIndex(m) = b
  BY <1>1, <1>2, ContentIs
<1>12. ASSUME kind = "text" PROVE GoesOn("completions", q, v, Completions!OnContent(m, e))
  <2>. DEFINE p == [a EXCEPT !.text = b]
              n == Completions!Accumulate(p, b, text)
  <2>1. Speaks(p)
    BY <1>8, Notes
  <2>2. /\ p.out = a.out /\ p.content = a.content /\ p.stop = a.stop /\ p.at = a.at
        /\ p.buf = a.buf /\ p.finish = a.finish /\ p.saw = a.saw /\ p.text = b
        /\ p.think = m.think
    BY <1>8 DEF Speaks, Machine, SameBooks
  <2>3. m.text = 0
    BY <1>7, <1>10, <1>12 DEF Only
  <2>4. Only(q, "text", p.text) /\ Only(q, "thinking", p.think)
    <3>1. q.blocks[b].kind = "text" /\ q.blocks[b].kind # "thinking"
      BY <1>2, <1>12
    <3>. HIDE DEF b, p
    <3>. QED BY <1>1, <1>2, <1>10, <2>2, <2>3, <3>1, KindsAdded
  <2>5. Completions!OnContent(m, e) = n
    <3>1. Completions!Add(m, Completions!Block("text")) = a /\ Completions!NextIndex(m) = b
      BY <1>11, <1>12, CompletionsShares DEF a, x
    <3>2. Completions!OnContent(m, e) =
            LET i == Completions!NextIndex(m) IN
            Completions!Accumulate([Completions!Add(m, Completions!Block("text")) EXCEPT !.text = i],
                                   i, e.text)
      <4>1. ~(e.text = <<>>) /\ ~(m.text # 0)
        BY <1>6, <2>3
      <4>. QED BY <4>1, Zenon DEF Completions!OnContent
    <3>. HIDE DEF b
    <3>. QED BY <3>1, <3>2
  <2>6. n = Completions!Accumulate(p, b, text)
    OBVIOUS
  <2>. HIDE DEF p, n, b, text
  <2>. QED BY <1>9, <2>1, <2>2, <2>4, <2>5, <2>6
<1>13. ASSUME kind = "thinking" PROVE GoesOn("completions", q, v, Completions!OnReasoning(m, e))
  <2>. DEFINE p == [a EXCEPT !.think = b]
              n == Completions!Accumulate(p, b, text)
  <2>1. Speaks(p)
    BY <1>8, Notes
  <2>2. /\ p.out = a.out /\ p.content = a.content /\ p.stop = a.stop /\ p.at = a.at
        /\ p.buf = a.buf /\ p.finish = a.finish /\ p.saw = a.saw /\ p.think = b
        /\ p.text = m.text
    BY <1>8 DEF Speaks, Machine, SameBooks
  <2>3. m.think = 0
    BY <1>7, <1>10, <1>13 DEF Only
  <2>4. Only(q, "text", p.text) /\ Only(q, "thinking", p.think)
    <3>1. q.blocks[b].kind = "thinking" /\ q.blocks[b].kind # "text"
      BY <1>2, <1>13
    <3>. HIDE DEF b, p
    <3>. QED BY <1>1, <1>2, <1>10, <2>2, <2>3, <3>1, KindsAdded
  <2>5. Completions!OnReasoning(m, e) = n
    <3>1. Completions!Add(m, Completions!Block("thinking")) = a /\ Completions!NextIndex(m) = b
      BY <1>11, <1>13, CompletionsShares DEF a, x
    <3>2. Completions!OnReasoning(m, e) =
            LET i == Completions!NextIndex(m) IN
            Completions!Accumulate([Completions!Add(m, Completions!Block("thinking"))
                                      EXCEPT !.think = i], i, e.text)
      <4>1. ~(e.text = <<>>) /\ ~(m.think # 0)
        BY <1>6, <2>3
      <4>. QED BY <4>1, Zenon DEF Completions!OnReasoning
    <3>. HIDE DEF b
    <3>. QED BY <3>1, <3>2
  <2>6. n = Completions!Accumulate(p, b, text)
    OBVIOUS
  <2>. HIDE DEF p, n, b, text
  <2>. QED BY <1>9, <2>1, <2>2, <2>4, <2>5, <2>6
<1>. QED BY <1>12, <1>13

\* A call begins: it has an entry first, and then its id.
LEMMA CompletionsCalls ==
  ASSUME NEW r, IsReply("completions", r), NEW e, NEW q, IsReply("completions", q),
         Begun1("completions", r, e, q), q.blocks[e.b].open, e.head = TRUE, e.kind = "tool",
         NEW v, NEW m, GoesOn("completions", r, v, m)
  PROVE  GoesOn("completions", q, v, Completions!OnToolCall(m, e))
<1>. DEFINE b == e.b
            text == e.text
            none == <<>>
            id == <<b>>
            y == ToolBlock(none)
            x == ToolBlock(id)
            a == [Add(m, y) EXCEPT !.at = Put(@, b, NextIndex(m))]
            p == [a EXCEPT !.content[b].id = id]
            o == EmitOpened(p, b)
            n == IF text = <<>> THEN o ELSE Emit(Collect(o, b, text), Delta(b, "tool", text))
<1>1. /\ Following(r, v, m) /\ CompletionsBooks(r, m) /\ Speaks(m) /\ Args(r, m)
      /\ Len(r.blocks) \in Nat /\ Len(m.content) = Len(r.blocks)
  BY FollowingIs, BooksAre DEF GoesOn, CompletionsBooks
<1>2. /\ b = Len(r.blocks) + 1 /\ Adds1(r, q, b) /\ q.stop = r.stop
      /\ q.blocks[b].kind = "tool" /\ text = q.blocks[b].sent /\ q.blocks[b].sig = e.sig
      /\ q.blocks[b].named /\ q.blocks[b].open
      /\ MayComeSigned("completions", e.kind, e.sig # <<>>)
      /\ Len(q.blocks) = Len(r.blocks) + 1
  BY DEF Begun1, Adds1, Lengthens
<1>3. q.blocks[b].sig = <<>>
  <2>1. (e.sig # <<>>) = (e.kind = "redacted")
    BY <1>2 DEF MayComeSigned
  <2>. QED BY <1>2, <2>1
<1>4. IsBlock(y) /\ y.kind = "tool" /\ y.id = none /\ y.text = <<>> /\ y.sig = <<>>
      /\ y.redacted = FALSE
  BY NewBlockFields
<1>5. IsBlock(x) /\ x.kind = "tool" /\ x.id = id /\ x.text = <<>> /\ x.sig = <<>>
      /\ x.redacted = FALSE
  BY NewBlockFields
<1>. HIDE DEF y
<1>6. Puts(m, a, b, y)
  BY <1>1, <1>2, <1>4, PutsIs
<1>7. a = [Add(m, y) EXCEPT !.at = Put(@, b, NextIndex(m))]
  OBVIOUS
<1>. HIDE DEF a
<1>8. /\ Speaks(a) /\ Gains(m.content, a.content, y) /\ a.at = Put(m.at, b, b) /\ a.out = m.out
      /\ a.buf = m.buf /\ a.stop = m.stop /\ a.text = m.text /\ a.think = m.think
      /\ a.finish = m.finish /\ a.saw = m.saw
  BY <1>6 DEF Puts
<1>9. a.content[b] = y /\ b \in 1..Len(a.content) /\ a.at[b] = b
  BY <1>1, <1>2, <1>8 DEF Gains, Put
<1>10. Renamed(y, id) = x
  <2>. DEFINE z == Renamed(y, id)
  <2>1. /\ IsBlock(z) /\ z.id = id /\ z.kind = y.kind /\ z.sig = y.sig /\ z.text = y.text
        /\ z.redacted = y.redacted
    BY <1>4, BlockEdits
  <2>. HIDE DEF z, x
  <2>2. z = [k \in BlockFields |-> z[k]]
    BY <2>1, <1>4 DEF IsBlock, Renamed, z
  <2>3. x = [k \in BlockFields |-> x[k]]
    BY DEF x, ToolBlock, Block, BlockFields
  <2>4. z = x
    <3>1. z.kind = x.kind /\ z.id = x.id /\ z.text = x.text /\ z.sig = x.sig
          /\ z.redacted = x.redacted
      BY <1>4, <1>5, <2>1
    <3>. QED BY ONLY <2>2, <2>3, <3>1, SameFields
  <2>. QED BY <2>4 DEF z
<1>11. Reblocked(a, p, b, x)
  <2>1. p = [a EXCEPT !.content[b] = Renamed(a.content[b], id)]
    BY Zenon DEF Renamed
  <2>. HIDE DEF p, x
  <2>. QED BY <1>9, <1>10, <2>1, Zenon DEF Reblocked
<1>. HIDE DEF p
<1>12. Speaks(p) /\ p.out = a.out /\ SameBooks(a, p) /\ Swaps(a.content, p.content, b, x)
  <2>1. DOMAIN x = BlockFields /\ x.kind = a.content[b].kind
    BY <1>4, <1>5, <1>9 DEF IsBlock
  <2>. HIDE DEF x, b
  <2>. QED BY ONLY <1>8, <1>9, <1>11, <2>1, ReblockedIs
<1>13. Gains(m.content, p.content, x)
  <2>1. b = Len(m.content) + 1
    BY <1>1, <1>2
  <2>2. \A k \in 1..Len(m.content) : k # b /\ k \in DOMAIN a.content
    BY <1>1, <1>2, <1>8 DEF Gains
  <2>3. \A k \in 1..Len(m.content) : p.content[k] = m.content[k]
    BY <1>8, <1>12, <2>2 DEF Gains, Swaps
  <2>. HIDE DEF x, b
  <2>. QED BY <1>8, <1>12, <2>1, <2>3 DEF Gains, Swaps
<1>14. /\ Speaks(p) /\ p.out = m.out /\ p.buf = m.buf /\ p.stop = m.stop /\ p.at = Put(m.at, b, b)
       /\ p.text = m.text /\ p.think = m.think /\ p.finish = m.finish /\ p.saw = m.saw
  BY <1>8, <1>12 DEF SameBooks
<1>15. o = EmitOpened(p, b) /\ x = ToolBlock(id) /\ id = <<b>>
       /\ n = IF text = <<>> THEN o ELSE Emit(Collect(o, b, text), Delta(b, "tool", text))
  OBVIOUS
<1>16. IsReply("completions", q) /\ IsReply("completions", r)
  OBVIOUS
<1>17. o.content = p.content /\ SameBooks(p, o)
  BY <1>14, EmitIs DEF EmitOpened
<1>. HIDE DEF o, n
<1>18. /\ Following(q, v, n) /\ Args(q, n)
       /\ n.at = p.at /\ n.text = p.text
       /\ n.think = p.think /\ n.finish = p.finish /\ n.saw = p.saw
       /\ DOMAIN n.buf \subseteq DOMAIN m.buf \cup {b}
  <2>. HIDE DEF b, text, x, id
  <2>. QED BY ONLY <1>1, <1>2, <1>3, <1>13, <1>14, <1>15, <1>16, BeginsCall
<1>19. Tools(q) = Tools(r) \cup {b}
  <2>. HIDE DEF b
  <2>. QED BY <1>1, <1>2, KindsAdded
<1>20. CompletionsBooks(q, n)
  <2>1. DOMAIN n.buf \subseteq Tools(q)
    BY <1>1, <1>18, <1>19 DEF CompletionsBooks
  <2>2. Placed(n, Tools(q))
    <3>1. n.at = Put(m.at, b, b)
      BY <1>14, <1>18
    <3>2. Placed(m, Tools(r))
      BY <1>1 DEF CompletionsBooks
    <3>. HIDE DEF b
    <3>3. Placed(n, Tools(r) \cup {b})
      BY ONLY <3>1, <3>2, PlacedOn
    <3>. QED BY <1>19, <3>3
  <2>3. Only(q, "text", n.text) /\ Only(q, "thinking", n.think)
    <3>1. Only(r, "text", m.text) /\ Only(r, "thinking", m.think)
          /\ n.text = m.text /\ n.think = m.think
      BY <1>1, <1>14, <1>18 DEF CompletionsBooks
    <3>2. q.blocks[b].kind # "text" /\ q.blocks[b].kind # "thinking"
      BY <1>2
    <3>. HIDE DEF b
    <3>. QED BY <1>1, <1>2, <3>1, <3>2, KindsAdded
  <2>4. \A k \in 1..Len(q.blocks) : k # b => k \in 1..Len(r.blocks) /\ Same(r, q, k)
    BY <1>1, <1>2 DEF Adds1, Lengthens
  <2>5. Len(r.blocks) <= Len(q.blocks) /\ Len(q.blocks) \in Nat /\ Len(r.blocks) \in Nat
        /\ b \in Tools(q) /\ n.finish = m.finish /\ n.saw = m.saw /\ Args(q, n)
    BY <1>1, <1>2, <1>14, <1>18, <1>19
  <2>. HIDE DEF b, text
  <2>. QED BY ONLY <1>1, <1>2, <2>1, <2>2, <2>3, <2>4, <2>5, CompletionsStays
<1>21. n = Completions!OnToolCall(m, e)
  <2>1. ~Completions!Known(m.at, b)
    <3>1. DOMAIN m.at = Tools(r)
      BY <1>1 DEF CompletionsBooks, Placed
    <3>2. b \notin Tools(r)
      BY <1>1, <1>2 DEF Tools
    <3>. QED BY <3>1, <3>2, CompletionsShares DEF Known
  <2>2. Completions!Entry(m, e.b) = a
    BY <1>7, <2>1, CompletionsShares, Zenon DEF Completions!Entry, y, none
  <2>3. Completions!Lookup(a.buf, b, <<>>) = <<>>
    <3>1. b \notin DOMAIN m.buf
      BY <1>1, <1>2 DEF CompletionsBooks, Tools
    <3>2. Lookup(m.buf, b, <<>>) = <<>>
      BY <3>1 DEF Lookup, Known
    <3>. QED BY <1>8, <3>2, CompletionsShares
  <2>4. a.content[b].id = <<>>
    BY <1>4, <1>9 DEF none
  <2>5. Completions!OnToolCall(m, e) =
          LET i == a.at[e.b]
              isNew == a.content[i].id = <<>> /\ Completions!Lookup(a.buf, e.b, <<>>) = <<>>
              begun == IF isNew
                       THEN Completions!EmitOpened([a EXCEPT !.content[i].id =
                                                      IF e.head THEN <<e.b>> ELSE <<>>], i)
                       ELSE a
          IN IF e.text = <<>> THEN begun
             ELSE Completions!Emit(Completions!Collect(begun, e.b, e.text),
                                   Completions!Delta(i, "tool", e.text))
    BY <2>2, Zenon DEF Completions!OnToolCall
  <2>6. (IF e.head THEN <<e.b>> ELSE <<>>) = id
    OBVIOUS
  <2>7. p = [a EXCEPT !.content[b].id = id]
    BY DEF p
  <2>8. Completions!OnToolCall(m, e) =
          LET begun == Completions!EmitOpened(p, b) IN
          IF e.text = <<>> THEN begun
          ELSE Completions!Emit(Completions!Collect(begun, e.b, e.text),
                                Completions!Delta(b, "tool", e.text))
    <3>. DEFINE ids == IF e.head THEN <<e.b>> ELSE <<>>
                zero == <<>>
    <3>1. Completions!OnToolCall(m, e) =
          LET i == a.at[e.b]
              isNew == a.content[i].id = zero /\ Completions!Lookup(a.buf, e.b, zero) = zero
              begun == IF isNew
                       THEN Completions!EmitOpened([a EXCEPT !.content[i].id = ids], i)
                       ELSE a
          IN IF e.text = zero THEN begun
             ELSE Completions!Emit(Completions!Collect(begun, e.b, e.text),
                                   Completions!Delta(i, "tool", e.text))
      BY <2>5
    <3>2. a.at[e.b] = b /\ ids = id /\ a.content[b].id = zero
          /\ Completions!Lookup(a.buf, e.b, zero) = zero
      BY <1>9, <2>3, <2>4, <2>6
    <3>. HIDE DEF ids, zero, id
    <3>. HIDE DEF b
    <3>3. Completions!OnToolCall(m, e) =
          LET begun == Completions!EmitOpened([a EXCEPT !.content[b].id = id], b) IN
          IF e.text = zero THEN begun
          ELSE Completions!Emit(Completions!Collect(begun, e.b, e.text),
                                Completions!Delta(b, "tool", e.text))
      BY ONLY <3>1, <3>2, Zenon
    <3>. QED BY ONLY <3>3, <2>7, Zenon DEF zero
  <2>9. Completions!EmitOpened(p, b) = o
    BY CompletionsShares DEF o
  <2>. QED BY <2>8, <2>9, CompletionsShares, Zenon DEF n
<1>22. GoesOn("completions", q, v, n)
  BY <1>18, <1>20, BooksAre DEF GoesOn
<1>. QED BY <1>21, <1>22

-----------------------------------------------------------------------------
(* Orders in which blocks may end. *)

\* Each member once.
Lists(s, S) ==
  /\ IsSequence(s)
  /\ \A j \in 1..Len(s) : s[j] \in S
  /\ \A j, k \in 1..Len(s) : s[j] = s[k] => j = k
  /\ \A x \in S : \E j \in 1..Len(s) : s[j] = x

LEMMA ListsJoin ==
  ASSUME NEW s, NEW S, Lists(s, S), NEW t, NEW T, Lists(t, T), S \cap T = {}
  PROVE  Lists(s \o t, S \cup T)
<1>. DEFINE u == s \o t
            k == Len(s)
            l == Len(t)
<1>1. IsSequence(u)
  BY Concatenated DEF Lists
<1>2. /\ k \in Nat /\ l \in Nat /\ Len(u) = k + l
      /\ \A j \in 1..k + l : u[j] = IF j <= k THEN s[j] ELSE t[j - k]
  <2>1. PICK A, B : s \in Seq(A) /\ t \in Seq(B)
    BY DEF Lists, IsSequence
  <2>2. s \in Seq(A \cup B) /\ t \in Seq(A \cup B)
    BY <2>1
  <2>. QED BY <2>2
<1>. HIDE DEF u, k, l
<1>3. ASSUME NEW j \in 1..k + l
      PROVE  \/ j \in 1..k /\ u[j] = s[j] /\ s[j] \in S
             \/ j - k \in 1..l /\ u[j] = t[j - k] /\ t[j - k] \in T
  <2>1. CASE j <= k
    <3>1. j \in 1..k /\ u[j] = s[j]
      BY <1>2, <2>1
    <3>. QED BY <3>1 DEF Lists, k
  <2>2. CASE ~(j <= k)
    <3>1. j - k \in 1..l /\ u[j] = t[j - k]
      BY <1>2, <2>2
    <3>. QED BY <3>1 DEF Lists, l
  <2>. QED BY <2>1, <2>2
<1>4. \A j \in 1..k + l : u[j] \in S \cup T
  BY <1>3
<1>5. ASSUME NEW i \in 1..k + l, NEW j \in 1..k + l, u[i] = u[j] PROVE i = j
  <2>1. CASE i \in 1..k /\ u[i] = s[i] /\ s[i] \in S
    <3>1. j \in 1..k /\ u[j] = s[j]
      BY <1>3, <1>5, <2>1
    <3>. QED BY <1>5, <2>1, <3>1 DEF Lists, k
  <2>2. CASE i - k \in 1..l /\ u[i] = t[i - k] /\ t[i - k] \in T
    <3>1. j - k \in 1..l /\ u[j] = t[j - k]
      BY <1>3, <1>5, <2>2
    <3>2. i - k = j - k
      BY <1>5, <2>2, <3>1 DEF Lists, l
    <3>. QED BY <1>2, <3>2
  <2>. QED BY <1>3, <2>1, <2>2
<1>6. ASSUME NEW x \in S \cup T PROVE \E j \in 1..k + l : u[j] = x
  <2>1. CASE x \in S
    <3>1. PICK j \in 1..k : s[j] = x
      BY <2>1 DEF Lists, k
    <3>2. j \in 1..k + l /\ j <= k
      BY <1>2
    <3>. QED BY <1>2, <3>1, <3>2
  <2>2. CASE x \in T
    <3>1. PICK j \in 1..l : t[j] = x
      BY <2>2 DEF Lists, l
    <3>2. k + j \in 1..k + l /\ ~(k + j <= k) /\ (k + j) - k = j
      BY <1>2
    <3>. QED BY <1>2, <3>1, <3>2
  <2>. QED BY <2>1, <2>2
<1>7. Len(u) = k + l
  BY <1>2
<1>8. Lists(u, S \cup T)
  BY <1>1, <1>4, <1>5, <1>6, <1>7 DEF Lists
<1>. QED BY <1>8 DEF u

\* In ascending order.
LEMMA AscendingLists ==
  ASSUME NEW S, S \subseteq Nat, IsFiniteSet(S)
  PROVE  Lists(Ascending(S), S)
<1>. DEFINE s == Ascending(S)
            n == Cardinality(S)
<1>1. Ascends(s, S, n) /\ n \in Nat /\ IsSequence(s) /\ Len(s) = n
  BY AscendingIs
<1>. HIDE DEF s
<1>2. /\ s \in [1..n -> S] /\ DOMAIN s = 1..n /\ \A i, j \in 1..n : i < j => s[i] < s[j]
      /\ \A j \in 1..n : s[j] \in S
  BY <1>1 DEF Ascends
<1>3. \A j, k \in 1..n : s[j] = s[k] => j = k
  <2>. HIDE DEF n
  <2>. SUFFICES ASSUME NEW j \in 1..n, NEW k \in 1..n, s[j] = s[k], j # k
                PROVE  FALSE
    OBVIOUS
  <2>1. s[j] \in Nat /\ s[k] \in Nat
    BY <1>2
  <2>2. j < k \/ k < j
    BY <1>1
  <2>3. s[j] < s[k] \/ s[k] < s[j]
    BY <1>2, <2>2
  <2>. QED BY <2>1, <2>3
<1>4. s \in Injection(1..n, S)
  BY <1>2, <1>3 DEF Injection, IsInjective
<1>5. Cardinality(1..n) = n
  <2>1. Cardinality(1..n) = IF 1 > n THEN 0 ELSE n - 1 + 1
    <3>. HIDE DEF n
    <3>. QED BY <1>1, FS_Interval
  <2>. HIDE DEF n
  <2>. QED BY <1>1, <2>1
<1>6. s \in Surjection(1..n, S)
  BY <1>4, <1>5, FS_Injection
<1>7. \A x \in S : \E j \in 1..n : s[j] = x
  BY <1>6 DEF Surjection
<1>8. Lists(s, S)
  <2>. HIDE DEF n
  <2>. QED BY <1>1, <1>2, <1>3, <1>7 DEF Lists
<1>. QED BY <1>8 DEF s

\* The blocks that are open.
LEMMA ListsOrder ==
  ASSUME NEW r, NEW order, NEW S, Lists(order, S),
         \A b \in S : b \in 1..Len(r.blocks) /\ r.blocks[b].open,
         \A b \in 1..Len(r.blocks) : r.blocks[b].open => b \in S
  PROVE  Orders(r, order)
BY DEF Lists, Orders

LEMMA ArgumentsAre ==
  ASSUME NEW m, NEW S, Placed(m, S), NEW b \in S
  PROVE  Arguments(m, b) = Lookup(m.buf, b, <<>>)
<1>. DEFINE of == {k \in DOMAIN m.at \cap DOMAIN m.buf : m.at[k] = b}
<1>1. DOMAIN m.at = S /\ \A k \in S : m.at[k] = k
  BY DEF Placed
<1>2. CASE b \in DOMAIN m.buf
  <2>1. of = {b}
    BY <1>1, <1>2
  <2>2. (CHOOSE k \in of : TRUE) = b /\ of # {}
    BY <2>1
  <2>. HIDE DEF of
  <2>3. Arguments(m, b) = m.buf[b]
    BY <2>2, Zenon DEF Arguments, of
  <2>. QED BY <1>2, <2>3 DEF Lookup, Known
<1>3. CASE b \notin DOMAIN m.buf
  <2>1. of = {}
    BY <1>1, <1>3
  <2>2. Arguments(m, b) = <<>>
    BY <2>1, Zenon DEF Arguments
  <2>. QED BY <1>3, <2>2 DEF Lookup, Known
<1>. QED BY <1>2, <1>3

\* The calls are all open, their arguments collected.
LEMMA CollectedIs ==
  ASSUME NEW r, NEW m, Args(r, m), Placed(m, Tools(r)), \A b \in Tools(r) : r.blocks[b].open
  PROVE  Collected(r, m)
BY ArgumentsAre DEF Args, Collected

LEMMA ToolsFinite ==
  ASSUME NEW r, Len(r.blocks) \in Nat
  PROVE  Tools(r) \subseteq Nat /\ IsFiniteSet(Tools(r)) /\ Lists(Ascending(Tools(r)), Tools(r))
<1>1. Tools(r) \subseteq 1..Len(r.blocks) /\ Tools(r) \subseteq Nat
  BY DEF Tools
<1>2. IsFiniteSet(1..Len(r.blocks))
  BY FS_Interval
<1>3. IsFiniteSet(Tools(r))
  BY <1>1, <1>2, FS_Subset
<1>. QED BY <1>1, <1>3, AscendingLists

\* The blocks of a kind.
Kindly(r, kind) == {b \in 1..Len(r.blocks) : r.blocks[b].kind = kind}

LEMMA ListsSome ==
  ASSUME NEW r, NEW kind, NEW i, Only(r, kind, i), Len(r.blocks) \in Nat
  PROVE  Lists(Completions!Some(i), Kindly(r, kind))
<1>. DEFINE s == Completions!Some(i)
<1>1. i \in 0..Len(r.blocks) /\ \A b \in 1..Len(r.blocks) : r.blocks[b].kind = kind <=> b = i
  BY DEF Only
<1>2. CASE i = 0
  <2>1. Kindly(r, kind) = {}
    BY <1>1, <1>2 DEF Kindly
  <2>2. s = <<>>
    BY <1>2 DEF Completions!Some
  <2>3. s \in Seq({}) /\ Len(s) = 0
    BY <2>2
  <2>. HIDE DEF s
  <2>4. IsSequence(s) /\ 1..Len(s) = {}
    BY <2>3 DEF IsSequence
  <2>5. Lists(s, {})
    BY <2>4, Zenon DEF Lists
  <2>. QED BY <2>1, <2>5 DEF s
<1>3. CASE i # 0
  <2>1. i \in 1..Len(r.blocks) /\ Kindly(r, kind) = {i}
    BY <1>1, <1>3 DEF Kindly
  <2>2. s = <<i>>
    BY <1>3 DEF Completions!Some
  <2>3. s \in Seq({i}) /\ Len(s) = 1 /\ s[1] = i
    BY <2>2
  <2>. HIDE DEF s
  <2>4. IsSequence(s) /\ 1..Len(s) = {1}
    BY <2>3 DEF IsSequence
  <2>5. Lists(s, {i})
    BY <2>3, <2>4 DEF Lists
  <2>. QED BY <2>1, <2>5 DEF s
<1>. QED BY <1>2, <1>3

\* The order in which Finalize ends the blocks.
CompletionsOrder(m) ==
  LET keys == Ascending(DOMAIN m.at)
      calls == [j \in DOMAIN keys |-> m.at[keys[j]]]
  IN Completions!Some(m.text) \o Completions!Some(m.think) \o calls

LEMMA CompletionsOrders ==
  ASSUME NEW r, IsReply("completions", r), NEW m, Placed(m, Tools(r)),
         Only(r, "text", m.text), Only(r, "thinking", m.think),
         \A b \in 1..Len(r.blocks) : r.blocks[b].open
  PROVE  Orders(r, CompletionsOrder(m))
<1>. DEFINE S == Tools(r)
            keys == Ascending(DOMAIN m.at)
            calls == [j \in DOMAIN keys |-> m.at[keys[j]]]
            texts == Kindly(r, "text")
            thoughts == Kindly(r, "thinking")
<1>1. Len(r.blocks) \in Nat
  BY ReplyFacts
<1>2. DOMAIN m.at = S /\ \A b \in S : m.at[b] = b
  BY DEF Placed
<1>3. S \subseteq Nat /\ IsFiniteSet(S) /\ Lists(Ascending(S), S)
  BY <1>1, ToolsFinite
<1>. HIDE DEF S
<1>4. keys = Ascending(S) /\ Ascends(keys, S, Cardinality(S))
  BY <1>2, <1>3, AscendingIs
<1>. HIDE DEF keys
<1>5. keys = [j \in DOMAIN keys |-> keys[j]] /\ \A j \in DOMAIN keys : keys[j] \in S
  BY <1>4 DEF Ascends
<1>6. calls = keys
  BY <1>2, <1>5
<1>7. Lists(calls, S)
  BY <1>3, <1>4, <1>6
<1>. HIDE DEF calls
<1>8. Lists(Completions!Some(m.text), texts) /\ Lists(Completions!Some(m.think), thoughts)
  BY <1>1, ListsSome
<1>9. texts \cap thoughts = {} /\ (texts \cup thoughts) \cap S = {}
  BY DEF Kindly, S, Tools
<1>. HIDE DEF texts, thoughts
<1>. DEFINE some == Completions!Some(m.text)
            more == Completions!Some(m.think)
            order == some \o more \o calls
<1>10. Lists(order, texts \cup thoughts \cup S)
  <2>. HIDE DEF some, more
  <2>1. Lists(some, texts) /\ Lists(more, thoughts)
    BY <1>8 DEF some, more
  <2>2. Lists(some \o more, texts \cup thoughts)
    BY <1>9, <2>1, ListsJoin
  <2>. DEFINE both == some \o more
              mixed == texts \cup thoughts
  <2>3. Lists(both, mixed) /\ mixed \cap S = {}
    BY <1>9, <2>2
  <2>. HIDE DEF both, mixed
  <2>4. Lists(both \o calls, mixed \cup S)
    BY <1>7, <2>3, ListsJoin
  <2>. QED BY <2>4 DEF both, mixed
<1>11. \A b \in texts \cup thoughts \cup S : b \in 1..Len(r.blocks) /\ r.blocks[b].open
  BY DEF texts, thoughts, S, Kindly, Tools
<1>12. \A b \in 1..Len(r.blocks) : b \in texts \cup thoughts \cup S
  <2>1. \A b \in 1..Len(r.blocks) : r.blocks[b].kind \in {"text", "thinking", "tool"}
    BY DEF IsReply, IsSaid, Kinds
  <2>. QED BY <2>1 DEF texts, thoughts, S, Kindly, Tools
<1>13. order = CompletionsOrder(m)
  BY Zenon DEF CompletionsOrder, calls, keys
<1>. HIDE DEF order
<1>14. Orders(r, order)
  <2>. DEFINE all == texts \cup thoughts \cup S
  <2>1. /\ Lists(order, all) /\ \A b \in all : b \in 1..Len(r.blocks) /\ r.blocks[b].open
        /\ \A b \in 1..Len(r.blocks) : r.blocks[b].open => b \in all
    BY <1>10, <1>11, <1>12
  <2>. HIDE DEF all
  <2>. QED BY <2>1, ListsOrder
<1>. QED BY <1>13, <1>14

\* A loop that read the same, but for the marks of the end.
Reads(m, f) ==
  /\ Speaks(f) /\ f.out = m.out /\ f.content = m.content /\ f.at = m.at /\ f.buf = m.buf
  /\ f.open = m.open /\ f.text = m.text /\ f.think = m.think /\ f.finish = m.finish

LEMMA CompletionsEnds ==
  ASSUME NEW r, IsReply("completions", r), NEW v, NEW m, GoesOn("completions", r, v, m),
         NEW f, Reads(m, f), f.saw => r.complete, NEW n, n = Completions!Finish(f)
  PROVE  Completes("completions", r, v, n) \/ Fails(v, n)
<1>1. Following(r, v, m) /\ CompletionsBooks(r, m) /\ Len(r.blocks) \in Nat
  BY FollowingIs, BooksAre DEF GoesOn
<1>2. Following(r, v, f)
  <2>1. Len(r.blocks) = Len(r.blocks) /\ \A k \in 1..Len(r.blocks) : Same(r, r, k)
    BY ReplyFacts DEF Same, Alike
  <2>. QED BY <1>1, <2>1, FollowsSame DEF Reads
<1>3. /\ Args(r, f) /\ Placed(f, Tools(r)) /\ Only(r, "text", f.text)
      /\ Only(r, "thinking", f.think) /\ f.finish = r.stop
      /\ \A b \in 1..Len(r.blocks) : r.blocks[b].open
  BY <1>1 DEF CompletionsBooks, Reads, Args, Placed
<1>4. Orders(r, CompletionsOrder(f)) /\ Collected(r, f)
  <2>1. \A b \in Tools(r) : r.blocks[b].open
    BY <1>3 DEF Tools
  <2>. QED BY <1>3, <2>1, CompletionsOrders, CollectedIs
<1>. DEFINE order == CompletionsOrder(f)
            all == 1..Len(r.blocks)
            o == EmitAllEnded(ParseCalls(f), order)
<1>5. PICK q : Halts("completions", r, q, all)
  BY HaltExists
<1>6. Following(q, v, o) /\ SameBooks(f, o)
  <2>1. /\ Orders(r, order) /\ Collected(r, f) /\ all = 1..Len(r.blocks)
        /\ o = EmitAllEnded(ParseCalls(f), order) /\ IsReply("completions", r)
    BY <1>4
  <2>. HIDE DEF order, all, o
  <2>. QED BY ONLY <1>2, <1>5, <2>1, FinalizesAll
<1>7. Completions!Finalize(f) = o
  BY CompletionsShares, Zenon DEF Completions!Finalize, CompletionsOrder
<1>8. \A b \in 1..Len(q.blocks) : ~q.blocks[b].open
  BY <1>5 DEF Halts
<1>. HIDE DEF o, all
<1>9. CASE ~f.saw /\ f.finish = "none"
  <2>1. n = Incomplete(o)
    BY <1>7, <1>9, CompletionsShares, Zenon DEF Completions!Finish
  <2>. QED BY <1>6, <2>1, FollowingFails
<1>10. CASE ~(~f.saw /\ f.finish = "none")
  <2>. DEFINE stop == IF f.finish = "none" THEN "stop" ELSE Completions!MapStopReason(f.finish)
              g == [o EXCEPT !.stop = stop]
  <2>1. n = Conclude(g)
    BY <1>7, <1>10, CompletionsShares, Zenon DEF Completions!Finish
  <2>2. StopFollows(r, stop)
    BY <1>3 DEF StopFollows, Completions!MapStopReason
  <2>. HIDE DEF stop
  <2>3. /\ stop \in {"stop", "length", "tool_use", "error"}
        /\ stop # "error" => Reasoned("completions", r, stop)
    BY <2>2, ReasonIs
  <2>4. Speaks(o)
    BY <1>6, FollowingIs
  <2>5. Speaks(g) /\ g.content = o.content
    BY <2>4, Notes
  <2>6. g.out = o.out /\ g.stop = stop
    BY <2>4 DEF Speaks, Machine
  <2>. HIDE DEF g
  <2>7. Following(q, v, g)
    <3>1. \A k \in 1..Len(q.blocks) : Same(q, q, k)
      BY <1>5, ReplyFacts DEF Halts, Same, Alike
    <3>. QED BY <1>6, <2>5, <2>6, <3>1, FollowsSame
  <2>8. q.complete
    <3>1. r.complete
      BY <1>3, <1>10 DEF IsReply
    <3>. QED BY <1>5, <3>1 DEF Halts
  <2>9. g.stop \in {"stop", "length", "tool_use", "error"}
        /\ (g.stop # "error" => Reasoned("completions", r, g.stop))
    BY <2>3, <2>6
  <2>10. Completes("completions", r, v, Conclude(g)) \/ Fails(v, Conclude(g))
    BY <1>5, <1>8, <2>7, <2>8, <2>9, HaltedEnds
  <2>. QED BY <2>1, <2>10
<1>. QED BY <1>9, <1>10

\* What has begun to come is not nothing.
LEMMA SentGrows ==
  ASSUME NEW api, NEW r, IsReply(api, r), NEW e, NEW q, Grows(api, r, e, q)
  PROVE  q.blocks[e.b].sent # <<>>
<1>1. PICK b \in 1..Len(r.blocks) :
        LET s == r.blocks[b]
            t == q.blocks[b]
            text == <<<<b, Len(s.sent) + 1>>>>
        IN /\ e = Wire("frag", b, s.kind, text, s.sig, FALSE)
           /\ t.sent = s.sent \o text
  BY Zenon DEF Grows
<1>. DEFINE s == r.blocks[b].sent
            x == <<b, Len(s) + 1>>
<1>2. s \in Seq(Seq(Nat)) /\ Len(s) \in Nat /\ b \in Nat
  BY ReplyFacts
<1>3. x \in Seq(Nat)
  <2>. HIDE DEF s
  <2>. QED BY <1>2
<1>4. e.b = b /\ q.blocks[b].sent = s \o <<x>>
  <2>1. q.blocks[b].sent = s \o <<x>>
    BY <1>1
  <2>2. \A kind, text, sig : Wire("frag", b, kind, text, sig, FALSE).b = b
    BY DEF Wire
  <2>. QED BY <1>1, <2>1, <2>2
<1>. HIDE DEF x, s
<1>5. Len(s \o <<x>>) = Len(s) + 1
  BY <1>2, <1>3
<1>. QED BY <1>2, <1>4, <1>5

LEMMA CompletionsGrows ==
  ASSUME NEW r, IsReply("completions", r), NEW e, NEW q, IsReply("completions", q),
         Grows("completions", r, e, q),
         NEW v, NEW m, GoesOn("completions", r, v, m), NEW n, n = Completions!HandleChunk(m, e)
  PROVE  GoesOn("completions", q, v, n)
<1>. DEFINE b == e.b
            text == e.text
            kind == e.kind
<1>1. Following(r, v, m) /\ CompletionsBooks(r, m) /\ Args(r, m) /\ DOMAIN m.content = 1..Len(r.blocks)
  BY BooksAre, FollowingIs DEF GoesOn, CompletionsBooks
<1>2. Grown(r, e, q)
  BY GrowthIs
<1>3. /\ Touches(r, q, b) /\ LongerBy(r.blocks[b], q.blocks[b], text)
      /\ kind = r.blocks[b].kind /\ kind \in Kinds /\ q.stop = r.stop
      /\ q.blocks[b].kind = r.blocks[b].kind /\ e.type = "frag" /\ text # <<>>
      /\ b \in 1..Len(r.blocks) /\ Len(q.blocks) = Len(r.blocks) /\ q.blocks[b].open
      /\ r.blocks[b].sent \in Seq(Seq(Nat)) /\ q.blocks[b].sent \in Seq(Seq(Nat))
  BY <1>2, ReplyFacts DEF Grown, LongerBy, Touches
<1>4. Kept(b, r.blocks[b], m.content[b])
  BY <1>1, <1>3, KeptIs
<1>5. Tools(q) = Tools(r) /\ \A k, i : Only(r, k, i) => Only(q, k, i)
  BY <1>3, KindsTouched
<1>6. \A k \in 1..Len(q.blocks) : k # b => k \in 1..Len(r.blocks) /\ Same(r, q, k)
  BY <1>3 DEF Touches
<1>7. Len(r.blocks) <= Len(q.blocks) /\ Len(q.blocks) \in Nat /\ Len(r.blocks) \in Nat
  BY <1>3, ReplyFacts
<1>8. ASSUME kind = "tool" PROVE GoesOn("completions", q, v, n)
  <2>1. n = Completions!OnToolCall(m, e)
    BY <1>3, <1>8, CompletionsHandles
  <2>2. b \in Tools(r) /\ m.at[b] = b /\ b \in DOMAIN m.at
    BY <1>1, <1>3, <1>8 DEF CompletionsBooks, Placed, Tools
  <2>3. Completions!Entry(m, e.b) = m
    BY <2>2, CompletionsShares, Zenon DEF Completions!Entry, Known
  <2>4. m.content[b].id # <<>>
    <3>1. r.blocks[b].named
      BY <1>3 DEF IsReply, IsSaid
    <3>2. IsCallId(b, r.blocks[b].named, m.content[b].id)
      BY <1>3, <1>4, <1>8 DEF Kept
    <3>3. m.content[b].id = <<b>>
      BY <3>1, <3>2, Zenon DEF IsCallId
    <3>4. \A y : <<y>> # <<>>
      OBVIOUS
    <3>. QED BY <3>3, <3>4, Zenon
  <2>5. n = Emit(Collect(m, b, text), Delta(b, "tool", text))
    <3>1. n = LET i == m.at[e.b]
                  isNew == m.content[i].id = <<>> /\ Completions!Lookup(m.buf, e.b, <<>>) = <<>>
                  begun == IF isNew
                           THEN Completions!EmitOpened([m EXCEPT !.content[i].id =
                                                          IF e.head THEN <<e.b>> ELSE <<>>], i)
                           ELSE m
              IN IF e.text = <<>> THEN begun
                 ELSE Completions!Emit(Completions!Collect(begun, e.b, e.text),
                                       Completions!Delta(i, "tool", e.text))
      BY <2>1, <2>3, Zenon DEF Completions!OnToolCall
    <3>2. n = Completions!Emit(Completions!Collect(m, e.b, e.text), Completions!Delta(b, "tool", e.text))
      BY <1>3, <2>2, <2>4, <3>1, Zenon
    <3>. QED BY <3>2, CompletionsShares, Zenon
  <2>. HIDE DEF b, text
  <2>6. Buffers(m, n, b, text) /\ Following(q, v, n)
    BY <1>1, <1>3, <1>8, <2>5, GrowsCall
  <2>7. Args(q, n)
    BY <1>1, <1>3, <1>8, <2>6, ArgsGrow
  <2>8. /\ n.finish = m.finish /\ n.saw = m.saw /\ n.at = m.at
        /\ n.text = m.text /\ n.think = m.think
    BY <2>6 DEF Buffers
  <2>9. DOMAIN n.buf \subseteq Tools(q)
    <3>1. \E x : n.buf = Put(m.buf, b, x)
      BY <2>6 DEF Buffers
    <3>2. DOMAIN n.buf = DOMAIN m.buf \cup {b}
      BY <3>1 DEF Put
    <3>. QED BY <1>1, <1>5, <2>2, <3>2 DEF CompletionsBooks
  <2>10. Placed(n, Tools(q)) /\ Only(q, "text", n.text) /\ Only(q, "thinking", n.think)
    BY <1>1, <1>5, <2>8 DEF CompletionsBooks, Placed
  <2>11. q.blocks[b].open /\ b \in Tools(q) /\ q.stop = r.stop
    BY <1>3, <1>5, <2>2
  <2>12. CompletionsBooks(q, n)
    BY ONLY <1>1, <1>6, <1>7, <2>7, <2>8, <2>9, <2>10, <2>11, CompletionsStays
  <2>. QED BY <2>6, <2>12, BooksAre DEF GoesOn
<1>9. ASSUME kind # "tool" PROVE GoesOn("completions", q, v, n)
  <2>0. kind \in Prose /\ r.blocks[b].kind # "tool"
    BY <1>3, <1>9 DEF Kinds, Prose
  <2>. DEFINE o == IF m.content[b].text = <<>> THEN EmitOpened(m, b) ELSE m
  <2>1. n = Completions!Accumulate(m, b, text)
    <3>1. CASE kind = "text"
      <4>1. m.text # 0 /\ m.text = b
        <5>1. Only(r, "text", m.text)
          BY <1>1 DEF CompletionsBooks
        <5>2. r.blocks[b].kind = "text" /\ b \in 1..Len(r.blocks)
          BY <1>3, <3>1
        <5>. HIDE DEF b
        <5>3. m.text = b
          BY <5>1, <5>2, Zenon DEF Only
        <5>. QED BY <5>2, <5>3
      <4>2. n = Completions!OnContent(m, e)
        BY <1>3, <3>1, CompletionsHandles
      <4>. QED BY <1>3, <4>1, <4>2, Zenon DEF Completions!OnContent
    <3>2. CASE kind = "thinking"
      <4>1. m.think # 0 /\ m.think = b
        <5>1. Only(r, "thinking", m.think)
          BY <1>1 DEF CompletionsBooks
        <5>2. r.blocks[b].kind = "thinking" /\ b \in 1..Len(r.blocks)
          BY <1>3, <3>2
        <5>. HIDE DEF b
        <5>3. m.think = b
          BY <5>1, <5>2, Zenon DEF Only
        <5>. QED BY <5>2, <5>3
      <4>2. n = Completions!OnReasoning(m, e)
        BY <1>3, <3>2, CompletionsHandles
      <4>. QED BY <1>3, <4>1, <4>2, Zenon DEF Completions!OnReasoning
    <3>. QED BY <2>0, <3>1, <3>2 DEF Prose
  <2>2. m.content[b].kind = kind
    BY <1>3, <1>4, <2>0 DEF Kept
  <2>3. o = IF m.content[b].text = <<>> THEN EmitOpened(m, b) ELSE m
    OBVIOUS
  <2>. HIDE DEF o, b, text, kind
  <2>4. n = Emit(Extend(o, b, kind, text), Delta(b, kind, text))
    BY <2>1, <2>2, <2>3, AccumulateIs
  <2>5. Retells(m, n, b) /\ Following(q, v, n)
    BY ONLY <1>1, <1>3, <2>0, <2>3, <2>4, GrowsAgain
  <2>6. /\ n.finish = m.finish /\ n.saw = m.saw /\ n.at = m.at
        /\ n.text = m.text /\ n.think = m.think /\ n.buf = m.buf
    BY <2>5 DEF Retells, SameBooks
  <2>7. Args(q, n)
    BY <1>1, <1>3, <2>0, <2>6, ArgsKept
  <2>8. DOMAIN n.buf \subseteq Tools(q)
    BY <1>1, <1>5, <2>6 DEF CompletionsBooks
  <2>9. Placed(n, Tools(q)) /\ Only(q, "text", n.text) /\ Only(q, "thinking", n.think)
    BY <1>1, <1>5, <2>6 DEF CompletionsBooks, Placed
  <2>10. q.blocks[b].sent # <<>>
    BY SentGrows DEF b
  <2>11. q.blocks[b].open /\ q.stop = r.stop
    BY <1>3
  <2>12. CompletionsBooks(q, n)
    BY ONLY <1>1, <1>6, <1>7, <2>6, <2>7, <2>8, <2>9, <2>10, <2>11, CompletionsStays
  <2>. QED BY <2>5, <2>12, BooksAre DEF GoesOn
<1>. QED BY <1>8, <1>9

\* The reply's reason is noted.
LEMMA CompletionsStopped ==
  ASSUME NEW r, IsReply("completions", r), NEW e, NEW q, Stops("completions", r, e, q),
         NEW v, NEW m, GoesOn("completions", r, v, m), NEW n, n = [m EXCEPT !.finish = e.kind]
  PROVE  e.type = "stop" /\ GoesOn("completions", q, v, n)
<1>1. Following(r, v, m) /\ CompletionsBooks(r, m) /\ Speaks(m) /\ Len(r.blocks) \in Nat
  BY BooksAre, FollowingIs DEF GoesOn
<1>2. Stopped(r, e, q) /\ e.type = IF "completions" = "responses" THEN "end" ELSE "stop"
  BY StoppingIs
<1>3. /\ q.blocks = r.blocks /\ r.stop = "none" /\ q.stop = e.kind
      /\ e.kind \in {"length", "refused", "tool_use", "stop"} /\ e.type = "stop"
  BY <1>2 DEF Stopped
<1>5. /\ Speaks(n) /\ n.content = m.content /\ n.finish = e.kind /\ n.buf = m.buf
      /\ n.out = m.out /\ n.at = m.at /\ n.saw = m.saw /\ n.text = m.text /\ n.think = m.think
  <2>1. n = [m EXCEPT !.finish = e.kind]
    OBVIOUS
  <2>2. DOMAIN n = DOMAIN m /\ n.content = m.content /\ n.finish = e.kind /\ n.buf = m.buf
        /\ n.out = m.out /\ n.at = m.at /\ n.saw = m.saw /\ n.over = m.over
        /\ n.text = m.text /\ n.think = m.think
    BY <1>1, <2>1 DEF Speaks, Machine
  <2>. QED BY <1>1, <2>2, Keeps
<1>6. Len(q.blocks) = Len(r.blocks) /\ \A k \in 1..Len(r.blocks) : Same(r, q, k)
  BY <1>3, Unchanging
<1>7. Following(q, v, n)
  BY <1>1, <1>5, <1>6, FollowsSame
<1>8. Args(q, n) /\ Tools(q) = Tools(r) /\ Placed(n, Tools(q))
  <2>1. Args(r, m) /\ Placed(m, Tools(r))
    BY <1>1 DEF CompletionsBooks
  <2>2. Tools(q) = Tools(r)
    BY <1>3 DEF Tools
  <2>3. Placed(n, Tools(q))
    BY <1>5, <2>1, <2>2 DEF Placed
  <2>4. \A k \in Tools(r) : q.blocks[k] = r.blocks[k]
    BY <1>3
  <2>. QED BY <1>3, <1>5, <2>1, <2>2, <2>3, <2>4, Zenon DEF Args
<1>9. Only(q, "text", n.text) /\ Only(q, "thinking", n.think)
  <2>1. Only(r, "text", m.text) /\ Only(r, "thinking", m.think)
    BY <1>1 DEF CompletionsBooks
  <2>. QED BY <1>3, <1>5, <2>1 DEF Only
<1>10. /\ DOMAIN n.buf \subseteq Tools(q) /\ n.saw = FALSE /\ n.finish = q.stop
       /\ \A b \in 1..Len(q.blocks) : q.blocks[b].open /\ (q.blocks[b].sent = <<>> => b \in Tools(q))
  BY <1>1, <1>3, <1>5, <1>8 DEF CompletionsBooks
<1>11. CompletionsBooks(q, n)
  BY <1>8, <1>9, <1>10 DEF CompletionsBooks
<1>. QED BY <1>3, <1>7, <1>11, BooksAre DEF GoesOn

\* The loop ends with what was said before the connection did, or before the end was marked.
LEMMA CompletionsFinishes ==
  ASSUME NEW r, IsReply("completions", r), NEW q, IsReply("completions", q),
         q.blocks = r.blocks, q.stop = r.stop,
         NEW v, NEW m, GoesOn("completions", r, v, m)
  PROVE  /\ Completes("completions", q, v, Completions!Finish(m)) \/ Fails(v, Completions!Finish(m))
         /\ q.complete =>
              \/ Completes("completions", q, v, Completions!Finish([m EXCEPT !.saw = TRUE]))
              \/ Fails(v, Completions!Finish([m EXCEPT !.saw = TRUE]))
<1>1. GoesOn("completions", q, v, m)
  BY GoesStill
<1>2. Speaks(m) /\ ~m.saw
  BY <1>1, BooksAre, FollowingIs DEF GoesOn, CompletionsBooks
<1>3. Completes("completions", q, v, Completions!Finish(m)) \/ Fails(v, Completions!Finish(m))
  <2>1. Reads(m, m)
    BY <1>2 DEF Reads
  <2>2. m.saw => q.complete
    BY <1>2
  <2>. QED BY <1>1, <2>1, <2>2, CompletionsEnds
<1>4. ASSUME q.complete
      PROVE  \/ Completes("completions", q, v, Completions!Finish([m EXCEPT !.saw = TRUE]))
             \/ Fails(v, Completions!Finish([m EXCEPT !.saw = TRUE]))
  <2>. DEFINE f == [m EXCEPT !.saw = TRUE]
  <2>1. DOMAIN f = DOMAIN m /\ f.out = m.out /\ f.content = m.content /\ f.over = m.over
    BY <1>2 DEF Speaks, Machine
  <2>2. /\ f.at = m.at /\ f.buf = m.buf
        /\ f.open = m.open /\ f.text = m.text /\ f.think = m.think /\ f.finish = m.finish
    BY <1>2 DEF Speaks, Machine
  <2>. HIDE DEF f
  <2>3. Speaks(f)
    BY <1>2, <2>1, <2>2, Keeps
  <2>4. Reads(m, f) /\ (f.saw => q.complete)
    BY <1>4, <2>1, <2>2, <2>3 DEF Reads
  <2>5. Completes("completions", q, v, Completions!Finish(f)) \/ Fails(v, Completions!Finish(f))
    BY <1>1, <2>4, CompletionsEnds
  <2>. QED BY <2>5 DEF f
<1>. QED BY <1>3, <1>4

\* Whatever a chat completions service sends, the loop is in line with it, or ends well.
LEMMA CompletionsAnswers ==
  ASSUME NEW r, IsReply("completions", r), NEW e, NEW q, IsReply("completions", q),
         Moved("completions", r, e, q), NEW v, NEW m, GoesOn("completions", r, v, m)
  PROVE  /\ e.type \notin {"eof", "broken"} => Answers("completions", q, v, Completions!HandleChunk(m, e))
         /\ e.type = "eof" => Answers("completions", q, v, Completions!Eof(m))
<1>. DEFINE n == Completions!HandleChunk(m, e)
<1>3. /\ e.type = "end"  => n = Completions!Finish([m EXCEPT !.saw = TRUE])
      /\ e.type = "stop" => n = [m EXCEPT !.finish = e.kind]
      /\ e.type = "frag" /\ e.kind = "text"     => n = Completions!OnContent(m, e)
      /\ e.type = "frag" /\ e.kind = "thinking" => n = Completions!OnReasoning(m, e)
      /\ e.type = "frag" /\ e.kind = "tool"     => n = Completions!OnToolCall(m, e)
  BY CompletionsHandles
<1>4. ASSUME e.type \notin {"eof", "broken"} PROVE Answers("completions", q, v, n)
  <2>1. CASE Begins("completions", r, e, q)
    <3>1. /\ Begun1("completions", r, e, q) /\ q.blocks[e.b].open /\ e.head = TRUE
          /\ e.type = IF Framed("completions") \/ ("completions" = "bedrock" /\ e.kind = "tool")
                      THEN "open" ELSE "frag"
      <4>1. Superseded("completions", r) = {}
        BY DEF Superseded
      <4>. QED BY <2>1, <4>1, BeginsElsewhere
    <3>2. e.type = "frag"
      BY <3>1 DEF Framed
    <3>3. e.kind # "redacted" /\ e.kind \in Kinds \cup {"redacted"}
      BY <3>1 DEF Begun1, MayBegin
    <3>4. CASE e.kind = "tool"
      <4>1. GoesOn("completions", q, v, Completions!OnToolCall(m, e))
        BY <3>1, <3>4, CompletionsCalls
      <4>. QED BY <1>3, <3>2, <3>4, <4>1 DEF Answers
    <3>5. CASE e.kind # "tool"
      <4>1. e.kind \in Prose
        BY <3>3, <3>5 DEF Prose, Kinds
      <4>2. /\ e.kind = "text" => GoesOn("completions", q, v, Completions!OnContent(m, e))
            /\ e.kind = "thinking" => GoesOn("completions", q, v, Completions!OnReasoning(m, e))
        BY <3>1, <4>1, CompletionsBegins
      <4>. QED BY <1>3, <3>2, <4>1, <4>2 DEF Answers, Prose
    <3>. QED BY <3>4, <3>5
  <2>2. CASE Grows("completions", r, e, q)
    <3>. HIDE DEF n
    <3>1. n = Completions!HandleChunk(m, e)
      BY DEF n
    <3>2. GoesOn("completions", q, v, n)
      BY <2>2, <3>1, CompletionsGrows
    <3>. QED BY <3>2 DEF Answers
  <2>3. ~Signs("completions", r, e, q)
    BY DEF Signs
  <2>4. ~Shuts("completions", r, e, q)
    BY DEF Shuts, Closes
  <2>5. CASE Stops("completions", r, e, q)
    <3>1. e.type = "stop"
      BY <2>5, StoppingIs
    <3>. HIDE DEF n
    <3>2. n = [m EXCEPT !.finish = e.kind]
      BY <1>3, <3>1
    <3>3. GoesOn("completions", q, v, n)
      BY <2>5, <3>2, CompletionsStopped
    <3>. QED BY <3>3 DEF Answers
  <2>6. CASE Concludes("completions", r, e, q)
    <3>1. q.blocks = r.blocks /\ q.stop = r.stop /\ q.complete /\ e.type = "end"
      BY <2>6, ConcludingIs
    <3>2. n = Completions!Finish([m EXCEPT !.saw = TRUE])
      BY <1>3, <3>1
    <3>3. \/ Completes("completions", q, v, Completions!Finish([m EXCEPT !.saw = TRUE]))
          \/ Fails(v, Completions!Finish([m EXCEPT !.saw = TRUE]))
      BY <3>1, CompletionsFinishes
    <3>. HIDE DEF n
    <3>. QED BY <3>2, <3>3, Zenon DEF Answers
  <2>7. CASE Breaks("completions", r, e, q)
    <3>1. FALSE
      BY <1>4, <2>7, BreakingIs
    <3>. QED BY <3>1
  <2>8. ~Repeats("completions", r, e, q) /\ ~ComesLate("completions", r, e, q)
    BY DEF Repeats, ComesLate
  <2>. QED BY <2>1, <2>2, <2>3, <2>4, <2>5, <2>6, <2>7, <2>8 DEF Moved
<1>5. ASSUME e.type = "eof" PROVE Answers("completions", q, v, Completions!Eof(m))
  <2>1. q.blocks = r.blocks /\ q.stop = r.stop
    BY <1>5, EofBreaks
  <2>2. Completes("completions", q, v, Completions!Finish(m)) \/ Fails(v, Completions!Finish(m))
    BY <2>1, CompletionsFinishes
  <2>3. Completions!Eof(m) = Completions!Finish(m)
    BY Zenon DEF Completions!Eof
  <2>. QED BY <2>2, <2>3, Zenon DEF Answers
<1>. QED BY <1>4, <1>5 DEF n
=============================================================================
