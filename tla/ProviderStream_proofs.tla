------------------------ MODULE ProviderStream_proofs ------------------------
(***************************************************************************)
(* One call of stream(), for replies of any length and any moment of the   *)
(* cancellation.  First the loops of Mistral, Gemini and Responses, each   *)
(* in line with the reply it reads; then the task: its types, that it says *)
(* so when it is over, what it tells once it is cancelled; and last that   *)
(* its events keep to the protocol, that a Done stands for the whole reply *)
(* and that a consumer of the events has it.                               *)
(***************************************************************************)
EXTENDS ProviderLoops_proofs

-----------------------------------------------------------------------------
(* Running text that ends with the next block (Mistral, Gemini). *)

\* The machine, with no block open.
Rests(m, n) ==
  /\ n.open = 0 /\ n.content = m.content /\ n.stop = m.stop /\ n.at = m.at /\ n.buf = m.buf
  /\ n.ended = m.ended /\ n.text = m.text /\ n.think = m.think /\ n.finish = m.finish
  /\ n.saw = m.saw

LEMMA RestsRunning ==
  ASSUME NEW api, api # "anthropic", NEW r, IsReply(api, r), NEW v, NEW m, Following(r, v, m),
         Running(r, m.open), NEW S, S = Current(r), NEW h, Halts(api, r, h, S),
         NEW p, p = [m EXCEPT !.open = 0],
         NEW n, n = IF m.open = 0 THEN m ELSE EmitEnded(p, m.open)
  PROVE  Following(h, v, n) /\ Rests(m, n)
<1>1. Speaks(m) /\ Len(r.blocks) \in Nat
  BY FollowingIs
<1>2. Speaks(p) /\ p.content = m.content /\ p.at = m.at
  BY <1>1, Notes
<1>3. Rests(m, p) /\ p.out = m.out
  BY <1>1 DEF Speaks, Machine, Rests
<1>4. \A k \in 1..Len(r.blocks) : Same(r, r, k)
  BY ReplyFacts DEF Same, Alike
<1>5. CASE m.open = 0
  <2>1. S = {} /\ n = m
    BY <1>5 DEF Running
  <2>2. Len(h.blocks) = Len(r.blocks) /\ \A k \in 1..Len(r.blocks) : Same(r, h, k)
    BY <2>1 DEF Halts, Same
  <2>3. Following(h, v, m)
    BY <1>1, <2>2, FollowsSame
  <2>4. Rests(m, m)
    BY <1>5 DEF Rests
  <2>. QED BY <2>1, <2>3, <2>4
<1>6. CASE m.open # 0
  <2>. DEFINE b == m.open
  <2>1. b \in 1..Len(r.blocks) /\ S = {b}
    BY <1>1, <1>6 DEF Running
  <2>2. r.blocks[b].open /\ r.blocks[b].kind # "tool"
    BY <2>1 DEF Current
  <2>3. r.blocks[b].kind \in Kinds \cup {"redacted"} /\ r.blocks[b].kind # "redacted"
    BY <2>1 DEF IsReply, IsSaid
  <2>4. r.blocks[b].kind \in Prose
    BY <2>2, <2>3 DEF Kinds, Prose
  <2>5. Touches(r, h, b) /\ ~h.blocks[b].open /\ Alike(h.blocks[b], r.blocks[b])
    BY <2>1 DEF Halts, Touches, Same
  <2>6. n = EmitEnded(p, b)
    BY <1>6
  <2>7. Following(r, v, p)
    BY <1>2, <1>3, <1>4, FollowsSame
  <2>. HIDE DEF b
  <2>8. SameBooks(p, n) /\ n.content = p.content /\ Following(h, v, n)
    BY ONLY <2>2, <2>4, <2>5, <2>6, <2>7, EndsProse
  <2>9. Rests(m, n)
    BY <1>3, <2>8 DEF SameBooks, Rests
  <2>. QED BY <2>8, <2>9
<1>. QED BY <1>5, <1>6

\* The other books of the loop, after the running text ended.
LEMMA RestsBooks ==
  ASSUME NEW api, NEW r, IsReply(api, r), NEW S, S = Current(r), NEW h, Halts(api, r, h, S),
         NEW m, NEW n, Rests(m, n)
  PROVE  /\ Tools(h) = Tools(r) /\ Current(h) = {} /\ Running(h, n.open)
         /\ Args(r, m) => Args(h, n)
         /\ \A b \in Tools(r) : h.blocks[b].open <=> r.blocks[b].open
<1>1. /\ Len(h.blocks) = Len(r.blocks) /\ Len(r.blocks) \in Nat
      /\ DOMAIN h.blocks = 1..Len(r.blocks) /\ DOMAIN r.blocks = 1..Len(r.blocks)
      /\ \A b \in 1..Len(r.blocks) :
           /\ h.blocks[b].kind = r.blocks[b].kind /\ h.blocks[b].sent = r.blocks[b].sent
           /\ h.blocks[b].open <=> (r.blocks[b].open /\ b \notin S)
  BY ReplyFacts DEF Halts, Alike
<1>2. Tools(h) = Tools(r)
  BY <1>1 DEF Tools
<1>3. Current(h) = {}
  BY <1>1 DEF Current
<1>4. Running(h, n.open)
  BY <1>1, <1>3 DEF Running, Rests
<1>5. Args(r, m) => Args(h, n)
  <2>1. \A b \in Tools(r) : h.blocks[b].sent = r.blocks[b].sent
    BY <1>1 DEF Tools
  <2>. QED BY <1>1, <1>2, <2>1 DEF Args, Rests
<1>6. \A b \in Tools(r) : h.blocks[b].open <=> r.blocks[b].open
  BY <1>1 DEF Tools, Current
<1>. QED BY <1>2, <1>3, <1>4, <1>5, <1>6

\* A block that begins after the running text ended.
BegunOver(api, r, h, e, q) ==
  LET s == q.blocks[e.b] IN
  /\ Adds1(h, q, e.b) /\ Len(q.blocks) = Len(r.blocks) + 1 /\ e.b = Len(r.blocks) + 1
  /\ q.stop = r.stop /\ q.complete = r.complete
  /\ s.kind = e.kind /\ s.sent = e.text /\ s.sig = e.sig /\ s.named = e.head
  /\ (s.open <=> ~(api = "google" /\ e.kind = "tool"))
  /\ e.kind \in Kinds /\ e.text \in Heads(api, e.kind, e.b)
  /\ MayComeSigned(api, e.kind, e.sig # <<>>) /\ MayBegin(api, r, e.kind)
  /\ e.head \in Named(api, r, e.kind, e.sig) /\ e.type = "frag"

LEMMA BeginsOver ==
  ASSUME NEW api, api \in {"mistral", "google"}, NEW r, IsReply(api, r), NEW e, NEW q,
         Begins(api, r, e, q), NEW S, S = Current(r), NEW h, Halts(api, r, h, S)
  PROVE  BegunOver(api, r, h, e, q)
<1>1. LET b == Len(r.blocks) + 1
          s == q.blocks[b]
      IN /\ Sizes(q, b) /\ q.stop = r.stop /\ q.complete = r.complete
         /\ s.kind = e.kind /\ s.sent = e.text /\ s.sig = e.sig /\ s.named = e.head
         /\ (s.open <=> ~(api = "google" /\ e.kind = "tool"))
         /\ \A c \in 1..Len(r.blocks) :
              /\ Alike(q.blocks[c], r.blocks[c])
              /\ q.blocks[c].open <=> (r.blocks[c].open /\ c \notin Superseded(api, r))
         /\ e.b = b /\ e.kind \in Kinds \cup {"redacted"} /\ e.text \in Heads(api, e.kind, b)
         /\ e.head \in Named(api, r, e.kind, e.sig)
         /\ MayComeSigned(api, e.kind, e.sig # <<>>) /\ MayBegin(api, r, e.kind)
  BY Zenon DEF Begins
<1>11. e.type = IF Framed(api) \/ (api = "bedrock" /\ e.kind = "tool") THEN "open" ELSE "frag"
  <2>1. \/ e.type = IF Framed(api) \/ (api = "bedrock" /\ e.kind = "tool") THEN "open" ELSE "frag"
        \/ api = "responses"
    BY Zenon DEF Begins
  <2>. QED BY <2>1
<1>2. Superseded(api, r) = S
  BY DEF Superseded
<1>3. e.type = "frag" /\ e.kind \in Kinds
  <2>1. e.kind # "redacted"
    BY <1>1 DEF MayBegin
  <2>2. ~Framed(api)
    BY DEF Framed
  <2>. QED BY <1>1, <1>11, <2>1, <2>2
<1>4. Adds1(h, q, e.b)
  <2>1. \A c \in 1..Len(r.blocks) :
          /\ Alike(q.blocks[c], r.blocks[c])
          /\ q.blocks[c].open <=> (r.blocks[c].open /\ c \notin S)
    BY <1>1, <1>2
  <2>2. \A c \in 1..Len(r.blocks) : Same(h, q, c)
    BY <2>1 DEF Halts, Same, Alike
  <2>3. Len(h.blocks) = Len(r.blocks) /\ Len(q.blocks) = Len(r.blocks) + 1
    BY <1>1 DEF Halts, Sizes
  <2>. QED BY <1>1, <2>2, <2>3 DEF Adds1, Lengthens
<1>5. Len(q.blocks) = Len(r.blocks) + 1
  BY <1>1 DEF Sizes
<1>. QED BY <1>1, <1>3, <1>4, <1>5 DEF BegunOver

\* What runs after one more block.
LEMMA RunsOn ==
  ASSUME NEW api, NEW h, IsReply(api, h), NEW q, IsReply(api, q), NEW b, Adds1(h, q, b),
         Current(h) = {}
  PROVE  /\ q.blocks[b].open /\ q.blocks[b].kind # "tool" => Running(q, b)
         /\ q.blocks[b].kind = "tool" => Running(q, 0)
<1>1. /\ DOMAIN q.blocks = 1..b /\ DOMAIN h.blocks = 1..Len(h.blocks) /\ Len(h.blocks) \in Nat
      /\ b = Len(h.blocks) + 1 /\ Len(q.blocks) = b
      /\ \A k \in 1..Len(h.blocks) : /\ q.blocks[k].kind = h.blocks[k].kind
                                     /\ q.blocks[k].open <=> h.blocks[k].open
  BY ReplyFacts DEF Adds1, Lengthens, Same, Alike
<1>2. \A k \in 1..Len(h.blocks) : ~(h.blocks[k].open /\ h.blocks[k].kind # "tool")
  BY <1>1 DEF Current
<1>3. \A k \in 1..b : k = b \/ k \in 1..Len(h.blocks)
  BY <1>1
<1>4. \A k \in 1..b : q.blocks[k].open /\ q.blocks[k].kind # "tool" => k = b
  BY <1>1, <1>2, <1>3
<1>5. b \in 1..b /\ b # 0 /\ b \in 0..Len(q.blocks) /\ 0 \in 0..Len(q.blocks)
  BY <1>1
<1>6. ASSUME q.blocks[b].open, q.blocks[b].kind # "tool" PROVE Current(q) = {b}
  BY <1>1, <1>4, <1>5, <1>6 DEF Current
<1>7. ASSUME q.blocks[b].kind = "tool" PROVE Current(q) = {}
  BY <1>1, <1>4, <1>7 DEF Current
<1>. QED BY <1>5, <1>6, <1>7 DEF Running

\* More of a Mistral call's arguments.
GrownOver(h, e, q) ==
  /\ Touches(h, q, e.b) /\ LongerBy(h.blocks[e.b], q.blocks[e.b], e.text)
  /\ h.blocks[e.b].kind = "tool" /\ e.type = "frag" /\ e.text # <<>>
  /\ q.stop = h.stop /\ q.complete = h.complete

LEMMA GrowsOver ==
  ASSUME NEW r, IsReply("mistral", r), NEW e, NEW q, Grows("mistral", r, e, q), e.kind = "tool",
         NEW S, S = Current(r), NEW h, Halts("mistral", r, h, S)
  PROVE  GrownOver(h, e, q)
<1>2. PICK b \in 1..Len(r.blocks) :
        LET s == r.blocks[b]
            t == q.blocks[b]
            text == <<<<b, Len(s.sent) + 1>>>>
        IN /\ MayGrow(r, b)
           /\ e = Wire("frag", b, s.kind, text, s.sig, FALSE)
           /\ Changes(r, q, b, IF "mistral" = "mistral" /\ s.kind = "tool" THEN Current(r) ELSE {})
           /\ t.sent = s.sent \o text /\ t.sig = s.sig /\ t.whole = s.whole /\ t.open
  BY Zenon DEF Grows
<1>. DEFINE s == r.blocks[b]
            t == q.blocks[b]
            g == h.blocks[b]
            text == <<<<b, Len(s.sent) + 1>>>>
<1>3. /\ e.type = "frag" /\ e.b = b /\ e.kind = s.kind /\ e.text = text
  BY <1>2 DEF Wire
<1>4. Changes(r, q, b, S) /\ s.kind = "tool"
  BY <1>2, <1>3
<1>5. text # <<>>
  OBVIOUS
<1>6. t.sent = s.sent \o text /\ t.sig = s.sig /\ t.open /\ s.open
  BY <1>2 DEF MayGrow
<1>. HIDE DEF text
<1>7. b \notin S
  BY <1>4 DEF Current
<1>8. g.open /\ g.kind = s.kind /\ g.sent = s.sent /\ g.sig = s.sig /\ g.named = s.named
  BY <1>6, <1>7 DEF Halts, Alike
<1>9. t.kind = s.kind /\ t.named = s.named /\ q.stop = r.stop /\ q.complete = r.complete
      /\ Len(q.blocks) = Len(r.blocks)
  BY <1>4 DEF Changes, Sizes
<1>10. LongerBy(g, t, text)
  BY <1>6, <1>8, <1>9 DEF LongerBy
<1>11. Touches(h, q, b)
  <2>1. \A c \in (1..Len(r.blocks)) \ {b} :
          Alike(q.blocks[c], r.blocks[c]) /\ (q.blocks[c].open <=> (r.blocks[c].open /\ c \notin S))
    BY <1>4, Zenon DEF Changes, Rest
  <2>2. \A c \in (1..Len(r.blocks)) \ {b} : Same(h, q, c)
    BY <2>1 DEF Halts, Same, Alike
  <2>. QED BY <1>9, <2>2 DEF Halts, Touches
<1>. QED BY <1>3, <1>4, <1>5, <1>8, <1>9, <1>10, <1>11 DEF GrownOver, Halts

-----------------------------------------------------------------------------
(* Mistral. *)

LEMMA MistralRests ==
  ASSUME NEW r, IsReply("mistral", r), NEW v, NEW m, GoesOn("mistral", r, v, m),
         NEW S, S = Current(r), NEW h, Halts("mistral", r, h, S),
         NEW n, n = MistralApi!FinishContentBlock(m)
  PROVE  Following(h, v, n) /\ Rests(m, n) /\ MistralBooks(h, n)
<1>. DEFINE p == [m EXCEPT !.open = 0]
<1>1. Following(r, v, m) /\ MistralBooks(r, m) /\ Running(r, m.open)
  BY BooksAre DEF GoesOn, MistralBooks
<1>2. n = IF m.open = 0 THEN m ELSE EmitEnded(p, m.open)
  BY MistralApiShares, Zenon DEF MistralApi!FinishContentBlock
<1>. HIDE DEF p
<1>3. p = [m EXCEPT !.open = 0]
  BY DEF p
<1>4. Following(h, v, n) /\ Rests(m, n)
  BY <1>1, <1>2, <1>3, RestsRunning
<1>5. /\ Tools(h) = Tools(r) /\ Running(h, n.open) /\ Args(h, n)
      /\ \A b \in Tools(r) : h.blocks[b].open
  BY <1>1, <1>4, RestsBooks DEF MistralBooks
<1>6. Placed(n, Tools(h))
  BY <1>1, <1>4, <1>5 DEF MistralBooks, Placed, Rests
<1>7. DOMAIN n.buf \subseteq Tools(h) /\ n.finish = h.stop /\ n.saw = FALSE
  BY <1>1, <1>4, <1>5 DEF MistralBooks, Rests, Halts
<1>. QED BY <1>4, <1>5, <1>6, <1>7 DEF MistralBooks

\* A text or a thought begins.
LEMMA MistralBegins ==
  ASSUME NEW r, IsReply("mistral", r), NEW e, NEW q, IsReply("mistral", q),
         NEW S, S = Current(r), NEW h, Halts("mistral", r, h, S),
         BegunOver("mistral", r, h, e, q), e.kind \in Prose,
         NEW v, NEW m, GoesOn("mistral", r, v, m)
  PROVE  GoesOn("mistral", q, v, MistralApi!AppendContentDelta(m, e))
<1>. DEFINE b == e.b
            kind == e.kind
            text == e.text
            x == Block(kind)
            c == MistralApi!FinishContentBlock(m)
            a == Add(c, x)
            p == [a EXCEPT !.open = b]
            o == EmitOpened(p, b)
            n == Emit(Extend(o, b, kind, text), Delta(b, kind, text))
<1>1. /\ Following(r, v, m) /\ MistralBooks(r, m) /\ Speaks(m)
      /\ Len(r.blocks) \in Nat /\ Len(m.content) = Len(r.blocks)
  BY FollowingIs, BooksAre DEF GoesOn
<1>2. Following(h, v, c) /\ Rests(m, c) /\ MistralBooks(h, c)
  BY MistralRests
<1>. HIDE DEF c
<1>3. /\ b = Len(r.blocks) + 1 /\ Adds1(h, q, b) /\ q.stop = r.stop /\ h.stop = r.stop
      /\ q.blocks[b].kind = kind /\ text = q.blocks[b].sent /\ q.blocks[b].sig = e.sig
      /\ MayComeSigned("mistral", e.kind, e.sig # <<>>) /\ MayBegin("mistral", r, e.kind)
      /\ e.text \in Heads("mistral", e.kind, e.b)
      /\ Len(q.blocks) = Len(r.blocks) + 1 /\ q.blocks[b].open /\ Len(h.blocks) = Len(r.blocks)
  BY DEF BegunOver, Halts
<1>4. kind # "tool" /\ kind # "redacted" /\ kind \in Kinds /\ kind \in Prose
  BY DEF Prose, Kinds
<1>5. q.blocks[b].sig = <<>>
  <2>1. (e.sig # <<>>) = (e.kind = "redacted")
    BY <1>3 DEF MayComeSigned
  <2>. QED BY <1>3, <1>4, <2>1
<1>6. text # <<>>
  <2>1. text \in {<<<<b, 1>>>>}
    BY <1>3, <1>4, Zenon DEF Heads
  <2>2. \A y : <<y>> # <<>>
    OBVIOUS
  <2>. QED BY <2>1, <2>2, Zenon
<1>7. Speaks(c) /\ Len(c.content) = Len(r.blocks)
  BY <1>2, <1>3, FollowingIs
<1>8. IsBlock(x) /\ x = Block(kind) /\ x.text = <<>> /\ x.kind = kind
  BY <1>4, NewBlockFields
<1>. HIDE DEF x
<1>9. Speaks(a) /\ a.out = c.out /\ SameBooks(c, a) /\ Gains(c.content, a.content, x)
  BY <1>7, <1>8, AddIs
<1>10. a = Add(c, x)
  OBVIOUS
<1>. HIDE DEF a
<1>11. Speaks(p) /\ p.content = a.content /\ p.at = a.at
  BY <1>9, Notes
<1>12. /\ p.out = a.out /\ p.open = b /\ p.stop = a.stop /\ p.buf = a.buf /\ p.finish = a.finish
       /\ p.saw = a.saw
  BY <1>9 DEF Speaks, Machine
<1>13. p = [a EXCEPT !.open = b]
  OBVIOUS
<1>. HIDE DEF p
<1>14. Gains(c.content, p.content, x) /\ p.out = c.out
  BY <1>9, <1>11, <1>12
<1>15. o = EmitOpened(p, b) /\ n = Emit(Extend(o, b, kind, text), Delta(b, kind, text))
       /\ IsReply("mistral", q)
  OBVIOUS
<1>16. o.open = b
  BY <1>11, <1>12, EmitIs DEF EmitOpened, SameBooks
<1>. HIDE DEF o, n
<1>17. SameBooks(p, n) /\ Following(q, v, n)
  <2>. HIDE DEF b, kind, text
  <2>. QED BY ONLY <1>2, <1>3, <1>4, <1>5, <1>8, <1>11, <1>14, <1>15, BeginsProse
<1>18. MistralBooks(q, n)
  <2>1. n.buf = c.buf /\ n.at = c.at /\ n.open = b /\ n.finish = c.finish /\ n.saw = c.saw
    BY <1>9, <1>11, <1>12, <1>17 DEF SameBooks
  <2>2. Args(q, n)
    <3>1. Args(h, c) /\ IsReply("mistral", h)
      BY <1>2 DEF MistralBooks, Halts
    <3>. HIDE DEF b, kind
    <3>. QED BY <1>3, <1>4, <2>1, <3>1, ArgsAdded
  <2>3. Tools(q) = Tools(h)
    <3>. HIDE DEF b, kind
    <3>. QED BY <1>1, <1>3, <1>4, KindsAdded
  <2>4. Running(q, b)
    <3>1. Current(h) = {}
      BY RestsBooks, <1>2
    <3>2. IsReply("mistral", h) /\ q.blocks[b].kind # "tool"
      BY <1>3, <1>4 DEF Halts
    <3>. HIDE DEF b
    <3>. QED BY <1>3, <3>1, <3>2, RunsOn
  <2>5. \A k \in Tools(q) : q.blocks[k].open
    <3>1. \A k \in Tools(h) : h.blocks[k].open /\ k \in 1..Len(r.blocks)
      BY <1>2, <1>3 DEF MistralBooks, Tools
    <3>2. \A k \in 1..Len(r.blocks) : q.blocks[k].open <=> h.blocks[k].open
      BY <1>3 DEF Adds1, Lengthens, Same
    <3>. QED BY <2>3, <3>1, <3>2
  <2>6. Placed(n, Tools(q)) /\ DOMAIN n.buf \subseteq Tools(q) /\ n.saw = FALSE
    BY <1>2, <2>1, <2>3 DEF MistralBooks, Placed
  <2>7. n.finish = q.stop /\ Running(q, n.open)
    BY <1>2, <1>3, <2>1, <2>4 DEF MistralBooks
  <2>. QED BY <2>2, <2>5, <2>6, <2>7 DEF MistralBooks
<1>19. n = MistralApi!AppendContentDelta(m, e)
  <2>1. NextIndex(m) = b
    BY <1>1, <1>3, ContentIs
  <2>2. ~(m.open # 0 /\ MistralApi!Is(m, m.open, e.kind))
    <3>1. CASE m.open = 0
      BY <3>1
    <3>2. CASE m.open # 0
      <4>. DEFINE i == m.open
      <4>1. i \in Current(r) /\ i \in 1..Len(r.blocks)
        BY <1>1, <3>2 DEF MistralBooks, Running
      <4>2. r.blocks[i].kind # kind
        BY <1>3, <1>4, <4>1 DEF MayBegin
      <4>3. r.blocks[i].kind \in Prose
        <5>1. r.blocks[i].kind # "tool"
          BY <4>1 DEF Current
        <5>2. r.blocks[i].kind \in Kinds \cup {"redacted"} /\ r.blocks[i].kind # "redacted"
          BY <4>1 DEF IsReply, IsSaid
        <5>. QED BY <5>1, <5>2 DEF Kinds, Prose
      <4>. HIDE DEF i
      <4>4. m.content[i].kind = r.blocks[i].kind
        BY <1>1, <4>1, <4>3, KeptIs DEF Kept
      <4>. QED BY <4>2, <4>4, MistralApiShares DEF Is, i
    <3>. QED BY <3>1, <3>2
  <2>3. MistralApi!AppendContentDelta(m, e) =
          LET same == m.open # 0 /\ MistralApi!Is(m, m.open, e.kind)
              closed == MistralApi!FinishContentBlock(m)
              i == MistralApi!NextIndex(m)
              z == IF same THEN m
                   ELSE MistralApi!EmitOpened([MistralApi!Add(closed, MistralApi!Block(e.kind))
                                                 EXCEPT !.open = i], i)
          IN MistralApi!Emit(MistralApi!Extend(z, z.open, e.kind, e.text),
                             MistralApi!Delta(z.open, e.kind, e.text))
    BY <1>6, Zenon DEF MistralApi!AppendContentDelta
  <2>4. MistralApi!EmitOpened([MistralApi!Add(c, MistralApi!Block(e.kind)) EXCEPT !.open = b], b) = o
    <3>1. [MistralApi!Add(c, MistralApi!Block(e.kind)) EXCEPT !.open = b] = p
      BY <1>8, <1>10, <1>13, MistralApiShares, Zenon
    <3>. QED BY <1>15, <3>1, MistralApiShares, Zenon
  <2>5. MistralApi!AppendContentDelta(m, e) =
          MistralApi!Emit(MistralApi!Extend(o, o.open, e.kind, e.text),
                          MistralApi!Delta(o.open, e.kind, e.text))
    <3>1. MistralApi!NextIndex(m) = b
      BY <2>1, MistralApiShares
    <3>. HIDE DEF b
    <3>. QED BY <2>2, <2>3, <2>4, <3>1, Zenon DEF c
  <2>. QED BY <1>15, <1>16, <2>5, MistralApiShares, Zenon
<1>20. GoesOn("mistral", q, v, n)
  BY <1>17, <1>18, BooksAre DEF GoesOn
<1>. QED BY <1>19, <1>20

\* A fragment of the running text.
LEMMA MistralGrows ==
  ASSUME NEW r, IsReply("mistral", r), NEW e, NEW q, IsReply("mistral", q),
         Grows("mistral", r, e, q), e.kind # "tool",
         NEW v, NEW m, GoesOn("mistral", r, v, m)
  PROVE  e.type = "frag" /\ GoesOn("mistral", q, v, MistralApi!AppendContentDelta(m, e))
<1>. DEFINE b == e.b
            text == e.text
            kind == e.kind
            n == MistralApi!AppendContentDelta(m, e)
<1>1. Following(r, v, m) /\ MistralBooks(r, m) /\ Args(r, m) /\ Running(r, m.open)
      /\ Placed(m, Tools(r)) /\ DOMAIN m.content = 1..Len(r.blocks)
  BY BooksAre, FollowingIs DEF GoesOn, MistralBooks
<1>2. Grown(r, e, q)
  BY GrowthIs
<1>3. /\ Touches(r, q, b) /\ LongerBy(r.blocks[b], q.blocks[b], text)
      /\ kind = r.blocks[b].kind /\ kind \in Kinds /\ q.stop = r.stop
      /\ q.blocks[b].kind = r.blocks[b].kind /\ e.type = "frag" /\ text # <<>>
      /\ b \in 1..Len(r.blocks) /\ Len(q.blocks) = Len(r.blocks)
      /\ q.blocks[b].open /\ r.blocks[b].open
  BY <1>2 DEF Grown, LongerBy, Touches
<1>4. Kept(b, r.blocks[b], m.content[b]) /\ kind \in Prose
  BY <1>1, <1>3, KeptIs DEF Kinds, Prose
<1>5. m.content[b].kind = kind
  BY <1>3, <1>4 DEF Kept
<1>6. Tools(q) = Tools(r)
  BY <1>3, KindsTouched
<1>7. m.open = b
  <2>1. b \in Current(r)
    <3>1. b \in DOMAIN r.blocks
      BY <1>3, ReplyFacts
    <3>. QED BY <1>3, <3>1 DEF Current
  <2>. QED BY <1>1, <2>1 DEF Running
<1>8. n = Emit(Extend(m, b, kind, text), Delta(b, kind, text))
  <2>1. b # 0 /\ Is(m, b, kind)
    BY <1>1, <1>3, <1>5 DEF Is
  <2>2. m.open # 0 /\ MistralApi!Is(m, m.open, e.kind)
    BY <1>7, <2>1, MistralApiShares
  <2>3. n = MistralApi!Emit(MistralApi!Extend(m, m.open, e.kind, e.text),
                            MistralApi!Delta(m.open, e.kind, e.text))
    BY <1>3, <2>2, Zenon DEF MistralApi!AppendContentDelta
  <2>. QED BY <1>7, <2>3, MistralApiShares, Zenon
<1>. HIDE DEF n, b, text, kind
<1>9. Retells(m, n, b) /\ Following(q, v, n)
  BY ONLY <1>1, <1>3, <1>4, <1>8, GrowsProse
<1>10. /\ n.finish = m.finish /\ n.saw = m.saw /\ n.at = m.at /\ n.open = m.open
       /\ n.buf = m.buf
  BY <1>9 DEF Retells, SameBooks
<1>11. Args(q, n)
  BY <1>1, <1>3, <1>4, <1>10, ArgsKept DEF Prose
<1>12. Running(q, n.open)
  <2>1. /\ DOMAIN q.blocks = 1..Len(r.blocks) /\ DOMAIN r.blocks = 1..Len(r.blocks)
        /\ \A k \in 1..Len(r.blocks) : /\ q.blocks[k].kind = r.blocks[k].kind
                                       /\ q.blocks[k].open <=> r.blocks[k].open
    BY <1>3, ReplyFacts DEF Touches, Same, Alike
  <2>2. Current(q) = Current(r)
    BY <2>1 DEF Current
  <2>. QED BY <1>1, <1>3, <1>10, <2>2 DEF Running
<1>13. \A k \in Tools(q) : q.blocks[k].open
  <2>1. \A k \in 1..Len(r.blocks) : q.blocks[k].open <=> r.blocks[k].open
    BY <1>3 DEF Touches, Same
  <2>2. \A k \in Tools(r) : r.blocks[k].open /\ k \in 1..Len(r.blocks)
    BY <1>1 DEF MistralBooks, Tools
  <2>. QED BY <1>6, <2>1, <2>2
<1>14. Placed(n, Tools(q)) /\ DOMAIN n.buf \subseteq Tools(q) /\ n.saw = FALSE /\ n.finish = q.stop
  BY <1>1, <1>3, <1>6, <1>10 DEF MistralBooks, Placed
<1>15. MistralBooks(q, n)
  BY <1>11, <1>12, <1>13, <1>14 DEF MistralBooks
<1>. QED BY <1>3, <1>9, <1>15, BooksAre DEF GoesOn, n

\* A call begins.
LEMMA MistralOpens ==
  ASSUME NEW r, IsReply("mistral", r), NEW e, NEW q, IsReply("mistral", q),
         NEW S, S = Current(r), NEW h, Halts("mistral", r, h, S),
         BegunOver("mistral", r, h, e, q), e.kind = "tool",
         NEW v, NEW m, GoesOn("mistral", r, v, m)
  PROVE  GoesOn("mistral", q, v, MistralApi!OnToolCall(m, e))
<1>. DEFINE b == e.b
            text == e.text
            id == <<b>>
            x == ToolBlock(id)
            c == MistralApi!FinishContentBlock(m)
            p == [Add(c, x) EXCEPT !.at = Put(@, b, NextIndex(c))]
            o == EmitOpened(p, b)
            n == IF text = <<>> THEN o ELSE Emit(Collect(o, b, text), Delta(b, "tool", text))
<1>1. /\ Following(r, v, m) /\ MistralBooks(r, m) /\ Speaks(m)
      /\ Len(r.blocks) \in Nat /\ Len(m.content) = Len(r.blocks)
  BY FollowingIs, BooksAre DEF GoesOn
<1>2. Following(h, v, c) /\ Rests(m, c) /\ MistralBooks(h, c)
  BY MistralRests
<1>. HIDE DEF c
<1>3. /\ b = Len(r.blocks) + 1 /\ Adds1(h, q, b) /\ q.stop = r.stop /\ h.stop = r.stop
      /\ q.blocks[b].kind = "tool" /\ text = q.blocks[b].sent /\ q.blocks[b].sig = e.sig
      /\ MayComeSigned("mistral", e.kind, e.sig # <<>>)
      /\ q.blocks[b].named = e.head /\ e.head \in Named("mistral", r, e.kind, e.sig)
      /\ Len(q.blocks) = Len(r.blocks) + 1 /\ q.blocks[b].open /\ Len(h.blocks) = Len(r.blocks)
      /\ IsReply("mistral", h)
  BY DEF BegunOver, Halts
<1>4. q.blocks[b].sig = <<>>
  <2>1. (e.sig # <<>>) = (e.kind = "redacted")
    BY <1>3 DEF MayComeSigned
  <2>. QED BY <1>3, <2>1
<1>5. e.head = TRUE /\ q.blocks[b].named
  <2>1. Named("mistral", r, e.kind, e.sig) = {TRUE}
    BY DEF Named
  <2>. QED BY <1>3, <2>1
<1>6. Speaks(c) /\ Len(c.content) = Len(r.blocks) /\ Args(h, c)
  BY <1>2, <1>3, FollowingIs DEF MistralBooks
<1>7. IsBlock(x) /\ x = ToolBlock(id) /\ id = <<b>>
  BY NewBlockFields
<1>. HIDE DEF x
<1>8. Puts(c, p, b, x)
  BY <1>3, <1>6, <1>7, PutsIs
<1>9. p = [Add(c, x) EXCEPT !.at = Put(@, b, NextIndex(c))]
  OBVIOUS
<1>. HIDE DEF p
<1>10. /\ Speaks(p) /\ Gains(c.content, p.content, x) /\ p.at = Put(c.at, b, b) /\ p.buf = c.buf
       /\ p.out = c.out /\ p.open = c.open /\ p.finish = c.finish /\ p.saw = c.saw
  BY <1>8 DEF Puts
<1>11. o = EmitOpened(p, b)
       /\ n = IF text = <<>> THEN o ELSE Emit(Collect(o, b, text), Delta(b, "tool", text))
  OBVIOUS
<1>12. IsReply("mistral", q)
  OBVIOUS
<1>13. o.at = p.at
  BY <1>10, EmitIs DEF EmitOpened, SameBooks
<1>. HIDE DEF o, n
<1>14. /\ Following(q, v, n) /\ Args(q, n)
       /\ n.at = p.at /\ n.open = p.open /\ n.finish = p.finish /\ n.saw = p.saw
       /\ DOMAIN n.buf \subseteq DOMAIN c.buf \cup {b}
  <2>. HIDE DEF b, text, x, id
  <2>. QED BY ONLY <1>2, <1>3, <1>4, <1>5, <1>6, <1>7, <1>10, <1>11, <1>12, BeginsCall
<1>15. Tools(q) = Tools(h) \cup {b}
  <2>. HIDE DEF b
  <2>. QED BY <1>1, <1>3, KindsAdded
<1>16. MistralBooks(q, n)
  <2>1. DOMAIN n.buf \subseteq Tools(q)
    BY <1>2, <1>14, <1>15 DEF MistralBooks
  <2>2. Placed(n, Tools(q))
    <3>1. n.at = Put(c.at, b, b)
      BY <1>10, <1>14
    <3>2. Placed(c, Tools(h))
      BY <1>2 DEF MistralBooks
    <3>. HIDE DEF b
    <3>3. Placed(n, Tools(h) \cup {b})
      BY ONLY <3>1, <3>2, PlacedOn
    <3>. QED BY <1>15, <3>3
  <2>3. Running(q, n.open)
    <3>1. Current(h) = {}
      BY RestsBooks, <1>2
    <3>2. n.open = 0
      BY <1>2, <1>10, <1>14 DEF Rests
    <3>. HIDE DEF b
    <3>. QED BY <1>3, <3>1, <3>2, RunsOn
  <2>4. \A k \in Tools(q) : q.blocks[k].open
    <3>1. \A k \in Tools(h) : h.blocks[k].open /\ k \in 1..Len(r.blocks)
      BY <1>2, <1>3 DEF MistralBooks, Tools
    <3>2. \A k \in 1..Len(r.blocks) : q.blocks[k].open <=> h.blocks[k].open
      BY <1>3 DEF Adds1, Lengthens, Same
    <3>. QED BY <1>3, <1>15, <3>1, <3>2
  <2>5. n.finish = q.stop /\ n.saw = FALSE
    BY <1>2, <1>3, <1>10, <1>14 DEF MistralBooks
  <2>. QED BY <1>14, <2>1, <2>2, <2>3, <2>4, <2>5 DEF MistralBooks
<1>17. n = MistralApi!OnToolCall(m, e)
  <2>1. NextIndex(m) = b /\ NextIndex(c) = b
    BY <1>1, <1>3, <1>6, ContentIs
  <2>2. ~MistralApi!Known(m.at, e.b)
    <3>1. DOMAIN m.at = Tools(r)
      BY <1>1 DEF MistralBooks, Placed
    <3>2. b \notin Tools(r)
      BY <1>1, <1>3 DEF Tools
    <3>. QED BY <3>1, <3>2, MistralApiShares DEF Known
  <2>3. MistralApi!NormalizeToolCallId(id) = id
    <3>1. Len(id) = 1 /\ Head(id) = b
      OBVIOUS
    <3>2. b > 0
      BY <1>1, <1>3
    <3>. QED BY <3>1, <3>2 DEF MistralApi!NormalizeToolCallId
  <2>4. (IF e.head THEN <<e.b>> ELSE <<>>) = id
    BY <1>5
  <2>5. [MistralApi!Add(c, MistralApi!ToolBlock(id)) EXCEPT !.at = MistralApi!Put(@, e.b, b)] = p
    <3>1. MistralApi!Add(c, MistralApi!ToolBlock(id)) = Add(c, x)
      BY <1>7, MistralApiShares, Zenon
    <3>2. \A f : MistralApi!Put(f, e.b, b) = Put(f, e.b, b)
      BY MistralApiShares
    <3>. DEFINE f == Add(c, x)
    <3>3. p = [f EXCEPT !.at = Put(@, b, b)]
      BY <1>9, <2>1, Zenon
    <3>. HIDE DEF f, p, x
    <3>4. MistralApi!Add(c, MistralApi!ToolBlock(id)) = f
      BY <3>1 DEF f
    <3>. HIDE DEF id
    <3>5. [f EXCEPT !.at = MistralApi!Put(@, e.b, b)] = [f EXCEPT !.at = Put(@, b, b)]
      BY <3>2
    <3>. QED BY <3>3, <3>4, <3>5, Zenon
  <2>6. MistralApi!EmitOpened(p, b) = o
    BY <1>11, MistralApiShares, Zenon
  <2>7. MistralApi!OnToolCall(m, e) =
          LET z == MistralApi!EmitOpened(
                     [MistralApi!Add(c, MistralApi!ToolBlock(id)) EXCEPT
                        !.at = MistralApi!Put(@, e.b, b)], b)
          IN IF e.text = <<>> THEN z
             ELSE MistralApi!Emit(MistralApi!Collect(z, e.b, e.text),
                                  MistralApi!Delta(z.at[e.b], "tool", e.text))
    <3>1. MistralApi!NextIndex(m) = b
      BY <2>1, MistralApiShares
    <3>. DEFINE ids == IF e.head THEN <<e.b>> ELSE <<>>
    <3>2. MistralApi!OnToolCall(m, e) =
          LET i == MistralApi!NextIndex(m)
              z == MistralApi!EmitOpened(
                     [MistralApi!Add(c, MistralApi!ToolBlock(MistralApi!NormalizeToolCallId(ids)))
                        EXCEPT !.at = MistralApi!Put(@, e.b, i)], i)
          IN IF e.text = <<>> THEN z
             ELSE MistralApi!Emit(MistralApi!Collect(z, e.b, e.text),
                                  MistralApi!Delta(z.at[e.b], "tool", e.text))
      BY <2>2, Zenon DEF MistralApi!OnToolCall, c
    <3>3. ids = id
      BY <2>4
    <3>. HIDE DEF ids, id, b
    <3>. QED BY <2>3, <3>1, <3>2, <3>3, Zenon
  <2>8. MistralApi!OnToolCall(m, e) =
          IF e.text = <<>> THEN o
          ELSE MistralApi!Emit(MistralApi!Collect(o, e.b, e.text),
                               MistralApi!Delta(o.at[e.b], "tool", e.text))
    BY <2>5, <2>6, <2>7, Zenon
  <2>9. o.at[e.b] = b
    BY <1>10, <1>13 DEF Put
  <2>. QED BY <1>11, <2>8, <2>9, MistralApiShares, Zenon
<1>18. GoesOn("mistral", q, v, n)
  BY <1>14, <1>16, BooksAre DEF GoesOn
<1>. QED BY <1>17, <1>18

\* More of a call's arguments, which end the running text.
LEMMA MistralInputs ==
  ASSUME NEW r, IsReply("mistral", r), NEW e, NEW q, IsReply("mistral", q),
         Grows("mistral", r, e, q), e.kind = "tool",
         NEW S, S = Current(r), NEW h, Halts("mistral", r, h, S),
         NEW v, NEW m, GoesOn("mistral", r, v, m)
  PROVE  e.type = "frag" /\ GoesOn("mistral", q, v, MistralApi!OnToolCall(m, e))
<1>. DEFINE b == e.b
            text == e.text
            c == MistralApi!FinishContentBlock(m)
            n == MistralApi!OnToolCall(m, e)
<1>1. Following(r, v, m) /\ MistralBooks(r, m)
  BY BooksAre DEF GoesOn
<1>2. Following(h, v, c) /\ Rests(m, c) /\ MistralBooks(h, c)
  BY MistralRests
<1>. HIDE DEF c
<1>3. GrownOver(h, e, q)
  BY GrowsOver
<1>4. /\ Touches(h, q, b) /\ LongerBy(h.blocks[b], q.blocks[b], text)
      /\ h.blocks[b].kind = "tool" /\ e.type = "frag" /\ text # <<>>
      /\ q.stop = h.stop /\ IsReply("mistral", h) /\ h.stop = r.stop
      /\ b \in 1..Len(h.blocks) /\ Len(q.blocks) = Len(h.blocks) /\ Len(h.blocks) = Len(r.blocks)
      /\ h.blocks[b].open /\ q.blocks[b].open /\ q.blocks[b].kind = h.blocks[b].kind
  BY <1>3 DEF GrownOver, Halts, Touches, LongerBy
<1>5. Tools(h) = Tools(r) /\ Current(h) = {} /\ Tools(q) = Tools(h)
  BY <1>2, <1>4, RestsBooks, KindsTouched
<1>6. b \in Tools(r) /\ b \in DOMAIN m.at /\ c.at[b] = b
  BY <1>1, <1>2, <1>4, <1>5 DEF MistralBooks, Placed, Tools
<1>7. n = Emit(Collect(c, b, text), Delta(b, "tool", text))
  <2>1. MistralApi!Known(m.at, e.b)
    BY <1>6, MistralApiShares DEF Known
  <2>2. n = MistralApi!Emit(MistralApi!Collect(c, e.b, e.text),
                            MistralApi!Delta(c.at[e.b], "tool", e.text))
    BY <1>4, <2>1, Zenon DEF MistralApi!OnToolCall, c
  <2>. QED BY <1>6, <2>2, MistralApiShares, Zenon
<1>. HIDE DEF n, b, text
<1>8. Buffers(c, n, b, text) /\ Following(q, v, n)
  BY ONLY <1>2, <1>4, <1>7, GrowsCall
<1>9. Args(q, n)
  <2>1. Args(h, c)
    BY <1>2 DEF MistralBooks
  <2>. QED BY <1>4, <1>8, <2>1, ArgsGrow
<1>10. /\ n.finish = c.finish /\ n.saw = c.saw /\ n.at = c.at /\ n.open = c.open
       /\ \E y : n.buf = Put(c.buf, b, y)
  BY <1>8 DEF Buffers
<1>11. DOMAIN n.buf \subseteq Tools(q)
  <2>1. DOMAIN n.buf = DOMAIN c.buf \cup {b}
    BY <1>10 DEF Put
  <2>. QED BY <1>2, <1>5, <1>6, <2>1 DEF MistralBooks
<1>12. /\ DOMAIN q.blocks = 1..Len(h.blocks) /\ DOMAIN h.blocks = 1..Len(h.blocks)
       /\ \A k \in 1..Len(h.blocks) : /\ q.blocks[k].kind = h.blocks[k].kind
                                      /\ q.blocks[k].open <=> h.blocks[k].open
  <2>1. DOMAIN h.blocks = 1..Len(h.blocks) /\ DOMAIN q.blocks = 1..Len(q.blocks)
    BY ONLY <1>4, IsReply("mistral", q), ReplyFacts
  <2>2. ASSUME NEW k \in 1..Len(h.blocks), k # b
        PROVE  q.blocks[k].kind = h.blocks[k].kind /\ (q.blocks[k].open <=> h.blocks[k].open)
    <3>1. Same(h, q, k)
      BY ONLY <1>4, <2>2 DEF Touches
    <3>. QED BY ONLY <3>1 DEF Same, Alike
  <2>3. q.blocks[b].kind = h.blocks[b].kind /\ (q.blocks[b].open <=> h.blocks[b].open)
    BY ONLY <1>4
  <2>. QED BY ONLY <1>4, <2>1, <2>2, <2>3
<1>13. Running(q, n.open)
  <2>1. Current(q) = {}
    BY <1>5, <1>12 DEF Current
  <2>2. n.open = 0 /\ 0 \in 0..Len(q.blocks)
    BY <1>2, <1>4, <1>10, ReplyFacts DEF Rests
  <2>. QED BY <2>1, <2>2 DEF Running
<1>14. \A k \in Tools(q) : q.blocks[k].open
  <2>1. \A k \in Tools(h) : h.blocks[k].open /\ k \in 1..Len(h.blocks)
    BY <1>2 DEF MistralBooks, Tools
  <2>. QED BY <1>5, <1>12, <2>1
<1>15. Placed(n, Tools(q)) /\ n.saw = FALSE /\ n.finish = q.stop
  BY <1>2, <1>4, <1>5, <1>10 DEF MistralBooks, Placed
<1>16. MistralBooks(q, n)
  BY <1>9, <1>11, <1>13, <1>14, <1>15 DEF MistralBooks
<1>. QED BY <1>4, <1>8, <1>16, BooksAre DEF GoesOn, n

\* The reply's reason is noted.
LEMMA MistralStopped ==
  ASSUME NEW r, IsReply("mistral", r), NEW e, NEW q, Stops("mistral", r, e, q),
         NEW v, NEW m, GoesOn("mistral", r, v, m), NEW n, n = [m EXCEPT !.finish = e.kind]
  PROVE  e.type = "stop" /\ GoesOn("mistral", q, v, n)
<1>1. Following(r, v, m) /\ MistralBooks(r, m) /\ Speaks(m) /\ Len(r.blocks) \in Nat
  BY BooksAre, FollowingIs DEF GoesOn
<1>2. Stopped(r, e, q) /\ e.type = IF "mistral" = "responses" THEN "end" ELSE "stop"
  BY StoppingIs
<1>3. /\ q.blocks = r.blocks /\ r.stop = "none" /\ q.stop = e.kind
      /\ e.kind \in {"length", "refused", "tool_use", "stop"} /\ e.type = "stop"
  BY <1>2 DEF Stopped
<1>5. /\ Speaks(n) /\ n.content = m.content /\ n.finish = e.kind /\ n.buf = m.buf
      /\ n.out = m.out /\ n.at = m.at /\ n.saw = m.saw /\ n.open = m.open
  <2>1. n = [m EXCEPT !.finish = e.kind]
    OBVIOUS
  <2>2. DOMAIN n = DOMAIN m /\ n.content = m.content /\ n.finish = e.kind /\ n.buf = m.buf
        /\ n.out = m.out /\ n.at = m.at /\ n.saw = m.saw /\ n.over = m.over
        /\ n.open = m.open
    BY <1>1, <2>1 DEF Speaks, Machine
  <2>. QED BY <1>1, <2>2, Keeps
<1>6. Len(q.blocks) = Len(r.blocks) /\ \A k \in 1..Len(r.blocks) : Same(r, q, k)
  BY <1>3, Unchanging
<1>7. Following(q, v, n)
  BY <1>1, <1>5, <1>6, FollowsSame
<1>8. Args(q, n) /\ Tools(q) = Tools(r) /\ Placed(n, Tools(q))
  <2>1. Args(r, m) /\ Placed(m, Tools(r))
    BY <1>1 DEF MistralBooks
  <2>2. Tools(q) = Tools(r)
    BY <1>3 DEF Tools
  <2>3. Placed(n, Tools(q))
    BY <1>5, <2>1, <2>2 DEF Placed
  <2>4. \A k \in Tools(r) : q.blocks[k] = r.blocks[k]
    BY <1>3
  <2>. QED BY <1>3, <1>5, <2>1, <2>2, <2>3, <2>4, Zenon DEF Args
<1>9. Running(q, n.open)
  <2>1. Running(r, m.open) /\ Current(q) = Current(r)
    BY <1>1, <1>3 DEF MistralBooks, Current
  <2>. QED BY <1>3, <1>5, <2>1 DEF Running
<1>10. /\ DOMAIN n.buf \subseteq Tools(q) /\ n.saw = FALSE /\ n.finish = q.stop
       /\ \A b \in Tools(q) : q.blocks[b].open
  BY <1>1, <1>3, <1>5, <1>8 DEF MistralBooks
<1>11. MistralBooks(q, n)
  BY <1>8, <1>9, <1>10 DEF MistralBooks
<1>. QED BY <1>3, <1>7, <1>11, BooksAre DEF GoesOn

\* FinishContentBlock knows the loop by what it read.
LEMMA MistralReads ==
  ASSUME NEW r, IsReply("mistral", r), NEW v, NEW m, GoesOn("mistral", r, v, m),
         NEW f, Reads(m, f), NEW S, S = Current(r), NEW h, Halts("mistral", r, h, S),
         NEW n, n = MistralApi!FinishContentBlock(f)
  PROVE  /\ Following(h, v, n) /\ Rests(f, n) /\ Args(h, n) /\ Placed(n, Tools(h))
         /\ n.finish = r.stop /\ Current(h) = {} /\ \A b \in Tools(h) : h.blocks[b].open
<1>. DEFINE p == [f EXCEPT !.open = 0]
<1>1. Following(r, v, m) /\ MistralBooks(r, m) /\ Running(r, m.open)
  BY BooksAre DEF GoesOn, MistralBooks
<1>2. Following(r, v, f) /\ Running(r, f.open)
  <2>1. \A k \in 1..Len(r.blocks) : Same(r, r, k)
    BY ReplyFacts DEF Same, Alike
  <2>. QED BY <1>1, <2>1, FollowsSame DEF Reads
<1>3. n = IF f.open = 0 THEN f ELSE EmitEnded(p, f.open)
  BY MistralApiShares, Zenon DEF MistralApi!FinishContentBlock
<1>. HIDE DEF p
<1>4. p = [f EXCEPT !.open = 0]
  BY DEF p
<1>5. Following(h, v, n) /\ Rests(f, n)
  BY <1>2, <1>3, <1>4, RestsRunning
<1>6. Args(r, f) /\ Placed(f, Tools(r)) /\ f.finish = r.stop /\ \A b \in Tools(r) : r.blocks[b].open
  BY <1>1 DEF MistralBooks, Reads, Args, Placed
<1>7. /\ Tools(h) = Tools(r) /\ Current(h) = {} /\ Args(h, n)
      /\ \A b \in Tools(r) : h.blocks[b].open
  BY <1>5, <1>6, RestsBooks
<1>8. Placed(n, Tools(h)) /\ n.finish = r.stop
  BY <1>5, <1>6, <1>7 DEF Placed, Rests
<1>. QED BY <1>5, <1>7, <1>8

\* The calls in the message's order.
LEMMA MistralOrders ==
  ASSUME NEW h, NEW m, Placed(m, Tools(h)), Len(h.blocks) \in Nat,
         DOMAIN h.blocks = 1..Len(h.blocks), Current(h) = {},
         \A b \in Tools(h) : h.blocks[b].open, NEW order, order = Ascending(Range(m.at))
  PROVE  Orders(h, order)
<1>1. Range(m.at) = Tools(h)
  BY DEF Placed, Range
<1>2. Lists(order, Tools(h))
  BY <1>1, ToolsFinite
<1>3. \A b \in 1..Len(h.blocks) : h.blocks[b].open => b \in Tools(h)
  BY DEF Current, Tools
<1>4. \A b \in Tools(h) : b \in 1..Len(h.blocks) /\ h.blocks[b].open
  BY DEF Tools
<1>. QED BY <1>2, <1>3, <1>4, ListsOrder

LEMMA MistralEnds ==
  ASSUME NEW r, IsReply("mistral", r), NEW v, NEW m, GoesOn("mistral", r, v, m),
         NEW f, Reads(m, f), f.saw => r.complete, NEW n, n = MistralApi!Finish(f)
  PROVE  Completes("mistral", r, v, n) \/ Fails(v, n)
<1>. DEFINE S == Current(r)
<1>0. S = Current(r)
  OBVIOUS
<1>. HIDE DEF S
<1>1. PICK h : Halts("mistral", r, h, S)
  BY HaltExists
<1>. DEFINE c == MistralApi!FinishContentBlock(f)
<1>2. /\ Following(h, v, c) /\ Rests(f, c) /\ Args(h, c) /\ Placed(c, Tools(h))
      /\ c.finish = r.stop /\ Current(h) = {} /\ \A b \in Tools(h) : h.blocks[b].open
  BY <1>0, <1>1, MistralReads
<1>3. IsReply("mistral", h) /\ h.stop = r.stop /\ h.complete = r.complete
  BY <1>1 DEF Halts
<1>4. Len(h.blocks) \in Nat /\ DOMAIN h.blocks = 1..Len(h.blocks)
  BY <1>3, ReplyFacts
<1>. DEFINE order == Ascending(Range(c.at))
            all == 1..Len(h.blocks)
            o == EmitAllEnded(ParseCalls(c), order)
<1>5. Orders(h, order) /\ Collected(h, c)
  BY <1>2, <1>4, MistralOrders, CollectedIs
<1>6. PICK q : Halts("mistral", h, q, all)
  BY <1>3, HaltExists
<1>7. Following(q, v, o) /\ SameBooks(c, o)
  <2>1. /\ Orders(h, order) /\ Collected(h, c) /\ all = 1..Len(h.blocks)
        /\ o = EmitAllEnded(ParseCalls(c), order)
    BY <1>5
  <2>. HIDE DEF order, all, o, c
  <2>. QED BY ONLY <1>2, <1>3, <1>6, <2>1, FinalizesAll
<1>8. MistralApi!Finalize(f) = o
  <2>1. MistralApi!Finalize(f)
          = MistralApi!EmitAllEnded(MistralApi!ParseCalls(c), MistralApi!Ascending(MistralApi!Range(f.at)))
    BY Zenon DEF MistralApi!Finalize
  <2>3. f.at = c.at
    BY <1>2 DEF Rests
  <2>2. MistralApi!Range(c.at) = Range(c.at)
    BY DEF MistralApi!Range, Range
  <2>. QED BY <2>1, <2>2, <2>3, MistralApiShares, Zenon
<1>9. \A b \in 1..Len(q.blocks) : ~q.blocks[b].open
  BY <1>6 DEF Halts
<1>. HIDE DEF o, all, c, order
<1>91. f.saw = c.saw /\ f.finish = c.finish /\ f.finish = r.stop
  BY <1>2 DEF Rests
<1>10. CASE ~f.saw /\ f.finish = "none"
  <2>1. n = Incomplete(o)
    BY <1>8, <1>10, MistralApiShares, Zenon DEF MistralApi!Finish
  <2>. QED BY <1>7, <2>1, FollowingFails
<1>11. CASE ~(~f.saw /\ f.finish = "none")
  <2>. DEFINE stop == MistralApi!StopReason(f)
              g == [o EXCEPT !.stop = stop]
  <2>1. n = Conclude(g)
    BY <1>8, <1>11, MistralApiShares, Zenon DEF MistralApi!Finish
  <2>2. StopFollows(r, stop)
    <3>1. r.stop \in {"none", "length", "refused", "tool_use", "stop"}
      BY DEF IsReply
    <3>2. r.stop = "none" => f.saw
      BY <1>11, <1>91
    <3>. QED BY <1>91, <3>1, <3>2 DEF StopFollows, MistralApi!StopReason
  <2>. HIDE DEF stop
  <2>3. /\ stop \in {"stop", "length", "tool_use", "error"}
        /\ stop # "error" => Reasoned("mistral", r, stop)
    BY <2>2, ReasonIs
  <2>31. stop # "error" => Reasoned("mistral", h, stop)
    <3>1. HasTool(h) <=> HasTool(r)
      BY <1>1, HaltedSaid
    <3>. QED BY <1>3, <2>3, <3>1, Zenon DEF Reasoned
  <2>4. Speaks(o)
    BY <1>7, FollowingIs
  <2>5. Speaks(g) /\ g.content = o.content
    BY <2>4, Notes
  <2>6. g.out = o.out /\ g.stop = stop
    BY <2>4 DEF Speaks, Machine
  <2>. HIDE DEF g
  <2>7. Following(q, v, g)
    <3>1. \A k \in 1..Len(q.blocks) : Same(q, q, k)
      BY <1>6, ReplyFacts DEF Halts, Same, Alike
    <3>. QED BY <1>7, <2>5, <2>6, <3>1, FollowsSame
  <2>8. q.complete
    <3>1. r.complete
      BY <1>11, <1>91 DEF IsReply
    <3>. QED BY <1>3, <1>6, <3>1 DEF Halts
  <2>9. g.stop \in {"stop", "length", "tool_use", "error"}
        /\ (g.stop # "error" => Reasoned("mistral", h, g.stop))
    BY <2>3, <2>31, <2>6
  <2>10. Completes("mistral", h, v, Conclude(g)) \/ Fails(v, Conclude(g))
    BY <1>3, <1>6, <1>9, <2>7, <2>8, <2>9, HaltedEnds
  <2>11. Completes("mistral", h, v, n) \/ Fails(v, n)
    BY <2>1, <2>10
  <2>. QED BY ONLY <1>1, <2>11, IsReply("mistral", r), HaltedCompletes
<1>. QED BY <1>10, <1>11

\* The loop ends with what was said before the connection did, or before the end was marked.
LEMMA MistralFinishes ==
  ASSUME NEW r, IsReply("mistral", r), NEW q, IsReply("mistral", q),
         q.blocks = r.blocks, q.stop = r.stop,
         NEW v, NEW m, GoesOn("mistral", r, v, m)
  PROVE  /\ Completes("mistral", q, v, MistralApi!Finish(m)) \/ Fails(v, MistralApi!Finish(m))
         /\ q.complete =>
              \/ Completes("mistral", q, v, MistralApi!Finish([m EXCEPT !.saw = TRUE]))
              \/ Fails(v, MistralApi!Finish([m EXCEPT !.saw = TRUE]))
<1>1. GoesOn("mistral", q, v, m)
  BY GoesStill
<1>2. Speaks(m) /\ ~m.saw
  BY <1>1, BooksAre, FollowingIs DEF GoesOn, MistralBooks
<1>3. Completes("mistral", q, v, MistralApi!Finish(m)) \/ Fails(v, MistralApi!Finish(m))
  <2>1. Reads(m, m)
    BY <1>2 DEF Reads
  <2>2. m.saw => q.complete
    BY <1>2
  <2>. QED BY <1>1, <2>1, <2>2, MistralEnds
<1>4. ASSUME q.complete
      PROVE  \/ Completes("mistral", q, v, MistralApi!Finish([m EXCEPT !.saw = TRUE]))
             \/ Fails(v, MistralApi!Finish([m EXCEPT !.saw = TRUE]))
  <2>. DEFINE f == [m EXCEPT !.saw = TRUE]
  <2>1. DOMAIN f = DOMAIN m /\ f.out = m.out /\ f.content = m.content /\ f.over = m.over
    BY <1>2 DEF Speaks, Machine
  <2>2. /\ f.at = m.at /\ f.buf = m.buf
        /\ f.open = m.open /\ f.text = m.text /\ f.think = m.think /\ f.finish = m.finish
    BY <1>2 DEF Speaks, Machine
  <2>. HIDE DEF f
  <2>3. Speaks(f)
    BY <1>2, <2>1, <2>2, Keeps
  <2>4. Reads(m, f) /\ (f.saw => q.complete)
    BY <1>4, <2>1, <2>2, <2>3 DEF Reads
  <2>5. Completes("mistral", q, v, MistralApi!Finish(f)) \/ Fails(v, MistralApi!Finish(f))
    BY <1>1, <2>4, MistralEnds
  <2>. QED BY <2>5 DEF f
<1>. QED BY <1>3, <1>4

\* A fragment is one of text or of a call.
LEMMA MistralFragments ==
  ASSUME NEW m, NEW e, e.type = "frag"
  PROVE  MistralApi!HandleChunk(m, e) = IF e.kind = "tool" THEN MistralApi!OnToolCall(m, e)
                                        ELSE MistralApi!AppendContentDelta(m, e)
BY Zenon DEF MistralApi!HandleChunk

\* Whatever Mistral sends, the loop is in line with it, or ends well.
LEMMA MistralAnswers ==
  ASSUME NEW r, IsReply("mistral", r), NEW e, NEW q, IsReply("mistral", q),
         Moved("mistral", r, e, q), NEW v, NEW m, GoesOn("mistral", r, v, m)
  PROVE  /\ e.type \notin {"eof", "broken"} => Answers("mistral", q, v, MistralApi!HandleChunk(m, e))
         /\ e.type = "eof" => Answers("mistral", q, v, MistralApi!Eof(m))
<1>. DEFINE n == MistralApi!HandleChunk(m, e)
            S == Current(r)
<1>1. S = Current(r)
  OBVIOUS
<1>. HIDE DEF S
<1>2. PICK h : Halts("mistral", r, h, S)
  BY HaltExists
<1>3. /\ e.type = "end"  => n = MistralApi!Finish([m EXCEPT !.saw = TRUE])
      /\ e.type = "stop" => n = [m EXCEPT !.finish = e.kind]
      /\ e.type = "frag" /\ e.kind = "tool" => n = MistralApi!OnToolCall(m, e)
      /\ e.type = "frag" /\ e.kind # "tool" => n = MistralApi!AppendContentDelta(m, e)
  BY MistralHandles, MistralFragments
<1>. HIDE DEF n
<1>4. ASSUME e.type \notin {"eof", "broken"} PROVE Answers("mistral", q, v, n)
  <2>1. CASE Begins("mistral", r, e, q)
    <3>1. BegunOver("mistral", r, h, e, q)
      BY <1>1, <1>2, <2>1, BeginsOver
    <3>2. e.type = "frag" /\ e.kind \in Kinds
      BY <3>1 DEF BegunOver
    <3>3. CASE e.kind = "tool"
      <4>1. GoesOn("mistral", q, v, MistralApi!OnToolCall(m, e))
        BY <1>1, <1>2, <3>1, <3>3, MistralOpens
      <4>. QED BY <1>3, <3>2, <3>3, <4>1 DEF Answers
    <3>4. CASE e.kind # "tool"
      <4>1. e.kind \in Prose
        BY <3>2, <3>4 DEF Prose, Kinds
      <4>2. GoesOn("mistral", q, v, MistralApi!AppendContentDelta(m, e))
        BY <1>1, <1>2, <3>1, <4>1, MistralBegins
      <4>. QED BY <1>3, <3>2, <3>4, <4>2 DEF Answers
    <3>. QED BY <3>3, <3>4
  <2>2. CASE Grows("mistral", r, e, q)
    <3>1. CASE e.kind = "tool"
      <4>1. e.type = "frag" /\ GoesOn("mistral", q, v, MistralApi!OnToolCall(m, e))
        BY <1>1, <1>2, <2>2, <3>1, MistralInputs
      <4>. QED BY <1>3, <3>1, <4>1 DEF Answers
    <3>2. CASE e.kind # "tool"
      <4>1. e.type = "frag" /\ GoesOn("mistral", q, v, MistralApi!AppendContentDelta(m, e))
        BY <2>2, <3>2, MistralGrows
      <4>. QED BY <1>3, <3>2, <4>1 DEF Answers
    <3>. QED BY <3>1, <3>2
  <2>3. ~Signs("mistral", r, e, q)
    BY DEF Signs
  <2>4. ~Shuts("mistral", r, e, q)
    BY DEF Shuts, Closes
  <2>5. CASE Stops("mistral", r, e, q)
    <3>1. e.type = "stop"
      BY <2>5, StoppingIs
    <3>2. n = [m EXCEPT !.finish = e.kind]
      BY <1>3, <3>1
    <3>3. GoesOn("mistral", q, v, n)
      BY <2>5, <3>2, MistralStopped
    <3>. QED BY <3>3 DEF Answers
  <2>6. CASE Concludes("mistral", r, e, q)
    <3>1. q.blocks = r.blocks /\ q.stop = r.stop /\ q.complete /\ e.type = "end"
      BY <2>6, ConcludingIs
    <3>2. n = MistralApi!Finish([m EXCEPT !.saw = TRUE])
      BY <1>3, <3>1
    <3>3. \/ Completes("mistral", q, v, MistralApi!Finish([m EXCEPT !.saw = TRUE]))
          \/ Fails(v, MistralApi!Finish([m EXCEPT !.saw = TRUE]))
      BY <3>1, MistralFinishes
    <3>. QED BY <3>2, <3>3, Zenon DEF Answers
  <2>7. CASE Breaks("mistral", r, e, q)
    <3>1. FALSE
      BY <1>4, <2>7, BreakingIs
    <3>. QED BY <3>1
  <2>8. ~Repeats("mistral", r, e, q) /\ ~ComesLate("mistral", r, e, q)
    BY DEF Repeats, ComesLate
  <2>. QED BY <2>1, <2>2, <2>3, <2>4, <2>5, <2>6, <2>7, <2>8 DEF Moved
<1>5. ASSUME e.type = "eof" PROVE Answers("mistral", q, v, MistralApi!Eof(m))
  <2>1. q.blocks = r.blocks /\ q.stop = r.stop
    BY <1>5, EofBreaks
  <2>2. Completes("mistral", q, v, MistralApi!Finish(m)) \/ Fails(v, MistralApi!Finish(m))
    BY <2>1, MistralFinishes
  <2>3. MistralApi!Eof(m) = MistralApi!Finish(m)
    BY Zenon DEF MistralApi!Eof
  <2>. QED BY <2>2, <2>3, Zenon DEF Answers
<1>. QED BY <1>4, <1>5 DEF n

-----------------------------------------------------------------------------
(* Gemini. *)

\* A fragment that may bring a signature.
LEMMA SignsAndGrows ==
  ASSUME NEW r, NEW v, NEW m, Following(r, v, m), NEW b, NEW r2, Touches(r, r2, b),
         NEW sig, r2.blocks[b].sig = sig, r.blocks[b].open, r2.blocks[b].open,
         r2.blocks[b].kind = r.blocks[b].kind, r2.blocks[b].sent = r.blocks[b].sent,
         r2.blocks[b].named = r.blocks[b].named,
         NEW q, Touches(r2, q, b), NEW text, LongerBy(r2.blocks[b], q.blocks[b], text),
         NEW kind, kind = r.blocks[b].kind, kind \in Prose,
         NEW p, Reblocked(m, p, b, Resigned(m.content[b], sig)),
         NEW n, n = Emit(Extend(p, b, kind, text), Delta(b, kind, text))
  PROVE  Retells(m, n, b) /\ Following(q, v, n)
<1>1. r.blocks[b].kind \in Prose
  OBVIOUS
<1>2. Retells(m, p, b) /\ Following(r2, v, p)
  BY <1>1, SignsProse
<1>3. kind = r2.blocks[b].kind
  OBVIOUS
<1>4. Retells(p, n, b) /\ Following(q, v, n)
  BY ONLY <1>2, <1>3, Touches(r2, q, b), LongerBy(r2.blocks[b], q.blocks[b], text),
          kind \in Prose, n = Emit(Extend(p, b, kind, text), Delta(b, kind, text)), GrowsProse
<1>5. SameBooks(m, n)
  BY ONLY <1>2, <1>4, SameThrough DEF Retells
<1>6. Retells(m, n, b)
  BY ONLY <1>2, <1>4, <1>5 DEF Retells
<1>. QED BY <1>4, <1>6

\* The ids that were made up do not change.
LEMMA MadeUpStill ==
  ASSUME NEW r, NEW content, NEW count, MadeUp(r, content, count), NEW q, NEW after,
         Tools(q) = Tools(r), \A b \in Tools(r) : q.blocks[b].named = r.blocks[b].named,
         \A b \in Tools(r) : after[b].id = content[b].id
  PROVE  MadeUp(q, after, count)
<1>1. count \in Nat
      /\ \A b \in Tools(r) : ~r.blocks[b].named => \E k \in 1..count : content[b].id = <<-k>>
  BY DEF MadeUp
<1>2. \A b, c \in Tools(r) :
        ~r.blocks[b].named /\ ~r.blocks[c].named /\ content[b].id = content[c].id => b = c
  BY DEF MadeUp
<1>3. \A b \in Tools(q) : ~q.blocks[b].named => \E k \in 1..count : after[b].id = <<-k>>
  <2>. SUFFICES ASSUME NEW b \in Tools(q), ~q.blocks[b].named
                PROVE  \E k \in 1..count : after[b].id = <<-k>>
    OBVIOUS
  <2>1. b \in Tools(r) /\ ~r.blocks[b].named
    OBVIOUS
  <2>2. PICK k \in 1..count : content[b].id = <<-k>>
    BY <1>1, <2>1
  <2>3. after[b].id = <<-k>>
    BY <2>1, <2>2
  <2>. QED BY <2>3
<1>4. \A b, c \in Tools(q) :
        ~q.blocks[b].named /\ ~q.blocks[c].named /\ after[b].id = after[c].id => b = c
  BY <1>2
<1>. QED BY <1>1, <1>3, <1>4 DEF MadeUp

LEMMA GeminiRests ==
  ASSUME NEW r, IsReply("google", r), NEW v, NEW m, GoesOn("google", r, v, m),
         NEW S, S = Current(r), NEW h, Halts("google", r, h, S),
         NEW n, n = Gemini!CloseOpenBlock(m)
  PROVE  /\ Following(h, v, n) /\ Rests(m, n) /\ MadeUp(h, n.content, n.think)
         /\ Tools(h) = Tools(r) /\ Current(h) = {}
<1>. DEFINE p == [m EXCEPT !.open = 0]
<1>1. Following(r, v, m) /\ GeminiBooks(r, m) /\ Running(r, m.open)
      /\ MadeUp(r, m.content, m.think)
  BY BooksAre DEF GoesOn, GeminiBooks
<1>2. n = IF m.open = 0 THEN m ELSE EmitEnded(p, m.open)
  BY GeminiShares, Zenon DEF Gemini!CloseOpenBlock
<1>. HIDE DEF p
<1>3. p = [m EXCEPT !.open = 0]
  BY DEF p
<1>4. Following(h, v, n) /\ Rests(m, n)
  BY <1>1, <1>2, <1>3, RestsRunning
<1>5. Tools(h) = Tools(r) /\ Current(h) = {}
  BY <1>4, RestsBooks
<1>6. \A b \in Tools(r) : h.blocks[b].named = r.blocks[b].named
  BY DEF Tools, Halts, Alike
<1>7. MadeUp(h, m.content, m.think)
  BY <1>1, <1>5, <1>6, MadeUpStill
<1>8. n.content = m.content /\ n.think = m.think
  BY <1>4 DEF Rests
<1>. QED BY <1>4, <1>5, <1>7, <1>8, Zenon

\* The other books of the loop: its reasons do not change with a block.
LEMMA GeminiStays ==
  ASSUME NEW r, NEW m, GeminiBooks(r, m), NEW q, q.stop = r.stop, r.stop = "none",
         NEW n, n.saw = m.saw, n.stop = m.stop, MadeUp(q, n.content, n.think), Running(q, n.open)
  PROVE  GeminiBooks(q, n)
<1>1. StopFollows(q, n.stop)
  BY DEF GeminiBooks, StopFollows
<1>2. n.saw \in BOOLEAN /\ (n.saw <=> q.stop # "none")
  BY DEF GeminiBooks
<1>. QED BY <1>1, <1>2 DEF GeminiBooks

\* The signature of a part is kept with the block.
LEMMA GeminiSigns ==
  ASSUME NEW m, NEW b, NEW incoming, NEW sig,
         sig = IF incoming # <<>> THEN incoming ELSE m.content[b].sig,
         NEW p, p = [m EXCEPT !.content[b].sig = Gemini!RetainThoughtSignature(@, incoming)]
  PROVE  Reblocked(m, p, b, Resigned(m.content[b], sig))
<1>1. \A s : Gemini!RetainThoughtSignature(s, incoming) = IF incoming # <<>> THEN incoming ELSE s
  BY Zenon DEF Gemini!RetainThoughtSignature
<1>2. p = [m EXCEPT !.content[b] =
             [m.content[b] EXCEPT !.sig = Gemini!RetainThoughtSignature(m.content[b].sig, incoming)]]
  BY Zenon
<1>3. p = [m EXCEPT !.content[b] = [m.content[b] EXCEPT !.sig = sig]]
  BY <1>1, <1>2, Zenon
<1>. QED BY <1>3, Zenon DEF Reblocked, Resigned

\* A block that begins with a first fragment and a signature.
LEMMA BeginsSigned ==
  ASSUME NEW api, NEW q, IsReply(api, q), NEW r, NEW v, NEW m, Following(r, v, m),
         NEW b, Adds1(r, q, b), NEW kind, kind \in Prose,
         q.blocks[b].kind = kind, q.blocks[b].open, NEW sig, q.blocks[b].sig = sig,
         NEW p, Speaks(p), p.out = m.out, NEW x, x = Block(kind),
         Gains(m.content, p.content, x), NEW text, text = q.blocks[b].sent,
         NEW o, o = EmitOpened(p, b), NEW o2, Reblocked(o, o2, b, Resigned(o.content[b], sig)),
         NEW n, n = Emit(Extend(o2, b, kind, text), Delta(b, kind, text))
  PROVE  SameBooks(p, n) /\ Stays(m, n) /\ Following(q, v, n)
<1>0. /\ Following(r, v, m) /\ Adds1(r, q, b) /\ kind \in Prose
      /\ Speaks(p) /\ p.out = m.out /\ Gains(m.content, p.content, x) /\ o = EmitOpened(p, b)
      /\ n = Emit(Extend(o2, b, kind, text), Delta(b, kind, text))
      /\ Reblocked(o, o2, b, Resigned(o.content[b], sig))
  OBVIOUS
<1>1. Len(r.blocks) \in Nat /\ Len(m.content) = Len(r.blocks) /\ b \in 1..Len(q.blocks)
      /\ b = Len(r.blocks) + 1 /\ Lengthens(r, q)
  BY FollowingIs DEF Lengthens, Adds1
<1>. DEFINE none == <<>>
<1>2. PICK r1 : Blanked(q, b, none, r1)
  <2>. HIDE DEF none
  <2>. QED BY <1>1, BlankExists
<1>21. PICK r2 : Blanked(q, b, sig, r2)
  BY <1>1, BlankExists
<1>3. IsBlock(x) /\ x.kind = kind /\ x.id = <<>> /\ x.text = <<>> /\ x.sig = <<>>
      /\ x.redacted = FALSE /\ kind # "tool"
  BY NewBlockFields DEF Prose, Kinds
<1>31. Fresh(q, b, none, x)
  BY <1>3 DEF Fresh
<1>. HIDE DEF none
<1>4. SameBooks(p, o) /\ o.content = p.content /\ Following(r1, v, o)
  BY ONLY <1>0, <1>2, <1>31, OpensBlank
<1>5. Touches(r1, r2, b)
  <2>1. /\ Len(r1.blocks) = Len(r2.blocks) /\ b \in 1..Len(r1.blocks)
        /\ \A k \in (1..Len(r1.blocks)) \ {b} : Same(r1, q, k) /\ Same(r2, q, k)
    BY <1>2, <1>21 DEF Blanked, Touches
  <2>2. \A k \in (1..Len(r1.blocks)) \ {b} : Same(r1, r2, k)
    BY <2>1 DEF Same, Alike
  <2>. QED BY <2>1, <2>2 DEF Touches
<1>6. /\ r2.blocks[b].sig = sig /\ r1.blocks[b].open /\ r2.blocks[b].open
      /\ r2.blocks[b].kind = r1.blocks[b].kind /\ r2.blocks[b].sent = r1.blocks[b].sent
      /\ r2.blocks[b].named = r1.blocks[b].named /\ kind = r1.blocks[b].kind
      /\ Touches(r2, q, b)
  BY <1>2, <1>21 DEF Blanked
<1>7. LongerBy(r2.blocks[b], q.blocks[b], text)
  <2>1. text \in Seq(Seq(Nat))
    BY <1>1, ReplyFacts
  <2>2. <<>> \o text = text
    BY <2>1
  <2>. QED BY <1>21, <2>2 DEF Blanked, LongerBy
<1>8. Retells(o, n, b) /\ Following(q, v, n)
  <2>1. /\ Following(r1, v, o) /\ Touches(r1, r2, b) /\ r2.blocks[b].sig = sig
        /\ r1.blocks[b].open /\ r2.blocks[b].open
        /\ r2.blocks[b].kind = r1.blocks[b].kind /\ r2.blocks[b].sent = r1.blocks[b].sent
        /\ r2.blocks[b].named = r1.blocks[b].named /\ Touches(r2, q, b)
        /\ LongerBy(r2.blocks[b], q.blocks[b], text) /\ kind = r1.blocks[b].kind /\ kind \in Prose
        /\ Reblocked(o, o2, b, Resigned(o.content[b], sig))
        /\ n = Emit(Extend(o2, b, kind, text), Delta(b, kind, text))
    BY <1>0, <1>4, <1>5, <1>6, <1>7
  <2>. QED BY ONLY <2>1, SignsAndGrows
<1>9. SameBooks(p, n)
  BY ONLY <1>4, <1>8, SameThrough DEF Retells
<1>10. Stays(m, n)
  <2>1. Gains(m.content, o.content, x) /\ Retells(o, n, b)
        /\ Len(m.content) \in Nat /\ b = Len(m.content) + 1
    BY <1>1, <1>3, <1>4, <1>8
  <2>. QED BY ONLY <2>1 DEF Retells, Stays, Gains
<1>. QED BY <1>8, <1>9, <1>10

\* A part of another kind, with a signature of its own, or that is not its chunk's first.
LEMMA GeminiParts ==
  ASSUME NEW r, IsReply("google", r), NEW v, NEW m, GoesOn("google", r, v, m), NEW h, NEW e, NEW q,
         IsReply("google", q), BegunOver("google", r, h, e, q), e.kind \in Prose
  PROVE  Gemini!StartsBlock(m, e)
<1>. DEFINE i == m.open
<1>1. Following(r, v, m) /\ Running(r, i)
  BY BooksAre DEF GoesOn, GeminiBooks
<1>2. CASE i = 0
  BY <1>2 DEF Gemini!StartsBlock
<1>3. CASE i # 0
  <2>1. i \in Current(r) /\ i \in 1..Len(r.blocks)
    BY <1>1, <1>3, FollowingIs DEF Running
  <2>2. r.blocks[i].kind \in Prose
    <3>1. r.blocks[i].kind # "tool"
      BY <2>1 DEF Current
    <3>2. r.blocks[i].kind \in Kinds \cup {"redacted"} /\ r.blocks[i].kind # "redacted"
      BY <2>1 DEF IsReply, IsSaid
    <3>. QED BY <3>1, <3>2 DEF Kinds, Prose
  <2>3. m.content[i].kind = r.blocks[i].kind /\ m.content[i].sig = r.blocks[i].sig
    <3>. HIDE DEF i
    <3>. QED BY <1>1, <2>1, <2>2, KeptIs DEF Kept
  <2>4. CASE r.blocks[i].kind # e.kind
    BY <2>3, <2>4, GeminiShares DEF Is, Gemini!StartsBlock
  <2>5. CASE r.blocks[i].kind = e.kind /\ e.sig = <<>>
    <3>1. e.kind # "tool"
      BY DEF Prose
    <3>2. Named("google", r, e.kind, e.sig) = {TRUE}
      BY <2>1, <2>5, <3>1 DEF Named
    <3>3. e.head
      BY <3>2 DEF BegunOver
    <3>. QED BY <3>3 DEF Gemini!StartsBlock
  <2>6. CASE e.sig # <<>>
    <3>1. q.blocks[e.b].sig = e.sig /\ e.b \in 1..Len(q.blocks) /\ e.b # i
      <4>1. Len(r.blocks) \in Nat
        BY ReplyFacts
      <4>. QED BY <2>1, <4>1 DEF BegunOver
    <3>2. e.sig = <<e.b>>
      BY <2>6, <3>1 DEF IsReply, IsSaid
    <3>3. r.blocks[i].sig \in {<<>>, <<i>>}
      BY <2>1 DEF IsReply, IsSaid
    <3>4. \A x, y : <<x>> = <<y>> => x = y
      OBVIOUS
    <3>. HIDE DEF i
    <3>5. m.content[i].sig # e.sig
      BY <2>3, <2>6, <3>1, <3>2, <3>3, <3>4, Zenon
    <3>. QED BY <2>6, <3>5 DEF Gemini!StartsBlock, i
  <2>. QED BY <2>4, <2>5, <2>6
<1>. QED BY <1>2, <1>3

\* A text or a thought begins.
LEMMA GeminiBegins ==
  ASSUME NEW r, IsReply("google", r), NEW e, NEW q, IsReply("google", q),
         NEW S, S = Current(r), NEW h, Halts("google", r, h, S),
         BegunOver("google", r, h, e, q), e.kind \in Prose,
         NEW v, NEW m, GoesOn("google", r, v, m)
  PROVE  GoesOn("google", q, v, Gemini!OnText(m, e))
<1>. DEFINE b == e.b
            kind == e.kind
            text == e.text
            sig == e.sig
            x == Block(kind)
            c == Gemini!CloseOpenBlock(m)
            a == Add(c, x)
            p == [a EXCEPT !.open = b]
            o == EmitOpened(p, b)
            o2 == [o EXCEPT !.content[b].sig = Gemini!RetainThoughtSignature(@, e.sig)]
            n == Emit(Extend(o2, b, kind, text), Delta(b, kind, text))
<1>1. /\ Following(r, v, m) /\ GeminiBooks(r, m) /\ Speaks(m)
      /\ Len(r.blocks) \in Nat /\ Len(m.content) = Len(r.blocks)
  BY FollowingIs, BooksAre DEF GoesOn
<1>2. /\ Following(h, v, c) /\ Rests(m, c) /\ MadeUp(h, c.content, c.think)
      /\ Tools(h) = Tools(r) /\ Current(h) = {}
  BY GeminiRests
<1>. HIDE DEF c
<1>3. /\ b = Len(r.blocks) + 1 /\ Adds1(h, q, b) /\ q.stop = r.stop /\ h.stop = r.stop
      /\ q.blocks[b].kind = kind /\ text = q.blocks[b].sent /\ q.blocks[b].sig = sig
      /\ Len(q.blocks) = Len(r.blocks) + 1 /\ q.blocks[b].open /\ Len(h.blocks) = Len(r.blocks)
      /\ r.stop = "none" /\ IsReply("google", h)
  <2>1. kind # "tool"
    BY DEF Prose
  <2>. QED BY <2>1 DEF BegunOver, Halts, MayBegin
<1>4. kind # "tool" /\ kind # "redacted" /\ kind \in Kinds /\ kind \in Prose
  BY DEF Prose, Kinds
<1>7. Speaks(c) /\ Len(c.content) = Len(r.blocks)
  BY <1>2, <1>3, FollowingIs
<1>8. IsBlock(x) /\ x = Block(kind) /\ x.text = <<>> /\ x.kind = kind /\ x.sig = <<>>
  BY <1>4, NewBlockFields
<1>. HIDE DEF x
<1>9. Speaks(a) /\ a.out = c.out /\ SameBooks(c, a) /\ Gains(c.content, a.content, x)
  BY <1>7, <1>8, AddIs
<1>10. a = Add(c, x)
  OBVIOUS
<1>. HIDE DEF a
<1>11. Speaks(p) /\ p.content = a.content /\ p.at = a.at
  BY <1>9, Notes
<1>12. /\ p.out = a.out /\ p.open = b /\ p.stop = a.stop /\ p.buf = a.buf /\ p.finish = a.finish
       /\ p.saw = a.saw /\ p.think = a.think
  BY <1>9 DEF Speaks, Machine
<1>13. p = [a EXCEPT !.open = b]
  OBVIOUS
<1>. HIDE DEF p
<1>14. Gains(c.content, p.content, x) /\ p.out = c.out /\ Speaks(p)
  BY <1>9, <1>11, <1>12
<1>15. o = EmitOpened(p, b) /\ o.content = p.content /\ o.open = b
  BY <1>11, <1>12, EmitIs DEF EmitOpened, SameBooks
<1>151. o2 = [o EXCEPT !.content[b].sig = Gemini!RetainThoughtSignature(@, e.sig)]
        /\ n = Emit(Extend(o2, b, kind, text), Delta(b, kind, text))
        /\ IsReply("google", q)
  OBVIOUS
<1>. HIDE DEF o, o2, n
<1>16. Reblocked(o, o2, b, Resigned(o.content[b], sig))
  <2>1. o.content[b].sig = <<>>
    BY <1>3, <1>7, <1>8, <1>14, <1>15 DEF Gains
  <2>2. sig = IF e.sig # <<>> THEN e.sig ELSE o.content[b].sig
    BY <2>1, Zenon DEF sig
  <2>. HIDE DEF b, sig
  <2>. QED BY ONLY <1>151, <2>2, GeminiSigns
<1>17. SameBooks(p, n) /\ Stays(c, n) /\ Following(q, v, n)
  <2>1. Following(h, v, c) /\ Adds1(h, q, b) /\ q.blocks[b].kind = kind /\ q.blocks[b].open
        /\ q.blocks[b].sig = sig /\ text = q.blocks[b].sent
    BY <1>2, <1>3
  <2>. HIDE DEF b, kind, text, sig
  <2>2. /\ kind \in Prose /\ x = Block(kind) /\ Gains(c.content, p.content, x) /\ p.out = c.out
        /\ Speaks(p) /\ o = EmitOpened(p, b)
        /\ n = Emit(Extend(o2, b, kind, text), Delta(b, kind, text)) /\ IsReply("google", q)
    BY <1>4, <1>8, <1>14, <1>15, <1>151
  <2>. QED BY ONLY <1>16, <2>1, <2>2, BeginsSigned
<1>18. GeminiBooks(q, n)
  <2>1. n.open = b /\ n.saw = m.saw /\ n.stop = m.stop /\ n.think = c.think
    BY <1>2, <1>9, <1>12, <1>17 DEF SameBooks, Rests
  <2>2. Tools(q) = Tools(h)
    <3>. HIDE DEF b, kind
    <3>. QED BY <1>1, <1>3, <1>4, KindsAdded
  <2>3. MadeUp(q, n.content, n.think)
    <3>1. \A k \in Tools(h) : k \in 1..Len(h.blocks)
      BY DEF Tools
    <3>2. \A k \in Tools(h) : q.blocks[k].named = h.blocks[k].named
      BY <1>3, <3>1 DEF Adds1, Lengthens, Same, Alike
    <3>3. \A k \in Tools(h) : n.content[k].id = c.content[k].id
      BY <1>3, <1>7, <1>17, <3>1 DEF Stays
    <3>4. MadeUp(q, n.content, c.think)
      BY ONLY <1>2, <2>2, <3>2, <3>3, MadeUpStill
    <3>. QED BY <2>1, <3>4
  <2>4. Running(q, n.open)
    <3>1. q.blocks[b].open /\ q.blocks[b].kind # "tool" /\ n.open = b
      BY <1>3, <1>4, <2>1
    <3>. HIDE DEF b
    <3>2. Running(q, b)
      BY ONLY <1>2, <1>3, <1>151, <3>1, RunsOn
    <3>. QED BY <3>1, <3>2
  <2>. QED BY ONLY <1>1, <1>3, <2>1, <2>3, <2>4, GeminiStays
<1>19. n = Gemini!OnText(m, e)
  <2>1. Gemini!NextIndex(m) = b
    BY <1>1, <1>3, ContentIs, GeminiShares
  <2>2. Gemini!StartsBlock(m, e)
    BY GeminiParts
  <2>3. Gemini!OnText(m, e) =
          LET i == Gemini!NextIndex(m)
              z == IF Gemini!StartsBlock(m, e)
                   THEN Gemini!EmitOpened([Gemini!Add(Gemini!CloseOpenBlock(m), Gemini!Block(e.kind))
                                             EXCEPT !.open = i], i)
                   ELSE m
              signed == [z EXCEPT !.content[z.open].sig = Gemini!RetainThoughtSignature(@, e.sig)]
          IN Gemini!Emit(Gemini!Extend(signed, z.open, e.kind, e.text),
                         Gemini!Delta(z.open, e.kind, e.text))
    BY Zenon DEF Gemini!OnText
  <2>4. Gemini!EmitOpened([Gemini!Add(c, Gemini!Block(e.kind)) EXCEPT !.open = b], b) = o
    <3>1. [Gemini!Add(c, Gemini!Block(e.kind)) EXCEPT !.open = b] = p
      BY <1>8, <1>10, <1>13, GeminiShares, Zenon
    <3>. QED BY <1>15, <3>1, GeminiShares, Zenon
  <2>5. Gemini!OnText(m, e) =
          LET signed == [o EXCEPT !.content[o.open].sig = Gemini!RetainThoughtSignature(@, e.sig)]
          IN Gemini!Emit(Gemini!Extend(signed, o.open, e.kind, e.text),
                         Gemini!Delta(o.open, e.kind, e.text))
    <3>. HIDE DEF b
    <3>. QED BY <2>1, <2>2, <2>3, <2>4, Zenon DEF c
  <2>6. Gemini!OnText(m, e) = Gemini!Emit(Gemini!Extend(o2, b, e.kind, e.text),
                                          Gemini!Delta(b, e.kind, e.text))
    BY <1>15, <1>151, <2>5, Zenon
  <2>. QED BY <1>151, <2>6, GeminiShares, Zenon
<1>20. GoesOn("google", q, v, n)
  BY <1>17, <1>18, BooksAre DEF GoesOn
<1>. QED BY <1>19, <1>20

\* A fragment of the running text.
LEMMA GeminiGrows ==
  ASSUME NEW r, IsReply("google", r), NEW e, NEW q, IsReply("google", q),
         Grows("google", r, e, q), NEW v, NEW m, GoesOn("google", r, v, m)
  PROVE  e.type = "frag" /\ e.kind \in Prose /\ GoesOn("google", q, v, Gemini!OnText(m, e))
<1>. DEFINE b == e.b
            text == e.text
            kind == e.kind
            sig == e.sig
            o2 == [m EXCEPT !.content[b].sig = Gemini!RetainThoughtSignature(@, e.sig)]
            n == Emit(Extend(o2, b, kind, text), Delta(b, kind, text))
<1>1. Following(r, v, m) /\ GeminiBooks(r, m) /\ Running(r, m.open)
      /\ MadeUp(r, m.content, m.think) /\ DOMAIN m.content = 1..Len(r.blocks)
      /\ Len(m.content) = Len(r.blocks)
  BY BooksAre, FollowingIs DEF GoesOn, GeminiBooks
<1>2. Grown(r, e, q)
  BY GrowthIs
<1>3. /\ Touches(r, q, b) /\ LongerBy(r.blocks[b], q.blocks[b], text)
      /\ kind = r.blocks[b].kind /\ kind \in Kinds /\ q.stop = r.stop /\ r.stop = "none"
      /\ q.blocks[b].kind = r.blocks[b].kind /\ e.type = "frag" /\ e.head = FALSE
      /\ b \in 1..Len(r.blocks) /\ Len(q.blocks) = Len(r.blocks) /\ sig = r.blocks[b].sig
      /\ q.blocks[b].open /\ r.blocks[b].open /\ q.blocks[b].named = r.blocks[b].named
  BY <1>2 DEF Grown, LongerBy, Touches
<1>4. kind \in Prose
  <2>1. r.blocks[b].kind # "tool"
    BY <1>3 DEF IsReply, IsSaid
  <2>. QED BY <1>3, <2>1 DEF Kinds, Prose
<1>5. m.content[b].kind = kind /\ m.content[b].sig = sig
  <2>1. Kept(b, r.blocks[b], m.content[b])
    BY <1>1, <1>3, KeptIs
  <2>. QED BY <1>3, <1>4, <2>1 DEF Kept
<1>7. m.open = b
  <2>1. b \in Current(r)
    <3>1. b \in DOMAIN r.blocks
      BY <1>3, ReplyFacts
    <3>. QED BY <1>3, <1>4, <3>1 DEF Current, Prose
  <2>. QED BY <1>1, <2>1 DEF Running
<1>8. o2 = [m EXCEPT !.content[b].sig = Gemini!RetainThoughtSignature(@, e.sig)]
      /\ n = Emit(Extend(o2, b, kind, text), Delta(b, kind, text))
  OBVIOUS
<1>. HIDE DEF o2, n
<1>9. Reblocked(m, o2, b, Resigned(m.content[b], sig))
  <2>1. sig = IF e.sig # <<>> THEN e.sig ELSE m.content[b].sig
    BY <1>5, Zenon DEF sig
  <2>. HIDE DEF b, sig
  <2>. QED BY ONLY <1>8, <2>1, GeminiSigns
<1>10. Retells(m, n, b) /\ Following(q, v, n)
  <2>1. Touches(r, r, b)
    BY <1>3, ReplyFacts DEF Touches, Same, Alike
  <2>2. /\ Following(r, v, m) /\ Touches(r, r, b) /\ r.blocks[b].sig = sig /\ r.blocks[b].open
        /\ Touches(r, q, b) /\ LongerBy(r.blocks[b], q.blocks[b], text)
        /\ kind = r.blocks[b].kind
    BY <1>1, <1>3, <2>1
  <2>. HIDE DEF b, sig, text, kind
  <2>. QED BY ONLY <1>4, <1>8, <1>9, <2>2, SignsAndGrows
<1>11. GeminiBooks(q, n)
  <2>1. n.open = m.open /\ n.saw = m.saw /\ n.stop = m.stop /\ n.think = m.think
    BY <1>10 DEF Retells, SameBooks
  <2>2. Tools(q) = Tools(r)
    BY <1>3, KindsTouched
  <2>3. MadeUp(q, n.content, n.think)
    <3>1. \A k \in Tools(r) : k \in 1..Len(r.blocks) /\ k # b
      BY <1>3, <1>4 DEF Tools, Prose
    <3>2. \A k \in Tools(r) : q.blocks[k].named = r.blocks[k].named
      BY <1>3, <3>1 DEF Touches, Same, Alike
    <3>3. \A k \in Tools(r) : n.content[k].id = m.content[k].id
      BY <1>1, <1>10, <3>1 DEF Retells
    <3>4. MadeUp(q, n.content, m.think)
      BY ONLY <1>1, <2>2, <3>2, <3>3, MadeUpStill
    <3>. QED BY <2>1, <3>4
  <2>4. Running(q, n.open)
    <3>1. /\ DOMAIN q.blocks = 1..Len(r.blocks) /\ DOMAIN r.blocks = 1..Len(r.blocks)
          /\ \A k \in 1..Len(r.blocks) : /\ q.blocks[k].kind = r.blocks[k].kind
                                         /\ q.blocks[k].open <=> r.blocks[k].open
      BY <1>3, ReplyFacts DEF Touches, Same, Alike
    <3>2. Current(q) = Current(r)
      BY <3>1 DEF Current
    <3>. QED BY <1>1, <1>3, <2>1, <3>2 DEF Running
  <2>. QED BY ONLY <1>1, <1>3, <2>1, <2>3, <2>4, GeminiStays
<1>12. n = Gemini!OnText(m, e)
  <2>1. ~Gemini!StartsBlock(m, e)
    <3>1. m.open # 0 /\ Is(m, m.open, e.kind)
      BY <1>1, <1>3, <1>5, <1>7 DEF Is
    <3>2. ~(e.sig # <<>> /\ m.content[m.open].sig # e.sig)
      BY <1>5, <1>7
    <3>. QED BY <1>3, <3>1, <3>2, GeminiShares DEF Gemini!StartsBlock
  <2>2. Gemini!OnText(m, e) =
          LET i == Gemini!NextIndex(m)
              z == IF Gemini!StartsBlock(m, e)
                   THEN Gemini!EmitOpened([Gemini!Add(Gemini!CloseOpenBlock(m), Gemini!Block(e.kind))
                                             EXCEPT !.open = i], i)
                   ELSE m
              signed == [z EXCEPT !.content[z.open].sig = Gemini!RetainThoughtSignature(@, e.sig)]
          IN Gemini!Emit(Gemini!Extend(signed, z.open, e.kind, e.text),
                         Gemini!Delta(z.open, e.kind, e.text))
    BY Zenon DEF Gemini!OnText
  <2>3. Gemini!OnText(m, e) =
          LET signed == [m EXCEPT !.content[m.open].sig = Gemini!RetainThoughtSignature(@, e.sig)]
          IN Gemini!Emit(Gemini!Extend(signed, m.open, e.kind, e.text),
                         Gemini!Delta(m.open, e.kind, e.text))
    BY <2>1, <2>2, Zenon
  <2>4. Gemini!OnText(m, e) = Gemini!Emit(Gemini!Extend(o2, b, e.kind, e.text),
                                          Gemini!Delta(b, e.kind, e.text))
    BY <1>7, <1>8, <2>3, Zenon
  <2>. QED BY <1>8, <2>4, GeminiShares, Zenon
<1>13. GoesOn("google", q, v, n)
  BY <1>10, <1>11, BooksAre DEF GoesOn
<1>. QED BY <1>3, <1>4, <1>12, <1>13

LEMMA PutTwice ==
  ASSUME NEW map, NEW k, NEW x, NEW y
  PROVE  Put(Put(map, k, x), k, y) = Put(map, k, y)
BY DEF Put

\* A block that comes whole.
TellsWhole(v, p, n, bs, b) ==
  /\ Telling(v, n, Put(bs, b, Shut(p.content[b].kind, p.content[b].text)))
  /\ n.content = p.content /\ SameBooks(p, n)

LEMMA TellsAll ==
  ASSUME NEW v, NEW p, NEW bs, Telling(v, p, bs), NEW b, b \notin DOMAIN bs, NEW kind,
         p.content[b].kind = kind, NEW text,
         NEW o, o = EmitOpened(p, b), NEW f, f = Emit(o, Delta(b, kind, text)),
         NEW n, n = EmitEnded(f, b)
  PROVE  TellsWhole(v, p, n, bs, b)
<1>. DEFINE none == <<>>
            w1 == Live(kind, none)
            bs1 == Put(bs, b, w1)
            all == none \o text
            w2 == Live(kind, all)
            bs2 == Put(bs1, b, w2)
            w3 == Shut(p.content[b].kind, p.content[b].text)
            bs3 == Put(bs2, b, w3)
<1>1. Telling(v, o, bs1) /\ o.content = p.content /\ SameBooks(p, o)
  BY TellsOpened
<1>2. b \in DOMAIN bs1 /\ bs1[b] = w1
  <2>. HIDE DEF w1
  <2>. QED BY DEF Put
<1>. HIDE DEF bs1
<1>3. Telling(v, f, bs2) /\ f.content = o.content /\ SameBooks(o, f)
  <2>1. bs1[b] = Live(kind, none)
    BY <1>2
  <2>. HIDE DEF none
  <2>. QED BY <1>1, <1>2, <2>1, TellsDelta
<1>4. b \in DOMAIN bs2 /\ bs2[b] = w2
  <2>. HIDE DEF w2
  <2>. QED BY DEF Put
<1>. HIDE DEF bs2
<1>5. Telling(v, n, bs3) /\ n.content = f.content /\ SameBooks(f, n)
  <2>1. bs2[b] = Live(f.content[b].kind, all) /\ w3 = Shut(f.content[b].kind, f.content[b].text)
    BY <1>1, <1>3, <1>4
  <2>2. n = EmitEnded(f, b)
    OBVIOUS
  <2>. HIDE DEF w3, all
  <2>3. /\ Telling(v, n, Put(bs2, b, Shut(f.content[b].kind, f.content[b].text)))
        /\ n.content = f.content /\ SameBooks(f, n)
    BY ONLY <1>3, <1>4, <2>1, <2>2, TellsEnded
  <2>. QED BY <2>1, <2>3
<1>6. bs3 = Put(bs, b, w3)
  <2>. HIDE DEF w1, w2, w3
  <2>. QED BY PutTwice DEF bs1, bs2
<1>7. SameBooks(p, n) /\ n.content = p.content
  <2>1. SameBooks(o, n)
    BY <1>3, <1>5, SameThrough
  <2>. QED BY <1>1, <1>3, <1>5, <2>1, SameThrough
<1>. QED BY <1>5, <1>6, <1>7 DEF TellsWhole

\* One more id, made up or not.
LEMMA MadeUpMore ==
  ASSUME NEW h, NEW content, NEW think, MadeUp(h, content, think), NEW q, NEW b, b \notin Tools(h),
         Tools(q) = Tools(h) \cup {b}, \A k \in Tools(h) : q.blocks[k].named = h.blocks[k].named,
         NEW after, \A k \in Tools(h) : after[k].id = content[k].id,
         NEW count, count = IF q.blocks[b].named THEN think ELSE think + 1,
         q.blocks[b].named \in BOOLEAN, ~q.blocks[b].named => after[b].id = <<-count>>
  PROVE  MadeUp(q, after, count)
<1>1. /\ think \in Nat
      /\ \A k \in Tools(h) : ~h.blocks[k].named => \E j \in 1..think : content[k].id = <<-j>>
  BY DEF MadeUp
<1>2. \A k, j \in Tools(h) :
        ~h.blocks[k].named /\ ~h.blocks[j].named /\ content[k].id = content[j].id => k = j
  BY DEF MadeUp
<1>3. /\ count \in Nat /\ 1..think \subseteq 1..count
      /\ ~q.blocks[b].named => count \in 1..count /\ count \notin 1..think
  BY <1>1
<1>4. ASSUME NEW k \in Tools(h), ~q.blocks[k].named
      PROVE  \E j \in 1..think : after[k].id = <<-j>>
  <2>1. PICK j \in 1..think : content[k].id = <<-j>>
    BY <1>1, <1>4
  <2>2. after[k].id = <<-j>>
    BY <2>1
  <2>. QED BY <2>2
<1>5. ASSUME NEW k \in Tools(q), ~q.blocks[k].named
      PROVE  \E j \in 1..count : after[k].id = <<-j>>
  <2>1. CASE k \in Tools(h)
    <3>1. PICK j \in 1..think : after[k].id = <<-j>>
      BY <1>4, <1>5, <2>1
    <3>2. j \in 1..count
      BY <1>3, <3>1, Zenon
    <3>. QED BY <3>1, <3>2
  <2>2. CASE k = b
    <3>1. ~q.blocks[b].named
      BY <1>5, <2>2, Zenon
    <3>2. after[b].id = <<-count>>
      BY <3>1
    <3>3. count \in 1..count
      BY <1>3, <3>1, Zenon
    <3>. QED BY <2>2, <3>2, <3>3, Zenon
  <2>. QED BY <2>1, <2>2
<1>6. ASSUME NEW k \in Tools(h), ~q.blocks[k].named, ~q.blocks[b].named
      PROVE  after[k].id # after[b].id
  <2>1. PICK j \in 1..think : after[k].id = <<-j>>
    BY <1>4, <1>6
  <2>2. after[b].id = <<-count>>
    BY <1>6
  <2>3. -j # -count
    BY <1>1, <1>3, <1>6
  <2>4. \A x, y : <<x>> = <<y>> => x = y
    OBVIOUS
  <2>. QED BY ONLY <2>1, <2>2, <2>3, <2>4, Zenon
<1>7. ASSUME NEW k \in Tools(q), NEW j \in Tools(q), ~q.blocks[k].named, ~q.blocks[j].named,
             after[k].id = after[j].id
      PROVE  k = j
  <2>1. CASE k \in Tools(h) /\ j \in Tools(h)
    BY <1>2, <1>7, <2>1
  <2>2. CASE k = b /\ j = b
    BY <2>2
  <2>3. CASE k \in Tools(h) /\ j = b
    BY <1>6, <1>7, <2>3
  <2>4. CASE k = b /\ j \in Tools(h)
    BY <1>6, <1>7, <2>4
  <2>. QED BY <2>1, <2>2, <2>3, <2>4
<1>. QED BY <1>3, <1>5, <1>7 DEF MadeUp

\* A new call, whole.
LEMMA CallWhole ==
  ASSUME NEW b, NEW s, s.kind = "tool", ~s.open,
         NEW id, IsCallId(b, s.named, id), NEW text, text = s.sent, NEW sig, sig = s.sig,
         NEW call, call = Resigned(Retold(ToolBlock(id), text), sig)
  PROVE  /\ IsBlock(call) /\ call.kind = "tool" /\ call.text = text /\ call.id = id
         /\ Agrees(b, s, call, Shut(call.kind, call.text))
<1>. DEFINE tool == ToolBlock(id)
            f == Retold(tool, text)
<1>1. IsBlock(tool) /\ tool.kind = "tool" /\ tool.id = id /\ tool.redacted = FALSE
  BY NewBlockFields
<1>2. call = Resigned(Retold(tool, text), sig)
  OBVIOUS
<1>. HIDE DEF tool
<1>3. IsBlock(f) /\ f.kind = "tool" /\ f.id = id /\ f.redacted = FALSE /\ f.text = text
  BY <1>1, BlockEdits
<1>4. call = Resigned(f, sig)
  BY <1>2
<1>. HIDE DEF f
<1>5. /\ IsBlock(call) /\ call.kind = "tool" /\ call.id = id /\ call.redacted = FALSE
      /\ call.text = text /\ call.sig = sig
  BY ONLY <1>3, <1>4, BlockEdits
<1>6. Seen(s, "tool", s.sent) = Shut("tool", s.sent)
  BY Zenon DEF Seen
<1>7. AgreesCall(b, s, call, Shut(call.kind, call.text))
  BY <1>5, <1>6 DEF AgreesCall
<1>8. s.kind # "redacted" /\ s.kind \notin Prose
  BY DEF Prose
<1>. QED BY <1>5, <1>7, <1>8 DEF Agrees

\* A call comes whole.
LEMMA GeminiBrings ==
  ASSUME NEW r, IsReply("google", r), NEW e, NEW q, IsReply("google", q),
         NEW S, S = Current(r), NEW h, Halts("google", r, h, S),
         BegunOver("google", r, h, e, q), e.kind = "tool",
         NEW v, NEW m, GoesOn("google", r, v, m)
  PROVE  GoesOn("google", q, v, Gemini!OnFunctionCall(m, e))
<1>. DEFINE b == e.b
            text == e.text
            sig == e.sig
            c == Gemini!CloseOpenBlock(m)
            count == IF e.head THEN m.think ELSE m.think + 1
            id == IF e.head THEN <<e.b>> ELSE Gemini!GeneratedId(count)
            call == [ToolBlock(id) EXCEPT !.text = text, !.sig = sig]
            a == Add(c, call)
            p == [a EXCEPT !.think = count]
            o == EmitOpened(p, b)
            f == Emit(o, Delta(b, "tool", text))
            n == EmitEnded(f, b)
<1>1. /\ Following(r, v, m) /\ GeminiBooks(r, m) /\ Speaks(m)
      /\ Len(r.blocks) \in Nat /\ Len(m.content) = Len(r.blocks)
  BY FollowingIs, BooksAre DEF GoesOn
<1>2. /\ Following(h, v, c) /\ Rests(m, c) /\ MadeUp(h, c.content, c.think)
      /\ Tools(h) = Tools(r) /\ Current(h) = {}
  BY GeminiRests
<1>. HIDE DEF c
<1>3. /\ b = Len(r.blocks) + 1 /\ Adds1(h, q, b) /\ q.stop = r.stop /\ h.stop = r.stop
      /\ q.blocks[b].kind = "tool" /\ text = q.blocks[b].sent /\ q.blocks[b].sig = sig
      /\ Len(q.blocks) = Len(r.blocks) + 1 /\ ~q.blocks[b].open /\ Len(h.blocks) = Len(r.blocks)
      /\ r.stop = "none" /\ IsReply("google", h) /\ q.blocks[b].named = e.head
      /\ e.head \in BOOLEAN /\ b \in 1..Len(q.blocks)
  <2>1. e.head \in BOOLEAN
    BY DEF BegunOver, Named
  <2>. QED BY <1>1, <2>1 DEF BegunOver, Halts, MayBegin
<1>4. count \in Nat /\ c.think = m.think /\ c.think \in Nat
      /\ count = (IF q.blocks[b].named THEN c.think ELSE c.think + 1)
      /\ (~e.head => count \in Nat \ {0})
  BY <1>2, <1>3 DEF Rests, MadeUp
<1>5. IsCallId(b, q.blocks[b].named, id) /\ (~q.blocks[b].named => id = <<-count>>)
  <2>1. Gemini!GeneratedId(count) = <<-count>>
    BY DEF Gemini!GeneratedId
  <2>2. q.blocks[b].named => id = <<b>>
    BY <1>3
  <2>3. ~q.blocks[b].named => id = <<-count>> /\ count \in Nat \ {0}
    BY <1>3, <1>4, <2>1
  <2>. HIDE DEF id, count
  <2>. QED BY <2>2, <2>3, Zenon DEF IsCallId
<1>6. call = [ToolBlock(id) EXCEPT !.text = text, !.sig = sig]
  OBVIOUS
<1>. HIDE DEF id, count, call
<1>61. call = Resigned(Retold(ToolBlock(id), text), sig)
  BY <1>6, Zenon DEF Resigned, Retold
<1>7. /\ IsBlock(call) /\ call.kind = "tool" /\ call.text = text /\ call.id = id
      /\ Agrees(b, q.blocks[b], call, Shut(call.kind, call.text))
  <2>. DEFINE s == q.blocks[b]
  <2>1. /\ s.kind = "tool" /\ ~s.open /\ IsCallId(b, s.named, id)
        /\ text = s.sent /\ sig = s.sig
    BY <1>3, <1>5
  <2>. HIDE DEF s, text, sig, b
  <2>2. /\ IsBlock(call) /\ call.kind = "tool" /\ call.text = text /\ call.id = id
        /\ Agrees(b, s, call, Shut(call.kind, call.text))
    BY ONLY <1>61, <2>1, CallWhole
  <2>. QED BY <2>2 DEF s
<1>8. Speaks(c) /\ Len(c.content) = Len(r.blocks)
  BY <1>2, <1>3, FollowingIs
<1>9. Speaks(a) /\ a.out = c.out /\ SameBooks(c, a) /\ Gains(c.content, a.content, call)
  BY <1>7, <1>8, AddIs
<1>10. a = Add(c, call)
  OBVIOUS
<1>. HIDE DEF a
<1>11. Speaks(p) /\ p.content = a.content /\ p.at = a.at
  BY <1>9, Notes
<1>12. /\ p.out = a.out /\ p.open = a.open /\ p.stop = a.stop /\ p.saw = a.saw /\ p.think = count
  BY <1>9 DEF Speaks, Machine
<1>13. p = [a EXCEPT !.think = count]
  OBVIOUS
<1>. HIDE DEF p
<1>14. Gains(c.content, p.content, call) /\ p.out = c.out
  BY <1>9, <1>11, <1>12
<1>15. PICK bs : /\ Telling(v, c, bs) /\ Matches(h, c.content, bs)
                 /\ DOMAIN bs = 1..Len(h.blocks)
  BY <1>2, FollowingIs
<1>16. p.content[b] = call /\ b \notin DOMAIN bs /\ Telling(v, p, bs)
  BY <1>1, <1>3, <1>8, <1>11, <1>14, <1>15, TellsSame DEF Gains
<1>17. o = EmitOpened(p, b) /\ f = Emit(o, Delta(b, "tool", text)) /\ n = EmitEnded(f, b)
  OBVIOUS
<1>. HIDE DEF o, f, n
<1>18. TellsWhole(v, p, n, bs, b)
  <2>. DEFINE tool == "tool"
  <2>1. p.content[b].kind = tool /\ f = Emit(o, Delta(b, tool, text))
    BY <1>7, <1>16, <1>17
  <2>. HIDE DEF tool, text, b
  <2>. QED BY ONLY <1>16, <1>17, <2>1, TellsAll
<1>19. Following(q, v, n)
  <2>. DEFINE w == Shut(call.kind, call.text)
              k == Len(h.blocks)
  <2>1. Telling(v, n, Put(bs, b, w)) /\ n.content = p.content
    BY <1>16, <1>18 DEF TellsWhole
  <2>2. /\ k \in Nat /\ k = Len(h.blocks) /\ Len(q.blocks) = k + 1
        /\ \A j \in 1..k : Same(h, q, j)
        /\ Gains(c.content, p.content, call) /\ Agrees(k + 1, q.blocks[k + 1], call, w)
    BY <1>1, <1>3, <1>7, <1>14 DEF Adds1, Lengthens
  <2>3. b = k + 1
    BY <1>3
  <2>. HIDE DEF w, k, b
  <2>4. Matches(q, p.content, Put(bs, k + 1, w))
    BY ONLY <1>15, <2>2, MatchGains
  <2>. QED BY <2>1, <2>3, <2>4 DEF Following
<1>20. n.content = p.content /\ SameBooks(p, n)
  BY <1>18 DEF TellsWhole
<1>21. GeminiBooks(q, n)
  <2>1. n.open = 0 /\ n.saw = m.saw /\ n.stop = m.stop /\ n.think = count
    BY <1>2, <1>9, <1>12, <1>20 DEF SameBooks, Rests
  <2>2. Tools(q) = Tools(h) \cup {b}
    <3>. HIDE DEF b
    <3>. QED BY <1>1, <1>3, KindsAdded
  <2>3. MadeUp(q, n.content, n.think)
    <3>0. \A k \in Tools(h) : k \in 1..Len(h.blocks)
      BY DEF Tools
    <3>1. b \notin Tools(h)
      BY <1>1, <1>3, <3>0
    <3>2. \A k \in Tools(h) : q.blocks[k].named = h.blocks[k].named
      BY <1>3, <3>0 DEF Adds1, Lengthens, Same, Alike
    <3>. DEFINE after == n.content
    <3>3. \A k \in Tools(h) : after[k].id = c.content[k].id
      BY <1>3, <1>8, <1>14, <1>20, <3>0 DEF Gains
    <3>4. ~q.blocks[b].named => after[b].id = <<-count>>
      BY <1>5, <1>7, <1>16, <1>20
    <3>5. q.blocks[b].named \in BOOLEAN
          /\ count = (IF q.blocks[b].named THEN c.think ELSE c.think + 1)
      BY <1>3, <1>4
    <3>. HIDE DEF after, b
    <3>6. MadeUp(q, after, count)
      BY ONLY <1>2, <2>2, <3>1, <3>2, <3>3, <3>4, <3>5, MadeUpMore
    <3>. QED BY <2>1, <3>6 DEF after
  <2>4. Running(q, n.open)
    <3>1. q.blocks[b].kind = "tool" /\ IsReply("google", q)
      BY <1>3
    <3>. HIDE DEF b
    <3>2. Running(q, 0)
      BY ONLY <1>2, <1>3, <3>1, RunsOn
    <3>. QED BY <2>1, <3>2
  <2>. QED BY ONLY <1>1, <1>3, <2>1, <2>3, <2>4, GeminiStays
<1>22. n = Gemini!OnFunctionCall(m, e)
  <2>1. Gemini!NextIndex(m) = b
    BY <1>1, <1>3, ContentIs, GeminiShares
  <2>2. Gemini!OnFunctionCall(m, e) =
          LET i == Gemini!NextIndex(m)
              g == [Gemini!ToolBlock(IF e.head THEN <<e.b>> ELSE Gemini!GeneratedId(count))
                      EXCEPT !.text = e.text, !.sig = e.sig]
              z == Gemini!EmitOpened([Gemini!Add(Gemini!CloseOpenBlock(m), g)
                                        EXCEPT !.think = count], i)
          IN Gemini!EmitEnded(Gemini!Emit(z, Gemini!Delta(i, "tool", e.text)), i)
    BY Zenon DEF Gemini!OnFunctionCall, count
  <2>3. [Gemini!ToolBlock(IF e.head THEN <<e.b>> ELSE Gemini!GeneratedId(count))
           EXCEPT !.text = e.text, !.sig = e.sig] = call
    BY GeminiShares, Zenon DEF call, id
  <2>4. Gemini!EmitOpened([Gemini!Add(c, call) EXCEPT !.think = count], b) = o
    BY <1>10, <1>13, <1>17, GeminiShares, Zenon
  <2>5. Gemini!OnFunctionCall(m, e) = Gemini!EmitEnded(Gemini!Emit(o, Gemini!Delta(b, "tool", e.text)), b)
    <3>. HIDE DEF b
    <3>. QED BY <2>1, <2>2, <2>3, <2>4, Zenon DEF c
  <2>. QED BY <1>17, <2>5, GeminiShares, Zenon
<1>23. GoesOn("google", q, v, n)
  BY <1>19, <1>21, BooksAre DEF GoesOn
<1>. QED BY <1>22, <1>23

\* The message has a call when the reply does.
LEMMA CallsKept ==
  ASSUME NEW r, IsReply("google", r), NEW v, NEW m, Following(r, v, m)
  PROVE  (\E i \in DOMAIN m.content : Gemini!Is(m, i, "tool")) <=> HasTool(r)
<1>1. DOMAIN m.content = 1..Len(r.blocks) /\ DOMAIN r.blocks = 1..Len(r.blocks)
  BY FollowingIs, ReplyFacts
<1>2. ASSUME NEW b \in 1..Len(r.blocks)
      PROVE  m.content[b].kind = "tool" <=> r.blocks[b].kind = "tool"
  <2>1. Kept(b, r.blocks[b], m.content[b])
    BY KeptIs
  <2>2. r.blocks[b].kind \in Kinds \cup {"redacted"}
    BY DEF IsReply, IsSaid
  <2>3. r.blocks[b].kind \in Prose \/ r.blocks[b].kind = "tool" \/ r.blocks[b].kind = "redacted"
    BY <2>2 DEF Kinds, Prose
  <2>. QED BY <2>1, <2>3 DEF Kept, Prose
<1>3. \A i : Gemini!Is(m, i, "tool") <=> (i \in DOMAIN m.content /\ m.content[i].kind = "tool")
  BY GeminiShares DEF Is
<1>. QED BY <1>1, <1>2, <1>3 DEF HasTool

\* The reply's reason is noted.
ReasonSeen(m, stop) == [m EXCEPT !.saw = TRUE, !.stop = stop]
LEMMA GeminiStopped ==
  ASSUME NEW r, IsReply("google", r), NEW e, NEW q, Stops("google", r, e, q),
         NEW v, NEW m, GoesOn("google", r, v, m), NEW stop, stop = Gemini!MapStopReason(m, e.kind),
         NEW n, n = ReasonSeen(m, stop)
  PROVE  e.type = "stop" /\ GoesOn("google", q, v, n)
<1>1. Following(r, v, m) /\ GeminiBooks(r, m) /\ Speaks(m) /\ Len(r.blocks) \in Nat
      /\ Running(r, m.open) /\ MadeUp(r, m.content, m.think)
  BY BooksAre, FollowingIs DEF GoesOn, GeminiBooks
<1>2. Stopped(r, e, q) /\ e.kind \in Reasons("google", r)
      /\ e.type = IF "google" = "responses" THEN "end" ELSE "stop"
  BY <1>1, StoppingIs
<1>3. /\ q.blocks = r.blocks /\ r.stop = "none" /\ q.stop = e.kind
      /\ e.kind \in {"length", "refused", "stop"} /\ e.type = "stop"
  BY <1>2 DEF Stopped, Reasons
<1>5. /\ Speaks(n) /\ n.content = m.content /\ n.saw = TRUE /\ n.stop = stop
      /\ n.out = m.out /\ n.open = m.open /\ n.think = m.think
  <2>2. /\ DOMAIN n = DOMAIN m /\ n.content = m.content /\ n.saw = TRUE /\ n.stop = stop
        /\ n.out = m.out /\ n.open = m.open /\ n.think = m.think /\ n.over = m.over
    BY <1>1 DEF Speaks, Machine, ReasonSeen
  <2>3. n.at = m.at
    BY <1>1 DEF Speaks, Machine, ReasonSeen
  <2>. QED BY <1>1, <2>2, <2>3, Keeps
<1>6. Len(q.blocks) = Len(r.blocks) /\ \A k \in 1..Len(r.blocks) : Same(r, q, k)
  BY <1>3, Unchanging
<1>7. Following(q, v, n)
  BY <1>1, <1>5, <1>6, FollowsSame
<1>8. MadeUp(q, n.content, n.think)
  <2>1. Tools(q) = Tools(r) /\ \A b \in Tools(r) : q.blocks[b].named = r.blocks[b].named
    BY <1>3 DEF Tools
  <2>2. MadeUp(q, m.content, m.think)
    BY <1>1, <2>1, MadeUpStill
  <2>. QED BY <1>5, <2>2
<1>9. Running(q, n.open)
  <2>1. Current(q) = Current(r)
    BY <1>3 DEF Current
  <2>. QED BY <1>1, <1>3, <1>5, <2>1 DEF Running
<1>10. IF q.stop = "stop" /\ HasTool(q) THEN n.stop = "tool_use" ELSE StopFollows(q, n.stop)
  <2>1. HasTool(q) <=> HasTool(r)
    BY <1>3 DEF HasTool
  <2>2. (\E i \in DOMAIN m.content : Gemini!Is(m, i, "tool")) <=> HasTool(r)
    BY <1>1, CallsKept
  <2>3. stop = CASE e.kind = "stop"   -> IF HasTool(r) THEN "tool_use" ELSE "stop"
                 [] e.kind = "length" -> "length"
                 [] OTHER             -> "error"
    BY <2>2, Zenon DEF Gemini!MapStopReason
  <2>. QED BY <1>3, <1>5, <2>1, <2>3 DEF StopFollows
<1>11. GeminiBooks(q, n)
  BY <1>3, <1>5, <1>8, <1>9, <1>10 DEF GeminiBooks
<1>. QED BY <1>3, <1>7, <1>11, BooksAre DEF GoesOn

\* No two calls have the same id.
LEMMA GeminiUnique ==
  ASSUME NEW r, IsReply("google", r), NEW v, NEW m, Following(r, v, m),
         NEW count, MadeUp(r, m.content, count)
  PROVE  UniqueIds(m.content)
<1>1. DOMAIN m.content = 1..Len(r.blocks)
  BY FollowingIs
<1>. SUFFICES ASSUME NEW i \in DOMAIN m.content, NEW j \in DOMAIN m.content,
                     m.content[i].kind = "tool", m.content[j].kind = "tool",
                     m.content[i].id = m.content[j].id
              PROVE  i = j
  BY DEF UniqueIds
<1>2. ASSUME NEW b \in 1..Len(r.blocks), m.content[b].kind = "tool"
      PROVE  /\ b \in Tools(r) /\ r.blocks[b].named \in BOOLEAN
             /\ IsCallId(b, r.blocks[b].named, m.content[b].id)
  <2>1. Kept(b, r.blocks[b], m.content[b])
    BY FollowingIs, KeptIs
  <2>2. r.blocks[b].kind \in Kinds \cup {"redacted"} /\ r.blocks[b].named \in BOOLEAN
    BY DEF IsReply, IsSaid
  <2>3. r.blocks[b].kind = "tool"
    BY <1>2, <2>1, <2>2 DEF Kept, Kinds, Prose
  <2>. QED BY <2>1, <2>2, <2>3 DEF Kept, Tools
<1>3. \A x, y : <<x>> = <<y>> => x = y
  OBVIOUS
<1>4. ASSUME NEW b \in 1..Len(r.blocks), NEW c \in 1..Len(r.blocks),
             IsCallId(b, TRUE, m.content[b].id), IsCallId(c, FALSE, m.content[c].id)
      PROVE  m.content[b].id # m.content[c].id
  <2>1. m.content[b].id = <<b>>
    BY <1>4 DEF IsCallId
  <2>2. PICK k \in Nat \ {0} : m.content[c].id = <<-k>>
    BY <1>4 DEF IsCallId
  <2>3. b # -k
    OBVIOUS
  <2>. QED BY ONLY <1>3, <2>1, <2>2, <2>3, Zenon
<1>5. i \in 1..Len(r.blocks) /\ j \in 1..Len(r.blocks) /\ i \in Tools(r) /\ j \in Tools(r)
  BY <1>1, <1>2
<1>6. CASE r.blocks[i].named /\ r.blocks[j].named
  <2>1. m.content[i].id = <<i>> /\ m.content[j].id = <<j>>
    BY <1>2, <1>5, <1>6 DEF IsCallId
  <2>. QED BY <1>3, <2>1
<1>7. CASE ~r.blocks[i].named /\ ~r.blocks[j].named
  BY <1>5, <1>7 DEF MadeUp
<1>8. CASE r.blocks[i].named /\ ~r.blocks[j].named
  <2>1. IsCallId(i, TRUE, m.content[i].id) /\ IsCallId(j, FALSE, m.content[j].id)
    BY <1>2, <1>5, <1>8, Zenon DEF IsCallId
  <2>. QED BY <1>4, <1>5, <2>1
<1>9. CASE ~r.blocks[i].named /\ r.blocks[j].named
  <2>1. IsCallId(j, TRUE, m.content[j].id) /\ IsCallId(i, FALSE, m.content[i].id)
    BY <1>2, <1>5, <1>9, Zenon DEF IsCallId
  <2>. QED BY <1>4, <1>5, <2>1
<1>. QED BY <1>6, <1>7, <1>8, <1>9

\* The connection ends, before the reason came or after it.
LEMMA GeminiEnds ==
  ASSUME NEW r, IsReply("google", r), NEW v, NEW m, GoesOn("google", r, v, m),
         NEW n, n = Gemini!Finish(m)
  PROVE  Completes("google", r, v, n) \/ Fails(v, n)
<1>. DEFINE S == Current(r)
            c == Gemini!CloseOpenBlock(m)
<1>0. S = Current(r) /\ c = Gemini!CloseOpenBlock(m)
  OBVIOUS
<1>. HIDE DEF S, c
<1>1. PICK h : Halts("google", r, h, S)
  BY HaltExists
<1>2. /\ Following(h, v, c) /\ Rests(m, c) /\ MadeUp(h, c.content, c.think)
      /\ Tools(h) = Tools(r) /\ Current(h) = {}
  BY <1>0, <1>1, GeminiRests
<1>3. IsReply("google", h) /\ h.stop = r.stop /\ h.complete = r.complete
      /\ GeminiBooks(r, m)
  BY <1>1, BooksAre DEF Halts, GoesOn
<1>4. \A b \in 1..Len(h.blocks) : ~h.blocks[b].open
  <2>. SUFFICES ASSUME NEW b \in 1..Len(h.blocks), h.blocks[b].open PROVE FALSE
    OBVIOUS
  <2>1. b \in DOMAIN h.blocks
    BY <1>3, ReplyFacts
  <2>2. h.blocks[b].kind = "tool"
    BY <1>2, <2>1 DEF Current
  <2>. QED BY <1>3, <2>2 DEF IsReply, IsSaid
<1>5. n = IF m.saw THEN Conclude(c) ELSE Incomplete(c)
  BY <1>0, GeminiShares, Zenon DEF Gemini!Finish
<1>6. CASE ~m.saw
  BY <1>2, <1>5, <1>6, FollowingFails
<1>7. CASE m.saw
  <2>1. n = Conclude(c)
    BY <1>5, <1>7
  <2>2. UniqueIds(c.content)
    BY <1>2, <1>3, GeminiUnique
  <2>3. r.stop # "none" /\ h.complete
    BY <1>3, <1>7 DEF GeminiBooks, IsReply
  <2>4. c.stop = m.stop
    BY <1>2 DEF Rests
  <2>5. /\ c.stop \in {"stop", "length", "tool_use", "error"}
        /\ c.stop # "error" => Reasoned("google", r, c.stop)
    <3>1. CASE r.stop = "stop" /\ HasTool(r)
      <4>1. c.stop = "tool_use"
        BY <1>3, <2>4, <3>1 DEF GeminiBooks
      <4>. QED BY <3>1, <4>1 DEF Reasoned
    <3>2. CASE ~(r.stop = "stop" /\ HasTool(r))
      <4>1. StopFollows(r, c.stop)
        BY <1>3, <2>4, <3>2 DEF GeminiBooks
      <4>. QED BY <3>2, <4>1, ReasonIs
    <3>. QED BY <3>1, <3>2
  <2>6. Completes("google", r, v, Conclude(c)) \/ Fails(v, Conclude(c))
    BY <1>1, <1>2, <1>4, <2>2, <2>3, <2>5, HaltedEnds
  <2>. QED BY <2>1, <2>6
<1>. QED BY <1>6, <1>7

LEMMA GeminiFragments ==
  ASSUME NEW m, NEW e, e.type = "frag"
  PROVE  Gemini!HandleChunk(m, e) = IF e.kind = "tool" THEN Gemini!OnFunctionCall(m, e)
                                    ELSE Gemini!OnText(m, e)
BY Zenon DEF Gemini!HandleChunk

\* Whatever Gemini sends, the loop is in line with it, or ends well.
LEMMA GeminiAnswers ==
  ASSUME NEW r, IsReply("google", r), NEW e, NEW q, IsReply("google", q),
         Moved("google", r, e, q), NEW v, NEW m, GoesOn("google", r, v, m)
  PROVE  /\ e.type \notin {"eof", "broken"} => Answers("google", q, v, Gemini!HandleChunk(m, e))
         /\ e.type = "eof" => Answers("google", q, v, Gemini!Eof(m))
<1>. DEFINE n == Gemini!HandleChunk(m, e)
            S == Current(r)
            stop == Gemini!MapStopReason(m, e.kind)
<1>1. S = Current(r) /\ stop = Gemini!MapStopReason(m, e.kind)
  OBVIOUS
<1>. HIDE DEF S
<1>2. PICK h : Halts("google", r, h, S)
  BY HaltExists
<1>3. /\ e.type = "stop" => n = ReasonSeen(m, stop)
      /\ e.type = "frag" /\ e.kind = "tool" => n = Gemini!OnFunctionCall(m, e)
      /\ e.type = "frag" /\ e.kind # "tool" => n = Gemini!OnText(m, e)
  BY GeminiHandles, GeminiFragments DEF ReasonSeen
<1>. HIDE DEF n, stop
<1>4. ASSUME e.type \notin {"eof", "broken"} PROVE Answers("google", q, v, n)
  <2>1. CASE Begins("google", r, e, q)
    <3>1. BegunOver("google", r, h, e, q)
      BY <1>1, <1>2, <2>1, BeginsOver
    <3>2. e.type = "frag" /\ e.kind \in Kinds
      BY <3>1 DEF BegunOver
    <3>3. CASE e.kind = "tool"
      <4>1. GoesOn("google", q, v, Gemini!OnFunctionCall(m, e))
        BY <1>1, <1>2, <3>1, <3>3, GeminiBrings
      <4>. QED BY <1>3, <3>2, <3>3, <4>1 DEF Answers
    <3>4. CASE e.kind # "tool"
      <4>1. e.kind \in Prose
        BY <3>2, <3>4 DEF Prose, Kinds
      <4>2. GoesOn("google", q, v, Gemini!OnText(m, e))
        BY <1>1, <1>2, <3>1, <4>1, GeminiBegins
      <4>. QED BY <1>3, <3>2, <3>4, <4>2 DEF Answers
    <3>. QED BY <3>3, <3>4
  <2>2. CASE Grows("google", r, e, q)
    <3>1. e.type = "frag" /\ e.kind \in Prose /\ GoesOn("google", q, v, Gemini!OnText(m, e))
      BY <2>2, GeminiGrows
    <3>2. e.kind # "tool"
      BY <3>1 DEF Prose
    <3>. QED BY <1>3, <3>1, <3>2 DEF Answers
  <2>3. ~Signs("google", r, e, q)
    BY DEF Signs
  <2>4. ~Shuts("google", r, e, q)
    BY DEF Shuts, Closes
  <2>5. CASE Stops("google", r, e, q)
    <3>1. e.type = "stop"
      BY <2>5, StoppingIs
    <3>2. n = ReasonSeen(m, stop)
      BY <1>3, <3>1
    <3>3. GoesOn("google", q, v, n)
      BY <1>1, <2>5, <3>2, GeminiStopped
    <3>. QED BY <3>3 DEF Answers
  <2>6. ~Concludes("google", r, e, q)
    BY DEF Concludes
  <2>7. CASE Breaks("google", r, e, q)
    <3>1. FALSE
      BY <1>4, <2>7, BreakingIs
    <3>. QED BY <3>1
  <2>8. ~Repeats("google", r, e, q) /\ ~ComesLate("google", r, e, q)
    BY DEF Repeats, ComesLate
  <2>. QED BY <2>1, <2>2, <2>3, <2>4, <2>5, <2>6, <2>7, <2>8 DEF Moved
<1>5. ASSUME e.type = "eof" PROVE Answers("google", q, v, Gemini!Eof(m))
  <2>1. q.blocks = r.blocks /\ q.stop = r.stop
    BY <1>5, EofBreaks
  <2>2. GoesOn("google", q, v, m)
    BY <2>1, GoesStill
  <2>3. Gemini!Eof(m) = Gemini!Finish(m)
    BY Zenon DEF Gemini!Eof
  <2>4. Completes("google", q, v, Gemini!Finish(m)) \/ Fails(v, Gemini!Finish(m))
    BY <2>2, GeminiEnds
  <2>. QED BY <2>3, <2>4, Zenon DEF Answers
<1>. QED BY <1>4, <1>5 DEF n

-----------------------------------------------------------------------------
(* Responses, whose loop has a map of its own from the vendor's blocks to the *)
(* content index: blocks come into the message in the order they are heard of. *)

\* What the consumer has of a text: all but what its part was announced with.
HeardText(s, w) ==
  \E said \in Seq(Seq(Nat)) : w = Live("text", said) /\ s.sent = s.first \o said

\* What the message and the consumer have of a block they heard of: c and w,
\* the arguments raw, and whether its End was sent.
SpeaksText(b, s, c, w, over) ==
  /\ c.text = s.sent /\ c.sig = <<b>> /\ c.id = <<>>
  /\ over => s.whole \/ ~s.open
  /\ ~s.open => over /\ s.sig = <<b>>
  /\ over => w = Shut("text", s.sent)
  /\ ~over => HeardText(s, w)
SpeaksThought(b, s, c, w, over) ==
  /\ c.id = <<>> /\ c.sig = s.sig
  /\ over <=> ~s.open
  /\ ~s.open => c.text = s.sent
  /\ s.sent = <<>> => c.text = <<>>
  /\ over => w = Shut("thinking", s.sent)
  /\ ~over => w = Live("thinking", s.sent)
SpeaksCall(b, s, c, w, over, raw) ==
  /\ c.id = <<b, -b>> /\ c.sig = <<>>
  /\ over <=> ~s.open
  /\ s.whole \/ ~s.open => c.text = s.sent
  /\ s.open /\ ~s.whole => c.text = <<>>
  /\ s.open => raw = s.sent
  /\ over => w = Shut("tool", s.sent)
  /\ ~over => \E text : w = Live("tool", text)
Item(b, s, c, w, over, raw) ==
  /\ IsBlock(c) /\ c.kind = s.kind /\ c.redacted = FALSE
  /\ s.kind = "text" => SpeaksText(b, s, c, w, over)
  /\ s.kind = "thinking" => SpeaksThought(b, s, c, w, over)
  /\ s.kind = "tool" => SpeaksCall(b, s, c, w, over, raw)

\* A text of which nothing was said.
Silent(s) == s.kind = "text" /\ s.open /\ s.sent = <<>> /\ s.first = <<>>

\* What there is of the block at b.
Over1(m, b) == m.at[b] \in m.ended
Raw(m, b) == Lookup(m.buf, m.at[b], <<>>)
HeardOf(r, m, bs, b) ==
  /\ b \in DOMAIN m.at =>
       Item(b, r.blocks[b], m.content[m.at[b]], bs[m.at[b]], Over1(m, b), Raw(m, b))
  /\ b \notin DOMAIN m.at => Silent(r.blocks[b])

\* Every place of the message is one block's.
Seated(m, bs) ==
  /\ DOMAIN bs = 1..Len(m.content)
  /\ \A b \in DOMAIN m.at : b \in Nat /\ m.at[b] \in 1..Len(m.content)
  /\ \A b, c \in DOMAIN m.at : m.at[b] = m.at[c] => b = c
  /\ \A i \in 1..Len(m.content) : \E b \in DOMAIN m.at : m.at[b] = i
  /\ m.ended \subseteq 1..Len(m.content) /\ DOMAIN m.buf \subseteq 1..Len(m.content)

Recited(r, v, m, bs) ==
  /\ Telling(v, m, bs) /\ Seated(m, bs) /\ DOMAIN m.at \subseteq 1..Len(r.blocks)
  /\ \A b \in 1..Len(r.blocks) : HeardOf(r, m, bs, b)
Recites(r, v, m) == \E bs : Recited(r, v, m, bs)

\* From m to n, and from bs to gs, nothing changed but at b.
Besides(m, bs, n, gs, b) ==
  /\ DOMAIN n.at = DOMAIN m.at \cup {b}
  /\ \A k \in DOMAIN m.at : k # b =>
       /\ n.at[k] = m.at[k] /\ n.content[m.at[k]] = m.content[m.at[k]]
       /\ gs[m.at[k]] = bs[m.at[k]]
       /\ m.at[k] \in n.ended <=> m.at[k] \in m.ended
       /\ Raw(n, k) = Raw(m, k)

LEMMA BesidesNothing ==
  ASSUME NEW m, NEW bs, NEW b \in DOMAIN m.at
  PROVE  Besides(m, bs, m, bs, b)
BY DEF Besides

LEMMA BesidesBoth ==
  ASSUME NEW m, NEW bs, NEW n, NEW gs, NEW p, NEW hs, NEW b, Besides(m, bs, n, gs, b),
         Besides(n, gs, p, hs, b)
  PROVE  Besides(m, bs, p, hs, b)
BY DEF Besides

\* What there is of the block at b now.
Seat(v, m, bs, b, c, w) ==
  /\ Telling(v, m, bs) /\ Seated(m, bs) /\ b \in DOMAIN m.at
  /\ m.content[m.at[b]] = c /\ bs[m.at[b]] = w

LEMMA ItemStill ==
  ASSUME NEW b, NEW s, NEW t, NEW c, NEW w, NEW over, NEW raw, Item(b, s, c, w, over, raw),
         Alike(t, s), t.open <=> s.open
  PROVE  Item(b, t, c, w, over, raw)
<1>1. /\ t.kind = s.kind /\ t.sig = s.sig /\ t.sent = s.sent /\ t.whole = s.whole
      /\ t.first = s.first
  BY DEF Alike
<1>2. s.kind = "text" => SpeaksText(b, t, c, w, over)
  BY <1>1, Zenon DEF Item, SpeaksText, HeardText
<1>3. s.kind = "thinking" => SpeaksThought(b, t, c, w, over)
  BY <1>1, Zenon DEF Item, SpeaksThought
<1>4. s.kind = "tool" => SpeaksCall(b, t, c, w, over, raw)
  BY <1>1, Zenon DEF Item, SpeaksCall
<1>. QED BY <1>1, <1>2, <1>3, <1>4, Zenon DEF Item

\* A block that neither side touched.
LEMMA HeardStill ==
  ASSUME NEW r, NEW q, NEW m, NEW bs, NEW n, NEW gs, NEW b, Besides(m, bs, n, gs, b),
         NEW k, k # b, HeardOf(r, m, bs, k), Same(r, q, k)
  PROVE  HeardOf(q, n, gs, k)
<1>1. k \in DOMAIN n.at <=> k \in DOMAIN m.at
  BY DEF Besides
<1>2. CASE k \in DOMAIN m.at
  <2>1. /\ n.at[k] = m.at[k] /\ n.content[m.at[k]] = m.content[m.at[k]]
        /\ gs[m.at[k]] = bs[m.at[k]] /\ Raw(n, k) = Raw(m, k)
        /\ Over1(n, k) <=> Over1(m, k)
    BY <1>2, Zenon DEF Besides, Over1
  <2>. DEFINE c == m.content[m.at[k]]
              w == bs[m.at[k]]
              raw == Raw(m, k)
              over == Over1(m, k)
  <2>2. Item(k, r.blocks[k], c, w, over, raw)
    BY <1>2 DEF HeardOf
  <2>3. Item(k, q.blocks[k], c, w, over, raw)
    <3>. HIDE DEF c, w, raw, over
    <3>1. Alike(q.blocks[k], r.blocks[k]) /\ (q.blocks[k].open <=> r.blocks[k].open)
      BY DEF Same
    <3>. QED BY <2>2, <3>1, ItemStill
  <2>4. Item(k, q.blocks[k], n.content[n.at[k]], gs[n.at[k]], over, Raw(n, k))
    BY <2>1, <2>3, Zenon
  <2>5. Item(k, q.blocks[k], n.content[n.at[k]], gs[n.at[k]], Over1(n, k), Raw(n, k))
    BY <2>1, <2>4, Zenon DEF Item, SpeaksText, SpeaksThought, SpeaksCall
  <2>. QED BY <1>1, <1>2, <2>5 DEF HeardOf
<1>3. CASE k \notin DOMAIN m.at
  <2>1. Silent(r.blocks[k])
    BY <1>3 DEF HeardOf
  <2>2. Silent(q.blocks[k])
    BY <2>1 DEF Silent, Same, Alike
  <2>. QED BY <1>1, <1>3, <2>2 DEF HeardOf
<1>. QED BY <1>2, <1>3

\* The block at b has changed or begun, and the message and the consumer have
\* what there is of it.
LEMMA RecitesOn ==
  ASSUME NEW r, NEW q, NEW v, NEW m, NEW bs, Recited(r, v, m, bs), NEW n, NEW gs, NEW b,
         b \in 1..Len(q.blocks), Len(r.blocks) \in Nat, Len(q.blocks) \in Nat,
         Len(r.blocks) <= Len(q.blocks),
         \A k \in (1..Len(q.blocks)) \ {b} : k \in 1..Len(r.blocks) /\ Same(r, q, k),
         NEW c, NEW w, Seat(v, n, gs, b, c, w), Besides(m, bs, n, gs, b),
         Item(b, q.blocks[b], c, w, Over1(n, b), Raw(n, b))
  PROVE  Recites(q, v, n)
<1>1. HeardOf(q, n, gs, b)
  BY DEF HeardOf, Seat
<1>2. ASSUME NEW k \in 1..Len(q.blocks), k # b PROVE HeardOf(q, n, gs, k)
  <2>1. k \in 1..Len(r.blocks) /\ Same(r, q, k)
    BY <1>2
  <2>2. HeardOf(r, m, bs, k)
    BY <2>1 DEF Recited
  <2>. QED BY <1>2, <2>1, <2>2, HeardStill
<1>3. DOMAIN n.at \subseteq 1..Len(q.blocks)
  BY DEF Besides, Recited
<1>4. Recited(q, v, n, gs)
  BY <1>1, <1>2, <1>3 DEF Recited, Seat
<1>. QED BY <1>4 DEF Recites

\* Only the vendor has moved, and nothing was heard of it.
LEMMA RecitesStill ==
  ASSUME NEW r, NEW q, NEW v, NEW m, NEW bs, Recited(r, v, m, bs), NEW b,
         b \in 1..Len(q.blocks), b \notin DOMAIN m.at, Silent(q.blocks[b]),
         Len(r.blocks) \in Nat, Len(q.blocks) \in Nat, Len(r.blocks) <= Len(q.blocks),
         \A k \in (1..Len(q.blocks)) \ {b} : k \in 1..Len(r.blocks) /\ Same(r, q, k)
  PROVE  Recites(q, v, m)
<1>1. ASSUME NEW k \in 1..Len(q.blocks) PROVE HeardOf(q, m, bs, k)
  <2>1. CASE k = b
    BY <2>1 DEF HeardOf
  <2>2. CASE k # b
    <3>1. HeardOf(r, m, bs, k) /\ Same(r, q, k)
      BY <2>2 DEF Recited
    <3>2. CASE k \in DOMAIN m.at
      <4>1. Besides(m, bs, m, bs, k)
        BY <3>2, BesidesNothing
      <4>. DEFINE c == m.content[m.at[k]]
                  w == bs[m.at[k]]
                  raw == Raw(m, k)
                  over == Over1(m, k)
      <4>2. Item(k, r.blocks[k], c, w, over, raw)
        BY <3>1, <3>2 DEF HeardOf
      <4>3. Item(k, q.blocks[k], c, w, over, raw)
        <5>. HIDE DEF c, w, raw, over
        <5>1. Alike(q.blocks[k], r.blocks[k]) /\ (q.blocks[k].open <=> r.blocks[k].open)
          BY <3>1 DEF Same
        <5>. QED BY <4>2, <5>1, ItemStill
      <4>. QED BY <3>2, <4>3 DEF HeardOf
    <3>3. CASE k \notin DOMAIN m.at
      BY <3>1, <3>3 DEF HeardOf, Silent, Same, Alike
    <3>. QED BY <3>2, <3>3
  <2>. QED BY <2>1, <2>2
<1>2. DOMAIN m.at \subseteq 1..Len(q.blocks)
  BY DEF Recited
<1>3. Recited(q, v, m, bs)
  BY <1>1, <1>2 DEF Recited
<1>. QED BY <1>3 DEF Recites

\* A new block, announced.
LEMMA AddedItem ==
  ASSUME NEW m, Speaks(m), NEW b \in Nat, NEW block, IsBlock(block),
         NEW i, i = Len(m.content) + 1, NEW n, n = Responses!AddItem(m, b, block)
  PROVE  \E p : /\ Speaks(p) /\ p.out = m.out /\ n = EmitOpened(p, i)
                /\ Gains(m.content, p.content, block)
                /\ p.at = Put(m.at, b, i) /\ p.at[b] = i
                /\ p.stop = m.stop /\ p.buf = m.buf /\ p.ended = m.ended
<1>. DEFINE a == Add(m, block)
            p == [a EXCEPT !.at = Put(a.at, b, i)]
<1>1. /\ Speaks(a) /\ a.out = m.out /\ SameBooks(m, a) /\ Gains(m.content, a.content, block)
  BY AddIs
<1>2. i = NextIndex(m) /\ i \in Nat
  BY ContentIs
<1>3. n = Responses!EmitOpened(p, p.at[b])
  <2>1. /\ Responses!Add(m, block) = a /\ Responses!NextIndex(m) = i
        /\ Responses!Put(a.at, b, i) = Put(a.at, b, i)
    BY <1>2, ResponsesShares
  <2>. HIDE DEF a
  <2>. QED BY <2>1, Zenon DEF Responses!AddItem
<1>. HIDE DEF a
<1>4. Speaks(p) /\ p.content = a.content /\ p.at = Put(a.at, b, i) /\ p.at[b] = i
  BY <1>1, <1>2, Indexes
<1>5. p.out = a.out /\ p.stop = a.stop /\ p.buf = a.buf /\ p.ended = a.ended
  BY <1>1 DEF Speaks, Machine
<1>. HIDE DEF p
<1>6. n = EmitOpened(p, i)
  BY <1>3, <1>4, ResponsesShares
<1>. QED BY <1>1, <1>4, <1>5, <1>6 DEF SameBooks

LEMMA SeatAdds ==
  ASSUME NEW v, NEW m, NEW bs, Telling(v, m, bs), Seated(m, bs), NEW b \in Nat,
         b \notin DOMAIN m.at, NEW block, IsBlock(block),
         NEW n, n = Responses!AddItem(m, b, block),
         NEW w, w = Live(block.kind, <<>>), NEW gs, gs = Put(bs, Len(m.content) + 1, w)
  PROVE  /\ Seat(v, n, gs, b, block, w) /\ Besides(m, bs, n, gs, b)
         /\ ~Over1(n, b) /\ Raw(n, b) = <<>> /\ n.stop = m.stop
<1>. DEFINE i == Len(m.content) + 1
<1>0. Speaks(m) /\ Len(m.content) \in Nat /\ DOMAIN m.content = 1..Len(m.content)
  BY ContentIs DEF Telling
<1>1. PICK p : /\ Speaks(p) /\ p.out = m.out /\ n = EmitOpened(p, i)
               /\ Gains(m.content, p.content, block)
               /\ p.at = Put(m.at, b, i) /\ p.at[b] = i
               /\ p.stop = m.stop /\ p.buf = m.buf /\ p.ended = m.ended
  BY <1>0, AddedItem
<1>2. /\ DOMAIN bs = 1..Len(m.content)
      /\ \A k \in DOMAIN m.at : k \in Nat /\ m.at[k] \in 1..Len(m.content)
      /\ \A k, c \in DOMAIN m.at : m.at[k] = m.at[c] => k = c
      /\ \A j \in 1..Len(m.content) : \E k \in DOMAIN m.at : m.at[k] = j
      /\ m.ended \subseteq 1..Len(m.content) /\ DOMAIN m.buf \subseteq 1..Len(m.content)
  BY DEF Seated
<1>3. p.content[i] = block /\ i \notin DOMAIN bs /\ i \in Nat
  BY <1>0, <1>1, <1>2 DEF Gains
<1>4. Telling(v, p, bs)
  BY <1>1, TellsSame
<1>5. Telling(v, n, gs) /\ n.content = p.content /\ SameBooks(p, n)
  <2>. HIDE DEF i
  <2>1. /\ Telling(v, EmitOpened(p, i), Put(bs, i, Live(p.content[i].kind, <<>>)))
        /\ EmitOpened(p, i).content = p.content /\ SameBooks(p, EmitOpened(p, i))
    BY <1>3, <1>4, TellsOpened
  <2>2. gs = Put(bs, i, Live(p.content[i].kind, <<>>))
    BY <1>3 DEF i
  <2>. QED BY <1>1, <2>1, <2>2
<1>6. /\ n.at = Put(m.at, b, i) /\ n.at[b] = i /\ n.stop = m.stop /\ n.buf = m.buf
      /\ n.ended = m.ended /\ Gains(m.content, n.content, block)
  BY <1>1, <1>5 DEF SameBooks
<1>7. /\ DOMAIN n.at = DOMAIN m.at \cup {b} /\ \A k \in DOMAIN m.at : n.at[k] = m.at[k]
  BY <1>6 DEF Put
<1>8. /\ Len(n.content) = i /\ DOMAIN n.content = 1..i /\ n.content[i] = block
      /\ \A j \in 1..Len(m.content) : n.content[j] = m.content[j]
  BY <1>6 DEF Gains
<1>9. /\ DOMAIN gs = 1..i /\ gs[i] = w
      /\ \A j \in 1..Len(m.content) : gs[j] = bs[j]
  BY <1>0, <1>2 DEF Put
<1>. HIDE DEF i
<1>10. 1..i = (1..Len(m.content)) \cup {i} /\ i \notin 1..Len(m.content)
  BY <1>0 DEF i
<1>11. Seated(n, gs)
  <2>1. \A k \in DOMAIN n.at : k \in Nat /\ n.at[k] \in 1..i
    BY <1>2, <1>6, <1>7, <1>10
  <2>2. \A k, c \in DOMAIN n.at : n.at[k] = n.at[c] => k = c
    BY <1>2, <1>6, <1>7, <1>10
  <2>3. \A j \in 1..i : \E k \in DOMAIN n.at : n.at[k] = j
    BY <1>2, <1>6, <1>7, <1>10
  <2>4. n.ended \subseteq 1..i /\ DOMAIN n.buf \subseteq 1..i
    BY <1>2, <1>6, <1>10
  <2>. QED BY <1>8, <1>9, <2>1, <2>2, <2>3, <2>4 DEF Seated
<1>12. Seat(v, n, gs, b, block, w)
  BY <1>5, <1>6, <1>7, <1>8, <1>9, <1>11 DEF Seat
<1>13. Besides(m, bs, n, gs, b)
  BY <1>2, <1>6, <1>7, <1>8, <1>9, Zenon DEF Besides, Raw
<1>14. ~Over1(n, b) /\ Raw(n, b) = <<>>
  BY <1>2, <1>6, <1>10, Zenon DEF Over1, Raw, Lookup, Known
<1>. QED BY <1>6, <1>12, <1>13, <1>14

\* Something was done about the block at b.
LEMMA SeatIs ==
  ASSUME NEW v, NEW m, NEW bs, Seated(m, bs), NEW b \in DOMAIN m.at,
         NEW n, NEW gs, Telling(v, n, gs), n.at = m.at, NEW c, NEW w,
         Swaps(m.content, n.content, m.at[b], c), Replaces(bs, gs, m.at[b], w),
         n.ended \subseteq m.ended \cup {m.at[b]}, m.ended \subseteq n.ended,
         DOMAIN n.buf \subseteq DOMAIN m.buf \cup {m.at[b]},
         \A j : j # m.at[b] => Lookup(n.buf, j, <<>>) = Lookup(m.buf, j, <<>>)
  PROVE  Seat(v, n, gs, b, c, w) /\ Besides(m, bs, n, gs, b)
<1>. DEFINE i == m.at[b]
<1>2. /\ DOMAIN bs = 1..Len(m.content)
      /\ \A k \in DOMAIN m.at : k \in Nat /\ m.at[k] \in 1..Len(m.content)
      /\ \A k, l \in DOMAIN m.at : m.at[k] = m.at[l] => k = l
      /\ \A j \in 1..Len(m.content) : \E k \in DOMAIN m.at : m.at[k] = j
      /\ m.ended \subseteq 1..Len(m.content) /\ DOMAIN m.buf \subseteq 1..Len(m.content)
  BY DEF Seated
<1>3. i \in 1..Len(m.content)
  BY <1>2
<1>4. /\ Len(n.content) = Len(m.content) /\ n.content[i] = c
      /\ \A j \in DOMAIN m.content : j # i => n.content[j] = m.content[j]
      /\ DOMAIN gs = DOMAIN bs /\ gs[i] = w /\ \A j \in DOMAIN bs : j # i => gs[j] = bs[j]
  BY DEF Swaps, Replaces
<1>41. DOMAIN m.content = 1..Len(m.content)
  <2>1. Speaks(n)
    BY DEF Telling
  <2>2. DOMAIN n.content = 1..Len(n.content)
    BY <2>1, ContentIs
  <2>. QED BY <1>4, <2>2 DEF Swaps
<1>. HIDE DEF i
<1>5. \A k \in DOMAIN m.at : k # b => m.at[k] # i /\ m.at[k] \in DOMAIN bs /\ m.at[k] \in DOMAIN m.content
  BY <1>2, <1>41 DEF i
<1>6. n.ended \subseteq m.ended \cup {i} /\ DOMAIN n.buf \subseteq DOMAIN m.buf \cup {i}
      /\ \A j : j # i => Lookup(n.buf, j, <<>>) = Lookup(m.buf, j, <<>>)
  BY DEF i
<1>7. Seated(n, gs)
  BY <1>2, <1>3, <1>4, <1>6 DEF Seated
<1>8. Besides(m, bs, n, gs, b)
  <2>1. DOMAIN n.at = DOMAIN m.at \cup {b}
    OBVIOUS
  <2>2. ASSUME NEW k \in DOMAIN m.at, k # b
        PROVE  /\ n.at[k] = m.at[k] /\ n.content[m.at[k]] = m.content[m.at[k]]
               /\ gs[m.at[k]] = bs[m.at[k]]
               /\ m.at[k] \in n.ended <=> m.at[k] \in m.ended
               /\ Raw(n, k) = Raw(m, k)
    <3>1. m.at[k] # i /\ m.at[k] \in DOMAIN bs /\ m.at[k] \in DOMAIN m.content /\ n.at = m.at
      BY <1>5, <2>2
    <3>2. Raw(n, k) = Raw(m, k)
      BY <1>6, <3>1, Zenon DEF Raw
    <3>3. m.at[k] \in n.ended <=> m.at[k] \in m.ended
      BY <1>6, <3>1
    <3>. QED BY <1>4, <3>1, <3>2, <3>3
  <2>. QED BY <2>1, <2>2 DEF Besides
<1>. QED BY <1>4, <1>7, <1>8 DEF Seat, i

\* A step at the block at b, which leaves these alone.
Steady(m, n, b) ==
  /\ n.at = m.at /\ n.stop = m.stop /\ Raw(n, b) = Raw(m, b)
  /\ Over1(n, b) <=> Over1(m, b)

LEMMA SteadyIs ==
  ASSUME NEW m, NEW n, SameBooks(m, n), NEW b
  PROVE  Steady(m, n, b)
BY Zenon DEF SameBooks, Steady, Raw, Over1

LEMMA SeatFacts ==
  ASSUME NEW v, NEW m, NEW bs, NEW b, NEW c, NEW w, Seat(v, m, bs, b, c, w)
  PROVE  /\ Speaks(m) /\ m.at[b] \in 1..Len(m.content) /\ m.at[b] \in DOMAIN bs
         /\ DOMAIN m.content = 1..Len(m.content) /\ Len(m.content) \in Nat
         /\ m.content[m.at[b]] = c /\ bs[m.at[b]] = w /\ b \in DOMAIN m.at /\ b \in Nat
         /\ Telling(v, m, bs) /\ Seated(m, bs)
         /\ \A kind : c.kind = kind => Is(m, m.at[b], kind)
<1>1. Speaks(m) /\ m.at[b] \in 1..Len(m.content) /\ m.at[b] \in DOMAIN bs /\ b \in Nat
  BY DEF Seat, Seated, Telling
<1>2. DOMAIN m.content = 1..Len(m.content) /\ Len(m.content) \in Nat
  BY <1>1, ContentIs
<1>. QED BY <1>1, <1>2 DEF Seat, Is

LEMMA SeatRewrites ==
  ASSUME NEW v, NEW m, NEW bs, NEW b, NEW c, NEW w, Seat(v, m, bs, b, c, w), NEW x,
         DOMAIN x = BlockFields, x.kind = c.kind, NEW n, Reblocked(m, n, m.at[b], x)
  PROVE  Seat(v, n, bs, b, x, w) /\ Besides(m, bs, n, bs, b) /\ Steady(m, n, b)
<1>1. /\ Speaks(m) /\ m.at[b] \in 1..Len(m.content) /\ m.at[b] \in DOMAIN bs
      /\ m.content[m.at[b]] = c /\ bs[m.at[b]] = w /\ b \in DOMAIN m.at
      /\ Telling(v, m, bs) /\ Seated(m, bs)
  BY SeatFacts
<1>2. Speaks(n) /\ n.out = m.out /\ SameBooks(m, n) /\ Swaps(m.content, n.content, m.at[b], x)
  BY <1>1, ReblockedIs
<1>3. Telling(v, n, bs)
  BY <1>1, <1>2, TellsSame
<1>4. Replaces(bs, bs, m.at[b], w)
  BY <1>1 DEF Replaces
<1>5. /\ n.at = m.at /\ n.ended = m.ended /\ n.buf = m.buf
  BY <1>2 DEF SameBooks
<1>6. Seat(v, n, bs, b, x, w) /\ Besides(m, bs, n, bs, b)
  <2>1. /\ n.ended \subseteq m.ended \cup {m.at[b]} /\ m.ended \subseteq n.ended
        /\ DOMAIN n.buf \subseteq DOMAIN m.buf \cup {m.at[b]}
        /\ \A j : j # m.at[b] => Lookup(n.buf, j, <<>>) = Lookup(m.buf, j, <<>>)
    BY <1>5
  <2>. QED BY <1>1, <1>2, <1>3, <1>4, <1>5, <2>1, SeatIs
<1>. QED BY <1>2, <1>6, SteadyIs

LEMMA SeatSame ==
  ASSUME NEW v, NEW m, NEW bs, NEW b, NEW c, NEW w, Seat(v, m, bs, b, c, w),
         NEW n, NEW gs, Telling(v, n, gs), n.content = m.content, n.at = m.at, NEW y,
         gs = Put(bs, m.at[b], y),
         n.ended \subseteq m.ended \cup {m.at[b]}, m.ended \subseteq n.ended,
         DOMAIN n.buf \subseteq DOMAIN m.buf \cup {m.at[b]},
         \A j : j # m.at[b] => Lookup(n.buf, j, <<>>) = Lookup(m.buf, j, <<>>)
  PROVE  Seat(v, n, gs, b, c, y) /\ Besides(m, bs, n, gs, b)
<1>1. /\ m.at[b] \in 1..Len(m.content) /\ m.at[b] \in DOMAIN bs
      /\ m.content[m.at[b]] = c /\ b \in DOMAIN m.at /\ Seated(m, bs)
  BY SeatFacts
<1>2. Swaps(m.content, n.content, m.at[b], c)
  BY <1>1 DEF Swaps
<1>3. Replaces(bs, gs, m.at[b], y)
  BY <1>1, PutReplaces
<1>. QED BY <1>1, <1>2, <1>3, SeatIs

LEMMA SeatDelta ==
  ASSUME NEW v, NEW m, NEW bs, NEW b, NEW c, NEW w, Seat(v, m, bs, b, c, w), NEW kind,
         NEW said, w = Live(kind, said), NEW text, NEW n, n = Emit(m, Delta(m.at[b], kind, text)),
         NEW y, y = Live(kind, said \o text), NEW gs, gs = Put(bs, m.at[b], y)
  PROVE  Seat(v, n, gs, b, c, y) /\ Besides(m, bs, n, gs, b) /\ Steady(m, n, b)
<1>1. /\ m.at[b] \in DOMAIN bs /\ bs[m.at[b]] = Live(kind, said) /\ Telling(v, m, bs)
  BY SeatFacts
<1>2. Telling(v, n, gs) /\ n.content = m.content /\ SameBooks(m, n)
  BY <1>1, TellsDelta
<1>3. /\ n.at = m.at /\ n.ended \subseteq m.ended \cup {m.at[b]} /\ m.ended \subseteq n.ended
      /\ DOMAIN n.buf \subseteq DOMAIN m.buf \cup {m.at[b]}
      /\ \A j : j # m.at[b] => Lookup(n.buf, j, <<>>) = Lookup(m.buf, j, <<>>)
  BY <1>2 DEF SameBooks
<1>4. Seat(v, n, gs, b, c, y) /\ Besides(m, bs, n, gs, b)
  BY <1>2, <1>3, SeatSame
<1>. QED BY <1>2, <1>4, SteadyIs

\* Arguments are kept beside the message.
LEMMA SeatBuffers ==
  ASSUME NEW v, NEW m, NEW bs, NEW b, NEW c, NEW w, Seat(v, m, bs, b, c, w), NEW x, NEW n,
         n = [m EXCEPT !.buf = Put(m.buf, m.at[b], x)]
  PROVE  /\ Seat(v, n, bs, b, c, w) /\ Besides(m, bs, n, bs, b)
         /\ Raw(n, b) = x /\ (Over1(n, b) <=> Over1(m, b)) /\ n.stop = m.stop /\ n.at = m.at
<1>. DEFINE i == m.at[b]
            buf == Put(m.buf, i, x)
<1>1. /\ Speaks(m) /\ Telling(v, m, bs) /\ i \in DOMAIN bs /\ bs[i] = w /\ b \in DOMAIN m.at
      /\ i \in 1..Len(m.content) /\ m.content[i] = c /\ Seated(m, bs)
  BY SeatFacts
<1>2. /\ Lookup(buf, i, <<>>) = x /\ DOMAIN buf = DOMAIN m.buf \cup {i}
      /\ \A j : j # i => Lookup(buf, j, <<>>) = Lookup(m.buf, j, <<>>)
  <2>. HIDE DEF i
  <2>1. /\ Lookup(Put(m.buf, i, x), i, <<>>) = x
        /\ \A j : j # i => Lookup(Put(m.buf, i, x), j, <<>>) = Lookup(m.buf, j, <<>>)
        /\ DOMAIN Put(m.buf, i, x) = DOMAIN m.buf \cup {i}
    BY ONLY PutLookup, Zenon
  <2>. QED BY <2>1
<1>3. n = [m EXCEPT !.buf = buf]
  OBVIOUS
<1>. HIDE DEF buf
<1>4. Speaks(n) /\ n.content = m.content /\ n.at = m.at
  BY ONLY <1>1, <1>3, Notes
<1>5. n.out = m.out /\ n.buf = buf /\ n.ended = m.ended /\ n.stop = m.stop
  BY <1>1, <1>3 DEF Speaks, Machine
<1>6. Telling(v, n, bs)
  BY <1>1, <1>4, <1>5, TellsSame
<1>7. Swaps(m.content, n.content, i, c) /\ Replaces(bs, bs, i, w)
  BY <1>1, <1>4 DEF Swaps, Replaces
<1>8. Seat(v, n, bs, b, c, w) /\ Besides(m, bs, n, bs, b)
  <2>1. /\ n.ended \subseteq m.ended \cup {i} /\ m.ended \subseteq n.ended
        /\ DOMAIN n.buf \subseteq DOMAIN m.buf \cup {i}
        /\ \A j : j # i => Lookup(n.buf, j, <<>>) = Lookup(m.buf, j, <<>>)
    BY <1>2, <1>5
  <2>. QED BY <1>1, <1>4, <1>6, <1>7, <2>1, SeatIs
<1>9. Raw(n, b) = x /\ (Over1(n, b) <=> Over1(m, b))
  BY <1>2, <1>4, <1>5, Zenon DEF Raw, Over1
<1>. QED BY <1>4, <1>5, <1>8, <1>9

\* Its End, once.
LEMMA SeatEnded ==
  ASSUME NEW v, NEW m, NEW bs, NEW b, NEW c, NEW w, Seat(v, m, bs, b, c, w), NEW said,
         ~Over1(m, b), w = Live(c.kind, said), NEW n, n = Responses!EndOnce(m, m.at[b]),
         NEW y, y = Shut(c.kind, c.text), NEW gs, gs = Put(bs, m.at[b], y)
  PROVE  /\ Seat(v, n, gs, b, c, y) /\ Besides(m, bs, n, gs, b)
         /\ Over1(n, b) /\ Raw(n, b) = Raw(m, b) /\ n.stop = m.stop
<1>. DEFINE i == m.at[b]
            ended == m.ended \cup {i}
            p == [m EXCEPT !.ended = ended]
<1>1. /\ Speaks(m) /\ Telling(v, m, bs) /\ i \in DOMAIN bs /\ bs[i] = w /\ b \in DOMAIN m.at
      /\ i \in 1..Len(m.content) /\ m.content[i] = c /\ Seated(m, bs)
  BY SeatFacts
<1>2. n = EmitEnded(p, i)
  <2>1. n = Responses!EmitEnded(p, i)
    BY Zenon DEF Responses!EndOnce, Over1
  <2>. HIDE DEF p
  <2>. QED BY <2>1, ResponsesShares
<1>. HIDE DEF ended
<1>3. Speaks(p) /\ p.content = m.content /\ p.at = m.at
  <2>1. p = [m EXCEPT !.ended = ended]
    OBVIOUS
  <2>. HIDE DEF p
  <2>. QED BY <1>1, <2>1, Notes
<1>4. p.out = m.out /\ p.buf = m.buf /\ p.ended = ended /\ p.stop = m.stop
  BY <1>1 DEF Speaks, Machine
<1>. HIDE DEF p, i
<1>5. Telling(v, p, bs)
  BY <1>1, <1>3, <1>4, TellsSame
<1>6. p.content[i] = c /\ bs[i] = Live(p.content[i].kind, said)
  BY <1>1, <1>3
<1>7. Telling(v, n, gs) /\ n.content = p.content /\ SameBooks(p, n)
  <2>1. /\ Telling(v, EmitEnded(p, i),
                   Put(bs, i, Shut(p.content[i].kind, p.content[i].text)))
        /\ EmitEnded(p, i).content = p.content /\ SameBooks(p, EmitEnded(p, i))
    BY <1>1, <1>5, <1>6, TellsEnded
  <2>2. gs = Put(bs, i, Shut(p.content[i].kind, p.content[i].text))
    BY <1>6 DEF i
  <2>. QED BY <1>2, <2>1, <2>2
<1>8. n.at = m.at /\ n.buf = m.buf /\ n.ended = ended /\ n.stop = m.stop /\ n.content = m.content
  BY <1>3, <1>4, <1>7 DEF SameBooks
<1>9. Seat(v, n, gs, b, c, y) /\ Besides(m, bs, n, gs, b)
  <2>1. /\ n.ended \subseteq m.ended \cup {m.at[b]} /\ m.ended \subseteq n.ended
        /\ DOMAIN n.buf \subseteq DOMAIN m.buf \cup {m.at[b]}
        /\ \A j : j # m.at[b] => Lookup(n.buf, j, <<>>) = Lookup(m.buf, j, <<>>)
    BY <1>8 DEF ended, i
  <2>. QED BY <1>7, <1>8, <2>1, SeatSame
<1>10. Over1(n, b) /\ Raw(n, b) = Raw(m, b)
  BY <1>8, Zenon DEF Over1, Raw, ended, i
<1>. QED BY <1>8, <1>9, <1>10

\* The reply changed at b, or b began.
Aside(r, q, b) ==
  /\ b \in 1..Len(q.blocks) /\ Len(r.blocks) \in Nat /\ Len(q.blocks) \in Nat
  /\ Len(r.blocks) <= Len(q.blocks)
  /\ \A k \in (1..Len(q.blocks)) \ {b} : k \in 1..Len(r.blocks) /\ Same(r, q, k)

LEMMA AsideIs ==
  ASSUME NEW api, NEW r, IsReply(api, r), NEW q, NEW b
  PROVE  /\ Touches(r, q, b) => Aside(r, q, b)
         /\ Lengthens(r, q) /\ b = Len(r.blocks) + 1 => Aside(r, q, b)
<1>1. Len(r.blocks) \in Nat
  BY ReplyFacts
<1>2. Touches(r, q, b) => Aside(r, q, b)
  BY <1>1 DEF Touches, Aside
<1>3. ASSUME Lengthens(r, q), b = Len(r.blocks) + 1 PROVE Aside(r, q, b)
  <2>1. Len(q.blocks) = Len(r.blocks) + 1 /\ \A k \in 1..Len(r.blocks) : Same(r, q, k)
    BY <1>3 DEF Lengthens
  <2>2. \A k \in (1..Len(q.blocks)) \ {b} : k \in 1..Len(r.blocks)
    BY <1>1, <1>3, <2>1
  <2>. QED BY <1>1, <1>3, <2>1, <2>2 DEF Aside
<1>. QED BY <1>2, <1>3

LEMMA RecitedSeat ==
  ASSUME NEW r, NEW v, NEW m, NEW bs, Recited(r, v, m, bs), NEW b \in 1..Len(r.blocks),
         b \in DOMAIN m.at, NEW c, c = m.content[m.at[b]], NEW w, w = bs[m.at[b]]
  PROVE  /\ Seat(v, m, bs, b, c, w)
         /\ Item(b, r.blocks[b], c, w, Over1(m, b), Raw(m, b))
BY DEF Recited, Seat, HeardOf

LEMMA ReciteTurn ==
  ASSUME NEW r, NEW q, NEW v, NEW m, NEW bs, Recited(r, v, m, bs), NEW b, Aside(r, q, b),
         NEW n, NEW gs, NEW c, NEW w, Seat(v, n, gs, b, c, w), Besides(m, bs, n, gs, b),
         Item(b, q.blocks[b], c, w, Over1(n, b), Raw(n, b))
  PROVE  Recites(q, v, n)
<1>1. /\ b \in 1..Len(q.blocks) /\ Len(r.blocks) \in Nat /\ Len(q.blocks) \in Nat
      /\ Len(r.blocks) <= Len(q.blocks)
      /\ \A k \in (1..Len(q.blocks)) \ {b} : k \in 1..Len(r.blocks) /\ Same(r, q, k)
  BY DEF Aside
<1>. QED BY <1>1, RecitesOn

LEMMA ReciteQuiet ==
  ASSUME NEW r, NEW q, NEW v, NEW m, NEW bs, Recited(r, v, m, bs), NEW b, Aside(r, q, b),
         b \notin DOMAIN m.at, Silent(q.blocks[b])
  PROVE  Recites(q, v, m)
<1>1. /\ b \in 1..Len(q.blocks) /\ Len(r.blocks) \in Nat /\ Len(q.blocks) \in Nat
      /\ Len(r.blocks) <= Len(q.blocks)
      /\ \A k \in (1..Len(q.blocks)) \ {b} : k \in 1..Len(r.blocks) /\ Same(r, q, k)
  BY DEF Aside
<1>. QED BY <1>1, RecitesStill

\* An item only says whether its End was sent, not how.
LEMMA ItemOver ==
  ASSUME NEW b, NEW s, NEW c, NEW w, NEW over, NEW after, NEW raw, NEW left,
         Item(b, s, c, w, over, raw), over <=> after, left = raw
  PROVE  Item(b, s, c, w, after, left)
BY Zenon DEF Item, SpeaksText, SpeaksThought, SpeaksCall

-----------------------------------------------------------------------------
\* A fragment of text, told.
LEMMA SeatGrows ==
  ASSUME NEW v, NEW m, NEW bs, NEW b, NEW c, NEW w, Seat(v, m, bs, b, c, w), IsBlock(c),
         NEW kind, c.kind = kind, NEW said, w = Live(kind, said), NEW text, NEW n,
         n = Emit(Extend(m, m.at[b], kind, text), Delta(m.at[b], kind, text)),
         NEW x, x = Retold(c, c.text \o text), NEW y, y = Live(kind, said \o text)
  PROVE  \E gs : /\ Seat(v, n, gs, b, x, y) /\ Besides(m, bs, n, gs, b)
                 /\ (Over1(n, b) <=> Over1(m, b)) /\ Raw(n, b) = Raw(m, b)
<1>. DEFINE i == m.at[b]
            p == Extend(m, i, kind, text)
            gs == Put(bs, p.at[b], y)
<1>1. Is(m, i, kind) /\ m.content[i] = c
  BY SeatFacts
<1>2. Reblocked(m, p, i, x)
  <2>1. p = [m EXCEPT !.content[i].text = @ \o text]
    BY <1>1, Zenon DEF Extend
  <2>2. x = [m.content[i] EXCEPT !.text = @ \o text]
    BY <1>1, Zenon DEF Retold
  <2>. HIDE DEF p, i
  <2>. QED BY <2>1, <2>2, Zenon DEF Reblocked
<1>3. DOMAIN x = BlockFields /\ x.kind = c.kind
  BY BlockEdits DEF IsBlock
<1>. HIDE DEF p
<1>4. Seat(v, p, bs, b, x, w) /\ Besides(m, bs, p, bs, b) /\ Steady(m, p, b)
  BY ONLY <1>2, <1>3, Seat(v, m, bs, b, c, w), SeatRewrites
<1>5. n = Emit(p, Delta(p.at[b], kind, text))
  BY <1>4 DEF Steady, p
<1>6. Seat(v, n, gs, b, x, y) /\ Besides(p, bs, n, gs, b) /\ Steady(p, n, b)
  <2>1. gs = Put(bs, p.at[b], y) /\ w = Live(kind, said) /\ y = Live(kind, said \o text)
    OBVIOUS
  <2>. HIDE DEF gs
  <2>. QED BY ONLY <1>4, <1>5, <2>1, SeatDelta
<1>. HIDE DEF gs
<1>7. Besides(m, bs, n, gs, b)
  BY <1>4, <1>6, BesidesBoth
<1>8. (Over1(n, b) <=> Over1(m, b)) /\ Raw(n, b) = Raw(m, b)
  BY <1>4, <1>6 DEF Steady
<1>. QED BY <1>6, <1>7, <1>8

\* A fragment of arguments, told.
Gathered(v, m, bs, b, c, text, n, gs, y) ==
  /\ Seat(v, n, gs, b, c, y) /\ Besides(m, bs, n, gs, b)
  /\ (Over1(n, b) <=> Over1(m, b)) /\ Raw(n, b) = Raw(m, b) \o text
LEMMA SeatCollects ==
  ASSUME NEW v, NEW m, NEW bs, NEW b, NEW c, NEW w, Seat(v, m, bs, b, c, w),
         NEW kind, NEW said, w = Live(kind, said), NEW text, NEW n,
         n = Emit(Collect(m, m.at[b], text), Delta(m.at[b], kind, text)),
         NEW y, y = Live(kind, said \o text)
  PROVE  \E gs : Gathered(v, m, bs, b, c, text, n, gs, y)
<1>. DEFINE i == m.at[b]
            p == Collect(m, i, text)
            all == Raw(m, b) \o text
            gs == Put(bs, p.at[b], y)
<1>1. p = [m EXCEPT !.buf = Put(m.buf, i, all)]
  BY Zenon DEF Collect, Raw
<1>. HIDE DEF p, all
<1>2. /\ Seat(v, p, bs, b, c, w) /\ Besides(m, bs, p, bs, b) /\ p.at = m.at
      /\ Raw(p, b) = all /\ (Over1(p, b) <=> Over1(m, b))
  BY ONLY <1>1, Seat(v, m, bs, b, c, w), SeatBuffers DEF i
<1>3. n = Emit(p, Delta(p.at[b], kind, text))
  BY <1>2 DEF p
<1>4. Seat(v, n, gs, b, c, y) /\ Besides(p, bs, n, gs, b) /\ Steady(p, n, b)
  <2>1. gs = Put(bs, p.at[b], y) /\ w = Live(kind, said) /\ y = Live(kind, said \o text)
    OBVIOUS
  <2>. HIDE DEF gs
  <2>. QED BY ONLY <1>2, <1>3, <2>1, SeatDelta
<1>. HIDE DEF gs
<1>5. Besides(m, bs, n, gs, b)
  BY <1>2, <1>4, BesidesBoth
<1>6. (Over1(n, b) <=> Over1(m, b)) /\ Raw(n, b) = Raw(m, b) \o text
  BY <1>2, <1>4 DEF Steady, all
<1>. QED BY <1>4, <1>5, <1>6 DEF Gathered

\* The text, replaced; and the signature.
LEMMA SeatRetells ==
  ASSUME NEW v, NEW m, NEW bs, NEW b, NEW c, NEW w, Seat(v, m, bs, b, c, w), IsBlock(c),
         NEW text, NEW n, n = [m EXCEPT !.content[m.at[b]].text = text]
  PROVE  /\ Seat(v, n, bs, b, Retold(c, text), w) /\ Besides(m, bs, n, bs, b)
         /\ Steady(m, n, b)
<1>1. m.content[m.at[b]] = c
  BY SeatFacts
<1>2. Reblocked(m, n, m.at[b], Retold(c, text))
  BY <1>1, Zenon DEF Reblocked, Retold
<1>3. DOMAIN Retold(c, text) = BlockFields /\ Retold(c, text).kind = c.kind
  BY BlockEdits DEF IsBlock
<1>. QED BY ONLY <1>2, <1>3, Seat(v, m, bs, b, c, w), SeatRewrites

LEMMA SeatResigns ==
  ASSUME NEW v, NEW m, NEW bs, NEW b, NEW c, NEW w, Seat(v, m, bs, b, c, w), IsBlock(c),
         NEW sig, NEW n, n = [m EXCEPT !.content[m.at[b]].sig = sig]
  PROVE  /\ Seat(v, n, bs, b, Resigned(c, sig), w) /\ Besides(m, bs, n, bs, b)
         /\ Steady(m, n, b)
<1>1. m.content[m.at[b]] = c
  BY SeatFacts
<1>2. Reblocked(m, n, m.at[b], Resigned(c, sig))
  BY <1>1, Zenon DEF Reblocked, Resigned
<1>3. DOMAIN Resigned(c, sig) = BlockFields /\ Resigned(c, sig).kind = c.kind
  BY BlockEdits DEF IsBlock
<1>. QED BY ONLY <1>2, <1>3, Seat(v, m, bs, b, c, w), SeatRewrites

LEMMA SeatParses ==
  ASSUME NEW v, NEW m, NEW bs, NEW b, NEW c, NEW w, Seat(v, m, bs, b, c, w), IsBlock(c),
         NEW raw, NEW n, n = Parse(m, m.at[b], raw), NEW x, x = Parsed(c, raw)
  PROVE  /\ Seat(v, n, bs, b, x, w) /\ Besides(m, bs, n, bs, b) /\ Steady(m, n, b)
         /\ Parsing(c, x, raw)
<1>1. m.content[m.at[b]] = c /\ m.at[b] \in DOMAIN m.content
  BY SeatFacts
<1>2. Reblocked(m, n, m.at[b], x)
  BY <1>1, Zenon DEF Parse, Reblocked
<1>3. Parsing(c, x, raw)
  BY ParsingIs
<1>4. DOMAIN x = BlockFields /\ x.kind = c.kind
  BY <1>3 DEF Parsing, IsBlock
<1>5. Seat(v, n, bs, b, x, w) /\ Besides(m, bs, n, bs, b) /\ Steady(m, n, b)
  BY ONLY <1>2, <1>4, Seat(v, m, bs, b, c, w), SeatRewrites
<1>. QED BY <1>3, <1>5

\* What is said of an item when it begins.
LEMMA ItemBegins ==
  ASSUME NEW b, NEW s, s.open, NEW c, IsBlock(c), c.kind = s.kind, c.redacted = FALSE,
         s.kind # "text" => c.text = <<>>, NEW w, w = Live(s.kind, <<>>), NEW over, ~over,
         NEW raw,
         s.kind = "text" => /\ c.sig = <<b>> /\ c.id = <<>> /\ c.text = s.sent
                            /\ s.sent = s.first /\ s.first \in Seq(Seq(Nat)),
         s.kind = "thinking" => c.sig = s.sig /\ c.id = <<>> /\ s.sent = <<>>,
         s.kind = "tool" => ~s.whole /\ c.id = <<b, -b>> /\ c.sig = <<>> /\ raw = s.sent
  PROVE  Item(b, s, c, w, over, raw)
<1>1. ASSUME s.kind = "text" PROVE SpeaksText(b, s, c, w, over)
  <2>. DEFINE first == s.first
  <2>1. first \in Seq(Seq(Nat)) /\ s.sent = first
    BY <1>1
  <2>2. first = first \o <<>> /\ <<>> \in Seq(Seq(Nat))
    <3>. HIDE DEF first
    <3>. QED BY <2>1
  <2>3. s.sent = s.first \o <<>> /\ w = Live("text", <<>>)
    BY <1>1, <2>1, <2>2
  <2>4. HeardText(s, w)
    BY <2>2, <2>3 DEF HeardText
  <2>. QED BY <1>1, <2>4, Zenon DEF SpeaksText
<1>2. s.kind = "thinking" => SpeaksThought(b, s, c, w, over)
  BY Zenon DEF SpeaksThought
<1>3. s.kind = "tool" => SpeaksCall(b, s, c, w, over, raw)
  BY Zenon DEF SpeaksCall
<1>. QED BY <1>1, <1>2, <1>3, Zenon DEF Item

\* A new part of a message.
NewText(c, b, text) ==
  /\ IsBlock(c) /\ c.kind = "text" /\ c.id = <<>> /\ c.text = text
  /\ c.sig = <<b>> /\ c.redacted = FALSE
LEMMA NewTextIs ==
  ASSUME NEW b, NEW text
  PROVE  NewText(Responses!TextOf(b, text), b, text)
<1>. DEFINE c == Responses!TextOf(b, text)
            block == Block("text")
            sig == <<b>>
<1>1. Responses!Block("text") = block
  BY ResponsesShares
<1>2. c = [block EXCEPT !.text = text, !.sig = sig]
  <2>. HIDE DEF block
  <2>. QED BY <1>1, Zenon DEF Responses!TextOf
<1>3. /\ IsBlock(block) /\ block.kind = "text" /\ block.id = <<>> /\ block.redacted = FALSE
  BY NewBlockFields DEF Kinds
<1>. HIDE DEF block, sig, c
<1>4. /\ IsBlock(c) /\ c.kind = "text" /\ c.id = <<>> /\ c.text = text
      /\ c.sig = sig /\ c.redacted = FALSE
  BY <1>2, <1>3 DEF IsBlock, BlockFields
<1>. QED BY <1>4 DEF sig, c, NewText

\* How a block of a Responses reply begins.
BegunResponse(api, r, e, q) ==
  /\ Begun1(api, r, e, q) /\ q.blocks[e.b].open /\ e.head = TRUE
  /\ \/ e.type = "open" /\ (e.kind = "text" => e.text = <<>>)
     \/ e.type = "added" /\ e.kind = "text"
LEMMA BeginsResponse ==
  ASSUME NEW api, NEW r, IsReply(api, r), NEW e, NEW q, Begins(api, r, e, q),
         Superseded(api, r) = {}, api # "google", api = "responses"
  PROVE  BegunResponse(api, r, e, q)
<1>1. /\ Begun1(api, r, e, q) /\ q.blocks[e.b].open /\ e.head = TRUE
      /\ api = "responses" =>
           \/ e.type = "open" /\ (e.kind = "text" => e.text = <<>>)
           \/ e.type = "added" /\ e.kind = "text"
  BY BeginningIs, Zenon
<1>. QED BY <1>1 DEF BegunResponse

LEMMA ResponsesOpens ==
  ASSUME NEW r, IsReply("responses", r), NEW e, NEW q, Begins("responses", r, e, q),
         NEW v, NEW m, Recites(r, v, m)
  PROVE  \/ e.type = "open" /\ Recites(q, v, Responses!OnOutputItemAdded(m, e))
         \/ e.type = "added" /\ Recites(q, v, Responses!OnContentPartAdded(m, e))
<1>. DEFINE b == e.b
            s == q.blocks[b]
            n == Responses!OnOutputItemAdded(m, e)
<1>1. PICK bs : Recited(r, v, m, bs)
  BY DEF Recites
<1>2. /\ Telling(v, m, bs) /\ Seated(m, bs) /\ DOMAIN m.at \subseteq 1..Len(r.blocks)
  BY <1>1 DEF Recited
<1>3. /\ Begun1("responses", r, e, q) /\ s.open /\ e.head = TRUE
      /\ \/ e.type = "open" /\ (e.kind = "text" => e.text = <<>>)
         \/ e.type = "added" /\ e.kind = "text"
  <2>. DEFINE api == "responses"
  <2>0. Superseded("responses", r) = {}
    BY DEF Superseded
  <2>1. IsReply(api, r) /\ Begins(api, r, e, q) /\ api = "responses" /\ api # "google"
    OBVIOUS
  <2>. HIDE DEF api
  <2>2. Superseded(api, r) = {}
    BY ONLY <2>0, <2>1
  <2>3. BegunResponse(api, r, e, q)
    BY ONLY <2>1, <2>2, BeginsResponse
  <2>. QED BY <2>1, <2>3 DEF BegunResponse
<1>4. /\ b = Len(r.blocks) + 1 /\ Lengthens(r, q)
      /\ s.kind = e.kind /\ s.sent = e.text /\ s.first = e.text /\ s.sig = e.sig
      /\ e.kind \in Kinds \cup {"redacted"}
      /\ e.text \in Heads("responses", e.kind, e.b)
      /\ MayComeSigned("responses", e.kind, e.sig # <<>>)
      /\ MayBegin("responses", r, e.kind)
  BY <1>3 DEF Begun1
<1>5. s.first \in Seq(Seq(Nat))
  <2>1. IsSaid("responses", Len(r.blocks) + 1, q.blocks[Len(r.blocks) + 1])
    BY NewBlockIs
  <2>. QED BY <1>4, <2>1 DEF IsSaid
<1>6. s.whole = FALSE
  BY <1>4, Zenon DEF Begins
<1>7. e.kind \in Kinds
  BY <1>4 DEF MayBegin, Kinds
<1>8. Aside(r, q, b) /\ Len(r.blocks) \in Nat /\ b \in Nat /\ b \notin DOMAIN m.at
  <2>1. Len(r.blocks) \in Nat
    BY ReplyFacts
  <2>2. Aside(r, q, b)
    BY <1>4, AsideIs
  <2>. QED BY <1>2, <1>4, <2>1, <2>2
<1>9. s.kind = "thinking" => s.sent = <<>>
  BY <1>4 DEF Heads
<1>10. s.sig = <<>>
  <2>1. (e.sig # <<>>) = (e.kind = "redacted")
    BY <1>4 DEF MayComeSigned
  <2>. QED BY <1>4, <1>7, <2>1 DEF Kinds
<1>. HIDE DEF b, s
<1>11. CASE e.kind = "text" /\ e.type = "open"
  <2>1. n = m
    BY <1>11 DEF Responses!OnOutputItemAdded
  <2>2. Silent(q.blocks[b])
    BY <1>3, <1>4, <1>11 DEF Silent, s
  <2>. QED BY <1>1, <1>8, <1>11, <2>1, <2>2, ReciteQuiet
<1>111. CASE e.kind = "text" /\ e.type = "added"
  <2>. DEFINE text == e.text
              block == Responses!TextOf(b, text)
              w == Live(block.kind, <<>>)
              gs == Put(bs, Len(m.content) + 1, w)
              p == Responses!OnContentPartAdded(m, e)
  <2>1. p = Responses!AddItem(m, b, block)
    BY <1>8, Zenon DEF Responses!OnContentPartAdded, Responses!EnsureContentPartText,
                       Responses!Known, b
  <2>2. NewText(block, b, text)
    BY NewTextIs
  <2>. HIDE DEF block, p
  <2>3. /\ IsBlock(block) /\ block.kind = "text" /\ block.id = <<>> /\ block.text = text
        /\ block.sig = <<b>> /\ block.redacted = FALSE
    BY <2>2 DEF NewText
  <2>. HIDE DEF w, gs
  <2>4. /\ Seat(v, p, gs, b, block, w) /\ Besides(m, bs, p, gs, b) /\ ~Over1(p, b)
    BY <1>2, <1>8, <2>1, <2>3, SeatAdds DEF w, gs
  <2>. DEFINE over == Over1(p, b)
              raw == Raw(p, b)
  <2>5. w = Live(s.kind, <<>>) /\ ~over
    BY <1>4, <1>111, <2>3, <2>4 DEF w
  <2>. HIDE DEF over, raw
  <2>6. Item(b, s, block, w, over, raw)
    <3>1. s.kind = "text" /\ s.open /\ block.kind = s.kind /\ block.text = s.sent /\ s.sent = s.first
      BY <1>3, <1>4, <1>111, <2>3 DEF text
    <3>. QED BY <1>5, <2>3, <2>5, <3>1, ItemBegins
  <2>7. Recites(q, v, p)
    BY <1>1, <1>8, <2>4, <2>6, ReciteTurn DEF over, raw, s
  <2>. QED BY <1>111, <2>7 DEF p
<1>12. CASE e.kind = "thinking"
  <2>. DEFINE block == Block("thinking")
              w == Live(block.kind, <<>>)
              gs == Put(bs, Len(m.content) + 1, w)
  <2>1. n = Responses!AddItem(m, b, block)
    <3>1. Responses!Block("thinking") = block
      BY ResponsesShares
    <3>. HIDE DEF block
    <3>. QED BY <1>12, <3>1 DEF Responses!OnOutputItemAdded, b
  <2>2. /\ IsBlock(block) /\ block.kind = "thinking" /\ block.id = <<>>
        /\ block.text = <<>> /\ block.sig = <<>> /\ block.redacted = FALSE
    BY NewBlockFields DEF Kinds
  <2>. HIDE DEF block, n, w, gs
  <2>3. /\ Seat(v, n, gs, b, block, w) /\ Besides(m, bs, n, gs, b) /\ ~Over1(n, b)
    BY <1>2, <1>8, <2>1, <2>2, SeatAdds DEF w, gs
  <2>. DEFINE over == Over1(n, b)
              raw == Raw(n, b)
  <2>4. w = Live(s.kind, <<>>) /\ ~over
    BY <1>4, <1>12, <2>2, <2>3 DEF w
  <2>. HIDE DEF over, raw
  <2>5. Item(b, s, block, w, over, raw)
    <3>1. s.kind = "thinking" /\ s.open /\ s.sig = <<>> /\ s.sent = <<>>
      BY <1>3, <1>4, <1>9, <1>10, <1>12
    <3>2. block.kind = s.kind
      BY <2>2, <3>1
    <3>. QED BY <2>2, <2>4, <3>1, <3>2, ItemBegins
  <2>6. Recites(q, v, n)
    BY <1>1, <1>8, <2>3, <2>5, ReciteTurn DEF over, raw, s
  <2>. QED BY <1>3, <1>12, <2>6 DEF n
<1>13. CASE e.kind = "tool"
  <2>. DEFINE block == ToolBlock(<<b, -b>>)
              w == Live(block.kind, <<>>)
              gs == Put(bs, Len(m.content) + 1, w)
              p == Responses!AddItem(m, b, block)
  <2>1. n = IF e.text = <<>> THEN p ELSE [p EXCEPT !.buf = Put(p.buf, p.at[b], e.text)]
    <3>1. Responses!ToolBlock(Responses!JoinCallId(b)) = block
      BY ResponsesShares DEF Responses!JoinCallId
    <3>. HIDE DEF block
    <3>2. n = IF e.text = <<>> THEN p ELSE [p EXCEPT !.buf = Responses!Put(p.buf, p.at[b], e.text)]
      <4>. HIDE DEF p
      <4>. QED BY <1>13, <3>1 DEF Responses!OnOutputItemAdded, b, p
    <3>3. Responses!Put(p.buf, p.at[b], e.text) = Put(p.buf, p.at[b], e.text)
      BY ResponsesShares
    <3>. HIDE DEF p
    <3>. QED BY <3>2, <3>3
  <2>2. /\ IsBlock(block) /\ block.kind = "tool" /\ block.id = <<b, -b>>
        /\ block.text = <<>> /\ block.sig = <<>> /\ block.redacted = FALSE
    BY NewBlockFields
  <2>. HIDE DEF block, n, w, gs, p
  <2>3. /\ Seat(v, p, gs, b, block, w) /\ Besides(m, bs, p, gs, b) /\ ~Over1(p, b)
        /\ Raw(p, b) = <<>>
    BY <1>2, <1>8, <2>2, SeatAdds DEF w, gs, p
  <2>4. /\ Seat(v, n, gs, b, block, w) /\ Besides(m, bs, n, gs, b) /\ ~Over1(n, b)
        /\ Raw(n, b) = e.text
    <3>1. CASE e.text = <<>>
      BY <2>1, <2>3, <3>1
    <3>2. CASE e.text # <<>>
      <4>1. n = [p EXCEPT !.buf = Put(p.buf, p.at[b], e.text)]
        BY <2>1, <3>2
      <4>2. /\ Seat(v, n, gs, b, block, w) /\ Besides(p, gs, n, gs, b) /\ Raw(n, b) = e.text
            /\ (Over1(n, b) <=> Over1(p, b))
        <5>. DEFINE x == e.text
        <5>1. Seat(v, p, gs, b, block, w)
          BY <2>3
        <5>2. n = [p EXCEPT !.buf = Put(p.buf, p.at[b], x)]
          BY <4>1
        <5>. HIDE DEF x
        <5>3. /\ Seat(v, n, gs, b, block, w) /\ Besides(p, gs, n, gs, b) /\ Raw(n, b) = x
              /\ (Over1(n, b) <=> Over1(p, b))
          BY ONLY <5>1, <5>2, SeatBuffers
        <5>. QED BY <5>3 DEF x
      <4>3. Besides(m, bs, n, gs, b)
        BY <2>3, <4>2, BesidesBoth
      <4>. QED BY <2>3, <4>2, <4>3
    <3>. QED BY <3>1, <3>2
  <2>. DEFINE over == Over1(n, b)
              raw == Raw(n, b)
  <2>5. w = Live(s.kind, <<>>) /\ ~over
    BY <1>4, <1>13, <2>2, <2>4 DEF w
  <2>51. raw = s.sent
    BY <1>4, <2>4
  <2>. HIDE DEF over, raw
  <2>6. Item(b, s, block, w, over, raw)
    <3>1. s.kind = "tool" /\ s.open /\ ~s.whole
      BY <1>3, <1>4, <1>6, <1>13
    <3>2. block.kind = s.kind
      BY <2>2, <3>1
    <3>. QED BY <2>2, <2>5, <2>51, <3>1, <3>2, ItemBegins
  <2>7. Recites(q, v, n)
    BY <1>1, <1>8, <2>4, <2>6, ReciteTurn DEF over, raw, s
  <2>. QED BY <1>3, <1>13, <2>7 DEF n
<1>. QED BY <1>3, <1>7, <1>11, <1>111, <1>12, <1>13 DEF Kinds

LEMMA AsideSame ==
  ASSUME NEW api, NEW r, IsReply(api, r), NEW b \in 1..Len(r.blocks)
  PROVE  Aside(r, r, b)
<1>1. \A k \in 1..Len(r.blocks) : Same(r, r, k)
  BY Unchanging
<1>2. Len(r.blocks) \in Nat
  BY ReplyFacts
<1>. QED BY <1>1, <1>2 DEF Aside

\* A text that is heard of for the first time is announced.
Ensured(m, b) ==
  IF b \in DOMAIN m.at THEN m
  ELSE Responses!AddItem(m, b, Responses!TextOf(b, <<>>))
LEMMA EnsuredText ==
  ASSUME NEW r, IsReply("responses", r), NEW v, NEW m, Recites(r, v, m),
         NEW b \in 1..Len(r.blocks), r.blocks[b].kind = "text", r.blocks[b].open,
         NEW n, n = Ensured(m, b)
  PROVE  Recites(r, v, n) /\ b \in DOMAIN n.at
<1>1. CASE b \in DOMAIN m.at
  BY <1>1 DEF Ensured
<1>2. CASE b \notin DOMAIN m.at
  <2>1. PICK bs : Recited(r, v, m, bs)
    BY DEF Recites
  <2>2. /\ Telling(v, m, bs) /\ Seated(m, bs) /\ HeardOf(r, m, bs, b)
    BY <2>1 DEF Recited
  <2>. DEFINE s == r.blocks[b]
              none == <<>>
              block == Responses!TextOf(b, none)
              w == Live(block.kind, <<>>)
              gs == Put(bs, Len(m.content) + 1, w)
  <2>3. n = Responses!AddItem(m, b, block)
    BY <1>2 DEF Ensured
  <2>. HIDE DEF none
  <2>31. NewText(block, b, none)
    BY NewTextIs
  <2>. HIDE DEF block
  <2>4. /\ IsBlock(block) /\ block.kind = "text" /\ block.id = <<>> /\ block.text = none
        /\ block.sig = <<b>> /\ block.redacted = FALSE
    BY <2>31 DEF NewText
  <2>5. s.kind = "text" /\ s.open /\ s.sent = <<>> /\ s.first = <<>>
    BY <1>2, <2>2 DEF HeardOf, Silent
  <2>6. b \in Nat
    BY ReplyFacts
  <2>. HIDE DEF w, gs, s
  <2>7. /\ Seat(v, n, gs, b, block, w) /\ Besides(m, bs, n, gs, b) /\ ~Over1(n, b)
    BY <1>2, <2>2, <2>3, <2>4, <2>6, SeatAdds DEF w, gs
  <2>. DEFINE over == Over1(n, b)
              raw == Raw(n, b)
  <2>8. w = Live(s.kind, <<>>) /\ ~over
    BY <2>4, <2>5, <2>7 DEF w
  <2>. HIDE DEF over, raw
  <2>9. Item(b, s, block, w, over, raw)
    <3>1. block.kind = s.kind /\ block.text = s.sent /\ s.sent = s.first
      BY <2>4, <2>5 DEF none
    <3>2. s.first \in Seq(Seq(Nat))
      BY <2>5
    <3>. QED BY <2>4, <2>5, <2>8, <3>1, <3>2, ItemBegins
  <2>10. Aside(r, r, b)
    BY AsideSame
  <2>11. Recites(r, v, n)
    BY <2>1, <2>7, <2>9, <2>10, ReciteTurn DEF over, raw, s
  <2>12. b \in DOMAIN n.at
    BY <2>7 DEF Seat
  <2>. QED BY <2>11, <2>12
<1>. QED BY <1>1, <1>2

\* Every other block was heard of.
LEMMA HeardOfIs ==
  ASSUME NEW r, NEW v, NEW m, Recites(r, v, m), NEW b \in 1..Len(r.blocks),
         r.blocks[b].kind # "text"
  PROVE  b \in DOMAIN m.at
BY DEF Recites, Recited, HeardOf, Silent

\* A fragment.
LEMMA ItemGrows ==
  ASSUME NEW b, NEW s, NEW t, NEW text, LongerBy(s, t, text), text # <<>>,
         s.sent \in Seq(Seq(Nat)), s.first \in Seq(Seq(Nat)), t.first = s.first,
         text \in Seq(Seq(Nat)),
         s.kind \in Prose, t.whole = s.whole, ~s.whole, NEW c, NEW w, NEW over, NEW raw,
         Item(b, s, c, w, over, raw), NEW x, x = Retold(c, c.text \o text)
  PROVE  \E said \in Seq(Seq(Nat)) :
            w = Live(s.kind, said) /\ Item(b, t, x, Live(s.kind, said \o text), over, raw)
<1>1. /\ s.open /\ t.open /\ t.kind = s.kind /\ t.sig = s.sig /\ t.sent = s.sent \o text
      /\ s.kind # "tool"
  BY DEF LongerBy, Prose
<1>2. /\ IsBlock(x) /\ x.kind = c.kind /\ x.text = c.text \o text /\ x.sig = c.sig
      /\ x.id = c.id /\ x.redacted = c.redacted
  <2>1. IsBlock(c)
    BY DEF Item
  <2>. DEFINE all == c.text \o text
  <2>2. x = Retold(c, all)
    OBVIOUS
  <2>. HIDE DEF all
  <2>3. /\ IsBlock(x) /\ x.kind = c.kind /\ x.text = all /\ x.sig = c.sig
        /\ x.id = c.id /\ x.redacted = c.redacted
    BY ONLY <2>1, <2>2, BlockEdits
  <2>. QED BY <2>3 DEF all
<1>3. t.sent # <<>>
  BY <1>1
<1>4. CASE s.kind = "text"
  <2>1. SpeaksText(b, s, c, w, over)
    BY <1>4 DEF Item
  <2>2. ~over /\ HeardText(s, w) /\ c.text = s.sent /\ c.sig = <<b>> /\ c.id = <<>>
    BY <1>1, <2>1 DEF SpeaksText
  <2>3. PICK said \in Seq(Seq(Nat)) : w = Live("text", said) /\ s.sent = s.first \o said
    BY <2>2 DEF HeardText
  <2>. DEFINE first == s.first
              now == said \o text
              y == Live("text", now)
  <2>4. now \in Seq(Seq(Nat)) /\ (first \o said) \o text = first \o now
    <3>1. first \in Seq(Seq(Nat)) /\ said \in Seq(Seq(Nat)) /\ text \in Seq(Seq(Nat))
      OBVIOUS
    <3>. HIDE DEF first
    <3>. QED BY ONLY <3>1
  <2>5. t.sent = t.first \o now
    BY <1>1, <2>3, <2>4
  <2>6. HeardText(t, y)
    <3>. HIDE DEF now
    <3>. QED BY <2>4, <2>5 DEF HeardText
  <2>. HIDE DEF y, now
  <2>7. SpeaksText(b, t, x, y, over)
    BY <1>1, <1>2, <1>4, <2>2, <2>6, Zenon DEF SpeaksText
  <2>8. Item(b, t, x, y, over, raw)
    BY <1>1, <1>2, <1>4, <2>7, Zenon DEF Item
  <2>. QED BY <1>4, <2>3, <2>8 DEF y, now
<1>5. CASE s.kind = "thinking"
  <2>1. SpeaksThought(b, s, c, w, over)
    BY <1>5 DEF Item
  <2>2. ~over /\ w = Live("thinking", s.sent) /\ c.sig = s.sig /\ c.id = <<>>
    BY <1>1, <2>1 DEF SpeaksThought
  <2>. DEFINE y == Live("thinking", s.sent \o text)
  <2>3. y = Live("thinking", t.sent)
    BY <1>1
  <2>. HIDE DEF y
  <2>4. SpeaksThought(b, t, x, y, over)
    BY <1>1, <1>2, <1>3, <1>5, <2>2, <2>3, Zenon DEF SpeaksThought
  <2>5. Item(b, t, x, y, over, raw)
    BY <1>1, <1>2, <1>5, <2>4, Zenon DEF Item
  <2>. QED BY <1>5, <2>2, <2>5 DEF y
<1>. QED BY <1>4, <1>5 DEF Prose

\* A fragment, and that its block was not repeated before it.
LEMMA ResponsesGrowth ==
  ASSUME NEW r, IsReply("responses", r), NEW e, NEW q, Grows("responses", r, e, q)
  PROVE  /\ Grown(r, e, q) /\ e.b \in 1..Len(r.blocks)
         /\ ~r.blocks[e.b].whole /\ q.blocks[e.b].whole = r.blocks[e.b].whole
         /\ r.blocks[e.b].sent \in Seq(Seq(Nat)) /\ e.text \in Seq(Seq(Nat))
         /\ r.blocks[e.b].first \in Seq(Seq(Nat))
         /\ q.blocks[e.b].first = r.blocks[e.b].first
<1>1. Grown(r, e, q)
  BY GrowthIs
<1>2. PICK b \in 1..Len(r.blocks) :
        LET s == r.blocks[b]
            t == q.blocks[b]
            text == <<<<b, Len(s.sent) + 1>>>>
        IN /\ MayGrow(r, b)
           /\ e = Wire("frag", b, s.kind, text, s.sig, FALSE)
           /\ t.whole = s.whole /\ t.first = s.first
  BY Zenon DEF Grows, Changes
<1>3. e.b = b /\ e.text = <<<<b, Len(r.blocks[b].sent) + 1>>>>
  BY <1>2 DEF Wire
<1>4. ~r.blocks[b].whole
  BY <1>2 DEF MayGrow
<1>5. r.blocks[b].sent \in Seq(Seq(Nat)) /\ b \in Nat
  BY ReplyFacts
<1>6. e.text \in Seq(Seq(Nat))
  <2>. DEFINE len == Len(r.blocks[b].sent) + 1
              x == <<b, len>>
  <2>1. len \in Nat
    BY <1>5
  <2>. HIDE DEF len
  <2>2. x \in Seq(Nat)
    BY <1>5, <2>1
  <2>3. e.text = <<x>>
    BY <1>3 DEF len
  <2>. HIDE DEF x
  <2>. QED BY <2>2, <2>3
<1>7. r.blocks[b].first \in Seq(Seq(Nat))
  BY DEF IsReply, IsSaid
<1>. QED BY <1>1, <1>2, <1>3, <1>4, <1>5, <1>6, <1>7

\* A fragment of prose that was heard of.
LEMMA ProseHeard ==
  ASSUME NEW r, IsReply("responses", r), NEW q, NEW v, NEW m, Recites(r, v, m), NEW b,
         Touches(r, q, b), NEW text, LongerBy(r.blocks[b], q.blocks[b], text), text # <<>>,
         r.blocks[b].sent \in Seq(Seq(Nat)), text \in Seq(Seq(Nat)),
         r.blocks[b].first \in Seq(Seq(Nat)), q.blocks[b].first = r.blocks[b].first,
         NEW kind, r.blocks[b].kind = kind, kind \in Prose, ~r.blocks[b].whole,
         q.blocks[b].whole = r.blocks[b].whole, b \in DOMAIN m.at, NEW n,
         n = Emit(Extend(m, m.at[b], kind, text), Delta(m.at[b], kind, text))
  PROVE  Recites(q, v, n)
<1>. DEFINE s == r.blocks[b]
            t == q.blocks[b]
            c == m.content[m.at[b]]
            x == Retold(c, c.text \o text)
<1>1. PICK bs : Recited(r, v, m, bs)
  BY DEF Recites
<1>2. b \in 1..Len(r.blocks) /\ Aside(r, q, b)
  BY AsideIs DEF Touches
<1>. DEFINE w == bs[m.at[b]]
            over == Over1(m, b)
            raw == Raw(m, b)
<1>3. Seat(v, m, bs, b, c, w) /\ Item(b, s, c, w, over, raw)
  BY <1>1, <1>2, RecitedSeat
<1>4. /\ LongerBy(s, t, text) /\ s.sent \in Seq(Seq(Nat)) /\ s.kind = kind /\ ~s.whole
      /\ t.whole = s.whole /\ x = Retold(c, c.text \o text) /\ s.kind \in Prose
      /\ s.first \in Seq(Seq(Nat)) /\ t.first = s.first
  OBVIOUS
<1>. HIDE DEF s, t, c, x, w, over, raw
<1>41. PICK said \in Seq(Seq(Nat)) :
         w = Live(kind, said) /\ Item(b, t, x, Live(kind, said \o text), over, raw)
  BY <1>3, <1>4, ItemGrows
<1>. DEFINE y == Live(kind, said \o text)
<1>5. Item(b, t, x, y, over, raw) /\ w = Live(kind, said) /\ y = Live(kind, said \o text)
  BY <1>41
<1>. HIDE DEF y
<1>6. IsBlock(c) /\ c.kind = kind
  BY <1>3, <1>4, Zenon DEF Item
<1>7. PICK gs : /\ Seat(v, n, gs, b, x, y) /\ Besides(m, bs, n, gs, b)
                /\ (Over1(n, b) <=> Over1(m, b)) /\ Raw(n, b) = Raw(m, b)
  <2>1. n = Emit(Extend(m, m.at[b], kind, text), Delta(m.at[b], kind, text))
    OBVIOUS
  <2>2. Seat(v, m, bs, b, c, w) /\ x = Retold(c, c.text \o text)
    BY <1>3, <1>4
  <2>3. w = Live(kind, said) /\ y = Live(kind, said \o text)
    BY <1>5
  <2>. QED BY ONLY <1>6, <2>1, <2>2, <2>3, SeatGrows
<1>. DEFINE after == Over1(n, b)
            left == Raw(n, b)
<1>8. (over <=> after) /\ left = raw
  BY <1>7 DEF over, raw
<1>. HIDE DEF after, left
<1>9. Item(b, t, x, y, after, left)
  BY <1>5, <1>8, ItemOver
<1>. QED BY <1>1, <1>2, <1>7, <1>9, ReciteTurn DEF after, left, t

\* A fragment of arguments.
LEMMA CallHeard ==
  ASSUME NEW r, IsReply("responses", r), NEW q, NEW v, NEW m, Recites(r, v, m), NEW b,
         Touches(r, q, b), NEW text, LongerBy(r.blocks[b], q.blocks[b], text),
         r.blocks[b].kind = "tool", ~r.blocks[b].whole,
         q.blocks[b].whole = r.blocks[b].whole, b \in DOMAIN m.at, NEW n,
         n = Emit(Collect(m, m.at[b], text), Delta(m.at[b], "tool", text))
  PROVE  Recites(q, v, n)
<1>. DEFINE s == r.blocks[b]
            t == q.blocks[b]
            c == m.content[m.at[b]]
            kind == "tool"
<1>1. PICK bs : Recited(r, v, m, bs)
  BY DEF Recites
<1>2. b \in 1..Len(r.blocks) /\ Aside(r, q, b)
  BY AsideIs DEF Touches
<1>. DEFINE w == bs[m.at[b]]
            over == Over1(m, b)
            raw == Raw(m, b)
<1>3. Seat(v, m, bs, b, c, w) /\ Item(b, s, c, w, over, raw)
  BY <1>1, <1>2, RecitedSeat
<1>4. /\ LongerBy(s, t, text) /\ s.kind = "tool" /\ ~s.whole /\ t.whole = s.whole
  OBVIOUS
<1>. HIDE DEF s, t, c, w, over, raw
<1>5. /\ IsBlock(c) /\ c.kind = "tool" /\ c.redacted = FALSE
      /\ SpeaksCall(b, s, c, w, over, raw)
  BY <1>3, <1>4 DEF Item
<1>6. /\ s.open /\ t.open /\ t.kind = "tool" /\ t.sent = s.sent \o text
  BY <1>4 DEF LongerBy
<1>61. PICK said : w = Live("tool", said)
  BY <1>5, <1>6 DEF SpeaksCall
<1>. DEFINE y == Live(kind, said \o text)
<1>62. n = Emit(Collect(m, m.at[b], text), Delta(m.at[b], kind, text)) /\ w = Live(kind, said)
  BY <1>61
<1>. HIDE DEF kind
<1>63. y = Live(kind, said \o text)
  OBVIOUS
<1>. HIDE DEF y
<1>64. PICK gs : Gathered(v, m, bs, b, c, text, n, gs, y)
  <2>1. Seat(v, m, bs, b, c, w)
    BY <1>3
  <2>2. n = Emit(Collect(m, m.at[b], text), Delta(m.at[b], kind, text))
    BY <1>62
  <2>3. w = Live(kind, said)
    BY <1>62
  <2>. QED BY ONLY <1>63, <2>1, <2>2, <2>3, SeatCollects
<1>7. /\ Seat(v, n, gs, b, c, y) /\ Besides(m, bs, n, gs, b)
      /\ (Over1(n, b) <=> Over1(m, b)) /\ Raw(n, b) = Raw(m, b) \o text
  BY <1>64 DEF Gathered
<1>. DEFINE after == Over1(n, b)
            left == Raw(n, b)
<1>8. ~after /\ left = t.sent
  BY <1>5, <1>6, <1>7 DEF SpeaksCall, over, raw
<1>. HIDE DEF after, left
<1>9. SpeaksCall(b, t, c, y, after, left)
  <2>1. y = Live("tool", said \o text)
    BY DEF y, kind
  <2>. QED BY <1>4, <1>5, <1>6, <1>8, <2>1 DEF SpeaksCall
<1>10. Item(b, t, c, y, after, left)
  BY <1>5, <1>6, <1>9 DEF Item
<1>. QED BY <1>1, <1>2, <1>7, <1>10, ReciteTurn DEF after, left, t

LEMMA ResponsesGrows ==
  ASSUME NEW r, IsReply("responses", r), NEW e, NEW q, Grows("responses", r, e, q),
         NEW v, NEW m, Recites(r, v, m)
  PROVE  e.type = "frag" /\ Recites(q, v, Responses!OnDelta(m, e))
<1>. DEFINE b == e.b
            n == Responses!OnDelta(m, e)
<1>1. /\ Grown(r, e, q) /\ e.b \in 1..Len(r.blocks)
      /\ ~r.blocks[e.b].whole /\ q.blocks[e.b].whole = r.blocks[e.b].whole
      /\ r.blocks[e.b].sent \in Seq(Seq(Nat)) /\ e.text \in Seq(Seq(Nat))
      /\ r.blocks[e.b].first \in Seq(Seq(Nat)) /\ q.blocks[e.b].first = r.blocks[e.b].first
  BY ResponsesGrowth
<1>2. /\ Touches(r, q, b) /\ LongerBy(r.blocks[b], q.blocks[b], e.text)
      /\ e.kind = r.blocks[b].kind /\ e.kind \in Kinds /\ e.type = "frag" /\ e.text # <<>>
      /\ r.blocks[b].open
  BY <1>1 DEF Grown, LongerBy
<1>3. CASE e.kind = "text"
  <2>. DEFINE p == Ensured(m, b)
              kind == "text"
  <2>1. Recites(r, v, p) /\ b \in DOMAIN p.at
    BY <1>1, <1>2, <1>3, EnsuredText
  <2>2. Responses!EnsureContentPartText(m, e, <<>>) = p
    BY Zenon DEF Responses!EnsureContentPartText, Responses!Known, Ensured
  <2>3. n = Responses!OnTextDelta(m, e)
    BY <1>3 DEF Responses!OnDelta
  <2>. HIDE DEF p, n
  <2>4. ~Over1(p, b) /\ Is(p, p.at[b], "text")
    <3>1. PICK bs : Recited(r, v, p, bs)
      BY <2>1 DEF Recites
    <3>. DEFINE c == p.content[p.at[b]]
                w == bs[p.at[b]]
                over == Over1(p, b)
                raw == Raw(p, b)
    <3>2. Seat(v, p, bs, b, c, w) /\ Item(b, r.blocks[b], c, w, over, raw)
      BY <1>1, <2>1, <3>1, RecitedSeat
    <3>. HIDE DEF c, w, over, raw
    <3>3. c.kind = "text" /\ ~over
      BY <1>1, <1>2, <1>3, <3>2 DEF Item, SpeaksText
    <3>4. Is(p, p.at[b], "text")
      BY <3>2, <3>3, SeatFacts
    <3>. QED BY <3>3, <3>4 DEF over
  <2>5. n = Emit(Extend(p, p.at[b], kind, e.text), Delta(p.at[b], kind, e.text))
    <3>1. n = Responses!Emit(Responses!Extend(p, p.at[b], "text", e.text),
                             Responses!Delta(p.at[b], "text", e.text))
      <4>1. p.at[e.b] \notin p.ended /\ Responses!Is(p, p.at[e.b], "text")
        BY <2>4, ResponsesShares DEF Over1
      <4>. QED BY <2>2, <2>3, <4>1, Zenon DEF Responses!OnTextDelta
    <3>. QED BY <3>1, ResponsesShares
  <2>6. r.blocks[b].kind = kind /\ kind \in Prose
    BY <1>2, <1>3 DEF Prose
  <2>. HIDE DEF kind
  <2>7. Recites(q, v, n)
    BY ONLY IsReply("responses", r), <1>1, <1>2, <2>1, <2>5, <2>6, ProseHeard
  <2>. QED BY <1>2, <2>7 DEF n
<1>4. CASE e.kind = "thinking"
  <2>. DEFINE kind == "thinking"
  <2>1. b \in DOMAIN m.at
    BY <1>1, <1>2, <1>4, HeardOfIs
  <2>2. n = Responses!OnThinkingDelta(m, e)
    BY <1>4 DEF Responses!OnDelta
  <2>. HIDE DEF n
  <2>5. n = Emit(Extend(m, m.at[b], kind, e.text), Delta(m.at[b], kind, e.text))
    <3>1. n = Responses!Emit(Responses!Extend(m, m.at[b], "thinking", e.text),
                             Responses!Delta(m.at[b], "thinking", e.text))
      BY <2>1, <2>2, Zenon DEF Responses!OnThinkingDelta, Responses!Known
    <3>. QED BY <3>1, ResponsesShares
  <2>6. r.blocks[b].kind = kind /\ kind \in Prose
    BY <1>2, <1>4 DEF Prose
  <2>. HIDE DEF kind
  <2>7. Recites(q, v, n)
    BY ONLY IsReply("responses", r), Recites(r, v, m), <1>1, <1>2, <2>1, <2>5, <2>6, ProseHeard
  <2>. QED BY <1>2, <2>7 DEF n
<1>5. CASE e.kind = "tool"
  <2>1. b \in DOMAIN m.at
    BY <1>1, <1>2, <1>5, HeardOfIs
  <2>2. n = Responses!OnToolArgsDelta(m, e)
    BY <1>5 DEF Responses!OnDelta
  <2>. HIDE DEF n
  <2>5. n = Emit(Collect(m, m.at[b], e.text), Delta(m.at[b], "tool", e.text))
    <3>1. n = Responses!Emit(Responses!Collect(m, m.at[b], e.text),
                             Responses!Delta(m.at[b], "tool", e.text))
      BY <2>1, <2>2, Zenon DEF Responses!OnToolArgsDelta, Responses!Known
    <3>. QED BY <3>1, ResponsesShares
  <2>6. r.blocks[b].kind = "tool"
    BY <1>2, <1>5
  <2>7. Recites(q, v, n)
    BY ONLY IsReply("responses", r), Recites(r, v, m), <1>1, <1>2, <2>1, <2>5, <2>6, CallHeard
  <2>. QED BY <1>2, <2>7 DEF n
<1>. QED BY <1>2, <1>3, <1>4, <1>5 DEF Kinds

\* The block at b is over in the message and for the consumer.
Sealed(v, m, bs, b, n, gs, x, y) ==
  /\ Seat(v, n, gs, b, x, y) /\ Besides(m, bs, n, gs, b)
  /\ Over1(n, b) /\ Raw(n, b) = Raw(m, b)

LEMMA SeatFinishes ==
  ASSUME NEW v, NEW m, NEW bs, NEW b, NEW x, NEW w, Seat(v, m, bs, b, x, w),
         NEW y, y = Shut(x.kind, x.text), Over1(m, b) => w = y,
         ~Over1(m, b) => \E said : w = Live(x.kind, said),
         NEW n, n = Responses!EndOnce(m, m.at[b])
  PROVE  \E gs : Sealed(v, m, bs, b, n, gs, x, y)
<1>1. CASE Over1(m, b)
  <2>1. n = m
    BY <1>1 DEF Responses!EndOnce, Over1
  <2>2. Besides(m, bs, n, bs, b)
    BY <2>1, SeatFacts, BesidesNothing
  <2>3. Sealed(v, m, bs, b, n, bs, x, y)
    BY <1>1, <2>1, <2>2 DEF Sealed
  <2>. QED BY <2>3
<1>2. CASE ~Over1(m, b)
  <2>1. PICK said : w = Live(x.kind, said)
    BY <1>2
  <2>. DEFINE gs == Put(bs, m.at[b], y)
  <2>2. gs = Put(bs, m.at[b], y)
    OBVIOUS
  <2>. HIDE DEF gs
  <2>3. /\ Seat(v, n, gs, b, x, y) /\ Besides(m, bs, n, gs, b)
        /\ Over1(n, b) /\ Raw(n, b) = Raw(m, b)
    BY <1>2, <2>1, <2>2, SeatEnded
  <2>4. Sealed(v, m, bs, b, n, gs, x, y)
    BY <2>3 DEF Sealed
  <2>. QED BY <2>4
<1>. QED BY <1>1, <1>2

\* What is said of it then.
LEMMA ItemSealed ==
  ASSUME NEW b, NEW t, NEW x, IsBlock(x), x.kind = t.kind, x.redacted = FALSE,
         x.text = t.sent, NEW y, y = Shut(x.kind, x.text), NEW over, over, NEW raw,
         t.kind = "text" => /\ x.sig = <<b>> /\ x.id = <<>> /\ (t.whole \/ ~t.open)
                            /\ (~t.open => t.sig = <<b>>),
         t.kind = "thinking" => x.sig = t.sig /\ x.id = <<>> /\ ~t.open,
         t.kind = "tool" => x.id = <<b, -b>> /\ x.sig = <<>> /\ ~t.open
  PROVE  Item(b, t, x, y, over, raw)
<1>0. y = Shut(t.kind, t.sent)
  OBVIOUS
<1>1. t.kind = "text" => SpeaksText(b, t, x, y, over)
  BY <1>0, Zenon DEF SpeaksText
<1>2. t.kind = "thinking" => SpeaksThought(b, t, x, y, over)
  BY <1>0, Zenon DEF SpeaksThought
<1>3. t.kind = "tool" => SpeaksCall(b, t, x, y, over, raw)
  BY <1>0, Zenon DEF SpeaksCall
<1>. QED BY <1>1, <1>2, <1>3, Zenon DEF Item

\* The reply's block at b is over, and so is the loop's.
LEMMA ReciteSealed ==
  ASSUME NEW r, NEW q, NEW v, NEW m, NEW bs, Recited(r, v, m, bs), NEW b, Aside(r, q, b),
         NEW p, NEW hs, Besides(m, bs, p, hs, b), NEW x, NEW w, Seat(v, p, hs, b, x, w),
         NEW n, n = Responses!EndOnce(p, p.at[b]),
         IsBlock(x), x.kind = q.blocks[b].kind, x.redacted = FALSE, x.text = q.blocks[b].sent,
         Over1(p, b) => w = Shut(x.kind, x.text),
         ~Over1(p, b) => \E said : w = Live(x.kind, said),
         q.blocks[b].kind = "text" => /\ x.sig = <<b>> /\ x.id = <<>>
                                      /\ (q.blocks[b].whole \/ ~q.blocks[b].open)
                                      /\ (~q.blocks[b].open => q.blocks[b].sig = <<b>>),
         q.blocks[b].kind = "thinking" => /\ x.sig = q.blocks[b].sig /\ x.id = <<>>
                                          /\ ~q.blocks[b].open,
         q.blocks[b].kind = "tool" => x.id = <<b, -b>> /\ x.sig = <<>> /\ ~q.blocks[b].open
  PROVE  Recites(q, v, n)
<1>. DEFINE y == Shut(x.kind, x.text)
            t == q.blocks[b]
<1>0. /\ y = Shut(x.kind, x.text) /\ (Over1(p, b) => w = y)
      /\ (~Over1(p, b) => \E said : w = Live(x.kind, said))
  OBVIOUS
<1>01. /\ IsBlock(x) /\ x.kind = t.kind /\ x.redacted = FALSE /\ x.text = t.sent
       /\ (t.kind = "text" => /\ x.sig = <<b>> /\ x.id = <<>> /\ (t.whole \/ ~t.open)
                              /\ (~t.open => t.sig = <<b>>))
       /\ (t.kind = "thinking" => x.sig = t.sig /\ x.id = <<>> /\ ~t.open)
       /\ (t.kind = "tool" => x.id = <<b, -b>> /\ x.sig = <<>> /\ ~t.open)
  OBVIOUS
<1>02. y = Shut(x.kind, x.text)
  OBVIOUS
<1>. HIDE DEF y, t
<1>1. PICK gs : Sealed(v, p, hs, b, n, gs, x, y)
  BY <1>0, SeatFinishes
<1>2. Seat(v, n, gs, b, x, y) /\ Over1(n, b) /\ Besides(p, hs, n, gs, b)
  BY <1>1 DEF Sealed
<1>3. Besides(m, bs, n, gs, b)
  BY <1>2, BesidesBoth
<1>. DEFINE over == Over1(n, b)
            raw == Raw(n, b)
<1>4. over
  BY <1>2
<1>. HIDE DEF over, raw
<1>5. Item(b, t, x, y, over, raw)
  BY ONLY <1>01, <1>02, <1>4, ItemSealed
<1>. QED BY <1>2, <1>3, <1>5, ReciteTurn DEF over, raw, t

\* The whole of a block is said again.
Resays(r, e, q) ==
  LET s == r.blocks[e.b]
      t == q.blocks[e.b]
  IN /\ Touches(r, q, e.b) /\ e.type \in {"whole", "part"} /\ e.kind = s.kind
     /\ s.kind \in Kinds /\ s.open /\ ~s.whole
     /\ t.open /\ t.kind = s.kind /\ t.sent = s.sent /\ t.sig = s.sig /\ t.first = s.first
     /\ t.whole <=> s.kind # "thinking"
     /\ s.kind = "thinking" => s.sent # <<>>
     /\ s.kind # "thinking" => e.text = s.sent
LEMMA RetellingIs ==
  ASSUME NEW r, IsReply("responses", r), NEW e, NEW q, Repeats("responses", r, e, q)
  PROVE  Resays(r, e, q)
<1>1. PICK b \in 1..Len(r.blocks), type \in {"whole", "part"} :
        LET s == r.blocks[b]
            t == q.blocks[b]
            text == IF s.kind = "thinking" THEN <<s.sent[Len(s.sent)]>> ELSE s.sent
        IN /\ s.open /\ ~s.whole
           /\ s.kind = "thinking" => s.sent # <<>>
           /\ e = Wire(type, b, s.kind, text, <<>>, FALSE)
           /\ Changes(r, q, b, {})
           /\ t.sent = s.sent /\ t.sig = s.sig /\ t.open
           /\ t.whole = (s.kind # "thinking") /\ t.first = s.first
  BY Zenon DEF Repeats, Changes
<1>. DEFINE none == {}
<1>2. Changes(r, q, b, none) /\ \A k : k \notin none
  BY <1>1
<1>. HIDE DEF none
<1>3. Touches(r, q, b) /\ q.blocks[b].kind = r.blocks[b].kind
      /\ r.blocks[b].kind \in Kinds \cup {"redacted"}
  BY <1>2, ChangesTouch
<1>4. e.type = type /\ e.b = b /\ e.kind = r.blocks[b].kind
      /\ (r.blocks[b].kind # "thinking" => e.text = r.blocks[b].sent)
  BY <1>1 DEF Wire
<1>5. r.blocks[b].kind # "redacted"
  BY DEF IsReply, IsSaid
<1>6. e.type \in {"whole", "part"}
  BY <1>4
<1>7. r.blocks[b].kind \in Kinds
  BY <1>3, <1>5
<1>. QED BY <1>1, <1>3, <1>4, <1>6, <1>7, Zenon DEF Resays

\* The whole of a text that was heard of.
LEMMA TextWhole ==
  ASSUME NEW r, IsReply("responses", r), NEW e, NEW q, Resays(r, e, q), NEW b, b = e.b,
         r.blocks[b].kind = "text", NEW v, NEW m, Recites(r, v, m), b \in DOMAIN m.at,
         NEW text, text = r.blocks[b].sent,
         NEW n, n = Responses!EndTextContent(m, m.at[b], text)
  PROVE  Recites(q, v, n)
<1>. DEFINE c == m.content[m.at[b]]
            i == m.at[b]
            x == Retold(c, text)
            p == [m EXCEPT !.content[i].text = text]
<1>1. PICK bs : Recited(r, v, m, bs)
  BY DEF Recites
<1>2. /\ b \in 1..Len(r.blocks) /\ Aside(r, q, b) /\ r.blocks[b].open /\ ~r.blocks[b].whole
      /\ q.blocks[b].kind = "text" /\ q.blocks[b].sent = text
      /\ q.blocks[b].open /\ q.blocks[b].whole
  <2>1. Touches(r, q, b)
    BY DEF Resays
  <2>2. Aside(r, q, b)
    BY <2>1, AsideIs
  <2>. QED BY <2>1, <2>2 DEF Resays, Touches
<1>. DEFINE w == bs[m.at[b]]
            over == Over1(m, b)
            raw == Raw(m, b)
            s == r.blocks[b]
<1>3. Seat(v, m, bs, b, c, w) /\ Item(b, s, c, w, over, raw)
  BY <1>1, <1>2, RecitedSeat
<1>31. s.kind = "text" /\ s.open /\ ~s.whole /\ s.sent = text
  BY <1>2
<1>. HIDE DEF c, w, over, raw, s
<1>4. /\ IsBlock(c) /\ c.kind = "text" /\ c.redacted = FALSE /\ SpeaksText(b, s, c, w, over)
  BY <1>3, <1>31 DEF Item
<1>5. ~over /\ (\E said : w = Live("text", said)) /\ c.sig = <<b>> /\ c.id = <<>>
  BY <1>4, <1>31 DEF SpeaksText, HeardText
<1>6. Responses!Is(m, i, "text")
  BY <1>3, <1>4, SeatFacts, ResponsesShares
<1>7. n = Responses!EndOnce(p, i) /\ ~Over1(m, b)
  <2>1. i \notin m.ended
    BY <1>5 DEF over, Over1
  <2>. HIDE DEF i
  <2>. QED BY <1>5, <1>6, <2>1, Zenon DEF Responses!EndTextContent, over, i
<1>8. p = [m EXCEPT !.content[m.at[b]].text = text]
  OBVIOUS
<1>. HIDE DEF p
<1>9. /\ Seat(v, p, bs, b, x, w) /\ Besides(m, bs, p, bs, b) /\ Steady(m, p, b)
  BY <1>3, <1>4, <1>8, SeatRetells
<1>10. p.at[b] = i /\ ~Over1(p, b)
  BY <1>7, <1>9 DEF Steady
<1>11. /\ IsBlock(x) /\ x.text = text /\ x.kind = "text" /\ x.sig = <<b>> /\ x.id = <<>>
       /\ x.redacted = FALSE
  BY <1>4, <1>5, BlockEdits
<1>. HIDE DEF x, i
<1>12. n = Responses!EndOnce(p, p.at[b])
  BY <1>7, <1>10
<1>13. \E said : w = Live(x.kind, said)
  BY <1>5, <1>11
<1>14. /\ x.kind = q.blocks[b].kind /\ x.text = q.blocks[b].sent
       /\ (Over1(p, b) => w = Shut(x.kind, x.text))
       /\ (q.blocks[b].kind = "text" => /\ x.sig = <<b>> /\ x.id = <<>>
                                        /\ (q.blocks[b].whole \/ ~q.blocks[b].open)
                                        /\ (~q.blocks[b].open => q.blocks[b].sig = <<b>>))
       /\ q.blocks[b].kind # "thinking" /\ q.blocks[b].kind # "tool"
  BY <1>2, <1>10, <1>11
<1>15. IsBlock(x) /\ x.redacted = FALSE
  BY <1>11
<1>. QED BY ONLY <1>1, <1>2, <1>9, <1>12, <1>13, <1>14, <1>15, ReciteSealed

\* A text that was not heard of yet, and is empty, or was.
LEMMA TextResaid ==
  ASSUME NEW r, IsReply("responses", r), NEW e, NEW q, Resays(r, e, q), NEW b, b = e.b,
         r.blocks[b].kind = "text", NEW v, NEW m, Recites(r, v, m)
  PROVE  /\ Recites(q, v, Responses!OnContentPartDone(m, e))
         /\ Recites(q, v, Responses!OnTextDone(m, e))
<1>. DEFINE text == e.text
            p == Ensured(m, b)
            n == Responses!OnContentPartDone(m, e)
<1>1. /\ b \in 1..Len(r.blocks) /\ Aside(r, q, b) /\ r.blocks[b].open /\ text = r.blocks[b].sent
      /\ q.blocks[b].kind = "text" /\ q.blocks[b].sent = text /\ q.blocks[b].open
      /\ q.blocks[b].first = r.blocks[b].first
  <2>1. Touches(r, q, b)
    BY DEF Resays
  <2>2. Aside(r, q, b)
    BY <2>1, AsideIs
  <2>. QED BY <2>1, <2>2 DEF Resays, Touches
<1>2. Recites(r, v, p) /\ b \in DOMAIN p.at
  BY <1>1, EnsuredText
<1>3. b \notin DOMAIN m.at => text = <<>> /\ Silent(q.blocks[b])
  <2>1. PICK bs : Recited(r, v, m, bs)
    BY DEF Recites
  <2>2. HeardOf(r, m, bs, b)
    BY <1>1, <2>1 DEF Recited
  <2>. QED BY <1>1, <2>2 DEF HeardOf, Silent
<1>4. Responses!EnsureContentPartText(m, e, e.text) = p
  <2>1. CASE b \in DOMAIN m.at
    BY <2>1, Zenon DEF Responses!EnsureContentPartText, Responses!Known, Ensured
  <2>2. CASE b \notin DOMAIN m.at
    <3>1. e.text = <<>>
      BY <1>3, <2>2
    <3>. QED BY <2>2, <3>1, Zenon DEF Responses!EnsureContentPartText, Responses!Known, Ensured
  <2>. QED BY <2>1, <2>2
<1>. HIDE DEF text, p, n
<1>5. n = Responses!EndTextContent(p, p.at[b], text)
  BY <1>4, Zenon DEF Responses!OnContentPartDone, text, n
<1>6. Recites(q, v, n)
  BY <1>1, <1>2, <1>5, TextWhole
<1>7. CASE b \in DOMAIN m.at
  <2>. DEFINE o == Responses!EndTextContent(m, m.at[b], text)
  <2>1. Responses!OnTextDone(m, e) = o
    BY <1>7, Zenon DEF Responses!OnTextDone, Responses!Known, text
  <2>2. o = Responses!EndTextContent(m, m.at[b], text)
    OBVIOUS
  <2>. HIDE DEF o
  <2>3. Recites(q, v, o)
    BY <1>1, <1>7, <2>2, TextWhole
  <2>. QED BY <1>6, <2>1, <2>3 DEF n
<1>8. CASE b \notin DOMAIN m.at
  <2>1. Responses!OnTextDone(m, e) = m
    BY <1>8, Zenon DEF Responses!OnTextDone, Responses!Known
  <2>2. PICK bs : Recited(r, v, m, bs)
    BY DEF Recites
  <2>3. Recites(q, v, m)
    BY <1>1, <1>3, <1>8, <2>2, ReciteQuiet
  <2>. QED BY <1>6, <2>1, <2>3 DEF n
<1>. QED BY <1>7, <1>8

\* The last part of a summary takes the place of the thinking, until the item
\* comes.
LEMMA ThoughtResaid ==
  ASSUME NEW r, IsReply("responses", r), NEW e, NEW q, Resays(r, e, q), NEW b, b = e.b,
         r.blocks[b].kind = "thinking", NEW v, NEW m, Recites(r, v, m)
  PROVE  Recites(q, v, Responses!OnThinkingDone(m, e))
<1>. DEFINE c == m.content[m.at[b]]
            s == r.blocks[b]
            t == q.blocks[b]
            text == e.text
            x == Retold(c, text)
            n == [m EXCEPT !.content[m.at[b]].text = text]
<1>1. PICK bs : Recited(r, v, m, bs)
  BY DEF Recites
<1>2. /\ b \in 1..Len(r.blocks) /\ Aside(r, q, b) /\ s.open /\ s.kind = "thinking"
      /\ s.sent # <<>> /\ t.kind = "thinking" /\ t.sent = s.sent /\ t.sig = s.sig /\ t.open
  <2>1. Touches(r, q, b)
    BY DEF Resays
  <2>2. Aside(r, q, b)
    BY <2>1, AsideIs
  <2>. QED BY <2>1, <2>2 DEF Resays, Touches
<1>21. b \in DOMAIN m.at
  BY <1>2, HeardOfIs
<1>. DEFINE w == bs[m.at[b]]
            over == Over1(m, b)
            raw == Raw(m, b)
<1>3. Seat(v, m, bs, b, c, w) /\ Item(b, s, c, w, over, raw)
  BY <1>1, <1>2, <1>21, RecitedSeat
<1>31. n = [m EXCEPT !.content[m.at[b]].text = text]
  OBVIOUS
<1>. HIDE DEF c, w, over, raw, s, t, text, n
<1>4. /\ IsBlock(c) /\ c.kind = "thinking" /\ c.redacted = FALSE
      /\ SpeaksThought(b, s, c, w, over)
  BY <1>2, <1>3 DEF Item
<1>5. ~over /\ w = Live("thinking", s.sent) /\ c.sig = s.sig /\ c.id = <<>>
  BY <1>2, <1>4 DEF SpeaksThought
<1>6. Responses!Is(m, m.at[b], "thinking")
  BY <1>3, <1>4, SeatFacts, ResponsesShares
<1>7. Responses!OnThinkingDone(m, e) = n
  BY <1>6, <1>21, Zenon DEF Responses!OnThinkingDone, Responses!Known, n, text
<1>8. /\ Seat(v, n, bs, b, x, w) /\ Besides(m, bs, n, bs, b) /\ Steady(m, n, b)
  BY <1>3, <1>4, <1>31, SeatRetells
<1>. DEFINE after == Over1(n, b)
            left == Raw(n, b)
<1>9. ~after
  BY <1>5, <1>8 DEF Steady, over
<1>10. /\ IsBlock(x) /\ x.kind = "thinking" /\ x.sig = c.sig /\ x.id = <<>>
       /\ x.redacted = FALSE
  BY <1>4, <1>5, BlockEdits
<1>. HIDE DEF x, after, left
<1>11. SpeaksThought(b, t, x, w, after)
  BY <1>2, <1>5, <1>9, <1>10, Zenon DEF SpeaksThought
<1>12. Item(b, t, x, w, after, left)
  BY <1>2, <1>10, <1>11 DEF Item
<1>13. Recites(q, v, n)
  BY <1>1, <1>2, <1>8, <1>12, ReciteTurn DEF after, left, t
<1>. QED BY <1>7, <1>13

\* The whole of the arguments.
Buffered(m, n, b, x) == n = [m EXCEPT !.buf = Put(m.buf, m.at[b], x)]
LEMMA SeatTakes ==
  ASSUME NEW v, NEW m, NEW bs, NEW b, NEW c, NEW w, Seat(v, m, bs, b, c, w), NEW x, NEW n,
         Buffered(m, n, b, x)
  PROVE  /\ Seat(v, n, bs, b, c, w) /\ Besides(m, bs, n, bs, b)
         /\ Raw(n, b) = x /\ (Over1(n, b) <=> Over1(m, b)) /\ n.stop = m.stop /\ n.at = m.at
BY SeatBuffers DEF Buffered

LEMMA CallResaid ==
  ASSUME NEW r, IsReply("responses", r), NEW e, NEW q, Resays(r, e, q), NEW b, b = e.b,
         r.blocks[b].kind = "tool", NEW v, NEW m, Recites(r, v, m)
  PROVE  Recites(q, v, Responses!OnToolArgsDone(m, e))
<1>. DEFINE c == m.content[m.at[b]]
            s == r.blocks[b]
            t == q.blocks[b]
            text == e.text
            x == Parsed(c, text)
            p == [m EXCEPT !.buf = Put(m.buf, m.at[b], text)]
            n == Parse(p, p.at[b], text)
<1>1. PICK bs : Recited(r, v, m, bs)
  BY DEF Recites
<1>2. /\ b \in 1..Len(r.blocks) /\ Aside(r, q, b) /\ s.open /\ s.kind = "tool" /\ ~s.whole
      /\ t.kind = "tool" /\ t.sent = s.sent /\ t.sig = s.sig /\ t.open /\ t.whole
      /\ text = s.sent
  <2>1. Touches(r, q, b)
    BY DEF Resays
  <2>2. Aside(r, q, b)
    BY <2>1, AsideIs
  <2>. QED BY <2>1, <2>2 DEF Resays, Touches
<1>21. b \in DOMAIN m.at
  BY <1>2, HeardOfIs
<1>. DEFINE w == bs[m.at[b]]
            over == Over1(m, b)
            raw == Raw(m, b)
<1>3. Seat(v, m, bs, b, c, w) /\ Item(b, s, c, w, over, raw)
  BY <1>1, <1>2, <1>21, RecitedSeat
<1>31. p = [m EXCEPT !.buf = Put(m.buf, m.at[b], text)]
  OBVIOUS
<1>33. Buffered(m, p, b, text)
  BY DEF Buffered
<1>32. n = Parse(p, p.at[b], text) /\ x = Parsed(c, text)
  OBVIOUS
<1>. HIDE DEF c, w, over, raw, s, t, text, p, n, x
<1>4. /\ IsBlock(c) /\ c.kind = "tool" /\ c.redacted = FALSE
      /\ SpeaksCall(b, s, c, w, over, raw)
  BY <1>2, <1>3 DEF Item
<1>5. /\ ~over /\ c.text = <<>> /\ c.id = <<b, -b>> /\ c.sig = <<>>
      /\ \E said : w = Live("tool", said)
  BY <1>2, <1>4 DEF SpeaksCall
<1>6. /\ Seat(v, p, bs, b, c, w) /\ Besides(m, bs, p, bs, b) /\ p.at = m.at
      /\ Raw(p, b) = text /\ (Over1(p, b) <=> Over1(m, b))
  <2>1. Seat(v, m, bs, b, c, w)
    BY <1>3
  <2>. QED BY ONLY <1>33, <2>1, SeatTakes
<1>7. Responses!OnToolArgsDone(m, e) = n
  <2>1. /\ Responses!Put(m.buf, m.at[b], text) = Put(m.buf, m.at[b], text)
        /\ Responses!Parse(p, m.at[b], text) = Parse(p, m.at[b], text)
    BY ResponsesShares
  <2>2. Responses!OnToolArgsDone(m, e)
          = Responses!Parse([m EXCEPT !.buf = Responses!Put(m.buf, m.at[b], text)], m.at[b], text)
    BY <1>21, Zenon DEF Responses!OnToolArgsDone, Responses!Known, text
  <2>. QED BY <1>6, <1>31, <1>32, <2>1, <2>2
<1>8. /\ Seat(v, n, bs, b, x, w) /\ Besides(p, bs, n, bs, b) /\ Steady(p, n, b)
      /\ Parsing(c, x, text)
  BY <1>4, <1>6, <1>32, SeatParses
<1>81. Besides(m, bs, n, bs, b)
  BY <1>6, <1>8, BesidesBoth
<1>. DEFINE after == Over1(n, b)
            left == Raw(n, b)
<1>9. ~after /\ left = t.sent
  BY <1>2, <1>5, <1>6, <1>8 DEF Steady, over
<1>10. /\ IsBlock(x) /\ x.kind = "tool" /\ x.sig = <<>> /\ x.id = <<b, -b>>
       /\ x.redacted = FALSE /\ x.text = t.sent
  <2>1. CASE text = <<>>
    BY <1>2, <1>4, <1>5, <1>8, <2>1 DEF Parsing
  <2>2. CASE text # <<>>
    BY <1>2, <1>4, <1>5, <1>8, <2>2 DEF Parsing
  <2>. QED BY <2>1, <2>2
<1>. HIDE DEF after, left
<1>11. SpeaksCall(b, t, x, w, after, left)
  BY <1>2, <1>5, <1>9, <1>10, Zenon DEF SpeaksCall
<1>12. Item(b, t, x, w, after, left)
  BY <1>2, <1>10, <1>11 DEF Item
<1>13. Recites(q, v, n)
  BY <1>1, <1>2, <1>8, <1>81, <1>12, ReciteTurn DEF after, left, t
<1>. QED BY <1>7, <1>13

LEMMA ResponsesRepeats ==
  ASSUME NEW r, IsReply("responses", r), NEW e, NEW q, Repeats("responses", r, e, q),
         NEW v, NEW m, Recites(r, v, m)
  PROVE  e.type \in {"whole", "part"} /\ Recites(q, v, Responses!OnWhole(m, e))
<1>. DEFINE b == e.b
<1>1. Resays(r, e, q) /\ e.type \in {"whole", "part"}
      /\ e.kind = r.blocks[b].kind /\ e.kind \in Kinds
  BY RetellingIs DEF Resays
<1>2. CASE e.kind = "text"
  <2>1. \/ Responses!OnWhole(m, e) = Responses!OnContentPartDone(m, e)
        \/ Responses!OnWhole(m, e) = Responses!OnTextDone(m, e)
    BY <1>2 DEF Responses!OnWhole
  <2>2. /\ Recites(q, v, Responses!OnContentPartDone(m, e))
        /\ Recites(q, v, Responses!OnTextDone(m, e))
    BY <1>1, <1>2, TextResaid
  <2>. QED BY <1>1, <2>1, <2>2
<1>3. CASE e.kind = "thinking"
  <2>1. Responses!OnWhole(m, e) = Responses!OnThinkingDone(m, e)
    BY <1>3 DEF Responses!OnWhole
  <2>. QED BY <1>1, <1>3, <2>1, ThoughtResaid
<1>4. CASE e.kind = "tool"
  <2>1. Responses!OnWhole(m, e) = Responses!OnToolArgsDone(m, e)
    BY <1>4 DEF Responses!OnWhole
  <2>. QED BY <1>1, <1>4, <2>1, CallResaid
<1>. QED BY <1>1, <1>2, <1>3, <1>4 DEF Kinds

\* An item comes, and its block is closed.
Locks(r, e, q) ==
  LET s == r.blocks[e.b]
      t == q.blocks[e.b]
  IN /\ Touches(r, q, e.b) /\ e.type = "close" /\ e.kind = s.kind
     /\ s.kind \in Kinds /\ s.open /\ ~t.open /\ t.kind = s.kind /\ t.sent = s.sent
     /\ t.whole = s.whole /\ e.text = s.sent
     /\ s.kind # "tool" => t.sig = <<e.b>> /\ e.sig = <<e.b>>
LEMMA LockingIs ==
  ASSUME NEW r, IsReply("responses", r), NEW e, NEW q, Shuts("responses", r, e, q)
  PROVE  Locks(r, e, q)
<1>1. PICK b \in 1..Len(r.blocks) :
        LET s == r.blocks[b]
            t == q.blocks[b]
            sig == IF s.kind # "tool" THEN <<b>> ELSE s.sig
        IN /\ s.open
           /\ e = Wire("close", b, s.kind, s.sent, sig, FALSE)
           /\ Changes(r, q, b, {})
           /\ t.sent = s.sent /\ t.sig = sig /\ t.whole = s.whole /\ t.open = FALSE
  BY Zenon DEF Shuts
<1>. DEFINE none == {}
<1>2. Changes(r, q, b, none) /\ \A k : k \notin none
  BY <1>1
<1>. HIDE DEF none
<1>3. Touches(r, q, b) /\ q.blocks[b].kind = r.blocks[b].kind
      /\ r.blocks[b].kind \in Kinds \cup {"redacted"}
  BY <1>2, ChangesTouch
<1>4. /\ e.type = "close" /\ e.b = b /\ e.kind = r.blocks[b].kind
      /\ e.text = r.blocks[b].sent /\ (r.blocks[b].kind # "tool" => e.sig = <<b>>)
  BY <1>1 DEF Wire
<1>5. r.blocks[b].kind # "redacted"
  BY DEF IsReply, IsSaid
<1>7. r.blocks[b].kind \in Kinds
  BY <1>3, <1>5
<1>8. /\ r.blocks[b].open /\ ~q.blocks[b].open /\ q.blocks[b].sent = r.blocks[b].sent
      /\ q.blocks[b].whole = r.blocks[b].whole
      /\ (r.blocks[b].kind # "tool" => q.blocks[b].sig = <<b>>)
  BY <1>1
<1>. QED BY <1>3, <1>4, <1>7, <1>8, Zenon DEF Locks

LEMMA LocksAside ==
  ASSUME NEW r, IsReply("responses", r), NEW e, NEW q, Locks(r, e, q)
  PROVE  e.b \in 1..Len(r.blocks) /\ Aside(r, q, e.b)
<1>1. Touches(r, q, e.b)
  BY DEF Locks
<1>. QED BY <1>1, AsideIs DEF Touches

\* The text and the signature are exchanged.
Refilled(m, told, n, b, text, sig) ==
  /\ told = [m EXCEPT !.content[m.at[b]].text = text]
  /\ n = [told EXCEPT !.content[m.at[b]].sig = sig]
LEMMA SeatRefills ==
  ASSUME NEW v, NEW m, NEW bs, NEW b, NEW c, NEW w, Seat(v, m, bs, b, c, w), IsBlock(c),
         NEW text, NEW sig, NEW told, NEW n, Refilled(m, told, n, b, text, sig), NEW x, x = Resigned(Retold(c, text), sig)
  PROVE  /\ Seat(v, n, bs, b, x, w) /\ Besides(m, bs, n, bs, b) /\ n.at = m.at
         /\ (Over1(n, b) <=> Over1(m, b)) /\ Raw(n, b) = Raw(m, b)
         /\ IsBlock(x) /\ x.kind = c.kind /\ x.text = text /\ x.sig = sig /\ x.id = c.id
         /\ x.redacted = c.redacted
<1>. DEFINE y == Retold(c, text)
<1>0. /\ told = [m EXCEPT !.content[m.at[b]].text = text]
      /\ n = [told EXCEPT !.content[m.at[b]].sig = sig]
  BY DEF Refilled
<1>1. /\ Seat(v, told, bs, b, y, w) /\ Besides(m, bs, told, bs, b) /\ Steady(m, told, b)
  BY <1>0, SeatRetells
<1>2. /\ IsBlock(y) /\ y.kind = c.kind /\ y.text = text /\ y.id = c.id
      /\ y.redacted = c.redacted
  BY BlockEdits
<1>3. x = Resigned(y, sig)
  OBVIOUS
<1>. HIDE DEF y
<1>4. n = [told EXCEPT !.content[told.at[b]].sig = sig]
  BY <1>0, <1>1 DEF Steady
<1>5. /\ Seat(v, n, bs, b, Resigned(y, sig), w) /\ Besides(told, bs, n, bs, b)
      /\ Steady(told, n, b)
  BY ONLY <1>1, <1>2, <1>4, SeatResigns
<1>6. Besides(m, bs, n, bs, b)
  BY <1>1, <1>5, BesidesBoth
<1>7. /\ IsBlock(x) /\ x.kind = y.kind /\ x.text = y.text /\ x.sig = sig /\ x.id = y.id
      /\ x.redacted = y.redacted
  BY ONLY <1>2, <1>3, BlockEdits
<1>8. n.at = m.at /\ (Over1(n, b) <=> Over1(m, b)) /\ Raw(n, b) = Raw(m, b)
  BY <1>1, <1>5 DEF Steady
<1>. QED BY <1>2, <1>3, <1>5, <1>6, <1>7, <1>8

LEMMA TextLocked ==
  ASSUME NEW r, IsReply("responses", r), NEW e, NEW q, Locks(r, e, q), NEW b, b = e.b,
         r.blocks[b].kind = "text", NEW v, NEW m, Recites(r, v, m)
  PROVE  Recites(q, v, Responses!OnMessageItemDone(m, e))
<1>. DEFINE p == Ensured(m, e.b)
            i == p.at[e.b]
            text == e.text
            sig == <<e.b>>
            told == [p EXCEPT !.content[i].text = text]
            o == [told EXCEPT !.content[i].sig = sig]
            n == Responses!OnMessageItemDone(m, e)
            s == r.blocks[b]
            t == q.blocks[b]
<1>1. /\ b \in 1..Len(r.blocks) /\ Aside(r, q, b) /\ s.open /\ text = s.sent
      /\ s.kind = "text" /\ t.kind = "text" /\ t.sent = text /\ ~t.open /\ t.sig = sig
      /\ sig = <<b>>
  BY LocksAside DEF Locks
<1>2. Recites(r, v, p) /\ b \in DOMAIN p.at
  BY <1>1, EnsuredText
<1>3. PICK bs : Recited(r, v, p, bs)
  BY <1>2 DEF Recites
<1>. DEFINE c == p.content[p.at[b]]
            w == bs[p.at[b]]
            over == Over1(p, b)
            raw == Raw(p, b)
<1>4. Seat(v, p, bs, b, c, w) /\ Item(b, s, c, w, over, raw)
  <2>. HIDE DEF p
  <2>. QED BY <1>1, <1>2, <1>3, RecitedSeat
<1>5. n = IF ~Responses!Is(p, i, "text") THEN p ELSE Responses!EndOnce(o, i)
  BY Zenon DEF Responses!OnMessageItemDone, Ensured, Responses!Known
<1>6. Refilled(p, told, o, b, text, sig)
  BY DEF Refilled
<1>. HIDE DEF p, n, s, t, text, sig, c, w, over, raw, told, o
<1>7. /\ IsBlock(c) /\ c.kind = "text" /\ c.redacted = FALSE /\ SpeaksText(b, s, c, w, over)
  BY <1>1, <1>4 DEF Item
<1>8. /\ c.id = <<>> /\ (over => w = Shut("text", text))
      /\ (~over => \E said : w = Live("text", said))
  BY <1>1, <1>7 DEF SpeaksText, HeardText
<1>9. Is(p, i, "text")
  BY <1>4, <1>7, SeatFacts
<1>. DEFINE x == Resigned(Retold(c, text), sig)
<1>10. x = Resigned(Retold(c, text), sig)
  OBVIOUS
<1>. HIDE DEF x
<1>11. /\ Seat(v, o, bs, b, x, w) /\ Besides(p, bs, o, bs, b) /\ o.at = p.at
       /\ (Over1(o, b) <=> Over1(p, b)) /\ Raw(o, b) = Raw(p, b)
       /\ IsBlock(x) /\ x.kind = c.kind /\ x.text = text /\ x.sig = sig /\ x.id = c.id
       /\ x.redacted = c.redacted
  <2>1. Seat(v, p, bs, b, c, w)
    BY <1>4
  <2>2. IsBlock(c)
    BY <1>7
  <2>. QED BY ONLY <1>6, <1>10, <2>1, <2>2, SeatRefills
<1>12. n = Responses!EndOnce(o, o.at[b])
  <2>1. Responses!Is(p, i, "text")
    BY <1>9, ResponsesShares
  <2>. QED BY <1>5, <1>11, <2>1
<1>13. (~Over1(o, b) => \E said : w = Live(x.kind, said)) /\ (Over1(o, b) => w = Shut(x.kind, x.text))
  BY <1>7, <1>8, <1>11 DEF over
<1>14. /\ x.kind = q.blocks[b].kind /\ x.text = q.blocks[b].sent
       /\ (q.blocks[b].kind = "text" => /\ x.sig = <<b>> /\ x.id = <<>>
                                        /\ (q.blocks[b].whole \/ ~q.blocks[b].open)
                                        /\ (~q.blocks[b].open => q.blocks[b].sig = <<b>>))
       /\ q.blocks[b].kind # "thinking" /\ q.blocks[b].kind # "tool"
  BY <1>1, <1>7, <1>8, <1>11 DEF t
<1>15. IsBlock(x) /\ x.redacted = FALSE
  BY <1>7, <1>11
<1>16. Recites(q, v, n)
  BY ONLY <1>1, <1>3, <1>11, <1>12, <1>13, <1>14, <1>15, ReciteSealed
<1>. QED BY <1>16 DEF n

\* A reasoning item, whose text stands for the summary.
LEMMA ThoughtLocked ==
  ASSUME NEW r, IsReply("responses", r), NEW e, NEW q, Locks(r, e, q), NEW b, b = e.b,
         r.blocks[b].kind = "thinking", NEW v, NEW m, Recites(r, v, m)
  PROVE  Recites(q, v, Responses!OnReasoningItemDone(m, e))
<1>. DEFINE i == m.at[e.b]
            text == IF e.text = <<>> THEN m.content[i].text ELSE e.text
            sig == e.sig
            told == [m EXCEPT !.content[i].text = text]
            o == [told EXCEPT !.content[i].sig = sig]
            n == Responses!OnReasoningItemDone(m, e)
            s == r.blocks[b]
            t == q.blocks[b]
            c == m.content[m.at[b]]
<1>1. /\ b \in 1..Len(r.blocks) /\ Aside(r, q, b) /\ s.open /\ e.text = s.sent
      /\ s.kind = "thinking" /\ t.kind = "thinking" /\ t.sent = s.sent /\ ~t.open
      /\ t.sig = sig
  BY LocksAside DEF Locks
<1>2. b \in DOMAIN m.at
  BY <1>1, HeardOfIs
<1>3. PICK bs : Recited(r, v, m, bs)
  BY DEF Recites
<1>. DEFINE w == bs[m.at[b]]
            over == Over1(m, b)
            raw == Raw(m, b)
<1>4. Seat(v, m, bs, b, c, w) /\ Item(b, s, c, w, over, raw)
  BY <1>1, <1>2, <1>3, RecitedSeat
<1>5. n = IF ~Responses!Is(m, i, "thinking") THEN m ELSE Responses!EndOnce(o, i)
  BY Zenon DEF Responses!OnReasoningItemDone
<1>6. Refilled(m, told, o, b, text, sig)
  BY DEF Refilled
<1>61. text = IF e.text = <<>> THEN c.text ELSE e.text
  OBVIOUS
<1>. HIDE DEF n, s, t, text, sig, c, w, over, raw, told, o
<1>7. /\ IsBlock(c) /\ c.kind = "thinking" /\ c.redacted = FALSE
      /\ SpeaksThought(b, s, c, w, over)
  BY <1>1, <1>4 DEF Item
<1>8. /\ c.id = <<>> /\ ~over /\ w = Live("thinking", s.sent) /\ (s.sent = <<>> => c.text = <<>>)
  BY <1>1, <1>7 DEF SpeaksThought
<1>9. Is(m, i, "thinking") /\ text = s.sent
  BY <1>1, <1>4, <1>61, <1>7, <1>8, SeatFacts
<1>. DEFINE x == Resigned(Retold(c, text), sig)
<1>10. x = Resigned(Retold(c, text), sig)
  OBVIOUS
<1>. HIDE DEF x
<1>11. /\ Seat(v, o, bs, b, x, w) /\ Besides(m, bs, o, bs, b) /\ o.at = m.at
       /\ (Over1(o, b) <=> Over1(m, b)) /\ Raw(o, b) = Raw(m, b)
       /\ IsBlock(x) /\ x.kind = c.kind /\ x.text = text /\ x.sig = sig /\ x.id = c.id
       /\ x.redacted = c.redacted
  <2>1. Seat(v, m, bs, b, c, w)
    BY <1>4
  <2>2. IsBlock(c)
    BY <1>7
  <2>. QED BY ONLY <1>6, <1>10, <2>1, <2>2, SeatRefills
<1>12. n = Responses!EndOnce(o, o.at[b])
  <2>1. Responses!Is(m, i, "thinking")
    BY <1>9, ResponsesShares
  <2>. QED BY <1>5, <1>11, <2>1
<1>13. ~Over1(o, b) /\ \E said : w = Live(x.kind, said)
  BY <1>7, <1>8, <1>11 DEF over
<1>14. /\ x.kind = q.blocks[b].kind /\ x.text = q.blocks[b].sent
       /\ q.blocks[b].kind # "text" /\ q.blocks[b].kind # "tool"
       /\ x.sig = q.blocks[b].sig /\ x.id = <<>> /\ ~q.blocks[b].open
  BY <1>1, <1>7, <1>8, <1>9, <1>11 DEF t
<1>15. IsBlock(x) /\ x.redacted = FALSE
  BY <1>7, <1>11
<1>16. Recites(q, v, n)
  BY ONLY <1>1, <1>3, <1>11, <1>12, <1>13, <1>14, <1>15, ReciteSealed
<1>. QED BY <1>16 DEF n

\* A call: its arguments are those of the item, or those collected.
LEMMA CallLocked ==
  ASSUME NEW r, IsReply("responses", r), NEW e, NEW q, Locks(r, e, q), NEW b, b = e.b,
         r.blocks[b].kind = "tool", NEW v, NEW m, Recites(r, v, m)
  PROVE  Recites(q, v, Responses!OnFunctionItemDone(m, e))
<1>. DEFINE i == m.at[e.b]
            all == IF e.text = <<>> THEN Responses!Lookup(m.buf, i, <<>>) ELSE e.text
            p == Responses!Parse(m, i, all)
            n == Responses!OnFunctionItemDone(m, e)
            s == r.blocks[b]
            t == q.blocks[b]
            c == m.content[m.at[b]]
<1>1. /\ b \in 1..Len(r.blocks) /\ Aside(r, q, b) /\ s.open /\ e.text = s.sent
      /\ s.kind = "tool" /\ t.kind = "tool" /\ t.sent = s.sent /\ ~t.open
  BY LocksAside DEF Locks
<1>2. b \in DOMAIN m.at
  BY <1>1, HeardOfIs
<1>3. PICK bs : Recited(r, v, m, bs)
  BY DEF Recites
<1>. DEFINE w == bs[m.at[b]]
            over == Over1(m, b)
            raw == Raw(m, b)
<1>4. Seat(v, m, bs, b, c, w) /\ Item(b, s, c, w, over, raw)
  BY <1>1, <1>2, <1>3, RecitedSeat
<1>5. n = IF Responses!Is(p, i, "tool") THEN Responses!EndOnce(p, i) ELSE p
  BY Zenon DEF Responses!OnFunctionItemDone
<1>6. p = Parse(m, m.at[b], all)
  BY ResponsesShares
<1>61. all = IF e.text = <<>> THEN raw ELSE e.text
  BY ResponsesShares DEF Raw
<1>. HIDE DEF n, s, t, all, c, w, over, raw, p
<1>7. /\ IsBlock(c) /\ c.kind = "tool" /\ c.redacted = FALSE
      /\ SpeaksCall(b, s, c, w, over, raw)
  BY <1>1, <1>4 DEF Item
<1>8. /\ c.id = <<b, -b>> /\ c.sig = <<>> /\ ~over /\ raw = s.sent
      /\ (c.text = s.sent \/ c.text = <<>>) /\ \E said : w = Live("tool", said)
  BY <1>1, <1>7 DEF SpeaksCall
<1>9. all = s.sent
  BY <1>1, <1>61, <1>8
<1>. DEFINE x == Parsed(c, all)
<1>10. x = Parsed(c, all)
  OBVIOUS
<1>. HIDE DEF x
<1>11. /\ Seat(v, p, bs, b, x, w) /\ Besides(m, bs, p, bs, b) /\ Steady(m, p, b)
       /\ Parsing(c, x, all)
  <2>1. Seat(v, m, bs, b, c, w)
    BY <1>4
  <2>2. IsBlock(c)
    BY <1>7
  <2>. QED BY ONLY <1>6, <1>10, <2>1, <2>2, SeatParses
<1>12. /\ IsBlock(x) /\ x.kind = "tool" /\ x.id = <<b, -b>> /\ x.sig = <<>> /\ x.redacted = FALSE
       /\ x.text = s.sent
  <2>1. CASE all = <<>>
    BY <1>7, <1>8, <1>9, <1>11, <2>1 DEF Parsing
  <2>2. CASE all # <<>>
    BY <1>7, <1>8, <1>9, <1>11, <2>2 DEF Parsing
  <2>. QED BY <2>1, <2>2
<1>13. n = Responses!EndOnce(p, p.at[b])
  <2>1. p.at[b] = i
    BY <1>11 DEF Steady
  <2>2. Is(p, p.at[b], "tool")
    BY <1>11, <1>12, SeatFacts
  <2>3. Responses!Is(p, i, "tool")
    BY <2>1, <2>2, ResponsesShares
  <2>. QED BY <1>5, <2>1, <2>3
<1>14. ~Over1(p, b) /\ \E said : w = Live(x.kind, said)
  BY <1>8, <1>11, <1>12 DEF over, Steady
<1>15. /\ x.kind = q.blocks[b].kind /\ x.text = q.blocks[b].sent
       /\ q.blocks[b].kind # "text" /\ q.blocks[b].kind # "thinking"
       /\ x.id = <<b, -b>> /\ x.sig = <<>> /\ ~q.blocks[b].open
  BY <1>1, <1>12 DEF t
<1>16. IsBlock(x) /\ x.redacted = FALSE
  BY <1>12
<1>17. Recites(q, v, n)
  BY ONLY <1>1, <1>3, <1>11, <1>13, <1>14, <1>15, <1>16, ReciteSealed
<1>. QED BY <1>17 DEF n

LEMMA ResponsesShuts ==
  ASSUME NEW r, IsReply("responses", r), NEW e, NEW q, Shuts("responses", r, e, q),
         NEW v, NEW m, Recites(r, v, m)
  PROVE  e.type = "close" /\ Recites(q, v, Responses!OnOutputItemDone(m, e))
<1>. DEFINE b == e.b
<1>1. /\ Locks(r, e, q) /\ e.type = "close" /\ e.kind = r.blocks[b].kind /\ e.kind \in Kinds
      /\ b \in 1..Len(r.blocks)
  <2>1. Locks(r, e, q)
    BY LockingIs
  <2>. QED BY <2>1, LocksAside DEF Locks
<1>2. CASE e.kind = "text"
  <2>1. Responses!OnOutputItemDone(m, e) = Responses!OnMessageItemDone(m, e)
    BY <1>2 DEF Responses!OnOutputItemDone
  <2>. QED BY <1>1, <1>2, <2>1, TextLocked
<1>3. CASE e.kind = "thinking"
  <2>1. b \in DOMAIN m.at
    BY <1>1, <1>3, HeardOfIs
  <2>2. Responses!OnOutputItemDone(m, e) = Responses!OnReasoningItemDone(m, e)
    BY <1>3, <2>1 DEF Responses!OnOutputItemDone, Responses!Known
  <2>. QED BY <1>1, <1>3, <2>2, ThoughtLocked
<1>4. CASE e.kind = "tool"
  <2>1. b \in DOMAIN m.at
    BY <1>1, <1>4, HeardOfIs
  <2>2. Responses!OnOutputItemDone(m, e) = Responses!OnFunctionItemDone(m, e)
    BY <1>4, <2>1 DEF Responses!OnOutputItemDone, Responses!Known
  <2>. QED BY <1>1, <1>4, <2>2, CallLocked
<1>. QED BY <1>1, <1>2, <1>3, <1>4 DEF Kinds

\* A text that was never announced comes whole, and with it its block is over.
Tardy(r, e, q) ==
  LET t == q.blocks[e.b]
  IN /\ e.b = Len(r.blocks) + 1 /\ Lengthens(r, q) /\ e.type \in {"part", "close"}
     /\ e.kind = "text" /\ t.kind = "text" /\ t.sent = e.text /\ t.sig = <<e.b>> /\ ~t.open
LEMMA TardyIs ==
  ASSUME NEW r, IsReply("responses", r), NEW e, NEW q, ComesLate("responses", r, e, q)
  PROVE  Tardy(r, e, q)
<1>. DEFINE b == Len(r.blocks) + 1
            s == q.blocks[b]
            text == <<<<b, 1>>>>
<1>1. /\ \E type \in {"part", "close"} : e = Wire(type, b, "text", text, <<>>, TRUE)
      /\ Sizes(q, b)
      /\ \A c \in 1..Len(r.blocks) : q.blocks[c] = r.blocks[c]
      /\ s = [kind |-> "text", sent |-> text, first |-> <<>>, sig |-> <<b>>,
              whole |-> TRUE, open |-> FALSE, named |-> TRUE]
  BY Zenon DEF ComesLate
<1>2. e.b = b /\ e.kind = "text" /\ e.text = text /\ e.type \in {"part", "close"}
  BY <1>1 DEF Wire
<1>3. s.kind = "text" /\ s.sent = text /\ s.sig = <<b>> /\ ~s.open
  BY <1>1
<1>4. Lengthens(r, q)
  <2>1. Len(q.blocks) = b
    BY <1>1 DEF Sizes
  <2>2. \A c \in 1..Len(r.blocks) : Same(r, q, c)
    BY <1>1, ReplyFacts DEF Same, Alike
  <2>. QED BY <2>1, <2>2 DEF Lengthens
<1>. HIDE DEF s, text
<1>. QED BY <1>2, <1>3, <1>4 DEF Tardy, s

LEMMA TextTardy ==
  ASSUME NEW r, NEW e, NEW q, Tardy(r, e, q), NEW b, b = e.b, b \in Nat, Aside(r, q, b),
         NEW v, NEW m, NEW bs, Recited(r, v, m, bs), b \notin DOMAIN m.at,
         NEW began, NEW p, p = Responses!AddItem(m, b, Responses!TextOf(b, began))
  PROVE  \E c, w, hs : /\ Seat(v, p, hs, b, c, w) /\ Besides(m, bs, p, hs, b) /\ ~Over1(p, b)
                       /\ NewText(c, b, began) /\ w = Live("text", <<>>)
<1>. DEFINE c == Responses!TextOf(b, began)
            w == Live(c.kind, <<>>)
            hs == Put(bs, Len(m.content) + 1, w)
<1>0. p = Responses!AddItem(m, b, c)
  OBVIOUS
<1>1. NewText(c, b, began)
  BY NewTextIs
<1>. HIDE DEF c
<1>2. IsBlock(c) /\ c.kind = "text"
  BY <1>1 DEF NewText
<1>3. Telling(v, m, bs) /\ Seated(m, bs)
  BY DEF Recited
<1>. HIDE DEF w, hs
<1>4. /\ Seat(v, p, hs, b, c, w) /\ Besides(m, bs, p, hs, b) /\ ~Over1(p, b)
  BY <1>0, <1>2, <1>3, SeatAdds DEF w, hs
<1>5. w = Live("text", <<>>)
  BY <1>2 DEF w
<1>. QED BY <1>1, <1>4, <1>5

LEMMA ResponsesComesLate ==
  ASSUME NEW r, IsReply("responses", r), NEW e, NEW q, ComesLate("responses", r, e, q),
         NEW v, NEW m, Recites(r, v, m)
  PROVE  /\ e.type \in {"part", "close"}
         /\ e.type = "part" => Recites(q, v, Responses!OnWhole(m, e))
         /\ e.type = "close" => Recites(q, v, Responses!OnOutputItemDone(m, e))
<1>. DEFINE b == e.b
            text == e.text
            sig == <<e.b>>
<1>0. Tardy(r, e, q)
  BY TardyIs
<1>1. PICK bs : Recited(r, v, m, bs)
  BY DEF Recites
<1>2. /\ Aside(r, q, b) /\ b \in Nat /\ b \notin DOMAIN m.at
      /\ q.blocks[b].kind = "text" /\ q.blocks[b].sent = text /\ q.blocks[b].sig = sig
      /\ ~q.blocks[b].open /\ e.kind = "text" /\ e.type \in {"part", "close"}
  <2>1. Len(r.blocks) \in Nat
    BY ReplyFacts
  <2>2. DOMAIN m.at \subseteq 1..Len(r.blocks)
    BY <1>1 DEF Recited
  <2>3. Aside(r, q, b)
    BY <1>0, AsideIs DEF Tardy
  <2>. QED BY <1>0, <2>1, <2>2, <2>3 DEF Tardy
<1>3. ASSUME e.type = "part" PROVE Recites(q, v, Responses!OnWhole(m, e))
  <2>. DEFINE p == Responses!AddItem(m, e.b, Responses!TextOf(e.b, e.text))
              i == p.at[e.b]
              o == [p EXCEPT !.content[i].text = text]
              n == Responses!OnContentPartDone(m, e)
  <2>1. PICK c, w, hs : /\ Seat(v, p, hs, b, c, w) /\ Besides(m, bs, p, hs, b) /\ ~Over1(p, b)
                        /\ NewText(c, b, text) /\ w = Live("text", <<>>)
    BY <1>0, <1>1, <1>2, TextTardy
  <2>2. /\ IsBlock(c) /\ c.kind = "text" /\ c.id = <<>> /\ c.redacted = FALSE /\ c.sig = sig
        /\ c.text = text
    BY <2>1 DEF NewText
  <2>3. Responses!EnsureContentPartText(m, e, e.text) = p
    BY <1>2, Zenon DEF Responses!EnsureContentPartText, Responses!Known
  <2>. HIDE DEF p
  <2>4. Responses!Is(p, i, "text") /\ i \notin p.ended
    <3>1. Is(p, p.at[b], "text")
      BY <2>1, <2>2, SeatFacts
    <3>. QED BY <2>1, <3>1, ResponsesShares DEF Over1
  <2>5. n = Responses!EndOnce(o, i)
    <3>1. n = Responses!EndTextContent(p, i, text)
      BY <2>3, Zenon DEF Responses!OnContentPartDone
    <3>. QED BY <2>4, <3>1, Zenon DEF Responses!EndTextContent
  <2>6. o = [p EXCEPT !.content[p.at[b]].text = text]
    OBVIOUS
  <2>7. Responses!OnWhole(m, e) = n
    BY <1>2, <1>3 DEF Responses!OnWhole
  <2>. DEFINE x == Retold(c, text)
  <2>. HIDE DEF o, n, text
  <2>8. /\ Seat(v, o, hs, b, x, w) /\ Besides(p, hs, o, hs, b) /\ Steady(p, o, b)
    BY <2>1, <2>2, <2>6, SeatRetells
  <2>9. /\ IsBlock(x) /\ x.text = text /\ x.kind = "text" /\ x.sig = sig /\ x.id = <<>>
        /\ x.redacted = FALSE
    BY <2>2, BlockEdits
  <2>10. Besides(m, bs, o, hs, b) /\ ~Over1(o, b) /\ n = Responses!EndOnce(o, o.at[b])
    BY <2>1, <2>5, <2>8, BesidesBoth DEF Steady
  <2>. HIDE DEF x
  <2>11. /\ \E said : w = Live(x.kind, said)
         /\ x.kind = q.blocks[b].kind /\ x.text = q.blocks[b].sent
         /\ IsBlock(x) /\ x.redacted = FALSE /\ x.sig = <<b>> /\ x.id = <<>>
         /\ ~q.blocks[b].open /\ q.blocks[b].sig = <<b>>
         /\ q.blocks[b].kind # "thinking" /\ q.blocks[b].kind # "tool"
    BY <1>2, <2>1, <2>9 DEF sig
  <2>12. Recites(q, v, n)
    BY ONLY <1>1, <1>2, <2>8, <2>10, <2>11, ReciteSealed
  <2>. QED BY <2>7, <2>12
<1>4. ASSUME e.type = "close" PROVE Recites(q, v, Responses!OnOutputItemDone(m, e))
  <2>. DEFINE none == <<>>
              p == Responses!AddItem(m, e.b, Responses!TextOf(e.b, none))
              i == p.at[e.b]
              told == [p EXCEPT !.content[i].text = text]
              o == [told EXCEPT !.content[i].sig = sig]
              n == Responses!OnMessageItemDone(m, e)
  <2>1. n = IF ~Responses!Is(p, i, "text") THEN p ELSE Responses!EndOnce(o, i)
    <3>. DEFINE f == Ensured(m, e.b)
                j == f.at[e.b]
                said == [f EXCEPT !.content[j].text = text]
                g == [said EXCEPT !.content[j].sig = sig]
    <3>1. n = IF ~Responses!Is(f, j, "text") THEN f ELSE Responses!EndOnce(g, j)
      BY Zenon DEF Responses!OnMessageItemDone, Ensured, Responses!Known
    <3>2. f = p
      BY <1>2 DEF Ensured
    <3>. HIDE DEF f, n, p, text, sig
    <3>. QED BY <3>1, <3>2
  <2>. HIDE DEF none
  <2>2. PICK c, w, hs : /\ Seat(v, p, hs, b, c, w) /\ Besides(m, bs, p, hs, b) /\ ~Over1(p, b)
                        /\ NewText(c, b, none) /\ w = Live("text", <<>>)
    BY <1>0, <1>1, <1>2, TextTardy
  <2>3. /\ IsBlock(c) /\ c.kind = "text" /\ c.id = <<>> /\ c.redacted = FALSE
    BY <2>2 DEF NewText
  <2>. HIDE DEF p, n
  <2>4. Responses!Is(p, i, "text")
    <3>1. Is(p, p.at[b], "text")
      BY <2>2, <2>3, SeatFacts
    <3>. QED BY <3>1, ResponsesShares
  <2>5. Refilled(p, told, o, b, text, sig)
    BY DEF Refilled
  <2>6. Responses!OnOutputItemDone(m, e) = n
    BY <1>2 DEF Responses!OnOutputItemDone, n
  <2>. HIDE DEF told, o, text
  <2>. DEFINE x == Resigned(Retold(c, text), sig)
  <2>7. x = Resigned(Retold(c, text), sig) /\ Seat(v, p, hs, b, c, w) /\ IsBlock(c)
    BY <2>2, <2>3
  <2>. HIDE DEF x, sig
  <2>8. /\ Seat(v, o, hs, b, x, w) /\ Besides(p, hs, o, hs, b) /\ o.at = p.at
        /\ (Over1(o, b) <=> Over1(p, b)) /\ Raw(o, b) = Raw(p, b)
        /\ IsBlock(x) /\ x.kind = c.kind /\ x.text = text /\ x.sig = sig /\ x.id = c.id
        /\ x.redacted = c.redacted
    BY ONLY <2>5, <2>7, SeatRefills
  <2>10. Besides(m, bs, o, hs, b) /\ ~Over1(o, b) /\ n = Responses!EndOnce(o, o.at[b])
    BY <2>1, <2>2, <2>4, <2>8, BesidesBoth
  <2>11. /\ \E said : w = Live(x.kind, said)
         /\ x.kind = q.blocks[b].kind /\ x.text = q.blocks[b].sent
         /\ IsBlock(x) /\ x.redacted = FALSE /\ x.sig = <<b>> /\ x.id = <<>>
         /\ ~q.blocks[b].open /\ q.blocks[b].sig = <<b>>
         /\ q.blocks[b].kind # "thinking" /\ q.blocks[b].kind # "tool"
    BY <1>2, <2>2, <2>3, <2>8 DEF sig
  <2>12. Recites(q, v, n)
    BY ONLY <1>1, <1>2, <2>8, <2>10, <2>11, ReciteSealed
  <2>. QED BY <2>6, <2>12
<1>. QED BY <1>2, <1>3, <1>4

\* A block that is closed.
Settled(b, s, c, w) ==
  /\ IsBlock(c) /\ c.kind = s.kind /\ c.text = s.sent /\ c.redacted = FALSE
  /\ ~w.live /\ w.text = s.sent
  /\ s.kind \in Prose => c.id = <<>> /\ c.sig = s.sig
  /\ s.kind = "tool" => c.id = <<b, -b>> /\ c.sig = <<>>
LEMMA ItemShut ==
  ASSUME NEW b, NEW s, NEW c, NEW w, NEW over, NEW raw, Item(b, s, c, w, over, raw), ~s.open,
         s.kind \in Kinds
  PROVE  Settled(b, s, c, w)
<1>1. \A kind, text : ~Shut(kind, text).live /\ Shut(kind, text).text = text
  BY DEF Shut
<1>2. IsBlock(c) /\ c.kind = s.kind /\ c.redacted = FALSE
  BY Zenon DEF Item
<1>3. CASE s.kind = "text"
  <2>1. SpeaksText(b, s, c, w, over)
    BY <1>3, Zenon DEF Item
  <2>2. c.text = s.sent /\ c.sig = <<b>> /\ c.id = <<>> /\ s.sig = <<b>> /\ w = Shut("text", s.sent)
    BY <2>1, Zenon DEF SpeaksText
  <2>. QED BY <1>1, <1>2, <1>3, <2>2 DEF Prose, Settled
<1>4. CASE s.kind = "thinking"
  <2>1. SpeaksThought(b, s, c, w, over)
    BY <1>4, Zenon DEF Item
  <2>2. c.text = s.sent /\ c.sig = s.sig /\ c.id = <<>> /\ w = Shut("thinking", s.sent)
    BY <2>1, Zenon DEF SpeaksThought
  <2>. QED BY <1>1, <1>2, <1>4, <2>2 DEF Prose, Settled
<1>5. CASE s.kind = "tool"
  <2>1. SpeaksCall(b, s, c, w, over, raw)
    BY <1>5, Zenon DEF Item
  <2>2. c.text = s.sent /\ c.sig = <<>> /\ c.id = <<b, -b>> /\ w = Shut("tool", s.sent)
    BY <2>1, Zenon DEF SpeaksCall
  <2>. QED BY <1>1, <1>2, <1>5, <2>2 DEF Prose, Settled
<1>. QED BY <1>3, <1>4, <1>5 DEF Kinds

\* A block of a reply of Responses.
LEMMA ResponsesSays ==
  ASSUME NEW r, IsReply("responses", r), NEW b \in 1..Len(r.blocks)
  PROVE  /\ r.blocks[b].kind \in Kinds /\ b \in Nat
         /\ r.blocks[b].kind = "tool" => r.blocks[b].sig = <<>>
<1>1. r.blocks[b].kind \in Kinds \cup {"redacted"} /\ r.blocks[b].kind # "redacted"
  BY DEF IsReply, IsSaid
<1>2. r.blocks[b].kind = "tool" => r.blocks[b].sig = <<>>
  BY DEF IsReply, IsSaid
<1>3. b \in Nat
  BY ReplyFacts
<1>. QED BY <1>1, <1>2, <1>3

LEMMA ItemSaid ==
  ASSUME NEW api, api = "responses", NEW r, IsReply(api, r), NEW b \in 1..Len(r.blocks), ~r.blocks[b].open,
         NEW c, NEW w, NEW over, NEW raw, Item(b, r.blocks[b], c, w, over, raw)
  PROVE  SaidBlock(api, r, b) = DeliveredBlock(c)
<1>. DEFINE s == r.blocks[b]
            x == SaidBlock(api, r, b)
            y == DeliveredBlock(c)
<1>1. s.kind \in Kinds /\ b \in Nat /\ (s.kind = "tool" => s.sig = <<>>)
  BY ResponsesSays
<1>2. /\ IsBlock(c) /\ c.kind = s.kind /\ c.text = s.sent /\ c.redacted = FALSE
      /\ s.kind \in Prose => c.id = <<>> /\ c.sig = s.sig
      /\ s.kind = "tool" => c.id = <<b, -b>> /\ c.sig = <<>>
  <2>. HIDE DEF s
  <2>1. ~s.open /\ Item(b, s, c, w, over, raw)
    BY DEF s
  <2>2. Settled(b, s, c, w)
    BY <1>1, <2>1, ItemShut
  <2>. QED BY <2>2 DEF Settled
<1>3. /\ x = [k \in BlockFields |-> x[k]] /\ x.sig = s.sig
      /\ s.kind = "redacted" => /\ x.kind = "thinking" /\ x.id = <<>>
                                /\ x.redacted = TRUE /\ x.text = RedactedText
      /\ s.kind # "redacted" => x.kind = s.kind /\ x.redacted = FALSE /\ x.text = s.sent
      /\ s.kind \in Prose => x.id = <<>>
      /\ s.kind = "tool" => x.id = CallId(api, r, b)
  <2>1. s.kind \in Kinds \cup {"redacted"}
    BY <1>1
  <2>. QED BY ONLY <2>1, SaidFieldsAre
<1>4. CallId(api, r, b) = <<b, -b>>
  BY DEF CallId
<1>5. /\ y = [k \in BlockFields |-> y[k]] /\ y.kind = c.kind /\ y.id = Unnamed(c.id)
      /\ y.text = c.text /\ y.sig = c.sig /\ y.redacted = c.redacted
  BY <1>2, DeliveredFields
<1>. HIDE DEF x, y, s
<1>6. s.kind = "tool" \/ s.kind \in Prose
  BY <1>1 DEF Kinds, Prose
<1>7. x.id = y.id /\ x.sig = y.sig
  <2>1. CASE s.kind = "tool"
    BY <1>1, <1>2, <1>3, <1>4, <1>5, <2>1, UnnamedIs
  <2>2. CASE s.kind \in Prose
    BY <1>2, <1>3, <1>5, <2>2, UnnamedIs
  <2>. QED BY <1>6, <2>1, <2>2
<1>8. x.kind = y.kind /\ x.text = y.text /\ x.redacted = y.redacted
  BY <1>1, <1>2, <1>3, <1>5 DEF Kinds
<1>9. x = y
  BY <1>3, <1>5, <1>7, <1>8, SameFields
<1>. QED BY <1>9 DEF x, y

\* A block for every place, and a place for every block.
Pairs(at, n, k) ==
  /\ \A b \in 1..n : at[b] \in 1..k
  /\ \A b, c \in 1..n : at[b] = at[c] => b = c
  /\ \A i \in 1..k : \E b \in 1..n : at[b] = i
LEMMA SeatsAreBlocks ==
  ASSUME NEW n \in Nat, NEW k \in Nat, NEW at, Pairs(at, n, k)
  PROVE  n = k
<1>. DEFINE f == [b \in 1..n |-> at[b]]
<1>1. f \in Bijection(1..n, 1..k)
  BY DEF Bijection, Injection, Surjection, IsInjective, Pairs
<1>2. ExistsBijection(1..n, 1..k)
  BY <1>1 DEF ExistsBijection
<1>3. /\ IsFiniteSet(1..n) /\ Cardinality(1..n) = n /\ Cardinality(1..k) = k
  BY FS_Interval
<1>4. Cardinality(1..k) = Cardinality(1..n)
  BY <1>2, <1>3, FS_Bijection
<1>. QED BY <1>3, <1>4

LEMMA SameRange ==
  ASSUME NEW n \in Nat, NEW f, NEW g, f = [b \in 1..n |-> f[b]], g = [b \in 1..n |-> g[b]],
         NEW at, Pairs(at, n, n), \A b \in 1..n : f[b] = g[at[b]]
  PROVE  Len(f) = Len(g) /\ Range(f) = Range(g)
<1>1. DOMAIN f = 1..n /\ DOMAIN g = 1..n
  BY Zenon
<1>2. ASSUME NEW x \in Range(f) PROVE x \in Range(g)
  <2>1. PICK b \in 1..n : x = f[b]
    BY <1>1, <1>2 DEF Range
  <2>2. at[b] \in DOMAIN g /\ x = g[at[b]]
    BY <1>1, <2>1 DEF Pairs
  <2>. QED BY <2>2 DEF Range
<1>3. ASSUME NEW x \in Range(g) PROVE x \in Range(f)
  <2>1. PICK i \in 1..n : x = g[i]
    BY <1>1, <1>3 DEF Range
  <2>2. PICK b \in 1..n : at[b] = i
    BY DEF Pairs
  <2>3. b \in DOMAIN f /\ x = f[b]
    BY <1>1, <2>1, <2>2
  <2>. QED BY <2>3 DEF Range
<1>4. ASSUME NEW h, h = [b \in 1..n |-> h[b]] PROVE Len(h) = n
  <2>. DEFINE S == {h[b] : b \in 1..n}
  <2>1. \A b \in 1..n : h[b] \in S
    OBVIOUS
  <2>. HIDE DEF S
  <2>2. h \in [1..n -> S]
    BY <1>4, <2>1
  <2>. QED BY <2>2
<1>5. Len(f) = n /\ Len(g) = n
  BY <1>4
<1>. QED BY <1>2, <1>3, <1>5

LEMMA RecitedWhole ==
  ASSUME NEW r, IsReply("responses", r), NEW v, NEW m, NEW bs, Recited(r, v, m, bs),
         \A b \in 1..Len(r.blocks) : ~r.blocks[b].open
  PROVE  Faithful("responses", r, m.content) /\ AllShut(bs, m.content)
<1>. DEFINE content == m.content
            n == Len(r.blocks)
<1>1. /\ DOMAIN bs = 1..Len(content)
      /\ \A b \in DOMAIN m.at : b \in Nat /\ m.at[b] \in 1..Len(content)
      /\ \A b, c \in DOMAIN m.at : m.at[b] = m.at[c] => b = c
      /\ \A i \in 1..Len(content) : \E b \in DOMAIN m.at : m.at[b] = i
      /\ DOMAIN m.at \subseteq 1..n /\ Speaks(m)
      /\ \A b \in 1..n : HeardOf(r, m, bs, b)
  BY DEF Recited, Seated, Telling
<1>2. n \in Nat /\ DOMAIN r.blocks = 1..n
  BY ReplyFacts
<1>3. Len(content) \in Nat /\ DOMAIN content = 1..Len(content)
  BY <1>1, ContentIs
<1>4. DOMAIN m.at = 1..n
  BY <1>1 DEF HeardOf, Silent
<1>5. n = Len(content)
  <2>. DEFINE k == Len(content)
              at == m.at
  <2>1. n \in Nat /\ k \in Nat /\ Pairs(at, n, k)
    BY <1>1, <1>2, <1>3, <1>4 DEF Pairs
  <2>. HIDE DEF n, k, at
  <2>2. n = k
    BY ONLY <2>1, SeatsAreBlocks
  <2>. QED BY <2>2 DEF k
<1>6. ASSUME NEW b \in 1..n
      PROVE  /\ SaidBlock("responses", r, b) = DeliveredBlock(content[m.at[b]])
             /\ content[m.at[b]].kind = "tool" => content[m.at[b]].id = <<b, -b>>
             /\ ~bs[m.at[b]].live /\ bs[m.at[b]].text = content[m.at[b]].text
  <2>. DEFINE c == content[m.at[b]]
              w == bs[m.at[b]]
              over == Over1(m, b)
              raw == Raw(m, b)
              s == r.blocks[b]
  <2>1. Item(b, s, c, w, over, raw)
    BY <1>1, <1>4, <1>6 DEF HeardOf
  <2>2. ~s.open /\ s.kind \in Kinds
    BY ResponsesSays
  <2>. HIDE DEF c, w, over, raw
  <2>3. SaidBlock("responses", r, b) = DeliveredBlock(c)
    BY <2>1, <2>2, ItemSaid
  <2>. HIDE DEF s
  <2>4. /\ IsBlock(c) /\ c.kind = s.kind /\ c.text = s.sent
        /\ ~w.live /\ w.text = s.sent /\ (s.kind = "tool" => c.id = <<b, -b>>)
    <3>1. Settled(b, s, c, w)
      BY <2>1, <2>2, ItemShut DEF s
    <3>. QED BY <3>1 DEF Settled
  <2>. QED BY <2>3, <2>4 DEF c, w
<1>7. AllShut(bs, content)
  BY <1>1, <1>3, <1>4, <1>6 DEF AllShut
<1>8. UniqueIds(content)
  <2>. SUFFICES ASSUME NEW i \in DOMAIN content, NEW j \in DOMAIN content,
                       content[i].kind = "tool", content[j].kind = "tool",
                       content[i].id = content[j].id
                PROVE  i = j
    BY DEF UniqueIds
  <2>1. PICK b \in 1..n : m.at[b] = i
    BY <1>1, <1>3, <1>4
  <2>2. PICK c \in 1..n : m.at[c] = j
    BY <1>1, <1>3, <1>4
  <2>3. content[i].id = <<b, -b>> /\ content[j].id = <<c, -c>>
    BY <1>6, <2>1, <2>2
  <2>4. b = c
    <3>1. <<b, -b>> = <<c, -c>>
      BY <2>3
    <3>2. <<b, -b>>[1] = b /\ <<c, -c>>[1] = c
      OBVIOUS
    <3>. QED BY ONLY <3>1, <3>2, Zenon
  <2>. QED BY <2>1, <2>2, <2>4
<1>9. SameMessage("responses", Said("responses", r), Delivered(content))
  <2>. DEFINE said == Said("responses", r)
              given == Delivered(content)
  <2>1. said = [b \in 1..n |-> SaidBlock("responses", r, b)]
    BY <1>2, Zenon DEF Said, SaidBlock
  <2>2. given = [i \in 1..n |-> DeliveredBlock(content[i])]
    BY <1>3, <1>5, Zenon DEF Delivered, DeliveredBlock
  <2>. HIDE DEF said, given, content
  <2>3. \A b \in 1..n : said[b] = given[m.at[b]] /\ m.at[b] \in 1..n
    BY <1>1, <1>4, <1>5, <1>6, <2>1, <2>2
  <2>. DEFINE at == m.at
  <2>4. Pairs(at, n, n)
    BY <1>1, <1>4, <1>5 DEF Pairs, content
  <2>5. /\ said = [b \in 1..n |-> said[b]] /\ given = [b \in 1..n |-> given[b]]
    BY <2>1, <2>2
  <2>6. n \in Nat /\ \A b \in 1..n : said[b] = given[at[b]]
    BY <1>2, <2>3
  <2>. HIDE DEF n, at
  <2>7. Len(said) = Len(given) /\ Range(said) = Range(given)
    BY ONLY <2>4, <2>5, <2>6, SameRange
  <2>. QED BY <2>7 DEF SameMessage, said, given
<1>. QED BY <1>7, <1>8, <1>9 DEF Faithful

\* Every loop of Responses tells an end when the reply is over.
LEMMA RecitesEnds ==
  ASSUME NEW r, NEW v, NEW m, Recites(r, v, m)
  PROVE  /\ Fails(v, Incomplete(m)) /\ Fails(v, Finished(m, PushError))
         /\ Fails(v, Finished(m, Failed("aborted", Message(m.content, "aborted"))))
<1>1. PICK bs : Telling(v, m, bs)
  BY DEF Recites, Recited
<1>2. Fails(v, Incomplete(m))
  BY <1>1, ConcludeIs
<1>3. Fails(v, Finished(m, PushError))
  <2>1. PushError = Failed("error", Message(<<>>, "error"))
    BY Zenon DEF PushError
  <2>. DEFINE message == Message(<<>>, "error")
              e == PushError
              n == Finished(m, e)
  <2>2. e = Failed("error", message) /\ n = Finished(m, e)
    BY <2>1
  <2>. HIDE DEF message, e, n
  <2>3. Fails(v, n)
    BY <1>1, <2>2, BreaksOff
  <2>. QED BY <2>3 DEF n, e
<1>4. Fails(v, Finished(m, Failed("aborted", Message(m.content, "aborted"))))
  <2>. DEFINE message == Message(m.content, "aborted")
              reason == "aborted"
              e == Failed(reason, message)
              n == Finished(m, e)
  <2>1. e = Failed(reason, message) /\ n = Finished(m, e)
    OBVIOUS
  <2>2. reason \in {"error", "aborted"}
    OBVIOUS
  <2>. HIDE DEF message, e, n, reason
  <2>3. n.over /\ ConsumeAll(v, n.out) = Consume(Open(bs), e)
    BY <1>1, <2>1, TellsEnd
  <2>4. Consume(Open(bs), e) = Broken(bs, reason, message)
    BY <2>1, <2>2, ConsumeEnd
  <2>5. Fails(v, n)
    BY <2>3, <2>4 DEF Fails
  <2>. QED BY <2>5 DEF n, e, message, reason
<1>. QED BY <1>2, <1>3, <1>4

LEMMA ResponsesStops ==
  ASSUME NEW r, IsReply("responses", r), NEW e, NEW q, IsReply("responses", q),
         Stops("responses", r, e, q), NEW v, NEW m, Recites(r, v, m)
  PROVE  /\ e.type = "end"
         /\ \/ Completes("responses", q, v, Responses!OnResponseEnd(m, e))
            \/ Fails(v, Responses!OnResponseEnd(m, e))
<1>. DEFINE n == Responses!OnResponseEnd(m, e)
            stop == e.kind
            p == [m EXCEPT !.stop = stop]
<1>1. /\ q.blocks = r.blocks /\ q.stop = stop /\ q.complete /\ e.type = "end"
      /\ stop \in {"length", "refused", "tool_use", "stop"}
      /\ \A b \in 1..Len(q.blocks) : ~q.blocks[b].open
  <2>1. /\ Stopped(r, e, q) /\ MayStop("responses", r)
        /\ e.type = IF "responses" = "responses" THEN "end" ELSE "stop"
    BY StoppingIs
  <2>2. \A b \in DOMAIN r.blocks : ~r.blocks[b].open
    BY <2>1 DEF MayStop, Closes
  <2>3. DOMAIN r.blocks = 1..Len(r.blocks)
    BY ReplyFacts
  <2>. QED BY <2>1, <2>2, <2>3 DEF Stopped
<1>2. CASE stop = "refused"
  <2>1. n = Finished(m, Failed("aborted", Message(m.content, "aborted")))
    BY <1>2, ResponsesShares DEF Responses!OnResponseEnd
  <2>2. Fails(v, n)
    BY <2>1, RecitesEnds
  <2>. QED BY <1>1, <2>2
<1>3. CASE stop # "refused"
  <2>1. n = Conclude(p)
    BY <1>3, ResponsesShares DEF Responses!OnResponseEnd
  <2>2. PICK bs : Recited(r, v, m, bs)
    BY DEF Recites
  <2>3. Recited(q, v, m, bs)
    BY <1>1, <2>2 DEF Recited, HeardOf
  <2>4. Telling(v, m, bs) /\ Speaks(m)
    BY <2>3 DEF Recited, Telling
  <2>. HIDE DEF stop, n
  <2>5. Faithful("responses", q, m.content) /\ AllShut(bs, m.content)
    BY <1>1, <2>3, RecitedWhole
  <2>6. Speaks(p) /\ p.content = m.content /\ p.out = m.out /\ p.stop = stop
    BY <2>4, Notes DEF Speaks, Machine
  <2>. HIDE DEF p
  <2>7. Telling(v, p, bs)
    BY <2>4, <2>6, TellsSame
  <2>8. stop \in {"length", "tool_use", "stop"}
    BY <1>1, <1>3
  <2>. DEFINE api == "responses"
  <2>9. Reasoned(api, q, stop)
    BY <1>1, <2>8 DEF Reasoned
  <2>10. Faithful(api, q, p.content) /\ AllShut(bs, p.content) /\ q.complete
    BY <1>1, <2>5, <2>6
  <2>11. p.stop \in {"stop", "length", "tool_use", "error"} /\ Reasoned(api, q, p.stop)
    BY <2>6, <2>8, <2>9
  <2>. HIDE DEF api
  <2>12. Completes(api, q, v, Conclude(p)) \/ Fails(v, Conclude(p))
    BY ONLY <2>7, <2>10, <2>11, ConcludesWell
  <2>. QED BY <1>1, <2>1, <2>12 DEF api, n
<1>. QED BY <1>2, <1>3

\* Whatever the vendor sends next, the loop still recites the reply, has
\* concluded it, or has broken off.
LEMMA ResponsesAnswers ==
  ASSUME NEW r, IsReply("responses", r), NEW e, NEW q, IsReply("responses", q),
         Moved("responses", r, e, q), NEW v, NEW m, Recites(r, v, m)
  PROVE  /\ e.type \notin {"eof", "broken"} =>
              \/ Recites(q, v, Responses!HandleEvent(m, e))
              \/ Completes("responses", q, v, Responses!HandleEvent(m, e))
              \/ Fails(v, Responses!HandleEvent(m, e))
         /\ Fails(v, Responses!Eof(m))
<1>. DEFINE n == Responses!HandleEvent(m, e)
<1>1. Fails(v, Incomplete(m))
  BY RecitesEnds
<1>2. Responses!Eof(m) = Incomplete(m) /\ Responses!Incomplete(m) = Incomplete(m)
  BY ResponsesShares DEF Responses!Eof
<1>3. /\ e.type = "open"  => n = Responses!OnOutputItemAdded(m, e)
      /\ e.type = "added" => n = Responses!OnContentPartAdded(m, e)
      /\ e.type = "frag"  => n = Responses!OnDelta(m, e)
      /\ e.type \in {"whole", "part"} => n = Responses!OnWhole(m, e)
      /\ e.type = "close" => n = Responses!OnOutputItemDone(m, e)
      /\ e.type = "end"   => n = Responses!OnResponseEnd(m, e)
      /\ e.type = "fail"  => n = Responses!Incomplete(m)
  BY ResponsesHandles
<1>. HIDE DEF n
<1>4. ASSUME e.type \notin {"eof", "broken"}
      PROVE  Recites(q, v, n) \/ Completes("responses", q, v, n) \/ Fails(v, n)
  <2>1. CASE Begins("responses", r, e, q)
    BY <1>3, <2>1, ResponsesOpens
  <2>2. CASE Grows("responses", r, e, q)
    BY <1>3, <2>2, ResponsesGrows
  <2>3. ~Signs("responses", r, e, q)
    BY DEF Signs
  <2>4. CASE Repeats("responses", r, e, q)
    BY <1>3, <2>4, ResponsesRepeats
  <2>5. CASE Shuts("responses", r, e, q)
    BY <1>3, <2>5, ResponsesShuts
  <2>6. CASE ComesLate("responses", r, e, q)
    BY <1>3, <2>6, ResponsesComesLate
  <2>7. CASE Stops("responses", r, e, q)
    <3>1. /\ e.type = "end"
          /\ \/ Completes("responses", q, v, Responses!OnResponseEnd(m, e))
             \/ Fails(v, Responses!OnResponseEnd(m, e))
      BY <2>7, ResponsesStops
    <3>. QED BY <1>3, <3>1
  <2>8. ~Concludes("responses", r, e, q)
    BY DEF Concludes
  <2>9. CASE Breaks("responses", r, e, q)
    <3>1. e.type = "fail"
      BY <1>4, <2>9, BreakingIs
    <3>. QED BY <1>1, <1>2, <1>3, <3>1
  <2>. QED BY <2>1, <2>2, <2>3, <2>4, <2>5, <2>6, <2>7, <2>8, <2>9 DEF Moved
<1>. QED BY <1>1, <1>2, <1>4 DEF n

\* What ties a loop to the reply it reads and to its consumer.
Tracks(api, r, v, m) ==
  IF api = "responses" THEN Recites(r, v, m) ELSE GoesOn(api, r, v, m)

LEMMA TracksTelling ==
  ASSUME NEW api, NEW r, NEW v, NEW m, Tracks(api, r, v, m)
  PROVE  \E bs : Telling(v, m, bs)
<1>1. CASE api = "responses"
  BY <1>1 DEF Tracks, Recites, Recited
<1>2. CASE api # "responses"
  BY <1>2 DEF Tracks, GoesOn, Following
<1>. QED BY <1>1, <1>2

\* A loop that is told of a broken connection says so.
LEMMA TracksBreak ==
  ASSUME NEW api, NEW r, NEW v, NEW m, Tracks(api, r, v, m)
  PROVE  Fails(v, Finished(m, PushError))
<1>1. CASE api = "responses"
  BY <1>1, RecitesEnds DEF Tracks
<1>2. CASE api # "responses"
  BY <1>2, FollowingFails DEF Tracks, GoesOn
<1>. QED BY <1>1, <1>2

\* One event of the vendor, whoever the provider is.
Ensues(api, q, v, n) == Tracks(api, q, v, n) \/ Completes(api, q, v, n) \/ Fails(v, n)

LEMMA AnswersEnsue ==
  ASSUME NEW api, api # "responses", NEW q, NEW v, NEW n, Answers(api, q, v, n)
  PROVE  Ensues(api, q, v, n)
BY DEF Answers, Ensues, Tracks

LEMMA HandleTracks ==
  ASSUME d \in AllDialects, NEW r, IsReply(d, r), NEW e, NEW q, IsReply(d, q),
         Moved(d, r, e, q), NEW v, Tracks(d, r, v, machine)
  PROVE  Ensues(d, q, v, After(e))
<1>. DEFINE m == machine
            n == After(e)
<1>1. e.type = "broken" => n = Finished(m, PushError)
  BY Zenon DEF After
<1>2. e.type = "eof" => n = Eof(d, m)
  BY DEF After
<1>3. e.type \notin {"eof", "broken"} => n = Handle(d, m, e)
  BY DEF After
<1>4. Fails(v, Finished(m, PushError))
  BY TracksBreak
<1>. HIDE DEF n
<1>. SUFFICES ASSUME e.type # "broken" PROVE Ensues(d, q, v, n)
  BY <1>1, <1>4 DEF Ensues, n
<1>5. CASE d = "responses"
  <2>1. Eof(d, m) = Responses!Eof(m) /\ Handle(d, m, e) = Responses!HandleEvent(m, e)
    BY <1>5 DEF Eof, Handle
  <2>2. /\ e.type \notin {"eof", "broken"} =>
              \/ Recites(q, v, Responses!HandleEvent(m, e))
              \/ Completes("responses", q, v, Responses!HandleEvent(m, e))
              \/ Fails(v, Responses!HandleEvent(m, e))
        /\ Fails(v, Responses!Eof(m))
    BY <1>5, ResponsesAnswers DEF Tracks
  <2>. QED BY <1>2, <1>3, <1>5, <2>1, <2>2 DEF Ensues, Tracks
<1>6. ASSUME d # "responses" PROVE Ensues(d, q, v, n)
  <2>0. GoesOn(d, r, v, m)
    BY <1>6 DEF Tracks
  <2>. SUFFICES Answers(d, q, v, n)
    BY <1>6, AnswersEnsue
  <2>1. CASE d = "anthropic"
    <3>1. Eof(d, m) = Anthropic!Eof(m) /\ Handle(d, m, e) = Anthropic!HandleSse(m, e)
      BY <2>1 DEF Eof, Handle
    <3>2. /\ e.type \notin {"eof", "broken"} => Answers("anthropic", q, v, Anthropic!HandleSse(m, e))
          /\ Answers("anthropic", q, v, Anthropic!Eof(m))
      BY <2>0, <2>1, AnthropicAnswers
    <3>. QED BY <1>2, <1>3, <2>1, <3>1, <3>2
  <2>2. CASE d = "completions"
    <3>1. Eof(d, m) = Completions!Eof(m) /\ Handle(d, m, e) = Completions!HandleChunk(m, e)
      BY <2>2 DEF Eof, Handle
    <3>2. /\ e.type \notin {"eof", "broken"} => Answers("completions", q, v, Completions!HandleChunk(m, e))
          /\ e.type = "eof" => Answers("completions", q, v, Completions!Eof(m))
      BY <2>0, <2>2, CompletionsAnswers
    <3>. QED BY <1>2, <1>3, <2>2, <3>1, <3>2
  <2>3. CASE d = "mistral"
    <3>1. Eof(d, m) = MistralApi!Eof(m) /\ Handle(d, m, e) = MistralApi!HandleChunk(m, e)
      BY <2>3 DEF Eof, Handle
    <3>2. /\ e.type \notin {"eof", "broken"} => Answers("mistral", q, v, MistralApi!HandleChunk(m, e))
          /\ e.type = "eof" => Answers("mistral", q, v, MistralApi!Eof(m))
      BY <2>0, <2>3, MistralAnswers
    <3>. QED BY <1>2, <1>3, <2>3, <3>1, <3>2
  <2>4. CASE d = "google"
    <3>1. Eof(d, m) = Gemini!Eof(m) /\ Handle(d, m, e) = Gemini!HandleChunk(m, e)
      BY <2>4 DEF Eof, Handle
    <3>2. /\ e.type \notin {"eof", "broken"} => Answers("google", q, v, Gemini!HandleChunk(m, e))
          /\ e.type = "eof" => Answers("google", q, v, Gemini!Eof(m))
      BY <2>0, <2>4, GeminiAnswers
    <3>. QED BY <1>2, <1>3, <2>4, <3>1, <3>2
  <2>5. CASE d = "bedrock"
    <3>1. Eof(d, m) = Bedrock!Eof(m) /\ Handle(d, m, e) = Bedrock!HandleFrame(m, e)
      BY <2>5 DEF Eof, Handle
    <3>2. /\ e.type \notin {"eof", "broken"} => Answers("bedrock", q, v, Bedrock!HandleFrame(m, e))
          /\ e.type = "eof" => Answers("bedrock", q, v, Bedrock!Eof(m))
      BY <2>0, <2>5, BedrockAnswers
    <3>. QED BY <1>2, <1>3, <2>5, <3>1, <3>2
  <2>. QED BY <1>6, <2>1, <2>2, <2>3, <2>4, <2>5 DEF AllDialects
<1>. QED BY <1>5, <1>6

-----------------------------------------------------------------------------
(* The invariant. *)

\* Until the loop begins nobody was told anything.
SetupInv ==
  stage = "setup" =>
    /\ view = Unseen
    /\ IF provider = "faux" THEN setup = <<>> ELSE IsSetup(setup)

\* The loop talks, and its consumer listens.
LoopInv ==
  IF stage = "streaming"
  THEN /\ provider # "faux" /\ Speaks(machine) /\ machine.out = <<>>
       /\ ~dropped => view.phase = "open"
  ELSE machine = Machine

TaskInv ==
  /\ provider \in Providers /\ stage \in {"setup", "streaming", "over"}
  /\ token \in BOOLEAN /\ dropped \in BOOLEAN
  /\ IsReply(Dialect(provider), reply)

ViewInv ==
  /\ IsKnowledge(view) /\ view.phase \in {"quiet", "open", "done", "error"}
  /\ NoSilentEnd

StreamInv == TaskInv /\ SetupInv /\ LoopInv /\ ViewInv

LEMMA UnseenIs ==
  /\ IsKnowledge(Unseen) /\ Unseen.phase = "quiet" /\ Unseen.blocks = <<>>
  /\ Unseen.lawful = TRUE
BY DEF IsKnowledge, ViewFields, Unseen

LEMMA StreamInit == Init => StreamInv
<1>. SUFFICES ASSUME Init PROVE StreamInv
  OBVIOUS
<1>1. TaskInv
  BY NoReply DEF Init, TaskInv
<1>2. SetupInv
  BY ProvidersAre, SetupsAre DEF Init, SetupInv
<1>3. LoopInv
  BY DEF Init, LoopInv
<1>4. ViewInv
  BY UnseenIs DEF Init, ViewInv, NoSilentEnd
<1>. QED BY <1>1, <1>2, <1>3, <1>4 DEF StreamInv

\* One event, and what it tells a consumer that has not heard the end yet.
LEMMA OneEvent ==
  ASSUME NEW v, NEW e
  PROVE  ConsumeAll(v, <<e>>) = Consume(v, e)
<1>1. <<e>> = Append(<<>>, e)
  OBVIOUS
<1>. QED BY <1>1, ConsumeFew

LEMMA LastEvent ==
  ASSUME NEW v, IsKnowledge(v), v.phase \in {"quiet", "open"}, NEW reason, NEW message
  PROVE  LET w == ConsumeAll(v, <<Failed(reason, message)>>) IN
         IsKnowledge(w) /\ w.phase = "error" /\ w.reason = reason
<1>. DEFINE e == Failed(reason, message)
            w == Consume(v, e)
<1>1. e.type = "error" /\ e.reason = reason /\ e.message = message
  BY DEF Failed
<1>. HIDE DEF e
<1>2. Expected(v, e)
  BY <1>1, ExpectedIs
<1>3. w = [v EXCEPT !.phase = "error", !.last = message, !.reason = reason]
  BY <1>1, <1>2, ConsumeIs
<1>. HIDE DEF w
<1>4. IsKnowledge(w) /\ w.phase = "error" /\ w.reason = reason
  BY <1>3 DEF IsKnowledge, ViewFields
<1>5. ConsumeAll(v, <<e>>) = w
  BY OneEvent DEF w
<1>. QED BY <1>4, <1>5 DEF e

LEMMA TaskEnds ==
  ASSUME StreamInv, stage # "over", NEW reason, NEW message,
         stage' = "over", machine' = Machine,
         view' = IF dropped THEN view ELSE ConsumeAll(view, <<Failed(reason, message)>>),
         UNCHANGED <<provider, reply, token, dropped>>
  PROVE  StreamInv' /\ (~dropped => view'.reason = reason)
<1>. DEFINE e == Failed(reason, message)
<1>1. stage' = "over" /\ machine' = Machine
      /\ view' = IF dropped THEN view ELSE ConsumeAll(view, <<e>>)
  OBVIOUS
<1>2. TaskInv' /\ SetupInv' /\ LoopInv'
  BY <1>1 DEF StreamInv, TaskInv, SetupInv, LoopInv
<1>3. ~dropped => IsKnowledge(view) /\ view.phase \in {"quiet", "open"}
  BY UnseenIs DEF StreamInv, TaskInv, SetupInv, LoopInv, ViewInv
<1>4. ~dropped => IsKnowledge(view') /\ view'.phase = "error" /\ view'.reason = reason
  BY <1>1, <1>3, LastEvent
<1>5. dropped => view' = view
  BY <1>1
<1>. HIDE DEF e
<1>6. ViewInv'
  BY <1>4, <1>5 DEF StreamInv, ViewInv, NoSilentEnd
<1>. QED BY <1>2, <1>4, <1>6 DEF StreamInv

LEMMA StepDoneStays ==
  ASSUME StreamInv, StepDone
  PROVE  StreamInv'
<1>1. /\ stage = "setup" /\ setup # <<>> /\ setup' = Tail(setup)
      /\ UNCHANGED <<provider, machine, reply, token, dropped>>
      /\ IF Len(setup) > 1 THEN UNCHANGED <<stage, view>>
         ELSE stage' = "streaming" /\ Push(<<Started>>)
  BY DEF StepDone
<1>2. provider # "faux" /\ IsSequence(setup) /\ view = Unseen /\ machine = Machine
  BY <1>1 DEF StreamInv, SetupInv, LoopInv, IsSetup
<1>3. TaskInv'
  BY <1>1 DEF StreamInv, TaskInv
<1>4. CASE Len(setup) > 1
  <2>1. IsSetup(setup')
    <3>1. PICK S : setup \in Seq(S)
      BY <1>2 DEF IsSequence
    <3>2. setup' \in Seq(S) /\ Len(setup') > 0
      BY <1>1, <1>4, <3>1
    <3>. QED BY <3>2 DEF IsSetup, IsSequence
  <2>2. stage' = stage /\ view' = view
    BY <1>1, <1>4
  <2>. QED BY <1>1, <1>2, <1>3, <2>1, <2>2
           DEF StreamInv, SetupInv, LoopInv, ViewInv, NoSilentEnd
<1>5. CASE ~(Len(setup) > 1)
  <2>1. stage' = "streaming" /\ view' = IF dropped THEN view ELSE ConsumeAll(view, <<Started>>)
    BY <1>1, <1>5 DEF Push
  <2>2. ConsumeAll(Unseen, <<Started>>) = Open(<<>>)
    BY OneEvent, ConsumeStarted
  <2>3. IsKnowledge(Open(<<>>)) /\ Open(<<>>).phase = "open"
    BY DEF Open, IsKnowledge, ViewFields
  <2>4. IsKnowledge(view') /\ (~dropped => view'.phase = "open")
        /\ view'.phase \in {"quiet", "open"}
    BY <1>2, <2>1, <2>2, <2>3, UnseenIs
  <2>5. Speaks(Machine) /\ Machine.out = <<>>
    BY MachineSpeaks DEF Machine
  <2>. QED BY <1>1, <1>2, <1>3, <2>1, <2>4, <2>5
           DEF StreamInv, SetupInv, LoopInv, ViewInv, NoSilentEnd
<1>. QED BY <1>4, <1>5

LEMMA ReplayedLength ==
  ASSUME NEW queue \in {<<>>} \cup {<<message>> : message \in FauxMessages}
  PROVE  LET c == Double!PopFront(queue).content IN
         Len(c) \in Nat /\ DOMAIN c = 1..Len(c)
<1>0. \A b, c : /\ Len(<<>>) = 0 /\ Len(<<b>>) = 1 /\ Len(<<b, c>>) = 2
                /\ DOMAIN <<>> = 1..0 /\ DOMAIN <<b>> = 1..1 /\ DOMAIN <<b, c>> = 1..2
  OBVIOUS
<1>1. CASE queue = <<>>
  <2>1. Double!PopFront(queue) = Double!Canned
    BY <1>1, Zenon DEF Double!PopFront
  <2>2. \E b : Double!Canned.content = <<b>>
    BY DEF Double!Canned, Double!Message
  <2>. QED BY <1>0, <2>1, <2>2
<1>2. CASE queue # <<>>
  <2>1. PICK message \in FauxMessages : queue = <<message>>
    BY <1>2
  <2>2. Double!PopFront(queue) = message
    BY <2>1, <1>2 DEF Double!PopFront
  <2>3. \E b, c : message.content \in {<<>>, <<b>>, <<b, c>>}
    <3>. DEFINE said(i, kind) == [Block(kind) EXCEPT
                                    !.text = <<kind>>,
                                    !.id = IF kind = "tool" THEN <<i>> ELSE <<>>]
                contents == {<<>>} \cup {<<said(1, k)>> : k \in Kinds}
                            \cup {<<said(1, k), said(2, l)>> : k, l \in Kinds}
    <3>1. message.content \in contents
      BY <2>1, SMT DEF FauxMessages, Message, Kinds
    <3>. HIDE DEF said
    <3>. QED BY <3>1
  <2>. QED BY <1>0, <2>2, <2>3
<1>. QED BY <1>1, <1>2

LEMMA ReceiveStays ==
  ASSUME StreamInv, Receive
  PROVE  StreamInv'
<1>1. PICK move \in Moves(d, reply) :
        LET next == After(move.event) IN
        /\ reply' = move.reply
        /\ Push(next.out)
        /\ IF next.over \/ dropped
           THEN stage' = "over" /\ machine' = Machine
           ELSE stage' = stage /\ machine' = [next EXCEPT !.out = <<>>]
  BY DEF Receive
<1>2. stage = "streaming" /\ UNCHANGED <<provider, setup, token, dropped>>
  BY DEF Receive
<1>3. /\ provider # "faux" /\ Speaks(machine) /\ (~dropped => view.phase = "open")
      /\ IsKnowledge(view) /\ view.phase \in {"quiet", "open", "done", "error"}
      /\ IsReply(d, reply) /\ provider \in Providers
  BY <1>2 DEF StreamInv, TaskInv, LoopInv, ViewInv, d
<1>4. d \in AllDialects
  BY <1>3, ProvidersAre DEF d
<1>. DEFINE n == After(move.event)
<1>5. Goes(n)
  <2>1. Fits(d, move.event)
    BY <1>3, MoveFits
  <2>. QED BY <1>3, <1>4, <2>1, AfterGoes
<1>6. TaskInv'
  <2>1. IsReply(d, reply')
    BY <1>1, <1>3, ReplyStays
  <2>2. stage' \in {"streaming", "over"}
    BY <1>1, <1>2
  <2>. QED BY <1>2, <2>1, <2>2 DEF StreamInv, TaskInv, d
<1>7. /\ view' = IF dropped THEN view ELSE ConsumeAll(view, n.out)
      /\ (n.over \/ dropped) => stage' = "over" /\ machine' = Machine
      /\ ~(n.over \/ dropped) => stage' = "streaming" /\ machine' = [n EXCEPT !.out = <<>>]
  BY <1>1, <1>2 DEF Push
<1>. HIDE DEF n
<1>8. SetupInv'
  BY <1>2, <1>7 DEF SetupInv
<1>9. CASE dropped
  BY <1>2, <1>3, <1>6, <1>7, <1>8, <1>9 DEF StreamInv, LoopInv, ViewInv, NoSilentEnd
<1>10. CASE ~dropped /\ Speaks(n)
  <2>1. n.over = FALSE /\ Talks(n.out)
    BY <1>10 DEF Speaks
  <2>2. Hears(view, view')
    BY <1>3, <1>7, <1>10, <2>1, TalkThrough
  <2>3. Speaks(machine') /\ machine'.out = <<>>
    <3>1. machine' = [n EXCEPT !.out = <<>>]
      BY <1>7, <1>10, <2>1
    <3>2. Talks(<<>>)
      BY MachineSpeaks DEF Speaks, Machine
    <3>3. DOMAIN n = DOMAIN Machine
      BY <1>10 DEF Speaks
    <3>4. machine'.out = <<>> /\ DOMAIN machine' = DOMAIN Machine
          /\ machine'.over = n.over /\ machine'.content = n.content /\ machine'.at = n.at
      BY <3>1, <3>3 DEF Machine
    <3>. QED BY <1>10, <2>1, <3>2, <3>4 DEF Speaks, HasBlocks
  <2>4. LoopInv'
    BY <1>2, <1>3, <1>7, <1>10, <2>1, <2>2, <2>3 DEF LoopInv, Hears
  <2>5. ViewInv'
    BY <1>3, <1>7, <1>10, <2>1, <2>2 DEF Hears, ViewInv, NoSilentEnd
  <2>. QED BY <1>6, <1>8, <2>4, <2>5 DEF StreamInv
<1>11. CASE ~dropped /\ n.over = TRUE /\ Ends(n.out)
  <2>1. IsKnowledge(view') /\ view'.phase \in {"done", "error"}
    BY <1>3, <1>7, <1>11, EndsStream
  <2>2. LoopInv' /\ ViewInv'
    BY <1>2, <1>7, <1>11, <2>1 DEF LoopInv, ViewInv, NoSilentEnd
  <2>. QED BY <1>6, <1>8, <2>2 DEF StreamInv
<1>. QED BY <1>5, <1>9, <1>10, <1>11 DEF Goes

LEMMA ReplayStays ==
  ASSUME StreamInv, Replay
  PROVE  StreamInv'
<1>1. PICK queue \in {<<>>} \cup {<<message>> : message \in FauxMessages} :
        view' = ConsumeAll(view, Double!Replay(Double!PopFront(queue)).out)
  BY DEF Replay
<1>2. /\ stage = "setup" /\ stage' = "over"
      /\ UNCHANGED <<provider, setup, machine, reply, token, dropped>>
  BY DEF Replay
<1>. DEFINE message == Double!PopFront(queue)
            bs == Replayed(message.content, Len(message.content))
<1>3. Len(message.content) \in Nat
  BY <1>1, ReplayedLength
<1>4. view = Unseen
  BY <1>2 DEF StreamInv, SetupInv
<1>5. PICK reason : view' = Over(bs, reason, message) \/ view' = Broken(bs, reason, message)
  <2>. HIDE DEF message
  <2>1. view' = ConsumeAll(Unseen, Double!Replay(message).out)
    BY <1>1, <1>4 DEF message
  <2>. QED BY <1>3, <2>1, ReplayIs
<1>. HIDE DEF bs, message
<1>6. IsKnowledge(view') /\ view'.phase \in {"done", "error"}
  BY <1>5 DEF Over, Broken, IsKnowledge, ViewFields
<1>. QED BY <1>2, <1>6
         DEF StreamInv, TaskInv, SetupInv, LoopInv, ViewInv, NoSilentEnd

\* One action of the task or of its caller after the other.
LEMMA StreamNext == StreamInv /\ [Next]_vars => StreamInv'
<1>. SUFFICES ASSUME StreamInv, [Next]_vars PROVE StreamInv'
  OBVIOUS
<1>1. CASE StepDone
  BY <1>1, StepDoneStays
<1>2. CASE StepFailed
  BY <1>2, TaskEnds DEF StepFailed, PushError, EndWith, Push
<1>3. CASE StepAborted
  BY <1>3, TaskEnds DEF StepAborted, PushAborted, EndWith, Push
<1>4. CASE Receive
  BY <1>4, ReceiveStays
<1>5. CASE Aborted
  BY <1>5, TaskEnds DEF Aborted, PushAborted, EndWith, Push
<1>6. CASE Replay
  BY <1>6, ReplayStays
<1>7. CASE Abort
  BY <1>7 DEF Abort, StreamInv, TaskInv, SetupInv, LoopInv, ViewInv, NoSilentEnd
<1>8. CASE Drop
  BY <1>8 DEF Drop, StreamInv, TaskInv, SetupInv, LoopInv, ViewInv, NoSilentEnd
<1>9. CASE UNCHANGED vars
  BY <1>9 DEF vars, StreamInv, TaskInv, SetupInv, LoopInv, ViewInv, NoSilentEnd
<1>. QED BY <1>1, <1>2, <1>3, <1>4, <1>5, <1>6, <1>7, <1>8, <1>9 DEF Next

LEMMA StreamTyped == StreamInv => TypeOK
<1>. SUFFICES ASSUME StreamInv PROVE TypeOK
  OBVIOUS
<1>1. (stage = "setup" /\ provider # "faux") => setup # <<>>
  <2>1. Len(<<>>) = 0
    OBVIOUS
  <2>. QED BY <2>1 DEF StreamInv, SetupInv, IsSetup
<1>2. stage = "streaming" => machine.out = <<>> /\ HasBlocks(machine)
  BY DEF StreamInv, LoopInv, Speaks
<1>3. stage # "streaming" => machine = Machine
  BY DEF StreamInv, LoopInv
<1>4. Machine.out = <<>> /\ HasBlocks(Machine)
  BY MachineSpeaks DEF Speaks, Machine
<1>5. machine.out = <<>> /\ \A i \in DOMAIN machine.content : machine.content[i].kind \in Kinds
  BY <1>2, <1>3, <1>4 DEF HasBlocks, IsBlock
<1>6. /\ Len(reply.blocks) <= MaxBlocks
      /\ \A b \in DOMAIN reply.blocks : Len(reply.blocks[b].sent) <= MaxFragments
  <2>1. IsReply(Dialect(provider), reply)
    BY DEF StreamInv, TaskInv
  <2>2. DOMAIN reply.blocks = 1..Len(reply.blocks)
    BY <2>1, ReplyFacts
  <2>. QED BY <2>1, <2>2 DEF IsReply, IsSaid
<1>7. (stage = "streaming" /\ ~dropped) => view.phase = "open"
  BY DEF StreamInv, LoopInv
<1>. QED BY <1>1, <1>3, <1>5, <1>6, <1>7 DEF TypeOK, StreamInv, TaskInv, ViewInv

\* The task of a call (ai/src/providers, run) has at every moment a machine
\* that has told all it produced, and a reply the vendor may have sent so far.
THEOREM StreamTypeCorrect == Spec => []TypeOK
<1>. QED BY StreamTyped, StreamInit, StreamNext, PTL DEF Spec

\* Every early return, every error path and every end of a reply in the
\* providers leads to a terminal event, whatever the vendor sent before: a
\* task that is over has told its consumer so, unless nobody listens.
THEOREM NoSilentEndAlways == Spec => []NoSilentEnd
<1>1. StreamInv => NoSilentEnd
  BY DEF StreamInv, ViewInv
<1>. QED BY <1>1, StreamInit, StreamNext, PTL DEF Spec

\* Once the token of a stream that has begun is cancelled (abort.rs:99), the
\* one event that may still reach its consumer is the terminal "aborted".
THEOREM AbortIsAnsweredAlways == Spec => AbortIsAnswered
<1>1. StreamInv /\ [Next]_vars =>
        [(stage = "streaming" /\ token) => view' = view \/ view'.reason = "aborted"]_vars
  <2>. SUFFICES ASSUME StreamInv, Next, stage = "streaming", token
                PROVE  view' = view \/ view'.reason = "aborted"
    BY DEF vars
  <2>1. CASE Aborted
    <3>1. dropped => view' = view
      BY <2>1 DEF Aborted, EndWith, Push
    <3>2. ~dropped => view'.reason = "aborted"
      BY <2>1, TaskEnds DEF Aborted, PushAborted, EndWith, Push
    <3>. QED BY <3>1, <3>2 DEF StreamInv, TaskInv
  <2>2. CASE Drop
    BY <2>2 DEF Drop
  <2>. QED BY <2>1, <2>2 DEF Next, StepDone, StepFailed, StepAborted, Interrupted, Receive,
                             Replay, Abort
<1>. QED BY <1>1, StreamInit, StreamNext, PTL DEF Spec, AbortIsAnswered

-----------------------------------------------------------------------------
(* What the consumer of a call knows, at every moment of the call. *)

\* The consumer takes the events the loop pushed.
Takes(v, n, w, m) ==
  /\ w = ConsumeAll(v, n.out) /\ m.out = <<>> /\ DOMAIN m = DOMAIN Machine
  /\ m.over = n.over /\ m.content = n.content /\ SameBooks(n, m)

LEMMA TakesAll ==
  ASSUME NEW v, NEW n, Speaks(n), NEW w, w = ConsumeAll(v, n.out),
         NEW m, m = [n EXCEPT !.out = <<>>]
  PROVE  Takes(v, n, w, m)
<1>1. DOMAIN n = DOMAIN Machine
  BY DEF Speaks
<1>2. m.out = <<>> /\ DOMAIN m = DOMAIN Machine /\ m.over = n.over /\ m.content = n.content
  BY <1>1 DEF Machine
<1>3. SameBooks(n, m)
  BY <1>1 DEF Machine, SameBooks
<1>. QED BY <1>2, <1>3 DEF Takes

LEMMA TakesTelling ==
  ASSUME NEW v, NEW n, NEW bs, Telling(v, n, bs), NEW w, NEW m, Takes(v, n, w, m)
  PROVE  Telling(w, m, bs)
<1>1. Speaks(n) /\ w = Open(bs)
  BY DEF Telling, Takes
<1>2. Talks(<<>>)
  BY MachineSpeaks DEF Speaks, Machine
<1>3. Speaks(m)
  BY <1>1, <1>2 DEF Takes, SameBooks, Speaks, HasBlocks
<1>. QED BY <1>1, <1>3, TellingStarts DEF Takes

LEMMA TracksOn ==
  ASSUME NEW api, NEW r, NEW v, NEW n, Tracks(api, r, v, n), NEW w, NEW m, Takes(v, n, w, m)
  PROVE  Tracks(api, r, w, m)
<1>0. m.content = n.content /\ SameBooks(n, m)
  BY DEF Takes
<1>1. CASE api = "responses"
  <2>1. PICK bs : Recited(r, v, n, bs)
    BY <1>1 DEF Tracks, Recites
  <2>2. Telling(w, m, bs)
    BY <2>1, TakesTelling DEF Recited
  <2>3. m.at = n.at /\ m.ended = n.ended /\ m.buf = n.buf
    BY <1>0 DEF SameBooks
  <2>4. Seated(m, bs)
    BY <1>0, <2>1, <2>3 DEF Recited, Seated
  <2>5. \A b : Over1(m, b) <=> Over1(n, b)
    BY <2>3 DEF Over1
  <2>6. \A b : Raw(m, b) = Raw(n, b)
    BY <2>3 DEF Raw
  <2>7. ASSUME NEW b \in 1..Len(r.blocks) PROVE HeardOf(r, m, bs, b)
    <3>1. HeardOf(r, n, bs, b)
      BY <2>1 DEF Recited
    <3>2. ASSUME b \in DOMAIN m.at
          PROVE  Item(b, r.blocks[b], m.content[m.at[b]], bs[m.at[b]], Over1(m, b), Raw(m, b))
      <4>1. Item(b, r.blocks[b], n.content[n.at[b]], bs[n.at[b]], Over1(n, b), Raw(n, b))
        BY <2>3, <3>1, <3>2 DEF HeardOf
      <4>2. Over1(m, b) = Over1(n, b)
        BY <2>3 DEF Over1
      <4>. QED BY <1>0, <2>3, <2>6, <4>1, <4>2
    <3>. QED BY <2>3, <3>1, <3>2 DEF HeardOf
  <2>8. Recited(r, w, m, bs)
    BY <2>1, <2>2, <2>3, <2>4, <2>7 DEF Recited
  <2>. QED BY <1>1, <2>8 DEF Tracks, Recites
<1>2. CASE api # "responses"
  <2>1. Following(r, v, n) /\ Books(api, r, n)
    BY <1>2 DEF Tracks, GoesOn
  <2>2. PICK bs : Telling(v, n, bs) /\ Matches(r, n.content, bs)
    BY <2>1 DEF Following
  <2>3. Telling(w, m, bs) /\ Matches(r, m.content, bs)
    BY <1>0, <2>2, TakesTelling
  <2>4. Books(api, r, m)
    BY <1>0, <2>1, BooksSame DEF Books
  <2>. QED BY <1>2, <2>3, <2>4 DEF Tracks, GoesOn, Following
<1>. QED BY <1>1, <1>2

\* A loop that begins has nothing yet of a reply that has not begun.
LEMMA TracksNothing ==
  ASSUME NEW api
  PROVE  Tracks(api, Reply, Open(<<>>), Machine)
<1>. DEFINE m == Machine
            r == Reply
            bs == <<>>
            v == Open(bs)
<1>1. Speaks(m) /\ m.out = <<>>
  BY MachineSpeaks DEF Speaks, Machine
<1>2. Telling(v, m, bs)
  BY <1>1, TellingStarts
<1>3. /\ r.blocks = <<>> /\ Len(r.blocks) = 0 /\ DOMAIN r.blocks = {} /\ r.stop = "none"
      /\ 1..Len(r.blocks) = {}
  BY DEF Reply
<1>4. /\ m.content = <<>> /\ Len(m.content) = 0 /\ DOMAIN m.content = {}
      /\ 1..Len(m.content) = {} /\ m.at = <<>> /\ m.buf = <<>>
      /\ DOMAIN m.at = {} /\ DOMAIN m.buf = {} /\ m.ended = {} /\ m.stop = "stop"
      /\ m.open = 0 /\ m.text = 0 /\ m.think = 0 /\ m.finish = "none" /\ m.saw = FALSE
  BY DEF Machine, Nothing
<1>5. DOMAIN bs = {}
  OBVIOUS
<1>. HIDE DEF m, r, bs, v
<1>6. Recites(r, v, m)
  <2>1. Seated(m, bs)
    BY <1>4, <1>5 DEF Seated
  <2>. QED BY <1>2, <1>3, <1>4, <2>1 DEF Recites, Recited
<1>7. Following(r, v, m)
  <2>1. Matches(r, m.content, bs)
    BY <1>3, <1>4, <1>5 DEF Matches
  <2>. QED BY <1>2, <2>1 DEF Following
<1>8. Tools(r) = {} /\ Current(r) = {} /\ ~HasTool(r)
  BY <1>3 DEF Tools, Current, HasTool
<1>9. Args(r, m) /\ Placed(m, Tools(r)) /\ Placed(m, 1..Len(r.blocks)) /\ StopFollows(r, m.stop)
  BY <1>3, <1>4, <1>8 DEF Args, Placed, StopFollows
<1>10. Running(r, 0) /\ \A kind : Only(r, kind, 0)
  BY <1>3, <1>8 DEF Running, Only
<1>11. MadeUp(r, m.content, m.think)
  BY <1>4, <1>8 DEF MadeUp
<1>12. Books(api, r, m)
  BY <1>3, <1>4, <1>8, <1>9, <1>10, <1>11
     DEF Books, AnthropicBooks, CompletionsBooks, MistralBooks, GeminiBooks, BedrockBooks
<1>. QED BY <1>6, <1>7, <1>12 DEF Tracks, GoesOn, m, r, v, bs

\* A terminal event reaches a consumer that waits for one.
LEMMA BreaksLawfully ==
  ASSUME NEW v, v = Unseen \/ (\E bs : v = Open(bs)), NEW reason, NEW message
  PROVE  \E bs : ConsumeAll(v, <<Failed(reason, message)>>) = Broken(bs, reason, message)
<1>. DEFINE e == Failed(reason, message)
<1>1. ConsumeAll(v, <<e>>) = Consume(v, e)
  BY OneEvent
<1>2. \E bs : Consume(v, e) = Broken(bs, reason, message)
  BY ConsumeEnd
<1>. HIDE DEF e
<1>3. \E bs : ConsumeAll(v, <<e>>) = Broken(bs, reason, message)
  BY <1>1, <1>2
<1>. QED BY <1>3 DEF e

\* What a Done vouches for.
Vouches(p, r, w) ==
  /\ AllShut(w.blocks, w.last.content)
  /\ p # "faux" => /\ r.complete /\ w.last.stop = w.reason
                   /\ Faithful(Dialect(p), r, w.last.content)
                   /\ Reasoned(Dialect(p), r, w.reason)

TaleInv ==
  /\ view.lawful
  /\ stage = "setup" => reply = Reply
  /\ (stage = "streaming" /\ ~dropped) => Tracks(Dialect(provider), reply, view, machine)
  /\ view.phase = "done" => stage = "over" /\ Vouches(provider, reply, view)

LEMMA TaleInit == Init => TaleInv
BY UnseenIs DEF Init, TaleInv

\* The stage is told apart by what the consumer heard.
LEMMA TaleWaits ==
  ASSUME StreamInv, TaleInv, stage # "over", ~dropped
  PROVE  view = Unseen \/ \E bs : view = Open(bs)
<1>1. CASE stage = "setup"
  BY <1>1 DEF StreamInv, SetupInv
<1>2. CASE stage = "streaming"
  <2>1. Tracks(Dialect(provider), reply, view, machine) /\ machine.out = <<>>
    BY <1>2 DEF StreamInv, LoopInv, TaleInv
  <2>2. PICK bs : Telling(view, machine, bs)
    BY <2>1, TracksTelling
  <2>. QED BY <2>1, <2>2, ConsumeNothing DEF Telling
<1>. QED BY <1>1, <1>2 DEF StreamInv, TaskInv

LEMMA ViewsAre ==
  ASSUME NEW bs, NEW reason, NEW message
  PROVE  /\ Over(bs, reason, message).lawful /\ Over(bs, reason, message).phase = "done"
         /\ Over(bs, reason, message).blocks = bs /\ Over(bs, reason, message).last = message
         /\ Over(bs, reason, message).reason = reason
         /\ Broken(bs, reason, message).lawful /\ Broken(bs, reason, message).phase = "error"
         /\ Open(bs).lawful /\ Open(bs).phase = "open"
BY DEF Over, Broken, Open

LEMMA TaleEnds ==
  ASSUME StreamInv, TaleInv, stage # "over", NEW reason, NEW message, stage' = "over",
         view' = IF dropped THEN view ELSE ConsumeAll(view, <<Failed(reason, message)>>)
  PROVE  TaleInv'
<1>1. view.phase # "done" /\ view.lawful
  BY DEF TaleInv
<1>2. CASE dropped
  BY <1>1, <1>2 DEF TaleInv
<1>3. CASE ~dropped
  <2>1. PICK bs : view' = Broken(bs, reason, message)
    BY <1>3, TaleWaits, BreaksLawfully
  <2>. QED BY <2>1, ViewsAre DEF TaleInv
<1>. QED BY <1>2, <1>3

LEMMA TaleBegins ==
  ASSUME StreamInv, TaleInv, StepDone
  PROVE  TaleInv'
<1>1. /\ stage = "setup"
      /\ UNCHANGED <<provider, machine, reply, token, dropped>>
      /\ IF Len(setup) > 1 THEN UNCHANGED <<stage, view>>
         ELSE stage' = "streaming" /\ Push(<<Started>>)
  BY DEF StepDone
<1>2. view = Unseen /\ machine = Machine /\ reply = Reply
  BY <1>1 DEF StreamInv, SetupInv, LoopInv, TaleInv
<1>3. CASE Len(setup) > 1
  BY <1>1, <1>3 DEF TaleInv
<1>4. CASE ~(Len(setup) > 1)
  <2>1. stage' = "streaming" /\ view' = IF dropped THEN view ELSE ConsumeAll(view, <<Started>>)
    BY <1>1, <1>4 DEF Push
  <2>2. ConsumeAll(Unseen, <<Started>>) = Open(<<>>)
    BY OneEvent, ConsumeStarted
  <2>. DEFINE bs == <<>>
  <2>3. view' = IF dropped THEN view ELSE Open(bs)
    BY <1>2, <2>1, <2>2
  <2>4. Tracks(Dialect(provider), reply, Open(bs), machine)
    BY <1>2, TracksNothing
  <2>5. view.lawful /\ view.phase # "done"
    BY <1>1 DEF TaleInv
  <2>. HIDE DEF bs
  <2>6. view'.lawful /\ view'.phase # "done" /\ (~dropped => view' = Open(bs))
    BY <2>3, <2>5, ViewsAre
  <2>. QED BY <1>1, <2>1, <2>4, <2>6 DEF TaleInv
<1>. QED BY <1>3, <1>4

LEMMA TaleReceives ==
  ASSUME StreamInv, TaleInv, Receive
  PROVE  TaleInv'
<1>1. PICK move \in Moves(d, reply) :
        LET next == After(move.event) IN
        /\ reply' = move.reply
        /\ Push(next.out)
        /\ IF next.over \/ dropped
           THEN stage' = "over" /\ machine' = Machine
           ELSE stage' = stage /\ machine' = [next EXCEPT !.out = <<>>]
  BY DEF Receive
<1>2. stage = "streaming" /\ UNCHANGED <<provider, dropped>>
  BY DEF Receive
<1>3. /\ provider # "faux" /\ IsReply(d, reply) /\ provider \in Providers
      /\ view.lawful /\ view.phase # "done"
  BY <1>2 DEF StreamInv, TaskInv, LoopInv, TaleInv, d
<1>. DEFINE n == After(move.event)
            q == move.reply
            e == move.event
<1>4. /\ view' = IF dropped THEN view ELSE ConsumeAll(view, n.out)
      /\ (n.over \/ dropped) => stage' = "over"
      /\ ~(n.over \/ dropped) => stage' = "streaming" /\ machine' = [n EXCEPT !.out = <<>>]
  BY <1>1, <1>2 DEF Push
<1>5. CASE dropped
  BY <1>2, <1>3, <1>4, <1>5 DEF TaleInv
<1>6. CASE ~dropped
  <2>1. Moved(d, reply, e, q) /\ IsReply(d, q)
    BY <1>3, MoveCases, ReplyStays
  <2>2. Tracks(d, reply, view, machine)
    BY <1>2, <1>6 DEF TaleInv, d
  <2>3. d \in AllDialects
    BY <1>3, ProvidersAre DEF d
  <2>. HIDE DEF q, e
  <2>4. Ensues(d, q, view, After(e))
    BY <1>3, <2>1, <2>2, <2>3, HandleTracks
  <2>5. reply' = q /\ n = After(e)
    BY <1>1 DEF q, e
  <2>. HIDE DEF n
  <2>6. Ensues(d, q, view, n) /\ view' = ConsumeAll(view, n.out)
    BY <1>4, <1>6, <2>4, <2>5
  <2>7. CASE Fails(view, n)
    <3>1. n.over /\ \E bs, reason, message : view' = Broken(bs, reason, message)
      BY <2>6, <2>7 DEF Fails
    <3>2. view'.lawful /\ view'.phase = "error"
      BY <3>1, ViewsAre
    <3>. QED BY <1>4, <3>1, <3>2 DEF TaleInv
  <2>8. CASE Completes(d, q, view, n)
    <3>1. PICK bs, content, reason :
            /\ view' = Over(bs, reason, Message(content, reason))
            /\ q.complete /\ Faithful(d, q, content) /\ Reasoned(d, q, reason)
            /\ AllShut(bs, content)
      BY <2>6, <2>8 DEF Completes
    <3>2. n.over
      BY <2>8 DEF Completes
    <3>. DEFINE message == Message(content, reason)
    <3>3. message.content = content /\ message.stop = reason
      BY DEF Message
    <3>. HIDE DEF message
    <3>4. /\ view'.lawful /\ view'.blocks = bs /\ view'.last = message /\ view'.reason = reason
      <4>1. view' = Over(bs, reason, message)
        BY <3>1 DEF message
      <4>. QED BY <4>1, ViewsAre
    <3>5. Vouches(provider', reply', view')
      BY <1>2, <2>5, <3>1, <3>3, <3>4 DEF Vouches, d
    <3>. QED BY <1>4, <3>2, <3>4, <3>5 DEF TaleInv
  <2>9. CASE Tracks(d, q, view, n)
    <3>1. PICK bs : Telling(view, n, bs)
      BY <2>9, TracksTelling
    <3>2. Speaks(n) /\ ~n.over /\ view' = Open(bs)
      BY <2>6, <3>1 DEF Telling, Speaks
    <3>3. machine' = [n EXCEPT !.out = <<>>] /\ stage' = "streaming"
      BY <1>4, <1>6, <3>2
    <3>4. Takes(view, n, view', machine')
      BY <2>6, <3>2, <3>3, TakesAll
    <3>5. Tracks(d, q, view', machine')
      BY <2>9, <3>4, TracksOn
    <3>6. view'.lawful /\ view'.phase # "done"
      BY <3>2, ViewsAre
    <3>. QED BY <1>2, <2>5, <3>3, <3>5, <3>6 DEF TaleInv, d
  <2>. QED BY <2>6, <2>7, <2>8, <2>9 DEF Ensues
<1>. QED BY <1>5, <1>6

LEMMA TaleReplays ==
  ASSUME StreamInv, TaleInv, Replay
  PROVE  TaleInv'
<1>1. PICK queue \in {<<>>} \cup {<<message>> : message \in FauxMessages} :
        view' = ConsumeAll(view, Double!Replay(Double!PopFront(queue)).out)
  BY DEF Replay
<1>2. stage = "setup" /\ provider = "faux" /\ stage' = "over" /\ UNCHANGED <<provider, reply>>
  BY DEF Replay
<1>. DEFINE message == Double!PopFront(queue)
            bs == Replayed(message.content, Len(message.content))
<1>3. Len(message.content) \in Nat /\ DOMAIN message.content = 1..Len(message.content)
  BY <1>1, ReplayedLength
<1>4. view = Unseen
  BY <1>2 DEF StreamInv, SetupInv
<1>5. PICK reason : view' = Over(bs, reason, message) \/ view' = Broken(bs, reason, message)
  <2>. HIDE DEF message
  <2>1. view' = ConsumeAll(Unseen, Double!Replay(message).out)
    BY <1>1, <1>4 DEF message
  <2>. QED BY <1>3, <2>1, ReplayIs
<1>. HIDE DEF message
<1>6. AllShut(bs, message.content)
  BY <1>3 DEF AllShut, Replayed, Shut
<1>. HIDE DEF bs
<1>7. /\ view'.lawful
      /\ view'.phase = "done" => view'.blocks = bs /\ view'.last = message
  BY <1>5, ViewsAre
<1>. QED BY <1>2, <1>6, <1>7 DEF TaleInv, Vouches

LEMMA TaleNext == StreamInv /\ TaleInv /\ [Next]_vars => TaleInv'
<1>. SUFFICES ASSUME StreamInv, TaleInv, [Next]_vars PROVE TaleInv'
  OBVIOUS
<1>1. CASE StepDone
  BY <1>1, TaleBegins
<1>2. CASE StepFailed
  BY <1>2, TaleEnds DEF StepFailed, PushError, EndWith, Push
<1>3. CASE StepAborted
  BY <1>3, TaleEnds DEF StepAborted, PushAborted, EndWith, Push
<1>4. CASE Receive
  BY <1>4, TaleReceives
<1>5. CASE Aborted
  BY <1>5, TaleEnds DEF Aborted, PushAborted, EndWith, Push
<1>6. CASE Replay
  BY <1>6, TaleReplays
<1>7. CASE Abort
  BY <1>7 DEF Abort, TaleInv
<1>8. CASE Drop
  BY <1>8 DEF Drop, TaleInv
<1>9. CASE UNCHANGED vars
  BY <1>9 DEF vars, TaleInv
<1>. QED BY <1>1, <1>2, <1>3, <1>4, <1>5, <1>6, <1>7, <1>8, <1>9 DEF Next

\* A block the consumer heard of is one of the message, told so far but for
\* what it may have begun with.
Firsts(api, r, m, i) ==
  {r.blocks[b].first : b \in {b \in DOMAIN m.at : api = "responses" /\ m.at[b] = i}}
Follows(api, c, w, firsts) ==
  /\ c.kind = w.kind
  /\ (c.kind # "tool" /\ ~(api = "responses" /\ c.kind = "thinking"))
       => \/ w.text = c.text
          \/ w.live /\ \E first \in firsts : c.text = first \o w.text
          \/ c.redacted

LEMMA ShownIs ==
  ASSUME NEW kind, NEW text
  PROVE  /\ Live(kind, text).kind = kind /\ Live(kind, text).text = text
         /\ Shut(kind, text).kind = kind /\ Shut(kind, text).text = text
         /\ Live(kind, text).live
BY DEF Live, Shut

LEMMA AgreesFollows ==
  ASSUME NEW api, NEW b, NEW s, s.kind \in Kinds \cup {"redacted"}, NEW c, NEW w,
         Agrees(b, s, c, w), NEW firsts
  PROVE  Follows(api, c, w, firsts)
<1>1. \A kind, text : Seen(s, kind, text).kind = kind
  BY ShownIs, Zenon DEF Seen
<1>2. CASE s.kind = "redacted"
  BY <1>1, <1>2 DEF Agrees, AgreesRedacted, Follows
<1>3. CASE s.kind = "tool"
  BY <1>1, <1>3 DEF Agrees, AgreesCall, Follows
<1>4. CASE s.kind \in Prose
  <2>1. c.kind = s.kind /\ c.text = s.sent /\ w = Seen(s, s.kind, s.sent)
    BY <1>4 DEF Agrees, AgreesProse
  <2>2. Seen(s, s.kind, s.sent).text = s.sent
    <3>1. \A kind, text : Seen(s, kind, text) \in {Live(kind, s.sent), Shut(kind, text)}
      BY Zenon DEF Seen
    <3>. QED BY <3>1, ShownIs
  <2>. QED BY <1>1, <2>1, <2>2 DEF Follows
<1>. QED BY <1>2, <1>3, <1>4 DEF Kinds, Prose

LEMMA ItemFollows ==
  ASSUME NEW b, NEW s, s.kind \in Kinds, NEW c, NEW w, NEW over \in BOOLEAN, NEW raw,
         Item(b, s, c, w, over, raw), NEW firsts, s.first \in firsts
  PROVE  Follows("responses", c, w, firsts)
<1>1. CASE s.kind = "text"
  <2>1. SpeaksText(b, s, c, w, over) /\ c.kind = "text"
    BY <1>1 DEF Item
  <2>2. CASE over
    BY <2>1, <2>2, ShownIs DEF SpeaksText, Follows
  <2>3. CASE ~over
    <3>1. HeardText(s, w) /\ c.text = s.sent
      BY <2>1, <2>3 DEF SpeaksText
    <3>2. PICK said : w = Live("text", said) /\ s.sent = s.first \o said
      BY <3>1 DEF HeardText
    <3>3. w.kind = "text" /\ w.text = said /\ w.live
      BY <3>2, ShownIs
    <3>. QED BY <2>1, <3>1, <3>2, <3>3 DEF Follows
  <2>. QED BY <2>2, <2>3
<1>2. CASE s.kind = "thinking"
  BY <1>2, ShownIs DEF Item, SpeaksThought, Follows
<1>3. CASE s.kind = "tool"
  BY <1>3, ShownIs DEF Item, SpeaksCall, Follows
<1>. QED BY <1>1, <1>2, <1>3 DEF Kinds

LEMMA TracksFollows ==
  ASSUME NEW api, NEW r, IsReply(api, r), NEW v, NEW m, Tracks(api, r, v, m), m.out = <<>>,
         NEW i \in DOMAIN v.blocks
  PROVE  /\ i \in DOMAIN m.content
         /\ Follows(api, m.content[i], v.blocks[i], Firsts(api, r, m, i))
<1>1. \A bs : Telling(v, m, bs) => v.blocks = bs
  BY ConsumeNothing DEF Telling, Open
<1>2. CASE api = "responses"
  <2>1. PICK bs : Recited(r, v, m, bs)
    BY <1>2 DEF Tracks, Recites
  <2>2. v.blocks = bs /\ i \in 1..Len(m.content) /\ Speaks(m)
    BY <1>1, <2>1 DEF Recited, Seated, Telling
  <2>3. PICK b \in DOMAIN m.at : m.at[b] = i
    BY <2>1, <2>2 DEF Recited, Seated
  <2>4. b \in 1..Len(r.blocks) /\ HeardOf(r, m, bs, b)
    BY <2>1 DEF Recited
  <2>5. Item(b, r.blocks[b], m.content[i], bs[i], Over1(m, b), Raw(m, b))
    BY <2>3, <2>4 DEF HeardOf
  <2>6. r.blocks[b].kind \in Kinds /\ Over1(m, b) \in BOOLEAN
    <3>1. r.blocks[b].kind \in Kinds \cup {"redacted"}
      BY <2>4 DEF IsReply, IsSaid
    <3>2. m.content[i].kind = r.blocks[b].kind
      BY <2>5 DEF Item
    <3>3. IsBlock(m.content[i])
      BY <2>5 DEF Item
    <3>. QED BY <3>2, <3>3 DEF IsBlock, Over1
  <2>61. r.blocks[b].first \in Firsts(api, r, m, i)
    BY <1>2, <2>3 DEF Firsts
  <2>7. Follows("responses", m.content[i], bs[i], Firsts(api, r, m, i))
    BY <2>5, <2>6, <2>61, ItemFollows
  <2>8. DOMAIN m.content = 1..Len(m.content)
    <3>1. IsSequence(m.content)
      BY <2>2 DEF Speaks, HasBlocks
    <3>. QED BY <3>1 DEF IsSequence
  <2>. QED BY <1>2, <2>2, <2>7, <2>8
<1>3. CASE api # "responses"
  <2>1. PICK bs : Telling(v, m, bs) /\ Matches(r, m.content, bs)
    BY <1>3 DEF Tracks, GoesOn, Following
  <2>2. v.blocks = bs /\ i \in 1..Len(r.blocks) /\ i \in DOMAIN m.content
    BY <1>1, <2>1 DEF Matches
  <2>3. Agrees(i, r.blocks[i], m.content[i], bs[i]) /\ r.blocks[i].kind \in Kinds \cup {"redacted"}
    BY <2>1, <2>2 DEF Matches, IsReply, IsSaid
  <2>. QED BY <2>2, <2>3, AgreesFollows
<1>. QED BY <1>2, <1>3

LEMMA TaleFollows == StreamInv /\ TaleInv => ConsumerFollows
<1>. SUFFICES ASSUME StreamInv, TaleInv PROVE ConsumerFollows
  OBVIOUS
<1>1. ASSUME stage = "streaming", ~dropped, NEW i \in DOMAIN view.blocks
      PROVE  /\ i \in DOMAIN machine.content
             /\ Follows(d, machine.content[i], view.blocks[i], Firsts(d, reply, machine, i))
  <2>1. IsReply(d, reply) /\ Tracks(d, reply, view, machine) /\ machine.out = <<>>
    BY <1>1 DEF StreamInv, TaskInv, LoopInv, TaleInv, d
  <2>. QED BY <1>1, <2>1, TracksFollows
<1>2. view.phase = "done" => AllShut(view.blocks, view.last.content)
  BY DEF TaleInv, Vouches
<1>3. \A i : Firsts(d, reply, machine, i) = Untold(i)
  BY DEF Firsts, Untold
<1>. QED BY <1>1, <1>2, <1>3 DEF ConsumerFollows, Follows, AllShut

LEMMA TaleFaithful == TaleInv => DoneIsFaithful
<1>. SUFFICES ASSUME TaleInv, view.phase = "done", provider # "faux"
              PROVE  LET content == view.last.content
                         calls == {i \in DOMAIN content : content[i].kind = "tool"}
                     IN /\ reply.complete
                        /\ SameBlocks(Said(d, reply), Delivered(content))
                        /\ RightReason(view.reason) /\ view.last.stop = view.reason
                        /\ \A i, j \in calls : content[i].id = content[j].id => i = j
  BY DEF DoneIsFaithful
<1>1. /\ reply.complete /\ view.last.stop = view.reason
      /\ Faithful(d, reply, view.last.content) /\ Reasoned(d, reply, view.reason)
  BY DEF TaleInv, Vouches, d
<1>2. SameBlocks(Said(d, reply), Delivered(view.last.content))
  BY <1>1, Zenon DEF Faithful, SameMessage, SameBlocks
<1>3. RightReason(view.reason)
  BY <1>1, Zenon DEF Reasoned, RightReason
<1>4. UniqueIds(view.last.content)
  BY <1>1 DEF Faithful
<1>. QED BY <1>1, <1>2, <1>3, <1>4 DEF UniqueIds

\* No handler of the six loops pushes an event out of its place, whatever the
\* vendor sends and wherever the token or the consumer ends the call: Start
\* comes first, the deltas and the End of a block after its Start, nothing
\* after the terminal event (AssistantMessageEvent, types.rs:592).
THEOREM ProtocolRespectedAlways == Spec => []ProtocolRespected
<1>1. TaleInv => ProtocolRespected
  BY DEF TaleInv, ProtocolRespected
<1>. QED BY <1>1, StreamInit, StreamNext, TaleInit, TaleNext, PTL DEF Spec

\* A Done is pushed only for a reply that came to its end, and its message
\* has every block with all its fragments in order, signature and id, and the
\* stop reason the vendor gave, for replies of any length and cut anyhow.
THEOREM DoneIsFaithfulAlways == Spec => []DoneIsFaithful
<1>. QED BY TaleFaithful, StreamInit, StreamNext, TaleInit, TaleNext, PTL DEF Spec

\* The events alone tell a consumer the message: what it has of a block is
\* what the loop has while the reply streams, but for the text a Responses
\* part was announced with, until its End; and at Done each block of the
\* message is there, ended, with the message's text.
THEOREM ConsumerFollowsAlways == Spec => []ConsumerFollows
<1>. QED BY TaleFollows, StreamInit, StreamNext, TaleInit, TaleNext, PTL DEF Spec
=============================================================================
