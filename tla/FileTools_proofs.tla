-------------------------- MODULE FileTools_proofs --------------------------
(***************************************************************************)
(* Proofs about FileTools, for every value of its constants: the types,    *)
(* and that a call nothing overlaps does what it reports.                  *)
(***************************************************************************)
EXTENDS FileTools, SequenceTheorems, FiniteSetTheorems,
        WellFoundedInduction, TLAPS

-----------------------------------------------------------------------------
(* Texts put together piece by piece. *)

LEMMA LeastNatural ==
  ASSUME NEW T, T \subseteq Nat, T # {}
  PROVE  \E n \in T : \A m \in T : n <= m
<1>. DEFINE R == OpToRel(<, Nat)
<1>1. IsWellFoundedOn(R, Nat)
  BY NatLessThanWellFounded
<1>2. \A m, n \in Nat : m < n => <<m, n>> \in R
  BY DEF OpToRel
<1>. HIDE DEF R
<1>3. PICK n \in T : \A m \in T : ~(<<m, n>> \in R)
  BY <1>1, WFMin
<1>4. ASSUME NEW m \in T PROVE n <= m
  <2>1. m \in Nat /\ n \in Nat
    OBVIOUS
  <2>2. ~(m < n)
    BY <1>2, <1>3, <2>1
  <2>. QED BY <2>1, <2>2
<1>. QED BY <1>4

\* f is what FlattenSeq defines for the first n pieces.
FlattensTo(f, pieces, n) ==
  f = [i \in 1..n |-> IF i = 1 THEN pieces[i] ELSE f[i - 1] \o pieces[i]]

LEMMA FlattenExists ==
  ASSUME NEW pieces, NEW n \in Nat
  PROVE  \E f : FlattensTo(f, pieces, n)
<1>. DEFINE T == {k \in Nat : ~\E f : FlattensTo(f, pieces, k)}
<1>1. 0 \notin T
  <2>. DEFINE f == [i \in 1..0 |-> pieces[i]]
  <2>1. FlattensTo(f, pieces, 0)
    BY DEF FlattensTo
  <2>. QED BY <2>1
<1>2. ASSUME NEW k \in Nat, k \notin T PROVE k + 1 \notin T
  <2>1. PICK f : FlattensTo(f, pieces, k)
    BY <1>2
  <2>. DEFINE g == [i \in 1..k + 1 |->
                      IF i = 1 THEN pieces[i]
                      ELSE IF i = k + 1 THEN f[k] \o pieces[i] ELSE f[i]]
  <2>2. \A i \in 1..k : f[i] = IF i = 1 THEN pieces[i] ELSE f[i - 1] \o pieces[i]
    BY <2>1 DEF FlattensTo
  <2>3. ASSUME NEW i \in 1..k + 1
        PROVE  g[i] = IF i = 1 THEN pieces[i] ELSE g[i - 1] \o pieces[i]
    <3>1. CASE i = 1
      BY <3>1
    <3>2. CASE i # 1 /\ i = k + 1
      <4>1. i - 1 = k /\ k \in 1..k + 1 /\ k # k + 1 /\ k \in 1..k
        BY <3>2
      <4>2. g[k] = f[k]
        BY <2>2, <4>1
      <4>. QED BY <3>2, <4>1, <4>2
    <3>3. CASE i # 1 /\ i # k + 1
      <4>1. i \in 1..k /\ i - 1 \in 1..k /\ i - 1 \in 1..k + 1 /\ i - 1 # k + 1
        BY <3>3
      <4>2. g[i - 1] = f[i - 1] /\ g[i] = f[i]
        BY <2>2, <3>3, <4>1
      <4>. QED BY <2>2, <3>3, <4>1, <4>2
    <3>. QED BY <3>1, <3>2, <3>3
  <2>4. g = [i \in 1..k + 1 |-> g[i]]
    OBVIOUS
  <2>. HIDE DEF g
  <2>5. FlattensTo(g, pieces, k + 1)
    BY <2>3, <2>4 DEF FlattensTo
  <2>. QED BY <2>5
<1>3. T = {}
  <2>. SUFFICES ASSUME T # {} PROVE FALSE
    OBVIOUS
  <2>1. PICK k \in T : \A m \in T : k <= m
    BY LeastNatural
  <2>. HIDE DEF T
  <2>2. k \in Nat
    BY <2>1 DEF T
  <2>3. k # 0 /\ k - 1 \in Nat /\ (k - 1) + 1 = k
    BY <1>1, <2>1, <2>2
  <2>4. k - 1 \notin T
    BY <2>1, <2>2
  <2>. QED BY <1>2, <2>1, <2>3, <2>4
<1>. QED BY <1>3

LEMMA FlattenStep ==
  ASSUME NEW pieces, Len(pieces) \in Nat, Len(pieces) # 0
  PROVE  \E f :
           /\ FlattenSeq(pieces) = f[Len(pieces)]
           /\ \A i \in 1..Len(pieces) :
                f[i] = IF i = 1 THEN pieces[i] ELSE f[i - 1] \o pieces[i]
<1>. DEFINE f == CHOOSE g : FlattensTo(g, pieces, Len(pieces))
<1>1. FlattensTo(f, pieces, Len(pieces))
  BY FlattenExists
<1>2. FlattenSeq(pieces) = f[Len(pieces)]
  BY DEF FlattenSeq, FlattensTo
<1>. HIDE DEF f
<1>. QED BY <1>1, <1>2 DEF FlattensTo

-----------------------------------------------------------------------------
(* Where the lines of an edited text are. *)

LEMMA EditedLengths ==
  ASSUME NEW t \in Texts, NEW r \in EditRequests
  PROVE  /\ EditedLength(t, r, 0) = 0
         /\ \A n \in Nat : EditedLength(t, r, n) \in Nat
         /\ \A n \in Nat : EditedLength(t, r, n + 1) =
              EditedLength(t, r, n) + (IF t[n + 1] = r.old THEN Len(r.new) ELSE 1)
<1>. DEFINE hits(n) == {i \in 1..n : t[i] = r.old}
            count(n) == Cardinality(hits(n))
<1>1. Len(r.new) \in Nat
  BY DEF EditRequests, Texts
<1>2. ASSUME NEW n \in Nat
      PROVE  IsFiniteSet(hits(n)) /\ count(n) \in Nat /\ count(n) <= n
  <2>1. IsFiniteSet(1..n) /\ Cardinality(1..n) = n
    BY FS_Interval
  <2>2. hits(n) \in SUBSET (1..n)
    OBVIOUS
  <2>. HIDE DEF hits
  <2>3. IsFiniteSet(hits(n)) /\ count(n) <= n
    BY <2>1, <2>2, FS_Subset
  <2>. QED BY <2>3, FS_CardinalityType
<1>3. hits(0) = {}
  OBVIOUS
<1>4. ASSUME NEW n \in Nat
      PROVE  count(n + 1) = IF t[n + 1] = r.old THEN count(n) + 1 ELSE count(n)
  <2>1. n + 1 \notin hits(n)
    OBVIOUS
  <2>2. hits(n + 1) = IF t[n + 1] = r.old THEN hits(n) \cup {n + 1} ELSE hits(n)
    OBVIOUS
  <2>. HIDE DEF hits
  <2>. QED BY <1>2, <2>1, <2>2, FS_AddElement
<1>5. \A n : EditedLength(t, r, n) = n - count(n) + Len(r.new) * count(n)
  BY DEF EditedLength
<1>6. count(0) = 0
  BY <1>3, FS_EmptySet
<1>. HIDE DEF hits, count
<1>7. ASSUME NEW n \in Nat
      PROVE  \E k, p \in Nat : /\ k = count(n) /\ k <= n
                              /\ p = Len(r.new) * count(n)
                              /\ EditedLength(t, r, n) = n - k + p
  <2>1. PICK k \in Nat : k = count(n) /\ k <= n
    BY <1>2
  <2>2. PICK l \in Nat : l = Len(r.new)
    BY <1>1
  <2>3. l * k \in Nat
    OBVIOUS
  <2>4. EditedLength(t, r, n) = n - k + l * k
    BY <1>5, <2>1, <2>2, Zenon
  <2>. QED BY <2>1, <2>2, <2>3, <2>4
<1>8. ASSUME NEW n \in Nat
      PROVE  /\ EditedLength(t, r, n) \in Nat
             /\ EditedLength(t, r, n + 1) =
                  EditedLength(t, r, n) + (IF t[n + 1] = r.old THEN Len(r.new) ELSE 1)
  <2>1. PICK l \in Nat : l = Len(r.new)
    BY <1>1
  <2>2. PICK k, p \in Nat : /\ k = count(n) /\ k <= n /\ p = l * k
                           /\ EditedLength(t, r, n) = n - k + p
    BY <1>7, <2>1
  <2>3. l * (k + 1) = p + l
    BY <2>2
  <2>4. n + 1 \in Nat
    OBVIOUS
  <2>5. PICK e \in Nat : e = EditedLength(t, r, n) /\ e = n - k + p
    BY <2>2
  <2>6. CASE t[n + 1] = r.old
    <3>1. EditedLength(t, r, n + 1) = (n + 1) - (k + 1) + (p + l)
      <4>1. count(n + 1) = k + 1
        BY <1>4, <2>2, <2>6
      <4>2. EditedLength(t, r, n + 1) = (n + 1) - count(n + 1) + l * count(n + 1)
        BY <1>5, <2>1, Zenon
      <4>3. l * count(n + 1) = p + l
        BY <2>3, <4>1
      <4>. QED BY <4>1, <4>2, <4>3, Zenon
    <3>2. EditedLength(t, r, n + 1) = e + l
      BY <2>5, <3>1
    <3>. QED BY <2>1, <2>5, <2>6, <3>2
  <2>7. CASE t[n + 1] # r.old
    <3>1. EditedLength(t, r, n + 1) = (n + 1) - k + p
      <4>1. count(n + 1) = k
        BY <1>4, <2>2, <2>7
      <4>2. EditedLength(t, r, n + 1) = (n + 1) - count(n + 1) + l * count(n + 1)
        BY <1>5, <2>1, Zenon
      <4>. QED BY <2>2, <4>1, <4>2, Zenon
    <3>2. EditedLength(t, r, n + 1) = e + 1
      BY <2>5, <3>1
    <3>. QED BY <2>5, <2>7, <3>2
  <2>. QED BY <2>5, <2>6, <2>7
<1>9. EditedLength(t, r, 0) = 0
  BY <1>1, <1>5, <1>6
<1>. QED BY <1>8, <1>9

LEMMA TextFields ==
  ASSUME NEW t \in Texts
  PROVE  Len(t) \in Nat /\ DOMAIN t = 1..Len(t) /\ \A i \in 1..Len(t) : t[i] \in Lines
BY LenProperties, ElementOfSeq DEF Texts

\* What the edit makes of the first i lines has every one of them in place: so
\* it has what is made of the next one.
LEMMA ReplacedIsEdit ==
  ASSUME NEW t \in Texts, NEW r \in EditRequests,
         IF r.replace_all THEN Matches(t, r.old) # {}
         ELSE \E i \in DOMAIN t : Matches(t, r.old) = {i}
  PROVE  LET u == Replaced(t, r.old, r.new) IN u \in Texts /\ IsEdit(t, u, r)
<1>. DEFINE n == Len(t)
            E(i) == EditedLength(t, r, i)
            piece(i) == IF t[i] = r.old THEN r.new ELSE <<t[i]>>
            pieces == [i \in DOMAIN t |-> piece(i)]
            u == Replaced(t, r.old, r.new)
<1>1. n \in Nat /\ n # 0 /\ DOMAIN t = 1..n
  BY TextFields DEF Matches
<1>2. ASSUME NEW i \in 1..n
      PROVE  piece(i) \in Texts /\ DOMAIN piece(i) = 1..Len(piece(i)) /\ Len(piece(i)) \in Nat
  <2>1. <<t[i]>> \in Texts
    BY TextFields DEF Texts
  <2>2. piece(i) \in Texts
    BY <2>1 DEF EditRequests
  <2>. QED BY <2>2, TextFields
<1>3. /\ E(0) = 0
      /\ \A i \in 0..n : E(i) \in Nat
      /\ \A i \in 1..n : E(i) = E(i - 1) + Len(piece(i))
  <2>1. \A i \in 0..n : i \in Nat
    OBVIOUS
  <2>2. ASSUME NEW i \in 1..n PROVE E(i) = E(i - 1) + Len(piece(i))
    <3>1. PICK m \in Nat : m = i - 1 /\ i = m + 1
      OBVIOUS
    <3>2. Len(piece(i)) = IF t[i] = r.old THEN Len(r.new) ELSE 1
      OBVIOUS
    <3>3. E(m + 1) = E(m) + (IF t[m + 1] = r.old THEN Len(r.new) ELSE 1)
      BY EditedLengths
    <3>. HIDE DEF E, piece
    <3>. QED BY <3>1, <3>2, <3>3
  <2>. QED BY <2>1, <2>2, EditedLengths
<1>4. Len(pieces) = n /\ \A i \in 1..n : pieces[i] = piece(i)
  BY <1>1
<1>5. u = FlattenSeq(pieces)
  BY DEF Replaced
<1>. HIDE DEF pieces, u
<1>6. PICK f :
        /\ u = f[n]
        /\ \A i \in 1..n : f[i] = IF i = 1 THEN piece(i) ELSE f[i - 1] \o piece(i)
  BY <1>1, <1>4, <1>5, FlattenStep
<1>. HIDE DEF piece, E
<1>. DEFINE InPlace(i) ==
              /\ f[i] \in Texts /\ Len(f[i]) = E(i)
              /\ \A j \in 1..i : E(j) <= E(i)
              /\ \A j \in 1..i : \A k \in 1..Len(piece(j)) : f[i][E(j - 1) + k] = piece(j)[k]
<1>7. InPlace(1)
  <2>1. 1 \in 1..n /\ 1 - 1 = 0 /\ \A j \in 1..1 : j = 1
    BY <1>1
  <2>2. f[1] = piece(1) /\ E(1) = Len(piece(1)) /\ E(1) \in Nat
    BY <1>2, <1>3, <1>6, <2>1
  <2>3. \A k \in 1..Len(piece(1)) : E(0) + k = k
    BY <1>2, <1>3, <2>1
  <2>. QED BY <1>2, <1>3, <2>1, <2>2, <2>3
<1>8. ASSUME NEW i \in 2..n, InPlace(i - 1) PROVE InPlace(i)
  <2>1. i \in 1..n /\ i - 1 \in 1..n /\ i # 1 /\ i \in 0..n /\ i - 1 \in 0..n
    BY <1>1
  <2>2. f[i] = f[i - 1] \o piece(i)
    BY <1>6, <2>1
  <2>3. PICK a \in Nat, b \in Nat : a = E(i - 1) /\ b = Len(piece(i)) /\ E(i) = a + b
    <3>1. E(i - 1) \in Nat /\ E(i) = E(i - 1) + Len(piece(i))
      BY <1>3, <2>1
    <3>2. Len(piece(i)) \in Nat
      BY <1>2, <2>1
    <3>. QED BY <3>1, <3>2
  <2>4. f[i - 1] \in Seq(Lines) /\ piece(i) \in Seq(Lines) /\ Len(f[i - 1]) = a
    BY <1>2, <1>8, <2>1, <2>3 DEF Texts
  <2>5. /\ f[i] \in Seq(Lines) /\ Len(f[i]) = a + b
        /\ \A k \in 1..a + b : f[i][k] = IF k <= a THEN f[i - 1][k] ELSE piece(i)[k - a]
    <3>. DEFINE x == f[i - 1]
                y == piece(i)
    <3>1. /\ x \in Seq(Lines) /\ y \in Seq(Lines) /\ f[i] = x \o y
          /\ Len(x) = a /\ Len(y) = b
      BY <2>2, <2>3, <2>4
    <3>. HIDE DEF x, y
    <3>2. f[i] \in Seq(Lines) /\ Len(f[i]) = a + b
      BY <3>1, ConcatProperties
    <3>3. \A k \in 1..a + b : f[i][k] = IF k <= a THEN x[k] ELSE y[k - a]
      BY <3>1, ConcatProperties
    <3>. QED BY <3>2, <3>3 DEF x, y
  <2>6. ASSUME NEW j \in 1..i PROVE E(j) <= E(i)
    <3>1. CASE j = i
      BY <1>3, <2>1, <3>1
    <3>2. CASE j # i
      <4>1. j \in 1..i - 1 /\ j \in 0..n
        BY <1>1, <3>2
      <4>2. E(j) <= a
        BY <1>8, <2>3, <4>1
      <4>. QED BY <1>3, <2>3, <4>1, <4>2
    <3>. QED BY <3>1, <3>2
  <2>7. ASSUME NEW j \in 1..i, NEW k \in 1..Len(piece(j))
        PROVE  f[i][E(j - 1) + k] = piece(j)[k]
    <3>1. CASE j = i
      <4>1. a + k \in 1..a + b /\ ~(a + k <= a) /\ (a + k) - a = k
        BY <2>3, <3>1
      <4>. QED BY <2>3, <2>5, <3>1, <4>1
    <3>2. CASE j # i
      <4>1. j \in 1..i - 1 /\ j \in 1..n /\ j - 1 \in 0..n /\ j \in 0..n
        BY <1>1, <3>2
      <4>2. PICK c \in Nat, d \in Nat : c = E(j - 1) /\ d = Len(piece(j)) /\ E(j) = c + d
        BY <1>2, <1>3, <4>1
      <4>3. c + d <= a
        BY <1>8, <2>3, <4>1, <4>2
      <4>4. c + k \in 1..a + b /\ c + k <= a
        BY <4>2, <4>3
      <4>5. f[i - 1][c + k] = piece(j)[k]
        BY <1>8, <4>1, <4>2
      <4>. QED BY <2>5, <4>2, <4>4, <4>5
    <3>. QED BY <3>1, <3>2
  <2>. QED BY <2>3, <2>5, <2>6, <2>7 DEF Texts
<1>9. InPlace(n)
  <2>. DEFINE T == {i \in 1..n : ~InPlace(i)}
  <2>. HIDE DEF InPlace
  <2>1. T = {}
    <3>. SUFFICES ASSUME T # {} PROVE FALSE
      OBVIOUS
    <3>1. T \subseteq Nat
      BY <1>1
    <3>2. PICK k \in T : \A m \in T : k <= m
      BY <3>1, LeastNatural
    <3>3. k \in 1..n /\ ~InPlace(k)
      OBVIOUS
    <3>4. k # 1 /\ k \in 2..n /\ k - 1 \in 1..n /\ ~(k <= k - 1)
      BY <1>1, <1>7, <3>3
    <3>5. InPlace(k - 1)
      BY <3>2, <3>4
    <3>. QED BY <1>8, <3>3, <3>4, <3>5
  <2>. QED BY <1>1, <2>1
<1>10. u \in Texts /\ Len(u) = E(n)
  BY <1>6, <1>9
<1>11. ASSUME NEW i \in DOMAIN t
       PROVE  LET lines == IF t[i] = r.old THEN r.new ELSE <<t[i]>>
              IN  \A k \in DOMAIN lines : u[EditedLength(t, r, i - 1) + k] = lines[k]
  <2>1. i \in 1..n /\ DOMAIN piece(i) = 1..Len(piece(i))
    BY <1>1, <1>2
  <2>2. \A k \in DOMAIN piece(i) : u[E(i - 1) + k] = piece(i)[k]
    BY <1>6, <1>9, <2>1
  <2>. QED BY <2>2 DEF piece, E
<1>. QED BY <1>10, <1>11 DEF IsEdit, E, u

-----------------------------------------------------------------------------
(* The types. *)

CallRecords ==
  [pc : {"idle", "read", "mkdir", "write", "writing", "done"},
   request : Requests \cup {NoRequest},
   text : Texts,
   outcome : {"none", "success", "error", "failed", "cancelled"}]

JobRecords ==
  [stage : {"none", "queued", "opened", "finished", "failed"}, text : Texts]

\* What an invocation has done so far, and a file that is open is there.
CallOK(c) ==
  LET pc == calls[c].pc
      r == calls[c].request
      stage == jobs[c].stage
  IN  /\ pc # "idle" => r \in Requests
      /\ pc \in {"idle", "read", "mkdir", "write"} => stage = "none"
      /\ pc = "read" => r.tool \in {"read_file", "edit_file"}
      /\ pc = "mkdir" => r.tool = "write_file"
      /\ pc = "writing" => stage # "none"
      /\ stage = "opened" => file # NoFile

CallsOK == \A c \in Calls : CallOK(c)

LEMMA RequestFields ==
  ASSUME NEW r \in Requests
  PROVE  /\ r.tool \in {"read_file", "write_file", "edit_file"}
         /\ r.tool = "read_file" => r \in ReadRequests
         /\ r.tool = "write_file" => r \in WriteRequests /\ r.content \in Texts
         /\ r.tool = "edit_file" => r \in EditRequests /\ r.new \in Texts
BY FilesAssumption DEF ReadRequests, WriteRequests, EditRequests

LEMMA SelectedIsText ==
  ASSUME NEW t \in Texts, NEW r \in ReadRequests
  PROVE  Selected(t, r) \in Texts
<1>. DEFINE last == IF r.offset + r.limit - 1 < Len(t) THEN r.offset + r.limit - 1 ELSE Len(t)
<1>1. Len(t) \in Nat /\ \A i \in 1..Len(t) : t[i] \in Lines
  BY TextFields
<1>2. r.offset \in Nat \ {0} /\ r.limit \in Nat \ {0}
  BY DEF ReadRequests
<1>3. r.offset \in Int /\ last \in Int /\ r.offset..last \subseteq 1..Len(t)
  BY <1>1, <1>2
<1>4. \A i \in r.offset..last : t[i] \in Lines
  BY <1>1, <1>3
<1>5. Selected(t, r) = SubSeq(t, r.offset, last)
  BY DEF Selected
<1>. HIDE DEF last
<1>. QED BY <1>3, <1>4, <1>5, SubSeqProperties DEF Texts

LEMMA OverlayIsText ==
  ASSUME NEW u \in Texts, NEW t \in Texts
  PROVE  LET o == Overlay(u, t) IN o \in Texts /\ (t = <<>> => o = u)
<1>. DEFINE rest == SubSeq(t, Len(u) + 1, Len(t))
<1>1. Len(u) \in Nat /\ Len(t) \in Nat /\ \A i \in 1..Len(t) : t[i] \in Lines
  BY TextFields
<1>2. Len(u) + 1 \in Int /\ Len(t) \in Int /\ Len(u) + 1..Len(t) \subseteq 1..Len(t)
  BY <1>1
<1>3. rest \in Seq(Lines)
  BY <1>1, <1>2, SubSeqProperties
<1>4. t = <<>> => rest = <<>>
  <2>. SUFFICES ASSUME t = <<>> PROVE rest = <<>>
    OBVIOUS
  <2>1. Len(t) = 0
    OBVIOUS
  <2>2. Len(t) < Len(u) + 1
    BY <1>1, <2>1
  <2>. QED BY <1>2, <2>2, SubSeqEmpty
<1>5. Overlay(u, t) = u \o rest
  BY DEF Overlay
<1>. HIDE DEF rest
<1>6. u \o rest \in Seq(Lines) /\ u \o <<>> = u
  BY <1>3, ConcatProperties, ConcatEmptySeq DEF Texts
<1>. QED BY <1>4, <1>5, <1>6 DEF Texts

\* FinishEdit goes on with what the reference finds.
LEMMA EditFinds ==
  ASSUME NEW t \in Texts, NEW r \in EditRequests,
         Cardinality(Matches(t, r.old)) # 0,
         ~(Cardinality(Matches(t, r.old)) > 1 /\ ~r.replace_all)
  PROVE  IF r.replace_all THEN Matches(t, r.old) # {}
         ELSE \E i \in DOMAIN t : Matches(t, r.old) = {i}
<1>. DEFINE M == Matches(t, r.old)
<1>1. M \subseteq 1..Len(t) /\ DOMAIN t = 1..Len(t) /\ Len(t) \in Nat
  BY TextFields DEF Matches
<1>. HIDE DEF M
<1>2. IsFiniteSet(M) /\ Cardinality(M) \in Nat
  <2>1. IsFiniteSet(1..Len(t))
    BY <1>1, FS_Interval
  <2>2. M \in SUBSET (1..Len(t))
    BY <1>1
  <2>3. IsFiniteSet(M)
    BY <2>1, <2>2, FS_Subset
  <2>. QED BY <2>3, FS_CardinalityType
<1>3. M # {}
  BY FS_EmptySet DEF M
<1>4. CASE ~r.replace_all
  <2>1. Cardinality(M) = 1
    BY <1>2, <1>4 DEF M
  <2>2. PICK i : M = {i}
    BY <1>2, <2>1, FS_Singleton
  <2>. QED BY <1>1, <1>4, <2>2 DEF M
<1>. QED BY <1>3, <1>4 DEF M

-----------------------------------------------------------------------------
(* A call that nothing overlaps. *)

\* What the job of an invocation that started on t holds, what it leaves in
\* the file at each stage, and what the invocation may report of it.
Undisturbed(c) ==
  LET pc == calls[c].pc
      r == calls[c].request
      stage == jobs[c].stage
  IN  /\ pc # "idle"
      /\ pc = "mkdir" => calls[c].text = r.content
      /\ pc = "write" => Does(r, before, calls[c].text)
      /\ stage # "none" => Does(r, before, jobs[c].text)
      /\ stage \in {"none", "queued"} => file = before
      /\ stage = "opened" => file = <<>>
      /\ stage = "failed" => file = before \/ file \in BeginningOf(jobs[c].text)
      /\ stage = "finished" => file = jobs[c].text
      /\ pc = "done" => /\ calls[c].outcome = "success" =>
                             \/ stage = "finished"
                             \/ stage = "none" /\ r.tool = "read_file"
                        /\ calls[c].outcome = "error" => stage = "none"

AloneOK ==
  \A c \in Calls : alone = c =>
    /\ Undisturbed(c)
    /\ \A d \in Calls \ {c} : ~Running(d) /\ ~Pending(d)

FilesInv == FilesTypeOK /\ CallsOK /\ AloneOK

\* It is enough to look at the invocation that moves: were it overlapping the
\* one that is alone, that one would not be.
LEMMA OnlyOneMoves ==
  ASSUME FilesInv, FilesTypeOK', NEW c \in Calls, Running(c) \/ Pending(c),
         alone' = alone, before' = before,
         \A d \in Calls \ {c} : calls'[d] = calls[d] /\ jobs'[d] = jobs[d],
         file' = file \/ file' # NoFile,
         CallOK(c)', alone = c => Undisturbed(c)'
  PROVE  FilesInv'
<1>1. ASSUME NEW d \in Calls PROVE CallOK(d)'
  <2>1. CASE d # c
    <3>1. CallOK(d) /\ calls'[d] = calls[d] /\ jobs'[d] = jobs[d]
      BY <2>1 DEF FilesInv, CallsOK
    <3>. QED BY <3>1 DEF CallOK
  <2>2. CASE d = c
    BY <2>2 DEF CallOK
  <2>. QED BY <2>1, <2>2
<1>2. ASSUME NEW d \in Calls, alone' = d
      PROVE  Undisturbed(d)' /\ \A e \in Calls \ {d} : ~Running(e)' /\ ~Pending(e)'
  <2>1. \A e \in Calls \ {d} : ~Running(e) /\ ~Pending(e)
    BY <1>2 DEF FilesInv, AloneOK
  <2>2. d = c
    BY <2>1
  <2>3. \A e \in Calls \ {d} : ~Running(e)' /\ ~Pending(e)'
    BY <2>1, <2>2 DEF Running, Pending
  <2>. QED BY <1>2, <2>2, <2>3
<1>3. CallsOK'
  BY <1>1 DEF CallsOK
<1>4. AloneOK'
  BY <1>2 DEF AloneOK
<1>. QED BY <1>3, <1>4 DEF FilesInv

\* The records of the invocation that moves.
LEMMA CallMoves ==
  ASSUME FilesTypeOK, NEW c \in Calls, NEW u \in CallRecords,
         calls' = [calls EXCEPT ![c] = u],
         UNCHANGED <<file, jobs, cancelled, alone, before>>,
         u.pc = "writing" => jobs[c].stage # "none"
  PROVE  /\ FilesTypeOK' /\ calls'[c] = u /\ jobs'[c] = jobs[c]
         /\ \A d \in Calls \ {c} : calls'[d] = calls[d] /\ jobs'[d] = jobs[d]
BY DEF FilesTypeOK, CallRecords

LEMMA JobMoves ==
  ASSUME FilesTypeOK, NEW c \in Calls, NEW j \in JobRecords,
         jobs' = [jobs EXCEPT ![c] = j], j.stage # "none",
         file' \in Texts \cup {NoFile},
         UNCHANGED <<calls, cancelled, alone, before>>
  PROVE  /\ FilesTypeOK' /\ calls'[c] = calls[c] /\ jobs'[c] = j
         /\ \A d \in Calls \ {c} : calls'[d] = calls[d] /\ jobs'[d] = jobs[d]
BY DEF FilesTypeOK, JobRecords

\* What FilesInv says of the records of one invocation.
LEMMA Records ==
  ASSUME FilesInv, NEW c \in Calls
  PROVE  /\ calls[c] \in CallRecords /\ jobs[c] \in JobRecords
         /\ file \in Texts \cup {NoFile} /\ CallOK(c)
         /\ alone = c => Undisturbed(c)
BY DEF FilesInv, FilesTypeOK, CallsOK, AloneOK, CallRecords, JobRecords

LEMMA FinishFields ==
  ASSUME FilesInv, NEW c \in Calls,
         NEW o \in {"success", "error", "failed", "cancelled"}, Finish(c, o)
  PROVE  \E u \in CallRecords :
           /\ calls' = [calls EXCEPT ![c] = u]
           /\ u.pc = "done" /\ u.outcome = o /\ u.request = calls[c].request
<1>. DEFINE u == [calls[c] EXCEPT !.pc = "done", !.outcome = o]
<1>1. calls[c] \in CallRecords
  BY Records
<1>2. u \in CallRecords /\ u.pc = "done" /\ u.outcome = o /\ u.request = calls[c].request
  BY <1>1 DEF CallRecords
<1>3. calls' = [calls EXCEPT ![c] = u]
  BY DEF Finish
<1>. HIDE DEF u
<1>. QED BY <1>2, <1>3

\* An invocation that is done has left its job, and the file, as they are.
LEMMA Finishes ==
  ASSUME FilesInv, NEW c \in Calls, Running(c),
         NEW o \in {"success", "error", "failed", "cancelled"}, Finish(c, o),
         UNCHANGED <<file, jobs, cancelled, alone, before>>,
         o = "success" => \/ jobs[c].stage = "finished"
                          \/ jobs[c].stage = "none" /\ calls[c].request.tool = "read_file",
         o = "error" => jobs[c].stage = "none"
  PROVE  FilesInv'
<1>1. PICK u \in CallRecords :
        /\ calls' = [calls EXCEPT ![c] = u]
        /\ u.pc = "done" /\ u.outcome = o /\ u.request = calls[c].request
  BY FinishFields
<1>2. /\ FilesTypeOK' /\ calls'[c] = u /\ jobs'[c] = jobs[c]
      /\ \A d \in Calls \ {c} : calls'[d] = calls[d] /\ jobs'[d] = jobs[d]
  BY <1>1, CallMoves DEF FilesInv
<1>3. CallOK(c)'
  BY <1>1, <1>2, Records DEF CallOK, Running
<1>4. alone = c => Undisturbed(c)'
  BY <1>1, <1>2, Records DEF Undisturbed
<1>. QED BY <1>2, <1>3, <1>4, OnlyOneMoves

LEMMA FinishReadKeeps ==
  ASSUME FilesInv, NEW c \in Calls, FinishRead(c)
  PROVE  FilesInv'
<1>. DEFINE shown == Selected(file, calls[c].request)
<1>1. /\ Running(c) /\ jobs[c].stage = "none" /\ calls[c].request \in Requests
      /\ calls[c].request.tool = "read_file" /\ file \in Texts
      /\ UNCHANGED <<file, jobs, cancelled, alone, before>>
  BY Records DEF FinishRead, CallOK, Running
<1>2. CASE Finish(c, "failed") \/ Finish(c, "error")
  BY <1>1, <1>2, Finishes
<1>3. CASE calls' = [calls EXCEPT ![c].pc = "done", ![c].outcome = "success",
                                  ![c].text = shown]
  <2>. DEFINE u == [calls[c] EXCEPT !.pc = "done", !.outcome = "success", !.text = shown]
  <2>1. shown \in Texts
    BY <1>1, RequestFields, SelectedIsText
  <2>. HIDE DEF shown
  <2>2. /\ u \in CallRecords /\ u.pc = "done" /\ u.outcome = "success"
        /\ u.request = calls[c].request
    BY <2>1, Records DEF CallRecords
  <2>3. calls' = [calls EXCEPT ![c] = u]
    BY <1>3
  <2>. HIDE DEF u
  <2>4. /\ FilesTypeOK' /\ calls'[c] = u /\ jobs'[c] = jobs[c]
        /\ \A d \in Calls \ {c} : calls'[d] = calls[d] /\ jobs'[d] = jobs[d]
    BY <1>1, <2>2, <2>3, CallMoves DEF FilesInv
  <2>5. CallOK(c)'
    BY <1>1, <2>2, <2>4, Records DEF CallOK
  <2>6. alone = c => Undisturbed(c)'
    BY <1>1, <2>2, <2>4, Records DEF Undisturbed
  <2>. QED BY <1>1, <2>4, <2>5, <2>6, OnlyOneMoves
<1>. QED BY <1>2, <1>3 DEF FinishRead

LEMMA FinishEditKeeps ==
  ASSUME FilesInv, NEW c \in Calls, FinishEdit(c)
  PROVE  FilesInv'
<1>. DEFINE r == calls[c].request
            count == Cardinality(Matches(file, r.old))
            text == Replaced(file, r.old, r.new)
<1>1. /\ Running(c) /\ jobs[c].stage = "none" /\ calls[c].pc = "read"
      /\ r \in Requests /\ r.tool = "edit_file" /\ file \in Texts /\ file # NoFile
      /\ UNCHANGED <<file, jobs, cancelled, alone, before>>
  BY Records DEF FinishEdit, CallOK, Running
<1>2. CASE Finish(c, "failed") \/ Finish(c, "error")
  BY <1>1, <1>2, Finishes
<1>3. CASE /\ Decodes(file) /\ ~(count = 0 \/ (count > 1 /\ ~r.replace_all))
           /\ calls' = [calls EXCEPT ![c].pc = "write", ![c].text = text]
  <2>. DEFINE u == [calls[c] EXCEPT !.pc = "write", !.text = text]
  <2>1. r \in EditRequests
    BY <1>1, RequestFields
  <2>2. text \in Texts /\ IsEdit(file, text, r)
    BY <1>1, <1>3, <2>1, EditFinds, ReplacedIsEdit
  <2>3. Does(r, file, text)
    BY <1>1, <1>3, <2>2 DEF Does
  <2>. HIDE DEF text
  <2>4. u \in CallRecords /\ u.pc = "write" /\ u.text = text /\ u.request = r
    BY <2>2, Records DEF CallRecords
  <2>5. calls' = [calls EXCEPT ![c] = u]
    BY <1>3
  <2>. HIDE DEF u
  <2>6. /\ FilesTypeOK' /\ calls'[c] = u /\ jobs'[c] = jobs[c]
        /\ \A d \in Calls \ {c} : calls'[d] = calls[d] /\ jobs'[d] = jobs[d]
    BY <1>1, <2>4, <2>5, CallMoves DEF FilesInv
  <2>7. CallOK(c)'
    BY <1>1, <2>4, <2>6 DEF CallOK
  <2>8. alone = c => Undisturbed(c)'
    BY <1>1, <2>3, <2>4, <2>6, Records DEF Undisturbed
  <2>. QED BY <1>1, <2>6, <2>7, <2>8, OnlyOneMoves
<1>. QED BY <1>2, <1>3 DEF FinishEdit

LEMMA CreateParentKeeps ==
  ASSUME FilesInv, NEW c \in Calls, CreateParent(c)
  PROVE  FilesInv'
<1>. DEFINE u == [calls[c] EXCEPT !.pc = "write"]
            r == calls[c].request
<1>1. /\ Running(c) /\ jobs[c].stage = "none" /\ calls[c].pc = "mkdir"
      /\ r \in Requests /\ r.tool = "write_file"
      /\ UNCHANGED <<file, jobs, cancelled, alone, before>>
  BY Records DEF CreateParent, CallOK, Running
<1>2. /\ u \in CallRecords /\ u.pc = "write" /\ u.request = r /\ u.text = calls[c].text
      /\ calls' = [calls EXCEPT ![c] = u]
  BY Records DEF CallRecords, CreateParent
<1>. HIDE DEF u
<1>3. /\ FilesTypeOK' /\ calls'[c] = u /\ jobs'[c] = jobs[c]
      /\ \A d \in Calls \ {c} : calls'[d] = calls[d] /\ jobs'[d] = jobs[d]
  BY <1>1, <1>2, CallMoves DEF FilesInv
<1>4. CallOK(c)'
  BY <1>1, <1>2, <1>3 DEF CallOK
<1>5. alone = c => Does(r, before, u.text)
  BY <1>1, <1>2, Records DEF Undisturbed, Does
<1>6. alone = c => Undisturbed(c)'
  BY <1>1, <1>2, <1>3, <1>5, Records DEF Undisturbed
<1>. QED BY <1>1, <1>3, <1>4, <1>6, OnlyOneMoves

LEMMA SubmitWriteKeeps ==
  ASSUME FilesInv, NEW c \in Calls, SubmitWrite(c)
  PROVE  FilesInv'
<1>. DEFINE u == [calls[c] EXCEPT !.pc = "writing"]
            j == [stage |-> "queued", text |-> calls[c].text]
<1>1. /\ Running(c) /\ jobs[c].stage = "none" /\ calls[c].pc = "write"
      /\ calls[c].request \in Requests
      /\ UNCHANGED <<file, cancelled, alone, before>>
  BY Records DEF SubmitWrite, CallOK, Running
<1>2. /\ u \in CallRecords /\ u.pc = "writing" /\ u.request = calls[c].request
      /\ j \in JobRecords /\ j.stage = "queued" /\ j.text = calls[c].text
      /\ calls' = [calls EXCEPT ![c] = u] /\ jobs' = [jobs EXCEPT ![c] = j]
  BY Records DEF CallRecords, JobRecords, SubmitWrite
<1>. HIDE DEF u, j
<1>3. /\ calls'[c] = u /\ jobs'[c] = j
      /\ \A d \in Calls \ {c} : calls'[d] = calls[d] /\ jobs'[d] = jobs[d]
  BY <1>2 DEF FilesInv, FilesTypeOK
<1>4. FilesTypeOK'
  BY <1>1, <1>2 DEF FilesInv, FilesTypeOK, CallRecords, JobRecords
<1>5. CallOK(c)'
  BY <1>1, <1>2, <1>3 DEF CallOK
<1>6. alone = c => Undisturbed(c)'
  BY <1>1, <1>2, <1>3, Records DEF Undisturbed
<1>. QED BY <1>1, <1>3, <1>4, <1>5, <1>6, OnlyOneMoves

LEMMA WriteReturnsKeeps ==
  ASSUME FilesInv, NEW c \in Calls, WriteReturns(c)
  PROVE  FilesInv'
<1>1. /\ Running(c) /\ jobs[c].stage \in {"finished", "failed"}
      /\ UNCHANGED <<file, jobs, cancelled, alone, before>>
  BY Records DEF WriteReturns, CallOK, Running, Pending, JobRecords
<1>2. CASE jobs[c].stage = "finished" /\ Finish(c, "success")
  BY <1>1, <1>2, Finishes
<1>3. CASE Finish(c, "failed")
  BY <1>1, <1>3, Finishes
<1>. QED BY <1>2, <1>3 DEF WriteReturns

\* A step of std::fs::write: the job gets on, and leaves what it should.
LEMMA JobSteps ==
  ASSUME FilesInv, NEW c \in Calls, NEW j \in JobRecords, Pending(c),
         jobs' = [jobs EXCEPT ![c] = j], j.text = jobs[c].text,
         j.stage \in {"opened", "finished", "failed"},
         file' \in Texts \/ (file' = file /\ j.stage = "failed"),
         UNCHANGED <<calls, cancelled, alone, before>>,
         alone = c => /\ j.stage = "opened" => file' = <<>>
                      /\ j.stage = "failed" => file' = before \/ file' \in BeginningOf(j.text)
                      /\ j.stage = "finished" => file' = j.text
  PROVE  FilesInv'
<1>1. /\ FilesTypeOK' /\ calls'[c] = calls[c] /\ jobs'[c] = j
      /\ \A d \in Calls \ {c} : calls'[d] = calls[d] /\ jobs'[d] = jobs[d]
  BY JobMoves, Records DEF FilesInv
<1>2. NoFile \notin Texts
  BY FilesAssumption
<1>3. jobs[c].stage # "none" /\ calls[c].pc \notin {"idle", "read", "mkdir", "write"}
  BY Records DEF Pending, CallOK
<1>4. CallOK(c)'
  BY <1>1, <1>2, <1>3, Records DEF CallOK
<1>5. ASSUME alone = c PROVE Undisturbed(c)'
  <2>1. calls[c].pc = "done" => calls[c].outcome \notin {"success", "error"}
    BY <1>3, <1>5, Records DEF Undisturbed, Pending
  <2>. QED BY <1>1, <1>3, <1>5, <2>1, Records DEF Undisturbed
<1>. QED BY <1>1, <1>2, <1>4, <1>5, OnlyOneMoves

LEMMA JobGetsOn ==
  ASSUME FilesInv, NEW c \in Calls, NEW stage \in {"opened", "finished", "failed"},
         jobs' = [jobs EXCEPT ![c].stage = stage]
  PROVE  \E j \in JobRecords :
           jobs' = [jobs EXCEPT ![c] = j] /\ j.text = jobs[c].text /\ j.stage = stage
<1>. DEFINE j == [jobs[c] EXCEPT !.stage = stage]
<1>1. j \in JobRecords /\ j.stage = stage /\ j.text = jobs[c].text
  BY Records DEF JobRecords
<1>2. jobs' = [jobs EXCEPT ![c] = j]
  OBVIOUS
<1>. HIDE DEF j
<1>. QED BY <1>1, <1>2

LEMMA OpenFileKeeps ==
  ASSUME FilesInv, NEW c \in Calls, OpenFile(c)
  PROVE  FilesInv'
<1>1. PICK j \in JobRecords :
        jobs' = [jobs EXCEPT ![c] = j] /\ j.text = jobs[c].text /\ j.stage = "opened"
  BY JobGetsOn DEF OpenFile
<1>2. Pending(c) /\ file' = <<>> /\ UNCHANGED <<calls, cancelled, alone, before>>
  BY DEF OpenFile, Pending
<1>3. file' \in Texts
  BY <1>2, EmptySeq DEF Texts
<1>4. /\ j.stage = "opened" => file' = <<>>
      /\ j.stage # "failed" /\ j.stage # "finished"
  BY <1>1, <1>2
<1>. QED BY <1>1, <1>2, <1>3, <1>4, JobSteps

LEMMA WriteBytesKeeps ==
  ASSUME FilesInv, NEW c \in Calls, WriteBytes(c)
  PROVE  FilesInv'
<1>1. PICK j \in JobRecords :
        jobs' = [jobs EXCEPT ![c] = j] /\ j.text = jobs[c].text /\ j.stage = "finished"
  BY JobGetsOn DEF WriteBytes
<1>2. /\ Pending(c) /\ jobs[c].stage = "opened"
      /\ file' = Overlay(jobs[c].text, file)
      /\ UNCHANGED <<calls, cancelled, alone, before>>
  BY DEF WriteBytes, Pending
<1>3. file \in Texts /\ jobs[c].text \in Texts
  BY <1>2, Records DEF CallOK, JobRecords
<1>4. file' \in Texts /\ (file = <<>> => file' = j.text)
  BY <1>1, <1>2, <1>3, OverlayIsText
<1>5. alone = c => file' = j.text
  BY <1>2, <1>4, Records DEF Undisturbed
<1>6. j.stage # "opened" /\ j.stage # "failed"
  BY <1>1
<1>. QED BY <1>1, <1>2, <1>4, <1>5, <1>6, JobSteps

LEMMA OpenFailsKeeps ==
  ASSUME FilesInv, NEW c \in Calls, OpenFails(c)
  PROVE  FilesInv'
<1>1. PICK j \in JobRecords :
        jobs' = [jobs EXCEPT ![c] = j] /\ j.text = jobs[c].text /\ j.stage = "failed"
  BY JobGetsOn DEF OpenFails
<1>2. Pending(c) /\ file' = file /\ UNCHANGED <<calls, cancelled, alone, before>>
  BY DEF OpenFails, Pending
<1>3. alone = c => file' = before
  BY <1>2, Records DEF OpenFails, Undisturbed
<1>4. j.stage # "opened" /\ j.stage # "finished"
  BY <1>1
<1>. QED BY <1>1, <1>2, <1>3, <1>4, JobSteps

LEMMA BeginningIsText ==
  ASSUME NEW t \in Texts, NEW n \in 0 .. Len(t) - 1
  PROVE  SubSeq(t, 1, n) \in Texts
<1>1. Len(t) \in Nat /\ \A i \in 1..Len(t) : t[i] \in Lines
  BY TextFields
<1>2. 1 \in Int /\ n \in Int /\ 1..n \subseteq 1..Len(t)
  BY <1>1
<1>3. \A i \in 1..n : t[i] \in Lines
  BY <1>1, <1>2
<1>. QED BY <1>2, <1>3, SubSeqProperties DEF Texts

LEMMA WriteFailsKeeps ==
  ASSUME FilesInv, NEW c \in Calls, WriteFails(c)
  PROVE  FilesInv'
<1>1. PICK j \in JobRecords :
        jobs' = [jobs EXCEPT ![c] = j] /\ j.text = jobs[c].text /\ j.stage = "failed"
  BY JobGetsOn DEF WriteFails
<1>2. /\ Pending(c) /\ jobs[c].stage = "opened"
      /\ UNCHANGED <<calls, cancelled, alone, before>>
  BY DEF WriteFails, Pending
<1>3. file \in Texts /\ jobs[c].text \in Texts
  BY <1>2, Records DEF CallOK, JobRecords
<1>4. PICK n \in 0 .. Len(jobs[c].text) - 1 :
        file' = Overlay(SubSeq(jobs[c].text, 1, n), file)
  BY DEF WriteFails
<1>5. SubSeq(jobs[c].text, 1, n) \in Texts
  BY <1>3, BeginningIsText
<1>6. file' \in Texts /\ (file = <<>> => file' = SubSeq(jobs[c].text, 1, n))
  BY <1>3, <1>4, <1>5, OverlayIsText
<1>7. SubSeq(jobs[c].text, 1, n) \in BeginningOf(j.text)
  BY <1>1 DEF BeginningOf
<1>8. alone = c => file' \in BeginningOf(j.text)
  BY <1>2, <1>6, <1>7, Records DEF Undisturbed
<1>9. j.stage # "opened" /\ j.stage # "finished"
  BY <1>1
<1>. QED BY <1>1, <1>2, <1>6, <1>8, <1>9, JobSteps

\* An invocation that starts when all is at rest is alone.
LEMMA StartKeeps ==
  ASSUME FilesInv, NEW c \in Calls, NEW r \in Requests, Start(c, r)
  PROVE  FilesInv'
<1>1. /\ calls[c].pc = "idle" /\ jobs[c].stage = "none"
      /\ before' = file /\ alone' = (IF AtRest THEN c ELSE NoCall)
      /\ UNCHANGED <<file, jobs, cancelled>>
  BY Records DEF Start, CallOK
<1>2. PICK u \in CallRecords :
        /\ calls' = [calls EXCEPT ![c] = u] /\ u.request = r
        /\ u.pc \in {"mkdir", "write", "read", "done"}
        /\ u.pc \in {"mkdir", "write"} => r.tool = "write_file" /\ u.text = r.content
        /\ u.pc = "read" => r.tool \in {"read_file", "edit_file"}
        /\ u.pc = "done" => u.outcome = "error"
  <2>1. PICK pc \in {"mkdir", "write", "read", "done"} :
          /\ pc \in {"mkdir", "write"} => r.tool = "write_file"
          /\ pc = "read" => r.tool \in {"read_file", "edit_file"}
          /\ calls' = [calls EXCEPT ![c] =
                   [pc |-> pc, request |-> r,
                    text |-> IF r.tool = "write_file" THEN r.content ELSE <<>>,
                    outcome |-> IF pc = "done" THEN "error" ELSE "none"]]
    <3>1. CASE r.tool = "write_file"
      BY <3>1 DEF Start
    <3>2. CASE r.tool = "read_file"
      BY <3>2 DEF Start
    <3>3. CASE r.tool = "edit_file"
      BY <3>3 DEF Start
    <3>. QED BY <3>1, <3>2, <3>3, RequestFields
  <2>. DEFINE u == [pc |-> pc, request |-> r,
                    text |-> IF r.tool = "write_file" THEN r.content ELSE <<>>,
                    outcome |-> IF pc = "done" THEN "error" ELSE "none"]
  <2>2. u \in CallRecords
    BY RequestFields, EmptySeq DEF CallRecords, Texts
  <2>. QED BY <2>1, <2>2
<1>3. /\ calls'[c] = u /\ jobs'[c] = jobs[c] /\ jobs' = jobs
      /\ \A d \in Calls \ {c} : calls'[d] = calls[d]
  BY <1>1, <1>2 DEF FilesInv, FilesTypeOK
<1>4. FilesTypeOK'
  BY <1>1, <1>2 DEF FilesInv, FilesTypeOK, CallRecords
<1>5. ASSUME NEW d \in Calls PROVE CallOK(d)'
  <2>1. CASE d = c
    BY <1>1, <1>2, <1>3, <2>1 DEF CallOK
  <2>2. CASE d # c
    BY <1>1, <1>3, <2>2, Records DEF CallOK
  <2>. QED BY <2>1, <2>2
<1>6. ASSUME NEW d \in Calls, alone' = d
      PROVE  Undisturbed(d)' /\ \A e \in Calls \ {d} : ~Running(e)' /\ ~Pending(e)'
  <2>1. d = c /\ AtRest
    BY <1>1, <1>6, FilesAssumption
  <2>2. \A e \in Calls \ {d} : ~Running(e)' /\ ~Pending(e)'
    BY <1>3, <2>1 DEF AtRest, Running, Pending
  <2>3. u.pc = "write" => Does(r, file, u.text)
    BY <1>2 DEF Does
  <2>4. Undisturbed(d)'
    BY <1>1, <1>2, <1>3, <2>1, <2>3 DEF Undisturbed
  <2>. QED BY <2>2, <2>4
<1>7. CallsOK'
  BY <1>5 DEF CallsOK
<1>8. AloneOK'
  BY <1>6 DEF AloneOK
<1>. QED BY <1>4, <1>7, <1>8 DEF FilesInv

LEMMA FilesInit == Init => FilesInv
<1>. SUFFICES ASSUME Init PROVE FilesInv
  OBVIOUS
<1>1. <<>> \in Texts
  BY EmptySeq DEF Texts
<1>2. FilesTypeOK
  BY <1>1, FilesAssumption DEF Init, FilesTypeOK, NotStarted, NoJob, NoRequest
<1>3. CallsOK
  BY DEF Init, CallsOK, CallOK, NotStarted, NoJob
<1>4. AloneOK
  BY FilesAssumption DEF Init, AloneOK
<1>. QED BY <1>2, <1>3, <1>4 DEF FilesInv

LEMMA FilesNext == FilesInv /\ [Next]_vars => FilesInv'
<1>. SUFFICES ASSUME FilesInv, [Next]_vars PROVE FilesInv'
  OBVIOUS
<1>1. ASSUME NEW c \in Calls, NEW r \in Requests, Start(c, r) PROVE FilesInv'
  BY <1>1, StartKeeps
<1>2. ASSUME NEW c \in Calls, FinishRead(c) \/ FinishEdit(c) PROVE FilesInv'
  BY <1>2, FinishReadKeeps, FinishEditKeeps
<1>3. ASSUME NEW c \in Calls, CreateParent(c) \/ SubmitWrite(c) \/ WriteReturns(c)
      PROVE  FilesInv'
  BY <1>3, CreateParentKeeps, SubmitWriteKeeps, WriteReturnsKeeps
<1>4. ASSUME NEW c \in Calls, IoFails(c) PROVE FilesInv'
  <2>1. Running(c) /\ Finish(c, "failed") /\ UNCHANGED <<file, jobs, cancelled, alone, before>>
    BY <1>4 DEF IoFails, Running
  <2>. QED BY <2>1, Finishes
<1>5. ASSUME NEW c \in Calls, TakeCancel(c) PROVE FilesInv'
  <2>1. Running(c) /\ Finish(c, "cancelled") /\ UNCHANGED <<file, jobs, cancelled, alone, before>>
    BY <1>5 DEF TakeCancel
  <2>. QED BY <2>1, Finishes
<1>6. ASSUME NEW c \in Calls,
             OpenFile(c) \/ WriteBytes(c) \/ OpenFails(c) \/ WriteFails(c)
      PROVE  FilesInv'
  BY <1>6, OpenFileKeeps, WriteBytesKeeps, OpenFailsKeeps, WriteFailsKeeps
<1>7. ASSUME UNCHANGED <<file, calls, jobs, alone, before>>, cancelled' \in BOOLEAN
      PROVE  FilesInv'
  BY <1>7 DEF FilesInv, FilesTypeOK, CallsOK, CallOK, AloneOK, Undisturbed, Running, Pending
<1>8. CASE CancelBatch \/ NextBatch
  BY <1>7, <1>8 DEF CancelBatch, NextBatch
<1>9. CASE UNCHANGED vars
  BY <1>7, <1>9 DEF vars, FilesInv, FilesTypeOK
<1>. QED BY <1>1, <1>2, <1>3, <1>4, <1>5, <1>6, <1>8, <1>9 DEF Next

THEOREM FileInvariant == Spec => []FilesInv
<1>. QED BY FilesInit, FilesNext, PTL DEF Spec

\* The variables keep their types: no tool takes bytes for text or opens what
\* is not there, and an invocation that awaits fs::write has submitted it.
THEOREM FileTypesCorrect == Spec => []FilesTypeOK
<1>1. FilesInv => FilesTypeOK
  BY DEF FilesInv
<1>. QED BY <1>1, FileInvariant, PTL

(***************************************************************************)
(* A call of a file tool that overlaps no other, and no write that one     *)
(* left behind, does what it reports, whatever its request, the file, and  *)
(* the moment the batch is cancelled or the disk fails: on success exactly *)
(* what was asked, on an error nothing; and a failed or cancelled call     *)
(* leaves the file alone or, where its write was under way, a beginning of *)
(* what was asked or all of it.                                            *)
(***************************************************************************)
THEOREM AloneCallIsExact == Spec => []AloneIsExact
<1>1. ASSUME FilesInv, NEW c \in Calls, alone = c, calls[c].pc = "done"
      PROVE  LET r == calls[c].request
                 stage == jobs[c].stage
                 text == jobs[c].text
                 o == calls[c].outcome
             IN  /\ o = "success" => Does(r, before, file)
                 /\ o = "error" => file = before
                 /\ o \notin {"success", "error"} =>
                      \/ stage \in {"none", "queued", "failed"} /\ file = before
                      \/ /\ Does(r, before, text)
                         /\ \/ stage = "opened" /\ file = <<>>
                            \/ stage = "failed" /\ file \in BeginningOf(text)
                            \/ stage = "finished" /\ file = text
  <2>1. Undisturbed(c)
    BY <1>1, Records
  <2>2. jobs[c].stage \in {"none", "queued", "opened", "finished", "failed"}
    BY <1>1, Records DEF JobRecords
  <2>3. file = before /\ calls[c].request.tool = "read_file" =>
          Does(calls[c].request, before, file)
    BY DEF Does
  <2>4. jobs[c].stage = "finished" => Does(calls[c].request, before, file)
    BY <2>1 DEF Undisturbed
  <2>. QED BY <1>1, <2>1, <2>2, <2>3, <2>4 DEF Undisturbed
<1>2. FilesInv => AloneIsExact
  BY <1>1 DEF AloneIsExact
<1>. QED BY <1>2, FileInvariant, PTL

=============================================================================
