------------------------- MODULE ProviderMachine -------------------------
(***************************************************************************)
(* The local variables of a provider's streaming loop                      *)
(* (crates/ai/src/providers) and the steps the loops share.  A handler of  *)
(* a wire event maps the machine to the next one; the events it pushes are *)
(* appended to `out`, and `over` says that the loop returned.              *)
(*                                                                         *)
(* The vendor names its blocks by an item id, an output index or a block   *)
(* index: here by a number of its own.  Which field of the machine a       *)
(* dialect uses is said in the dialect's module.                           *)
(***************************************************************************)
EXTENDS AssistantStream, FiniteSets, Functions

Nothing == <<>>

\* at: vendor's block to content index, and buf: to the arguments collected
\* (HashMaps); ended: content indices whose End was sent; open, text, think:
\* content index of the open, the text and the thinking block, 0 for None;
\* finish: the finish reason the vendor gave; saw: saw_terminal or saw_done.
Machine ==
  [content |-> <<>>, stop |-> "stop", at |-> Nothing, buf |-> Nothing,
   ended |-> {}, open |-> 0, text |-> 0, think |-> 0, finish |-> "none",
   saw |-> FALSE, out |-> <<>>, over |-> FALSE]

Emit(m, e) == [m EXCEPT !.out = Append(@, e)]
EmitOpened(m, i) == Emit(m, Opened(i, m.content[i].kind))
EmitEnded(m, i) == Emit(m, Ended(i, m.content[i]))
EmitAllEnded(m, order) ==
  [m EXCEPT !.out = @ \o [j \in DOMAIN order |->
                           Ended(order[j], m.content[order[j]])]]
Finished(m, e) == [Emit(m, e) EXCEPT !.over = TRUE]

Known(map, k) == k \in DOMAIN map
Lookup(map, k, default) == IF Known(map, k) THEN map[k] ELSE default

\* A new block at the end of the message, and its index.
NextIndex(m) == Len(m.content) + 1
Add(m, block) == [m EXCEPT !.content = Append(@, block)]

Is(m, i, kind) == i \in DOMAIN m.content /\ m.content[i].kind = kind

\* push_str on the block at i, when there is one of that kind.
Extend(m, i, kind, text) ==
  IF Is(m, i, kind) THEN [m EXCEPT !.content[i].text = @ \o text] ELSE m

\* The collected arguments, parsed into the call at i.  parse_partial_json
\* closes what is still open in the fragments; empty input is no object and
\* leaves the arguments empty.
Parsed(block, raw) ==
  IF block.kind = "tool" /\ raw # <<>> THEN [block EXCEPT !.text = raw]
  ELSE block
Parse(m, i, raw) ==
  IF i \in DOMAIN m.content
  THEN [m EXCEPT !.content[i] = Parsed(@, raw)] ELSE m

\* The arguments of every call, where they are collected by its index.
Arguments(m, i) ==
  LET of == {k \in DOMAIN m.at \cap DOMAIN m.buf : m.at[k] = i} IN
  IF of = {} THEN <<>> ELSE m.buf[CHOOSE k \in of : TRUE]
ParseCalls(m) ==
  [m EXCEPT !.content =
     [i \in DOMAIN @ |-> Parsed(@[i], Arguments(m, i))]]

\* In the order a BTreeMap has its keys in.
Ascending(S) ==
  CHOOSE s \in [1..Cardinality(S) -> S] :
    \A i, j \in DOMAIN s : i < j => s[i] < s[j]

Collect(m, k, text) ==
  [m EXCEPT !.buf = Put(@, k, Lookup(@, k, <<>>) \o text)]

\* A stream that stopped before the vendor ended the reply.
Incomplete(m) == Finished(m, Failed("error", Message(m.content, "error")))

\* The terminal event for the message's stop reason.
Conclude(m) ==
  IF m.stop = "error" THEN Incomplete(m)
  ELSE Finished(m, Done(DoneReason(m.stop), Message(m.content, m.stop)))
==========================================================================
