-------------------------- MODULE AwsEventStream --------------------------
(***************************************************************************)
(* The decoder of AWS event-stream frames (crates/ai/src/utils/            *)
(* aws_eventstream.rs).  The body is a sequence of symbols: the prelude of *)
(* a frame says its length in symbols, with its own, that of its headers,  *)
(* and whether they tell the type of an event; any other symbol is         *)
(* payload.  A length below 16 bytes is 0 here.                            *)
(***************************************************************************)
EXTENDS Integers, Sequences, SequencesExt

Frames == [buf |-> <<>>, ended |-> FALSE]

Prelude(total, headers, type) ==
  [total |-> total, headers |-> headers, type |-> type]

\* try_decode: a frame is there when all of it is.  One that is too short
\* blocks those behind it.
Ready(s) ==
  /\ s.buf # <<>>
  /\ Head(s.buf).total > 0 /\ Len(s.buf) >= Head(s.buf).total

\* Headers longer than the frame make it a message of an error.
Malformed == [name |-> <<"malformed">>, data |-> <<>>]
Next(s) ==
  LET prelude == Head(s.buf) IN
  IF prelude.headers > prelude.total - 1 THEN Malformed
  ELSE [name |-> prelude.type,
        data |-> SubSeq(s.buf, 2 + prelude.headers, prelude.total)]
Rest(s) ==
  [s EXCEPT !.buf = SubSeq(@, Head(@).total + 1, Len(@))]

Read(s, chunk) == [s EXCEPT !.buf = @ \o chunk]
ReadEnd(s) == [s EXCEPT !.ended = TRUE]

\* What is left of a frame at the end of the body is dropped.
Flushed(s) == s

----------------------------------------------------------------------------
\* The reference: frames one after the other, up to the first that is too
\* short or cut off.
Starts(body) ==
  LET begin[k \in 1..(Len(body) + 1)] ==
        IF k = 1 THEN 1
        ELSE LET p == begin[k - 1] IN
             IF p = 0 \/ p > Len(body) THEN 0
             ELSE IF body[p].total = 0 \/ p + body[p].total - 1 > Len(body)
                  THEN 0 ELSE p + body[p].total
      last == CHOOSE k \in DOMAIN begin :
                /\ \A j \in 1..k : begin[j] # 0
                /\ k + 1 \in DOMAIN begin => begin[k + 1] = 0
  IN SubSeq(begin, 1, last)
Decoded(body) ==
  LET at == Starts(body) IN
  [k \in 1..(Len(at) - 1) |-> Next([Frames EXCEPT !.buf =
                                      SubSeq(body, at[k], at[k + 1] - 1)])]
===========================================================================
