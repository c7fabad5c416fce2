---------------------------- MODULE SseDecoder ----------------------------
(***************************************************************************)
(* The Server-Sent-Events parser (crates/ai/src/utils/sse.rs).  The body   *)
(* is a sequence of symbols: "lf", "cr", "bad" (bytes that are no UTF-8),  *)
(* the beginnings of a line "event:", "data:" and ":", and whatever else   *)
(* stands for a value.                                                     *)
(***************************************************************************)
EXTENDS Integers, Sequences, SequencesExt

\* SseEvent: the data lines are joined with a newline.
NoName == <<>>
NoEvent == [name |-> NoName, data |-> <<>>]
Sse == [buf |-> <<>>, current |-> NoEvent, pending |-> <<>>, ended |-> FALSE]

FlushCurrent(s) ==
  IF s.current = NoEvent THEN s
  ELSE [s EXCEPT !.pending = Append(@, s.current), !.current = NoEvent]

\* A line that is no UTF-8 counts as empty; the end of a line may have any
\* number of "cr".
Text(line) ==
  IF "bad" \in Range(line) THEN <<>>
  ELSE LET isCr(i) == \A j \in i..Len(line) : line[j] = "cr"
           kept == {i \in 0..Len(line) : isCr(i + 1)}
       IN SubSeq(line, 1, CHOOSE i \in kept : \A j \in kept : i <= j)

\* An empty line ends an event; comments and other fields are left out.
OnLine(s, line) ==
  LET text == Text(line) IN
  IF text = <<>> THEN FlushCurrent(s)
  ELSE CASE Head(text) = "event:" -> [s EXCEPT !.current.name = <<Tail(text)>>]
         [] Head(text) = "data:"  ->
              [s EXCEPT !.current.data =
                 (IF @ = <<>> THEN @ ELSE Append(@, "lf")) \o Tail(text)]
         [] OTHER -> s

\* drain_lines: each complete line of the buffer, one after the other; what
\* follows the last stays.
LineStart(buf, n) ==
  CHOOSE i \in 1..n : /\ i = 1 \/ buf[i - 1] = "lf"
                      /\ \A j \in i..(n - 1) : buf[j] # "lf"
Drained(s) ==
  LET buf == s.buf
      after[n \in 0..Len(buf)] ==
        IF n = 0 THEN s
        ELSE IF buf[n] # "lf" THEN after[n - 1]
        ELSE OnLine(after[n - 1], SubSeq(buf, LineStart(buf, n), n - 1))
  IN after
DrainLines(s) ==
  LET n == Len(s.buf) IN
  [Drained(s)[n] EXCEPT !.buf = SubSeq(@, LineStart(@, n + 1), n)]

\* poll_next in its parts.  The events of a chunk come out of the vector's
\* end, and are turned round for it; nothing is read while some are left.
\* MUTANT: the events of a chunk are not turned round.
ReadUnturned(s, chunk) == DrainLines([s EXCEPT !.buf = @ \o chunk])
Read(s, chunk) ==
  [DrainLines([s EXCEPT !.buf = @ \o chunk]) EXCEPT !.pending = Reverse(@)]
ReadEnd(s) ==
  IF s.buf = <<>> THEN [s EXCEPT !.ended = TRUE]
  ELSE [Read(s, <<"lf">>) EXCEPT !.ended = TRUE]

Ready(s) == s.pending # <<>>
Next(s) == Last(s.pending)
Rest(s) == [s EXCEPT !.pending = Front(@)]

\* At the end of the body an event not ended by an empty line comes too.
Flushed(s) == FlushCurrent(s)

----------------------------------------------------------------------------
\* The reference: the body as a whole, line by line.
Decoded(body) ==
  FlushCurrent(DrainLines([Sse EXCEPT !.buf = Append(body, "lf")])).pending
===========================================================================
