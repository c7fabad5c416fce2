---------------------------- MODULE TransportMC ----------------------------
(* The instance of Transport for TLC. *)
EXTENDS Transport

CONSTANTS caller, t1, t2

\* A word of 16 bits: a delay of 65 s can be told in milliseconds, one of 66
\* cannot.
SomeLimits == [retries : {0, 1, 2}, cap : {0, 1000, 100000}]
NoRetry == {[retries |-> 0, cap |-> 1000]}

\* The jobs of the other threads, and the API the caller asks for.
Lookup(api) == [op |-> "lookup", api |-> api]
Clear == [op |-> "clear", api |-> None]
RegisterJob(api) == [op |-> "register", api |-> api]
UnregisterJob(source) == [op |-> "unregister", api |-> None, source |-> source]
First == {RegisterJob(a) : a \in Apis} \cup {Clear}
Second == {Lookup("b"), Clear, UnregisterJob("builtin"), UnregisterJob(t1),
           RegisterJob("b")}
JobsOf(api, j1, j2) ==
  [t \in Threads |-> CASE t = Caller -> Lookup(api) [] t = t1 -> j1
                       [] t = t2 -> j2]
Nothing == [op |-> "nothing", api |-> None]
Quiet == JobsOf("a", Nothing, Nothing)

Scenario(jobs, lims, may, f, text) ==
  [jobs |-> jobs, limits |-> lims, replayable |-> may, framing |-> f,
   body |-> text]

\* Other threads at work; every limit; bodies of every form.
Races ==
  {Scenario(JobsOf(api, j1, j2), NoRetry, {FALSE}, "sse", <<>>)
   : api \in {"b", "c"}, j1 \in First, j2 \in Second}
Retries == {Scenario(Quiet, SomeLimits, BOOLEAN, "sse", <<"x">>)}

\* SSE bodies of two or three lines: two of data, an event's name, a comment,
\* bytes that are no text, and the line that ends an event; two with a "cr" or
\* without, the last one cut off or not; and two events, one after the other.
SseLines == {<<>>, <<"data:", "x">>, <<"data:", "y", "z">>, <<"event:", "stop">>,
             <<":", "x">>, <<"data:", "bad">>}
SseBody(lines, ending) ==
  FlattenSeq([i \in DOMAIN lines |-> lines[i] \o ending])
CutOff(text) == IF text = <<>> THEN text ELSE SubSeq(text, 1, Len(text) - 1)
SseBodies ==
  LET long == [1..3 -> SseLines \ {<<"data:", "bad">>}]
      short == [1..2 -> SseLines]
      ended == {SseBody(lines, e) : lines \in short, e \in {<<"lf">>, <<"cr", "lf">>}}
  IN ended \cup {CutOff(text) : text \in ended}
     \cup {SseBody(lines, <<"lf">>) : lines \in long}
     \cup {SseBody(<<<<"data:", "x">>, <<>>, l, <<>>>>, <<"lf">>) : l \in SseLines}

\* Frames: two events, the last one of a reply, one whose headers are too
\* long, one that is too short, and any of them cut off.
FrameOf(total, headers, type, payload) ==
  <<Aws!Prelude(total, headers, <<type>>)>> \o payload
AwsFrames ==
  {FrameOf(3, 1, "delta", <<"h", "x">>), FrameOf(2, 0, "delta", <<"y">>),
   FrameOf(2, 1, "stop", <<"h">>), FrameOf(2, 3, "delta", <<"z">>),
   FrameOf(0, 0, "delta", <<>>)}
AwsBodies ==
  LET whole == {FlattenSeq(fs) : fs \in [1..2 -> AwsFrames]}
  IN whole \cup {CutOff(text) : text \in whole}

Bodies ==
  {Scenario(Quiet, NoRetry, {FALSE}, "sse", text) : text \in SseBodies}
  \cup {Scenario(Quiet, NoRetry, {FALSE}, "aws", text) : text \in AwsBodies}

AllScenarios == Races \cup Retries \cup Bodies
SomeApis == {"a", "b", "c"}
SomeBuiltins == <<"a", "b">>
SomeSymbols == {"x", "y", "z", "h", "lf"}
============================================================================
