---------------------------- MODULE Transport ----------------------------
(***************************************************************************)
(* One call of stream() from end to end (crates/ai/src/stream.rs and the   *)
(* loop every provider has): the provider is looked up while other threads *)
(* work on the registry, the request is sent with its retries, the body of *)
(* the response comes in chunks, is decoded and its events are pushed to a *)
(* consumer that reads them, awaits the result or goes away.               *)
(***************************************************************************)
EXTENDS ProviderRegistry, HttpRetry, EventChannel

CONSTANTS
  Caller,         \* the thread that calls stream()
  Scenarios,      \* what the other threads do, the framing and the body
  Symbols         \* of which bodies are made

Sse == INSTANCE SseDecoder
Aws == INSTANCE AwsEventStream

VARIABLES
  stage,          \* of the call: "resolve", "request", "reading", "closing",
                  \* "over"
  framing,        \* of the response: "sse" or "aws"
  body,           \* all the server sends
  got,            \* how many symbols of it were read
  decoder         \* SseStream or AwsEventStream

readVars == <<framing, body, got, decoder>>
vars == <<registryVars, retryVars, channelVars, stage, readVars>>

\* Events, by what the properties tell apart.
Event(type, data) == [type |-> type, data |-> data]
Start == Event("start", <<>>)
DoneEvent == Event("done", <<>>)
FailedEvent == Event("failed", <<>>)
AbortedEvent == Event("aborted", <<>>)
StreamEvents ==
  [type : {"start", "delta", "done", "failed", "aborted"}, data : Seq(Symbols)]
TerminalEvents == {DoneEvent, FailedEvent, AbortedEvent}

ASSUME TransportAssumption ==
  /\ Caller \in Threads
  /\ Terminals = TerminalEvents
  /\ \A s \in Scenarios :
       /\ s.jobs \in [Threads -> Jobs] /\ s.framing \in {"sse", "aws"}
       /\ s.limits \subseteq Limits /\ s.replayable \subseteq BOOLEAN

Init ==
  /\ entries = [a \in Apis |-> None] /\ holder = None
  /\ \E s \in Scenarios :
       /\ threads = [t \in Threads |-> Thread(s.jobs[t])]
       /\ limits \in s.limits /\ replayable \in s.replayable
       /\ framing = s.framing /\ body = s.body
  /\ decoder = IF framing = "sse" THEN Sse!Sse ELSE Aws!Frames
  /\ token = FALSE /\ sending = "ready" /\ attempt = 0 /\ delay = 0
  /\ requests = <<>> /\ sent = 0 /\ outcome = "none"
  /\ ChannelInit
  /\ stage = "resolve" /\ got = 0

----------------------------------------------------------------------------
\* Any thread, the caller among them.
RegistryMoves ==
  /\ RegistryNext
  /\ UNCHANGED <<retryVars, channelVars, stage, readVars>>

\* resolve() and the handle's stream(), or an errored stream.
Resolve ==
  /\ stage = "resolve" /\ threads[Caller].at = "done"
  /\ IF threads[Caller].handle = None
     THEN PushEvent(FailedEvent) /\ stage' = "closing"
     ELSE stage' = "request" /\ UNCHANGED channelVars
  /\ UNCHANGED <<registryVars, retryVars, readVars>>

Request ==
  /\ stage = "request" /\ RetryNext
  /\ UNCHANGED <<registryVars, channelVars, stage, readVars>>

\* What send_with_retry returned: a response that is no error is read; the
\* text of one that is may be cut short by the token.
Respond ==
  /\ stage = "request" /\ sending = "settled"
  /\ \/ /\ outcome = "response" /\ ~requests[Len(requests)].answer.retryable
        /\ PushEvent(Start) /\ stage' = "reading"
     \/ outcome # "aborted" /\ PushEvent(FailedEvent) /\ stage' = "closing"
     \/ /\ outcome = "aborted" \/ (outcome = "response" /\ token)
        /\ PushEvent(AbortedEvent) /\ stage' = "closing"
  /\ UNCHANGED <<registryVars, retryVars, readVars>>

----------------------------------------------------------------------------
Ready == IF framing = "sse" THEN Sse!Ready(decoder) ELSE Aws!Ready(decoder)

\* A chunk of the body, or its end.
Chunk(n) ==
  /\ stage = "reading" /\ ~token /\ ~Ready /\ ~decoder.ended
  /\ got + n <= Len(body)
  /\ LET chunk == SubSeq(body, got + 1, got + n) IN
     decoder' = IF framing = "sse" THEN Sse!Read(decoder, chunk)
                ELSE Aws!Read(decoder, chunk)
  /\ got' = got + n
  /\ UNCHANGED <<registryVars, retryVars, channelVars, stage, framing, body>>

EndOfBody ==
  /\ stage = "reading" /\ ~token /\ ~Ready /\ ~decoder.ended
  /\ got = Len(body)
  /\ decoder' = IF framing = "sse" THEN Sse!ReadEnd(decoder)
                ELSE Aws!ReadEnd(decoder)
  /\ UNCHANGED <<registryVars, retryVars, channelVars, stage, framing, body,
                 got>>

\* The loop's answer to a decoded event: the last one ends the reply, one
\* that is an error fails it.
Made(e) ==
  CASE e.name = <<"stop">>      -> DoneEvent
    [] e.name = <<"malformed">> -> FailedEvent
    [] OTHER                    -> Event("delta", e.data)

\* An event is handled; whoever finds no consumer before it waits for the
\* next one returns.
Handle(e, rest) ==
  /\ PushEvent(Made(e))
  /\ stage' = IF Made(e) \in TerminalEvents \/ ~Open THEN "closing" ELSE stage
  /\ decoder' = rest
  /\ UNCHANGED <<registryVars, retryVars, framing, body, got>>

NextEvent ==
  /\ stage = "reading" /\ ~token /\ Ready
  /\ IF framing = "sse" THEN Handle(Sse!Next(decoder), Sse!Rest(decoder))
     ELSE Handle(Aws!Next(decoder), Aws!Rest(decoder))

\* The end of the body: what the decoder still holds, or a reply that is not
\* complete.
Drained ==
  /\ stage = "reading" /\ ~token /\ ~Ready /\ decoder.ended
  /\ LET flushed == Sse!Flushed(decoder) IN
     IF framing = "sse" /\ Sse!Ready(flushed)
     THEN Handle(Sse!Next(flushed), Sse!Rest(flushed))
     ELSE /\ PushEvent(FailedEvent) /\ stage' = "closing"
          /\ UNCHANGED <<registryVars, retryVars, readVars>>

\* The transport fails while the body comes.
BodyBreaks ==
  /\ stage = "reading" /\ ~token /\ ~Ready /\ ~decoder.ended
  /\ PushEvent(FailedEvent) /\ stage' = "closing"
  /\ UNCHANGED <<registryVars, retryVars, readVars>>

AbortRead ==
  /\ stage = "reading" /\ token
  /\ PushEvent(AbortedEvent) /\ stage' = "closing"
  /\ UNCHANGED <<registryVars, retryVars, readVars>>

LeaveReading ==
  /\ stage = "reading" /\ ~Open
  /\ stage' = "closing"
  /\ UNCHANGED <<registryVars, retryVars, channelVars, readVars>>

\* The task returns and the sender is dropped.
Return ==
  /\ stage = "closing" /\ CloseSender /\ stage' = "over"
  /\ UNCHANGED <<registryVars, retryVars, readVars>>

----------------------------------------------------------------------------
Consumer ==
  /\ stage # "resolve" /\ ConsumerStep
  /\ UNCHANGED <<registryVars, retryVars, stage, readVars>>

CancelToken ==
  /\ stage # "over" /\ Cancel
  /\ UNCHANGED <<registryVars, channelVars, stage, readVars>>

Next ==
  \/ RegistryMoves \/ Resolve \/ Request \/ Respond
  \/ (\E n \in 1..Len(body) : Chunk(n))
  \/ EndOfBody \/ NextEvent \/ Drained \/ BodyBreaks \/ AbortRead
  \/ LeaveReading \/ Return \/ Consumer \/ CancelToken

\* The threads and the task are scheduled; that the server answers, or sends
\* the rest of the body, is not assumed.
Fairness ==
  /\ \A t \in Threads : WF_vars(RegistryStep(t) /\ RegistryMoves)
  /\ WF_vars(\/ Resolve \/ AbortRead \/ LeaveReading \/ Return
             \/ (Respond /\ (outcome # "response" \/ token)))
  /\ WF_vars(Request /\ AbortSend)
  /\ WF_vars(Consumer /\ ResolveResult)

Spec == Init /\ [][Next]_vars /\ Fairness

----------------------------------------------------------------------------
\* The events of the body as a whole, up to the one that ends the reply.
Whole ==
  LET events == IF framing = "sse" THEN Sse!Decoded(body) ELSE Aws!Decoded(body)
      all == [i \in DOMAIN events |-> Made(events[i])]
      stop == SelectInSeq(all, LAMBDA e : e \in TerminalEvents)
  IN IF stop = 0 THEN Append(all, FailedEvent) ELSE SubSeq(all, 1, stop)

\* Wherever the body is cut into chunks, the consumer is given the events in
\* it, in their order, each once (sse.rs:104, aws_eventstream.rs:42), before
\* the one that says that the rest is missing; and a stream that reports an
\* end has given all of them.
ReplyInOrder ==
  /\ received # <<>> =>
       \/ received \in {<<FailedEvent>>, <<AbortedEvent>>}
       \/ /\ Head(received) = Start
          /\ LET told == Tail(received) IN
             \/ IsPrefix(told, Whole)
             \/ Last(told) \in {FailedEvent, AbortedEvent} /\ IsPrefix(Front(told), Whole)

\* A cancelled call gives the caller that awaits it a result, whether the
\* server answers or not, in the request, in its retries, or in the body.
CancelSettlesResult ==
  (token /\ consumer = "awaiting") ~> consumer = "resolved"
===========================================================================
