# knuth-rs in TLA+

A formal model of [knuth-rs](../src), a coding agent: a session actor that
drives a language model and its tools (`knuth-agent`), the event log of the
session (`knuth-core`), a command line client (`knuth-cli`) and a library of
model providers (`ai`).

This directory holds the TLA+ modules, the TLC configurations that check them
on small instances, and proofs for TLAPS. `PROJECT.json` maps every definition
to the lines it models and lists the runs, the mutants, the hazards and the
theorems.

## The system

| Part | State | Operations | Talks to |
|---|---|---|---|
| client (`AgentSession`, the CLI) | one call at a time (`&mut self`) | submit input, cancel, set prompt, subscribe, close | session actor: mailbox of 100, `oneshot` reply |
| session actor (`harness.rs`) | `TurnState`, input queue, generation, event log | one handler per message, each run to its end | step actor, hooks, tools |
| actor runtime (`actor.rs`) | mailbox, shutdown token | start, receive, handle, stop; biased towards shutdown | |
| step actor (`agent_step.rs`) | reason, assistant message | start, stream event, stream end, cancel, stop | session actor: mailbox; provider: stream |
| hooks (`hooks/registry.rs`) | ordered chains | context, before and after tool use | session actor: one message per chain |
| tools (`tools/`, `policy.rs`) | files, processes | execute, cancel | session actor: one message per call |
| event log (`event_log.rs`) | store, conversation, subscriptions | commit, publish live, subscribe | subscribers: buffers of bounded size |
| event store (`store.rs`) | hash-chained events | append, range, verify | |
| CLI (`main.rs`) | where its loop is, renderer | read a line, run a turn until it ends, Ctrl+C | session, subscription |
| credentials (`config.rs`, `openai_codex.rs`) | `auth.json`, shared by all runs | load, refresh, replace atomically | vendor, file system |
| CLI hooks, policy, skills, output, settings | counters, modes, files | | |
| provider registry (`api_registry.rs`, `register_builtins.rs`, `stream.rs`) | registry under two locks | register, look up, clear, unregister | any thread |
| event stream (`event_stream.rs`) | queue, oneshot of the result | push, close, next, result | provider's task; step's pump |
| retry and abort (`retry.rs`, `abort.rs`) | attempt, delay | send with retry, each await against the token | HTTP |
| SSE and AWS decoders (`sse.rs`, `aws_eventstream.rs`) | bytes and events not yet handed out | a chunk, the end, the next event | HTTP body; provider's loop |
| providers (`ai/src/providers`) | per call: the message so far, maps from the vendor's blocks to its own | build a request, read a reply event by event | HTTP; event stream |
| message transformation (`transform_messages.rs`) | none | rewrite a history for a provider | tests only |
| OAuth login, signing, models, text utilities | none | | HTTP |

What is hard here is the order of things. While a handler of the session actor
runs nothing else touches its state, but between two handlers any hook, tool,
stream event, Cancel or close may arrive, in any order; each handler must
recognise what is stale, and each phase of a turn waits for a message that
somebody has to send. Messages between actors are neither lost nor duplicated,
but senders block when a mailbox is full. In a provider it is the order of the
vendor's fragments, cut and interleaved as its protocol allows, against an abort
and a consumer that leaves; in the CLI, the session's events against Ctrl+C.
Only `auth.json` is persisted: several runs share it, and each may crash between
any two steps. `PROJECT.json` lists the places ("hazards") with the properties
that cover them.

What makes each part correct:

- session actor: one completion in flight for all that a turn waits for; a legal,
  readable log; conversations a provider accepts; inputs in order; every turn ends;
  a cancelled turn winds down.
- event log: storage, projection and feed agree; a subscriber sees a prefix.
- event store: the chain of hashes verifies.
- tools: an edit is not lost; a cancelled call has no effect later.
- provider library: bounded retries that respect an abort; events in the order
  they came; one terminal event, which says what the vendor said; the next request
  answers every call once and gives the vendor its own reasoning back.
- CLI: a turn ends at the prompt and takes nothing along; the credentials survive
  runs that race or crash.

## Modules

| Module | Models | Extends |
|---|---|---|
| `SessionEvents` | `events.rs`, `live.rs`, and `EventLog::commit`, `publish_live`, `apply_event` as operators on a log; what these preserve, proved | |
| `AgentHarness` | client, session actor, actor runtime, step actor, provider stream, hooks and tools as tasks; `TypeOK` and the properties about what is in flight | `SessionEvents` |
| `AgentHarnessProperties` | the properties about the history of a session | `AgentHarness` |
| `EventLog` | the in-memory store with its hash chain, `EventLog` with its subscriptions, subscribers that read or drop their streams | `SessionEvents` |
| `EventFeed` | abstract: what the event log promises the session and its subscribers | `SessionEvents` |
| `EventLogMC` | the events of the instances of `EventLog` | `EventLog` |
| `FileTools`, `FileToolsMC` | `read_file`, `write_file` and `edit_file` of a session on one path, await by await, with the blocking pool that does their writes, and what they owe the model; the requests of the instances | |
| `AssistantStream` | `types.rs`: messages, blocks, the events of a stream, and a consumer that assembles them | |
| `ProviderMachine` | the local variables of a streaming loop and the steps the loops share | `AssistantStream` |
| `AnthropicMessages`, `OpenaiCompletions`, `OpenaiResponses`, `Mistral`, `Google`, `AmazonBedrock` | one streaming loop each: the handlers of its wire events and the end of the connection | `ProviderMachine` |
| `Faux` | the test double | `ProviderMachine` |
| `ProviderWire` | external: the vendors' services, and what they may send next | `ProviderMachine` |
| `ProviderStream` | one call of `stream()` on one provider, its setup first, with its caller | `ProviderWire`; instances of the loops |
| `ProviderStreamProperties` | what a provider owes its caller | `ProviderStream` |
| `ProviderRequest` | a request: its turns and parts, the translation of a thinking level | `ProviderMachine` |
| `AnthropicRequest`, `ChatRequest` (Completions, Mistral), `ResponsesRequest` (with Azure and Codex), `GeminiRequest` (with Vertex), `BedrockRequest` | the request bodies and the `stream_simple` of the providers | `ProviderRequest` |
| `TransformMessages` | `transform_messages.rs` | `ProviderRequest` |
| `ProviderRequestProperties` | what the next request owes the vendor | `ProviderStreamProperties`, `ProviderRequest`; instances of the requests |
| `ProviderRegistry` | the registry under its two locks | |
| `HttpRetry` | `send_with_retry` with the abort at each await | |
| `EventChannel` | the queue and the oneshot of an event stream | |
| `SseDecoder`, `AwsEventStream` | the decoders, as operators on a buffer | |
| `Transport`, `TransportMC` | one call from the lookup of its provider to the consumer of its events; its instance | `ProviderRegistry`, `HttpRetry`, `EventChannel`; instances of the decoders |
| `CodexAuth` | `auth.json`, and the runs that load, refresh and replace it | |
| `CliTurn` | the CLI's loop around a session | |
| `Cli`, `CliMC` | a run of the program: its credentials, then its loop; its instance | `CodexAuth`, `CliTurn` |
| `AgentHarness_proofs` | proofs of its types, of what a step may do to a turn and of every invariant of a session | `AgentHarnessProperties` |
| `EventLog_proofs` | types of the event log, the hash chain, the refinement of `EventFeed` | `EventLog` |
| `Transport_proofs` | registry, retries and channel, each by itself and in the composed call | `Transport` |
| `ProviderLoops_proofs` | what the vendors may send, what events tell a consumer, what every loop leaves behind an event, and how the loops of Anthropic, Bedrock and Completions follow the reply | `ProviderStreamProperties` |
| `ProviderStream_proofs` | how the other loops follow it, and the invariants of a call of `stream()` | `ProviderLoops_proofs` |
| `Cli_proofs` | the credentials, by themselves and in the program, and the turns of its loop | `Cli` |
| `FileTools_proofs` | types of the file tools, `AloneIsExact` | `FileTools` |

### AgentHarness

One action per handler of `AgentActor::handle` (`HandleSubmitInput`,
`HandleCancel`, `HandleStepFinished`, ...), with everything the handler calls;
what several handlers end with is an operator named as the method
(`DispatchNextInput`, `EndTurn`, `CommitInvocationResult`, `PrepareContext`).
`turn` is `TurnState` in one record; `turn.cancelled` is the token of its
`PreparingContext` or `RunningTools` state, which is a child of `shutdown`.
`mailbox` is the session's mailbox, `handling` the message that has left it.
`tasks` are the futures given to `tokio::spawn`; each ends by one `Deliver`.
`step` is the step actor that `Streaming` holds, with its mailbox and the state
of the stream its pump reads; only one exists at a time, which
`OneCompletionInFlight` justifies. `log` is the event log: `events` stored,
`conversation` projected, `feed` what subscribers are sent.

A handler is one atomic step because it owns the state it changes and the
in-memory store never suspends. Three places need more care, and are modelled:
a message is taken (`Receive`) before it is handled, so that the shutdown token
may be cancelled in between; `commit_invocation_result` reads the token after
its caller did (`CloseMayRace`); and `HandleCancel` waits for room in the
step's mailbox, so it may never become enabled.

Data is reduced to what decides the control. An input is its number, an
assistant message the number of its tool calls, a hook's answer one of
allow, deny, error, cancelled. `StepId` and `Generation` are minted together,
so one number stands for both. Constants bound what the client sends
(`MaxInputs`, `MaxCancels`, `MaxPrompts`) and what a provider answers
(`MaxSteps`: later steps ask for no tools; `MaxCalls`; `MaxDeltas`).

Left out: `subscribe`, the image files that `submit_input` reads, a store that
fails, a mailbox whose sender is gone (the session owns one until `close` has
awaited the actor), panics, and the pump that outlives a cancelled step until
its next event.

### EventLog

`AgentHarness` uses the event log as a value, `log`, that `Commit` and
`PublishLive` change. `EventLog` models the log itself: `store` with the fields
of `StoredEvent`, `conversation`, and for each subscriber the channel that
`try_send` fills and `poll_next` empties. One action each for `commit`,
`publish_live`, `subscribe`, the end of the session (which drops the senders)
and what a subscriber does. Since the session actor owns the log and never
suspends in it, each is one step; subscribers interleave with them.
`EventFeed` states the promise: the log changes by `Commit` and `PublishLive`
only, and a subscriber receives a run of the feed without a gap, up to where it
is detached. `Feed` in `EventLog` is the refinement mapping: the log of
`EventFeed` is the events of the store, the conversation and what was published,
and a subscriber is entitled to what it has received and what its channel holds.
So `AgentHarness` may use `log`, and leave subscribers out.

A digest is the sequence of the events that went into it, so two digests are
equal only when everything they cover is. The buffer is 2 for 100.

### FileTools

`calls` holds what `execute` of each invocation awaits: `read` is `fs::read`,
`mkdir` is `create_dir_all`, `write` is the moment before the first poll of
`fs::write` and `writing` its `await`. `jobs` holds the `std::fs::write` each has
given to the blocking pool, which truncates the file when it opens it
(`OpenFile`) and then writes through a cursor that starts at 0 (`WriteBytes`). The
opening may fail, which leaves the file as it is (`OpenFails`), and so may the write,
after any part of the text but the whole (`WriteFails`).
`TakeCancel` may win at any await; the job it leaves behind goes on. The session
appears as `CancelBatch` and `NextBatch`. `alone` and `before` are history
variables, and no action reads them. A text is a few lines; `old_string` is one
line; a legacy encoding is a text like any other, since an edit writes back the
encoding it read. What `bash` does to the file is not modelled.

### Providers

Every provider's `run` has one shape, and so has `ProviderStream`: a setup that
may fail at each step, `Start`, then a loop of wire events until a terminal
event. `setup` holds the steps still to be taken, each with whether it may fail
and whether it awaits; a step that awaits also ends with the token. `machine`
holds the loop's local variables (`ProviderMachine`: the content so far, the map
from the vendor's blocks to content indices, the arguments collected, which
blocks have ended, the stop reason). A provider's module gives, as functions
from one machine to the next, its handler of a wire event and what it does at
the end of the connection; the events it pushes go to `view`, the consumer of
`AssistantStream`, which assembles them and notes when one is out of place.
`reply` is what the vendor has sent. `Moves` (`ProviderWire`) gives what it may
send next: begin, extend, sign and end blocks, one at a time or in parallel as
the protocol allows, stop, or break off at any moment.

A fragment of text or of arguments is the pair of its block and its number, so
that an event that loses, repeats or swaps fragments is told apart. An id is a
short sequence of numbers, so that ids that are joined, split or cut keep their
parts; a hash of an id is a number of its own, without collisions. Text and
arguments are not told apart by their letters: a JSON text is a sequence of
fragments, of which `parse_partial_json` accepts any prefix.

A text of a Responses reply begins with its item's `output_item.added`, of which the
loop makes nothing, or with its part's `content_part.added`, which may come with
text; a text that neither announced is announced by its first fragment, or comes
whole (`Openings`, `Late`).

`BuildRequestBody` of each request module is the conversion of a history (user, assistant
and tool result messages) to the vendor's turns, with the options that decide
their form, and `Simple` the translation of a level of thinking, of limits and
of budgets to the vendor's terms. `ProviderRequestProperties` applies them to
the message that was just received.

### Transport

`Transport` is the call around that: `RegistryMoves` for the lookup and for other
threads, `Request` for the attempts, `Chunk`, `EndOfBody` and `NextEvent` for the
body, `PushEvent` for the channel and `Consumer` for its other end. `Register`
takes the map's mutex only; `Lock`, `Acquire`, ... are a lookup, a clear or an
unregistration under the lifecycle lock. `sending` is where `send_with_retry`
awaits, `requests` what each attempt was answered, and how long it had waited.
A body is a sequence of symbols: field names, payload bytes, `lf`, `cr`, or a
frame's prelude with its two lengths. `Read` takes any number of them at a time;
`Decoded` decodes a body as a whole and is the reference for `ReplyInOrder`. The
provider's loop is reduced to events, the last one, and malformed ones: its
detail is `ProviderStream`.

### Cli

`procs` holds where each run is in `load_codex_auth_json`, `refresh_with_url` and
`replace_file_atomically`, one action per call of the file system; `Crash` may
win at any of them. The vendor takes a refresh token once. In `CliTurn`, `at` is
the `await` the program is in; `mailbox`, `turn` and `subscription` are the
session as seen from the outside: it takes inputs in order, emits any events and
ends each turn, which `AgentHarness` shows (`InputsInOrder`,
`EveryInputAnswered`). `subscribed` becomes `FALSE` as `EventLog` drops a
subscriber that does not keep up.

## Runs

| Run | Bounds | Shows |
|---|---|---|
| `tools` (`AgentTools.cfg`) | 1 input, 2 steps, up to 2 calls, every verdict and outcome, 1 Cancel, close at any time; 124 thousand states, 50 s | `TypeOK`, `OneCompletionInFlight`, `LogReplaysToTurn`, `ConversationWellFormed`, `SnapshotIsFresh`, `CancelledTurnWindsDown`, `EveryInputAnswered`, `CloseStops` |
| `turns` (`AgentTurns.cfg`) | 3 inputs, 1 step per turn, 1 Cancel, 1 prompt, 1 delta, close; 1.2 million states, 40 s | `InputsInOrder`, `ProgressWithinStep` |
| `cancel_lost` | 1 turn, 1 call | `CancelStopsTurn` is violated |
| `cancel_deadlock` | mailboxes of 2 for 100, 5 deltas | `CancelEndsStep` is violated, with the session not closed |
| `context_divergence` | 1 step | `ContextIsProjection` is violated |
| `event_log` (`EventLog.cfg`) | 2 subscribers, buffers of 2, a feed of 3; 73 thousand states, 35 s | `TypeOK`, `ChainDetectsTampering`, `ImplementsFeed`, `NoReaderHangs` |
| `resume` | 1 subscriber | `ResumesFromSeq` is violated |
| `file_tools` (`FileTools.cfg`) | 2 calls, 8 requests, 4 files; 115 thousand states, 15 s | `FilesTypeOK`, `AloneIsExact`, `CancelReports` |
| `lost_edit` | 2 edits of one text of two lines | `ReportedEditsLast` is violated |
| `providers` (`Providers.cfg`) | 10 providers; replies of up to 2 blocks of up to 2 fragments; 282 thousand states, 60 s | `TypeOK`, `ProtocolRespected`, `DoneIsFaithful`, `ConsumerFollows`, `NoSilentEnd`, `CallsAnsweredInPlace`, `ReasoningReplayed`, `CacheMarksLastInput`, `TransformedHistoryAnswered`, `ThinkingAsAsked`, `AbortIsAnswered`, `AbortReturns` |
| `transport` (`Transport.cfg`) | 3 threads, 3 APIs of which 2 are built in; 0 to 2 retries, caps of 0, 1000 and 100000 ms, a word of 16 bits; bodies of 2 or 3 lines or 2 frames; 696 thousand states, 110 s | `BuiltinAlwaysFound`, `CustomKept`, `RequestsBounded`, `RetriesWarranted`, `DeliveredInOrder`, `ResultIsFirstTerminal`, `ReplyInOrder`, `CancelSettlesResult` |
| `cli` (`Cli.cfg`) | 3 runs, 2 grants; 2 inputs, 2 events per turn, a mailbox of 1 and a subscription of 2; 947 thousand states, 70 s | `AuthFileSound`, `TurnsStayApart`, `InputReturns` |

Two calls are the least batch whose results can come in different orders with a
Cancel between them, and two steps the least turn that goes round its loop.
Three inputs make one running and two queued. A mailbox of 100 is never full
with these bounds; `cancel_deadlock` takes 2 to reach the full mailboxes that
100 deltas reach in the code.

Two blocks are the least that interleave, come in another order than they were
announced, or need ids of their own, and two fragments the least that can be cut,
swapped or repeated. A handler looks at one event and at the block it is about;
none counts further than the previous block. Histories for the next request are
built around the message received, with its results, a user's message before and
perhaps after.

In `transport`, besides the caller that looks a provider up, one thread registers
or clears and another looks up, clears, registers or unregisters: one to get
between the steps of a critical section, one to get between those of the first. 66 s is the delay that does not fit 16 bits in milliseconds, as
2^55 s does not fit 64; 1 and 5 s are within and above the cap of 1000 ms. The
scenarios are taken one aspect at a time: races with an empty body, retries with
a body of one byte, bodies without races or retries; the parts share no state but
through the order in which the call goes through them. Bodies hold every kind of
line, both line endings, a last line cut off, and frames whose lengths are wrong.

In `cli`, two runs race and a third reads what they leave; two grants make one
refresh and one that follows it. The loading of three runs and the loop of one
are taken apart in the same way (`InitMC`): once loaded, a run never looks at the
credentials again.

What the properties say:

- `OneCompletionInFlight`: each thing the turn waits for has exactly one task,
  step or message on its way, and nothing else is on its way. It rules out lost
  wake-ups, double results and stale completions at once.
- `LogReplaysToTurn`: replaying the durable log, event by event, never meets an
  event out of place, and yields the open turn and its pending invocations.
- `ConversationWellFormed`: every context handed to a provider, and the conversation
  a turn leaves however it ends, has each tool call
  answered once, directly behind its message.
- `SnapshotIsFresh`: nothing enters the conversation between the snapshot and
  the end of the step that streams from it.
- `CancelledTurnWindsDown`: once a batch or preparation is cancelled no tool
  and no step starts.
- `InputsInOrder`, `ProgressWithinStep`: see the comments in the module.
- `EveryInputAnswered`, `CloseStops`: liveness.

- `ImplementsFeed`: `EventLog` refines `EventFeed`. Three events against a buffer
  of two are the least that drop a subscriber with events still buffered while
  the other keeps up.
- `ChainDetectsTampering`: `verify_hash_chain` accepts every prefix and rejects
  every replaced, rehashed, removed, repeated or swapped event; it cannot
  notice that the last events are missing or that the last one was rewritten.
- `NoReaderHangs`: a subscriber that keeps reading gets each event or the end of
  its stream.
- `AloneIsExact`: a file tool call that overlaps no other, and no write left behind
  by a cancelled one, does what it reports, against a reference definition of an
  edit. One that reports a failure or a cancellation has left the file alone, or
  its write truncated it and leaves the whole new text, or only a beginning of it
  if the write broke off. Two calls are enough for it: the second decides whether
  the first was alone.
- `CancelReports`: a cancelled call reports even if the disk never answers.

About a provider:

- `ProtocolRespected`: its events are in the order `AssistantMessageEvent` promises.
- `DoneIsFaithful`: a Done stands for a reply the vendor ended, block for block and
  fragment for fragment, with its signatures, ids and stop reason, however it came.
- `ConsumerFollows`: who only reads the deltas and Ends has the same message at Done,
  and the text of every block before that, but for what a Responses part was
  announced with (`Untold`): `on_content_part_added` puts it in the message and
  sends no delta of it, so such a consumer has it only with the block's End.
- `NoSilentEnd`, `AbortIsAnswered`, `AbortReturns`: a task that ends has said so; after
  an abort it says nothing else; and it ends then without the vendor's help.
- `CallsAnsweredInPlace`: whichever provider takes over from whichever, each call is
  answered once, in place, under the id it has in that request.
- `ReasoningReplayed`: signed thinking goes back to its vendor with its signature.
- `CacheMarksLastInput`: exactly the last input is marked for the cache.
- `TransformedHistoryAnswered`: a history cut off anywhere and transformed for
  another model is complete, and holds nothing that is another model's own.
- `ThinkingAsAsked`: a level of thinking is asked for or refused, never forgotten;
  a budget leaves room in the limit; who asks for more does not get less.

About a call and the program:

- `BuiltinAlwaysFound`, `CustomKept`: a lookup finds a built-in provider, whoever clears
  the registry meanwhile, and putting the built-ins back replaces nobody's own.
- `RequestsBounded`, `RetriesWarranted`: no request too many; each retry after an
  answer that asked for it, and after the wait it asked for.
- `DeliveredInOrder`, `ResultIsFirstTerminal`: the channel, with a consumer that reads,
  awaits the result or leaves.
- `ReplyInOrder`: wherever the body is cut, its events come out once and in order, and
  a stream that reports an end has given all of them.
- `CancelSettlesResult`: who awaits the result of a cancelled call gets one.
- `AuthFileSound`: the credentials file is never torn or mixed from two grants; its
  refresh token is not one the vendor has taken, unless the run that used it is on
  its way, crashed or failed; no temporary file is left but by those.
- `TurnsStayApart`: a Ctrl+C cancels the turn it was pressed in or none, though a
  Cancel names no turn; a turn renders its own events; at the prompt nothing spins.
- `InputReturns`: every input comes back to the prompt or ends the program.

Fairness is weak fairness of the session actor, of the tasks, of the step and of
the stream: tokio runs every task that is ready, hooks and tools are assumed to
return, streams to end. The client owes nothing: it need not cancel or close.
In `EventLog` only a subscriber that has not dropped its stream is fair. In
`FileTools` a task that is ready is polled, and the disk owes nothing. In
`ProviderStream` the task is scheduled (`Scheduled`) when it does not wait for the
vendor, or when the token is cancelled; vendor and caller owe nothing. In
`Transport` the same holds of the task, and a thread that wants a lock that is
free gets it; a `Respond` is only owed when it does not wait for the text of an
error response. In `Cli` the run that loads, its loop and the session go on; that
somebody types or presses a key is not assumed.

### Findings

1. A Cancel is lost when it is handled after its step has finished but before
   the session has handled `StepFinished`, or when the end of the stream is ahead
   of it in the step's mailbox: the turn runs its tools and its next step as if
   nothing had been asked (`cancel_lost`). `main.rs` promises that the first
   Ctrl+C cancels the turn.
2. Handling a Cancel while the step's mailbox is full blocks the session actor;
   if its own mailbox is full too, the step actor is blocked on it, and neither
   moves again, although nobody closed the session (`cancel_deadlock`).
3. The context of a step is not the projection of the log: it ends with a
   message of hints that is never committed (`context_divergence`).
4. `from_seq` is ignored, so a subscriber cannot resume from a `stream_seq` as
   `store.rs` says (`resume`).
5. Two `edit_file` calls of one batch on one file: both report `Edited`, one edit is
   lost (`lost_edit`). The same holds of a write that a cancelled call left behind,
   and two writes of different lengths may leave the tail of one behind the other.

Observations that no run is needed for, since the code says them in one place:

- `retry.rs:8` speaks of a cap on Retry-After; a delay over the cap fails the
  call (`DelayTooLong`) and is not shortened.
- `stream_simple` of Anthropic does not fit the budget of thinking to the limit, as
  that of Bedrock does; Bedrock sends Claude a temperature along with thinking.
- `types.rs` says that `None` in `thinking_level_map` marks a level as unsupported;
  Responses sends the level's own name for it (`openai_responses.rs:1053`).
- While it streams, each finished part of a Responses summary replaces the part
  before it in the partial message (`openai_responses.rs:900`); the message of Done
  has them all.
- A frame whose length is too short to be one stays in the AWS decoder's buffer and
  blocks what follows (`aws_eventstream.rs:48`).
- `build_system_prompt` unwraps the read of the literal path `~/.agents/AGENTS.md`
  (`main.rs:150`); `Settled` has the program end there.
- `transform_messages` is called by tests only: providers get histories as they are,
  which is why `CallsAnsweredInPlace` and `TransformedHistoryAnswered` are two
  properties.

## Proofs

Every theorem holds for all values of the constants that satisfy the assumptions
named in the modules: any number of inputs, cancels, steps, calls, threads, runs
and events, any capacity and any text, where the runs fix each at a few.

### The session (`BoundsAssumption`, `DataAssumption`)

`AgentHarness_proofs`:

- `TypeCorrect`: `Spec => []TypeOK`. `TypeOK` is inductive as it stands. The
  lemmas follow the code: what `commit` and `publish_live` preserve
  (at the end of `SessionEvents`), then what each shared ending of a handler preserves,
  then one step per action.
- `CancelledTurnStaysCancelled`: `Spec => CancelledTurnWindsDown`. `TurnStep`
  lists the six things a step may do to the turn, and `TurnSteps` shows every
  action does one of them. The invariant `TurnInv` (turn ids are minted once, a
  batch is of its turn, only phases with a token are cancelled) follows from
  `TurnStep`, and so does the theorem: where the turn is cancelled, `TurnStep`
  leaves only its end, a shrinking batch or nothing.
- `CompletionsCorrect`: `Spec => []OneCompletionInFlight`. The inductive invariant
  is `TypeOK /\ TurnInv /\ OneCompletionInFlight`; `BatchOfTurn` is needed
  because the code compares the turn of a completion with the open turn before it
  looks the invocation up. A step keeps the invariant in one of four ways, each a
  lemma: nothing but positions in the mailbox change (`Quiet`), a task or the step
  turns into the message that reports it (`TaskReports`, `StepReports`), or a
  handler replaces the wait its message completes by those it starts tasks for
  (`TasksStart`). In the last, `NoneTwice` makes the message in hand the only
  completion of its wait, so nothing is left to report to a wait that is gone.

The second part of the module relates the past of a session to its present:

- `SnapshotsAreFresh`: `Spec => []SnapshotIsFresh`. A snapshot of the conversation
  is on its way to a step (`Fresh`) from the hook that takes it to the step's end,
  and `OneCompletionInFlight` leaves no other handler that could add to the
  conversation meanwhile.
- `ProgressStaysWithinStep`: `Spec => []ProgressWithinStep`. `StreamOrder` says in
  what order the mailbox holds the reports of a step (start, progress, end, and of
  one step only); `FeedInv` says what of it the feed has already.
- `InputsStayInOrder`: `Spec => []InputsInOrder`. `InputInv`: the feed
  has the inputs of the turns begun, in order, and the queue those that follow
  them; a client that waits for its input to be accepted has exactly one
  submission on its way (`AskedOnce`), the next after the queue.

The third part is about the log: a reader replays the log with the function `Replay`,
of which `Readings` are the states after each event.

- `LogTellsTurn`: `Spec => []LogReplaysToTurn`. Induction over the log is a lemma
  for the one step that matters: a log extended by events replays to the state
  before, moved on by `ReadEvent` for each (`LeastNatural` takes the first place
  where that fails). `Told`: the reader's state is the session's, with the
  invocations that wait for a result; every handler moves both alike.
- `ConversationStaysWellFormed`: `Spec => []ConversationWellFormed`.
  `Converses`: the conversation is well formed, or a batch runs and the calls of its
  last assistant message are each answered or pending. `CompleteInv` (a message
  that asks for tools is there) and `LiveStreams` (a step that lives has its turn
  in `Streaming`) say what a step may add. That as many results follow a message as
  it has calls is a fact about cardinalities: those answered and those pending
  are disjoint and together the calls.

### The event log (`BufferAssumption`, `EventsAssumption`)

- `LogTypeCorrect`: `Spec => []TypeOK`.
- `ChainTellsTampering`: `Spec => []ChainDetectsTampering`. The hash is modelled as the
  sequence of what was hashed, so no two chains have the same hash (the
  assumption that SHA-256 has no collisions). The lemma it turns on: the hash of
  a chained event tells its position, so a record moved, removed or repeated is at a
  place its hash denies.
- `LogImplementsFeed`: `Spec => ImplementsFeed`, the refinement of `EventFeed` step by
  step: `Init` maps to its `Init`, every action to one of its actions or a
  stutter. `Pending` is the link between what a subscriber received, what its
  channel holds and its place in the feed.

### A call of a provider (`RegistryAssumption`, `RetryAssumption`, `ChannelAssumption`, `TransportAssumption`)

The parts have specifications of their own (`RegistrySpec`, `RetrySpec`,
`ChannelSpec`), which the theorems are about first:

- `BuiltinsAlwaysFound`, `CustomProvidersKept`. `RegistryInv`: who is in its critical
  section holds the lock; what it has put back so far is there. Only lookups
  and removals need the lock for that: a `Register`, which takes none, never
  empties an entry.
- `RetryTypeCorrect`, `RequestsNeverExceed`, `RetriesAreWarranted`. `CountInv` adds to
  the types that `sent` counts the attempts and that a retry is only under way when
  one was left. `WarrantInv` adds that the delay in hand is the one the last answer
  grants (`WaitCarried`): the answer and the request it causes are several steps
  apart. `BackoffType` bounds a delay.
- `EventsDeliveredInOrder`, `ResultReturnsFirstTerminal`. `QueueInv`: what was
  received and what is queued is what was pushed. `ResultInv`: the message of the
  oneshot is the first terminal event pushed, and before it was sent none was;
  `FirstStays` keeps this when more is pushed.

Then they are carried to the composed call. `CallImplementsParts`: `Spec =>
RegistrySpec /\ RetrySpec`, as every action of `Transport` is a step or a stutter
of each, and `CallKeepsRegistryAndLimits` follows. The composed call pushes other
events than `ChannelSpec` does, each in one step: `CallDeliversInOrder` takes the two
invariants of the channel, which hold for any event pushed, to the call.

### The stream of a provider (`WireAssumption`, `ProviderAssumption`)

The bounds `MaxBlocks` and `MaxFragments` are any numbers here, so the theorems are
about every reply, however long and however interleaved. They rest on two
inductive invariants. The first, `StreamInv`, has `TypeOK`, `NoSilentEnd` and the premise of
`AbortIsAnswered` as consequences and says more than they do:

- `TaskInv`: the provider is one of the list and the reply is one its vendor may have
  sent so far (`IsReply`): each of the moves `Moves` allows takes a reply to a reply and sends an event of a form of its own (`Begins`,
  `Grows`, `Signs`, `Repeats`, `Shuts`, `ComesLate`, `Stops`, `Concludes`, `Breaks`).
- `SetupInv`: what is left of the setup is a part of it, and nothing has been told.
- `LoopInv`: while the loop runs, `Speaks(machine)`: it has not returned, its content
  is a sequence of blocks, its map from the vendor's blocks to them is finite, and
  what it pushes is no terminal event; and a consumer that listens has been told none.
  That the map is finite is what gives the Ends of the calls an order at the end of a
  reply; that no terminal was told, that the next one is taken.
- `ViewInv`: what the consumer knows has the form of a `view`, and it is told of the
  end when the task is over.

`NoSilentEnd` needs the loops: each handler of each dialect, for every event the
vendor may send (`Fits`), leaves a machine that still `Speaks`, or one that is over
and whose last event is a terminal (`Goes`). The dialects are proved one after
the other from lemmas about the steps they share. `ConsumeAll` is a recursive
function of the number of events, which `ConsumedOne` and its like read event by event. Completions and Mistral push one End for each call when
a reply ends; `AscendingExists` shows that their order exists for any number of
calls. `AbortIsAnsweredAlways` then follows from the actions that are left when the
token is cancelled and a stream has begun.

The second, `TaleInv`, is inductive together with the first. `ProtocolRespectedAlways`,
`DoneIsFaithfulAlways` and `ConsumerFollowsAlways` follow from it. It says that every
event so far was lawful, that a `Done` vouches for a reply that came to its end
(`Vouches`), and, what carries both, that while the loop runs its variables and the
consumer's knowledge are in line with all that the vendor sent (`Tracks`):

- In every dialect but Responses the vendor's number of a block is its content index,
  and `Following` relates the three block by block. `Agrees` says what a block of the
  reply comes to in the message and with the consumer: text and thinking as sent so
  far; a redacted block under its placeholder; a call with its id and, until its End,
  without its arguments, of which the consumer has the fragments. `Books` adds, for
  each dialect, what its own variables say of the reply: where the arguments of a call
  are collected, which block runs, which finish reason was noted, how many ids were
  made up.
- Responses has a map from the vendor's items to content indices and announces a text
  only with its part or its first fragment, so blocks may come in another order and
  some may be unheard of yet. `Recited` says so: every place of the message is one
  item's (`Seated`), and each item is either told (`Item`), or a text of which
  nothing was said. Of a text that runs the consumer has all but what its part was
  announced with (`HeardText`). A part or an item that comes whole replaces what was collected,
  and the second copy of it must change nothing; `over` in `SpeaksText` and its like
  is what tells the first from the second.

For each dialect one lemma (`AnthropicAnswers`, `BedrockAnswers`, `CompletionsAnswers`,
`MistralAnswers`, `GeminiAnswers`, `ResponsesAnswers`) shows that any move of the vendor
leaves the loop in line with the longer reply (`GoesOn`, `Recites`), or concluded with a
message that has all of it (`Completes`), or broken off with an Error (`Fails`);
`HandleTracks` puts them together, and what is left of a step of the task is short. Hard
cases are the ends: Completions and Mistral parse and end all their blocks when the
reply ends (`HaltedCompletes`, `ToolsFinite`: for every order in which the map of calls
may be walked), Gemini gives ids to calls that have none (`MadeUp`, which keeps them
apart), and Responses may end with its blocks in another order than they began
(`RecitedWhole`). `ReplayIs` is the same for the test double.

Proving this found what the runs could not: the `CASE` of five of the model's operators
had guards that overlapped. TLC takes the first that holds, but the value is not
determined for a prover; each is now the sequence of tests the code makes.

### The program (`AuthAssumption`, `TurnAssumption`, `CliAssumption`)

- `AuthFileStaysSound`: `AuthSpec => []AuthFileSound`, and `ProgramKeepsAuthSound` the
  same of `Spec`, every step of which is one of `AuthSpec` or a stutter. `AuthInv`
  is the types, `FileInv` (the file is of one grant and its token is not spent,
  unless somebody owes it), `ProcInv` (what a run has read, used and been granted at
  each place) and `PairInv` (a grant on its way to the file is in nobody else's
  hands), which is what makes two refreshes harmless to each other.
- `TurnsDoNotMix`: `Spec => []TurnsStayApart`. `LoopInv` says, for each `Stage` of the
  loop, what may be in the mailbox, the subscription and the session: while it waits
  for a line everything is quiet (`Quiet`), while a turn runs the subscription holds
  events of that turn only, the last of which ends it.

### The file tools (`FilesAssumption`)

- `FileTypesCorrect`: `Spec => []FilesTypeOK`.
- `AloneCallIsExact`: `Spec => []AloneIsExact`. `CallOK` says what each call has at each
  place of its code; `Undisturbed` what a call that nothing overlapped has seen and
  done so far, the write of its job in the pool included, which may be
  half done or have broken off anywhere; and while a call is alone no other runs or
  has a write pending. What remains is about data: the text that `edit_file` puts together with `FlattenSeq` is, line
  by line, the one that `IsEdit` asks for by position (`FlattensTo`,
  `ReplacedIsEdit`), and what a smaller write leaves of a longer file is what
  `OverlayIsText` says.

### Only model-checked

- Liveness (`EveryInputAnswered`, `CloseStops`, `NoReaderHangs`, `CancelReports`,
  `CancelSettlesResult`, `InputReturns`, `AbortReturns`): out of the prover's reach.
- The next request (`CallsAnsweredInPlace`, `ReasoningReplayed`, `CacheMarksLastInput`,
  `TransformedHistoryAnswered`, `ThinkingAsAsked`): the request bodies are folds over
  sequences of blocks and turns, and what a fold computes for every input is an
  induction over data.
- `ReplyInOrder`, as the decoders are such folds over a buffer.

## Not modelled

- Tool policy: one pure decision per call; `AgentHarness` lets the verdict be any.
- The order inside a hook chain and the hints it collects; the CLI's own hooks,
  which are counters.
- The child processes of `bash` and `python_exec` with their output and timeout: a
  background task with an outcome in `AgentHarness`, as their effects are outside
  the program.
- Settings and their precedence, skills, the catalogue of models, output: read or
  written once, in sequence, without state that anything else depends on.
- Of the providers: usage and cost, URLs and headers, tool schemas and tool choice,
  the base URL of Cloudflare. They are data copied into a request.
- Login by browser, SigV4, service accounts: single HTTP exchanges and cryptography;
  in a setup each is a step that may fail.
- `bedrock_provider.rs`, `bedrock_anthropic.rs`, `event_stream.rs` and
  `vertex_provider.rs`, next to the registry's providers: of them only
  `BedrockCreds::from_env` is called, a step of the setup of `amazon_bedrock.rs`.
  (`bedrock_anthropic.rs` never collects the arguments of a tool call.)
- Image generation and the stubs, which return errors.
- Panics, and the exhaustion of memory by queues without a bound.
