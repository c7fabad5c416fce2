---------------------------- MODULE HttpRetry ----------------------------
(***************************************************************************)
(* Sending a provider's request (crates/ai/src/utils/retry.rs and          *)
(* utils/abort.rs): send_with_retry, over a server that answers as it      *)
(* likes and a caller that may cancel its token.  Times are milliseconds.  *)
(***************************************************************************)
EXTENDS Integers, Sequences

CONSTANTS
  Limits,         \* max_retries and max_retry_delay_ms a caller may set
  RetryAfters,    \* seconds a server may ask for
  Jitters,        \* what is added at random to a backoff
  MaxWord         \* u64::MAX

ASSUME RetryAssumption ==
  /\ Limits \subseteq [retries : Nat, cap : Nat]
  /\ RetryAfters \subseteq Nat /\ Jitters \subseteq 1..100
  /\ MaxWord \in Nat

VARIABLES
  limits,         \* the caller's options
  replayable,     \* could the request be cloned?
  token,          \* was the caller's token cancelled?
  sending,        \* "ready", "inflight", "draining", "sleeping" or "settled"
  attempt,        \* attempts before this one
  delay,          \* the wait before the next
  requests,       \* those answered: the answer, and the wait before it
  sent,           \* the number of requests sent
  outcome         \* what send_with_retry returned

retryVars == <<limits, replayable, token, sending, attempt, delay, requests,
               sent, outcome>>

Smaller(a, b) == IF a < b THEN a ELSE b
AtLeastOne(n) == IF n = 0 THEN 1 ELSE n

\* An answer: a response whose status asks for a retry or not, with a
\* Retry-After header or without (0 stands for none: it is treated alike; the
\* header is read when there may be a retry), or an error of the transport
\* that may pass or not.
Answers == [kind : {"response", "transport"}, retryable : BOOLEAN,
            after : RetryAfters \cup {0}]

Outcomes == {"none", "response", "transport", "aborted", "too_long"}
Phases == {"ready", "inflight", "draining", "sleeping", "settled"}

RetryTypeOK ==
  /\ limits \in Limits /\ replayable \in BOOLEAN /\ token \in BOOLEAN
  /\ sending \in Phases /\ outcome \in Outcomes
  /\ attempt \in Nat /\ delay \in Nat /\ sent \in Nat
  /\ requests \in Seq([answer : Answers, waited : Nat])
  /\ (sending = "settled") = (outcome # "none")

\* retry_after_ms: seconds times 1000, when that is a u64.
Convertible(after) == after * 1000 <= MaxWord
ServerDelay(after) == after * 1000

\* backoff_delay: 500 ms doubled at each attempt up to the sixth.
BaseDelays == <<500, 1000, 2000, 4000, 8000, 16000, 32000>>
\* MUTANT: what the server asks for is left aside.
BackoffDelaysUnasked(n, server, cap) ==
  {Smaller(BaseDelays[Smaller(n, 6) + 1] + jitter, AtLeastOne(cap))
   : jitter \in Jitters}
BackoffDelays(n, server, cap) ==
  IF server > 0 THEN {Smaller(server, AtLeastOne(cap))}
  ELSE {Smaller(BaseDelays[Smaller(n, 6) + 1] + jitter, AtLeastOne(cap))
        : jitter \in Jitters}

RetryInit ==
  /\ limits \in Limits /\ replayable \in BOOLEAN
  /\ token = FALSE /\ sending = "ready" /\ attempt = 0 /\ delay = 0
  /\ requests = <<>> /\ sent = 0 /\ outcome = "none"

----------------------------------------------------------------------------
\* The token is looked at before the request is sent.
SendRequest ==
  /\ sending = "ready" /\ ~token
  /\ sending' = "inflight" /\ sent' = sent + 1
  /\ UNCHANGED <<limits, replayable, token, attempt, delay, requests, outcome>>

Settle(result) == sending' = "settled" /\ outcome' = result

\* What is done about an answer that asks for a retry; a response is drained
\* first, so that its connection can be used again.
Retry(answer) ==
  LET server == IF answer.kind = "response" THEN ServerDelay(answer.after) ELSE 0
  IN IF \/ ~Convertible(answer.after)
        \/ server > limits.cap /\ limits.cap > 0
     THEN Settle("too_long") /\ UNCHANGED delay
     ELSE /\ delay' \in BackoffDelays(attempt, server, limits.cap)
          /\ sending' = IF answer.kind = "response" THEN "draining"
                        ELSE "sleeping"
          /\ UNCHANGED outcome

\* A request that cannot be cloned is sent once, and so are those whose
\* retries are used up.
\* MUTANT: one retry too many.
MayRetryOnceMore(answer) ==
  replayable /\ answer.retryable /\ attempt <= limits.retries
MayRetry(answer) ==
  replayable /\ answer.retryable /\ attempt < limits.retries

Answer ==
  /\ sending = "inflight" /\ ~token
  /\ \E answer \in Answers :
       /\ answer.after > 0 => answer.kind = "response" /\ answer.retryable
       /\ requests' = Append(requests, [answer |-> answer, waited |-> delay])
       /\ IF MayRetry(answer)
          THEN Retry(answer)
          ELSE Settle(answer.kind) /\ UNCHANGED delay
  /\ UNCHANGED <<limits, replayable, token, attempt, sent>>

\* A body that breaks off ends the retries.
Drain ==
  /\ sending = "draining" /\ ~token
  /\ \/ sending' = "sleeping" /\ UNCHANGED outcome
     \/ Settle("transport")
  /\ UNCHANGED <<limits, replayable, token, attempt, delay, requests, sent>>

Sleep ==
  /\ sending = "sleeping" /\ ~token
  /\ sending' = "ready" /\ attempt' = attempt + 1
  /\ UNCHANGED <<limits, replayable, token, delay, requests, sent, outcome>>

\* Each await is a select! that looks at the token first.
\* MUTANT: nobody looks at it while a response is drained.
AbortSendUndrained ==
  /\ token /\ sending \in {"ready", "inflight", "sleeping"}
  /\ Settle("aborted")
  /\ UNCHANGED <<limits, replayable, token, attempt, delay, requests, sent>>
AbortSend ==
  /\ token /\ sending \in {"ready", "inflight", "draining", "sleeping"}
  /\ Settle("aborted")
  /\ UNCHANGED <<limits, replayable, token, attempt, delay, requests, sent>>

RetryNext == SendRequest \/ Answer \/ Drain \/ Sleep \/ AbortSend

\* The caller.
Cancel ==
  /\ ~token
  /\ token' = TRUE
  /\ UNCHANGED <<limits, replayable, sending, attempt, delay, requests, sent,
                 outcome>>

RetrySpec == RetryInit /\ [][RetryNext \/ Cancel]_retryVars

----------------------------------------------------------------------------
\* However errors, delays and cancellation combine, no more requests are sent
\* than the caller allowed, and only one when it cannot be repeated.
RequestsBounded ==
  sent <= IF replayable THEN limits.retries + 1 ELSE 1

\* A request was only repeated after an answer that asked for it, and after
\* the wait it asked for: what the server said, never less, unless the caller
\* allows no wait at all, and never more than the caller's limit (1 ms when
\* that is 0).
RetriesWarranted ==
  \A i \in 2..Len(requests) :
    LET before == requests[i - 1].answer
        waited == requests[i].waited
    IN /\ replayable /\ before.retryable
       /\ waited <= AtLeastOne(limits.cap) /\ waited >= 1
       /\ (before.after > 0 /\ limits.cap > 0) =>
            waited = ServerDelay(before.after)
===========================================================================
