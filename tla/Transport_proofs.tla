--------------------------- MODULE Transport_proofs ---------------------------
(***************************************************************************)
(* Proofs about the parts of one call of stream(): the provider registry   *)
(* (for any number of threads, any APIs and any list of built-in           *)
(* providers), the retries of a request (for every limit a caller may set, *)
(* every delay a server may ask for and every width of the word) and the   *)
(* event channel (for any events and any terminals among them).            *)
(***************************************************************************)
EXTENDS Transport, TLAPS

\* The provider registry.

Places == {"idle", "locking", "adding", "looking", "removing", "done"}
ThreadRecords ==
  [job : Jobs, at : Places, next : 1..(Len(Builtins) + 1),
   handle : {"builtin", None} \cup Threads]

TypeInv ==
  /\ entries \in [Apis -> {"builtin", None} \cup Threads]
  /\ threads \in [Threads -> ThreadRecords]

Critical(t) == threads[t].at \in {"adding", "looking", "removing"}

\* Whoever is in its critical section holds the lock; the built-ins it has
\* put back are there, and so a lookup finds them.
ThreadOK(t) ==
  /\ Critical(t) => holder = t
  /\ threads[t].at = "removing" => threads[t].job.op # "lookup"
  /\ threads[t].at \in {"adding", "looking"} => threads[t].job.op = "lookup"
  /\ threads[t].at \in {"idle", "locking"} => threads[t].next = 1
  /\ threads[t].at = "adding" =>
       \A i \in 1..(threads[t].next - 1) : entries[Builtins[i]] # None
  /\ threads[t].at = "looking" =>
       \A i \in 1..Len(Builtins) : entries[Builtins[i]] # None
  /\ (threads[t].at = "done" /\ threads[t].job.op = "lookup"
      /\ threads[t].job.api \in Range(Builtins)) => threads[t].handle # None

RegistryInv == TypeInv /\ \A t \in Threads : ThreadOK(t)

LEMMA BuiltinsType ==
  /\ Len(Builtins) \in Nat
  /\ \A i \in 1..Len(Builtins) : Builtins[i] \in Apis
  /\ Range(Builtins) = {Builtins[i] : i \in 1..Len(Builtins)}
BY RegistryAssumption DEF Range

\* A step changes one thread only.
Others(t) == \A u \in Threads \ {t} : threads'[u] = threads[u]

LEMMA AdvanceEffect ==
  ASSUME TypeInv, NEW t \in Threads, NEW at \in Places, Advance(t, at)
  PROVE  /\ threads' \in [Threads -> ThreadRecords] /\ Others(t)
         /\ threads'[t] = [threads[t] EXCEPT !.at = at]
         /\ threads'[t].at = at /\ threads'[t].job = threads[t].job
         /\ threads'[t].next = threads[t].next
         /\ threads'[t].handle = threads[t].handle
<1>1. threads' = [threads EXCEPT ![t].at = at]
  BY DEF Advance
<1>2. threads[t] \in ThreadRecords
  BY DEF TypeInv
<1>3. [threads[t] EXCEPT !.at = at] \in ThreadRecords
  BY <1>2 DEF ThreadRecords
<1> QED
  BY <1>1, <1>2, <1>3 DEF TypeInv, Others, ThreadRecords

\* A thread that does not move, and whose built-ins nobody takes away.
LEMMA OtherKeeps ==
  ASSUME TypeInv, NEW u \in Threads, ThreadOK(u), threads'[u] = threads[u],
         Critical(u) => /\ holder' = u
                        /\ \A a \in Apis : entries[a] # None => entries'[a] # None
  PROVE  ThreadOK(u)'
<1>1. threads[u].next \in 1..(Len(Builtins) + 1)
  BY DEF TypeInv, ThreadRecords
<1>2. \A i \in 1..(threads[u].next - 1) : i \in 1..Len(Builtins)
  BY <1>1, BuiltinsType
<1>3. \A i \in 1..Len(Builtins) : Builtins[i] \in Apis
  BY BuiltinsType
<1> QED
  BY <1>2, <1>3 DEF ThreadOK, Critical

LEMMA InitInv == RegistryInit => RegistryInv
<1> SUFFICES ASSUME RegistryInit PROVE RegistryInv
  OBVIOUS
<1>1. PICK jobs \in [Threads -> Jobs] : threads = [t \in Threads |-> Thread(jobs[t])]
  BY DEF RegistryInit
<1>2. \A t \in Threads :
        threads[t] = Thread(jobs[t]) /\ threads[t].at = "idle" /\ threads[t].next = 1
  BY <1>1 DEF Thread
<1>3. \A t \in Threads : Thread(jobs[t]) \in ThreadRecords
  BY <1>1, BuiltinsType DEF Thread, ThreadRecords, Places
<1>4. TypeInv
  BY <1>1, <1>3 DEF RegistryInit, TypeInv
<1> QED
  BY <1>2, <1>4 DEF RegistryInv, ThreadOK, Critical

LEMMA RegisterKeeps ==
  ASSUME RegistryInv, NEW t \in Threads, Register(t)
  PROVE  RegistryInv'
<1>1. /\ threads[t].at = "idle" /\ threads[t].job.op = "register"
      /\ entries' = [entries EXCEPT ![threads[t].job.api] = t]
      /\ Advance(t, "done") /\ holder' = holder
  BY DEF Register
<1>2. /\ threads' \in [Threads -> ThreadRecords] /\ Others(t)
      /\ threads'[t].at = "done" /\ threads'[t].job = threads[t].job
  BY <1>1, AdvanceEffect DEF RegistryInv, Places
<1>3. t # None
  BY RegistryAssumption
<1>4. entries' \in [Apis -> {"builtin", None} \cup Threads]
  BY <1>1 DEF RegistryInv, TypeInv
<1>5. \A a \in Apis : entries[a] # None => entries'[a] # None
  BY <1>1, <1>3 DEF RegistryInv, TypeInv
<1>6. ThreadOK(t)'
  BY <1>1, <1>2 DEF ThreadOK, Critical
<1>7. \A u \in Threads \ {t} : ThreadOK(u)'
  BY <1>1, <1>2, <1>5, OtherKeeps DEF RegistryInv, Others, ThreadOK
<1> QED
  BY <1>2, <1>4, <1>6, <1>7 DEF RegistryInv, TypeInv

LEMMA LockKeeps ==
  ASSUME RegistryInv, NEW t \in Threads, Lock(t)
  PROVE  RegistryInv'
<1>1. /\ threads[t].at = "idle" /\ Advance(t, "locking")
      /\ holder' = holder /\ entries' = entries
  BY DEF Lock
<1>2. /\ threads' \in [Threads -> ThreadRecords] /\ Others(t)
      /\ threads'[t].at = "locking" /\ threads'[t].next = threads[t].next
  BY <1>1, AdvanceEffect DEF RegistryInv, Places
<1>3. ThreadOK(t)'
  BY <1>1, <1>2 DEF RegistryInv, ThreadOK, Critical
<1>4. \A u \in Threads \ {t} : ThreadOK(u)'
  BY <1>1, <1>2, OtherKeeps DEF RegistryInv, Others, ThreadOK
<1> QED
  BY <1>1, <1>2, <1>3, <1>4 DEF RegistryInv, TypeInv

LEMMA AcquireKeeps ==
  ASSUME RegistryInv, NEW t \in Threads, Acquire(t)
  PROVE  RegistryInv'
<1> DEFINE at == IF threads[t].job.op = "lookup" THEN "adding" ELSE "removing"
<1>1. /\ threads[t].at = "locking" /\ Advance(t, at) /\ at \in Places
      /\ holder = None /\ holder' = t /\ entries' = entries
  BY DEF Acquire, Places
<1>2. /\ threads' \in [Threads -> ThreadRecords] /\ Others(t)
      /\ threads'[t].at = at /\ threads'[t].job = threads[t].job
      /\ threads'[t].next = threads[t].next
  BY <1>1, AdvanceEffect DEF RegistryInv
<1>3. \A u \in Threads : ~Critical(u)
  BY <1>1, RegistryAssumption DEF RegistryInv, ThreadOK
<1>4. threads'[t].next = 1
  BY <1>1, <1>2 DEF RegistryInv, ThreadOK
<1>5. ThreadOK(t)'
  BY <1>1, <1>2, <1>4 DEF ThreadOK, Critical
<1>6. \A u \in Threads \ {t} : ThreadOK(u)'
  BY <1>2, <1>3, OtherKeeps DEF RegistryInv, Others
<1> QED
  BY <1>1, <1>2, <1>5, <1>6 DEF RegistryInv, TypeInv

LEMMA AddBuiltinKeeps ==
  ASSUME RegistryInv, NEW t \in Threads, AddBuiltin(t)
  PROVE  RegistryInv'
<1> DEFINE n == threads[t].next
           api == Builtins[n]
<1>1. /\ threads[t].at = "adding" /\ n <= Len(Builtins)
      /\ entries' = [entries EXCEPT ![api] = IF @ = None THEN "builtin" ELSE @]
      /\ threads' = [threads EXCEPT ![t].next = @ + 1]
      /\ holder' = holder
  BY DEF AddBuiltin
<1>2. n \in 1..Len(Builtins) /\ api \in Apis /\ threads[t] \in ThreadRecords
  BY <1>1, BuiltinsType DEF RegistryInv, TypeInv, ThreadRecords
<1>3. "builtin" # None
  BY RegistryAssumption
<1>4. /\ threads' \in [Threads -> ThreadRecords] /\ Others(t)
      /\ threads'[t].at = "adding" /\ threads'[t].next = n + 1
      /\ threads'[t].job = threads[t].job
  <2>1. n + 1 \in 1..(Len(Builtins) + 1)
    BY <1>2, BuiltinsType
  <2>2. [threads[t] EXCEPT !.next = @ + 1] \in ThreadRecords
    BY <1>2, <2>1 DEF ThreadRecords
  <2>3. threads'[t] = [threads[t] EXCEPT !.next = @ + 1]
    BY <1>1 DEF RegistryInv, TypeInv
  <2> QED
    BY <1>1, <1>2, <2>2, <2>3 DEF RegistryInv, TypeInv, ThreadRecords, Others
<1>5. /\ entries' \in [Apis -> {"builtin", None} \cup Threads]
      /\ entries'[api] # None
      /\ \A a \in Apis : entries[a] # None => entries'[a] # None
  BY <1>1, <1>2, <1>3 DEF RegistryInv, TypeInv
<1>6. ThreadOK(t)'
  <2>1. holder' = t
    BY <1>1 DEF RegistryInv, ThreadOK, Critical
  <2>2. \A i \in 1..((n + 1) - 1) : entries'[Builtins[i]] # None
    <3>1. \A i \in 1..(n - 1) : Builtins[i] \in Apis /\ entries[Builtins[i]] # None
      BY <1>1, <1>2, BuiltinsType DEF RegistryInv, ThreadOK
    <3>2. \A i \in 1..((n + 1) - 1) : i \in 1..(n - 1) \/ i = n
      BY <1>2, BuiltinsType
    <3> QED
      BY <1>5, <3>1, <3>2
  <2> QED
    BY <1>1, <1>4, <2>1, <2>2 DEF RegistryInv, ThreadOK
<1>7. \A u \in Threads \ {t} : ThreadOK(u)'
  BY <1>1, <1>4, <1>5, OtherKeeps DEF RegistryInv, Others, ThreadOK
<1> QED
  BY <1>4, <1>5, <1>6, <1>7 DEF RegistryInv, TypeInv

LEMMA AddedKeeps ==
  ASSUME RegistryInv, NEW t \in Threads, Added(t)
  PROVE  RegistryInv'
<1>1. /\ threads[t].at = "adding" /\ threads[t].next > Len(Builtins)
      /\ Advance(t, "looking") /\ holder' = holder /\ entries' = entries
  BY DEF Added
<1>2. /\ threads' \in [Threads -> ThreadRecords] /\ Others(t)
      /\ threads'[t].at = "looking" /\ threads'[t].job = threads[t].job
  BY <1>1, AdvanceEffect DEF RegistryInv, Places
<1>3. threads[t].next = Len(Builtins) + 1
  BY <1>1, BuiltinsType DEF RegistryInv, TypeInv, ThreadRecords
<1>4. \A i \in 1..Len(Builtins) : entries[Builtins[i]] # None
  BY <1>1, <1>3, BuiltinsType DEF RegistryInv, ThreadOK
<1>5. ThreadOK(t)'
  BY <1>1, <1>2, <1>4 DEF RegistryInv, ThreadOK, Critical
<1>6. \A u \in Threads \ {t} : ThreadOK(u)'
  BY <1>1, <1>2, OtherKeeps DEF RegistryInv, Others, ThreadOK
<1> QED
  BY <1>1, <1>2, <1>5, <1>6 DEF RegistryInv, TypeInv

\* Nobody else is in the critical section of the thread that is.
LEMMA Alone ==
  ASSUME RegistryInv, NEW t \in Threads, Critical(t),
         NEW u \in Threads \ {t}
  PROVE  ~Critical(u)
BY DEF RegistryInv, ThreadOK

LEMMA LookKeeps ==
  ASSUME RegistryInv, NEW t \in Threads, Look(t)
  PROVE  RegistryInv'
<1> DEFINE found == entries[threads[t].job.api]
<1>1. /\ threads[t].at = "looking" /\ entries' = entries
      /\ threads' = [threads EXCEPT ![t].handle = found, ![t].at = "done"]
  BY DEF Look
<1>2. threads[t] \in ThreadRecords
  BY DEF RegistryInv, TypeInv
<1>3. threads[t].job.api \in Apis /\ found \in {"builtin", None} \cup Threads
  <2>1. threads[t].job.op = "lookup"
    BY <1>1 DEF RegistryInv, ThreadOK
  <2>2. threads[t].job \in Jobs
    BY <1>2 DEF ThreadRecords
  <2>3. threads[t].job.api \in Apis
    BY <2>1, <2>2 DEF Jobs
  <2> QED
    BY <2>3 DEF RegistryInv, TypeInv
<1>4. /\ threads' \in [Threads -> ThreadRecords] /\ Others(t)
      /\ threads'[t].at = "done" /\ threads'[t].job = threads[t].job
      /\ threads'[t].handle = found
  <2>1. [threads[t] EXCEPT !.handle = found, !.at = "done"] \in ThreadRecords
    BY <1>2, <1>3 DEF ThreadRecords, Places
  <2>2. threads'[t] = [threads[t] EXCEPT !.handle = found, !.at = "done"]
    BY <1>1, <1>2 DEF RegistryInv, TypeInv, ThreadRecords
  <2> QED
    BY <1>1, <1>2, <2>1, <2>2 DEF RegistryInv, TypeInv, ThreadRecords, Others
<1>5. ThreadOK(t)'
  <2>1. threads[t].job.api \in Range(Builtins) => found # None
    BY <1>1, BuiltinsType DEF RegistryInv, ThreadOK
  <2> QED
    BY <1>1, <1>4, <2>1 DEF ThreadOK, Critical
<1>6. \A u \in Threads \ {t} : ThreadOK(u)'
  BY <1>1, <1>4, Alone, OtherKeeps DEF RegistryInv, Others, Critical
<1> QED
  BY <1>1, <1>4, <1>5, <1>6 DEF RegistryInv, TypeInv

LEMMA RemoveKeeps ==
  ASSUME RegistryInv, NEW t \in Threads, RemoveEntries(t)
  PROVE  RegistryInv'
<1>1. threads[t].at = "removing" /\ Advance(t, "done")
  BY DEF RemoveEntries
<1>2. /\ threads' \in [Threads -> ThreadRecords] /\ Others(t)
      /\ threads'[t].at = "done" /\ threads'[t].job = threads[t].job
  BY <1>1, AdvanceEffect DEF RegistryInv, Places
<1>3. entries' \in [Apis -> {"builtin", None} \cup Threads]
  BY DEF RemoveEntries, RegistryInv, TypeInv
<1>4. ThreadOK(t)'
  BY <1>1, <1>2 DEF RegistryInv, ThreadOK, Critical
<1>5. \A u \in Threads \ {t} : ThreadOK(u)'
  BY <1>1, <1>2, Alone, OtherKeeps DEF RegistryInv, Others, Critical
<1> QED
  BY <1>2, <1>3, <1>4, <1>5 DEF RegistryInv, TypeInv

LEMMA StepKeeps ==
  ASSUME RegistryInv, [RegistryNext]_registryVars
  PROVE  RegistryInv'
<1>1. CASE UNCHANGED registryVars
  BY <1>1 DEF registryVars, RegistryInv, TypeInv, ThreadOK, Critical
<1>2. ASSUME NEW t \in Threads, RegistryStep(t) PROVE RegistryInv'
  BY <1>2, RegisterKeeps, LockKeeps, AcquireKeeps, AddBuiltinKeeps, AddedKeeps,
     LookKeeps, RemoveKeeps DEF RegistryStep
<1> QED
  BY <1>1, <1>2 DEF RegistryNext

\* A lookup finds a provider for every API the build has one for, however many
\* threads clear the registry, remove from it and add to it in the meantime
\* (register_builtins.rs: ensure_and_get under the lifecycle lock).
THEOREM BuiltinsAlwaysFound == RegistrySpec => []BuiltinAlwaysFound
<1>1. RegistryInv => BuiltinAlwaysFound
  BY DEF RegistryInv, ThreadOK, BuiltinAlwaysFound
<1> QED
  BY <1>1, InitInv, StepKeeps, PTL DEF RegistrySpec

----------------------------------------------------------------------------
\* What CustomKept says of one step.
Kept(a) ==
  (entries[a] \in Threads /\ entries'[a] # entries[a]) =>
    \E t \in Threads :
      /\ threads[t].at # "done" /\ threads'[t].at = "done"
      /\ \/ threads[t].job.op = "register" /\ entries'[a] = t
         \/ threads[t].job.op = "clear"
         \/ /\ threads[t].job.op = "unregister"
            /\ threads[t].job.source = entries[a]

LEMMA KeptByStep ==
  ASSUME RegistryInv, NEW t \in Threads, RegistryStep(t), NEW a \in Apis,
         entries[a] \in Threads, entries'[a] # entries[a]
  PROVE  /\ threads[t].at # "done" /\ threads'[t].at = "done"
         /\ \/ threads[t].job.op = "register" /\ entries'[a] = t
            \/ threads[t].job.op = "clear"
            \/ /\ threads[t].job.op = "unregister"
               /\ threads[t].job.source = entries[a]
<1>1. CASE Register(t)
  <2>1. threads[t].at = "idle" /\ threads'[t].at = "done"
        /\ threads[t].job.op = "register"
    BY <1>1, AdvanceEffect DEF Register, RegistryInv, Places
  <2>2. entries'[a] = t
    BY <1>1 DEF Register, RegistryInv, TypeInv
  <2> QED
    BY <2>1, <2>2
<1>2. CASE AddBuiltin(t)
  <2>1. entries[a] # None
    BY RegistryAssumption
  <2> QED
    BY <1>2, <2>1 DEF AddBuiltin, RegistryInv, TypeInv
<1>3. CASE RemoveEntries(t)
  <2>1. threads[t].at = "removing" /\ threads'[t].at = "done"
    BY <1>3, AdvanceEffect DEF RemoveEntries, RegistryInv, Places
  <2>2. \/ threads[t].job.op = "clear"
        \/ threads[t].job.op = "unregister" /\ entries[a] = threads[t].job.source
    BY <1>3 DEF RemoveEntries
  <2> QED
    BY <2>1, <2>2
<1>4. CASE Lock(t) \/ Acquire(t) \/ Added(t) \/ Look(t)
  BY <1>4 DEF Lock, Acquire, Added, Look
<1> QED
  BY <1>1, <1>2, <1>3, <1>4 DEF RegistryStep

\* Putting the built-ins back never takes the place of a custom provider
\* (register_builtins.rs: register_api_provider_if_absent).
THEOREM CustomProvidersKept == RegistrySpec => CustomKept
<1>1. RegistryInv /\ [RegistryNext]_registryVars
        => [\A a \in Apis : Kept(a)]_registryVars
  <2> SUFFICES ASSUME RegistryInv, RegistryNext, NEW a \in Apis PROVE Kept(a)
    OBVIOUS
  <2>1. PICK t \in Threads : RegistryStep(t)
    BY DEF RegistryNext
  <2> QED
    BY <2>1, KeptByStep DEF Kept
<1>2. RegistrySpec => [][\A a \in Apis : Kept(a)]_registryVars
  BY <1>1, InitInv, StepKeeps, PTL DEF RegistrySpec
<1> QED
  BY <1>2 DEF CustomKept, Kept

----------------------------------------------------------------------------
\* The retries of a request.

\* The requests sent are the attempts, and one more from the moment it is
\* sent until the sleep that follows it; an attempt after the first was
\* granted.
SentCounted ==
  /\ sent \in {attempt, attempt + 1}
  /\ sending = "ready" => sent = attempt
  /\ sending \in {"inflight", "draining", "sleeping"} => sent = attempt + 1
  /\ sending \in {"draining", "sleeping"} => attempt < limits.retries
  /\ sending \in {"draining", "sleeping"} => replayable
  /\ attempt <= limits.retries
  /\ attempt > 0 => replayable
CountInv == RetryTypeOK /\ SentCounted

LEMMA BackoffType ==
  ASSUME NEW n \in Nat, NEW server \in Nat, NEW cap \in Nat,
         NEW d \in BackoffDelays(n, server, cap)
  PROVE  /\ d \in Nat /\ d >= 1 /\ d <= AtLeastOne(cap)
         /\ (server > 0 /\ server <= cap) => d = server
<1>1. AtLeastOne(cap) \in Nat /\ AtLeastOne(cap) >= 1 /\ (cap > 0 => AtLeastOne(cap) = cap)
  BY DEF AtLeastOne
<1>2. CASE server > 0
  BY <1>1, <1>2 DEF BackoffDelays, Smaller
<1>3. CASE server = 0
  <2>1. PICK jitter \in Jitters :
          d = Smaller(BaseDelays[Smaller(n, 6) + 1] + jitter, AtLeastOne(cap))
    BY <1>3 DEF BackoffDelays
  <2>2. jitter \in Nat /\ jitter >= 1
    BY RetryAssumption
  <2>3. Smaller(n, 6) + 1 \in 1..7
    BY DEF Smaller
  <2>4. BaseDelays[Smaller(n, 6) + 1] \in Nat
    BY <2>3 DEF BaseDelays
  <2> QED
    BY <1>1, <1>3, <2>1, <2>2, <2>4 DEF Smaller
<1> QED
  BY <1>2, <1>3

LEMMA AnswerType ==
  ASSUME NEW answer \in Answers
  PROVE  /\ answer.kind \in {"response", "transport"}
         /\ answer.retryable \in BOOLEAN
         /\ answer.after \in Nat /\ ServerDelay(answer.after) \in Nat
         /\ answer.after > 0 => ServerDelay(answer.after) > 0
<1>1. answer.kind \in {"response", "transport"} /\ answer.retryable \in BOOLEAN
  BY DEF Answers
<1>2. answer.after \in Nat
  <2>1. answer.after \in RetryAfters \cup {0}
    BY DEF Answers
  <2>2. RetryAfters \cup {0} \subseteq Nat
    BY RetryAssumption
  <2> QED
    BY <2>1, <2>2
<1>3. \A n \in Nat : n * 1000 \in Nat /\ (n > 0 => n * 1000 > 0)
  OBVIOUS
<1> QED
  BY <1>1, <1>2, <1>3 DEF ServerDelay

LEMMA LimitsType ==
  ASSUME RetryTypeOK
  PROVE  limits.retries \in Nat /\ limits.cap \in Nat
BY RetryAssumption DEF RetryTypeOK

\* What Retry leaves behind.
LEMMA RetryEffect ==
  ASSUME RetryTypeOK, NEW answer \in Answers, Retry(answer)
  PROVE  \/ sending' = "settled" /\ outcome' = "too_long" /\ delay' = delay
         \/ /\ sending' \in {"draining", "sleeping"} /\ outcome' = outcome
            /\ delay' \in Nat /\ delay' >= 1
            /\ delay' <= AtLeastOne(limits.cap)
            /\ (answer.kind = "response" /\ answer.after > 0 /\ limits.cap > 0)
                 => delay' = ServerDelay(answer.after)
<1> DEFINE server == IF answer.kind = "response" THEN ServerDelay(answer.after)
                     ELSE 0
<1>1. server \in Nat /\ attempt \in Nat /\ limits.cap \in Nat
  BY AnswerType, LimitsType DEF RetryTypeOK
<1>2. CASE ~Convertible(answer.after) \/ (server > limits.cap /\ limits.cap > 0)
  BY <1>2 DEF Retry, Settle
<1>3. CASE ~(~Convertible(answer.after) \/ (server > limits.cap /\ limits.cap > 0))
  <2>1. delay' \in BackoffDelays(attempt, server, limits.cap)
    BY <1>3 DEF Retry
  <2>2. /\ delay' \in Nat /\ delay' >= 1 /\ delay' <= AtLeastOne(limits.cap)
        /\ (server > 0 /\ server <= limits.cap) => delay' = server
    BY <1>1, <2>1, BackoffType
  <2>3. sending' \in {"draining", "sleeping"} /\ outcome' = outcome
    BY <1>3 DEF Retry
  <2>4. ASSUME answer.kind = "response", answer.after > 0, limits.cap > 0
        PROVE  delay' = ServerDelay(answer.after)
    BY <1>1, <1>3, <2>2, <2>4, AnswerType
  <2> QED
    BY <2>2, <2>3, <2>4
<1> QED
  BY <1>2, <1>3

LEMMA AnswerEffect ==
  ASSUME RetryTypeOK, Answer
  PROVE  \E answer \in Answers :
           /\ requests' = Append(requests, [answer |-> answer, waited |-> delay])
           /\ answer.after > 0 => answer.kind = "response"
           /\ \/ MayRetry(answer) /\ Retry(answer)
              \/ sending' = "settled" /\ outcome' = answer.kind /\ delay' = delay
BY DEF Answer, Settle

----------------------------------------------------------------------------
LEMMA TypeStep ==
  ASSUME RetryTypeOK, RetryNext \/ Cancel
  PROVE  RetryTypeOK'
<1>1. CASE SendRequest
  BY <1>1 DEF SendRequest, RetryTypeOK, Phases
<1>2. CASE Answer
  <2>1. PICK answer \in Answers :
          /\ requests' = Append(requests, [answer |-> answer, waited |-> delay])
          /\ \/ MayRetry(answer) /\ Retry(answer)
             \/ sending' = "settled" /\ outcome' = answer.kind /\ delay' = delay
    BY <1>2, AnswerEffect
  <2>2. UNCHANGED <<limits, replayable, token, attempt, sent>>
        /\ sending = "inflight"
    BY <1>2 DEF Answer
  <2>3. requests' \in Seq([answer : Answers, waited : Nat])
    BY <2>1 DEF RetryTypeOK
  <2>4. /\ sending' \in Phases /\ outcome' \in Outcomes /\ delay' \in Nat
        /\ (sending' = "settled") = (outcome' # "none")
    BY <2>1, <2>2, RetryEffect, AnswerType DEF RetryTypeOK, Phases, Outcomes
  <2> QED
    BY <2>2, <2>3, <2>4 DEF RetryTypeOK
<1>3. CASE Drain
  BY <1>3 DEF Drain, Settle, RetryTypeOK, Phases, Outcomes
<1>4. CASE Sleep
  BY <1>4 DEF Sleep, RetryTypeOK, Phases
<1>5. CASE AbortSend
  BY <1>5 DEF AbortSend, Settle, RetryTypeOK, Phases, Outcomes
<1>6. CASE Cancel
  BY <1>6 DEF Cancel, RetryTypeOK
<1> QED
  BY <1>1, <1>2, <1>3, <1>4, <1>5, <1>6 DEF RetryNext

LEMMA TypeStutter ==
  ASSUME RetryTypeOK, UNCHANGED retryVars
  PROVE  RetryTypeOK'
BY DEF RetryTypeOK, retryVars

LEMMA InitType ==
  ASSUME RetryInit
  PROVE  RetryTypeOK
<1>1. requests \in Seq([answer : Answers, waited : Nat])
  BY DEF RetryInit
<1>2. /\ sending \in Phases /\ outcome \in Outcomes /\ token \in BOOLEAN
      /\ attempt \in Nat /\ delay \in Nat /\ sent \in Nat
      /\ (sending = "settled") = (outcome # "none")
  BY DEF RetryInit, Phases, Outcomes
<1> QED
  BY <1>1, <1>2 DEF RetryInit, RetryTypeOK

\* The state of a call is well formed, and it has settled just when it
\* returned something.
THEOREM RetryTypeCorrect == RetrySpec => []RetryTypeOK
<1>1. RetryInit => RetryTypeOK
  BY InitType
<1>2. RetryTypeOK /\ [RetryNext \/ Cancel]_retryVars => RetryTypeOK'
  BY TypeStep, TypeStutter
<1> QED
  BY <1>1, <1>2, PTL DEF RetrySpec

----------------------------------------------------------------------------
LEMMA CountStep ==
  ASSUME CountInv, RetryNext \/ Cancel
  PROVE  SentCounted'
<1> USE DEF CountInv, SentCounted
<1>0. /\ limits.retries \in Nat /\ attempt \in Nat /\ sent \in Nat
      /\ replayable \in BOOLEAN
  BY LimitsType DEF RetryTypeOK
<1>1. CASE SendRequest
  BY <1>0, <1>1 DEF SendRequest
<1>2. CASE Answer
  <2>1. PICK answer \in Answers :
          \/ MayRetry(answer) /\ Retry(answer)
          \/ sending' = "settled"
    BY <1>2, AnswerEffect
  <2>2. UNCHANGED <<limits, replayable, attempt, sent>>
        /\ sending = "inflight"
    BY <1>2 DEF Answer
  <2>3. CASE MayRetry(answer) /\ Retry(answer)
    <3>1. replayable /\ attempt < limits.retries
      BY <2>3 DEF MayRetry
    <3>2. sending' \in {"settled", "draining", "sleeping"}
      BY <2>3, RetryEffect
    <3> QED
      BY <1>0, <2>2, <3>1, <3>2
  <2>4. CASE sending' = "settled"
    BY <1>0, <2>2, <2>4
  <2> QED
    BY <2>1, <2>3, <2>4
<1>3. CASE Drain
  BY <1>0, <1>3 DEF Drain, Settle
<1>4. CASE Sleep
  BY <1>0, <1>4 DEF Sleep
<1>5. CASE AbortSend
  BY <1>0, <1>5 DEF AbortSend, Settle
<1>6. CASE Cancel
  BY <1>0, <1>6 DEF Cancel
<1> QED
  BY <1>1, <1>2, <1>3, <1>4, <1>5, <1>6 DEF RetryNext

\* However errors, delays and cancellation combine, no more requests are sent
\* than the caller allowed, and only one when it cannot be repeated
\* (retry.rs: send_with_retry).
THEOREM RequestsNeverExceed == RetrySpec => []RequestsBounded
<1>1. RetryInit => CountInv
  <2> SUFFICES ASSUME RetryInit PROVE CountInv
    OBVIOUS
  <2>1. limits.retries \in Nat
    BY RetryAssumption DEF RetryInit
  <2>2. RetryTypeOK
    BY InitType
  <2> QED
    BY <2>1, <2>2 DEF RetryInit, CountInv, SentCounted
<1>2. CountInv /\ [RetryNext \/ Cancel]_retryVars => CountInv'
  <2> SUFFICES ASSUME CountInv, [RetryNext \/ Cancel]_retryVars PROVE CountInv'
    OBVIOUS
  <2>1. CASE RetryNext \/ Cancel
    BY <2>1, TypeStep, CountStep DEF CountInv
  <2>2. CASE UNCHANGED retryVars
    BY <2>2, TypeStutter DEF CountInv, SentCounted, retryVars
  <2> QED
    BY <2>1, <2>2
<1>3. CountInv => RequestsBounded
  <2> SUFFICES ASSUME CountInv PROVE RequestsBounded
    OBVIOUS
  <2>1. limits.retries \in Nat /\ attempt \in Nat
    BY LimitsType DEF CountInv, RetryTypeOK
  <2> QED
    BY <2>1 DEF CountInv, SentCounted, RequestsBounded
<1> QED
  BY <1>1, <1>2, <1>3, PTL DEF RetrySpec

----------------------------------------------------------------------------
\* The wait before the next request is the one the last answer asked for,
\* from the moment it is chosen until that request is answered.
Granted(answer, wait) ==
  /\ replayable /\ answer.retryable
  /\ wait <= AtLeastOne(limits.cap) /\ wait >= 1
  /\ (answer.after > 0 /\ limits.cap > 0) => wait = ServerDelay(answer.after)
WaitCarried ==
  /\ sending \in {"draining", "sleeping"} => requests # <<>>
  /\ (requests # <<>> /\ sending # "settled")
       => Granted(requests[Len(requests)].answer, delay)
WarrantInv == RetryTypeOK /\ WaitCarried /\ RetriesWarranted

LEMMA WarrantStep ==
  ASSUME WarrantInv, RetryNext \/ Cancel
  PROVE  WaitCarried' /\ RetriesWarranted'
<1>0. requests \in Seq([answer : Answers, waited : Nat])
  BY DEF WarrantInv, RetryTypeOK
<1>1. CASE Answer
  <2>1. PICK answer \in Answers :
          /\ requests' = Append(requests, [answer |-> answer, waited |-> delay])
          /\ answer.after > 0 => answer.kind = "response"
          /\ \/ MayRetry(answer) /\ Retry(answer)
             \/ sending' = "settled" /\ outcome' = answer.kind /\ delay' = delay
    BY <1>1, AnswerEffect DEF WarrantInv
  <2>2. sending = "inflight" /\ UNCHANGED <<limits, replayable>>
    BY <1>1 DEF Answer
  <2>3. /\ Len(requests') = Len(requests) + 1 /\ Len(requests) \in Nat
        /\ requests' # <<>>
        /\ requests'[Len(requests) + 1].answer = answer
        /\ requests'[Len(requests) + 1].waited = delay
        /\ \A i \in 1..Len(requests) : requests'[i] = requests[i]
    BY <1>0, <2>1
  <2>4. sending' \in {"draining", "sleeping"} \/ sending' = "settled"
    BY <2>1, RetryEffect DEF WarrantInv
  <2>5. ASSUME sending' # "settled"
        PROVE  /\ replayable /\ answer.retryable
               /\ delay' >= 1 /\ delay' <= AtLeastOne(limits.cap)
               /\ (answer.after > 0 /\ limits.cap > 0)
                    => delay' = ServerDelay(answer.after)
    <3>1. MayRetry(answer) /\ Retry(answer)
      BY <2>1, <2>5
    <3>2. replayable /\ answer.retryable
      BY <3>1 DEF MayRetry
    <3>3. /\ delay' >= 1 /\ delay' <= AtLeastOne(limits.cap)
          /\ (answer.kind = "response" /\ answer.after > 0 /\ limits.cap > 0)
               => delay' = ServerDelay(answer.after)
      BY <2>5, <3>1, RetryEffect DEF WarrantInv
    <3> QED
      BY <2>1, <3>2, <3>3
  <2>6. WaitCarried'
    <3>1. requests'[Len(requests')].answer = answer
      BY <2>3
    <3> QED
      BY <2>2, <2>3, <2>5, <3>1 DEF WaitCarried, Granted, AtLeastOne
  <2>7. ASSUME NEW i \in 2..Len(requests')
        PROVE  Granted(requests'[i - 1].answer, requests'[i].waited)
    <3>1. CASE i <= Len(requests)
      BY <2>3, <2>7, <3>1 DEF WarrantInv, RetriesWarranted, Granted
    <3>2. CASE i = Len(requests) + 1
      <4>1. requests # <<>> /\ Len(requests) \in 1..Len(requests)
        BY <1>0, <2>3, <2>7, <3>2
      <4>2. Granted(requests[Len(requests)].answer, delay)
        BY <2>2, <4>1 DEF WarrantInv, WaitCarried
      <4>3. requests'[i - 1] = requests[Len(requests)]
            /\ requests'[i].waited = delay
        BY <2>3, <3>2, <4>1
      <4> QED
        BY <4>2, <4>3
    <3> QED
      BY <2>3, <2>7, <3>1, <3>2
  <2> QED
    BY <2>2, <2>6, <2>7 DEF RetriesWarranted, Granted, AtLeastOne
<1>2. CASE SendRequest \/ Drain \/ Sleep \/ AbortSend \/ Cancel
  <2>1. UNCHANGED <<limits, replayable, requests, delay>>
    BY <1>2 DEF SendRequest, Drain, Sleep, AbortSend, Cancel
  <2>2. sending' # "settled" => sending # "settled"
    BY <1>2 DEF SendRequest, Drain, Sleep, AbortSend, Cancel, Settle
  <2>3. sending' \in {"draining", "sleeping"} => sending \in {"draining", "sleeping"}
    BY <1>2 DEF SendRequest, Drain, Sleep, AbortSend, Cancel, Settle
  <2> QED
    BY <2>1, <2>2, <2>3 DEF WarrantInv, WaitCarried, RetriesWarranted, Granted
<1> QED
  BY <1>1, <1>2 DEF RetryNext

\* A request is only repeated after an answer that asked for it, and after the
\* wait it asked for, within the caller's limit (retry.rs: retry_after_ms,
\* backoff_delay).
THEOREM RetriesAreWarranted == RetrySpec => []RetriesWarranted
<1>1. RetryInit => WarrantInv
  <2> SUFFICES ASSUME RetryInit PROVE WarrantInv
    OBVIOUS
  <2>1. requests = <<>> /\ Len(requests) = 0 /\ sending = "ready"
    BY DEF RetryInit
  <2>2. RetryTypeOK
    BY InitType
  <2> QED
    BY <2>1, <2>2 DEF WarrantInv, WaitCarried, RetriesWarranted
<1>2. WarrantInv /\ [RetryNext \/ Cancel]_retryVars => WarrantInv'
  <2> SUFFICES ASSUME WarrantInv, [RetryNext \/ Cancel]_retryVars
               PROVE  WarrantInv'
    OBVIOUS
  <2>1. CASE RetryNext \/ Cancel
    BY <2>1, TypeStep, WarrantStep DEF WarrantInv
  <2>2. CASE UNCHANGED retryVars
    <3>1. RetryTypeOK'
      BY <2>2, TypeStutter DEF WarrantInv
    <3>2. WaitCarried' /\ RetriesWarranted'
      BY <2>2 DEF WarrantInv, WaitCarried, RetriesWarranted, Granted, retryVars
    <3> QED
      BY <3>1, <3>2 DEF WarrantInv
  <2> QED
    BY <2>1, <2>2
<1>3. WarrantInv => RetriesWarranted
  BY DEF WarrantInv
<1> QED
  BY <1>1, <1>2, <1>3, PTL DEF RetrySpec

----------------------------------------------------------------------------
\* The event channel, whatever is pushed into it.

ChannelMoves == (\E e : PushEvent(e)) \/ CloseSender \/ ConsumerStep

QueueInv ==
  /\ \E S : queue \in Seq(S) /\ received \in Seq(S) /\ pushed \in Seq(S)
  /\ Open => received \o queue = pushed
  /\ Len(received) <= Len(pushed)
  /\ \A i \in 1..Len(received) : received[i] = pushed[i]

\* What is appended leaves what was there.
LEMMA AppendKeeps ==
  ASSUME NEW S, NEW s \in Seq(S), NEW e
  PROVE  /\ Append(s, e) \in Seq(S \cup {e}) /\ s \in Seq(S \cup {e})
         /\ Len(Append(s, e)) = Len(s) + 1 /\ Len(s) \in Nat
         /\ Append(s, e)[Len(s) + 1] = e
         /\ \A i \in 1..Len(s) : Append(s, e)[i] = s[i]
<1>1. s \in Seq(S \cup {e})
  OBVIOUS
<1> QED
  BY <1>1

\* Moving the head of a queue behind what was received changes nothing of
\* the two together.
LEMMA MoveHead ==
  ASSUME NEW S, NEW r \in Seq(S), NEW q \in Seq(S), q # <<>>
  PROVE  /\ Append(r, Head(q)) \o Tail(q) = r \o q
         /\ Append(r, Head(q)) \in Seq(S) /\ Tail(q) \in Seq(S)
<1>1. Head(q) \in S /\ Tail(q) \in Seq(S) /\ Len(Tail(q)) = Len(q) - 1
      /\ Len(q) \in Nat /\ Len(q) >= 1
  OBVIOUS
<1>2. Append(r, Head(q)) \in Seq(S) /\ Len(Append(r, Head(q))) = Len(r) + 1
  BY <1>1
<1> DEFINE s == Append(r, Head(q)) \o Tail(q)
           t == r \o q
<1>3. s \in Seq(S) /\ t \in Seq(S) /\ Len(s) = Len(t)
  BY <1>1, <1>2
<1>4. ASSUME NEW i \in 1..Len(s) PROVE s[i] = t[i]
  <2>1. CASE i <= Len(r)
    BY <1>1, <1>2, <2>1
  <2>2. CASE i = Len(r) + 1
    BY <1>1, <1>2, <2>2
  <2>3. CASE i > Len(r) + 1
    BY <1>1, <1>2, <1>3, <2>3
  <2> QED
    BY <1>3, <2>1, <2>2, <2>3
<1> QED
  BY <1>1, <1>2, <1>3, <1>4

\* The first part of a concatenation is the beginning of it.
LEMMA ConcatBegins ==
  ASSUME NEW S, NEW r \in Seq(S), NEW q \in Seq(S)
  PROVE  /\ Len(r) <= Len(r \o q)
         /\ \A i \in 1..Len(r) : r[i] = (r \o q)[i]
OBVIOUS

LEMMA AppendConcat ==
  ASSUME NEW S, NEW r \in Seq(S), NEW q \in Seq(S), NEW e \in S
  PROVE  r \o Append(q, e) = Append(r \o q, e)
<1> DEFINE s == r \o Append(q, e)
           t == Append(r \o q, e)
<1>1. s \in Seq(S) /\ t \in Seq(S) /\ Len(s) = Len(t)
      /\ Len(s) = Len(r) + Len(q) + 1
  OBVIOUS
<1>2. ASSUME NEW i \in 1..Len(s) PROVE s[i] = t[i]
  <2>1. CASE i <= Len(r)
    BY <1>1, <2>1
  <2>2. CASE i > Len(r) /\ i <= Len(r) + Len(q)
    BY <1>1, <2>2
  <2>3. CASE i = Len(r) + Len(q) + 1
    BY <1>1, <2>3
  <2> QED
    BY <1>1, <2>1, <2>2, <2>3
<1> QED
  BY <1>1, <1>2

LEMMA QueuePush ==
  ASSUME QueueInv, NEW e, PushEvent(e)
  PROVE  QueueInv'
<1>1. /\ pushed' = Append(pushed, e) /\ received' = received
      /\ consumer' = consumer
      /\ queue' = IF Open THEN Append(queue, e) ELSE queue
  BY DEF PushEvent
<1>2. PICK S : queue \in Seq(S) /\ received \in Seq(S) /\ pushed \in Seq(S)
  BY DEF QueueInv
<1> DEFINE T == S \cup {e}
<1>3. /\ queue \in Seq(T) /\ received \in Seq(T) /\ pushed' \in Seq(T) /\ e \in T
      /\ Append(queue, e) \in Seq(T)
  BY <1>1, <1>2, AppendKeeps
<1> HIDE DEF T
<1>4. queue' \in Seq(T) /\ received' \in Seq(T) /\ pushed' \in Seq(T)
  BY <1>1, <1>3
<1>5. ASSUME Open' PROVE received' \o queue' = pushed'
  <2>1. Open
    BY <1>1, <1>5 DEF Open
  <2>2. received \o queue = pushed
    BY <2>1 DEF QueueInv
  <2>3. received \o Append(queue, e) = Append(received \o queue, e)
    BY <1>3, AppendConcat
  <2> QED
    BY <1>1, <2>1, <2>2, <2>3
<1>6. /\ Len(received') <= Len(pushed')
      /\ \A i \in 1..Len(received') : received'[i] = pushed'[i]
  <2>1. /\ Len(pushed') = Len(pushed) + 1 /\ Len(received) \in Nat
        /\ \A i \in 1..Len(pushed) : pushed'[i] = pushed[i]
    BY <1>1, <1>2, AppendKeeps
  <2> QED
    BY <1>1, <1>2, <2>1 DEF QueueInv
<1> QED
  BY <1>4, <1>5, <1>6 DEF QueueInv

LEMMA QueueStep ==
  ASSUME QueueInv, [ChannelMoves]_channelVars
  PROVE  QueueInv'
<1>1. CASE \E e : PushEvent(e)
  BY <1>1, QueuePush
<1>2. CASE CloseSender
  BY <1>2 DEF CloseSender, QueueInv, Open
<1>3. CASE TakeNext
  <2>1. received' = Append(received, Head(queue)) /\ queue' = Tail(queue)
        /\ queue # <<>> /\ Open /\ pushed' = pushed /\ consumer' = consumer
    BY <1>3 DEF TakeNext, Open
  <2>2. PICK S : queue \in Seq(S) /\ received \in Seq(S) /\ pushed \in Seq(S)
    BY DEF QueueInv
  <2>3. received' \in Seq(S) /\ queue' \in Seq(S) /\ received' \o queue' = pushed'
    BY <2>1, <2>2, MoveHead DEF QueueInv
  <2>4. /\ Len(received') <= Len(pushed')
        /\ \A i \in 1..Len(received') : received'[i] = pushed'[i]
    BY <2>3, ConcatBegins
  <2> QED
    BY <2>1, <2>2, <2>3, <2>4 DEF QueueInv
<1>4. CASE DropStream \/ ResolveResult
  <2>1. /\ queue' = <<>> /\ UNCHANGED <<received, pushed>> /\ ~Open'
    BY <1>4 DEF DropStream, ResolveResult, Open
  <2>2. PICK S : received \in Seq(S) /\ pushed \in Seq(S)
    BY DEF QueueInv
  <2>3. queue' \in Seq(S)
    BY <2>1
  <2> QED
    BY <2>1, <2>2, <2>3 DEF QueueInv
<1>5. CASE CallResult
  BY <1>5 DEF CallResult, QueueInv, Open
<1>6. CASE UNCHANGED channelVars
  BY <1>6 DEF channelVars, QueueInv, Open
<1> QED
  BY <1>1, <1>2, <1>3, <1>4, <1>5, <1>6 DEF ChannelMoves, ConsumerStep

LEMMA QueueInit ==
  ASSUME ChannelInit
  PROVE  QueueInv
<1>1. <<>> \in Seq({})
  OBVIOUS
<1> QED
  BY <1>1 DEF ChannelInit, QueueInv, Open

LEMMA QueueDelivers == QueueInv => DeliveredInOrder
BY DEF QueueInv, DeliveredInOrder

LEMMA ChannelStepMoves ==
  ASSUME [ChannelNext]_channelVars
  PROVE  [ChannelMoves]_channelVars
BY DEF ChannelNext, ChannelMoves

\* The consumer is given the events in the order they were pushed, none lost
\* and none twice (event_stream.rs: push, poll_next).
THEOREM EventsDeliveredInOrder == ChannelSpec => []DeliveredInOrder
<1> QED
  BY QueueInit, ChannelStepMoves, QueueStep, QueueDelivers, PTL DEF ChannelSpec

----------------------------------------------------------------------------
NoTerminal(events) == \A i \in 1..Len(events) : events[i] \notin Terminals

\* The message is the first terminal pushed, from the moment the oneshot is
\* resolved; a result is the message, or there will never be one.
ResultInv ==
  /\ \E S : pushed \in Seq(S)
  /\ final = "unsent" => message = Nobody /\ NoTerminal(pushed)
  /\ final \in {"unsent", "sent"}
  /\ final = "sent" => FirstTerminal(pushed, message)
  /\ consumer = "resolved" =>
       \/ final = "sent" /\ result = message
       \/ final = "unsent" /\ ~sender /\ result = Nobody

LEMMA FirstStays ==
  ASSUME NEW S, NEW s \in Seq(S), NEW e, NEW m, FirstTerminal(s, m)
  PROVE  FirstTerminal(Append(s, e), m)
<1>1. PICK i \in 1..Len(s) :
        /\ s[i] = m /\ m \in Terminals
        /\ \A j \in 1..(i - 1) : s[j] \notin Terminals
  BY DEF FirstTerminal
<1>2. i \in 1..Len(Append(s, e)) /\ Append(s, e)[i] = m
  BY <1>1, AppendKeeps
<1>3. \A j \in 1..(i - 1) : Append(s, e)[j] \notin Terminals
  BY <1>1, AppendKeeps
<1> QED
  BY <1>1, <1>2, <1>3 DEF FirstTerminal

LEMMA FirstComes ==
  ASSUME NEW S, NEW s \in Seq(S), NEW e \in Terminals, NoTerminal(s)
  PROVE  FirstTerminal(Append(s, e), e)
<1>1. /\ Len(s) + 1 \in 1..Len(Append(s, e)) /\ Append(s, e)[Len(s) + 1] = e
      /\ \A j \in 1..((Len(s) + 1) - 1) : Append(s, e)[j] \notin Terminals
  BY AppendKeeps DEF NoTerminal
<1> QED
  BY <1>1 DEF FirstTerminal

LEMMA NoneComes ==
  ASSUME NEW S, NEW s \in Seq(S), NEW e, e \notin Terminals, NoTerminal(s)
  PROVE  NoTerminal(Append(s, e))
<1>1. ASSUME NEW i \in 1..Len(Append(s, e)) PROVE Append(s, e)[i] \notin Terminals
  <2>1. i \in 1..Len(s) \/ i = Len(s) + 1
    BY AppendKeeps
  <2> QED
    BY <2>1, AppendKeeps DEF NoTerminal
<1> QED
  BY <1>1 DEF NoTerminal

LEMMA ResultPush ==
  ASSUME ResultInv, NEW e, PushEvent(e)
  PROVE  ResultInv'
<1>1. /\ pushed' = Append(pushed, e) /\ sender
      /\ UNCHANGED <<sender, consumer, result>>
  BY DEF PushEvent
<1>0. PICK S : pushed \in Seq(S)
  BY DEF ResultInv
<1>2. pushed' \in Seq(S \cup {e})
  BY <1>0, <1>1, AppendKeeps
<1>3. CASE e \in Terminals /\ final = "unsent"
  <2>1. final' = "sent" /\ message' = e
    BY <1>3 DEF PushEvent
  <2>2. FirstTerminal(pushed', message')
    BY <1>0, <1>1, <1>3, <2>1, FirstComes DEF ResultInv
  <2> QED
    BY <1>1, <1>2, <1>3, <2>1, <2>2 DEF ResultInv
<1>4. CASE final = "sent"
  <2>1. UNCHANGED <<final, message>>
    BY <1>4 DEF PushEvent
  <2>2. FirstTerminal(pushed', message')
    BY <1>0, <1>1, <1>4, <2>1, FirstStays DEF ResultInv
  <2> QED
    BY <1>1, <1>2, <1>4, <2>1, <2>2 DEF ResultInv
<1>5. CASE e \notin Terminals /\ final = "unsent"
  <2>1. UNCHANGED <<final, message>>
    BY <1>5 DEF PushEvent
  <2>2. NoTerminal(pushed')
    BY <1>0, <1>1, <1>5, NoneComes DEF ResultInv
  <2> QED
    BY <1>1, <1>2, <1>5, <2>1, <2>2 DEF ResultInv
<1> QED
  BY <1>3, <1>4, <1>5 DEF ResultInv

LEMMA ResultStep ==
  ASSUME ResultInv, [ChannelMoves]_channelVars
  PROVE  ResultInv'
<1>1. CASE \E e : PushEvent(e)
  BY <1>1, ResultPush
<1>2. CASE CloseSender
  BY <1>2 DEF CloseSender, ResultInv
<1>3. CASE TakeNext \/ DropStream \/ CallResult
  BY <1>3 DEF TakeNext, DropStream, CallResult, ResultInv
<1>4. CASE ResolveResult
  BY <1>4 DEF ResolveResult, ResultInv
<1>5. CASE UNCHANGED channelVars
  BY <1>5 DEF channelVars, ResultInv
<1> QED
  BY <1>1, <1>2, <1>3, <1>4, <1>5 DEF ChannelMoves, ConsumerStep

LEMMA ResultInit ==
  ASSUME ChannelInit
  PROVE  ResultInv
<1>1. <<>> \in Seq({})
  OBVIOUS
<1> QED
  BY <1>1 DEF ChannelInit, ResultInv, NoTerminal

LEMMA ResultFirst == ResultInv => ResultIsFirstTerminal
BY DEF ResultInv, ResultIsFirstTerminal, NoTerminal

\* result() returns the first terminal event that was pushed, or nothing when
\* the producer went away without one (event_stream.rs: push, result).
THEOREM ResultReturnsFirstTerminal == ChannelSpec => []ResultIsFirstTerminal
<1> QED
  BY ResultInit, ChannelStepMoves, ResultStep, ResultFirst, PTL DEF ChannelSpec

----------------------------------------------------------------------------
\* The call as a whole: its registry, its request and its channel behave as
\* they do alone, whatever the call does in between.

LEMMA CallInit ==
  ASSUME Init
  PROVE  RegistryInit /\ RetryInit /\ ChannelInit
<1>1. PICK s \in Scenarios :
        /\ threads = [t \in Threads |-> Thread(s.jobs[t])]
        /\ limits \in s.limits /\ replayable \in s.replayable
  BY DEF Init
<1>2. /\ s.jobs \in [Threads -> Jobs]
      /\ s.limits \subseteq Limits /\ s.replayable \subseteq BOOLEAN
  BY TransportAssumption
<1>3. RegistryInit
  <2>1. entries \in [Apis -> {None}] /\ holder = None
    BY DEF Init
  <2> QED
    BY <1>1, <1>2, <2>1 DEF RegistryInit
<1>4. RetryInit
  BY <1>1, <1>2 DEF Init, RetryInit
<1> QED
  BY <1>3, <1>4 DEF Init

LEMMA CallSteps ==
  ASSUME [Next]_vars
  PROVE  /\ [RegistryNext]_registryVars
         /\ [RetryNext \/ Cancel]_retryVars
         /\ [ChannelMoves]_channelVars
<1>1. CASE RegistryMoves
  BY <1>1 DEF RegistryMoves
<1>2. CASE Resolve \/ Respond
  BY <1>2 DEF Resolve, Respond, ChannelMoves
<1>3. CASE Request
  BY <1>3 DEF Request
<1>4. CASE EndOfBody \/ \E n \in 1..Len(body) : Chunk(n)
  BY <1>4 DEF EndOfBody, Chunk
<1>5. CASE NextEvent \/ Drained
  <2>1. \/ \E e, rest : Handle(e, rest)
        \/ PushEvent(FailedEvent) /\ UNCHANGED <<registryVars, retryVars>>
    BY <1>5 DEF NextEvent, Drained
  <2> QED
    BY <2>1 DEF Handle, ChannelMoves
<1>6. CASE BodyBreaks \/ AbortRead \/ LeaveReading \/ Return
  BY <1>6 DEF BodyBreaks, AbortRead, LeaveReading, Return, ChannelMoves
<1>7. CASE Consumer
  BY <1>7 DEF Consumer, ChannelMoves
<1>8. CASE CancelToken
  BY <1>8 DEF CancelToken
<1>9. CASE UNCHANGED vars
  BY <1>9 DEF vars
<1> QED
  BY <1>1, <1>2, <1>3, <1>4, <1>5, <1>6, <1>7, <1>8, <1>9 DEF Next

\* What a call does to the registry is what any thread may do, and it sends
\* its request by send_with_retry alone (stream.rs, api_registry.rs, retry.rs).
THEOREM CallImplementsParts == Spec => RegistrySpec /\ RetrySpec
<1> QED
  BY CallInit, CallSteps, PTL DEF Spec, RegistrySpec, RetrySpec

\* In every call, a built-in provider is found and a custom one kept; no
\* request too many is sent and each repetition is warranted.
THEOREM CallKeepsRegistryAndLimits ==
  Spec => /\ []BuiltinAlwaysFound /\ CustomKept
          /\ []RequestsBounded /\ []RetriesWarranted
<1> QED
  BY CallImplementsParts, BuiltinsAlwaysFound, CustomProvidersKept,
     RequestsNeverExceed, RetriesAreWarranted, PTL

\* In every call, whatever its stream brings, the consumer is given the
\* events in their order and the result is the first terminal one.
THEOREM CallDeliversInOrder ==
  Spec => []DeliveredInOrder /\ []ResultIsFirstTerminal
<1>1. Init => QueueInv /\ ResultInv
  BY CallInit, QueueInit, ResultInit
<1>2. QueueInv /\ ResultInv /\ [Next]_vars => QueueInv' /\ ResultInv'
  BY CallSteps, QueueStep, ResultStep
<1> QED
  BY <1>1, <1>2, QueueDelivers, ResultFirst, PTL DEF Spec
===============================================================================
