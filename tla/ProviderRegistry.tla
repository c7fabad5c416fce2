------------------------- MODULE ProviderRegistry -------------------------
(***************************************************************************)
(* The registry of API providers (crates/ai/src/api_registry.rs, stream.rs,*)
(* providers/register_builtins.rs): a map behind a mutex of its own, taken *)
(* for one operation at a time, and a lifecycle lock that lookups hold     *)
(* over several of them.  Threads look providers up, register their own    *)
(* and remove what is registered.                                          *)
(***************************************************************************)
EXTENDS Integers, Sequences, FiniteSets, SequencesExt

CONSTANTS
  Threads,        \* whoever calls into the library
  Apis,           \* the wire protocols
  Builtins,       \* those the build has a provider for, in order
  None

ASSUME RegistryAssumption ==
  /\ Builtins \in Seq(Apis) /\ None \notin Threads /\ None \notin Apis
  /\ "builtin" \notin Threads \cup {None}

VARIABLES
  entries,        \* Registry: per api the source of its provider, or None
  holder,         \* who holds the lifecycle lock, or None
  threads         \* per thread: what it does, how far it is, what it found

registryVars == <<entries, holder, threads>>

\* What a thread may be about: at is "idle", "locking", the position of the
\* built-in it registers next, "looking", "removing" or "done".
Jobs == [op : {"lookup", "register"}, api : Apis]
        \cup [op : {"unregister"}, api : {None}, source : {"builtin"} \cup Threads]
        \cup [op : {"clear", "nothing"}, api : {None}]
Thread(job) == [job |-> job, at |-> "idle", next |-> 1, handle |-> None]

RegistryTypeOK ==
  /\ entries \in [Apis -> {"builtin", None} \cup Threads]
  /\ holder \in Threads \cup {None}
  /\ \A t \in Threads :
       /\ threads[t].at \in {"idle", "locking", "adding", "looking", "removing",
                             "done"}
       /\ threads[t].next \in 1..(Len(Builtins) + 1)
       /\ threads[t].handle \in {"builtin", None} \cup Threads
       /\ (holder = t) = (threads[t].at \in {"adding", "looking", "removing"})

Advance(t, at) == threads' = [threads EXCEPT ![t].at = at]

----------------------------------------------------------------------------
\* register_api_provider: no lifecycle lock, and what is there is replaced.
Register(t) ==
  /\ threads[t].at = "idle" /\ threads[t].job.op = "register"
  /\ entries' = [entries EXCEPT ![threads[t].job.api] = t]
  /\ Advance(t, "done")
  /\ UNCHANGED holder

\* with_provider_lifecycle: the others wait for the lock.
Lock(t) ==
  /\ threads[t].at = "idle" /\ threads[t].job.op \notin {"register", "nothing"}
  /\ Advance(t, "locking")
  /\ UNCHANGED <<entries, holder>>

Acquire(t) ==
  /\ threads[t].at = "locking" /\ holder = None
  /\ holder' = t
  /\ Advance(t, IF threads[t].job.op = "lookup" THEN "adding" ELSE "removing")
  /\ UNCHANGED entries

\* register_enabled: one built-in after the other, each only if absent.
\* MUTANT: a built-in takes the place of what is registered.
AddBuiltinAnyway(t) ==
  /\ threads[t].at = "adding" /\ threads[t].next <= Len(Builtins)
  /\ entries' = [entries EXCEPT ![Builtins[threads[t].next]] = "builtin"]
  /\ threads' = [threads EXCEPT ![t].next = @ + 1]
  /\ UNCHANGED holder
AddBuiltin(t) ==
  /\ threads[t].at = "adding" /\ threads[t].next <= Len(Builtins)
  /\ LET api == Builtins[threads[t].next] IN
     entries' = [entries EXCEPT ![api] = IF @ = None THEN "builtin" ELSE @]
  /\ threads' = [threads EXCEPT ![t].next = @ + 1]
  /\ UNCHANGED holder

\* MUTANT: the lock is given back before the provider is looked up.
AddedAndReleased(t) ==
  /\ threads[t].at = "adding" /\ threads[t].next > Len(Builtins)
  /\ Advance(t, "looking") /\ holder' = None
  /\ UNCHANGED entries
Added(t) ==
  /\ threads[t].at = "adding" /\ threads[t].next > Len(Builtins)
  /\ Advance(t, "looking")
  /\ UNCHANGED <<entries, holder>>

\* get_api_provider, and the lock is released: the handle holds the provider.
Look(t) ==
  /\ threads[t].at = "looking"
  /\ threads' = [threads EXCEPT ![t].handle = entries[threads[t].job.api],
                                ![t].at = "done"]
  /\ holder' = None
  /\ UNCHANGED entries

\* unregister_api_providers and clear_api_providers.
RemoveEntries(t) ==
  /\ threads[t].at = "removing"
  /\ entries' =
       [a \in Apis |->
          IF \/ threads[t].job.op = "clear"
             \/ threads[t].job.op = "unregister" /\ entries[a] = threads[t].job.source
          THEN None ELSE entries[a]]
  /\ Advance(t, "done")
  /\ holder' = None

RegistryStep(t) ==
  Register(t) \/ Lock(t) \/ Acquire(t) \/ AddBuiltin(t) \/ Added(t) \/ Look(t)
  \/ RemoveEntries(t)
RegistryNext == \E t \in Threads : RegistryStep(t)

RegistryInit ==
  /\ entries \in [Apis -> {None}]
  /\ holder = None
  /\ \E jobs \in [Threads -> Jobs] : threads = [t \in Threads |-> Thread(jobs[t])]

RegistrySpec == RegistryInit /\ [][RegistryNext]_registryVars

----------------------------------------------------------------------------
\* A lookup finds a provider for every API the build has one for, whoever
\* clears the registry in the meantime (stream.rs: ensure_and_get is one
\* critical section): a caller is not told that there is no provider.
BuiltinAlwaysFound ==
  \A t \in Threads :
    (threads[t].at = "done" /\ threads[t].job.op = "lookup"
     /\ threads[t].job.api \in Range(Builtins))
    => threads[t].handle # None

\* A custom provider stays until it is replaced or removed by name: putting
\* the built-ins back never takes its place (register_builtins.rs:6).
CustomKept ==
  [][\A a \in Apis :
       (entries[a] \in Threads /\ entries'[a] # entries[a]) =>
         \E t \in Threads :
           /\ threads[t].at # "done" /\ threads'[t].at = "done"
           /\ \/ threads[t].job.op = "register" /\ entries'[a] = t
              \/ threads[t].job.op = "clear"
              \/ /\ threads[t].job.op = "unregister"
                 /\ threads[t].job.source = entries[a]]_registryVars
===========================================================================
