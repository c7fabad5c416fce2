------------------------------- MODULE Faux -------------------------------
(***************************************************************************)
(* The test-double provider (providers/faux.rs): a finished message is     *)
(* replayed as the events of a stream, all pushed before stream() returns. *)
(***************************************************************************)
EXTENDS ProviderMachine

ReplayBlock(m, block) ==
  LET i == NextIndex(m)
      whole == Add(m, block)
      opened == Emit(m, Opened(i, block.kind))
  IN EmitEnded(Emit([whole EXCEPT !.out = opened.out],
                    Delta(i, block.kind, block.text)), i)

\* Errored and aborted messages end in an Error with all their content.
Terminal(message) ==
  IF message.stop \in {"error", "aborted"} THEN Failed(message.stop, message)
  ELSE Done(DoneReason(message.stop), message)

Replay(message) ==
  LET n == Len(message.content)
      played[i \in 0..n] ==
        IF i = 0 THEN Emit(Machine, Started)
        ELSE ReplayBlock(played[i - 1], message.content[i])
  IN Finished(played[n], Terminal(message))

\* The message taken from the queue, or the canned one.
Canned == Message(<<[Block("text") EXCEPT !.text = <<"hello">>]>>, "stop")
PopFront(queue) == IF queue = <<>> THEN Canned ELSE Head(queue)
===========================================================================
