----------------------------- MODULE FileToolsMC -----------------------------
(* Instances of FileTools for TLC: the requests a model may send. *)
EXTENDS FileTools

CONSTANTS A, B, C

Edit(old, new, all) ==
  [tool |-> "edit_file", old |-> old, new |-> new, replace_all |-> all]
Write(content) == [tool |-> "write_file", content |-> content]

\* Edits of different lines, of one that may match twice, one that deletes, one
\* that changes nothing; a longer and a shorter text; a read past the limit.
SomeRequests ==
  {Edit(A, <<B>>, FALSE), Edit(A, <<>>, TRUE), Edit(B, <<A, C>>, TRUE),
   Edit(C, <<C>>, FALSE), Write(<<A, A, B>>), Write(<<C>>),
   [tool |-> "read_file", offset |-> 2, limit |-> 1],
   [tool |-> "read_file", offset |-> 1, limit |-> 3]}

SomeFiles == {NoFile, <<A, B>>, <<A, C, A>>, <<A, Binary>>}

TwoEdits == {Edit(A, <<C>>, FALSE), Edit(B, <<C>>, FALSE)}
OneFile == {<<A, B>>}
==============================================================================
