------------------------------ MODULE FileTools ------------------------------
(***************************************************************************)
(* read_file, write_file and edit_file of one batch of tool calls, and of  *)
(* the batches after it, working on one path (tools/fs.rs).  The session   *)
(* spawns every call of a batch as a task of its own, so calls interleave  *)
(* at each await.                                                          *)
(*                                                                         *)
(* fs::read and fs::write of tokio run the std function on the blocking    *)
(* pool.  Dropping their future, which is what select! does when the token *)
(* is cancelled, detaches the job and does not stop it.  std::fs::write    *)
(* truncates the file when it opens it and writes through a cursor of its  *)
(* own.                                                                    *)
(*                                                                         *)
(* A text is a sequence of lines, and old_string is one line.  A text is   *)
(* written back in the encoding it was decoded from, so the encodings      *)
(* differ in nothing but that Binary is text in none of them.              *)
(***************************************************************************)
EXTENDS Naturals, FiniteSets, SequencesExt

CONSTANTS
  Calls,         \* the invocations
  Lines,         \* the lines a text is made of
  Binary,        \* bytes that are no text in any supported encoding
  Requests,      \* the arguments the model may send
  InitialFiles,  \* what may be under the path at first
  MaxReadLines,  \* MAX_READ_BYTES, in lines
  NoFile, NoCall \* nothing under the path; no invocation

Texts == Seq(Lines)

ReadRequests  == [tool : {"read_file"}, offset : Nat \ {0}, limit : Nat \ {0}]
WriteRequests == [tool : {"write_file"}, content : Texts]
EditRequests  == [tool : {"edit_file"}, old : Lines \ {Binary}, new : Texts,
                  replace_all : BOOLEAN]

ASSUME FilesAssumption ==
  /\ Binary \in Lines
  /\ NoFile \notin Texts
  /\ NoCall \notin Calls
  /\ InitialFiles \subseteq Texts \cup {NoFile}
  /\ MaxReadLines \in Nat
  /\ \A r \in Requests : \/ r \in ReadRequests
                         \/ r \in WriteRequests
                         \/ r \in EditRequests

VARIABLES
  file,       \* the text under the path, or NoFile
  calls,      \* what execute() of each invocation is doing
  jobs,       \* the std::fs::write each invocation gave to the blocking pool
  cancelled,  \* the token of the batch
  alone,      \* history: the invocation that no other has overlapped, if any
  before      \* history: the file when the last invocation started

vars == <<file, calls, jobs, cancelled, alone, before>>

NoRequest == [tool |-> "none"]
NotStarted == [pc |-> "idle", request |-> NoRequest, text |-> <<>>, outcome |-> "none"]
NoJob == [stage |-> "none", text |-> <<>>]

Running(c) == calls[c].pc \notin {"idle", "done"}
Pending(c) == jobs[c].stage \in {"queued", "opened"}
AtRest == \A c \in Calls : ~Running(c) /\ ~Pending(c)

-----------------------------------------------------------------------------
(* The texts.                                                              *)

Decodes(text) == \A i \in DOMAIN text : text[i] # Binary

Matches(text, old) == {i \in DOMAIN text : text[i] = old}

\* str::replace, or str::replacen(.., 1) on a text with a single match.
Replaced(text, old, new) ==
  FlattenSeq([i \in DOMAIN text |-> IF text[i] = old THEN new ELSE <<text[i]>>])

Selected(text, r) ==
  SubSeq(text, r.offset, IF r.offset + r.limit - 1 < Len(text)
                         THEN r.offset + r.limit - 1 ELSE Len(text))

\* The bytes a cursor that starts at 0 leaves behind its own text stay.
Overlay(new, old) == new \o SubSeq(old, Len(new) + 1, Len(old))

-----------------------------------------------------------------------------
(* The task of an invocation.                                              *)

Finish(c, outcome) ==
  calls' = [calls EXCEPT ![c].pc = "done", ![c].outcome = outcome]

\* execute() up to its first await.  write_file awaits create_dir_all first
\* when its path has a parent.
Start(c, r) ==
  /\ calls[c].pc = "idle"
  /\ \E pc \in CASE r.tool = "write_file" -> {"mkdir", "write"}
                 [] r.tool = "read_file"  -> {"read"}
                 [] r.tool = "edit_file"  -> IF r.new = <<r.old>> THEN {"done"} ELSE {"read"} :
       calls' = [calls EXCEPT ![c] =
                   [pc |-> pc, request |-> r,
                    text |-> IF r.tool = "write_file" THEN r.content ELSE <<>>,
                    outcome |-> IF pc = "done" THEN "error" ELSE "none"]]
  /\ alone' = IF AtRest THEN c ELSE NoCall
  /\ before' = file
  /\ UNCHANGED <<file, jobs, cancelled>>

\* read_file has the content: it is shown whole or not at all.
FinishRead(c) ==
  /\ calls[c].pc = "read" /\ calls[c].request.tool = "read_file"
  /\ file # NoFile
  /\ LET shown == Selected(file, calls[c].request)
     IN  IF ~Decodes(file) THEN Finish(c, "failed")
         ELSE IF Len(shown) \notin 1 .. MaxReadLines THEN Finish(c, "error")
         ELSE calls' = [calls EXCEPT ![c].pc = "done", ![c].outcome = "success",
                                     ![c].text = shown]
  /\ UNCHANGED <<file, jobs, cancelled, alone, before>>

\* MUTANT: several matches are not refused.
FinishEditAnyMatch(c) ==
  /\ calls[c].pc = "read" /\ calls[c].request.tool = "edit_file"
  /\ file # NoFile
  /\ LET r == calls[c].request
     IN  IF ~Decodes(file) THEN Finish(c, "failed")
         ELSE IF Matches(file, r.old) = {} THEN Finish(c, "error")
         ELSE calls' = [calls EXCEPT ![c].pc = "write",
                                     ![c].text = Replaced(file, r.old, r.new)]
  /\ UNCHANGED <<file, jobs, cancelled, alone, before>>

\* edit_file has the bytes: it counts the matches, and works out the text it
\* goes on to write.
FinishEdit(c) ==
  /\ calls[c].pc = "read" /\ calls[c].request.tool = "edit_file"
  /\ file # NoFile
  /\ LET r == calls[c].request
         count == Cardinality(Matches(file, r.old))
     IN  IF ~Decodes(file) THEN Finish(c, "failed")
         ELSE IF count = 0 \/ (count > 1 /\ ~r.replace_all) THEN Finish(c, "error")
         ELSE calls' = [calls EXCEPT ![c].pc = "write",
                                     ![c].text = Replaced(file, r.old, r.new)]
  /\ UNCHANGED <<file, jobs, cancelled, alone, before>>

CreateParent(c) ==
  /\ calls[c].pc = "mkdir"
  /\ calls' = [calls EXCEPT ![c].pc = "write"]
  /\ UNCHANGED <<file, jobs, cancelled, alone, before>>

\* fs::read or create_dir_all returns an error.
IoFails(c) ==
  /\ calls[c].pc \in {"read", "mkdir"}
  /\ Finish(c, "failed")
  /\ UNCHANGED <<file, jobs, cancelled, alone, before>>

\* MUTANT: nobody polls the write.
WaitUnsubmitted(c) ==
  /\ calls[c].pc = "write"
  /\ calls' = [calls EXCEPT ![c].pc = "writing"]
  /\ UNCHANGED <<file, jobs, cancelled, alone, before>>

\* The first poll of fs::write.
SubmitWrite(c) ==
  /\ calls[c].pc = "write"
  /\ calls' = [calls EXCEPT ![c].pc = "writing"]
  /\ jobs' = [jobs EXCEPT ![c] = [stage |-> "queued", text |-> calls[c].text]]
  /\ UNCHANGED <<file, cancelled, alone, before>>

WriteReturns(c) ==
  /\ calls[c].pc = "writing"
  /\ ~Pending(c)
  /\ Finish(c, IF jobs[c].stage = "finished" THEN "success" ELSE "failed")
  /\ UNCHANGED <<file, jobs, cancelled, alone, before>>

\* MUTANT: the write itself is not in a select! with the token.
TakeCancelBeforeWrite(c) ==
  /\ cancelled
  /\ calls[c].pc \in {"read", "mkdir"}
  /\ Finish(c, "cancelled")
  /\ UNCHANGED <<file, jobs, cancelled, alone, before>>

\* select! takes its cancelled() branch, at any await: the branches are polled
\* in random order, so also when the write has been submitted in this poll.
TakeCancel(c) ==
  /\ cancelled
  /\ Running(c)
  /\ Finish(c, "cancelled")
  /\ UNCHANGED <<file, jobs, cancelled, alone, before>>

-----------------------------------------------------------------------------
(* The blocking pool: std::fs::write.                                      *)

OpenFile(c) ==
  /\ jobs[c].stage = "queued"
  /\ jobs' = [jobs EXCEPT ![c].stage = "opened"]
  /\ file' = <<>>
  /\ UNCHANGED <<calls, cancelled, alone, before>>

WriteBytes(c) ==
  /\ jobs[c].stage = "opened"
  /\ jobs' = [jobs EXCEPT ![c].stage = "finished"]
  /\ file' = Overlay(jobs[c].text, file)
  /\ UNCHANGED <<calls, cancelled, alone, before>>

\* The file cannot be opened, and is left as it is.
OpenFails(c) ==
  /\ jobs[c].stage = "queued"
  /\ jobs' = [jobs EXCEPT ![c].stage = "failed"]
  /\ UNCHANGED <<file, calls, cancelled, alone, before>>

\* The write breaks off, as on a full disk, after any number of its lines.
WriteFails(c) ==
  /\ jobs[c].stage = "opened"
  /\ jobs' = [jobs EXCEPT ![c].stage = "failed"]
  /\ \E n \in 0 .. Len(jobs[c].text) - 1 :
       file' = Overlay(SubSeq(jobs[c].text, 1, n), file)
  /\ UNCHANGED <<calls, cancelled, alone, before>>

-----------------------------------------------------------------------------
(* The session: it cancels the token of a batch, and its next batch, with  *)
(* a token of its own, starts when every call of this one has reported.    *)

CancelBatch ==
  /\ ~cancelled
  /\ \E c \in Calls : Running(c)
  /\ cancelled' = TRUE
  /\ UNCHANGED <<file, calls, jobs, alone, before>>

NextBatch ==
  /\ cancelled
  /\ \A c \in Calls : ~Running(c)
  /\ cancelled' = FALSE
  /\ UNCHANGED <<file, calls, jobs, alone, before>>

-----------------------------------------------------------------------------

Init ==
  /\ file \in InitialFiles
  /\ calls = [c \in Calls |-> NotStarted]
  /\ jobs = [c \in Calls |-> NoJob]
  /\ cancelled = FALSE
  /\ alone = NoCall
  /\ before = file

Next ==
  \/ \E c \in Calls, r \in Requests : Start(c, r)
  \/ \E c \in Calls : FinishRead(c)
  \/ \E c \in Calls : FinishEdit(c)
  \/ \E c \in Calls : CreateParent(c)
  \/ \E c \in Calls : IoFails(c)
  \/ \E c \in Calls : SubmitWrite(c)
  \/ \E c \in Calls : WriteReturns(c)
  \/ \E c \in Calls : TakeCancel(c)
  \/ \E c \in Calls : OpenFile(c)
  \/ \E c \in Calls : WriteBytes(c)
  \/ \E c \in Calls : OpenFails(c)
  \/ \E c \in Calls : WriteFails(c)
  \/ CancelBatch
  \/ NextBatch

\* A task that is woken is polled.  Nothing is assumed of the disk.
Fairness == \A c \in Calls :
  WF_vars(SubmitWrite(c) \/ WriteReturns(c) \/ TakeCancel(c))

Spec == Init /\ [][Next]_vars /\ Fairness

----------------------------------------------------------------------------
\* What the file tools owe the model that calls them.

\* The variables have their types, and a job belongs to a call that has
\* started one.
FilesTypeOK ==
  /\ file \in Texts \cup {NoFile}
  /\ calls \in [Calls -> [pc : {"idle", "read", "mkdir", "write", "writing", "done"},
                          request : Requests \cup {NoRequest},
                          text : Texts,
                          outcome : {"none", "success", "error", "failed", "cancelled"}]]
  /\ jobs \in [Calls -> [stage : {"none", "queued", "opened", "finished", "failed"},
                         text : Texts]]
  /\ cancelled \in BOOLEAN
  /\ alone \in Calls \cup {NoCall}
  /\ before \in Texts \cup {NoFile}
  /\ \A c \in Calls : calls[c].pc = "writing" => jobs[c].stage # "none"

\* Where the first n lines of t end once r has edited them.
EditedLength(t, r, n) ==
  LET replaced == {i \in 1..n : t[i] = r.old}
  IN  n - Cardinality(replaced) + Len(r.new) * Cardinality(replaced)

\* The reference, by position: r finds what it replaces, once or wherever it
\* is, and each line of t, or what replaces it, is in u where it belongs.
IsEdit(t, u, r) ==
  /\ IF r.replace_all THEN Matches(t, r.old) # {}
     ELSE \E i \in DOMAIN t : Matches(t, r.old) = {i}
  /\ Len(u) = EditedLength(t, r, Len(t))
  /\ \A i \in DOMAIN t :
       LET lines == IF t[i] = r.old THEN r.new ELSE <<t[i]>>
       IN  \A k \in DOMAIN lines : u[EditedLength(t, r, i - 1) + k] = lines[k]

\* u is what request r, applied to t as a whole, should leave.
Does(r, t, u) ==
  CASE r.tool = "read_file"  -> u = t
    [] r.tool = "write_file" -> u = r.content
    [] r.tool = "edit_file"  -> t # NoFile /\ Decodes(t) /\ IsEdit(t, u, r)

\* What a write that did not get through has left of the text.
BeginningOf(text) == {SubSeq(text, 1, n) : n \in 0 .. Len(text) - 1}

\* A call that overlaps no other call and no write left behind by one (fs.rs)
\* does what it reports: with success exactly what was asked, with an error it
\* leaves the file alone.  A cancelled or failed one has left it alone too,
\* unless its write was under way: then the file is to be, is, or begins like,
\* what was asked, and the rest is lost if the write broke off (fs.rs:189,
\* 224).
AloneIsExact ==
  \A c \in Calls : (alone = c /\ calls[c].pc = "done") =>
    LET r == calls[c].request
        stage == jobs[c].stage
        text == jobs[c].text
    IN  CASE calls[c].outcome = "success" -> Does(r, before, file)
          [] calls[c].outcome = "error"   -> file = before
          [] OTHER ->
               \/ stage \in {"none", "queued", "failed"} /\ file = before
               \/ /\ Does(r, before, text)
                  /\ \/ stage = "opened" /\ file = <<>>
                     \/ stage = "failed" /\ file \in BeginningOf(text)
                     \/ stage = "finished" /\ file = text

\* A cancelled call reports, whatever it awaits and also when the disk never
\* answers: the session waits for every call of the batch (fs.rs: each await
\* is a select! with the token).
CancelReports ==
  \A c \in Calls : (cancelled /\ Running(c)) ~> calls[c].pc = "done"

\* edit_file.md:1, "Edit a text file by exact string replacement": once all is
\* quiet, the string an edit has reported replaced is gone, if all that was
\* done to the file since are edits that do not write that string.
ReportedEditsLast ==
  AtRest => \A c \in Calls :
    (/\ calls[c].outcome = "success" /\ calls[c].request.tool = "edit_file"
     /\ \A d \in Calls :
          \/ calls[d].pc = "idle"
          \/ calls[d].request.tool = "read_file"
          \/ /\ calls[d].request.tool = "edit_file"
             /\ calls[c].request.old \notin Range(calls[d].request.new))
    => calls[c].request.old \notin Range(file)

=============================================================================
