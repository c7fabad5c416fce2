--------------------------- MODULE ProviderWire ---------------------------
(***************************************************************************)
(* The vendors' services as the providers in crates/ai/src/providers use   *)
(* them: the reply a service is sending, block by block, and the wire      *)
(* events its protocol puts it in.  Not code of the repository: the        *)
(* orders are those the handlers and their tests expect.                   *)
(*                                                                         *)
(* Framed dialects announce a block and say when it is over.  In the       *)
(* others a block begins with its first fragment (head) and is over when   *)
(* another begins, or with the reply.                                      *)
(***************************************************************************)
EXTENDS ProviderMachine

CONSTANTS
  Dialects,       \* the providers a run streams from
  MaxBlocks,      \* blocks of one reply
  MaxFragments    \* fragments of one block

ASSUME WireAssumption ==
  /\ Dialects \subseteq {"anthropic", "responses", "completions", "mistral",
                         "google", "bedrock"}
  /\ MaxBlocks \in Nat /\ MaxFragments \in Nat \ {0}

\* A block of the reply: the fragments sent, those it began with, its
\* signature, whether it may go on, whether its whole text was repeated
\* (Responses), and whether it has an id (a Gemini call may have none).  A
\* reply is complete when the vendor ended it, and over when nothing follows.
Reply == [blocks |-> <<>>, stop |-> "none", complete |-> FALSE, over |-> FALSE]

Wire(type, b, kind, text, sig, head) ==
  [type |-> type, b |-> b, kind |-> kind, text |-> text, sig |-> sig,
   head |-> head]
Signal(type, reason) == Wire(type, 0, reason, <<>>, <<>>, FALSE)

Framed(d) == d \in {"anthropic", "responses"}
Closes(d) == d \in {"anthropic", "responses", "bedrock"}
OneAtATime(d) == d \in {"anthropic", "bedrock"}

HasTool(r) == \E b \in DOMAIN r.blocks : r.blocks[b].kind = "tool"
Current(r) ==  \* the block of running text, for dialects that do not close
  {b \in DOMAIN r.blocks : r.blocks[b].open /\ r.blocks[b].kind # "tool"}

\* May a block of this kind begin now?
MayBegin(d, r, kind) ==
  /\ r.stop = "none" /\ Len(r.blocks) < MaxBlocks
  /\ kind = "redacted" => d = "anthropic"
  /\ OneAtATime(d) => \A b \in DOMAIN r.blocks : ~r.blocks[b].open
  /\ (d = "completions" /\ kind # "tool") =>
       \A b \in DOMAIN r.blocks : r.blocks[b].kind # kind
  /\ (d = "mistral" /\ kind # "tool") =>
       \A b \in Current(r) : r.blocks[b].kind # kind

\* What the beginning of a block ends: nothing where blocks are closed or
\* run in parallel, the running text elsewhere.
Superseded(d, r) == IF d \in {"mistral", "google"} THEN Current(r) ELSE {}

\* The blocks when these go on no more.
Ending(r, ended) ==
  [b \in DOMAIN r.blocks |-> [r.blocks[b] EXCEPT !.open = @ /\ b \notin ended]]

\* A first fragment may be empty where the vendor sends such fragments.
Heads(d, kind, b) ==
  LET some == <<<<b, 1>>>> IN
  IF d = "anthropic" \/ (d = "responses" /\ kind = "thinking") THEN {<<>>}
  ELSE IF d \in {"completions", "mistral"} /\ kind # "tool" THEN {some}
  ELSE IF d = "google" /\ kind = "tool" THEN {some}
  ELSE IF d = "bedrock" /\ kind = "tool" THEN {<<>>}
  ELSE {<<>>, some}

\* Signed from the first fragment on: a Gemini part may be, redacted
\* thinking is.
MayComeSigned(d, kind, signed) ==
  CASE d = "google" -> TRUE
    [] OTHER        -> signed = (kind = "redacted")

Begun(d, r, kind, text, sig, named) ==
  [r EXCEPT !.blocks =
     Append(Ending(r, Superseded(d, r)),
            [kind |-> kind, sent |-> text, first |-> text, sig |-> sig,
             whole |-> FALSE,
             open |-> ~(d = "google" /\ kind = "tool"), named |-> named])]

\* The events that may begin a block.  Of a Responses text they are its item's
\* output_item.added, of which the loop makes nothing, or its part's
\* content_part.added, with the text the part has already.
Openings(d, kind, text) ==
  IF d = "responses" /\ kind = "text"
  THEN {"added"} \cup (IF text = <<>> THEN {"open"} ELSE {})
  ELSE IF Framed(d) \/ (d = "bedrock" /\ kind = "tool") THEN {"open"}
  ELSE {"frag"}

\* The head of a block carries its id, which a Gemini call may lack; of a
\* Gemini text, it says that the part is not the first of its chunk, which
\* alone parts it from a text of the same kind when it is not signed.
Named(d, r, kind, sig) ==
  IF d # "google" THEN {TRUE}
  ELSE IF /\ kind # "tool" /\ sig = <<>>
          /\ \E c \in Current(r) : r.blocks[c].kind = kind
       THEN {TRUE}
       ELSE BOOLEAN

Beginnings(d, r, b, kind, sig) ==
  IF ~(MayBegin(d, r, kind) /\ MayComeSigned(d, kind, sig # <<>>)) THEN {}
  ELSE UNION {{[event |-> Wire(type, b, kind, text, sig, named),
                reply |-> Begun(d, r, kind, text, sig, named)]
               : type \in Openings(d, kind, text)}
              : text \in Heads(d, kind, b), named \in Named(d, r, kind, sig)}
Begin(d, r) ==
  LET b == Len(r.blocks) + 1 IN
  UNION {Beginnings(d, r, b, kind, sig)
         : kind \in Kinds \cup {"redacted"}, sig \in {<<>>, <<b>>}}

MayGrow(r, b) ==
  /\ r.stop = "none" /\ r.blocks[b].open /\ ~r.blocks[b].whole
  /\ Len(r.blocks[b].sent) < MaxFragments
  /\ r.blocks[b].kind # "redacted"

\* Arguments of a Mistral call end the running text.
Ceding(d, r, b) ==
  IF d = "mistral" /\ r.blocks[b].kind = "tool"
  THEN [r EXCEPT !.blocks = Ending(r, Current(r))]
  ELSE r

Grow(d, r) ==
  {LET text == <<<<b, Len(r.blocks[b].sent) + 1>>>> IN
   [event |-> Wire("frag", b, r.blocks[b].kind, text, r.blocks[b].sig, FALSE),
    reply |-> [Ceding(d, r, b) EXCEPT !.blocks[b].sent = @ \o text]]
   : b \in {b \in DOMAIN r.blocks : MayGrow(r, b)}}

\* Anthropic and Bedrock sign a thinking block while it is open.
Sign(d, r) ==
  {[event |-> Wire("sign", b, "thinking", <<>>, <<b>>, FALSE),
    reply |-> [r EXCEPT !.blocks[b].sig = <<b>>]]
   : b \in {b \in DOMAIN r.blocks :
              /\ d \in {"anthropic", "bedrock"}
              /\ r.blocks[b].kind = "thinking" /\ r.blocks[b].open
              /\ r.blocks[b].sent # <<>> /\ r.blocks[b].sig = <<>>}}

\* Responses repeats the whole text before it closes a block: of a text as
\* output_text.done or content_part.done, of a call's arguments.  Of
\* reasoning it repeats each part of the summary when the part ends: each
\* fragment is a part.
Repeated(r, b, type) ==
  LET s == r.blocks[b]
      text == IF s.kind = "thinking" THEN <<s.sent[Len(s.sent)]>> ELSE s.sent
  IN [event |-> Wire(type, b, s.kind, text, <<>>, FALSE),
      reply |-> [r EXCEPT !.blocks[b].whole = (s.kind # "thinking")]]
Repeat(d, r) ==
  {Repeated(r, b, type)
   : b \in {b \in DOMAIN r.blocks :
              /\ d = "responses" /\ r.blocks[b].open /\ ~r.blocks[b].whole
              /\ r.blocks[b].kind = "thinking" => r.blocks[b].sent # <<>>},
     type \in {"whole", "part"}}

\* Closing a block; a Responses reasoning item is signed by its own JSON, a
\* text by its item's id.
Close(d, r) ==
  {LET sig == IF d = "responses" /\ r.blocks[b].kind # "tool"
              THEN <<b>> ELSE r.blocks[b].sig IN
   [event |-> Wire("close", b, r.blocks[b].kind, r.blocks[b].sent, sig, FALSE),
    reply |-> [r EXCEPT !.blocks[b].open = FALSE, !.blocks[b].sig = sig]]
   : b \in {b \in DOMAIN r.blocks : Closes(d) /\ r.blocks[b].open}}

\* A Responses text that comes whole: no event before the one that ends its
\* part or its item.
Late(d, r) ==
  LET b == Len(r.blocks) + 1
      text == <<<<b, 1>>>>
      late == [kind |-> "text", sent |-> text, first |-> <<>>, sig |-> <<b>>,
               whole |-> TRUE, open |-> FALSE, named |-> TRUE]
  IN IF d = "responses" /\ MayBegin(d, r, "text")
     THEN {[event |-> Wire(type, b, "text", text, <<>>, TRUE),
            reply |-> [r EXCEPT !.blocks = Append(@, late)]]
           : type \in {"part", "close"}}
     ELSE {}

\* Why the reply ends: for its calls, its length, or because it is done;
\* Gemini has no reason for calls.
Reasons(d, r) ==
  {"length", "refused"}
  \cup (IF HasTool(r) /\ d # "google" THEN {"tool_use"} ELSE {"stop"})

MayStop(d, r) ==
  /\ r.stop = "none"
  /\ Closes(d) => \A b \in DOMAIN r.blocks : ~r.blocks[b].open

\* The event with the reason; in Responses it is the last event, and a reply
\* is cancelled there rather than refused.
Stop(d, r) ==
  IF ~MayStop(d, r) THEN {}
  ELSE {[event |-> Signal(IF d = "responses" THEN "end" ELSE "stop", reason),
         reply |-> [r EXCEPT !.stop = reason, !.complete = TRUE,
                             !.over = (d = "responses")]]
        : reason \in Reasons(d, r)}

\* message_stop and [DONE]; a [DONE] may come without a finish reason.
Finale(d, r) ==
  IF \/ d = "anthropic" /\ r.stop # "none"
     \/ d \in {"completions", "mistral"}
  THEN {[event |-> Signal("end", r.stop),
         reply |-> [r EXCEPT !.complete = TRUE, !.over = TRUE]]}
  ELSE {}

\* The connection ends, the transport fails, or the service reports an
\* error, at any point.
Break(d, r) ==
  {[event |-> Signal(type, "none"), reply |-> [r EXCEPT !.over = TRUE]]
   : type \in {"eof", "broken"}
        \cup (IF d \in {"anthropic", "responses", "bedrock"} THEN {"fail"}
              ELSE {})}

\* The events the service may send next.
Moves(d, r) ==
  IF r.over THEN {}
  ELSE Begin(d, r) \cup Grow(d, r) \cup Sign(d, r) \cup Repeat(d, r)
       \cup Close(d, r) \cup Late(d, r) \cup Stop(d, r) \cup Finale(d, r)
       \cup Break(d, r)

----------------------------------------------------------------------------
\* What the vendor said, as a message: the blocks in the order they began.
\* A Responses call has an id of its own and its item's.
CallId(d, r, b) ==
  IF d = "responses" THEN <<b, -b>>
  ELSE IF r.blocks[b].named THEN <<b>> ELSE <<>>
RedactedText == <<"redacted">>
Said(d, r) ==
  [b \in DOMAIN r.blocks |->
     LET s == r.blocks[b] IN
     IF s.kind = "redacted"
     THEN [Block("thinking") EXCEPT !.text = RedactedText, !.sig = s.sig,
                                    !.redacted = TRUE]
     ELSE [Block(s.kind) EXCEPT !.text = s.sent, !.sig = s.sig,
                                !.id = IF s.kind = "tool" THEN CallId(d, r, b)
                                       ELSE <<>>]]
==========================================================================
