----------------------------- MODULE ReplyStream -----------------------------
(***************************************************************************)
(* A reply of the model on its way to the user: the stream of              *)
(* AnthropicCompatibleModelClient.complete_stream (providers/clients.py),  *)
(* AssistantDeltaFilter (application/streaming.py), which lets only the    *)
(* answer through while the text arrives, and Poppy.parse (runtime.py),    *)
(* which reads the answer out of the whole text afterwards.                *)
(*                                                                         *)
(* A text is a sequence of symbols; a tag is two or three of them, so that *)
(* a delta may end inside a tag.  Whether the call behind a tool tag is    *)
(* well-formed does not matter here.                                       *)
(***************************************************************************)
EXTENDS Naturals, Sequences, SequencesExt, FiniteSetsExt

CONSTANTS Symbols,    \* symbols of a text
          Deltas,     \* texts of one delta
          MaxDeltas,  \* bound: deltas of a reply
          Attempts    \* connections tried

Space == " "

ASSUME ReplyAssumption ==
  /\ {"<", "/", "f", "t", Space} \subseteq Symbols
  /\ Deltas \subseteq Seq(Symbols)

VARIABLES reply,    \* "connecting", "reading", "returned", "failed" or "cancelled"
          attempt,  \* the connection tried
          deltas,   \* deltas read
          raw,      \* text_parts
          filter,   \* the AssistantDeltaFilter: its buffer, mode and closed
          shown     \* what was emitted as message.delta

replyVars == <<reply, attempt, deltas, raw, filter, shown>>

FinalOpen  == <<"<", "f">>
FinalClose == <<"<", "/", "f">>
ToolOpen   == <<"<", "t">>

TagsAt(text, tag) ==
  {i \in 1..(Len(text) - Len(tag) + 1) : SubSeq(text, i, i + Len(tag) - 1) = tag}
Has(text, tag) == TagsAt(text, tag) # {}
Before(text, tag) == SubSeq(text, 1, Min(TagsAt(text, tag)) - 1)
After(text, tag) == SubSeq(text, Min(TagsAt(text, tag)) + Len(tag), Len(text))

Letters(text) == {i \in DOMAIN text : text[i] # Space}
LStrip(text) == IF Letters(text) = {} THEN <<>> ELSE SubSeq(text, Min(Letters(text)), Len(text))
Strip(text) ==
  IF Letters(text) = {} THEN <<>> ELSE SubSeq(text, Min(Letters(text)), Max(Letters(text)))

\* a tool tag stands before any answer
ToolFirst(text) ==
  /\ Has(text, ToolOpen)
  /\ Has(text, FinalOpen) => Min(TagsAt(text, ToolOpen)) < Min(TagsAt(text, FinalOpen))

\* what stands between the tags of the answer; the closing one may be missing
Inner(text) ==
  LET rest == After(text, FinalOpen)
  IN IF Has(rest, FinalClose) THEN Before(rest, FinalClose) ELSE rest

\* Poppy.parse: the answer, or <<>> for a tool call and for a reply to be retried
ParsedAnswer(text) ==
  IF ToolFirst(text) THEN <<>>
  ELSE IF ~Has(text, FinalOpen) THEN Strip(text)
  ELSE IF Has(Inner(text), ToolOpen) THEN <<>> ELSE Strip(Inner(text))

\* mutant: _drain emits the buffer although it may end inside a closing tag
HoldNothing(text) == 0

\* _closing_prefix_length: how much of the end may be the start of a closing tag
ClosingPrefix(text) ==
  Max({0} \cup {k \in 1..(Len(FinalClose) - 1) :
                  k <= Len(text) /\ IsSuffix(SubSeq(FinalClose, 1, k), text)})

NewFilter == [buffer |-> <<>>, mode |-> "unknown", closed |-> FALSE]

\* the mode a text not understood so far gives; "plain" only once it is complete
Mode(text) ==
  IF ToolFirst(text) THEN "tool" ELSE IF Has(text, FinalOpen) THEN "final" ELSE "unknown"

\* _drain in mode "final": the filter afterwards and what it emits
Drain(f) ==
  LET keep == Len(f.buffer) - ClosingPrefix(f.buffer)
  IN IF Has(f.buffer, FinalClose)
     THEN [filter |-> [f EXCEPT !.buffer = <<>>, !.closed = TRUE], emit |-> Before(f.buffer, FinalClose)]
     ELSE [filter |-> [f EXCEPT !.buffer = SubSeq(f.buffer, keep + 1, Len(f.buffer))],
           emit |-> SubSeq(f.buffer, 1, keep)]

Feed(f, delta) ==
  LET text == f.buffer \o delta
      mode == IF f.mode = "unknown" THEN Mode(LStrip(text)) ELSE f.mode
      answer == IF f.mode = "unknown" THEN After(LStrip(text), FinalOpen) ELSE text
  IN IF f.closed THEN [filter |-> f, emit |-> <<>>]
     ELSE CASE mode = "unknown" -> [filter |-> [f EXCEPT !.buffer = text], emit |-> <<>>]
            [] mode = "tool"    -> [filter |-> [f EXCEPT !.buffer = <<>>, !.mode = mode], emit |-> <<>>]
            [] mode = "final"   -> Drain([f EXCEPT !.buffer = answer, !.mode = mode])

\* finish: a reply without tags is an answer; what was held back is shown
Finish(f) ==
  IF f.closed \/ f.mode = "tool" THEN <<>>
  ELSE IF f.mode = "unknown" THEN LStrip(f.buffer) ELSE f.buffer

ReplyInit ==
  /\ reply = "connecting" /\ attempt = 1
  /\ deltas = 0 /\ raw = <<>>
  /\ filter = NewFilter /\ shown = <<>>

Connect ==
  /\ reply = "connecting"
  /\ reply' = "reading"
  /\ UNCHANGED <<attempt, deltas, raw, filter, shown>>

\* no connection, or a server error: tried again; any other refusal is final
Refused ==
  /\ reply = "connecting"
  /\ \/ attempt < Attempts /\ attempt' = attempt + 1 /\ UNCHANGED reply
     \/ reply' = "failed" /\ UNCHANGED attempt
  /\ UNCHANGED <<deltas, raw, filter, shown>>

\* content_block_delta
ReadDelta ==
  /\ reply = "reading" /\ deltas < MaxDeltas
  /\ deltas' = deltas + 1
  /\ \E d \in Deltas :
       /\ raw' = raw \o d
       /\ filter' = Feed(filter, d).filter
       /\ shown' = shown \o Feed(filter, d).emit
  /\ UNCHANGED <<reply, attempt>>

\* the end of the stream, which looks the same when the connection was cut
\* between two lines; a reply without text is an error
EndOfStream ==
  /\ reply = "reading"
  /\ IF raw = <<>> THEN reply' = "failed" /\ UNCHANGED <<filter, shown>>
     ELSE /\ reply' = "returned"
          /\ shown' = shown \o Finish(filter)
          /\ filter' = [filter EXCEPT !.buffer = <<>>]
  /\ UNCHANGED <<attempt, deltas, raw>>

\* an OSError while reading: no second attempt
Broken == reply = "reading" /\ reply' = "failed" /\ UNCHANGED <<attempt, deltas, raw, filter, shown>>

\* raise_if_cancelled before a connection, at a line and at the end
CancelReply ==
  /\ reply \in {"connecting", "reading"}
  /\ reply' = "cancelled"
  /\ UNCHANGED <<attempt, deltas, raw, filter, shown>>

ReplyNext == Connect \/ Refused \/ ReadDelta \/ EndOfStream \/ Broken \/ CancelReply

\* What was shown has a tool tag only if the model wrote it between the tags of its
\* answer, which parse then refuses: the text is shown and the model asked again.
ToolTagRefused(text, out) ==
  Has(out, ToolOpen) => Has(text, FinalOpen) /\ ParsedAnswer(text) = <<>>

\* What the user sees while a reply streams is the beginning of what stands between
\* the tags of the answer, however the text is cut into deltas, and no more of it
\* is held back than could start the closing tag; what was shown of a complete
\* reply is the answer that parse reads out of it, if it reads one.  Of a reply
\* that begins with a tool call nothing is shown.  A tool tag is shown only out of
\* an answer that parse refuses (streaming.py:9 would suppress it there too).
StreamShowsAnswer ==
  /\ reply # "returned" =>
       LET visible == IF ToolFirst(raw) \/ ~Has(raw, FinalOpen) THEN <<>> ELSE Inner(raw)
       IN IsPrefix(shown, visible) /\ Len(visible) - Len(shown) < Len(FinalClose)
  /\ reply = "returned" /\ ParsedAnswer(raw) # <<>> => Strip(shown) = ParsedAnswer(raw)
  /\ ToolFirst(raw) => shown = <<>>
  /\ ToolTagRefused(raw, shown)
=============================================================================
