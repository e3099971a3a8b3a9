----------------------------- MODULE FullDocument -----------------------------
(***************************************************************************)
(* A question about a whole document: full_document_batches of             *)
(* poppy/features/document_index.py cuts the document's chunks into at     *)
(* most MaxTextBatches batches, and the preparer of                        *)
(* DesktopController._full_document_preparer lets as many threads each     *)
(* have one summarised by the model before the run's agent starts.         *)
(*                                                                         *)
(* A chunk is its place in the document; its size and how much it matters  *)
(* to the question (shared words, lines of tables) are data.               *)
(***************************************************************************)
EXTENDS Naturals, Sequences, FiniteSets, SequencesExt, Lists

CONSTANTS
  ChunkData,    \* documents: sequences of [size, weight]
  MaxChars,     \* FULL_DOCUMENT_MAX_CHARS
  MaxTextBatches,   \* FULL_DOCUMENT_MAX_BATCHES
  SectionCount,     \* FULL_DOCUMENT_SECTION_COUNT
  PerSection    \* chunks kept of a section (4 in the code)

ASSUME FullAssumption ==
  /\ ChunkData \subseteq Seq([size : Nat, weight : Nat]) /\ MaxChars \in Nat
  /\ {MaxTextBatches, SectionCount, PerSection} \subseteq Nat \ {0}

VARIABLES
  document,   \* the chunks of the locked document
  textBatches,    \* sequences of chunks, none before the preparer has asked
  task,       \* task[i]: what the thread of batch i does
  summary,    \* summary[i]: the batch the summary at place i is about, 0 for none
  reported,   \* run.progress: batches reported as read
  token,      \* the run is cancelled
  prepared    \* "working", "ready" with the prompt, or "failed"

fullVars == <<document, textBatches, task, summary, reported, token, prepared>>

FullInit ==
  /\ document \in ChunkData
  /\ textBatches = <<>> /\ task = <<>> /\ summary = <<>>
  /\ reported = 0 /\ token = FALSE /\ prepared = "working"

Ceiling(a, b) == (a + b - 1) \div b
AtLeastOne(n) == IF n = 0 THEN 1 ELSE n
SizeOf(places) == SumOf([k \in DOMAIN places |-> document[places[k]].size])
AllChunks == [i \in DOMAIN document |-> i]

-----------------------------------------------------------------------------
(* Which chunks, and in which batch *)

SectionSize == AtLeastOne(Ceiling(Len(document), SectionCount))
SectionOf(i) == {j \in DOMAIN document : (j - 1) \div SectionSize = (i - 1) \div SectionSize}

\* the ends of a section weigh a little more
Weight(i) ==
  document[i].weight + (IF \A j \in SectionOf(i) : i <= j THEN 2
                        ELSE IF \A j \in SectionOf(i) : i >= j THEN 2 ELSE 0)

\* the weightiest of a section, earlier ones first
Kept(i) ==
  Cardinality({j \in SectionOf(i) : Weight(j) > Weight(i) \/ (Weight(j) = Weight(i) /\ j < i)}) < PerSection

SelectedChunks == IF SizeOf(AllChunks) > MaxChars THEN Filter(AllChunks, {i \in DOMAIN document : Kept(i)})
                  ELSE AllChunks

\* a batch is closed by the chunk that does not fit, unless it is the last one
\* allowed; no chunk is ever split
Put(made, i, target) ==
  IF /\ Last(made) # <<>> /\ SizeOf(Last(made)) + document[i].size > target
     /\ Len(made) < MaxTextBatches
  THEN Append(made, <<i>>)
  ELSE [made EXCEPT ![Len(made)] = Append(@, i)]

CutTo(chunks) ==
  LET target == AtLeastOne(Ceiling(SizeOf(chunks), MaxTextBatches))
      made[n \in 0 .. Len(chunks)] ==
        IF n = 0 THEN << <<>> >> ELSE Put(made[n - 1], chunks[n], target)
  IN  made

Cut(chunks) == CutTo(chunks)[Len(chunks)]

\* the document may be gone, or without text: the run fails
Begin ==
  /\ prepared = "working" /\ textBatches = <<>>
  /\ IF document = <<>> \/ token
     THEN prepared' = "failed" /\ UNCHANGED <<textBatches, task, summary>>
     ELSE /\ textBatches' = Cut(SelectedChunks)
          /\ task' = [i \in DOMAIN textBatches' |-> "waiting"]
          /\ summary' = [i \in DOMAIN textBatches' |-> 0]
          /\ UNCHANGED prepared
  /\ UNCHANGED <<document, reported, token>>

-----------------------------------------------------------------------------
(* analyze, in a thread per batch *)

Working == prepared = "working"

\* raise_if_cancelled before the request
StartRequest(i) ==
  /\ task[i] = "waiting"
  /\ task' = [task EXCEPT ![i] = IF token THEN "failed" ELSE "asking"]
  /\ UNCHANGED <<document, textBatches, summary, reported, token, prepared>>

\* the model answers, fails, or its client sees the token
EndRequest(i) ==
  /\ task[i] = "asking"
  /\ \E outcome \in {"answered", "failed"} : task' = [task EXCEPT ![i] = outcome]
  /\ UNCHANGED <<document, textBatches, summary, reported, token, prepared>>

\* variant: summaries in the order in which they come
PlaceInTurn(i) == reported + 1

\* analyze returns the place of its batch with the summary
PlaceOf(i) == i

\* as_completed, in the run's thread: any finished request is next
Collect(i) ==
  /\ Working /\ task[i] = "answered"
  /\ task' = [task EXCEPT ![i] = "collected"]
  /\ summary' = [summary EXCEPT ![PlaceOf(i)] = i]
  /\ reported' = reported + 1
  /\ UNCHANGED <<document, textBatches, token, prepared>>

\* a failed request ends the preparation, once the executor has waited for the others
Fail ==
  /\ Working /\ \E i \in DOMAIN task : task[i] = "failed"
  /\ \A i \in DOMAIN task : task[i] \in {"answered", "failed", "collected"}
  /\ prepared' = "failed"
  /\ UNCHANGED <<document, textBatches, task, summary, reported, token>>

\* the prompt lists the summaries; a last look at the token
FinishReading ==
  /\ Working /\ textBatches # <<>> /\ \A i \in DOMAIN task : task[i] = "collected"
  /\ prepared' = IF token THEN "failed" ELSE "ready"
  /\ UNCHANGED <<document, textBatches, task, summary, reported, token>>

CancelReading ==
  /\ ~token /\ token' = TRUE
  /\ UNCHANGED <<document, textBatches, task, summary, reported, prepared>>

FullNext ==
  \/ Begin \/ Fail \/ FinishReading \/ CancelReading
  \/ \E i \in DOMAIN task : StartRequest(i) \/ EndRequest(i) \/ Collect(i)

-----------------------------------------------------------------------------
(* What the agent gets *)

\* the places of a chunk in the summaries' batches, in the order of the prompt
ReadPlaces == UNION {{b} \X DOMAIN textBatches[summary[b]] : b \in DOMAIN summary}
ReadChunk(place) == textBatches[summary[place[1]]][place[2]]
Precedes(p, q) == p[1] < q[1] \/ (p[1] = q[1] /\ p[2] < q[2])

(* The agent gets a summary of every batch, under the number of its batch and *)
(* in the order of the document, whichever thread was first; the batches are  *)
(* within their number, hold each chosen chunk once, and no section of the    *)
(* document is without one: "全文模式覆盖整篇解析文本"                           *)
(* (full_document_batches, _full_document_preparer).                          *)
EvidenceCoversDocument ==
  prepared = "ready" =>
    /\ Len(textBatches) <= MaxTextBatches
    /\ \A p, q \in ReadPlaces : Precedes(p, q) => ReadChunk(p) < ReadChunk(q)
    /\ \A c \in DOMAIN document : \E p \in ReadPlaces : ReadChunk(p) \in SectionOf(c)
    /\ SizeOf(AllChunks) <= MaxChars =>
         \A c \in DOMAIN document : \E p \in ReadPlaces : ReadChunk(p) = c
=============================================================================
