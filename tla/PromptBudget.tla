---------------------------- MODULE PromptBudget ----------------------------
(***************************************************************************)
(* The prompt of a model call: poppy/context_manager.py.  ContextManager   *)
(* renders four sections to their budgets, adds the request, which is      *)
(* never cut, and lowers the budgets one section at a time until the       *)
(* prompt fits.  Texts are their lengths in characters, so the budgets of  *)
(* the code are used as they are; a line of history knows its entry.       *)
(***************************************************************************)
EXTENDS Integers, Sequences, FiniteSets, SequencesExt, FiniteSetsExt, Lists

CONSTANTS Items,       \* entries a conversation is made of, [role, path, call, text]
          Batches,     \* how many equal entries are recorded at a time
          MaxBatches,  \* bound: batches recorded
          PrefixTexts, MemoryTexts, NoteTexts, CheckpointTexts, RequestTexts
                       \* lengths of the prefix, the memory text, the notes found,
                       \* the checkpoint text (0: none) and the request

ASSUME PromptAssumption ==
  /\ \A item \in Items : item.call \in Nat /\ item.text \in Nat
  /\ Batches \subseteq Nat /\ NoteTexts \subseteq Seq(Nat)
  /\ UNION {PrefixTexts, MemoryTexts, CheckpointTexts, RequestTexts} \subseteq Nat

VARIABLES history,     \* session["history"]
          batches,     \* batches recorded (bound)
          summaries,   \* the files read have a summary in the memory
          parts,       \* the texts of this prompt
          budgets,     \* the budget each section has left
          size,        \* length of the prompt
          told,        \* the prompt holds the checkpoint
          stage        \* "talk", "fit" or "sent"

promptVars == <<history, batches, summaries, parts, budgets, size, told, stage>>

Total == 12000
Sections == {"prefix", "memory", "relevant_memory", "history"}
SectionBudgets == [prefix |-> 3600, memory |-> 1600, relevant_memory |-> 1200, history |-> 5200]
Floors == [s \in Sections |-> Max({20, SectionBudgets[s] \div 4})]
ReductionOrder == <<"relevant_memory", "history", "memory", "prefix">>
RecentWindow == 6
TaskCheckpoint == 16  \* the header "Task checkpoint:"
Transcript == 11      \* the header "Transcript:"
Role == 12            \* "[assistant] "
Summary == 180        \* a path, an arrow and the summary of the file

Clipped(length, limit) == IF length > limit THEN limit ELSE length

\* the lines of an entry: a message is one line, a tool the line of its call and
\* its result, of which only the result is ever cut here
Lines(item, limit) ==
  IF item.role = "message" THEN <<Role + Clipped(item.text, limit)>>
  ELSE <<item.call, Clipped(item.text, Max({20, limit}))>>

\* an old read shows the file's summary, an old command its first lines, any
\* other old tool its call
OldLines(item) ==
  CASE item.role = "read" /\ summaries -> <<Summary>>
    [] item.role = "shell"             -> <<item.call + 4 + item.text>>
    [] item.role = "message"           -> Lines(item, 60)
    [] OTHER                           -> <<item.call>>

RecentStart == Max({0, Len(history) - RecentWindow})

\* an old read of a file that an older entry has read already
Collapsed(i) ==
  /\ i <= RecentStart /\ history[i].role = "read"
  /\ \E j \in 1..(i - 1) : history[j].role = "read" /\ history[j].path = history[i].path

\* _compressed_history_entries: which there are, and what one of them shows
Entries == Filter([i \in 1..Len(history) |-> i], {i \in 1..Len(history) : ~Collapsed(i)})

Entry(i) ==
  [index |-> i, recent |-> i > RecentStart,
   lines |-> IF i > RecentStart THEN Lines(history[i], 900) ELSE OldLines(history[i])]

\* the lengths of lines joined to what stands before them
Joined(lines) == SumOf(lines) + Len(lines)

\* one entry before those already rendered: whole, else cut, else left out
Include(entry, rendered, budget) ==
  LET room == IF entry.recent THEN Max({20, budget - rendered.size - 1}) ELSE 20
      cut == [k \in DOMAIN entry.lines |-> Clipped(entry.lines[k], room)]
      Fits(lines) == rendered.size + Joined(lines) <= budget
      With(lines) == [size |-> rendered.size + Joined(lines),
                      shown |-> rendered.shown \cup {entry.index}]
  IN IF Fits(entry.lines) THEN With(entry.lines)
     ELSE IF Fits(cut) THEN With(cut) ELSE rendered

NothingYet == [size |-> Transcript, shown |-> {}]

\* mutant: _render_history_section goes through the entries from the oldest on
IncludeOldest(entries, n, rendered, budget) == Include(Entry(entries[n]), rendered, budget)

\* the n-th of the entries from the newest on
IncludeNext(entries, n, rendered, budget) ==
  Include(Entry(entries[Len(entries) + 1 - n]), rendered, budget)

RenderedTo(entries, budget) ==
  LET rendered[n \in 0..Len(entries)] ==
        IF n = 0 THEN NothingYet ELSE IncludeNext(entries, n, rendered[n - 1], budget)
  IN  rendered

\* _render_history_section
RenderHistory(budget) ==
  IF history = <<>> THEN [NothingYet EXCEPT !.size = @ + 8]
  ELSE RenderedTo(Entries, budget)[Len(Entries)]

\* _render_relevant_memory: the notes share the budget evenly
RenderRelevant(notes, budget) ==
  LET n == Len(notes)
      each == Max({1, Max({0, budget - TaskCheckpoint - 3 * n}) \div n})
      rendered == TaskCheckpoint + SumOf([k \in 1..n |-> 3 + Clipped(notes[k], each)])
  IN IF n = 0 THEN TaskCheckpoint + 7 ELSE Clipped(rendered, budget)

\* the checkpoint stands behind the prefix and is cut with it; its header is
\* what build looks for
PrefixText(p) == p.prefix + (IF p.checkpoint = 0 THEN 0 ELSE 2 + p.checkpoint)
ShowsCheckpoint(p, budget) ==
  /\ p.checkpoint > 0
  /\ PrefixText(p) <= budget \/ p.prefix + 2 + TaskCheckpoint <= budget - 3

\* _render_sections and _assemble_prompt: five texts, an empty line between two
Assembled(p, b) ==
  Clipped(PrefixText(p), b.prefix) + Clipped(p.memory, b.memory)
    + RenderRelevant(p.notes, b.relevant_memory) + RenderHistory(b.history).size
    + p.request + 4 * 2

NoParts == [prefix |-> 0, memory |-> 0, notes |-> <<>>, checkpoint |-> 0, request |-> 0]

PromptInit ==
  /\ history = <<>> /\ batches = 0
  /\ summaries \in BOOLEAN
  /\ parts = NoParts
  /\ budgets = SectionBudgets
  /\ size = 0 /\ told = FALSE
  /\ stage = "talk"

Record ==
  /\ stage \in {"talk", "sent"} /\ batches < MaxBatches
  /\ \E item \in Items, n \in Batches : history' = history \o [k \in 1..n |-> item]
  /\ batches' = batches + 1
  /\ parts' = NoParts /\ budgets' = SectionBudgets /\ size' = 0 /\ told' = FALSE
  /\ stage' = "talk"
  /\ UNCHANGED summaries

\* build, up to its loop: a checkpoint cut out of the prefix is put at the end
Build ==
  /\ stage = "talk"
  /\ parts' \in [prefix : PrefixTexts, memory : MemoryTexts, notes : NoteTexts,
                 checkpoint : CheckpointTexts, request : RequestTexts]
  /\ budgets' = SectionBudgets
  /\ told' = (parts'.checkpoint > 0)
  /\ size' = Assembled(parts', SectionBudgets)
              + IF told' /\ ~ShowsCheckpoint(parts', SectionBudgets.prefix)
                THEN 2 + parts'.checkpoint ELSE 0
  /\ stage' = "fit"
  /\ UNCHANGED <<history, batches, summaries>>

\* the sections whose budget may be lowered, by their turn
Reducible == {n \in DOMAIN ReductionOrder : budgets[ReductionOrder[n]] > Floors[ReductionOrder[n]]}

Reduce ==
  /\ stage = "fit" /\ size > Total /\ Reducible # {}
  /\ LET s == ReductionOrder[Min(Reducible)]
     IN budgets' = [budgets EXCEPT ![s] = Max({Floors[s], @ - (size - Total)})]
  /\ size' = Assembled(parts, budgets')
  /\ told' = ShowsCheckpoint(parts, budgets'.prefix)
  /\ stage' = "fit"
  /\ UNCHANGED <<history, batches, summaries, parts>>

Send ==
  /\ stage = "fit" /\ (size <= Total \/ Reducible = {})
  /\ stage' = "sent"
  /\ UNCHANGED <<history, batches, summaries, parts, budgets, size, told>>

PromptNext == Record \/ Build \/ Reduce \/ Send

\* The prompt fits the total budget whenever the request leaves room for the
\* floors of the sections, and the newest entry of the history is in it
\* whenever its lines fit the floor of the history: nothing older displaces it.
PromptFits ==
  stage = "sent" =>
    /\ parts.request + 8 + Floors.prefix + Floors.memory + Floors.relevant_memory + Floors.history <= Total
         => size <= Total
    /\ history # <<>> /\ Transcript + Joined(Lines(Last(history), 900)) <= Floors.history
         => Len(history) \in RenderHistory(budgets.history).shown

\* A checkpoint is part of every prompt: "Keep it after reduction even when the
\* prefix budget is saturated by a large tool registry" (context_manager.py:144).
CheckpointKept == stage = "sent" /\ parts.checkpoint > 0 => told
=============================================================================
