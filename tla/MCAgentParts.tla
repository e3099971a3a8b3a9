---------------------------- MODULE MCAgentParts ----------------------------
(* The modules about what surrounds the agent's loop share no state: a      *)
(* behaviour runs one of them and leaves the others where they began.       *)
EXTENDS PromptBudget, ReplyStream, WorkingMemory, DurableMemory, FullDocument, ToolCancellation, Grounding

VARIABLE part

\* entries of a history: short and long messages, reads of two files, a command,
\* and a call that carries the text of a file
ItemKinds ==
  {[role |-> "message", path |-> "",  call |-> 0,    text |-> 40],
   [role |-> "message", path |-> "",  call |-> 0,    text |-> 2000],
   [role |-> "read",    path |-> "a", call |-> 60,   text |-> 4000],
   [role |-> "read",    path |-> "b", call |-> 60,   text |-> 4000],
   [role |-> "shell",   path |-> "",  call |-> 40,   text |-> 600],
   [role |-> "write",   path |-> "a", call |-> 6000, text |-> 30]}
NotesFound == {<<>>, <<500, 500, 500>>}

\* single symbols, tags, and deltas that end inside a tag
Pieces == {<<"<">>, <<"/">>, <<"f">>, <<"t">>, <<"a">>, <<" ">>, <<"<", "f">>, <<"<", "t">>, <<"a", "<", "/", "f">>}

SubjectOf == [f \in Facts |-> IF f = "free" THEN None ELSE "x"]

\* short and long chunks, dull and weighty ones
DocumentData == UNION {[1..n -> [size : {1, 3}, weight : {0, 5}]] : n \in 0..4}
                  \cup [1..5 -> [size : {2}, weight : {0, 5}]]

(* "a" lies in the project's folder, "b" in another one. *)
FolderOf == [d \in Papers |-> IF d = "a" THEN "home" ELSE "other"]

(* What is asked: about a named document, with files, from a selection, of    *)
(* the whole document, from a channel, in a scope of its own.                 *)
Plain == [path |-> NoPaper, mentions |-> NoPaper, brings |-> {}, quick |-> FALSE, intent |-> "ask",
          full |-> FALSE, channel |-> FALSE, needs |-> TRUE, scope |-> "auto"]
Asked ==
  {[Plain EXCEPT !.needs = needs, !.scope = wide] : needs \in BOOLEAN, wide \in {"auto", "all"}}
  \cup {[Plain EXCEPT !.path = "b"], [Plain EXCEPT !.path = "b", !.full = TRUE],
        [Plain EXCEPT !.mentions = "a"], [Plain EXCEPT !.mentions = "a", !.brings = {"b"}],
        [Plain EXCEPT !.brings = {"b"}, !.channel = TRUE, !.needs = FALSE],
        [Plain EXCEPT !.quick = TRUE], [Plain EXCEPT !.quick = TRUE, !.intent = "explain", !.brings = {"b"}]}

PartsInit ==
  /\ part \in {"prompt", "reply", "memory", "durable", "full", "cancel", "ground"}
  /\ PromptInit /\ ReplyInit /\ MemoryInit /\ DurableInit /\ FullInit /\ CancelInit /\ GroundInit
  /\ part # "full" => document = <<>>
  /\ part # "prompt" => summaries
  /\ part # "ground" => granted = {} /\ project

PromptPart  == part = "prompt"  /\ PromptNext  /\ UNCHANGED <<part, replyVars, memoryVars, durableVars, fullVars, cancelVars, groundVars>>
ReplyPart   == part = "reply"   /\ ReplyNext   /\ UNCHANGED <<part, promptVars, memoryVars, durableVars, fullVars, cancelVars, groundVars>>
MemoryPart  == part = "memory"  /\ MemoryNext  /\ UNCHANGED <<part, promptVars, replyVars, durableVars, fullVars, cancelVars, groundVars>>
DurablePart == part = "durable" /\ DurableNext /\ UNCHANGED <<part, promptVars, replyVars, memoryVars, fullVars, cancelVars, groundVars>>

FullPart    == part = "full"    /\ FullNext    /\ UNCHANGED <<part, promptVars, replyVars, memoryVars, durableVars, cancelVars, groundVars>>

CancelPart  == part = "cancel"  /\ CancelNext  /\ UNCHANGED <<part, promptVars, replyVars, memoryVars, durableVars, fullVars, groundVars>>

GroundPart  == part = "ground"  /\ GroundNext  /\ UNCHANGED <<part, promptVars, replyVars, memoryVars, durableVars, fullVars, cancelVars>>

PartsNext == PromptPart \/ ReplyPart \/ MemoryPart \/ DurablePart \/ FullPart \/ CancelPart \/ GroundPart

PartsSpec == PartsInit /\ [][PartsNext]_<<part, promptVars, replyVars, memoryVars, durableVars, fullVars, cancelVars, groundVars>>

PromptSpec == PartsInit /\ part = "prompt" /\ [][PartsNext]_<<part, promptVars, replyVars, memoryVars, durableVars, fullVars, cancelVars, groundVars>>
=============================================================================
