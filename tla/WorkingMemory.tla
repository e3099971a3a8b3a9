---------------------------- MODULE WorkingMemory ----------------------------
(***************************************************************************)
(* What an agent believes about the files it read and wrote: the working   *)
(* memory (poppy/features/memory.py), the checkpoints and the resume state *)
(* (poppy/checkpoint.py) around the loop of agent_loop.py, while the user  *)
(* edits the same files.  A file is a number: its version, 0 when it does  *)
(* not exist; file_freshness tells versions apart.                         *)
(***************************************************************************)
EXTENDS Integers, Sequences, FiniteSets, SequencesExt

CONSTANTS Files,
          WorkingFileLimit,  \* recent_files kept
          MaxVersion,        \* bound: versions written by the user and the agent
          MaxCrashes         \* bound: crashes

VARIABLES disk,     \* the files
          version,  \* the last version written
          session,  \* the session as the agent holds it: see NewSession
          saved,    \* the session file
          step,     \* where the agent is; "off": there is no agent
          tool,     \* the tool it runs: name, file and the version read or written
          missed,   \* history: edits the prompt built last failed to tell
          crashes

memoryVars == <<disk, version, session, saved, step, tool, missed, crashes>>

Unknown == -1
Nothing == [f \in Files |-> Unknown]
NewSession ==
  [recent  |-> <<>>,      \* working.recent_files
   summary |-> Nothing,   \* file_summaries: the freshness of each
   made    |-> FALSE,     \* there is a current checkpoint
   fresh   |-> Nothing,   \* its key_files
   knows   |-> Nothing,   \* the version of a file the history shows last
   lost    |-> {}]        \* history: files of which the code forgets what the history shows
NoTool == [name |-> "none", file |-> Unknown, content |-> Unknown]

MemoryInit ==
  /\ disk = [f \in Files |-> 1] /\ version = 1
  /\ session = NewSession /\ saved = NewSession
  /\ step = "idle" /\ tool = NoTool
  /\ missed = {} /\ crashes = 0

\* a version the history shows that is not the one on disk
Outdated(s, f) == s.knows[f] \notin {Unknown, disk[f]}

\* mutant: a summary is stale only when its file is gone
SummariesOfDeleted(s) == {f \in Files : s.summary[f] # Unknown /\ disk[f] = 0}

InvalidSummaries(s) == {f \in Files : s.summary[f] \notin {Unknown, disk[f]}}
StaleKeyFiles(s) == {f \in Files : s.made /\ s.fresh[f] \notin {Unknown, disk[f]}}

\* invalidate_stale_file_summaries
DropSummaries(s) ==
  [s EXCEPT !.summary = [f \in Files |-> IF f \in InvalidSummaries(s) THEN Unknown ELSE @[f]]]

\* create_checkpoint: the freshness the recent files have now, whatever the agent
\* knows of them.  A file without a summary is not looked at again
Checkpointed(s) ==
  LET key == Range(s.recent)
  IN [s EXCEPT !.made = TRUE,
               !.fresh = [f \in Files |-> IF f \in key THEN disk[f] ELSE Unknown],
               !.lost = @ \cup {f \in Files : s.summary[f] = Unknown /\ (f \notin key \/ Outdated(s, f))}]

\* remember_file: the files touched last, each once
Remember(recent, f) ==
  LET files == Append(SelectSeq(recent, LAMBDA g : g # f), f)
  IN SubSeq(files, Len(files) - (IF Len(files) > WorkingFileLimit THEN WorkingFileLimit ELSE Len(files)) + 1, Len(files))

\* the constructor looks for stale files too, and saves: what it finds is known to
\* the first prompt only by the key files of the checkpoint, if those are older
Construct ==
  /\ step = "off"
  /\ session' = [DropSummaries(saved) EXCEPT
       !.lost = @ \cup {f \in InvalidSummaries(saved) : saved.fresh[f] # saved.knows[f]}]
  /\ saved' = session'
  /\ step' = "idle"
  /\ UNCHANGED <<disk, version, tool, missed, crashes>>

\* the agent is dropped from the cache or the program ends between runs
Discard ==
  /\ step = "idle" /\ session = saved
  /\ step' = "off" /\ session' = NewSession
  /\ UNCHANGED <<disk, version, saved, tool, missed, crashes>>

\* a crash; between the entry in the history and its checkpoint nothing guards the file
Crash ==
  /\ step \notin {"off", "idle"} /\ crashes < MaxCrashes
  /\ saved' = IF step = "recorded" /\ tool.name \in {"read", "write"}
              THEN [saved EXCEPT !.lost = @ \cup {tool.file}]
              ELSE saved
  /\ step' = "off" /\ session' = NewSession /\ tool' = NoTool /\ missed' = {}
  /\ crashes' = crashes + 1
  /\ UNCHANGED <<disk, version>>

StartRun ==
  /\ step = "idle"
  /\ saved' = session
  /\ step' = "prompt"
  /\ UNCHANGED <<disk, version, session, tool, missed, crashes>>

\* the stale paths of the resume state that the text of a checkpoint names
StalePaths(s) == IF s.made THEN InvalidSummaries(s) \cup StaleKeyFiles(s) ELSE {}

\* _build_prompt_and_metadata: evaluate_resume_state and render_checkpoint_text.  The
\* line of stale paths comes late in the checkpoint, which is clipped with the prefix
\* or left out when the prompt is reduced: the prompt names some of the files, and
\* those are no longer known.  All of them make the loop write a checkpoint with the
\* freshness of now, so that the others are not named again; a changed workspace or a
\* prompt that was cut may make it write one too
BuildPrompt ==
  /\ step = "prompt"
  /\ \E told \in SUBSET StalePaths(session) :
       LET unnamed == StalePaths(session) \ told
       IN /\ session' = [DropSummaries(session) EXCEPT
               !.knows = [f \in Files |-> IF f \in told THEN Unknown ELSE @[f]],
               !.lost = (@ \ told) \cup unnamed]
          /\ missed' = {f \in Files \ (told \cup session'.lost) : Outdated(session, f)}
  /\ step' \in IF StalePaths(session) # {} THEN {"recheck"} ELSE {"recheck", "ask"}
  /\ UNCHANGED <<disk, version, saved, tool, crashes>>

Recheck ==
  /\ step = "recheck"
  /\ session' = Checkpointed(session) /\ saved' = session'
  /\ step' = "ask"
  /\ UNCHANGED <<disk, version, tool, missed, crashes>>

\* the model asks for a tool, and the tool has its effect: it reads a file, writes
\* one, changes one from a shell, or fails
RunTool(name, f) ==
  /\ step = "ask"
  /\ name \in {"write", "shell"} => version < MaxVersion
  /\ name = "read" => disk[f] # 0
  /\ version' = version + (IF name \in {"write", "shell"} THEN 1 ELSE 0)
  /\ disk' = IF name \in {"write", "shell"} THEN [disk EXCEPT ![f] = version'] ELSE disk
  /\ tool' = [name |-> name, file |-> f, content |-> disk'[f]]
  /\ step' = "did"
  /\ UNCHANGED <<session, saved, missed, crashes>>

\* update_memory_after_tool, after the workspace was compared with its snapshot
UpdateMemory ==
  /\ step = "did"
  /\ LET f == tool.file
     IN session' = IF tool.name \notin {"read", "write"} THEN session
                   ELSE [session EXCEPT !.recent = Remember(@, f),
                                        !.summary[f] = IF tool.name = "read" THEN disk[f] ELSE Unknown]
  /\ step' = "kept"
  /\ UNCHANGED <<disk, version, saved, tool, missed, crashes>>

\* record: the history shows what was read or written.  When a file changed before
\* its summary was made, the summary passes for one of the new version
RecordTool ==
  /\ step = "kept"
  /\ LET f == tool.file
         late == tool.name = "read" /\ session.summary[f] # tool.content
     IN session' = IF tool.name \notin {"read", "write"} THEN session
                   ELSE [session EXCEPT !.knows[f] = tool.content,
                                        !.lost = IF late THEN @ \cup {f} ELSE @ \ {f}]
  /\ saved' = session'
  /\ step' = "recorded"
  /\ UNCHANGED <<disk, version, tool, missed, crashes>>

CheckpointTool ==
  /\ step = "recorded"
  /\ session' = Checkpointed(session) /\ saved' = session'
  /\ tool' = NoTool
  /\ step' = "prompt"
  /\ UNCHANGED <<disk, version, missed, crashes>>

\* the run ends: an answer, an error, a cancellation or a limit
FinishRun ==
  /\ step = "ask"
  /\ session' = Checkpointed(session) /\ saved' = session'
  /\ step' = "idle" /\ missed' = {}
  /\ UNCHANGED <<disk, version, tool, crashes>>

UserEdits(f) ==
  /\ version < MaxVersion
  /\ version' = version + 1
  /\ \E content \in {0, version'} : disk' = [disk EXCEPT ![f] = content]
  /\ UNCHANGED <<session, saved, step, tool, missed, crashes>>

MemoryNext ==
  \/ Construct \/ Discard \/ Crash \/ StartRun \/ BuildPrompt \/ Recheck
  \/ UpdateMemory \/ RecordTool \/ CheckpointTool \/ FinishRun
  \/ \E f \in Files : UserEdits(f) \/ \E name \in {"read", "write", "shell", "failed"} : RunTool(name, f)

MemorySpec == MemoryInit /\ [][MemoryNext]_memoryVars

\* A file that changed since the history last showed it is named as stale in the
\* next prompt, whoever changed it and whether or not the program was restarted
\* in between, unless the code has lost track of it by then: a summary was made of
\* a later version or dropped unsaid, a checkpoint left the file out or took a
\* freshness nobody was told of, or the line of stale paths was cut from a prompt
\* before the file.
EditsAreTold == missed = {}
=============================================================================
