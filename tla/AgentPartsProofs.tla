--------------------------- MODULE AgentPartsProofs ---------------------------
(***************************************************************************)
(* Theorems about what surrounds the agent's loop, for any number of       *)
(* threads, processes, files, notes, documents, questions and deltas:      *)
(* cancellation reaches who waits for it, changed files are named as       *)
(* stale, promoted notes can be recalled, answers rest on documents within *)
(* reach, no evidence comes from where a question may not look and no      *)
(* match is left out of an answer with room to spare, a document read in   *)
(* full is read from its first batch to its last, a prompt fits its budget *)
(* and keeps the newest entry, and a streamed reply shows its answer.      *)
(***************************************************************************)
EXTENDS ToolCancellation, WorkingMemory, DurableMemory, Grounding, Retrieval, FullDocument, PromptBudget, ReplyStream,
        ListsProofs, FiniteSetTheorems, SequenceTheorems, WellFoundedInduction, TLAPS

-----------------------------------------------------------------------------
(* ToolCancellation                                                         *)

CancelTypes ==
  /\ set \in BOOLEAN /\ callbacks \in SUBSET Readers
  /\ canceller \in [at : {"out", "set", "calling"}, taken : SUBSET Readers]
  /\ reader \in [Readers -> {"out", "now", "registered", "done"}]
  /\ called \in [Readers -> Nat]
  /\ shell \in {"none", "gone"} \cup Alive
  /\ child \in [Children -> [is : {"none", "gone"} \cup Alive, pipes : BOOLEAN]]
  /\ command \in {"out", "waiting", "ending", "killing", "over"}
  /\ left \in SUBSET Children

\* A callback is in one hand: its reader's, the list's, the canceller's.
TokenInv ==
  /\ canceller.at # "out" => set
  /\ canceller.at # "calling" => canceller.taken = {}
  /\ set /\ canceller.at # "set" => callbacks = {}

ReaderInv(x) ==
  /\ reader[x] \in {"out", "now"} => called[x] = 0 /\ x \notin callbacks \cup canceller.taken
  /\ reader[x] = "now" => set
  /\ x \in callbacks => reader[x] = "registered"
  /\ x \in callbacks \cup canceller.taken => called[x] = 0
  /\ reader[x] = "registered" => called[x] = 1 \/ x \in callbacks \cup canceller.taken
  /\ called[x] <= 1

\* The group once the shell was signalled, or is over
ShellInv ==
  /\ command = "out" => shell = "none" /\ \A p \in Children : child[p].is = "none"
  /\ command = "ending" => shell # "runs"
  /\ command \in {"killing", "over"} => shell \notin {"runs", "deaf"}
  /\ command \in {"ending", "killing", "over"} => \A p \in Children \ left : child[p].is # "runs"

CancelInv == CancelTypes /\ TokenInv /\ (\A x \in Readers : ReaderInv(x)) /\ ShellInv

\* Before the first reader registers the invariant of the token holds.
LEMMA CancelStart == CancelInit => CancelInv
<1> SUFFICES ASSUME CancelInit PROVE CancelInv
  OBVIOUS
<1>1. CancelTypes
  BY DEF CancelInit, CancelTypes, Alive
<1>2. TokenInv /\ ShellInv /\ \A x \in Readers : ReaderInv(x)
  BY DEF CancelInit, TokenInv, ReaderInv, ShellInv
<1>3. QED
  BY <1>1, <1>2 DEF CancelInv

\* cancel and the readers leave the processes alone, and the shell the token.
TokenActions ==
  \/ SetEvent \/ TakeCallbacks \/ CancelReturns
  \/ \E x \in Readers : CallBack(x) \/ Register(x) \/ CallNow(x) \/ Unregister(x)

ShellActions ==
  \/ \E p \in Children, pipes \in BOOLEAN : Spawn(p, pipes)
  \/ ShellEnds \/ \E p \in Children : ChildEnds(p)
  \/ StartShell \/ Answered \/ Terminate \/ ShellWaited \/ WaitExpires \/ KillExpires

\* Steps of the token's readers and of cancel.
LEMMA TokenStep ==
  ASSUME CancelInv, TokenActions
  PROVE  CancelInv'
<1> USE DEF CancelInv, CancelTypes, TokenInv, ReaderInv, ShellInv, shellVars, Alive
<1>1. CASE SetEvent
  BY <1>1 DEF SetEvent
<1>2. CASE TakeCallbacks
  BY <1>2 DEF TakeCallbacks
<1>3. CASE CancelReturns
  BY <1>3 DEF CancelReturns
<1>4. ASSUME NEW x \in Readers, CallBack(x) PROVE CancelInv'
  BY <1>4 DEF CallBack
<1>5. ASSUME NEW x \in Readers, Register(x) PROVE CancelInv'
  BY <1>5 DEF Register
<1>6. ASSUME NEW x \in Readers, CallNow(x) PROVE CancelInv'
  BY <1>6 DEF CallNow
<1>7. ASSUME NEW x \in Readers, Unregister(x) PROVE CancelInv'
  BY <1>7 DEF Unregister
<1> HIDE DEF CancelInv
<1>8. QED
  BY <1>1, <1>2, <1>3, <1>4, <1>5, <1>6, <1>7 DEF TokenActions

\* Steps of the shell tool and of its processes.
LEMMA ShellStep ==
  ASSUME CancelInv, ShellActions
  PROVE  CancelInv'
<1> USE DEF CancelInv, CancelTypes, TokenInv, ReaderInv, ShellInv, tokenVars, Alive
<1>1. ASSUME NEW p \in Children, NEW pipes \in BOOLEAN, Spawn(p, pipes) PROVE CancelInv'
  BY <1>1 DEF Spawn
<1>2. CASE ShellEnds
  BY <1>2 DEF ShellEnds
<1>3. ASSUME NEW p \in Children, ChildEnds(p) PROVE CancelInv'
  BY <1>3 DEF ChildEnds
<1>4. CASE StartShell
  BY <1>4 DEF StartShell
<1>5. CASE Answered
  BY <1>5 DEF Answered
<1>6. CASE Terminate
  BY <1>6 DEF Terminate, KillGroup, Struck
<1>7. CASE ShellWaited
  BY <1>7 DEF ShellWaited
<1>8. CASE WaitExpires
  BY <1>8 DEF WaitExpires, KillGroup, Struck
<1>9. CASE KillExpires
  BY <1>9 DEF KillExpires
<1> HIDE DEF CancelInv
<1>10. QED
  BY <1>1, <1>2, <1>3, <1>4, <1>5, <1>6, <1>7, <1>8, <1>9 DEF ShellActions

\* Every step of the token keeps its invariant.
LEMMA CancelKept == CancelInv /\ [CancelNext]_cancelVars => CancelInv'
<1> SUFFICES ASSUME CancelInv, [CancelNext]_cancelVars PROVE CancelInv'
  OBVIOUS
<1>1. CASE UNCHANGED cancelVars
  BY <1>1 DEF cancelVars, CancelInv, CancelTypes, TokenInv, ReaderInv, ShellInv
<1>2. CASE CancelNext
  <2>1. TokenActions \/ ShellActions
    BY <1>2 DEF CancelNext, TokenActions, ShellActions
  <2>2. QED
    BY <2>1, TokenStep, ShellStep
<1>3. QED
  BY <1>1, <1>2

\* Every reader that registered in time or late is called once when cancel is
\* over, and a shell command that is over has left nothing running but what the
\* code does not look for: for any number of readers and processes.
THEOREM CancellationSafety == CancelSpec => []CancellationReaches
<1>1. CancelInv => CancellationReaches
  <2> SUFFICES ASSUME CancelInv PROVE ReadersAreTold /\ CommandIsOver
    BY DEF CancellationReaches
  <2>1. ReadersAreTold
    BY DEF CancelInv, CancelTypes, TokenInv, ReaderInv, ReadersAreTold
  <2>2. CommandIsOver
    BY DEF CancelInv, ShellInv, CommandIsOver
  <2>3. QED
    BY <2>1, <2>2
<1>2. QED
  BY <1>1, CancelStart, CancelKept, PTL DEF CancelSpec

-----------------------------------------------------------------------------
(* WorkingMemory                                                            *)

Freshness == [Files -> Int]

IsSession(s) ==
  /\ s = [recent |-> s.recent, summary |-> s.summary, made |-> s.made, fresh |-> s.fresh,
          knows |-> s.knows, lost |-> s.lost]
  /\ s.summary \in Freshness /\ s.fresh \in Freshness /\ s.knows \in Freshness
  /\ s.made \in BOOLEAN /\ s.lost \in SUBSET Files

MemoryTypes ==
  /\ disk \in [Files -> Int] /\ version \in Int
  /\ IsSession(session) /\ IsSession(saved)
  /\ step \in {"off", "idle", "prompt", "recheck", "ask", "did", "kept", "recorded"}
  /\ tool \in [name : {"none", "read", "write", "shell", "failed"}, file : Files \cup {Unknown}, content : Int]
  /\ step \in {"did", "kept", "recorded"} => tool.file \in Files

\* What the history shows of a file can be told stale: its summary or the
\* checkpoint has the version the history shows, and there is a checkpoint,
\* without which nothing is told.
Tracked(s, f) ==
  \/ s.knows[f] = Unknown \/ f \in s.lost
  \/ s.made /\ s.knows[f] \in {s.summary[f], s.fresh[f]}

\* A summary is of the version the history shows.
SummaryTrue(s, f) ==
  s.summary[f] = Unknown \/ s.knows[f] = Unknown \/ f \in s.lost \/ s.summary[f] = s.knows[f]

\* The file of a tool whose effects are being taken down
InHand(f) == tool.name \in {"read", "write"} /\ tool.file = f

TrackedInv(f) ==
  /\ Tracked(session, f) \/ (InHand(f) /\ step \in {"kept", "recorded"})
  /\ SummaryTrue(session, f) \/ (InHand(f) /\ step = "kept")
  /\ Tracked(saved, f) \/ (InHand(f) /\ step = "recorded")
  /\ SummaryTrue(saved, f)
  /\ step = "kept" /\ InHand(f) /\ tool.name = "write" => session.summary[f] = Unknown

MemoryInv == MemoryTypes /\ (\A f \in Files : TrackedInv(f)) /\ missed = {}

\* A session without history satisfies the invariant of the memory.
LEMMA MemoryStart == MemoryInit => MemoryInv
BY DEF MemoryInit, MemoryInv, MemoryTypes, IsSession, Freshness, TrackedInv, Tracked, SummaryTrue,
   NewSession, Nothing, Unknown, NoTool

\* What create_checkpoint sets.
LEMMA CheckpointedFields ==
  ASSUME NEW s, IsSession(s), disk \in [Files -> Int]
  PROVE  /\ IsSession(Checkpointed(s))
         /\ Checkpointed(s).summary = s.summary /\ Checkpointed(s).knows = s.knows /\ Checkpointed(s).made = TRUE
         /\ s.lost \subseteq Checkpointed(s).lost
         /\ \A f \in Files : s.summary[f] = Unknown /\ f \notin Checkpointed(s).lost =>
                               /\ Checkpointed(s).fresh[f] = disk[f]
                               /\ s.knows[f] \in {Unknown, disk[f]}
<1> DEFINE key == Range(s.recent)
           fresh == [f \in Files |-> IF f \in key THEN disk[f] ELSE Unknown]
           lost == s.lost \cup {f \in Files : s.summary[f] = Unknown /\ (f \notin key \/ Outdated(s, f))}
           c == [recent |-> s.recent, summary |-> s.summary, made |-> TRUE, fresh |-> fresh,
                 knows |-> s.knows, lost |-> lost]
<1>1. Checkpointed(s) = c
  <2>1. Checkpointed(s) = [s EXCEPT !.made = TRUE, !.fresh = fresh, !.lost = lost]
    BY Zenon DEF Checkpointed
  <2>2. s = [recent |-> s.recent, summary |-> s.summary, made |-> s.made, fresh |-> s.fresh,
             knows |-> s.knows, lost |-> s.lost]
    BY DEF IsSession
  <2> HIDE DEF fresh, lost
  <2>3. QED
    BY <2>1, <2>2
<1>2. fresh \in Freshness /\ lost \in SUBSET Files /\ s.lost \subseteq lost
  BY DEF IsSession, Freshness, Unknown
<1>3. IsSession(c)
  <2> HIDE DEF fresh, lost
  <2>1. QED
    BY <1>2 DEF IsSession
<1>4. \A f \in Files : s.summary[f] = Unknown /\ f \notin lost => fresh[f] = disk[f] /\ s.knows[f] \in {Unknown, disk[f]}
  BY DEF Outdated
<1> HIDE DEF fresh, lost
<1>5. QED
  BY <1>1, <1>3, <1>4, <1>2

\* A checkpoint keeps track of every file whose summary is true.
LEMMA CheckpointedTracks ==
  ASSUME NEW s, IsSession(s), disk \in [Files -> Int], NEW f \in Files, SummaryTrue(s, f)
  PROVE  /\ IsSession(Checkpointed(s))
         /\ Tracked(Checkpointed(s), f) /\ SummaryTrue(Checkpointed(s), f)
<1> DEFINE c == Checkpointed(s)
<1>1. /\ IsSession(c) /\ c.summary = s.summary /\ c.knows = s.knows /\ c.made = TRUE
      /\ s.lost \subseteq c.lost
      /\ s.summary[f] = Unknown /\ f \notin c.lost =>
           c.fresh[f] = disk[f] /\ s.knows[f] \in {Unknown, disk[f]}
  <2>1. IsSession(s) /\ disk \in [Files -> Int]
    OBVIOUS
  <2>2. QED
    BY <2>1, CheckpointedFields
<1> HIDE DEF c
<1>2. QED
  BY <1>1 DEF Tracked, SummaryTrue, c

\* What invalidate_stale_file_summaries leaves: the summaries of the versions on disk.
LEMMA DroppedFields ==
  ASSUME NEW s, IsSession(s)
  PROVE  /\ IsSession(DropSummaries(s))
         /\ DropSummaries(s) = [recent |-> s.recent, summary |-> DropSummaries(s).summary, made |-> s.made,
                                fresh |-> s.fresh, knows |-> s.knows, lost |-> s.lost]
         /\ \A f \in Files : DropSummaries(s).summary[f] =
                               IF f \in InvalidSummaries(s) THEN Unknown ELSE s.summary[f]
<1> DEFINE remaining == [f \in Files |-> IF f \in InvalidSummaries(s) THEN Unknown ELSE s.summary[f]]
           d == [recent |-> s.recent, summary |-> remaining, made |-> s.made, fresh |-> s.fresh,
                 knows |-> s.knows, lost |-> s.lost]
<1>1. DropSummaries(s) = d
  <2>1. DropSummaries(s) = [s EXCEPT !.summary = remaining]
    BY Zenon DEF DropSummaries
  <2>2. s = [recent |-> s.recent, summary |-> s.summary, made |-> s.made, fresh |-> s.fresh,
             knows |-> s.knows, lost |-> s.lost]
    BY DEF IsSession
  <2> HIDE DEF remaining
  <2>3. QED
    BY <2>1, <2>2
<1>2. remaining \in Freshness /\ \A f \in Files : remaining[f] = IF f \in InvalidSummaries(s) THEN Unknown ELSE s.summary[f]
  BY DEF IsSession, Freshness, Unknown
<1> HIDE DEF remaining
<1>3. IsSession(d)
  BY <1>2 DEF IsSession
<1>4. QED
  BY <1>1, <1>2, <1>3

\* The constructor loses track of no file it does not say so of.
LEMMA ConstructStep ==
  ASSUME MemoryInv, Construct
  PROVE  MemoryInv'
<1> DEFINE d == DropSummaries(saved)
           more == {f \in InvalidSummaries(saved) : saved.fresh[f] # saved.knows[f]}
<1>1. IsSession(saved)
  BY DEF MemoryInv, MemoryTypes
<1>2. /\ IsSession(d)
      /\ d = [recent |-> saved.recent, summary |-> d.summary, made |-> saved.made,
              fresh |-> saved.fresh, knows |-> saved.knows, lost |-> saved.lost]
      /\ \A f \in Files : d.summary[f] = IF f \in InvalidSummaries(saved) THEN Unknown ELSE saved.summary[f]
  BY <1>1, DroppedFields
<1>3. session' = [d EXCEPT !.lost = @ \cup more] /\ saved' = session'
  BY DEF Construct
<1>4. more \subseteq Files /\ \A f \in InvalidSummaries(saved) : f \in more \/ saved.fresh[f] = saved.knows[f]
  BY DEF InvalidSummaries
<1> HIDE DEF d, more
<1>5. session' = [recent |-> saved.recent, summary |-> d.summary, made |-> saved.made,
                  fresh |-> saved.fresh, knows |-> saved.knows, lost |-> saved.lost \cup more]
  BY <1>2, <1>3
<1>6. IsSession(session')
  BY <1>1, <1>2, <1>4, <1>5 DEF IsSession
<1>7. MemoryTypes'
  BY <1>3, <1>6 DEF MemoryInv, MemoryTypes, Construct
<1>8. ASSUME NEW f \in Files PROVE TrackedInv(f)'
  <2>1. TrackedInv(f) /\ step = "off" /\ step' = "idle" /\ saved' = session'
    BY DEF MemoryInv, Construct
  <2>2. Tracked(saved, f) /\ SummaryTrue(saved, f)
    BY <2>1 DEF TrackedInv
  <2>3. SummaryTrue(session', f)
    BY <2>2, <1>2, <1>5 DEF SummaryTrue
  <2>4. CASE saved.made = FALSE
    BY <2>1, <2>2, <2>3, <2>4, <1>5 DEF TrackedInv, Tracked
  <2>5. CASE f \in InvalidSummaries(saved)
    BY <2>1, <2>2, <2>3, <2>5, <1>4, <1>5 DEF TrackedInv, Tracked
  <2>6. CASE f \notin InvalidSummaries(saved)
    BY <2>1, <2>2, <2>3, <2>6, <1>2, <1>5 DEF TrackedInv, Tracked
  <2>7. QED
    BY <2>5, <2>6
<1>9. missed' = {}
  BY DEF MemoryInv, Construct
<1>10. QED
  BY <1>7, <1>8, <1>9 DEF MemoryInv

\* A prompt tells of every outdated file that is tracked.
LEMMA PromptStep ==
  ASSUME MemoryInv, BuildPrompt
  PROVE  MemoryInv'
<1>0. PICK named \in SUBSET StalePaths(session) :
        /\ session' = [DropSummaries(session) EXCEPT
               !.knows = [f \in Files |-> IF f \in named THEN Unknown ELSE @[f]],
               !.lost = (@ \ named) \cup (StalePaths(session) \ named)]
        /\ missed' = {f \in Files \ (named \cup session'.lost) : Outdated(session, f)}
  BY Zenon DEF BuildPrompt
<1> DEFINE d == DropSummaries(session)
           stale == StalePaths(session)
           knows == [f \in Files |-> IF f \in named THEN Unknown ELSE session.knows[f]]
<1>1. IsSession(session) /\ disk \in [Files -> Int]
  BY DEF MemoryInv, MemoryTypes
<1>2. /\ IsSession(d)
      /\ d = [recent |-> session.recent, summary |-> d.summary, made |-> session.made,
              fresh |-> session.fresh, knows |-> session.knows, lost |-> session.lost]
      /\ \A f \in Files : d.summary[f] = IF f \in InvalidSummaries(session) THEN Unknown ELSE session.summary[f]
  BY <1>1, DroppedFields
<1>3. session' = [d EXCEPT !.knows = [f \in Files |-> IF f \in named THEN Unknown ELSE @[f]],
                         !.lost = (@ \ named) \cup (stale \ named)]
  BY Zenon, <1>0
<1>4. session' = [recent |-> session.recent, summary |-> d.summary, made |-> session.made,
                  fresh |-> session.fresh, knows |-> knows, lost |-> (session.lost \ named) \cup (stale \ named)]
  <2>1. [f \in Files |-> IF f \in named THEN Unknown ELSE d.knows[f]] = knows
    BY <1>2
  <2>2. session' = [d EXCEPT !.knows = knows, !.lost = (d.lost \ named) \cup (stale \ named)]
    BY <1>3, <2>1
  <2>3. d.lost = session.lost
    BY <1>2
  <2> HIDE DEF d, stale, knows
  <2> DEFINE lost == (session.lost \ named) \cup (stale \ named)
             texts == d.summary
  <2>4. session' = [d EXCEPT !.knows = knows, !.lost = lost]
    BY <2>2, <2>3
  <2>5. d = [recent |-> session.recent, summary |-> texts, made |-> session.made,
             fresh |-> session.fresh, knows |-> session.knows, lost |-> session.lost]
    BY <1>2
  <2> HIDE DEF lost, texts
  <2>6. session' = [recent |-> session.recent, summary |-> texts, made |-> session.made,
                    fresh |-> session.fresh, knows |-> knows, lost |-> lost]
    BY <2>4, <2>5
  <2>7. QED
    BY <2>6 DEF lost, texts
<1>5. knows \in Freshness /\ \A f \in Files : knows[f] = IF f \in named THEN Unknown ELSE session.knows[f]
  BY <1>1 DEF IsSession, Freshness, Unknown
<1>6. \A f \in Files : session.made /\ f \notin stale =>
        session.summary[f] \in {Unknown, disk[f]} /\ session.fresh[f] \in {Unknown, disk[f]}
  BY DEF StalePaths, InvalidSummaries, StaleKeyFiles
<1>7. named \subseteq stale /\ stale \subseteq Files /\ (~session.made => stale = {})
  BY <1>0 DEF StalePaths, InvalidSummaries, StaleKeyFiles
<1>8. missed' = {f \in Files \ (named \cup session'.lost) : Outdated(session, f)}
  BY <1>0
<1> HIDE DEF d, stale, knows
<1>9. IsSession(session')
  BY <1>1, <1>2, <1>4, <1>5, <1>7 DEF IsSession
<1>10. MemoryTypes'
  BY <1>9 DEF MemoryInv, MemoryTypes, BuildPrompt
<1>11. ASSUME NEW f \in Files PROVE TrackedInv(f)'
  <2>1. TrackedInv(f) /\ step = "prompt" /\ step' \in {"recheck", "ask"} /\ saved' = saved /\ tool' = tool
    BY DEF MemoryInv, BuildPrompt
  <2>2. Tracked(session, f) /\ SummaryTrue(session, f) /\ Tracked(saved, f) /\ SummaryTrue(saved, f)
    BY <2>1 DEF TrackedInv
  <2>3. SummaryTrue(session', f)
    BY <2>2, <1>2, <1>4, <1>5 DEF SummaryTrue
  <2>4. Tracked(session', f)
    <3>1. CASE f \in named
      BY <3>1, <1>4, <1>5 DEF Tracked
    <3>2. CASE f \notin named /\ (session.knows[f] = Unknown \/ f \in session.lost \/ f \in stale)
      BY <3>2, <1>4, <1>5 DEF Tracked
    <3>3. CASE f \notin stale /\ session.made /\ session.knows[f] \in {session.summary[f], session.fresh[f]}
      <4>1. session'.summary[f] = session.summary[f]
        BY <3>3, <1>2, <1>4, <1>6 DEF InvalidSummaries
      <4>2. QED
        BY <3>3, <4>1, <1>4, <1>5, <1>7 DEF Tracked
    <3>4. QED
      BY <3>1, <3>2, <3>3, <2>2 DEF Tracked
  <2>5. QED
    BY <2>1, <2>2, <2>3, <2>4 DEF TrackedInv
<1>12. missed' = {}
  <2> SUFFICES ASSUME NEW f \in Files, f \notin stale, f \notin session.lost PROVE ~Outdated(session, f)
    BY <1>4, <1>8
  <2>1. TrackedInv(f) /\ step = "prompt"
    BY DEF MemoryInv, BuildPrompt
  <2>2. Tracked(session, f)
    BY <2>1 DEF TrackedInv
  <2>3. QED
    BY <2>2, <1>6 DEF Tracked, Outdated
<1>13. QED
  BY <1>10, <1>11, <1>12 DEF MemoryInv

\* A checkpoint that is written keeps track of every file.
LEMMA CheckpointStep ==
  ASSUME MemoryInv, Recheck \/ CheckpointTool \/ FinishRun
  PROVE  MemoryInv'
<1>1. /\ IsSession(session) /\ disk \in [Files -> Int]
      /\ session' = Checkpointed(session) /\ saved' = session'
      /\ step' \in {"ask", "prompt", "idle"} /\ tool' \in {tool, NoTool}
      /\ disk' = disk /\ version' = version /\ missed' = {}
      /\ \A f \in Files : SummaryTrue(session, f)
  BY DEF MemoryInv, MemoryTypes, TrackedInv, Recheck, CheckpointTool, FinishRun
<1>2. IsSession(session')
  BY <1>1, CheckpointedFields
<1>3. MemoryTypes'
  BY <1>1, <1>2 DEF MemoryInv, MemoryTypes, NoTool, Unknown
<1>4. ASSUME NEW f \in Files PROVE TrackedInv(f)'
  <2>1. SummaryTrue(session, f)
    BY <1>1
  <2>2. Tracked(session', f) /\ SummaryTrue(session', f)
    BY <1>1, <2>1, CheckpointedTracks
  <2>3. QED
    BY <1>1, <2>2 DEF TrackedInv
<1>5. QED
  BY <1>1, <1>3, <1>4 DEF MemoryInv

\* While a tool runs and its effects are taken down its file is in hand.
LEMMA ToolStep ==
  ASSUME MemoryInv,
         UpdateMemory \/ RecordTool \/ \E f \in Files, name \in {"read", "write", "shell", "failed"} : RunTool(name, f)
  PROVE  MemoryInv'
<1>0. /\ IsSession(session) /\ IsSession(saved) /\ disk \in [Files -> Int] /\ version \in Int
      /\ tool \in [name : {"none", "read", "write", "shell", "failed"}, file : Files \cup {Unknown}, content : Int]
      /\ session = [recent |-> session.recent, summary |-> session.summary, made |-> session.made,
                    fresh |-> session.fresh, knows |-> session.knows, lost |-> session.lost]
  BY DEF MemoryInv, MemoryTypes, IsSession
<1>1. ASSUME NEW f \in Files, NEW name \in {"read", "write", "shell", "failed"}, RunTool(name, f)
      PROVE  MemoryInv'
  <2>1. /\ disk' \in [Files -> Int] /\ version' \in Int
        /\ tool' = [name |-> name, file |-> f, content |-> disk'[f]]
        /\ step = "ask" /\ step' = "did" /\ UNCHANGED <<session, saved, missed>>
    BY <1>0, <1>1 DEF RunTool
  <2>2. MemoryTypes'
    BY <1>0, <2>1 DEF MemoryTypes, IsSession
  <2>3. QED
    BY <2>1, <2>2 DEF MemoryInv, TrackedInv, Tracked, SummaryTrue, InHand
<1>2. CASE UpdateMemory
  <2> DEFINE f == tool.file
  <2>1. step = "did" /\ step' = "kept" /\ UNCHANGED <<disk, version, saved, tool, missed>> /\ f \in Files
    BY <1>2 DEF UpdateMemory, MemoryInv, MemoryTypes
  <2>2. CASE tool.name \notin {"read", "write"}
    <3>1. session' = session
      BY <1>2, <2>2 DEF UpdateMemory
    <3>2. QED
      BY <2>1, <2>2, <3>1 DEF MemoryInv, MemoryTypes, IsSession, TrackedInv, Tracked, SummaryTrue, InHand
  <2>3. CASE tool.name \in {"read", "write"}
    <3> DEFINE recent == Remember(session.recent, f)
               now == IF tool.name = "read" THEN disk[f] ELSE Unknown
    <3>1. session' = [session EXCEPT !.recent = recent, !.summary[f] = now]
      BY <1>2, <2>3 DEF UpdateMemory
    <3>2. now \in Int
      BY <1>0, <2>1 DEF Unknown
    <3> HIDE DEF recent, now, f
    <3>3. session' = [recent |-> recent, summary |-> [session.summary EXCEPT ![f] = now], made |-> session.made,
                      fresh |-> session.fresh, knows |-> session.knows, lost |-> session.lost]
      BY <3>1, <1>0
    <3>4. IsSession(session')
      BY <1>0, <3>2, <3>3 DEF IsSession, Freshness
    <3>5. MemoryTypes'
      BY <1>0, <2>1, <3>4 DEF MemoryTypes, IsSession, f
    <3>6. ASSUME NEW g \in Files PROVE TrackedInv(g)'
      <4>1. TrackedInv(g)
        BY DEF MemoryInv
      <4>2. CASE g = f
        <5>1. tool.name = "write" => session'.summary[f] = Unknown
          BY <3>3, <1>0, <2>1 DEF IsSession, Freshness, now, f
        <5>2. QED
          BY <5>1, <4>1, <4>2, <2>1, <2>3 DEF TrackedInv, InHand, f, Tracked, SummaryTrue
      <4>3. CASE g # f
        <5>1. session'.summary[g] = session.summary[g] /\ UNCHANGED <<session.made, session.fresh, session.knows, session.lost>>
          BY <3>3, <4>3, <1>0 DEF IsSession, Freshness
        <5>2. QED
          BY <4>1, <4>3, <2>1, <5>1 DEF TrackedInv, InHand, f, Tracked, SummaryTrue
      <4>4. QED
        BY <4>2, <4>3
    <3>7. QED
      BY <2>1, <3>5, <3>6 DEF MemoryInv
  <2>4. QED
    BY <2>2, <2>3
<1>3. CASE RecordTool
  <2> DEFINE f == tool.file
  <2>1. /\ step = "kept" /\ step' = "recorded" /\ UNCHANGED <<disk, version, tool, missed>> /\ f \in Files
        /\ saved' = session'
    BY <1>3 DEF RecordTool, MemoryInv, MemoryTypes
  <2>2. CASE tool.name \notin {"read", "write"}
    <3>1. session' = session
      BY <1>3, <2>2 DEF RecordTool
    <3>2. QED
      BY <2>1, <2>2, <3>1 DEF MemoryInv, MemoryTypes, IsSession, TrackedInv, Tracked, SummaryTrue, InHand
  <2>3. CASE tool.name \in {"read", "write"}
    <3> DEFINE late == tool.name = "read" /\ session.summary[f] # tool.content
               lost == IF late THEN session.lost \cup {f} ELSE session.lost \ {f}
    <3>1. session' = [session EXCEPT !.knows[f] = tool.content, !.lost = lost]
      BY <1>3, <2>3 DEF RecordTool
    <3>2. lost \in SUBSET Files /\ \A g \in Files \ {f} : g \in lost <=> g \in session.lost
      BY <1>0, <2>1 DEF IsSession
    <3>3. f \in lost \/ tool.name = "write" \/ session.summary[f] = tool.content
      BY <2>1, <2>3
    <3> HIDE DEF lost, f
    <3>4. session' = [recent |-> session.recent, summary |-> session.summary, made |-> session.made,
                      fresh |-> session.fresh, knows |-> [session.knows EXCEPT ![f] = tool.content], lost |-> lost]
      BY <3>1, <1>0
    <3>5. IsSession(session')
      BY <1>0, <3>2, <3>4 DEF IsSession, Freshness
    <3>6. MemoryTypes'
      BY <1>0, <2>1, <3>5 DEF MemoryTypes, IsSession, f
    <3>7. ASSUME NEW g \in Files PROVE TrackedInv(g)'
      <4>1. TrackedInv(g)
        BY DEF MemoryInv
      <4>2. CASE g = f
        <5>0. tool.name = "write" => session.summary[f] = Unknown
          BY <4>1, <4>2, <2>1, <2>3 DEF TrackedInv, InHand, f
        <5>1. SummaryTrue(session', f)
          BY <5>0, <2>1, <3>3, <3>4, <1>0 DEF SummaryTrue, IsSession, Freshness
        <5>2. QED
          BY <5>1, <4>2, <2>1, <2>3 DEF TrackedInv, InHand, f
      <4>3. CASE g # f
        <5>1. session'.knows[g] = session.knows[g] /\ UNCHANGED <<session.made, session.fresh, session.summary>>
          BY <3>4, <4>3, <1>0 DEF IsSession, Freshness
        <5>2. g \in session'.lost <=> g \in session.lost
          BY <3>2, <3>4, <4>3
        <5>3. Tracked(session, g) /\ SummaryTrue(session, g)
          BY <4>1, <4>3 DEF TrackedInv, InHand, f
        <5>4. Tracked(session', g) /\ SummaryTrue(session', g)
          BY <5>1, <5>2, <5>3 DEF Tracked, SummaryTrue
        <5>5. QED
          BY <5>4, <2>1 DEF TrackedInv
      <4>4. QED
        BY <4>2, <4>3
    <3>8. QED
      BY <2>1, <3>6, <3>7 DEF MemoryInv
  <2>4. QED
    BY <2>2, <2>3
<1>4. QED
  BY <1>1, <1>2, <1>3

\* The user edits, a run starts, and the agent or the program ends: what a crash
\* finds between the history and the checkpoint is what the code loses track of.
LEMMA OutsideStep ==
  ASSUME MemoryInv, StartRun \/ Discard \/ Crash \/ \E f \in Files : UserEdits(f)
  PROVE  MemoryInv'
<1>0. IsSession(session) /\ IsSession(saved) /\ IsSession(NewSession)
  BY DEF MemoryInv, MemoryTypes, IsSession, NewSession, Nothing, Freshness, Unknown
<1>1. CASE StartRun
  BY <1>1 DEF StartRun, MemoryInv, MemoryTypes, IsSession, TrackedInv, Tracked, SummaryTrue
<1>2. CASE Discard
  <2>1. MemoryTypes'
    BY <1>0, <1>2 DEF Discard, MemoryInv, MemoryTypes, IsSession
  <2>2. QED
    BY <2>1, <1>2 DEF Discard, MemoryInv, TrackedInv, Tracked, SummaryTrue, NewSession, Nothing
<1>3. CASE Crash
  <2> DEFINE lose == step = "recorded" /\ tool.name \in {"read", "write"}
             lost == IF lose THEN saved.lost \cup {tool.file} ELSE saved.lost
  <2>1. /\ step' = "off" /\ session' = NewSession /\ tool' = NoTool /\ missed' = {}
        /\ UNCHANGED <<disk, version>>
    BY <1>3 DEF Crash
  <2>2. saved' = [recent |-> saved.recent, summary |-> saved.summary, made |-> saved.made,
                  fresh |-> saved.fresh, knows |-> saved.knows, lost |-> lost]
    BY <1>0, <1>3 DEF Crash, IsSession
  <2>3. lost \in SUBSET Files /\ saved.lost \subseteq lost /\ (lose => tool.file \in lost)
    BY <1>0 DEF MemoryInv, MemoryTypes, IsSession
  <2> HIDE DEF lost
  <2>4. IsSession(saved')
    BY <1>0, <2>2, <2>3 DEF IsSession
  <2>5. MemoryTypes'
    BY <1>0, <2>1, <2>4 DEF MemoryInv, MemoryTypes, IsSession, NoTool, Unknown
  <2>6. ASSUME NEW f \in Files PROVE TrackedInv(f)'
    <3>1. TrackedInv(f)
      BY DEF MemoryInv
    <3>2. Tracked(session', f) /\ SummaryTrue(session', f)
      BY <2>1 DEF Tracked, SummaryTrue, NewSession, Nothing
    <3>3. SummaryTrue(saved', f)
      BY <3>1, <2>2, <2>3 DEF TrackedInv, SummaryTrue
    <3>4. CASE Tracked(saved, f)
      BY <3>2, <3>3, <3>4, <2>1, <2>2, <2>3 DEF TrackedInv, Tracked
    <3>5. CASE InHand(f) /\ step = "recorded"
      <4>1. f \in lost
        BY <3>5, <2>3 DEF InHand
      <4>2. QED
        BY <3>2, <3>3, <4>1, <2>1, <2>2 DEF TrackedInv, Tracked
    <3>6. QED
      BY <3>1, <3>4, <3>5 DEF TrackedInv
  <2>7. QED
    BY <2>1, <2>5, <2>6 DEF MemoryInv
<1>4. ASSUME NEW f \in Files, UserEdits(f) PROVE MemoryInv'
  <2>1. /\ disk' \in [Files -> Int] /\ version' \in Int
        /\ UNCHANGED <<session, saved, step, tool, missed>>
    BY <1>4 DEF UserEdits, MemoryInv, MemoryTypes
  <2>2. QED
    BY <2>1 DEF MemoryInv, MemoryTypes, IsSession, TrackedInv, Tracked, SummaryTrue, InHand
<1>5. QED
  BY <1>1, <1>2, <1>3, <1>4

\* Every step of the session keeps the invariant of the memory.
LEMMA MemoryKept == MemoryInv /\ [MemoryNext]_memoryVars => MemoryInv'
<1> SUFFICES ASSUME MemoryInv, [MemoryNext]_memoryVars PROVE MemoryInv'
  OBVIOUS
<1>1. CASE UNCHANGED memoryVars
  BY <1>1 DEF memoryVars, MemoryInv, MemoryTypes, IsSession, TrackedInv, Tracked, SummaryTrue, InHand
<1>2. CASE MemoryNext
  BY <1>2, ConstructStep, PromptStep, CheckpointStep, ToolStep, OutsideStep DEF MemoryNext
<1>3. QED
  BY <1>1, <1>2

\* A file that changed since the history last showed it is named in the next
\* prompt, whoever changed it and across restarts, unless the code lost track of
\* it, its line cut from a prompt included: for any files, versions and crashes.
THEOREM EditsTold == MemorySpec => []EditsAreTold
<1>1. MemoryInv => EditsAreTold
  BY DEF MemoryInv, EditsAreTold
<1>2. QED
  BY <1>1, MemoryStart, MemoryKept, PTL DEF MemorySpec

-----------------------------------------------------------------------------
(* DurableMemory                                                            *)

Notes == Seq(Facts)

\* A note can be recalled from the notes of its topic, or one of its subject.
Holds(notes, n) ==
  \E i \in DOMAIN notes : notes[i] = n \/ (Subject[n] # None /\ Subject[notes[i]] = Subject[n])

Idle(a) == agent[a].pc = "idle"

DurableTypes ==
  /\ index \in SUBSET Topics /\ topicFile \in [Topics -> Notes]
  /\ agent \in [Agents -> [pc : {"idle", "index", "topics"}, topic : Topics \cup {None}, note : Facts \cup {None},
                           index : SUBSET Topics, notes : [Topics -> Notes], left : SUBSET Topics]]
  /\ \A a \in Agents : ~Idle(a) => agent[a].topic \in Topics /\ agent[a].note \in Facts
  /\ kept \in SUBSET (Topics \X Facts) /\ clashed \in BOOLEAN

\* One promotion at a time: what it holds includes what is kept, and what it has
\* written is in the files.
PromotionInv(a) ==
  LET p == agent[a]
  IN p.pc # "idle" =>
       /\ \A b \in Agents \ {a} : Idle(b)
       /\ p.topic \in p.index
       /\ p.left \subseteq p.index /\ index \subseteq p.index
       /\ Holds(p.notes[p.topic], p.note)
       /\ \A k \in kept : Holds(p.notes[k[1]], k[2])
       /\ p.pc = "index" => p.left = p.index
       /\ p.pc = "topics" => index = p.index /\ \A t \in p.index \ p.left : topicFile[t] = p.notes[t]

KeptInv == \A k \in kept : k[1] \in index /\ Holds(topicFile[k[1]], k[2])

DurableInv == DurableTypes /\ (~clashed => KeptInv /\ \A a \in Agents : PromotionInv(a))

\* A set of natural numbers that has a member has a least one.
LEMMA LeastMember == ASSUME NEW S \in SUBSET Nat, S # {} PROVE \E i \in S : \A j \in S : i <= j
<1>1. PICK x \in S : \A y \in S : ~(<<y, x>> \in OpToRel(<, Nat))
  BY WFMin, NatLessThanWellFounded
<1>2. \A y \in S : ~(y < x)
  BY <1>1 DEF OpToRel
<1>3. QED
  BY <1>2

\* What _write adds to a topic is held, and whatever was held still is.
LEMMA WithNoteHolds ==
  ASSUME NEW notes \in Notes, NEW n \in Facts
  PROVE  /\ WithNote(notes, n) \in Notes
         /\ Holds(WithNote(notes, n), n)
         /\ \A k \in Facts : Holds(notes, k) => Holds(WithNote(notes, n), k)
<1> DEFINE same == {i \in DOMAIN notes : Subject[n] # None /\ Subject[notes[i]] = Subject[n]}
           s == SameSubject(notes, n)
<1>1. CASE \E i \in DOMAIN notes : notes[i] = n
  <2>1. WithNote(notes, n) = notes
    BY <1>1 DEF WithNote
  <2>2. QED
    BY <1>1, <2>1 DEF Holds
<1>2. CASE (~\E i \in DOMAIN notes : notes[i] = n) /\ same # {}
  <2>1. same \in SUBSET Nat
    BY DEF Notes
  <2>2. \E i \in same : \A j \in same : i <= j
    BY <2>1, <1>2, LeastMember
  <2>3. s \in same
    BY <1>2, <2>2 DEF SameSubject
  <2>4. s # 0 /\ s \in DOMAIN notes /\ Subject[n] # None /\ Subject[notes[s]] = Subject[n]
    BY <2>3 DEF Notes
  <2> HIDE DEF s, same
  <2>5. WithNote(notes, n) = [notes EXCEPT ![s] = n]
    BY <1>2, <2>4 DEF WithNote, s
  <2>6. /\ WithNote(notes, n) \in Notes
        /\ DOMAIN WithNote(notes, n) = DOMAIN notes
        /\ \A i \in DOMAIN notes : WithNote(notes, n)[i] = IF i = s THEN n ELSE notes[i]
    BY <2>4, <2>5 DEF Notes
  <2>7. Holds(WithNote(notes, n), n)
    BY <2>4, <2>6 DEF Holds
  <2>8. ASSUME NEW k \in Facts, Holds(notes, k) PROVE Holds(WithNote(notes, n), k)
    <3>1. PICK i \in DOMAIN notes : notes[i] = k \/ (Subject[k] # None /\ Subject[notes[i]] = Subject[k])
      BY <2>8 DEF Holds
    <3>2. CASE i = s
      <4>1. Subject[k] # None /\ Subject[n] = Subject[k]
        BY <3>1, <3>2, <2>4
      <4>2. QED
        BY <4>1, <3>2, <2>6 DEF Holds
    <3>3. CASE i # s
      BY <3>1, <3>3, <2>6 DEF Holds
    <3>4. QED
      BY <3>2, <3>3
  <2>9. QED
    BY <2>6, <2>7, <2>8
<1>3. CASE (~\E i \in DOMAIN notes : notes[i] = n) /\ same = {}
  <2>1. s = 0
    BY <1>3 DEF SameSubject
  <2>2. WithNote(notes, n) = Append(notes, n)
    BY <1>3, <2>1 DEF WithNote
  <2>3. /\ WithNote(notes, n) \in Notes
        /\ DOMAIN WithNote(notes, n) = 1..(Len(notes) + 1) /\ DOMAIN notes = 1..Len(notes) /\ Len(notes) \in Nat
        /\ \A i \in DOMAIN notes : WithNote(notes, n)[i] = notes[i]
        /\ WithNote(notes, n)[Len(notes) + 1] = n
    BY <2>2 DEF Notes
  <2>4. DOMAIN notes \subseteq DOMAIN WithNote(notes, n) /\ Len(notes) + 1 \in DOMAIN WithNote(notes, n)
    BY <2>3
  <2>5. QED
    BY <2>3, <2>4 DEF Holds
<1>4. QED
  BY <1>1, <1>2, <1>3

\* No promotion is a promotion.
LEMMA QuietType ==
  /\ Quiet \in [pc : {"idle", "index", "topics"}, topic : Topics \cup {None}, note : Facts \cup {None},
                index : SUBSET Topics, notes : [Topics -> Notes], left : SUBSET Topics]
  /\ [t \in Topics |-> <<>>] \in [Topics -> Notes]
  /\ Quiet.pc = "idle"
<1> DEFINE none == [t \in Topics |-> <<>>]
<1>1. none \in [Topics -> Notes]
  BY DEF Notes
<1> HIDE DEF none
<1>2. Quiet = [pc |-> "idle", topic |-> None, note |-> None, index |-> {}, notes |-> none, left |-> {}]
  BY DEF Quiet, none
<1>3. QED
  BY <1>1, <1>2 DEF none

\* Empty note files satisfy the invariant of the durable notes.
LEMMA DurableStart == DurableInit => DurableInv
<1> SUFFICES ASSUME DurableInit PROVE DurableInv
  OBVIOUS
<1>1. DurableTypes
  BY QuietType DEF DurableInit, DurableTypes, Idle
<1>2. KeptInv /\ \A a \in Agents : PromotionInv(a)
  BY DEF DurableInit, KeptInv, PromotionInv, Quiet
<1>3. QED
  BY <1>1, <1>2 DEF DurableInv

\* A promotion reads what is kept, if no other one is under way.
LEMMA LoadStep ==
  ASSUME DurableInv, NEW a \in Agents, Load(a)
  PROVE  DurableInv'
<1>1. PICK t \in Topics, n \in Facts :
        agent' = [agent EXCEPT ![a] =
          [pc |-> "index", topic |-> t, note |-> n, index |-> Written(t), left |-> Written(t),
           notes |-> [[u \in Topics |-> IF u \in index THEN topicFile[u] ELSE <<>>]
                        EXCEPT ![t] = WithNote(@, n)]]]
  BY DEF Load
<1> DEFINE read == [u \in Topics |-> IF u \in index THEN topicFile[u] ELSE <<>>]
           notes == [read EXCEPT ![t] = WithNote(read[t], n)]
           p == [pc |-> "index", topic |-> t, note |-> n, index |-> Written(t), left |-> Written(t), notes |-> notes]
<1>2. agent' = [agent EXCEPT ![a] = p]
  BY <1>1, Zenon
<1>3. DurableTypes /\ UNCHANGED <<index, topicFile, kept>>
  BY DEF DurableInv, Load
<1>4. read \in [Topics -> Notes]
  BY <1>3 DEF DurableTypes, Notes
<1>5. /\ WithNote(read[t], n) \in Notes /\ Holds(WithNote(read[t], n), n)
      /\ \A k \in Facts : Holds(read[t], k) => Holds(WithNote(read[t], n), k)
  BY <1>4, WithNoteHolds
<1>6. notes \in [Topics -> Notes] /\ notes[t] = WithNote(read[t], n)
  BY <1>4, <1>5
<1>7. \A u \in Topics, k \in Facts : Holds(read[u], k) => Holds(notes[u], k)
  BY <1>4, <1>5
<1>8. \A u \in index : read[u] = topicFile[u]
  BY <1>3 DEF DurableTypes
<1>9. Written(t) \in SUBSET Topics /\ t \in Written(t) /\ index \subseteq Written(t)
  BY <1>3 DEF DurableTypes, Written
<1> HIDE DEF read, notes
<1>10. /\ agent' \in [Agents -> [pc : {"idle", "index", "topics"}, topic : Topics \cup {None}, note : Facts \cup {None},
                           index : SUBSET Topics, notes : [Topics -> Notes], left : SUBSET Topics]]
       /\ agent'[a] = p /\ \A b \in Agents \ {a} : agent'[b] = agent[b]
  BY <1>2, <1>3, <1>6, <1>9 DEF DurableTypes
<1>11. clashed' \in BOOLEAN /\ (~clashed' => ~clashed /\ \A b \in Agents : Idle(b))
  BY DEF Load, DurableInv, DurableTypes, Idle
<1>12. DurableTypes'
  BY <1>3, <1>10, <1>11 DEF DurableTypes, Idle
<1>13. ASSUME ~clashed' PROVE KeptInv' /\ \A b \in Agents : PromotionInv(b)'
  <2>1. KeptInv /\ \A b \in Agents : Idle(b)
    BY <1>11, <1>13 DEF DurableInv
  <2>2. KeptInv'
    BY <2>1, <1>3 DEF KeptInv
  <2>3. \A k \in kept : Holds(notes[k[1]], k[2])
    <3> SUFFICES ASSUME NEW k \in kept PROVE Holds(notes[k[1]], k[2])
      OBVIOUS
    <3>1. k[1] \in Topics /\ k[2] \in Facts /\ k[1] \in index /\ Holds(topicFile[k[1]], k[2])
      BY <2>1, <1>3 DEF KeptInv, DurableTypes
    <3>2. QED
      BY <3>1, <1>7, <1>8
  <2>4. ASSUME NEW b \in Agents \ {a} PROVE PromotionInv(b)'
    BY <2>1, <1>10 DEF PromotionInv, Idle
  <2>5. \A b \in Agents \ {a} : Idle(b)'
    BY <2>1, <1>10 DEF Idle
  <2>6. PromotionInv(a)'
    BY <2>3, <2>5, <1>3, <1>5, <1>6, <1>9, <1>10 DEF PromotionInv
  <2>7. QED
    BY <2>2, <2>4, <2>6
<1>14. QED
  BY <1>12, <1>13 DEF DurableInv

\* The index lists the topics before their files have the notes.
LEMMA WriteIndexStep ==
  ASSUME DurableInv, NEW a \in Agents, WriteIndex(a)
  PROVE  DurableInv'
<1>1. /\ DurableTypes /\ agent[a].pc = "index" /\ index' = agent[a].index
      /\ agent' = [agent EXCEPT ![a].pc = "topics"] /\ UNCHANGED <<topicFile, kept, clashed>>
  BY DEF DurableInv, WriteIndex
<1>2. /\ agent' \in [Agents -> [pc : {"idle", "index", "topics"}, topic : Topics \cup {None}, note : Facts \cup {None},
                           index : SUBSET Topics, notes : [Topics -> Notes], left : SUBSET Topics]]
      /\ agent'[a] = [agent[a] EXCEPT !.pc = "topics"] /\ \A b \in Agents \ {a} : agent'[b] = agent[b]
  BY <1>1, ZenonT(40) DEF DurableTypes
<1>3. DurableTypes'
  BY <1>1, <1>2, SMTT(30) DEF DurableTypes, Idle
<1>4. ASSUME ~clashed' PROVE KeptInv' /\ \A b \in Agents : PromotionInv(b)'
  <2>1. KeptInv /\ PromotionInv(a)
    BY <1>1, <1>4 DEF DurableInv
  <2>2. KeptInv'
    BY <2>1, <1>1 DEF KeptInv, PromotionInv
  <2>3. /\ agent'[a].pc = "topics" /\ agent'[a].topic = agent[a].topic /\ agent'[a].note = agent[a].note
        /\ agent'[a].index = agent[a].index /\ agent'[a].notes = agent[a].notes /\ agent'[a].left = agent[a].left
    BY <1>1, <1>2 DEF DurableTypes
  <2>4. \A b \in Agents \ {a} : Idle(b) /\ Idle(b)'
    BY <2>1, <1>1, <1>2 DEF PromotionInv, Idle
  <2>5. PromotionInv(a)'
    BY <2>1, <2>3, <2>4, <1>1 DEF PromotionInv
  <2>6. ASSUME NEW b \in Agents \ {a} PROVE PromotionInv(b)'
    BY <2>4 DEF PromotionInv, Idle
  <2>7. QED
    BY <2>2, <2>5, <2>6
<1>5. QED
  BY <1>3, <1>4 DEF DurableInv

\* A file that is written holds what is kept; the last one makes the note kept.
LEMMA WriteTopicStep ==
  ASSUME DurableInv, NEW a \in Agents, WriteTopic(a)
  PROVE  DurableInv'
<1> DEFINE p == agent[a]
           superseded == {k \in kept : ~(k[1] = p.topic /\ Subject[k[2]] # None /\ Subject[k[2]] = Subject[p.note])}
<1>1. PICK t \in p.left :
        /\ topicFile' = [topicFile EXCEPT ![t] = p.notes[t]]
        /\ IF p.left = {t}
           THEN /\ agent' = [agent EXCEPT ![a] = Quiet]
                /\ kept' = superseded \cup {<<p.topic, p.note>>}
           ELSE /\ agent' = [agent EXCEPT ![a].left = @ \ {t}]
                /\ UNCHANGED kept
  BY DEF WriteTopic
<1>2. DurableTypes /\ p.pc = "topics" /\ UNCHANGED <<index, clashed>>
  BY DEF DurableInv, WriteTopic
<1>3. p \in [pc : {"idle", "index", "topics"}, topic : Topics \cup {None}, note : Facts \cup {None},
             index : SUBSET Topics, notes : [Topics -> Notes], left : SUBSET Topics]
  BY <1>2 DEF DurableTypes
<1>4. /\ topicFile' \in [Topics -> Notes]
      /\ \A u \in Topics : topicFile'[u] = IF u = t THEN p.notes[u] ELSE topicFile[u]
  BY <1>1, <1>2, <1>3 DEF DurableTypes
<1>5. agent' \in [Agents -> [pc : {"idle", "index", "topics"}, topic : Topics \cup {None}, note : Facts \cup {None},
                           index : SUBSET Topics, notes : [Topics -> Notes], left : SUBSET Topics]]
  <2>1. CASE p.left = {t}
    BY <2>1, <1>1, <1>2, QuietType DEF DurableTypes
  <2>2. CASE p.left # {t}
    <3>1. agent' = [agent EXCEPT ![a].left = @ \ {t}]
      BY <2>2, <1>1
    <3>2. QED
      BY <3>1, <1>2, <1>3 DEF DurableTypes
  <2>3. QED
    BY <2>1, <2>2
<1>6. \A b \in Agents \ {a} : agent'[b] = agent[b]
  BY <1>1, <1>2 DEF DurableTypes
<1>7. kept' \subseteq kept \cup (IF p.left = {t} THEN {<<p.topic, p.note>>} ELSE {})
  BY <1>1
<1>8. DurableTypes'
  <2>1. <<p.topic, p.note>> \in Topics \X Facts
    BY <1>2 DEF DurableTypes, Idle
  <2>2. kept' \in SUBSET (Topics \X Facts)
    BY <2>1, <1>2, <1>7 DEF DurableTypes
  <2>3. ~Idle(a)' => agent'[a].topic = p.topic /\ agent'[a].note = p.note
    BY <1>1, <1>2, QuietType DEF DurableTypes, Idle
  <2>4. \A b \in Agents : ~Idle(b)' => agent'[b].topic \in Topics /\ agent'[b].note \in Facts
    BY <2>3, <1>2, <1>6 DEF DurableTypes, Idle
  <2>5. QED
    BY <2>2, <2>4, <1>2, <1>4, <1>5 DEF DurableTypes
<1>9. ASSUME ~clashed' PROVE KeptInv' /\ \A b \in Agents : PromotionInv(b)'
  <2>1. KeptInv /\ PromotionInv(a)
    BY <1>2, <1>9 DEF DurableInv
  <2>2. \A b \in Agents \ {a} : Idle(b) /\ Idle(b)'
    BY <2>1, <1>2, <1>6 DEF PromotionInv, Idle
  <2>3. \A b \in Agents \ {a} : PromotionInv(b)'
    BY <2>2 DEF PromotionInv, Idle
  <2>4. \A k \in kept : k[1] \in index /\ k[1] \in Topics /\ Holds(topicFile'[k[1]], k[2])
    <3> SUFFICES ASSUME NEW k \in kept PROVE k[1] \in index /\ k[1] \in Topics /\ Holds(topicFile'[k[1]], k[2])
      OBVIOUS
    <3>1. k[1] \in index /\ k[1] \in Topics /\ Holds(topicFile[k[1]], k[2]) /\ Holds(p.notes[k[1]], k[2])
      BY <2>1, <1>2 DEF KeptInv, PromotionInv, DurableTypes
    <3>2. QED
      BY <3>1, <1>4
  <2>5. index = p.index /\ p.topic \in index /\ p.topic \in Topics /\ \A u \in p.index \ {t} : u \in p.left \/ topicFile'[u] = p.notes[u]
    BY <2>1, <1>2, <1>4 DEF PromotionInv, DurableTypes, Idle
  <2>6. CASE p.left = {t}
    <3>1. topicFile'[p.topic] = p.notes[p.topic]
      BY <2>5, <2>6, <1>4
    <3>2. Holds(topicFile'[p.topic], p.note)
      BY <3>1, <2>1, <1>2 DEF PromotionInv
    <3>3. KeptInv'
      BY <3>2, <2>4, <2>5, <1>2, <1>7 DEF KeptInv
    <3>4. PromotionInv(a)'
      BY <2>6, <1>1, <1>2, QuietType DEF PromotionInv, DurableTypes
    <3>5. QED
      BY <2>3, <3>3, <3>4
  <2>7. CASE p.left # {t}
    <3>1. kept' = kept /\ agent' = [agent EXCEPT ![a].left = @ \ {t}]
      BY <2>7, <1>1
    <3>2. /\ agent'[a].pc = "topics" /\ agent'[a].topic = p.topic /\ agent'[a].note = p.note
          /\ agent'[a].index = p.index /\ agent'[a].notes = p.notes /\ agent'[a].left = p.left \ {t}
      BY <3>1, <1>2, <1>3 DEF DurableTypes
    <3>3. KeptInv'
      BY <3>1, <2>4, <1>2 DEF KeptInv
    <3>4. \A u \in p.index \ (p.left \ {t}) : topicFile'[u] = p.notes[u]
      BY <2>5, <1>3, <1>4
    <3>5. PromotionInv(a)'
      BY <3>1, <3>2, <3>4, <2>1, <2>2, <1>2 DEF PromotionInv
    <3>6. QED
      BY <2>3, <3>3, <3>5
  <2>8. QED
    BY <2>6, <2>7
<1>10. QED
  BY <1>8, <1>9 DEF DurableInv

\* A crash between two files leaves what is kept where it can be recalled.
LEMMA TearStep ==
  ASSUME DurableInv, Tear
  PROVE  DurableInv'
<1>1. /\ DurableTypes /\ kept' = kept /\ agent' = [a \in Agents |-> Quiet]
      /\ \/ UNCHANGED <<index, topicFile, clashed>>
         \/ clashed' = TRUE /\ index' \in SUBSET Topics
            /\ (topicFile' = topicFile \/ \E t \in Topics : topicFile' = [topicFile EXCEPT ![t] = <<>>])
  BY DEF DurableInv, Tear, DurableTypes
<1>2. topicFile' \in [Topics -> Notes] /\ index' \in SUBSET Topics /\ clashed' \in BOOLEAN
  <2>1. <<>> \in Notes
    BY DEF Notes
  <2>2. QED
    BY <2>1, <1>1 DEF DurableTypes
<1>3. \A a \in Agents : Idle(a)' /\ PromotionInv(a)'
  BY <1>1, QuietType DEF Idle, PromotionInv
<1>4. DurableTypes'
  BY <1>1, <1>2, <1>3, QuietType DEF DurableTypes
<1>5. ASSUME ~clashed' PROVE KeptInv'
  BY <1>1, <1>5 DEF DurableInv, KeptInv
<1>6. QED
  BY <1>3, <1>4, <1>5 DEF DurableInv

\* Every step keeps the invariant of the durable notes.
LEMMA DurableKept == DurableInv /\ [DurableNext]_durableVars => DurableInv'
<1> SUFFICES ASSUME DurableInv, [DurableNext]_durableVars PROVE DurableInv'
  OBVIOUS
<1>1. CASE UNCHANGED durableVars
  BY <1>1 DEF durableVars, DurableInv, DurableTypes, KeptInv, PromotionInv, Idle
<1>2. CASE DurableNext
  BY <1>2, LoadStep, WriteIndexStep, WriteTopicStep, TearStep DEF DurableNext
<1>3. QED
  BY <1>1, <1>2

\* A note once promoted can be recalled until a newer one about its subject takes
\* its place, also after a crash between two files: for any number of sessions,
\* topics, notes and crashes, while no two promotions overlap and no file is cut.
THEOREM NotesKept == DurableSpec => []DurableNotesKept
<1>1. DurableInv => DurableNotesKept
  BY DEF DurableInv, KeptInv, Holds, DurableNotesKept
<1>2. QED
  BY <1>1, DurableStart, DurableKept, PTL DEF DurableSpec

-----------------------------------------------------------------------------
(* Grounding                                                                *)

Request ==
  [message : Query, at : {"idle", "reach", "paper", "quick", "search", "notes", "preview", "start", "run"},
   roots : SUBSET GrantRoots, files : SUBSET Papers, row : Papers \cup {NoPaper}, paper : Papers \cup {NoPaper},
   match : SUBSET Papers, hits : SUBSET Papers, strong : BOOLEAN, notes : BOOLEAN]

GroundTypes ==
  /\ granted \in SUBSET GrantRoots /\ indexed \in SUBSET Papers /\ attached \in SUBSET Papers
  /\ tied \in Papers \cup {NoPaper} /\ project \in BOOLEAN
  /\ selection \in [held : BOOLEAN, where : SUBSET Papers]
  /\ ask \in Request /\ allowed \in SUBSET Papers

\* Whatever a request has read of grants, attachments and selections was allowed.
AllowedInv ==
  ask.at # "idle" =>
    /\ {d \in Papers : Covered(d)} \subseteq allowed /\ attached \subseteq allowed
    /\ {d \in Papers : RootOf[d] \in ask.roots} \subseteq allowed
    /\ ask.message.brings \cup ask.files \cup ask.match \cup ask.hits \subseteq allowed

\* Strong evidence about a chosen document is of that document.
EvidenceInv ==
  ask.at \in {"notes", "preview", "start"} =>
    /\ ask.strong => ask.hits # {}
    /\ ask.paper # NoPaper /\ ~ask.message.quick /\ (ask.at # "start" \/ ask.strong) => ask.hits \subseteq {ask.paper}

GroundInv == GroundTypes /\ AllowedInv /\ EvidenceInv /\ AnswersAreGrounded

\* A new request, and what is between two.
LEMMA UnreadType ==
  /\ \A m \in Query : Unread(m) \in Request
  /\ Waiting \in Request /\ Waiting.at = "idle"
<1>1. \A m \in Query : Unread(m) \in Request
  BY DEF Unread, Request
<1>2. (CHOOSE m \in Queries : TRUE) \in Query
  BY GroundAssumption
<1> HIDE DEF Request
<1>3. QED
  BY <1>1, <1>2 DEF Waiting, Unread

\* Before the first question the invariant of the evidence holds.
LEMMA GroundStart == GroundInit => GroundInv
BY UnreadType, GroundAssumption
   DEF GroundInit, GroundInv, GroundTypes, AllowedInv, EvidenceInv, AnswersAreGrounded, NoSelection

\* What lies in reach is allowed.
LEMMA ReachAllowed == GroundInv /\ ask.at # "idle" => Reach \subseteq allowed /\ Reach \subseteq Papers
BY DEF GroundInv, GroundTypes, AllowedInv, Reach

\* A refused request, or one that Poppy answers by itself
LEMMA RefuseStep ==
  ASSUME GroundInv, ask' = Waiting, UNCHANGED <<granted, attached, project, selection, allowed>>,
         indexed' \in SUBSET Papers, tied' \in Papers \cup {NoPaper}
  PROVE  GroundInv'
BY UnreadType DEF GroundInv, GroundTypes, AllowedInv, EvidenceInv, AnswersAreGrounded

\* A step of a request before its evidence is looked for
LEMMA EarlyStep ==
  ASSUME GroundInv, UNCHANGED <<granted, attached, project, selection, allowed>>,
         indexed' \in SUBSET Papers, tied' \in Papers \cup {NoPaper},
         ask.at # "idle", ask' \in Request, ask'.at \in {"paper", "quick", "search"},
         ask'.message = ask.message, ask'.hits = ask.hits,
         {d \in Papers : RootOf[d] \in ask'.roots} \cup ask'.files \cup ask'.match \subseteq allowed
  PROVE  GroundInv'
BY DEF GroundInv, GroundTypes, AllowedInv, EvidenceInv, AnswersAreGrounded, Covered

\* The message and its reach.
LEMMA MessageStep ==
  ASSUME GroundInv, ReadReach \/ ChoosePaper \/ \E m \in Queries : Pose(m)
  PROVE  GroundInv'
<1>0. /\ ask \in Request /\ indexed \in SUBSET Papers /\ attached \in SUBSET Papers
      /\ granted \in SUBSET GrantRoots /\ tied \in Papers \cup {NoPaper}
  BY DEF GroundInv, GroundTypes
<1>1. ASSUME NEW m \in Queries, Pose(m) PROVE GroundInv'
  <2>1. m \in Query /\ Unread(m) \in Request
    BY UnreadType, GroundAssumption
  <2>2. ask' = [Unread(m) EXCEPT !.at = "reach", !.row = tied] /\ ask' \in Request
    BY <1>0, <1>1, <2>1 DEF Pose, Request
  <2>3. /\ ask'.at = "reach" /\ ask'.message = m /\ ask'.roots = {} /\ ask'.files = {}
        /\ ask'.match = {} /\ ask'.hits = {}
    BY <2>2 DEF Unread
  <2>4. m.brings \in SUBSET Papers
    BY <2>1 DEF Query
  <2>5. QED
    BY <1>1, <2>2, <2>3, <2>4
    DEF Pose, Covered, GroundInv, GroundTypes, AllowedInv, EvidenceInv, AnswersAreGrounded
<1>2. CASE ReadReach
  <2>1. UNCHANGED <<granted, indexed, attached, tied, project, selection, allowed>> /\ ask.at = "reach"
    BY <1>2 DEF ReadReach
  <2>2. ASSUME NEW roots \in SUBSET granted, ask' = [ask EXCEPT !.at = "paper", !.files = attached, !.roots = roots]
        PROVE  GroundInv'
    <3>1. /\ ask' \in Request /\ ask'.at = "paper" /\ ask'.message = ask.message /\ ask'.hits = ask.hits
          /\ ask'.roots = roots /\ ask'.files = attached /\ ask'.match = ask.match
      BY <1>0, <2>2 DEF Request
    <3>2. {d \in Papers : RootOf[d] \in roots} \cup attached \cup ask.match \subseteq allowed
      BY <2>1, <2>2 DEF GroundInv, AllowedInv, Covered
    <3>3. QED
      BY <1>0, <2>1, <3>1, <3>2, EarlyStep
  <2>3. CASE ask' = [ask EXCEPT !.at = "paper", !.files = attached]
    <3>1. /\ ask' \in Request /\ ask'.at = "paper" /\ ask'.message = ask.message /\ ask'.hits = ask.hits
          /\ ask'.roots = ask.roots /\ ask'.files = attached /\ ask'.match = ask.match
      BY <1>0, <2>3 DEF Request
    <3>2. {d \in Papers : RootOf[d] \in ask.roots} \cup attached \cup ask.match \subseteq allowed
      BY <2>1 DEF GroundInv, AllowedInv
    <3>3. QED
      BY <1>0, <2>1, <3>1, <3>2, EarlyStep
  <2>4. CASE Refuse
    BY <1>0, <2>1, <2>4, RefuseStep DEF Refuse
  <2>5. CASE ask' = [ask EXCEPT !.at = "paper", !.files = attached, !.roots = granted]
    BY <2>2, <2>5
  <2>6. CASE Workspace \in granted /\ ask' = [ask EXCEPT !.at = "paper", !.files = attached, !.roots = {Workspace}]
    <3>1. {Workspace} \in SUBSET granted
      BY <2>6
    <3>2. QED
      BY <2>2, <2>6, <3>1
  <2>7. QED
    BY <1>2, <2>3, <2>4, <2>5, <2>6 DEF ReadReach
<1>3. CASE ChoosePaper
  <2>1. UNCHANGED <<granted, attached, project, selection, allowed>> /\ ask.at = "paper" /\ ask.message \in Query
    BY <1>0, <1>3 DEF ChoosePaper, Request
  <2>2. /\ ask.message.path \in Papers \cup {NoPaper} /\ ask.message.mentions \in Papers \cup {NoPaper}
        /\ ask.row \in Papers \cup {NoPaper}
    BY <1>0, <2>1 DEF Query, Request
  <2>3. indexed' \in SUBSET Papers /\ tied' \in Papers \cup {NoPaper}
    BY <1>0, <1>3, <2>2 DEF ChoosePaper
  <2>4. ASSUME NEW d \in Papers \cup {NoPaper}, ask' = [ask EXCEPT !.at = "quick", !.paper = d]
        PROVE  GroundInv'
    <3>1. /\ ask' \in Request /\ ask'.at = "quick" /\ ask'.message = ask.message /\ ask'.hits = ask.hits
          /\ ask'.roots = ask.roots /\ ask'.files = ask.files /\ ask'.match = ask.match
      BY <1>0, <2>4 DEF Request
    <3>2. {e \in Papers : RootOf[e] \in ask.roots} \cup ask.files \cup ask.match \subseteq allowed
      BY <2>1 DEF GroundInv, AllowedInv
    <3>3. QED
      BY <2>1, <2>3, <3>1, <3>2, EarlyStep
  <2>5. CASE ask' = Waiting
    BY <2>1, <2>3, <2>5, RefuseStep
  <2>6. \/ ask' = Waiting
        \/ \E d \in Papers \cup {NoPaper} : ask' = [ask EXCEPT !.at = "quick", !.paper = d]
    BY <1>3, <2>2 DEF ChoosePaper, Refuse
  <2>7. QED
    BY <2>4, <2>5, <2>6
<1>4. QED
  BY <1>1, <1>2, <1>3

\* The selection: what was located in a granted document, or is in reach.
LEMMA SelectionStep ==
  ASSUME GroundInv, ReadSelection
  PROVE  GroundInv'
<1>1. /\ UNCHANGED <<granted, indexed, attached, project, selection, allowed>> /\ ask.at = "quick"
      /\ ask \in Request /\ indexed \in SUBSET Papers /\ tied \in Papers \cup {NoPaper}
      /\ selection.where \in SUBSET Papers
  BY DEF ReadSelection, GroundInv, GroundTypes
<1>2. {d \in Papers : RootOf[d] \in ask.roots} \cup ask.files \cup ask.match \subseteq allowed
  BY <1>1 DEF GroundInv, AllowedInv
<1>3. CASE ~ask.message.quick
  <2>1. ask' = [ask EXCEPT !.at = "search"] /\ tied' = tied
    BY <1>3 DEF ReadSelection, Goes
  <2>2. /\ ask' \in Request /\ ask'.at = "search" /\ ask'.message = ask.message /\ ask'.hits = ask.hits
        /\ ask'.roots = ask.roots /\ ask'.files = ask.files /\ ask'.match = ask.match
    BY <1>1, <2>1 DEF Request
  <2>3. QED
    BY <1>1, <1>2, <2>1, <2>2, EarlyStep
<1>4. CASE ask.message.quick /\ ~selection.held
  BY <1>1, <1>4, RefuseStep DEF ReadSelection, Refuse
<1>5. CASE ask.message.quick /\ selection.held
  <2>1. PICK match \in {CapturedMatch} \cup (IF ask.files = {} THEN {} ELSE {{d} : d \in Reach}) :
          LET there == match \cap indexed
          IN  /\ ask' = [ask EXCEPT !.at = "search", !.match = match,
                           !.paper = IF there = {} THEN @ ELSE CHOOSE d \in there : TRUE]
              /\ tied' = IF there = {} THEN tied ELSE CHOOSE d \in there : TRUE
    BY <1>5 DEF ReadSelection
  <2>2. match \subseteq allowed /\ match \subseteq Papers
    <3>1. CapturedMatch \subseteq allowed /\ CapturedMatch \subseteq Papers
      BY <1>1 DEF CapturedMatch, GroundInv, AllowedInv
    <3>2. Reach \subseteq allowed /\ Reach \subseteq Papers
      BY <1>1, ReachAllowed
    <3>3. QED
      BY <2>1, <3>1, <3>2
  <2> DEFINE there == match \cap indexed
             d == IF there = {} THEN ask.paper ELSE CHOOSE e \in there : TRUE
  <2>3. ask' = [ask EXCEPT !.at = "search", !.match = match, !.paper = d]
    BY <2>1
  <2>4. d \in Papers \cup {NoPaper} /\ tied' \in Papers \cup {NoPaper}
    BY <1>1, <2>1, <2>2 DEF Request
  <2> HIDE DEF d
  <2>5. /\ ask' \in Request /\ ask'.at = "search" /\ ask'.message = ask.message /\ ask'.hits = ask.hits
        /\ ask'.roots = ask.roots /\ ask'.files = ask.files /\ ask'.match = match
    BY <1>1, <2>2, <2>3, <2>4 DEF Request
  <2>6. QED
    BY <1>1, <1>2, <2>2, <2>4, <2>5, EarlyStep
<1>6. QED
  BY <1>3, <1>4, <1>5

\* What a search may return is allowed, and of the chosen document.
LEMMA SearchAllowed ==
  ASSUME GroundInv, ask.at = "search", NEW hits \in SearchFor
  PROVE  /\ hits \subseteq allowed /\ hits \subseteq Papers
         /\ ask.paper # NoPaper /\ ~ask.message.quick => hits \subseteq {ask.paper}
<1>1. Reach \subseteq allowed /\ Reach \subseteq Papers
  BY ReachAllowed
<1>2. ask.match \subseteq allowed /\ ask.match \subseteq Papers
  BY DEF GroundInv, AllowedInv, GroundTypes, Request
<1>3. CASE ask.message.quick
  BY <1>1, <1>2, <1>3 DEF SearchFor
<1>4. CASE ~ask.message.quick
  BY <1>1, <1>4 DEF SearchFor
<1>5. QED
  BY <1>3, <1>4

\* The evidence is allowed until the agent has it.
LEMMA EvidenceStep ==
  ASSUME GroundInv, FindEvidence \/ ReadNotes \/ Preview
  PROVE  GroundInv'
<1>0. /\ ask \in Request /\ ask.at # "idle" /\ ask.message \in Query /\ ask.message.brings \in SUBSET Papers
      /\ UNCHANGED <<granted, indexed, attached, tied, project, selection, allowed>>
  BY DEF GroundInv, GroundTypes, Request, Query, FindEvidence, ReadNotes, Preview
<1>1. ASSUME ask' \in Request, ask'.at # "idle", ask'.at # "run", ask'.message = ask.message,
             ask'.roots = ask.roots, ask'.files = ask.files, ask'.match \subseteq ask.match,
             ask'.hits \subseteq allowed, EvidenceInv'
      PROVE  GroundInv'
  BY <1>0, <1>1 DEF GroundInv, GroundTypes, AllowedInv, AnswersAreGrounded, Covered
<1>2. CASE FindEvidence
  <2>1. PICK hits \in SearchFor, strong \in BOOLEAN :
          ask' = [ask EXCEPT !.at = "notes", !.hits = hits, !.strong = strong /\ hits # {}, !.row = NoPaper, !.match = {}]
    BY <1>2 DEF FindEvidence
  <2>2. /\ hits \subseteq allowed /\ hits \subseteq Papers
        /\ ask.paper # NoPaper /\ ~ask.message.quick => hits \subseteq {ask.paper}
    BY <1>2, SearchAllowed DEF FindEvidence
  <2>3. /\ ask' \in Request /\ ask'.at = "notes" /\ ask'.message = ask.message /\ ask'.paper = ask.paper
        /\ ask'.roots = ask.roots /\ ask'.files = ask.files /\ ask'.match = {} /\ ask'.hits = hits
        /\ ask'.strong => hits # {}
    BY <1>0, <2>1, <2>2 DEF Request
  <2>4. EvidenceInv'
    BY <2>2, <2>3 DEF EvidenceInv
  <2>5. QED
    BY <1>1, <2>2, <2>3, <2>4
<1>3. CASE ReadNotes
  <2>1. PICK notes \in BOOLEAN : ask' = [ask EXCEPT !.at = "preview", !.notes = notes]
    BY <1>3 DEF ReadNotes
  <2>2. /\ ask' \in Request /\ ask'.at = "preview" /\ ask'.message = ask.message /\ ask'.paper = ask.paper
        /\ ask'.roots = ask.roots /\ ask'.files = ask.files /\ ask'.match = ask.match /\ ask'.hits = ask.hits
        /\ ask'.strong = ask.strong /\ ask.at = "notes"
    BY <1>0, <1>3, <2>1 DEF Request, ReadNotes
  <2>3. EvidenceInv' /\ ask.hits \subseteq allowed
    BY <1>0, <2>2 DEF EvidenceInv, AllowedInv, GroundInv
  <2>4. QED
    BY <1>1, <2>2, <2>3
<1>4. CASE Preview
  <2> DEFINE hits == IF ask.hits # {} THEN ask.hits ELSE ask.message.brings \cap indexed
  <2>1. ask' = [ask EXCEPT !.at = "start", !.hits = hits] /\ ask.at = "preview"
    BY <1>4 DEF Preview
  <2>2. hits \subseteq allowed /\ hits \subseteq Papers /\ (ask.strong => hits = ask.hits)
    BY <1>0, <2>1 DEF GroundInv, GroundTypes, AllowedInv, EvidenceInv, Request
  <2> HIDE DEF hits
  <2>3. /\ ask' \in Request /\ ask'.at = "start" /\ ask'.message = ask.message /\ ask'.paper = ask.paper
        /\ ask'.roots = ask.roots /\ ask'.files = ask.files /\ ask'.match = ask.match /\ ask'.hits = hits
        /\ ask'.strong = ask.strong
    BY <1>0, <2>1, <2>2 DEF Request
  <2>4. EvidenceInv'
    BY <2>1, <2>2, <2>3 DEF EvidenceInv, GroundInv
  <2>5. QED
    BY <1>1, <2>2, <2>3, <2>4
<1>5. QED
  BY <1>2, <1>3, <1>4

\* The agent is started with evidence that will do, or Poppy answers by itself.
LEMMA AnswerStep ==
  ASSUME GroundInv, StartAnswer
  PROVE  GroundInv'
<1>1. /\ ask \in Request /\ ask.at = "start"
      /\ UNCHANGED <<granted, indexed, attached, tied, project, selection, allowed>>
      /\ indexed \in SUBSET Papers /\ tied \in Papers \cup {NoPaper}
  BY DEF GroundInv, GroundTypes, StartAnswer
<1>2. CASE ask' = Waiting
  BY <1>1, <1>2, RefuseStep
<1>3. ASSUME NEW hits \in SUBSET allowed, hits \subseteq Papers, ask' = [Started EXCEPT !.hits = hits],
             ask.paper # NoPaper /\ ~ask.message.quick =>
               hits \subseteq {ask.paper} /\ (~ask.message.full => hits # {})
      PROVE  GroundInv'
  <2>1. /\ ask' \in Request /\ ask'.at = "run" /\ ask'.message = ask.message /\ ask'.paper = ask.paper
        /\ ask'.roots = {} /\ ask'.files = {} /\ ask'.match = ask.match /\ ask'.hits = hits
    BY <1>1, <1>3 DEF Started, Request
  <2>2. AnswersAreGrounded'
    BY <1>1, <1>3, <2>1 DEF AnswersAreGrounded
  <2>3. QED
    BY <1>1, <1>3, <2>1, <2>2 DEF GroundInv, GroundTypes, AllowedInv, EvidenceInv, Covered
<1>4. CASE ask.message.full /\ ask' = [Started EXCEPT !.hits = {ask.paper} \cap Reach]
  <2>1. {ask.paper} \cap Reach \subseteq allowed /\ {ask.paper} \cap Reach \subseteq Papers
    BY <1>1, ReachAllowed
  <2>2. QED
    BY <1>3, <1>4, <2>1
<1>5. CASE ~ask.message.full /\ ~LacksEvidence /\ ask' = Started
  <2>1. ask' = [Started EXCEPT !.hits = ask.hits]
    BY <1>1, <1>5 DEF Started, Request
  <2>2. ask.paper # NoPaper /\ ~ask.message.quick => ask.hits \subseteq {ask.paper} /\ ask.hits # {}
    BY <1>1, <1>5 DEF LacksEvidence, EvidenceSufficient, GroundInv, EvidenceInv
  <2>3. ask.hits \subseteq allowed /\ ask.hits \subseteq Papers
    BY <1>1 DEF GroundInv, AllowedInv, Request
  <2>4. QED
    BY <1>3, <2>1, <2>2, <2>3
<1>6. QED
  BY <1>2, <1>4, <1>5 DEF StartAnswer

\* Grants, scans and selections leave a request alone; a new grant is allowed.
LEMMA MeanwhileStep ==
  ASSUME GroundInv,
         \/ CaptureSelection \/ SelectionExpires
         \/ \E r \in GrantRoots : Grant(r) \/ Revoke(r)
         \/ \E d \in Papers : DropPaper(d)
  PROVE  GroundInv'
<1> USE DEF GroundInv, GroundTypes, AllowedInv, EvidenceInv, AnswersAreGrounded, Covered
<1>1. CASE CaptureSelection
  BY <1>1 DEF CaptureSelection
<1>2. CASE SelectionExpires
  BY <1>2 DEF SelectionExpires, NoSelection
<1>3. ASSUME NEW r \in GrantRoots, Grant(r) PROVE GroundInv'
  BY <1>3 DEF Grant, MayChange
<1>4. ASSUME NEW r \in GrantRoots, Revoke(r) PROVE GroundInv'
  BY <1>4 DEF Revoke, MayChange
<1>5. ASSUME NEW d \in Papers, DropPaper(d) PROVE GroundInv'
  BY <1>5 DEF DropPaper, MayChange
<1> HIDE DEF GroundInv
<1>6. QED
  BY <1>1, <1>2, <1>3, <1>4, <1>5

\* Every step keeps the invariant of the evidence.
LEMMA GroundKept == GroundInv /\ [GroundNext]_groundVars => GroundInv'
<1> SUFFICES ASSUME GroundInv, [GroundNext]_groundVars PROVE GroundInv'
  OBVIOUS
<1>1. CASE UNCHANGED groundVars
  BY <1>1 DEF groundVars, GroundInv, GroundTypes, AllowedInv, EvidenceInv, AnswersAreGrounded, Covered
<1>2. CASE GroundNext
  BY <1>2, MessageStep, SelectionStep, EvidenceStep, AnswerStep, MeanwhileStep DEF GroundNext
<1>3. QED
  BY <1>1, <1>2

\* The agent is started only with pieces the user had let it read, and about a
\* chosen document only with pieces of that document: for any documents, folders
\* and messages, and whatever is granted, revoked and indexed meanwhile.
THEOREM EvidenceAllowed == GroundSpec => []AnswersAreGrounded
<1>1. GroundInv => AnswersAreGrounded
  BY DEF GroundInv
<1>2. QED
  BY <1>1, GroundStart, GroundKept, PTL DEF GroundSpec

-----------------------------------------------------------------------------
(* Retrieval                                                                *)

ChunkIds == Docs \X Nat \X (Nat \ {0})
SearchPlaces == {"idle", "words", "vectors", "meaning", "rank", "filter", "locate", "done"}
Ranking == {"vectors", "meaning", "rank", "filter"}

IndexerTypes ==
  /\ cut \in [Docs -> Nat] /\ owner \in [Docs -> Folders] /\ moves \in Nat
  /\ stored \in [Docs -> [version : Nat, source : Folders]]
  /\ \A d \in Docs : d \in Under(owner[d])

SearchType ==
  search \in [question : {search.question}, at : SearchPlaces, sources : SUBSET Folders,
              docs : SUBSET Docs, words : Seq(ChunkIds), matches : Seq(ChunkIds),
              meaning : Seq(ChunkIds), ranked : Seq(ChunkIds), rows : Seq(ChunkIds),
              context : Seq(ChunkIds), still : BOOLEAN]

(* What a search is limited to, which the index it was asked of decided.     *)
ScopeOK ==
  search.at # "idle" =>
    /\ Asked \in Questions /\ search.sources = AuthorizedSources(Asked)
    /\ search.docs \subseteq Asked.docs
    /\ Asked.kind \in {"document", "locked"} => search.docs = Asked.docs
    /\ Asked.kind \in {"all", "selection"} => search.docs = {}
    /\ Asked.kind = "notebook" /\ search.docs = {} => Done /\ search.rows = <<>> /\ search.context = <<>>
    /\ search.still => search.docs = ScopeDocs(Asked)

Limited(list) == search.docs # {} => \A i \in DOMAIN list : list[i][1] \in search.docs
Allowed(list) == \A i \in DOMAIN list : DocumentAuthorized(Asked, list[i][1])

(* Every list of the search keeps to its documents; no text is selected twice, *)
(* and what is handed out was allowed.                                       *)
ListsOK ==
  /\ Limited(search.words) /\ Limited(search.matches) /\ Limited(search.meaning)
  /\ Limited(search.ranked) /\ Limited(search.rows) /\ Limited(search.context)
  /\ \A i, j \in DOMAIN search.ranked : i < j => Fingerprint(search.ranked[i]) # Fingerprint(search.ranked[j])
  /\ search.at \in {"locate", "done"} => Allowed(search.rows) /\ Allowed(search.context)
  /\ search.at = "locate" => Asked.kind = "selection"
  /\ ~Done => search.context = <<>>
  /\ Done => \A i, j \in DOMAIN search.rows : i < j => TextOf(search.rows[i]) # TextOf(search.rows[j])

(* What the readings have found, while the index does not change.           *)
WordsRead == \A p \in InIndex : InWords(p) => ChunkOf(p) \in ToSet(search.words)
VectorsRead ==
  search.matches = <<>> \/ \A p \in WithVectors : Among(Asked.meaning, WithVectors, VectorLimit, p) =>
                             <<p[1], stored[p[1]].version, p[2]>> \in ToSet(search.matches)
MeaningRead ==
  \A p \in InIndex : VectorsSpeak(p[1]) /\ InMeaning(p) => ChunkOf(p) \in ToSet(search.meaning)

ReadingsOK ==
  search.still =>
    /\ search.at \in Ranking => WordsRead
    /\ search.at \in Ranking \ {"vectors"} => VectorsRead
    /\ search.at \in {"rank", "filter"} => MeaningRead

(* What is found is selected, or its text is, or its document has its share, *)
(* or others score as high.                                                  *)
SelectionOK ==
  search.at = "filter" =>
    \/ Len(search.ranked) >= Asked.limit
    \/ \A c \in Found : Outscored(c[1]) \/ Shown(search.ranked, c) \/ HasShare(search.ranked, c[1])

RetrievalInv ==
  IndexerTypes /\ SearchType /\ ScopeOK /\ ListsOK /\ ReadingsOK /\ SelectionOK /\ NothingLeftOut

-----------------------------------------------------------------------------
(* Its lists                                                                *)

\* The elements of a list.
LEMMA Elements ==
  ASSUME NEW A, NEW list \in Seq(A)
  PROVE  /\ Len(list) \in Nat /\ DOMAIN list = 1 .. Len(list)
         /\ ToSet(list) = {list[i] : i \in 1 .. Len(list)}
         /\ ToSet(list) \subseteq A
BY LenProperties, ElementOfSeq DEF ToSet

\* What Filter leaves of a list, as sets.
LEMMA Filtered ==
  ASSUME NEW A, NEW list \in Seq(A), NEW S
  PROVE  Filter(list, S) \in Seq(A) /\ ToSet(Filter(list, S)) = ToSet(list) \cap S
<1> DEFINE rest == Filter(list, S)
<1>1. /\ rest \in Seq(A)
      /\ \A i \in 1 .. Len(rest) : rest[i] \in S /\ \E j \in 1 .. Len(list) : rest[i] = list[j]
      /\ \A j \in 1 .. Len(list) : list[j] \in S => \E i \in 1 .. Len(rest) : rest[i] = list[j]
  BY FilterMembers
<1> HIDE DEF rest
<1>2. ToSet(rest) = {rest[i] : i \in 1 .. Len(rest)} /\ ToSet(list) = {list[i] : i \in 1 .. Len(list)}
  BY <1>1, Elements
<1>3. QED
  BY <1>1, <1>2, ZenonT(40) DEF rest

\* The first elements of a list.
LEMMA FirstOK ==
  ASSUME NEW A, NEW list \in Seq(A), NEW n \in Nat
  PROVE  First(list, n) \in Seq(A) /\ ToSet(First(list, n)) \subseteq ToSet(list)
<1> DEFINE first == First(list, n)
           m == IF n < Len(list) THEN n ELSE Len(list)
<1>1. Len(list) \in Nat /\ m \in Nat /\ m <= Len(list)
  BY LenProperties
<1>2. first = SubSeq(list, 1, m)
  BY DEF First
<1> HIDE DEF m, first
<1>3. \A i \in 1 .. m : list[i] \in A
  BY <1>1, ElementOfSeq
<1>4. /\ first \in Seq(A)
      /\ Len(first) = IF 1 <= m THEN m - 1 + 1 ELSE 0
      /\ \A i \in 1 .. m - 1 + 1 : first[i] = list[1 + i - 1]
  BY <1>1, <1>2, <1>3, SubSeqProperties
<1>5. \A i \in 1 .. Len(first) : first[i] = list[i] /\ i \in 1 .. Len(list)
  BY <1>1, <1>4
<1>6. /\ ToSet(first) = {first[i] : i \in 1 .. Len(first)}
      /\ ToSet(list) = {list[i] : i \in 1 .. Len(list)}
  BY <1>4, Elements
<1>7. QED
  BY <1>4, <1>5, <1>6 DEF first

\* A piece among the best of a list is in the list, and among the best of its
\* pieces in a scope that has it.
LEMMA AmongOK ==
  ASSUME NEW A, NEW list \in Seq(A), NEW scope, NEW n \in Nat, NEW p, Among(list, scope, n, p)
  PROVE  /\ p \in ToSet(list)
         /\ p \in scope => p \in ToSet(First(Filter(list, scope), n))
<1> DEFINE hits == Filter(list, scope \cup {p})
<1>1. hits \in Seq(A) /\ ToSet(hits) \subseteq ToSet(list)
  BY Filtered
<1>2. p \in ToSet(First(hits, n))
  BY DEF Among
<1>3. p \in scope => scope \cup {p} = scope
  OBVIOUS
<1>4. p \in scope => hits = Filter(list, scope)
  BY <1>3
<1> HIDE DEF hits
<1>5. ToSet(First(hits, n)) \subseteq ToSet(hits)
  BY <1>1, FirstOK
<1>6. QED
  BY <1>1, <1>2, <1>4, <1>5

\* How many chunks a version of a document has.
LEMMA SizeOK ==
  ASSUME NEW d \in Docs, NEW v \in Nat
  PROVE  Size(d, v) \in Nat
BY RetrievalConstants DEF Size

\* A list of pieces read as chunks.
LEMMA ChunksInOK ==
  ASSUME IndexerTypes, NEW list \in Seq(Docs \X Nat)
  PROVE  /\ ChunksIn(list) \in Seq(ChunkIds)
         /\ Limited(ChunksIn(list))
         /\ \A p \in ToSet(list) \cap InIndex : ChunkOf(p) \in ToSet(ChunksIn(list))
<1> DEFINE hits == Filter(list, InIndex)
           ids == [i \in 1 .. Len(hits) |-> ChunkOf(hits[i])]
<1>1. hits \in Seq(Docs \X Nat) /\ ToSet(hits) = ToSet(list) \cap InIndex
  BY Filtered
<1> HIDE DEF hits
<1>2. Len(hits) \in Nat /\ DOMAIN hits = 1 .. Len(hits) /\ ToSet(hits) = {hits[i] : i \in 1 .. Len(hits)}
  BY <1>1, Elements
<1>3. ChunksIn(list) = ids
  BY <1>2 DEF ChunksIn, hits
<1>4. \A i \in 1 .. Len(hits) : hits[i] \in Docs \X Nat
  BY <1>1, ElementOfSeq
<1>5. ASSUME NEW i \in 1 .. Len(hits)
      PROVE  ChunkOf(hits[i]) \in ChunkIds
  <2>1. hits[i] \in InIndex
    BY <1>1, <1>2
  <2>2. PICK d \in Docs : hits[i] \in {d} \X (1 .. Size(d, cut[d]))
    BY <2>1 DEF InIndex
  <2>3. Size(d, cut[d]) \in Nat /\ cut[d] \in Nat
    BY SizeOK DEF IndexerTypes
  <2>4. QED
    BY <2>2, <2>3 DEF ChunkOf, ChunkIds
<1>6. ids \in Seq(ChunkIds)
  BY <1>2, <1>5
<1>7. DOMAIN ids = 1 .. Len(hits) /\ \A i \in 1 .. Len(hits) : ids[i] = ChunkOf(hits[i])
  OBVIOUS
<1> HIDE DEF ids
<1>8. Limited(ids)
  <2> SUFFICES ASSUME search.docs # {}, NEW i \in 1 .. Len(hits)
               PROVE  ids[i][1] \in search.docs
    BY <1>7 DEF Limited
  <2>1. hits[i] \in InIndex
    BY <1>1, <1>2
  <2>2. PICK d \in Docs : InScope(d, owner[d]) /\ hits[i] \in {d} \X (1 .. Size(d, cut[d]))
    BY <2>1 DEF InIndex
  <2>3. d \in search.docs
    BY <2>2 DEF InScope
  <2>4. QED
    BY <1>7, <2>2, <2>3 DEF ChunkOf
<1>9. \A p \in ToSet(list) \cap InIndex : ChunkOf(p) \in ToSet(ids)
  <2> SUFFICES ASSUME NEW p \in ToSet(list) \cap InIndex
               PROVE  ChunkOf(p) \in ToSet(ids)
    OBVIOUS
  <2>1. PICK i \in 1 .. Len(hits) : p = hits[i]
    BY <1>1, <1>2
  <2>2. QED
    BY <1>7, <2>1 DEF ToSet
<1>10. QED
  BY <1>3, <1>6, <1>8, <1>9

\* The matches of the vectors.
LEMMA MatchesOK ==
  ASSUME IndexerTypes, Asked.meaning \in Seq(Docs \X Nat)
  PROVE  /\ Matches \in Seq(ChunkIds)
         /\ Limited(Matches)
         /\ \A p \in WithVectors : Among(Asked.meaning, WithVectors, VectorLimit, p) =>
              <<p[1], stored[p[1]].version, p[2]>> \in ToSet(Matches)
<1> DEFINE all == Filter(Asked.meaning, WithVectors)
           hits == First(all, VectorLimit)
           Of(p) == <<p[1], stored[p[1]].version, p[2]>>
           ids == [i \in 1 .. Len(hits) |-> Of(hits[i])]
<1>0. all \in Seq(Docs \X Nat) /\ ToSet(all) = ToSet(Asked.meaning) \cap WithVectors
  BY Filtered
<1> HIDE DEF all
<1>1. hits \in Seq(Docs \X Nat) /\ ToSet(hits) \subseteq WithVectors
  BY <1>0, FirstOK, RetrievalConstants
<1>11. \A p \in WithVectors : Among(Asked.meaning, WithVectors, VectorLimit, p) => p \in ToSet(hits)
  BY AmongOK, RetrievalConstants DEF all
<1> HIDE DEF hits
<1>2. Len(hits) \in Nat /\ DOMAIN hits = 1 .. Len(hits) /\ ToSet(hits) = {hits[i] : i \in 1 .. Len(hits)}
  BY <1>1, Elements
<1>3. Matches = ids
  BY <1>2 DEF Matches, hits, all, Asked
<1>4. \A i \in 1 .. Len(hits) : hits[i] \in Docs \X Nat
  BY <1>1, ElementOfSeq
<1>5. ASSUME NEW i \in 1 .. Len(hits)
      PROVE  Of(hits[i]) \in ChunkIds
  <2>1. hits[i] \in WithVectors
    BY <1>1, <1>2
  <2>2. PICK d \in Docs : hits[i] \in {d} \X (1 .. Size(d, stored[d].version))
    BY <2>1 DEF WithVectors
  <2>3. Size(d, stored[d].version) \in Nat /\ stored[d].version \in Nat
    BY SizeOK DEF IndexerTypes
  <2>4. QED
    BY <2>2, <2>3 DEF ChunkIds
<1>6. ids \in Seq(ChunkIds)
  <2> HIDE DEF Of
  <2>1. QED
    BY <1>2, <1>5
<1>7. DOMAIN ids = 1 .. Len(hits) /\ \A i \in 1 .. Len(hits) : ids[i] = Of(hits[i])
  OBVIOUS
<1> HIDE DEF ids
<1>8. Limited(ids)
  <2> SUFFICES ASSUME search.docs # {}, NEW i \in 1 .. Len(hits)
               PROVE  ids[i][1] \in search.docs
    BY <1>7 DEF Limited
  <2>1. hits[i] \in WithVectors
    BY <1>1, <1>2
  <2>2. PICK d \in Docs : InScope(d, stored[d].source) /\ hits[i] \in {d} \X (1 .. Size(d, stored[d].version))
    BY <2>1 DEF WithVectors
  <2>3. d \in search.docs
    BY <2>2 DEF InScope
  <2>4. QED
    BY <1>7, <2>2, <2>3
<1>9. \A p \in WithVectors : Among(Asked.meaning, WithVectors, VectorLimit, p) => Of(p) \in ToSet(ids)
  <2> SUFFICES ASSUME NEW p \in WithVectors, Among(Asked.meaning, WithVectors, VectorLimit, p)
               PROVE  Of(p) \in ToSet(ids)
    OBVIOUS
  <2>1. PICK i \in 1 .. Len(hits) : p = hits[i]
    BY <1>2, <1>11
  <2>2. QED
    BY <1>7, <2>1 DEF ToSet
<1>10. QED
  BY <1>3, <1>6, <1>8, <1>9

\* A piece of the scope whose document's vectors are of its chunks and source has
\* vectors in the scope.
LEMMA SpeakingVectors ==
  ASSUME NEW p \in InIndex, stored[p[1]] = [version |-> cut[p[1]], source |-> owner[p[1]]]
  PROVE  p \in WithVectors
<1>1. PICK d \in Docs : InScope(d, owner[d]) /\ p \in {d} \X (1 .. Size(d, cut[d]))
  BY DEF InIndex
<1>2. p[1] = d /\ stored[d].version = cut[d] /\ stored[d].source = owner[d]
  BY <1>1
<1>3. InScope(d, stored[d].source) /\ p \in {d} \X (1 .. Size(d, stored[d].version))
  BY <1>1, <1>2
<1>4. QED
  BY <1>3 DEF WithVectors

\* What a question has by its meaning.
LEMMA MeaningOK ==
  ASSUME IndexerTypes, search.matches \in Seq(ChunkIds), Limited(search.matches),
         Asked.meaning \in Seq(Docs \X Nat), Asked.near \in Nat
  PROVE  /\ Meaning \in Seq(ChunkIds)
         /\ Limited(Meaning)
         /\ VectorsRead => \A p \in InIndex :
                             VectorsSpeak(p[1]) /\ InMeaning(p) => ChunkOf(p) \in ToSet(Meaning)
<1> DEFINE near == First(Asked.meaning, Asked.near)
<1>0. near \in Seq(Docs \X Nat) /\ ToSet(near) \subseteq ToSet(Asked.meaning)
  BY FirstOK
<1>1. CASE search.matches # <<>>
  <2> DEFINE S == {c \in ToSet(search.matches) : Present(c)}
  <2>1. Meaning = Filter(search.matches, S)
    BY <1>1 DEF Meaning
  <2> HIDE DEF S
  <2>2. Meaning \in Seq(ChunkIds) /\ ToSet(Meaning) = ToSet(search.matches) \cap S
    BY <2>1, Filtered
  <2>3. Limited(Meaning)
    <3> SUFFICES ASSUME search.docs # {}, NEW i \in DOMAIN Meaning
                 PROVE  Meaning[i][1] \in search.docs
      BY DEF Limited
    <3>1. Meaning[i] \in ToSet(search.matches)
      BY <2>2 DEF ToSet
    <3>2. QED
      BY <3>1 DEF ToSet, Limited
  <2>4. ASSUME VectorsRead, NEW p \in InIndex, VectorsSpeak(p[1]), InMeaning(p)
        PROVE  ChunkOf(p) \in ToSet(Meaning)
    <3>1. stored[p[1]] = [version |-> cut[p[1]], source |-> owner[p[1]]]
      BY <1>1, <2>4 DEF VectorsSpeak
    <3>2. p \in WithVectors /\ Among(Asked.meaning, WithVectors, VectorLimit, p)
      BY <1>1, <2>4, <3>1, SpeakingVectors DEF InMeaning
    <3>3. ChunkOf(p) \in ToSet(search.matches)
      BY <1>1, <2>4, <3>1, <3>2 DEF VectorsRead, ChunkOf
    <3>4. Present(ChunkOf(p))
      BY DEF Present, ChunkOf
    <3>5. QED
      BY <2>2, <3>3, <3>4 DEF S
  <2>5. QED
    BY <2>2, <2>3, <2>4
<1>2. CASE search.matches = <<>>
  <2> DEFINE hits == First(Filter(near, InIndex), VectorLimit)
  <2>1. Meaning = ChunksIn(hits)
    BY <1>2 DEF Meaning, Asked
  <2>2. hits \in Seq(Docs \X Nat)
    BY <1>0, Filtered, FirstOK, RetrievalConstants
  <2>3. \A p \in InIndex : InMeaning(p) => p \in ToSet(hits)
    BY <1>0, <1>2, AmongOK, RetrievalConstants DEF InMeaning
  <2> HIDE DEF hits
  <2>4. QED
    BY <2>1, <2>2, <2>3, ChunksInOK
<1>3. QED
  BY <1>1, <1>2

-----------------------------------------------------------------------------
(* Its order                                                                *)

Triples == Int \X Int \X Int

\* Ahead is a strict total order.
LEMMA AheadOrders ==
  ASSUME NEW k \in Triples, NEW l \in Triples, NEW m \in Triples
  PROVE  /\ ~Ahead(k, k)
         /\ k # l => Ahead(k, l) \/ Ahead(l, k)
         /\ Ahead(k, l) /\ Ahead(l, m) => Ahead(k, m)
<1>1. /\ k[1] \in Int /\ k[2] \in Int /\ k[3] \in Int /\ k = <<k[1], k[2], k[3]>>
      /\ l[1] \in Int /\ l[2] \in Int /\ l[3] \in Int /\ l = <<l[1], l[2], l[3]>>
      /\ m[1] \in Int /\ m[2] \in Int /\ m[3] \in Int
  BY DEF Triples
<1>2. ~Ahead(k, k)
  BY <1>1 DEF Ahead
<1>3. k # l => Ahead(k, l) \/ Ahead(l, k)
  <2>1. k # l => k[1] # l[1] \/ k[2] # l[2] \/ k[3] # l[3]
    BY <1>1
  <2>2. QED
    BY <1>1, <2>1 DEF Ahead
<1>4. Ahead(k, l) /\ Ahead(l, m) => Ahead(k, m)
  BY <1>1 DEF Ahead
<1>5. QED
  BY <1>2, <1>3, <1>4

\* Counting what is ahead gives each element of a finite set a place of its own.
LEMMA CountedPlaces ==
  ASSUME NEW S, IsFiniteSet(S), NEW key \in [S -> Triples],
         \A b, c \in S : b # c => key[b] # key[c]
  PROVE  /\ \A c \in S : 1 + Cardinality({b \in S : Ahead(key[b], key[c])}) \in 1 .. Cardinality(S)
         /\ \A c, d \in S : c # d =>
              Cardinality({b \in S : Ahead(key[b], key[c])}) # Cardinality({b \in S : Ahead(key[b], key[d])})
<1> DEFINE Better(c) == {b \in S : Ahead(key[b], key[c])}
<1>1. \A c \in S : IsFiniteSet(Better(c)) /\ Cardinality(Better(c)) \in Nat
  <2> TAKE c \in S
  <2>1. Better(c) \in SUBSET S
    OBVIOUS
  <2> HIDE DEF Better
  <2>2. QED
    BY <2>1, FS_Subset, FS_CardinalityType
<1>2. \A c \in S : Cardinality(Better(c)) < Cardinality(S)
  <2> TAKE c \in S
  <2>1. Better(c) \in SUBSET S /\ c \notin Better(c)
    BY AheadOrders
  <2> HIDE DEF Better
  <2>2. Cardinality(Better(c)) <= Cardinality(S) /\ Cardinality(S) # Cardinality(Better(c))
    BY <2>1, FS_Subset
  <2>3. QED
    BY <1>1, <2>2, FS_CardinalityType
<1>3. ASSUME NEW c \in S, NEW d \in S, Ahead(key[c], key[d])
      PROVE  Cardinality(Better(c)) # Cardinality(Better(d))
  <2>1. Better(c) \in SUBSET Better(d)
    <3> SUFFICES ASSUME NEW b \in S, Ahead(key[b], key[c])
                 PROVE  Ahead(key[b], key[d])
      OBVIOUS
    <3>1. QED
      BY <1>3, AheadOrders
  <2>2. c \in Better(d) /\ c \notin Better(c)
    BY <1>3, AheadOrders
  <2> HIDE DEF Better
  <2>3. QED
    BY <1>1, <2>1, <2>2, FS_Subset
<1>4. ASSUME NEW c \in S, NEW d \in S, c # d
      PROVE  Cardinality(Better(c)) # Cardinality(Better(d))
  <2>1. Ahead(key[c], key[d]) \/ Ahead(key[d], key[c])
    BY <1>4, AheadOrders
  <2> HIDE DEF Better
  <2>2. QED
    BY <1>3, <2>1
<1>5. \A c \in S : 1 + Cardinality(Better(c)) \in 1 .. Cardinality(S)
  <2> HIDE DEF Better
  <2>1. QED
    BY <1>1, <1>2, FS_CardinalityType
<1>6. QED
  BY <1>4, <1>5

\* Where a list has a piece.
LEMMA PositionOK ==
  ASSUME NEW list \in Seq(ChunkIds), NEW c
  PROVE  /\ Position(list, c) \in Nat
         /\ c \in ToSet(list) => Position(list, c) \in 1 .. Len(list) /\ list[Position(list, c)] = c
         /\ c \notin ToSet(list) => Position(list, c) = Len(list) + 1
<1>1. Len(list) \in Nat /\ DOMAIN list = 1 .. Len(list)
  BY Elements
<1>2. CASE c \in ToSet(list)
  <2>1. \E i \in DOMAIN list : list[i] = c
    BY <1>2 DEF ToSet
  <2>2. Position(list, c) \in DOMAIN list /\ list[Position(list, c)] = c
    BY <1>2, <2>1 DEF Position
  <2>3. QED
    BY <1>1, <1>2, <2>2
<1>3. CASE c \notin ToSet(list)
  BY <1>1, <1>3 DEF Position
<1>4. QED
  BY <1>2, <1>3

\* What is worth a rank is a number.
LEMMA RankScoreOK ==
  ASSUME NEW list \in Seq(ChunkIds), NEW c
  PROVE  RankScore(list, c) \in Int
BY PositionOK DEF RankScore, Worth

\* Different pieces of two lists have different keys.
LEMMA KeysDiffer ==
  ASSUME NEW words \in Seq(ChunkIds), NEW meaning \in Seq(ChunkIds)
  PROVE  /\ \A c : Key(words, meaning, c) \in Triples
         /\ \A b, c \in ToSet(words) \cup ToSet(meaning) :
              b # c => Key(words, meaning, b) # Key(words, meaning, c)
<1>1. \A c : Key(words, meaning, c) \in Triples
  <2> TAKE c
  <2>1. RankScore(words, c) \in Int /\ RankScore(meaning, c) \in Int
    BY RankScoreOK
  <2>2. Position(words, c) \in Int /\ Position(meaning, c) \in Int
    BY PositionOK
  <2>3. QED
    BY <2>1, <2>2 DEF Key, Triples
<1>2. ASSUME NEW b \in ToSet(words) \cup ToSet(meaning), NEW c \in ToSet(words) \cup ToSet(meaning),
             Key(words, meaning, b) = Key(words, meaning, c)
      PROVE  b = c
  <2>1. Position(words, b) = Position(words, c) /\ Position(meaning, b) = Position(meaning, c)
    BY <1>2 DEF Key
  <2>2. Len(words) \in Nat /\ Len(meaning) \in Nat
    BY Elements
  <2>3. CASE b \in ToSet(words)
    <3>1. Position(words, b) \in 1 .. Len(words) /\ words[Position(words, b)] = b
      BY <2>3, PositionOK
    <3>2. c \in ToSet(words)
      BY <2>1, <2>2, <3>1, PositionOK
    <3>3. words[Position(words, c)] = c
      BY <3>2, PositionOK
    <3>4. QED
      BY <2>1, <3>1, <3>3
  <2>4. CASE b \in ToSet(meaning)
    <3>1. Position(meaning, b) \in 1 .. Len(meaning) /\ meaning[Position(meaning, b)] = b
      BY <2>4, PositionOK
    <3>2. c \in ToSet(meaning)
      BY <2>1, <2>2, <3>1, PositionOK
    <3>3. meaning[Position(meaning, c)] = c
      BY <3>2, PositionOK
    <3>4. QED
      BY <2>1, <3>1, <3>3
  <2>5. QED
    BY <2>3, <2>4
<1>3. QED
  BY <1>1, <1>2

\* A list has finitely many elements.
LEMMA FiniteList ==
  ASSUME NEW A, NEW list \in Seq(A)
  PROVE  IsFiniteSet(ToSet(list))
<1>1. list \in [1 .. Len(list) -> A] /\ Len(list) \in Nat /\ ToSet(list) = {list[i] : i \in 1 .. Len(list)}
  BY LenProperties, Elements
<1>2. IsFiniteSet(1 .. Len(list))
  BY <1>1, FS_Interval
<1>3. list \in Surjection(1 .. Len(list), ToSet(list))
  BY <1>1 DEF Surjection
<1>4. QED
  BY <1>2, <1>3, FS_Surjection

\* The pieces of some documents that were found, each with its own place.
LEMMA PlacesOK ==
  ASSUME NEW docs, search.words \in Seq(ChunkIds), search.meaning \in Seq(ChunkIds)
  PROVE  /\ DOMAIN Places(docs) = {c \in Found : c[1] \in docs}
         /\ IsFiniteSet(DOMAIN Places(docs))
         /\ \A c \in DOMAIN Places(docs) : Places(docs)[c] \in 1 .. Cardinality(DOMAIN Places(docs))
         /\ \A b, c \in DOMAIN Places(docs) : b # c => Places(docs)[b] # Places(docs)[c]
<1> DEFINE Of(list) == Filter(list, {c \in ToSet(list) : c[1] \in docs})
           words == Of(search.words)
           meaning == Of(search.meaning)
           S == ToSet(words) \cup ToSet(meaning)
           key == [c \in S |-> Key(words, meaning, c)]
           Count(c) == Cardinality({b \in S : Ahead(key[b], key[c])})
<1>1. /\ words \in Seq(ChunkIds) /\ ToSet(words) = {c \in ToSet(search.words) : c[1] \in docs}
      /\ meaning \in Seq(ChunkIds) /\ ToSet(meaning) = {c \in ToSet(search.meaning) : c[1] \in docs}
  BY Filtered
<1>2. Places(docs) = [c \in S |-> 1 + Count(c)]
  BY DEF Places
<1> HIDE DEF words, meaning
<1>3. S = {c \in Found : c[1] \in docs}
  BY <1>1 DEF Found
<1>4. IsFiniteSet(S)
  BY <1>1, FiniteList, FS_Union
<1>5. key \in [S -> Triples] /\ \A b, c \in S : b # c => key[b] # key[c]
  BY <1>1, KeysDiffer
<1> HIDE DEF S, key
<1>6. /\ \A c \in S : 1 + Count(c) \in 1 .. Cardinality(S)
      /\ \A b, c \in S : b # c => Count(b) # Count(c)
  BY <1>4, <1>5, CountedPlaces
<1>7. \A c \in S : Count(c) \in Nat
  <2> TAKE c \in S
  <2>1. {b \in S : Ahead(key[b], key[c])} \in SUBSET S
    OBVIOUS
  <2>2. QED
    BY <1>4, <2>1, FS_Subset, FS_CardinalityType
<1> HIDE DEF Count
<1>8. QED
  BY <1>2, <1>3, <1>4, <1>6, <1>7

-----------------------------------------------------------------------------
(* Its selection                                                            *)

\* The share of a document is a number.
LEMMA CapOK ==
  ASSUME NEW n \in Nat
  PROVE  DocumentCap(n) \in Nat
<1>1. n \div 2 \in Int
  OBVIOUS
<1>2. QED
  BY <1>1 DEF DocumentCap

\* What is shown and who has a share stay so when rows are added.
LEMMA MoreRows ==
  ASSUME NEW got \in Seq(ChunkIds), NEW c \in ChunkIds, NEW d, NEW e, Asked.limit \in Nat
  PROVE  /\ Shown(got, d) => Shown(Append(got, c), d)
         /\ HasShare(got, e) => HasShare(Append(got, c), e)
<1> DEFINE more == Append(got, c)
<1>1. /\ more \in Seq(ChunkIds) /\ Len(got) \in Nat
      /\ Len(more) = Len(got) + 1
      /\ \A i \in 1 .. Len(got) : more[i] = got[i]
  BY AppendProperties, LenProperties
<1> HIDE DEF more
<1>2. DOMAIN got = 1 .. Len(got) /\ DOMAIN more = 1 .. Len(got) + 1
  BY <1>1, Elements
<1>3. Shown(got, d) => Shown(more, d)
  <2>1. ASSUME NEW i \in 1 .. Len(got), Fingerprint(got[i]) = Fingerprint(d)
        PROVE  i \in DOMAIN more /\ Fingerprint(more[i]) = Fingerprint(d)
    BY <1>1, <1>2, <2>1
  <2>2. QED
    BY <1>2, <2>1 DEF Shown
<1>4. HasShare(got, e) => HasShare(more, e)
  <2> DEFINE Of(list) == {i \in DOMAIN list : list[i][1] = e}
  <2>1. Of(got) \in SUBSET Of(more)
    BY <1>1, <1>2
  <2>2. IsFiniteSet(1 .. Len(got) + 1)
    BY <1>1, FS_Interval
  <2>3. Of(more) \in SUBSET (1 .. Len(got) + 1)
    BY <1>2
  <2> HIDE DEF Of
  <2>4. IsFiniteSet(Of(more)) /\ IsFiniteSet(Of(got))
    BY <2>1, <2>2, <2>3, FS_Subset
  <2>5. Cardinality(Of(got)) \in Nat /\ Cardinality(Of(more)) \in Nat
        /\ Cardinality(Of(got)) <= Cardinality(Of(more))
    BY <2>1, <2>4, FS_Subset, FS_CardinalityType
  <2>6. DocumentCap(Asked.limit) \in Nat
    BY CapOK
  <2>7. Cardinality(Of(got)) >= DocumentCap(Asked.limit) => Cardinality(Of(more)) >= DocumentCap(Asked.limit)
    BY <2>5, <2>6
  <2>8. QED
    BY <2>7 DEF HasShare, Of, Asked
<1>5. QED
  BY <1>3, <1>4 DEF more

\* How the rows go on.
LEMMA SelectedSteps ==
  ASSUME NEW place, IsFiniteSet(DOMAIN place)
  PROVE  \A n \in 0 .. Cardinality(DOMAIN place) :
           SelectedTo(place)[n] = IF n = 0 THEN <<>> ELSE AddNext(place, SelectedTo(place)[n - 1], n)
<1> DEFINE S == DOMAIN place
           N == Cardinality(S)
           move == [x \in Seq(S) \X Nat |-> AddNext(place, x[1], x[2])]
           Continues(f) == f = [n \in 0 .. N |-> IF n = 0 THEN <<>> ELSE AddNext(place, f[n - 1], n)]
<1>1. N \in Nat
  BY FS_CardinalityType
<1>2. ASSUME NEW got \in Seq(S), NEW n \in Nat
      PROVE  AddNext(place, got, n) \in Seq(S)
  <2> DEFINE next == {c \in S : place[c] = n /\ Taken(got, c)}
  <2>1. CASE next = {}
    BY <2>1 DEF AddNext
  <2>2. CASE next # {}
    <3>1. (CHOOSE c \in next : TRUE) \in S
      BY <2>2
    <3>2. AddNext(place, got, n) = Append(got, CHOOSE c \in next : TRUE)
      BY <2>2 DEF AddNext
    <3> HIDE DEF next
    <3>3. QED
      BY <3>1, <3>2, AppendProperties
  <2>3. QED
    BY <2>1, <2>2
<1> HIDE DEF S, N
<1>3. move \in [Seq(S) \X Nat -> Seq(S)] /\ <<>> \in Seq(S)
  BY <1>2, EmptySeq
<1>4. \A got \in Seq(S), n \in Nat : move[<<got, n>>] = AddNext(place, got, n)
  OBVIOUS
<1> HIDE DEF move
<1>5. PICK f \in [0 .. N -> Seq(S)] : Iterates(f, <<>>, move, N)
  BY <1>1, <1>3, Recursion
<1>6. \A n \in 0 .. N : f[n] = IF n = 0 THEN <<>> ELSE AddNext(place, f[n - 1], n)
  <2> TAKE n \in 0 .. N
  <2>1. f[n] = IF n = 0 THEN <<>> ELSE move[<<f[n - 1], n>>]
    BY <1>5 DEF Iterates
  <2>2. n # 0 => f[n - 1] \in Seq(S) /\ n \in Nat
    BY <1>1, <1>5
  <2>3. QED
    BY <1>4, <2>1, <2>2
<1>7. f = [n \in 0 .. N |-> f[n]]
  OBVIOUS
<1>8. Continues(f)
  BY <1>6, <1>7
<1>9. SelectedTo(place) = CHOOSE g : Continues(g)
  BY DEF SelectedTo, N, S
<1> HIDE DEF Continues
<1>10. Continues(SelectedTo(place))
  BY <1>8, <1>9
<1>11. QED
  BY <1>10 DEF Continues, N, S

\* A piece is settled if there is room no more, or its text is shown, or its
\* document has its share.
Settled(got, c) == Len(got) >= Asked.limit \/ Shown(got, c) \/ HasShare(got, c[1])

\* What is selected: pieces that have a place, no text twice, and every piece settled.
LEMMA SelectedOK ==
  ASSUME NEW place, IsFiniteSet(DOMAIN place), DOMAIN place \subseteq ChunkIds, Asked.limit \in Nat,
         \A c \in DOMAIN place : place[c] \in 1 .. Cardinality(DOMAIN place),
         \A b, c \in DOMAIN place : b # c => place[b] # place[c]
  PROVE  /\ Selected(place) \in Seq(DOMAIN place)
         /\ \A i, j \in DOMAIN Selected(place) :
              i < j => Fingerprint(Selected(place)[i]) # Fingerprint(Selected(place)[j])
         /\ \A c \in DOMAIN place : Settled(Selected(place), c)
<1> DEFINE S == DOMAIN place
           N == Cardinality(S)
           f == SelectedTo(place)
           Distinct(got) == \A i, j \in 1 .. Len(got) : i < j => Fingerprint(got[i]) # Fingerprint(got[j])
           Good(got, n) == /\ got \in Seq(S) /\ Distinct(got)
                            /\ \A c \in S : place[c] <= n => Settled(got, c)
           T == {n \in Nat : n <= N => Good(f[n], n)}
<1>0. N \in Nat /\ \A n \in 0 .. N : f[n] = IF n = 0 THEN <<>> ELSE AddNext(place, f[n - 1], n)
  BY SelectedSteps, FS_CardinalityType
<1> HIDE DEF f
<1>1. 0 \in T
  <2>1. f[0] = <<>>
    BY <1>0
  <2>2. <<>> \in Seq(S) /\ Distinct(<<>>)
    BY EmptySeq
  <2>3. \A c \in S : ~(place[c] <= 0)
    OBVIOUS
  <2>4. Good(<<>>, 0)
    BY <2>2, <2>3
  <2> HIDE DEF Good
  <2>5. Good(f[0], 0)
    BY <2>1, <2>4
  <2>6. QED
    BY <2>5
<1>2. ASSUME NEW n \in Nat, n \in T
      PROVE  n + 1 \in T
  <2> SUFFICES ASSUME n + 1 <= N
               PROVE  Good(f[n + 1], n + 1)
    OBVIOUS
  <2> DEFINE got == f[n]
             next == {c \in S : place[c] = n + 1 /\ Taken(got, c)}
             new == CHOOSE c \in next : TRUE
  <2>0. Good(got, n)
    <3> HIDE DEF Good
    <3>1. QED
      BY <1>0, <1>2
  <2>1. got \in Seq(S) /\ Len(got) \in Nat /\ got \in Seq(ChunkIds) /\ DOMAIN got = 1 .. Len(got)
    BY <2>0, LenProperties, SeqMonotonic
  <2>2. f[n + 1] = AddNext(place, got, n + 1)
    <3>1. n + 1 \in 0 .. N /\ n + 1 # 0 /\ n + 1 - 1 = n
      BY <1>0
    <3>2. QED
      BY <1>0, <3>1
  <2>3. CASE next = {}
    <3>1. f[n + 1] = got
      BY <2>2, <2>3 DEF AddNext
    <3>2. ASSUME NEW c \in S, place[c] <= n + 1
          PROVE  Settled(got, c)
      <4>1. CASE place[c] = n + 1
        <5>1. ~Taken(got, c)
          BY <2>3, <4>1
        <5>2. QED
          BY <2>1, <5>1 DEF Taken, Settled, Asked
      <4>2. CASE place[c] # n + 1
        <5>1. place[c] <= n
          BY <1>0, <3>2, <4>2
        <5>2. QED
          BY <2>0, <5>1
      <4>3. QED
        BY <4>1, <4>2
    <3>3. QED
      BY <2>0, <3>1, <3>2
  <2>4. CASE next # {}
    <3>1. new \in next /\ f[n + 1] = Append(got, new)
      BY <2>2, <2>4 DEF AddNext
    <3>2. new \in S /\ place[new] = n + 1 /\ Taken(got, new) /\ new \in ChunkIds
      BY <3>1
    <3> DEFINE more == Append(got, new)
    <3> HIDE DEF new, next
    <3>3. /\ more \in Seq(S)
          /\ Len(more) = Len(got) + 1
          /\ \A i \in 1 .. Len(got) : more[i] = got[i]
          /\ more[Len(got) + 1] = new
      BY <2>1, <3>2, AppendProperties
    <3>4. /\ \A d : Shown(got, d) => Shown(more, d)
          /\ \A e : HasShare(got, e) => HasShare(more, e)
      BY <2>1, <3>2, MoreRows
    <3> HIDE DEF more, got
    <3>5. Distinct(more)
      <4> SUFFICES ASSUME NEW i \in 1 .. Len(more), NEW j \in 1 .. Len(more), i < j
                   PROVE  Fingerprint(more[i]) # Fingerprint(more[j])
        OBVIOUS
      <4>1. i \in 1 .. Len(got) /\ more[i] = got[i]
        BY <2>1, <3>3
      <4>2. CASE j = Len(got) + 1
        <5>1. ~ Shown(got, new)
          BY <3>2 DEF Taken
        <5>2. Fingerprint(got[i]) # Fingerprint(new)
          BY <2>1, <4>1, <5>1 DEF Shown
        <5>3. QED
          BY <3>3, <4>1, <4>2, <5>2
      <4>3. CASE j # Len(got) + 1
        <5>1. j \in 1 .. Len(got) /\ more[j] = got[j]
          BY <2>1, <3>3, <4>3
        <5>2. QED
          BY <2>0, <4>1, <5>1
      <4>4. QED
        BY <4>2, <4>3
    <3>6. ASSUME NEW c \in S, place[c] <= n + 1
          PROVE  Settled(more, c)
      <4>1. CASE place[c] = n + 1
        <5>1. c = new
          BY <3>2, <4>1
        <5>2. Len(got) + 1 \in DOMAIN more
          BY <2>1, <3>3, Elements
        <5>3. Shown(more, c)
          BY <3>3, <5>1, <5>2 DEF Shown
        <5>4. QED
          BY <5>3 DEF Settled
      <4>2. CASE place[c] # n + 1
        <5>1. place[c] <= n
          BY <1>0, <3>6, <4>2
        <5>2. Settled(got, c)
          BY <2>0, <5>1
        <5>3. Len(got) >= Asked.limit => Len(more) >= Asked.limit
          BY <2>1, <3>3
        <5>4. QED
          BY <3>4, <5>2, <5>3 DEF Settled
      <4>3. QED
        BY <4>1, <4>2
    <3>7. QED
      BY <3>1, <3>3, <3>5, <3>6 DEF more
  <2>5. QED
    BY <2>3, <2>4
<1>3. Nat \subseteq T
  <2> HIDE DEF T
  <2>1. QED
    BY <1>1, <1>2, Induction
<1>4. Good(f[N], N)
  <2> HIDE DEF Good
  <2>1. QED
    BY <1>0, <1>3
<1>5. Selected(place) = f[N]
  BY DEF Selected, f
<1>6. DOMAIN f[N] = 1 .. Len(f[N])
  BY <1>4, Elements
<1>7. \A c \in S : place[c] <= N
  BY <1>0
<1>8. QED
  BY <1>4, <1>5, <1>6, <1>7

-----------------------------------------------------------------------------
(* Its steps                                                                *)

\* A question that was asked has its shape.
LEMMA AskedOK ==
  ASSUME ScopeOK, search.at # "idle"
  PROVE  QuestionShaped(Asked)
BY RetrievalConstants DEF ScopeOK

\* With the index and the limits of the search unchanged, so is its scope.
LEMMA SameScope ==
  ASSUME cut' = cut, owner' = owner, stored' = stored,
         search'.docs = search.docs, search'.sources = search.sources
  PROVE  /\ InIndex' = InIndex /\ WithVectors' = WithVectors
         /\ \A p : ChunkOf(p)' = ChunkOf(p)
BY DEF InIndex, WithVectors, InScope, ChunkOf

\* And so are the matches that no cut of a reading comes before.
LEMMA SameMatches ==
  ASSUME cut' = cut, owner' = owner, stored' = stored, search'.question = search.question,
         search'.docs = search.docs, search'.sources = search.sources
  PROVE  /\ \A p : InWords(p)' <=> InWords(p)
         /\ WordsRead' <=> \A p \in InIndex : InWords(p) => ChunkOf(p) \in ToSet(search'.words)
         /\ VectorsRead' <=>
              \/ search'.matches = <<>>
              \/ \A p \in WithVectors : Among(Asked.meaning, WithVectors, VectorLimit, p) =>
                   <<p[1], stored[p[1]].version, p[2]>> \in ToSet(search'.matches)
         /\ search'.matches = search.matches =>
              /\ \A p : InMeaning(p)' <=> InMeaning(p)
              /\ \A d : VectorsSpeak(d)' <=> VectorsSpeak(d)
              /\ MeaningRead' <=>
                   \A p \in InIndex : VectorsSpeak(p[1]) /\ InMeaning(p) => ChunkOf(p) \in ToSet(search'.meaning)
<1>1. InIndex' = InIndex /\ WithVectors' = WithVectors /\ Asked' = Asked /\ \A p : ChunkOf(p)' = ChunkOf(p)
  BY SameScope DEF Asked
<1>2. \A p : InWords(p)' <=> InWords(p)
  BY <1>1 DEF InWords
<1>3. WordsRead' <=> \A p \in InIndex : InWords(p) => ChunkOf(p) \in ToSet(search'.words)
  BY <1>1, <1>2 DEF WordsRead
<1>4. VectorsRead' <=>
        \/ search'.matches = <<>>
        \/ \A p \in WithVectors : Among(Asked.meaning, WithVectors, VectorLimit, p) =>
             <<p[1], stored[p[1]].version, p[2]>> \in ToSet(search'.matches)
  BY <1>1 DEF VectorsRead
<1>5. ASSUME search'.matches = search.matches
      PROVE  /\ \A p : InMeaning(p)' <=> InMeaning(p)
             /\ \A d : VectorsSpeak(d)' <=> VectorsSpeak(d)
             /\ MeaningRead' <=>
                  \A p \in InIndex : VectorsSpeak(p[1]) /\ InMeaning(p) => ChunkOf(p) \in ToSet(search'.meaning)
  <2>1. \A p : InMeaning(p)' <=> InMeaning(p)
    BY <1>1, <1>5 DEF InMeaning
  <2>2. \A d : VectorsSpeak(d)' <=> VectorsSpeak(d)
    BY <1>5 DEF VectorsSpeak
  <2>3. QED
    BY <1>1, <2>1, <2>2 DEF MeaningRead
<1>6. QED
  BY <1>2, <1>3, <1>4, <1>5

\* What a question should get, once the readings are done.
LEMMA SameOutcome ==
  ASSUME cut' = cut, owner' = owner, stored' = stored, search'.question = search.question,
         search'.docs = search.docs, search'.sources = search.sources, search'.words = search.words,
         search'.matches = search.matches, search'.meaning = search.meaning, search'.ranked = search.ranked
  PROVE  /\ Matching' = Matching /\ Found' = Found
         /\ \A d : Outscored(d)' <=> Outscored(d)
         /\ \A d : HasShare(search.ranked, d)' <=> HasShare(search.ranked, d)
         /\ \A c : (Withheld(c)' <=> Withheld(c)) /\ (Shown(search.ranked, c)' <=> Shown(search.ranked, c))
<1>1. \A p : (InWords(p)' <=> InWords(p)) /\ (InMeaning(p)' <=> InMeaning(p))
  BY SameMatches
<1>2. \A d : VectorsSpeak(d)' <=> VectorsSpeak(d)
  BY SameMatches
<1>3. \A d : Chunks(d)' = Chunks(d)
  BY DEF Chunks
<1>4. \A d : Reached(d)' <=> Reached(d)
  BY DEF Reached, DocumentAuthorized, Asked
<1>5. Matching' = Matching
  BY <1>1, <1>2, <1>3, <1>4 DEF Matching
<1>6. \A d : Outscored(d)' <=> Outscored(d)
  BY DEF Outscored, Score, FoundDocs, Found
<1>7. /\ \A d : HasShare(search.ranked, d)' <=> HasShare(search.ranked, d)
      /\ \A c : (Withheld(c)' <=> Withheld(c)) /\ (Shown(search.ranked, c)' <=> Shown(search.ranked, c))
  BY DEF HasShare, Withheld, DocumentAuthorized, Asked, Shown, Fingerprint
<1>8. QED
  BY <1>5, <1>6, <1>7 DEF Found

\* A step of the search leaves the index alone.
LEMMA SameIndex ==
  ASSUME IndexerTypes, UNCHANGED <<cut, owner, stored, moves>>
  PROVE  IndexerTypes'
BY DEF IndexerTypes

\* Initially nothing was asked.
LEMMA RetrievalInitInv ==
  ASSUME RetrievalInit
  PROVE  RetrievalInv
<1>1. IndexerTypes
  BY DEF RetrievalInit, IndexerTypes, NoVectors
<1>2. /\ search.at = "idle" /\ search.words = <<>> /\ search.matches = <<>> /\ search.meaning = <<>>
      /\ search.ranked = <<>> /\ search.rows = <<>> /\ search.context = <<>>
  BY DEF RetrievalInit, NoSearch
<1>3. SearchType
  <2>1. <<>> \in Seq(ChunkIds)
    BY EmptySeq
  <2>2. QED
    BY <2>1 DEF RetrievalInit, SearchType, NoSearch, SearchPlaces
<1>4. ListsOK
  BY <1>2 DEF ListsOK, Limited, Done
<1>5. QED
  BY <1>1, <1>2, <1>3, <1>4 DEF RetrievalInv, ScopeOK, ReadingsOK, SelectionOK, NothingLeftOut, Done, Ranking

\* A question that finds nowhere to look has no match.
LEMMA NowhereMatches ==
  ASSUME IndexerTypes, NEW q \in Questions, FindsNowhere(q), Asked' = q, UNCHANGED <<cut, owner, stored>>,
         search'.sources = AuthorizedSources(q)
  PROVE  Matching' = {}
<1> SUFFICES ASSUME NEW c \in Matching'
             PROVE  FALSE
  OBVIOUS
<1>1. QuestionShaped(q)
  BY RetrievalConstants
<1>2. PICK d \in Docs : c \in ToSet(Chunks(d))
  BY DEF Matching, Chunks, ToSet
<1>3. PICK i \in 1 .. Size(d, cut[d]) : c = <<d, cut[d], i>>
  BY <1>2 DEF Chunks, ToSet
<1>4. cut[d] # 0
  BY <1>3 DEF Size
<1>5. Reached(d)'
  BY <1>3 DEF Matching
<1>6. /\ DocumentAuthorized(q, d)
      /\ q.kind \notin {"all", "selection"} => d \in q.docs
      /\ q.kind \in {"all", "selection", "notebook"} => owner[d] \in AuthorizedSources(q)
  BY <1>5 DEF Reached, DocumentAuthorized
<1>7. CASE AuthorizedSources(q) = {}
  <2>1. owner[d] \in Folders /\ d \in Under(owner[d])
    BY DEF IndexerTypes
  <2>2. d \in q.attached => owner[d] \in AuthorizedSources(q)
    BY <2>1 DEF AuthorizedSources
  <2>3. \A f \in q.roots : f \in AuthorizedSources(q)
    BY <1>1, RetrievalConstants DEF AuthorizedSources, QuestionShaped
  <2>4. QED
    BY <1>6, <1>7, <2>2, <2>3 DEF DocumentAuthorized
<1>8. CASE q.kind = "notebook" /\ ScopeDocs(q) = {}
  <2>1. d \in ScopeDocs(q)
    BY <1>4, <1>6, <1>8 DEF ScopeDocs
  <2>2. QED
    BY <1>8, <2>1
<1>9. CASE q.kind = "locked" /\ \E e \in q.docs : cut[e] = 0 \/ ~DocumentAuthorized(q, e)
  <2>1. PICK e \in Docs : q.docs = {e}
    BY <1>1, <1>9 DEF QuestionShaped
  <2>2. d = e
    BY <1>6, <1>9, <2>1
  <2>3. QED
    BY <1>4, <1>6, <1>9, <2>1, <2>2
<1>10. QED
  BY <1>7, <1>8, <1>9 DEF FindsNowhere

\* Asking.
LEMMA AskInv ==
  ASSUME RetrievalInv, NEW q \in Questions, Ask(q)
  PROVE  RetrievalInv'
<1>1. /\ search'.question = q /\ search'.at = IF FindsNowhere(q) THEN "done" ELSE "words"
      /\ search'.sources = AuthorizedSources(q) /\ search'.docs = ScopeDocs(q)
      /\ search'.words = <<>> /\ search'.matches = <<>> /\ search'.meaning = <<>>
      /\ search'.ranked = <<>> /\ search'.rows = <<>> /\ search'.context = <<>> /\ search'.still = TRUE
  BY DEF Ask, NoSearch
<1>2. UNCHANGED <<cut, owner, stored, moves>> /\ IndexerTypes /\ IndexerTypes'
  BY SameIndex DEF Ask, RetrievalInv
<1>3. QuestionShaped(q)
  BY RetrievalConstants
<1>4. ScopeDocs(q) \subseteq q.docs /\ ScopeDocs(q) \subseteq Docs
  BY <1>3 DEF ScopeDocs, QuestionShaped
<1>5. SearchType'
  <2>1. <<>> \in Seq(ChunkIds)
    BY EmptySeq
  <2>2. AuthorizedSources(q) \subseteq Folders
    BY DEF AuthorizedSources
  <2>3. search' = [question |-> q, at |-> search'.at, sources |-> AuthorizedSources(q), docs |-> ScopeDocs(q),
                   words |-> <<>>, matches |-> <<>>, meaning |-> <<>>, ranked |-> <<>>,
                   rows |-> <<>>, context |-> <<>>, still |-> TRUE]
    BY DEF Ask, NoSearch
  <2>4. search'.at \in SearchPlaces
    BY <1>1 DEF SearchPlaces
  <2>5. QED
    BY <1>1, <1>4, <2>1, <2>2, <2>3, <2>4 DEF SearchType
<1>6. ScopeOK'
  <2>1. ScopeDocs(q)' = ScopeDocs(q)
    BY <1>2 DEF ScopeDocs
  <2>2. q.kind = "notebook" /\ ScopeDocs(q) = {} => FindsNowhere(q)
    BY DEF FindsNowhere
  <2>3. q.kind \in {"document", "locked"} => ScopeDocs(q) = q.docs
    BY DEF ScopeDocs
  <2>4. q.kind \in {"all", "selection"} => ScopeDocs(q) = {}
    BY DEF ScopeDocs
  <2>5. AuthorizedSources(q)' = AuthorizedSources(q)
    OBVIOUS
  <2>6. QED
    BY <1>1, <1>4, <2>1, <2>2, <2>3, <2>4 DEF ScopeOK, Asked, Done
<1>7. ListsOK'
  BY <1>1 DEF ListsOK, Limited, Allowed, Done
<1>8. ReadingsOK' /\ SelectionOK'
  BY <1>1 DEF ReadingsOK, SelectionOK, Ranking
<1>9. NothingLeftOut'
  <2>1. CASE FindsNowhere(q)
    <3>1. Matching' = {}
      BY <1>1, <1>2, <2>1, NowhereMatches DEF Asked
    <3>2. QED
      BY <3>1 DEF NothingLeftOut
  <2>2. CASE ~ FindsNowhere(q)
    BY <1>1, <2>2 DEF NothingLeftOut, Done
  <2>3. QED
    BY <2>1, <2>2
<1>10. QED
  BY <1>2, <1>5, <1>6, <1>7, <1>8, <1>9 DEF RetrievalInv

\* A step before the answer that leaves question, limits and lists but for one.
LEMMA BeforeAnswer ==
  ASSUME RetrievalInv, UNCHANGED <<cut, owner, stored, moves>>,
         search.at \in {"words", "vectors", "meaning", "rank"},
         SearchType', search'.at \in Ranking,
         search'.question = search.question, search'.sources = search.sources, search'.docs = search.docs,
         search'.rows = search.rows, search'.context = search.context, search'.still = search.still,
         Limited(search'.words), Limited(search'.matches), Limited(search'.meaning), Limited(search'.ranked),
         \A i, j \in DOMAIN search'.ranked : i < j => Fingerprint(search'.ranked[i]) # Fingerprint(search'.ranked[j]),
         ReadingsOK', SelectionOK'
  PROVE  RetrievalInv'
<1>1. IndexerTypes'
  BY SameIndex DEF RetrievalInv
<1>2. ~Done /\ ~Done' /\ search'.at \notin {"idle", "locate", "done"}
  BY DEF Ranking, Done
<1>3. ScopeOK'
  BY <1>2 DEF RetrievalInv, ScopeOK, Asked, ScopeDocs, Done
<1>4. ListsOK'
  <2>1. \A c : Fingerprint(c)' = Fingerprint(c)
    BY DEF Fingerprint
  <2>2. search'.docs # {} =>
          /\ \A i \in DOMAIN search'.words : search'.words[i][1] \in search'.docs
          /\ \A i \in DOMAIN search'.matches : search'.matches[i][1] \in search'.docs
          /\ \A i \in DOMAIN search'.meaning : search'.meaning[i][1] \in search'.docs
          /\ \A i \in DOMAIN search'.ranked : search'.ranked[i][1] \in search'.docs
          /\ \A i \in DOMAIN search'.rows : search'.rows[i][1] \in search'.docs
    BY DEF Limited, RetrievalInv, ListsOK
  <2>3. search'.context = <<>>
    BY <1>2 DEF RetrievalInv, ListsOK
  <2>4. \A i, j \in DOMAIN search'.ranked : i < j => (Fingerprint(search.ranked[i]) # Fingerprint(search.ranked[j]))'
    BY <2>1
  <2>5. QED
    BY <1>2, <2>2, <2>3, <2>4 DEF ListsOK, Limited
<1>5. NothingLeftOut'
  BY <1>2 DEF NothingLeftOut
<1>6. QED
  BY <1>1, <1>3, <1>4, <1>5 DEF RetrievalInv

\* Reading the words.
LEMMA ReadWordsInv ==
  ASSUME RetrievalInv, ReadWords
  PROVE  RetrievalInv'
<1> DEFINE n == WordLimit(search.question.limit)
           all == Filter(search.question.words, InIndex)
<1>0. PICK hits \in Fetched :
        search' = [search EXCEPT !.at = "vectors", !.words = ChunksIn(First(hits, n))]
  BY DEF ReadWords
<1> DEFINE first == First(hits, n)
           list == ChunksIn(first)
<1>1. /\ search'.question = search.question /\ search'.at = "vectors" /\ search'.words = list
      /\ search'.sources = search.sources /\ search'.docs = search.docs
      /\ search'.matches = search.matches /\ search'.meaning = search.meaning
      /\ search'.ranked = search.ranked /\ search'.rows = search.rows
      /\ search'.context = search.context /\ search'.still = search.still
  BY <1>0 DEF RetrievalInv, SearchType
<1>2. UNCHANGED <<cut, owner, stored, moves>> /\ search.at = "words"
  BY DEF ReadWords
<1>3. Asked.words \in Seq(Docs \X Nat) /\ n \in Nat
  BY <1>2, AskedOK, RetrievalConstants DEF RetrievalInv, QuestionShaped, WordLimit, Asked
<1>4. /\ list \in Seq(ChunkIds) /\ Limited(list)
      /\ \A p \in InIndex : InWords(p) => ChunkOf(p) \in ToSet(list)
  <2>1. all \in Seq(Docs \X Nat)
    BY <1>3, Filtered DEF Asked
  <2>2. hits \in Seq(Docs \X Nat) /\ (Len(all) <= FetchLimit => hits = all)
    <3> HIDE DEF all
    <3>1. CASE Len(all) <= FetchLimit
      BY <2>1, <3>1 DEF Fetched, all
    <3>2. CASE ~(Len(all) <= FetchLimit)
      <4>1. PICK rows : hits = Filter(all, rows)
        BY <3>2 DEF Fetched, all
      <4>2. QED
        BY <2>1, <3>2, <4>1, Filtered
    <3>3. QED
      BY <3>1, <3>2
  <2>3. first \in Seq(Docs \X Nat)
    BY <1>3, <2>2, FirstOK
  <2>4. ASSUME NEW p \in InIndex, InWords(p)
        PROVE  p \in ToSet(first)
    <3>1. hits = all /\ Among(Asked.words, InIndex, n, p)
      BY <2>2, <2>4 DEF InWords, Asked
    <3>2. QED
      BY <1>3, <3>1, AmongOK DEF Asked
  <2> HIDE DEF first
  <2>5. QED
    BY <2>3, <2>4, ChunksInOK DEF RetrievalInv
<1>5. SearchType'
  <2> HIDE DEF list
  <2>1. search' = [search EXCEPT !.at = "vectors", !.words = list]
    BY <1>0 DEF list
  <2>2. QED
    BY <1>4, <2>1 DEF RetrievalInv, SearchType, SearchPlaces
<1> HIDE DEF list
<1>6. WordsRead'
  BY <1>1, <1>2, <1>4, SameMatches
<1>7. ReadingsOK' /\ SelectionOK'
  BY <1>1, <1>6 DEF ReadingsOK, SelectionOK, Ranking
<1>8. QED
  <2>1. Limited(search.matches) /\ Limited(search.meaning) /\ Limited(search.ranked)
        /\ \A i, j \in DOMAIN search.ranked : i < j => Fingerprint(search.ranked[i]) # Fingerprint(search.ranked[j])
    BY DEF RetrievalInv, ListsOK
  <2>2. search'.at \in Ranking
    BY <1>1 DEF Ranking
  <2>3. QED
    BY <1>1, <1>2, <1>4, <1>5, <1>7, <2>1, <2>2, BeforeAnswer

\* Reading the vectors.
LEMMA ReadVectorsInv ==
  ASSUME RetrievalInv, ReadVectors
  PROVE  RetrievalInv'
<1> DEFINE place == IF search.question.meaning = <<>> THEN "rank" ELSE "meaning"
<1>1. /\ search'.question = search.question /\ search'.at = place /\ search'.matches = Matches
      /\ search'.sources = search.sources /\ search'.docs = search.docs
      /\ search'.words = search.words /\ search'.meaning = search.meaning
      /\ search'.ranked = search.ranked /\ search'.rows = search.rows
      /\ search'.context = search.context /\ search'.still = search.still
  BY DEF ReadVectors, RetrievalInv, SearchType
<1>2. UNCHANGED <<cut, owner, stored, moves>> /\ search.at = "vectors"
  BY DEF ReadVectors
<1>3. Asked.meaning \in Seq(Docs \X Nat) /\ Asked.near \in Nat
  BY <1>2, AskedOK DEF RetrievalInv, QuestionShaped
<1>4. /\ Matches \in Seq(ChunkIds) /\ Limited(Matches)
      /\ \A p \in WithVectors : Among(Asked.meaning, WithVectors, VectorLimit, p) =>
           <<p[1], stored[p[1]].version, p[2]>> \in ToSet(Matches)
  BY <1>3, MatchesOK DEF RetrievalInv
<1>5. SearchType'
  <2>1. search' = [search EXCEPT !.at = place, !.matches = Matches]
    BY DEF ReadVectors
  <2>2. QED
    BY <1>4, <2>1 DEF RetrievalInv, SearchType, SearchPlaces
<1>6. VectorsRead'
  BY <1>1, <1>2, <1>4, SameMatches
<1>7. search.still => WordsRead'
  <2>1. search.still => WordsRead
    BY <1>2 DEF RetrievalInv, ReadingsOK, Ranking
  <2>2. WordsRead' <=> WordsRead
    BY <1>1, <1>2, SameMatches DEF WordsRead
  <2>3. QED
    BY <2>1, <2>2
<1>8. search'.at = "rank" => MeaningRead'
  <2> SUFFICES ASSUME Asked.meaning = <<>>, NEW p \in InIndex', InMeaning(p)'
               PROVE  FALSE
    BY <1>1 DEF MeaningRead, Asked
  <2> DEFINE near == First(Asked.meaning, Asked.near)
  <2>0. ToSet(Asked.meaning) = {}
    BY DEF ToSet
  <2>1. near \in Seq(Docs \X Nat) /\ ToSet(near) \subseteq ToSet(Asked.meaning)
    BY <1>3, FirstOK
  <2>2. near' = near
    BY <1>1 DEF Asked
  <2>3. p \in ToSet(near) \/ Among(near, InIndex', VectorLimit, p)
    BY <2>2 DEF InMeaning
  <2> HIDE DEF near
  <2>4. QED
    BY <2>0, <2>1, <2>3, AmongOK, RetrievalConstants
<1>9. ReadingsOK' /\ SelectionOK'
  BY <1>1, <1>6, <1>7, <1>8 DEF ReadingsOK, SelectionOK, Ranking
<1>10. QED
  <2>1. Limited(search.words) /\ Limited(search.meaning) /\ Limited(search.ranked)
        /\ \A i, j \in DOMAIN search.ranked : i < j => Fingerprint(search.ranked[i]) # Fingerprint(search.ranked[j])
    BY DEF RetrievalInv, ListsOK
  <2>2. search'.at \in Ranking
    BY <1>1 DEF Ranking
  <2>3. QED
    BY <1>1, <1>2, <1>4, <1>5, <1>9, <2>1, <2>2, BeforeAnswer

\* Reading the chunks of the matches.
LEMMA ReadMeaningInv ==
  ASSUME RetrievalInv, ReadMeaning
  PROVE  RetrievalInv'
<1>1. /\ search'.question = search.question /\ search'.at = "rank" /\ search'.meaning = Meaning
      /\ search'.sources = search.sources /\ search'.docs = search.docs
      /\ search'.words = search.words /\ search'.matches = search.matches
      /\ search'.ranked = search.ranked /\ search'.rows = search.rows
      /\ search'.context = search.context /\ search'.still = search.still
  BY DEF ReadMeaning, RetrievalInv, SearchType
<1>2. UNCHANGED <<cut, owner, stored, moves>> /\ search.at = "meaning"
  BY DEF ReadMeaning
<1>3. Asked.meaning \in Seq(Docs \X Nat) /\ Asked.near \in Nat
  BY <1>2, AskedOK DEF RetrievalInv, QuestionShaped
<1>4. /\ Limited(search.words) /\ Limited(search.matches) /\ Limited(search.ranked)
      /\ \A i, j \in DOMAIN search.ranked : i < j => Fingerprint(search.ranked[i]) # Fingerprint(search.ranked[j])
      /\ search.matches \in Seq(ChunkIds) /\ IndexerTypes
  BY DEF RetrievalInv, ListsOK, SearchType
<1>5. /\ Meaning \in Seq(ChunkIds) /\ Limited(Meaning)
      /\ VectorsRead => \A p \in InIndex :
                          VectorsSpeak(p[1]) /\ InMeaning(p) => ChunkOf(p) \in ToSet(Meaning)
  BY <1>3, <1>4, MeaningOK
<1>6. SearchType'
  <2>1. search' = [search EXCEPT !.at = "rank", !.meaning = Meaning]
    BY DEF ReadMeaning
  <2>2. QED
    BY <1>5, <2>1 DEF RetrievalInv, SearchType, SearchPlaces
<1>7. search.still => WordsRead /\ VectorsRead
  BY <1>2 DEF RetrievalInv, ReadingsOK, Ranking
<1>8. WordsRead' <=> WordsRead
  BY <1>1, <1>2, SameMatches DEF WordsRead
<1>9. VectorsRead' <=> VectorsRead
  BY <1>1, <1>2, SameMatches DEF VectorsRead
<1>10. VectorsRead => MeaningRead'
  BY <1>1, <1>2, <1>5, SameMatches
<1>11. ReadingsOK' /\ SelectionOK'
  BY <1>1, <1>7, <1>8, <1>9, <1>10 DEF ReadingsOK, SelectionOK, Ranking
<1>12. search'.at \in Ranking
  BY <1>1 DEF Ranking
<1>13. QED
  BY <1>1, <1>2, <1>4, <1>5, <1>6, <1>11, <1>12, BeforeAnswer

\* A document that is not kept is outscored by those that are.
LEMMA CandidatesOK ==
  ASSUME search.words \in Seq(ChunkIds), search.meaning \in Seq(ChunkIds), NEW docs \in Candidates,
         NEW d \in FoundDocs \ docs
  PROVE  Outscored(d)
<1>1. search.docs = {}
  BY DEF Candidates
<1>2. IsFiniteSet(Found)
  BY FiniteList, FS_Union DEF Found
<1> DEFINE first == [c \in Found |-> c[1]]
           others == {e \in FoundDocs \ {d} : Score(e) >= Score(d)}
<1>3. first \in Surjection(Found, FoundDocs)
  BY DEF FoundDocs, Surjection
<1> HIDE DEF first
<1>4. IsFiniteSet(FoundDocs) /\ Cardinality(FoundDocs) \in Nat
  BY <1>2, <1>3, FS_Surjection, FS_CardinalityType
<1>5. /\ docs \in SUBSET FoundDocs
      /\ Cardinality(docs) = IF Cardinality(FoundDocs) < CandidateDocs
                             THEN Cardinality(FoundDocs) ELSE CandidateDocs
      /\ \A e \in docs : Score(e) >= Score(d)
  BY <1>1 DEF Candidates
<1>6. Cardinality(docs) = CandidateDocs
  <2>1. Cardinality(docs) # Cardinality(FoundDocs)
    BY <1>4, <1>5, FS_Subset
  <2>2. QED
    BY <1>5, <2>1
<1>7. others \in SUBSET FoundDocs /\ docs \in SUBSET others
  BY <1>5
<1> HIDE DEF others
<1>8. IsFiniteSet(others) /\ Cardinality(docs) <= Cardinality(others) /\ Cardinality(others) \in Nat
  BY <1>4, <1>7, FS_Subset, FS_CardinalityType
<1>9. QED
  BY <1>1, <1>6, <1>8, RetrievalConstants DEF Outscored, others

\* Ranking and selecting.
LEMMA RankInv ==
  ASSUME RetrievalInv, Rank
  PROVE  RetrievalInv'
<1>1. PICK docs \in Candidates : search' = [search EXCEPT !.at = "filter", !.ranked = Selected(Places(docs))]
  BY DEF Rank
<1> DEFINE place == Places(docs)
           list == Selected(place)
<1>2. /\ search'.question = search.question /\ search'.at = "filter" /\ search'.ranked = list
      /\ search'.sources = search.sources /\ search'.docs = search.docs
      /\ search'.words = search.words /\ search'.matches = search.matches
      /\ search'.meaning = search.meaning /\ search'.rows = search.rows
      /\ search'.context = search.context /\ search'.still = search.still
  BY <1>1 DEF RetrievalInv, SearchType
<1>3. UNCHANGED <<cut, owner, stored, moves>> /\ search.at = "rank"
  BY DEF Rank
<1>4. Asked.limit \in Nat
  BY <1>3, AskedOK DEF RetrievalInv, QuestionShaped
<1>5. /\ search.words \in Seq(ChunkIds) /\ search.meaning \in Seq(ChunkIds)
      /\ Limited(search.words) /\ Limited(search.matches) /\ Limited(search.meaning)
  BY DEF RetrievalInv, SearchType, ListsOK
<1>6. /\ DOMAIN place = {c \in Found : c[1] \in docs}
      /\ IsFiniteSet(DOMAIN place)
      /\ \A c \in DOMAIN place : place[c] \in 1 .. Cardinality(DOMAIN place)
      /\ \A b, c \in DOMAIN place : b # c => place[b] # place[c]
  BY <1>5, PlacesOK
<1>7. Found \subseteq ChunkIds /\ (search.docs # {} => \A c \in Found : c[1] \in search.docs)
  <2>1. ToSet(search.words) \subseteq ChunkIds /\ ToSet(search.meaning) \subseteq ChunkIds
    BY <1>5, Elements
  <2>2. QED
    BY <1>5, <2>1 DEF Found, Limited, ToSet
<1> HIDE DEF place
<1>8. /\ list \in Seq(DOMAIN place)
      /\ \A i, j \in DOMAIN list : i < j => Fingerprint(list[i]) # Fingerprint(list[j])
      /\ \A c \in DOMAIN place : Settled(list, c)
  BY <1>4, <1>6, <1>7, SelectedOK
<1> HIDE DEF list
<1>9. list \in Seq(ChunkIds) /\ Limited(list)
  <2>1. list \in Seq(ChunkIds)
    BY <1>6, <1>7, <1>8, SeqMonotonic
  <2>2. ToSet(list) \subseteq Found
    BY <1>6, <1>8, Elements
  <2>3. QED
    BY <1>7, <2>1, <2>2 DEF Limited, ToSet
<1>10. SearchType'
  <2>1. search' = [search EXCEPT !.at = "filter", !.ranked = list]
    BY <1>1 DEF list, place
  <2>2. QED
    BY <1>9, <2>1 DEF RetrievalInv, SearchType, SearchPlaces
<1>11. SelectionOK'
  <2>1. Found' = Found /\ FoundDocs' = FoundDocs
    BY <1>2 DEF Found, FoundDocs
  <2>2. /\ \A c : Shown(search.ranked, c)' <=> Shown(list, c)
        /\ \A d : HasShare(search.ranked, d)' <=> HasShare(list, d)
    BY <1>2 DEF Shown, HasShare, Fingerprint
  <2>3. \A d : Outscored(d)' <=> Outscored(d)
    BY <1>2, <2>1 DEF Outscored, Score
  <2>4. ASSUME NEW c \in Found, ~(Len(list) >= Asked.limit)
        PROVE  Outscored(c[1]) \/ Shown(list, c) \/ HasShare(list, c[1])
    <3>1. CASE c[1] \in docs
      BY <1>6, <1>8, <2>4, <3>1 DEF Settled
    <3>2. CASE c[1] \notin docs
      BY <1>5, <3>2, CandidatesOK DEF FoundDocs
    <3>3. QED
      BY <3>1, <3>2
  <2>5. QED
    BY <1>2, <2>1, <2>2, <2>3, <2>4 DEF SelectionOK, Asked
<1>12. ReadingsOK'
  <2>1. search.still => WordsRead /\ VectorsRead /\ MeaningRead
    BY <1>3 DEF RetrievalInv, ReadingsOK, Ranking
  <2>2. WordsRead' <=> WordsRead
    BY <1>2, <1>3, SameMatches DEF WordsRead
  <2>3. VectorsRead' <=> VectorsRead
    BY <1>2, <1>3, SameMatches DEF VectorsRead
  <2>4. MeaningRead' <=> MeaningRead
    BY <1>2, <1>3, SameMatches DEF MeaningRead
  <2>5. QED
    BY <1>2, <2>1, <2>2, <2>3, <2>4 DEF ReadingsOK
<1>13. search'.at \in Ranking
  BY <1>2 DEF Ranking
<1>14. QED
  BY <1>2, <1>3, <1>5, <1>8, <1>9, <1>10, <1>11, <1>12, <1>13, BeforeAnswer

\* While the index does not change, every match was found.
LEMMA MatchesFound ==
  ASSUME RetrievalInv, search.at = "filter", search.still
  PROVE  Matching \subseteq Found
<1> SUFFICES ASSUME NEW c \in Matching
             PROVE  c \in Found
  OBVIOUS
<1>1. PICK d \in Docs : c \in ToSet(Chunks(d))
  BY DEF Matching
<1>2. PICK i \in 1 .. Size(d, cut[d]) : c = <<d, cut[d], i>>
  BY <1>1 DEF Chunks, ToSet
<1> DEFINE p == <<d, i>>
<1>3. Place(c) = p /\ c[1] = d /\ ChunkOf(p) = c
  BY <1>2 DEF Place, ChunkOf
<1>4. /\ Reached(d)
      /\ InWords(p) \/ (VectorsSpeak(d) /\ InMeaning(p))
  BY <1>3 DEF Matching
<1>5. InScope(d, owner[d])
  <2>1. /\ search.sources = AuthorizedSources(Asked)
        /\ search.docs = ScopeDocs(Asked)
        /\ Asked.kind = "notebook" => search.docs # {}
        /\ Asked.kind \in {"document", "locked"} => search.docs = Asked.docs
        /\ Asked.kind \in {"all", "selection"} => search.docs = {}
    BY DEF RetrievalInv, ScopeOK, Done
  <2>2. QuestionShaped(Asked)
    BY AskedOK DEF RetrievalInv
  <2>3. cut[d] # 0
    BY <1>2 DEF Size
  <2>4. CASE Asked.kind = "notebook"
    <3>1. d \in ScopeDocs(Asked)
      BY <1>4, <2>1, <2>3, <2>4 DEF Reached, ScopeDocs
    <3>2. QED
      BY <2>1, <3>1 DEF InScope
  <2>5. CASE Asked.kind \in {"document", "locked"}
    BY <1>4, <2>1, <2>5 DEF Reached, InScope
  <2>6. CASE Asked.kind \in {"all", "selection"}
    BY <1>4, <2>1, <2>6 DEF Reached, InScope
  <2>7. QED
    BY <2>2, <2>4, <2>5, <2>6 DEF QuestionShaped
<1>6. p \in InIndex
  BY <1>5 DEF InIndex
<1>7. WordsRead /\ MeaningRead
  BY DEF RetrievalInv, ReadingsOK, Ranking
<1>8. CASE InWords(p)
  <2>1. c \in ToSet(search.words)
    BY <1>3, <1>6, <1>7, <1>8 DEF WordsRead
  <2>2. QED
    BY <2>1 DEF Found
<1>9. CASE VectorsSpeak(d) /\ InMeaning(p)
  <2>1. c \in ToSet(search.meaning)
    BY <1>3, <1>6, <1>7, <1>9 DEF MeaningRead
  <2>2. QED
    BY <2>1 DEF Found
<1>10. QED
  BY <1>4, <1>8, <1>9

\* Answering.
LEMMA AnswerInv ==
  ASSUME RetrievalInv, Answer
  PROVE  RetrievalInv'
<1> DEFINE may == {c \in ToSet(search.ranked) : DocumentAuthorized(search.question, c[1])}
           list == Filter(search.ranked, may)
           next == IF search.question.kind = "selection" THEN "locate" ELSE "done"
<1>1. /\ search'.question = search.question /\ search'.at = next /\ search'.rows = list
      /\ search'.sources = search.sources /\ search'.docs = search.docs
      /\ search'.words = search.words /\ search'.matches = search.matches
      /\ search'.meaning = search.meaning /\ search'.ranked = search.ranked
      /\ search'.context = search.context /\ search'.still = search.still
  BY DEF Answer, RetrievalInv, SearchType, AuthorizedRows
<1>2. UNCHANGED <<cut, owner, stored, moves>> /\ search.at = "filter"
  BY DEF Answer
<1>3. search.ranked \in Seq(ChunkIds) /\ DOMAIN search.ranked = 1 .. Len(search.ranked) /\ Limited(search.ranked)
      /\ Len(search.ranked) \in Nat
  BY Elements DEF RetrievalInv, SearchType, ListsOK
<1>4. list \in Seq(ChunkIds) /\ ToSet(list) = ToSet(search.ranked) \cap may
  BY <1>3, Filtered
<1>5. Len(list) <= Len(search.ranked) /\ (Len(list) = Len(search.ranked) => list = search.ranked)
  BY <1>3, FilterMembers
<1>6. \A i, j \in 1 .. Len(list) : i < j => Fingerprint(list[i]) # Fingerprint(list[j])
  <2> DEFINE R == {x \in ChunkIds \X ChunkIds : Fingerprint(x[1]) # Fingerprint(x[2])}
  <2>1. \A i \in 1 .. Len(search.ranked) : search.ranked[i] \in ChunkIds
    BY <1>3, ElementOfSeq
  <2>2. \A i, j \in 1 .. Len(search.ranked) : i < j => Fingerprint(search.ranked[i]) # Fingerprint(search.ranked[j])
    BY <1>3 DEF RetrievalInv, ListsOK
  <2>3. \A i, j \in 1 .. Len(search.ranked) : i < j => <<search.ranked[i], search.ranked[j]>> \in R
    BY <2>1, <2>2
  <2> HIDE DEF R, may
  <2>4. \A i, j \in 1 .. Len(list) : i < j => <<list[i], list[j]>> \in R
    BY <1>3, <2>3, FilterOrder
  <2> HIDE DEF list
  <2>5. QED
    BY <2>4 DEF R
<1>7. DOMAIN list = 1 .. Len(list) /\ Len(list) \in Nat
  BY <1>4, Elements
<1>8. Limited(list) /\ Allowed(list)
  <2>1. \A i \in DOMAIN list : list[i] \in ToSet(search.ranked) /\ list[i] \in may
    BY <1>4 DEF ToSet
  <2>2. \A c \in ToSet(search.ranked) : search.docs # {} => c[1] \in search.docs
    BY <1>3 DEF ToSet, Limited
  <2> HIDE DEF list
  <2>3. QED
    BY <2>1, <2>2 DEF Limited, Allowed, Asked
<1> HIDE DEF list
<1>9. SearchType'
  <2>1. search' = [search EXCEPT !.at = next, !.rows = list]
    BY DEF Answer, AuthorizedRows, list
  <2>2. QED
    BY <1>4, <2>1 DEF RetrievalInv, SearchType, SearchPlaces
<1>10. IndexerTypes'
  BY <1>2, SameIndex DEF RetrievalInv
<1>11. ScopeOK'
  BY <1>1, <1>2 DEF RetrievalInv, ScopeOK, Asked, ScopeDocs, Done
<1>12. ListsOK'
  <2>1. \A c : Fingerprint(c)' = Fingerprint(c)
    BY <1>1 DEF Fingerprint
  <2>2. search.context = <<>>
    BY <1>2 DEF RetrievalInv, ListsOK, Done
  <2>3. Asked.kind # "selection" => \A i, j \in 1 .. Len(list) : i < j => TextOf(list[i]) # TextOf(list[j])
    BY <1>6 DEF Fingerprint, Asked
  <2>4. \A i, j \in DOMAIN search.ranked : i < j => (Fingerprint(search.ranked[i]) # Fingerprint(search.ranked[j]))'
    BY <1>1, <2>1 DEF RetrievalInv, ListsOK
  <2>5. Allowed(search.rows)' /\ Limited(search.rows)'
    BY <1>1, <1>8 DEF Allowed, Limited, Asked
  <2>6. Limited(search.words)' /\ Limited(search.matches)' /\ Limited(search.meaning)' /\ Limited(search.ranked)'
    BY <1>1 DEF RetrievalInv, ListsOK, Limited
  <2>7. Allowed(search.context)' /\ Limited(search.context)' /\ search'.context = <<>>
    BY <1>1, <2>2 DEF Allowed, Limited
  <2>8. Done' => \A i, j \in DOMAIN search'.rows : i < j => TextOf(search'.rows[i]) # TextOf(search'.rows[j])
    BY <1>1, <1>7, <2>3 DEF Done, Asked
  <2>9. search'.at = "locate" => Asked'.kind = "selection"
    BY <1>1 DEF Asked
  <2>10. QED
    BY <1>1, <2>4, <2>5, <2>6, <2>7, <2>8, <2>9 DEF ListsOK
<1>13. ReadingsOK' /\ SelectionOK'
  BY <1>1 DEF ReadingsOK, SelectionOK, Ranking
<1>14. NothingLeftOut'
  <2>1. Matching' = Matching /\ \A d : Outscored(d)' <=> Outscored(d)
    BY <1>1, <1>2, SameOutcome
  <2>2. /\ \A d : HasShare(search.ranked, d)' <=> HasShare(search.ranked, d)
        /\ \A c : Withheld(c)' <=> Withheld(c)
    BY <1>1, <1>2, SameOutcome
  <2>3. SUFFICES ASSUME search.still, Asked.kind # "selection", ~(Len(search.ranked) >= Asked.limit),
                        NEW c \in Matching
                 PROVE  \/ \E i \in DOMAIN list : TextOf(list[i]) = TextOf(c)
                        \/ HasShare(search.ranked, c[1])
                        \/ Outscored(c[1])
                        \/ Withheld(c)
    BY <1>1, <2>1, <2>2 DEF NothingLeftOut, Asked
  <2>4. c \in Found
    BY <1>2, <2>3, MatchesFound
  <2>5. Outscored(c[1]) \/ Shown(search.ranked, c) \/ HasShare(search.ranked, c[1])
    BY <1>2, <2>3, <2>4 DEF RetrievalInv, SelectionOK
  <2>6. ASSUME NEW i \in DOMAIN search.ranked, Fingerprint(search.ranked[i]) = Fingerprint(c)
        PROVE  Withheld(c) \/ \E j \in DOMAIN list : TextOf(list[j]) = TextOf(c)
    <3>1. TextOf(search.ranked[i]) = TextOf(c)
      BY <2>3, <2>6 DEF Fingerprint, Asked
    <3>2. CASE DocumentAuthorized(Asked, search.ranked[i][1])
      <4>1. search.ranked[i] \in ToSet(list)
        BY <1>4, <3>2 DEF ToSet, Asked
      <4>2. QED
        BY <3>1, <4>1 DEF ToSet
    <3>3. CASE ~DocumentAuthorized(Asked, search.ranked[i][1])
      BY <3>1, <3>3 DEF Withheld
    <3>4. QED
      BY <3>2, <3>3
  <2>7. QED
    BY <2>5, <2>6 DEF Shown
<1>15. QED
  BY <1>9, <1>10, <1>11, <1>12, <1>13, <1>14 DEF RetrievalInv

\* A search that hands out one row at most, and texts of its document.
LEMMA LocatedInv ==
  ASSUME RetrievalInv, search.at = "locate", UNCHANGED <<cut, owner, stored, moves>>,
         NEW handed \in Seq(ChunkIds), NEW near \in Seq(ChunkIds),
         search' = [search EXCEPT !.at = "done", !.rows = handed, !.context = near],
         Limited(handed), Allowed(handed), Limited(near), Allowed(near), Len(handed) <= 1
  PROVE  RetrievalInv'
<1>1. Asked.kind = "selection" /\ ~Done
  BY DEF RetrievalInv, ListsOK, Done
<1>2. /\ search'.question = search.question /\ search'.at = "done"
      /\ search'.rows = handed /\ search'.context = near
      /\ search'.sources = search.sources /\ search'.docs = search.docs
      /\ search'.words = search.words /\ search'.matches = search.matches
      /\ search'.meaning = search.meaning /\ search'.ranked = search.ranked
      /\ search'.still = search.still
  BY DEF RetrievalInv, SearchType
<1>3. SearchType'
  BY DEF RetrievalInv, SearchType, SearchPlaces
<1>4. IndexerTypes'
  BY SameIndex DEF RetrievalInv
<1>5. ScopeOK'
  BY <1>1, <1>2 DEF RetrievalInv, ScopeOK, Asked, ScopeDocs, Done
<1>6. ListsOK'
  <2>1. \A c : Fingerprint(c)' = Fingerprint(c)
    BY <1>2 DEF Fingerprint
  <2>2. \A i, j \in DOMAIN search.ranked : i < j => (Fingerprint(search.ranked[i]) # Fingerprint(search.ranked[j]))'
    BY <1>2, <2>1 DEF RetrievalInv, ListsOK
  <2>3. Limited(search.words)' /\ Limited(search.matches)' /\ Limited(search.meaning)' /\ Limited(search.ranked)'
    BY <1>2 DEF RetrievalInv, ListsOK, Limited
  <2>4. Limited(search.rows)' /\ Allowed(search.rows)' /\ Limited(search.context)' /\ Allowed(search.context)'
    BY <1>2 DEF Limited, Allowed, Asked
  <2>5. \A i, j \in DOMAIN search'.rows : ~(i < j)
    <3>1. DOMAIN handed = 1 .. Len(handed) /\ Len(handed) \in Nat
      BY Elements
    <3>2. QED
      BY <1>2, <3>1
  <2>6. QED
    BY <1>2, <2>2, <2>3, <2>4, <2>5 DEF ListsOK, Done
<1>7. ReadingsOK' /\ SelectionOK' /\ NothingLeftOut'
  BY <1>1, <1>2 DEF ReadingsOK, SelectionOK, NothingLeftOut, Ranking, Asked
<1>8. QED
  BY <1>3, <1>4, <1>5, <1>6, <1>7 DEF RetrievalInv

\* Locating a selection: its row, and the texts next to it.
LEMMA LocateInv ==
  ASSUME RetrievalInv, Locate
  PROVE  RetrievalInv'
<1>1. UNCHANGED <<cut, owner, stored, moves>> /\ search.at = "locate" /\ ~Done
  BY DEF Locate, Done
<1>2. /\ search.rows \in Seq(ChunkIds) /\ Limited(search.rows) /\ Allowed(search.rows)
      /\ Asked.kind = "selection" /\ IndexerTypes
  BY <1>1 DEF RetrievalInv, ListsOK, SearchType
<1> DEFINE Handed(handed, near) ==
             /\ search' = [search EXCEPT !.at = "done", !.rows = handed, !.context = near]
             /\ Limited(handed) /\ Allowed(handed) /\ Limited(near) /\ Allowed(near) /\ Len(handed) <= 1
<1>3. ASSUME search' = [search EXCEPT !.at = "done", !.rows = <<>>]
      PROVE  \E handed, near \in Seq(ChunkIds) : Handed(handed, near)
  <2>1. search.context = <<>>
    BY <1>1 DEF RetrievalInv, ListsOK
  <2>2. search' = [search EXCEPT !.at = "done", !.rows = <<>>, !.context = <<>>]
    BY <1>3, <2>1 DEF RetrievalInv, SearchType
  <2>3. <<>> \in Seq(ChunkIds) /\ Len(<<>>) = 0 /\ Limited(<<>>) /\ Allowed(<<>>)
    BY EmptySeq DEF Limited, Allowed
  <2>4. Handed(<<>>, <<>>)
    BY <2>2, <2>3
  <2> HIDE DEF Handed
  <2>5. QED
    BY <2>3, <2>4
<1>4. ASSUME NEW best \in ToSet(search.rows),
             search' = [search EXCEPT !.at = "done", !.rows = <<best>>,
                          !.context = SubSeq(Chunks(best[1]),
                            IF PlaceNow(best) = 1 THEN 1 ELSE PlaceNow(best) - 1,
                            IF PlaceNow(best) < Len(Chunks(best[1])) THEN PlaceNow(best) + 1
                            ELSE Len(Chunks(best[1])))]
      PROVE  \E handed, near \in Seq(ChunkIds) : Handed(handed, near)
  <2> DEFINE d == best[1]
             list == Chunks(d)
             at == PlaceNow(best)
             m == IF at = 1 THEN 1 ELSE at - 1
             n == IF at < Len(list) THEN at + 1 ELSE Len(list)
             near == SubSeq(list, m, n)
  <2>1. /\ best \in ChunkIds /\ DocumentAuthorized(Asked, best[1])
        /\ search.docs # {} => best[1] \in search.docs
    BY <1>2, Elements DEF ToSet, Limited, Allowed
  <2>2. d \in Docs /\ best[3] \in Nat \ {0} /\ cut[d] \in Nat
    BY <1>2, <2>1 DEF ChunkIds, IndexerTypes
  <2>3. Size(d, cut[d]) \in Nat
    BY <2>2, SizeOK
  <2>4. Len(list) = Size(d, cut[d]) /\ \A i \in 1 .. Size(d, cut[d]) : list[i] = <<d, cut[d], i>>
    BY <2>3 DEF Chunks
  <2>5. at \in Nat \ {0} /\ (at <= Size(d, cut[d]) \/ at = 1)
    BY <2>2, <2>3 DEF PlaceNow
  <2> HIDE DEF d, list, at
  <2>6. m \in Nat \ {0} /\ n \in Nat /\ n <= Size(d, cut[d])
    BY <2>3, <2>4, <2>5
  <2> HIDE DEF m, n
  <2>7. ASSUME NEW i \in m .. n
        PROVE  list[i] \in ChunkIds /\ list[i][1] = d
    <3>1. i \in 1 .. Size(d, cut[d])
      BY <2>3, <2>6
    <3>2. list[i] = <<d, cut[d], i>>
      BY <2>4, <3>1
    <3>3. i \in Nat \ {0}
      BY <2>3, <3>1
    <3>4. QED
      BY <2>2, <3>2, <3>3 DEF ChunkIds
  <2>8. /\ near \in Seq(ChunkIds)
        /\ Len(near) = IF m <= n THEN n - m + 1 ELSE 0
        /\ \A i \in 1 .. n - m + 1 : near[i] = list[m + i - 1]
    BY <2>6, <2>7, SubSeqProperties
  <2> HIDE DEF near
  <2>9. \A i \in DOMAIN near : near[i][1] = d
    <3>1. DOMAIN near = 1 .. Len(near)
      BY <2>8, Elements
    <3>2. ASSUME NEW i \in 1 .. Len(near)
          PROVE  i \in 1 .. n - m + 1 /\ m + i - 1 \in m .. n
      BY <2>6, <2>8
    <3>3. QED
      BY <2>7, <2>8, <3>1, <3>2
  <2>10. Limited(near) /\ Allowed(near)
    BY <2>1, <2>9 DEF Limited, Allowed, d
  <2>11. <<best>> \in Seq(ChunkIds) /\ Len(<<best>>) = 1 /\ Limited(<<best>>) /\ Allowed(<<best>>)
    BY <2>1 DEF Limited, Allowed
  <2>12. search' = [search EXCEPT !.at = "done", !.rows = <<best>>, !.context = near]
    BY <1>4 DEF near, m, n, at, list, d
  <2>13. Handed(<<best>>, near)
    BY <2>10, <2>11, <2>12
  <2> HIDE DEF Handed
  <2>14. QED
    BY <2>8, <2>11, <2>13
<1>5. PICK handed \in Seq(ChunkIds), near \in Seq(ChunkIds) : Handed(handed, near)
  BY <1>3, <1>4 DEF Locate
<1>6. QED
  BY <1>1, <1>5, LocatedInv

\* The indexer's steps, which leave the search but for the note that it moved.
LEMMA MovedInv ==
  ASSUME RetrievalInv, IndexerTypes', search' = [search EXCEPT !.still = FALSE]
  PROVE  RetrievalInv'
<1>1. /\ search'.question = search.question /\ search'.at = search.at /\ search'.still = FALSE
      /\ search'.sources = search.sources /\ search'.docs = search.docs
      /\ search'.words = search.words /\ search'.matches = search.matches
      /\ search'.meaning = search.meaning /\ search'.ranked = search.ranked
      /\ search'.rows = search.rows /\ search'.context = search.context
  BY DEF RetrievalInv, SearchType
<1>2. SearchType'
  BY DEF RetrievalInv, SearchType
<1>3. ScopeOK'
  BY <1>1 DEF RetrievalInv, ScopeOK, Asked, Done
<1>4. ListsOK'
  BY <1>1 DEF RetrievalInv, ListsOK, Limited, Allowed, Fingerprint, Asked, Done
<1>5. ReadingsOK' /\ NothingLeftOut'
  BY <1>1 DEF ReadingsOK, NothingLeftOut
<1>6. SelectionOK'
  <2>1. Found' = Found /\ \A d : Outscored(d)' <=> Outscored(d)
    BY <1>1 DEF Found, FoundDocs, Outscored, Score
  <2>2. /\ \A c : Shown(search.ranked, c)' <=> Shown(search.ranked, c)
        /\ \A d : HasShare(search.ranked, d)' <=> HasShare(search.ranked, d)
    BY <1>1 DEF Shown, HasShare, Fingerprint
  <2>3. QED
    BY <1>1, <2>1, <2>2 DEF RetrievalInv, SelectionOK, Asked
<1>7. QED
  BY <1>2, <1>3, <1>4, <1>5, <1>6 DEF RetrievalInv

\* A file cut anew, its vectors stored, or a file dropped.
LEMMA IndexerInv ==
  ASSUME RetrievalInv, NEW d \in Docs,
         StoreVectors(d) \/ Drop(d) \/ \E f \in Folders : CutAnew(d, f)
  PROVE  RetrievalInv'
<1>1. search' = [search EXCEPT !.still = FALSE] /\ moves' \in Nat
  BY DEF StoreVectors, Drop, CutAnew, Moves, RetrievalInv, IndexerTypes
<1>2. IndexerTypes
  BY DEF RetrievalInv
<1>3. ASSUME StoreVectors(d)
      PROVE  IndexerTypes'
  <2>1. stored' = [stored EXCEPT ![d] = [version |-> cut[d], source |-> owner[d]]] /\ UNCHANGED <<cut, owner>>
    BY <1>3 DEF StoreVectors
  <2>2. [version |-> cut[d], source |-> owner[d]] \in [version : Nat, source : Folders]
    BY <1>2 DEF IndexerTypes
  <2>3. QED
    BY <1>1, <1>2, <2>1, <2>2 DEF IndexerTypes, Under
<1>4. ASSUME Drop(d)
      PROVE  IndexerTypes'
  BY <1>1, <1>2, <1>4 DEF Drop, IndexerTypes, Under
<1>5. ASSUME NEW f \in Folders, CutAnew(d, f)
      PROVE  IndexerTypes'
  <2>1. /\ cut' = [cut EXCEPT ![d] = @ + 1] /\ owner' = [owner EXCEPT ![d] = f]
        /\ d \in Under(f) /\ stored' = stored
    BY <1>5 DEF CutAnew
  <2>2. cut' \in [Docs -> Nat] /\ owner' \in [Docs -> Folders]
    BY <1>2, <2>1 DEF IndexerTypes
  <2>3. \A e \in Docs : e \in Under(owner'[e])
    BY <1>2, <2>1 DEF IndexerTypes
  <2>4. QED
    BY <1>1, <1>2, <2>1, <2>2, <2>3 DEF IndexerTypes, Under
<1>6. IndexerTypes' => RetrievalInv'
  BY <1>1, MovedInv
<1>7. QED
  BY <1>3, <1>4, <1>5, <1>6

\* Steps that leave the search and the index alone.
LEMMA RetrievalQuiet ==
  ASSUME RetrievalInv, UNCHANGED retrievalVars
  PROVE  RetrievalInv'
<1>1. UNCHANGED <<cut, owner, stored, search, moves>>
  BY DEF retrievalVars
<1>2. IndexerTypes' /\ SearchType' /\ ScopeOK'
  <2>1. IndexerTypes'
    BY <1>1, SameIndex DEF RetrievalInv
  <2>2. QED
    BY <1>1, <2>1 DEF RetrievalInv, SearchType, ScopeOK, Asked, Done, ScopeDocs
<1>3. ListsOK'
  BY <1>1 DEF RetrievalInv, ListsOK, Limited, Allowed, Fingerprint, Asked, Done
<1>4. /\ Matching' = Matching /\ Found' = Found /\ \A d : Outscored(d)' <=> Outscored(d)
      /\ \A d : HasShare(search.ranked, d)' <=> HasShare(search.ranked, d)
      /\ \A c : (Withheld(c)' <=> Withheld(c)) /\ (Shown(search.ranked, c)' <=> Shown(search.ranked, c))
  BY <1>1, SameOutcome
<1>5. ReadingsOK'
  <2>1. (WordsRead' <=> WordsRead) /\ (VectorsRead' <=> VectorsRead) /\ (MeaningRead' <=> MeaningRead)
    BY <1>1, SameMatches DEF WordsRead, VectorsRead, MeaningRead
  <2>2. QED
    BY <1>1, <2>1 DEF RetrievalInv, ReadingsOK
<1>6. SelectionOK'
  BY <1>1, <1>4 DEF RetrievalInv, SelectionOK, Asked
<1>7. NothingLeftOut'
  BY <1>1, <1>4 DEF RetrievalInv, NothingLeftOut, Asked, Done
<1>8. QED
  BY <1>2, <1>3, <1>5, <1>6, <1>7 DEF RetrievalInv

\* The invariant of a search, whatever the indexer does meanwhile.
LEMMA RetrievalKept == RetrievalSpec => []RetrievalInv
<1>1. RetrievalInv /\ [RetrievalNext]_retrievalVars => RetrievalInv'
  <2> SUFFICES ASSUME RetrievalInv, [RetrievalNext]_retrievalVars
               PROVE  RetrievalInv'
    OBVIOUS
  <2>1. ASSUME NEW q \in Questions, Ask(q)
        PROVE  RetrievalInv'
    BY <2>1, AskInv
  <2>2. CASE ReadWords
    BY <2>2, ReadWordsInv
  <2>3. CASE ReadVectors
    BY <2>3, ReadVectorsInv
  <2>4. CASE ReadMeaning
    BY <2>4, ReadMeaningInv
  <2>5. CASE Rank
    BY <2>5, RankInv
  <2>6. CASE Answer
    BY <2>6, AnswerInv
  <2>7. CASE Locate
    BY <2>7, LocateInv
  <2>8. ASSUME NEW d \in Docs, StoreVectors(d) \/ Drop(d) \/ \E f \in Folders : CutAnew(d, f)
        PROVE  RetrievalInv'
    BY <2>8, IndexerInv
  <2>9. CASE UNCHANGED retrievalVars
    BY <2>9, RetrievalQuiet
  <2>10. QED
    BY <2>1, <2>2, <2>3, <2>4, <2>5, <2>6, <2>7, <2>8, <2>9 DEF RetrievalNext
<1>2. QED
  BY <1>1, RetrievalInitInv, PTL DEF RetrievalSpec

\* The members of two lists put together.
LEMMA TextsJoined ==
  ASSUME NEW A, NEW list \in Seq(A), NEW more \in Seq(A)
  PROVE  \A i \in DOMAIN (list \o more) : (list \o more)[i] \in ToSet(list) \cup ToSet(more)
<1> DEFINE m == Len(list)
           n == Len(more)
           out == list \o more
<1>1. m \in Nat /\ n \in Nat /\ DOMAIN list = 1 .. m /\ DOMAIN more = 1 .. n
  BY Elements
<1>2. /\ out \in Seq(A) /\ Len(out) = m + n
      /\ \A i \in 1 .. m + n : out[i] = IF i <= m THEN list[i] ELSE more[i - m]
  BY ConcatProperties
<1>3. DOMAIN out = 1 .. m + n
  BY <1>2, Elements
<1> HIDE DEF m, n, out
<1>4. ASSUME NEW i \in DOMAIN out
      PROVE  out[i] \in ToSet(list) \cup ToSet(more)
  <2>1. i \in 1 .. m + n
    BY <1>3
  <2>2. CASE i <= m
    <3>1. i \in DOMAIN list /\ out[i] = list[i]
      BY <1>1, <1>2, <2>1, <2>2
    <3>2. QED
      BY <3>1 DEF ToSet
  <2>3. CASE ~(i <= m)
    <3>1. i - m \in DOMAIN more
      BY <1>1, <2>1, <2>3
    <3>2. out[i] = more[i - m]
      BY <1>2, <2>1, <2>3
    <3>3. QED
      BY <3>1, <3>2 DEF ToSet
  <2>4. QED
    BY <1>1, <2>1, <2>2, <2>3
<1>5. QED
  BY <1>4 DEF out

\* The invariant's lists are what the answer consists of.
LEMMA ListsInScope == RetrievalInv => EvidenceInScope
<1> SUFFICES ASSUME RetrievalInv, Done
             PROVE  EvidenceInScope
  BY DEF EvidenceInScope
<1> DEFINE out == search.rows \o search.context
<1>1. /\ search.rows \in Seq(ChunkIds) /\ search.context \in Seq(ChunkIds)
      /\ Limited(search.rows) /\ Limited(search.context)
      /\ Allowed(search.rows) /\ Allowed(search.context)
  BY DEF RetrievalInv, SearchType, ListsOK, Done
<1>2. \A i \in DOMAIN out : out[i] \in ToSet(search.rows) \cup ToSet(search.context)
  BY <1>1, TextsJoined
<1>3. \A c \in ToSet(search.rows) \cup ToSet(search.context) :
        DocumentAuthorized(Asked, c[1]) /\ (search.docs # {} => c[1] \in search.docs)
  BY <1>1 DEF Limited, Allowed, ToSet
<1>4. /\ QuestionShaped(Asked)
      /\ search.docs \subseteq Asked.docs
      /\ Asked.kind \in {"document", "locked"} => search.docs = Asked.docs
      /\ Asked.kind = "notebook" /\ search.docs = {} => search.rows = <<>> /\ search.context = <<>>
  BY AskedOK DEF RetrievalInv, ScopeOK, Done
<1>5. ASSUME NEW i \in DOMAIN out
      PROVE  /\ DocumentAuthorized(Asked, out[i][1])
             /\ Asked.kind \in {"document", "locked", "notebook"} => out[i][1] \in Asked.docs
  <2>1. out[i] \in ToSet(search.rows) \cup ToSet(search.context)
    BY <1>2
  <2>2. Asked.kind \in {"document", "locked"} => search.docs # {}
    BY <1>4 DEF QuestionShaped
  <2>3. Asked.kind = "notebook" => search.docs # {}
    BY <1>4, <2>1 DEF ToSet
  <2> HIDE DEF out
  <2>4. QED
    BY <1>3, <1>4, <2>1, <2>2, <2>3
<1>6. \A i, j \in DOMAIN search.rows : i # j => TextOf(search.rows[i]) # TextOf(search.rows[j])
  <2>1. \A i, j \in DOMAIN search.rows : i < j => TextOf(search.rows[i]) # TextOf(search.rows[j])
    BY DEF RetrievalInv, ListsOK
  <2>2. DOMAIN search.rows = 1 .. Len(search.rows) /\ Len(search.rows) \in Nat
    BY <1>1, Elements
  <2>3. \A i, j \in DOMAIN search.rows : i # j => i < j \/ j < i
    BY <2>2
  <2>4. QED
    BY <2>1, <2>3
<1>7. QED
  BY <1>5, <1>6 DEF EvidenceInScope

\* Evidence comes from where the question may look: whatever the indexer does
\* between the readings, and whoever owns a row or stored a vector, an answer
\* of any length holds only documents the question was given, and no text twice
\* (document_index.py: search, search_document, locate_selection).
THEOREM EvidenceStaysInScope == RetrievalSpec => []EvidenceInScope
BY RetrievalKept, ListsInScope, PTL

\* An answer with room to spare leaves out no match, for any texts, questions
\* and limits: both readings, their common order and the selection lose nothing
\* but what NothingLeftOut names (document_index.py: _hybrid_search).
THEOREM NoMatchLeftOut == RetrievalSpec => []NothingLeftOut
<1>1. RetrievalInv => NothingLeftOut
  BY DEF RetrievalInv
<1>2. QED
  BY <1>1, RetrievalKept, PTL

-----------------------------------------------------------------------------
(* FullDocument: a question about a whole document *)

ChunkRecords == [size : Nat, weight : Nat]

\* The size of some chunks is a number.
LEMMA SizeNatural ==
  ASSUME document \in Seq(ChunkRecords), NEW places \in Seq(DOMAIN document)
  PROVE  SizeOf(places) \in Nat
<1> DEFINE sizes == [k \in DOMAIN places |-> document[places[k]].size]
<1>1. Len(places) \in Nat /\ DOMAIN places = 1 .. Len(places)
      /\ \A k \in DOMAIN places : document[places[k]] \in ChunkRecords
  OBVIOUS
<1>2. sizes \in [1 .. Len(places) -> Nat]
  BY <1>1 DEF ChunkRecords
<1>3. sizes \in Seq(Nat)
  <2> HIDE DEF sizes
  <2>1. QED
    BY <1>1, <1>2, SeqDef
<1>4. QED
  BY <1>3, SumNatural DEF SizeOf

\* Who stands before a chunk of its section when the weightiest are chosen.
HigherRanked(i) ==
  {j \in SectionOf(i) : Weight(j) > Weight(i) \/ (Weight(j) = Weight(i) /\ j < i)}

\* Every section keeps a chunk: the one with the fewest before it has none.
LEMMA SectionKeepsOne ==
  ASSUME document \in Seq(ChunkRecords), NEW c \in DOMAIN document, PerSection \in Nat \ {0}
  PROVE  \E i \in SectionOf(c) : Kept(i)
<1> DEFINE D == DOMAIN document
           S == SectionOf(c)
           ranks == {Cardinality(HigherRanked(i)) : i \in S}
<1>1. D = 1 .. Len(document) /\ Len(document) \in Nat /\ IsFiniteSet(D)
      /\ \A i \in D : document[i] \in ChunkRecords
  BY FS_Interval
<1>2. S \subseteq D /\ c \in S /\ \A i \in S : SectionOf(i) = S
  BY DEF SectionOf
<1>3. \A i \in D : Weight(i) \in Nat
  <2> TAKE i \in D
  <2>1. document[i].weight \in Nat
    BY <1>1 DEF ChunkRecords
  <2>2. QED
    BY <2>1 DEF Weight
<1>4. \A i \in S : IsFiniteSet(HigherRanked(i)) /\ Cardinality(HigherRanked(i)) \in Nat
  <2> TAKE i \in S
  <2>1. HigherRanked(i) \subseteq D
    BY <1>2 DEF HigherRanked
  <2>2. QED
    BY <1>1, <2>1, FS_Subset, FS_CardinalityType
<1> HIDE DEF S, D
<1>5. ranks \subseteq Nat /\ ranks # {}
  BY <1>2, <1>4
<1>6. PICK r \in ranks : \A m \in ranks : r <= m
  <2> HIDE DEF ranks
  <2>1. QED
    BY <1>5, Smallest, Zenon
<1>7. PICK i \in S : r = Cardinality(HigherRanked(i))
  BY <1>6
<1>8. HigherRanked(i) = {}
  <2> SUFFICES ASSUME NEW j \in HigherRanked(i)
               PROVE  FALSE
    OBVIOUS
  <2>1. j \in S /\ (Weight(j) > Weight(i) \/ (Weight(j) = Weight(i) /\ j < i))
    BY <1>2, <1>7 DEF HigherRanked
  <2>2. i \in D /\ j \in D /\ D \subseteq Nat
    BY <1>1, <1>2, <1>7, <2>1
  <2>3. HigherRanked(j) \subseteq HigherRanked(i) /\ j \notin HigherRanked(j)
    <3>1. ASSUME NEW k \in HigherRanked(j)
          PROVE  k \in HigherRanked(i)
      <4>1. k \in S /\ (Weight(k) > Weight(j) \/ (Weight(k) = Weight(j) /\ k < j))
        BY <1>2, <2>1 DEF HigherRanked
      <4>2. k \in D
        BY <1>2, <4>1
      <4>3. Weight(k) > Weight(i) \/ (Weight(k) = Weight(i) /\ k < i)
        BY <1>3, <2>1, <2>2, <4>1, <4>2
      <4>4. QED
        BY <1>2, <1>7, <4>1, <4>3 DEF HigherRanked
    <3>2. j \notin HigherRanked(j)
      BY <1>3, <2>2 DEF HigherRanked
    <3>3. QED
      BY <3>1, <3>2
  <2>4. Cardinality(HigherRanked(j)) <= Cardinality(HigherRanked(i)) /\ Cardinality(HigherRanked(j)) # Cardinality(HigherRanked(i))
    BY <1>4, <1>7, <2>3, FS_Subset
  <2>5. Cardinality(HigherRanked(j)) \in ranks
    BY <2>1
  <2>6. r <= Cardinality(HigherRanked(j))
    BY <1>6, <2>5
  <2>7. Cardinality(HigherRanked(i)) \in Nat /\ Cardinality(HigherRanked(j)) \in Nat
    BY <1>4, <1>7, <2>1
  <2>8. QED
    BY <1>7, <2>4, <2>6, <2>7
<1>9. Kept(i)
  <2>1. Cardinality(HigherRanked(i)) = 0
    BY <1>8, FS_EmptySet
  <2>2. QED
    BY <2>1 DEF Kept, HigherRanked
<1>10. QED
  BY <1>7, <1>9 DEF S

Increasing(chunks) == \A i, j \in 1 .. Len(chunks) : i < j => chunks[i] < chunks[j]

\* The chosen chunks are in the order of the document and no section is without one.
LEMMA SelectedChunksOK ==
  ASSUME document \in Seq(ChunkRecords), PerSection \in Nat \ {0}, MaxChars \in Nat
  PROVE  /\ SelectedChunks \in Seq(DOMAIN document)
         /\ Increasing(SelectedChunks)
         /\ \A c \in DOMAIN document : \E k \in 1 .. Len(SelectedChunks) : SelectedChunks[k] \in SectionOf(c)
         /\ SizeOf(AllChunks) <= MaxChars =>
              \A c \in DOMAIN document : \E k \in 1 .. Len(SelectedChunks) : SelectedChunks[k] = c
<1> DEFINE N == Len(document)
           all == AllChunks
           S == {i \in DOMAIN document : Kept(i)}
<1>1. N \in Nat /\ DOMAIN document = 1 .. N
  OBVIOUS
<1>2. all \in Seq(DOMAIN document) /\ Len(all) = N /\ \A i \in 1 .. N : all[i] = i
  <2>1. all = [i \in 1 .. N |-> i] /\ all \in [1 .. N -> DOMAIN document]
    BY <1>1 DEF AllChunks
  <2>2. QED
    BY <1>1, <2>1, SeqDef
<1>3. SizeOf(all) \in Nat
  BY <1>2, SizeNatural
<1>4. \A c \in DOMAIN document : c \in SectionOf(c)
  BY DEF SectionOf
<1>5. CASE ~(SizeOf(all) > MaxChars)
  <2>1. SelectedChunks = all
    BY <1>5 DEF SelectedChunks
  <2>2. QED
    BY <1>1, <1>2, <1>4, <2>1 DEF Increasing
<1>6. CASE SizeOf(all) > MaxChars
  <2> DEFINE R == {pair \in Nat \X Nat : pair[1] < pair[2]}
             F == Filter(all, S)
  <2>1. SelectedChunks = F
    BY <1>6 DEF SelectedChunks
  <2> HIDE DEF S, all
  <2>2. ASSUME NEW i \in 1 .. Len(all), NEW j \in 1 .. Len(all), i < j
        PROVE  <<all[i], all[j]>> \in R
    <3>1. all[i] = i /\ all[j] = j /\ i \in Nat /\ j \in Nat
      BY <1>1, <1>2
    <3>2. QED
      BY <2>2, <3>1
  <2> HIDE DEF R
  <2>3. \A i, j \in 1 .. Len(F) : i < j => <<F[i], F[j]>> \in R
    BY <1>2, <2>2, FilterOrder
  <2>4. /\ F \in Seq(DOMAIN document)
        /\ \A j \in 1 .. Len(all) : all[j] \in S => \E i \in 1 .. Len(F) : F[i] = all[j]
    BY <1>2, FilterMembers
  <2>5. ASSUME NEW c \in DOMAIN document
        PROVE  \E k \in 1 .. Len(F) : F[k] \in SectionOf(c)
    <3>1. PICK i \in SectionOf(c) : Kept(i)
      BY SectionKeepsOne
    <3>2. i \in S /\ i \in 1 .. N
      BY <1>1, <3>1 DEF S, SectionOf
    <3>3. QED
      BY <1>2, <2>4, <3>1, <3>2, ZenonT(40)
  <2>6. Increasing(F)
    BY <2>3 DEF Increasing, R
  <2>7. ~(SizeOf(all) <= MaxChars)
    BY <1>3, <1>6
  <2>8. QED
    BY <2>1, <2>4, <2>5, <2>6, <2>7 DEF all
<1>7. QED
  BY <1>5, <1>6

MadeBatches == {made \in Seq(Seq(Nat)) : made # <<>>}

\* A chunk has come to the end, and all others are where they were.
EndsWith(made, new, i) ==
  /\ Len(made) <= MaxTextBatches => Len(new) <= MaxTextBatches
  /\ \A b \in 1 .. Len(new) : \A k \in 1 .. Len(new[b]) :
       \/ b = Len(new) /\ k = Len(new[b]) /\ new[b][k] = i
       \/ /\ b \in 1 .. Len(made) /\ k \in 1 .. Len(made[b]) /\ new[b][k] = made[b][k]
          /\ b < Len(new) \/ k < Len(new[b])
  /\ \A b \in 1 .. Len(made) : \A k \in 1 .. Len(made[b]) :
       b \in 1 .. Len(new) /\ k \in 1 .. Len(new[b]) /\ new[b][k] = made[b][k]
  /\ Len(new[Len(new)]) \in 1 .. Len(new[Len(new)]) /\ new[Len(new)][Len(new[Len(new)])] = i

\* A chunk is put at the end of the batches, in the last one or one of its own.
LEMMA PutAtEnd ==
  ASSUME NEW made \in MadeBatches, NEW i \in Nat, NEW target,
         NEW new, new = Put(made, i, target)
  PROVE  new \in MadeBatches /\ EndsWith(made, new, i)
<1> DEFINE L == Len(made)
           batch == made[L]
<1>1. /\ made \in Seq(Seq(Nat)) /\ L \in Nat \ {0} /\ DOMAIN made = 1 .. L
      /\ \A b \in 1 .. L : made[b] \in Seq(Nat) /\ Len(made[b]) \in Nat
  BY DEF MadeBatches
<1>2. CASE new = Append(made, <<i>>) /\ L < MaxTextBatches
  <2>1. <<i>> \in Seq(Nat) /\ Len(<<i>>) = 1 /\ <<i>>[1] = i
    OBVIOUS
  <2>2. new \in Seq(Seq(Nat)) /\ Len(new) = L + 1 /\ new[L + 1] = <<i>>
        /\ \A b \in 1 .. L : new[b] = made[b]
    BY <1>1, <1>2, <2>1, AppendProperties
  <2>3. new \in MadeBatches
    BY <1>1, <2>2 DEF MadeBatches
  <2>4. Len(new) <= MaxTextBatches
    BY <1>1, <1>2, <2>2, FullAssumption
  <2>5. Len(new[Len(new)]) = 1 /\ new[Len(new)][1] = i
    BY <2>1, <2>2
  <2>6. ASSUME NEW b \in 1 .. Len(new), NEW k \in 1 .. Len(new[b])
        PROVE  \/ b = Len(new) /\ k = Len(new[b]) /\ new[b][k] = i
               \/ /\ b \in 1 .. L /\ k \in 1 .. Len(made[b]) /\ new[b][k] = made[b][k]
                  /\ b < Len(new) \/ k < Len(new[b])
    <3>1. CASE b = L + 1
      <4>1. new[b] = <<i>> /\ Len(new[b]) = 1 /\ b = Len(new)
        BY <2>1, <2>2, <3>1
      <4>2. k = 1 /\ new[b][1] = i
        BY <2>1, <4>1
      <4>3. QED
        BY <4>1, <4>2
    <3>2. CASE b # L + 1
      <4>1. b \in 1 .. L
        BY <1>1, <2>2, <3>2
      <4>2. QED
        BY <1>1, <2>2, <4>1
    <3>3. QED
      BY <3>1, <3>2
  <2>7. ASSUME NEW b \in 1 .. L, NEW k \in 1 .. Len(made[b])
        PROVE  b \in 1 .. Len(new) /\ k \in 1 .. Len(new[b]) /\ new[b][k] = made[b][k]
    BY <1>1, <2>2
  <2>8. QED
    BY <2>3, <2>4, <2>5, <2>6, <2>7 DEF EndsWith
<1>3. CASE new = [made EXCEPT ![L] = Append(batch, i)]
  <2>1. batch \in Seq(Nat) /\ L \in 1 .. L
    BY <1>1
  <2>2. /\ Append(batch, i) \in Seq(Nat) /\ Len(Append(batch, i)) = Len(batch) + 1
        /\ Append(batch, i)[Len(batch) + 1] = i /\ \A k \in 1 .. Len(batch) : Append(batch, i)[k] = batch[k]
    BY <2>1, AppendProperties
  <2>3. new \in Seq(Seq(Nat)) /\ Len(new) = L
    BY <1>1, <1>3, <2>1, <2>2, ExceptSeq
  <2>4. new[L] = Append(batch, i) /\ \A b \in 1 .. L : b # L => new[b] = made[b]
    BY <1>1, <1>3, <2>1
  <2> HIDE DEF L
  <2>5. new \in MadeBatches
    BY <1>1, <2>3 DEF MadeBatches
  <2> HIDE DEF batch
  <2>6. Len(new[L]) = Len(batch) + 1 /\ new[L][Len(batch) + 1] = i /\ Len(batch) \in Nat
        /\ \A k \in 1 .. Len(batch) : new[L][k] = batch[k]
    BY <2>1, <2>2, <2>4
  <2>7. ASSUME NEW b \in 1 .. Len(new), NEW k \in 1 .. Len(new[b])
        PROVE  \/ b = Len(new) /\ k = Len(new[b]) /\ new[b][k] = i
               \/ /\ b \in 1 .. L /\ k \in 1 .. Len(made[b]) /\ new[b][k] = made[b][k]
                  /\ b < Len(new) \/ k < Len(new[b])
    <3>1. CASE b = L
      <4>1. k \in 1 .. Len(batch) + 1
        BY <2>6, <3>1
      <4>2. CASE k = Len(batch) + 1
        BY <2>3, <2>6, <3>1, <4>2
      <4>3. CASE k # Len(batch) + 1
        BY <1>1, <2>3, <2>6, <3>1, <4>1, <4>3 DEF batch
      <4>4. QED
        BY <4>2, <4>3
    <3>2. CASE b # L
      <4>1. b \in 1 .. L /\ L \in Nat /\ Len(new) = L
        BY <1>1, <2>3
      <4>2. b < Len(new)
        BY <3>2, <4>1
      <4>3. new[b] = made[b]
        BY <2>4, <3>2, <4>1
      <4>4. k \in 1 .. Len(made[b]) /\ new[b][k] = made[b][k]
        BY <4>3
      <4>5. QED
        BY <4>1, <4>2, <4>4
    <3>3. QED
      BY <3>1, <3>2
  <2>8. ASSUME NEW b \in 1 .. L, NEW k \in 1 .. Len(made[b])
        PROVE  b \in 1 .. Len(new) /\ k \in 1 .. Len(new[b]) /\ new[b][k] = made[b][k]
    <3>1. CASE b = L
      BY <2>3, <2>6, <3>1, SMTT(30) DEF batch
    <3>2. CASE b # L
      BY <1>1, <2>3, <2>4, <3>2
    <3>3. QED
      BY <3>1, <3>2
  <2>9. Len(new[Len(new)]) \in 1 .. Len(new[Len(new)]) /\ new[Len(new)][Len(new[Len(new)])] = i
    BY <2>3, <2>6
  <2>10. QED
    BY <2>3, <2>5, <2>7, <2>8, <2>9 DEF L, EndsWith
<1>4. (new = Append(made, <<i>>) /\ L < MaxTextBatches) \/ new = [made EXCEPT ![L] = Append(batch, i)]
  BY DEF Put, Last
<1>5. QED
  BY <1>2, <1>3, <1>4

\* How the cutting goes on.
LEMMA CutSteps ==
  ASSUME NEW chunks \in Seq(Nat)
  PROVE  \E target : /\ CutTo(chunks)[0] = << <<>> >>
                     /\ \A n \in 1 .. Len(chunks) : CutTo(chunks)[n] = Put(CutTo(chunks)[n - 1], chunks[n], target)
<1> DEFINE N == Len(chunks)
           target == AtLeastOne(Ceiling(SizeOf(chunks), MaxTextBatches))
           grow == [x \in MadeBatches \X Nat |-> IF x[2] \in 1 .. N THEN Put(x[1], chunks[x[2]], target) ELSE x[1]]
           Cuts(f) == f = [n \in 0 .. N |-> IF n = 0 THEN << <<>> >> ELSE Put(f[n - 1], chunks[n], target)]
<1>1. N \in Nat /\ \A n \in 1 .. N : chunks[n] \in Nat
  OBVIOUS
<1>2. CutTo(chunks) = CHOOSE f : Cuts(f)
  BY DEF CutTo
<1> HIDE DEF target, N
<1>3. grow \in [MadeBatches \X Nat -> MadeBatches]
      /\ \A made \in MadeBatches, n \in 1 .. N : grow[<<made, n>>] = Put(made, chunks[n], target)
  BY <1>1, PutAtEnd
<1>4. << <<>> >> \in MadeBatches
  BY DEF MadeBatches
<1> HIDE DEF grow
<1>5. PICK f \in [0 .. N -> MadeBatches] : Iterates(f, << <<>> >>, grow, N)
  BY <1>1, <1>3, <1>4, Recursion
<1>6. ASSUME NEW n \in 0 .. N
      PROVE  f[n] = IF n = 0 THEN << <<>> >> ELSE Put(f[n - 1], chunks[n], target)
  <2>1. f[n] = IF n = 0 THEN << <<>> >> ELSE grow[<<f[n - 1], n>>]
    BY <1>5 DEF Iterates
  <2>2. n # 0 => f[n - 1] \in MadeBatches /\ n \in 1 .. N
    BY <1>1, <1>5
  <2>3. QED
    BY <1>3, <2>1, <2>2
<1>7. f = [n \in 0 .. N |-> f[n]]
  OBVIOUS
<1>8. Cuts(f)
  BY <1>6, <1>7
<1> HIDE DEF Cuts
<1>9. Cuts(CutTo(chunks))
  BY <1>2, <1>8
<1>10. \A n \in 0 .. N : CutTo(chunks)[n] = IF n = 0 THEN << <<>> >> ELSE Put(CutTo(chunks)[n - 1], chunks[n], target)
  BY <1>9 DEF Cuts
<1>11. CutTo(chunks)[0] = << <<>> >>
  BY <1>1, <1>10
<1>12. ASSUME NEW n \in 1 .. N
       PROVE  CutTo(chunks)[n] = Put(CutTo(chunks)[n - 1], chunks[n], target)
  <2>1. n \in 0 .. N /\ n # 0
    BY <1>1
  <2>2. QED
    BY <1>10, <2>1
<1>13. QED
  BY <1>11, <1>12 DEF N

\* The first n chunks are in batches: each of them, nothing else, in order.
Holding(made, chunks, n) ==
  /\ made \in MadeBatches /\ Len(made) <= MaxTextBatches
  /\ \A b \in 1 .. Len(made) : \A k \in 1 .. Len(made[b]) : \E j \in 1 .. n : made[b][k] = chunks[j]
  /\ \A j \in 1 .. n : \E b \in 1 .. Len(made) : \E k \in 1 .. Len(made[b]) : made[b][k] = chunks[j]
  /\ \A b, c \in 1 .. Len(made) : \A k \in 1 .. Len(made[b]) : \A l \in 1 .. Len(made[c]) :
       b < c \/ (b = c /\ k < l) => made[b][k] < made[c][l]

\* Batches that hold the first n chunks hold the first n + 1 after the next Put.
LEMMA PutHolds ==
  ASSUME NEW chunks \in Seq(Nat), Increasing(chunks), NEW n \in Nat, n + 1 <= Len(chunks),
         NEW made, NEW target, Holding(made, chunks, n)
  PROVE  Holding(Put(made, chunks[n + 1], target), chunks, n + 1)
<1> DEFINE new == Put(made, chunks[n + 1], target)
           i == chunks[n + 1]
           E == Len(new)
<1>1. Len(chunks) \in Nat /\ i \in Nat /\ \A j \in 1 .. n : chunks[j] \in Nat /\ chunks[j] < i
  BY SMTT(30) DEF Increasing
<1>2. made \in MadeBatches /\ Len(made) <= MaxTextBatches
  BY DEF Holding
<1>0. /\ \A b \in 1 .. Len(made) : \A k \in 1 .. Len(made[b]) : \E j \in 1 .. n : made[b][k] = chunks[j]
      /\ \A j \in 1 .. n : \E b \in 1 .. Len(made) : \E k \in 1 .. Len(made[b]) : made[b][k] = chunks[j]
      /\ \A b, c \in 1 .. Len(made) : \A k \in 1 .. Len(made[b]) : \A l \in 1 .. Len(made[c]) :
           b < c \/ (b = c /\ k < l) => made[b][k] < made[c][l]
  BY DEF Holding
<1>9. new = Put(made, i, target)
  OBVIOUS
<1> HIDE DEF i, new
<1>10. new \in MadeBatches /\ EndsWith(made, new, i)
  BY <1>1, <1>2, <1>9, PutAtEnd
<1>3. /\ Len(new) <= MaxTextBatches
      /\ \A b \in 1 .. Len(new) : \A k \in 1 .. Len(new[b]) :
           \/ b = Len(new) /\ k = Len(new[b]) /\ new[b][k] = i
           \/ /\ b \in 1 .. Len(made) /\ k \in 1 .. Len(made[b]) /\ new[b][k] = made[b][k]
              /\ b < Len(new) \/ k < Len(new[b])
      /\ \A b \in 1 .. Len(made) : \A k \in 1 .. Len(made[b]) :
           b \in 1 .. Len(new) /\ k \in 1 .. Len(new[b]) /\ new[b][k] = made[b][k]
      /\ Len(new[Len(new)]) \in 1 .. Len(new[Len(new)]) /\ new[Len(new)][Len(new[Len(new)])] = i
  BY <1>2, <1>10 DEF EndsWith
<1>4. E \in Nat \ {0} /\ Len(made) \in Nat /\ \A b \in 1 .. E : Len(new[b]) \in Nat
  BY <1>2, <1>10 DEF MadeBatches
<1>5. \A b \in 1 .. Len(new) : \A k \in 1 .. Len(new[b]) : \E j \in 1 .. n + 1 : new[b][k] = chunks[j]
  <2> TAKE b \in 1 .. Len(new)
  <2> TAKE k \in 1 .. Len(new[b])
  <2>1. CASE new[b][k] = i
    <3>1. n + 1 \in 1 .. n + 1 /\ new[b][k] = chunks[n + 1]
      BY <2>1 DEF i
    <3>2. QED
      BY <3>1
  <2>2. CASE b \in 1 .. Len(made) /\ k \in 1 .. Len(made[b]) /\ new[b][k] = made[b][k]
    <3>1. PICK j \in 1 .. n : made[b][k] = chunks[j]
      BY <1>0, <2>2
    <3>2. QED
      BY <2>2, <3>1
  <2>3. QED
    BY <1>3, <2>1, <2>2
<1>6. \A j \in 1 .. n + 1 : \E b \in 1 .. Len(new) : \E k \in 1 .. Len(new[b]) : new[b][k] = chunks[j]
  <2> TAKE j \in 1 .. n + 1
  <2>1. CASE j = n + 1
    BY <1>3, <1>4, <2>1 DEF i
  <2>2. CASE j # n + 1
    <3> j \in 1 .. n
      BY <2>2
    <3>1. PICK b \in 1 .. Len(made) : \E k \in 1 .. Len(made[b]) : made[b][k] = chunks[j]
      BY <1>0
    <3>2. PICK k \in 1 .. Len(made[b]) : made[b][k] = chunks[j]
      BY <3>1
    <3>3. QED
      BY <1>3, <3>2
  <2>3. QED
    BY <2>1, <2>2
<1>7. ASSUME NEW b \in 1 .. Len(new), NEW c \in 1 .. Len(new), NEW k \in 1 .. Len(new[b]), NEW l \in 1 .. Len(new[c]),
             b < c \/ (b = c /\ k < l)
      PROVE  new[b][k] < new[c][l]
  <2>0. Len(new[b]) \in Nat /\ Len(new[c]) \in Nat /\ b \in Nat /\ c \in Nat /\ k \in Nat /\ l \in Nat
    BY <1>4
  <2>1. b \in 1 .. Len(made) /\ k \in 1 .. Len(made[b]) /\ new[b][k] = made[b][k]
    <3>1. b < Len(new) \/ k < Len(new[b])
      BY <1>4, <1>7, <2>0
    <3>2. QED
      <4>1. ~(b = Len(new) /\ k = Len(new[b]))
        BY <1>4, <2>0, <3>1
      <4>2. QED
        BY <1>3, <4>1
  <2>2. CASE c = Len(new) /\ l = Len(new[c]) /\ new[c][l] = i
    <3>1. PICK j \in 1 .. n : made[b][k] = chunks[j]
      BY <1>0, <2>1
    <3>2. QED
      BY <1>1, <2>1, <2>2, <3>1
  <2>3. CASE c \in 1 .. Len(made) /\ l \in 1 .. Len(made[c]) /\ new[c][l] = made[c][l]
    BY <1>0, <1>7, <2>1, <2>3
  <2>4. QED
    BY <1>3, <2>2, <2>3
<1>8. QED
  BY <1>2, <1>3, <1>5, <1>6, <1>7, <1>10 DEF Holding, new, i

\* Every chosen chunk gets into a batch, in order.
LEMMA CutOK ==
  ASSUME NEW chunks \in Seq(Nat), Increasing(chunks)
  PROVE  Holding(Cut(chunks), chunks, Len(chunks))
<1> DEFINE T == {n \in Nat : n <= Len(chunks) => Holding(CutTo(chunks)[n], chunks, n)}
<1>1. PICK target : /\ CutTo(chunks)[0] = << <<>> >>
                    /\ \A n \in 1 .. Len(chunks) : CutTo(chunks)[n] = Put(CutTo(chunks)[n - 1], chunks[n], target)
  BY CutSteps
<1>2. Len(chunks) \in Nat
  OBVIOUS
<1>3. 0 \in T
  <2> DEFINE one == << <<>> >>
  <2>1. one \in Seq(Seq(Nat)) /\ Len(one) = 1 /\ one[1] = <<>> /\ one # <<>> /\ Len(<<>>) = 0
    OBVIOUS
  <2> HIDE DEF one
  <2>2. one \in MadeBatches
    BY <2>1 DEF MadeBatches
  <2>3. \A b \in 1 .. Len(one) : 1 .. Len(one[b]) = {}
    BY <2>1
  <2>4. Len(one) <= MaxTextBatches
    BY <2>1, FullAssumption
  <2>5. Holding(one, chunks, 0)
    BY <2>2, <2>3, <2>4, SMTT(30) DEF Holding
  <2>6. QED
    BY <1>1, <2>5 DEF one
<1>4. ASSUME NEW n \in Nat, n \in T
      PROVE  n + 1 \in T
  <2> SUFFICES ASSUME n + 1 <= Len(chunks)
               PROVE  Holding(CutTo(chunks)[n + 1], chunks, n + 1)
    OBVIOUS
  <2>1. Holding(CutTo(chunks)[n], chunks, n)
    BY <1>2, <1>4
  <2>2. CutTo(chunks)[n + 1] = Put(CutTo(chunks)[n], chunks[n + 1], target)
    <3>1. n + 1 \in 1 .. Len(chunks) /\ (n + 1) - 1 = n
      BY <1>2
    <3>2. CutTo(chunks)[n + 1] = Put(CutTo(chunks)[(n + 1) - 1], chunks[n + 1], target)
      BY <1>1, <3>1, Zenon
    <3>3. QED
      BY <3>1, <3>2
  <2>3. QED
    BY <2>1, <2>2, PutHolds
<1>5. Nat \subseteq T
  <2> HIDE DEF T
  <2>1. QED
    BY <1>3, <1>4, Induction
<1>6. QED
  BY <1>2, <1>5 DEF Cut

-----------------------------------------------------------------------------

BatchPlaces == UNION {{b} \X DOMAIN textBatches[b] : b \in DOMAIN textBatches}
BatchChunk(place) == textBatches[place[1]][place[2]]

\* The batches are within their number, each is a list of chunks in order, and
\* no section, or no chunk of a short document, is without a place in one.
BatchesOK ==
  /\ textBatches \in MadeBatches /\ Len(textBatches) <= MaxTextBatches
  /\ \A p, q \in BatchPlaces : Precedes(p, q) => BatchChunk(p) < BatchChunk(q)
  /\ \A c \in DOMAIN document : \E p \in BatchPlaces : BatchChunk(p) \in SectionOf(c)
  /\ SizeOf(AllChunks) <= MaxChars =>
       \A c \in DOMAIN document : \E p \in BatchPlaces : BatchChunk(p) = c

\* Threads and summaries belong to the batches; a summary that was collected
\* stands at the place of its batch, and the prompt waits for all of them.
TasksOK ==
  /\ DOMAIN task = DOMAIN textBatches /\ DOMAIN summary = DOMAIN textBatches
  /\ \A i \in DOMAIN task : task[i] = "collected" => summary[i] = i
  /\ prepared = "ready" => textBatches # <<>> /\ \A i \in DOMAIN task : task[i] = "collected"

FullInv ==
  /\ document \in Seq(ChunkRecords)
  /\ textBatches # <<>> => BatchesOK
  /\ TasksOK

\* The invariant of the reading holds before it begins.
LEMMA FullStarts == FullInit => FullInv
<1> SUFFICES ASSUME FullInit
             PROVE  FullInv
  OBVIOUS
<1>1. document \in Seq(ChunkRecords)
  BY FullAssumption DEF FullInit, ChunkRecords
<1>2. textBatches = <<>> /\ task = <<>> /\ summary = <<>> /\ prepared = "working"
  BY DEF FullInit
<1>3. TasksOK
  BY <1>2 DEF TasksOK
<1>4. QED
  BY <1>1, <1>2, <1>3 DEF FullInv

\* The batches that full_document_batches returns.
LEMMA BatchesMade ==
  ASSUME document \in Seq(ChunkRecords), textBatches' = Cut(SelectedChunks), document' = document
  PROVE  BatchesOK'
<1> DEFINE chunks == SelectedChunks
           made == Cut(chunks)
<1>1. /\ chunks \in Seq(DOMAIN document) /\ Increasing(chunks)
      /\ \A c \in DOMAIN document : \E k \in 1 .. Len(chunks) : chunks[k] \in SectionOf(c)
      /\ SizeOf(AllChunks) <= MaxChars =>
           \A c \in DOMAIN document : \E k \in 1 .. Len(chunks) : chunks[k] = c
  BY SelectedChunksOK, FullAssumption
<1> HIDE DEF chunks
<1>2. chunks \in Seq(Nat) /\ Len(chunks) \in Nat
  <2>1. DOMAIN document \subseteq Nat
    OBVIOUS
  <2>2. QED
    BY <1>1, <2>1
<1>3. Holding(made, chunks, Len(chunks))
  BY <1>1, <1>2, CutOK
<1>4. textBatches' = made
  BY DEF chunks
<1> HIDE DEF made
<1>5. made \in MadeBatches /\ Len(made) <= MaxTextBatches
  BY <1>3 DEF Holding
<1>6. DOMAIN made = 1 .. Len(made) /\ \A b \in 1 .. Len(made) : DOMAIN made[b] = 1 .. Len(made[b])
  BY <1>5 DEF MadeBatches
<1> DEFINE places == UNION {{b} \X DOMAIN made[b] : b \in DOMAIN made}
           Chunk(p) == made[p[1]][p[2]]
<1>7. \A p \in places : p[1] \in 1 .. Len(made) /\ p[2] \in 1 .. Len(made[p[1]])
  BY <1>6
<1>8. \A j \in 1 .. Len(chunks) : \E p \in places : Chunk(p) = chunks[j]
  <2> TAKE j \in 1 .. Len(chunks)
  <2>1. PICK b \in 1 .. Len(made) : \E k \in 1 .. Len(made[b]) : made[b][k] = chunks[j]
    BY <1>3 DEF Holding
  <2>2. PICK k \in 1 .. Len(made[b]) : made[b][k] = chunks[j]
    BY <2>1
  <2>3. <<b, k>> \in places
    BY <1>6
  <2>4. Chunk(<<b, k>>) = chunks[j]
    BY <2>2
  <2>5. QED
    BY <2>3, <2>4
<1>9. \A p, q \in places : Precedes(p, q) => Chunk(p) < Chunk(q)
  <2> SUFFICES ASSUME NEW p \in places, NEW q \in places, Precedes(p, q)
               PROVE  Chunk(p) < Chunk(q)
    OBVIOUS
  <2>1. /\ p[1] \in 1 .. Len(made) /\ p[2] \in 1 .. Len(made[p[1]])
        /\ q[1] \in 1 .. Len(made) /\ q[2] \in 1 .. Len(made[q[1]])
    BY <1>7
  <2>2. p[1] < q[1] \/ (p[1] = q[1] /\ p[2] < q[2])
    BY DEF Precedes
  <2>3. \A b, c \in 1 .. Len(made) : \A k \in 1 .. Len(made[b]) : \A l \in 1 .. Len(made[c]) :
          b < c \/ (b = c /\ k < l) => made[b][k] < made[c][l]
    BY <1>3 DEF Holding
  <2>4. QED
    BY <2>1, <2>2, <2>3
<1> HIDE DEF places, Chunk
<1>10. \A c \in DOMAIN document : \E p \in places : Chunk(p) \in SectionOf(c)
  BY <1>1, <1>8
<1>11. SizeOf(AllChunks) <= MaxChars => \A c \in DOMAIN document : \E p \in places : Chunk(p) = c
  BY <1>1, <1>8
<1>12. BatchPlaces' = places /\ \A p : BatchChunk(p)' = Chunk(p)
  BY <1>4 DEF BatchPlaces, BatchChunk, places, Chunk
<1>13. SizeOf(AllChunks)' = SizeOf(AllChunks) /\ \A c : SectionOf(c)' = SectionOf(c)
  BY DEF SizeOf, AllChunks, SectionOf, SectionSize
<1>14. QED
  BY <1>4, <1>5, <1>9, <1>10, <1>11, <1>12, <1>13 DEF BatchesOK

\* Nothing changes the batches once they are made.
LEMMA BatchesStay ==
  ASSUME BatchesOK, UNCHANGED <<document, textBatches>>
  PROVE  BatchesOK'
<1>1. BatchPlaces' = BatchPlaces /\ \A p : BatchChunk(p)' = BatchChunk(p)
  BY DEF BatchPlaces, BatchChunk
<1>2. SizeOf(AllChunks)' = SizeOf(AllChunks) /\ \A c : SectionOf(c)' = SectionOf(c)
  BY DEF SizeOf, AllChunks, SectionOf, SectionSize
<1>3. QED
  BY <1>1, <1>2 DEF BatchesOK

\* Each step of the preparer and its threads keeps it.
LEMMA FullKept == FullInv /\ [FullNext]_fullVars => FullInv'
<1> SUFFICES ASSUME FullInv, [FullNext]_fullVars
             PROVE  FullInv'
  OBVIOUS
<1> USE DEF FullInv
<1>1. CASE Begin
  <2>1. CASE prepared' = "failed" /\ UNCHANGED <<document, textBatches, task, summary>>
    BY <2>1, BatchesStay DEF TasksOK
  <2>2. CASE /\ textBatches' = Cut(SelectedChunks) /\ document' = document
             /\ task' = [i \in DOMAIN textBatches' |-> "waiting"]
             /\ summary' = [i \in DOMAIN textBatches' |-> 0]
             /\ prepared = "working" /\ UNCHANGED prepared
    <3>1. BatchesOK'
      BY <2>2, BatchesMade
    <3>2. TasksOK'
      BY <2>2 DEF TasksOK
    <3>3. QED
      BY <2>2, <3>1, <3>2
  <2>3. QED
    BY <1>1, <2>1, <2>2 DEF Begin
<1>2. CASE Fail \/ FinishReading \/ CancelReading \/ UNCHANGED fullVars
  <2>1. UNCHANGED <<document, textBatches, task, summary>>
    BY <1>2 DEF Fail, FinishReading, CancelReading, fullVars
  <2>2. prepared' = "ready" => textBatches # <<>> /\ \A i \in DOMAIN task : task[i] = "collected"
    BY <1>2 DEF Fail, FinishReading, CancelReading, fullVars, TasksOK
  <2>3. TasksOK'
    BY <2>1, <2>2 DEF TasksOK
  <2>4. QED
    BY <2>1, <2>3, BatchesStay
<1>3. ASSUME NEW i \in DOMAIN task, StartRequest(i) \/ EndRequest(i)
      PROVE  FullInv'
  <2>1. UNCHANGED <<document, textBatches, summary, prepared>> /\ task[i] \in {"waiting", "asking"}
        /\ \E at \in {"failed", "asking", "answered"} : task' = [task EXCEPT ![i] = at]
    BY <1>3 DEF StartRequest, EndRequest
  <2>2. TasksOK'
    BY <2>1 DEF TasksOK
  <2>3. QED
    BY <2>1, <2>2, BatchesStay
<1>4. ASSUME NEW i \in DOMAIN task, Collect(i)
      PROVE  FullInv'
  <2>1. UNCHANGED <<document, textBatches, prepared>> /\ prepared = "working"
        /\ task' = [task EXCEPT ![i] = "collected"] /\ summary' = [summary EXCEPT ![i] = i]
    BY <1>4 DEF Collect, Working, PlaceOf
  <2>2. TasksOK'
    BY <2>1 DEF TasksOK
  <2>3. QED
    BY <2>1, <2>2, BatchesStay
<1>5. QED
  BY <1>1, <1>2, <1>3, <1>4 DEF FullNext

\* What is ready was read from every batch, in order.
LEMMA ReadyCovers == FullInv => EvidenceCoversDocument
<1> SUFFICES ASSUME FullInv, prepared = "ready"
             PROVE  EvidenceCoversDocument
  BY DEF EvidenceCoversDocument
<1>1. BatchesOK /\ DOMAIN summary = DOMAIN textBatches /\ \A i \in DOMAIN summary : summary[i] = i
  BY DEF FullInv, TasksOK
<1>2. ReadPlaces = BatchPlaces
  BY <1>1 DEF ReadPlaces, BatchPlaces
<1>3. \A p \in BatchPlaces : ReadChunk(p) = BatchChunk(p)
  <2> TAKE p \in BatchPlaces
  <2>1. p[1] \in DOMAIN summary
    BY <1>1 DEF BatchPlaces
  <2>2. QED
    BY <1>1, <2>1 DEF ReadChunk, BatchChunk
<1>4. QED
  BY <1>1, <1>2, <1>3 DEF EvidenceCoversDocument, BatchesOK

(* The agent gets a summary of every batch at its place, whichever thread was *)
(* first; the batches have the chosen chunks in the order of the document,    *)
(* each once, and no section is without one: for any document, any limits and *)
(* any order in which requests start, fail and end.                           *)
THEOREM EvidenceCovers == FullInit /\ [][FullNext]_fullVars => []EvidenceCoversDocument
<1>1. FullInit /\ [][FullNext]_fullVars => []FullInv
  BY FullStarts, FullKept, PTL
<1>2. QED
  BY <1>1, ReadyCovers, PTL

-----------------------------------------------------------------------------
(* PromptBudget: the prompt of a model call *)

\* The larger of two numbers, as the budgets use it.
LEMMA MaxOfTwo == \A a, b \in Int : Max({a, b}) = IF a >= b THEN a ELSE b
<1> SUFFICES ASSUME NEW a \in Int, NEW b \in Int
             PROVE  Max({a, b}) = IF a >= b THEN a ELSE b
  OBVIOUS
<1>1. \E x \in {a, b} : \A y \in {a, b} : x >= y
  <2>1. CASE a >= b
    BY <2>1
  <2>2. CASE ~(a >= b)
    BY <2>2
  <2>3. QED
    BY <2>1, <2>2
<1>2. Max({a, b}) \in {a, b} /\ \A y \in {a, b} : Max({a, b}) >= y
  BY <1>1 DEF Max
<1>3. QED
  BY <1>2

PartSizes == [prefix : Nat, memory : Nat, notes : Seq(Nat), checkpoint : Nat, request : Nat]
EntryItems == Seq({item \in Items : item.call \in Nat /\ item.text \in Nat})

\* The floors and budgets of the sections are these numbers.
LEMMA FloorValues ==
  /\ Floors.prefix = 900 /\ Floors.memory = 400 /\ Floors.relevant_memory = 300 /\ Floors.history = 1300
  /\ \A s \in Sections : Floors[s] \in Nat /\ SectionBudgets[s] \in Nat /\ SectionBudgets[s] >= Floors[s]
  /\ SectionBudgets.prefix = 3600
<1>1. SectionBudgets["prefix"] = 3600 /\ SectionBudgets["memory"] = 1600
      /\ SectionBudgets["relevant_memory"] = 1200 /\ SectionBudgets["history"] = 5200
  BY DEF SectionBudgets
<1>2. Sections = {"prefix", "memory", "relevant_memory", "history"}
  BY DEF Sections
<1>3. ASSUME NEW s \in Sections
      PROVE  Floors[s] = SectionBudgets[s] \div 4
  <2> DEFINE quarter == SectionBudgets[s] \div 4
  <2>1. quarter \in Int /\ quarter >= 20 /\ 20 \in Int
    BY <1>1, <1>2
  <2>2. Floors[s] = Max({20, quarter})
    BY DEF Floors
  <2> HIDE DEF quarter
  <2>3. Max({20, quarter}) = IF 20 >= quarter THEN 20 ELSE quarter
    BY <2>1, MaxOfTwo, Zenon
  <2>4. Floors[s] = quarter
    BY <2>1, <2>2, <2>3
  <2>5. QED
    BY <2>4 DEF quarter
<1>4. /\ Floors["prefix"] = 3600 \div 4 /\ Floors["memory"] = 1600 \div 4
      /\ Floors["relevant_memory"] = 1200 \div 4 /\ Floors["history"] = 5200 \div 4
  BY <1>1, <1>2, <1>3
<1>5. QED
  BY <1>1, <1>2, <1>4

\* A clipped text is within its limit.
LEMMA ClippedNatural ==
  ASSUME NEW length \in Nat, NEW limit \in Nat
  PROVE  Clipped(length, limit) \in Nat /\ Clipped(length, limit) <= limit /\ Clipped(length, limit) <= length
BY DEF Clipped

\* The lines of an entry have lengths.
LEMMA EntryOK ==
  ASSUME history \in EntryItems, NEW i \in 1 .. Len(history)
  PROVE  Entry(i) = [index |-> i, recent |-> Entry(i).recent, lines |-> Entry(i).lines]
         /\ Entry(i).recent \in BOOLEAN /\ Entry(i).lines \in Seq(Nat)
<1> DEFINE item == history[i]
<1>1. item.call \in Nat /\ item.text \in Nat
  BY DEF EntryItems
<1> HIDE DEF item
<1>2. \A limit \in Nat : Lines(item, limit) \in Seq(Nat)
  <2> TAKE limit \in Nat
  <2>1. Clipped(item.text, limit) \in Nat
    BY <1>1, ClippedNatural
  <2>2. Clipped(item.text, Max({20, limit})) \in Nat
    <3>1. Max({20, limit}) = IF 20 >= limit THEN 20 ELSE limit
      <4>1. 20 \in Int /\ limit \in Int
        OBVIOUS
      <4>2. QED
        BY <4>1, MaxOfTwo, Zenon
    <3>2. QED
      BY <1>1, <3>1, ClippedNatural
  <2>3. <<Role + Clipped(item.text, limit)>> \in Seq(Nat)
    BY <2>1 DEF Role
  <2>4. <<item.call, Clipped(item.text, Max({20, limit}))>> \in Seq(Nat)
    BY <1>1, <2>2
  <2>5. QED
    BY <2>3, <2>4 DEF Lines
<1>3. OldLines(item) \in Seq(Nat)
  <2>1. <<Summary>> \in Seq(Nat) /\ <<item.call + 4 + item.text>> \in Seq(Nat) /\ <<item.call>> \in Seq(Nat)
    BY <1>1 DEF Summary
  <2>2. Lines(item, 60) \in Seq(Nat)
    BY <1>2
  <2>3. QED
    BY <2>1, <2>2 DEF OldLines
<1>4. Lines(item, 900) \in Seq(Nat)
  BY <1>2
<1>5. QED
  BY <1>3, <1>4 DEF Entry, item

\* Lines joined have a length.
LEMMA JoinedNatural ==
  ASSUME NEW lines \in Seq(Nat)
  PROVE  Joined(lines) \in Nat
BY SumNatural DEF Joined

History == [size : Nat, shown : SUBSET Nat]

\* An entry is put in only if it fits, and nothing is taken out for it.
LEMMA IncludeOK ==
  ASSUME NEW entry, entry.index \in Nat, entry.recent \in BOOLEAN, entry.lines \in Seq(Nat),
         NEW rendered \in History, NEW budget \in Nat
  PROVE  LET now == Include(entry, rendered, budget)
         IN  /\ now \in History /\ rendered.shown \subseteq now.shown
             /\ rendered.size <= budget => now.size <= budget
             /\ rendered.size + Joined(entry.lines) <= budget => entry.index \in now.shown
<1> DEFINE room == IF entry.recent THEN Max({20, budget - rendered.size - 1}) ELSE 20
           shortened == [k \in DOMAIN entry.lines |-> Clipped(entry.lines[k], room)]
           With(lines) == [size |-> rendered.size + Joined(lines), shown |-> rendered.shown \cup {entry.index}]
           now == Include(entry, rendered, budget)
<1>1. rendered.size \in Nat /\ rendered.shown \in SUBSET Nat
  BY DEF History
<1>2. room \in Nat
  <2>1. budget - rendered.size - 1 \in Int
    BY <1>1
  <2>2. Max({20, budget - rendered.size - 1})
          = IF 20 >= budget - rendered.size - 1 THEN 20 ELSE budget - rendered.size - 1
    <3>1. 20 \in Int
      OBVIOUS
    <3>2. QED
      BY <2>1, <3>1, MaxOfTwo, Zenon
  <2>3. QED
    BY <2>1, <2>2
<1> HIDE DEF room
<1>3. shortened \in Seq(Nat)
  <2>1. Len(entry.lines) \in Nat /\ DOMAIN entry.lines = 1 .. Len(entry.lines)
        /\ \A k \in 1 .. Len(entry.lines) : entry.lines[k] \in Nat
    OBVIOUS
  <2>2. shortened \in [1 .. Len(entry.lines) -> Nat]
    BY <1>2, <2>1, ClippedNatural
  <2> HIDE DEF shortened
  <2>3. shortened \in UNION {[1 .. n -> Nat] : n \in Nat}
    BY <2>1, <2>2
  <2>4. QED
    BY <2>3, SeqDef
<1>4. Joined(entry.lines) \in Nat /\ Joined(shortened) \in Nat
  <2> HIDE DEF shortened
  <2>1. QED
    BY <1>3, JoinedNatural
<1>5. now = IF rendered.size + Joined(entry.lines) <= budget THEN With(entry.lines)
            ELSE IF rendered.size + Joined(shortened) <= budget THEN With(shortened) ELSE rendered
  BY DEF Include, shortened, room
<1> HIDE DEF shortened, now
<1>6. CASE rendered.size + Joined(entry.lines) <= budget
  <2>1. now = With(entry.lines)
    BY <1>5, <1>6
  <2>2. QED
    BY <1>1, <1>4, <1>6, <2>1 DEF History, now
<1>7. CASE ~(rendered.size + Joined(entry.lines) <= budget) /\ rendered.size + Joined(shortened) <= budget
  <2>1. now = With(shortened)
    BY <1>5, <1>7
  <2>2. QED
    BY <1>1, <1>4, <1>7, <2>1 DEF History, now
<1>8. CASE ~(rendered.size + Joined(entry.lines) <= budget) /\ ~(rendered.size + Joined(shortened) <= budget)
  BY <1>1, <1>5, <1>8 DEF now
<1>9. QED
  BY <1>6, <1>7, <1>8

\* IncludeOK for the next of the entries.
LEMMA NextOK ==
  ASSUME history \in EntryItems, NEW entries, NEW n, entries[Len(entries) + 1 - n] \in 1 .. Len(history),
         NEW rendered \in History, NEW budget \in Nat
  PROVE  LET now == IncludeNext(entries, n, rendered, budget)
             i == entries[Len(entries) + 1 - n]
         IN  /\ now \in History /\ rendered.shown \subseteq now.shown
             /\ rendered.size <= budget => now.size <= budget
             /\ rendered.size + Joined(Entry(i).lines) <= budget => i \in now.shown
<1> DEFINE i == entries[Len(entries) + 1 - n]
<1>1. Entry(i).index = i /\ i \in Nat /\ Entry(i).recent \in BOOLEAN /\ Entry(i).lines \in Seq(Nat)
  <2>1. i \in 1 .. Len(history)
    OBVIOUS
  <2>2. Len(history) \in Nat
    BY DEF EntryItems
  <2>3. Entry(i).index = i
    BY DEF Entry
  <2> HIDE DEF i
  <2>4. QED
    BY <2>1, <2>2, <2>3, EntryOK
<1>2. IncludeNext(entries, n, rendered, budget) = Include(Entry(i), rendered, budget)
  BY DEF IncludeNext
<1> HIDE DEF i
<1>3. LET now == Include(Entry(i), rendered, budget)
      IN  /\ now \in History /\ rendered.shown \subseteq now.shown
          /\ rendered.size <= budget => now.size <= budget
          /\ rendered.size + Joined(Entry(i).lines) <= budget => Entry(i).index \in now.shown
  BY <1>1, IncludeOK
<1>4. QED
  BY <1>1, <1>2, <1>3 DEF i

\* Entry after entry is put before those already rendered.
LEMMA RenderSteps ==
  ASSUME history \in EntryItems, NEW entries \in Seq(1 .. Len(history)), NEW budget \in Nat
  PROVE  /\ RenderedTo(entries, budget)[0] = NothingYet
         /\ \A n \in 1 .. Len(entries) :
              RenderedTo(entries, budget)[n] = IncludeNext(entries, n, RenderedTo(entries, budget)[n - 1], budget)
         /\ \A n \in 0 .. Len(entries) : RenderedTo(entries, budget)[n] \in History
<1> DEFINE N == Len(entries)
           grow == [x \in History \X Nat |->
                     IF x[2] \in 1 .. N THEN IncludeNext(entries, x[2], x[1], budget) ELSE x[1]]
           Renders(f) == f = [n \in 0 .. N |-> IF n = 0 THEN NothingYet ELSE IncludeNext(entries, n, f[n - 1], budget)]
<1>1. N \in Nat /\ \A n \in 1 .. N : N + 1 - n \in 1 .. N /\ entries[N + 1 - n] \in 1 .. Len(history)
  <2>1. N \in Nat /\ \A n \in 1 .. N : entries[n] \in 1 .. Len(history)
    OBVIOUS
  <2>2. QED
    BY <2>1
<1>2. RenderedTo(entries, budget) = CHOOSE f : Renders(f)
  BY DEF RenderedTo
<1>3. ASSUME NEW rendered \in History, NEW n \in 1 .. N
      PROVE  IncludeNext(entries, n, rendered, budget) \in History
  BY <1>1, <1>3, NextOK
<1> HIDE DEF N
<1>4. grow \in [History \X Nat -> History]
      /\ \A rendered \in History, n \in 1 .. N : grow[<<rendered, n>>] = IncludeNext(entries, n, rendered, budget)
  BY <1>1, <1>3
<1>5. NothingYet \in History
  BY DEF NothingYet, History, Transcript
<1> HIDE DEF grow
<1>6. PICK f \in [0 .. N -> History] : Iterates(f, NothingYet, grow, N)
  BY <1>1, <1>4, <1>5, Recursion
<1>7. ASSUME NEW n \in 0 .. N
      PROVE  f[n] = IF n = 0 THEN NothingYet ELSE IncludeNext(entries, n, f[n - 1], budget)
  <2>1. f[n] = IF n = 0 THEN NothingYet ELSE grow[<<f[n - 1], n>>]
    BY <1>6 DEF Iterates
  <2>2. n # 0 => f[n - 1] \in History /\ n \in 1 .. N
    BY <1>1, <1>6
  <2>3. QED
    BY <1>4, <2>1, <2>2
<1>8. f = [n \in 0 .. N |-> f[n]]
  OBVIOUS
<1>9. Renders(f)
  BY <1>7, <1>8
<1> HIDE DEF Renders
<1>10. Renders(RenderedTo(entries, budget))
  BY <1>2, <1>9
<1>11. \A n \in 0 .. N : RenderedTo(entries, budget)[n]
         = IF n = 0 THEN NothingYet ELSE IncludeNext(entries, n, RenderedTo(entries, budget)[n - 1], budget)
  BY <1>10 DEF Renders
<1>12. RenderedTo(entries, budget)[0] = NothingYet
  BY <1>1, <1>11
<1>13. ASSUME NEW n \in 1 .. N
       PROVE  RenderedTo(entries, budget)[n] = IncludeNext(entries, n, RenderedTo(entries, budget)[n - 1], budget)
  <2>1. n \in 0 .. N /\ n # 0
    BY <1>1
  <2>2. QED
    BY <1>11, <2>1
<1> DEFINE T == {n \in Nat : n <= N => RenderedTo(entries, budget)[n] \in History}
<1>14. 0 \in T
  BY <1>5, <1>12
<1>15. ASSUME NEW n \in Nat, n \in T
       PROVE  n + 1 \in T
  <2> SUFFICES ASSUME n + 1 <= N
               PROVE  RenderedTo(entries, budget)[n + 1] \in History
    OBVIOUS
  <2>1. RenderedTo(entries, budget)[n] \in History /\ n + 1 \in 1 .. N /\ (n + 1) - 1 = n
    BY <1>1, <1>15
  <2>2. QED
    BY <1>3, <1>13, <2>1
<1>16. Nat \subseteq T
  <2> HIDE DEF T
  <2>1. QED
    BY <1>14, <1>15, Induction
<1>17. \A n \in 0 .. N : RenderedTo(entries, budget)[n] \in History
  BY <1>1, <1>16
<1>18. QED
  BY <1>12, <1>13, <1>17 DEF N

\* The newest entry of a conversation is the last of those rendered, and whole.
LEMMA NewestLast ==
  ASSUME history \in EntryItems
  PROVE  /\ Entries \in Seq(1 .. Len(history))
         /\ history # <<>> => /\ Len(Entries) \in Nat \ {0}
                             /\ Entries[Len(Entries)] = Len(history)
                             /\ Entry(Len(history)).lines = Lines(Last(history), 900)
<1> DEFINE all == [i \in 1 .. Len(history) |-> i]
           uncollapsed == {i \in 1 .. Len(history) : ~Collapsed(i)}
           L == Len(history)
           R == {x \in Nat \X Nat : x[1] < x[2]}
<1>1. L \in Nat /\ all \in Seq(1 .. L) /\ Len(all) = L /\ \A i \in 1 .. L : all[i] = i
  BY DEF EntryItems
<1>2. Entries = Filter(all, uncollapsed)
  BY DEF Entries
<1>3. history # <<>> => L # 0
  BY DEF EntryItems
<1>4. \A i, j \in 1 .. L : i < j => <<all[i], all[j]>> \in R
  BY <1>1
<1> DEFINE M == Len(Entries)
<1>5. /\ Entries \in Seq(1 .. L)
      /\ \A i \in 1 .. L : i \in uncollapsed => \E k \in 1 .. M : Entries[k] = i
      /\ \A k, l \in 1 .. M : k < l => <<Entries[k], Entries[l]>> \in R
  <2> HIDE DEF all, uncollapsed, L, R
  <2>1. \A j \in 1 .. L : all[j] \in uncollapsed => \E k \in 1 .. M : Entries[k] = all[j]
    BY <1>1, <1>2, FilterMembers, SMTT(30)
  <2>2. Entries \in Seq(1 .. L)
    BY <1>1, <1>2, FilterMembers
  <2>3. \A k, l \in 1 .. M : k < l => <<Entries[k], Entries[l]>> \in R
    BY <1>1, <1>2, <1>4, FilterOrder
  <2>4. QED
    BY <1>1, <2>1, <2>2, <2>3
<1> SUFFICES ASSUME history # <<>>
             PROVE  /\ M \in Nat \ {0}
                    /\ Entries[M] = L
                    /\ Entry(L).lines = Lines(Last(history), 900)
  BY <1>5
<1>6. RecentStart \in Int /\ RecentStart < L
  <2> DEFINE start == L - RecentWindow
  <2>1. 0 \in Int /\ start \in Int /\ start < L /\ L \in Nat /\ L # 0
    BY <1>1, <1>3 DEF RecentWindow
  <2>2. RecentStart = Max({0, start})
    BY DEF RecentStart
  <2> HIDE DEF start, L
  <2>3. RecentStart = IF 0 >= start THEN 0 ELSE start
    BY <2>1, <2>2, MaxOfTwo, Zenon
  <2>4. QED
    BY <2>1, <2>3
<1>7. L \in uncollapsed
  <2>1. ~(L <= RecentStart)
    BY <1>1, <1>6
  <2>2. L \in 1 .. Len(history)
    BY <1>1, <1>3
  <2>3. QED
    BY <2>1, <2>2 DEF Collapsed
<1>8. Entry(L).lines = Lines(Last(history), 900)
  <2>1. L > RecentStart
    BY <1>1, <1>6
  <2>2. QED
    BY <2>1 DEF Entry, Last
<1>9. PICK k \in 1 .. M : Entries[k] = L
  BY <1>1, <1>3, <1>5, <1>7
<1>10. M \in Nat /\ M # 0 /\ \A l \in 1 .. M : Entries[l] \in 1 .. L
  BY <1>5
<1> HIDE DEF M, L, uncollapsed, all
<1>11. k = M
  <2> SUFFICES ASSUME k # M
               PROVE  FALSE
    OBVIOUS
  <2>1. k < M /\ M \in 1 .. M
    BY <1>10
  <2>2. <<Entries[k], Entries[M]>> \in R
    BY <1>5, <2>1
  <2>3. L < Entries[M] /\ Entries[M] \in 1 .. L
    BY <1>9, <1>10, <2>1, <2>2
  <2>4. QED
    BY <1>1, <2>3
<1>12. QED
  BY <1>8, <1>9, <1>10, <1>11

\* The history is within its budget, and its newest entry in it whenever its lines
\* fit the budget: nothing older can displace it, as it is the first to be rendered.
LEMMA HistoryRendered ==
  ASSUME history \in EntryItems, NEW budget \in Nat, budget >= 19
  PROVE  /\ RenderHistory(budget).size \in Nat /\ RenderHistory(budget).size <= budget
         /\ history # <<>> /\ Transcript + Joined(Lines(Last(history), 900)) <= budget
              => Len(history) \in RenderHistory(budget).shown
<1>1. CASE history = <<>>
  <2>1. RenderHistory(budget).size = 19
    BY <1>1 DEF RenderHistory, NothingYet, Transcript
  <2>2. QED
    BY <1>1, <2>1
<1>2. CASE history # <<>>
  <2> DEFINE N == Len(Entries)
             f == RenderedTo(Entries, budget)
             Fits == Transcript + Joined(Lines(Last(history), 900)) <= budget
             Good(r, n) == r.size <= budget /\ (Fits /\ n # 0 => Len(history) \in r.shown)
             T == {n \in Nat : n <= N => Good(f[n], n)}
  <2>1. /\ Entries \in Seq(1 .. Len(history)) /\ N \in Nat \ {0} /\ Entries[N] = Len(history)
        /\ Entry(Len(history)).lines = Lines(Last(history), 900)
    BY <1>2, NewestLast
  <2>2. /\ f[0] = NothingYet
        /\ \A n \in 1 .. N : f[n] = IncludeNext(Entries, n, f[n - 1], budget)
        /\ \A n \in 0 .. N : f[n] \in History
    BY <2>1, RenderSteps
  <2>3. \A n \in 1 .. N : Entries[N + 1 - n] \in 1 .. Len(history)
    <3>1. \A n \in 1 .. N : N + 1 - n \in 1 .. N
      BY <2>1
    <3>2. \A n \in 1 .. N : Entries[n] \in 1 .. Len(history)
      BY <2>1
    <3>3. QED
      BY <3>1, <3>2
  <2>4. RenderHistory(budget) = f[N]
    BY <1>2 DEF RenderHistory
  <2> HIDE DEF f
  <2>5. 0 \in T
    BY <2>2 DEF NothingYet, Transcript
  <2>6. ASSUME NEW n \in Nat, n \in T
        PROVE  n + 1 \in T
    <3> SUFFICES ASSUME n + 1 <= N
                 PROVE  Good(f[n + 1], n + 1)
      OBVIOUS
    <3>1. n + 1 \in 1 .. N /\ n \in 0 .. N /\ (n + 1) - 1 = n /\ Good(f[n], n) /\ f[n] \in History
      BY <2>1, <2>2, <2>6
    <3>2. f[n + 1] = IncludeNext(Entries, n + 1, f[n], budget)
      <4>1. f[n + 1] = IncludeNext(Entries, n + 1, f[(n + 1) - 1], budget)
        BY <2>2, <3>1, Zenon
      <4>2. QED
        BY <3>1, <4>1
    <3> DEFINE i == Entries[N + 1 - (n + 1)]
    <3>3. i \in 1 .. Len(history)
      BY <2>3, <3>1
    <3>4. /\ f[n + 1] \in History /\ f[n].shown \subseteq f[n + 1].shown
          /\ f[n].size <= budget => f[n + 1].size <= budget
          /\ f[n].size + Joined(Entry(i).lines) <= budget => i \in f[n + 1].shown
      BY <3>1, <3>2, <3>3, NextOK
    <3>5. CASE n = 0
      <4>1. N + 1 - (n + 1) = N
        BY <2>1, <3>5
      <4>2. i = Len(history)
        BY <2>1, <4>1
      <4>3. f[n].size = Transcript
        BY <2>2, <3>5 DEF NothingYet
      <4>4. QED
        BY <2>1, <3>1, <3>4, <4>2, <4>3
    <3>6. CASE n # 0
      BY <3>1, <3>4, <3>6
    <3>7. QED
      BY <3>5, <3>6
  <2>7. Nat \subseteq T
    <3> HIDE DEF T
    <3>1. QED
      BY <2>5, <2>6, Induction
  <2>8. N \in Nat /\ N # 0 /\ N \in T
    BY <2>1, <2>7
  <2>9. Good(f[N], N) /\ f[N] \in History
    <3>1. N \in 0 .. N /\ N <= N
      BY <2>8
    <3>2. QED
      BY <2>2, <2>8, <3>1
  <2>10. QED
    BY <2>4, <2>8, <2>9 DEF History
<1>3. QED
  BY <1>1, <1>2

\* The notes found are within their budget.
LEMMA RelevantRendered ==
  ASSUME NEW notes \in Seq(Nat), NEW budget \in Nat, budget >= 23
  PROVE  RenderRelevant(notes, budget) \in Nat /\ RenderRelevant(notes, budget) <= budget
<1> DEFINE n == Len(notes)
           remaining == Max({0, budget - TaskCheckpoint - 3 * n})
           each == Max({1, remaining \div n})
           lengths == [k \in 1 .. n |-> 3 + Clipped(notes[k], each)]
           rendered == TaskCheckpoint + SumOf(lengths)
<1>1. n \in Nat /\ \A k \in 1 .. n : notes[k] \in Nat
  OBVIOUS
<1>2. CASE n = 0
  <2>1. RenderRelevant(notes, budget) = TaskCheckpoint + 7
    BY <1>2 DEF RenderRelevant
  <2>2. QED
    BY <2>1 DEF TaskCheckpoint
<1>3. CASE n # 0
  <2>1. RenderRelevant(notes, budget) = Clipped(rendered, budget)
    BY <1>3 DEF RenderRelevant
  <2> HIDE DEF n
  <2>2. remaining \in Nat
    <3>1. 0 \in Int /\ budget - TaskCheckpoint - 3 * n \in Int
      BY <1>1 DEF TaskCheckpoint
    <3>2. remaining = IF 0 >= budget - TaskCheckpoint - 3 * n THEN 0 ELSE budget - TaskCheckpoint - 3 * n
      BY <3>1, MaxOfTwo, Zenon
    <3>3. QED
      BY <3>1, <3>2
  <2> HIDE DEF remaining
  <2>3. each \in Nat
    <3>1. 1 \in Int /\ remaining \div n \in Int
      BY <1>1, <1>3, <2>2
    <3>2. each = IF 1 >= remaining \div n THEN 1 ELSE remaining \div n
      BY <3>1, MaxOfTwo, Zenon
    <3>3. QED
      BY <3>1, <3>2
  <2> HIDE DEF each
  <2>4. lengths \in [1 .. n -> Nat]
    <3>1. \A k \in 1 .. n : Clipped(notes[k], each) \in Nat
      BY <1>1, <2>3, ClippedNatural
    <3>2. QED
      BY <3>1
  <2> HIDE DEF lengths
  <2>5. lengths \in Seq(Nat)
    <3>1. lengths \in UNION {[1 .. m -> Nat] : m \in Nat}
      BY <1>1, <2>4
    <3>2. QED
      BY <3>1, SeqDef
  <2>6. SumOf(lengths) \in Nat
    BY <2>5, SumNatural
  <2>7. rendered \in Nat
    BY <2>6 DEF TaskCheckpoint
  <2> HIDE DEF rendered
  <2>8. QED
    BY <2>1, <2>7, ClippedNatural
<1>4. QED
  BY <1>2, <1>3

AtLeastFloors(b) == b \in [Sections -> Nat] /\ \A s \in Sections : b[s] >= Floors[s]

\* A prompt is no longer than the budgets, the request and what joins them.
LEMMA AssembledFits ==
  ASSUME history \in EntryItems, NEW p \in PartSizes, NEW b, AtLeastFloors(b)
  PROVE  /\ Assembled(p, b) \in Nat
         /\ Assembled(p, b) <= b.prefix + b.memory + b.relevant_memory + b.history + p.request + 8
<1>1. /\ b.prefix \in Nat /\ b.memory \in Nat /\ b.relevant_memory \in Nat /\ b.history \in Nat
      /\ b.relevant_memory >= 23 /\ b.history >= 19
  BY FloorValues DEF AtLeastFloors, Sections
<1>2. p.prefix \in Nat /\ p.memory \in Nat /\ p.notes \in Seq(Nat) /\ p.checkpoint \in Nat /\ p.request \in Nat
  BY DEF PartSizes
<1>3. PrefixText(p) \in Nat
  BY <1>2 DEF PrefixText
<1>4. Clipped(PrefixText(p), b.prefix) \in Nat /\ Clipped(PrefixText(p), b.prefix) <= b.prefix
  BY <1>1, <1>3, ClippedNatural
<1>5. Clipped(p.memory, b.memory) \in Nat /\ Clipped(p.memory, b.memory) <= b.memory
  BY <1>1, <1>2, ClippedNatural
<1>6. RenderRelevant(p.notes, b.relevant_memory) \in Nat /\ RenderRelevant(p.notes, b.relevant_memory) <= b.relevant_memory
  BY <1>1, <1>2, RelevantRendered
<1>7. RenderHistory(b.history).size \in Nat /\ RenderHistory(b.history).size <= b.history
  BY <1>1, HistoryRendered
<1> DEFINE a == Clipped(PrefixText(p), b.prefix)
           m == Clipped(p.memory, b.memory)
           r == RenderRelevant(p.notes, b.relevant_memory)
           h == RenderHistory(b.history).size
           q == p.request
           aa == b.prefix
           mm == b.memory
           rr == b.relevant_memory
           hh == b.history
<1>8. Assembled(p, b) = a + m + r + h + q + 4 * 2
  BY DEF Assembled
<1>9. /\ a \in Nat /\ m \in Nat /\ r \in Nat /\ h \in Nat /\ q \in Nat
      /\ aa \in Nat /\ mm \in Nat /\ rr \in Nat /\ hh \in Nat
      /\ a <= aa /\ m <= mm /\ r <= rr /\ h <= hh
  BY <1>1, <1>2, <1>4, <1>5, <1>6, <1>7
<1>10. Assembled(p, b) \in Nat /\ Assembled(p, b) <= aa + mm + rr + hh + q + 8
  <2> HIDE DEF a, m, r, h, q, aa, mm, rr, hh
  <2>1. QED
    BY <1>8, <1>9
<1>11. QED
  BY <1>10

-----------------------------------------------------------------------------

\* No budget is below its floor; the size is that of the prompt for the budgets
\* unless they are still those of the start, when a checkpoint may have been put
\* at the end; what is sent fits or cannot be reduced.
PromptInv ==
  /\ history \in EntryItems /\ parts \in PartSizes
  /\ AtLeastFloors(budgets)
  /\ size \in Int
  /\ stage \in {"fit", "sent"} => budgets = SectionBudgets \/ size = Assembled(parts, budgets)
  /\ stage = "sent" => size <= Total \/ Reducible = {}

\* The invariant of the prompt holds at first.
LEMMA PromptStarts == PromptInit => PromptInv
<1> SUFFICES ASSUME PromptInit
             PROVE  PromptInv
  OBVIOUS
<1>1. history \in EntryItems
  BY DEF PromptInit, EntryItems
<1>2. parts \in PartSizes
  BY DEF PromptInit, NoParts, PartSizes
<1>3. AtLeastFloors(budgets)
  BY FloorValues DEF PromptInit, AtLeastFloors, SectionBudgets, Sections
<1>4. size \in Int /\ stage = "talk"
  BY DEF PromptInit
<1>5. QED
  BY <1>1, <1>2, <1>3, <1>4 DEF PromptInv

\* The budgets begin above the floors.
LEMMA StartBudgets == AtLeastFloors(SectionBudgets)
BY FloorValues DEF AtLeastFloors, SectionBudgets, Sections

\* The budget to lower next is one of the sections'.
LEMMA ReducibleTurn ==
  ASSUME Reducible # {}
  PROVE  Min(Reducible) \in Reducible /\ ReductionOrder[Min(Reducible)] \in Sections
<1>1. Reducible \subseteq 1 .. 4
  BY DEF Reducible, ReductionOrder
<1>2. \E n \in Reducible : \A m \in Reducible : n <= m
  <2>1. Reducible \subseteq Nat
    BY <1>1
  <2>2. QED
    BY <2>1, Smallest, Zenon
<1>3. Min(Reducible) \in Reducible
  BY <1>2 DEF Min
<1>4. \A n \in 1 .. 4 : ReductionOrder[n] \in Sections
  BY DEF ReductionOrder, Sections
<1>5. QED
  BY <1>1, <1>3, <1>4

\* Each step of building the prompt keeps its invariant.
LEMMA PromptKept == PromptInv /\ [PromptNext]_promptVars => PromptInv'
<1> SUFFICES ASSUME PromptInv, [PromptNext]_promptVars
             PROVE  PromptInv'
  OBVIOUS
<1>1. /\ history \in EntryItems /\ parts \in PartSizes /\ AtLeastFloors(budgets) /\ size \in Int
      /\ stage \in {"fit", "sent"} => budgets = SectionBudgets \/ size = Assembled(parts, budgets)
      /\ stage = "sent" => size <= Total \/ Reducible = {}
  BY DEF PromptInv
<1>2. CASE Record
  <2>1. PICK item \in Items, n \in Batches : history' = history \o [k \in 1 .. n |-> item]
    BY <1>2 DEF Record
  <2>2. [k \in 1 .. n |-> item] \in EntryItems
    <3>1. n \in Nat /\ item.call \in Nat /\ item.text \in Nat
      BY PromptAssumption
    <3>2. QED
      BY <3>1 DEF EntryItems
  <2> DEFINE more == [k \in 1 .. n |-> item]
  <2> HIDE DEF more
  <2>3. history' \in EntryItems
    <3>1. history' = history \o more
      BY <2>1 DEF more
    <3>2. more \in EntryItems
      BY <2>2 DEF more
    <3>3. QED
      BY <1>1, <3>1, <3>2 DEF EntryItems
  <2>4. parts' = NoParts /\ budgets' = SectionBudgets /\ size' = 0 /\ stage' = "talk"
    BY <1>2 DEF Record
  <2>5. parts' \in PartSizes
    BY <2>4 DEF NoParts, PartSizes
  <2>6. AtLeastFloors(budgets)'
    BY <2>4, StartBudgets DEF AtLeastFloors
  <2>7. QED
    BY <2>3, <2>4, <2>5, <2>6 DEF PromptInv
<1>3. CASE Build
  <2>1. /\ history' = history /\ summaries' = summaries /\ budgets' = SectionBudgets /\ stage' = "fit"
        /\ parts' \in [prefix : PrefixTexts, memory : MemoryTexts, notes : NoteTexts,
                       checkpoint : CheckpointTexts, request : RequestTexts]
        /\ size' = Assembled(parts', SectionBudgets)
                    + IF told' /\ ~ShowsCheckpoint(parts', SectionBudgets.prefix)
                      THEN 2 + parts'.checkpoint ELSE 0
    BY <1>3 DEF Build
  <2>2. parts' \in PartSizes
    <3>1. PrefixTexts \subseteq Nat /\ MemoryTexts \subseteq Nat /\ CheckpointTexts \subseteq Nat
          /\ RequestTexts \subseteq Nat /\ NoteTexts \subseteq Seq(Nat)
      BY PromptAssumption
    <3>2. QED
      BY <2>1, <3>1 DEF PartSizes
  <2>3. AtLeastFloors(budgets)'
    BY <2>1, StartBudgets DEF AtLeastFloors
  <2>4. size' \in Int
    <3>1. Assembled(parts', SectionBudgets) \in Nat
      BY <1>1, <2>2, StartBudgets, AssembledFits
    <3>2. parts'.checkpoint \in Nat
      BY <2>2 DEF PartSizes
    <3>3. QED
      BY <2>1, <3>1, <3>2
  <2>h. history' \in EntryItems
    BY <1>1, <2>1
  <2>5. QED
    BY <2>h, <2>1, <2>2, <2>3, <2>4 DEF PromptInv
<1>4. CASE Reduce
  <2> DEFINE s == ReductionOrder[Min(Reducible)]
             lower == budgets[s] - (size - Total)
  <2>1. /\ Reducible # {} /\ UNCHANGED <<history, summaries, parts>> /\ stage' = "fit"
        /\ budgets' = [budgets EXCEPT ![s] = Max({Floors[s], lower})]
        /\ size' = Assembled(parts, budgets')
    BY <1>4 DEF Reduce
  <2>2. s \in Sections
    BY <2>1, ReducibleTurn
  <2>3. budgets[s] \in Nat /\ Floors[s] \in Nat /\ budgets \in [Sections -> Nat]
        /\ \A t \in Sections : budgets[t] >= Floors[t]
    BY <1>1, <2>2, FloorValues DEF AtLeastFloors
  <2> HIDE DEF s
  <2>4. Max({Floors[s], lower}) \in Nat /\ Max({Floors[s], lower}) >= Floors[s]
    <3>1. Floors[s] \in Int /\ lower \in Int
      BY <1>1, <2>3 DEF Total
    <3> HIDE DEF lower
    <3>2. Max({Floors[s], lower}) = IF Floors[s] >= lower THEN Floors[s] ELSE lower
      BY <3>1, MaxOfTwo, Zenon
    <3>3. QED
      BY <2>3, <3>1, <3>2
  <2> HIDE DEF lower
  <2>5. AtLeastFloors(budgets)'
    <3>1. budgets' \in [Sections -> Nat]
      BY <2>1, <2>3, <2>4
    <3>2. \A t \in Sections : budgets'[t] >= Floors[t]
      BY <2>1, <2>2, <2>3, <2>4
    <3>3. QED
      BY <3>1, <3>2 DEF AtLeastFloors
  <2>6. AtLeastFloors(budgets')
    BY <2>5 DEF AtLeastFloors
  <2>7. Assembled(parts, budgets') \in Nat
    BY <1>1, <2>6, AssembledFits
  <2>8. Assembled(parts, budgets)' = Assembled(parts, budgets')
    <3>1. history' = history /\ summaries' = summaries
      BY <2>1
    <3>2. RenderHistory(budgets.history)' = RenderHistory(budgets'.history)
      BY <3>1 DEF RenderHistory, RenderedTo, IncludeNext, Entry, Entries, Collapsed, RecentStart, OldLines
    <3>3. QED
      BY <2>1, <3>2 DEF Assembled
  <2>9. QED
    BY <1>1, <2>1, <2>5, <2>7, <2>8 DEF PromptInv
<1>5. CASE Send \/ UNCHANGED promptVars
  <2>1. UNCHANGED <<history, summaries, parts, budgets, size>>
    BY <1>5 DEF Send, promptVars
  <2>2. Assembled(parts, budgets)' = Assembled(parts, budgets)
    <3>1. history' = history /\ summaries' = summaries /\ budgets' = budgets
      BY <2>1
    <3>2. RenderHistory(budgets.history)' = RenderHistory(budgets.history)
      BY <3>1 DEF RenderHistory, RenderedTo, IncludeNext, Entry, Entries, Collapsed, RecentStart, OldLines
    <3>3. QED
      BY <2>1, <3>2 DEF Assembled
  <2>3. AtLeastFloors(budgets)' /\ Reducible' = Reducible
    BY <1>1, <2>1 DEF AtLeastFloors, Reducible
  <2>4. stage' = stage \/ (stage = "fit" /\ stage' = "sent" /\ (size <= Total \/ Reducible = {}))
    BY <1>5 DEF Send, promptVars
  <2>5. QED
    BY <1>1, <2>1, <2>2, <2>3, <2>4 DEF PromptInv
<1>6. QED
  BY <1>2, <1>3, <1>4, <1>5 DEF PromptNext

\* A prompt is sent when it fits, or is all floors.
LEMMA SentFits == PromptInv => PromptFits
<1> SUFFICES ASSUME PromptInv, stage = "sent"
             PROVE  /\ parts.request + 8 + Floors.prefix + Floors.memory + Floors.relevant_memory + Floors.history <= Total
                         => size <= Total
                    /\ history # <<>> /\ Transcript + Joined(Lines(Last(history), 900)) <= Floors.history
                         => Len(history) \in RenderHistory(budgets.history).shown
  BY DEF PromptFits
<1>1. /\ history \in EntryItems /\ parts \in PartSizes /\ AtLeastFloors(budgets) /\ size \in Int
      /\ budgets = SectionBudgets \/ size = Assembled(parts, budgets)
      /\ size <= Total \/ Reducible = {}
  BY DEF PromptInv
<1>2. /\ budgets["prefix"] \in Nat /\ budgets["memory"] \in Nat
      /\ budgets["relevant_memory"] \in Nat /\ budgets["history"] \in Nat
      /\ Floors["prefix"] = 900 /\ Floors["memory"] = 400 /\ Floors["relevant_memory"] = 300 /\ Floors["history"] = 1300
      /\ budgets["history"] >= Floors["history"]
  BY <1>1, FloorValues DEF AtLeastFloors, Sections
<1>3. ASSUME parts.request + 8 + Floors.prefix + Floors.memory + Floors.relevant_memory + Floors.history <= Total
      PROVE  size <= Total
  <2> SUFFICES ASSUME Reducible = {}
               PROVE  size <= Total
    BY <1>1
  <2>1. \A n \in 1 .. 4 : ~(budgets[ReductionOrder[n]] > Floors[ReductionOrder[n]])
    BY DEF Reducible, ReductionOrder
  <2>2. ReductionOrder[1] = "relevant_memory" /\ ReductionOrder[2] = "history"
        /\ ReductionOrder[3] = "memory" /\ ReductionOrder[4] = "prefix"
    BY DEF ReductionOrder
  <2>3. ~(budgets["prefix"] > Floors["prefix"]) /\ ~(budgets["memory"] > Floors["memory"])
        /\ ~(budgets["relevant_memory"] > Floors["relevant_memory"]) /\ ~(budgets["history"] > Floors["history"])
    <3>1. 1 \in 1 .. 4 /\ 2 \in 1 .. 4 /\ 3 \in 1 .. 4 /\ 4 \in 1 .. 4
      OBVIOUS
    <3>2. QED
      BY <2>1, <2>2, <3>1
  <2>4. /\ budgets["prefix"] <= 900 /\ budgets["memory"] <= 400
        /\ budgets["relevant_memory"] <= 300 /\ budgets["history"] <= 1300
    BY <1>2, <2>3
  <2>5. budgets # SectionBudgets
    BY <2>4 DEF SectionBudgets
  <2>6. /\ size = Assembled(parts, budgets)
        /\ Assembled(parts, budgets)
              <= budgets.prefix + budgets.memory + budgets.relevant_memory + budgets.history + parts.request + 8
    BY <1>1, <2>5, AssembledFits
  <2>7. parts.request \in Nat
    BY <1>1 DEF PartSizes
  <2> DEFINE p == budgets.prefix
             m == budgets.memory
             r == budgets.relevant_memory
             h == budgets.history
             q == parts.request
  <2>8. /\ p \in Nat /\ m \in Nat /\ r \in Nat /\ h \in Nat /\ q \in Nat
        /\ p <= 900 /\ m <= 400 /\ r <= 300 /\ h <= 1300
        /\ size <= p + m + r + h + q + 8
    BY <1>2, <2>4, <2>6, <2>7
  <2>9. q + 8 + 900 + 400 + 300 + 1300 <= Total
    BY <1>2, <1>3
  <2> HIDE DEF p, m, r, h, q
  <2>10. QED
    BY <1>1, <2>8, <2>9 DEF Total
<1>4. ASSUME history # <<>>, Transcript + Joined(Lines(Last(history), 900)) <= Floors.history
      PROVE  Len(history) \in RenderHistory(budgets.history).shown
  <2>1. Transcript + Joined(Lines(Last(history), 900)) \in Int
    <3>1. Lines(Last(history), 900) \in Seq(Nat)
      <4>1. Len(history) \in 1 .. Len(history)
        BY <1>1, <1>4 DEF EntryItems
      <4>2. Entry(Len(history)).lines \in Seq(Nat)
        BY <1>1, <4>1, EntryOK
      <4>3. QED
        BY <1>1, <1>4, <4>2, NewestLast
    <3>2. QED
      BY <3>1, JoinedNatural DEF Transcript
  <2>2. Transcript + Joined(Lines(Last(history), 900)) <= budgets.history
    BY <1>2, <1>4, <2>1
  <2>3. budgets.history \in Nat /\ budgets.history >= 19
    BY <1>2
  <2>4. QED
    BY <1>1, <1>4, <2>2, <2>3, HistoryRendered
<1>5. QED
  BY <1>3, <1>4

(* A prompt fits the total budget whenever the request leaves room for the    *)
(* floors of the sections, and it holds the newest entry of the history       *)
(* whenever its lines fit the floor of the history: for any conversation and  *)
(* any lengths of the texts.                                                  *)
THEOREM PromptsFit == PromptInit /\ [][PromptNext]_promptVars => []PromptFits
<1>1. PromptInit /\ [][PromptNext]_promptVars => []PromptInv
  BY PromptStarts, PromptKept, PTL
<1>2. QED
  BY <1>1, SentFits, PTL

-----------------------------------------------------------------------------
(* ReplyStream: texts and tags *)

Texts == Seq(Symbols)

\* The tags, symbol by symbol.
LEMMA TagsAre ==
  /\ FinalOpen \in Texts /\ Len(FinalOpen) = 2 /\ FinalOpen[1] = "<" /\ FinalOpen[2] = "f"
  /\ ToolOpen \in Texts /\ Len(ToolOpen) = 2 /\ ToolOpen[1] = "<" /\ ToolOpen[2] = "t"
  /\ FinalClose \in Texts /\ Len(FinalClose) = 3
  /\ FinalClose[1] = "<" /\ FinalClose[2] = "/" /\ FinalClose[3] = "f"
<1>1. "<" \in Symbols /\ "f" \in Symbols /\ "t" \in Symbols /\ "/" \in Symbols
  BY ReplyAssumption
<1>2. FinalOpen \in Texts /\ Len(FinalOpen) = 2 /\ FinalOpen[1] = "<" /\ FinalOpen[2] = "f"
  BY <1>1 DEF Texts, FinalOpen
<1>3. ToolOpen \in Texts /\ Len(ToolOpen) = 2 /\ ToolOpen[1] = "<" /\ ToolOpen[2] = "t"
  BY <1>1 DEF Texts, ToolOpen
<1>4. FinalClose \in Texts /\ Len(FinalClose) = 3
      /\ FinalClose[1] = "<" /\ FinalClose[2] = "/" /\ FinalClose[3] = "f"
  BY <1>1 DEF Texts, FinalClose
<1>5. QED
  BY <1>2, <1>3, <1>4

\* Where a tag stands, symbol by symbol.
LEMMA TagAt ==
  ASSUME NEW text \in Texts, NEW tag \in Texts
  PROVE  /\ TagsAt(text, tag) \subseteq Nat
         /\ \A i \in Nat : i \in TagsAt(text, tag) <=>
              /\ 1 <= i /\ i + Len(tag) - 1 <= Len(text)
              /\ \A k \in 1 .. Len(tag) : text[i + k - 1] = tag[k]
<1> DEFINE L == Len(tag)
           N == Len(text)
<1>1. L \in Nat /\ N \in Nat /\ \A i \in 1 .. N : text[i] \in Symbols
  BY DEF Texts
<1>2. TagsAt(text, tag) = {i \in 1 .. N - L + 1 : SubSeq(text, i, i + L - 1) = tag}
  BY DEF TagsAt
<1> HIDE DEF L, N
<1>3. TagsAt(text, tag) \subseteq Nat
  BY <1>1, <1>2
<1>4. ASSUME NEW i \in Nat, 1 <= i, i + L - 1 <= N
      PROVE  SubSeq(text, i, i + L - 1) = tag <=> \A k \in 1 .. L : text[i + k - 1] = tag[k]
  <2> DEFINE part == SubSeq(text, i, i + L - 1)
  <2>1. i + L - 1 \in Int /\ \A j \in i .. i + L - 1 : text[j] \in Symbols
    BY <1>1, <1>4
  <2>2. /\ part \in Texts
        /\ Len(part) = IF i <= i + L - 1 THEN (i + L - 1) - i + 1 ELSE 0
        /\ \A k \in 1 .. (i + L - 1) - i + 1 : part[k] = text[i + k - 1]
    BY <2>1, SubSeqProperties DEF Texts
  <2> HIDE DEF part
  <2>3. Len(part) = L /\ \A k \in 1 .. L : part[k] = text[i + k - 1]
    BY <1>1, <2>2
  <2>4. ASSUME \A k \in 1 .. L : text[i + k - 1] = tag[k]
        PROVE  part = tag
    <3>1. \A k \in 1 .. Len(part) : part[k] = tag[k]
      BY <2>3, <2>4
    <3>2. Len(part) = Len(tag)
      BY <2>3 DEF L
    <3>3. QED
      BY <2>2, <3>1, <3>2, SeqEqual DEF Texts
  <2>5. QED
    BY <2>3, <2>4 DEF part
<1>5. QED
  <2>1. ASSUME NEW i \in Nat
        PROVE  i \in TagsAt(text, tag) <=>
                 1 <= i /\ i + L - 1 <= N /\ \A k \in 1 .. L : text[i + k - 1] = tag[k]
    <3>1. i \in 1 .. N - L + 1 <=> 1 <= i /\ i + L - 1 <= N
      BY <1>1
    <3>2. QED
      BY <1>2, <1>4, <3>1
  <2>2. QED
    BY <1>3, <2>1 DEF L, N

\* The first place of a tag that is there.
LEMMA FirstTag ==
  ASSUME NEW text \in Texts, NEW tag \in Texts, Has(text, tag)
  PROVE  /\ Min(TagsAt(text, tag)) \in TagsAt(text, tag)
         /\ \A i \in TagsAt(text, tag) : Min(TagsAt(text, tag)) <= i
<1>1. TagsAt(text, tag) \subseteq Nat /\ TagsAt(text, tag) # {}
  BY TagAt DEF Has
<1>2. \E n \in TagsAt(text, tag) : \A m \in TagsAt(text, tag) : n <= m
  BY <1>1, Smallest, Zenon
<1>3. QED
  BY <1>2 DEF Min

\* Two texts joined, symbol by symbol.
LEMMA Joins ==
  ASSUME NEW text \in Texts, NEW more \in Texts
  PROVE  /\ text \o more \in Texts
         /\ Len(text) \in Nat /\ Len(more) \in Nat
         /\ Len(text \o more) = Len(text) + Len(more)
         /\ \A i \in 1 .. Len(text) : (text \o more)[i] = text[i]
         /\ \A i \in 1 .. Len(more) : (text \o more)[Len(text) + i] = more[i]
<1>1. /\ text \o more \in Texts /\ Len(text) \in Nat /\ Len(more) \in Nat
      /\ Len(text \o more) = Len(text) + Len(more)
      /\ \A i \in 1 .. Len(text) + Len(more) :
           (text \o more)[i] = IF i <= Len(text) THEN text[i] ELSE more[i - Len(text)]
  BY ConcatProperties DEF Texts
<1> DEFINE t == text \o more
           L == Len(text)
           M == Len(more)
<1>2. L \in Nat /\ M \in Nat /\ \A i \in 1 .. L + M : t[i] = IF i <= L THEN text[i] ELSE more[i - L]
  BY <1>1
<1> HIDE DEF t, L, M
<1>3. \A i \in 1 .. L : t[i] = text[i]
  BY <1>2
<1>4. ASSUME NEW i \in 1 .. M
      PROVE  t[L + i] = more[i]
  <2>1. L + i \in 1 .. L + M /\ ~(L + i <= L) /\ (L + i) - L = i
    BY <1>2
  <2>2. QED
    BY <1>2, <2>1
<1>5. QED
  BY <1>1, <1>3, <1>4 DEF t, L, M

\* A text that grows keeps its tags; new ones end in what was added.
LEMMA TagsStay ==
  ASSUME NEW text \in Texts, NEW more \in Texts, NEW tag \in Texts
  PROVE  /\ TagsAt(text, tag) \subseteq TagsAt(text \o more, tag)
         /\ \A i \in TagsAt(text \o more, tag) :
              i + Len(tag) - 1 <= Len(text) => i \in TagsAt(text, tag)
<1> DEFINE t == text \o more
           N == Len(text)
           L == Len(tag)
<1>1. t \in Texts /\ N \in Nat /\ Len(t) \in Nat /\ Len(t) >= N /\ \A i \in 1 .. N : t[i] = text[i]
  BY Joins
<1>2. L \in Nat
  BY DEF Texts
<1>3. TagsAt(text, tag) \subseteq Nat /\ TagsAt(t, tag) \subseteq Nat
  BY <1>1, TagAt
<1>4. \A i \in Nat : i \in TagsAt(text, tag) <=>
        1 <= i /\ i + L - 1 <= N /\ \A k \in 1 .. L : text[i + k - 1] = tag[k]
  BY TagAt
<1>5. \A i \in Nat : i \in TagsAt(t, tag) <=>
        1 <= i /\ i + L - 1 <= Len(t) /\ \A k \in 1 .. L : t[i + k - 1] = tag[k]
  BY <1>1, TagAt
<1> HIDE DEF t, N, L
<1>6. ASSUME NEW i \in Nat, 1 <= i, i + L - 1 <= N
      PROVE  \A k \in 1 .. L : t[i + k - 1] = text[i + k - 1]
  <2> TAKE k \in 1 .. L
  <2>1. i + k - 1 \in 1 .. N
    BY <1>1, <1>2, <1>6
  <2>2. QED
    BY <1>1, <2>1
<1>7. ASSUME NEW i \in TagsAt(text, tag)
      PROVE  i \in TagsAt(t, tag)
  <2>1. i \in Nat /\ 1 <= i /\ i + L - 1 <= N /\ \A k \in 1 .. L : text[i + k - 1] = tag[k]
    BY <1>3, <1>4
  <2>2. \A k \in 1 .. L : t[i + k - 1] = tag[k]
    BY <1>6, <2>1
  <2>3. i + L - 1 <= Len(t)
    BY <1>1, <1>2, <2>1
  <2>4. QED
    BY <1>5, <2>1, <2>2, <2>3
<1>8. ASSUME NEW i \in TagsAt(t, tag), i + L - 1 <= N
      PROVE  i \in TagsAt(text, tag)
  <2>1. i \in Nat /\ 1 <= i /\ \A k \in 1 .. L : t[i + k - 1] = tag[k]
    BY <1>3, <1>5
  <2>2. \A k \in 1 .. L : text[i + k - 1] = tag[k]
    BY <1>6, <1>8, <2>1
  <2>3. QED
    BY <1>4, <1>8, <2>1, <2>2
<1>9. QED
  BY <1>7, <1>8 DEF t, N, L

\* So the first one stays the first.
LEMMA FirstStays ==
  ASSUME NEW text \in Texts, NEW more \in Texts, NEW tag \in Texts, Has(text, tag)
  PROVE  /\ Has(text \o more, tag)
         /\ Min(TagsAt(text \o more, tag)) = Min(TagsAt(text, tag))
<1> DEFINE t == text \o more
           p == Min(TagsAt(text, tag))
           q == Min(TagsAt(t, tag))
           L == Len(tag)
<1>1. t \in Texts
  BY Joins
<1>2. p \in TagsAt(text, tag) /\ \A i \in TagsAt(text, tag) : p <= i
  BY FirstTag
<1>3. p \in TagsAt(t, tag) /\ \A i \in TagsAt(t, tag) : i + L - 1 <= Len(text) => i \in TagsAt(text, tag)
  BY <1>2, TagsStay
<1>4. Has(t, tag)
  BY <1>3 DEF Has
<1>5. q \in TagsAt(t, tag) /\ \A i \in TagsAt(t, tag) : q <= i
  BY <1>1, <1>4, FirstTag
<1>6. p \in Nat /\ q \in Nat /\ L \in Nat /\ Len(text) \in Nat /\ p + L - 1 <= Len(text)
  <2>1. p \in Nat /\ q \in Nat
    BY <1>1, <1>2, <1>5, TagAt
  <2>2. p + L - 1 <= Len(text)
    BY <1>2, <2>1, TagAt
  <2>3. QED
    BY <2>1, <2>2 DEF Texts
<1> HIDE DEF p, q, t, L
<1>7. q <= p
  BY <1>3, <1>5
<1>8. q + L - 1 <= Len(text)
  BY <1>6, <1>7
<1>9. p <= q
  BY <1>2, <1>3, <1>5, <1>8
<1>10. QED
  BY <1>4, <1>6, <1>7, <1>9 DEF p, q, t

\* What a reply is does not change while it grows: a tool call stays one, an
\* answer stays one.
LEMMA KindStays ==
  ASSUME NEW text \in Texts, NEW more \in Texts
  PROVE  /\ ToolFirst(text) => ToolFirst(text \o more)
         /\ Has(text, FinalOpen) /\ ~ToolFirst(text) => ~ToolFirst(text \o more)
<1> DEFINE t == text \o more
           N == Len(text)
<1>1. t \in Texts /\ FinalOpen \in Texts /\ ToolOpen \in Texts /\ Len(FinalOpen) = 2 /\ Len(ToolOpen) = 2
      /\ N \in Nat
  BY Joins, TagsAre
<1>2. /\ \A i \in TagsAt(t, FinalOpen) : i + 1 <= N => i \in TagsAt(text, FinalOpen)
      /\ \A i \in TagsAt(t, ToolOpen) : i + 1 <= N => i \in TagsAt(text, ToolOpen)
      /\ \A i \in TagsAt(text, FinalOpen) : i \in Nat /\ i + 1 <= N
      /\ \A i \in TagsAt(text, ToolOpen) : i \in Nat /\ i + 1 <= N
      /\ \A i \in TagsAt(t, FinalOpen) \cup TagsAt(t, ToolOpen) : i \in Nat
  <2>1. \A i \in Nat : i + 2 - 1 = i + 1
    OBVIOUS
  <2>2. TagsAt(text, FinalOpen) \subseteq Nat /\ TagsAt(text, ToolOpen) \subseteq Nat
        /\ TagsAt(t, FinalOpen) \subseteq Nat /\ TagsAt(t, ToolOpen) \subseteq Nat
    BY <1>1, TagAt
  <2>3. /\ \A i \in TagsAt(t, FinalOpen) : i + Len(FinalOpen) - 1 <= N => i \in TagsAt(text, FinalOpen)
        /\ \A i \in TagsAt(t, ToolOpen) : i + Len(ToolOpen) - 1 <= N => i \in TagsAt(text, ToolOpen)
    BY <1>1, TagsStay
  <2>4. /\ \A i \in TagsAt(text, FinalOpen) : i + Len(FinalOpen) - 1 <= N
        /\ \A i \in TagsAt(text, ToolOpen) : i + Len(ToolOpen) - 1 <= N
    BY <1>1, <2>2, TagAt
  <2> HIDE DEF t, N
  <2>5. QED
    BY <1>1, <2>1, <2>2, <2>3, <2>4
<1>3. ASSUME ToolFirst(text)
      PROVE  ToolFirst(t)
  <2> DEFINE p == Min(TagsAt(text, ToolOpen))
             q == Min(TagsAt(t, FinalOpen))
  <2>1. Has(text, ToolOpen) /\ (Has(text, FinalOpen) => p < Min(TagsAt(text, FinalOpen)))
    BY <1>3 DEF ToolFirst
  <2>2. Has(t, ToolOpen) /\ Min(TagsAt(t, ToolOpen)) = p
    BY <1>1, <2>1, FirstStays
  <2>3. p \in TagsAt(text, ToolOpen)
    BY <1>1, <2>1, FirstTag
  <2>4. ASSUME Has(t, FinalOpen)
        PROVE  p < q
    <3>1. q \in TagsAt(t, FinalOpen)
      BY <1>1, <2>4, FirstTag
    <3> SUFFICES ASSUME ~(p < q)
                 PROVE  FALSE
      OBVIOUS
    <3>2. q \in TagsAt(text, FinalOpen)
      <4> HIDE DEF p, q, t, N
      <4>1. p \in Nat /\ q \in Nat /\ p + 1 <= N
        BY <1>2, <2>3, <3>1
      <4>2. q + 1 <= N
        BY <1>1, <4>1
      <4>3. QED
        BY <1>2, <3>1, <4>2
    <3>3. Has(text, FinalOpen)
      BY <3>2 DEF Has
    <3>4. Min(TagsAt(text, FinalOpen)) <= q /\ Min(TagsAt(text, FinalOpen)) \in TagsAt(text, FinalOpen)
      BY <1>1, <3>2, <3>3, FirstTag
    <3> HIDE DEF p, q, t, N
    <3>5. Min(TagsAt(text, FinalOpen)) \in Nat /\ p \in Nat /\ q \in Nat
      BY <1>2, <2>3, <3>1, <3>4
    <3>6. QED
      BY <2>1, <3>3, <3>4, <3>5
  <2>5. QED
    BY <2>2, <2>4 DEF ToolFirst
<1>4. ASSUME Has(text, FinalOpen), ~ToolFirst(text), ToolFirst(t)
      PROVE  FALSE
  <2> DEFINE p == Min(TagsAt(text, FinalOpen))
             q == Min(TagsAt(t, ToolOpen))
  <2>1. Has(t, FinalOpen) /\ Min(TagsAt(t, FinalOpen)) = p
    BY <1>1, <1>4, FirstStays
  <2>2. Has(t, ToolOpen) /\ q < p
    BY <1>4, <2>1 DEF ToolFirst
  <2>3. p \in TagsAt(text, FinalOpen) /\ q \in TagsAt(t, ToolOpen)
    BY <1>1, <1>4, <2>2, FirstTag
  <2>4. q \in TagsAt(text, ToolOpen)
    <3> HIDE DEF p, q, t, N
    <3>1. p \in Nat /\ q \in Nat /\ p + 1 <= N
      BY <1>2, <2>3
    <3>2. q + 1 <= N
      BY <1>1, <2>2, <3>1
    <3>3. QED
      BY <1>2, <2>3, <3>2
  <2>5. Has(text, ToolOpen)
    BY <2>4 DEF Has
  <2>6. Min(TagsAt(text, ToolOpen)) <= q /\ Min(TagsAt(text, ToolOpen)) \in TagsAt(text, ToolOpen)
    BY <1>1, <2>4, <2>5, FirstTag
  <2>7. Min(TagsAt(text, ToolOpen)) < p
    <3> HIDE DEF p, q, t, N
    <3>1. Min(TagsAt(text, ToolOpen)) \in Nat /\ p \in Nat /\ q \in Nat
      BY <1>2, <2>3, <2>6
    <3>2. QED
      BY <2>2, <2>6, <3>1
  <2>8. QED
    BY <1>4, <2>5, <2>7 DEF ToolFirst
<1>5. QED
  BY <1>3, <1>4

\* What stands before and after the first place of a tag.
LEMMA AfterIs ==
  ASSUME NEW text \in Texts, NEW tag \in Texts, Has(text, tag)
  PROVE  LET p == Min(TagsAt(text, tag))
             from == p + Len(tag) - 1
         IN  /\ p \in Nat /\ 1 <= p /\ from \in 0 .. Len(text)
             /\ After(text, tag) \in Texts
             /\ Len(After(text, tag)) = Len(text) - from
             /\ \A i \in 1 .. Len(text) - from : After(text, tag)[i] = text[from + i]
             /\ Before(text, tag) \in Texts
             /\ Len(Before(text, tag)) = p - 1
             /\ \A i \in 1 .. p - 1 : Before(text, tag)[i] = text[i]
<1> DEFINE p == Min(TagsAt(text, tag))
           L == Len(tag)
           N == Len(text)
           rest == After(text, tag)
           head == Before(text, tag)
<1>1. L \in Nat /\ N \in Nat /\ \A i \in 1 .. N : text[i] \in Symbols
  BY DEF Texts
<1>2. p \in Nat /\ 1 <= p /\ p + L - 1 <= N
  <2>1. p \in TagsAt(text, tag)
    BY FirstTag
  <2>2. p \in Nat
    BY <2>1, TagAt
  <2>3. QED
    BY <2>1, <2>2, TagAt
<1>3. rest = SubSeq(text, p + L, N) /\ head = SubSeq(text, 1, p - 1)
  BY DEF After, Before
<1> HIDE DEF p, L, N, rest, head
<1>4. /\ rest \in Texts
      /\ Len(rest) = IF p + L <= N THEN N - (p + L) + 1 ELSE 0
      /\ \A i \in 1 .. N - (p + L) + 1 : rest[i] = text[(p + L) + i - 1]
  <2>1. p + L \in Int /\ N \in Int /\ \A i \in p + L .. N : text[i] \in Symbols
    BY <1>1, <1>2
  <2>2. QED
    BY <1>3, <2>1, SubSeqProperties DEF Texts
<1>5. /\ head \in Texts
      /\ Len(head) = IF 1 <= p - 1 THEN (p - 1) - 1 + 1 ELSE 0
      /\ \A i \in 1 .. (p - 1) - 1 + 1 : head[i] = text[1 + i - 1]
  <2>1. 1 \in Int /\ p - 1 \in Int /\ \A i \in 1 .. p - 1 : text[i] \in Symbols
    <3>1. p - 1 \in Int /\ p - 1 <= N
      BY <1>1, <1>2
    <3>2. QED
      BY <1>1, <3>1
  <2>2. QED
    BY <1>3, <2>1, SubSeqProperties DEF Texts
<1>6. Len(rest) = N - (p + L - 1) /\ \A i \in 1 .. N - (p + L - 1) : rest[i] = text[p + L - 1 + i]
  <2>1. Len(rest) = N - (p + L - 1)
    BY <1>1, <1>2, <1>4
  <2>2. N - (p + L) + 1 = N - (p + L - 1) /\ \A i \in Nat : (p + L) + i - 1 = p + L - 1 + i
    BY <1>1, <1>2
  <2>3. QED
    BY <1>4, <2>1, <2>2
<1>7. Len(head) = p - 1 /\ \A i \in 1 .. p - 1 : head[i] = text[i]
  <2>1. Len(head) = p - 1 /\ (p - 1) - 1 + 1 = p - 1 /\ \A i \in Nat : 1 + i - 1 = i
    BY <1>2, <1>5
  <2>2. QED
    BY <1>5, <2>1
<1>8. p + L - 1 \in 0 .. N
  BY <1>1, <1>2
<1>9. QED
  BY <1>2, <1>4, <1>5, <1>6, <1>7, <1>8 DEF p, L, N, rest, head

\* The answer grows with the reply until its closing tag is there, which ends it.
LEMMA AnswerGrows ==
  ASSUME NEW text \in Texts, NEW more \in Texts, NEW tag \in Texts, Has(text, tag)
  PROVE  /\ After(text \o more, tag) = After(text, tag) \o more
         /\ Before(text \o more, tag) = Before(text, tag)
<1> DEFINE t == text \o more
           p == Min(TagsAt(text, tag))
           from == p + Len(tag) - 1
           a == After(text, tag)
           b == After(t, tag)
           c == Before(text, tag)
           d == Before(t, tag)
           N == Len(text)
           M == Len(more)
<1>1. /\ t \in Texts /\ N \in Nat /\ M \in Nat /\ Len(t) = N + M
      /\ \A i \in 1 .. N : t[i] = text[i]
      /\ \A i \in 1 .. M : t[N + i] = more[i]
  BY Joins
<1>2. Has(t, tag) /\ Min(TagsAt(t, tag)) = p
  BY FirstStays
<1>3. /\ p \in Nat /\ 1 <= p /\ from \in 0 .. N
      /\ a \in Texts /\ Len(a) = N - from /\ \A i \in 1 .. N - from : a[i] = text[from + i]
      /\ c \in Texts /\ Len(c) = p - 1 /\ \A i \in 1 .. p - 1 : c[i] = text[i]
  BY AfterIs
<1>4. /\ b \in Texts /\ Len(b) = Len(t) - from /\ \A i \in 1 .. Len(t) - from : b[i] = t[from + i]
      /\ d \in Texts /\ Len(d) = p - 1 /\ \A i \in 1 .. p - 1 : d[i] = t[i]
  <2> DEFINE q == Min(TagsAt(t, tag))
             upto == q + Len(tag) - 1
  <2>1. /\ b \in Texts /\ Len(b) = Len(t) - upto /\ \A i \in 1 .. Len(t) - upto : b[i] = t[upto + i]
        /\ d \in Texts /\ Len(d) = q - 1 /\ \A i \in 1 .. q - 1 : d[i] = t[i]
    BY <1>1, <1>2, AfterIs
  <2>2. q = p /\ upto = from
    BY <1>2
  <2>3. QED
    BY <2>1, <2>2
<1>5. p - 1 <= N
  <2>1. p \in TagsAt(text, tag)
    BY FirstTag
  <2>2. p \in Nat /\ p + Len(tag) - 1 <= N
    BY <1>3, <2>1, TagAt
  <2>3. Len(tag) \in Nat
    BY DEF Texts
  <2>4. QED
    BY <1>1, <2>2, <2>3
<1> DEFINE e == a \o more
<1>6. /\ e \in Texts /\ Len(e) = Len(a) + M
      /\ \A i \in 1 .. Len(a) : e[i] = a[i]
      /\ \A i \in 1 .. M : e[Len(a) + i] = more[i]
  BY <1>3, Joins
<1> HIDE DEF t, p, from, a, b, c, d, e, N, M
<1>7. b = e
  <2>1. Len(b) = Len(e)
    BY <1>1, <1>3, <1>4, <1>6
  <2>2. ASSUME NEW i \in 1 .. Len(b)
        PROVE  b[i] = e[i]
    <3>1. CASE i <= N - from
      <4>1. i \in 1 .. N - from /\ i \in 1 .. Len(t) - from /\ from + i \in 1 .. N
        BY <1>1, <1>3, <1>4, <3>1
      <4>2. QED
        BY <1>1, <1>3, <1>4, <1>6, <4>1
    <3>2. CASE ~(i <= N - from)
      <4> DEFINE j == i - (N - from)
      <4>1. j \in 1 .. M /\ i \in 1 .. Len(t) - from /\ from + i = N + j /\ i = Len(a) + j
        BY <1>1, <1>3, <1>4, <3>2
      <4> HIDE DEF j
      <4>2. b[i] = t[N + j] /\ e[i] = more[j]
        BY <1>4, <1>6, <4>1
      <4>3. QED
        BY <1>1, <4>1, <4>2
    <3>3. QED
      BY <3>1, <3>2
  <2>3. QED
    BY <1>4, <1>6, <2>1, <2>2, SeqEqual DEF Texts
<1>8. d = c
  <2>1. \A i \in 1 .. p - 1 : d[i] = c[i]
    BY <1>1, <1>3, <1>4, <1>5
  <2>2. QED
    BY <1>3, <1>4, <2>1, SeqEqual DEF Texts
<1>9. QED
  BY <1>7, <1>8 DEF t, a, b, c, d, e

-----------------------------------------------------------------------------
(* Its spaces *)

\* The first place that is not a space, and the last one.
LEMMA LettersOf ==
  ASSUME NEW text \in Texts, Letters(text) # {}
  PROVE  LET m == Min(Letters(text))
             n == Max(Letters(text))
         IN  /\ m \in 1 .. Len(text) /\ n \in 1 .. Len(text) /\ m <= n
             /\ text[m] # Space /\ text[n] # Space
             /\ \A i \in 1 .. Len(text) : text[i] # Space => m <= i /\ i <= n
<1> DEFINE T == Letters(text)
           N == Len(text)
           U == {k \in 0 .. N : N - k \in T}
<1>1. N \in Nat /\ T = {i \in 1 .. N : text[i] # Space}
  BY DEF Texts, Letters
<1> HIDE DEF T, N
<1>2. T \subseteq Nat /\ T # {}
  BY <1>1 DEF T
<1>3. \E m \in T : \A i \in T : m <= i
  BY <1>2, Smallest, Zenon
<1>4. Min(T) \in T /\ \A i \in T : Min(T) <= i
  BY <1>3 DEF Min
<1>5. \E n \in T : \A i \in T : n >= i
  <2>1. \A i \in T : N - i \in U
    BY <1>1
  <2>2. U \subseteq Nat /\ U # {}
    <3>1. PICK i \in T : TRUE
      BY <1>2
    <3>2. i \in 1 .. N /\ N - (N - i) = i /\ N - i \in 0 .. N
      BY <1>1
    <3>3. N - i \in U
      BY <3>1, <3>2
    <3>4. U \subseteq Nat
      BY <1>1
    <3> HIDE DEF U
    <3>5. QED
      BY <3>3, <3>4
  <2>3. PICK k \in U : \A j \in U : k <= j
    BY <2>2, Smallest, Zenon
  <2>4. k \in Nat /\ N - k \in T
    BY <1>1, <2>2, <2>3
  <2>5. \A i \in T : N - k >= i
    <3> TAKE i \in T
    <3>1. k <= N - i /\ i \in Nat
      BY <1>1, <2>1, <2>3
    <3>2. QED
      BY <1>1, <2>4, <3>1
  <2>6. QED
    BY <2>4, <2>5
<1>6. Max(T) \in T /\ \A i \in T : Max(T) >= i
  BY <1>5 DEF Max
<1> DEFINE m == Min(T)
           n == Max(T)
<1>7. m \in T /\ n \in T /\ \A i \in T : m <= i /\ n >= i
  BY <1>4, <1>6
<1> HIDE DEF m, n
<1>8. /\ m \in 1 .. N /\ n \in 1 .. N /\ m <= n /\ text[m] # Space /\ text[n] # Space
      /\ \A i \in 1 .. N : text[i] # Space => m <= i /\ i <= n
  BY <1>1, <1>7
<1>9. QED
  BY <1>8 DEF m, n, T, N

\* How many spaces stand in front, and what is left without them.
Indent(text) == IF Letters(text) = {} THEN Len(text) ELSE Min(Letters(text)) - 1

\* LStrip takes the leading spaces and keeps the rest.
LEMMA Unindented ==
  ASSUME NEW text \in Texts
  PROVE  /\ Indent(text) \in 0 .. Len(text) /\ Len(text) \in Nat
         /\ \A i \in 1 .. Indent(text) : text[i] = Space
         /\ LStrip(text) \in Texts /\ Len(LStrip(text)) = Len(text) - Indent(text)
         /\ \A i \in 1 .. Len(text) - Indent(text) : LStrip(text)[i] = text[Indent(text) + i]
<1> DEFINE N == Len(text)
           m == Min(Letters(text))
<1>1. N \in Nat /\ \A i \in 1 .. N : text[i] \in Symbols
  BY DEF Texts
<1>2. CASE Letters(text) = {}
  <2>1. Indent(text) = N /\ LStrip(text) = <<>>
    BY <1>2 DEF Indent, LStrip
  <2>2. \A i \in 1 .. N : text[i] = Space
    BY <1>2 DEF Letters, Texts
  <2>3. <<>> \in Texts /\ Len(<<>>) = 0
    BY DEF Texts
  <2>4. QED
    BY <1>1, <2>1, <2>2, <2>3
<1>3. CASE Letters(text) # {}
  <2>1. m \in 1 .. N /\ \A i \in 1 .. N : text[i] # Space => m <= i
    BY <1>3, LettersOf
  <2>2. Indent(text) = m - 1 /\ LStrip(text) = SubSeq(text, m, N)
    BY <1>3 DEF Indent, LStrip
  <2> HIDE DEF m, N
  <2>3. \A i \in 1 .. m - 1 : text[i] = Space
    BY <1>1, <2>1
  <2>4. m \in Int /\ N \in Int /\ \A i \in m .. N : text[i] \in Symbols
    BY <1>1, <2>1
  <2>5. /\ SubSeq(text, m, N) \in Texts
        /\ Len(SubSeq(text, m, N)) = IF m <= N THEN N - m + 1 ELSE 0
        /\ \A i \in 1 .. N - m + 1 : SubSeq(text, m, N)[i] = text[m + i - 1]
    BY <2>4, SubSeqProperties DEF Texts
  <2>6. N - m + 1 = N - (m - 1) /\ \A i \in Nat : m + i - 1 = (m - 1) + i
    BY <1>1, <2>1
  <2>7. Len(LStrip(text)) = N - (m - 1) /\ \A i \in 1 .. N - (m - 1) : LStrip(text)[i] = text[(m - 1) + i]
    BY <1>1, <2>1, <2>2, <2>5, <2>6
  <2>8. m - 1 \in 0 .. N
    BY <1>1, <2>1
  <2>9. QED
    BY <1>1, <2>2, <2>3, <2>5, <2>7, <2>8 DEF N
<1>4. QED
  BY <1>2, <1>3

\* The tags of a text are those of what is left of it when none stands in what
\* was taken away.
LEMMA TagsShifted ==
  ASSUME NEW text \in Texts, NEW t \in Texts, NEW tag \in Texts, Len(tag) \in Nat \ {0},
         NEW s \in 0 .. Len(text), Len(t) = Len(text) - s,
         \A i \in 1 .. Len(text) - s : t[i] = text[s + i],
         \A i \in TagsAt(text, tag) : i > s
  PROVE  /\ \A i \in TagsAt(t, tag) : s + i \in TagsAt(text, tag)
         /\ \A i \in TagsAt(text, tag) : i - s \in TagsAt(t, tag)
         /\ Has(t, tag) <=> Has(text, tag)
         /\ Has(text, tag) => Min(TagsAt(text, tag)) = s + Min(TagsAt(t, tag))
<1> DEFINE N == Len(text)
           L == Len(tag)
<1>1. s \in 0 .. N /\ N \in Nat /\ Len(t) = N - s /\ \A i \in 1 .. N - s : t[i] = text[s + i]
  BY DEF Texts
<1>2. /\ TagsAt(text, tag) \subseteq Nat /\ TagsAt(t, tag) \subseteq Nat
      /\ \A i \in Nat : i \in TagsAt(text, tag) <=>
           1 <= i /\ i + L - 1 <= N /\ \A k \in 1 .. L : text[i + k - 1] = tag[k]
      /\ \A i \in Nat : i \in TagsAt(t, tag) <=>
           1 <= i /\ i + L - 1 <= Len(t) /\ \A k \in 1 .. L : t[i + k - 1] = tag[k]
  BY TagAt
<1>3. L \in Nat /\ L >= 1
  OBVIOUS
<1> HIDE DEF N, L
<1>4. ASSUME NEW i \in Nat, 1 <= i, i + L - 1 <= N - s, NEW k \in 1 .. L
      PROVE  t[i + k - 1] = text[(s + i) + k - 1]
  <2>1. i + k - 1 \in 1 .. N - s /\ s + (i + k - 1) = (s + i) + k - 1
    BY <1>1, <1>3, <1>4
  <2>2. t[i + k - 1] = text[s + (i + k - 1)]
    BY <1>1, <2>1
  <2>3. QED
    BY <2>1, <2>2
<1>5. ASSUME NEW i \in TagsAt(t, tag)
      PROVE  s + i \in TagsAt(text, tag)
  <2>1. i \in Nat /\ 1 <= i /\ i + L - 1 <= N - s /\ \A k \in 1 .. L : t[i + k - 1] = tag[k]
    BY <1>1, <1>2
  <2>2. \A k \in 1 .. L : text[(s + i) + k - 1] = tag[k]
    BY <1>4, <2>1
  <2>3. s + i \in Nat /\ 1 <= s + i /\ (s + i) + L - 1 <= N
    BY <1>1, <1>3, <2>1
  <2>4. QED
    BY <1>2, <2>2, <2>3
<1>6. ASSUME NEW i \in TagsAt(text, tag)
      PROVE  i - s \in TagsAt(t, tag)
  <2>1. i \in Nat /\ 1 <= i /\ i + L - 1 <= N /\ \A k \in 1 .. L : text[i + k - 1] = tag[k]
    BY <1>2
  <2>2. i > s /\ s \in Nat
    BY <1>1
  <2> DEFINE j == i - s
  <2>3. j \in Nat /\ 1 <= j /\ j + L - 1 <= N - s /\ s + j = i
    BY <1>1, <1>3, <2>1, <2>2
  <2> HIDE DEF j
  <2>4. \A k \in 1 .. L : t[j + k - 1] = tag[k]
    BY <1>4, <2>1, <2>3
  <2>5. j \in TagsAt(t, tag)
    BY <1>1, <1>2, <2>3, <2>4
  <2>6. QED
    BY <2>5 DEF j
<1>7. Has(t, tag) <=> Has(text, tag)
  BY <1>5, <1>6 DEF Has
<1>8. ASSUME Has(text, tag)
      PROVE  Min(TagsAt(text, tag)) = s + Min(TagsAt(t, tag))
  <2> DEFINE p == Min(TagsAt(text, tag))
             q == Min(TagsAt(t, tag))
  <2>1. /\ p \in TagsAt(text, tag) /\ \A i \in TagsAt(text, tag) : p <= i
        /\ q \in TagsAt(t, tag) /\ \A i \in TagsAt(t, tag) : q <= i
    BY <1>7, <1>8, FirstTag
  <2> HIDE DEF p, q
  <2>2. p <= s + q /\ q <= p - s
    BY <1>5, <1>6, <2>1
  <2>3. p \in Nat /\ q \in Nat /\ s \in Nat
    BY <1>1, <1>2, <2>1
  <2>4. p = s + q
    BY <2>2, <2>3
  <2>5. QED
    BY <2>4 DEF p, q
<1>9. QED
  BY <1>5, <1>6, <1>7, <1>8

\* They stand behind the spaces in front.
LEMMA TagsUnindented ==
  ASSUME NEW text \in Texts, NEW tag \in Texts, Len(tag) \in Nat \ {0}, tag[1] # Space
  PROVE  /\ Has(LStrip(text), tag) <=> Has(text, tag)
         /\ Has(text, tag) => Min(TagsAt(text, tag)) = Indent(text) + Min(TagsAt(LStrip(text), tag))
<1> DEFINE t == LStrip(text)
           s == Indent(text)
<1>1. /\ s \in 0 .. Len(text) /\ Len(text) \in Nat /\ \A i \in 1 .. s : text[i] = Space
      /\ t \in Texts /\ Len(t) = Len(text) - s /\ \A i \in 1 .. Len(text) - s : t[i] = text[s + i]
  BY Unindented
<1> HIDE DEF t, s
<1>2. ASSUME NEW i \in TagsAt(text, tag)
      PROVE  i > s
  <2>1. i \in Nat
    BY TagAt
  <2>2. 1 <= i /\ \A k \in 1 .. Len(tag) : text[i + k - 1] = tag[k]
    BY <2>1, TagAt
  <2>3. 1 \in 1 .. Len(tag) /\ i + 1 - 1 = i
    BY <2>1
  <2>4. text[i] # Space
    BY <2>2, <2>3
  <2>5. ~(i \in 1 .. s)
    BY <1>1, <2>4
  <2>6. QED
    BY <1>1, <2>1, <2>2, <2>5
<1>3. /\ Has(t, tag) <=> Has(text, tag)
      /\ Has(text, tag) => Min(TagsAt(text, tag)) = s + Min(TagsAt(t, tag))
  BY <1>1, <1>2, TagsShifted
<1>4. QED
  BY <1>3 DEF t, s

\* So they do not change what a reply is, nor its answer.
LEMMA SpacesDoNotMatter ==
  ASSUME NEW text \in Texts
  PROVE  /\ Has(LStrip(text), FinalOpen) <=> Has(text, FinalOpen)
         /\ ToolFirst(LStrip(text)) <=> ToolFirst(text)
         /\ Has(text, FinalOpen) => After(LStrip(text), FinalOpen) = After(text, FinalOpen)
<1> DEFINE t == LStrip(text)
           s == Indent(text)
           N == Len(text)
<1>1. FinalOpen \in Texts /\ ToolOpen \in Texts /\ Len(FinalOpen) \in Nat \ {0} /\ Len(ToolOpen) \in Nat \ {0}
      /\ FinalOpen[1] # Space /\ ToolOpen[1] # Space
  <2>1. "<" # Space
    BY Zenon DEF Space
  <2>2. QED
    BY <2>1, TagsAre
<1>2. /\ s \in 0 .. N /\ N \in Nat /\ t \in Texts /\ Len(t) = N - s
      /\ \A i \in 1 .. N - s : t[i] = text[s + i]
  BY Unindented
<1>3. /\ Has(t, FinalOpen) <=> Has(text, FinalOpen)
      /\ Has(t, ToolOpen) <=> Has(text, ToolOpen)
      /\ Has(text, FinalOpen) => Min(TagsAt(text, FinalOpen)) = s + Min(TagsAt(t, FinalOpen))
      /\ Has(text, ToolOpen) => Min(TagsAt(text, ToolOpen)) = s + Min(TagsAt(t, ToolOpen))
  BY <1>1, TagsUnindented
<1>4. /\ Has(t, FinalOpen) => Min(TagsAt(t, FinalOpen)) \in Nat
      /\ Has(t, ToolOpen) => Min(TagsAt(t, ToolOpen)) \in Nat
  BY <1>1, <1>2, FirstTag, TagAt
<1>5. ToolFirst(t) <=> ToolFirst(text)
  <2> DEFINE a == Min(TagsAt(text, FinalOpen))
             b == Min(TagsAt(text, ToolOpen))
             c == Min(TagsAt(t, FinalOpen))
             d == Min(TagsAt(t, ToolOpen))
  <2>1. Has(text, FinalOpen) /\ Has(text, ToolOpen) => a = s + c /\ b = s + d /\ c \in Nat /\ d \in Nat
    BY <1>3, <1>4
  <2>2. /\ ToolFirst(text) <=> Has(text, ToolOpen) /\ (Has(text, FinalOpen) => b < a)
        /\ ToolFirst(t) <=> Has(t, ToolOpen) /\ (Has(t, FinalOpen) => d < c)
    BY DEF ToolFirst
  <2> HIDE DEF a, b, c, d, t, s, N
  <2>3. Has(text, FinalOpen) /\ Has(text, ToolOpen) => (b < a <=> d < c)
    BY <1>2, <2>1
  <2>4. QED
    BY <1>3, <2>2, <2>3
<1>6. ASSUME Has(text, FinalOpen)
      PROVE  After(t, FinalOpen) = After(text, FinalOpen)
  <2> DEFINE p == Min(TagsAt(text, FinalOpen))
             q == Min(TagsAt(t, FinalOpen))
             L == Len(FinalOpen)
             a == After(text, FinalOpen)
             b == After(t, FinalOpen)
  <2>1. /\ p \in Nat /\ p + L - 1 \in 0 .. N /\ a \in Texts /\ Len(a) = N - (p + L - 1)
        /\ \A i \in 1 .. N - (p + L - 1) : a[i] = text[p + L - 1 + i]
    BY <1>1, <1>6, AfterIs
  <2>2. /\ q \in Nat /\ q + L - 1 \in 0 .. Len(t) /\ b \in Texts /\ Len(b) = Len(t) - (q + L - 1)
        /\ \A i \in 1 .. Len(t) - (q + L - 1) : b[i] = t[q + L - 1 + i]
    BY <1>1, <1>2, <1>3, <1>6, AfterIs
  <2>3. p = s + q
    BY <1>3, <1>6
  <2>4. L \in Nat
    BY <1>1
  <2> HIDE DEF p, q, L, a, b, t, s, N
  <2>5. Len(a) = Len(b)
    BY <1>2, <2>1, <2>2, <2>3, <2>4
  <2>6. ASSUME NEW i \in 1 .. Len(b)
        PROVE  b[i] = a[i]
    <3>1. b[i] = t[q + L - 1 + i] /\ a[i] = text[p + L - 1 + i]
      BY <2>1, <2>2, <2>5
    <3>2. q + L - 1 + i \in 1 .. N - s /\ s + (q + L - 1 + i) = p + L - 1 + i
      BY <1>2, <2>2, <2>3, <2>4
    <3>3. QED
      BY <1>2, <3>1, <3>2
  <2>7. b = a
    BY <2>1, <2>2, <2>5, <2>6, SeqEqual DEF Texts
  <2>8. QED
    BY <2>7 DEF a, b
<1>7. QED
  BY <1>3, <1>5, <1>6 DEF t

\* Nor what is left when the spaces at both ends are taken away.
LEMMA StripAgain ==
  ASSUME NEW text \in Texts
  PROVE  Strip(LStrip(text)) = Strip(text)
<1> DEFINE t == LStrip(text)
           N == Len(text)
<1>1. CASE Letters(text) = {}
  <2>1. t = <<>> /\ Strip(text) = <<>>
    BY <1>1 DEF LStrip, Strip
  <2>2. Letters(<<>>) = {}
    BY DEF Letters
  <2>3. Strip(<<>>) = <<>>
    BY <2>2 DEF Strip
  <2>4. QED
    BY <2>1, <2>3
<1>2. CASE Letters(text) # {}
  <2> DEFINE m == Min(Letters(text))
             n == Max(Letters(text))
             a == Min(Letters(t))
             b == Max(Letters(t))
  <2>1. /\ m \in 1 .. N /\ n \in 1 .. N /\ m <= n /\ text[m] # Space /\ text[n] # Space
        /\ \A i \in 1 .. N : text[i] # Space => m <= i /\ i <= n
    BY <1>2, LettersOf
  <2>2. /\ N \in Nat /\ t \in Texts /\ Len(t) = N - (m - 1)
        /\ \A i \in 1 .. N - (m - 1) : t[i] = text[m - 1 + i]
    <3>1. Indent(text) = m - 1
      BY <1>2 DEF Indent
    <3>2. /\ N \in Nat /\ t \in Texts /\ Len(t) = N - Indent(text)
          /\ \A i \in 1 .. N - Indent(text) : t[i] = text[Indent(text) + i]
      BY Unindented
    <3>3. QED
      BY <3>1, <3>2
  <2>3. Letters(t) # {}
    <3>1. 1 \in 1 .. Len(t) /\ t[1] # Space
      <4> HIDE DEF m, n, t, N
      <4>1. 1 \in 1 .. N - (m - 1) /\ m - 1 + 1 = m
        BY <2>1, <2>2
      <4>2. QED
        BY <2>1, <2>2, <4>1
    <3>2. DOMAIN t = 1 .. Len(t)
      BY <2>2 DEF Texts
    <3>3. QED
      BY <3>1, <3>2 DEF Letters
  <2>4. /\ a \in 1 .. Len(t) /\ b \in 1 .. Len(t) /\ t[a] # Space /\ t[b] # Space
        /\ \A i \in 1 .. Len(t) : t[i] # Space => a <= i /\ i <= b
    BY <2>2, <2>3, LettersOf
  <2>5. Strip(text) = SubSeq(text, m, n) /\ Strip(t) = SubSeq(t, a, b)
    BY <1>2, <2>3 DEF Strip
  <2>6. (\A i \in m .. n : text[i] \in Symbols) /\ (\A i \in a .. b : t[i] \in Symbols)
    <3>1. (\A i \in 1 .. N : text[i] \in Symbols) /\ (\A i \in 1 .. Len(t) : t[i] \in Symbols)
      BY <2>2 DEF Texts
    <3> HIDE DEF m, n, a, b, t, N
    <3>2. QED
      BY <2>1, <2>2, <2>4, <3>1
  <2> HIDE DEF m, n, a, b, t, N
  <2>7. a = 1
    <3>1. 1 \in 1 .. N - (m - 1) /\ m - 1 + 1 = m
      BY <2>1, <2>2
    <3>2. t[1] # Space /\ 1 \in 1 .. Len(t)
      BY <2>1, <2>2, <3>1
    <3>3. a <= 1
      BY <2>4, <3>2
    <3>4. QED
      BY <2>4, <3>3
  <2>8. b = n - (m - 1)
    <3> DEFINE k == n - (m - 1)
    <3>1. k \in 1 .. N - (m - 1) /\ m - 1 + k = n
      BY <2>1, <2>2
    <3> HIDE DEF k
    <3>2. k <= b
      BY <2>1, <2>2, <2>4, <3>1
    <3>3. b \in 1 .. N - (m - 1) /\ m - 1 + b \in 1 .. N
      BY <2>1, <2>2, <2>4
    <3>4. m - 1 + b <= n
      BY <2>1, <2>2, <2>4, <3>3
    <3>5. QED
      BY <2>1, <2>2, <3>1, <3>2, <3>3, <3>4 DEF k
  <2> DEFINE u == SubSeq(text, m, n)
             v == SubSeq(t, a, b)
  <2>9. m \in Int /\ n \in Int /\ a \in Int /\ b \in Int /\ m <= n /\ a <= b
    BY <2>1, <2>2, <2>7, <2>8
  <2>10. /\ u \in Texts /\ Len(u) = IF m <= n THEN n - m + 1 ELSE 0
         /\ \A i \in 1 .. n - m + 1 : u[i] = text[m + i - 1]
    BY <2>6, <2>9, SubSeqProperties DEF Texts
  <2>11. /\ v \in Texts /\ Len(v) = IF a <= b THEN b - a + 1 ELSE 0
         /\ \A i \in 1 .. b - a + 1 : v[i] = t[a + i - 1]
    BY <2>6, <2>9, SubSeqProperties DEF Texts
  <2> HIDE DEF u, v
  <2>12. Len(u) = n - m + 1 /\ Len(v) = n - m + 1 /\ b - a + 1 = n - m + 1
    BY <2>7, <2>8, <2>9, <2>10, <2>11
  <2>13. ASSUME NEW i \in 1 .. n - m + 1
         PROVE  u[i] = v[i]
    <3>1. u[i] = text[m + i - 1] /\ v[i] = t[i] /\ m + i - 1 = m - 1 + i
      BY <2>7, <2>9, <2>10, <2>11, <2>12
    <3>2. i \in 1 .. N - (m - 1)
      BY <2>1, <2>2
    <3>3. QED
      BY <2>2, <3>1, <3>2
  <2>14. u = v
    BY <2>10, <2>11, <2>12, <2>13, SeqEqual DEF Texts
  <2>15. QED
    BY <2>5, <2>14 DEF u, v, t
<1>3. QED
  BY <1>1, <1>2

-----------------------------------------------------------------------------
(* What is held back *)

\* A text read backwards, symbol by symbol.
LEMMA ReverseIs ==
  ASSUME NEW text \in Texts
  PROVE  /\ Reverse(text) \in Texts /\ Len(Reverse(text)) = Len(text)
         /\ \A i \in 1 .. Len(text) : Reverse(text)[i] = text[(Len(text) - i) + 1]
<1> DEFINE N == Len(text)
           r == Reverse(text)
<1>1. N \in Nat /\ \A i \in 1 .. N : text[i] \in Symbols
  BY DEF Texts
<1>2. r = [i \in 1 .. N |-> text[(N - i) + 1]]
  BY DEF Reverse
<1> HIDE DEF N, r
<1>3. \A i \in 1 .. N : (N - i) + 1 \in 1 .. N
  BY <1>1
<1>4. r \in [1 .. N -> Symbols] /\ \A i \in 1 .. N : r[i] = text[(N - i) + 1]
  BY <1>1, <1>2, <1>3
<1>5. r \in Seq(Symbols)
  <2>1. r \in UNION {[1 .. n -> Symbols] : n \in Nat}
    BY <1>1, <1>4
  <2>2. QED
    BY <2>1, SeqDef
<1>6. Len(r) = N
  <2>1. Len(r) \in Nat /\ DOMAIN r = 1 .. Len(r)
    BY <1>5
  <2> DEFINE M == Len(r)
  <2>2. 1 .. N = 1 .. M /\ M \in Nat
    BY <1>4, <2>1
  <2> HIDE DEF M
  <2>3. ~(M < N)
    <3>1. M < N => N \in 1 .. N /\ N \notin 1 .. M
      BY <1>1, <2>2
    <3>2. QED
      BY <2>2, <3>1
  <2>4. ~(N < M)
    <3>1. N < M => M \in 1 .. M /\ M \notin 1 .. N
      BY <1>1, <2>2
    <3>2. QED
      BY <2>2, <3>1
  <2>5. M = N
    BY <1>1, <2>2, <2>3, <2>4
  <2>6. QED
    BY <2>5 DEF M
<1>7. QED
  BY <1>4, <1>5, <1>6 DEF N, r, Texts

\* A text ends in the first symbols of a closing tag, symbol by symbol.
LEMMA SuffixIs ==
  ASSUME NEW text \in Texts, NEW k \in 1 .. 2, k <= Len(text),
         \A j \in 1 .. k : text[Len(text) - k + j] = FinalClose[j]
  PROVE  IsSuffix(SubSeq(FinalClose, 1, k), text)
<1> DEFINE a == SubSeq(FinalClose, 1, k)
           N == Len(text)
           ra == Reverse(a)
           rt == Reverse(text)
<1>1. N \in Nat /\ \A j \in 1 .. 3 : FinalClose[j] \in Symbols
  BY TagsAre DEF Texts
<1>2. a \in Texts /\ Len(a) = k /\ \A j \in 1 .. k : a[j] = FinalClose[j]
  <2>1. 1 \in Int /\ k \in Int /\ \A j \in 1 .. k : FinalClose[j] \in Symbols
    BY <1>1
  <2>2. /\ a \in Texts /\ Len(a) = IF 1 <= k THEN k - 1 + 1 ELSE 0
        /\ \A j \in 1 .. k - 1 + 1 : a[j] = FinalClose[1 + j - 1]
    BY <2>1, SubSeqProperties DEF Texts
  <2> HIDE DEF a
  <2>3. k - 1 + 1 = k /\ 1 <= k /\ \A j \in 1 .. k : 1 + j - 1 = j
    OBVIOUS
  <2>4. QED
    BY <2>2, <2>3
<1>3. /\ ra \in Texts /\ Len(ra) = Len(a) /\ \A i \in 1 .. Len(a) : ra[i] = a[(Len(a) - i) + 1]
      /\ rt \in Texts /\ Len(rt) = N /\ \A i \in 1 .. N : rt[i] = text[(N - i) + 1]
  <2> HIDE DEF a
  <2>1. QED
    BY <1>2, ReverseIs
<1>4. \A j \in 1 .. k : text[N - k + j] = FinalClose[j]
  OBVIOUS
<1>5. k <= N
  OBVIOUS
<1> HIDE DEF a, N, ra, rt
<1>6. ASSUME NEW i \in 1 .. k
      PROVE  ra[i] = rt[i]
  <2> DEFINE j == (k - i) + 1
  <2>1. j \in 1 .. k /\ i \in 1 .. N /\ N - k + j = (N - i) + 1
    BY <1>1, <1>5
  <2>2. ra[i] = a[j]
    BY <1>2, <1>3
  <2> HIDE DEF j
  <2>3. a[j] = FinalClose[j] /\ FinalClose[j] = text[N - k + j]
    BY <1>2, <1>4, <2>1
  <2>4. QED
    BY <1>3, <2>1, <2>2, <2>3
<1> DEFINE u == SubSeq(ra, 1, k)
           v == SubSeq(rt, 1, k)
<1>7. (\A i \in 1 .. k : ra[i] \in Symbols) /\ (\A i \in 1 .. k : rt[i] \in Symbols)
  <2>1. \A i \in 1 .. Len(ra) : ra[i] \in Symbols
    BY <1>3 DEF Texts
  <2>2. QED
    BY <1>2, <1>3, <1>6, <2>1
<1>8. /\ u \in Texts /\ Len(u) = IF 1 <= k THEN k - 1 + 1 ELSE 0
      /\ \A i \in 1 .. k - 1 + 1 : u[i] = ra[1 + i - 1]
  BY <1>7, SubSeqProperties DEF Texts
<1>9. /\ v \in Texts /\ Len(v) = IF 1 <= k THEN k - 1 + 1 ELSE 0
      /\ \A i \in 1 .. k - 1 + 1 : v[i] = rt[1 + i - 1]
  BY <1>7, SubSeqProperties DEF Texts
<1> HIDE DEF u, v
<1>10. u = v
  <2>1. k - 1 + 1 = k /\ 1 <= k /\ \A i \in 1 .. k : 1 + i - 1 = i
    OBVIOUS
  <2>2. Len(u) = k /\ Len(v) = k /\ \A i \in 1 .. k : u[i] = v[i]
    BY <1>6, <1>8, <1>9, <2>1
  <2>3. QED
    BY <1>8, <1>9, <2>2, SeqEqual DEF Texts
<1>11. IsPrefix(ra, rt)
  BY <1>2, <1>3, <1>5, <1>10 DEF IsPrefix, u, v
<1>12. QED
  BY <1>11 DEF IsSuffix, ra, rt, a

\* As much is held back as could start a closing tag.
LEMMA HeldBack ==
  ASSUME NEW text \in Texts
  PROVE  LET c == ClosingPrefix(text)
             N == Len(text)
         IN  /\ c \in 0 .. 2 /\ c <= N
             /\ 1 <= N /\ text[N] = "<" => c >= 1
             /\ 2 <= N /\ text[N - 1] = "<" /\ text[N] = "/" => c >= 2
<1> DEFINE c == ClosingPrefix(text)
           N == Len(text)
           S == {k \in 1 .. 2 : k <= N /\ IsSuffix(SubSeq(FinalClose, 1, k), text)}
           T == {0} \cup S
<1>1. N \in Nat /\ Len(FinalClose) - 1 = 2
  BY TagsAre DEF Texts
<1>2. c = Max(T)
  BY <1>1 DEF ClosingPrefix
<1>3. 1 <= N /\ text[N] = "<" => 1 \in S
  <2> SUFFICES ASSUME 1 <= N, text[N] = "<"
               PROVE  1 \in S
    OBVIOUS
  <2>1. N - 1 + 1 = N /\ 1 .. 1 = {1} /\ 1 \in 1 .. 2
    BY <1>1
  <2>2. \A j \in 1 .. 1 : text[N - 1 + j] = FinalClose[j]
    BY <2>1, TagsAre
  <2>3. IsSuffix(SubSeq(FinalClose, 1, 1), text)
    BY <2>1, <2>2, SuffixIs
  <2>4. QED
    BY <2>1, <2>3
<1>4. 2 <= N /\ text[N - 1] = "<" /\ text[N] = "/" => 2 \in S
  <2> SUFFICES ASSUME 2 <= N, text[N - 1] = "<", text[N] = "/"
               PROVE  2 \in S
    OBVIOUS
  <2>1. N - 2 + 2 = N /\ N - 2 + 1 = N - 1 /\ 2 \in 1 .. 2 /\ \A j \in 1 .. 2 : j = 1 \/ j = 2
    BY <1>1
  <2>2. \A j \in 1 .. 2 : text[N - 2 + j] = FinalClose[j]
    BY <2>1, TagsAre
  <2>3. IsSuffix(SubSeq(FinalClose, 1, 2), text)
    BY <2>1, <2>2, SuffixIs
  <2>4. QED
    BY <2>1, <2>3
<1>5. \A k \in T : k \in 0 .. 2 /\ k <= N
  BY <1>1
<1>6. 0 \in T /\ S \subseteq T
  OBVIOUS
<1> HIDE DEF c, N, S, T
<1>7. \E n \in T : \A k \in T : n >= k
  <2>1. CASE 2 \in T
    BY <1>5, <2>1
  <2>2. CASE 2 \notin T /\ 1 \in T
    <3>1. \A k \in T : k = 0 \/ k = 1
      BY <1>5, <2>2
    <3>2. QED
      BY <2>2, <3>1
  <2>3. CASE 2 \notin T /\ 1 \notin T
    <3>1. \A k \in T : k = 0
      BY <1>5, <2>3
    <3>2. QED
      BY <1>6, <3>1
  <2>4. QED
    BY <2>1, <2>2, <2>3
<1>8. c \in T /\ \A k \in T : c >= k
  BY <1>2, <1>7 DEF Max
<1>9. /\ c \in 0 .. 2 /\ c <= N
      /\ 1 <= N /\ text[N] = "<" => c >= 1
      /\ 2 <= N /\ text[N - 1] = "<" /\ text[N] = "/" => c >= 2
  BY <1>3, <1>4, <1>5, <1>6, <1>8
<1>10. QED
  BY <1>9 DEF c, N

-----------------------------------------------------------------------------
(* The filter *)

\* No closing tag starts at a place: a symbol there tells it from one.
Mismatch(text, i) == \E k \in 1 .. 3 : i + k - 1 <= Len(text) /\ text[i + k - 1] # FinalClose[k]

NoneBefore(text, n) == \A i \in 1 .. n : Mismatch(text, i)

\* An answer that has not ended: it is what was shown and what is held back, no
\* closing tag can start in what was shown, and less than a tag is held back.
Open(out, buffer, rest) ==
  /\ rest = out \o buffer
  /\ ~Has(rest, FinalClose)
  /\ Len(buffer) < 3
  /\ NoneBefore(rest, Len(out))

\* Where no closing tag can start, none can when more text comes.
LEMMA MismatchStays ==
  ASSUME NEW text \in Texts, NEW more \in Texts, NEW n \in Nat, NoneBefore(text, n)
  PROVE  NoneBefore(text \o more, n)
<1> DEFINE t == text \o more
<1>1. /\ Len(text) \in Nat /\ Len(t) \in Nat /\ Len(t) >= Len(text)
      /\ \A i \in 1 .. Len(text) : t[i] = text[i]
  BY Joins
<1> HIDE DEF t
<1>2. ASSUME NEW i \in 1 .. n
      PROVE  Mismatch(t, i)
  <2>1. PICK k \in 1 .. 3 : i + k - 1 <= Len(text) /\ text[i + k - 1] # FinalClose[k]
    BY DEF NoneBefore, Mismatch
  <2>2. i + k - 1 \in 1 .. Len(text) /\ i + k - 1 <= Len(t)
    BY <1>1, <2>1
  <2>3. QED
    BY <1>1, <2>1, <2>2 DEF Mismatch
<1>3. QED
  BY <1>2 DEF NoneBefore, t

\* The tags of two texts in a row are those of the second when none starts in the
\* first.
LEMMA TagsBehind ==
  ASSUME NEW a \in Texts, NEW b \in Texts, NEW tag \in Texts, Len(tag) \in Nat \ {0},
         \A i \in TagsAt(a \o b, tag) : i > Len(a)
  PROVE  /\ Has(b, tag) <=> Has(a \o b, tag)
         /\ Has(a \o b, tag) => Min(TagsAt(a \o b, tag)) = Len(a) + Min(TagsAt(b, tag))
<1> DEFINE text == a \o b
           s == Len(a)
<1>1. /\ text \in Texts /\ s \in Nat /\ Len(b) \in Nat /\ Len(text) = s + Len(b)
      /\ \A i \in 1 .. Len(b) : text[s + i] = b[i]
  BY Joins
<1>2. \A i \in TagsAt(text, tag) : i > s
  OBVIOUS
<1> HIDE DEF text, s
<1>3. s \in 0 .. Len(text) /\ Len(b) = Len(text) - s
  BY <1>1
<1>4. \A i \in 1 .. Len(text) - s : b[i] = text[s + i]
  BY <1>1
<1>5. /\ Has(b, tag) <=> Has(text, tag)
      /\ Has(text, tag) => Min(TagsAt(text, tag)) = s + Min(TagsAt(b, tag))
  BY <1>1, <1>2, <1>3, <1>4, TagsShifted
<1>6. QED
  BY <1>5 DEF text, s

\* A closing tag stands behind the places where none can start.
LEMMA NoTagBefore ==
  ASSUME NEW text \in Texts, NEW n \in Nat, NoneBefore(text, n), NEW i \in TagsAt(text, FinalClose)
  PROVE  i > n
<1>1. FinalClose \in Texts /\ Len(FinalClose) = 3
  BY TagsAre
<1>2. i \in Nat
  BY <1>1, TagAt
<1>3. 1 <= i /\ \A k \in 1 .. 3 : text[i + k - 1] = FinalClose[k]
  <2>1. 1 <= i /\ \A k \in 1 .. Len(FinalClose) : text[i + k - 1] = FinalClose[k]
    BY <1>1, <1>2, TagAt
  <2>2. QED
    BY <1>1, <2>1
<1>4. ~Mismatch(text, i)
  BY <1>3 DEF Mismatch
<1>5. ~(i \in 1 .. n)
  BY <1>4 DEF NoneBefore
<1>6. QED
  BY <1>2, <1>3, <1>5

\* What may still be the start of a closing tag is within what is held back.
LEMMA EmittedIsSafe ==
  ASSUME NEW b \in Texts, ~Has(b, FinalClose),
         NEW j \in 1 .. Len(b) - ClosingPrefix(b)
  PROVE  Mismatch(b, j)
<1> DEFINE c == ClosingPrefix(b)
           M == Len(b)
<1>1. /\ c \in 0 .. 2 /\ c <= M /\ M \in Nat
      /\ 1 <= M /\ b[M] = "<" => c >= 1
      /\ 2 <= M /\ b[M - 1] = "<" /\ b[M] = "/" => c >= 2
  BY HeldBack DEF Texts
<1>2. FinalClose \in Texts /\ Len(FinalClose) = 3 /\ FinalClose[1] = "<" /\ FinalClose[2] = "/"
  BY TagsAre
<1>3. j \in 1 .. M - c
  OBVIOUS
<1>4. j \notin TagsAt(b, FinalClose)
  BY DEF Has
<1>5. j \in Nat
  BY <1>1
<1>6. ~(1 <= j /\ j + 3 - 1 <= M /\ \A k \in 1 .. 3 : b[j + k - 1] = FinalClose[k])
  BY <1>2, <1>4, <1>5, TagAt
<1> SUFFICES ASSUME \A k \in 1 .. 3 : j + k - 1 <= M => b[j + k - 1] = FinalClose[k]
             PROVE  FALSE
  BY DEF Mismatch
<1> HIDE DEF c, M
<1>7. j + 3 - 1 > M
  <2> SUFFICES ASSUME j + 3 - 1 <= M
               PROVE  FALSE
    BY <1>1, <1>5
  <2>1. \A k \in 1 .. 3 : j + k - 1 <= M
    BY <1>1, <1>5
  <2>2. QED
    BY <1>3, <1>5, <1>6, <2>1
<1>8. CASE j = M
  <2>1. 1 \in 1 .. 3 /\ j + 1 - 1 = M /\ 1 <= M
    BY <1>3, <1>5, <1>8
  <2>2. b[M] = "<"
    BY <1>1, <1>2, <2>1
  <2>3. QED
    BY <1>1, <1>3, <1>8, <2>1, <2>2
<1>9. CASE j = M - 1
  <2>1. 1 \in 1 .. 3 /\ 2 \in 1 .. 3 /\ j + 1 - 1 = M - 1 /\ j + 2 - 1 = M /\ 2 <= M /\ M - 1 <= M
    BY <1>1, <1>3, <1>5, <1>9
  <2>2. b[M - 1] = "<" /\ b[M] = "/"
    BY <1>1, <1>2, <2>1
  <2>3. QED
    BY <1>1, <1>3, <1>9, <2>1, <2>2
<1>10. j = M \/ j = M - 1
  BY <1>1, <1>3, <1>5, <1>7
<1>11. QED
  BY <1>8, <1>9, <1>10

FilterStates == [buffer : Texts, mode : {"unknown", "tool", "final"}, closed : BOOLEAN]

\* What _drain emits and what it keeps.
LEMMA Drained ==
  ASSUME NEW f \in FilterStates, NEW out \in Texts, NEW rest, rest = out \o f.buffer,
         NoneBefore(rest, Len(out))
  PROVE  LET d == Drain(f)
         IN  /\ d.emit \in Texts /\ d.filter \in FilterStates
             /\ d.filter.mode = f.mode
             /\ Has(rest, FinalClose) =>
                  d.filter.closed /\ out \o d.emit = Before(rest, FinalClose)
             /\ ~Has(rest, FinalClose) =>
                  d.filter.closed = f.closed /\ Open(out \o d.emit, d.filter.buffer, rest)
<1> DEFINE b == f.buffer
           N == Len(out)
           M == Len(b)
           c == ClosingPrefix(b)
           keep == M - c
           d == Drain(f)
<1>0. f.buffer \in Texts /\ f.mode \in {"unknown", "tool", "final"} /\ f.closed \in BOOLEAN
  BY DEF FilterStates
<1>1. /\ rest \in Texts /\ N \in Nat /\ M \in Nat /\ Len(rest) = N + M
      /\ \A i \in 1 .. N : rest[i] = out[i]
      /\ \A i \in 1 .. M : rest[N + i] = b[i]
  BY <1>0, Joins
<1>2. FinalClose \in Texts /\ Len(FinalClose) \in Nat \ {0}
  BY TagsAre
<1>3. \A i \in TagsAt(rest, FinalClose) : i > N
  BY <1>1, NoTagBefore
<1>4. /\ Has(b, FinalClose) <=> Has(rest, FinalClose)
      /\ Has(rest, FinalClose) => Min(TagsAt(rest, FinalClose)) = N + Min(TagsAt(b, FinalClose))
  <2>1. b \in Texts /\ rest = out \o b
    BY <1>0
  <2> HIDE DEF b
  <2>2. QED
    BY <1>2, <1>3, <2>1, TagsBehind
<1>5. CASE Has(rest, FinalClose)
  <2> DEFINE p == Min(TagsAt(rest, FinalClose))
             q == Min(TagsAt(b, FinalClose))
             e == Before(b, FinalClose)
             w == Before(rest, FinalClose)
             x == out \o e
  <2>1. d.filter = [f EXCEPT !.buffer = <<>>, !.closed = TRUE] /\ d.emit = e
    BY <1>4, <1>5 DEF Drain
  <2>2. /\ p \in Nat /\ 1 <= p /\ w \in Texts /\ Len(w) = p - 1 /\ \A i \in 1 .. p - 1 : w[i] = rest[i]
    BY <1>1, <1>2, <1>5, AfterIs
  <2>3. /\ q \in Nat /\ 1 <= q /\ e \in Texts /\ Len(e) = q - 1 /\ \A i \in 1 .. q - 1 : e[i] = b[i]
        /\ q + Len(FinalClose) - 1 <= M
    <3>1. /\ q \in Nat /\ 1 <= q /\ e \in Texts /\ Len(e) = q - 1 /\ \A i \in 1 .. q - 1 : e[i] = b[i]
      BY <1>0, <1>2, <1>4, <1>5, AfterIs
    <3>2. q \in TagsAt(b, FinalClose)
      BY <1>0, <1>2, <1>4, <1>5, FirstTag
    <3>3. QED
      BY <1>0, <1>2, <3>1, <3>2, TagAt
  <2>4. p = N + q
    BY <1>4, <1>5
  <2>5. /\ x \in Texts /\ Len(x) = N + Len(e) /\ \A i \in 1 .. N : x[i] = out[i]
        /\ \A i \in 1 .. Len(e) : x[N + i] = e[i]
    BY <2>3, Joins
  <2> HIDE DEF p, q, e, w, x, N, M, b
  <2>6. Len(x) = Len(w)
    BY <1>1, <2>2, <2>3, <2>4, <2>5
  <2>7. ASSUME NEW i \in 1 .. Len(x)
        PROVE  x[i] = w[i]
    <3>1. w[i] = rest[i]
      BY <2>2, <2>6
    <3>2. CASE i <= N
      <4>1. i \in 1 .. N
        BY <1>1, <2>5, <3>2
      <4>2. QED
        BY <1>1, <2>5, <3>1, <4>1
    <3>3. CASE ~(i <= N)
      <4> DEFINE j == i - N
      <4>1. j \in 1 .. Len(e) /\ j \in 1 .. q - 1 /\ j \in 1 .. M /\ i = N + j
        BY <1>1, <1>2, <2>3, <2>5, <3>3
      <4> HIDE DEF j
      <4>2. x[i] = e[j] /\ e[j] = b[j] /\ rest[i] = b[j]
        BY <1>1, <2>3, <2>5, <4>1
      <4>3. QED
        BY <3>1, <4>2
    <3>4. QED
      BY <3>2, <3>3
  <2>8. x = w
    BY <2>2, <2>5, <2>6, <2>7, SeqEqual DEF Texts
  <2>9. d.filter \in FilterStates /\ d.filter.mode = f.mode /\ d.filter.closed
    <3>1. <<>> \in Texts
      BY DEF Texts
    <3> HIDE DEF d
    <3>2. QED
      BY <2>1, <3>1 DEF FilterStates
  <2>10. d.emit \in Texts /\ out \o d.emit = w
    BY <2>1, <2>3, <2>8 DEF x
  <2>11. QED
    BY <1>5, <2>9, <2>10 DEF w
<1>6. CASE ~Has(rest, FinalClose)
  <2> DEFINE e == SubSeq(b, 1, keep)
             h == SubSeq(b, keep + 1, M)
  <2>1. d.filter = [f EXCEPT !.buffer = h] /\ d.emit = e
    BY <1>4, <1>6 DEF Drain
  <2>2. c \in 0 .. 2 /\ c <= M /\ keep \in 0 .. M
    <3>1. c \in 0 .. 2 /\ c <= M
      BY <1>0, HeldBack
    <3>2. QED
      BY <1>1, <3>1
  <2>3. \A i \in 1 .. M : b[i] \in Symbols
    BY <1>0 DEF Texts
  <2>4. e \in Texts /\ Len(e) = keep
    <3> HIDE DEF b, M, keep
    <3>1. 1 \in Int /\ keep \in Int /\ \A i \in 1 .. keep : b[i] \in Symbols
      BY <1>1, <2>2, <2>3
    <3>2. e \in Texts /\ Len(e) = IF 1 <= keep THEN keep - 1 + 1 ELSE 0
      BY <3>1, SubSeqProperties DEF Texts
    <3>3. QED
      BY <1>1, <2>2, <3>2
  <2>5. h \in Texts /\ Len(h) = c
    <3>1. keep + 1 \in Int /\ M \in Int /\ M - (keep + 1) + 1 = c /\ (keep + 1 <= M <=> c # 0)
      BY <1>1, <2>2
    <3> HIDE DEF b, M, keep, c
    <3>2. \A i \in keep + 1 .. M : b[i] \in Symbols
      BY <1>1, <2>2, <2>3
    <3>3. h \in Texts /\ Len(h) = IF keep + 1 <= M THEN M - (keep + 1) + 1 ELSE 0
      BY <3>1, <3>2, SubSeqProperties DEF Texts
    <3>4. QED
      BY <2>2, <3>1, <3>3
  <2>6. e \o h = b
    <3>1. 1 \in 1 .. M + 1 /\ keep \in 1 - 1 .. M /\ M \in keep .. M
      BY <1>1, <2>2
    <3>2. SubSeq(b, 1, keep) \o SubSeq(b, keep + 1, M) = SubSeq(b, 1, M)
      <4> HIDE DEF keep
      <4>1. QED
        BY <1>0, <3>1, ConcatAdjacentSubSeq DEF Texts
    <3>3. SubSeq(b, 1, M) = b
      BY <1>0, SubSeqFull DEF Texts
    <3>4. QED
      BY <3>2, <3>3
  <2>7. \A j \in 1 .. keep : Mismatch(b, j)
    BY <1>0, <1>4, <1>6, EmittedIsSafe
  <2> HIDE DEF e, h, keep, M, N, c, b
  <2> DEFINE x == out \o e
  <2>8. x \in Texts /\ Len(x) = N + keep
    BY <2>4, Joins DEF N
  <2>9. rest = x \o h
    <3>1. (out \o e) \o h = out \o (e \o h)
      BY <2>4, <2>5, ConcatAssociative DEF Texts
    <3>2. QED
      BY <2>6, <3>1 DEF b
  <2> HIDE DEF x
  <2>10. NoneBefore(rest, N + keep)
    <3> SUFFICES ASSUME NEW i \in 1 .. N + keep
                 PROVE  Mismatch(rest, i)
      BY DEF NoneBefore
    <3>1. CASE i <= N
      <4>1. i \in 1 .. N
        BY <1>1, <2>2, <3>1
      <4>2. QED
        BY <4>1 DEF NoneBefore, N
    <3>2. CASE ~(i <= N)
      <4> DEFINE j == i - N
      <4>1. j \in 1 .. keep /\ i = N + j
        BY <1>1, <2>2, <3>2
      <4> HIDE DEF j
      <4>2. PICK k \in 1 .. 3 : j + k - 1 <= M /\ b[j + k - 1] # FinalClose[k]
        BY <2>7, <4>1 DEF Mismatch, M
      <4>3. j + k - 1 \in 1 .. M /\ i + k - 1 = N + (j + k - 1) /\ i + k - 1 <= Len(rest)
        BY <1>1, <2>2, <4>1, <4>2
      <4>4. rest[i + k - 1] = b[j + k - 1]
        BY <1>1, <4>3
      <4>5. QED
        BY <4>2, <4>3, <4>4 DEF Mismatch
    <3>3. QED
      BY <3>1, <3>2
  <2>11. Open(x, h, rest)
    BY <1>6, <2>2, <2>5, <2>8, <2>9, <2>10 DEF Open
  <2>12. d.filter \in FilterStates /\ d.filter.mode = f.mode /\ d.filter.closed = f.closed /\ d.filter.buffer = h
    <3> HIDE DEF d
    <3>1. QED
      BY <2>1, <2>5 DEF FilterStates
  <2>13. d.emit \in Texts /\ out \o d.emit = x
    BY <2>1, <2>4 DEF x
  <2>14. QED
    BY <1>6, <2>11, <2>12, <2>13
<1>7. QED
  BY <1>5, <1>6

\* How the filter stands to the text of the deltas so far and to what was shown.
FilterOK(f, text, out) ==
  /\ f.mode = "unknown" =>
       ~f.closed /\ f.buffer = text /\ ~Has(text, FinalOpen) /\ ~Has(text, ToolOpen) /\ out = <<>>
  /\ f.mode = "tool" => ~f.closed /\ ToolFirst(text) /\ out = <<>>
  /\ f.mode = "final" =>
       /\ Has(text, FinalOpen) /\ ~ToolFirst(text)
       /\ LET rest == After(text, FinalOpen)
          IN  IF f.closed THEN Has(rest, FinalClose) /\ out = Before(rest, FinalClose)
              ELSE Open(out, f.buffer, rest)

\* It stays so with every delta.
LEMMA Fed ==
  ASSUME NEW f \in FilterStates, NEW text \in Texts, NEW out \in Texts, NEW delta \in Texts,
         FilterOK(f, text, out)
  PROVE  LET r == Feed(f, delta)
         IN  /\ r.filter \in FilterStates /\ r.emit \in Texts
             /\ FilterOK(r.filter, text \o delta, out \o r.emit)
<1> DEFINE r == Feed(f, delta)
           more == text \o delta
           rest == After(text, FinalOpen)
           now == After(more, FinalOpen)
<1>1. /\ f.buffer \in Texts /\ f.mode \in {"unknown", "tool", "final"} /\ f.closed \in BOOLEAN
      /\ more \in Texts /\ <<>> \in Texts
  <2>1. <<>> \in Texts
    BY DEF Texts
  <2>2. QED
    BY <2>1, Joins DEF FilterStates
<1>2. FinalOpen \in Texts /\ ToolOpen \in Texts /\ FinalClose \in Texts
  BY TagsAre
<1>3. out \o <<>> = out /\ <<>> \o <<>> = <<>>
  BY <1>1, ConcatEmptySeq DEF Texts
<1>4. Has(text, FinalOpen) => /\ rest \in Texts /\ now = rest \o delta
                              /\ Has(more, FinalOpen)
                              /\ ~ToolFirst(text) => ~ToolFirst(more)
  BY <1>2, AfterIs, AnswerGrows, FirstStays, KindStays
<1>5. CASE f.closed
  <2>1. f.mode = "final"
    BY <1>1, <1>5 DEF FilterOK
  <2>2. /\ Has(text, FinalOpen) /\ ~ToolFirst(text)
        /\ Has(rest, FinalClose) /\ out = Before(rest, FinalClose)
    BY <1>5, <2>1 DEF FilterOK
  <2>3. Has(now, FinalClose) /\ Before(now, FinalClose) = out
    <3>1. rest \in Texts /\ now = rest \o delta
      BY <1>4, <2>2
    <3> HIDE DEF rest, now
    <3>2. QED
      BY <1>2, <2>2, <3>1, FirstStays, AnswerGrows
  <2>4. r.filter = f /\ r.emit = <<>>
    BY <1>5 DEF Feed
  <2> HIDE DEF r, more
  <2>5. FilterOK(f, more, out)
    BY <1>4, <1>5, <2>1, <2>2, <2>3 DEF FilterOK
  <2>6. QED
    BY <1>1, <1>3, <2>4, <2>5 DEF r, more
<1>6. CASE ~f.closed /\ f.mode = "tool"
  <2>1. ToolFirst(text) /\ out = <<>>
    BY <1>6 DEF FilterOK
  <2>2. ToolFirst(more)
    BY <2>1, KindStays
  <2>3. r.filter = [f EXCEPT !.buffer = <<>>, !.mode = "tool"] /\ r.emit = <<>>
    BY <1>6 DEF Feed
  <2> HIDE DEF r, more
  <2>4. r.filter \in FilterStates /\ r.filter.mode = "tool" /\ ~r.filter.closed
    BY <1>1, <1>6, <2>3 DEF FilterStates
  <2>5. FilterOK(r.filter, more, <<>>)
    BY <2>2, <2>4 DEF FilterOK
  <2>6. QED
    BY <1>1, <1>3, <2>1, <2>3, <2>4, <2>5 DEF r, more
<1>7. CASE ~f.closed /\ f.mode = "final"
  <2> DEFINE g == [f EXCEPT !.buffer = f.buffer \o delta, !.mode = "final"]
  <2>1. Has(text, FinalOpen) /\ ~ToolFirst(text) /\ Open(out, f.buffer, rest)
    BY <1>7 DEF FilterOK
  <2>2. r = Drain(g)
    BY <1>7 DEF Feed
  <2>3. g \in FilterStates /\ g.buffer = f.buffer \o delta /\ g.mode = "final" /\ ~g.closed
    <3>1. f.buffer \o delta \in Texts
      BY <1>1, Joins
    <3>2. QED
      BY <1>7, <3>1 DEF FilterStates
  <2> HIDE DEF g
  <2>4. rest \in Texts /\ now = rest \o delta
    BY <1>4, <2>1
  <2>5. now = out \o g.buffer
    <3>1. rest = out \o f.buffer
      BY <2>1 DEF Open
    <3> HIDE DEF rest, now
    <3>2. (out \o f.buffer) \o delta = out \o (f.buffer \o delta)
      <4> DEFINE held == f.buffer
      <4>1. out \in Seq(Symbols) /\ held \in Seq(Symbols) /\ delta \in Seq(Symbols)
        BY <1>1 DEF Texts
      <4> HIDE DEF held
      <4>2. (out \o held) \o delta = out \o (held \o delta)
        BY <4>1, ConcatAssociative
      <4>3. QED
        BY <4>2 DEF held
    <3>3. QED
      BY <2>3, <2>4, <3>1, <3>2
  <2>6. NoneBefore(now, Len(out))
    <3>1. NoneBefore(rest, Len(out)) /\ Len(out) \in Nat
      BY <2>1 DEF Open, Texts
    <3> HIDE DEF rest, now
    <3>2. QED
      BY <2>4, <3>1, MismatchStays
  <2>7. /\ r.emit \in Texts /\ r.filter \in FilterStates /\ r.filter.mode = "final"
        /\ Has(now, FinalClose) => r.filter.closed /\ out \o r.emit = Before(now, FinalClose)
        /\ ~Has(now, FinalClose) => ~r.filter.closed /\ Open(out \o r.emit, r.filter.buffer, now)
    <3> HIDE DEF now, r
    <3>1. QED
      BY <2>2, <2>3, <2>5, <2>6, Drained
  <2>8. Has(more, FinalOpen) /\ ~ToolFirst(more)
    BY <1>4, <2>1
  <2> HIDE DEF r, more
  <2>9. FilterOK(r.filter, more, out \o r.emit)
    BY <2>7, <2>8 DEF FilterOK
  <2>10. QED
    BY <2>7, <2>9 DEF r, more
<1>8. CASE ~f.closed /\ f.mode = "unknown"
  <2>1. f.buffer = text /\ out = <<>>
    BY <1>8 DEF FilterOK
  <2>2. /\ ToolFirst(LStrip(more)) <=> ToolFirst(more)
        /\ Has(LStrip(more), FinalOpen) <=> Has(more, FinalOpen)
        /\ Has(more, FinalOpen) => After(LStrip(more), FinalOpen) = now
    BY <1>1, SpacesDoNotMatter
  <2>3. CASE ToolFirst(more)
    <3>1. r.filter = [f EXCEPT !.buffer = <<>>, !.mode = "tool"] /\ r.emit = <<>>
      BY <1>8, <2>1, <2>2, <2>3 DEF Feed, Mode
    <3> HIDE DEF r, more
    <3>2. r.filter \in FilterStates /\ r.filter.mode = "tool" /\ ~r.filter.closed
      BY <1>1, <1>8, <3>1 DEF FilterStates
    <3>3. FilterOK(r.filter, more, <<>>)
      BY <2>3, <3>2 DEF FilterOK
    <3>4. QED
      BY <1>1, <1>3, <2>1, <3>1, <3>2, <3>3 DEF r, more
  <2>4. CASE ~ToolFirst(more) /\ Has(more, FinalOpen)
    <3> DEFINE g == [f EXCEPT !.buffer = now, !.mode = "final"]
    <3>1. r = Drain(g)
      BY <1>8, <2>1, <2>2, <2>4 DEF Feed, Mode
    <3>2. now \in Texts
      BY <1>1, <1>2, <2>4, AfterIs
    <3>3. g \in FilterStates /\ g.buffer = now /\ g.mode = "final" /\ ~g.closed
      <4> HIDE DEF now
      <4>1. QED
        BY <1>8, <3>2 DEF FilterStates
    <3> HIDE DEF g
    <3>4. now = out \o g.buffer
      BY <2>1, <3>2, <3>3, ConcatEmptySeq DEF Texts
    <3>5. NoneBefore(now, Len(out))
      <4>1. Len(out) = 0
        BY <2>1
      <4>2. QED
        BY <4>1 DEF NoneBefore
    <3>6. /\ r.emit \in Texts /\ r.filter \in FilterStates /\ r.filter.mode = "final"
          /\ Has(now, FinalClose) => r.filter.closed /\ out \o r.emit = Before(now, FinalClose)
          /\ ~Has(now, FinalClose) => ~r.filter.closed /\ Open(out \o r.emit, r.filter.buffer, now)
      <4> HIDE DEF now, r
      <4>1. QED
        BY <3>1, <3>3, <3>4, <3>5, Drained
    <3> HIDE DEF r, more
    <3>7. FilterOK(r.filter, more, out \o r.emit)
      BY <2>4, <3>6 DEF FilterOK
    <3>8. QED
      BY <3>6, <3>7 DEF r, more
  <2>5. CASE ~ToolFirst(more) /\ ~Has(more, FinalOpen)
    <3>1. r.filter = [f EXCEPT !.buffer = more] /\ r.emit = <<>>
      BY <1>8, <2>1, <2>2, <2>5 DEF Feed, Mode
    <3>2. ~Has(more, ToolOpen)
      BY <2>5 DEF ToolFirst
    <3> HIDE DEF r, more
    <3>3. r.filter \in FilterStates /\ r.filter.mode = "unknown" /\ ~r.filter.closed /\ r.filter.buffer = more
      BY <1>1, <1>8, <3>1 DEF FilterStates
    <3>4. FilterOK(r.filter, more, <<>>)
      BY <2>5, <3>2, <3>3 DEF FilterOK
    <3>5. QED
      BY <1>1, <1>3, <2>1, <3>1, <3>3, <3>4 DEF r, more
  <2>6. QED
    BY <2>3, <2>4, <2>5
<1>9. QED
  BY <1>1, <1>5, <1>6, <1>7, <1>8

-----------------------------------------------------------------------------

ReplyInv ==
  /\ raw \in Texts /\ shown \in Texts /\ filter \in FilterStates
  /\ reply # "returned" => FilterOK(filter, raw, shown)
  /\ reply = "returned" =>
       /\ ParsedAnswer(raw) # <<>> => Strip(shown) = ParsedAnswer(raw)
       /\ ToolFirst(raw) => shown = <<>>
       /\ ToolTagRefused(raw, shown)

\* There is no tag in an empty text.
LEMMA NoTagInNothing ==
  ASSUME NEW tag \in Texts, Len(tag) = 2
  PROVE  ~Has(<<>>, tag)
<1>1. <<>> \in Texts /\ Len(<<>>) = 0
  BY DEF Texts
<1>2. ASSUME NEW i \in TagsAt(<<>>, tag) PROVE FALSE
  <2>1. i \in Nat
    BY <1>1, TagAt
  <2>2. 1 <= i /\ i + Len(tag) - 1 <= Len(<<>>)
    BY <1>1, <2>1, TagAt
  <2>3. QED
    BY <1>1, <2>1, <2>2
<1>3. QED
  BY <1>2 DEF Has

\* A tag of a text is a tag of what the text begins.
LEMMA TagsAhead ==
  ASSUME NEW text \in Texts, NEW more \in Texts, NEW tag \in Texts, Len(tag) = 2, Has(text, tag)
  PROVE  Has(text \o more, tag)
<1> DEFINE t == text \o more
<1>1. /\ t \in Texts /\ Len(text) \in Nat /\ Len(more) \in Nat /\ Len(t) = Len(text) + Len(more)
      /\ \A i \in 1 .. Len(text) : t[i] = text[i]
  BY Joins
<1> HIDE DEF t
<1>2. PICK i \in TagsAt(text, tag) : TRUE
  BY DEF Has
<1>3. i \in Nat
  BY TagAt
<1>4. 1 <= i /\ i + Len(tag) - 1 <= Len(text) /\ \A k \in 1 .. Len(tag) : text[i + k - 1] = tag[k]
  BY <1>3, TagAt
<1>5. \A k \in 1 .. 2 : i + k - 1 \in 1 .. Len(text) /\ t[i + k - 1] = tag[k]
  BY <1>1, <1>3, <1>4
<1>6. i + Len(tag) - 1 <= Len(t)
  BY <1>1, <1>3, <1>4
<1>7. i \in TagsAt(t, tag)
  BY <1>1, <1>3, <1>4, <1>5, <1>6, TagAt
<1>8. QED
  BY <1>7 DEF Has, t

\* The invariant of the reply holds before its first connection.
LEMMA ReplyStarts == ReplyInit => ReplyInv
<1> SUFFICES ASSUME ReplyInit
             PROVE  ReplyInv
  OBVIOUS
<1>1. raw = <<>> /\ shown = <<>> /\ filter = NewFilter /\ reply = "connecting"
  BY DEF ReplyInit
<1>2. <<>> \in Texts /\ Len(<<>>) = 0
  BY DEF Texts
<1>3. filter \in FilterStates /\ filter.mode = "unknown" /\ ~filter.closed /\ filter.buffer = <<>>
  BY <1>1, <1>2 DEF NewFilter, FilterStates
<1>4. ~Has(raw, FinalOpen) /\ ~Has(raw, ToolOpen)
  BY <1>1, NoTagInNothing, TagsAre
<1>5. FilterOK(filter, raw, shown)
  BY <1>1, <1>3, <1>4 DEF FilterOK
<1>6. QED
  BY <1>1, <1>2, <1>3, <1>5 DEF ReplyInv

\* What is shown of a reply once it is complete.
LEMMA Finished ==
  ASSUME NEW f \in FilterStates, NEW text \in Texts, NEW out \in Texts, FilterOK(f, text, out)
  PROVE  LET all == out \o Finish(f)
         IN  /\ all \in Texts
             /\ ParsedAnswer(text) # <<>> => Strip(all) = ParsedAnswer(text)
             /\ ToolFirst(text) => all = <<>>
             /\ ToolTagRefused(text, all)
<1> DEFINE all == out \o Finish(f)
           rest == After(text, FinalOpen)
<1>1. f.buffer \in Texts /\ f.mode \in {"unknown", "tool", "final"} /\ f.closed \in BOOLEAN /\ <<>> \in Texts
  <2>1. <<>> \in Texts
    BY DEF Texts
  <2>2. QED
    BY <2>1 DEF FilterStates
<1>2. CASE f.mode = "unknown"
  <2>1. ~f.closed /\ f.buffer = text /\ ~Has(text, FinalOpen) /\ ~Has(text, ToolOpen) /\ out = <<>>
    BY <1>2 DEF FilterOK
  <2>2. Finish(f) = LStrip(text)
    BY <1>2, <2>1 DEF Finish
  <2>3. LStrip(text) \in Texts
    BY Unindented
  <2>4. all = LStrip(text)
    BY <2>1, <2>2, <2>3, ConcatEmptySeq DEF Texts
  <2>5. ~ToolFirst(text)
    BY <2>1 DEF ToolFirst
  <2>6. ParsedAnswer(text) = Strip(text)
    BY <2>1, <2>5 DEF ParsedAnswer
  <2>7. ~Has(all, ToolOpen)
    <3>1. ToolOpen \in Texts /\ Len(ToolOpen) \in Nat \ {0} /\ ToolOpen[1] # Space
      BY TagsAre DEF Space
    <3>2. Has(LStrip(text), ToolOpen) <=> Has(text, ToolOpen)
      BY <3>1, TagsUnindented
    <3> HIDE DEF all
    <3>3. QED
      BY <2>1, <2>4, <3>2
  <2>8. QED
    BY <2>3, <2>4, <2>5, <2>6, <2>7, StripAgain DEF ToolTagRefused
<1>3. CASE f.mode = "tool"
  <2>1. ~f.closed /\ ToolFirst(text) /\ out = <<>>
    BY <1>3 DEF FilterOK
  <2>2. Finish(f) = <<>>
    BY <1>3 DEF Finish
  <2>3. all = <<>>
    BY <1>1, <2>1, <2>2, ConcatEmptySeq DEF Texts
  <2>4. ParsedAnswer(text) = <<>>
    BY <2>1 DEF ParsedAnswer
  <2>5. ~Has(all, ToolOpen)
    BY <2>3, NoTagInNothing, TagsAre
  <2>6. QED
    BY <1>1, <2>3, <2>4, <2>5 DEF ToolTagRefused
<1>4. CASE f.mode = "final"
  <2>1. /\ Has(text, FinalOpen) /\ ~ToolFirst(text)
        /\ IF f.closed THEN Has(rest, FinalClose) /\ out = Before(rest, FinalClose)
           ELSE Open(out, f.buffer, rest)
    BY <1>4 DEF FilterOK
  <2>2. ParsedAnswer(text) # <<>> => ParsedAnswer(text) = Strip(Inner(text))
    BY <2>1 DEF ParsedAnswer
  <2>3. all = Inner(text) /\ all \in Texts
    <3>1. CASE f.closed
      <4>1. Finish(f) = <<>>
        BY <3>1 DEF Finish
      <4>2. all = out
        BY <1>1, <4>1, ConcatEmptySeq DEF Texts
      <4>3. Inner(text) = out
        BY <2>1, <3>1 DEF Inner
      <4>4. QED
        BY <4>2, <4>3
    <3>2. CASE ~f.closed
      <4>1. Finish(f) = f.buffer
        BY <1>4, <3>2 DEF Finish
      <4>2. ~Has(rest, FinalClose) /\ rest = out \o f.buffer
        BY <2>1, <3>2 DEF Open
      <4>3. Inner(text) = rest
        BY <4>2 DEF Inner
      <4>4. out \o f.buffer \in Texts
        BY <1>1, Joins
      <4>5. QED
        BY <4>1, <4>2, <4>3, <4>4
    <3>3. QED
      BY <1>1, <3>1, <3>2
  <2> HIDE DEF all
  <2>4. ToolTagRefused(text, all)
    BY <2>1, <2>3 DEF ToolTagRefused, ParsedAnswer
  <2>5. QED
    BY <2>1, <2>2, <2>3, <2>4 DEF all
<1>5. QED
  BY <1>1, <1>2, <1>3, <1>4

\* Each step of the client and the filter keeps it.
LEMMA ReplyKept == ReplyInv /\ [ReplyNext]_replyVars => ReplyInv'
<1> SUFFICES ASSUME ReplyInv, [ReplyNext]_replyVars
             PROVE  ReplyInv'
  OBVIOUS
<1>1. /\ raw \in Texts /\ shown \in Texts /\ filter \in FilterStates
      /\ reply # "returned" => FilterOK(filter, raw, shown)
  BY DEF ReplyInv
<1>2. CASE ReadDelta
  <2>1. PICK d \in Deltas : /\ raw' = raw \o d
                            /\ filter' = Feed(filter, d).filter
                            /\ shown' = shown \o Feed(filter, d).emit
    BY <1>2 DEF ReadDelta
  <2>2. d \in Texts /\ reply = "reading" /\ reply' = reply
    BY <1>2, ReplyAssumption DEF ReadDelta, Texts
  <2>3. /\ filter' \in FilterStates /\ Feed(filter, d).emit \in Texts
        /\ FilterOK(filter', raw', shown')
    BY <1>1, <2>1, <2>2, Fed
  <2>4. raw' \in Texts /\ shown' \in Texts
    BY <1>1, <2>1, <2>2, <2>3, Joins
  <2>5. QED
    BY <2>2, <2>3, <2>4 DEF ReplyInv
<1>3. CASE EndOfStream
  <2>1. CASE raw = <<>>
    <3>1. UNCHANGED <<raw, filter, shown>> /\ reply = "reading" /\ reply' = "failed"
      BY <1>3, <2>1 DEF EndOfStream
    <3>2. QED
      BY <1>1, <3>1 DEF ReplyInv
  <2>2. CASE raw # <<>>
    <3>1. /\ reply = "reading" /\ reply' = "returned" /\ raw' = raw
          /\ shown' = shown \o Finish(filter) /\ filter' = [filter EXCEPT !.buffer = <<>>]
      BY <1>3, <2>2 DEF EndOfStream
    <3>2. /\ shown' \in Texts
          /\ ParsedAnswer(raw) # <<>> => Strip(shown') = ParsedAnswer(raw)
          /\ ToolFirst(raw) => shown' = <<>>
          /\ ToolTagRefused(raw, shown')
      BY <1>1, <3>1, Finished
    <3>3. filter' \in FilterStates
      <4>1. <<>> \in Texts
        BY DEF Texts
      <4>2. QED
        BY <1>1, <3>1, <4>1 DEF FilterStates
    <3>4. QED
      BY <1>1, <3>1, <3>2, <3>3 DEF ReplyInv
  <2>3. QED
    BY <2>1, <2>2
<1>4. CASE Connect \/ Refused \/ Broken \/ CancelReply \/ UNCHANGED replyVars
  <2>1. UNCHANGED <<raw, filter, shown>>
    BY <1>4 DEF Connect, Refused, Broken, CancelReply, replyVars
  <2>2. reply' = reply \/ (reply # "returned" /\ reply' # "returned")
    BY <1>4 DEF Connect, Refused, Broken, CancelReply, replyVars
  <2>3. QED
    BY <2>1, <2>2 DEF ReplyInv
<1>5. QED
  BY <1>2, <1>3, <1>4 DEF ReplyNext

\* What was shown while a reply streams is the beginning of its answer.
LEMMA ShownSoFar ==
  ASSUME NEW f \in FilterStates, NEW text \in Texts, NEW out \in Texts, FilterOK(f, text, out)
  PROVE  LET visible == IF ToolFirst(text) \/ ~Has(text, FinalOpen) THEN <<>> ELSE Inner(text)
         IN  IsPrefix(out, visible) /\ Len(visible) - Len(out) < Len(FinalClose)
             /\ (ToolFirst(text) => out = <<>>)
             /\ ToolTagRefused(text, out)
<1> DEFINE visible == IF ToolFirst(text) \/ ~Has(text, FinalOpen) THEN <<>> ELSE Inner(text)
           rest == After(text, FinalOpen)
<1>1. f.buffer \in Texts /\ f.mode \in {"unknown", "tool", "final"}
  BY DEF FilterStates
<1>2. Len(FinalClose) = 3
  BY TagsAre
<1>3. CASE f.mode \in {"unknown", "tool"}
  <2>1. out = <<>> /\ visible = <<>>
    BY <1>3 DEF FilterOK
  <2>2. IsPrefix(<<>>, <<>>) /\ Len(<<>>) = 0
    BY DEF IsPrefix
  <2>3. ToolTagRefused(text, out)
    BY <2>1, NoTagInNothing, TagsAre DEF ToolTagRefused
  <2> HIDE DEF visible
  <2>4. QED
    BY <1>2, <2>1, <2>2, <2>3 DEF visible
<1>4. CASE f.mode = "final"
  <2>1. /\ Has(text, FinalOpen) /\ ~ToolFirst(text)
        /\ IF f.closed THEN Has(rest, FinalClose) /\ out = Before(rest, FinalClose)
           ELSE Open(out, f.buffer, rest)
    BY <1>4 DEF FilterOK
  <2>2. visible = Inner(text)
    BY <2>1
  <2>3. Len(out) \in Nat
    BY DEF Texts
  <2>4. CASE f.closed
    <3>1. visible = out
      BY <2>1, <2>2, <2>4 DEF Inner
    <3> HIDE DEF visible
    <3>2. IsPrefix(out, visible)
      BY <2>3, <3>1 DEF IsPrefix
    <3>3. ToolTagRefused(text, out)
      BY <2>1, <2>2, <3>1 DEF ToolTagRefused, ParsedAnswer, visible
    <3>4. QED
      BY <1>2, <2>1, <2>3, <3>1, <3>2, <3>3 DEF visible
  <2>5. CASE ~f.closed
    <3>1. ~Has(rest, FinalClose) /\ rest = out \o f.buffer /\ Len(f.buffer) < 3
      BY <2>1, <2>5 DEF Open
    <3>2. visible = out \o f.buffer
      BY <2>2, <3>1 DEF Inner
    <3> DEFINE w == out \o f.buffer
    <3>3. /\ w \in Texts /\ Len(w) = Len(out) + Len(f.buffer) /\ Len(f.buffer) \in Nat
          /\ \A i \in 1 .. Len(out) : w[i] = out[i]
      BY <1>1, Joins
    <3> HIDE DEF w, visible
    <3>4. SubSeq(w, 1, Len(out)) = SubSeq(out, 1, Len(out))
      <4> DEFINE n == Len(out)
                 u == SubSeq(w, 1, n)
                 v == SubSeq(out, 1, n)
      <4>1. (\A i \in 1 .. n : out[i] \in Symbols) /\ (\A i \in 1 .. n : w[i] \in Symbols) /\ n \in Nat
        <5>1. \A i \in 1 .. n : out[i] \in Symbols
          BY DEF Texts
        <5>2. QED
          BY <2>3, <3>3, <5>1
      <4>2. \A i \in 1 .. n : w[i] = out[i]
        BY <3>3
      <4> HIDE DEF n
      <4>3. /\ u \in Texts /\ Len(u) = IF 1 <= n THEN n - 1 + 1 ELSE 0
            /\ \A i \in 1 .. n - 1 + 1 : u[i] = w[1 + i - 1]
        BY <4>1, SubSeqProperties DEF Texts
      <4>4. /\ v \in Texts /\ Len(v) = IF 1 <= n THEN n - 1 + 1 ELSE 0
            /\ \A i \in 1 .. n - 1 + 1 : v[i] = out[1 + i - 1]
        BY <4>1, SubSeqProperties DEF Texts
      <4> HIDE DEF u, v
      <4>5. n - 1 + 1 = n /\ \A i \in 1 .. n : 1 + i - 1 = i
        BY <4>1
      <4>6. Len(u) = n /\ Len(v) = n /\ \A i \in 1 .. n : u[i] = v[i]
        BY <4>1, <4>2, <4>3, <4>4, <4>5
      <4>7. u = v
        BY <4>3, <4>4, <4>6, SeqEqual DEF Texts
      <4>8. QED
        BY <4>7 DEF u, v, n
    <3>5. IsPrefix(out, w) /\ Len(w) - Len(out) < 3
      BY <2>3, <3>1, <3>3, <3>4 DEF IsPrefix
    <3>6. Inner(text) = w
      BY <2>2, <3>2 DEF w, visible
    <3>7. ToolTagRefused(text, out)
      <4>1. Has(out, ToolOpen) => Has(w, ToolOpen)
        BY <1>1, TagsAhead, TagsAre DEF w
      <4>2. QED
        BY <2>1, <3>6, <4>1 DEF ToolTagRefused, ParsedAnswer
    <3>8. QED
      BY <1>2, <2>1, <3>2, <3>5, <3>7 DEF visible, w
  <2>6. QED
    BY <2>4, <2>5
<1>5. QED
  BY <1>1, <1>3, <1>4

\* The invariant has what the user may see.
LEMMA ReplyShows == ReplyInv => StreamShowsAnswer
<1> SUFFICES ASSUME ReplyInv
             PROVE  StreamShowsAnswer
  OBVIOUS
<1>1. CASE reply # "returned"
  <2>1. FilterOK(filter, raw, shown) /\ raw \in Texts /\ shown \in Texts /\ filter \in FilterStates
    BY <1>1 DEF ReplyInv
  <2>2. LET visible == IF ToolFirst(raw) \/ ~Has(raw, FinalOpen) THEN <<>> ELSE Inner(raw)
        IN  IsPrefix(shown, visible) /\ Len(visible) - Len(shown) < Len(FinalClose)
            /\ (ToolFirst(raw) => shown = <<>>)
            /\ ToolTagRefused(raw, shown)
    BY <2>1, ShownSoFar
  <2>3. QED
    BY <1>1, <2>2 DEF StreamShowsAnswer
<1>2. CASE reply = "returned"
  BY <1>2 DEF ReplyInv, StreamShowsAnswer
<1>3. QED
  BY <1>1, <1>2

(* What the user sees while a reply streams is the beginning of what stands    *)
(* between the tags of its answer, less than a closing tag behind it; of a     *)
(* complete reply it is the answer that parse reads out of it, if it reads     *)
(* one; of a reply that begins with a tool call nothing is seen, and a tool    *)
(* tag only out of an answer that parse refuses: for any text and however it   *)
(* is cut into deltas.                                                         *)
THEOREM AnswerIsShown == ReplyInit /\ [][ReplyNext]_replyVars => []StreamShowsAnswer
<1>1. ReplyInit /\ [][ReplyNext]_replyVars => []ReplyInv
  BY ReplyStarts, ReplyKept, PTL
<1>2. QED
  BY <1>1, ReplyShows, PTL
=============================================================================
