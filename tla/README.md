# Poppy in TLA+

Poppy (`src/`) is a local-first assistant: a Python gateway runs an agent for
each chat session, indexes the user's folders in the background, keeps
everything in SQLite and JSON files, and serves a desktop app and a Feishu
(Lark) bot.  These modules model the parts where threads, failures and the order
of events decide whether it is correct, and the algorithms whose corner cases do.
TLC checks them on small instances; the `…Proofs` modules prove every invariant
the passing runs check for every instance.

## 1. The system

| component | state it keeps | operations | talks to |
|---|---|---|---|
| `AssistantService` (`application/service.py`) | `_runs` (status, token, approvals, events), `_active_sessions` | start a run (thread per run), cancel a run or a session, resolve an approval, get events, shutdown | the session's one cached agent, whose controls each run overwrites; clients through the controller |
| agent loop (`agent_loop.py`, `task_state.py`, `checkpoint.py`, `run_store.py`, `session_store.py`) | task state, session history, `task_state.json`, `report.json`, session file | one `ask`: prompt, model, tool, record, until an answer or a limit | model client, tool executor, files |
| tool executor (`tool_executor.py`, `tools.py`) | – | check, approve, run one tool call | service's approval handlers, token |
| gateway (`api/app.py`) and its clients (`gateway.ts`, windows) | cursor of a socket, cursor of a client | HTTP routes, `/events` WebSocket, reconnection | service |
| Feishu bridge (`integrations/feishu.py`) | connection generation and state, claims of messages, chat → session | start, stop, message, reply | controller, service's events |
| library watcher (`features/index_watcher.py`) | `pending`, queue, watches, rows of `index_jobs` | folder events, enqueue with debounce, worker, start/recovery, stop | document index, database, controller |
| document index (`features/document_index.py`, `vector_store.py`) | documents, chunks, vectors, failures | scan a folder, index a file, remove, attach, search, batches of a whole document | database, extractors, embeddings |
| `DesktopDatabase` (`storage/database.py`) | all tables, one lock | one transaction per method; copy and upgrade at its opening | everybody |
| `DesktopController` (`application/controller.py`) | cached agents, scopes, preparers | the API's operations | service, watcher, index, database |
| context manager, memory (`context_manager.py`, `features/memory.py`, `checkpoint.py`) | working memory and checkpoints in the session, durable notes in shared files | assemble a prompt, remember a file, find what is stale, promote notes | agent loop, the user's files |
| providers, streaming filter, cancellation token, shell tool | a connection, a buffer, callbacks, a process group | stream a reply, show the answer in it, cancel | agent loop, model service, operating system |
| Tauri shell, windows, macOS helpers, CLI, evaluation, `mini-poppy`, scripts | – | outside the core | – |

Hard in this code: the agent object is shared by a session's successive runs;
`status` is written without the lock, before the events that follow from it;
approvals race with cancellations; a turn writes several files one after the
other; the debounced queue and the database each hold one half of a job's truth;
readers poll two things (events, status) that are not read together; a document
is a row, chunks and vectors, written one after the other by two threads; the
controller reads row, grants, cache and index each under a lock of its own.
`PROJECT.json` lists each hazard at its line with the properties that watch it.

What makes each correct, in a sentence: a session has one live run and is never
blocked by a dead one; a risky tool needs consent and none starts after a
cancellation; a run ends with one terminal event and files that agree with it;
no queued job is lost and every row tells the truth; each reader sees the events
once, in order, and comes to an end; an index at rest shows the disk; evidence
comes from where the question may look, and nothing that matches and was read is
left out while there is room; nothing names a row that is gone; a conversation keeps its
messages, its tools fit its grant and its lock its scope; a message of the
messenger starts one run; a prompt fits and names what is stale; the user sees
of a reply what stands between the tags of its answer.

## 2. Modules

| module | models | checked by |
|---|---|---|
| `SessionRuns` | abstract: what the service promises of sessions, runs, cancellation and tools | refined by `RunService` |
| `RunService` | `AssistantService`, with the agent loop and the executor as far as it sees them | `RunServiceOverlap.cfg`, `RunServiceApprovals.cfg`, `RunServiceOwnEvents.cfg` |
| `AgentLoop` | `AgentLoop.run` over a session's runs, with its files | `AgentLoop.cfg` |
| `IndexJobs` | `LibraryIndexWatcher` and `index_jobs` | `IndexJobs.cfg` |
| `EventDelivery` | service's event list, socket, desktop client, Feishu reply | `EventDelivery.cfg`, `EventDeliveryStopped.cfg` |
| `LibraryIndex` | documents, chunks, vectors and failures, written by a worker and a request | `MCLibrary` |
| `Retrieval` | a search, its reads and its ranking, over an index that changes | `MCLibrary` |
| `KnowledgeLinks` | notebooks, scopes, notes, citations, attachments and the rows they name | `MCLibrary` |
| `SchemaUpgrade` | opening and upgrading the database file | `MCLibrary` |
| `Conversations` | sessions, session files, cached agents, grants, runs | `MCConversations` |
| `SessionDocument` | the document a session is locked to, kept in two columns | `MCConversations` |
| `FeishuBridge` | the bridge's connection and its incoming messages | `MCConversations` |
| `PromptBudget` | the prompt's sections and their reduction | `MCAgentParts` |
| `ReplyStream` | a streamed reply, the filter of its deltas, `parse` | `MCAgentParts` |
| `WorkingMemory` | summaries of files, checkpoints, staleness | `MCAgentParts` |
| `DurableMemory` | promotion of notes by the sessions of a folder | `MCAgentParts` |
| `FullDocument` | the batches of a whole document and the threads that read them | `MCAgentParts` |
| `ToolCancellation` | the cancellation token and the shell tool | `MCAgentParts` |
| `Grounding` | from a message to the evidence its answer may use | `MCAgentParts` |
| `Lists` | filtering a list by a set of elements, and sums, for modules with theorems | with `EventDelivery`, `Retrieval`, `LibraryIndex`, `FullDocument`, `PromptBudget` |
| `RunServiceProofs`, `AgentLoopProofs`, `IndexJobsProofs`, `EventDeliveryProofs` | theorems about the module of that name | `tlapm` |
| `LibraryProofs` | theorems about `LibraryIndex`, `KnowledgeLinks`, `SchemaUpgrade` | `tlapm` |
| `ConversationsProofs` | theorems about `Conversations`, `SessionDocument`, `FeishuBridge` | `tlapm` |
| `AgentPartsProofs` | theorems about `ToolCancellation`, `WorkingMemory`, `DurableMemory`, `Grounding`, `Retrieval`, `FullDocument`, `PromptBudget`, `ReplyStream` | `tlapm` |
| `ListsProofs` | what `Filter` returns, sums; induction and recursion over numbers | `tlapm` |

The first five state machines have configurations that give values to their
constants directly.  The others, which share no state, are checked in three
sums: `MCLibrary`, `MCConversations` and `MCAgentParts` each EXTEND their modules,
choose one of them at the start (`part`) and leave the variables of the others
where they began.  Each behaviour is a behaviour of one module, so a property
about one of them means what it says in that module; the sums only save runs and
define the data of the instances (nested folders, questions, files of earlier
builds, entries of a history).

Several properties have exceptions, for behaviour the code is known to have.
Most exceptions are history variables that no guard reads and that the action
that causes them sets, named where the property is stated: `behind` (the index
misses something), `forked` (two agents of one session), `raced` (a start that
overlapped a revocation), `torn`, `stale`, `lost`, `clashed`, `overtaken`,
`uncopied`, `left`.  Others are conditions on the state, named in the property
(`Outscored`, `Withheld`, `NumberLost`, a run whose session has no row).  `said`,
`started`, `kept` and `allowed` record what a property compares the present with.

### RunService
A run's thread is a program counter `pc[r]`; a step is what it does between two
points where another thread can see or change what it uses: a section under
`_lock`, one assignment of `ActiveRun.status`, one event.  `controls[s]` is the
run that called `configure_run_controls` last on the session's agent, and
`task[s]` that agent's `current_task_state`: both belong to the session because
the agent is cached per session.  `start_run` is `Register` (lock),
`ConfigureRunControls`, `Begin`; `_run_agent` continues with the preparer
(`Prepare*`), the loop (`AskStarts` … `LimitReached`), `TakeTaskStatus` or
`SetRaised` and its event, `Finish` (the finally clause).  `_wait_for_approval`
is `CheckRule`, `AwaitDecision`, `WaitCancelled | WaitReady`, `TakeDecision`;
`ToolCancelled` and `StartTool` are the executor's last look at the token.
Every place of `ask` may raise (`AskRaises`, `WriteFails`).  Where the end of a
cited run is announced, so may the handler: the citations go into the session file
before they are recorded, and when that file cannot be written the number of
`run.completed` is used up and neither event is recorded (`CitationsRefused`,
`CompletionRefused`).  Clients cancel,
shut down, answer approvals of any call the run has announced, in any order and
as often as they like, and delete rules.

`events` holds type, run and number of each event; `retrieval.citations` is
inserted before `run.completed` and shifts the counter as the code does.  The
truncation of the list is in `EventDelivery`.  `EventsInOrder` compares the list
with the thread's own events by rank (`Mirrors`): the n-th event of the run in the
list, citations apart, is the n-th the thread emitted, whatever another run has
written in between.  Its one exception is the event refused with its citations:
it is missing from the list (`LastRefused`), and the `run.failed` that closes the
list instead is one number late (`NumberLost`).  `emitted` and `sent` are history
variables that no action reads for its guard, except that the preparer reports
progress at most once (a bound).

### AgentLoop
A step ends at a write to disk.  `disk`, `report`, `saved` are the files,
`task` and `session` the objects in memory.  Each ending writes in its own order
(`Persist`): a final answer checkpoints and then writes the task state, the
others write first.  `StoreFails` leaves `ask` at any write with what the step
had already put into memory; `Crash` loses memory, and the next `Ask` loads the
session file.  `handled` is a history of the calls the executor was given: whether
each was run, and whether its result reached the session file.  A tool that a
cancellation, a crash or an exception cuts off while it runs is in `handled` and
not in the session (`CutOff`), so `repeated_tool_call` does not see it:
`NoThirdRepeat` promises no third run of a call only after two that were recorded,
and says so.  Contents of prompts, checkpoints and answers are left out.

### IndexJobs
`rows` is `index_jobs` (in the order of their ids), `pending` and `queue` are the
watcher's, `caller[c]` is a thread inside `enqueue` – the observer's, the main
thread's at start, request threads' – between its transactions, `worker` is
`_run`.  A key is a source and an operation: one path per source stands for all,
since paths do not interact.  Times are left out: a job is due at any time.
`DeleteSource` and `DeleteGrant` remove rows under the feet of both; the
`KeyError` this raises is `EnqueueRaises` and `Mark`'s missing row, which in the
worker's handler ends its thread (`worker.at = "dead"`).  `Start` recovers rows
and enqueues a rescan per source; `Stop` puts the sentinel; `ProcessEnds` is both
the end after `stop` and a crash.  A source is not added again after its
deletion (it would have a new id).

### EventDelivery
The run is reduced to a script: its events and the place among them where its
status is set, as `RunService` has them.  `server` is one connection of
`events_socket`, `net` the frames on their way, `client` is `connectEvents` with
`lastSequence`, `reply` is the Feishu producer and, after its stream failed,
`_wait_for_run`.  `Drop` loses the connection with what is on its way.
`EventsAfter` uses `Filter` of `Lists` and not `SelectSeq`, which the provers do
not know.

### LibraryIndex
A file is a version (its size and time tell versions apart), a document the row
of its path: `rows[p]` with the `stat` it was indexed at and the text, `chunks` and
`vectors` by document id.  `writer["worker"]` and `writer["request"]` are the two
threads inside `DocumentIndex`; a step is one transaction, one call of the vector
store or one look at the file: `CheckUnchanged`, `Extract | ExtractFails`,
`UpsertDocument`, `ReplaceChunks`, `ReplaceVectors | VectorsFail`, `ReportIndexed`
for a file; `VisitFile` … `Purge`, `ReportFailures`, `ListDocuments`,
`PruneVectors` for a rescan; `RemoveVectors`, `RemovePath`, `DeleteSource` for
removals.  Users write and delete files, the polling observer compares
(`Observe`), requests attach files, rescan, add and delete sources and grants, the
embedding mode changes, and the process restarts anywhere.  The queue is a
sequence; `Enqueue` takes a job out (`Filter`) and puts it at the end, as the
pending table does for a key.  That it loses nothing is `IndexJobs`.
`RemoveSource` takes the vectors away before the rows and puts the files of the
source aside (`behind`): if the process dies in between, or the deletion meets a
rescan, the next scan takes the rows for unchanged and their vectors do not come
back (`document_index.py:58`).
`replace_document_chunks` fails without its row because the full-text row looks
the document up (`ReplaceChunks`); this is what `ChunksHaveDocument` rests on.

### Retrieval
One behaviour is one search: `Ask` (authority and scope), `ReadWords`,
`ReadVectors`, `ReadMeaning`, `Rank`, `Answer` (the last look at authority) and,
for a selection, `Locate`, while the indexer may cut a document anew, store its
vectors or drop it (`CutAnew`, `StoreVectors`, `Drop`).  How well pieces match is a
constant of the question; reciprocal ranks, the bonus of a named document, the
choice of candidates, duplicates and shares are computed as in the code, in
integers.  So are the cuts of the readings: by words the best 80 to 100 pieces
(`WordLimit`, of rows of which each statement fetches at most 500: `Fetched`), by
meaning the 80 nearest vectors.  A matching piece behind a cut is left out in the code
with room to spare, and `NothingLeftOut` puts it aside, piece by piece: what it
excepts is a piece behind a cut, a piece of a document that as many others outscore as
there are candidates (`Outscored`), and a piece whose text was selected with a
document that the last look withheld (`Withheld`).  The common order is a function from pieces to places (`Places`: one more
than the pieces whose sort key is ahead), which `SelectedTo` goes through as the
loop over the sorted rows does, one place at a time.

### KnowledgeLinks
`links` holds every row that names others, by kind.  A request looks (`Look`) and
later writes (`WriteLinks`), checking again what the code checks in the
transaction (`Refused`); each deletion is one transaction with the removals it
makes by hand.  A row that vanished between the look and the write is an exception
(`overtaken`), since the code has nothing against it; `LinksResolve` catches a
deletion that leaves one of its kinds of rows behind.

### SchemaUpgrade
`file` is what is committed, `work` the open transaction.  `RunScript(n)` is
`executescript`, cut off after any statement, each of which stays; `StampVersion`
is inside the transaction that the INSERT before it has opened, as are the
ALTERs, up to `RenameAndCommit`.  `LeaveInit` ends the process or raises anywhere.

### Conversations, SessionDocument, Grounding
`Conversations` has `start_run` from the row to the service (`BeginStart`,
`LookUpAgent`, `LoadSession`, `BuildAgent`, `LaunchRun`), `delete_session` and
`delete_grant` in their steps, and the runs that record messages: an agent holds
the history it loaded and rewrites the file with all of it.  `CancelFolderRuns`
reaches the runs of sessions that still have a row, as `list_sessions` does: a run
whose session was deleted while it was starting is out of reach of every later
revocation, and `RevokedRunsStop` excepts it.  `SessionDocument` is
the part of `start_run` and of two more requests that write
`locked_document_id` and the scope in two updates.  Each update is preceded by a
look at the document in a lock section of its own (`CheckDocument`), and
`DropDocument` clears lock and scope with the document, in one transaction.  A
document dropped between the look and `set_session_document_lock`'s update stays
in the lock alone, one of the cases of `torn`.  `Grounding` is what happens
in between: the document of the question (named, mentioned, the session's), a
selection captured before, the search, the notes, the preview that stands in, and
the gate that answers without an agent.  Its search is any set of authorized
pieces, as `Retrieval` has it.

### FeishuBridge
`generation`, `thread` and `channel` are the bridge's fields, `conn[g]` the thread
of a generation (`ServeChannel`, `Connected`, `Disconnected`), `call[c]` a request
inside `stop` and `start`, which may overlap.  `handler[h]` is one message:
`Deliver` (any open connection, again and again), `ClaimMessage`, `RouteMessage`,
`NewConversation | CreateChatSession`, `BindChatSession`, `StartChannelRun`,
`FinishMessage`; `CancelHandler` is the end of its event loop.

### PromptBudget, ReplyStream
Texts are lengths in characters, with the budgets, floors and order of the code.
`Entries` are the places of the history that are not collapsed, `Entry` what one of
them shows; `RenderHistory` goes from the newest to the oldest, one `IncludeNext` at
a time.  `Build` appends a checkpoint that the prefix lost, `Reduce` lowers one
budget and assembles anew.  With `context_reduction` switched off (a flag of the
ablation experiments) `build` sends the sections as they are, with no promise of a
size: that branch (`context_manager.py:123`) is left out.
In `ReplyStream` a text is a sequence of symbols and a tag two or three of them, so
deltas end inside tags; the filter (`Feed`, `Drain`, `Finish`) is compared with
`ParsedAnswer`, which is `Poppy.parse`.  A tool tag that the model writes between
the tags of its answer is shown like any text of the answer, and `parse` then
refuses the reply; `StreamShowsAnswer` says that a tool tag is shown in no other
case (`ToolTagRefused`).

### WorkingMemory, DurableMemory
`WorkingMemory` follows what the history shows of a file (`knows`), its summary and
the freshness of both through a run's steps while the user edits: `EditsAreTold`
says the next prompt names what is outdated.  `lost` are the files the code loses
track of: pushed out of `recent_files` without a summary, edited between a tool
and its summary or before a checkpoint, cut off by a crash before one, or named in a part of the
checkpoint's text that was clipped with the prefix or reduced away: `BuildPrompt` lets
any of the stale files be unnamed, since the line that names them comes late and its
place is a matter of lengths.
`DurableMemory` is `promote`: it reads everything and then writes file by file,
in two sessions at once, with crashes.  Two promotions that overlap lose notes and
are excepted altogether (`clashed`), so what `DurableNotesKept` promises is about
crashes.

### FullDocument, ToolCancellation
`Kept` and `Cut`, which puts chunk after chunk (`Put`), are `full_document_batches`,
`StartRequest`, `EndRequest` and `Collect` the threads of the preparer.
`ToolCancellation` has `cancel` in its three parts, readers that register and unregister, and `tool_run_shell` with a
group of processes that may ignore SIGTERM and hold the pipes.

## 3. Runs

| run | question | bounds |
|---|---|---|
| `service_overlap` | Do two runs of one session keep out of each other's way where the code lets the second begin before the first is over? | 1 session, 2 runs of all three kinds, the first cited and with one risky call: the second run starts at every point after the first's status turned terminal |
| `service_approvals` | Consent and cancellation | 1 run, 2 risky calls, all three decisions, rules saved and deleted |
| `service_own_events` | finding: an event of one run in the list of another | as `service_overlap` |
| `agent_loop` | Files, limits, repetition, termination | 2 calls, 2 steps (so `max_attempts` is 6), 2 runs, prompts make checkpoints while there are fewer than 2: three equal calls in a row need the two runs |
| `index_jobs` | Is a job lost, cancelled wrongly or left running? | 1 source, all operations, observer, main thread and 1 request thread, 3 jobs, 2 starts of the process |
| `event_delivery` | Are events applied once, in order, and do readers end? | runs of up to 5 events, a list of 3, 2 lost connections |
| `event_stopped` | finding: nobody notices the end of a stopped run | no truncation |
| `library` | Does the index show the disk, a search what it may and no less, every link a row, an upgraded file all its tables? | index: 1 file in 2 nested folders, 3 versions of which one is unreadable, 2 document ids, 1 fault or request. Search: 3 documents with 6 pieces, `CandidateDocs` 2 (20 in the code), `VectorLimit` and `MostWords` 4 (80, 100), `FetchLimit` 5 (500), limits 2 and 4, 1 change. Links: 1 notebook, 1 folder, 2 documents, 1 session, 2 threads, 3 requests. Upgrade: files of versions 0, 3, 5, 6, 7 and none, 3 starts, 3 seconds |
| `library_rescan` | finding: a rescan deletes the last good version | 1 file, 1 folder, 2 versions |
| `conversations` | Are messages, tools, revocations, locks and deliveries right when requests overlap? | runs: 1 session of either type, 2 threads, 3 requests, 1 message a run, 1 change or crash. Document: 2 writers, 4 requests, 2 mishaps. Bridge: 2 callers, 3 requests, 4 generations, 1 message in 2 handlers, 1 crash or deletion. |
| `agent_parts` | Prompts, replies, memories, batches, cancellation, evidence | prompt: 3 batches of 1 or 6 entries of 6 kinds, the code's budgets. Reply: 5 deltas of 9 kinds, 3 connections. Memory: 3 files, `WorkingFileLimit` 2 (8 in the code), 3 versions, 1 crash. Durable: 2 sessions, 2 topics, 3 notes, 3 promotions, 1 crash. Document: up to 5 chunks, 3 batches (4), 2 sections (16) of 2 kept chunks (4). Cancellation: 2 readers, 2 children. Evidence: 2 documents in 2 folders, questions of every kind, 2 changes |
| `checkpoint_kept` | finding: the reduction drops the checkpoint | as `agent_parts`, the prompt alone |

The bounds are small because each hazard needs few actors: two runs for a
shared agent, three jobs of one key for a replaced, a claimed and a new one, two
starts for a crash and a recovery, two writers and one file for an index, two
requests for a check that is overtaken.  The smaller limits keep what they do:
two recent files of three are one too many, three chunks of size three are more
than the six characters that are read whole, two candidates of three documents
leave one out.  One fault per behaviour of `LibraryIndex` and `Conversations` is
what fits five minutes; each kind of fault is chosen at every point.  Every
invariant of the passing runs is proved for every bound (section 4).

All runs but those of `RunService` have `CHECK_DEADLOCK FALSE`: the system may
stop for good where all runs are over, every job is done and the process is down
for the last time, every reader has left, a search is answered or a bound is
reached.  In `RunService` nothing ever stops, because a client may always cancel
again.

### Fairness
`RunService`: the thread of each run is scheduled, a model request and a tool
end (`WF_vars(ThreadStep(r))`).  No fairness for clients: a user may never
answer, and `CancelledRunEnds` must hold without.  `AgentLoop`: weak fairness of
the loop as a whole, so the model may always choose the worst answer.
`IndexJobs`: worker, start-up and each thread inside `enqueue` go on if they can;
events, requests, stops and crashes need not happen.  `EventDelivery`: the run,
the gateway's loop, the client's timers and the reply's polling; no fairness for
the loss of a connection (it is bounded).  The modules of the three sums are
checked for safety only and state none.

### Disagreements found
* `EventsOwned`: the status turns terminal before the last event
  (`service.py:153`, `149`, `176`); a second run of the session then owns the
  agent, and the first run's last events land in its list.
* `EndClosesStreams`: `stopped` is not terminal for the readers of a run's
  events (`service.py:12`); socket and reply poll for ever.
* `KeepsLastGood`: a rescan deletes the indexed version of a file whose new
  content cannot be extracted (`document_index.py:141`, against
  `poppy-personal-knowledge-base-m4.md:195`); a single changed file keeps it.
* `CheckpointKept`: a checkpoint appended after the reduction is dropped when the
  prompt has to be reduced again (`context_manager.py:153`, against the comment at
  143).

### Known behaviour, without a run
The models also show what no document rules out.  A run that is stopped, failed
or cancelled leaves `task_state.json` naming the checkpoint before its last
(`agent_loop.py:256`).  An interrupted job's row is set to queued and stays so; the
rescan of the next start does its work (`database.py:928`).  The Feishu reply and
the socket read events before the status and may leave with part of the answer
(`feishu.py:552`, `api/app.py:417`).  A message claimed before a crash is lost
(`feishu.py:277`).  Two agents of one session may be in use at once
(`controller.py:690`).  Children of a shell that has ended by itself are not
looked for (`tools.py:407`).  A search in an inner folder does not find files that
the outer one has indexed last (`document_index.py:745`).  When the session of a cited run
cannot be saved with its citations, the list of its events has a gap before the
closing `run.failed` (`service.py:236`; `tests/test_application_runtime.py:44` expects
numbers without a gap of a run that completes).  A tool call cut off while it ran may be
repeated once more than the guard allows (`agent_loop.py:175`).  Of more than 80 to 100
matching pieces the rest cannot be found however much room an answer has
(`document_index.py:621`).  A tool call between the tags of an answer is streamed to
the user before `parse` refuses it (`runtime.py:772`, beside
`streaming.py:9`, "suppressing tool/control protocol markup").  A stale file whose name was cut
out of the prompt is not named again (`context_manager.py:142`).  A document dropped
between the look and the update of a lock stays locked (`database.py:453`).  A run
whose session's row is gone survives the revocation of its folder's grant
(`controller.py:525`).

## 4. Proofs

Everything is proved from the assumptions the modules make on their constants,
which say what the constants are and no more: there may be any number of
sessions, runs, calls, sources, threads, documents, readers, notes and messages,
and any bound.  `ConstantsAssumption`, `NoneAssumption`, `IndexConstants` and
`DeliveryConstants` give types and limits; `LinkConstants` says that notebooks,
folders, documents and sessions have different ids; `GroundAssumption` that
questions are of the shape the model reads and that a document has a folder;
`RetrievalConstants` the same of a search's questions, and that a document has at
least one piece; `LibraryConstants` that there are finitely many sources and
that a source covers files; `FullAssumption` and `PromptAssumption` that sizes,
weights and lengths are numbers and the bounds of the batches not 0;
`ReplyAssumption` that deltas are texts and the symbols of the tags and the space
are symbols (`Symbols` is a constant because the provers do not know that "<" is a
string);
`BridgeAssumption` that the bound on generations is a number; `UpgradeAssumption`
that the files found are database files and that one stamped with the current
version by an earlier build is complete.  In each module an inductive invariant
holds initially and is kept by every action; the safety properties, which are
seldom inductive alone, are parts of it or follow from it.  TLC checked each
invariant on the run of its module before it was proved.

`RunServiceProofs`: `IInv` is types, `SlotInv`, `ConsentInv`.
`LiveRunHoldsSlot` needs to know that the place of a thread and its run's status
go together (`PlaceOK`), or `Begin` could revive a finished run; `ControlsOwned`
needs `LiveRunHoldsSlot`, since another run of the session can only configure the
agent when the slot was free; `TaskOK` makes the status a run takes from its
agent a final one.  `ToolNeedsConsent` needs that every decision the service
holds (waiting or early) was sent, and that a rule comes from an "allow always"
(`CallOK`, `RuleOK`).

* `Invariant`, `TypeCorrect`, `SlotSafety`, `SlotRelease`, `ControlsSafety`,
  `ConsentSafety`: `IInv` and its parts are invariants.
* `CancelStopsTools`: no step starts a tool of a cancelled run
  (`StartTool` looks at the token of the agent's *current* controls, so this
  rests on `ControlsOwned`).
* `Refinement`: `RunService` implements `SessionRuns` under the mapping at the
  end of `RunService`, every step to a step or a stutter.

`AgentLoopProofs`: `PlaceInv` ties the status and the stop reason to the place of
the loop; `FileInv` says where `task_state.json` may be one step behind and that
the session file equals the session whenever the loop continues, which is what a
crash and the next `Ask` need; `EndInv` follows the last writes up to the event;
`RepeatInv` ties the history of handled calls to the session and to its file, since a
later run continues from that: two recorded calls at the end of `handled` are the last
two of the session.  Theorems: `Invariant`, `TypeCorrect`, `StopReasons`,
`CrashLoss`, `CheckpointsKnown`, `EndsDurable`, `NoRepeats`.

`IndexJobsProofs`: the central part is `HeldInv`: a job is in at most one of four
hands – a thread that has created it, the pending table, a thread about to cancel
it, the worker – and its status follows from the hand.  That makes the writes of
`index_jobs` outside the lock safe: a cancellation hits neither a claimed nor a
finished job (`ClaimIsSafe`, `EndIsFinal`).  `KeyInv` gives every job named
anywhere a row under the right key, `SourceInv` says a missing row implies a
deleted source – the `KeyError` that makes `enqueue` give up its new job before
the `put` can only be raised for a source that is gone – and with them `NoLoss`
(`NoJobLost`) goes through.  `RunningIsTrue` needs `ProcessInv`: a process that is
down has no threads.

`EventsInvariant` (`RunServiceProofs`) adds `EventInv` for the lists of events.
`HolderOK` and `ListOK` say that an agent's controls belong to a run of its session
and that, while they do, the counter is the length of the list: the number of the
next event is then right, and so is the one of `retrieval.citations`, which is
put in later.  After a refused `run.completed` the counter is one ahead and the
thread is on its way to the list's last event (`OneLost`).  `Mirrors` is kept by an append of anybody's event, which only
shifts ranks behind it.  `EndOK` ties the terminal events a thread has emitted to
its place: an exception after the end of the loop adds one `run.failed` and
nothing else can follow.  Theorems: `EventOrder`, `EndsWithOneEvent`.
`DenialSafety` rests on `WaitInv`: a waiting thread's waiter is open, decided, or
woken by a cancellation, and a thread that goes on uncancelled has a decision to
take, not the absence of one, which `_decide` reports as a denial too.

`EventDeliveryProofs`: `DeliveryInv` cuts the run's events into stretches.  What the
client applied covers those up to its cursor, the connection those from there to
the server's cursor, the batch those from there on (`Covers`: increasing, each
once, none missing that the list still had).  `SendEvent`, `Receive` and `ReadEvents` move
events from one stretch to the next (`CoversTail`, `CoversAppend`,
`EventsAfterCovers`), `Drop` and `Connect` bring the server back to the client's
cursor, and `RecordEvent` may lose the oldest (`CoversMoreLost`).  Theorem:
`DeliveredOnce`.

`LibraryProofs`: `ChunksInv` needs only the domains of the tables beside
`ChunksHaveDocument` (`DocumentsOfChunks`).  `IndexStaysCurrent` (`IndexIsCurrent`)
speaks of an index at rest, so its invariant `IndexInv` says of every moment what is
still to come.  For a source `s` and a file `p` of it that is not put aside, once the
observer has seen the present version (`Settled`), `Tasks(s, p)` says: either
the row, the failure and the disk agree, or a job that will see to it is in the
queue, or the worker is at the file with its present version, or a rescan has it
before it, or has it in the list it will report.  `Present` says the row's text is in
chunks and vectors unless a writer is between row and vectors with that very text,
and `Holds` that no two writers are so with the same file.  `Orders` is about the
queue: the job that deletes a file which has come back is ahead of the one that
indexes it, which `Enqueue` keeps because a replaced job goes to the end.  `Covered`
says that every source above a file is registered and watched, so an observed change
reaches the queue; `Basics` are types, the shape of a writer's record at each of its
places, and that versions and ids are not of the future.  Before the proof TLC
checked `IndexInv` on the nested folders of `MCLibrary`, on one folder with two and
three faults, on two separate folders and on two files.
`LinksInv` gives each link the kinds
of its ends, also for the links a request is about to write (`NamesResolve`).
`UpgradeInv` follows the open transaction: which tables have their late columns at
which step, that the file keeps what was found until the commit, and that past
the copy there is a whole one (`UpgradeIsSafe`).

`AgentPartsProofs`, the search: `RetrievalInv` follows a search between the
indexer's steps.  `ScopeOK` and `ListsOK` keep every list to the documents the search was limited to when it was
asked, which is all it can know of them later; authority is only known of what has
passed the last look, which is why `AuthorizedRows` and not the scope carries
`EvidenceStaysInScope`.  `ReadingsOK` says what each reading has found while the
index stands still, `SelectionOK` that the selection settles each piece found: it
is selected, or its text is, or its document has its share or is outscored.  That rests on the
order: the keys of two pieces differ (`KeysDiffer`), so places are one to one and
none is empty (`CountedPlaces`), and each is looked at once (`SelectedOK`).  From
them follows `NoMatchLeftOut`.

`ConversationsProofs`: `DocumentInv` knows who is between the two updates and, for
`set_session_document_lock`, that the scope has its document or the document is
gone from the index (`LockAndScopeAgree`).  `BaseInv` says that the agent a request is about to launch,
and the one a run has, was built for what that request asked (`Fits`), under a
grant it has seen, and has the tools of its signature (`RunsHaveTheirTools`).
`RevokeInv` says that once a grant is about to go every start has raced with it, and
once it is gone all but those that have yet to look for it (`RevokedStop`).
`HistoryInv`: unless a session was forked one agent of it is in use, and it, the
file and what a request has loaded have every message (`MessagesKept`).
`MessageInv`: the row of a claimed message keeps every other handler from its run
(`MessageStartsOneRun`); `ConnectionInv` (`NewestConnection`) says between which
requests a connection may be current and not listened to.

`AgentPartsProofs`, the rest: `CancelInv` has every callback in one hand, its reader's, the list's
or the canceller's, and follows the process group (`CancellationSafety`).
`MemoryInv`: what the history shows of a file is in its summary or in the
checkpoint, in the session and in its file, except in the steps that take a tool
down (`EditsTold`).  `DurableInv`: without two promotions at once, the one under
way holds all that is kept, and the files it has written have it (`NotesKept`).
`GroundInv`: what a request has read was allowed, and what it has found for a
chosen document is of that one (`EvidenceAllowed`).

`FullInv`: `BatchesOK` says of the batches what `EvidenceCoversDocument` says of what
was read from them, `TasksOK` that a collected summary stands at the place of its
batch.  That the batches are right is a matter of the algorithm: `Put` adds a chunk
at the end and leaves what is there (`PutAtEnd`), so the batches after n chunks hold
the first n in order (`PutHolds`); and a section keeps a chunk when it is cut down,
the one of smallest rank, since the bound per section is not 0 (`EvidenceCovers`).

`PromptInv` has the budgets at least at their floors, the size of the present
texts unless the budgets are still those of the start, and, in a prompt that is
sent, a size within the total or no budget left to lower.  Then the texts are no
longer than the floors, the request and what joins them (`AssembledFits`); each
section is within its budget, the history by induction over its entries, of which
each is included only if it fits (`RenderSteps`).  The newest entry is the first to be
included and nothing takes an entry out (`NewestLast`, `HistoryRendered`), so it is in
the history whenever it fits (`PromptsFit`).

`ReplyInv` says by the mode of the filter (`FilterOK`) how buffer and shown text make
up the reply: nothing is decided and all is held; a tool call and nothing is shown;
an answer, of which the part behind its opening tag is what was shown followed by
what is held.  No closing tag can start in what was shown: at
each of its places a symbol of the reply already differs from the tag's
(`Mismatch`), and this stays so whatever comes (`MismatchStays`).  The first place of a tag does not move when
a text grows (`KindStays`), so a decision once taken is right for the whole reply.  At
the end LStrip of the answer's parts and Strip of the whole agree, and
`AnswerIsShown` follows: for any text, however it is cut into deltas.

`TypeCorrect`, `StopReasons` (a stopped run names the limit it reached) and
`ClaimIsSafe` (a claimed job is never cancelled) are proved and not run: TLC
checked the formulas while the proofs were made, and they follow from the
invariants.

*Induction over data.*  The induction theorems of the library take an operator as
a parameter, which the provers cannot instantiate.  `ListsProofs` takes another
way: < on the numbers is well-founded and a set of numbers therefore has a least
element (both stated of sets), so a set with 0 and with every successor is all of
them (`Induction`).  With the predicate given as a set it yields that the
recursive function of `Filter` exists, how it goes on, and what it leaves
(`FilterSuffix`), in which order (`FilterMembers`, `FilterOrder`); `Recursion` does the
same for any function that is defined from its predecessor, like `SelectedTo`.
`SumOf` of `Lists` and the functions `RenderedTo` and `CutTo` are recursive in the
same way.  `SelectSeq` and the folds of the community modules have no
definition the provers could use, which is why the modules with theorems do not
use them where a proof depends on it.

Only model-checked are the liveness properties `CancelledRunEnds`, `AskEnds`,
`JobsEnd` and `TerminalEndsStreams` (liveness under fairness, like ENABLED, is beyond
the prover), and the four disagreements of section 3, which are counterexamples.
Every invariant, every action property and the refinement `KeepsPromise` are
proved.  No module declares a RECURSIVE operator.

## 5. Plan

Order: what the user would notice first.  Done: the service, the agent loop and
the queue with their proofs; delivery, the index and its search, links and schema,
conversations, evidence, the bridge, prompt, reply, memories, batches and
cancellation as checked models; proofs of every invariant of theirs.

1. Composition: the queue of `LibraryIndex` replaced by `IndexJobs` through a
   refinement, `Grounding`'s search by `Retrieval`.
2. Liveness of the index (an observed change is indexed in the end) under the
   worker's fairness.
3. What is left of partly modelled components: the other clients of providers,
   memories and settings, the start and restart of the gateway by the shell.

## 6. Not modelled

How well a text matches, formats of files and their extraction, embeddings, the
wording of prompts and summaries, the recall of notes by words, HTTP routes as
such, rendering, operating-system helpers, pairing and cards of the messenger,
the settings and the audit log, the evaluation harness, `mini-poppy` and the
scripts: sequential computation or external I/O without state the properties here
speak of.  A session file torn by a crash inside its write, clocks and debounce
times, and the failure of `Thread.start` are left out of the modules above;
`PROJECT.json` notes the hazards this leaves uncovered.
