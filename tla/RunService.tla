----------------------------- MODULE RunService -----------------------------
(***************************************************************************)
(* AssistantService (poppy/application/service.py): the runs of a gateway, *)
(* the slot each session has for its active run, the controls a run lends  *)
(* to the session's cached agent, the events the service records and the   *)
(* approvals it waits for.                                                 *)
(*                                                                         *)
(* One agent object serves every run of a session (controller.py,          *)
(* _get_agent), so its cancellation token, its event and approval handlers *)
(* and its current task are those of the run that configured it last:      *)
(* `controls` and `task` below belong to the session, not to the run.      *)
(*                                                                         *)
(* A step is what a thread does between two points where another thread    *)
(* can see or change what it uses: a section under AssistantService._lock, *)
(* one event, one write of ActiveRun.status.  The agent loop appears only  *)
(* as far as the service sees it; module AgentLoop has the rest of it.     *)
(***************************************************************************)
EXTENDS Naturals, Sequences, FiniteSets

CONSTANTS
  Sessions,   \* sessions, each with its cached agent
  Runs,       \* run ids (Poppy.new_run_id never repeats one)
  None,       \* no run
  Kinds,      \* the thread bodies and messages clients start runs with
  CitedRuns,  \* the runs started with citations
  RiskyRuns,  \* bound: the runs whose model asks for risky tools,
  MaxTools,   \* bound: and how often one of them does
  Answers     \* bound: the approval decisions clients send

\* "agent": start_run with a message; "prepared": start_run with a callable
\* that prepares the message; "static": start_static_run.
AllKinds == {"agent", "prepared", "static"}

Decisions == {"allow_once", "allow_always", "deny"}
Allows == {"allow_once", "allow_always"}

ASSUME ConstantsAssumption ==
  /\ None \notin Runs \cup Sessions
  /\ Kinds \subseteq AllKinds
  /\ CitedRuns \subseteq Runs
  /\ RiskyRuns \subseteq Runs
  /\ MaxTools \in Nat
  /\ Answers \subseteq Decisions

VARIABLES
  home,            \* ActiveRun.session_id
  kind,            \* what the run's thread executes
  status,          \* ActiveRun.status, "none" for an id not in _runs
  cancelled,       \* ActiveRun.cancellation_token is set
  activeSessions,  \* AssistantService._active_sessions
  controls,        \* the run whose controls the session's agent holds
  task,            \* the agent's current_task_state: its run and status
  pc,              \* where the run's thread is
  tools,           \* risky tool calls the run has made; names the approval
  approvals,       \* ActiveRun.approvals: the waiter of each approval id
  earlyDecisions,  \* ActiveRun.early_approval_decisions
  rules,           \* an "always allow" rule covers the requests
  sequence,        \* Poppy._event_sequences
  events,          \* ActiveRun.events
  emitted,         \* history: the event types emitted, recorded or refused
  sent             \* history: the decisions clients sent for each approval

vars == <<home, kind, status, cancelled, activeSessions, controls, task, pc,
          tools, approvals, earlyDecisions, rules, sequence, events, emitted,
          sent>>

\* What the agent loop and the tool executor leave alone.
serviceVars == <<home, kind, status, cancelled, activeSessions, controls>>
approvalVars == <<tools, approvals, earlyDecisions, rules, sent>>
eventVars == <<sequence, events, emitted>>

Terminal == {"completed", "cancelled", "failed"}
Statuses == Terminal \cup {"none", "starting", "running", "stopped"}
\* A waiter: not in the dict, not ready, ready without a decision (woken by a
\* cancellation or by the end of the run), or ready with the last decision.
Waiters == {"absent", "open", "woken"} \cup Decisions
Calls == 1 .. MaxTools

AskPcs == {"ask", "loop", "model", "checkRule", "locking", "waiting", "woken",
           "cleared", "tooling", "cancelling", "completing", "asked"}
Pcs == AskPcs \cup
       {"idle", "registered", "ready", "prepare", "raiseCancelled",
        "raiseFailed", "emitCancelled", "emitFailed", "record", "check",
        "message", "completed", "final", "done"}

EventTypes == {"run.progress", "run.started", "tool.approval_required",
               "tool.denied", "tool.started", "tool.finished",
               "tool.cancelled", "message.completed", "retrieval.citations",
               "run.completed", "run.cancelled", "run.failed"}
TerminalEvents == {"run.completed", "run.cancelled", "run.failed"}
Events == [type : EventTypes, run : Runs, sequence : Nat]

TypeOK ==
  /\ home \in [Runs -> Sessions \cup {None}]
  /\ kind \in [Runs -> AllKinds \cup {"none"}]
  /\ status \in [Runs -> Statuses]
  /\ cancelled \in [Runs -> BOOLEAN]
  /\ activeSessions \in [Sessions -> Runs \cup {None}]
  /\ controls \in [Sessions -> Runs \cup {None}]
  /\ task \in [Sessions -> [run : Runs \cup {None}, status : Statuses]]
  /\ pc \in [Runs -> Pcs]
  /\ tools \in [Runs -> 0 .. MaxTools]
  /\ approvals \in [Runs -> [Calls -> Waiters]]
  /\ earlyDecisions \in [Runs -> [Calls -> Decisions \cup {"none"}]]
  /\ rules \in BOOLEAN
  /\ sequence \in [Runs -> Nat]
  /\ events \in [Runs -> Seq(Events)]
  /\ emitted \in [Runs -> Seq(EventTypes)]
  /\ sent \in [Runs -> [Calls -> SUBSET Decisions]]

Init ==
  /\ home = [r \in Runs |-> None]
  /\ kind = [r \in Runs |-> "none"]
  /\ status = [r \in Runs |-> "none"]
  /\ cancelled = [r \in Runs |-> FALSE]
  /\ activeSessions = [s \in Sessions |-> None]
  /\ controls = [s \in Sessions |-> None]
  /\ task = [s \in Sessions |-> [run |-> None, status |-> "none"]]
  /\ pc = [r \in Runs |-> "idle"]
  /\ tools = [r \in Runs |-> 0]
  /\ approvals = [r \in Runs |-> [n \in Calls |-> "absent"]]
  /\ earlyDecisions = [r \in Runs |-> [n \in Calls |-> "none"]]
  /\ rules = FALSE
  /\ sequence = [r \in Runs |-> 0]
  /\ events = [r \in Runs |-> <<>>]
  /\ emitted = [r \in Runs |-> <<>>]
  /\ sent = [r \in Runs |-> [n \in Calls |-> {}]]

Goto(r, place) == pc' = [pc EXCEPT ![r] = place]

-----------------------------------------------------------------------------
(* Events.  Poppy.emit_event numbers an event with the counter of the run   *)
(* it names and hands it to the handler the agent holds at that moment,     *)
(* which records it in the list of the run that configured the agent.       *)

\* The run whose handler the agent of r's session holds: r itself unless
\* another run has configured the agent since.
Listener(r) == controls[home[r]]

\* _record_agent_event puts retrieval.citations before run.completed and
\* moves run.completed, and the listener's counter, one further.
AddsCitations(h, type) ==
  type = "run.completed" /\ kind[h] # "static" /\ h \in CitedRuns

\* Mutant: run.completed keeps the number the citations took.
EventRecordsWithoutShift(h, r, type, n) ==
  IF AddsCitations(h, type)
  THEN <<[type |-> "retrieval.citations", run |-> h, sequence |-> n],
         [type |-> type, run |-> r, sequence |-> n]>>
  ELSE <<[type |-> type, run |-> r, sequence |-> n]>>

EventRecords(h, r, type, n) ==
  IF AddsCitations(h, type)
  THEN <<[type |-> "retrieval.citations", run |-> h, sequence |-> n],
         [type |-> type, run |-> r, sequence |-> n + 1]>>
  ELSE <<[type |-> type, run |-> r, sequence |-> n]>>

\* The thread of r emits an event that names the run `owner`.
EmitAs(r, owner, type) ==
  LET h == Listener(r)
      n == sequence[owner] + 1
      numbered == [sequence EXCEPT ![owner] = n]
  IN  /\ events' = [events EXCEPT ![h] = @ \o EventRecords(h, owner, type, n)]
      /\ sequence' = IF AddsCitations(h, type)
                     THEN [numbered EXCEPT ![h] = n + 1]
                     ELSE numbered
      /\ emitted' = [emitted EXCEPT ![owner] = Append(@, type)]

Emit(r, type) == EmitAs(r, r, type)

\* Inside the loop an event names the run of the agent's current task.
EmitTask(r, type) == EmitAs(r, task[home[r]].run, type)

\* The session cannot be saved with the citations that go before run.completed:
\* emit_event has taken a number, and the handler raises before it records
\* either of the two events.
CitationsRefused(r) ==
  LET owner == task[home[r]].run IN
  /\ AddsCitations(Listener(r), "run.completed")
  /\ sequence' = [sequence EXCEPT ![owner] = @ + 1]
  /\ emitted' = [emitted EXCEPT ![owner] = Append(@, "run.completed")]
  /\ UNCHANGED events

-----------------------------------------------------------------------------
(* Starting a run: start_run and start_static_run.                          *)

\* Mutant: a run that has not begun yet does not hold its slot.
SlotFreeBeforeBegin(s) ==
  activeSessions[s] # None =>
    status[activeSessions[s]] \in Terminal \cup {"starting"}

SlotFree(s) ==
  activeSessions[s] # None => status[activeSessions[s]] \in Terminal

\* Under the lock: reject a session with an active run, else take its slot.
Register(r, s, k) ==
  /\ pc[r] = "idle"
  /\ SlotFree(s)
  /\ home' = [home EXCEPT ![r] = s]
  /\ kind' = [kind EXCEPT ![r] = k]
  /\ status' = [status EXCEPT ![r] = "starting"]
  /\ activeSessions' = [activeSessions EXCEPT ![s] = r]
  /\ Goto(r, "registered")
  /\ UNCHANGED <<cancelled, controls, task, approvalVars, eventVars>>

\* After the lock: hand the agent the run's controls and start the thread.
ConfigureRunControls(r) ==
  /\ pc[r] = "registered"
  /\ controls' = [controls EXCEPT ![home[r]] = r]
  /\ Goto(r, "ready")
  /\ UNCHANGED <<home, kind, status, cancelled, activeSessions, task,
                 approvalVars, eventVars>>

Begin(r) ==
  /\ pc[r] = "ready"
  /\ status' = [status EXCEPT ![r] = "running"]
  /\ Goto(r, CASE kind[r] = "static" -> "record"
               [] kind[r] = "prepared" -> "prepare"
               [] OTHER -> "ask")
  /\ UNCHANGED <<home, kind, cancelled, activeSessions, controls, task,
                 approvalVars, eventVars>>

-----------------------------------------------------------------------------
(* _run_agent: the message preparer, agent.ask, and how the run ends.       *)

\* The preparer reports progress under the run's id before ask starts the
\* task; it stops at a cancellation, or fails.
PrepareProgress(r) ==
  /\ pc[r] = "prepare"
  /\ "run.progress" \notin {emitted[r][i] : i \in DOMAIN emitted[r]}
  /\ Emit(r, "run.progress")
  /\ UNCHANGED <<serviceVars, task, pc, approvalVars>>

PrepareEnds(r) ==
  /\ pc[r] = "prepare"
  /\ \/ ~cancelled[r] /\ Goto(r, "ask")
     \/ cancelled[r] /\ Goto(r, "raiseCancelled")
     \/ Goto(r, "raiseFailed")
  /\ UNCHANGED <<serviceVars, task, approvalVars, eventVars>>

\* AgentLoop.run: a new task state becomes the agent's, run.started.
AskStarts(r) ==
  /\ pc[r] = "ask"
  /\ task' = [task EXCEPT ![home[r]] = [run |-> r, status |-> "running"]]
  /\ Emit(r, "run.started")
  /\ Goto(r, "loop")
  /\ UNCHANGED <<serviceVars, approvalVars>>

SetTask(r, st) == task' = [task EXCEPT ![home[r]].status = st]

\* The agent reads the token it was last configured with.
TokenSet(r) == cancelled[Listener(r)]

\* The top of the loop; the other events of a turn change nothing here.
RequestModel(r) ==
  /\ pc[r] = "loop"
  /\ ~TokenSet(r)
  /\ Goto(r, "model")
  /\ UNCHANGED <<serviceVars, task, approvalVars, eventVars>>

\* Seen at the top of the loop, or raised by the model client.
ObserveCancel(r) ==
  /\ pc[r] \in {"loop", "model"}
  /\ TokenSet(r)
  /\ Goto(r, "cancelling")
  /\ UNCHANGED <<serviceVars, task, approvalVars, eventVars>>

\* AgentLoop._finish_cancelled.
FinishCancelled(r) ==
  /\ pc[r] = "cancelling"
  /\ SetTask(r, "cancelled")
  /\ EmitTask(r, "run.cancelled")
  /\ Goto(r, "asked")
  /\ UNCHANGED <<serviceVars, approvalVars>>

\* The model client fails: _persist_failure emits run.failed and re-raises.
ModelFails(r) ==
  /\ pc[r] = "model"
  /\ SetTask(r, "failed")
  /\ EmitTask(r, "run.failed")
  /\ Goto(r, "raiseFailed")
  /\ UNCHANGED <<serviceVars, approvalVars>>

\* The model's answer is final.
FinalAnswer(r) ==
  /\ pc[r] = "model"
  /\ ~TokenSet(r)
  /\ SetTask(r, "completed")
  /\ EmitTask(r, "message.completed")
  /\ Goto(r, "completing")
  /\ UNCHANGED <<serviceVars, approvalVars>>

Completes(r) ==
  /\ pc[r] = "completing"
  /\ EmitTask(r, "run.completed")
  /\ Goto(r, "asked")
  /\ UNCHANGED <<serviceVars, task, approvalVars>>

\* The step limit after a tool call, or the retry limit after malformed
\* answers (which lead back to the model until then).
AtLimit(r) ==
  \/ pc[r] = "loop" /\ tools[r] > 0
  \/ pc[r] = "model" /\ ~TokenSet(r)

\* At a limit the loop ends before it looks at the token.  Status "stopped",
\* event run.completed.
LimitReached(r) ==
  /\ AtLimit(r)
  /\ SetTask(r, "stopped")
  /\ EmitTask(r, "run.completed")
  /\ Goto(r, "asked")
  /\ UNCHANGED <<serviceVars, approvalVars>>

\* The handler raises in either place: run.completed is lost, and ask raises.
CompletionRefused(r) ==
  /\ \/ pc[r] = "completing" /\ UNCHANGED task
     \/ AtLimit(r) /\ SetTask(r, "stopped")
  /\ CitationsRefused(r)
  /\ Goto(r, "raiseFailed")
  /\ UNCHANGED <<serviceVars, approvalVars>>

\* ask raises anywhere else: a store that cannot be read or written, a snapshot
\* of the workspace.
AskRaises(r) ==
  /\ pc[r] \in AskPcs \ {"waiting", "asked"}
  /\ Goto(r, "raiseFailed")
  /\ UNCHANGED <<serviceVars, task, approvalVars, eventVars>>

\* The report, or the session with its citations, cannot be written: ask has
\* already emitted its last event.
WriteFails(r) ==
  /\ pc[r] = "asked"
  /\ Goto(r, "raiseFailed")
  /\ UNCHANGED <<serviceVars, task, approvalVars, eventVars>>

\* ask returned: the run takes the status of the agent's current task.
TakeTaskStatus(r) ==
  /\ pc[r] = "asked"
  /\ status' = [status EXCEPT ![r] = task[home[r]].status]
  /\ Goto(r, "final")
  /\ UNCHANGED <<home, kind, cancelled, activeSessions, controls, task,
                 approvalVars, eventVars>>

\* except RunCancelled, except Exception: first the status, then the event.
SetRaised(r) ==
  /\ \/ /\ pc[r] = "raiseCancelled"
        /\ status' = [status EXCEPT ![r] = "cancelled"]
        /\ Goto(r, "emitCancelled")
     \/ /\ pc[r] = "raiseFailed"
        /\ status' = [status EXCEPT ![r] = "failed"]
        /\ Goto(r, "emitFailed")
  /\ UNCHANGED <<home, kind, cancelled, activeSessions, controls, task,
                 approvalVars, eventVars>>

EmitCancelled(r) ==
  /\ pc[r] = "emitCancelled"
  /\ Emit(r, "run.cancelled")
  /\ Goto(r, "final")
  /\ UNCHANGED <<serviceVars, task, approvalVars>>

\* _run_agent looks whether the loop has emitted run.failed; _run_static does
\* not look.
\* Mutant: the service does not look.
NeverFailedAlready(r) == FALSE

FailedAlready(r) ==
  /\ kind[r] # "static"
  /\ events[r] # <<>>
  /\ events[r][Len(events[r])].type = "run.failed"

EmitFailed(r) ==
  /\ pc[r] = "emitFailed"
  /\ IF FailedAlready(r) THEN UNCHANGED eventVars ELSE Emit(r, "run.failed")
  /\ Goto(r, "final")
  /\ UNCHANGED <<serviceVars, task, approvalVars>>

Wake(waiters) == [n \in Calls |-> IF waiters[n] = "open" THEN "woken" ELSE waiters[n]]

\* Mutants: the slot is freed whoever holds it; it keeps a cancelled run.
ReleaseAnySlot(r) == [activeSessions EXCEPT ![home[r]] = None]

ReleaseSlotUnlessCancelled(r) ==
  [activeSessions EXCEPT ![home[r]] = IF @ = r /\ ~cancelled[r] THEN None ELSE @]

ReleaseSlot(r) ==
  [activeSessions EXCEPT ![home[r]] = IF @ = r THEN None ELSE @]

\* finally, under the lock: free the slot if it is still the run's, and (in
\* _run_agent) set every waiter ready.
Finish(r) ==
  /\ pc[r] = "final"
  /\ activeSessions' = ReleaseSlot(r)
  /\ approvals' = IF kind[r] = "static" THEN approvals
                  ELSE [approvals EXCEPT ![r] = Wake(@)]
  /\ Goto(r, "done")
  /\ UNCHANGED <<home, kind, status, cancelled, controls, task, tools,
                 earlyDecisions, rules, sent, eventVars>>

-----------------------------------------------------------------------------
(* A risky tool call: ToolExecutor.execute and _wait_for_approval.  The     *)
(* approval handler is the closure of the run that configured the agent;    *)
(* ControlsOwned says that this is the run itself.                          *)

\* Before it asks, the executor looks at the token and for a rule.
RequestTool(r) ==
  /\ pc[r] = "model"
  /\ r \in RiskyRuns /\ tools[r] < MaxTools
  /\ ~TokenSet(r)
  /\ tools' = [tools EXCEPT ![r] = @ + 1]
  /\ IF rules
     THEN Goto(r, "cleared") /\ UNCHANGED eventVars
     ELSE Goto(r, "checkRule") /\ EmitTask(r, "tool.approval_required")
  /\ UNCHANGED <<serviceVars, task, approvals, earlyDecisions, rules, sent>>

\* The handler looks for a rule again, outside the lock.
CheckRule(r) ==
  /\ pc[r] = "checkRule"
  /\ Goto(r, IF rules THEN "cleared" ELSE "locking")
  /\ UNCHANGED <<serviceVars, task, approvalVars, eventVars>>

\* Mutant: any decision counts as consent.
DecidedByAnyAnswer(r, decision) ==
  /\ rules' = (rules \/ decision = "allow_always")
  /\ Goto(r, "cleared")
  /\ UNCHANGED eventVars

\* approve returned `decision`: run the tool, or report the denial.
Decided(r, decision) ==
  /\ rules' = (rules \/ decision = "allow_always")
  /\ IF decision \in Allows
     THEN Goto(r, "cleared") /\ UNCHANGED eventVars
     ELSE Goto(r, "loop") /\ EmitTask(r, "tool.denied")

\* Under the lock: use a decision that came first, else register a waiter.
AwaitDecision(r) ==
  /\ pc[r] = "locking"
  /\ LET n == tools[r] IN
       IF earlyDecisions[r][n] # "none"
       THEN /\ earlyDecisions' = [earlyDecisions EXCEPT ![r][n] = "none"]
            /\ Decided(r, earlyDecisions[r][n])
            /\ UNCHANGED approvals
       ELSE /\ approvals' = [approvals EXCEPT ![r][n] = "open"]
            /\ Goto(r, "waiting")
            /\ UNCHANGED <<earlyDecisions, rules, eventVars>>
  /\ UNCHANGED <<serviceVars, task, tools, sent>>

\* Waiting in turns of 0.1s: the token is looked at after every turn, and
\* once more when the waiter is ready.  RunCancelled leaves the waiter where
\* it is.
\* Mutant: the wait has no timeout, so only a ready waiter is looked at.
WaitCancelledWhenReady(r) ==
  /\ pc[r] = "waiting"
  /\ approvals[r][tools[r]] # "open"
  /\ cancelled[r]
  /\ Goto(r, "cancelling")
  /\ UNCHANGED <<serviceVars, task, approvalVars, eventVars>>

WaitCancelled(r) ==
  /\ pc[r] = "waiting"
  /\ cancelled[r]
  /\ Goto(r, "cancelling")
  /\ UNCHANGED <<serviceVars, task, approvalVars, eventVars>>

\* Mutant: the token is not looked at again once the waiter is ready.
WaitReadyUnchecked(r) ==
  /\ pc[r] = "waiting"
  /\ approvals[r][tools[r]] # "open"
  /\ Goto(r, "woken")
  /\ UNCHANGED <<serviceVars, task, approvalVars, eventVars>>

WaitReady(r) ==
  /\ pc[r] = "waiting"
  /\ approvals[r][tools[r]] # "open"
  /\ ~cancelled[r]
  /\ Goto(r, "woken")
  /\ UNCHANGED <<serviceVars, task, approvalVars, eventVars>>

\* Under the lock the waiter leaves the dict; its last decision counts.
TakeDecision(r) ==
  /\ pc[r] = "woken"
  /\ approvals' = [approvals EXCEPT ![r][tools[r]] = "absent"]
  /\ Decided(r, approvals[r][tools[r]])
  /\ UNCHANGED <<serviceVars, task, tools, earlyDecisions, sent>>

\* Mutant: the executor trusts the decision and does not look at the token.
StartToolUnchecked(r) ==
  /\ pc[r] = "cleared"
  /\ EmitTask(r, "tool.started")
  /\ Goto(r, "tooling")
  /\ UNCHANGED <<serviceVars, task, approvalVars>>

\* The last look at the token before the tool runs.
StartTool(r) ==
  /\ pc[r] = "cleared"
  /\ ~TokenSet(r)
  /\ EmitTask(r, "tool.started")
  /\ Goto(r, "tooling")
  /\ UNCHANGED <<serviceVars, task, approvalVars>>

\* The tool returned, or failed (a failure is not checked for cancellation).
ToolReturns(r) ==
  /\ pc[r] = "tooling"
  /\ EmitTask(r, "tool.finished")
  /\ Goto(r, "loop")
  /\ UNCHANGED <<serviceVars, task, approvalVars>>

\* RunCancelled inside the executor's try: tool.failed with status cancelled.
ToolCancelled(r) ==
  /\ pc[r] \in {"cleared", "tooling"}
  /\ TokenSet(r)
  /\ EmitTask(r, "tool.cancelled")
  /\ Goto(r, "cancelling")
  /\ UNCHANGED <<serviceVars, task, approvalVars>>

-----------------------------------------------------------------------------
(* _run_static: an answer without a model.                                  *)

Record(r) ==
  /\ pc[r] = "record"
  /\ \/ Emit(r, "run.started") /\ Goto(r, "check")
     \/ Goto(r, "raiseFailed") /\ UNCHANGED eventVars
  /\ UNCHANGED <<serviceVars, task, approvalVars>>

\* The run is "completed" before its last two events are emitted.
CheckStatic(r) ==
  /\ pc[r] = "check"
  /\ IF cancelled[r]
     THEN Goto(r, "raiseCancelled") /\ UNCHANGED status
     ELSE /\ status' = [status EXCEPT ![r] = "completed"]
          /\ Goto(r, "message")
  /\ UNCHANGED <<home, kind, cancelled, activeSessions, controls, task,
                 approvalVars, eventVars>>

AnswerStatic(r) ==
  /\ \/ pc[r] = "message" /\ Emit(r, "message.completed") /\ Goto(r, "completed")
     \/ pc[r] = "completed" /\ Emit(r, "run.completed") /\ Goto(r, "final")
  /\ UNCHANGED <<serviceVars, task, approvalVars>>

-----------------------------------------------------------------------------
(* Clients: the HTTP threads of the gateway and the Feishu bridge.          *)

\* cancel_run: any run ever registered, whatever its status.
CancelRun(r) ==
  /\ status[r] # "none"
  /\ cancelled' = [cancelled EXCEPT ![r] = TRUE]
  /\ approvals' = [approvals EXCEPT ![r] = Wake(@)]
  /\ UNCHANGED <<home, kind, status, activeSessions, controls, task, pc,
                 tools, earlyDecisions, rules, sent, eventVars>>

\* cancel_session: the session's active run, when its grant is revoked.
CancelSession(s) ==
  /\ ~SlotFree(s)
  /\ CancelRun(activeSessions[s])

\* shutdown: every run that is not terminal (the joins change nothing).
Shutdown ==
  LET live == {r \in Runs : status[r] \notin Terminal \cup {"none"}} IN
  /\ live # {}
  /\ cancelled' = [r \in Runs |-> cancelled[r] \/ r \in live]
  /\ approvals' = [r \in Runs |->
       IF r \in live THEN Wake(approvals[r]) ELSE approvals[r]]
  /\ UNCHANGED <<home, kind, status, activeSessions, controls, task, pc,
                 tools, earlyDecisions, rules, sent, eventVars>>

\* resolve_approval, for an approval id the run has announced: the waiter gets
\* the decision; without a waiter it is kept as an early decision.
ResolveApproval(r, n, d) ==
  /\ n <= tools[r]
  /\ IF approvals[r][n] = "absent"
     THEN /\ earlyDecisions' = [earlyDecisions EXCEPT ![r][n] = d]
          /\ UNCHANGED approvals
     ELSE /\ approvals' = [approvals EXCEPT ![r][n] = d]
          /\ UNCHANGED earlyDecisions
  /\ sent' = [sent EXCEPT ![r][n] = @ \cup {d}]
  /\ UNCHANGED <<serviceVars, task, pc, tools, rules, eventVars>>

\* The user deletes the rule (delete_approval_rule).
DeleteRule ==
  /\ rules
  /\ rules' = FALSE
  /\ UNCHANGED <<serviceVars, task, pc, tools, approvals, earlyDecisions, sent,
                 eventVars>>

-----------------------------------------------------------------------------
ServiceStep(r) ==
  \/ ConfigureRunControls(r) \/ Begin(r)
  \/ PrepareProgress(r) \/ PrepareEnds(r)
  \/ TakeTaskStatus(r) \/ WriteFails(r) \/ SetRaised(r)
  \/ EmitCancelled(r) \/ EmitFailed(r) \/ Finish(r)
  \/ Record(r) \/ CheckStatic(r) \/ AnswerStatic(r)

LoopStep(r) ==
  \/ AskStarts(r) \/ RequestModel(r) \/ ObserveCancel(r) \/ FinishCancelled(r)
  \/ ModelFails(r) \/ FinalAnswer(r) \/ Completes(r) \/ LimitReached(r)
  \/ CompletionRefused(r) \/ AskRaises(r)

ToolStep(r) ==
  \/ RequestTool(r) \/ CheckRule(r) \/ AwaitDecision(r) \/ WaitCancelled(r)
  \/ WaitReady(r) \/ TakeDecision(r) \/ StartTool(r) \/ ToolReturns(r)
  \/ ToolCancelled(r)

\* What the client thread that starts a run, and then the run's own thread, do.
ThreadStep(r) == ServiceStep(r) \/ LoopStep(r) \/ ToolStep(r)

ClientStep ==
  \/ \E r \in Runs, s \in Sessions, k \in Kinds : Register(r, s, k)
  \/ \E r \in Runs : CancelRun(r)
  \/ \E s \in Sessions : CancelSession(s)
  \/ Shutdown
  \/ \E r \in Runs, n \in Calls, d \in Answers : ResolveApproval(r, n, d)
  \/ DeleteRule

Next == ClientStep \/ \E r \in Runs : ThreadStep(r)

Spec == Init /\ [][Next]_vars

\* Threads are scheduled; a model request ends and a tool returns (both stop
\* at a cancellation).  Nothing makes a user answer.
FairSpec == Spec /\ \A r \in Runs : WF_vars(ThreadStep(r))

-----------------------------------------------------------------------------
(* Properties.                                                              *)

\* The run's status does not let another run of its session start, and its
\* thread has not finished.
Live(r) == status[r] \notin Terminal \cup {"none"} /\ pc[r] # "done"

\* A live run holds its session's slot, so a session never has two live runs
\* (start_run's check and insert under the lock, and the guarded pop of the
\* finally clause: a finished run must not free the slot of its successor).
LiveRunHoldsSlot == \A r \in Runs : Live(r) => activeSessions[home[r]] = r

\* A slot only ever names a run of that session whose thread is still there:
\* whatever way a run ends, its session accepts a message again.
SlotNamesUnfinishedRun ==
  \A s \in Sessions : activeSessions[s] # None =>
    /\ home[activeSessions[s]] = s
    /\ pc[activeSessions[s]] \notin {"idle", "done"}

\* While a run is live its session's agent holds that run's token and
\* handlers, although every run of the session overwrites them; inside the
\* loop the agent's current task is the run's own as well.  This is why a
\* cancellation, an approval and an answer reach the run they are meant for.
ControlsOwned ==
  \A r \in Runs :
    /\ Live(r) /\ pc[r] # "registered" => controls[home[r]] = r
    /\ pc[r] \in AskPcs \ {"ask"} => task[home[r]].run = r

\* A risky tool runs only with the user's consent: an allow decision sent for
\* this very approval, or an "always allow" some client sent.  A waiter woken
\* by a cancellation is no consent.
Consented(r, n) ==
  \/ sent[r][n] \cap Allows # {}
  \/ \E q \in Runs, m \in Calls : "allow_always" \in sent[q][m]

ToolNeedsConsent ==
  \A r \in Runs : pc[r] \in {"cleared", "tooling"} => Consented(r, tools[r])

\* The service reports a call as denied only if a client denied it: not
\* because the run was cancelled, and not because an early decision was lost.
DenialIsAnswered ==
  [][\A r \in Runs :
       pc[r] \in {"locking", "woken"} /\ pc'[r] = "loop"
         => "deny" \in sent[r][tools[r]]]_vars

\* No tool of a run begins after the run was cancelled (cancel_session is how
\* a revoked grant stops the runs that use it).
NoToolAfterCancel ==
  [][\A r \in Runs :
       pc'[r] = "tooling" /\ pc[r] # "tooling" => ~cancelled[r]]_vars

\* Where a list holds the events that the run's own thread has emitted (the
\* citations are the handler's), and how many of them come up to position i.
OwnEvents(list, r) ==
  {i \in DOMAIN list : list[i].run = r /\ list[i].type # "retrieval.citations"}

OwnUpTo(list, r, i) == Cardinality({j \in OwnEvents(list, r) : j <= i})

\* The run's own events in the list are of the types emitted, one for one.
Mirrors(list, r, types) ==
  /\ Cardinality(OwnEvents(list, r)) = Len(types)
  /\ \A i \in OwnEvents(list, r) : list[i].type = types[OwnUpTo(list, r, i)]

\* No other run has written to the run's list.
Undisturbed(r) == \A i \in DOMAIN events[r] : events[r][i].run = r

\* One number is missing before the i-th event of r's list: the handler has
\* refused run.completed because it could not save the citations, and run.failed
\* closes the list instead.
NumberLost(list, r, i) ==
  /\ list[i].sequence = i + 1
  /\ list[i].type = "run.failed" /\ i = Len(list)
  /\ AddsCitations(r, "run.completed")
  /\ \A j \in DOMAIN list : list[j].type # "run.completed"

\* The run.completed that the thread of r has just emitted was refused; the list
\* holds what was emitted before it.
LastRefused(r) ==
  LET n == Len(emitted[r]) IN
  /\ pc[r] = "raiseFailed" /\ AddsCitations(r, "run.completed")
  /\ n > 0 /\ emitted[r][n] = "run.completed"
  /\ Mirrors(events[r], r, SubSeq(emitted[r], 1, n - 1))

\* A list no other run has written to numbers its events 1, 2, 3, ... with
\* run.completed after its citations, and until a run has a terminal status
\* its list holds every event its thread has emitted, in order: what
\* get_events(after_sequence) and the client's "sequence > last" rely on.  The
\* one exception to both is a run.completed refused with its citations: it is
\* not in the list, and the list then ends with run.failed one number late.
EventsInOrder ==
  \A r \in Runs :
    /\ Undisturbed(r) => \A i \in DOMAIN events[r] :
         events[r][i].sequence = i \/ NumberLost(events[r], r, i)
    /\ Live(r) => Mirrors(events[r], r, emitted[r]) \/ LastRefused(r)

\* An undisturbed run emits one terminal event and then nothing, except that a
\* failure to write its report or session adds one run.failed after
\* run.completed (or run.cancelled).  In a disturbed list _run_agent no longer
\* finds its own run.failed last and emits a second one.
OneTerminalEvent ==
  \A r \in Runs : Undisturbed(r) => \A i, j \in DOMAIN emitted[r] :
    i < j /\ emitted[r][i] \in TerminalEvents =>
      /\ emitted[r][i] # "run.failed"
      /\ emitted[r][j] = "run.failed"
      /\ j = Len(emitted[r])

\* A cancelled run ends, wherever the cancellation finds it: before its thread
\* begins, in a model request, waiting for an approval, in a tool.
CancelledRunEnds ==
  \A r \in Runs : cancelled[r] ~> pc[r] = "done"

\* The service implements SessionRuns: a session's live run is the run in its
\* slot while that run's status is not terminal and its thread not done.
LiveRun(s) ==
  LET r == activeSessions[s] IN
  IF r = None THEN None ELSE IF Live(r) THEN r ELSE None

Promise == INSTANCE SessionRuns WITH
  live <- [s \in Sessions |-> LiveRun(s)],
  over <- {r \in Runs : status[r] # "none" /\ ~Live(r)},
  revoked <- {r \in Runs : cancelled[r]},
  acting <- {r \in Runs : pc[r] = "tooling"}

KeepsPromise == Promise!AbsSpec

\* Every event in a run's list carries the run's id.
EventsOwned == \A r \in Runs : Undisturbed(r)

=============================================================================
