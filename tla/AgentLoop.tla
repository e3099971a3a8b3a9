----------------------------- MODULE AgentLoop ------------------------------
(***************************************************************************)
(* AgentLoop.run (poppy/agent_loop.py) over the runs of one session, with  *)
(* the task state it keeps, the files it leaves behind (task_state.json,   *)
(* report.json, the session file with its checkpoints) and the guard       *)
(* against repeated tool calls.                                            *)
(*                                                                         *)
(* A step ends at a write to disk: a crash between two steps leaves the    *)
(* files as they are, and the next run of the session starts from the      *)
(* session file.  Traces, prompts and the wording of answers are left out; *)
(* what the service does around a run is module RunService.                *)
(***************************************************************************)
EXTENDS Naturals, Sequences

CONSTANTS
  ToolCalls,  \* the calls (name and arguments) a model may ask for
  MaxSteps,   \* Poppy.max_steps
  MaxRuns,    \* bound: runs of the session
  MaxReviews, \* bound: checkpoints there may be when a prompt makes another
  None

\* max_attempts = max(max_steps * 3, max_steps + 4)
MaxAttempts == IF MaxSteps * 3 > MaxSteps + 4 THEN MaxSteps * 3 ELSE MaxSteps + 4

ASSUME ConstantsAssumption ==
  /\ MaxSteps \in Nat
  /\ MaxRuns \in Nat
  /\ MaxReviews \in Nat

VARIABLES
  pc,          \* where the loop is
  way,         \* how the run is ending
  call,        \* the call the model asked for
  cancelled,   \* the cancellation token
  task,        \* the TaskState object
  disk,        \* task_state.json of the run, or None
  report,      \* the task state in report.json of the run, or None
  session,     \* the agent's session: its tool items and current checkpoint
  saved,       \* the session file
  checkpoints, \* checkpoints ever made; the newest one's id
  announced,   \* the terminal event the run emitted, or None
  runs,        \* runs begun
  handled      \* history: the calls the executor was given, in order

vars == <<pc, way, call, cancelled, task, disk, report, session, saved,
          checkpoints, announced, runs, handled>>
files == <<disk, report, saved>>
turn == <<way, call, cancelled, announced, runs>>

Statuses == {"running", "completed", "stopped", "failed", "cancelled"}
Reasons == {"none", "final_answer_returned", "step_limit_reached",
            "retry_limit_reached", "model_error", "cancelled"}
Tasks == [status : Statuses, reason : Reasons, steps : 0 .. MaxSteps,
          attempts : 0 .. MaxAttempts, checkpoint : Nat]

TerminalEvents == {"run.completed", "run.cancelled", "run.failed"}

ASSUME NoneAssumption ==
  /\ None \notin ToolCalls
  /\ None \notin Tasks
  /\ None \notin TerminalEvents

\* A session: its tool items (each the call it answers, run or turned down) and
\* its current checkpoint.
Histories == [tools : Seq(ToolCalls), current : Nat]

\* A call the executor was given: whether it ran the tool or turned the call
\* down, and whether the session file got the result.
Handlings == [call : ToolCalls, ran : BOOLEAN, recorded : BOOLEAN]

Over == {"idle", "returned", "raised", "dead"}
Pcs == Over \cup
       {"top", "stale", "staleWrite", "reduce", "reduceWrite", "model", "tool",
        "toolRecorded", "toolCheckpoint", "toolWrite", "retryWrite",
        "end", "write", "checkpoint", "announce", "report"}
Ways == {"final", "limit", "cancel", "fail"}

TypeOK ==
  /\ pc \in Pcs
  /\ way \in Ways \cup {None}
  /\ call \in ToolCalls \cup {None}
  /\ cancelled \in BOOLEAN
  /\ task \in Tasks
  /\ disk \in Tasks \cup {None}
  /\ report \in Tasks \cup {None}
  /\ session \in Histories
  /\ saved \in Histories
  /\ checkpoints \in Nat
  /\ announced \in TerminalEvents \cup {None}
  /\ runs \in 0 .. MaxRuns
  /\ handled \in Seq(Handlings)

NewTask == [status |-> "running", reason |-> "none", steps |-> 0,
            attempts |-> 0, checkpoint |-> 0]
NewSession == [tools |-> <<>>, current |-> 0]

Init ==
  /\ pc = "idle"
  /\ way = None
  /\ call = None
  /\ cancelled = FALSE
  /\ task = NewTask
  /\ disk = None
  /\ report = None
  /\ session = NewSession
  /\ saved = NewSession
  /\ checkpoints = 0
  /\ announced = None
  /\ runs = 0
  /\ handled = <<>>

-----------------------------------------------------------------------------
(* What the steps are made of.                                              *)

\* RunStore.write_task_state replaces the file in one go.
WriteTask(from, to) ==
  /\ pc = from
  /\ disk' = task
  /\ pc' = to
  /\ UNCHANGED <<turn, handled, task, report, session, saved, checkpoints>>

\* create_checkpoint names a new current checkpoint in memory ...
NewCheckpoint ==
  /\ checkpoints' = checkpoints + 1
  /\ task' = [task EXCEPT !.checkpoint = checkpoints + 1]
  /\ session' = [session EXCEPT !.current = checkpoints + 1]

\* Mutant: the session is not saved with it.
CheckpointUnsaved(from, to) ==
  /\ pc = from
  /\ NewCheckpoint
  /\ pc' = to
  /\ UNCHANGED <<turn, handled, files>>

\* ... and saves the session.
Checkpoint(from, to) ==
  /\ pc = from
  /\ NewCheckpoint
  /\ saved' = session'
  /\ pc' = to
  /\ UNCHANGED <<turn, handled, disk, report>>

\* Poppy.record of an item that is not a tool's.
Record(from, to) ==
  /\ pc = from
  /\ saved' = session
  /\ pc' = to
  /\ UNCHANGED <<turn, handled, task, disk, report, session, checkpoints>>

-----------------------------------------------------------------------------
(* The loop.                                                                *)

\* A run begins, in the agent of the last one or, after a crash, in a new
\* agent for the session file: the message is recorded, the task state is new
\* and written.
Ask ==
  /\ pc \in Over
  /\ runs < MaxRuns
  /\ runs' = runs + 1
  /\ pc' = "top"
  /\ task' = NewTask
  /\ disk' = NewTask
  /\ session' = IF pc = "dead" THEN saved ELSE session
  /\ saved' = session'
  /\ report' = None
  /\ announced' = None
  /\ cancelled' = FALSE
  /\ way' = None
  /\ call' = None
  /\ UNCHANGED <<checkpoints, handled>>

\* while tool_steps < agent.max_steps and attempts < max_attempts
Continues == task.steps < MaxSteps /\ task.attempts < MaxAttempts

\* Mutants: the attempt is not counted; it is not written.
AttemptUncounted ==
  /\ pc = "top" /\ Continues /\ ~cancelled
  /\ disk' = task
  /\ pc' = "stale"
  /\ UNCHANGED <<turn, handled, task, report, session, saved, checkpoints>>

AttemptUnwritten ==
  /\ pc = "top" /\ Continues /\ ~cancelled
  /\ task' = [task EXCEPT !.attempts = @ + 1]
  /\ pc' = "stale"
  /\ UNCHANGED <<turn, handled, files, session, checkpoints>>

\* An attempt is counted and written before the model hears of it.
Attempt ==
  /\ pc = "top" /\ Continues /\ ~cancelled
  /\ task' = [task EXCEPT !.attempts = @ + 1]
  /\ disk' = task'
  /\ pc' = "stale"
  /\ UNCHANGED <<turn, handled, report, session, saved, checkpoints>>

\* The last checkpoint may have become stale (a key file or the workspace
\* changed), and the context may have been reduced: a new checkpoint for each.
Prompt ==
  \/ checkpoints < MaxReviews /\ Checkpoint("stale", "staleWrite")
  \/ WriteTask("staleWrite", "reduce")
  \/ checkpoints < MaxReviews /\ Checkpoint("reduce", "reduceWrite")
  \/ WriteTask("reduceWrite", "model")
  \/ /\ \/ pc = "stale" /\ pc' = "reduce"
        \/ pc = "reduce" /\ pc' = "model"
     /\ UNCHANGED <<turn, handled, task, files, session, checkpoints>>

\* The model asks for a tool: a step, in memory.
ModelCalls ==
  /\ pc = "model"
  /\ call' \in ToolCalls
  /\ task' = [task EXCEPT !.steps = @ + 1]
  /\ pc' = "tool"
  /\ UNCHANGED <<way, cancelled, files, session, checkpoints, announced, runs, handled>>

\* An answer that cannot be parsed: a notice goes into the history.
ModelRetries == Record("model", "retryWrite")

\* The final answer goes into the history before the run counts as completed.
ModelAnswers ==
  /\ pc = "model"
  /\ saved' = session
  /\ task' = [task EXCEPT !.status = "completed", !.reason = "final_answer_returned"]
  /\ way' = "final"
  /\ pc' = "checkpoint"
  /\ UNCHANGED <<call, cancelled, disk, report, session, checkpoints, announced, runs, handled>>

\* The run is ending without an answer: TaskState.stop, cancel.
End(w, status, reason) ==
  /\ task' = [task EXCEPT !.status = status, !.reason = reason]
  /\ way' = w
  /\ pc' = "end"
  /\ UNCHANGED <<call, cancelled, files, session, checkpoints, announced, runs>>

ModelFails ==
  /\ pc = "model"
  /\ End("fail", "failed", "model_error")
  /\ UNCHANGED handled

LimitReason ==
  IF task.attempts >= MaxAttempts /\ task.steps < MaxSteps
  THEN "retry_limit_reached" ELSE "step_limit_reached"

LimitReached ==
  /\ pc = "top" /\ ~Continues
  /\ End("limit", "stopped", LimitReason)
  /\ UNCHANGED handled

-----------------------------------------------------------------------------
(* A tool call.                                                             *)

\* The last n tool items of the session, of this run or earlier ones, are c.
LastAre(n, c) ==
  LET list == session.tools IN
  Len(list) >= n /\ \A i \in Len(list) - n + 1 .. Len(list) : list[i] = c

\* Mutant: three repetitions are let through.
RepeatedThrice(c) == LastAre(3, c)

\* repeated_tool_call
Repeated(c) == LastAre(2, c)

\* The call is handled: a repeated one is not run.
Handle(ran, recorded) ==
  /\ ran => ~Repeated(call)
  /\ handled' = Append(handled, [call |-> call, ran |-> ran, recorded |-> recorded])

\* The executor turns the call down (unknown, invalid, repeated, denied) or
\* runs it, and the result goes into the history.
ToolItem(recorded) ==
  /\ \E ran \in BOOLEAN : Handle(ran, recorded)
  /\ session' = [session EXCEPT !.tools = Append(@, call)]

ExecuteTool ==
  /\ pc = "tool"
  /\ ToolItem(TRUE)
  /\ saved' = session'
  /\ pc' = "toolRecorded"
  /\ UNCHANGED <<turn, task, disk, report, checkpoints>>

\* The loop is left at a tool call, before the tool runs or while it does: the
\* history hears nothing of a tool that has run.
CutOff ==
  \/ UNCHANGED handled
  \/ pc = "tool" /\ Handle(TRUE, FALSE)

\* Seen at the top of the loop, by the model client, by the executor or inside
\* the tool.
ObserveCancel ==
  /\ pc \in {"model", "tool"} \/ (pc = "top" /\ Continues)
  /\ cancelled
  /\ End("cancel", "cancelled", "cancelled")
  /\ CutOff

AfterAnswer ==
  \/ WriteTask("toolRecorded", "toolCheckpoint")
  \/ Checkpoint("toolCheckpoint", "toolWrite")
  \/ WriteTask("toolWrite", "top")
  \/ WriteTask("retryWrite", "top")

-----------------------------------------------------------------------------
(* How a run ends.  A final answer is followed by its checkpoint and then by *)
(* the task state that names it; _finish_cancelled, _persist_failure and the *)
(* limits write the task state first.                                        *)

\* Mutant: the task state is not written on the way out.
PersistUnwritten ==
  \/ Record("end", "checkpoint")
  \/ Checkpoint("checkpoint", "announce")

Persist ==
  \/ way = "final" /\
       (\/ Checkpoint("checkpoint", "write")
        \/ WriteTask("write", "announce"))
  \/ way # "final" /\
       (\/ Record("end", "write")
        \/ WriteTask("write", "checkpoint")
        \/ Checkpoint("checkpoint", "announce"))

TerminalEvent ==
  CASE way = "cancel" -> "run.cancelled"
    [] way = "fail" -> "run.failed"
    [] OTHER -> "run.completed"

Announce ==
  /\ pc = "announce"
  /\ announced' = TerminalEvent
  /\ pc' = "report"
  /\ UNCHANGED <<way, call, cancelled, task, files, session, checkpoints, runs, handled>>

\* write_report, of the task state in memory.  After a model failure the
\* exception goes on to the caller.
Report ==
  /\ pc = "report"
  /\ report' = task
  /\ pc' = IF way = "fail" THEN "raised" ELSE "returned"
  /\ UNCHANGED <<turn, handled, task, disk, session, saved, checkpoints>>

-----------------------------------------------------------------------------
(* The environment.                                                         *)

Working == pc \notin Over

\* cancel_run, cancel_session, shutdown.
Cancel ==
  /\ Working /\ ~cancelled
  /\ cancelled' = TRUE
  /\ UNCHANGED <<pc, way, call, task, files, session, checkpoints, announced, runs, handled>>

\* A file cannot be written, or something else raises: ask is left without
\* another write.  What record or create_checkpoint has put into the session
\* in memory stays there although the session file does not have it.
StoreFails ==
  /\ Working
  /\ \/ CutOff /\ UNCHANGED <<task, session, checkpoints>>
     \/ pc = "tool" /\ ToolItem(FALSE) /\ UNCHANGED <<task, checkpoints>>
     \/ /\ pc \in {"stale", "reduce", "toolCheckpoint", "checkpoint"} /\ NewCheckpoint
        /\ UNCHANGED handled
  /\ pc' = "raised"
  /\ UNCHANGED <<turn, files>>

\* The process dies; memory is lost.
Crash ==
  /\ pc # "dead"
  /\ pc' = "dead"
  /\ CutOff
  /\ UNCHANGED <<turn, task, files, session, checkpoints>>

LoopStep ==
  \/ Attempt \/ Prompt \/ ModelCalls \/ ModelRetries \/ ModelAnswers
  \/ ModelFails \/ ObserveCancel \/ LimitReached \/ ExecuteTool \/ AfterAnswer
  \/ Persist \/ Announce \/ Report

Next == LoopStep \/ Ask \/ Cancel \/ StoreFails \/ Crash

Spec == Init /\ [][Next]_vars

\* The thread is scheduled, and a model request or a tool call ends.
FairSpec == Spec /\ WF_vars(LoopStep)

-----------------------------------------------------------------------------
(* Properties.                                                              *)

\* A run that was stopped says rightly which limit stopped it: the step limit
\* exactly when every step was used, the retry limit only when every attempt
\* was (the two may run out together).
StopReasonTrue ==
  task.status = "stopped" =>
    /\ task.reason = "step_limit_reached" <=> task.steps = MaxSteps
    /\ task.reason = "retry_limit_reached" => task.attempts = MaxAttempts

\* What a crash loses: no model request is missing from task_state.json, and
\* of the tool steps at most the one under way.
CrashLosesOneStep ==
  Working =>
    /\ disk.attempts = task.attempts
    /\ task.steps - disk.steps \in {0, 1}

\* task_state.json never names a checkpoint that the session file, from which
\* the session is resumed after a crash, does not have.
CheckpointKnown == disk # None => disk.checkpoint <= saved.current

\* When a run's terminal event is out, task_state.json has the status the
\* event stands for; when ask has returned, the event is out and report.json
\* has the same status.
EndIsDurable ==
  /\ announced # None =>
       announced = CASE disk.status = "cancelled" -> "run.cancelled"
                     [] disk.status = "failed" -> "run.failed"
                     [] disk.status \in {"completed", "stopped"} -> "run.completed"
                     [] OTHER -> "none"
  /\ pc = "returned" =>
       announced # None /\ report # None /\ report.status = disk.status

\* The i-th call given to the executor, and again the next one, ran, and the
\* session file had both results before the loop went on.
RanTwice(i) ==
  /\ handled[i].ran /\ handled[i + 1].ran
  /\ handled[i].recorded /\ handled[i + 1].recorded
  /\ handled[i].call = handled[i + 1].call

\* A call that has run twice in a row does not run a third time, across parse
\* failures, the end of a run, crashes and reloads.  The guard knows only what
\* was recorded: a tool that was cut off (the run cancelled, or the process
\* dead, while it ran) or whose result could not be saved does not count, and
\* its call may run again.
NoThirdRepeat ==
  \A i \in 1 .. Len(handled) - 2 :
    RanTwice(i) /\ handled[i + 2].call = handled[i].call => ~handled[i + 2].ran

\* Whatever the model answers, a run ends.
AskEnds == Working ~> ~Working

=============================================================================
