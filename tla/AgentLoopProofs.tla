--------------------------- MODULE AgentLoopProofs ---------------------------
(***************************************************************************)
(* For any tool calls, limits, number of runs and of checkpoints: what the *)
(* files of a run say after a crash at any point and after its end, why a  *)
(* run stopped, and that a call that ran twice in a row is not run again.  *)
(***************************************************************************)
EXTENDS AgentLoop, TLAPS

-----------------------------------------------------------------------------
(* The inductive invariant.                                                 *)

\* Between the count of an attempt and the answer of the model; up to the end
\* of a turn; on the way out.
Turn == {"stale", "staleWrite", "reduce", "reduceWrite", "model"}
Running == Turn \cup {"top", "tool", "toolRecorded", "toolCheckpoint", "toolWrite", "retryWrite"}
Ending == {"end", "write", "checkpoint", "announce", "report"}

StatusOf(w) ==
  CASE w = "final" -> "completed"
    [] w = "limit" -> "stopped"
    [] w = "cancel" -> "cancelled"
    [] OTHER -> "failed"

\* Where the loop is and what the task state says go together.
PlaceInv ==
  /\ pc \in Turn => task.steps < MaxSteps
  /\ pc \in Running => task.status = "running"
  /\ pc = "tool" => call \in ToolCalls
  /\ pc \in Ending => way \in Ways /\ task.status = StatusOf(way)
  /\ StopReasonTrue

\* Where task_state.json may be a step behind.
Behind == {"tool", "toolRecorded", "end", "write"}

\* While a run works its files follow its task state and its session.
FileInv ==
  /\ Working =>
       /\ disk \in Tasks /\ disk.attempts = task.attempts
       /\ disk.steps = task.steps \/ (pc \in Behind /\ disk.steps + 1 = task.steps)
       /\ saved = session
       /\ task.checkpoint <= session.current
  /\ session.current <= checkpoints
  /\ saved.current <= checkpoints
  /\ CheckpointKnown

\* On the way out task_state.json has the last status before the event is out.
EndInv ==
  /\ pc \in {"announce", "report"} \/ (pc = "checkpoint" /\ way # "final")
       => disk.status = task.status
  /\ announced # None => pc \in Over \cup {"report"}
  /\ pc = "report" => announced # None
  /\ EndIsDurable

\* The last calls handled are the last ones of a session's history, as far as
\* the session file got their results.
EndsWithHandled(list) ==
  LET n == Len(handled)
      m == Len(list)
  IN  /\ n >= 1 /\ handled[n].recorded => m >= 1 /\ list[m] = handled[n].call
      /\ n >= 2 /\ handled[n].recorded /\ handled[n - 1].recorded
           => m >= 2 /\ list[m - 1] = handled[n - 1].call

RepeatInv ==
  /\ EndsWithHandled(session.tools)
  /\ EndsWithHandled(saved.tools)
  /\ NoThirdRepeat

IInv == TypeOK /\ PlaceInv /\ FileInv /\ EndInv /\ RepeatInv

-----------------------------------------------------------------------------
\* The limits of a task are numbers.
LEMMA MaxAttemptsNat == MaxSteps \in Nat /\ MaxAttempts \in Nat
BY ConstantsAssumption DEF MaxAttempts

\* The types of a new task state.
LEMMA NewTypes == NewTask \in Tasks /\ NewSession \in Histories
<1>1. NewTask \in Tasks
  BY MaxAttemptsNat DEF Tasks, Statuses, Reasons, NewTask
<1>2. NewSession \in Histories
  BY DEF Histories, NewSession
<1>3. QED
  BY <1>1, <1>2

\* The first state satisfies the invariant.
LEMMA InitIInv == Init => IInv
<1> SUFFICES ASSUME Init PROVE IInv
  OBVIOUS
<1>1. TypeOK
  <2>1. pc \in Pcs /\ way \in Ways \cup {None} /\ call \in ToolCalls \cup {None} /\ cancelled \in BOOLEAN
    BY DEF Init, Pcs, Over
  <2>2. task \in Tasks /\ disk \in Tasks \cup {None} /\ report \in Tasks \cup {None}
    BY NewTypes DEF Init
  <2>3. session \in Histories /\ saved \in Histories
    BY NewTypes DEF Init
  <2>4. checkpoints \in Nat /\ announced \in TerminalEvents \cup {None} /\ runs \in 0 .. MaxRuns
        /\ handled \in Seq(Handlings)
    BY ConstantsAssumption DEF Init
  <2>5. QED
    BY <2>1, <2>2, <2>3, <2>4 DEF TypeOK
<1>2. PlaceInv /\ EndInv
  BY DEF Init, PlaceInv, EndInv, Turn, Running, Ending, StopReasonTrue, EndIsDurable, NewTask
<1>3. FileInv
  BY DEF Init, FileInv, Working, Over, CheckpointKnown, NewTask, NewSession
<1>4. RepeatInv
  BY DEF Init, RepeatInv, EndsWithHandled, NoThirdRepeat, RanTwice, NewSession
<1>5. QED
  BY <1>1, <1>2, <1>3, <1>4 DEF IInv

-----------------------------------------------------------------------------
(* Types.                                                                   *)

\* What the steps put into the task state and the session has their types.
LEMMA TaskTypes ==
  ASSUME TypeOK
  PROVE  /\ \A n \in Nat : [task EXCEPT !.checkpoint = n] \in Tasks
         /\ \A n \in Nat : [session EXCEPT !.current = n] \in Histories
         /\ \A st \in Statuses, reason \in Reasons :
              [task EXCEPT !.status = st, !.reason = reason] \in Tasks
         /\ task.attempts < MaxAttempts => [task EXCEPT !.attempts = @ + 1] \in Tasks
         /\ task.steps < MaxSteps => [task EXCEPT !.steps = @ + 1] \in Tasks
<1>1. task \in Tasks /\ session \in Histories
  BY DEF TypeOK
<1>2. \A n \in Nat : [task EXCEPT !.checkpoint = n] \in Tasks
  BY <1>1 DEF Tasks
<1>3. \A n \in Nat : [session EXCEPT !.current = n] \in Histories
  BY <1>1 DEF Histories
<1>4. ASSUME NEW st \in Statuses, NEW reason \in Reasons
      PROVE  [task EXCEPT !.status = st, !.reason = reason] \in Tasks
  BY <1>1 DEF Tasks
<1>5. ASSUME task.attempts < MaxAttempts
      PROVE  [task EXCEPT !.attempts = @ + 1] \in Tasks
  BY <1>1, <1>5, MaxAttemptsNat DEF Tasks
<1>6. ASSUME task.steps < MaxSteps
      PROVE  [task EXCEPT !.steps = @ + 1] \in Tasks
  BY <1>1, <1>6, MaxAttemptsNat DEF Tasks
<1>7. QED
  BY <1>2, <1>3, <1>4, <1>5, <1>6

\* The item of a tool call keeps the types of the history.
LEMMA ItemTypes ==
  ASSUME TypeOK, call \in ToolCalls, NEW recorded \in BOOLEAN, ToolItem(recorded)
  PROVE  session' \in Histories /\ handled' \in Seq(Handlings)
<1>1. session \in Histories /\ handled \in Seq(Handlings)
  BY DEF TypeOK
<1>2. session' \in Histories
  <2>1. Append(session.tools, call) \in Seq(ToolCalls)
    BY <1>1 DEF Histories
  <2>2. QED
    BY <1>1, <2>1 DEF ToolItem, Histories
<1>3. handled' \in Seq(Handlings)
  BY <1>1 DEF ToolItem, Handle, Handlings
<1>4. QED
  BY <1>2, <1>3

\* So does a call that is cut off.
LEMMA CutOffTypes ==
  ASSUME TypeOK, PlaceInv, CutOff
  PROVE  handled' \in Seq(Handlings)
<1>1. handled \in Seq(Handlings)
  BY DEF TypeOK
<1>2. CASE UNCHANGED handled
  BY <1>1, <1>2
<1>3. CASE pc = "tool" /\ Handle(TRUE, FALSE)
  <2>1. [call |-> call, ran |-> TRUE, recorded |-> FALSE] \in Handlings
    BY <1>3 DEF PlaceInv, Handlings
  <2>2. QED
    BY <1>1, <1>3, <2>1 DEF Handle
<1>4. QED
  BY <1>2, <1>3 DEF CutOff

\* A new checkpoint keeps the types.
LEMMA CheckpointTypes ==
  ASSUME TypeOK, NewCheckpoint
  PROVE  task' \in Tasks /\ session' \in Histories /\ checkpoints' \in Nat
<1>1. checkpoints + 1 \in Nat
  BY DEF TypeOK
<1>2. QED
  BY <1>1, TaskTypes DEF NewCheckpoint

\* The types after a write.
LEMMA WriteTypes ==
  ASSUME TypeOK, NEW from \in Pcs, NEW to \in Pcs,
         WriteTask(from, to) \/ Checkpoint(from, to) \/ Record(from, to)
  PROVE  TypeOK'
<1>1. CASE WriteTask(from, to)
  BY <1>1 DEF WriteTask, TypeOK, turn
<1>2. CASE Checkpoint(from, to)
  <2>1. task' \in Tasks /\ session' \in Histories /\ checkpoints' \in Nat
    BY <1>2, CheckpointTypes DEF Checkpoint
  <2>2. QED
    BY <1>2, <2>1 DEF Checkpoint, TypeOK, turn
<1>3. CASE Record(from, to)
  BY <1>3 DEF Record, TypeOK, turn
<1>4. QED
  BY <1>1, <1>2, <1>3

\* Every place the loop goes to is one of its places.
LEMMA TypesPreserved == IInv /\ [Next]_vars => TypeOK'
<1> SUFFICES ASSUME IInv, [Next]_vars PROVE TypeOK'
  OBVIOUS
<1> USE DEF IInv
<1>0. TypeOK /\ PlaceInv
  OBVIOUS
<1>1. CASE Attempt
  <2>1. task' \in Tasks
    BY <1>1, TaskTypes DEF Attempt, Continues
  <2>2. QED
    BY <1>0, <1>1, <2>1 DEF Attempt, TypeOK, turn, Pcs
<1>2. CASE Prompt
  <2>1. CASE \E from, to \in Pcs : WriteTask(from, to) \/ Checkpoint(from, to)
    BY <2>1, <1>0, WriteTypes
  <2>2. CASE UNCHANGED <<turn, handled, task, files, session, checkpoints>> /\ pc' \in Pcs
    BY <2>2, <1>0 DEF TypeOK, turn, files
  <2>3. QED
    BY <1>2, <2>1, <2>2 DEF Prompt, Pcs
<1>3. CASE ModelCalls
  <2>1. task' \in Tasks
    BY <1>0, <1>3, TaskTypes DEF ModelCalls, PlaceInv, Turn
  <2>2. QED
    BY <1>0, <1>3, <2>1 DEF ModelCalls, TypeOK, files, Pcs
<1>4. CASE ModelRetries
  BY <1>0, <1>4, WriteTypes DEF ModelRetries, Pcs
<1>5. CASE ModelAnswers
  <2>1. task' \in Tasks
    BY <1>0, <1>5, TaskTypes DEF ModelAnswers, Statuses, Reasons
  <2>2. QED
    BY <1>0, <1>5, <2>1 DEF ModelAnswers, TypeOK, Pcs, Ways
<1>6. ASSUME NEW w \in Ways, NEW st \in Statuses, NEW reason \in Reasons, End(w, st, reason)
      PROVE  handled' \in Seq(Handlings) => TypeOK'
  <2>1. task' \in Tasks
    BY <1>0, <1>6, TaskTypes DEF End
  <2>2. QED
    BY <1>0, <1>6, <2>1 DEF End, TypeOK, files, Pcs
<1>7. CASE ModelFails \/ ObserveCancel \/ LimitReached
  <2>1. handled' \in Seq(Handlings)
    BY <1>0, <1>7, CutOffTypes DEF ModelFails, ObserveCancel, LimitReached, TypeOK
  <2>2. QED
    BY <1>6, <1>7, <2>1
    DEF ModelFails, ObserveCancel, LimitReached, LimitReason, Ways, Statuses, Reasons
<1>8. CASE ExecuteTool
  <2>1. session' \in Histories /\ handled' \in Seq(Handlings)
    BY <1>0, <1>8, ItemTypes DEF ExecuteTool, PlaceInv
  <2>2. QED
    BY <1>0, <1>8, <2>1 DEF ExecuteTool, TypeOK, turn, Pcs
<1>9. CASE AfterAnswer \/ Persist
  BY <1>0, <1>9, WriteTypes DEF AfterAnswer, Persist, Pcs
<1>10. CASE Announce
  BY <1>0, <1>10 DEF Announce, TerminalEvent, TerminalEvents, TypeOK, files, Pcs
<1>11. CASE Report
  BY <1>0, <1>11 DEF Report, TypeOK, turn, Pcs, Over
<1>12. CASE Ask
  <2>1. session' \in Histories /\ saved' \in Histories /\ task' \in Tasks /\ disk' \in Tasks
    BY <1>0, <1>12, NewTypes DEF Ask, TypeOK
  <2>2. runs' \in 0 .. MaxRuns
    BY <1>0, <1>12, ConstantsAssumption DEF Ask, TypeOK
  <2>3. QED
    BY <1>0, <1>12, <2>1, <2>2 DEF Ask, TypeOK, Pcs
<1>13. CASE Cancel
  BY <1>0, <1>13 DEF Cancel, TypeOK, files
<1>14. CASE StoreFails
  <2>1. task' \in Tasks /\ session' \in Histories /\ checkpoints' \in Nat
        /\ handled' \in Seq(Handlings)
    <3>1. CASE CutOff /\ UNCHANGED <<task, session, checkpoints>>
      BY <1>0, <3>1, CutOffTypes DEF TypeOK
    <3>2. CASE pc = "tool" /\ ToolItem(FALSE) /\ UNCHANGED <<task, checkpoints>>
      BY <1>0, <3>2, ItemTypes DEF TypeOK, PlaceInv
    <3>3. CASE NewCheckpoint /\ UNCHANGED handled
      BY <1>0, <3>3, CheckpointTypes DEF TypeOK
    <3>4. QED
      BY <1>14, <3>1, <3>2, <3>3 DEF StoreFails
  <2>2. QED
    BY <1>0, <1>14, <2>1 DEF StoreFails, TypeOK, turn, files, Pcs, Over
<1>15. CASE Crash
  BY <1>0, <1>15, CutOffTypes DEF Crash, TypeOK, turn, files, Pcs, Over
<1>16. CASE UNCHANGED vars
  BY <1>0, <1>16 DEF TypeOK, vars
<1>17. QED
  BY <1>1, <1>2, <1>3, <1>4, <1>5, <1>7, <1>8, <1>9, <1>10, <1>11, <1>12, <1>13, <1>14,
     <1>15, <1>16 DEF Next, LoopStep

-----------------------------------------------------------------------------
(* The place of the loop, and the reason why a run stopped.                 *)

\* The steps made of writes alone.
Writes == Prompt \/ ModelRetries \/ AfterAnswer \/ Persist

\* A write leaves the status, the reason and the counters alone.
LEMMA WritesKeepTask ==
  ASSUME TypeOK, Writes
  PROVE  /\ task'.status = task.status /\ task'.reason = task.reason
         /\ task'.steps = task.steps /\ task'.attempts = task.attempts
         /\ UNCHANGED <<way, call, cancelled, announced, runs, report, handled>>
<1>1. ASSUME NEW from, NEW to, WriteTask(from, to) \/ Checkpoint(from, to) \/ Record(from, to)
      PROVE  /\ task' = task \/ task' = [task EXCEPT !.checkpoint = checkpoints + 1]
             /\ UNCHANGED <<way, call, cancelled, announced, runs, report, handled>>
  BY <1>1 DEF WriteTask, Checkpoint, Record, NewCheckpoint, turn
<1>2. /\ task' = task \/ task' = [task EXCEPT !.checkpoint = checkpoints + 1]
      /\ UNCHANGED <<way, call, cancelled, announced, runs, report, handled>>
  BY <1>1 DEF Writes, Prompt, ModelRetries, AfterAnswer, Persist, turn, files
<1>3. task \in Tasks
  BY DEF TypeOK
<1>4. QED
  BY <1>2, <1>3 DEF Tasks

\* Where the writes lead: within a turn, to the next turn, or towards the end.
LEMMA WritesPlace ==
  ASSUME Writes
  PROVE  \/ pc \in Turn /\ pc' \in Turn
         \/ pc \in Running /\ pc' \in Running \ (Turn \cup {"tool"})
         \/ pc \in {"end", "write", "checkpoint"} /\ pc' \in {"write", "checkpoint", "announce"}
BY DEF Writes, Prompt, ModelRetries, AfterAnswer, Persist, WriteTask, Checkpoint, Record,
       Turn, Running

\* Every step keeps what is known of the places in the loop.
LEMMA PlacesPreserved == IInv /\ [Next]_vars => PlaceInv'
<1> SUFFICES ASSUME IInv, [Next]_vars PROVE PlaceInv'
  OBVIOUS
<1>0. TypeOK /\ PlaceInv /\ task \in Tasks
  BY DEF IInv, TypeOK
<1>1. CASE Writes
  BY <1>0, <1>1, WritesKeepTask, WritesPlace
  DEF PlaceInv, Turn, Running, Ending, StopReasonTrue
<1>2. CASE Attempt
  BY <1>0, <1>2
  DEF Attempt, Continues, Tasks, PlaceInv, Turn, Running, Ending, StopReasonTrue
<1>3. CASE ModelCalls
  BY <1>0, <1>3 DEF ModelCalls, Tasks, PlaceInv, Turn, Running, Ending, StopReasonTrue
<1>4. CASE ModelAnswers
  BY <1>0, <1>4
  DEF ModelAnswers, Tasks, PlaceInv, Turn, Running, Ending, StopReasonTrue, StatusOf, Ways
<1>5. CASE ModelFails \/ ObserveCancel
  BY <1>0, <1>5
  DEF ModelFails, ObserveCancel, End, Tasks, PlaceInv, Turn, Running, Ending, StopReasonTrue,
      StatusOf, Ways
<1>6. CASE LimitReached
  <2>1. pc' = "end" /\ way' = "limit" /\ task'.status = "stopped"
        /\ task'.reason = LimitReason /\ task'.steps = task.steps /\ task'.attempts = task.attempts
    BY <1>0, <1>6 DEF LimitReached, End, Tasks
  <2>2. task.steps = MaxSteps \/ task.attempts = MaxAttempts
    BY <1>0, <1>6, MaxAttemptsNat DEF LimitReached, Continues, Tasks
  <2>3. task.steps \in 0 .. MaxSteps /\ task.attempts \in 0 .. MaxAttempts
    BY <1>0 DEF Tasks
  <2>4. QED
    BY <2>1, <2>2, <2>3, MaxAttemptsNat
    DEF LimitReason, PlaceInv, Turn, Running, Ending, StopReasonTrue, StatusOf, Ways
<1>7. CASE ExecuteTool
  BY <1>0, <1>7
  DEF ExecuteTool, turn, PlaceInv, Turn, Running, Ending, StopReasonTrue
<1>8. CASE Announce \/ Report
  BY <1>0, <1>8
  DEF Announce, Report, turn, PlaceInv, Turn, Running, Ending, StopReasonTrue
<1>9. CASE Ask
  BY <1>0, <1>9 DEF Ask, NewTask, PlaceInv, Turn, Running, Ending, StopReasonTrue
<1>10. CASE Cancel \/ UNCHANGED vars
  BY <1>0, <1>10 DEF Cancel, vars, PlaceInv, StopReasonTrue
<1>11. CASE StoreFails \/ Crash
  <2>1. task' = task \/ (task' = [task EXCEPT !.checkpoint = checkpoints + 1])
    BY <1>11 DEF StoreFails, Crash, NewCheckpoint
  <2>2. pc' \in {"raised", "dead"}
    BY <1>11 DEF StoreFails, Crash
  <2>3. task'.status = task.status /\ task'.reason = task.reason
        /\ task'.steps = task.steps /\ task'.attempts = task.attempts
    BY <1>0, <2>1 DEF Tasks
  <2>4. QED
    BY <1>0, <2>2, <2>3 DEF PlaceInv, Turn, Running, Ending, StopReasonTrue
<1>12. QED
  BY <1>1, <1>2, <1>3, <1>4, <1>5, <1>6, <1>7, <1>8, <1>9, <1>10, <1>11
  DEF Next, LoopStep, Writes

-----------------------------------------------------------------------------
(* The files.                                                               *)

\* What a write does to the files.
LEMMA WriteFiles ==
  ASSUME TypeOK, FileInv, NEW from, NEW to, from \notin Over,
         \/ WriteTask(from, to)
         \/ Checkpoint(from, to) /\ from \notin Behind
         \/ Record(from, to) /\ (from \in Behind => to \in Behind)
  PROVE  FileInv'
<1>0. task \in Tasks /\ session \in Histories /\ checkpoints \in Nat
  BY DEF TypeOK
<1>1. CASE WriteTask(from, to)
  BY <1>0, <1>1 DEF WriteTask, FileInv, Working, CheckpointKnown
<1>2. CASE Checkpoint(from, to) /\ from \notin Behind
  <2>1. /\ task'.steps = task.steps /\ task'.attempts = task.attempts
        /\ task'.checkpoint = checkpoints + 1 /\ session'.current = checkpoints + 1
        /\ saved' = session' /\ checkpoints' = checkpoints + 1 /\ disk' = disk /\ pc = from
    BY <1>0, <1>2 DEF Checkpoint, NewCheckpoint, Tasks, Histories
  <2>2. disk # None => disk \in Tasks /\ disk.checkpoint <= saved.current
                       /\ saved.current <= checkpoints /\ saved.current \in Nat
    BY DEF FileInv, CheckpointKnown, TypeOK, Histories
  <2>3. disk # None => disk.checkpoint <= checkpoints + 1
    BY <1>0, <2>2 DEF Tasks
  <2>4. QED
    BY <1>0, <1>2, <2>1, <2>3 DEF FileInv, Working, CheckpointKnown
<1>3. CASE Record(from, to) /\ (from \in Behind => to \in Behind)
  BY <1>0, <1>3 DEF Record, FileInv, Working, CheckpointKnown
<1>4. QED
  BY <1>1, <1>2, <1>3

\* A step that stays within the run, touches no file and counts no attempt.
LEMMA SameFiles ==
  ASSUME FileInv, UNCHANGED <<disk, session, saved, checkpoints>>,
         task'.attempts = task.attempts, task'.checkpoint = task.checkpoint,
         \/ task'.steps = task.steps /\ (pc \in Behind => pc' \in Behind)
         \/ Working' => Working /\ task'.steps = disk.steps + 1 /\ pc' \in Behind,
         Working' => Working
  PROVE  FileInv'
BY DEF FileInv, Working, CheckpointKnown

\* Every step keeps what is known of the files.
LEMMA FilesPreserved == IInv /\ [Next]_vars => FileInv'
<1> SUFFICES ASSUME IInv, [Next]_vars PROVE FileInv'
  OBVIOUS
<1>0. TypeOK /\ FileInv /\ task \in Tasks /\ session \in Histories /\ checkpoints \in Nat
  BY DEF IInv, TypeOK
<1>1. CASE Writes
  <2>1. CASE UNCHANGED <<turn, handled, task, files, session, checkpoints>> /\ pc \in Turn /\ pc' \in Turn
    BY <1>0, <2>1, SameFiles DEF files, Turn, Behind, Working, Over
  <2>2. CASE ~(UNCHANGED <<turn, handled, task, files, session, checkpoints>> /\ pc \in Turn /\ pc' \in Turn)
    BY <1>0, <1>1, <2>2, WriteFiles
    DEF Writes, Prompt, ModelRetries, AfterAnswer, Persist, Over, Behind, Turn
  <2>3. QED
    BY <2>1, <2>2
<1>2. CASE Attempt
  <2>1. task' \in Tasks /\ task'.checkpoint = task.checkpoint /\ disk' = task'
    BY <1>0, <1>2, TaskTypes DEF Attempt, Continues, Tasks
  <2>2. QED
    BY <1>0, <1>2, <2>1 DEF Attempt, FileInv, Working, CheckpointKnown, Over
<1>3. CASE ModelCalls
  <2>1. task'.attempts = task.attempts /\ task'.checkpoint = task.checkpoint
        /\ task'.steps = task.steps + 1
    BY <1>0, <1>3 DEF ModelCalls, Tasks
  <2>2. task.steps = disk.steps /\ Working /\ Working' /\ pc' \in Behind
    BY <1>0, <1>3 DEF ModelCalls, FileInv, Behind, Working, Over
  <2>3. QED
    BY <1>0, <1>3, <2>1, <2>2, SameFiles DEF ModelCalls, files
<1>4. CASE ModelAnswers
  <2>1. task'.attempts = task.attempts /\ task'.checkpoint = task.checkpoint
        /\ task'.steps = task.steps
    BY <1>0, <1>4 DEF ModelAnswers, Tasks
  <2>2. UNCHANGED <<disk, session, saved, checkpoints>>
    BY <1>0, <1>4 DEF ModelAnswers, FileInv, Working, Over
  <2>3. QED
    BY <1>0, <1>4, <2>1, <2>2, SameFiles DEF ModelAnswers, Behind, Working, Over
<1>5. CASE ModelFails \/ ObserveCancel \/ LimitReached
  <2>1. PICK w, st, reason : End(w, st, reason) /\ Working
    BY <1>5 DEF ModelFails, ObserveCancel, LimitReached, Working, Over
  <2>2. task'.attempts = task.attempts /\ task'.checkpoint = task.checkpoint
        /\ task'.steps = task.steps
    BY <1>0, <2>1 DEF End, Tasks
  <2>3. QED
    BY <1>0, <2>1, <2>2, SameFiles DEF End, files, Behind
<1>6. CASE ExecuteTool
  <2>1. session'.current = session.current
    BY <1>0, <1>6 DEF ExecuteTool, ToolItem, Histories
  <2>2. QED
    BY <1>0, <1>6, <2>1 DEF ExecuteTool, FileInv, Working, Over, Behind, CheckpointKnown
<1>7. CASE Announce \/ Report
  BY <1>0, <1>7, SameFiles DEF Announce, Report, files, Behind, Working, Over
<1>8. CASE Ask
  <2>1. session' \in {session, saved} /\ saved' = session' /\ disk' = NewTask /\ task' = NewTask
        /\ checkpoints' = checkpoints
    BY <1>8 DEF Ask
  <2>2. session'.current \in Nat /\ session'.current <= checkpoints
    BY <1>0, <2>1 DEF FileInv, TypeOK, Histories
  <2>3. QED
    BY <1>0, <2>1, <2>2, NewTypes DEF NewTask, FileInv, CheckpointKnown
<1>9. CASE Cancel \/ UNCHANGED vars
  BY <1>0, <1>9, SameFiles DEF Cancel, vars, files, Working
<1>10. CASE StoreFails
  <2>1. ~Working' /\ saved' = saved /\ disk' = disk
    BY <1>10 DEF StoreFails, Working, Over, files
  <2>2. session'.current <= checkpoints' /\ saved.current <= checkpoints'
    <3>1. CASE UNCHANGED <<task, session, checkpoints>>
      BY <1>0, <3>1 DEF FileInv
    <3>2. CASE ToolItem(FALSE) /\ UNCHANGED checkpoints
      BY <1>0, <3>2 DEF FileInv, ToolItem, Histories
    <3>3. CASE NewCheckpoint
      BY <1>0, <3>3 DEF FileInv, NewCheckpoint, Histories, TypeOK
    <3>4. QED
      BY <1>10, <3>1, <3>2, <3>3 DEF StoreFails
  <2>3. QED
    BY <1>0, <2>1, <2>2 DEF FileInv, CheckpointKnown
<1>11. CASE Crash
  BY <1>0, <1>11 DEF Crash, files, FileInv, Working, Over, CheckpointKnown
<1>12. QED
  BY <1>1, <1>2, <1>3, <1>4, <1>5, <1>6, <1>7, <1>8, <1>9, <1>10, <1>11
  DEF Next, LoopStep, Writes

-----------------------------------------------------------------------------
(* How a run ends.                                                          *)

\* Before the event is out, a step to a place where it is not out either.
LEMMA NotAnnounced ==
  ASSUME EndInv, pc \notin Over \cup {"report"}, announced' = announced,
         pc' \notin {"report", "returned"},
         pc' = "announce" \/ (pc' = "checkpoint" /\ way' # "final")
           => disk'.status = task'.status
  PROVE  EndInv'
BY DEF EndInv, EndIsDurable, Over

\* Every step keeps what is known of ended runs.
LEMMA EndsPreserved == IInv /\ [Next]_vars => EndInv'
<1> SUFFICES ASSUME IInv, [Next]_vars PROVE EndInv'
  OBVIOUS
<1>0. TypeOK /\ EndInv /\ PlaceInv /\ task \in Tasks
  BY DEF IInv, TypeOK
<1>1. CASE Writes
  <2>1. pc \notin Over \cup {"report"} /\ pc' \notin {"report", "returned"}
    BY <1>1, WritesPlace DEF Over, Turn, Running
  <2>2. task'.status = task.status /\ UNCHANGED <<way, announced>>
    BY <1>0, <1>1, WritesKeepTask
  <2>3. ASSUME pc' = "announce" \/ (pc' = "checkpoint" /\ way' # "final")
        PROVE  disk'.status = task'.status
    <3>1. CASE way = "final" /\ WriteTask("write", "announce")
      BY <3>1, <2>2 DEF WriteTask
    <3>2. CASE way # "final" /\ WriteTask("write", "checkpoint")
      BY <3>2, <2>2 DEF WriteTask
    <3>3. CASE way # "final" /\ Checkpoint("checkpoint", "announce")
      BY <1>0, <3>3, <2>2 DEF Checkpoint, EndInv
    <3>4. QED
      BY <1>1, <2>2, <2>3, <3>1, <3>2, <3>3
      DEF Writes, Prompt, ModelRetries, AfterAnswer, Persist, WriteTask, Checkpoint, Record
  <2>4. QED
    BY <1>0, <2>1, <2>2, <2>3, NotAnnounced
<1>2. CASE Attempt \/ ModelCalls \/ ModelAnswers \/ ExecuteTool
  BY <1>0, <1>2, NotAnnounced
  DEF Attempt, ModelCalls, ModelAnswers, ExecuteTool, turn, Over
<1>3. CASE ModelFails \/ ObserveCancel \/ LimitReached
  BY <1>0, <1>3, NotAnnounced DEF ModelFails, ObserveCancel, LimitReached, End, Over
<1>4. CASE Announce
  <2>1. way \in Ways /\ disk.status = StatusOf(way) /\ disk' = disk /\ pc' = "report"
        /\ task' = task /\ announced' = TerminalEvent
    BY <1>0, <1>4 DEF Announce, EndInv, PlaceInv, Ending, files
  <2>2. announced' \in TerminalEvents /\ announced' # None
    BY <2>1, NoneAssumption DEF TerminalEvent, TerminalEvents
  <2>3. announced' = CASE disk'.status = "cancelled" -> "run.cancelled"
                       [] disk'.status = "failed" -> "run.failed"
                       [] disk'.status \in {"completed", "stopped"} -> "run.completed"
                       [] OTHER -> "none"
    BY <2>1 DEF TerminalEvent, StatusOf, Ways
  <2>4. disk'.status = task'.status
    BY <1>0, <1>4, <2>1 DEF Announce, EndInv
  <2>5. QED
    BY <2>1, <2>2, <2>3, <2>4 DEF EndInv, EndIsDurable
<1>5. CASE Report
  <2>1. report' = task /\ disk' = disk /\ task' = task /\ announced' = announced
        /\ pc = "report" /\ pc' \in Over
    BY <1>5 DEF Report, turn, Over
  <2>2. task # None /\ announced # None /\ task.status = disk.status
    BY <1>0, <2>1, NoneAssumption DEF EndInv
  <2>3. QED
    BY <1>0, <2>1, <2>2 DEF EndInv, EndIsDurable, Over
<1>6. CASE Ask
  BY <1>6 DEF Ask, EndInv, EndIsDurable
<1>7. CASE Cancel \/ UNCHANGED vars
  BY <1>0, <1>7 DEF Cancel, vars, files, EndInv, EndIsDurable
<1>8. CASE StoreFails \/ Crash
  BY <1>0, <1>8 DEF StoreFails, Crash, turn, files, Over, EndInv, EndIsDurable
<1>9. QED
  BY <1>1, <1>2, <1>3, <1>4, <1>5, <1>6, <1>7, <1>8 DEF Next, LoopStep, Writes

-----------------------------------------------------------------------------
(* Repeated calls.                                                          *)

\* The guard keeps a third equal call from running: if the last two calls were
\* recorded, the history it looks at ends with them.
LEMMA HandledRepeats ==
  ASSUME TypeOK, RepeatInv, NEW ran \in BOOLEAN, NEW recorded \in BOOLEAN,
         Handle(ran, recorded)
  PROVE  NoThirdRepeat'
<1> DEFINE n == Len(handled)
           item == [call |-> call, ran |-> ran, recorded |-> recorded]
<1>1. /\ handled \in Seq(Handlings) /\ session.tools \in Seq(ToolCalls)
      /\ n \in Nat /\ Len(session.tools) \in Nat
  BY DEF TypeOK, Histories
<1>2. /\ Len(handled') = n + 1 /\ handled'[n + 1] = item
      /\ \A k \in 1 .. n : handled'[k] = handled[k]
  BY <1>1 DEF Handle
<1>3. SUFFICES ASSUME NEW i \in 1 .. n - 1, RanTwice(i)', handled'[i + 2].call = handled'[i].call
               PROVE  ~handled'[i + 2].ran
  BY <1>1, <1>2 DEF NoThirdRepeat
<1>4. handled'[i] = handled[i] /\ handled'[i + 1] = handled[i + 1]
  BY <1>1, <1>2
<1>5. RanTwice(i)
  BY <1>3, <1>4 DEF RanTwice
<1>6. CASE i <= n - 2
  BY <1>1, <1>2, <1>3, <1>4, <1>5, <1>6 DEF RepeatInv, NoThirdRepeat
<1>7. CASE i = n - 1
  <2>1. handled[n].recorded /\ handled[n - 1].recorded /\ handled[n - 1].call = handled[n].call
    BY <1>1, <1>5, <1>7 DEF RanTwice
  <2>2. /\ Len(session.tools) >= 2
        /\ session.tools[Len(session.tools)] = handled[n].call
        /\ session.tools[Len(session.tools) - 1] = handled[n - 1].call
    BY <1>1, <1>7, <2>1 DEF RepeatInv, EndsWithHandled
  <2>3. call = handled[n].call
    BY <1>2, <1>3, <1>4, <1>7, <2>1
  <2>4. \A k \in Len(session.tools) - 1 .. Len(session.tools) : session.tools[k] = call
    BY <1>1, <2>1, <2>2, <2>3, SMTT(30)
  <2>5. Repeated(call)
    BY <1>1, <2>2, <2>4 DEF Repeated, LastAre
  <2>6. QED
    BY <1>1, <1>2, <1>7, <2>5 DEF Handle
<1>8. QED
  BY <1>1, <1>6, <1>7

\* A recorded call is the new end of the history.
LEMMA RecordedFollows ==
  ASSUME TypeOK, RepeatInv, call \in ToolCalls, ToolItem(TRUE)
  PROVE  EndsWithHandled(session.tools)'
<1>1. PICK ran \in BOOLEAN :
        handled' = Append(handled, [call |-> call, ran |-> ran, recorded |-> TRUE])
  BY DEF ToolItem, Handle
<1>2. /\ handled \in Seq(Handlings) /\ session.tools \in Seq(ToolCalls)
      /\ Len(handled) \in Nat /\ Len(session.tools) \in Nat
      /\ session'.tools = Append(session.tools, call)
  BY DEF TypeOK, Histories, ToolItem
<1>3. /\ Len(handled') = Len(handled) + 1 /\ handled'[Len(handled')].call = call
      /\ Len(handled) >= 1 => handled'[Len(handled') - 1] = handled[Len(handled)]
  BY <1>1, <1>2
<1>4. /\ Len(session'.tools) = Len(session.tools) + 1
      /\ session'.tools[Len(session'.tools)] = call
      /\ Len(session.tools) >= 1
           => session'.tools[Len(session'.tools) - 1] = session.tools[Len(session.tools)]
  BY <1>2
<1>5. QED
  BY <1>2, <1>3, <1>4, SMTT(30) DEF EndsWithHandled, RepeatInv

\* A call whose result is not recorded asks nothing of the history.
LEMMA UnrecordedFollows ==
  ASSUME TypeOK, NEW ran \in BOOLEAN, Handle(ran, FALSE)
  PROVE  EndsWithHandled(session.tools)' /\ EndsWithHandled(saved.tools)'
<1>1. handled \in Seq(Handlings) /\ Len(handled) \in Nat
  BY DEF TypeOK
<1>2. ~handled'[Len(handled')].recorded
  BY <1>1 DEF Handle
<1>3. QED
  BY <1>2 DEF EndsWithHandled

\* A call that is cut off leaves what is known of repeated calls alone.
LEMMA CutOffRepeats ==
  ASSUME TypeOK, RepeatInv, CutOff, session' \in {session, saved}, saved' = saved
  PROVE  RepeatInv'
<1>1. CASE UNCHANGED handled
  BY <1>1 DEF RepeatInv, EndsWithHandled, NoThirdRepeat, RanTwice
<1>2. CASE Handle(TRUE, FALSE)
  BY <1>2, HandledRepeats, UnrecordedFollows DEF RepeatInv
<1>3. QED
  BY <1>1, <1>2 DEF CutOff

\* Every step keeps what is known of repeated calls.
LEMMA RepeatsPreserved == IInv /\ [Next]_vars => RepeatInv'
<1> SUFFICES ASSUME IInv, [Next]_vars PROVE RepeatInv'
  OBVIOUS
<1>0. TypeOK /\ RepeatInv /\ PlaceInv /\ session \in Histories
  BY DEF IInv, TypeOK
<1>1. ASSUME NewCheckpoint
      PROVE  session'.tools = session.tools
  BY <1>0, <1>1 DEF NewCheckpoint, Histories
<1>2. ASSUME UNCHANGED handled, session'.tools \in {session.tools, saved.tools},
             saved'.tools \in {session.tools, saved.tools, session'.tools}
      PROVE  RepeatInv'
  BY <1>0, <1>2 DEF RepeatInv, EndsWithHandled, NoThirdRepeat, RanTwice
<1>3. CASE Writes
  <2>1. session'.tools = session.tools /\ saved' \in {saved, session, session'}
    BY <1>1, <1>3
    DEF Writes, Prompt, ModelRetries, AfterAnswer, Persist, WriteTask, Checkpoint, Record,
        files
  <2>2. UNCHANGED handled
    BY <1>0, <1>3, WritesKeepTask
  <2>3. QED
    BY <1>2, <2>1, <2>2
<1>4. CASE ExecuteTool
  <2>1. ToolItem(TRUE) /\ saved' = session' /\ call \in ToolCalls
    BY <1>0, <1>4 DEF ExecuteTool, PlaceInv
  <2>2. EndsWithHandled(session.tools)'
    BY <1>0, <2>1, RecordedFollows
  <2>3. NoThirdRepeat'
    BY <1>0, <2>1, HandledRepeats DEF ToolItem
  <2>4. QED
    BY <2>1, <2>2, <2>3 DEF RepeatInv, EndsWithHandled
<1>5. CASE ObserveCancel \/ Crash
  BY <1>0, <1>5, CutOffRepeats DEF ObserveCancel, End, Crash, files
<1>6. CASE StoreFails
  <2>1. saved' = saved
    BY <1>6 DEF StoreFails, files
  <2>2. CASE CutOff /\ UNCHANGED session
    BY <1>0, <2>1, <2>2, CutOffRepeats
  <2>3. CASE ToolItem(FALSE)
    BY <1>0, <2>3, HandledRepeats, UnrecordedFollows DEF ToolItem, RepeatInv
  <2>4. CASE NewCheckpoint /\ UNCHANGED handled
    BY <1>1, <1>2, <2>1, <2>4
  <2>5. QED
    BY <1>6, <2>2, <2>3, <2>4 DEF StoreFails
<1>7. CASE Attempt \/ ModelCalls \/ ModelAnswers \/ ModelFails \/ LimitReached
           \/ Announce \/ Report \/ Ask \/ Cancel \/ UNCHANGED vars
  <2>1. session' \in {session, saved} /\ saved' \in {saved, session, session'}
        /\ UNCHANGED handled
    BY <1>7
    DEF Attempt, ModelCalls, ModelAnswers, ModelFails, LimitReached, End,
        Announce, Report, Ask, Cancel, vars, files
  <2>2. QED
    BY <1>2, <2>1
<1>8. QED
  BY <1>3, <1>4, <1>5, <1>6, <1>7 DEF Next, LoopStep, Writes

-----------------------------------------------------------------------------
(* The theorems.                                                            *)

\* The types, the place of the loop, the files, the end of a run and the
\* repeated calls hold together in every reachable state.
THEOREM Invariant == Spec => []IInv
<1>1. Init => IInv
  BY InitIInv
<1>2. IInv /\ [Next]_vars => IInv'
  BY TypesPreserved, PlacesPreserved, FilesPreserved, EndsPreserved, RepeatsPreserved DEF IInv
<1>3. QED
  BY <1>1, <1>2, PTL DEF Spec

\* Every variable keeps its type; the counters keep their limits.
THEOREM TypeCorrect == Spec => []TypeOK
<1>1. IInv => TypeOK
  BY DEF IInv
<1>2. QED
  BY <1>1, Invariant, PTL

\* A stopped run names the limit that stopped it.
THEOREM StopReasons == Spec => []StopReasonTrue
<1>1. IInv => StopReasonTrue
  BY DEF IInv, PlaceInv
<1>2. QED
  BY <1>1, Invariant, PTL

\* A crash at any point of a run loses at most the tool step under way from
\* task_state.json, and no model request.
THEOREM CrashLoss == Spec => []CrashLosesOneStep
<1>1. IInv => CrashLosesOneStep
  <2> SUFFICES ASSUME IInv, Working PROVE disk.attempts = task.attempts /\ task.steps - disk.steps \in {0, 1}
    BY DEF CrashLosesOneStep
  <2>1. disk.attempts = task.attempts /\ (disk.steps = task.steps \/ disk.steps + 1 = task.steps)
    BY DEF IInv, FileInv
  <2>2. task.steps \in Nat /\ disk.steps \in Nat
    BY DEF IInv, FileInv, TypeOK, Tasks
  <2>3. QED
    BY <2>1, <2>2
<1>2. QED
  BY <1>1, Invariant, PTL

\* task_state.json names no checkpoint that the session file lacks.
THEOREM CheckpointsKnown == Spec => []CheckpointKnown
<1>1. IInv => CheckpointKnown
  BY DEF IInv, FileInv
<1>2. QED
  BY <1>1, Invariant, PTL

\* The status on disk is the one the terminal event and the report tell.
THEOREM EndsDurable == Spec => []EndIsDurable
<1>1. IInv => EndIsDurable
  BY DEF IInv, EndInv
<1>2. QED
  BY <1>1, Invariant, PTL

\* A call that ran twice in a row, and was recorded both times, is not run a
\* third time: not after parse failures, in the next run, or after a crash.
THEOREM NoRepeats == Spec => []NoThirdRepeat
<1>1. IInv => NoThirdRepeat
  BY DEF IInv, RepeatInv
<1>2. QED
  BY <1>1, Invariant, PTL

=============================================================================
