-------------------------- MODULE RunServiceProofs --------------------------
(***************************************************************************)
(* For any sessions, runs and kinds of runs: the types of RunService, its  *)
(* slot discipline, the ownership of an agent's controls and the consent   *)
(* for risky tools, from one inductive invariant; the implementation of    *)
(* SessionRuns; and, from a second inductive invariant, the order of the   *)
(* events in a run's list and the one event that ends it.                  *)
(***************************************************************************)
EXTENDS RunService, FiniteSetTheorems, TLAPS

-----------------------------------------------------------------------------
(* The inductive invariant.                                                 *)

\* How far the thread is and what the status says go together.
RunningPcs == AskPcs \cup {"prepare", "record", "check", "raiseCancelled", "raiseFailed"}

PlaceOK(r) ==
  /\ pc[r] = "idle" <=> status[r] = "none"
  /\ pc[r] \in {"registered", "ready"} => status[r] = "starting"
  /\ pc[r] \in RunningPcs => status[r] = "running"
  /\ pc[r] \in {"emitCancelled", "emitFailed", "message", "completed"}
       => status[r] \in Terminal
  /\ pc[r] \in {"final", "done"} => status[r] \in Terminal \cup {"stopped"}
  /\ pc[r] # "idle" => home[r] \in Sessions
  /\ pc[r] \notin {"idle", "registered"} => controls[home[r]] \in Runs

\* The task of a run that is through its loop has a final status.
TaskOK(r) ==
  pc[r] \in {"asked", "completing"} => task[home[r]].status \in Terminal \cup {"stopped"}

\* A call under way has a number; what the service holds as a decision was
\* sent, and a rule comes from an "always allow".
CallPcs == {"checkRule", "locking", "waiting", "woken", "cleared", "tooling"}

CallOK(r) ==
  /\ pc[r] \in CallPcs => tools[r] \in Calls
  /\ \A n \in Calls :
       /\ earlyDecisions[r][n] # "none" => earlyDecisions[r][n] \in sent[r][n]
       /\ approvals[r][n] \in Decisions => approvals[r][n] \in sent[r][n]

RuleOK == rules => \E q \in Runs, m \in Calls : "allow_always" \in sent[q][m]

SlotInv ==
  /\ \A r \in Runs : PlaceOK(r)
  /\ \A r \in Runs : TaskOK(r)
  /\ LiveRunHoldsSlot
  /\ SlotNamesUnfinishedRun
  /\ ControlsOwned

ConsentInv ==
  /\ \A r \in Runs : CallOK(r)
  /\ RuleOK
  /\ ToolNeedsConsent

IInv == TypeOK /\ SlotInv /\ ConsentInv

-----------------------------------------------------------------------------
(* Events: what one EmitAs does to the types of the three event variables.  *)

EventTypesOK ==
  /\ sequence \in [Runs -> Nat]
  /\ events \in [Runs -> Seq(Events)]
  /\ emitted \in [Runs -> Seq(EventTypes)]

\* The types after an event is recorded.
LEMMA EmitTypes ==
  ASSUME EventTypesOK, NEW r \in Runs, NEW owner \in Runs,
         NEW type \in EventTypes, Listener(r) \in Runs, EmitAs(r, owner, type)
  PROVE  EventTypesOK'
<1> DEFINE h == Listener(r)
           n == sequence[owner] + 1
           e1 == [type |-> "retrieval.citations", run |-> h, sequence |-> n]
           e2 == [type |-> type, run |-> owner, sequence |-> n + 1]
           e3 == [type |-> type, run |-> owner, sequence |-> n]
<1>1. n \in Nat
  BY DEF EventTypesOK
<1>2. e1 \in Events /\ e2 \in Events /\ e3 \in Events
  BY <1>1 DEF Events, EventTypes
<1>3. EventRecords(h, owner, type, n) \in Seq(Events)
  <2>1. <<e1, e2>> \in Seq(Events) /\ <<e3>> \in Seq(Events)
    BY <1>2
  <2>2. QED
    BY <2>1 DEF EventRecords
<1>4. events' \in [Runs -> Seq(Events)]
  <2>1. events[h] \o EventRecords(h, owner, type, n) \in Seq(Events)
    BY <1>3 DEF EventTypesOK
  <2>2. events' = [events EXCEPT ![h] = events[h] \o EventRecords(h, owner, type, n)]
    BY DEF EmitAs
  <2>3. QED
    BY <2>1, <2>2 DEF EventTypesOK
<1>5. sequence' \in [Runs -> Nat]
  <2> DEFINE numbered == [sequence EXCEPT ![owner] = n]
  <2>1. numbered \in [Runs -> Nat] /\ n + 1 \in Nat
    BY <1>1 DEF EventTypesOK
  <2>2. [numbered EXCEPT ![h] = n + 1] \in [Runs -> Nat]
    BY <2>1
  <2>3. sequence' = IF AddsCitations(h, type)
                    THEN [numbered EXCEPT ![h] = n + 1] ELSE numbered
    BY DEF EmitAs
  <2> HIDE DEF numbered
  <2>4. QED
    BY <2>1, <2>2, <2>3
<1>6. emitted' \in [Runs -> Seq(EventTypes)]
  <2>1. Append(emitted[owner], type) \in Seq(EventTypes)
    BY DEF EventTypesOK
  <2>2. QED
    BY <2>1 DEF EmitAs, EventTypesOK
<1>7. QED
  BY <1>4, <1>5, <1>6 DEF EventTypesOK

\* A thread past its configuration emits under its own run's id, or under the
\* agent's current task, which inside the loop is its own run's.
LEMMA EmitOK ==
  ASSUME IInv, NEW r \in Runs, pc[r] \notin {"idle", "registered"},
         NEW type \in EventTypes, Emit(r, type)
  PROVE  EventTypesOK'
<1>1. EventTypesOK /\ Listener(r) \in Runs
  BY DEF IInv, SlotInv, TypeOK, EventTypesOK, PlaceOK, Listener
<1>2. QED
  BY <1>1, EmitTypes DEF Emit

\* An event of the task keeps the types of the event lists.
LEMMA EmitTaskOK ==
  ASSUME IInv, NEW r \in Runs, pc[r] \in AskPcs \ {"ask"},
         NEW type \in EventTypes, EmitTask(r, type)
  PROVE  EventTypesOK'
<1>1. EventTypesOK /\ Listener(r) \in Runs
  BY DEF IInv, SlotInv, TypeOK, EventTypesOK, PlaceOK, Listener, AskPcs
<1>2. task[home[r]].run \in Runs
  BY DEF IInv, SlotInv, ControlsOwned
<1>3. QED
  BY <1>1, <1>2, EmitTypes DEF EmitTask

-----------------------------------------------------------------------------
(* Types.                                                                   *)

OtherTypesOK ==
  /\ home \in [Runs -> Sessions \cup {None}]
  /\ kind \in [Runs -> AllKinds \cup {"none"}]
  /\ status \in [Runs -> Statuses]
  /\ cancelled \in [Runs -> BOOLEAN]
  /\ activeSessions \in [Sessions -> Runs \cup {None}]
  /\ controls \in [Sessions -> Runs \cup {None}]
  /\ task \in [Sessions -> [run : Runs \cup {None}, status : Statuses]]
  /\ pc \in [Runs -> Pcs]
  /\ tools \in [Runs -> 0 .. MaxTools]
  /\ approvals \in [Runs -> [Calls -> Waiters]]
  /\ earlyDecisions \in [Runs -> [Calls -> Decisions \cup {"none"}]]
  /\ rules \in BOOLEAN
  /\ sent \in [Runs -> [Calls -> SUBSET Decisions]]

\* The types in two halves.
LEMMA TypesSplit ==
  /\ TypeOK => OtherTypesOK /\ EventTypesOK
  /\ OtherTypesOK' /\ EventTypesOK' => TypeOK'
BY DEF TypeOK, OtherTypesOK, EventTypesOK

\* An update two levels deep keeps the type.
LEMMA UpdateTypes ==
  ASSUME NEW S, NEW T, NEW U, NEW f \in [S -> [T -> U]],
         NEW x \in S, NEW y \in T, NEW v \in U
  PROVE  [f EXCEPT ![x][y] = v] \in [S -> [T -> U]]
<1>1. [f[x] EXCEPT ![y] = v] \in [T -> U]
  OBVIOUS
<1>2. [f EXCEPT ![x][y] = v] = [f EXCEPT ![x] = [f[x] EXCEPT ![y] = v]]
  OBVIOUS
<1>3. QED
  BY <1>1, <1>2

\* Steps of the service keep the types.
LEMMA ServiceTypes ==
  ASSUME IInv, NEW r \in Runs, ServiceStep(r)
  PROVE  TypeOK'
<1> USE DEF OtherTypesOK, EventTypesOK, Goto, eventVars, approvalVars, serviceVars
<1>0. OtherTypesOK /\ EventTypesOK
  BY TypesSplit DEF IInv
<1>1. CASE ConfigureRunControls(r)
  <2>1. home[r] \in Sessions
    BY <1>1 DEF IInv, SlotInv, PlaceOK, ConfigureRunControls
  <2>2. QED
    BY <1>0, <1>1, <2>1, TypesSplit DEF ConfigureRunControls, Pcs
<1>2. CASE Begin(r)
  BY <1>0, <1>2, TypesSplit DEF Begin, Pcs, AskPcs, Statuses
<1>3. CASE PrepareProgress(r)
  <2>1. EventTypesOK'
    BY <1>3, EmitOK DEF PrepareProgress, EventTypes
  <2>2. QED
    BY <1>0, <1>3, <2>1, TypesSplit DEF PrepareProgress
<1>4. CASE PrepareEnds(r)
  BY <1>0, <1>4, TypesSplit, ZenonT(40) DEF PrepareEnds, Pcs, AskPcs
<1>5. CASE TakeTaskStatus(r)
  <2>1. task[home[r]].status \in Statuses
    BY <1>0, <1>5 DEF TakeTaskStatus, IInv, SlotInv, PlaceOK
  <2>2. QED
    BY <1>0, <1>5, <2>1, TypesSplit DEF TakeTaskStatus, Pcs
<1>6. CASE WriteFails(r)
  BY <1>0, <1>6, TypesSplit DEF WriteFails, Pcs
<1>7. CASE SetRaised(r)
  BY <1>0, <1>7, TypesSplit DEF SetRaised, Pcs, Statuses, Terminal
<1>8. CASE EmitCancelled(r)
  <2>1. EventTypesOK'
    BY <1>8, EmitOK DEF EmitCancelled, EventTypes
  <2>2. QED
    BY <1>0, <1>8, <2>1, TypesSplit DEF EmitCancelled, Pcs
<1>9. CASE EmitFailed(r)
  <2>1. EventTypesOK'
    BY <1>0, <1>9, EmitOK DEF EmitFailed, EventTypes
  <2>2. QED
    BY <1>0, <1>9, <2>1, TypesSplit DEF EmitFailed, Pcs
<1>10. CASE Finish(r)
  <2>1. activeSessions' \in [Sessions -> Runs \cup {None}]
    BY <1>0, <1>10 DEF Finish, ReleaseSlot
  <2>2. approvals' \in [Runs -> [Calls -> Waiters]]
    BY <1>0, <1>10 DEF Finish, Wake, Waiters
  <2>3. QED
    BY <1>0, <1>10, <2>1, <2>2, TypesSplit DEF Finish, Pcs
<1>11. CASE Record(r)
  <2>1. EventTypesOK'
    BY <1>0, <1>11, EmitOK DEF Record, EventTypes
  <2>2. QED
    BY <1>0, <1>11, <2>1, TypesSplit DEF Record, Pcs
<1>12. CASE CheckStatic(r)
  BY <1>0, <1>12, TypesSplit, ZenonT(40) DEF CheckStatic, Pcs, Statuses, Terminal
<1>13. CASE AnswerStatic(r)
  <2>1. EventTypesOK'
    BY <1>13, EmitOK DEF AnswerStatic, EventTypes
  <2>2. QED
    BY <1>0, <1>13, <2>1, TypesSplit DEF AnswerStatic, Pcs
<1>14. QED
  BY <1>1, <1>2, <1>3, <1>4, <1>5, <1>6, <1>7, <1>8, <1>9, <1>10, <1>11, <1>12,
     <1>13 DEF ServiceStep

\* Steps of the agent loop keep the types.
LEMMA LoopTypes ==
  ASSUME IInv, NEW r \in Runs, LoopStep(r)
  PROVE  TypeOK'
<1> USE DEF OtherTypesOK, EventTypesOK, Goto, eventVars, approvalVars, serviceVars
<1>0. OtherTypesOK /\ EventTypesOK
  BY TypesSplit DEF IInv
<1>a. pc[r] \in AskPcs /\ home[r] \in Sessions
  BY DEF LoopStep, AskStarts, RequestModel, ObserveCancel, FinishCancelled, ModelFails,
         FinalAnswer, Completes, LimitReached, AtLimit, CompletionRefused, AskRaises, AskPcs, IInv, SlotInv, PlaceOK
<1>b. ASSUME NEW st \in Statuses, SetTask(r, st)
      PROVE  task' \in [Sessions -> [run : Runs \cup {None}, status : Statuses]]
  BY <1>0, <1>a, <1>b, ZenonT(40) DEF SetTask
<1>1. CASE AskStarts(r)
  <2>1. EventTypesOK'
    BY <1>1, EmitOK DEF AskStarts, EventTypes
  <2>2. task' \in [Sessions -> [run : Runs \cup {None}, status : Statuses]]
    BY <1>0, <1>1, <1>a DEF AskStarts, Statuses
  <2>3. QED
    BY <1>0, <1>1, <2>1, <2>2, TypesSplit DEF AskStarts, Pcs, AskPcs
<1>2. CASE RequestModel(r)
  BY <1>0, <1>2, TypesSplit DEF RequestModel, Pcs, AskPcs
<1>3. CASE ObserveCancel(r)
  BY <1>0, <1>3, TypesSplit DEF ObserveCancel, Pcs, AskPcs
<1>4. CASE FinishCancelled(r)
  <2>1. EventTypesOK'
    BY <1>4, <1>a, EmitTaskOK DEF FinishCancelled, EventTypes
  <2>2. QED
    BY <1>0, <1>4, <1>b, <2>1, TypesSplit
    DEF FinishCancelled, Pcs, AskPcs, Statuses, Terminal
<1>5. CASE ModelFails(r)
  <2>1. EventTypesOK'
    BY <1>5, <1>a, EmitTaskOK DEF ModelFails, EventTypes
  <2>2. QED
    BY <1>0, <1>5, <1>b, <2>1, TypesSplit
    DEF ModelFails, Pcs, AskPcs, Statuses, Terminal
<1>6. CASE FinalAnswer(r)
  <2>1. EventTypesOK'
    BY <1>6, <1>a, EmitTaskOK DEF FinalAnswer, EventTypes
  <2>2. QED
    BY <1>0, <1>6, <1>b, <2>1, TypesSplit
    DEF FinalAnswer, Pcs, AskPcs, Statuses, Terminal
<1>7. CASE Completes(r)
  <2>1. EventTypesOK'
    BY <1>7, <1>a, EmitTaskOK DEF Completes, EventTypes
  <2>2. QED
    BY <1>0, <1>7, <2>1, TypesSplit DEF Completes, Pcs, AskPcs
<1>8. CASE LimitReached(r)
  <2>1. EventTypesOK'
    BY <1>8, <1>a, EmitTaskOK DEF LimitReached, AtLimit, EventTypes
  <2>2. QED
    BY <1>0, <1>8, <1>b, <2>1, TypesSplit
    DEF LimitReached, Pcs, AskPcs, Statuses, Terminal
<1>9. CASE AskRaises(r)
  BY <1>0, <1>9, TypesSplit DEF AskRaises, Pcs, AskPcs
<1>10. CASE CompletionRefused(r)
  <2>1. EventTypesOK'
    <3>1. task[home[r]].run \in Runs
      BY <1>10, <1>a DEF CompletionRefused, AtLimit, IInv, SlotInv, ControlsOwned, AskPcs
    <3>2. /\ sequence' = [sequence EXCEPT ![task[home[r]].run] = @ + 1]
          /\ emitted' = [emitted EXCEPT ![task[home[r]].run] = Append(@, "run.completed")]
          /\ events' = events
      BY <1>10 DEF CompletionRefused, CitationsRefused
    <3>3. QED
      BY <1>0, <3>1, <3>2 DEF EventTypes
  <2>2. task' \in [Sessions -> [run : Runs \cup {None}, status : Statuses]]
    BY <1>0, <1>10, <1>b DEF CompletionRefused, Statuses
  <2>3. QED
    BY <1>0, <1>10, <2>1, <2>2, TypesSplit DEF CompletionRefused, Pcs, AskPcs
<1>11. QED
  BY <1>1, <1>2, <1>3, <1>4, <1>5, <1>6, <1>7, <1>8, <1>9, <1>10 DEF LoopStep

\* A decision of the service's, or of a client's, leads on to the tool or back
\* to the loop.
LEMMA DecidedTypes ==
  ASSUME IInv, NEW r \in Runs, pc[r] \in AskPcs \ {"ask"}, NEW decision,
         Decided(r, decision)
  PROVE  EventTypesOK' /\ pc' \in [Runs -> Pcs] /\ rules' \in BOOLEAN
<1>1. EventTypesOK'
  <2>1. CASE EmitTask(r, "tool.denied")
    BY <2>1, EmitTaskOK DEF EventTypes
  <2>2. CASE UNCHANGED eventVars
    BY <2>2, TypesSplit DEF IInv, EventTypesOK, eventVars
  <2>3. QED
    BY <2>1, <2>2 DEF Decided
<1>2. QED
  BY <1>1 DEF Decided, Goto, IInv, TypeOK, Pcs, AskPcs

\* Steps of a tool call keep the types.
LEMMA ToolTypes ==
  ASSUME IInv, NEW r \in Runs, ToolStep(r)
  PROVE  TypeOK'
<1> USE DEF OtherTypesOK, EventTypesOK, Goto, eventVars, approvalVars, serviceVars
<1>0. OtherTypesOK /\ EventTypesOK
  BY TypesSplit DEF IInv
<1>a. pc[r] \in AskPcs \ {"ask"}
  BY DEF ToolStep, RequestTool, CheckRule, AwaitDecision, WaitCancelled, WaitReady,
         TakeDecision, StartTool, ToolReturns, ToolCancelled, AskPcs
<1>1. CASE RequestTool(r)
  <2>1. EventTypesOK'
    BY <1>0, <1>1, <1>a, EmitTaskOK DEF RequestTool, EventTypes
  <2>2. tools' \in [Runs -> 0 .. MaxTools]
    BY <1>0, <1>1, ConstantsAssumption DEF RequestTool
  <2>3. QED
    BY <1>0, <1>1, <2>1, <2>2, TypesSplit DEF RequestTool, Pcs, AskPcs
<1>2. CASE CheckRule(r)
  BY <1>0, <1>2, TypesSplit DEF CheckRule, Pcs, AskPcs
<1>3. CASE AwaitDecision(r)
  <2> DEFINE n == tools[r]
  <2>1. n \in Calls
    BY <1>3 DEF AwaitDecision, IInv, ConsentInv, CallOK, CallPcs
  <2>2. CASE earlyDecisions[r][n] # "none"
    <3>1. Decided(r, earlyDecisions[r][n])
      BY <1>3, <2>2 DEF AwaitDecision
    <3>2. EventTypesOK' /\ pc' \in [Runs -> Pcs] /\ rules' \in BOOLEAN
      BY <3>1, <1>a, DecidedTypes
    <3>3. earlyDecisions' \in [Runs -> [Calls -> Decisions \cup {"none"}]]
      <4>1. earlyDecisions' = [earlyDecisions EXCEPT ![r][n] = "none"]
        BY <1>3, <2>2 DEF AwaitDecision
      <4>2. QED
        BY <1>0, <2>1, <4>1, UpdateTypes
    <3>4. QED
      BY <1>0, <1>3, <2>2, <3>2, <3>3, TypesSplit DEF AwaitDecision
  <2>3. CASE earlyDecisions[r][n] = "none"
    <3>1. approvals' \in [Runs -> [Calls -> Waiters]]
      <4>1. approvals' = [approvals EXCEPT ![r][n] = "open"] /\ "open" \in Waiters
        BY <1>3, <2>3 DEF AwaitDecision, Waiters
      <4>2. QED
        BY <1>0, <2>1, <4>1, UpdateTypes
    <3>2. QED
      BY <1>0, <1>3, <2>3, <3>1, TypesSplit DEF AwaitDecision, Pcs, AskPcs
  <2>4. QED
    BY <2>2, <2>3
<1>4. CASE WaitCancelled(r)
  BY <1>0, <1>4, TypesSplit DEF WaitCancelled, Pcs, AskPcs
<1>5. CASE WaitReady(r)
  BY <1>0, <1>5, TypesSplit DEF WaitReady, Pcs, AskPcs
<1>6. CASE TakeDecision(r)
  <2>1. EventTypesOK' /\ pc' \in [Runs -> Pcs] /\ rules' \in BOOLEAN
    BY <1>6, <1>a, DecidedTypes DEF TakeDecision
  <2>2. approvals' \in [Runs -> [Calls -> Waiters]]
    BY <1>0, <1>6 DEF TakeDecision, Waiters
  <2>3. QED
    BY <1>0, <1>6, <2>1, <2>2, TypesSplit DEF TakeDecision
<1>7. CASE StartTool(r)
  <2>1. EventTypesOK'
    BY <1>7, <1>a, EmitTaskOK DEF StartTool, EventTypes
  <2>2. QED
    BY <1>0, <1>7, <2>1, TypesSplit DEF StartTool, Pcs, AskPcs
<1>8. CASE ToolReturns(r)
  <2>1. EventTypesOK'
    BY <1>8, <1>a, EmitTaskOK DEF ToolReturns, EventTypes
  <2>2. QED
    BY <1>0, <1>8, <2>1, TypesSplit DEF ToolReturns, Pcs, AskPcs
<1>9. CASE ToolCancelled(r)
  <2>1. EventTypesOK'
    BY <1>9, <1>a, EmitTaskOK DEF ToolCancelled, EventTypes
  <2>2. QED
    BY <1>0, <1>9, <2>1, TypesSplit DEF ToolCancelled, Pcs, AskPcs
<1>10. QED
  BY <1>1, <1>2, <1>3, <1>4, <1>5, <1>6, <1>7, <1>8, <1>9 DEF ToolStep

\* The end of a wait keeps the types.
LEMMA WakeTypes ==
  ASSUME NEW waiters \in [Calls -> Waiters]
  PROVE  Wake(waiters) \in [Calls -> Waiters]
BY DEF Wake, Waiters

\* Steps of the client keep the types.
LEMMA ClientTypes ==
  ASSUME IInv, ClientStep
  PROVE  TypeOK'
<1> USE DEF OtherTypesOK, EventTypesOK, Goto, eventVars, approvalVars, serviceVars
<1>0. OtherTypesOK /\ EventTypesOK
  BY TypesSplit DEF IInv
<1>a. ASSUME NEW r \in Runs, CancelRun(r)
      PROVE  TypeOK'
  <2>1. approvals' \in [Runs -> [Calls -> Waiters]]
    BY <1>0, <1>a, WakeTypes DEF CancelRun
  <2>2. QED
    BY <1>0, <1>a, <2>1, TypesSplit DEF CancelRun
<1>1. ASSUME NEW r \in Runs, NEW s \in Sessions, NEW k \in Kinds, Register(r, s, k)
      PROVE  TypeOK'
  BY <1>0, <1>1, TypesSplit, ConstantsAssumption DEF Register, Pcs, Statuses
<1>2. ASSUME NEW s \in Sessions, CancelSession(s)
      PROVE  TypeOK'
  <2>1. activeSessions[s] \in Runs
    BY <1>0, <1>2 DEF CancelSession, SlotFree
  <2>2. QED
    BY <1>2, <1>a, <2>1 DEF CancelSession
<1>3. CASE Shutdown
  <2>1. approvals' \in [Runs -> [Calls -> Waiters]]
    BY <1>0, <1>3, WakeTypes DEF Shutdown
  <2>2. cancelled' \in [Runs -> BOOLEAN]
    BY <1>0, <1>3 DEF Shutdown
  <2>3. QED
    BY <1>0, <1>3, <2>1, <2>2, TypesSplit DEF Shutdown
<1>4. ASSUME NEW r \in Runs, NEW n \in Calls, NEW d \in Answers, ResolveApproval(r, n, d)
      PROVE  TypeOK'
  <2>1. d \in Decisions
    BY ConstantsAssumption
  <2>2. /\ approvals' \in [Runs -> [Calls -> Waiters]]
        /\ earlyDecisions' \in [Runs -> [Calls -> Decisions \cup {"none"}]]
    <3>1. /\ [approvals EXCEPT ![r][n] = d] \in [Runs -> [Calls -> Waiters]]
          /\ [earlyDecisions EXCEPT ![r][n] = d]
               \in [Runs -> [Calls -> Decisions \cup {"none"}]]
      BY <1>0, <2>1, UpdateTypes DEF Waiters
    <3>2. QED
      BY <1>0, <1>4, <3>1 DEF ResolveApproval
  <2>3. sent' \in [Runs -> [Calls -> SUBSET Decisions]]
    BY <1>0, <1>4, <2>1 DEF ResolveApproval
  <2>4. QED
    BY <1>0, <1>4, <2>2, <2>3, TypesSplit DEF ResolveApproval
<1>5. CASE DeleteRule
  BY <1>0, <1>5, TypesSplit DEF DeleteRule
<1>6. QED
  BY <1>a, <1>1, <1>2, <1>3, <1>4, <1>5 DEF ClientStep

\* Every step keeps the types.
LEMMA TypesPreserved ==
  ASSUME IInv, [Next]_vars
  PROVE  TypeOK'
<1>1. CASE ClientStep
  BY <1>1, ClientTypes
<1>2. ASSUME NEW r \in Runs, ThreadStep(r)
      PROVE  TypeOK'
  BY <1>2, ServiceTypes, LoopTypes, ToolTypes DEF ThreadStep
<1>3. CASE UNCHANGED vars
  BY <1>3 DEF vars, serviceVars, approvalVars, eventVars, IInv, TypeOK
<1>4. QED
  BY <1>1, <1>2, <1>3 DEF Next

-----------------------------------------------------------------------------
(* The slot of a session and the controls of its agent.                     *)

\* Where the thread of a live run can be, and the one of a run that is not.
LEMMA LiveAtPlace ==
  ASSUME IInv, NEW r \in Runs
  PROVE  /\ pc[r] \in RunningPcs \cup {"registered", "ready"} => Live(r)
         /\ Live(r) => pc[r] # "idle"
BY DEF IInv, SlotInv, PlaceOK, Live, Terminal, RunningPcs, AskPcs

\* Two live runs of one session are one run.
LEMMA OneLive ==
  ASSUME IInv, NEW q \in Runs, NEW r \in Runs, Live(q), Live(r), home[q] = home[r]
  PROVE  q = r
BY DEF IInv, SlotInv, LiveRunHoldsSlot

\* A step of the loop moves its own thread, within the loop or out of it by an
\* exception, and may write the agent's task, which stays its own.
LoopFrame(r) ==
  /\ pc[r] \in AskPcs
  /\ pc'[r] \in (AskPcs \ {"ask"}) \cup {"raiseFailed"}
  /\ \A q \in Runs \ {r} : pc'[q] = pc[q]
  /\ UNCHANGED serviceVars
  /\ \A s \in Sessions \ {home[r]} : task'[s] = task[s]
  /\ pc'[r] \in AskPcs => task'[home[r]].run = r
  /\ pc'[r] \in {"asked", "completing"} =>
       task'[home[r]].status \in Terminal \cup {"stopped"}

\* The places the agent loop moves between.
LEMMA LoopMoves ==
  ASSUME IInv, NEW r \in Runs, LoopStep(r)
  PROVE  LoopFrame(r)
<1> USE DEF Goto, LoopFrame
<1>0. pc \in [Runs -> Pcs] /\ task \in [Sessions -> [run : Runs \cup {None}, status : Statuses]]
  BY DEF IInv, TypeOK
<1>a. pc[r] \in AskPcs => home[r] \in Sessions
  BY DEF IInv, SlotInv, PlaceOK, AskPcs
<1>b. pc[r] \in AskPcs \ {"ask"} => task[home[r]].run = r
  BY DEF IInv, SlotInv, ControlsOwned
<1>c. pc[r] \in {"asked", "completing"} => task[home[r]].status \in Terminal \cup {"stopped"}
  BY DEF IInv, SlotInv, TaskOK
<1>d. ASSUME NEW st, home[r] \in Sessions, SetTask(r, st), task[home[r]].run = r
      PROVE  /\ \A s \in Sessions \ {home[r]} : task'[s] = task[s]
             /\ task'[home[r]].run = r
             /\ task'[home[r]].status = st
  BY <1>0, <1>d DEF SetTask
<1>1. CASE AskStarts(r)
  BY <1>0, <1>1, <1>a DEF AskStarts, AskPcs
<1>2. CASE RequestModel(r)
  BY <1>0, <1>2, <1>a, <1>b DEF RequestModel, AskPcs
<1>3. CASE ObserveCancel(r)
  BY <1>0, <1>3, <1>a, <1>b DEF ObserveCancel, AskPcs
<1>4. CASE FinishCancelled(r)
  BY <1>0, <1>4, <1>a, <1>b, <1>d DEF FinishCancelled, AskPcs, Terminal
<1>5. CASE ModelFails(r)
  BY <1>0, <1>5, <1>a, <1>b, <1>d DEF ModelFails, AskPcs, Terminal
<1>6. CASE FinalAnswer(r)
  BY <1>0, <1>6, <1>a, <1>b, <1>d DEF FinalAnswer, AskPcs, Terminal
<1>7. CASE Completes(r)
  BY <1>0, <1>7, <1>a, <1>b, <1>c DEF Completes, AskPcs
<1>8. CASE LimitReached(r)
  BY <1>0, <1>8, <1>a, <1>b, <1>d DEF LimitReached, AtLimit, AskPcs, Terminal
<1>9. CASE AskRaises(r)
  BY <1>0, <1>9, <1>a, <1>b DEF AskRaises, AskPcs
<1>10. CASE CompletionRefused(r)
  BY <1>0, <1>10, <1>a, <1>b, <1>d DEF CompletionRefused, AtLimit, AskPcs
<1>11. QED
  BY <1>1, <1>2, <1>3, <1>4, <1>5, <1>6, <1>7, <1>8, <1>9, <1>10 DEF LoopStep

\* The places a tool call moves between.
LEMMA ToolMoves ==
  ASSUME IInv, NEW r \in Runs, ToolStep(r)
  PROVE  LoopFrame(r)
<1> USE DEF Goto, LoopFrame
<1>0. pc \in [Runs -> Pcs]
  BY DEF IInv, TypeOK
<1>a. pc[r] \in AskPcs \ {"ask"} => home[r] \in Sessions /\ task[home[r]].run = r
  BY DEF IInv, SlotInv, ControlsOwned, PlaceOK, AskPcs
<1>1. CASE RequestTool(r)
  BY <1>0, <1>1, <1>a DEF RequestTool, AskPcs
<1>2. CASE CheckRule(r)
  BY <1>0, <1>2, <1>a DEF CheckRule, AskPcs
<1>3. CASE AwaitDecision(r)
  BY <1>0, <1>3, <1>a DEF AwaitDecision, Decided, AskPcs
<1>4. CASE WaitCancelled(r)
  BY <1>0, <1>4, <1>a DEF WaitCancelled, AskPcs
<1>5. CASE WaitReady(r)
  BY <1>0, <1>5, <1>a DEF WaitReady, AskPcs
<1>6. CASE TakeDecision(r)
  BY <1>0, <1>6, <1>a DEF TakeDecision, Decided, AskPcs
<1>7. CASE StartTool(r)
  BY <1>0, <1>7, <1>a DEF StartTool, AskPcs
<1>8. CASE ToolReturns(r)
  BY <1>0, <1>8, <1>a DEF ToolReturns, AskPcs
<1>9. CASE ToolCancelled(r)
  BY <1>0, <1>9, <1>a DEF ToolCancelled, AskPcs
<1>10. QED
  BY <1>1, <1>2, <1>3, <1>4, <1>5, <1>6, <1>7, <1>8, <1>9 DEF ToolStep

\* No step of the loop disturbs the slots or the controls: the thread that
\* writes the task is the session's only live one.
LEMMA LoopSlots ==
  ASSUME IInv, NEW r \in Runs, LoopFrame(r)
  PROVE  SlotInv'
<1> USE DEF LoopFrame, serviceVars
<1>0. Live(r) /\ pc[r] # "idle" /\ home[r] \in Sessions
  BY LiveAtPlace DEF RunningPcs, IInv, SlotInv, PlaceOK
<1>1. \A q \in Runs : Live(q)' <=> Live(q)
  <2>1. Live(r)'
    BY <1>0 DEF Live, AskPcs
  <2>2. QED
    BY <1>0, <2>1 DEF Live
<1>2. \A q \in Runs : PlaceOK(q)'
  <2>1. PlaceOK(r)'
    BY <1>0 DEF IInv, SlotInv, PlaceOK, RunningPcs, AskPcs
  <2>2. QED
    BY <2>1 DEF IInv, SlotInv, PlaceOK
<1>3. ASSUME NEW q \in Runs \ {r}, pc[q] \in AskPcs
      PROVE  task'[home[q]] = task[home[q]]
  <2>1. Live(q) /\ home[q] \in Sessions
    BY <1>3, LiveAtPlace DEF RunningPcs, IInv, SlotInv, PlaceOK
  <2>2. home[q] # home[r]
    BY <1>0, <2>1, OneLive
  <2>3. QED
    BY <2>1, <2>2
<1>4. \A q \in Runs : TaskOK(q)'
  BY <1>3 DEF IInv, SlotInv, TaskOK, AskPcs
<1>5. LiveRunHoldsSlot'
  BY <1>1 DEF IInv, SlotInv, LiveRunHoldsSlot
<1>6. SlotNamesUnfinishedRun'
  <2>1. pc'[r] \notin {"idle", "done"}
    BY DEF AskPcs
  <2>2. QED
    BY <2>1 DEF IInv, SlotInv, SlotNamesUnfinishedRun, TypeOK
<1>7. ControlsOwned'
  <2>1. controls[home[r]] = r
    BY <1>0 DEF IInv, SlotInv, ControlsOwned, AskPcs
  <2>2. QED
    BY <1>1, <1>3, <2>1 DEF IInv, SlotInv, ControlsOwned, AskPcs
<1>8. QED
  BY <1>2, <1>4, <1>5, <1>6, <1>7 DEF SlotInv

\* A step of the service outside the loop that leaves the slots and the
\* controls alone moves its own thread and may end its run.
ServiceFrame(r) ==
  /\ pc[r] \notin {"idle", "registered", "done"}
  /\ pc'[r] \notin {"idle", "registered", "done"} \cup (AskPcs \ {"ask"})
  /\ pc'[r] = "ready" => pc[r] = "ready"
  /\ \A q \in Runs \ {r} : pc'[q] = pc[q] /\ status'[q] = status[q]
  /\ UNCHANGED <<home, activeSessions, controls, task>>

\* The places the service's thread moves between.
LEMMA ServiceMoves ==
  ASSUME IInv, NEW r \in Runs, ServiceStep(r), ~ConfigureRunControls(r), ~Finish(r)
  PROVE  ServiceFrame(r) /\ PlaceOK(r)' /\ (Live(r)' => Live(r))
<1> USE DEF Goto, ServiceFrame, serviceVars, PlaceOK, Live
<1>0. pc \in [Runs -> Pcs] /\ status \in [Runs -> Statuses]
  BY DEF IInv, TypeOK
<1>a. PlaceOK(r)
  BY DEF IInv, SlotInv
<1>1. CASE Begin(r)
  BY <1>0, <1>1, <1>a DEF Begin, AskPcs, RunningPcs, Terminal
<1>2. CASE PrepareProgress(r)
  BY <1>0, <1>2, <1>a DEF PrepareProgress, AskPcs, RunningPcs
<1>3. CASE PrepareEnds(r)
  BY <1>0, <1>3, <1>a DEF PrepareEnds, AskPcs, RunningPcs
<1>4. CASE TakeTaskStatus(r)
  <2>1. task[home[r]].status \in Terminal \cup {"stopped"}
    BY <1>4 DEF TakeTaskStatus, IInv, SlotInv, TaskOK
  <2>2. QED
    BY <1>0, <1>4, <1>a, <2>1 DEF TakeTaskStatus, AskPcs, RunningPcs, Terminal
<1>5. CASE WriteFails(r)
  BY <1>0, <1>5, <1>a DEF WriteFails, AskPcs, RunningPcs
<1>6. CASE SetRaised(r)
  BY <1>0, <1>6, <1>a DEF SetRaised, AskPcs, RunningPcs, Terminal
<1>7. CASE EmitCancelled(r)
  BY <1>0, <1>7, <1>a DEF EmitCancelled, AskPcs, RunningPcs
<1>8. CASE EmitFailed(r)
  BY <1>0, <1>8, <1>a DEF EmitFailed, AskPcs, RunningPcs
<1>9. CASE Record(r)
  BY <1>0, <1>9, <1>a DEF Record, AskPcs, RunningPcs
<1>10. CASE CheckStatic(r)
  BY <1>0, <1>10, <1>a DEF CheckStatic, AskPcs, RunningPcs, Terminal
<1>11. CASE AnswerStatic(r)
  BY <1>0, <1>11, <1>a DEF AnswerStatic, AskPcs, RunningPcs
<1>12. QED
  BY <1>1, <1>2, <1>3, <1>4, <1>5, <1>6, <1>7, <1>8, <1>9, <1>10, <1>11
  DEF ServiceStep

\* Steps of the service keep the slots.
LEMMA ServiceSlots ==
  ASSUME IInv, NEW r \in Runs, ServiceStep(r)
  PROVE  SlotInv'
<1>1. CASE ~ConfigureRunControls(r) /\ ~Finish(r)
  <2> USE DEF ServiceFrame
  <2>0. ServiceFrame(r) /\ PlaceOK(r)' /\ (Live(r)' => Live(r))
    BY <1>1, ServiceMoves
  <2>1. \A q \in Runs : Live(q)' => Live(q)
    BY <2>0 DEF Live
  <2>2. \A q \in Runs : PlaceOK(q)'
    BY <2>0 DEF IInv, SlotInv, PlaceOK
  <2>3. \A q \in Runs : TaskOK(q)'
    BY <2>0 DEF IInv, SlotInv, TaskOK, AskPcs
  <2>4. LiveRunHoldsSlot'
    BY <2>0, <2>1 DEF IInv, SlotInv, LiveRunHoldsSlot
  <2>5. SlotNamesUnfinishedRun'
    BY <2>0 DEF IInv, SlotInv, SlotNamesUnfinishedRun, TypeOK
  <2>6. ControlsOwned'
    BY <2>0, <2>1 DEF IInv, SlotInv, ControlsOwned
  <2>7. QED
    BY <2>2, <2>3, <2>4, <2>5, <2>6 DEF SlotInv
<1>2. CASE ConfigureRunControls(r)
  <2> USE DEF ConfigureRunControls, Goto
  <2>0. /\ pc \in [Runs -> Pcs] /\ controls \in [Sessions -> Runs \cup {None}]
        /\ home[r] \in Sessions /\ Live(r)
    BY <1>2, LiveAtPlace DEF IInv, SlotInv, TypeOK, PlaceOK
  <2>1. controls'[home[r]] = r /\ \A s \in Sessions \ {home[r]} : controls'[s] = controls[s]
    BY <1>2, <2>0
  <2>2. pc'[r] = "ready" /\ \A q \in Runs \ {r} : pc'[q] = pc[q]
    BY <1>2, <2>0
  <2>3. UNCHANGED <<home, status, activeSessions, task>>
    BY <1>2
  <2>4. \A q \in Runs : Live(q)' <=> Live(q)
    BY <1>2, <2>2, <2>3 DEF Live
  <2>5. \A q \in Runs : PlaceOK(q)'
    BY <1>2, <2>0, <2>1, <2>2, <2>3 DEF IInv, SlotInv, PlaceOK, RunningPcs, AskPcs
  <2>6. \A q \in Runs : TaskOK(q)'
    BY <2>2, <2>3 DEF IInv, SlotInv, TaskOK
  <2>7. LiveRunHoldsSlot'
    BY <2>3, <2>4 DEF IInv, SlotInv, LiveRunHoldsSlot
  <2>8. SlotNamesUnfinishedRun'
    BY <2>2, <2>3 DEF IInv, SlotInv, SlotNamesUnfinishedRun, TypeOK
  <2>9. ControlsOwned'
    <3>1. ASSUME NEW q \in Runs \ {r}, Live(q)
          PROVE  controls'[home[q]] = controls[home[q]]
      <4>1. home[q] \in Sessions
        BY <3>1, LiveAtPlace DEF IInv, SlotInv, PlaceOK
      <4>2. home[q] # home[r]
        BY <2>0, <3>1, OneLive
      <4>3. QED
        BY <2>1, <4>1, <4>2
    <3>2. QED
      BY <2>1, <2>2, <2>3, <2>4, <3>1 DEF IInv, SlotInv, ControlsOwned, AskPcs
  <2>10. QED
    BY <2>5, <2>6, <2>7, <2>8, <2>9 DEF SlotInv
<1>3. CASE Finish(r)
  <2> USE DEF Finish, Goto, ReleaseSlot
  <2>0. /\ pc \in [Runs -> Pcs] /\ activeSessions \in [Sessions -> Runs \cup {None}]
        /\ home[r] \in Sessions
    BY <1>3 DEF IInv, SlotInv, TypeOK, PlaceOK
  <2>1. pc'[r] = "done" /\ \A q \in Runs \ {r} : pc'[q] = pc[q]
    BY <1>3, <2>0
  <2>2. UNCHANGED <<home, status, controls, task>>
    BY <1>3
  <2>3. \A s \in Sessions : activeSessions'[s] = IF s = home[r] /\ activeSessions[s] = r
                                               THEN None ELSE activeSessions[s]
    BY <1>3, <2>0
  <2>4. ~Live(r)' /\ \A q \in Runs \ {r} : Live(q)' <=> Live(q)
    BY <2>1, <2>2 DEF Live
  <2>5. \A q \in Runs : PlaceOK(q)'
    BY <1>3, <2>1, <2>2 DEF IInv, SlotInv, PlaceOK, RunningPcs, AskPcs
  <2>6. \A q \in Runs : TaskOK(q)'
    BY <2>1, <2>2 DEF IInv, SlotInv, TaskOK
  <2>7. LiveRunHoldsSlot'
    <3>1. ASSUME NEW q \in Runs, Live(q)'
          PROVE  activeSessions'[home[q]] = q
      <4>1. q # r /\ Live(q) /\ activeSessions[home[q]] = q
        BY <2>4, <3>1 DEF IInv, SlotInv, LiveRunHoldsSlot
      <4>2. home[q] \in Sessions
        BY <4>1, LiveAtPlace DEF IInv, SlotInv, PlaceOK
      <4>3. QED
        BY <2>3, <4>1, <4>2
    <3>2. QED
      BY <2>2, <3>1 DEF LiveRunHoldsSlot
  <2>8. SlotNamesUnfinishedRun'
    <3>1. ASSUME NEW s \in Sessions, activeSessions'[s] # None
          PROVE  /\ home[activeSessions'[s]] = s
                 /\ pc'[activeSessions'[s]] \notin {"idle", "done"}
      <4>1. /\ activeSessions'[s] = activeSessions[s]
            /\ s = home[r] => activeSessions[s] # r
        BY <2>3, <3>1
      <4>2. activeSessions[s] \in Runs /\ home[activeSessions[s]] = s
        BY <2>0, <3>1, <4>1 DEF IInv, SlotInv, SlotNamesUnfinishedRun
      <4>3. activeSessions[s] # r
        BY <4>1, <4>2
      <4>4. QED
        BY <2>1, <3>1, <4>1, <4>2, <4>3 DEF IInv, SlotInv, SlotNamesUnfinishedRun
    <3>2. QED
      BY <2>2, <3>1 DEF SlotNamesUnfinishedRun
  <2>9. ControlsOwned'
    BY <2>1, <2>2, <2>4 DEF IInv, SlotInv, ControlsOwned, AskPcs
  <2>10. QED
    BY <2>5, <2>6, <2>7, <2>8, <2>9 DEF SlotInv
<1>4. QED
  BY <1>1, <1>2, <1>3

\* A client that does not start a run changes none of the slots' state.
LEMMA QuietSlots ==
  ASSUME IInv, UNCHANGED <<home, status, activeSessions, controls, task, pc>>
  PROVE  SlotInv'
BY DEF IInv, SlotInv, PlaceOK, TaskOK, LiveRunHoldsSlot, SlotNamesUnfinishedRun,
       ControlsOwned, Live, TypeOK

\* Steps of the client keep the slots.
LEMMA ClientSlots ==
  ASSUME IInv, ClientStep
  PROVE  SlotInv'
<1>1. ASSUME NEW r \in Runs, NEW s \in Sessions, NEW k \in Kinds, Register(r, s, k)
      PROVE  SlotInv'
  <2> USE DEF Register, Goto
  <2>0. /\ pc \in [Runs -> Pcs] /\ status \in [Runs -> Statuses]
        /\ home \in [Runs -> Sessions \cup {None}]
        /\ activeSessions \in [Sessions -> Runs \cup {None}]
    BY DEF IInv, TypeOK
  <2>1. /\ pc'[r] = "registered" /\ status'[r] = "starting" /\ home'[r] = s
        /\ activeSessions'[s] = r
        /\ \A q \in Runs \ {r} : pc'[q] = pc[q] /\ status'[q] = status[q] /\ home'[q] = home[q]
        /\ \A z \in Sessions \ {s} : activeSessions'[z] = activeSessions[z]
        /\ UNCHANGED <<controls, task>>
    BY <1>1, <2>0
  <2>2. Live(r)' /\ \A q \in Runs \ {r} : Live(q)' <=> Live(q)
    BY <2>1 DEF Live, Terminal
  <2>3. \A q \in Runs : PlaceOK(q)'
    BY <2>1 DEF IInv, SlotInv, PlaceOK, RunningPcs, AskPcs
  <2>4. \A q \in Runs : TaskOK(q)'
    BY <2>1 DEF IInv, SlotInv, TaskOK
  <2>5. LiveRunHoldsSlot'
    <3>1. ASSUME NEW q \in Runs \ {r}, Live(q)
          PROVE  activeSessions'[home[q]] = q
      <4>1. home[q] \in Sessions /\ activeSessions[home[q]] = q
        BY <3>1, LiveAtPlace DEF IInv, SlotInv, PlaceOK, LiveRunHoldsSlot
      <4>2. home[q] # s
        BY <1>1, <3>1, <4>1, ConstantsAssumption DEF SlotFree, Live
      <4>3. QED
        BY <2>1, <4>1, <4>2
    <3>2. QED
      BY <2>1, <2>2, <3>1 DEF LiveRunHoldsSlot
  <2>6. SlotNamesUnfinishedRun'
    <3>1. ASSUME NEW z \in Sessions \ {s}, activeSessions[z] # None
          PROVE  activeSessions[z] \in Runs \ {r}
      BY <1>1, <2>0, <3>1 DEF IInv, SlotInv, SlotNamesUnfinishedRun
    <3>2. QED
      BY <2>1, <3>1 DEF IInv, SlotInv, SlotNamesUnfinishedRun
  <2>7. ControlsOwned'
    BY <2>1, <2>2 DEF IInv, SlotInv, ControlsOwned, AskPcs
  <2>8. QED
    BY <2>3, <2>4, <2>5, <2>6, <2>7 DEF SlotInv
<1>2. CASE UNCHANGED <<home, status, activeSessions, controls, task, pc>>
  BY <1>2, QuietSlots
<1>3. QED
  BY <1>1, <1>2 DEF ClientStep, CancelRun, CancelSession, Shutdown, ResolveApproval,
                    DeleteRule, serviceVars

\* Every step keeps the slots.
LEMMA SlotsPreserved ==
  ASSUME IInv, [Next]_vars
  PROVE  SlotInv'
<1>1. CASE ClientStep
  BY <1>1, ClientSlots
<1>2. ASSUME NEW r \in Runs, ThreadStep(r)
      PROVE  SlotInv'
  BY <1>2, ServiceSlots, LoopMoves, ToolMoves, LoopSlots DEF ThreadStep
<1>3. CASE UNCHANGED vars
  BY <1>3, QuietSlots DEF vars
<1>4. QED
  BY <1>1, <1>2, <1>3 DEF Next

-----------------------------------------------------------------------------
(* Consent.                                                                 *)

\* A step that leaves a run's call, its decisions and what was sent alone, and
\* does not move its thread into a call, keeps its part of the invariant.
CallFrame(r) ==
  /\ pc'[r] = pc[r] \/ pc'[r] \notin CallPcs
  /\ tools'[r] = tools[r]
  /\ \A n \in Calls :
       /\ earlyDecisions'[r][n] = earlyDecisions[r][n]
       /\ approvals'[r][n] \in Decisions => approvals'[r][n] = approvals[r][n]

\* Steps that leave the calls alone keep the consents.
LEMMA QuietCalls ==
  ASSUME IInv, \A r \in Runs : CallFrame(r), UNCHANGED sent, rules' => rules
  PROVE  ConsentInv'
<1>1. \A r \in Runs : CallOK(r)'
  BY DEF CallFrame, IInv, ConsentInv, CallOK
<1>2. RuleOK'
  BY DEF IInv, ConsentInv, RuleOK
<1>3. ToolNeedsConsent'
  BY DEF CallFrame, IInv, ConsentInv, ToolNeedsConsent, Consented, CallPcs
<1>4. QED
  BY <1>1, <1>2, <1>3 DEF ConsentInv

\* A decision read after the wake was there before it.
LEMMA WakeDecides ==
  ASSUME NEW waiters, NEW n \in Calls, Wake(waiters)[n] \in Decisions
  PROVE  Wake(waiters)[n] = waiters[n]
BY DEF Wake, Decisions

\* Steps of the service keep the consents.
LEMMA ServiceConsent ==
  ASSUME IInv, NEW r \in Runs, ServiceStep(r)
  PROVE  ConsentInv'
<1>0. pc \in [Runs -> Pcs] /\ approvals \in [Runs -> [Calls -> Waiters]]
  BY DEF IInv, TypeOK
<1>1. UNCHANGED <<tools, earlyDecisions, rules, sent>>
  BY DEF ServiceStep, ConfigureRunControls, Begin, PrepareProgress, PrepareEnds,
         TakeTaskStatus, WriteFails, SetRaised, EmitCancelled, EmitFailed, Finish, Record,
         CheckStatic, AnswerStatic, approvalVars
<1>2. pc'[r] = pc[r] \/ pc'[r] \notin CallPcs
  BY <1>0 DEF ServiceStep, ConfigureRunControls, Begin, PrepareProgress, PrepareEnds,
         TakeTaskStatus, WriteFails, SetRaised, EmitCancelled, EmitFailed, Finish, Record,
         CheckStatic, AnswerStatic, Goto, CallPcs
<1>3. \A q \in Runs \ {r} : pc'[q] = pc[q]
  BY <1>0 DEF ServiceStep, ConfigureRunControls, Begin, PrepareProgress, PrepareEnds,
         TakeTaskStatus, WriteFails, SetRaised, EmitCancelled, EmitFailed, Finish, Record,
         CheckStatic, AnswerStatic, Goto
<1>4. \A q \in Runs, n \in Calls :
        approvals'[q][n] \in Decisions => approvals'[q][n] = approvals[q][n]
  <2>1. approvals' = approvals \/ approvals' = [approvals EXCEPT ![r] = Wake(@)]
    BY DEF ServiceStep, ConfigureRunControls, Begin, PrepareProgress, PrepareEnds,
         TakeTaskStatus, WriteFails, SetRaised, EmitCancelled, EmitFailed, Finish, Record,
         CheckStatic, AnswerStatic, approvalVars
  <2>2. QED
    BY <1>0, <2>1, WakeDecides
<1>5. QED
  BY <1>1, <1>2, <1>3, <1>4, QuietCalls DEF CallFrame

\* Steps of the agent loop keep the consents.
LEMMA LoopConsent ==
  ASSUME IInv, NEW r \in Runs, LoopStep(r)
  PROVE  ConsentInv'
<1>0. pc \in [Runs -> Pcs]
  BY DEF IInv, TypeOK
<1>1. UNCHANGED <<tools, approvals, earlyDecisions, rules, sent>>
  BY DEF LoopStep, AskStarts, RequestModel, ObserveCancel, FinishCancelled, ModelFails,
         FinalAnswer, Completes, LimitReached, AtLimit, CompletionRefused, AskRaises, approvalVars
<1>2. pc'[r] \notin CallPcs /\ \A q \in Runs \ {r} : pc'[q] = pc[q]
  BY <1>0 DEF LoopStep, AskStarts, RequestModel, ObserveCancel, FinishCancelled, ModelFails,
         FinalAnswer, Completes, LimitReached, AtLimit, CompletionRefused, AskRaises, Goto, CallPcs
<1>3. QED
  BY <1>1, <1>2, QuietCalls DEF CallFrame

\* What a decision leads to: an allowed call goes on, and an "always allow"
\* that was sent makes the rule.
LEMMA DecidedConsent ==
  ASSUME IInv, NEW r \in Runs, pc[r] \in CallPcs, NEW decision,
         decision \in Decisions => decision \in sent[r][tools[r]],
         Decided(r, decision), UNCHANGED <<tools, sent>>,
         \A q \in Runs, n \in Calls :
           /\ earlyDecisions'[q][n] \in {earlyDecisions[q][n], "none"}
           /\ approvals'[q][n] \in {approvals[q][n], "absent"}
  PROVE  ConsentInv'
<1>0. /\ pc \in [Runs -> Pcs] /\ tools[r] \in Calls
      /\ \A q \in Runs \ {r} : pc'[q] = pc[q]
  BY DEF IInv, TypeOK, ConsentInv, CallOK, Decided, Goto
<1>1. \A q \in Runs : CallOK(q)'
  <2>1. \A q \in Runs \ {r} : CallOK(q)'
    BY <1>0 DEF IInv, ConsentInv, CallOK, Decisions
  <2>2. CallOK(r)'
    BY <1>0 DEF IInv, ConsentInv, CallOK, Decisions
  <2>3. QED
    BY <2>1, <2>2
<1>2. RuleOK'
  <2>1. CASE rules
    BY <2>1 DEF IInv, ConsentInv, RuleOK
  <2>2. CASE decision = "allow_always"
    BY <1>0, <2>2 DEF RuleOK, Decisions
  <2>3. QED
    BY <2>1, <2>2 DEF Decided, RuleOK
<1>3. ToolNeedsConsent'
  <2>1. \A q \in Runs \ {r} : pc'[q] \in {"cleared", "tooling"} => Consented(q, tools[q])
    BY <1>0 DEF IInv, ConsentInv, ToolNeedsConsent
  <2>2. pc'[r] \in {"cleared", "tooling"} => Consented(r, tools[r])
    <3>1. CASE decision \in Allows
      BY <3>1 DEF Consented, Allows, Decisions
    <3>2. CASE decision \notin Allows
      BY <1>0, <3>2 DEF Decided, Goto
    <3>3. QED
      BY <3>1, <3>2
  <2>3. QED
    BY <2>1, <2>2 DEF ToolNeedsConsent, Consented
<1>4. QED
  BY <1>1, <1>2, <1>3 DEF ConsentInv

\* Steps of a tool call keep the consents.
LEMMA ToolConsent ==
  ASSUME IInv, NEW r \in Runs, ToolStep(r)
  PROVE  ConsentInv'
<1> USE DEF Goto, approvalVars
<1>0. /\ pc \in [Runs -> Pcs] /\ tools \in [Runs -> 0 .. MaxTools]
      /\ approvals \in [Runs -> [Calls -> Waiters]]
      /\ earlyDecisions \in [Runs -> [Calls -> Decisions \cup {"none"}]]
  BY DEF IInv, TypeOK
<1>a. CallOK(r) /\ (pc[r] \in CallPcs => tools[r] \in Calls)
  BY DEF IInv, ConsentInv, CallOK
\* A step within a call that is not a decision.
<1>b. ASSUME UNCHANGED <<tools, earlyDecisions, rules, sent>>,
             \A q \in Runs, n \in Calls :
               approvals'[q][n] \in Decisions => approvals'[q][n] = approvals[q][n],
             \A q \in Runs \ {r} : pc'[q] = pc[q],
             pc[r] \in CallPcs,
             pc'[r] \in {"cleared", "tooling"} => rules \/ pc[r] \in {"cleared", "tooling"}
      PROVE  ConsentInv'
  <2>1. \A q \in Runs : CallOK(q)'
    BY <1>a, <1>b DEF IInv, ConsentInv, CallOK
  <2>2. RuleOK'
    BY <1>b DEF IInv, ConsentInv, RuleOK
  <2>3. ToolNeedsConsent'
    BY <1>b DEF IInv, ConsentInv, ToolNeedsConsent, Consented, RuleOK
  <2>4. QED
    BY <2>1, <2>2, <2>3 DEF ConsentInv
<1>1. CASE RequestTool(r)
  <2>1. /\ tools'[r] \in Calls /\ \A q \in Runs \ {r} : tools'[q] = tools[q] /\ pc'[q] = pc[q]
        /\ UNCHANGED <<approvals, earlyDecisions, rules, sent>>
        /\ pc'[r] \in {"cleared", "tooling"} => rules
    BY <1>0, <1>1, ConstantsAssumption DEF RequestTool, Calls
  <2>2. \A q \in Runs : CallOK(q)'
    BY <2>1 DEF IInv, ConsentInv, CallOK
  <2>3. RuleOK'
    BY <2>1 DEF IInv, ConsentInv, RuleOK
  <2>4. ToolNeedsConsent'
    BY <2>1 DEF IInv, ConsentInv, ToolNeedsConsent, Consented, RuleOK
  <2>5. QED
    BY <2>2, <2>3, <2>4 DEF ConsentInv
<1>2. CASE CheckRule(r)
  BY <1>0, <1>2, <1>b DEF CheckRule, CallPcs
<1>3. CASE AwaitDecision(r)
  <2> DEFINE n == tools[r]
  <2>0. n \in Calls /\ pc[r] \in CallPcs
    BY <1>3, <1>a DEF AwaitDecision, CallPcs
  <2>1. CASE earlyDecisions[r][n] # "none"
    <3>1. earlyDecisions[r][n] \in sent[r][n]
      BY <1>a, <2>0, <2>1 DEF CallOK
    <3>2. \A q \in Runs, m \in Calls :
            earlyDecisions'[q][m] \in {earlyDecisions[q][m], "none"}
      BY <1>0, <1>3, <2>0, <2>1 DEF AwaitDecision
    <3>3. Decided(r, earlyDecisions[r][n]) /\ UNCHANGED <<tools, approvals, sent>>
      BY <1>3, <2>1 DEF AwaitDecision
    <3>4. QED
      BY <2>0, <3>1, <3>2, <3>3, DecidedConsent
  <2>2. CASE earlyDecisions[r][n] = "none"
    <3>1. \A q \in Runs, m \in Calls :
            approvals'[q][m] \in Decisions => approvals'[q][m] = approvals[q][m]
      BY <1>0, <1>3, <2>0, <2>2 DEF AwaitDecision, Decisions
    <3>2. /\ UNCHANGED <<tools, earlyDecisions, rules, sent>> /\ pc'[r] = "waiting"
          /\ \A q \in Runs \ {r} : pc'[q] = pc[q]
      BY <1>0, <1>3, <2>2 DEF AwaitDecision
    <3>3. QED
      BY <1>b, <2>0, <3>1, <3>2
  <2>3. QED
    BY <2>1, <2>2
<1>4. CASE WaitCancelled(r)
  BY <1>0, <1>4, <1>b DEF WaitCancelled, CallPcs
<1>5. CASE WaitReady(r)
  BY <1>0, <1>5, <1>b DEF WaitReady, CallPcs
<1>6. CASE TakeDecision(r)
  <2> DEFINE n == tools[r]
  <2>0. n \in Calls /\ pc[r] \in CallPcs
    BY <1>6, <1>a DEF TakeDecision, CallPcs
  <2>1. approvals[r][n] \in Decisions => approvals[r][n] \in sent[r][n]
    BY <1>a, <2>0 DEF CallOK
  <2>2. \A q \in Runs, m \in Calls : approvals'[q][m] \in {approvals[q][m], "absent"}
    BY <1>0, <1>6, <2>0 DEF TakeDecision
  <2>3. Decided(r, approvals[r][n]) /\ UNCHANGED <<tools, earlyDecisions, sent>>
    BY <1>6 DEF TakeDecision
  <2>4. QED
    BY <2>0, <2>1, <2>2, <2>3, DecidedConsent
<1>7. CASE StartTool(r)
  BY <1>0, <1>7, <1>b DEF StartTool, CallPcs
<1>8. CASE ToolReturns(r)
  BY <1>0, <1>8, <1>b DEF ToolReturns, CallPcs
<1>9. CASE ToolCancelled(r)
  BY <1>0, <1>9, <1>b DEF ToolCancelled, CallPcs
<1>10. QED
  BY <1>1, <1>2, <1>3, <1>4, <1>5, <1>6, <1>7, <1>8, <1>9 DEF ToolStep

\* Steps of the client keep the consents.
LEMMA ClientConsent ==
  ASSUME IInv, ClientStep
  PROVE  ConsentInv'
<1> USE DEF Goto, approvalVars, serviceVars
<1>0. /\ pc \in [Runs -> Pcs] /\ sent \in [Runs -> [Calls -> SUBSET Decisions]]
      /\ approvals \in [Runs -> [Calls -> Waiters]]
      /\ earlyDecisions \in [Runs -> [Calls -> Decisions \cup {"none"}]]
      /\ activeSessions \in [Sessions -> Runs \cup {None}]
  BY DEF IInv, TypeOK
<1>a. ASSUME NEW r \in Runs, CancelRun(r)
      PROVE  ConsentInv'
  <2>1. \A q \in Runs, n \in Calls :
          approvals'[q][n] \in Decisions => approvals'[q][n] = approvals[q][n]
    BY <1>0, <1>a, WakeDecides DEF CancelRun
  <2>2. QED
    BY <1>a, <2>1, QuietCalls DEF CancelRun, CallFrame
<1>1. ASSUME NEW r \in Runs, NEW s \in Sessions, NEW k \in Kinds, Register(r, s, k)
      PROVE  ConsentInv'
  <2>1. pc'[r] \notin CallPcs /\ \A q \in Runs \ {r} : pc'[q] = pc[q]
    BY <1>0, <1>1 DEF Register, CallPcs
  <2>2. QED
    BY <1>1, <2>1, QuietCalls DEF Register, CallFrame
<1>2. ASSUME NEW s \in Sessions, CancelSession(s)
      PROVE  ConsentInv'
  BY <1>0, <1>2, <1>a DEF CancelSession, SlotFree
<1>3. CASE Shutdown
  <2>1. \A q \in Runs, n \in Calls :
          approvals'[q][n] \in Decisions => approvals'[q][n] = approvals[q][n]
    BY <1>0, <1>3, WakeDecides DEF Shutdown
  <2>2. QED
    BY <1>3, <2>1, QuietCalls DEF Shutdown, CallFrame
<1>4. ASSUME NEW r \in Runs, NEW n \in Calls, NEW d \in Answers, ResolveApproval(r, n, d)
      PROVE  ConsentInv'
  <2>1. /\ d \in sent'[r][n] /\ \A q \in Runs, m \in Calls : sent[q][m] \subseteq sent'[q][m]
        /\ UNCHANGED <<pc, tools, rules>>
    BY <1>0, <1>4 DEF ResolveApproval
  <2>2. \A q \in Runs, m \in Calls :
          /\ earlyDecisions'[q][m] = earlyDecisions[q][m] \/ (q = r /\ m = n /\ earlyDecisions'[q][m] = d)
          /\ approvals'[q][m] = approvals[q][m] \/ (q = r /\ m = n /\ approvals'[q][m] = d)
    <3>1. CASE approvals[r][n] = "absent"
      BY <1>0, <1>4, <3>1 DEF ResolveApproval
    <3>2. CASE approvals[r][n] # "absent"
      BY <1>0, <1>4, <3>2 DEF ResolveApproval
    <3>3. QED
      BY <3>1, <3>2
  <2>3. \A q \in Runs : CallOK(q)'
    BY <2>1, <2>2 DEF IInv, ConsentInv, CallOK
  <2>4. RuleOK'
    BY <2>1 DEF IInv, ConsentInv, RuleOK
  <2>5. ToolNeedsConsent'
    <3>1. ASSUME NEW q \in Runs, pc[q] \in {"cleared", "tooling"}
          PROVE  Consented(q, tools[q])'
      <4>1. tools[q] \in Calls /\ Consented(q, tools[q])
        BY <3>1 DEF IInv, ConsentInv, ToolNeedsConsent, CallOK, CallPcs
      <4>2. QED
        BY <2>1, <4>1 DEF Consented
    <3>2. QED
      BY <2>1, <3>1 DEF ToolNeedsConsent
  <2>6. QED
    BY <2>3, <2>4, <2>5 DEF ConsentInv
<1>5. CASE DeleteRule
  BY <1>5, QuietCalls DEF DeleteRule, CallFrame
<1>6. QED
  BY <1>a, <1>1, <1>2, <1>3, <1>4, <1>5 DEF ClientStep

\* Every step keeps the consents.
LEMMA ConsentPreserved ==
  ASSUME IInv, [Next]_vars
  PROVE  ConsentInv'
<1>1. CASE ClientStep
  BY <1>1, ClientConsent
<1>2. ASSUME NEW r \in Runs, ThreadStep(r)
      PROVE  ConsentInv'
  BY <1>2, ServiceConsent, LoopConsent, ToolConsent DEF ThreadStep
<1>3. CASE UNCHANGED vars
  BY <1>3, QuietCalls DEF vars, CallFrame
<1>4. QED
  BY <1>1, <1>2, <1>3 DEF Next

-----------------------------------------------------------------------------
(* The invariant, and the invariants of the runs that follow from it.       *)

\* The first state satisfies the invariant.
LEMMA InitIInv == ASSUME Init PROVE IInv
<1>1. TypeOK
  <2>1. <<>> \in Seq(Events) /\ <<>> \in Seq(EventTypes)
    OBVIOUS
  <2>2. sequence \in [Runs -> Nat] /\ events \in [Runs -> Seq(Events)]
        /\ emitted \in [Runs -> Seq(EventTypes)]
    BY <2>1 DEF Init
  <2>3. task \in [Sessions -> [run : Runs \cup {None}, status : Statuses]]
    BY DEF Init, Statuses
  <2>4. /\ approvals \in [Runs -> [Calls -> Waiters]]
        /\ earlyDecisions \in [Runs -> [Calls -> Decisions \cup {"none"}]]
        /\ sent \in [Runs -> [Calls -> SUBSET Decisions]]
    BY DEF Init, Waiters
  <2>5. pc \in [Runs -> Pcs] /\ tools \in [Runs -> 0 .. MaxTools]
    BY ConstantsAssumption DEF Init, Pcs
  <2>6. QED
    BY <2>2, <2>3, <2>4, <2>5 DEF Init, TypeOK, Statuses
<1>2. SlotInv
  BY ConstantsAssumption
  DEF Init, SlotInv, PlaceOK, TaskOK, LiveRunHoldsSlot, SlotNamesUnfinishedRun,
      ControlsOwned, Live, RunningPcs, AskPcs
<1>3. ConsentInv
  BY DEF Init, ConsentInv, CallOK, RuleOK, ToolNeedsConsent, CallPcs, Decisions
<1>4. QED
  BY <1>1, <1>2, <1>3 DEF IInv

\* Whatever the sessions, the runs, their kinds and the answers clients send,
\* every reachable state of the service satisfies the inductive invariant.
THEOREM Invariant == Spec => []IInv
<1>1. Init => IInv
  BY InitIInv
<1>2. IInv /\ [Next]_vars => IInv'
  BY TypesPreserved, SlotsPreserved, ConsentPreserved DEF IInv
<1>3. QED
  BY <1>1, <1>2, PTL DEF Spec

\* The state of the service keeps its types.
THEOREM TypeCorrect == Spec => []TypeOK
<1>1. IInv => TypeOK
  BY DEF IInv
<1>2. QED
  BY <1>1, Invariant, PTL

\* A live run holds its session's slot: no session ever has two.
THEOREM SlotSafety == Spec => []LiveRunHoldsSlot
<1>1. IInv => LiveRunHoldsSlot
  BY DEF IInv, SlotInv
<1>2. QED
  BY <1>1, Invariant, PTL

\* A slot names a run of its session whose thread is still there.
THEOREM SlotRelease == Spec => []SlotNamesUnfinishedRun
<1>1. IInv => SlotNamesUnfinishedRun
  BY DEF IInv, SlotInv
<1>2. QED
  BY <1>1, Invariant, PTL

\* The controls and the task of a session's agent are those of its live run.
THEOREM ControlsSafety == Spec => []ControlsOwned
<1>1. IInv => ControlsOwned
  BY DEF IInv, SlotInv
<1>2. QED
  BY <1>1, Invariant, PTL

\* A risky tool runs only after a client allowed it.
THEOREM ConsentSafety == Spec => []ToolNeedsConsent
<1>1. IInv => ToolNeedsConsent
  BY DEF IInv, ConsentInv
<1>2. QED
  BY <1>1, Invariant, PTL

-----------------------------------------------------------------------------
(* Steps into and out of a tool call.                                       *)

\* The token a thread in the loop reads is its own run's.
LEMMA OwnToken ==
  ASSUME IInv, NEW r \in Runs, pc[r] \in AskPcs
  PROVE  Live(r) /\ Listener(r) = r /\ home[r] \in Sessions
BY LiveAtPlace DEF IInv, SlotInv, ControlsOwned, PlaceOK, RunningPcs, AskPcs, Listener

\* Only StartTool leads into a tool.
LEMMA ToolBegins ==
  ASSUME IInv, [Next]_vars, NEW r \in Runs, pc[r] # "tooling", pc'[r] = "tooling"
  PROVE  StartTool(r)
<1>0. pc \in [Runs -> Pcs]
  BY DEF IInv, TypeOK
<1>1. CASE ClientStep
  BY <1>0, <1>1
  DEF ClientStep, Register, CancelRun, CancelSession, Shutdown, ResolveApproval, DeleteRule,
      Goto
<1>2. ASSUME NEW q \in Runs, ThreadStep(q)
      PROVE  StartTool(r)
  <2>1. CASE ServiceStep(q)
    BY <1>0, <2>1
    DEF ServiceStep, ConfigureRunControls, Begin, PrepareProgress, PrepareEnds,
        TakeTaskStatus, WriteFails, SetRaised, EmitCancelled, EmitFailed, Finish, Record,
        CheckStatic, AnswerStatic, Goto
  <2>2. CASE LoopStep(q)
    BY <1>0, <2>2
    DEF LoopStep, AskStarts, RequestModel, ObserveCancel, FinishCancelled, ModelFails,
        FinalAnswer, Completes, LimitReached, AtLimit, CompletionRefused, AskRaises, Goto
  <2>3. CASE ToolStep(q)
    BY <1>0, <2>3
    DEF ToolStep, RequestTool, CheckRule, AwaitDecision, Decided, WaitCancelled, WaitReady,
        TakeDecision, StartTool, ToolReturns, ToolCancelled, Goto
  <2>4. QED
    BY <1>2, <2>1, <2>2, <2>3 DEF ThreadStep
<1>3. CASE UNCHANGED vars
  BY <1>3 DEF vars
<1>4. QED
  BY <1>1, <1>2, <1>3 DEF Next

\* No tool of a run begins after the run was cancelled: the token the executor
\* looks at is the run's own (ControlsOwned).
THEOREM CancelStopsTools == Spec => NoToolAfterCancel
<1> DEFINE Safe == \A r \in Runs :
             pc'[r] = "tooling" /\ pc[r] # "tooling" => ~cancelled[r]
<1>1. IInv /\ [Next]_vars => [Safe]_vars
  <2> SUFFICES ASSUME IInv, [Next]_vars, NEW r \in Runs,
                      pc[r] # "tooling", pc'[r] = "tooling"
               PROVE  ~cancelled[r]
    OBVIOUS
  <2>1. StartTool(r)
    BY ToolBegins
  <2>2. Listener(r) = r
    BY <2>1, OwnToken DEF StartTool, AskPcs
  <2>3. QED
    BY <2>1, <2>2 DEF StartTool, TokenSet
<1>2. QED
  BY <1>1, Invariant, PTL DEF Spec, NoToolAfterCancel

-----------------------------------------------------------------------------
(* RunService implements SessionRuns.                                       *)

Started == {r \in Runs : status[r] # "none" /\ ~Live(r)}
Revoked == {r \in Runs : cancelled[r]}
Acting == {r \in Runs : pc[r] = "tooling"}

\* The refinement mapping, with names for its parts.
LEMMA Mapping ==
  /\ Promise!AbsInit <=>
       /\ \A s \in Sessions : LiveRun(s) = None
       /\ Started = {} /\ Revoked = {} /\ Acting = {}
  /\ (\A s \in Sessions : LiveRun(s)' = LiveRun(s)) /\ Started' = Started
       /\ Revoked' = Revoked /\ Acting' = Acting
       => UNCHANGED Promise!absVars
BY DEF Promise!AbsInit, Promise!absVars, Started, Revoked, Acting

\* The session's live run is the run that is live.
LEMMA LiveRunIs ==
  ASSUME IInv, NEW r \in Runs, Live(r)
  PROVE  /\ home[r] \in Sessions /\ LiveRun(home[r]) = r
         /\ \A s \in Sessions : LiveRun(s) = r => s = home[r]
<1>1. home[r] \in Sessions /\ activeSessions[home[r]] = r
  BY LiveAtPlace DEF IInv, SlotInv, PlaceOK, LiveRunHoldsSlot
<1>2. ASSUME NEW s \in Sessions, LiveRun(s) = r
      PROVE  s = home[r]
  BY <1>2, ConstantsAssumption DEF LiveRun, IInv, SlotInv, SlotNamesUnfinishedRun
<1>3. QED
  BY <1>1, <1>2, ConstantsAssumption DEF LiveRun

\* A step that does not change which runs are live, and no slot of a live run,
\* changes neither `live` nor `over`.
LEMMA SameLive ==
  ASSUME IInv, \A q \in Runs : Live(q)' <=> Live(q),
         \A q \in Runs : status'[q] = "none" <=> status[q] = "none",
         \A s \in Sessions :
           \/ activeSessions'[s] = activeSessions[s]
           \/ activeSessions'[s] = None /\ ~Live(activeSessions[s])
  PROVE  (\A s \in Sessions : LiveRun(s)' = LiveRun(s)) /\ Started' = Started
<1>1. ASSUME NEW s \in Sessions
      PROVE  LiveRun(s)' = LiveRun(s)
  <2>1. activeSessions[s] \in Runs \cup {None}
    BY DEF IInv, TypeOK
  <2>2. QED
    BY <2>1 DEF LiveRun
<1>2. Started' = Started
  BY DEF Started
<1>3. QED
  BY <1>1, <1>2

\* A run's end is EndRun of its session.
LEMMA EndsOne ==
  ASSUME IInv, IInv', NEW r \in Runs, Live(r), ~Live(r)', pc[r] # "tooling",
         status'[r] # "none", UNCHANGED home,
         \A q \in Runs \ {r} : (Live(q)' <=> Live(q)) /\ status'[q] = status[q],
         \A s \in Sessions :
           \/ activeSessions'[s] = activeSessions[s]
           \/ activeSessions'[s] = None /\ activeSessions[s] = r,
         Revoked' = Revoked, Acting' = Acting
  PROVE  Promise!EndRun(home[r], r)
<1>1. home[r] \in Sessions /\ LiveRun(home[r]) = r /\ activeSessions[home[r]] = r
  BY LiveRunIs DEF IInv, SlotInv, LiveRunHoldsSlot
<1>2. LiveRun(home[r])' = None
  <2>1. activeSessions'[home'[r]] \in {r, None}
    BY <1>1
  <2>2. QED
    BY <2>1, ConstantsAssumption DEF LiveRun
<1>3. ASSUME NEW s \in Sessions, s # home[r]
      PROVE  LiveRun(s)' = LiveRun(s)
  <2>1. activeSessions[s] \in (Runs \ {r}) \cup {None}
    BY <1>3, ConstantsAssumption DEF IInv, SlotInv, SlotNamesUnfinishedRun, TypeOK
  <2>2. QED
    BY <2>1, ConstantsAssumption DEF LiveRun
<1>4. Started' = Started \cup {r}
  BY DEF Started
<1>5. r \notin Acting
  BY DEF Acting
<1>6. QED
  BY <1>1, <1>2, <1>3, <1>4, <1>5 DEF Promise!EndRun, Started, Revoked, Acting

\* Within the loop only StartTool and the ends of a tool call show.
LEMMA LoopPromise ==
  ASSUME IInv, [Next]_vars, NEW r \in Runs, LoopFrame(r)
  PROVE  Promise!BeginTool(r) \/ Promise!EndTool(r) \/ UNCHANGED Promise!absVars
<1> USE DEF LoopFrame, serviceVars
<1>0. Live(r) /\ LiveRun(home[r]) = r /\ home[r] \in Sessions
  BY OwnToken, LiveRunIs
<1>1. (\A s \in Sessions : LiveRun(s)' = LiveRun(s)) /\ Started' = Started
  <2>1. \A q \in Runs : Live(q)' <=> Live(q)
    BY <1>0 DEF Live, AskPcs
  <2>2. QED
    BY <2>1, SameLive
<1>2. Revoked' = Revoked
  BY DEF Revoked
<1>3. CASE pc[r] # "tooling" /\ pc'[r] = "tooling"
  <2>1. r \notin Revoked \cup Acting
    <3>1. StartTool(r)
      BY <1>3, ToolBegins
    <3>2. QED
      BY <1>3, <3>1, OwnToken DEF StartTool, TokenSet, Revoked, Acting
  <2>2. Acting' = Acting \cup {r}
    BY <1>3 DEF Acting
  <2>3. QED
    BY <1>0, <1>1, <1>2, <2>1, <2>2
    DEF Promise!BeginTool, Promise!IsLive, Started, Revoked, Acting
<1>4. CASE pc[r] = "tooling" /\ pc'[r] # "tooling"
  <2>1. Acting' = Acting \ {r}
    BY <1>4 DEF Acting
  <2>2. QED
    BY <1>1, <1>2, <2>1 DEF Promise!EndTool, Started, Revoked, Acting
<1>5. CASE pc[r] = "tooling" <=> pc'[r] = "tooling"
  <2>1. Acting' = Acting
    BY <1>5 DEF Acting
  <2>2. QED
    BY <1>1, <1>2, <2>1, Mapping
<1>6. QED
  BY <1>3, <1>4, <1>5

\* A step of the service outside the loop ends its run or shows nothing.
LEMMA ServicePromise ==
  ASSUME IInv, IInv', NEW r \in Runs, ServiceStep(r)
  PROVE  (home[r] \in Sessions /\ Promise!EndRun(home[r], r)) \/ UNCHANGED Promise!absVars
<1>0. /\ pc \in [Runs -> Pcs] /\ status \in [Runs -> Statuses]
      /\ activeSessions \in [Sessions -> Runs \cup {None}]
  BY DEF IInv, TypeOK
<1>1. /\ UNCHANGED <<cancelled, home>>
      /\ pc[r] \notin {"tooling", "idle"} /\ pc'[r] \notin {"tooling", "idle"}
      /\ \A q \in Runs \ {r} : pc'[q] = pc[q] /\ status'[q] = status[q]
      /\ Live(r)' => Live(r)
      /\ \A s \in Sessions :
           \/ activeSessions'[s] = activeSessions[s]
           \/ activeSessions'[s] = None /\ activeSessions[s] = r /\ ~Live(r)'
  <2>1. CASE ConfigureRunControls(r)
    BY <1>0, <2>1 DEF ConfigureRunControls, Goto, Live
  <2>2. CASE Finish(r)
    BY <1>0, <2>2 DEF Finish, Goto, ReleaseSlot, Live
  <2>3. CASE ~ConfigureRunControls(r) /\ ~Finish(r)
    <3>1. ServiceFrame(r) /\ (Live(r)' => Live(r))
      BY <2>3, ServiceMoves
    <3>2. UNCHANGED cancelled /\ pc[r] # "tooling"
      BY <2>3
      DEF ServiceStep, Begin, PrepareProgress, PrepareEnds, TakeTaskStatus, WriteFails,
          SetRaised, EmitCancelled, EmitFailed, Record, CheckStatic, AnswerStatic, serviceVars
    <3>3. QED
      BY <3>1, <3>2 DEF ServiceFrame, AskPcs
  <2>4. QED
    BY <2>1, <2>2, <2>3
<1>2. status[r] # "none" /\ status'[r] # "none"
  BY <1>1 DEF IInv, SlotInv, PlaceOK
<1>3. Revoked' = Revoked /\ Acting' = Acting
  BY <1>1 DEF Revoked, Acting
<1>4. \A q \in Runs \ {r} : Live(q)' <=> Live(q)
  BY <1>1 DEF Live
<1>5. CASE Live(r) /\ ~Live(r)'
  <2>1. Promise!EndRun(home[r], r)
    BY <1>1, <1>2, <1>3, <1>4, <1>5, EndsOne
  <2>2. QED
    BY <2>1, <1>5, LiveRunIs
<1>6. CASE Live(r)' <=> Live(r)
  <2>1. (\A s \in Sessions : LiveRun(s)' = LiveRun(s)) /\ Started' = Started
    BY <1>1, <1>2, <1>4, <1>6, SameLive
  <2>2. QED
    BY <1>3, <2>1, Mapping
<1>7. QED
  BY <1>1, <1>5, <1>6

\* Steps of the client are steps of the session's promise.
LEMMA ClientPromise ==
  ASSUME IInv, IInv', ClientStep
  PROVE  [Promise!AbsNext]_(Promise!absVars)
<1>0. /\ pc \in [Runs -> Pcs] /\ status \in [Runs -> Statuses]
      /\ cancelled \in [Runs -> BOOLEAN] /\ home \in [Runs -> Sessions \cup {None}]
      /\ activeSessions \in [Sessions -> Runs \cup {None}]
  BY DEF IInv, TypeOK
<1>1. ASSUME NEW r \in Runs, NEW s \in Sessions, NEW k \in Kinds, Register(r, s, k)
      PROVE  Promise!StartRun(s, r)
  <2>1. /\ pc[r] = "idle" /\ status[r] = "none" /\ ~Live(r) /\ Live(r)'
        /\ activeSessions'[s] = r /\ status'[r] # "none"
        /\ \A q \in Runs \ {r} : status'[q] = status[q] /\ (Live(q)' <=> Live(q))
        /\ \A z \in Sessions \ {s} : activeSessions'[z] = activeSessions[z]
    BY <1>0, <1>1 DEF Register, Goto, Live, Terminal, IInv, SlotInv, PlaceOK
  <2>2. LiveRun(s) = None
    BY <1>1 DEF Register, SlotFree, LiveRun, Live
  <2>3. LiveRun(s)' = r
    BY <2>1, ConstantsAssumption DEF LiveRun
  <2>4. \A z \in Sessions : LiveRun(z) # r
    BY <2>1, ConstantsAssumption DEF LiveRun
  <2>5. ASSUME NEW z \in Sessions \ {s}
        PROVE  LiveRun(z)' = LiveRun(z)
    <3>1. activeSessions[z] \in (Runs \ {r}) \cup {None}
      BY <1>0, <2>1, ConstantsAssumption DEF IInv, SlotInv, SlotNamesUnfinishedRun
    <3>2. QED
      BY <2>1, <3>1 DEF LiveRun
  <2>6. Started' = Started /\ r \notin Started
    BY <2>1 DEF Started
  <2>7. Revoked' = Revoked /\ Acting' = Acting
    BY <1>0, <1>1 DEF Register, Goto, Revoked, Acting
  <2>8. QED
    BY <2>2, <2>3, <2>4, <2>5, <2>6, <2>7
    DEF Promise!StartRun, Promise!IsLive, Started, Revoked, Acting
<1>2. ASSUME UNCHANGED <<home, status, activeSessions, pc>>, Revoked \subseteq Revoked'
      PROVE  \E R \in SUBSET Runs : Promise!Revoke(R)
  <2>1. (\A s \in Sessions : LiveRun(s)' = LiveRun(s)) /\ Started' = Started
    BY <1>2 DEF LiveRun, Live, Started
  <2>2. Acting' = Acting
    BY <1>2 DEF Acting
  <2>3. PICK R \in SUBSET Runs : Revoked' = R /\ Revoked' = Revoked \cup R
    BY <1>2 DEF Revoked
  <2>4. Promise!Revoke(R)
    BY <2>1, <2>2, <2>3 DEF Promise!Revoke, Started, Revoked, Acting
  <2>5. QED
    BY <2>3, <2>4
<1>3. ASSUME NEW r \in Runs, CancelRun(r)
      PROVE  \E R \in SUBSET Runs : Promise!Revoke(R)
  BY <1>0, <1>2, <1>3 DEF CancelRun, Revoked
<1>4. ASSUME NEW s \in Sessions, CancelSession(s)
      PROVE  \E R \in SUBSET Runs : Promise!Revoke(R)
  BY <1>0, <1>3, <1>4 DEF CancelSession, SlotFree
<1>5. ASSUME Shutdown
      PROVE  \E R \in SUBSET Runs : Promise!Revoke(R)
  BY <1>0, <1>2, <1>5 DEF Shutdown, Revoked
<1>6. ASSUME NEW r \in Runs, NEW n \in Calls, NEW d \in Answers, ResolveApproval(r, n, d)
      PROVE  \E R \in SUBSET Runs : Promise!Revoke(R)
  BY <1>2, <1>6 DEF ResolveApproval, serviceVars, Revoked
<1>7. ASSUME DeleteRule
      PROVE  \E R \in SUBSET Runs : Promise!Revoke(R)
  BY <1>2, <1>7 DEF DeleteRule, serviceVars, Revoked
<1>8. QED
  BY <1>1, <1>3, <1>4, <1>5, <1>6, <1>7 DEF ClientStep, Promise!AbsNext

\* The service keeps the promise of SessionRuns: one live run per session, one
\* life per run, tools only in live runs that are not cancelled.
THEOREM Refinement == Spec => KeepsPromise
<1>1. Init => Promise!AbsInit
  <2> SUFFICES ASSUME Init PROVE Promise!AbsInit
    OBVIOUS
  <2>1. \A s \in Sessions : LiveRun(s) = None
    BY DEF Init, LiveRun
  <2>2. Started = {} /\ Revoked = {} /\ Acting = {}
    BY DEF Init, Started, Revoked, Acting
  <2>3. QED
    BY <2>1, <2>2, Mapping
<1>2. IInv /\ IInv' /\ [Next]_vars => [Promise!AbsNext]_(Promise!absVars)
  <2> SUFFICES ASSUME IInv, IInv', [Next]_vars
               PROVE  [Promise!AbsNext]_(Promise!absVars)
    OBVIOUS
  <2>1. CASE ClientStep
    BY <2>1, ClientPromise
  <2>2. ASSUME NEW r \in Runs, ThreadStep(r)
        PROVE  [Promise!AbsNext]_(Promise!absVars)
    <3>1. CASE ServiceStep(r)
      BY <3>1, ServicePromise DEF Promise!AbsNext
    <3>2. CASE LoopStep(r) \/ ToolStep(r)
      <4>1. LoopFrame(r)
        BY <3>2, LoopMoves, ToolMoves
      <4>2. QED
        BY <4>1, LoopPromise DEF Promise!AbsNext
    <3>3. QED
      BY <2>2, <3>1, <3>2 DEF ThreadStep
  <2>3. CASE UNCHANGED vars
    <3>1. \A s \in Sessions : LiveRun(s)' = LiveRun(s)
      BY <2>3 DEF vars, LiveRun, Live
    <3>2. Started' = Started /\ Revoked' = Revoked /\ Acting' = Acting
      BY <2>3 DEF vars, Started, Revoked, Acting, Live
    <3>3. QED
      BY <3>1, <3>2, Mapping
  <2>4. QED
    BY <2>1, <2>2, <2>3 DEF Next
<1>3. QED
  BY <1>1, <1>2, Invariant, PTL DEF Spec, KeepsPromise, Promise!AbsSpec

-----------------------------------------------------------------------------
(* The lists of events.                                                     *)

\* No terminal event, or one as the last.
NoEnd(list) == \A i \in DOMAIN list : list[i] \notin TerminalEvents

OneEnd(list) ==
  /\ list # <<>> /\ list[Len(list)] \in TerminalEvents
  /\ \A i \in DOMAIN list : i < Len(list) => list[i] \notin TerminalEvents

\* A terminal event is followed at most by a run.failed, which is the last.
Ended(list) ==
  \A i, j \in DOMAIN list : i < j /\ list[i] \in TerminalEvents =>
    list[i] # "run.failed" /\ list[j] = "run.failed" /\ j = Len(list)

\* The run whose controls an agent holds is of the agent's session.
HolderOK ==
  \A s \in Sessions : controls[s] # None =>
    home[controls[s]] = s /\ pc[controls[s]] \notin {"idle", "registered"}

\* The counter of the run is the length of its list, or a number is lost and
\* the thread is on its way to run.failed.
Numbered(r) == \A i \in DOMAIN events[r] : events[r][i].sequence = i

OneLost(r) ==
  /\ pc[r] \in {"raiseFailed", "emitFailed"} /\ AddsCitations(r, "run.completed")
  /\ Numbered(r) /\ sequence[r] = Len(events[r]) + 1
  /\ \A i \in DOMAIN events[r] : events[r][i].type # "run.completed"

\* That is so while the agent holds the run's controls; a run without them gets
\* no events of its own.
ListOK(r) ==
  /\ pc[r] \in {"idle", "registered"} =>
       events[r] = <<>> /\ emitted[r] = <<>> /\ sequence[r] = 0
  /\ Undisturbed(r) => \A i \in DOMAIN events[r] :
       events[r][i].sequence = i \/ NumberLost(events[r], r, i)
  /\ Undisturbed(r) /\ pc[r] \notin {"idle", "final", "done"} /\ controls[home[r]] = r
       => (Numbered(r) /\ sequence[r] = Len(events[r])) \/ OneLost(r)
  /\ Live(r) => Mirrors(events[r], r, emitted[r]) \/ LastRefused(r)

\* Where a thread that emits nothing, or is not the one that moves, may go.
QuietPlace(r) ==
  /\ pc[r] = "idle" => pc'[r] = "idle"
  /\ pc'[r] \in {"idle", "registered"} => pc'[r] = pc[r]
  /\ pc[r] \in {"final", "done"} => pc'[r] \in {"final", "done"}
  /\ pc[r] \in {"raiseFailed", "emitFailed"} =>
       pc'[r] \in {"raiseFailed", "emitFailed", "final", "done"}
  /\ pc[r] = "raiseFailed" /\ Live(r)' => pc'[r] = "raiseFailed"

\* A list nothing is written to.
LEMMA ListStays ==
  ASSUME NEW r \in Runs, ListOK(r), QuietPlace(r), Live(r)' => Live(r),
         events'[r] = events[r], emitted'[r] = emitted[r], sequence'[r] = sequence[r],
         kind'[r] = kind[r], controls'[home'[r]] = r /\ pc'[r] # "idle" => controls[home[r]] = r
  PROVE  ListOK(r)'
<1>1. /\ Undisturbed(r)' <=> Undisturbed(r)
      /\ Numbered(r)' <=> Numbered(r)
      /\ AddsCitations(r, "run.completed")' <=> AddsCitations(r, "run.completed")
  BY DEF Undisturbed, Numbered, AddsCitations
<1>2. Undisturbed(r)' => \A i \in DOMAIN events'[r] :
        events'[r][i].sequence = i \/ NumberLost(events[r], r, i)'
  BY <1>1 DEF ListOK, NumberLost
<1>3. Undisturbed(r)' /\ pc'[r] \notin {"idle", "final", "done"} /\ controls'[home'[r]] = r
        => (Numbered(r)' /\ sequence'[r] = Len(events'[r])) \/ OneLost(r)'
  BY <1>1 DEF ListOK, OneLost, QuietPlace
<1>4. Live(r)' => Mirrors(events[r], r, emitted[r])' \/ LastRefused(r)'
  <2>1. CASE Mirrors(events[r], r, emitted[r])
    BY <2>1
  <2>2. CASE LastRefused(r)
    BY <1>1, <2>2 DEF LastRefused, QuietPlace
  <2>3. QED
    BY <2>1, <2>2 DEF ListOK
<1>5. QED
  BY <1>2, <1>3, <1>4 DEF ListOK, QuietPlace

\* What the thread has emitted, by where it is.
BeforeEnd == (AskPcs \ {"asked"}) \cup
  {"idle", "registered", "ready", "prepare", "record", "check", "message", "completed",
   "raiseCancelled", "emitCancelled"}

LoopFailed(r) ==
  /\ kind[r] # "static"
  /\ Undisturbed(r) => events[r] # <<>> /\ events[r][Len(events[r])].type = "run.failed"

EndOK(r) ==
  /\ pc[r] \in {"record", "check", "message", "completed"} => kind[r] = "static"
  /\ pc[r] \in AskPcs \cup {"prepare"} => kind[r] # "static"
  /\ pc[r] \in BeforeEnd => NoEnd(emitted[r])
  /\ pc[r] = "asked" => OneEnd(emitted[r]) /\ emitted[r][Len(emitted[r])] # "run.failed"
  /\ pc[r] \in {"raiseFailed", "emitFailed"} =>
       \/ NoEnd(emitted[r])
       \/ /\ OneEnd(emitted[r])
          /\ emitted[r][Len(emitted[r])] = "run.failed" => LoopFailed(r)
  /\ pc[r] \in {"final", "done"} => (Undisturbed(r) => Ended(emitted[r]))

ListInv == HolderOK /\ \A r \in Runs : ListOK(r)
EventInv == ListInv /\ \A r \in Runs : EndOK(r)

\* One more event at the end of a list: how many of a run's own events there
\* are, and which of them it is.
LEMMA OwnGrows ==
  ASSUME NEW list \in Seq(Events), NEW r \in Runs, NEW e \in Events
  PROVE  LET own == e.run = r /\ e.type # "retrieval.citations"
             n == Len(list) + 1
         IN  /\ Cardinality(OwnEvents(list, r)) \in Nat
             /\ Cardinality(OwnEvents(Append(list, e), r)) =
                  IF own THEN Cardinality(OwnEvents(list, r)) + 1
                  ELSE Cardinality(OwnEvents(list, r))
             /\ OwnEvents(Append(list, e), r) =
                  IF own THEN OwnEvents(list, r) \cup {n} ELSE OwnEvents(list, r)
             /\ \A i \in OwnEvents(list, r) :
                  OwnUpTo(Append(list, e), r, i) = OwnUpTo(list, r, i)
             /\ own => OwnUpTo(Append(list, e), r, n) = Cardinality(OwnEvents(list, r)) + 1
<1> DEFINE own == e.run = r /\ e.type # "retrieval.citations"
           n == Len(list) + 1
           old == OwnEvents(list, r)
           new == OwnEvents(Append(list, e), r)
<1>1. /\ n \in Nat /\ DOMAIN list = 1 .. Len(list) /\ DOMAIN Append(list, e) = 1 .. n
      /\ Append(list, e)[n] = e
      /\ \A i \in 1 .. Len(list) : Append(list, e)[i] = list[i]
  OBVIOUS
<1>2. new = IF own THEN old \cup {n} ELSE old
  BY <1>1 DEF OwnEvents
<1>3. old \subseteq 1 .. Len(list) /\ n \notin old
  BY <1>1 DEF OwnEvents
<1>4. IsFiniteSet(old) /\ Cardinality(old) \in Nat
  <2>1. IsFiniteSet(1 .. Len(list))
    BY FS_Interval
  <2>2. QED
    BY <1>3, <2>1, FS_Subset, FS_CardinalityType
<1>5. Cardinality(old \cup {n}) = Cardinality(old) + 1
  BY <1>3, <1>4, FS_AddElement
<1>6. \A i \in old : {j \in new : j <= i} = {j \in old : j <= i}
  BY <1>1, <1>2, <1>3
<1>7. own => {j \in new : j <= n} = old \cup {n}
  BY <1>1, <1>2, <1>3
<1> HIDE DEF own, old, new, n
<1>8. QED
  BY <1>2, <1>4, <1>5, <1>6, <1>7 DEF OwnUpTo, own, old, new, n

\* The list and the emitted types grow together.
LEMMA MirrorsOwn ==
  ASSUME NEW list \in Seq(Events), NEW types \in Seq(EventTypes), NEW r \in Runs,
         NEW e \in Events, e.run = r, e.type # "retrieval.citations",
         Mirrors(list, r, types)
  PROVE  Mirrors(Append(list, e), r, Append(types, e.type))
<1> DEFINE n == Len(list) + 1
           m == Cardinality(OwnEvents(list, r))
           more == Append(types, e.type)
<1>1. /\ m \in Nat /\ Cardinality(OwnEvents(Append(list, e), r)) = m + 1
      /\ OwnEvents(Append(list, e), r) = OwnEvents(list, r) \cup {n}
      /\ \A i \in OwnEvents(list, r) : OwnUpTo(Append(list, e), r, i) = OwnUpTo(list, r, i)
      /\ OwnUpTo(Append(list, e), r, n) = m + 1
  BY OwnGrows
<1>2. m = Len(types) /\ Len(more) = m + 1 /\ more[m + 1] = e.type
      /\ \A k \in 1 .. m : more[k] = types[k]
  <2>1. m = Len(types)
    BY DEF Mirrors
  <2>2. e.type \in EventTypes
    BY DEF Events
  <2>3. QED
    BY <2>1, <2>2
<1>3. \A i \in OwnEvents(list, r) :
        OwnUpTo(list, r, i) \in 1 .. m /\ Append(list, e)[i] = list[i] /\ i \in 1 .. Len(list)
  <2> TAKE i \in OwnEvents(list, r)
  <2>1. i \in 1 .. Len(list) /\ Append(list, e)[i] = list[i]
    BY DEF OwnEvents
  <2>2. OwnEvents(list, r) \subseteq 1 .. Len(list) /\ IsFiniteSet(1 .. Len(list))
    BY FS_Interval DEF OwnEvents
  <2>3. IsFiniteSet(OwnEvents(list, r))
    BY <2>2, FS_Subset
  <2> DEFINE upTo == {j \in OwnEvents(list, r) : j <= i}
  <2>4. IsFiniteSet(upTo) /\ Cardinality(upTo) <= m /\ Cardinality(upTo) \in Nat
    <3>1. upTo \in SUBSET OwnEvents(list, r)
      OBVIOUS
    <3> HIDE DEF upTo
    <3>2. QED
      BY <2>3, <3>1, FS_Subset, FS_CardinalityType
  <2>5. i \in upTo
    BY <2>1
  <2>6. Cardinality(upTo) # 0
    <3> HIDE DEF upTo
    <3>1. QED
      BY <2>4, <2>5, FS_EmptySet
  <2>7. QED
    BY <1>1, <2>1, <2>4, <2>6 DEF OwnUpTo
<1>4. Append(list, e)[n] = e
  OBVIOUS
<1>5. ASSUME NEW i \in OwnEvents(Append(list, e), r)
      PROVE  Append(list, e)[i].type = more[OwnUpTo(Append(list, e), r, i)]
  <2>1. CASE i \in OwnEvents(list, r)
    BY <2>1, <1>1, <1>2, <1>3 DEF Mirrors
  <2>2. CASE i = n
    BY <2>2, <1>1, <1>2, <1>4
  <2>3. QED
    BY <1>1, <2>1, <2>2
<1>6. QED
  BY <1>1, <1>2, <1>5 DEF Mirrors

\* A list in which the run's events mirror types that do not end it does not
\* end the run either.
LEMMA MirrorsEnds ==
  ASSUME NEW list \in Seq(Events), NEW r \in Runs, NEW types \in Seq(EventTypes),
         Mirrors(list, r, types), NoEnd(types),
         \A i \in DOMAIN list : list[i].run = r
  PROVE  \A i \in DOMAIN list : list[i].type # "run.completed"
<1> SUFFICES ASSUME NEW i \in DOMAIN list, list[i].type = "run.completed"
             PROVE  FALSE
  OBVIOUS
<1> DEFINE own == OwnEvents(list, r)
           upTo == {j \in own : j <= i}
<1>1. i \in own /\ i \in upTo
  <2>1. i \in Nat /\ list[i].type # "retrieval.citations"
    OBVIOUS
  <2>2. QED
    BY <2>1 DEF OwnEvents
<1>2. IsFiniteSet(own)
  <2>1. own \subseteq 1 .. Len(list) /\ IsFiniteSet(1 .. Len(list))
    BY FS_Interval DEF OwnEvents
  <2>2. QED
    BY <2>1, FS_Subset
<1>3. upTo \in SUBSET own
  OBVIOUS
<1> HIDE DEF own, upTo
<1>4. Cardinality(upTo) \in Nat /\ Cardinality(upTo) <= Cardinality(own) /\ Cardinality(upTo) # 0
  BY <1>1, <1>2, <1>3, FS_Subset, FS_CardinalityType, FS_EmptySet
<1>5. Cardinality(own) = Len(types) /\ OwnUpTo(list, r, i) = Cardinality(upTo)
      /\ list[i].type = types[OwnUpTo(list, r, i)]
  BY <1>1 DEF Mirrors, OwnUpTo, own, upTo
<1>6. OwnUpTo(list, r, i) \in DOMAIN types
  BY <1>4, <1>5
<1>7. QED
  BY <1>5, <1>6 DEF NoEnd, TerminalEvents

\* Another run's event, or citations, change nothing of that.
LEMMA MirrorsOther ==
  ASSUME NEW list \in Seq(Events), NEW types, NEW r \in Runs, NEW e \in Events,
         e.run # r \/ e.type = "retrieval.citations", Mirrors(list, r, types)
  PROVE  Mirrors(Append(list, e), r, types)
<1>1. /\ Cardinality(OwnEvents(Append(list, e), r)) = Cardinality(OwnEvents(list, r))
      /\ OwnEvents(Append(list, e), r) = OwnEvents(list, r)
      /\ \A i \in OwnEvents(list, r) : OwnUpTo(Append(list, e), r, i) = OwnUpTo(list, r, i)
  BY OwnGrows
<1>2. \A i \in OwnEvents(list, r) : Append(list, e)[i] = list[i]
  BY DEF OwnEvents
<1>3. QED
  BY <1>1, <1>2 DEF Mirrors

\* A list another event is appended to.
LEMMA AppendedTo ==
  ASSUME NEW list \in Seq(Events), NEW e \in Events
  PROVE  /\ list \o <<e>> = Append(list, e) /\ Append(list, e) \in Seq(Events)
         /\ Len(Append(list, e)) = Len(list) + 1
         /\ DOMAIN list = 1 .. Len(list) /\ DOMAIN Append(list, e) = 1 .. Len(list) + 1
         /\ Append(list, e)[Len(list) + 1] = e
         /\ \A i \in 1 .. Len(list) : Append(list, e)[i] = list[i]
OBVIOUS

\* What Emit does to the lists, the counters and the history.
LEMMA EmitEffect ==
  ASSUME EventTypesOK, NEW r \in Runs, Listener(r) \in Runs,
         NEW type \in EventTypes, Emit(r, type)
  PROVE  LET h == Listener(r)
             n == sequence[r] + 1
             e == [type |-> type, run |-> r, sequence |-> n]
             cited == [type |-> "retrieval.citations", run |-> h, sequence |-> n]
             moved == [type |-> type, run |-> r, sequence |-> n + 1]
         IN  /\ n \in Nat /\ e \in Events /\ cited \in Events /\ moved \in Events
             /\ \A q \in Runs \ {h} : events'[q] = events[q]
             /\ \A q \in Runs \ {r} : emitted'[q] = emitted[q]
             /\ \A q \in Runs \ {r, h} : sequence'[q] = sequence[q]
             /\ emitted'[r] = Append(emitted[r], type)
             /\ \/ /\ events'[h] = Append(events[h], e)
                   /\ sequence'[r] = n
                \/ /\ events'[h] = Append(Append(events[h], cited), moved)
                   /\ sequence'[h] = n + 1
<1> DEFINE h == Listener(r)
           n == sequence[r] + 1
           e == [type |-> type, run |-> r, sequence |-> n]
           cited == [type |-> "retrieval.citations", run |-> h, sequence |-> n]
           moved == [type |-> type, run |-> r, sequence |-> n + 1]
<1>1. n \in Nat /\ n + 1 \in Nat
  BY DEF EventTypesOK
<1>2. e \in Events /\ cited \in Events /\ moved \in Events
  BY <1>1 DEF Events, EventTypes
<1>3. /\ events' = [events EXCEPT ![h] = events[h] \o EventRecords(h, r, type, n)]
      /\ sequence' = IF AddsCitations(h, type)
                     THEN [[sequence EXCEPT ![r] = n] EXCEPT ![h] = n + 1]
                     ELSE [sequence EXCEPT ![r] = n]
      /\ emitted' = [emitted EXCEPT ![r] = Append(emitted[r], type)]
  BY DEF Emit, EmitAs
<1>4. EventRecords(h, r, type, n) =
        IF AddsCitations(h, type) THEN <<cited, moved>> ELSE <<e>>
  BY DEF EventRecords
<1>5. h \in Runs /\ events[h] \in Seq(Events)
  BY DEF EventTypesOK
<1> HIDE DEF h, n, e, cited, moved
<1>6. events[h] \o <<e>> = Append(events[h], e)
  BY <1>2, <1>5, AppendedTo
<1>7. events[h] \o <<cited, moved>> = Append(Append(events[h], cited), moved)
  BY <1>2, <1>5
<1>8. events'[h] = events[h] \o EventRecords(h, r, type, n)
      /\ \A q \in Runs \ {h} : events'[q] = events[q]
  BY <1>3, <1>5 DEF EventTypesOK
<1>9. /\ \A q \in Runs \ {r} : emitted'[q] = emitted[q]
      /\ emitted'[r] = Append(emitted[r], type)
      /\ \A q \in Runs \ {r, h} : sequence'[q] = sequence[q]
  BY <1>3, <1>5 DEF EventTypesOK
<1>10. /\ ~AddsCitations(h, type) => sequence'[r] = n
       /\ AddsCitations(h, type) => sequence'[h] = n + 1
  BY <1>3, <1>5 DEF EventTypesOK
<1>11. QED
  BY <1>1, <1>2, <1>4, <1>6, <1>7, <1>8, <1>9, <1>10 DEF h, n, e, cited, moved

\* A thread that emits into its own list.
LEMMA EmitOwn ==
  ASSUME EventTypesOK, NEW r \in Runs, Listener(r) = r, NEW type \in EventTypes,
         type # "retrieval.citations", Emit(r, type),
         Undisturbed(r) => \A i \in DOMAIN events[r] : events[r][i].sequence = i,
         Undisturbed(r) => sequence[r] = Len(events[r])
  PROVE  /\ Undisturbed(r)' =>
              /\ Undisturbed(r)
              /\ \A i \in DOMAIN events'[r] : events'[r][i].sequence = i
              /\ sequence'[r] = Len(events'[r])
         /\ Mirrors(events[r], r, emitted[r]) => Mirrors(events'[r], r, emitted'[r])
         /\ events'[r] # <<>> /\ events'[r][Len(events'[r])].type = type
<1> DEFINE n == sequence[r] + 1
           e == [type |-> type, run |-> r, sequence |-> n]
           cited == [type |-> "retrieval.citations", run |-> r, sequence |-> n]
           moved == [type |-> type, run |-> r, sequence |-> n + 1]
           list == events[r]
<1>1. /\ n \in Nat /\ e \in Events /\ cited \in Events /\ moved \in Events
      /\ emitted'[r] = Append(emitted[r], type)
      /\ \/ /\ events'[r] = Append(events[r], e)
            /\ sequence'[r] = n
         \/ /\ events'[r] = Append(Append(events[r], cited), moved)
            /\ sequence'[r] = n + 1
  BY EmitEffect, ZenonT(40)
<1>2. list \in Seq(Events) /\ emitted[r] \in Seq(EventTypes)
  BY DEF EventTypesOK
<1>3. /\ e.type = type /\ e.run = r /\ e.sequence = n
      /\ cited.type = "retrieval.citations" /\ cited.run = r /\ cited.sequence = n
      /\ moved.type = type /\ moved.run = r /\ moved.sequence = n + 1
  OBVIOUS
<1>4. CASE events'[r] = Append(events[r], e) /\ sequence'[r] = n
  <2>1. /\ DOMAIN list = 1 .. Len(list) /\ events'[r] = Append(list, e)
        /\ DOMAIN events'[r] = 1 .. Len(list) + 1 /\ Len(events'[r]) = Len(list) + 1
        /\ events'[r][Len(list) + 1] = e /\ events'[r] # <<>> /\ Len(list) \in Nat
        /\ \A i \in 1 .. Len(list) : events'[r][i] = list[i]
    <3>1. events'[r] = Append(list, e) /\ e \in Events
      BY <1>1, <1>4
    <3> HIDE DEF e, list
    <3>2. /\ DOMAIN list = 1 .. Len(list) /\ DOMAIN Append(list, e) = 1 .. Len(list) + 1
          /\ Len(Append(list, e)) = Len(list) + 1 /\ Append(list, e)[Len(list) + 1] = e
          /\ \A i \in 1 .. Len(list) : Append(list, e)[i] = list[i]
      BY <1>2, <3>1, AppendedTo
    <3>3. Append(list, e) # <<>> /\ Len(list) \in Nat
      BY <1>2, <3>2
    <3>4. QED
      BY <3>1, <3>2, <3>3
  <2>2. Mirrors(list, r, emitted[r]) => Mirrors(Append(list, e), r, emitted'[r])
    <3> HIDE DEF e, list
    <3>1. QED
      BY <1>1, <1>2, <1>3, MirrorsOwn
  <2> HIDE DEF e
  <2>3. Undisturbed(r)' => Undisturbed(r)
    BY <2>1 DEF Undisturbed
  <2>4. Undisturbed(r) => n = Len(list) + 1
    OBVIOUS
  <2> HIDE DEF n
  <2>5. QED
    BY <1>3, <1>4, <2>1, <2>2, <2>3, <2>4
<1>5. CASE events'[r] = Append(Append(events[r], cited), moved) /\ sequence'[r] = n + 1
  <2> DEFINE mid == Append(list, cited)
  <2>1. /\ DOMAIN list = 1 .. Len(list) /\ mid \in Seq(Events)
        /\ DOMAIN mid = 1 .. Len(list) + 1 /\ Len(mid) = Len(list) + 1
        /\ mid[Len(list) + 1] = cited /\ Len(list) \in Nat
        /\ \A i \in 1 .. Len(list) : mid[i] = list[i]
    BY <1>1, <1>2, AppendedTo
  <2>2. /\ events'[r] = Append(mid, moved)
        /\ DOMAIN events'[r] = 1 .. Len(list) + 2 /\ Len(events'[r]) = Len(list) + 2
        /\ events'[r][Len(list) + 2] = moved /\ events'[r] # <<>>
        /\ \A i \in 1 .. Len(list) + 1 : events'[r][i] = mid[i]
    <3> HIDE DEF mid, moved
    <3>1. events'[r] = Append(mid, moved)
      BY <1>5 DEF mid
    <3>2. QED
      BY <1>1, <2>1, <3>1, AppendedTo, SMTT(30)
  <2>3. Mirrors(list, r, emitted[r]) => Mirrors(mid, r, emitted[r])
    <3> HIDE DEF list, cited
    <3>1. QED
      BY <1>1, <1>2, <1>3, MirrorsOther DEF mid
  <2>4. Mirrors(mid, r, emitted[r]) => Mirrors(Append(mid, moved), r, emitted'[r])
    <3> HIDE DEF mid, moved
    <3>1. QED
      BY <1>1, <1>2, <1>3, <2>1, MirrorsOwn
  <2> HIDE DEF mid, moved, cited
  <2>5. Undisturbed(r)' => Undisturbed(r)
    BY <2>1, <2>2 DEF Undisturbed
  <2>6. Undisturbed(r) => n = Len(list) + 1
    OBVIOUS
  <2> HIDE DEF n
  <2>7. ASSUME Undisturbed(r)', NEW i \in DOMAIN events'[r]
        PROVE  events'[r][i].sequence = i
    <3>1. CASE i \in 1 .. Len(list)
      BY <2>1, <2>2, <2>5, <2>7, <3>1
    <3>2. CASE i = Len(list) + 1
      BY <1>3, <2>1, <2>2, <2>5, <2>6, <2>7, <3>2
    <3>3. CASE i = Len(list) + 2
      BY <1>3, <2>1, <2>2, <2>5, <2>6, <2>7, <3>3
    <3>4. QED
      BY <2>1, <2>2, <3>1, <3>2, <3>3
  <2>8. Undisturbed(r)' => Undisturbed(r) /\ sequence'[r] = Len(events'[r])
    BY <1>5, <2>1, <2>2, <2>5, <2>6
  <2>9. Mirrors(events[r], r, emitted[r]) => Mirrors(events'[r], r, emitted'[r])
    BY <2>2, <2>3, <2>4
  <2>10. events'[r] # <<>> /\ events'[r][Len(events'[r])].type = type
    BY <1>3, <2>2
  <2>11. QED
    BY <2>7, <2>8, <2>9, <2>10
<1>6. QED
  BY <1>1, <1>4, <1>5

\* A thread that emits into another run's list: that list is disturbed, and
\* what it mirrors is not.
LEMMA EmitForeign ==
  ASSUME EventTypesOK, NEW r \in Runs, NEW h \in Runs, Listener(r) = h, h # r,
         NEW type \in EventTypes, Emit(r, type)
  PROVE  /\ ~Undisturbed(h)'
         /\ \A types : Mirrors(events[h], h, types) => Mirrors(events'[h], h, types)
<1> DEFINE n == sequence[r] + 1
           e == [type |-> type, run |-> r, sequence |-> n]
           cited == [type |-> "retrieval.citations", run |-> h, sequence |-> n]
           moved == [type |-> type, run |-> r, sequence |-> n + 1]
<1>1. /\ e \in Events /\ cited \in Events /\ moved \in Events
      /\ emitted'[h] = emitted[h]
      /\ \/ events'[h] = Append(events[h], e)
         \/ events'[h] = Append(Append(events[h], cited), moved)
  BY EmitEffect
<1>2. e.run # h /\ cited.type = "retrieval.citations" /\ moved.run # h
  OBVIOUS
<1>3. events[h] \in Seq(Events)
  BY DEF EventTypesOK
<1> HIDE DEF e, cited, moved
<1>4. CASE events'[h] = Append(events[h], e)
  <2>1. ~Undisturbed(h)'
    BY <1>1, <1>2, <1>3, <1>4, AppendedTo DEF Undisturbed
  <2>2. QED
    BY <1>1, <1>2, <1>3, <1>4, <2>1, MirrorsOther
<1>5. CASE events'[h] = Append(Append(events[h], cited), moved)
  <2> DEFINE mid == Append(events[h], cited)
  <2>1. mid \in Seq(Events)
    BY <1>1, <1>3, AppendedTo
  <2>2. \A types : Mirrors(events[h], h, types) => Mirrors(mid, h, types)
    BY <1>1, <1>2, <1>3, MirrorsOther
  <2> HIDE DEF mid
  <2>3. events'[h] = Append(mid, moved)
    BY <1>5 DEF mid
  <2>4. ~Undisturbed(h)'
    BY <1>1, <1>2, <2>1, <2>3, AppendedTo DEF Undisturbed
  <2>5. QED
    BY <1>1, <1>2, <2>1, <2>2, <2>3, <2>4, MirrorsOther
<1>6. QED
  BY <1>1, <1>4, <1>5

\* The run.failed that follows a lost number.
LEMMA EmitLate ==
  ASSUME EventTypesOK, NEW r \in Runs, Listener(r) = r, Emit(r, "run.failed"),
         OneLost(r)
  PROVE  \A i \in DOMAIN events'[r] :
           events'[r][i].sequence = i \/ NumberLost(events'[r], r, i)
<1> DEFINE list == events[r]
           e == [type |-> "run.failed", run |-> r, sequence |-> Len(list) + 2]
<1>1. list \in Seq(Events) /\ Len(list) \in Nat /\ sequence[r] + 1 = Len(list) + 2
  BY DEF EventTypesOK, OneLost
<1>2. e \in Events
  BY <1>1 DEF Events, EventTypes
<1>3. events'[r] = list \o <<e>>
  <2>1. ~AddsCitations(r, "run.failed")
    BY DEF AddsCitations
  <2>2. QED
    BY <1>1, <2>1 DEF Emit, EmitAs, EventRecords, EventTypesOK
<1>4. e.type = "run.failed" /\ e.sequence = Len(list) + 2
  OBVIOUS
<1> HIDE DEF e
<1>5. /\ DOMAIN list = 1 .. Len(list) /\ DOMAIN events'[r] = 1 .. Len(list) + 1
      /\ Len(events'[r]) = Len(list) + 1 /\ events'[r][Len(list) + 1] = e
      /\ \A i \in 1 .. Len(list) : events'[r][i] = list[i]
  <2> HIDE DEF list
  <2>1. QED
    BY <1>1, <1>2, <1>3, AppendedTo
<1>6. \A i \in 1 .. Len(list) : list[i].sequence = i /\ list[i].type # "run.completed"
  BY <1>5 DEF OneLost, Numbered
<1>7. AddsCitations(r, "run.completed")
  BY DEF OneLost
<1> HIDE DEF list
<1>8. \A j \in DOMAIN events'[r] : events'[r][j].type # "run.completed"
  <2> TAKE j \in DOMAIN events'[r]
  <2>1. CASE j = Len(list) + 1
    BY <1>4, <1>5, <2>1
  <2>2. CASE j \in 1 .. Len(list)
    BY <1>5, <1>6, <2>2
  <2>3. QED
    BY <1>1, <1>5, <2>1, <2>2
<1>9. NumberLost(events'[r], r, Len(list) + 1)
  BY <1>1, <1>4, <1>5, <1>7, <1>8 DEF NumberLost
<1>10. QED
  BY <1>1, <1>5, <1>6, <1>9

\* A thread emits neither from an exception's way out, but for the event that
\* reports it, nor after its end.
MayEmit(r, type) ==
  /\ pc[r] \notin {"idle", "registered", "raiseFailed", "final", "done"}
  /\ pc[r] = "emitFailed" => type = "run.failed" /\ pc'[r] = "final"

\* Emitting leaves the invariant of the lists in place.
LEMMA EmitLists ==
  ASSUME IInv, ListInv, NEW r \in Runs, NEW type \in EventTypes,
         type # "retrieval.citations", Emit(r, type), UNCHANGED serviceVars,
         MayEmit(r, type), pc'[r] \notin {"idle", "registered"},
         \A q \in Runs \ {r} : pc'[q] = pc[q], Live(r)' => Live(r)
  PROVE  /\ ListInv'
         /\ \A q \in Runs \ {r} : events'[q] = events[q] \/ ~Undisturbed(q)'
         /\ Undisturbed(r)' => Undisturbed(r)
         /\ emitted'[r] = Append(emitted[r], type)
         /\ \A q \in Runs \ {r} : emitted'[q] = emitted[q]
         /\ Live(r) => events'[r] # <<>> /\ events'[r][Len(events'[r])].type = type
<1> USE DEF serviceVars
<1>m. pc[r] \notin {"idle", "registered"}
  BY DEF MayEmit
<1>0. Listener(r) \in Runs
  BY <1>m DEF IInv, SlotInv, PlaceOK, Listener
<1> PICK h \in Runs : h = Listener(r)
  BY <1>0
<1>1. /\ EventTypesOK /\ home[r] \in Sessions /\ h = controls[home[r]]
      /\ home[h] = home[r] /\ pc[h] \notin {"idle", "registered"}
  BY <1>m, ConstantsAssumption
  DEF IInv, TypeOK, EventTypesOK, SlotInv, PlaceOK, Listener, ListInv, HolderOK
<1>2. Live(r) => h = r
  BY <1>m DEF IInv, SlotInv, ControlsOwned, Listener
<1>3. /\ \A q \in Runs \ {h} : events'[q] = events[q]
      /\ \A q \in Runs \ {r} : emitted'[q] = emitted[q]
      /\ \A q \in Runs \ {r, h} : sequence'[q] = sequence[q]
      /\ emitted'[r] = Append(emitted[r], type)
  BY <1>1, EmitEffect
<1>4. HolderOK'
  BY <1>m DEF ListInv, HolderOK, IInv, TypeOK
<1>5. \A q \in Runs \ {r} : Live(q)' <=> Live(q)
  BY DEF Live
<1>6. ASSUME NEW q \in Runs \ {r, h}
      PROVE  ListOK(q)'
  <2>1. ListOK(q) /\ QuietPlace(q)
    BY <1>5 DEF ListInv, QuietPlace
  <2>2. QED
    BY <1>3, <1>5, <2>1, ListStays
<1>7. CASE h = r
  <2>a. ListOK(r) /\ controls[home[r]] = r /\ pc[r] \notin {"idle", "final", "done"}
    BY <1>1, <1>7 DEF ListInv, MayEmit
  <2>1. CASE ~(Undisturbed(r) /\ OneLost(r))
    <3>1. /\ Undisturbed(r) => \A i \in DOMAIN events[r] : events[r][i].sequence = i
          /\ Undisturbed(r) => sequence[r] = Len(events[r])
      BY <2>a, <2>1 DEF ListOK, Numbered
    <3>2. /\ Undisturbed(r)' =>
               /\ Undisturbed(r)
               /\ \A i \in DOMAIN events'[r] : events'[r][i].sequence = i
               /\ sequence'[r] = Len(events'[r])
          /\ Mirrors(events[r], r, emitted[r]) => Mirrors(events'[r], r, emitted'[r])
          /\ events'[r] # <<>> /\ events'[r][Len(events'[r])].type = type
      BY <1>1, <1>7, <3>1, EmitOwn
    <3>3. Live(r) => Mirrors(events[r], r, emitted[r])
      BY <2>a DEF ListOK, LastRefused, MayEmit
    <3>4. Numbered(r)' <=> \A i \in DOMAIN events'[r] : events'[r][i].sequence = i
      BY DEF Numbered
    <3>5. Live(r)' => Mirrors(events[r], r, emitted[r])'
      BY <3>2, <3>3
    <3>6. ListOK(r)'
      BY <3>2, <3>4, <3>5 DEF ListOK
    <3>7. QED
      BY <1>3, <1>4, <1>6, <1>7, <3>2, <3>6 DEF ListInv
  <2>2. CASE Undisturbed(r) /\ OneLost(r)
    <3>1. pc[r] = "emitFailed" /\ type = "run.failed" /\ pc'[r] = "final"
      BY <2>2 DEF OneLost, MayEmit
    <3>2. ~Live(r)
      BY <3>1 DEF IInv, SlotInv, PlaceOK, Live
    <3>3. \A i \in DOMAIN events'[r] :
            events'[r][i].sequence = i \/ NumberLost(events'[r], r, i)
      BY <1>1, <1>7, <2>2, <3>1, EmitLate
    <3>4. \A i \in DOMAIN events'[r] :
            events'[r][i].sequence = i \/ NumberLost(events[r], r, i)'
      BY <3>3 DEF NumberLost, AddsCitations
    <3>5. ListOK(r)'
      BY <3>1, <3>2, <3>4 DEF ListOK
    <3>6. QED
      BY <1>3, <1>4, <1>6, <1>7, <2>2, <3>2, <3>5 DEF ListInv
  <2>3. QED
    BY <2>1, <2>2
<1>8. CASE h # r
  <2>1. /\ ~Undisturbed(h)'
        /\ \A types : Mirrors(events[h], h, types) => Mirrors(events'[h], h, types)
    BY <1>1, <1>8, EmitForeign
  <2>2. ListOK(h)'
    <3>1. /\ pc'[h] = pc[h] /\ emitted'[h] = emitted[h]
          /\ Live(h)' => Live(h)
          /\ AddsCitations(h, "run.completed")' <=> AddsCitations(h, "run.completed")
      BY <1>3, <1>5, <1>8 DEF AddsCitations
    <3>2. Mirrors(events[h], h, emitted[h]) => Mirrors(events[h], h, emitted[h])'
      <4>1. Mirrors(events[h], h, emitted[h]) => Mirrors(events'[h], h, emitted[h])
        BY <2>1
      <4>2. QED
        BY <3>1, <4>1
    <3>3. LastRefused(h) => LastRefused(h)'
      <4> DEFINE front == SubSeq(emitted[h], 1, Len(emitted[h]) - 1)
      <4>1. Mirrors(events[h], h, front) => Mirrors(events'[h], h, front)
        BY <2>1
      <4>2. QED
        BY <3>1, <4>1 DEF LastRefused
    <3>4. QED
      BY <1>1, <2>1, <3>1, <3>2, <3>3 DEF ListInv, ListOK
  <2>3. events'[r] = events[r] /\ ~Live(r)
    BY <1>2, <1>3, <1>8
  <2>4. controls'[home'[r]] # r
    BY <1>1, <1>8
  <2>5. ListOK(r)'
    <3>1. /\ Undisturbed(r)' <=> Undisturbed(r)
          /\ \A i : NumberLost(events[r], r, i)' <=> NumberLost(events[r], r, i)
      BY <2>3 DEF Undisturbed, NumberLost, AddsCitations
    <3>2. QED
      BY <2>3, <2>4, <3>1 DEF ListInv, ListOK
  <2>6. \A q \in Runs \ {r} : events'[q] = events[q] \/ ~Undisturbed(q)'
    BY <1>3, <2>1
  <2>7. QED
    BY <1>3, <1>4, <1>6, <2>2, <2>3, <2>5, <2>6 DEF ListInv, Undisturbed
<1>9. QED
  BY <1>7, <1>8

\* So does a step without an event that starts and configures no run.
LEMMA QuietLists ==
  ASSUME IInv, ListInv, UNCHANGED <<eventVars, home, kind, controls>>,
         \A q \in Runs : QuietPlace(q) /\ (Live(q)' => Live(q))
  PROVE  ListInv'
<1>1. HolderOK'
  BY DEF ListInv, HolderOK, QuietPlace, IInv, TypeOK
<1>2. \A q \in Runs : ListOK(q)'
  BY ListStays DEF ListInv, eventVars
<1>3. QED
  BY <1>1, <1>2 DEF ListInv

\* What a thread emits: nothing, one event under its own run's id, or a
\* run.completed that is refused.
EmitsOnce(r) ==
  \/ UNCHANGED eventVars
  \/ CompletionRefused(r)
  \/ \E type \in EventTypes \ {"retrieval.citations"} :
       Emit(r, type) /\ UNCHANGED serviceVars /\ MayEmit(r, type)

\* Inside the loop the task is the run's own.
LEMMA TaskEvent ==
  ASSUME IInv, NEW r \in Runs, pc[r] \in AskPcs \ {"ask"}, NEW type, EmitTask(r, type)
  PROVE  Emit(r, type)
BY DEF IInv, SlotInv, ControlsOwned, EmitTask, Emit

\* The events the agent loop emits.
LEMMA LoopEmits ==
  ASSUME IInv, NEW r \in Runs, LoopStep(r) \/ ToolStep(r)
  PROVE  EmitsOnce(r)
<1> USE DEF EmitsOnce
<1>a. pc[r] \in AskPcs => \A type : MayEmit(r, type)
  BY DEF MayEmit, AskPcs
<1>0. {"run.started", "run.cancelled", "run.failed", "message.completed", "run.completed",
       "tool.approval_required", "tool.denied", "tool.started", "tool.finished",
       "tool.cancelled"} \subseteq EventTypes \ {"retrieval.citations"}
  BY DEF EventTypes
<1>1. CASE AskStarts(r)
  BY <1>0, <1>a, <1>1 DEF AskStarts, AskPcs
<1>2. CASE FinishCancelled(r)
  BY <1>0, <1>a, <1>2, TaskEvent DEF FinishCancelled, AskPcs
<1>3. CASE ModelFails(r)
  BY <1>0, <1>a, <1>3, TaskEvent DEF ModelFails, AskPcs
<1>4. CASE FinalAnswer(r)
  BY <1>0, <1>a, <1>4, TaskEvent DEF FinalAnswer, AskPcs
<1>5. CASE Completes(r)
  BY <1>0, <1>a, <1>5, TaskEvent DEF Completes, AskPcs
<1>6. CASE LimitReached(r)
  BY <1>0, <1>a, <1>6, TaskEvent DEF LimitReached, AtLimit, AskPcs
<1>7. CASE RequestModel(r) \/ ObserveCancel(r) \/ AskRaises(r)
  BY <1>7 DEF RequestModel, ObserveCancel, AskRaises
<1>8. CASE RequestTool(r)
  BY <1>0, <1>a, <1>8, TaskEvent DEF RequestTool, AskPcs
<1>9. CASE AwaitDecision(r)
  BY <1>0, <1>a, <1>9, TaskEvent DEF AwaitDecision, Decided, AskPcs
<1>10. CASE TakeDecision(r)
  BY <1>0, <1>a, <1>10, TaskEvent DEF TakeDecision, Decided, AskPcs
<1>11. CASE StartTool(r)
  BY <1>0, <1>a, <1>11, TaskEvent DEF StartTool, AskPcs
<1>12. CASE ToolReturns(r)
  BY <1>0, <1>a, <1>12, TaskEvent DEF ToolReturns, AskPcs
<1>13. CASE ToolCancelled(r)
  BY <1>0, <1>a, <1>13, TaskEvent DEF ToolCancelled, AskPcs
<1>14. CASE CheckRule(r) \/ WaitCancelled(r) \/ WaitReady(r)
  BY <1>14 DEF CheckRule, WaitCancelled, WaitReady
<1>15. CASE CompletionRefused(r)
  BY <1>15
<1>16. QED
  BY <1>1, <1>2, <1>3, <1>4, <1>5, <1>6, <1>7, <1>8, <1>9, <1>10, <1>11, <1>12, <1>13,
     <1>14, <1>15
  DEF LoopStep, ToolStep

\* The events the service emits.
LEMMA ServiceEmits ==
  ASSUME IInv, NEW r \in Runs, ServiceStep(r)
  PROVE  EmitsOnce(r)
<1> USE DEF EmitsOnce, MayEmit
<1>a. pc \in [Runs -> Pcs]
  BY DEF IInv, TypeOK
<1>0. {"run.progress", "run.started", "run.cancelled", "run.failed", "message.completed",
       "run.completed"} \subseteq EventTypes \ {"retrieval.citations"}
  BY DEF EventTypes
<1>1. CASE PrepareProgress(r)
  BY <1>0, <1>1 DEF PrepareProgress
<1>2. CASE EmitCancelled(r)
  BY <1>0, <1>2 DEF EmitCancelled
<1>3. CASE EmitFailed(r)
  BY <1>0, <1>a, <1>3 DEF EmitFailed, Goto
<1>4. CASE Record(r)
  BY <1>0, <1>4 DEF Record
<1>5. CASE AnswerStatic(r)
  BY <1>0, <1>5 DEF AnswerStatic
<1>6. CASE ConfigureRunControls(r) \/ Begin(r) \/ PrepareEnds(r) \/ TakeTaskStatus(r)
            \/ WriteFails(r) \/ SetRaised(r) \/ Finish(r) \/ CheckStatic(r)
  BY <1>6
  DEF ConfigureRunControls, Begin, PrepareEnds, TakeTaskStatus, WriteFails, SetRaised,
      Finish, CheckStatic
<1>7. QED
  BY <1>1, <1>2, <1>3, <1>4, <1>5, <1>6 DEF ServiceStep

\* One more emitted type.
LEMMA AppendEnds ==
  ASSUME NEW list \in Seq(EventTypes), NEW type \in EventTypes
  PROVE  /\ NoEnd(list) /\ type \notin TerminalEvents => NoEnd(Append(list, type))
         /\ NoEnd(list) /\ type \in TerminalEvents =>
              OneEnd(Append(list, type)) /\ Append(list, type)[Len(Append(list, type))] = type
         /\ NoEnd(list) => Ended(list) /\ Ended(Append(list, type))
         /\ OneEnd(list) => Ended(list)
         /\ OneEnd(list) /\ list[Len(list)] # "run.failed" /\ type = "run.failed"
              => Ended(Append(list, type))
<1> DEFINE more == Append(list, type)
<1>1. /\ DOMAIN list = 1 .. Len(list) /\ DOMAIN more = 1 .. Len(list) + 1
      /\ Len(more) = Len(list) + 1 /\ more[Len(list) + 1] = type /\ Len(list) \in Nat
      /\ \A i \in 1 .. Len(list) : more[i] = list[i]
      /\ more # <<>>
  OBVIOUS
<1> HIDE DEF more
<1>2. NoEnd(list) /\ type \notin TerminalEvents => NoEnd(more)
  BY <1>1 DEF NoEnd
<1>3. NoEnd(list) /\ type \in TerminalEvents => OneEnd(more) /\ more[Len(more)] = type
  BY <1>1 DEF NoEnd, OneEnd
<1>4. NoEnd(list) => Ended(list) /\ Ended(more)
  BY <1>1 DEF NoEnd, Ended
<1>5. OneEnd(list) => Ended(list)
  BY <1>1 DEF OneEnd, Ended
<1>6. OneEnd(list) /\ list[Len(list)] # "run.failed" /\ type = "run.failed" => Ended(more)
  BY <1>1 DEF OneEnd, Ended
<1>7. QED
  BY <1>2, <1>3, <1>4, <1>5, <1>6 DEF more

\* The history of a run whose thread emits.
LEMMA EmitAppends ==
  ASSUME IInv, NEW r \in Runs, NEW type, Emit(r, type)
  PROVE  emitted'[r] = Append(emitted[r], type) /\ emitted[r] \in Seq(EventTypes)
BY DEF IInv, TypeOK, Emit, EmitAs

\* A step that emits nothing, or something that does not end the run.
LEMMA EndStays ==
  ASSUME IInv, NEW r \in Runs, EndOK(r), kind'[r] = kind[r],
         pc[r] \in BeforeEnd, pc'[r] \in BeforeEnd \cup {"raiseFailed"},
         pc'[r] \in {"record", "check", "message", "completed"} => kind[r] = "static",
         pc'[r] \in AskPcs \cup {"prepare"} => kind[r] # "static",
         \/ UNCHANGED emitted
         \/ \E type \in EventTypes \ TerminalEvents : Emit(r, type)
  PROVE  EndOK(r)'
<1>1. NoEnd(emitted[r])
  BY DEF EndOK
<1>2. NoEnd(emitted'[r])
  <2>1. CASE UNCHANGED emitted
    BY <1>1, <2>1
  <2>2. ASSUME NEW type \in EventTypes \ TerminalEvents, Emit(r, type)
        PROVE  NoEnd(emitted'[r])
    <3>1. emitted'[r] = Append(emitted[r], type) /\ emitted[r] \in Seq(EventTypes)
      BY <2>2, EmitAppends
    <3>2. NoEnd(Append(emitted[r], type))
      BY <1>1, <3>1, AppendEnds
    <3>3. QED
      BY <3>1, <3>2
  <2>3. QED
    BY <2>1, <2>2
<1>3. NoEnd(emitted[r])'
  BY <1>2 DEF NoEnd
<1>4. pc'[r] \notin {"asked", "final", "done", "emitFailed"}
  BY DEF BeforeEnd, AskPcs
<1>5. QED
  BY <1>3, <1>4 DEF EndOK

\* A step that emits the event a run ends with.
LEMMA EndEmitted ==
  ASSUME IInv, NEW r \in Runs, EndOK(r), pc[r] \in BeforeEnd,
         NEW type \in TerminalEvents, Emit(r, type)
  PROVE  /\ OneEnd(emitted[r])' /\ emitted'[r][Len(emitted'[r])] = type
         /\ Ended(emitted[r])'
<1>1. type \in EventTypes
  BY DEF TerminalEvents, EventTypes
<1>2. NoEnd(emitted[r])
  BY DEF EndOK
<1>a. emitted'[r] = Append(emitted[r], type) /\ emitted[r] \in Seq(EventTypes)
  BY EmitAppends
<1>b. LET more == Append(emitted[r], type)
      IN  OneEnd(more) /\ more[Len(more)] = type /\ Ended(more)
  BY <1>1, <1>2, <1>a, AppendEnds
<1>3. OneEnd(emitted'[r]) /\ emitted'[r][Len(emitted'[r])] = type /\ Ended(emitted'[r])
  BY <1>a, <1>b
<1>4. QED
  BY <1>3 DEF OneEnd, Ended

\* A step inside the loop.
LEMMA LoopEnds ==
  ASSUME IInv, ListInv, NEW r \in Runs, EndOK(r), LoopStep(r) \/ ToolStep(r)
  PROVE  EndOK(r)'
<1>0. LoopFrame(r)
  BY LoopMoves, ToolMoves
<1>a. /\ pc[r] \in AskPcs /\ kind[r] # "static" /\ kind' = kind /\ UNCHANGED serviceVars
      /\ pc'[r] \in (AskPcs \ {"ask"}) \cup {"raiseFailed"}
  BY <1>0 DEF LoopFrame, EndOK, serviceVars
<1>b. pc \in [Runs -> Pcs]
  BY DEF IInv, TypeOK
<1>1. CASE FinishCancelled(r) \/ Completes(r) \/ LimitReached(r)
  <2>1. PICK type \in {"run.cancelled", "run.completed"} : EmitTask(r, type)
    BY <1>1 DEF FinishCancelled, Completes, LimitReached
  <2>2. /\ pc[r] \in BeforeEnd /\ pc[r] # "ask" /\ pc'[r] = "asked"
    BY <1>b, <1>1 DEF FinishCancelled, Completes, LimitReached, AtLimit, BeforeEnd, AskPcs, Goto
  <2>3. Emit(r, type) /\ type \in TerminalEvents
    BY <1>a, <2>1, <2>2, TaskEvent DEF TerminalEvents
  <2>4. OneEnd(emitted[r])' /\ emitted'[r][Len(emitted'[r])] = type
    BY <2>2, <2>3, EndEmitted
  <2>5. QED
    BY <1>a, <2>1, <2>2, <2>4 DEF EndOK, BeforeEnd
<1>2. CASE ModelFails(r)
  <2>1. EmitTask(r, "run.failed") /\ pc[r] = "model" /\ pc'[r] = "raiseFailed"
    BY <1>b, <1>2 DEF ModelFails, Goto
  <2>2. Emit(r, "run.failed") /\ pc[r] \in BeforeEnd
    BY <2>1, TaskEvent DEF BeforeEnd, AskPcs
  <2>3. OneEnd(emitted[r])'
    BY <2>2, EndEmitted DEF TerminalEvents
  <2>4. events'[r] # <<>> /\ events'[r][Len(events'[r])].type = "run.failed"
    <3>1. Live(r) /\ "run.failed" \in EventTypes
      BY <1>a, OwnToken DEF EventTypes
    <3>2. (\A q \in Runs \ {r} : pc'[q] = pc[q]) /\ MayEmit(r, "run.failed")
      BY <1>0, <2>1 DEF LoopFrame, MayEmit
    <3>3. Live(r)' => Live(r)
      BY <3>1
    <3>4. QED
      BY <1>a, <2>1, <2>2, <3>1, <3>2, <3>3, EmitLists
  <2>5. LoopFailed(r)'
    BY <1>a, <2>4 DEF LoopFailed
  <2>6. QED
    BY <2>1, <2>3, <2>5 DEF EndOK, BeforeEnd, AskPcs
<1>4. CASE CompletionRefused(r)
  <2>1. /\ pc[r] \in BeforeEnd /\ pc[r] \in AskPcs \ {"ask"} /\ pc'[r] = "raiseFailed"
    BY <1>b, <1>4 DEF CompletionRefused, AtLimit, BeforeEnd, AskPcs, Goto
  <2>2. emitted'[r] = Append(emitted[r], "run.completed") /\ emitted[r] \in Seq(EventTypes)
    <3>1. task[home[r]].run = r
      BY <2>1 DEF IInv, SlotInv, ControlsOwned
    <3>2. QED
      BY <1>4, <3>1 DEF CompletionRefused, CitationsRefused, IInv, TypeOK
  <2>3. NoEnd(emitted[r]) /\ "run.completed" \in TerminalEvents /\ "run.completed" \in EventTypes
    BY <2>1 DEF EndOK, TerminalEvents, EventTypes
  <2>4. LET more == Append(emitted[r], "run.completed")
        IN  OneEnd(more) /\ more[Len(more)] = "run.completed"
    BY <2>2, <2>3, AppendEnds
  <2>5. OneEnd(emitted[r])' /\ emitted'[r][Len(emitted'[r])] # "run.failed"
    BY <2>2, <2>4 DEF OneEnd
  <2>6. QED
    BY <2>1, <2>5 DEF EndOK, BeforeEnd, AskPcs
<1>3. CASE ~FinishCancelled(r) /\ ~Completes(r) /\ ~LimitReached(r) /\ ~ModelFails(r)
           /\ ~CompletionRefused(r)
  <2>1. pc[r] # "asked" /\ pc'[r] # "asked"
    BY <1>b, <1>3
    DEF LoopStep, ToolStep, AskStarts, RequestModel, ObserveCancel, FinalAnswer, AskRaises,
        RequestTool, CheckRule, AwaitDecision, Decided, WaitCancelled, WaitReady,
        TakeDecision, StartTool, ToolReturns, ToolCancelled, Goto
  <2>2. \/ UNCHANGED eventVars
        \/ \E type \in EventTypes \ TerminalEvents : Emit(r, type)
        \/ pc[r] # "ask" /\ \E type \in EventTypes \ TerminalEvents : EmitTask(r, type)
    <3>1. {"run.started", "message.completed", "tool.approval_required", "tool.denied",
           "tool.started", "tool.finished", "tool.cancelled"} \subseteq EventTypes \ TerminalEvents
      BY DEF EventTypes, TerminalEvents
    <3>2. CASE LoopStep(r)
      <4>1. CASE AskStarts(r)
        <5>1. Emit(r, "run.started")
          BY <4>1 DEF AskStarts
        <5>2. QED
          BY <3>1, <5>1
      <4>2. CASE FinalAnswer(r)
        <5>1. pc[r] # "ask" /\ EmitTask(r, "message.completed")
          BY <4>2 DEF FinalAnswer
        <5>2. QED
          BY <3>1, <5>1
      <4>3. CASE RequestModel(r) \/ ObserveCancel(r) \/ AskRaises(r)
        BY <4>3 DEF RequestModel, ObserveCancel, AskRaises
      <4>4. QED
        BY <1>3, <3>2, <4>1, <4>2, <4>3 DEF LoopStep
    <3>3. CASE ToolStep(r)
      BY <3>1, <3>3
      DEF ToolStep, RequestTool, CheckRule, AwaitDecision, Decided, WaitCancelled,
          WaitReady, TakeDecision, StartTool, ToolReturns, ToolCancelled
    <3>4. QED
      BY <3>2, <3>3
  <2>3. \/ UNCHANGED emitted
        \/ \E type \in EventTypes \ TerminalEvents : Emit(r, type)
    BY <1>a, <2>2, TaskEvent DEF eventVars
  <2>4. pc[r] \in BeforeEnd /\ pc'[r] \in BeforeEnd \cup {"raiseFailed"}
    BY <1>a, <2>1 DEF BeforeEnd
  <2>5. pc'[r] \notin {"record", "check", "message", "completed"}
    BY <1>a DEF AskPcs
  <2>6. QED
    BY <1>a, <2>3, <2>4, <2>5, EndStays
<1>5. QED
  BY <1>1, <1>2, <1>3, <1>4

\* A step of the service outside the loop.
LEMMA ServiceEnds ==
  ASSUME IInv, ListInv, NEW r \in Runs, EndOK(r), ServiceStep(r),
         Undisturbed(r)' => Undisturbed(r)
  PROVE  EndOK(r)'
<1>0. pc \in [Runs -> Pcs] /\ emitted[r] \in Seq(EventTypes) /\ kind[r] \in AllKinds \cup {"none"}
  BY DEF IInv, TypeOK
<1>a. kind' = kind
  BY DEF ServiceStep, ConfigureRunControls, Begin, PrepareProgress, PrepareEnds,
         TakeTaskStatus, WriteFails, SetRaised, EmitCancelled, EmitFailed, Finish, Record,
         CheckStatic, AnswerStatic, serviceVars
<1>1. CASE ConfigureRunControls(r) \/ Begin(r) \/ PrepareProgress(r) \/ PrepareEnds(r)
           \/ Record(r) \/ CheckStatic(r)
  <2>1. /\ pc[r] \in BeforeEnd /\ pc'[r] \in BeforeEnd \cup {"raiseFailed"}
        /\ pc'[r] \in {"record", "check", "message", "completed"} => kind[r] = "static"
        /\ pc'[r] \in AskPcs \cup {"prepare"} => kind[r] # "static"
    BY <1>0, <1>1
    DEF ConfigureRunControls, Begin, PrepareProgress, PrepareEnds, Record, CheckStatic,
        Goto, BeforeEnd, AskPcs, EndOK
  <2>2. \/ UNCHANGED emitted
        \/ \E type \in {"run.progress", "run.started"} : Emit(r, type)
    BY <1>1
    DEF ConfigureRunControls, Begin, PrepareProgress, PrepareEnds, Record, CheckStatic,
        eventVars
  <2>3. {"run.progress", "run.started"} \subseteq EventTypes \ TerminalEvents
    BY DEF EventTypes, TerminalEvents
  <2>4. QED
    BY <1>a, <2>1, <2>2, <2>3, EndStays
<1>2. CASE pc[r] = "message" /\ AnswerStatic(r)
  <2>1. pc'[r] = "completed" /\ Emit(r, "message.completed") /\ kind[r] = "static"
    BY <1>0, <1>2 DEF AnswerStatic, Goto, EndOK
  <2>2. "message.completed" \in EventTypes \ TerminalEvents
    BY DEF EventTypes, TerminalEvents
  <2>3. QED
    BY <1>a, <1>2, <2>1, <2>2, EndStays DEF BeforeEnd, AskPcs
<1>3. CASE EmitCancelled(r) \/ (pc[r] = "completed" /\ AnswerStatic(r))
  <2>1. PICK type \in {"run.cancelled", "run.completed"} : Emit(r, type)
    BY <1>3 DEF EmitCancelled, AnswerStatic
  <2>2. pc[r] \in BeforeEnd /\ pc'[r] = "final"
    BY <1>0, <1>3 DEF EmitCancelled, AnswerStatic, Goto, BeforeEnd
  <2>3. Ended(emitted[r])'
    BY <2>1, <2>2, EndEmitted DEF TerminalEvents
  <2>4. QED
    BY <2>2, <2>3 DEF EndOK, BeforeEnd, AskPcs
<1>4. CASE SetRaised(r)
  <2>1. UNCHANGED <<events, emitted>>
    BY <1>4 DEF SetRaised, eventVars
  <2>2. \/ pc[r] = "raiseCancelled" /\ pc'[r] = "emitCancelled"
        \/ pc[r] = "raiseFailed" /\ pc'[r] = "emitFailed"
    BY <1>0, <1>4 DEF SetRaised, Goto
  <2>3. QED
    BY <1>a, <2>1, <2>2 DEF EndOK, BeforeEnd, AskPcs, LoopFailed, Undisturbed
<1>5. CASE WriteFails(r)
  <2>1. UNCHANGED emitted /\ pc[r] = "asked" /\ pc'[r] = "raiseFailed"
    BY <1>0, <1>5 DEF WriteFails, Goto, eventVars
  <2>2. QED
    BY <2>1 DEF EndOK, BeforeEnd, AskPcs
<1>6. CASE TakeTaskStatus(r)
  <2>1. UNCHANGED emitted /\ pc[r] = "asked" /\ pc'[r] = "final"
    BY <1>0, <1>6 DEF TakeTaskStatus, Goto, eventVars
  <2>2. Ended(emitted[r])
    BY <1>0, <2>1, AppendEnds DEF EndOK, EventTypes
  <2>3. QED
    BY <2>1, <2>2 DEF EndOK, BeforeEnd, AskPcs
<1>7. CASE Finish(r)
  <2>1. UNCHANGED <<events, emitted>> /\ pc[r] = "final" /\ pc'[r] = "done"
    BY <1>0, <1>7 DEF Finish, Goto, eventVars
  <2>2. QED
    BY <2>1 DEF EndOK, BeforeEnd, AskPcs, Undisturbed
<1>8. CASE EmitFailed(r)
  <2>1. pc[r] = "emitFailed" /\ pc'[r] = "final"
    BY <1>0, <1>8 DEF EmitFailed, Goto
  <2>2. /\ NoEnd(emitted[r]) \/ OneEnd(emitted[r])
        /\ OneEnd(emitted[r]) /\ emitted[r][Len(emitted[r])] = "run.failed"
             => LoopFailed(r) \/ NoEnd(emitted[r])
    BY <2>1 DEF EndOK
  <2>3. "run.failed" \in EventTypes
    BY DEF EventTypes
  <2>4. ASSUME Undisturbed(r)'
        PROVE  Ended(emitted'[r])
    <3>1. CASE FailedAlready(r)
      <4>1. emitted'[r] = emitted[r]
        BY <1>8, <3>1 DEF EmitFailed, eventVars
      <4>2. QED
        BY <1>0, <2>2, <2>3, <4>1, AppendEnds
    <3>2. CASE ~FailedAlready(r)
      <4>1. emitted'[r] = Append(emitted[r], "run.failed")
        BY <1>8, <3>2, EmitAppends DEF EmitFailed
      <4>2. ~LoopFailed(r)
        BY <2>4, <3>2 DEF LoopFailed, FailedAlready
      <4>3. QED
        BY <1>0, <2>2, <2>3, <4>1, <4>2, AppendEnds
    <3>3. QED
      BY <3>1, <3>2
  <2>5. Undisturbed(r)' => Ended(emitted[r])'
    BY <2>4 DEF Ended
  <2>6. QED
    BY <2>1, <2>5 DEF EndOK, BeforeEnd, AskPcs
<1>9. QED
  BY <1>1, <1>2, <1>3, <1>4, <1>5, <1>6, <1>7, <1>8 DEF ServiceStep, AnswerStatic

\* Where the thread of a run goes on from its end or an exception.
LEMMA ThreadPlace ==
  ASSUME IInv, NEW r \in Runs, ThreadStep(r),
         pc[r] \notin {"idle", "registered"}, pc'[r] \notin {"idle", "registered"}
  PROVE  QuietPlace(r)
<1>0. pc \in [Runs -> Pcs] /\ status \in [Runs -> Statuses]
  BY DEF IInv, TypeOK
<1>1. CASE LoopStep(r) \/ ToolStep(r)
  <2>1. LoopFrame(r)
    BY <1>1, LoopMoves, ToolMoves
  <2>2. QED
    BY <2>1 DEF LoopFrame, QuietPlace, AskPcs
<1>2. CASE ServiceStep(r) /\ pc[r] \in {"raiseFailed", "emitFailed", "final", "done"}
  <2>1. SetRaised(r) \/ EmitFailed(r) \/ Finish(r)
    BY <1>2
    DEF ServiceStep, ConfigureRunControls, Begin, PrepareProgress, PrepareEnds,
        TakeTaskStatus, WriteFails, EmitCancelled, Record, CheckStatic, AnswerStatic
  <2>2. CASE SetRaised(r)
    BY <1>0, <1>2, <2>2 DEF SetRaised, Goto, QuietPlace, Live, Terminal
  <2>3. CASE EmitFailed(r) \/ Finish(r)
    BY <1>0, <1>2, <2>3 DEF EmitFailed, Finish, Goto, QuietPlace
  <2>4. QED
    BY <2>1, <2>2, <2>3
<1>3. CASE pc[r] \notin {"raiseFailed", "emitFailed", "final", "done"}
  BY <1>3 DEF QuietPlace
<1>4. QED
  BY <1>1, <1>2, <1>3 DEF ThreadStep

\* A refused run.completed: the list stands, one number is lost.
LEMMA RefusedLists ==
  ASSUME IInv, EventInv, NEW r \in Runs, CompletionRefused(r),
         \A q \in Runs \ {r} : pc'[q] = pc[q]
  PROVE  /\ ListInv' /\ (Undisturbed(r)' => Undisturbed(r))
         /\ \A q \in Runs \ {r} :
              /\ emitted'[q] = emitted[q]
              /\ events'[q] = events[q] \/ ~Undisturbed(q)'
<1> USE DEF serviceVars
<1>1. /\ pc[r] \in AskPcs \ {"ask", "asked"} /\ pc'[r] = "raiseFailed"
      /\ UNCHANGED <<home, kind, status, controls, events>>
  BY DEF CompletionRefused, CitationsRefused, AtLimit, AskPcs, Goto, IInv, TypeOK
<1>2. /\ Live(r) /\ Listener(r) = r /\ task[home[r]].run = r /\ home[r] \in Sessions
      /\ emitted[r] \in Seq(EventTypes) /\ sequence \in [Runs -> Nat]
      /\ events[r] \in Seq(Events) /\ emitted \in [Runs -> Seq(EventTypes)]
  BY <1>1, OwnToken DEF IInv, SlotInv, ControlsOwned, TypeOK
<1>3. /\ sequence' = [sequence EXCEPT ![r] = @ + 1]
      /\ emitted' = [emitted EXCEPT ![r] = Append(@, "run.completed")]
      /\ AddsCitations(r, "run.completed") /\ AddsCitations(r, "run.completed")'
  BY <1>1, <1>2 DEF CompletionRefused, CitationsRefused, AddsCitations
<1>4. HolderOK'
  BY <1>1 DEF EventInv, ListInv, HolderOK, IInv, TypeOK, AskPcs
<1>5. \A q \in Runs \ {r} : ListOK(q)'
  <2> TAKE q \in Runs \ {r}
  <2>1. ListOK(q) /\ QuietPlace(q)
    BY DEF EventInv, ListInv, QuietPlace
  <2>2. QED
    BY <1>1, <1>2, <1>3, <2>1, ListStays DEF Live
<1>6. ListOK(r)'
  <2>1. ListOK(r) /\ NoEnd(emitted[r])
    BY <1>1 DEF EventInv, ListInv, EndOK, BeforeEnd
  <2>2. Mirrors(events[r], r, emitted[r])
    BY <1>1, <1>2, <2>1 DEF ListOK, LastRefused, AskPcs
  <2>3. Undisturbed(r) => Numbered(r) /\ sequence[r] = Len(events[r])
    BY <1>1, <1>2, <2>1 DEF ListOK, OneLost, AskPcs, Listener
  <2>4. Undisturbed(r) => \A i \in DOMAIN events[r] : events[r][i].type # "run.completed"
    BY <1>2, <2>1, <2>2, MirrorsEnds DEF Undisturbed
  <2>5. Undisturbed(r)' => OneLost(r)' /\ Numbered(r)'
    BY <1>1, <1>2, <1>3, <2>3, <2>4 DEF Undisturbed, OneLost, Numbered
  <2>6. LastRefused(r)'
    <3> DEFINE list == emitted[r]
               more == Append(list, "run.completed")
    <3>1. "run.completed" \in EventTypes
      BY DEF EventTypes
    <3>2. list \in Seq(EventTypes)
      BY <1>2
    <3>3. Len(more) = Len(list) + 1 /\ Len(list) \in Nat /\ more[Len(more)] = "run.completed"
          /\ SubSeq(more, 1, Len(more) - 1) = list
      <4> HIDE DEF list
      <4>1. QED
        BY <3>1, <3>2
    <3>4. emitted'[r] = more /\ events'[r] = events[r]
      BY <1>1, <1>2, <1>3
    <3>5. Mirrors(events[r], r, list)
      BY <2>2
    <3> HIDE DEF more, list
    <3>6. Mirrors(events'[r], r, SubSeq(emitted'[r], 1, Len(emitted'[r]) - 1))
      BY <3>3, <3>4, <3>5
    <3>7. QED
      BY <1>1, <1>3, <3>3, <3>4, <3>6 DEF LastRefused
  <2>7. QED
    BY <1>1, <2>5, <2>6 DEF ListOK, Numbered
<1>7. QED
  BY <1>1, <1>2, <1>3, <1>4, <1>5, <1>6 DEF ListInv, Undisturbed

\* The thread that moves keeps the invariant of the lists and of its own end;
\* in another run's list it leaves everything in place or disturbs it.
LEMMA ThreadEvents ==
  ASSUME IInv, EventInv, NEW r \in Runs, ThreadStep(r)
  PROVE  /\ ListInv' /\ (Undisturbed(r)' => Undisturbed(r))
         /\ \A q \in Runs \ {r} :
              /\ pc'[q] = pc[q] /\ kind'[q] = kind[q] /\ emitted'[q] = emitted[q]
              /\ events'[q] = events[q] \/ ~Undisturbed(q)'
<1>0. /\ pc \in [Runs -> Pcs] /\ kind' = kind /\ home' = home
      /\ \A q \in Runs \ {r} : pc'[q] = pc[q]
  <2>1. pc \in [Runs -> Pcs]
    BY DEF IInv, TypeOK
  <2>2. CASE ServiceStep(r)
    BY <2>1, <2>2
    DEF ServiceStep, ConfigureRunControls, Begin, PrepareProgress, PrepareEnds,
        TakeTaskStatus, WriteFails, SetRaised, EmitCancelled, EmitFailed, Finish, Record,
        CheckStatic, AnswerStatic, serviceVars, Goto
  <2>3. CASE LoopStep(r) \/ ToolStep(r)
    BY <2>1, <2>3, LoopMoves, ToolMoves DEF LoopFrame, serviceVars
  <2>4. QED
    BY <2>1, <2>2, <2>3 DEF ThreadStep
<1>1. CASE ConfigureRunControls(r)
  <2>1. /\ pc[r] = "registered" /\ pc'[r] = "ready" /\ UNCHANGED <<eventVars, status>>
        /\ controls' = [controls EXCEPT ![home[r]] = r] /\ home[r] \in Sessions
    BY <1>0, <1>1 DEF ConfigureRunControls, Goto, IInv, SlotInv, PlaceOK
  <2>2. HolderOK'
    BY <1>0, <2>1 DEF EventInv, ListInv, HolderOK, IInv, TypeOK
  <2>3. ListOK(r)'
    <3>1. events[r] = <<>> /\ emitted[r] = <<>> /\ sequence[r] = 0
      BY <2>1 DEF EventInv, ListInv, ListOK
    <3>2. Live(r)' => Live(r)
      BY <2>1 DEF Live
    <3>3. Undisturbed(r)' <=> Undisturbed(r)
      BY <2>1 DEF eventVars, Undisturbed
    <3>4. Mirrors(events[r], r, emitted[r])' <=> Mirrors(events[r], r, emitted[r])
      BY <2>1 DEF eventVars
    <3>5. ListOK(r) /\ ~LastRefused(r)
      BY <2>1 DEF EventInv, ListInv, LastRefused
    <3>6. events'[r] = <<>> /\ sequence'[r] = 0 /\ emitted'[r] = <<>>
      BY <2>1, <3>1 DEF eventVars
    <3>7. Numbered(r)' /\ sequence'[r] = Len(events'[r])
      BY <3>6 DEF Numbered
    <3>8. QED
      BY <2>1, <3>2, <3>3, <3>4, <3>5, <3>6, <3>7 DEF ListOK
  <2>4. ASSUME NEW q \in Runs \ {r}
        PROVE  ListOK(q)'
    <3>1. controls'[home'[q]] = q /\ pc'[q] # "idle" => controls[home[q]] = q
      BY <1>0, <2>1 DEF IInv, SlotInv, PlaceOK, TypeOK
    <3>2. ListOK(q) /\ QuietPlace(q)
      BY <1>0 DEF EventInv, ListInv, QuietPlace
    <3>3. QED
      BY <1>0, <2>1, <3>1, <3>2, ListStays DEF eventVars, Live
  <2>5. QED
    BY <1>0, <2>1, <2>2, <2>3, <2>4 DEF ListInv, eventVars, Undisturbed
<1>2. CASE ~ConfigureRunControls(r)
  <2>0. /\ pc[r] \notin {"idle", "registered"} /\ pc'[r] \notin {"idle", "registered"}
        /\ Live(r)' => Live(r)
        /\ \A q \in Runs \ {r} : status'[q] = status[q]
        /\ controls' = controls
    <3>1. CASE Finish(r)
      BY <1>0, <3>1 DEF Finish, Goto, Live
    <3>2. CASE ServiceStep(r) /\ ~Finish(r)
      BY <1>2, <3>2, ServiceMoves DEF ServiceFrame
    <3>3. CASE LoopStep(r) \/ ToolStep(r)
      <4>1. LoopFrame(r)
        BY <3>3, LoopMoves, ToolMoves
      <4>2. QED
        BY <4>1 DEF LoopFrame, serviceVars, Live, AskPcs
    <3>4. QED
      BY <3>1, <3>2, <3>3 DEF ThreadStep
  <2>1. CASE UNCHANGED eventVars
    <3>1. \A q \in Runs : QuietPlace(q) /\ (Live(q)' => Live(q))
      <4>1. \A q \in Runs \ {r} : QuietPlace(q) /\ (Live(q)' => Live(q))
        BY <1>0, <2>0 DEF Live, QuietPlace
      <4>2. QuietPlace(r)
        BY <1>2, <2>0, ThreadPlace
      <4>3. QED
        BY <2>0, <4>1, <4>2
    <3>2. ListInv'
      BY <1>0, <2>0, <2>1, <3>1, QuietLists DEF EventInv
    <3>3. QED
      BY <1>0, <2>1, <3>2 DEF eventVars, Undisturbed
  <2>2. ASSUME NEW type \in EventTypes \ {"retrieval.citations"},
               Emit(r, type), UNCHANGED serviceVars, MayEmit(r, type)
        PROVE  /\ ListInv' /\ (Undisturbed(r)' => Undisturbed(r))
               /\ \A q \in Runs \ {r} :
                    /\ emitted'[q] = emitted[q]
                    /\ events'[q] = events[q] \/ ~Undisturbed(q)'
    BY <1>0, <2>0, <2>2, EmitLists DEF EventInv
  <2>3. EmitsOnce(r)
    BY LoopEmits, ServiceEmits DEF ThreadStep
  <2>4. CASE CompletionRefused(r)
    BY <1>0, <2>0, <2>4, RefusedLists
  <2>5. QED
    BY <1>0, <2>1, <2>2, <2>3, <2>4 DEF EmitsOnce
<1>3. QED
  BY <1>1, <1>2

\* A client starts a run with nothing in its list, or moves no thread.
LEMMA ClientEvents ==
  ASSUME IInv, EventInv, ClientStep
  PROVE  EventInv'
<1>0. pc \in [Runs -> Pcs] /\ home \in [Runs -> Sessions \cup {None}]
      /\ status \in [Runs -> Statuses] /\ kind \in [Runs -> AllKinds \cup {"none"}]
  BY DEF IInv, TypeOK
<1>1. ASSUME NEW r \in Runs, NEW s \in Sessions, NEW k \in Kinds, Register(r, s, k)
      PROVE  EventInv'
  <2>1. /\ pc[r] = "idle" /\ pc'[r] = "registered" /\ UNCHANGED <<controls, eventVars>>
        /\ \A q \in Runs \ {r} : /\ pc'[q] = pc[q] /\ home'[q] = home[q]
                                 /\ status'[q] = status[q] /\ kind'[q] = kind[q]
    BY <1>0, <1>1 DEF Register, Goto
  <2>2. HolderOK'
    BY <2>1 DEF EventInv, ListInv, HolderOK, IInv, TypeOK
  <2>3. events[r] = <<>> /\ emitted[r] = <<>> /\ sequence[r] = 0
    BY <2>1 DEF EventInv, ListInv, ListOK
  <2>4. ListOK(r)'
    <3>1. Mirrors(<<>>, r, <<>>)
      <4>1. OwnEvents(<<>>, r) = {}
        BY DEF OwnEvents
      <4>2. QED
        BY <4>1, FS_EmptySet DEF Mirrors
    <3>2. events'[r] = <<>> /\ emitted'[r] = <<>> /\ sequence'[r] = 0
      BY <2>1, <2>3 DEF eventVars
    <3>3. Numbered(r)' /\ sequence'[r] = Len(events'[r])
      BY <3>2 DEF Numbered
    <3>4. Mirrors(events[r], r, emitted[r])'
      BY <3>1, <3>2
    <3>5. QED
      BY <2>1, <3>2, <3>3, <3>4 DEF ListOK
  <2>5. \A q \in Runs \ {r} : ListOK(q)'
    <3> TAKE q \in Runs \ {r}
    <3>1. ListOK(q) /\ QuietPlace(q)
      BY <2>1 DEF EventInv, ListInv, QuietPlace
    <3>2. QED
      BY <2>1, <3>1, ListStays DEF eventVars, Live
  <2>6. EndOK(r)'
    BY <2>1, <2>3 DEF EndOK, eventVars, AskPcs, NoEnd
  <2>7. \A q \in Runs \ {r} : EndOK(q)'
    BY <2>1 DEF EventInv, EndOK, eventVars, Undisturbed, LoopFailed
  <2>8. QED
    BY <2>2, <2>4, <2>5, <2>6, <2>7 DEF EventInv, ListInv
<1>2. CASE UNCHANGED <<pc, home, kind, status, controls, eventVars>>
  <2>1. ListInv'
    <3>1. \A q \in Runs : QuietPlace(q) /\ (Live(q)' => Live(q))
      BY <1>2 DEF QuietPlace, Live
    <3>2. QED
      BY <1>2, <3>1, QuietLists DEF EventInv
  <2>2. \A q \in Runs : EndOK(q)'
    BY <1>2 DEF EventInv, EndOK, eventVars, Undisturbed, LoopFailed
  <2>3. QED
    BY <2>1, <2>2 DEF EventInv
<1>3. QED
  BY <1>1, <1>2
  DEF ClientStep, CancelRun, CancelSession, Shutdown, ResolveApproval, DeleteRule,
      serviceVars

\* Every step keeps the invariant about the events.
LEMMA EventsPreserved ==
  ASSUME IInv, EventInv, [Next]_vars
  PROVE  EventInv'
<1>1. CASE ClientStep
  BY <1>1, ClientEvents
<1>2. ASSUME NEW r \in Runs, ThreadStep(r)
      PROVE  EventInv'
  <2>1. /\ ListInv' /\ (Undisturbed(r)' => Undisturbed(r))
        /\ \A q \in Runs \ {r} :
             /\ pc'[q] = pc[q] /\ kind'[q] = kind[q] /\ emitted'[q] = emitted[q]
             /\ events'[q] = events[q] \/ ~Undisturbed(q)'
    BY <1>2, ThreadEvents
  <2>2. EndOK(r)'
    BY <1>2, <2>1, LoopEnds, ServiceEnds DEF EventInv, ThreadStep
  <2>3. \A q \in Runs \ {r} : EndOK(q)'
    BY <2>1 DEF EventInv, EndOK, LoopFailed, Undisturbed
  <2>4. QED
    BY <2>1, <2>2, <2>3 DEF EventInv
<1>3. CASE UNCHANGED vars
  <2>1. ListInv'
    <3>1. \A q \in Runs : QuietPlace(q) /\ (Live(q)' => Live(q))
      BY <1>3 DEF vars, QuietPlace, Live
    <3>2. QED
      BY <1>3, <3>1, QuietLists DEF EventInv, vars, eventVars
  <2>2. \A q \in Runs : EndOK(q)'
    BY <1>3 DEF EventInv, EndOK, vars, Undisturbed, LoopFailed
  <2>3. QED
    BY <2>1, <2>2 DEF EventInv
<1>4. QED
  BY <1>1, <1>2, <1>3 DEF Next

\* No event is recorded at the beginning.
LEMMA EventsStart == ASSUME Init PROVE EventInv
<1>1. \A r \in Runs : pc[r] = "idle" /\ events[r] = <<>> /\ emitted[r] = <<>>
                      /\ sequence[r] = 0 /\ status[r] = "none"
  BY DEF Init
<1>2. HolderOK
  BY DEF Init, HolderOK
<1>3. \A r \in Runs : ListOK(r)
  BY <1>1 DEF ListOK, Undisturbed, Live, Numbered
<1>4. \A r \in Runs : EndOK(r)
  BY <1>1 DEF EndOK, NoEnd, AskPcs
<1>5. QED
  BY <1>2, <1>3, <1>4 DEF EventInv, ListInv

\* What the inductive invariant says of a run's end, wherever its thread is.
LEMMA EndsOnce ==
  ASSUME IInv, EventInv
  PROVE  OneTerminalEvent
<1> SUFFICES ASSUME NEW r \in Runs, Undisturbed(r)
             PROVE  Ended(emitted[r])
  BY DEF OneTerminalEvent, Ended
<1>1. pc[r] \in BeforeEnd \cup {"asked", "raiseFailed", "emitFailed", "final", "done"}
  BY DEF IInv, TypeOK, Pcs, BeforeEnd
<1>2. emitted[r] \in Seq(EventTypes) /\ "run.failed" \in EventTypes
  BY DEF IInv, TypeOK, EventTypes
<1>3. NoEnd(emitted[r]) \/ OneEnd(emitted[r]) \/ Ended(emitted[r])
  BY <1>1 DEF EventInv, EndOK
<1>4. QED
  BY <1>2, <1>3, AppendEnds

\* Together with the invariant of the runs, that of their events.
THEOREM EventsInvariant == Spec => [](IInv /\ EventInv)
<1>1. Init => IInv /\ EventInv
  BY InitIInv, EventsStart
<1>2. IInv /\ EventInv /\ [Next]_vars => (IInv /\ EventInv)'
  BY TypesPreserved, SlotsPreserved, ConsentPreserved, EventsPreserved DEF IInv
<1>3. QED
  BY <1>1, <1>2, PTL DEF Spec

\* A list no other run has written to numbers its events 1, 2, 3, ..., and a
\* live run's list holds every event its thread has emitted, in order, but for
\* a run.completed refused with its citations and the number it took.
THEOREM EventOrder == Spec => []EventsInOrder
<1>1. EventInv => EventsInOrder
  BY DEF EventInv, ListInv, ListOK, EventsInOrder
<1>2. QED
  BY <1>1, EventsInvariant, PTL

\* A run ends once: nothing follows its terminal event but one run.failed.
THEOREM EndsWithOneEvent == Spec => []OneTerminalEvent
<1>1. IInv /\ EventInv => OneTerminalEvent
  BY EndsOnce
<1>2. QED
  BY <1>1, EventsInvariant, PTL

-----------------------------------------------------------------------------
(* What a waiting thread finds.                                             *)

\* While a run waits its waiter is open, decided, or woken by a cancellation;
\* a thread that goes on from the wait, uncancelled, has a decision to take.
WaitOK(r) ==
  /\ pc[r] = "waiting" =>
       approvals[r][tools[r]] \in Decisions \cup {"open"} \cup IF cancelled[r] THEN {"woken"} ELSE {}
  /\ pc[r] = "woken" => approvals[r][tools[r]] \in Decisions

WaitInv == \A r \in Runs : WaitOK(r)

\* A step that does not bring a run to its waiter, answers it at most, and wakes
\* it only with the run cancelled.
WaitFrame(r) ==
  /\ pc'[r] \in {"waiting", "woken"} => pc'[r] = pc[r]
  /\ tools'[r] = tools[r]
  /\ cancelled[r] => cancelled'[r]
  /\ \A n \in Calls :
       \/ approvals'[r][n] = approvals[r][n]
       \/ approvals'[r][n] \in Decisions /\ approvals[r][n] # "absent"
       \/ approvals[r][n] = "open" /\ approvals'[r][n] = "woken"
            /\ (cancelled'[r] \/ pc[r] \notin {"waiting", "woken"})

\* Such a step keeps what a waiting thread finds.
LEMMA WaitFramed ==
  ASSUME IInv, NEW r \in Runs, WaitOK(r), WaitFrame(r)
  PROVE  WaitOK(r)'
<1>1. pc[r] \in {"waiting", "woken"} => tools[r] \in Calls
  BY DEF IInv, ConsentInv, CallOK, CallPcs
<1>2. CASE pc'[r] = "waiting"
  <2>1. pc[r] = "waiting" /\ tools'[r] = tools[r] /\ tools[r] \in Calls
    BY <1>1, <1>2 DEF WaitFrame
  <2>2. approvals[r][tools[r]] \in Decisions \cup {"open"} \cup IF cancelled[r] THEN {"woken"} ELSE {}
    BY <2>1 DEF WaitOK
  <2>3. approvals'[r][tools[r]] \in Decisions \cup {"open"} \cup IF cancelled'[r] THEN {"woken"} ELSE {}
    BY <2>1, <2>2 DEF WaitFrame
  <2>4. QED
    BY <1>2, <2>1, <2>3 DEF WaitOK
<1>3. CASE pc'[r] = "woken"
  <2>1. pc[r] = "woken" /\ tools'[r] = tools[r] /\ tools[r] \in Calls
    BY <1>1, <1>3 DEF WaitFrame
  <2>2. approvals[r][tools[r]] \in Decisions
    BY <2>1 DEF WaitOK
  <2>3. approvals'[r][tools[r]] \in Decisions
    BY <2>1, <2>2 DEF WaitFrame, Decisions
  <2>4. QED
    BY <1>3, <2>1, <2>3 DEF WaitOK
<1>4. QED
  BY <1>2, <1>3 DEF WaitOK

\* What a wake leaves.
LEMMA Woken ==
  ASSUME NEW waiters, NEW n \in Calls
  PROVE  \/ Wake(waiters)[n] = waiters[n]
         \/ waiters[n] = "open" /\ Wake(waiters)[n] = "woken"
BY DEF Wake

\* Steps of the service keep it: only Finish wakes, and its run waits no more.
LEMMA ServiceWaits ==
  ASSUME IInv, WaitInv, NEW r \in Runs, ServiceStep(r)
  PROVE  WaitInv'
<1>0. pc \in [Runs -> Pcs] /\ approvals \in [Runs -> [Calls -> Waiters]]
  BY DEF IInv, TypeOK
<1>1. UNCHANGED <<tools, cancelled>>
  BY DEF ServiceStep, ConfigureRunControls, Begin, PrepareProgress, PrepareEnds,
         TakeTaskStatus, WriteFails, SetRaised, EmitCancelled, EmitFailed, Finish, Record,
         CheckStatic, AnswerStatic, approvalVars, serviceVars
<1>2. pc'[r] = pc[r] \/ pc'[r] \notin {"waiting", "woken"}
  BY <1>0 DEF ServiceStep, ConfigureRunControls, Begin, PrepareProgress, PrepareEnds,
         TakeTaskStatus, WriteFails, SetRaised, EmitCancelled, EmitFailed, Finish, Record,
         CheckStatic, AnswerStatic, Goto
<1>3. \A q \in Runs \ {r} : pc'[q] = pc[q]
  BY <1>0 DEF ServiceStep, ConfigureRunControls, Begin, PrepareProgress, PrepareEnds,
         TakeTaskStatus, WriteFails, SetRaised, EmitCancelled, EmitFailed, Finish, Record,
         CheckStatic, AnswerStatic, Goto
<1>4. \/ approvals' = approvals
      \/ approvals' = [approvals EXCEPT ![r] = Wake(@)] /\ pc[r] = "final"
  BY DEF ServiceStep, ConfigureRunControls, Begin, PrepareProgress, PrepareEnds,
         TakeTaskStatus, WriteFails, SetRaised, EmitCancelled, EmitFailed, Finish, Record,
         CheckStatic, AnswerStatic, approvalVars
<1>5. \A q \in Runs : WaitFrame(q)
  <2>1. ASSUME NEW q \in Runs, q # r PROVE WaitFrame(q)
    BY <1>0, <1>1, <1>3, <1>4, <2>1 DEF WaitFrame
  <2>2. WaitFrame(r)
    BY <1>0, <1>1, <1>2, <1>4, Woken DEF WaitFrame
  <2>3. QED
    BY <2>1, <2>2
<1>6. QED
  BY <1>5, WaitFramed DEF WaitInv

\* Steps of the agent loop keep it.
LEMMA LoopWaits ==
  ASSUME IInv, WaitInv, NEW r \in Runs, LoopStep(r)
  PROVE  WaitInv'
<1>0. pc \in [Runs -> Pcs]
  BY DEF IInv, TypeOK
<1>1. UNCHANGED <<tools, approvals, cancelled>>
  BY DEF LoopStep, AskStarts, RequestModel, ObserveCancel, FinishCancelled, ModelFails,
         FinalAnswer, Completes, LimitReached, AtLimit, CompletionRefused, AskRaises, approvalVars, serviceVars
<1>2. pc'[r] \notin {"waiting", "woken"} /\ \A q \in Runs \ {r} : pc'[q] = pc[q]
  BY <1>0 DEF LoopStep, AskStarts, RequestModel, ObserveCancel, FinishCancelled, ModelFails,
         FinalAnswer, Completes, LimitReached, AtLimit, CompletionRefused, AskRaises, Goto
<1>3. QED
  BY <1>1, <1>2, WaitFramed DEF WaitFrame, WaitInv

\* Steps of a tool call keep it: a thread opens its waiter, waits, and goes on
\* when it is decided and the run not cancelled.
LEMMA ToolWaits ==
  ASSUME IInv, WaitInv, NEW r \in Runs, ToolStep(r)
  PROVE  WaitInv'
<1>0. /\ pc \in [Runs -> Pcs] /\ approvals \in [Runs -> [Calls -> Waiters]]
      /\ tools \in [Runs -> 0 .. MaxTools]
  BY DEF IInv, TypeOK
<1>1. /\ cancelled' = cancelled
      /\ \A q \in Runs \ {r} : pc'[q] = pc[q] /\ tools'[q] = tools[q] /\ approvals'[q] = approvals[q]
  BY <1>0 DEF ToolStep, RequestTool, CheckRule, AwaitDecision, Decided, WaitCancelled, WaitReady,
        TakeDecision, StartTool, ToolReturns, ToolCancelled, Goto, serviceVars, approvalVars
<1>2. \A q \in Runs \ {r} : WaitOK(q)'
  BY <1>1, WaitFramed DEF WaitFrame, WaitInv
<1>3. WaitOK(r)'
  <2>1. CASE AwaitDecision(r) /\ pc'[r] = "waiting"
    <3>1. tools[r] \in Calls /\ tools' = tools
      BY <2>1 DEF AwaitDecision, IInv, ConsentInv, CallOK, CallPcs
    <3>2. approvals' = [approvals EXCEPT ![r][tools[r]] = "open"]
      BY <1>0, <2>1 DEF AwaitDecision, Decided, Goto
    <3>3. approvals'[r][tools[r]] = "open"
      BY <1>0, <3>1, <3>2
    <3>4. QED
      BY <2>1, <3>1, <3>3 DEF WaitOK
  <2>2. CASE WaitReady(r)
    <3>1. /\ pc[r] = "waiting" /\ ~cancelled[r] /\ approvals[r][tools[r]] # "open"
          /\ pc'[r] = "woken" /\ UNCHANGED <<tools, approvals>>
      BY <1>0, <2>2 DEF WaitReady, Goto, approvalVars
    <3>2. approvals[r][tools[r]] \in Decisions
      BY <3>1 DEF WaitInv, WaitOK
    <3>3. QED
      BY <3>1, <3>2 DEF WaitOK
  <2>3. CASE ~WaitReady(r) /\ ~(AwaitDecision(r) /\ pc'[r] = "waiting")
    <3>1. pc'[r] \notin {"waiting", "woken"}
      BY <1>0, <2>3 DEF ToolStep, RequestTool, CheckRule, AwaitDecision, Decided, WaitCancelled,
         TakeDecision, StartTool, ToolReturns, ToolCancelled, Goto
    <3>2. QED
      BY <3>1 DEF WaitOK
  <2>4. QED
    BY <2>1, <2>2, <2>3
<1>4. QED
  BY <1>2, <1>3 DEF WaitInv

\* Steps of the client keep it: they wake a run only as they cancel it.
LEMMA ClientWaits ==
  ASSUME IInv, WaitInv, ClientStep
  PROVE  WaitInv'
<1> USE DEF Goto, approvalVars, serviceVars
<1>0. /\ pc \in [Runs -> Pcs] /\ approvals \in [Runs -> [Calls -> Waiters]]
      /\ activeSessions \in [Sessions -> Runs \cup {None}] /\ cancelled \in [Runs -> BOOLEAN]
  BY DEF IInv, TypeOK
<1> SUFFICES \A q \in Runs : WaitFrame(q)
  BY WaitFramed DEF WaitInv
<1>1. ASSUME NEW r \in Runs, NEW s \in Sessions, NEW k \in Kinds, Register(r, s, k)
      PROVE  \A q \in Runs : WaitFrame(q)
  BY <1>0, <1>1 DEF Register, WaitFrame
<1>2. ASSUME NEW r \in Runs, CancelRun(r)
      PROVE  \A q \in Runs : WaitFrame(q)
  BY <1>0, <1>2, Woken DEF CancelRun, WaitFrame
<1>3. ASSUME NEW s \in Sessions, CancelSession(s)
      PROVE  \A q \in Runs : WaitFrame(q)
  BY <1>0, <1>2, <1>3 DEF CancelSession, SlotFree
<1>4. CASE Shutdown
  BY <1>0, <1>4, Woken DEF Shutdown, WaitFrame
<1>5. ASSUME NEW r \in Runs, NEW n \in Calls, NEW d \in Answers, ResolveApproval(r, n, d)
      PROVE  \A q \in Runs : WaitFrame(q)
  <2>1. d \in Decisions
    BY ConstantsAssumption
  <2>2. UNCHANGED <<pc, tools, cancelled>>
    BY <1>5 DEF ResolveApproval
  <2>3. \A q \in Runs, m \in Calls :
          \/ approvals'[q][m] = approvals[q][m]
          \/ approvals'[q][m] \in Decisions /\ approvals[q][m] # "absent"
    BY <1>0, <1>5, <2>1 DEF ResolveApproval
  <2>4. QED
    BY <2>2, <2>3 DEF WaitFrame
<1>6. CASE DeleteRule
  BY <1>6 DEF DeleteRule, WaitFrame
<1>7. QED
  BY <1>1, <1>2, <1>3, <1>4, <1>5, <1>6 DEF ClientStep

\* A thread that waits for an answer finds one, or its run is cancelled.
LEMMA WaitsKept ==
  ASSUME IInv, WaitInv, [Next]_vars
  PROVE  WaitInv'
<1>1. CASE ClientStep
  BY <1>1, ClientWaits
<1>2. ASSUME NEW r \in Runs, ThreadStep(r)
      PROVE  WaitInv'
  BY <1>2, ServiceWaits, LoopWaits, ToolWaits DEF ThreadStep
<1>3. CASE UNCHANGED vars
  BY <1>3, WaitFramed DEF vars, WaitFrame, WaitInv
<1>4. QED
  BY <1>1, <1>2, <1>3 DEF Next

\* Only a decision that does not allow leads from the wait, or from an answer
\* that came first, back to the loop.
LEMMA Denied ==
  ASSUME IInv, WaitInv, [Next]_vars, NEW r \in Runs,
         pc[r] \in {"locking", "woken"}, pc'[r] = "loop"
  PROVE  "deny" \in sent[r][tools[r]]
<1>0. /\ pc \in [Runs -> Pcs]
      /\ earlyDecisions \in [Runs -> [Calls -> Decisions \cup {"none"}]]
  BY DEF IInv, TypeOK
\* its thread moves, so this is no stutter
<1>m. Next
  BY DEF vars
<1>1. AwaitDecision(r) \/ TakeDecision(r)
  <2>1. CASE ClientStep
    BY <1>0, <2>1
    DEF ClientStep, Register, CancelRun, CancelSession, Shutdown, ResolveApproval, DeleteRule,
        Goto
  <2>2. ASSUME NEW q \in Runs, ServiceStep(q)
        PROVE  FALSE
    BY <1>0, <2>2
    DEF ServiceStep, ConfigureRunControls, Begin, PrepareProgress, PrepareEnds,
        TakeTaskStatus, WriteFails, SetRaised, EmitCancelled, EmitFailed, Finish, Record,
        CheckStatic, AnswerStatic, Goto
  <2>3. ASSUME NEW q \in Runs, LoopStep(q)
        PROVE  FALSE
    BY <1>0, <2>3
    DEF LoopStep, AskStarts, RequestModel, ObserveCancel, FinishCancelled, ModelFails,
        FinalAnswer, Completes, LimitReached, AtLimit, CompletionRefused, AskRaises, Goto
  <2>4. ASSUME NEW q \in Runs, ToolStep(q)
        PROVE  AwaitDecision(r) \/ TakeDecision(r)
    BY <1>0, <2>4
    DEF ToolStep, RequestTool, CheckRule, AwaitDecision, Decided, WaitCancelled, WaitReady,
        TakeDecision, StartTool, ToolReturns, ToolCancelled, Goto
  <2>5. QED
    BY <1>m, <2>1, <2>2, <2>3, <2>4 DEF Next, ThreadStep
<1>2. tools[r] \in Calls /\ CallOK(r)
  BY DEF IInv, ConsentInv, CallOK, CallPcs
<1>3. ASSUME NEW decision \in Decisions, Decided(r, decision)
      PROVE  decision = "deny"
  BY <1>0, <1>3 DEF Decided, Goto, Allows, Decisions
<1>4. CASE AwaitDecision(r)
  <2>1. earlyDecisions[r][tools[r]] # "none" /\ Decided(r, earlyDecisions[r][tools[r]])
    BY <1>0, <1>4 DEF AwaitDecision, Goto
  <2>2. earlyDecisions[r][tools[r]] \in Decisions
    BY <1>0, <1>2, <2>1
  <2>3. QED
    BY <1>2, <1>3, <2>1, <2>2 DEF CallOK
<1>5. CASE TakeDecision(r)
  <2>1. Decided(r, approvals[r][tools[r]]) /\ approvals[r][tools[r]] \in Decisions
    BY <1>5 DEF TakeDecision, WaitInv, WaitOK
  <2>2. QED
    BY <1>2, <1>3, <2>1 DEF CallOK
<1>6. QED
  BY <1>1, <1>4, <1>5

\* A call is reported as denied only when a client denied this very call: not
\* because the wait ended with nothing, nor by an answer to another.
THEOREM DenialSafety == Spec => DenialIsAnswered
<1> DEFINE Safe == \A r \in Runs :
             pc[r] \in {"locking", "woken"} /\ pc'[r] = "loop" => "deny" \in sent[r][tools[r]]
<1>1. Init => WaitInv
  BY DEF Init, WaitInv, WaitOK
<1>2. IInv /\ WaitInv /\ [Next]_vars => [Safe]_vars
  BY Denied
<1>3. IInv /\ WaitInv /\ [Next]_vars => WaitInv'
  BY WaitsKept
<1>4. QED
  BY <1>1, <1>2, <1>3, Invariant, PTL DEF Spec, DenialIsAnswered

=============================================================================
