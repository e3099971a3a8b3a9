--------------------------- MODULE IndexJobsProofs ---------------------------
(***************************************************************************)
(* For any sources, operations, threads, jobs and starts of the process:    *)
(* the queue loses no job, runs no cancelled one, and the rows tell the     *)
(* truth about what runs and what has ended.                                *)
(***************************************************************************)
EXTENDS IndexJobs, TLAPS

-----------------------------------------------------------------------------
(* The inductive invariant.                                                 *)

ClaimedAt == {"claimed", "indexing", "indexed", "failing"}

\* Who may write the row of job j: the thread that has created it and not yet
\* made it pending, the one that is about to cancel it, the worker.
Creates(c, j) == caller[c].at = "created" /\ caller[c].job = j
Cancels(c, j) == caller[c].at = "cancel" /\ caller[c].previous = j
Holds(c, j) == Creates(c, j) \/ Cancels(c, j)
Claims(j) == worker.at \in ClaimedAt /\ worker.job = j

\* Of those and of the table of pending jobs at most one has the job, and its
\* status follows from where it is.
HeldInv ==
  \A j \in DOMAIN rows :
    /\ IsLatest(j) => ~Claims(j) /\ rows[j].status \in {"queued", "deleted"}
    /\ \A c \in Callers :
         Holds(c, j) =>
           /\ ~IsLatest(j) /\ ~Claims(j) /\ rows[j].status \in {"queued", "deleted"}
           /\ \A d \in Callers : Holds(d, j) => d = c
    /\ Claims(j) =>
         rows[j].status \in {IF worker.at = "claimed" THEN "queued" ELSE "running", "deleted"}

\* A process that is down has no threads; only stop() puts the sentinel.
ProcessInv ==
  /\ process = "down" =>
       worker.at = "exited" /\ ~observing /\ \A c \in Callers : caller[c].at = "idle"
  /\ process # "down" => starts > 0
  /\ process # "stopping" => \A i \in DOMAIN queue : queue[i] # Sentinel
  /\ \A j \in DOMAIN rows : rows[j].start <= starts

\* Every job the threads, the queue and the pending table name has a row, with
\* the key they have it under.
KeyInv ==
  /\ \A k \in Keys : pending[k] # None => pending[k] \in DOMAIN rows /\ KeyOf(pending[k]) = k
  /\ \A i \in DOMAIN queue : queue[i] \in DOMAIN rows \cup {Sentinel}
  /\ worker.at \in ClaimedAt \cup {"got"} => worker.job \in DOMAIN rows
  /\ \A c \in Callers :
       /\ caller[c].at # "idle" => caller[c].key \in Keys
       /\ caller[c].at \in {"created", "cancel", "put"} =>
            caller[c].job \in DOMAIN rows /\ KeyOf(caller[c].job) = caller[c].key
       /\ caller[c].at = "cancel" =>
            caller[c].previous \in DOMAIN rows /\ KeyOf(caller[c].previous) = caller[c].key

\* A row is deleted only with its source; what was never added has no jobs.
SourceInv ==
  /\ \A j \in DOMAIN rows :
       /\ source[KeyOf(j)[1]] # "absent"
       /\ rows[j].status = "deleted" => source[KeyOf(j)[1]] = "deleted"
  /\ \A s \in watched \cup toScan : source[s] # "absent"
  /\ \A c \in Callers : caller[c].at # "idle" => source[caller[c].key[1]] # "absent"

IInv ==
  TypeOK /\ ProcessInv /\ KeyInv /\ SourceInv /\ HeldInv /\ NoJobLost /\ RunningIsExecuted

-----------------------------------------------------------------------------
(* What the operations do to the rows.                                      *)

\* Jobs are numbers, none of them None or the sentinel.
LEMMA JobNumbers ==
  /\ None \notin Jobs /\ Sentinel \notin Jobs
  /\ TypeOK => Len(rows) \in Nat /\ DOMAIN rows = 1 .. Len(rows) /\ DOMAIN rows \subseteq Jobs
BY IndexConstants DEF Jobs, Sentinel, TypeOK

\* A key begins with its source.
LEMMA KeyParts == \A k \in Keys : k[1] \in Sources
BY DEF Keys

\* The types of a row.
LEMMA RowTypes ==
  ASSUME TypeOK, NEW j \in DOMAIN rows
  PROVE  rows[j].key \in Keys /\ rows[j].status \in Statuses /\ rows[j].start \in 1 .. MaxStarts
<1>1. rows[j] \in JobRows
  BY DEF TypeOK
<1>2. QED
  BY <1>1 DEF JobRows

\* Rows are never removed, and keep their key and their start.
RowsKept ==
  /\ rows' \in Seq(JobRows) /\ Len(rows') <= MaxJobs
  /\ \A j \in DOMAIN rows :
       j \in DOMAIN rows' /\ rows'[j].key = rows[j].key /\ rows'[j].start = rows[j].start

\* A row is written over.
LEMMA RowsUpdated ==
  ASSUME TypeOK, NEW j \in DOMAIN rows, NEW status \in Statuses, UpdateJob(j, status)
  PROVE  /\ RowsKept /\ DOMAIN rows' = DOMAIN rows
         /\ \A i \in DOMAIN rows : rows'[i].status = IF i = j THEN status ELSE rows[i].status
<1>1. rows \in Seq(JobRows) /\ rows[j] \in JobRows /\ Len(rows) <= MaxJobs
  BY DEF TypeOK
<1>2. [rows[j] EXCEPT !.status = status] \in JobRows
  BY <1>1 DEF JobRows
<1>3. rows' = [rows EXCEPT ![j] = [rows[j] EXCEPT !.status = status]]
  BY DEF UpdateJob
<1>4. rows' \in Seq(JobRows) /\ Len(rows') = Len(rows) /\ DOMAIN rows' = DOMAIN rows
  BY <1>1, <1>2, <1>3
<1>5. \A i \in DOMAIN rows :
        rows'[i] = IF i = j THEN [rows[j] EXCEPT !.status = status] ELSE rows[i]
  BY <1>3
<1>6. rows'[j].key = rows[j].key /\ rows'[j].start = rows[j].start /\ rows'[j].status = status
  BY <1>1, <1>5 DEF JobRows
<1>7. QED
  BY <1>1, <1>4, <1>5, <1>6 DEF RowsKept

\* All rows are rewritten.
LEMMA RowsMapped ==
  ASSUME TypeOK, NEW affected, NEW status \in Statuses,
         rows' = [j \in DOMAIN rows |->
                    IF j \in affected THEN [rows[j] EXCEPT !.status = status] ELSE rows[j]]
  PROVE  /\ RowsKept /\ DOMAIN rows' = DOMAIN rows
         /\ \A i \in DOMAIN rows :
              rows'[i].status = IF i \in affected THEN status ELSE rows[i].status
<1>1. rows \in Seq(JobRows) /\ Len(rows) <= MaxJobs /\ DOMAIN rows = 1 .. Len(rows) /\ Len(rows) \in Nat
  BY DEF TypeOK
<1>2. \A j \in DOMAIN rows :
        /\ rows'[j] \in JobRows /\ rows'[j].key = rows[j].key /\ rows'[j].start = rows[j].start
        /\ rows'[j].status = IF j \in affected THEN status ELSE rows[j].status
  <2> SUFFICES ASSUME NEW j \in DOMAIN rows
               PROVE  /\ rows'[j] \in JobRows /\ rows'[j].key = rows[j].key
                      /\ rows'[j].start = rows[j].start
                      /\ rows'[j].status = IF j \in affected THEN status ELSE rows[j].status
    OBVIOUS
  <2>1. rows[j] \in JobRows
    BY <1>1
  <2>2. rows'[j] = IF j \in affected THEN [rows[j] EXCEPT !.status = status] ELSE rows[j]
    OBVIOUS
  <2>3. QED
    BY <2>1, <2>2 DEF JobRows
<1>3. DOMAIN rows' = 1 .. Len(rows)
  BY <1>1
<1>4. rows' \in [1 .. Len(rows) -> JobRows]
  BY <1>1, <1>2, <1>3
<1>5. rows' \in Seq(JobRows) /\ Len(rows') = Len(rows)
  BY <1>1, <1>3, <1>4
<1>6. QED
  BY <1>1, <1>2, <1>5 DEF RowsKept

\* The rows after recovery.
LEMMA RowsRecovered ==
  ASSUME TypeOK, rows' = Recovered
  PROVE  /\ RowsKept /\ DOMAIN rows' = DOMAIN rows
         /\ \A i \in DOMAIN rows :
              rows'[i].status = IF rows[i].status = "running" THEN "queued" ELSE rows[i].status
<1> DEFINE affected == {i \in DOMAIN rows : rows[i].status = "running"}
<1>1. rows' = [j \in DOMAIN rows |->
                 IF j \in affected THEN [rows[j] EXCEPT !.status = "queued"] ELSE rows[j]]
  BY DEF Recovered
<1>2. "queued" \in Statuses
  BY DEF Statuses
<1> HIDE DEF affected
<1>3. /\ RowsKept /\ DOMAIN rows' = DOMAIN rows
      /\ \A i \in DOMAIN rows : rows'[i].status = IF i \in affected THEN "queued" ELSE rows[i].status
  BY <1>1, <1>2, RowsMapped
<1>4. QED
  BY <1>3 DEF affected

\* The rows of a source go.
LEMMA RowsDeleted ==
  ASSUME TypeOK, NEW s \in Sources, DeleteRows(s)
  PROVE  /\ RowsKept /\ DOMAIN rows' = DOMAIN rows
         /\ \A i \in DOMAIN rows :
              rows'[i].status = IF KeyOf(i)[1] = s THEN "deleted" ELSE rows[i].status
<1> DEFINE affected == {i \in DOMAIN rows : KeyOf(i)[1] = s}
<1>1. rows' = [j \in DOMAIN rows |->
                 IF j \in affected THEN [rows[j] EXCEPT !.status = "deleted"] ELSE rows[j]]
  BY DEF DeleteRows
<1>2. "deleted" \in Statuses
  BY DEF Statuses
<1> HIDE DEF affected
<1>3. /\ RowsKept /\ DOMAIN rows' = DOMAIN rows
      /\ \A i \in DOMAIN rows : rows'[i].status = IF i \in affected THEN "deleted" ELSE rows[i].status
  BY <1>1, <1>2, RowsMapped
<1>4. QED
  BY <1>3 DEF affected

\* A row is added.
LEMMA RowsCreated ==
  ASSUME TypeOK, ProcessInv, KeyInv, NEW c \in Callers, CreateJob(c)
  PROVE  /\ RowsKept /\ DOMAIN rows' = DOMAIN rows \cup {Len(rows) + 1}
         /\ Len(rows) + 1 \in Jobs \ DOMAIN rows
         /\ \A i \in DOMAIN rows : rows'[i] = rows[i]
         /\ rows'[Len(rows) + 1] = [key |-> caller[c].key, status |-> "queued", start |-> starts]
         /\ caller[c].key \in Keys /\ starts \in 1 .. MaxStarts /\ process # "down"
<1> DEFINE row == [key |-> caller[c].key, status |-> "queued", start |-> starts]
<1>1. caller[c].key \in Keys /\ starts \in 1 .. MaxStarts /\ process # "down"
  BY IndexConstants DEF CreateJob, KeyInv, ProcessInv, TypeOK
<1>2. row \in JobRows
  BY <1>1 DEF JobRows, Statuses
<1>3. /\ rows \in Seq(JobRows) /\ Len(rows) < MaxJobs /\ Len(rows) \in Nat /\ MaxJobs \in Nat
      /\ DOMAIN rows = 1 .. Len(rows) /\ rows' = Append(rows, row)
  BY IndexConstants DEF TypeOK, CreateJob
<1> HIDE DEF row
<1>4. /\ rows' \in Seq(JobRows) /\ Len(rows') = Len(rows) + 1 /\ DOMAIN rows' = 1 .. Len(rows) + 1
      /\ rows'[Len(rows) + 1] = row /\ \A i \in 1 .. Len(rows) : rows'[i] = rows[i]
  BY <1>2, <1>3
<1>5. Len(rows) + 1 \in Jobs \ DOMAIN rows /\ DOMAIN rows' = DOMAIN rows \cup {Len(rows) + 1}
  BY <1>3, <1>4 DEF Jobs
<1>6. RowsKept
  BY <1>3, <1>4, <1>5 DEF RowsKept
<1>7. QED
  BY <1>1, <1>3, <1>4, <1>5, <1>6 DEF row

\* The types of a mark.
LEMMA MarkTypes ==
  /\ {"running", "completed", "failed", "cancelled"} \subseteq Statuses
  /\ KeyInv /\ worker.at \in ClaimedAt => worker.job \in DOMAIN rows
BY DEF Statuses, Finished, KeyInv

\* The rows after a mark.
LEMMA RowsMarked ==
  ASSUME TypeOK, KeyInv, NEW from \in ClaimedAt, NEW status \in Statuses, NEW to, NEW missing,
         Mark(from, status, to, missing)
  PROVE  /\ RowsKept /\ DOMAIN rows' = DOMAIN rows /\ worker.job \in DOMAIN rows
         /\ \/ /\ rows[worker.job].status # "deleted" /\ worker' = to
               /\ \A i \in DOMAIN rows :
                    rows'[i].status = IF i = worker.job THEN status ELSE rows[i].status
            \/ /\ rows[worker.job].status = "deleted" /\ rows' = rows
               /\ worker' = [worker EXCEPT !.at = missing]
<1>1. worker.job \in DOMAIN rows
  BY DEF KeyInv, Mark
<1>2. CASE Exists(worker.job)
  <2>1. UpdateJob(worker.job, status) /\ worker' = to
    BY <1>2 DEF Mark
  <2>2. QED
    BY <1>1, <1>2, <2>1, RowsUpdated DEF Exists
<1>3. CASE ~Exists(worker.job)
  BY <1>1, <1>3 DEF Mark, Exists, RowsKept, TypeOK
<1>4. QED
  BY <1>2, <1>3

\* The rows after a cancellation.
LEMMA RowsCancelled ==
  ASSUME TypeOK, KeyInv, NEW c \in Callers, CancelPrevious(c)
  PROVE  /\ RowsKept /\ DOMAIN rows' = DOMAIN rows /\ caller[c].previous \in DOMAIN rows
         /\ \A i \in DOMAIN rows :
              rows'[i].status = IF i = caller[c].previous THEN "cancelled" ELSE rows[i].status
<1>1. caller[c].previous \in DOMAIN rows /\ UpdateJob(caller[c].previous, "cancelled")
  BY DEF KeyInv, CancelPrevious
<1>2. QED
  BY <1>1, MarkTypes, RowsUpdated

\* Every step keeps the types of the rows.
LEMMA RowsStep ==
  ASSUME TypeOK, ProcessInv, KeyInv, Next
  PROVE  RowsKept
<1>1. ASSUME UNCHANGED rows PROVE RowsKept
  BY <1>1 DEF RowsKept, TypeOK
<1>2. ASSUME NEW c \in Callers, CreateJob(c) PROVE RowsKept
  BY <1>2, RowsCreated
<1>3. ASSUME NEW c \in Callers, CancelPrevious(c) PROVE RowsKept
  BY <1>3, RowsCancelled
<1>4. ASSUME NEW s \in Sources, DeleteRows(s) PROVE RowsKept
  BY <1>4, RowsDeleted
<1>5. ASSUME NEW c \in Callers, DeleteSource(c) PROVE RowsKept
  <2>1. caller[c].key[1] \in Sources
    BY <1>5, KeyParts DEF DeleteSource, KeyInv
  <2>2. QED
    BY <1>1, <1>4, <1>5, <2>1 DEF DeleteSource
<1>6. CASE MarkRunning \/ MarkCompleted \/ MarkFailed
  BY <1>6, MarkTypes, RowsMarked DEF MarkRunning, MarkCompleted, MarkFailed, ClaimedAt
<1>7. CASE Start
  BY <1>7, RowsRecovered DEF Start
<1>8. ASSUME NEW c \in Callers,
             ReplacePending(c) \/ EnqueueRaises(c) \/ PutJob(c) \/ WatchSource(c)
      PROVE  RowsKept
  BY <1>1, <1>8 DEF ReplacePending, EnqueueRaises, PutJob, WatchSource
<1>9. ASSUME NEW c \in Callers, CallerStep(c) PROVE RowsKept
  BY <1>2, <1>3, <1>5, <1>8, <1>9 DEF CallerStep, EnqueueStep
<1>10. ASSUME NEW c \in Clients, NEW s \in Sources, Request(c, s) PROVE RowsKept
  BY <1>1, <1>4, <1>10 DEF Request, RequestRescan, AddSource, UnwatchSource, DeleteGrant
<1>11. ASSUME NEW s \in Sources, NEW operation \in Operations, FileEvent(s, operation)
       PROVE  RowsKept
  BY <1>1, <1>11 DEF FileEvent
<1>12. CASE WorkerStep
  BY <1>1, <1>6, <1>12 DEF WorkerStep, TakeJob, SeeStop, ClaimJob, IndexEnds
<1>13. CASE StartUp \/ Stop \/ ProcessEnds
  BY <1>1, <1>13 DEF StartUp, Started, StartRescan, Stop, ProcessEnds
<1>14. QED
  BY <1>7, <1>9, <1>10, <1>11, <1>12, <1>13 DEF Next

-----------------------------------------------------------------------------
(* Types.                                                                   *)

\* The types of a caller.
LEMMA CallerTypes ==
  ASSUME TypeOK, NEW c \in Callers, NEW state \in CallerStates,
         caller' = [caller EXCEPT ![c] = state]
  PROVE  caller' \in [Callers -> CallerStates]
BY DEF TypeOK

\* The states in which a call begins.
LEMMA BegunTypes ==
  ASSUME NEW k \in Keys, NEW at \in {"enqueue", "watch", "delete"}
  PROVE  [Idle EXCEPT !.at = at, !.key = k] \in CallerStates
BY DEF Idle, CallerStates

\* The types of an enqueue.
LEMMA EnqueueTypes ==
  ASSUME TypeOK, ProcessInv, KeyInv, NEW c \in Callers, CallerStep(c)
  PROVE  caller' \in [Callers -> CallerStates]
<1>1. caller[c] \in CallerStates
  BY DEF TypeOK
<1>2. Idle \in CallerStates
  BY DEF Idle, CallerStates
<1>3. CASE EnqueueRaises(c) \/ PutJob(c) \/ DeleteSource(c)
  BY <1>2, <1>3, CallerTypes DEF EnqueueRaises, PutJob, DeleteSource
<1>4. CASE CreateJob(c)
  <2>1. Len(rows) + 1 \in Jobs
    BY <1>4, RowsCreated
  <2>2. [caller[c] EXCEPT !.at = "created", !.job = Len(rows) + 1] \in CallerStates
    BY <1>1, <2>1 DEF CallerStates
  <2>3. QED
    BY <1>4, <2>2, CallerTypes, ZenonT(40) DEF CreateJob
<1>5. CASE ReplacePending(c)
  <2> DEFINE previous == pending[caller[c].key]
             at == IF previous = None THEN "put" ELSE "cancel"
  <2>1. previous \in Jobs \cup {None}
    BY <1>5 DEF ReplacePending, KeyInv, TypeOK
  <2>2. caller' = [caller EXCEPT ![c] = [caller[c] EXCEPT !.previous = previous, !.at = at]]
    BY <1>5 DEF ReplacePending
  <2>3. [caller[c] EXCEPT !.previous = previous, !.at = at] \in CallerStates
    BY <1>1, <2>1 DEF CallerStates
  <2>4. QED
    BY <2>2, <2>3, CallerTypes
<1>6. CASE CancelPrevious(c)
  <2>1. [caller[c] EXCEPT !.at = "put"] \in CallerStates
    BY <1>1 DEF CallerStates
  <2>2. QED
    BY <1>6, <2>1, CallerTypes DEF CancelPrevious
<1>7. CASE WatchSource(c)
  <2>1. [caller[c] EXCEPT !.at = "enqueue"] \in CallerStates
    BY <1>1 DEF CallerStates
  <2>2. QED
    BY <1>7, <2>1, CallerTypes DEF WatchSource
<1>8. QED
  BY <1>3, <1>4, <1>5, <1>6, <1>7 DEF CallerStep, EnqueueStep

\* The types of a request.
LEMMA RequestTypes ==
  ASSUME TypeOK, NEW c \in Callers, NEW k \in Keys, BeginEnqueue(c, k)
  PROVE  caller' \in [Callers -> CallerStates]
BY BegunTypes, CallerTypes DEF BeginEnqueue

\* The rescan of a source is a key.
LEMMA Rescans == \A s \in Sources : <<s, "rescan">> \in Keys
BY IndexConstants DEF Keys

\* Clients, observer and main thread are callers.
LEMMA Threads == Clients \subseteq Callers /\ "observer" \in Callers /\ "main" \in Callers
BY DEF Callers

\* The types of the worker.
LEMMA WorkerTypes ==
  ASSUME TypeOK, NEW at \in {"idle", "got", "claimed", "indexing", "indexed", "failing", "dead", "exited"}
  PROVE  /\ [worker EXCEPT !.at = at] \in WorkerStates /\ [NoJob EXCEPT !.at = at] \in WorkerStates
         /\ NoJob \in WorkerStates
         /\ \A j \in Jobs : [at |-> at, job |-> j] \in WorkerStates
BY DEF TypeOK, NoJob, WorkerStates

\* The queue without its head.
LEMMA QueueTail ==
  ASSUME TypeOK, queue # <<>>
  PROVE  /\ Tail(queue) \in Seq(Jobs \cup {Sentinel}) /\ Head(queue) \in Jobs \cup {Sentinel}
         /\ Head(queue) = queue[1] /\ 1 \in DOMAIN queue
         /\ \A i \in DOMAIN Tail(queue) : i + 1 \in DOMAIN queue /\ Tail(queue)[i] = queue[i + 1]
         /\ \A i \in DOMAIN queue : i # 1 => i - 1 \in DOMAIN Tail(queue) /\ Tail(queue)[i - 1] = queue[i]
<1>1. queue \in Seq(Jobs \cup {Sentinel}) /\ Len(queue) \in Nat /\ DOMAIN queue = 1 .. Len(queue)
  BY DEF TypeOK
<1>2. Len(queue) > 0
  BY <1>1
<1>3. Tail(queue) \in Seq(Jobs \cup {Sentinel}) /\ Len(Tail(queue)) = Len(queue) - 1
  BY <1>1, <1>2
<1>4. QED
  BY <1>1, <1>2, <1>3

\* The queue with one more job.
LEMMA QueueGrown ==
  ASSUME TypeOK, NEW item \in Jobs \cup {Sentinel}
  PROVE  /\ Append(queue, item) \in Seq(Jobs \cup {Sentinel})
         /\ DOMAIN Append(queue, item) = DOMAIN queue \cup {Len(queue) + 1}
         /\ Append(queue, item)[Len(queue) + 1] = item
         /\ \A i \in DOMAIN queue : i # Len(queue) + 1 /\ Append(queue, item)[i] = queue[i]
<1>1. queue \in Seq(Jobs \cup {Sentinel}) /\ Len(queue) \in Nat /\ DOMAIN queue = 1 .. Len(queue)
  BY DEF TypeOK
<1>2. QED
  BY <1>1

\* Every step keeps the types.
LEMMA TypeStep ==
  ASSUME TypeOK, ProcessInv, KeyInv, Next
  PROVE  TypeOK'
<1>1. rows' \in Seq(JobRows) /\ Len(rows') <= MaxJobs
  BY RowsStep DEF RowsKept
<1>2. ASSUME NEW c \in Callers, CallerStep(c) PROVE TypeOK'
  <2>1. caller' \in [Callers -> CallerStates]
    BY <1>2, EnqueueTypes
  <2>2. CASE EnqueueStep(c)
    <3>1. pending' \in [Keys -> Jobs \cup {None}]
      <4>1. CASE ReplacePending(c)
        <5>1. caller[c].job \in Jobs
          BY <4>1, JobNumbers DEF ReplacePending, KeyInv
        <5>2. QED
          BY <4>1, <5>1 DEF ReplacePending, TypeOK
      <4>2. QED
        BY <2>2, <4>1 DEF EnqueueStep, CreateJob, CancelPrevious, EnqueueRaises, PutJob, TypeOK
    <3>2. queue' \in Seq(Jobs \cup {Sentinel})
      <4>1. CASE PutJob(c)
        <5>1. caller[c].job \in Jobs
          BY <4>1, JobNumbers DEF PutJob, KeyInv
        <5>2. QED
          BY <4>1, <5>1, QueueGrown DEF PutJob
      <4>2. QED
        BY <2>2, <4>1 DEF EnqueueStep, CreateJob, ReplacePending, CancelPrevious, EnqueueRaises, TypeOK
    <3>3. /\ UNCHANGED <<source, watched, worker, process, toScan, starts>>
          /\ observing' \in BOOLEAN
      BY <2>2 DEF EnqueueStep, CreateJob, ReplacePending, CancelPrevious, EnqueueRaises, PutJob, TypeOK
    <3>4. QED
      BY <1>1, <2>1, <3>1, <3>2, <3>3 DEF TypeOK
  <2>3. CASE WatchSource(c)
    BY <1>1, <2>1, <2>3 DEF WatchSource, Present, TypeOK
  <2>4. CASE DeleteSource(c)
    <3>1. source' \in [Sources -> {"absent", "present", "deleted"}]
      BY <2>4 DEF DeleteSource, DeleteRows, TypeOK
    <3>2. QED
      BY <1>1, <2>1, <2>4, <3>1 DEF DeleteSource, TypeOK
  <2>5. QED
    BY <1>2, <2>2, <2>3, <2>4 DEF CallerStep
<1>3. ASSUME NEW c \in Clients, NEW s \in Sources, Request(c, s) PROVE TypeOK'
  <2>1. caller' \in [Callers -> CallerStates]
    <3>1. CASE RequestRescan(c, s)
      BY <3>1, RequestTypes, Rescans, Threads DEF RequestRescan
    <3>2. CASE AddSource(c, s) \/ UnwatchSource(c, s)
      BY <3>2, BegunTypes, CallerTypes, Rescans, Threads DEF AddSource, UnwatchSource
    <3>3. QED
      BY <1>3, <3>1, <3>2 DEF Request, DeleteGrant, TypeOK
  <2>2. source' \in [Sources -> {"absent", "present", "deleted"}]
    BY <1>3 DEF Request, RequestRescan, AddSource, UnwatchSource, DeleteGrant, DeleteRows, TypeOK
  <2>3. /\ UNCHANGED <<pending, queue, worker, process, toScan, observing, starts>>
        /\ watched' \subseteq Sources
    BY <1>3 DEF Request, RequestRescan, AddSource, UnwatchSource, DeleteGrant, TypeOK
  <2>4. QED
    BY <1>1, <2>1, <2>2, <2>3 DEF TypeOK
<1>4. ASSUME NEW s \in Sources, NEW operation \in Operations, FileEvent(s, operation) PROVE TypeOK'
  <2>1. caller' \in [Callers -> CallerStates]
    BY <1>4, RequestTypes, Threads DEF FileEvent, Keys
  <2>2. QED
    BY <1>1, <1>4, <2>1 DEF FileEvent, TypeOK
<1>5. CASE WorkerStep
  <2>1. worker' \in WorkerStates
    <3>1. CASE TakeJob
      <4>1. Head(queue) # Sentinel => Head(queue) \in Jobs
        BY <3>1, QueueTail DEF TakeJob
      <4>2. QED
        BY <3>1, <4>1, WorkerTypes DEF TakeJob
    <3>2. CASE MarkRunning \/ MarkCompleted \/ MarkFailed
      BY <3>2, WorkerTypes DEF MarkRunning, MarkCompleted, MarkFailed, Mark
    <3>3. CASE SeeStop \/ ClaimJob \/ IndexEnds
      BY <3>3, WorkerTypes DEF SeeStop, ClaimJob, IndexEnds, TypeOK
    <3>4. QED
      BY <1>5, <3>1, <3>2, <3>3 DEF WorkerStep
  <2>2. pending' \in [Keys -> Jobs \cup {None}]
    BY <1>5 DEF WorkerStep, TakeJob, SeeStop, ClaimJob, IndexEnds, MarkRunning, MarkCompleted,
         MarkFailed, Mark, TypeOK
  <2>3. queue' \in Seq(Jobs \cup {Sentinel})
    BY <1>5, QueueTail DEF WorkerStep, TakeJob, SeeStop, ClaimJob, IndexEnds, MarkRunning,
         MarkCompleted, MarkFailed, Mark, TypeOK
  <2>4. UNCHANGED <<source, watched, caller, process, toScan, observing, starts>>
    BY <1>5 DEF WorkerStep, TakeJob, SeeStop, ClaimJob, IndexEnds, MarkRunning, MarkCompleted,
         MarkFailed, Mark
  <2>5. QED
    BY <1>1, <2>1, <2>2, <2>3, <2>4 DEF TypeOK
<1>6. CASE Started
  BY <1>1, <1>6 DEF Started, TypeOK
<1>7. ASSUME NEW s \in Sources, StartRescan(s) PROVE TypeOK'
  <2>1. caller' \in [Callers -> CallerStates]
    BY <1>7, RequestTypes, Rescans, Threads DEF StartRescan
  <2>2. QED
    BY <1>1, <1>7, <2>1 DEF StartRescan, TypeOK
<1>8. CASE Start
  <2>1. NoJob \in WorkerStates
    BY WorkerTypes
  <2>2. QED
    BY <1>1, <1>8, <2>1, IndexConstants DEF Start, Present, TypeOK
<1>9. CASE Stop
  <2>1. queue' \in Seq(Jobs \cup {Sentinel})
    BY <1>9, QueueGrown DEF Stop
  <2>2. QED
    BY <1>1, <1>9, <2>1 DEF Stop, TypeOK
<1>10. CASE ProcessEnds
  <2>1. [NoJob EXCEPT !.at = "exited"] \in WorkerStates /\ Idle \in CallerStates
    BY WorkerTypes DEF Idle, CallerStates
  <2>2. caller' \in [Callers -> CallerStates] /\ worker' \in WorkerStates
    BY <1>10, <2>1 DEF ProcessEnds
  <2>3. pending' \in [Keys -> Jobs \cup {None}] /\ queue' \in Seq(Jobs \cup {Sentinel})
    BY <1>10 DEF ProcessEnds
  <2>4. QED
    BY <1>1, <1>10, <2>2, <2>3 DEF ProcessEnds, TypeOK
<1>11. QED
  BY <1>2, <1>3, <1>4, <1>5, <1>6, <1>7, <1>8, <1>9, <1>10 DEF Next, StartUp

-----------------------------------------------------------------------------
(* What the threads name has a row.                                         *)

\* The part of KeyInv about one thread.
CallerNames(c) ==
  /\ caller[c].at # "idle" => caller[c].key \in Keys
  /\ caller[c].at \in {"created", "cancel", "put"} =>
       caller[c].job \in DOMAIN rows /\ KeyOf(caller[c].job) = caller[c].key
  /\ caller[c].at = "cancel" =>
       caller[c].previous \in DOMAIN rows /\ KeyOf(caller[c].previous) = caller[c].key

\* A new state of one caller leaves alone which jobs the others name.
LEMMA OtherNames ==
  ASSUME TypeOK, KeyInv, RowsKept, NEW c \in Callers, NEW state,
         caller' = [caller EXCEPT ![c] = state], CallerNames(c)'
  PROVE  \A d \in Callers : CallerNames(d)'
BY DEF TypeOK, KeyInv, RowsKept, CallerNames, KeyOf

\* Whoever a step leaves alone names existing jobs of the right key.
LEMMA SameNames ==
  ASSUME KeyInv, RowsKept
  PROVE  /\ UNCHANGED caller => \A c \in Callers : CallerNames(c)'
         /\ UNCHANGED pending =>
              \A k \in Keys : pending'[k] # None =>
                pending'[k] \in DOMAIN rows' /\ rows'[pending'[k]].key = k
         /\ UNCHANGED queue => \A i \in DOMAIN queue' : queue'[i] \in DOMAIN rows' \cup {Sentinel}
         /\ UNCHANGED worker =>
              (worker'.at \in ClaimedAt \cup {"got"} => worker'.job \in DOMAIN rows')
BY DEF KeyInv, RowsKept, CallerNames, KeyOf

\* Every step keeps who names which job.
LEMMA KeyStep ==
  ASSUME TypeOK, ProcessInv, KeyInv, Next
  PROVE  KeyInv'
<1> USE DEF KeyOf
<1>1. RowsKept
  BY RowsStep
<1> DEFINE PendingNamed ==
             \A k \in Keys : pending'[k] # None =>
               pending'[k] \in DOMAIN rows' /\ rows'[pending'[k]].key = k
           QueueNamed == \A i \in DOMAIN queue' : queue'[i] \in DOMAIN rows' \cup {Sentinel}
           WorkerNamed == worker'.at \in ClaimedAt \cup {"got"} => worker'.job \in DOMAIN rows'
           Named == PendingNamed /\ QueueNamed /\ WorkerNamed
<1> SUFFICES Named /\ \A d \in Callers : CallerNames(d)'
  BY DEF KeyInv, CallerNames
<1>2. ASSUME NEW c \in Callers, CallerStep(c) PROVE Named /\ \A d \in Callers : CallerNames(d)'
  <2>1. CASE CreateJob(c)
    <3> DEFINE new == Len(rows) + 1
    <3>1. rows'[new].key = caller[c].key /\ new \in DOMAIN rows' /\ caller[c].key \in Keys
      <4>1. /\ new \in DOMAIN rows' /\ caller[c].key \in Keys
            /\ rows'[new] = [key |-> caller[c].key, status |-> "queued", start |-> starts]
        BY <2>1, RowsCreated
      <4> HIDE DEF new
      <4>2. QED
        BY <4>1
    <3>2. caller' = [caller EXCEPT ![c] = [caller[c] EXCEPT !.at = "created", !.job = Len(rows) + 1]]
      BY <2>1 DEF CreateJob
    <3>3. CallerNames(c)'
      BY <3>1, <3>2 DEF CallerNames, TypeOK, CallerStates
    <3>4. QED
      BY <1>1, <2>1, <3>2, <3>3, OtherNames, SameNames DEF CreateJob
  <2>2. CASE ReplacePending(c)
    <3> DEFINE previous == pending[caller[c].key]
               at == IF previous = None THEN "put" ELSE "cancel"
    <3>1. caller' = [caller EXCEPT ![c] = [caller[c] EXCEPT !.previous = previous, !.at = at]]
      BY <2>2 DEF ReplacePending
    <3>2. /\ caller[c].key \in Keys /\ caller[c].job \in DOMAIN rows
          /\ rows[caller[c].job].key = caller[c].key
          /\ previous # None => previous \in DOMAIN rows /\ rows[previous].key = caller[c].key
      BY <2>2 DEF ReplacePending, KeyInv
    <3>3. CallerNames(c)'
      BY <1>1, <2>2, <3>1, <3>2 DEF ReplacePending, CallerNames, TypeOK, CallerStates
    <3>4. PendingNamed
      BY <1>1, <2>2, <3>2 DEF ReplacePending, KeyInv, RowsKept, TypeOK
    <3>5. QED
      BY <1>1, <2>2, <3>1, <3>3, <3>4, OtherNames, SameNames DEF ReplacePending
  <2>3. CASE CancelPrevious(c)
    <3>1. caller' = [caller EXCEPT ![c] = [caller[c] EXCEPT !.at = "put"]]
      BY <2>3 DEF CancelPrevious
    <3>2. CallerNames(c)'
      BY <1>1, <2>3, <3>1 DEF CancelPrevious, CallerNames, KeyInv, RowsKept, TypeOK, CallerStates
    <3>3. QED
      BY <1>1, <2>3, <3>1, <3>2, OtherNames, SameNames DEF CancelPrevious
  <2>4. CASE EnqueueRaises(c) \/ PutJob(c) \/ DeleteSource(c)
    <3>1. caller' = [caller EXCEPT ![c] = Idle]
      BY <2>4 DEF EnqueueRaises, PutJob, DeleteSource
    <3>2. CallerNames(c)'
      BY <3>1 DEF CallerNames, TypeOK, Idle
    <3>3. PendingNamed /\ WorkerNamed
      BY <1>1, <2>4, SameNames DEF EnqueueRaises, PutJob, DeleteSource
    <3>4. QueueNamed
      <4>1. CASE PutJob(c)
        <5>1. caller[c].job \in DOMAIN rows /\ caller[c].job \in Jobs
          BY <4>1, JobNumbers DEF PutJob, KeyInv
        <5>2. QED
          BY <1>1, <4>1, <5>1, QueueGrown DEF PutJob, KeyInv, RowsKept
      <4>2. QED
        BY <1>1, <2>4, <4>1, SameNames DEF EnqueueRaises, DeleteSource
    <3>5. QED
      BY <1>1, <3>1, <3>2, <3>3, <3>4, OtherNames
  <2>5. CASE WatchSource(c)
    <3>1. caller' = [caller EXCEPT ![c] = [caller[c] EXCEPT !.at = "enqueue"]]
      BY <2>5 DEF WatchSource
    <3>2. CallerNames(c)'
      BY <2>5, <3>1 DEF WatchSource, CallerNames, KeyInv, TypeOK, CallerStates
    <3>3. QED
      BY <1>1, <2>5, <3>1, <3>2, OtherNames, SameNames DEF WatchSource
  <2>6. QED
    BY <1>2, <2>1, <2>2, <2>3, <2>4, <2>5 DEF CallerStep, EnqueueStep
<1>3. ASSUME NEW c \in Callers, NEW k \in Keys, NEW at \in {"enqueue", "watch", "delete"},
             caller' = [caller EXCEPT ![c] = [Idle EXCEPT !.at = at, !.key = k]]
      PROVE  \A d \in Callers : CallerNames(d)'
  <2>1. CallerNames(c)'
    BY <1>3 DEF CallerNames, TypeOK, Idle
  <2>2. QED
    BY <1>1, <1>3, <2>1, OtherNames
<1>4. ASSUME NEW c \in Clients, NEW s \in Sources, Request(c, s)
      PROVE  Named /\ \A d \in Callers : CallerNames(d)'
  <2>1. Named
    BY <1>1, <1>4, SameNames DEF Request, RequestRescan, AddSource, UnwatchSource, DeleteGrant
  <2>2. CASE RequestRescan(c, s) \/ AddSource(c, s) \/ UnwatchSource(c, s)
    BY <1>3, <2>1, <2>2, Rescans, Threads DEF RequestRescan, AddSource, UnwatchSource, BeginEnqueue
  <2>3. CASE DeleteGrant(c, s)
    BY <1>1, <2>1, <2>3, SameNames DEF DeleteGrant
  <2>4. QED
    BY <1>4, <2>2, <2>3 DEF Request
<1>5. ASSUME NEW s \in Sources, NEW operation \in Operations, FileEvent(s, operation)
      PROVE  Named /\ \A d \in Callers : CallerNames(d)'
  <2>1. <<s, operation>> \in Keys
    BY DEF Keys
  <2>2. QED
    BY <1>1, <1>3, <1>5, <2>1, SameNames, Threads DEF FileEvent, BeginEnqueue
<1>6. CASE WorkerStep
  <2>1. \A d \in Callers : CallerNames(d)'
    BY <1>1, <1>6, SameNames DEF WorkerStep, TakeJob, SeeStop, ClaimJob, IndexEnds, MarkRunning,
         MarkCompleted, MarkFailed, Mark
  <2>2. CASE TakeJob
    <3>1. QueueNamed
      BY <1>1, <2>2, QueueTail DEF TakeJob, KeyInv, RowsKept
    <3>2. Head(queue) \in DOMAIN rows \cup {Sentinel}
      BY <2>2, QueueTail DEF TakeJob, KeyInv
    <3>3. WorkerNamed
      BY <1>1, <2>2, <3>2 DEF TakeJob, NoJob, ClaimedAt, RowsKept
    <3>4. QED
      BY <1>1, <2>1, <2>2, <3>1, <3>3, SameNames DEF TakeJob
  <2>3. CASE SeeStop \/ IndexEnds
    <3>1. WorkerNamed
      BY <1>1, <2>3 DEF SeeStop, IndexEnds, NoJob, ClaimedAt, KeyInv, RowsKept, TypeOK, WorkerStates
    <3>2. QED
      BY <1>1, <2>1, <2>3, <3>1, SameNames DEF SeeStop, IndexEnds
  <2>4. CASE ClaimJob
    <3>1. WorkerNamed
      BY <1>1, <2>4 DEF ClaimJob, NoJob, ClaimedAt, KeyInv, RowsKept, TypeOK, WorkerStates
    <3>2. PendingNamed
      BY <1>1, <2>4 DEF ClaimJob, KeyInv, RowsKept, TypeOK
    <3>3. QED
      BY <1>1, <2>1, <2>4, <3>1, <3>2, SameNames DEF ClaimJob
  <2>5. CASE MarkRunning \/ MarkCompleted \/ MarkFailed
    <3>1. WorkerNamed
      BY <1>1, <2>5 DEF MarkRunning, MarkCompleted, MarkFailed, Mark, NoJob, ClaimedAt, KeyInv,
           RowsKept, TypeOK, WorkerStates
    <3>2. QED
      BY <1>1, <2>1, <2>5, <3>1, SameNames DEF MarkRunning, MarkCompleted, MarkFailed, Mark
  <2>6. QED
    BY <1>6, <2>2, <2>3, <2>4, <2>5 DEF WorkerStep
<1>7. CASE Started
  BY <1>1, <1>7, SameNames DEF Started
<1>8. ASSUME NEW s \in Sources, StartRescan(s) PROVE Named /\ \A d \in Callers : CallerNames(d)'
  BY <1>1, <1>3, <1>8, Rescans, SameNames, Threads DEF StartRescan, BeginEnqueue
<1>9. CASE Start
  <2>1. WorkerNamed
    BY <1>9 DEF Start, NoJob, ClaimedAt
  <2>2. QED
    BY <1>1, <1>9, <2>1, SameNames DEF Start
<1>10. CASE Stop
  <2>1. QueueNamed
    BY <1>1, <1>10, QueueGrown DEF Stop, KeyInv, RowsKept
  <2>2. QED
    BY <1>1, <1>10, <2>1, SameNames DEF Stop
<1>11. CASE ProcessEnds
  <2>1. \A d \in Callers : CallerNames(d)'
    BY <1>11 DEF ProcessEnds, CallerNames, Idle
  <2>2. Named
    BY <1>11 DEF ProcessEnds, NoJob, ClaimedAt
  <2>3. QED
    BY <2>1, <2>2
<1>12. QED
  BY <1>2, <1>4, <1>5, <1>6, <1>7, <1>8, <1>9, <1>10, <1>11 DEF Next, StartUp

-----------------------------------------------------------------------------
(* The process and its threads.                                             *)

\* Every step keeps what is known of the process.
LEMMA ProcessStep ==
  ASSUME TypeOK, ProcessInv, KeyInv, Next
  PROVE  ProcessInv'
<1>1. RowsKept
  BY RowsStep
<1>2. starts \in Nat
  BY DEF TypeOK
<1> DEFINE StartsKnown == \A j \in DOMAIN rows' : rows'[j].start <= starts'
           NoSentinel == process' # "stopping" => \A i \in DOMAIN queue' : queue'[i] # Sentinel
<1>3. StartsKnown
  <2>1. ASSUME DOMAIN rows' = DOMAIN rows, starts' = starts \/ starts' = starts + 1 PROVE StartsKnown
    <3> SUFFICES ASSUME NEW j \in DOMAIN rows PROVE rows'[j].start <= starts'
      BY <2>1
    <3>1. rows'[j].start = rows[j].start /\ rows[j].start \in Nat /\ rows[j].start <= starts
      BY <1>1, RowTypes DEF RowsKept, ProcessInv
    <3>2. QED
      BY <1>2, <2>1, <3>1
  <2>2. ASSUME UNCHANGED <<rows, starts>> PROVE StartsKnown
    BY <2>1, <2>2
  <2>3. ASSUME NEW c \in Callers, CallerStep(c) PROVE StartsKnown
    <3>1. CASE CreateJob(c)
      <4>1. /\ DOMAIN rows' = DOMAIN rows \cup {Len(rows) + 1} /\ starts \in Nat /\ starts' = starts
            /\ \A i \in DOMAIN rows : rows'[i] = rows[i]
            /\ rows'[Len(rows) + 1] = [key |-> caller[c].key, status |-> "queued", start |-> starts]
        BY <1>2, <3>1, RowsCreated DEF CreateJob
      <4>2. rows'[Len(rows) + 1].start = starts
        BY <4>1
      <4>3. QED
        BY <4>1, <4>2 DEF ProcessInv
    <3>2. CASE CancelPrevious(c)
      <4>1. DOMAIN rows' = DOMAIN rows
        BY <3>2, RowsCancelled
      <4>2. QED
        BY <2>1, <3>2, <4>1 DEF CancelPrevious
    <3>3. CASE DeleteSource(c)
      <4>1. caller[c].key[1] \in Sources
        BY <3>3, KeyParts DEF DeleteSource, KeyInv
      <4>2. DOMAIN rows' = DOMAIN rows
        BY <3>3, <4>1, RowsDeleted DEF DeleteSource
      <4>3. QED
        BY <2>1, <3>3, <4>2 DEF DeleteSource
    <3>4. QED
      BY <2>2, <2>3, <3>1, <3>2, <3>3 DEF CallerStep, EnqueueStep, ReplacePending, EnqueueRaises,
           PutJob, WatchSource
  <2>4. ASSUME NEW c \in Clients, NEW s \in Sources, Request(c, s) PROVE StartsKnown
    <3>1. CASE DeleteGrant(c, s)
      BY <2>1, <3>1, RowsDeleted DEF DeleteGrant
    <3>2. QED
      BY <2>2, <2>4, <3>1 DEF Request, RequestRescan, AddSource, UnwatchSource
  <2>5. CASE WorkerStep
    <3>1. CASE MarkRunning \/ MarkCompleted \/ MarkFailed
      <4>1. DOMAIN rows' = DOMAIN rows
        BY <3>1, MarkTypes, RowsMarked DEF MarkRunning, MarkCompleted, MarkFailed, ClaimedAt
      <4>2. QED
        BY <2>1, <3>1, <4>1 DEF MarkRunning, MarkCompleted, MarkFailed, Mark
    <3>2. QED
      BY <2>2, <2>5, <3>1 DEF WorkerStep, TakeJob, SeeStop, ClaimJob, IndexEnds
  <2>6. CASE Start
    BY <2>1, <2>6, RowsRecovered DEF Start
  <2>7. ASSUME NEW s \in Sources, NEW operation \in Operations, FileEvent(s, operation)
        PROVE  StartsKnown
    BY <2>2, <2>7 DEF FileEvent
  <2>8. CASE StartUp \/ Stop \/ ProcessEnds
    BY <2>2, <2>8 DEF StartUp, Started, StartRescan, Stop, ProcessEnds
  <2>9. QED
    BY <2>3, <2>4, <2>5, <2>6, <2>7, <2>8 DEF Next
<1> DEFINE Rest ==
             /\ process' = "down" =>
                  worker'.at = "exited" /\ ~observing' /\ \A c \in Callers : caller'[c].at = "idle"
             /\ process' # "down" => starts' > 0
             /\ NoSentinel
<1> HIDE DEF StartsKnown
<1> SUFFICES Rest
  BY <1>3 DEF ProcessInv, StartsKnown
<1>4. ASSUME NEW c \in Callers, CallerStep(c) PROVE Rest
  <2>1. process # "down" /\ UNCHANGED <<process, starts>>
    BY <1>4 DEF CallerStep, EnqueueStep, CreateJob, ReplacePending, CancelPrevious, EnqueueRaises,
         PutJob, WatchSource, DeleteSource, ProcessInv
  <2>2. NoSentinel
    <3>1. CASE PutJob(c)
      <4>1. caller[c].job \in Jobs /\ caller[c].job # Sentinel
        BY <3>1, JobNumbers DEF PutJob, KeyInv
      <4>2. QED
        BY <3>1, <4>1, QueueGrown DEF PutJob, ProcessInv
    <3>2. QED
      BY <1>4, <3>1 DEF CallerStep, EnqueueStep, CreateJob, ReplacePending, CancelPrevious,
           EnqueueRaises, WatchSource, DeleteSource, ProcessInv
  <2>3. QED
    BY <2>1, <2>2 DEF ProcessInv
<1>5. ASSUME NEW c \in Clients, NEW s \in Sources, Request(c, s) PROVE Rest
  BY <1>5 DEF Request, RequestRescan, AddSource, UnwatchSource, DeleteGrant, Serves, ProcessInv
<1>6. ASSUME NEW s \in Sources, NEW operation \in Operations, FileEvent(s, operation) PROVE Rest
  BY <1>6 DEF FileEvent, ProcessInv
<1>7. CASE WorkerStep
  <2>1. UNCHANGED <<process, starts, caller, observing>>
    BY <1>7 DEF WorkerStep, TakeJob, SeeStop, ClaimJob, IndexEnds, MarkRunning, MarkCompleted,
         MarkFailed, Mark
  <2>2. worker.at # "exited"
    BY <1>7 DEF WorkerStep, TakeJob, SeeStop, ClaimJob, IndexEnds, MarkRunning, MarkCompleted,
         MarkFailed, Mark
  <2>3. NoSentinel
    <3>1. CASE TakeJob
      BY <2>1, <3>1, QueueTail DEF TakeJob, ProcessInv
    <3>2. QED
      BY <1>7, <2>1, <3>1 DEF WorkerStep, SeeStop, ClaimJob, IndexEnds, MarkRunning, MarkCompleted,
           MarkFailed, Mark, ProcessInv
  <2>4. QED
    BY <2>1, <2>2, <2>3 DEF ProcessInv
<1>8. CASE StartUp
  BY <1>8 DEF StartUp, Started, StartRescan, ProcessInv
<1>9. CASE Start
  <2>1. process = "down" /\ starts' > 0 /\ process' = "starting" /\ queue' = queue
    BY <1>2, <1>9 DEF Start
  <2>2. QED
    BY <2>1 DEF ProcessInv
<1>10. CASE Stop
  BY <1>10 DEF Stop, ProcessInv
<1>11. CASE ProcessEnds
  BY <1>11 DEF ProcessEnds, NoJob, Idle
<1>12. QED
  BY <1>4, <1>5, <1>6, <1>7, <1>8, <1>9, <1>10, <1>11 DEF Next

-----------------------------------------------------------------------------
(* Sources and their rows.                                                  *)

\* A source changes from absent to present and from present to deleted.
SourcesKept ==
  \A s \in Sources : /\ source[s] # "absent" => source'[s] # "absent"
                     /\ source[s] = "deleted" => source'[s] = "deleted"

\* What the deletion of a source leaves.
LEMMA SourcesDeleted ==
  ASSUME TypeOK, SourceInv, NEW s \in Sources, DeleteRows(s)
  PROVE  /\ SourcesKept
         /\ \A j \in DOMAIN rows' :
              /\ source'[rows'[j].key[1]] # "absent"
              /\ rows'[j].status = "deleted" => source'[rows'[j].key[1]] = "deleted"
<1>1. source' = [source EXCEPT ![s] = "deleted"] /\ source \in [Sources -> {"absent", "present", "deleted"}]
  BY DEF DeleteRows, TypeOK
<1>2. SourcesKept
  BY <1>1 DEF SourcesKept
<1>3. ASSUME NEW j \in DOMAIN rows'
      PROVE  /\ source'[rows'[j].key[1]] # "absent"
             /\ rows'[j].status = "deleted" => source'[rows'[j].key[1]] = "deleted"
  <2>1. /\ j \in DOMAIN rows /\ rows'[j].key = rows[j].key
        /\ rows'[j].status = IF rows[j].key[1] = s THEN "deleted" ELSE rows[j].status
    BY <1>3, RowsDeleted DEF RowsKept, KeyOf
  <2>2. rows[j].key[1] \in Sources
    BY <2>1, RowTypes, KeyParts
  <2>3. /\ source[rows[j].key[1]] # "absent"
        /\ rows[j].status = "deleted" => source[rows[j].key[1]] = "deleted"
    BY <2>1 DEF SourceInv, KeyOf
  <2>4. QED
    BY <1>1, <2>1, <2>2, <2>3
<1>4. QED
  BY <1>2, <1>3

\* Every step keeps what is known of the sources.
LEMMA SourceStep ==
  ASSUME TypeOK, ProcessInv, KeyInv, SourceInv, Next
  PROVE  SourceInv'
<1> DEFINE RowSources ==
             \A j \in DOMAIN rows' :
               /\ source'[rows'[j].key[1]] # "absent"
               /\ rows'[j].status = "deleted" => source'[rows'[j].key[1]] = "deleted"
           CallerSource(c) == caller'[c].at # "idle" => source'[caller'[c].key[1]] # "absent"
           ListSources == \A s \in watched' \cup toScan' : source'[s] # "absent"
<1> SUFFICES RowSources /\ ListSources /\ \A c \in Callers : CallerSource(c)
  BY DEF SourceInv, KeyOf
<1>1. ASSUME UNCHANGED <<source, rows>> PROVE SourcesKept /\ RowSources
  BY <1>1 DEF SourceInv, SourcesKept, KeyOf
<1>2. ASSUME SourcesKept, DOMAIN rows' = DOMAIN rows,
             \A j \in DOMAIN rows : rows'[j].status = "deleted" => rows[j].status = "deleted"
      PROVE  RowsKept => RowSources
  BY <1>2, RowTypes, KeyParts DEF SourceInv, SourcesKept, RowsKept, KeyOf
<1>3. ASSUME SourcesKept, UNCHANGED <<watched, toScan>> PROVE ListSources
  BY <1>3 DEF SourceInv, SourcesKept, TypeOK
<1>4. ASSUME SourcesKept, NEW c \in Callers, caller'[c] = caller[c] PROVE CallerSource(c)
  BY <1>4, KeyParts DEF SourceInv, SourcesKept, KeyInv
<1>5. ASSUME SourcesKept, NEW c \in Callers, NEW new, caller' = [caller EXCEPT ![c] = new],
             new.at = "idle" \/ (new.key[1] \in Sources /\ source'[new.key[1]] # "absent")
      PROVE  \A d \in Callers : CallerSource(d)
  BY <1>4, <1>5 DEF TypeOK
<1>6. ASSUME NEW c \in Callers, CallerStep(c)
      PROVE  SourcesKept /\ RowSources /\ ListSources /\ \A d \in Callers : CallerSource(d)
  <2>1. caller[c].at # "idle" /\ caller[c].key[1] \in Sources /\ source[caller[c].key[1]] # "absent"
    <3>1. caller[c].at # "idle"
      BY <1>6 DEF CallerStep, EnqueueStep, CreateJob, ReplacePending, CancelPrevious, EnqueueRaises,
           PutJob, WatchSource, DeleteSource
    <3>2. QED
      BY <3>1, KeyParts DEF KeyInv, SourceInv
  <2>2. /\ SourcesKept /\ RowSources
    <3>1. CASE DeleteSource(c)
      BY <1>1, <2>1, <3>1, SourcesDeleted DEF DeleteSource
    <3>2. CASE CreateJob(c)
      <4>1. SourcesKept /\ source' = source
        BY <3>2 DEF CreateJob, SourcesKept
      <4>2. rows'[Len(rows) + 1].key = caller[c].key /\ rows'[Len(rows) + 1].status = "queued"
        <5>1. rows'[Len(rows) + 1] = [key |-> caller[c].key, status |-> "queued", start |-> starts]
          BY <3>2, RowsCreated
        <5>2. QED
          BY <5>1
      <4>3. DOMAIN rows' = DOMAIN rows \cup {Len(rows) + 1} /\ \A i \in DOMAIN rows : rows'[i] = rows[i]
        BY <3>2, RowsCreated
      <4>4. QED
        BY <2>1, <4>1, <4>2, <4>3 DEF SourceInv, KeyOf
    <3>3. CASE CancelPrevious(c)
      <4>1. SourcesKept
        BY <3>3 DEF CancelPrevious, SourcesKept
      <4>2. QED
        BY <1>2, <3>3, <4>1, RowsCancelled
    <3>4. QED
      BY <1>1, <1>6, <3>1, <3>2, <3>3 DEF CallerStep, EnqueueStep, ReplacePending, EnqueueRaises,
           PutJob, WatchSource
  <2>3. ListSources
    <3>1. CASE WatchSource(c)
      BY <3>1 DEF WatchSource, SourceInv, Present
    <3>2. QED
      BY <1>3, <1>6, <2>2, <3>1 DEF CallerStep, EnqueueStep, CreateJob, ReplacePending,
           CancelPrevious, EnqueueRaises, PutJob, DeleteSource
  <2>4. source'[caller[c].key[1]] # "absent"
    BY <2>1, <2>2 DEF SourcesKept
  <2>5. PICK new : caller' = [caller EXCEPT ![c] = new] /\ (new.at = "idle" \/ new.key = caller[c].key)
    <3>1. CASE EnqueueRaises(c) \/ PutJob(c) \/ DeleteSource(c)
      BY <3>1 DEF EnqueueRaises, PutJob, DeleteSource, Idle
    <3>2. CASE CreateJob(c)
      <4>1. caller' = [caller EXCEPT ![c] = [caller[c] EXCEPT !.at = "created", !.job = Len(rows) + 1]]
        BY <3>2 DEF CreateJob
      <4>2. [caller[c] EXCEPT !.at = "created", !.job = Len(rows) + 1].key = caller[c].key
        BY DEF TypeOK, CallerStates
      <4>3. QED
        BY <4>1, <4>2
    <3>3. CASE ReplacePending(c)
      <4> DEFINE previous == pending[caller[c].key]
                 at == IF previous = None THEN "put" ELSE "cancel"
      <4>1. caller' = [caller EXCEPT ![c] = [caller[c] EXCEPT !.previous = previous, !.at = at]]
        BY <3>3 DEF ReplacePending
      <4>2. [caller[c] EXCEPT !.previous = previous, !.at = at].key = caller[c].key
        BY DEF TypeOK, CallerStates
      <4>3. QED
        BY <4>1, <4>2
    <3>4. CASE CancelPrevious(c)
      <4>1. [caller[c] EXCEPT !.at = "put"].key = caller[c].key
        BY DEF TypeOK, CallerStates
      <4>2. caller' = [caller EXCEPT ![c] = [caller[c] EXCEPT !.at = "put"]]
        BY <3>4 DEF CancelPrevious
      <4>3. QED
        BY <4>1, <4>2
    <3>5. CASE WatchSource(c)
      <4>1. [caller[c] EXCEPT !.at = "enqueue"].key = caller[c].key
        BY DEF TypeOK, CallerStates
      <4>2. caller' = [caller EXCEPT ![c] = [caller[c] EXCEPT !.at = "enqueue"]]
        BY <3>5 DEF WatchSource
      <4>3. QED
        BY <4>1, <4>2
    <3>6. QED
      BY <1>6, <3>1, <3>2, <3>3, <3>4, <3>5 DEF CallerStep, EnqueueStep
  <2>6. \A d \in Callers : CallerSource(d)
    BY <1>5, <2>1, <2>2, <2>4, <2>5
  <2>7. QED
    BY <2>2, <2>3, <2>6
<1>7. ASSUME SourcesKept, NEW c \in Callers, NEW s \in Sources, NEW operation, source'[s] # "absent",
             NEW at, caller' = [caller EXCEPT ![c] = [Idle EXCEPT !.at = at, !.key = <<s, operation>>]]
      PROVE  \A d \in Callers : CallerSource(d)
  <2> DEFINE new == [Idle EXCEPT !.at = at, !.key = <<s, operation>>]
  <2>1. new.key[1] = s
    BY DEF Idle
  <2> HIDE DEF new
  <2>2. caller' = [caller EXCEPT ![c] = new]
    BY <1>7 DEF new
  <2>3. QED
    BY <1>5, <1>7, <2>1, <2>2
<1>8. ASSUME NEW c \in Clients, NEW s \in Sources, Request(c, s)
      PROVE  RowSources /\ ListSources /\ \A d \in Callers : CallerSource(d)
  <2>1. CASE RequestRescan(c, s)
    BY <1>1, <1>3, <1>7, <2>1, Threads DEF RequestRescan, BeginEnqueue, Present
  <2>2. CASE UnwatchSource(c, s)
    <3>1. SourcesKept /\ RowSources
      BY <1>1, <2>2 DEF UnwatchSource
    <3>2. ListSources
      BY <2>2 DEF UnwatchSource, SourceInv
    <3>3. QED
      BY <1>7, <2>2, <3>1, <3>2, Threads DEF UnwatchSource, Present
  <2>3. CASE DeleteGrant(c, s)
    <3>1. SourcesKept /\ RowSources
      BY <2>3, SourcesDeleted DEF DeleteGrant
    <3>2. QED
      BY <1>3, <1>4, <2>3, <3>1 DEF DeleteGrant
  <2>4. CASE AddSource(c, s)
    <3>1. SourcesKept /\ source'[s] # "absent"
      BY <2>4 DEF AddSource, SourcesKept, TypeOK
    <3>2. RowsKept
      BY <2>4 DEF AddSource, RowsKept, TypeOK
    <3>3. RowSources
      BY <1>2, <2>4, <3>1, <3>2 DEF AddSource
    <3>4. QED
      BY <1>3, <1>7, <2>4, <3>1, <3>3, Threads DEF AddSource
  <2>5. QED
    BY <1>8, <2>1, <2>2, <2>3, <2>4 DEF Request
<1>9. ASSUME NEW s \in Sources, NEW operation \in Operations, FileEvent(s, operation)
      PROVE  RowSources /\ ListSources /\ \A d \in Callers : CallerSource(d)
  <2>1. source'[s] # "absent"
    BY <1>9 DEF FileEvent, SourceInv
  <2>2. QED
    BY <1>1, <1>3, <1>7, <1>9, <2>1, Threads DEF FileEvent, BeginEnqueue
<1>10. CASE WorkerStep
  <2>1. SourcesKept /\ UNCHANGED <<source, watched, toScan, caller>>
    BY <1>10 DEF WorkerStep, TakeJob, SeeStop, ClaimJob, IndexEnds, MarkRunning, MarkCompleted,
         MarkFailed, Mark, SourcesKept
  <2>2. RowSources
    <3>1. CASE MarkRunning \/ MarkCompleted \/ MarkFailed
      <4>1. /\ RowsKept /\ DOMAIN rows' = DOMAIN rows
            /\ \A j \in DOMAIN rows : rows'[j].status = "deleted" => rows[j].status = "deleted"
        BY <3>1, MarkTypes, RowsMarked DEF MarkRunning, MarkCompleted, MarkFailed, ClaimedAt
      <4>2. QED
        BY <1>2, <2>1, <4>1
    <3>2. QED
      BY <1>1, <1>10, <2>1, <3>1 DEF WorkerStep, TakeJob, SeeStop, ClaimJob, IndexEnds
  <2>3. QED
    BY <1>3, <1>4, <2>1, <2>2
<1>11. CASE Started
  BY <1>1, <1>3, <1>4, <1>11 DEF Started
<1>12. ASSUME NEW s \in Sources, StartRescan(s)
       PROVE  RowSources /\ ListSources /\ \A d \in Callers : CallerSource(d)
  <2>1. source'[s] # "absent" /\ SourcesKept /\ RowSources
    BY <1>1, <1>12 DEF StartRescan, SourceInv
  <2>2. ListSources
    BY <1>12 DEF StartRescan, SourceInv
  <2>3. QED
    BY <1>7, <1>12, <2>1, <2>2, Threads DEF StartRescan, BeginEnqueue
<1>13. CASE Start
  <2>1. SourcesKept
    BY <1>13 DEF Start, SourcesKept
  <2>2. /\ RowsKept /\ DOMAIN rows' = DOMAIN rows
        /\ \A j \in DOMAIN rows : rows'[j].status = "deleted" => rows[j].status = "deleted"
    BY <1>13, RowsRecovered DEF Start
  <2>3. ListSources
    BY <1>13 DEF Start, Present
  <2>4. QED
    BY <1>2, <1>4, <1>13, <2>1, <2>2, <2>3 DEF Start
<1>14. CASE Stop
  BY <1>1, <1>3, <1>4, <1>14 DEF Stop
<1>15. CASE ProcessEnds
  <2>1. \A c \in Callers : CallerSource(c)
    BY <1>15 DEF ProcessEnds, Idle
  <2>2. ListSources /\ RowSources
    BY <1>1, <1>15 DEF ProcessEnds
  <2>3. QED
    BY <2>1, <2>2
<1>16. QED
  BY <1>6, <1>8, <1>9, <1>10, <1>11, <1>12, <1>13, <1>14, <1>15 DEF Next, StartUp

-----------------------------------------------------------------------------
(* Who holds a job.                                                         *)

\* The claim on job j, if it is there after the step, was there before.
ClaimKept(j) == Claims(j)' => Claims(j) /\ (worker'.at = "claimed" <=> worker.at = "claimed")

Free(j) == ~IsLatest(j) /\ ~Claims(j) /\ \A c \in Callers : ~Holds(c, j)

\* A step that lets go of jobs, and writes the status only of jobs it has
\* freed or deleted.
LEMMA HeldLess ==
  ASSUME HeldInv, DOMAIN rows' = DOMAIN rows,
         \A j \in DOMAIN rows :
           /\ IsLatest(j)' => IsLatest(j)
           /\ ClaimKept(j)
           /\ \A c \in Callers : Holds(c, j)' => Holds(c, j)
           /\ rows'[j].status \in {rows[j].status, "deleted"} \/ Free(j)'
  PROVE  HeldInv'
BY DEF HeldInv, ClaimKept, Free

\* Rows that keep their order keep the latest.
LEMMA SameLatest ==
  ASSUME RowsKept, UNCHANGED pending, NEW j \in DOMAIN rows
  PROVE  IsLatest(j)' <=> IsLatest(j)
BY DEF RowsKept, IsLatest, KeyOf

\* Steps that leave the claims alone.
LEMMA SameClaims ==
  ASSUME UNCHANGED worker, NEW j
  PROVE  ClaimKept(j) /\ (Claims(j)' <=> Claims(j))
BY DEF ClaimKept, Claims

\* Steps that leave the holders of jobs alone.
LEMMA SameHolders ==
  ASSUME TypeOK, NEW j
  PROVE  /\ UNCHANGED caller => \A d \in Callers : Holds(d, j)' <=> Holds(d, j)
         /\ \A c \in Callers : \A new :
              caller' = [caller EXCEPT ![c] = new] /\ new.at \notin {"created", "cancel"} =>
                /\ ~Holds(c, j)'
                /\ \A d \in Callers : d # c => (Holds(d, j)' <=> Holds(d, j))
BY DEF TypeOK, Holds, Creates, Cancels

\* Steps that leave the rows and the table as they are.
LEMMA HeldQuiet ==
  ASSUME TypeOK, HeldInv, UNCHANGED <<rows, pending, worker>>,
         \/ UNCHANGED caller
         \/ \E c \in Callers : \E new : /\ caller' = [caller EXCEPT ![c] = new]
                                        /\ new.at \notin {"created", "cancel"}
  PROVE  HeldInv'
<1>1. RowsKept
  BY DEF RowsKept, TypeOK
<1>2. ASSUME NEW j \in DOMAIN rows, NEW c \in Callers, Holds(c, j)' PROVE Holds(c, j)
  BY <1>2, SameHolders
<1>3. QED
  BY <1>1, <1>2, HeldLess, SameLatest, SameClaims

\* A new job keeps what is known of held jobs.
LEMMA HeldCreate ==
  ASSUME TypeOK, ProcessInv, KeyInv, HeldInv, NEW c \in Callers, CreateJob(c)
  PROVE  HeldInv'
<1>0. PICK new \in Jobs : new = Len(rows) + 1
  BY RowsCreated
<1>1. /\ RowsKept /\ DOMAIN rows' = DOMAIN rows \cup {new} /\ new \in Jobs \ DOMAIN rows
      /\ \A i \in DOMAIN rows : rows'[i] = rows[i]
      /\ rows'[new] = [key |-> caller[c].key, status |-> "queued", start |-> starts]
      /\ caller[c].key \in Keys
  BY <1>0, RowsCreated
<1>2. UNCHANGED <<pending, worker>> /\ caller[c].at = "enqueue"
  BY DEF CreateJob
<1>3. caller' = [caller EXCEPT ![c] = [caller[c] EXCEPT !.at = "created", !.job = new]]
  BY <1>0 DEF CreateJob
<1>4. rows'[new].status = "queued" /\ rows'[new].key = caller[c].key
  BY <1>1
<1>5. \A j : Holds(c, j)' <=> j = new
  BY <1>3 DEF Holds, Creates, Cancels, TypeOK, CallerStates
<1>6. \A d \in Callers : \A j : d # c => (Holds(d, j)' <=> Holds(d, j))
  BY <1>3 DEF Holds, Creates, Cancels, TypeOK
<1>7. \A d \in Callers : ~Holds(d, new)
  BY <1>1 DEF KeyInv, Holds, Creates, Cancels
<1>8. ~IsLatest(new)'
  <2>1. new # None
    BY <1>1, JobNumbers
  <2>2. QED
    BY <1>1, <1>2, <1>4, <2>1 DEF IsLatest, KeyOf, KeyInv
<1>9. ~Claims(new)'
  BY <1>1, <1>2 DEF Claims, KeyInv
<1>10. ASSUME NEW j \in DOMAIN rows
       PROVE  /\ IsLatest(j)' <=> IsLatest(j)
              /\ Claims(j)' <=> Claims(j)
              /\ \A d \in Callers : Holds(d, j)' => Holds(d, j)
              /\ rows'[j].status = rows[j].status
  BY <1>1, <1>2, <1>5, <1>6, SameLatest, SameClaims
<1>11. ASSUME NEW j \in DOMAIN rows'
       PROVE  /\ IsLatest(j)' => ~Claims(j)' /\ rows'[j].status \in {"queued", "deleted"}
              /\ \A d \in Callers :
                   Holds(d, j)' =>
                     /\ ~IsLatest(j)' /\ ~Claims(j)' /\ rows'[j].status \in {"queued", "deleted"}
                     /\ \A e \in Callers : Holds(e, j)' => e = d
              /\ Claims(j)' =>
                   rows'[j].status \in {IF worker'.at = "claimed" THEN "queued" ELSE "running", "deleted"}
  <2>1. CASE j = new
    BY <1>4, <1>5, <1>6, <1>7, <1>8, <1>9, <2>1
  <2>2. CASE j \in DOMAIN rows
    BY <1>2, <1>10, <2>2 DEF HeldInv
  <2>3. QED
    BY <1>1, <1>11, <2>1, <2>2
<1>12. QED
  BY <1>11 DEF HeldInv

\* A call that puts its job in the place of an older one keeps it.
LEMMA HeldReplace ==
  ASSUME TypeOK, KeyInv, HeldInv, NEW c \in Callers, ReplacePending(c)
  PROVE  HeldInv'
<1> DEFINE new == caller[c].job
           key == caller[c].key
           previous == pending[key]
           at == IF previous = None THEN "put" ELSE "cancel"
<1>1. /\ UNCHANGED <<rows, worker>> /\ pending' = [pending EXCEPT ![key] = new]
      /\ caller' = [caller EXCEPT ![c] = [caller[c] EXCEPT !.previous = previous, !.at = at]]
      /\ Creates(c, new)
  BY DEF ReplacePending, Creates
<1>2. /\ key \in Keys /\ new \in DOMAIN rows /\ rows[new].key = key /\ new # None
      /\ previous # None => previous \in DOMAIN rows /\ rows[previous].key = key
  BY JobNumbers DEF ReplacePending, KeyInv, KeyOf
<1>3. pending' \in [Keys -> Jobs \cup {None}] /\ pending'[key] = new
      /\ \A k \in Keys : k # key => pending'[k] = pending[k]
  BY <1>1, <1>2, JobNumbers DEF TypeOK
<1>4. /\ caller'[c].at = at /\ caller'[c].previous = previous
      /\ \A d \in Callers : d # c => caller'[d] = caller[d]
  BY <1>1 DEF TypeOK, CallerStates
<1> HIDE DEF new, key, previous
<1>5. /\ Holds(c, new) /\ ~IsLatest(new) /\ ~Claims(new) /\ rows[new].status \in {"queued", "deleted"}
      /\ \A d \in Callers : Holds(d, new) => d = c
  BY <1>1, <1>2 DEF HeldInv, Holds
<1>6. previous # None =>
        /\ IsLatest(previous) /\ ~Claims(previous) /\ rows[previous].status \in {"queued", "deleted"}
        /\ \A d \in Callers : ~Holds(d, previous)
        /\ previous # new
  <2>1. previous # None => IsLatest(previous)
    BY <1>2 DEF IsLatest, KeyOf, previous
  <2>2. CASE previous # None
    <3>1. previous \in DOMAIN rows /\ IsLatest(previous) /\ previous # new
      BY <1>2, <1>5, <2>1, <2>2
    <3>2. QED
      BY <2>2, <3>1 DEF HeldInv
  <2>3. QED
    BY <2>2
<1>7. ASSUME NEW j \in DOMAIN rows
      PROVE  IsLatest(j)' <=> (j = new \/ (IsLatest(j) /\ j # previous))
  <2>1. rows[j].key \in Keys /\ (IsLatest(j)' <=> pending'[rows[j].key] = j) /\ j # None
    BY <1>1, RowTypes, JobNumbers DEF IsLatest, KeyOf
  <2>2. CASE rows[j].key = key
    BY <1>2, <1>3, <2>1, <2>2 DEF IsLatest, KeyOf, previous
  <2>3. CASE rows[j].key # key
    BY <1>2, <1>3, <2>1, <2>3 DEF IsLatest, KeyOf
  <2>4. QED
    BY <2>2, <2>3
<1>8. \A j \in DOMAIN rows : Holds(c, j)' <=> j = previous /\ previous # None
  <2>1. \A j \in DOMAIN rows : j # None
    BY JobNumbers
  <2>2. QED
    BY <1>4, <2>1 DEF Holds, Creates, Cancels
<1>9. \A d \in Callers, j \in DOMAIN rows : d # c => (Holds(d, j)' <=> Holds(d, j))
  BY <1>4 DEF Holds, Creates, Cancels
<1>10. \A j \in DOMAIN rows : Claims(j)' <=> Claims(j)
  BY <1>1, SameClaims
<1>11. ASSUME NEW j \in DOMAIN rows
       PROVE  /\ IsLatest(j)' => ~Claims(j)' /\ rows[j].status \in {"queued", "deleted"}
              /\ \A d \in Callers :
                   Holds(d, j)' =>
                     /\ ~IsLatest(j)' /\ ~Claims(j)' /\ rows[j].status \in {"queued", "deleted"}
                     /\ \A e \in Callers : Holds(e, j)' => e = d
              /\ Claims(j)' =>
                   rows[j].status \in {IF worker.at = "claimed" THEN "queued" ELSE "running", "deleted"}
  <2>1. CASE j = new
    BY <1>5, <1>6, <1>7, <1>8, <1>9, <1>10, <2>1
  <2>2. CASE j # new /\ j = previous
    BY <1>6, <1>7, <1>8, <1>9, <1>10, <2>2, JobNumbers
  <2>3. CASE j # new /\ j # previous
    BY <1>7, <1>8, <1>9, <1>10, <2>3 DEF HeldInv
  <2>4. QED
    BY <2>1, <2>2, <2>3
<1>12. rows' = rows /\ worker' = worker
  BY <1>1
<1>13. QED
  BY <1>11, <1>12 DEF HeldInv

\* A claim of the worker keeps it.
LEMMA HeldClaim ==
  ASSUME TypeOK, KeyInv, HeldInv, ClaimJob
  PROVE  HeldInv'
<1>1. UNCHANGED <<rows, caller>> /\ worker.job \in DOMAIN rows /\ worker.at = "got"
  BY DEF ClaimJob, KeyInv
<1>2. CASE ~IsLatest(worker.job)
  <2>1. UNCHANGED pending /\ worker' = NoJob
    BY <1>2 DEF ClaimJob
  <2>2. \A j \in DOMAIN rows : ClaimKept(j)
    BY <2>1 DEF ClaimKept, Claims, NoJob, ClaimedAt
  <2>3. RowsKept
    BY <1>1 DEF RowsKept, TypeOK
  <2>4. QED
    BY <1>1, <2>1, <2>2, <2>3, HeldLess, SameLatest, SameHolders
<1>3. CASE IsLatest(worker.job)
  <2>1. PICK job \in DOMAIN rows : job = worker.job
    BY <1>1
  <2>2. /\ pending' = [pending EXCEPT ![rows[job].key] = None]
        /\ worker' = [worker EXCEPT !.at = "claimed"]
    BY <1>3, <2>1 DEF ClaimJob, KeyOf
  <2>3. worker'.at = "claimed" /\ worker'.job = job
    BY <2>1, <2>2 DEF TypeOK, WorkerStates
  <2>4. IsLatest(job) /\ rows[job].status \in {"queued", "deleted"} /\ \A c \in Callers : ~Holds(c, job)
    BY <1>3, <2>1 DEF HeldInv
  <2>5. ASSUME NEW j \in DOMAIN rows PROVE IsLatest(j)' <=> IsLatest(j) /\ j # job
    <3>1. rows[j].key \in Keys /\ (IsLatest(j)' <=> pending'[rows[j].key] = j) /\ j # None
      BY <1>1, RowTypes, JobNumbers DEF IsLatest, KeyOf
    <3>2. CASE rows[j].key = rows[job].key
      BY <2>2, <2>4, <3>1, <3>2 DEF IsLatest, KeyOf, TypeOK
    <3>3. CASE rows[j].key # rows[job].key
      BY <2>2, <3>1, <3>3 DEF IsLatest, KeyOf, TypeOK
    <3>4. QED
      BY <3>2, <3>3
  <2>6. \A j \in DOMAIN rows : Claims(j)' <=> j = job
    BY <2>3 DEF Claims, ClaimedAt
  <2>7. \A c \in Callers, j \in DOMAIN rows : Holds(c, j)' <=> Holds(c, j)
    BY <1>1, SameHolders
  <2>8. rows' = rows
    BY <1>1
  <2>9. ASSUME NEW j \in DOMAIN rows
        PROVE  /\ IsLatest(j)' => ~Claims(j)' /\ rows[j].status \in {"queued", "deleted"}
               /\ \A c \in Callers :
                    Holds(c, j)' =>
                      /\ ~IsLatest(j)' /\ ~Claims(j)' /\ rows[j].status \in {"queued", "deleted"}
                      /\ \A d \in Callers : Holds(d, j)' => d = c
               /\ Claims(j)' =>
                    rows[j].status \in {IF worker'.at = "claimed" THEN "queued" ELSE "running", "deleted"}
    BY <2>3, <2>4, <2>5, <2>6, <2>7 DEF HeldInv
  <2>10. QED
    BY <2>8, <2>9 DEF HeldInv
<1>4. QED
  BY <1>2, <1>3

\* A mark of the worker keeps it.
LEMMA HeldMark ==
  ASSUME TypeOK, KeyInv, HeldInv, MarkRunning \/ MarkCompleted \/ MarkFailed
  PROVE  HeldInv'
<1>1. UNCHANGED <<pending, caller>> /\ worker.at \in ClaimedAt
  BY DEF MarkRunning, MarkCompleted, MarkFailed, Mark, ClaimedAt
<1>2. RowsKept /\ DOMAIN rows' = DOMAIN rows
  BY MarkTypes, RowsMarked DEF MarkRunning, MarkCompleted, MarkFailed, ClaimedAt
<1>3. PICK job \in DOMAIN rows : job = worker.job /\ Claims(job)
  BY <1>1, MarkTypes DEF Claims
<1>4. ~IsLatest(job) /\ \A c \in Callers : ~Holds(c, job)
  BY <1>3 DEF HeldInv
<1>5. ASSUME NEW j \in DOMAIN rows
      PROVE  /\ IsLatest(j)' <=> IsLatest(j)
             /\ \A c \in Callers : Holds(c, j)' <=> Holds(c, j)
             /\ Claims(j)' => j = job
  <2>1. Claims(j)' => j = job
    BY <1>3 DEF MarkRunning, MarkCompleted, MarkFailed, Mark, Claims, TypeOK, WorkerStates, NoJob, ClaimedAt
  <2>2. QED
    BY <1>1, <1>2, <2>1, SameLatest, SameHolders
<1>6. CASE MarkCompleted \/ MarkFailed
  <2>1. PICK status \in Statuses :
          \/ /\ worker' = NoJob
             /\ \A i \in DOMAIN rows : rows'[i].status = IF i = job THEN status ELSE rows[i].status
          \/ rows[job].status = "deleted" /\ rows' = rows /\ worker'.at \in {"failing", "dead"}
    BY <1>3, <1>6, MarkTypes, RowsMarked
       DEF MarkCompleted, MarkFailed, ClaimedAt, TypeOK, WorkerStates
  <2>2. CASE worker' = NoJob /\ \A i \in DOMAIN rows : rows'[i].status = IF i = job THEN status ELSE rows[i].status
    <3>1. \A j \in DOMAIN rows : ~Claims(j)'
      BY <2>2 DEF Claims, NoJob, ClaimedAt
    <3>2. Free(job)'
      BY <1>4, <1>5, <3>1 DEF Free
    <3>3. QED
      BY <1>2, <1>5, <2>2, <3>1, <3>2, HeldLess DEF ClaimKept
  <2>3. CASE rows[job].status = "deleted" /\ rows' = rows /\ worker'.at \in {"failing", "dead"}
    <3>1. worker.at # "claimed"
      BY <1>6 DEF MarkCompleted, MarkFailed, Mark
    <3>2. \A j \in DOMAIN rows : ClaimKept(j)
      BY <1>3, <1>5, <2>3, <3>1 DEF ClaimKept
    <3>3. QED
      BY <1>2, <1>5, <2>3, <3>2, HeldLess
  <2>4. QED
    BY <2>1, <2>2, <2>3
<1>7. CASE MarkRunning
  <2>1. /\ worker'.at # "claimed"
        /\ \A i \in DOMAIN rows : i # job => rows'[i].status = rows[i].status
        /\ rows'[job].status \in {"running", "deleted"}
    BY <1>3, <1>7, MarkTypes, RowsMarked DEF MarkRunning, ClaimedAt, TypeOK, WorkerStates
  <2>2. ASSUME NEW j \in DOMAIN rows
        PROVE  /\ IsLatest(j)' => ~Claims(j)' /\ rows'[j].status \in {"queued", "deleted"}
               /\ \A c \in Callers :
                    Holds(c, j)' =>
                      /\ ~IsLatest(j)' /\ ~Claims(j)' /\ rows'[j].status \in {"queued", "deleted"}
                      /\ \A d \in Callers : Holds(d, j)' => d = c
               /\ Claims(j)' =>
                    rows'[j].status \in {IF worker'.at = "claimed" THEN "queued" ELSE "running", "deleted"}
    <3>1. CASE j = job
      BY <1>4, <1>5, <2>1, <3>1
    <3>2. CASE j # job
      BY <1>5, <2>1, <3>2 DEF HeldInv
    <3>3. QED
      BY <3>1, <3>2
  <2>3. QED
    BY <1>2, <2>2 DEF HeldInv
<1>8. QED
  BY <1>6, <1>7

\* The deletion of a source keeps it.
LEMMA HeldDelete ==
  ASSUME TypeOK, HeldInv, NEW s \in Sources, DeleteRows(s), UNCHANGED <<pending, worker>>,
         \A j \in DOMAIN rows, c \in Callers : Holds(c, j)' => Holds(c, j)
  PROVE  HeldInv'
<1>1. /\ RowsKept /\ DOMAIN rows' = DOMAIN rows
      /\ \A i \in DOMAIN rows : rows'[i].status \in {rows[i].status, "deleted"}
  BY RowsDeleted
<1>2. QED
  BY <1>1, HeldLess, SameLatest, SameClaims

\* Every step keeps what is known of held jobs.
LEMMA HeldStep ==
  ASSUME TypeOK, ProcessInv, KeyInv, HeldInv, Next
  PROVE  HeldInv'
<1>0. ASSUME NEW c \in Callers, NEW k, NEW at \in {"enqueue", "watch", "delete"},
             caller' = [caller EXCEPT ![c] = [Idle EXCEPT !.at = at, !.key = k]],
             UNCHANGED <<rows, pending, worker>>
      PROVE  HeldInv'
  <2>1. [Idle EXCEPT !.at = at, !.key = k].at = at
    BY DEF Idle
  <2>2. QED
    BY <1>0, <2>1, HeldQuiet
<1>1. ASSUME NEW c \in Callers, CallerStep(c) PROVE HeldInv'
  <2>1. CASE CreateJob(c) \/ ReplacePending(c)
    BY <2>1, HeldCreate, HeldReplace
  <2>2. CASE CancelPrevious(c)
    <3>1. PICK job \in DOMAIN rows : job = caller[c].previous
      BY <2>2, RowsCancelled
    <3>2. /\ RowsKept /\ DOMAIN rows' = DOMAIN rows /\ UNCHANGED <<pending, worker>>
          /\ \A i \in DOMAIN rows : rows'[i].status = IF i = job THEN "cancelled" ELSE rows[i].status
      BY <2>2, <3>1, RowsCancelled DEF CancelPrevious
    <3>3. /\ Holds(c, job) /\ ~IsLatest(job) /\ ~Claims(job)
          /\ \A d \in Callers : d # c => ~Holds(d, job)
      BY <2>2, <3>1 DEF CancelPrevious, HeldInv, Holds, Cancels
    <3>4. caller' = [caller EXCEPT ![c] = [caller[c] EXCEPT !.at = "put"]]
      BY <2>2 DEF CancelPrevious
    <3>5. [caller[c] EXCEPT !.at = "put"].at = "put"
      BY DEF TypeOK, CallerStates
    <3>6. \A j \in DOMAIN rows, d \in Callers : Holds(d, j)' => d # c /\ Holds(d, j)
      BY <3>4, <3>5, SameHolders
    <3>7. Free(job)'
      BY <3>2, <3>3, <3>6, SameLatest, SameClaims DEF Free
    <3>8. QED
      BY <3>2, <3>6, <3>7, HeldLess, SameLatest, SameClaims
  <2>3. CASE EnqueueRaises(c) \/ PutJob(c)
    BY <2>3, HeldQuiet DEF EnqueueRaises, PutJob, Idle
  <2>4. CASE WatchSource(c)
    <3>1. caller' = [caller EXCEPT ![c] = [caller[c] EXCEPT !.at = "enqueue"]]
      BY <2>4 DEF WatchSource
    <3>2. [caller[c] EXCEPT !.at = "enqueue"].at = "enqueue"
      BY DEF TypeOK, CallerStates
    <3>3. QED
      BY <2>4, <3>1, <3>2, HeldQuiet DEF WatchSource
  <2>5. CASE DeleteSource(c)
    <3>1. caller' = [caller EXCEPT ![c] = Idle] /\ Idle.at = "idle" /\ UNCHANGED <<pending, worker>>
      BY <2>5 DEF DeleteSource, Idle
    <3>2. \A j \in DOMAIN rows, d \in Callers : Holds(d, j)' => Holds(d, j)
      BY <3>1, SameHolders
    <3>3. caller[c].key[1] \in Sources
      BY <2>5, KeyParts DEF DeleteSource, KeyInv
    <3>4. CASE DeleteRows(caller[c].key[1])
      BY <3>1, <3>2, <3>3, <3>4, HeldDelete
    <3>5. CASE UNCHANGED <<source, rows>>
      BY <3>1, <3>5, HeldQuiet
    <3>6. QED
      BY <2>5, <3>4, <3>5 DEF DeleteSource
  <2>6. QED
    BY <1>1, <2>1, <2>2, <2>3, <2>4, <2>5 DEF CallerStep, EnqueueStep
<1>2. ASSUME NEW c \in Clients, NEW s \in Sources, Request(c, s) PROVE HeldInv'
  <2>1. CASE RequestRescan(c, s) \/ AddSource(c, s) \/ UnwatchSource(c, s)
    BY <1>0, <2>1, Threads DEF RequestRescan, AddSource, UnwatchSource, BeginEnqueue
  <2>2. CASE DeleteGrant(c, s)
    BY <2>2, HeldDelete, SameHolders DEF DeleteGrant
  <2>3. QED
    BY <1>2, <2>1, <2>2 DEF Request
<1>3. ASSUME NEW s \in Sources, NEW operation \in Operations, FileEvent(s, operation) PROVE HeldInv'
  BY <1>0, <1>3, Threads DEF FileEvent, BeginEnqueue
<1>4. ASSUME UNCHANGED <<rows, pending, caller>>, \A j \in DOMAIN rows : ClaimKept(j) PROVE HeldInv'
  <2>1. RowsKept
    BY <1>4 DEF RowsKept, TypeOK
  <2>2. QED
    BY <1>4, <2>1, HeldLess, SameLatest, SameHolders
<1>5. CASE WorkerStep
  <2>1. CASE ClaimJob \/ MarkRunning \/ MarkCompleted \/ MarkFailed
    BY <2>1, HeldClaim, HeldMark
  <2>2. CASE TakeJob \/ SeeStop \/ IndexEnds
    <3>1. \A j \in DOMAIN rows : ClaimKept(j)
      BY <2>2 DEF TakeJob, SeeStop, IndexEnds, ClaimKept, Claims, ClaimedAt, NoJob, TypeOK, WorkerStates
    <3>2. QED
      BY <1>4, <2>2, <3>1 DEF TakeJob, SeeStop, IndexEnds
  <2>3. QED
    BY <1>5, <2>1, <2>2 DEF WorkerStep
<1>6. CASE Started \/ Stop
  BY <1>6, HeldQuiet DEF Started, Stop
<1>7. ASSUME NEW s \in Sources, StartRescan(s) PROVE HeldInv'
  BY <1>0, <1>7, Threads DEF StartRescan, BeginEnqueue
<1>8. CASE Start
  <2>1. UNCHANGED <<pending, caller>> /\ worker' = NoJob /\ \A c \in Callers : caller[c].at = "idle"
    BY <1>8 DEF Start, ProcessInv
  <2>2. /\ RowsKept /\ DOMAIN rows' = DOMAIN rows
        /\ \A i \in DOMAIN rows : rows'[i].status = rows[i].status \/ rows[i].status = "running"
    BY <1>8, RowsRecovered DEF Start
  <2>3. ASSUME NEW j \in DOMAIN rows
        PROVE  /\ IsLatest(j)' <=> IsLatest(j)
               /\ ~Claims(j)' /\ \A c \in Callers : ~Holds(c, j)'
    BY <2>1, <2>2, SameLatest DEF Claims, NoJob, ClaimedAt, Holds, Creates, Cancels
  <2>4. \A j \in DOMAIN rows : rows[j].status = "running" => Free(j)'
    BY <2>3 DEF HeldInv, Free
  <2>5. QED
    BY <2>2, <2>3, <2>4, HeldLess DEF ClaimKept
<1>9. CASE ProcessEnds
  <2>1. RowsKept /\ rows' = rows
    BY <1>9 DEF ProcessEnds, RowsKept, TypeOK
  <2>2. ASSUME NEW j \in DOMAIN rows
        PROVE  ~IsLatest(j)' /\ ~Claims(j)' /\ \A c \in Callers : ~Holds(c, j)'
    <3>1. rows[j].key \in Keys /\ j # None
      BY RowTypes, JobNumbers
    <3>2. QED
      BY <1>9, <2>1, <3>1 DEF ProcessEnds, IsLatest, KeyOf, Claims, NoJob, ClaimedAt, Holds, Creates,
         Cancels, Idle
  <2>3. QED
    BY <2>1, <2>2, HeldLess DEF ClaimKept
<1>10. QED
  BY <1>1, <1>2, <1>3, <1>5, <1>6, <1>7, <1>8, <1>9 DEF Next, StartUp

-----------------------------------------------------------------------------
(* No job is lost.                                                          *)

Waiting(j) ==
  rows[j].status = "queued" /\ rows[j].start = starts /\ KeyOf(j)[1] \in Present

\* In every step but a start a row that waits has waited before, or is new.
LEMMA WaitedBefore ==
  ASSUME TypeOK, ProcessInv, KeyInv, SourceInv, Next, ~Start, NEW j \in DOMAIN rows, Waiting(j)'
  PROVE  Waiting(j)
<1>1. RowsKept /\ rows'[j].key = rows[j].key /\ rows'[j].start = rows[j].start
  BY RowsStep DEF RowsKept
<1>2. /\ rows'[j].status = "queued" /\ rows[j].start = starts'
      /\ rows[j].key[1] \in Sources /\ source'[rows[j].key[1]] = "present"
  BY <1>1 DEF Waiting, Present, KeyOf
<1> SUFFICES rows[j].status = "queued" /\ starts' = starts /\ source[rows[j].key[1]] = "present"
  BY <1>2 DEF Waiting, Present, KeyOf
<1>3. starts' = starts
  BY DEF Next, CallerStep, EnqueueStep, CreateJob, ReplacePending, CancelPrevious, EnqueueRaises,
     PutJob, WatchSource, DeleteSource, Request, RequestRescan, AddSource, UnwatchSource,
     DeleteGrant, FileEvent, WorkerStep, TakeJob, SeeStop, ClaimJob, IndexEnds, MarkRunning,
     MarkCompleted, MarkFailed, Mark, StartUp, Started, StartRescan, Stop, ProcessEnds
<1>4. source[rows[j].key[1]] = "present"
  <2>1. source[rows[j].key[1]] \in {"present", "deleted"}
    BY <1>2 DEF SourceInv, KeyOf, TypeOK
  <2>2. ASSUME UNCHANGED source PROVE source[rows[j].key[1]] = "present"
    BY <1>2, <2>2
  <2>3. ASSUME NEW s \in Sources, DeleteRows(s) PROVE source[rows[j].key[1]] = "present"
    BY <1>2, <2>3 DEF DeleteRows, TypeOK
  <2>4. ASSUME NEW c \in Clients, NEW s \in Sources, AddSource(c, s)
        PROVE  source[rows[j].key[1]] = "present"
    BY <1>2, <2>1, <2>4 DEF AddSource, TypeOK
  <2>5. ASSUME NEW c \in Callers, DeleteSource(c) PROVE source[rows[j].key[1]] = "present"
    <3>1. caller[c].key[1] \in Sources
      BY <2>5, KeyParts DEF DeleteSource, KeyInv
    <3>2. QED
      BY <2>2, <2>3, <2>5, <3>1 DEF DeleteSource
  <2>6. QED
    BY <2>2, <2>3, <2>4, <2>5
       DEF Next, CallerStep, EnqueueStep, CreateJob, ReplacePending, CancelPrevious, EnqueueRaises,
       PutJob, WatchSource, Request, RequestRescan, UnwatchSource,
       DeleteGrant, FileEvent, WorkerStep, TakeJob, SeeStop, ClaimJob, IndexEnds, MarkRunning,
       MarkCompleted, MarkFailed, Mark, StartUp, Started, StartRescan, Stop, ProcessEnds
<1>5. rows[j].status = "queued"
  <2>1. ASSUME UNCHANGED rows PROVE rows[j].status = "queued"
    BY <1>2, <2>1
  <2>2. ASSUME NEW c \in Callers, CallerStep(c) PROVE rows[j].status = "queued"
    <3>1. CASE CreateJob(c)
      BY <1>2, <3>1, RowsCreated
    <3>2. CASE CancelPrevious(c)
      BY <1>2, <3>2, RowsCancelled
    <3>3. CASE DeleteSource(c)
      <4>1. caller[c].key[1] \in Sources
        BY <3>3, KeyParts DEF DeleteSource, KeyInv
      <4>2. QED
        BY <1>2, <2>1, <3>3, <4>1, RowsDeleted DEF DeleteSource
    <3>4. QED
      BY <2>1, <2>2, <3>1, <3>2, <3>3 DEF CallerStep, EnqueueStep, ReplacePending, EnqueueRaises,
         PutJob, WatchSource
  <2>3. ASSUME NEW c \in Clients, NEW s \in Sources, Request(c, s) PROVE rows[j].status = "queued"
    BY <1>2, <2>1, <2>3, RowsDeleted DEF Request, RequestRescan, AddSource, UnwatchSource, DeleteGrant
  <2>4. CASE MarkRunning \/ MarkCompleted \/ MarkFailed
    BY <1>2, <2>4, MarkTypes, RowsMarked DEF MarkRunning, MarkCompleted, MarkFailed, ClaimedAt
  <2>5. CASE WorkerStep
    BY <2>1, <2>4, <2>5 DEF WorkerStep, TakeJob, SeeStop, ClaimJob, IndexEnds
  <2>6. QED
    BY <2>1, <2>2, <2>3, <2>5 DEF Next, FileEvent, StartUp, Started, StartRescan, Stop, ProcessEnds
<1>6. QED
  BY <1>3, <1>4, <1>5

\* A thread about to put job j into the queue; the job in the queue.
InQueue(j) == \E i \in DOMAIN queue : queue[i] = j

\* What it takes for a job to be on its way to the worker.
LEMMA Served ==
  ASSUME NEW j
  PROVE  /\ WillBeServed(j) <=>
              \/ \E c \in Callers : Holds(c, j)
              \/ worker.job = j /\ worker.at \in {"claimed", "failing"}
              \/ IsLatest(j) /\ (\/ InQueue(j)
                                 \/ \E c \in Callers : Queues(c, j)
                                 \/ worker.job = j /\ worker.at = "got")
         /\ WillBeServed(j)' <=>
              \/ \E c \in Callers : Holds(c, j)'
              \/ worker'.job = j /\ worker'.at \in {"claimed", "failing"}
              \/ IsLatest(j)' /\ (\/ InQueue(j)'
                                  \/ \E c \in Callers : Queues(c, j)'
                                  \/ worker'.job = j /\ worker'.at = "got")
<1>1. /\ WillBeServed(j) <=>
              \/ \E c \in Callers : Holds(c, j)
              \/ worker.job = j /\ worker.at \in {"claimed", "failing"}
              \/ IsLatest(j) /\ (\/ InQueue(j)
                                 \/ \E c \in Callers : Queues(c, j)
                                 \/ worker.job = j /\ worker.at = "got")
  BY DEF WillBeServed, Holds, Creates, Cancels, InQueue
<1>2. /\ WillBeServed(j)' <=>
              \/ \E c \in Callers : Holds(c, j)'
              \/ worker'.job = j /\ worker'.at \in {"claimed", "failing"}
              \/ IsLatest(j)' /\ (\/ InQueue(j)'
                                  \/ \E c \in Callers : Queues(c, j)'
                                  \/ worker'.job = j /\ worker'.at = "got")
  BY DEF WillBeServed, Holds, Creates, Cancels, InQueue
<1>3. QED
  BY <1>1, <1>2

\* Steps of threads that have no job in hand.
LEMMA ServedQuiet ==
  ASSUME RowsKept, UNCHANGED <<pending, queue, worker>>,
         \A c \in Callers : caller[c].at \in {"created", "cancel", "put"} => caller'[c] = caller[c],
         NEW j \in DOMAIN rows, WillBeServed(j)
  PROVE  WillBeServed(j)'
<1>1. IsLatest(j)' <=> IsLatest(j)
  BY SameLatest
<1>2. \A c \in Callers : (Holds(c, j) => Holds(c, j)') /\ (Queues(c, j) => Queues(c, j)')
  BY DEF Holds, Creates, Cancels, Queues
<1>3. InQueue(j)' <=> InQueue(j)
  BY DEF InQueue
<1>4. QED
  BY <1>1, <1>2, <1>3, Served

\* Steps of callers leave queued jobs on their way.
LEMMA ServedByCallers ==
  ASSUME TypeOK, ProcessInv, KeyInv, SourceInv, HeldInv, NEW c \in Callers, CallerStep(c),
         NEW j \in DOMAIN rows, Waiting(j), Waiting(j)', WillBeServed(j)
  PROVE  WillBeServed(j)'
<1>1. RowsKept
  BY RowsStep DEF Next
<1>2. ASSUME NEW d \in Callers, d # c
      PROVE  (Holds(d, j)' <=> Holds(d, j)) /\ (Queues(d, j)' <=> Queues(d, j))
  <2>1. caller'[d] = caller[d]
    BY <1>2 DEF CallerStep, EnqueueStep, CreateJob, ReplacePending, CancelPrevious, EnqueueRaises,
       PutJob, WatchSource, DeleteSource, TypeOK
  <2>2. QED
    BY <2>1 DEF Holds, Creates, Cancels, Queues
<1>3. CASE CreateJob(c) \/ WatchSource(c) \/ DeleteSource(c)
  <2>1. caller[c].at \in {"enqueue", "watch", "delete"} /\ UNCHANGED <<pending, queue, worker>>
    BY <1>3 DEF CreateJob, WatchSource, DeleteSource
  <2>2. \A d \in Callers : d # c => caller'[d] = caller[d]
    BY <1>3 DEF CreateJob, WatchSource, DeleteSource, TypeOK
  <2>3. QED
    BY <1>1, <2>1, <2>2, ServedQuiet
<1>4. CASE ReplacePending(c)
  <2> DEFINE previous == pending[caller[c].key]
             at == IF previous = None THEN "put" ELSE "cancel"
  <2>1. UNCHANGED <<queue, worker, rows>> /\ pending' = [pending EXCEPT ![caller[c].key] = caller[c].job]
        /\ caller[c].at = "created"
    BY <1>4 DEF ReplacePending
  <2>2. caller'[c].job = caller[c].job /\ caller'[c].previous = previous /\ caller'[c].at = at
    BY <1>4 DEF ReplacePending, TypeOK, CallerStates
  <2>3. caller[c].key \in Keys /\ caller[c].job \in DOMAIN rows /\ rows[caller[c].job].key = caller[c].key
    BY <2>1 DEF KeyInv, KeyOf
  <2>4. rows[j].key \in Keys /\ j # None
    BY RowTypes, JobNumbers
  <2>5. CASE j = caller[c].job
    <3>1. IsLatest(j)'
      BY <2>1, <2>3, <2>5 DEF IsLatest, KeyOf, TypeOK
    <3>2. Queues(c, j)'
      BY <2>2, <2>5 DEF Queues
    <3>3. QED
      BY <3>1, <3>2, Served
  <2>6. CASE j # caller[c].job
    <3>1. ~Holds(c, j) /\ ~Queues(c, j)
      BY <2>1, <2>6 DEF Holds, Creates, Cancels, Queues
    <3>2. CASE IsLatest(j) /\ rows[j].key = caller[c].key
      <4>1. previous = j /\ Holds(c, j)'
        BY <2>2, <2>4, <3>2 DEF IsLatest, KeyOf, Holds, Cancels
      <4>2. QED
        BY <4>1, Served
    <3>3. CASE IsLatest(j) => rows[j].key # caller[c].key
      <4>1. IsLatest(j) => IsLatest(j)'
        BY <2>1, <2>4, <3>3 DEF IsLatest, KeyOf, TypeOK
      <4>2. InQueue(j)' <=> InQueue(j)
        BY <2>1 DEF InQueue
      <4>3. QED
        BY <1>2, <2>1, <3>1, <4>1, <4>2, Served
    <3>4. QED
      BY <3>2, <3>3
  <2>7. QED
    BY <2>5, <2>6
<1>5. ASSUME UNCHANGED <<pending, worker>>, InQueue(j) => InQueue(j)', ~Holds(c, j),
             Queues(c, j) => Queues(c, j)' \/ InQueue(j)'
      PROVE  WillBeServed(j)'
  <2>1. IsLatest(j)' <=> IsLatest(j)
    BY <1>1, <1>5, SameLatest
  <2>2. QED
    BY <1>2, <1>5, <2>1, Served
<1>6. CASE CancelPrevious(c)
  <2>1. ~Holds(c, j)
    BY <1>6, RowsCancelled DEF CancelPrevious, Holds, Creates, Cancels, Waiting
  <2>2. Queues(c, j) => Queues(c, j)'
    BY <1>6 DEF CancelPrevious, Queues, TypeOK, CallerStates
  <2>3. UNCHANGED <<pending, worker>> /\ (InQueue(j) => InQueue(j)')
    BY <1>6 DEF CancelPrevious, InQueue
  <2>4. QED
    BY <1>5, <2>1, <2>2, <2>3
<1>7. CASE EnqueueRaises(c)
  <2>1. /\ caller[c].at = "cancel" /\ rows[caller[c].previous].status = "deleted"
        /\ rows[caller[c].previous].key = caller[c].key /\ caller[c].previous \in DOMAIN rows
        /\ rows[caller[c].job].key = caller[c].key
    BY <1>7 DEF EnqueueRaises, Exists, KeyInv, KeyOf
  <2>2. source[caller[c].key[1]] = "deleted"
    BY <2>1 DEF SourceInv, KeyOf
  <2>3. rows[j].key # caller[c].key
    BY <2>2 DEF Waiting, Present, KeyOf
  <2>4. ~Holds(c, j) /\ ~Queues(c, j)
    BY <2>1, <2>3 DEF Holds, Creates, Cancels, Queues
  <2>5. UNCHANGED <<pending, worker>> /\ (InQueue(j) => InQueue(j)')
    BY <1>7 DEF EnqueueRaises, InQueue
  <2>6. QED
    BY <1>5, <2>4, <2>5
<1>8. CASE PutJob(c)
  <2>1. caller[c].at = "put" /\ caller[c].job \in Jobs /\ UNCHANGED <<pending, worker>>
    BY <1>8, JobNumbers DEF PutJob, KeyInv
  <2>2. ~Holds(c, j)
    BY <2>1 DEF Holds, Creates, Cancels
  <2>3. (InQueue(j) => InQueue(j)') /\ (Queues(c, j) => InQueue(j)')
    BY <1>8, <2>1, QueueGrown DEF PutJob, InQueue, Queues
  <2>4. QED
    BY <1>5, <2>1, <2>2, <2>3
<1>9. QED
  BY <1>3, <1>4, <1>6, <1>7, <1>8 DEF CallerStep, EnqueueStep

\* Steps of the worker leave queued jobs on their way.
LEMMA ServedByWorker ==
  ASSUME TypeOK, ProcessInv, KeyInv, HeldInv, WorkerStep, process \in {"starting", "up"},
         NEW j \in DOMAIN rows, Waiting(j), Waiting(j)', WillBeServed(j)
  PROVE  WillBeServed(j)'
<1>1. RowsKept /\ UNCHANGED caller /\ j # None /\ j # Sentinel
  BY RowsStep, JobNumbers
     DEF Next, WorkerStep, TakeJob, SeeStop, ClaimJob, IndexEnds, MarkRunning, MarkCompleted,
     MarkFailed, Mark
<1>2. \A c \in Callers : (Holds(c, j)' <=> Holds(c, j)) /\ (Queues(c, j)' <=> Queues(c, j))
  BY <1>1 DEF Holds, Creates, Cancels, Queues
<1>3. CASE TakeJob
  <2>1. IsLatest(j)' <=> IsLatest(j)
    BY <1>1, <1>3, SameLatest DEF TakeJob
  <2>2. worker.at = "idle"
    BY <1>3 DEF TakeJob
  <2>3. InQueue(j) => InQueue(j)' \/ (worker'.job = j /\ worker'.at = "got")
    <3>1. SUFFICES ASSUME NEW i \in DOMAIN queue, queue[i] = j
                   PROVE  InQueue(j)' \/ (worker'.job = j /\ worker'.at = "got")
      BY DEF InQueue
    <3>2. CASE i = 1
      BY <1>1, <1>3, <3>1, <3>2, QueueTail DEF TakeJob
    <3>3. CASE i # 1
      <4>1. i - 1 \in DOMAIN queue' /\ queue'[i - 1] = j
        BY <1>3, <3>1, <3>3, QueueTail DEF TakeJob
      <4>2. QED
        BY <4>1 DEF InQueue
    <3>4. QED
      BY <3>2, <3>3
  <2>4. QED
    BY <1>2, <2>1, <2>2, <2>3, Served
<1>4. ASSUME UNCHANGED queue PROVE InQueue(j)' <=> InQueue(j)
  BY <1>4 DEF InQueue
<1>5. CASE ClaimJob
  <2>1. worker.at = "got" /\ UNCHANGED queue /\ rows' = rows /\ worker.job \in DOMAIN rows
    BY <1>5 DEF ClaimJob, KeyInv
  <2>2. rows[j].key \in Keys
    BY RowTypes
  <2>3. CASE IsLatest(worker.job)
    <3>1. CASE worker.job = j
      <4>1. worker'.job = j /\ worker'.at = "claimed"
        BY <1>5, <2>3, <3>1 DEF ClaimJob, TypeOK, WorkerStates
      <4>2. QED
        BY <4>1, Served
    <3>2. CASE worker.job # j
      <4>1. IsLatest(j) => rows[j].key # rows[worker.job].key
        BY <2>3, <3>2 DEF IsLatest, KeyOf
      <4>2. IsLatest(j) => IsLatest(j)'
        BY <1>5, <2>1, <2>2, <2>3, <4>1 DEF ClaimJob, IsLatest, KeyOf, TypeOK
      <4>3. QED
        BY <1>2, <1>4, <2>1, <3>2, <4>2, Served
    <3>3. QED
      BY <3>1, <3>2
  <2>4. CASE ~IsLatest(worker.job)
    <3>1. UNCHANGED pending
      BY <1>5, <2>4 DEF ClaimJob
    <3>2. IsLatest(j)' <=> IsLatest(j)
      BY <1>1, <3>1, SameLatest
    <3>3. worker.job = j => ~IsLatest(j)
      BY <2>4
    <3>4. QED
      BY <1>2, <1>4, <2>1, <3>2, <3>3, Served
  <2>5. QED
    BY <2>3, <2>4
<1>6. CASE MarkRunning \/ MarkCompleted \/ MarkFailed \/ IndexEnds
  <2>1. UNCHANGED <<pending, queue>> /\ worker.at \in ClaimedAt
    BY <1>6 DEF MarkRunning, MarkCompleted, MarkFailed, Mark, IndexEnds, ClaimedAt
  <2>2. IsLatest(j)' <=> IsLatest(j)
    BY <1>1, <2>1, SameLatest
  <2>3. worker.job # j
    <3>1. CASE IndexEnds
      <4>1. Claims(worker.job) /\ worker.at # "claimed" /\ worker.job \in DOMAIN rows
        BY <2>1, <3>1 DEF IndexEnds, Claims, KeyInv
      <4>2. rows[worker.job].status # "queued"
        BY <4>1 DEF HeldInv
      <4>3. QED
        BY <4>2 DEF Waiting
    <3>2. CASE MarkRunning \/ MarkCompleted \/ MarkFailed
      <4>1. rows'[j].status = "queued" /\ rows[j].status = "queued"
        BY DEF Waiting
      <4>2. QED
        BY <3>2, <4>1, MarkTypes, RowsMarked DEF MarkRunning, MarkCompleted, MarkFailed, ClaimedAt
    <3>3. QED
      BY <1>6, <3>1, <3>2
  <2>4. QED
    BY <1>2, <1>4, <2>1, <2>2, <2>3, Served DEF ClaimedAt
<1>7. QED
  BY <1>3, <1>5, <1>6 DEF WorkerStep, SeeStop

\* Every step leaves queued jobs on their way.
LEMMA NoLossStep ==
  ASSUME IInv, Next
  PROVE  NoJobLost'
<1> USE DEF IInv
<1>1. SUFFICES ASSUME process' \in {"starting", "up"}, NEW j \in DOMAIN rows', Waiting(j)'
               PROVE  WillBeServed(j)'
  BY DEF NoJobLost, Waiting
<1>2. RowsKept
  BY RowsStep
<1>3. CASE j \notin DOMAIN rows
  <2>1. ASSUME DOMAIN rows' = DOMAIN rows PROVE FALSE
    BY <1>1, <1>3, <2>1
  <2>2. PICK c \in Callers : CreateJob(c)
    <3>1. ASSUME NEW c \in Callers, CancelPrevious(c) PROVE FALSE
      BY <2>1, <3>1, RowsCancelled
    <3>2. ASSUME NEW s \in Sources, DeleteRows(s) PROVE FALSE
      BY <2>1, <3>2, RowsDeleted
    <3>3. ASSUME NEW c \in Callers, DeleteSource(c) PROVE FALSE
      <4>1. caller[c].key[1] \in Sources
        BY <3>3, KeyParts DEF DeleteSource, KeyInv
      <4>2. QED
        BY <2>1, <3>2, <3>3, <4>1 DEF DeleteSource
    <3>4. CASE MarkRunning \/ MarkCompleted \/ MarkFailed
      BY <2>1, <3>4, MarkTypes, RowsMarked DEF MarkRunning, MarkCompleted, MarkFailed, ClaimedAt
    <3>5. CASE Start
      BY <2>1, <3>5, RowsRecovered DEF Start
    <3>6. ASSUME UNCHANGED rows PROVE FALSE
      BY <2>1, <3>6
    <3>7. QED
      BY <3>1, <3>2, <3>3, <3>4, <3>5, <3>6
         DEF Next, CallerStep, EnqueueStep, ReplacePending, EnqueueRaises, PutJob, WatchSource,
         Request, RequestRescan, AddSource, UnwatchSource, DeleteGrant, FileEvent, WorkerStep,
         TakeJob, SeeStop, ClaimJob, IndexEnds, StartUp, Started, StartRescan, Stop, ProcessEnds
  <2>3. j = Len(rows) + 1
    BY <1>1, <1>3, <2>2, RowsCreated
  <2>4. Holds(c, j)'
    BY <2>2, <2>3 DEF CreateJob, Holds, Creates, TypeOK, CallerStates
  <2>5. QED
    BY <2>4, Served
<1>4. CASE Start
  <2>1. j \in DOMAIN rows /\ rows'[j].start = rows[j].start /\ starts' = starts + 1
    BY <1>1, <1>4, RowsRecovered DEF Start, RowsKept
  <2>2. rows[j].start <= starts /\ starts \in Nat /\ rows[j].start \in Nat
    BY <2>1, RowTypes DEF ProcessInv, TypeOK
  <2>3. rows'[j].start # starts'
    BY <2>1, <2>2
  <2>4. QED
    BY <1>1, <2>3 DEF Waiting
<1>5. CASE j \in DOMAIN rows /\ ~Start
  <2>1. Waiting(j)
    BY <1>1, <1>5, WaitedBefore
  <2>2. process \in {"starting", "up"}
    BY <1>1, <1>5 DEF Next, CallerStep, EnqueueStep, CreateJob, ReplacePending, CancelPrevious,
       EnqueueRaises, PutJob, WatchSource, DeleteSource, Request, RequestRescan, AddSource,
       UnwatchSource, DeleteGrant, FileEvent, WorkerStep, TakeJob, SeeStop, ClaimJob, IndexEnds,
       MarkRunning, MarkCompleted, MarkFailed, Mark, StartUp, Started, StartRescan, Stop,
       ProcessEnds
  <2>3. WillBeServed(j)
    BY <1>5, <2>1, <2>2 DEF NoJobLost, Waiting
  <2>4. ASSUME NEW c \in Callers, CallerStep(c) PROVE WillBeServed(j)'
    BY <1>1, <1>5, <2>1, <2>3, <2>4, ServedByCallers
  <2>5. CASE WorkerStep
    BY <1>1, <1>5, <2>1, <2>2, <2>3, <2>5, ServedByWorker
  <2>6. ASSUME NEW c \in Callers, NEW new, caller[c].at = "idle",
               caller' = [caller EXCEPT ![c] = new], UNCHANGED <<pending, queue, worker>>
        PROVE  WillBeServed(j)'
    <3>1. \A d \in Callers : d # c => caller'[d] = caller[d]
      BY <2>6 DEF TypeOK
    <3>2. QED
      BY <1>2, <1>5, <2>3, <2>6, <3>1, ServedQuiet
  <2>7. ASSUME NEW c \in Clients, NEW s \in Sources, Request(c, s) PROVE WillBeServed(j)'
    <3>1. CASE RequestRescan(c, s) \/ AddSource(c, s) \/ UnwatchSource(c, s)
      BY <2>6, <3>1, Threads DEF RequestRescan, AddSource, UnwatchSource, BeginEnqueue, Serves
    <3>2. CASE DeleteGrant(c, s)
      BY <1>2, <1>5, <2>3, <3>2, ServedQuiet DEF DeleteGrant
    <3>3. QED
      BY <2>7, <3>1, <3>2 DEF Request
  <2>8. ASSUME NEW s \in Sources, NEW operation \in Operations, FileEvent(s, operation)
        PROVE  WillBeServed(j)'
    BY <2>6, <2>8, Threads DEF FileEvent, BeginEnqueue
  <2>9. ASSUME NEW s \in Sources, StartRescan(s) PROVE WillBeServed(j)'
    BY <2>6, <2>9, Threads DEF StartRescan, BeginEnqueue
  <2>10. CASE Started
    BY <1>2, <1>5, <2>3, <2>10, ServedQuiet DEF Started
  <2>11. QED
    BY <1>1, <1>5, <2>4, <2>5, <2>7, <2>8, <2>9, <2>10 DEF Next, StartUp, Stop, ProcessEnds
<1>6. QED
  BY <1>3, <1>4, <1>5

-----------------------------------------------------------------------------
(* What runs and what has ended.                                            *)

\* Every step keeps what is known of running jobs.
LEMMA RunningStep ==
  ASSUME TypeOK, ProcessInv, KeyInv, HeldInv, RunningIsExecuted, Next
  PROVE  RunningIsExecuted'
<1> DEFINE Executed(j) ==
             \/ process = "down"
             \/ worker.job = j /\ worker.at \in {"indexing", "indexed", "failing"}
           Executes(j) ==
             \/ process' = "down"
             \/ worker'.job = j /\ worker'.at \in {"indexing", "indexed", "failing"}
<1> SUFFICES ASSUME NEW j \in DOMAIN rows', rows'[j].status = "running"
             PROVE  Executes(j)
  BY DEF RunningIsExecuted
<1>1. ASSUME UNCHANGED worker, j \in DOMAIN rows, rows[j].status = "running", process = "down" => process' = "down"
      PROVE  Executes(j)
  BY <1>1 DEF RunningIsExecuted
<1>2. ASSUME NEW c \in Callers, CallerStep(c) PROVE Executes(j)
  <2>1. UNCHANGED <<worker, process>>
    BY <1>2 DEF CallerStep, EnqueueStep, CreateJob, ReplacePending, CancelPrevious, EnqueueRaises,
       PutJob, WatchSource, DeleteSource
  <2>2. j \in DOMAIN rows /\ rows[j].status = "running"
    <3>1. CASE CreateJob(c)
      <4>1. /\ DOMAIN rows' = DOMAIN rows \cup {Len(rows) + 1} /\ \A i \in DOMAIN rows : rows'[i] = rows[i]
            /\ rows'[Len(rows) + 1] = [key |-> caller[c].key, status |-> "queued", start |-> starts]
        BY <3>1, RowsCreated
      <4>2. rows'[Len(rows) + 1].status = "queued"
        BY <4>1
      <4>3. QED
        BY <4>1, <4>2
    <3>2. CASE CancelPrevious(c)
      BY <3>2, RowsCancelled
    <3>3. CASE DeleteSource(c)
      <4>1. caller[c].key[1] \in Sources
        BY <3>3, KeyParts DEF DeleteSource, KeyInv
      <4>2. QED
        BY <3>3, <4>1, RowsDeleted DEF DeleteSource
    <3>4. QED
      BY <1>2, <3>1, <3>2, <3>3 DEF CallerStep, EnqueueStep, ReplacePending, EnqueueRaises, PutJob, WatchSource
  <2>3. QED
    BY <1>1, <2>1, <2>2
<1>3. ASSUME NEW c \in Clients, NEW s \in Sources, Request(c, s) PROVE Executes(j)
  <2>1. j \in DOMAIN rows /\ rows[j].status = "running"
    BY <1>3, RowsDeleted DEF Request, RequestRescan, AddSource, UnwatchSource, DeleteGrant
  <2>2. QED
    BY <1>1, <1>3, <2>1 DEF Request, RequestRescan, AddSource, UnwatchSource, DeleteGrant
<1>4. ASSUME NEW s \in Sources, NEW operation \in Operations, FileEvent(s, operation) PROVE Executes(j)
  BY <1>1, <1>4 DEF FileEvent
<1>5. CASE WorkerStep
  <2>1. process' = process /\ worker.at # "exited"
    BY <1>5 DEF WorkerStep, TakeJob, SeeStop, ClaimJob, IndexEnds, MarkRunning, MarkCompleted,
       MarkFailed, Mark
  <2>2. process # "down"
    BY <2>1 DEF ProcessInv
  <2>3. CASE MarkRunning \/ MarkCompleted \/ MarkFailed
    <3>1. j \in DOMAIN rows /\ worker.job \in DOMAIN rows
      BY <2>3, MarkTypes, RowsMarked DEF MarkRunning, MarkCompleted, MarkFailed, ClaimedAt
    <3>2. j # worker.job => rows[j].status = "running"
      BY <2>3, <3>1, MarkTypes, RowsMarked DEF MarkRunning, MarkCompleted, MarkFailed, ClaimedAt
    <3>3. j = worker.job
      BY <2>2, <3>1, <3>2 DEF RunningIsExecuted
    <3>4. CASE MarkRunning
      BY <2>3, <3>3, <3>4, MarkTypes, RowsMarked DEF MarkRunning, ClaimedAt, TypeOK, WorkerStates
    <3>5. CASE MarkCompleted \/ MarkFailed
      BY <2>3, <3>3, <3>5, MarkTypes, RowsMarked DEF MarkCompleted, MarkFailed, ClaimedAt
    <3>6. QED
      BY <2>3, <3>4, <3>5
  <2>4. CASE TakeJob \/ SeeStop \/ ClaimJob \/ IndexEnds
    <3>1. j \in DOMAIN rows /\ rows[j].status = "running"
      BY <2>4 DEF TakeJob, SeeStop, ClaimJob, IndexEnds
    <3>2. worker.job = j /\ worker.at \in {"indexing", "indexed", "failing"}
      BY <2>2, <3>1 DEF RunningIsExecuted
    <3>3. QED
      BY <2>4, <3>2 DEF TakeJob, SeeStop, ClaimJob, IndexEnds, TypeOK, WorkerStates
  <2>5. QED
    BY <1>5, <2>3, <2>4 DEF WorkerStep
<1>6. CASE StartUp \/ Stop
  BY <1>1, <1>6 DEF StartUp, Started, StartRescan, Stop
<1>7. CASE Start
  BY <1>7, RowsRecovered DEF Start
<1>8. CASE ProcessEnds
  BY <1>8 DEF ProcessEnds
<1>9. QED
  BY <1>2, <1>3, <1>4, <1>5, <1>6, <1>7, <1>8 DEF Next

\* No step reopens a finished row.
LEMMA FinishedStep ==
  ASSUME TypeOK, ProcessInv, KeyInv, HeldInv, Next, NEW j \in DOMAIN rows, rows[j].status \in Finished
  PROVE  rows'[j].status \in {rows[j].status, "deleted"}
<1>1. rows[j].status \notin {"queued", "running", "deleted"}
  BY DEF Finished
<1>2. ASSUME UNCHANGED rows PROVE rows'[j].status = rows[j].status
  BY <1>2
<1>3. ASSUME NEW c \in Callers, CallerStep(c) PROVE rows'[j].status \in {rows[j].status, "deleted"}
  <2>1. CASE CreateJob(c)
    BY <2>1, RowsCreated
  <2>2. CASE CancelPrevious(c)
    <3>1. Holds(c, caller[c].previous) /\ caller[c].previous \in DOMAIN rows
      BY <2>2, RowsCancelled DEF CancelPrevious, Holds, Cancels
    <3>2. j # caller[c].previous
      BY <1>1, <3>1 DEF HeldInv
    <3>3. QED
      BY <2>2, <3>2, RowsCancelled
  <2>3. CASE DeleteSource(c)
    <3>1. caller[c].key[1] \in Sources
      BY <2>3, KeyParts DEF DeleteSource, KeyInv
    <3>2. QED
      BY <1>2, <2>3, <3>1, RowsDeleted DEF DeleteSource
  <2>4. QED
    BY <1>2, <1>3, <2>1, <2>2, <2>3 DEF CallerStep, EnqueueStep, ReplacePending, EnqueueRaises,
       PutJob, WatchSource
<1>4. ASSUME NEW c \in Clients, NEW s \in Sources, Request(c, s)
      PROVE  rows'[j].status \in {rows[j].status, "deleted"}
  BY <1>2, <1>4, RowsDeleted DEF Request, RequestRescan, AddSource, UnwatchSource, DeleteGrant
<1>5. CASE MarkRunning \/ MarkCompleted \/ MarkFailed
  <2>1. worker.job \in DOMAIN rows /\ Claims(worker.job)
    BY <1>5, MarkTypes DEF MarkRunning, MarkCompleted, MarkFailed, Mark, ClaimedAt, Claims
  <2>2. j # worker.job
    BY <1>1, <2>1 DEF HeldInv
  <2>3. QED
    BY <1>5, <2>2, MarkTypes, RowsMarked DEF MarkRunning, MarkCompleted, MarkFailed, ClaimedAt
<1>6. CASE WorkerStep
  BY <1>2, <1>5, <1>6 DEF WorkerStep, TakeJob, SeeStop, ClaimJob, IndexEnds
<1>7. CASE Start
  BY <1>1, <1>7, RowsRecovered DEF Start
<1>8. QED
  BY <1>2, <1>3, <1>4, <1>6, <1>7 DEF Next, FileEvent, StartUp, Started, StartRescan, Stop, ProcessEnds

-----------------------------------------------------------------------------
(* The theorems.                                                            *)

\* The first state satisfies the invariant.
LEMMA InitIInv == Init => IInv
<1> SUFFICES ASSUME Init PROVE IInv
  OBVIOUS
<1> USE DEF Init
<1>1. TypeOK
  <2>1. Idle \in CallerStates /\ [NoJob EXCEPT !.at = "exited"] \in WorkerStates
    BY DEF Idle, NoJob, CallerStates, WorkerStates
  <2>2. rows \in Seq(JobRows) /\ Len(rows) <= MaxJobs /\ queue \in Seq(Jobs \cup {Sentinel})
    BY IndexConstants
  <2>3. starts \in 0 .. MaxStarts
    BY IndexConstants
  <2>4. caller \in [Callers -> CallerStates] /\ pending \in [Keys -> Jobs \cup {None}]
    BY <2>1
  <2>5. QED
    BY <2>1, <2>2, <2>3, <2>4 DEF TypeOK
<1>2. DOMAIN rows = {} /\ DOMAIN queue = {}
  OBVIOUS
<1>3. worker.at = "exited" /\ \A c \in Callers : caller[c].at = "idle"
  BY DEF NoJob, Idle
<1>4. \A k \in Keys : pending[k] = None
  OBVIOUS
<1>5. QED
  BY <1>1, <1>2, <1>3, <1>4
     DEF IInv, ProcessInv, KeyInv, SourceInv, HeldInv, NoJobLost, RunningIsExecuted, ClaimedAt

\* Every step keeps the invariant.
LEMMA NextIInv == IInv /\ [Next]_vars => IInv'
<1> SUFFICES ASSUME IInv, [Next]_vars PROVE IInv'
  OBVIOUS
<1>1. CASE Next
  BY <1>1, TypeStep, ProcessStep, KeyStep, SourceStep, HeldStep, NoLossStep, RunningStep DEF IInv
<1>2. CASE UNCHANGED vars
  <2>1. TypeOK' /\ ProcessInv' /\ KeyInv'
    BY <1>2 DEF IInv, vars, TypeOK, ProcessInv, KeyInv, KeyOf
  <2>2. SourceInv' /\ HeldInv' /\ RunningIsExecuted'
    BY <1>2 DEF IInv, vars, SourceInv, HeldInv, RunningIsExecuted, IsLatest, Claims, Holds,
       Creates, Cancels, KeyOf
  <2>3. NoJobLost'
    BY <1>2 DEF IInv, vars, NoJobLost, WillBeServed, Queues, IsLatest, Present, KeyOf
  <2>4. QED
    BY <2>1, <2>2, <2>3 DEF IInv
<1>3. QED
  BY <1>1, <1>2

\* Every reachable state of the queue satisfies the invariant: at most one
\* thread may write the row of a job that is neither pending nor ended.
THEOREM Invariant == Spec => []IInv
<1>1. QED
  BY InitIInv, NextIInv, PTL DEF Spec

\* The state of queue, rows and threads has its types.
THEOREM TypeCorrect == Spec => []TypeOK
<1>1. IInv => TypeOK
  BY DEF IInv
<1>2. QED
  BY <1>1, Invariant, PTL

\* enqueue and _run lose no job, for any number of threads that enqueue,
\* delete sources and fail in between.
THEOREM NoLoss == Spec => []NoJobLost
<1>1. IInv => NoJobLost
  BY DEF IInv
<1>2. QED
  BY <1>1, Invariant, PTL

\* What the worker has claimed is not cancelled any more.
THEOREM ClaimIsSafe == Spec => []ClaimedNotCancelled
<1>1. IInv => ClaimedNotCancelled
  <2> SUFFICES ASSUME IInv, worker.at \in ClaimedAt
               PROVE  rows[worker.job].status # "cancelled"
    BY DEF ClaimedNotCancelled, ClaimedAt
  <2>1. worker.job \in DOMAIN rows /\ Claims(worker.job)
    BY DEF IInv, KeyInv, Claims
  <2>2. QED
    BY <2>1 DEF IInv, HeldInv
<1>2. QED
  BY <1>1, Invariant, PTL

\* A row says "running" only while the worker executes its job.
THEOREM RunningIsTrue == Spec => []RunningIsExecuted
<1>1. IInv => RunningIsExecuted
  BY DEF IInv
<1>2. QED
  BY <1>1, Invariant, PTL

\* A row that has ended is not reopened by a late cancellation, by the worker
\* or by the recovery at a start.
THEOREM EndIsFinal == Spec => FinishedStays
<1>1. IInv /\ [Next]_vars =>
        [\A j \in DOMAIN rows :
           rows[j].status \in Finished => rows'[j].status \in {rows[j].status, "deleted"}]_vars
  BY FinishedStep DEF IInv
<1>2. QED
  BY <1>1, Invariant, PTL DEF Spec, FinishedStays
=============================================================================
