------------------------------ MODULE IndexJobs ------------------------------
(***************************************************************************)
(* The queue of background indexing jobs of poppy/features/index_watcher.py *)
(* and the rows of index_jobs that report on it (poppy/storage/database.py):*)
(* enqueue() called by the folder observer and by requests, the debouncing  *)
(* of jobs with the same key, the worker thread, sources added and deleted, *)
(* and the process that stops, crashes and starts again.                    *)
(*                                                                          *)
(* What a job does to the documents is left out: it succeeds or it raises.  *)
(* A key of the code is (source, path, operation): Keys keeps one path per  *)
(* source and operation.  Each database call is one transaction and one     *)
(* step; so is each block under the watcher's lock.                         *)
(***************************************************************************)
EXTENDS Naturals, Sequences

CONSTANTS
  Sources,    \* identifiers of library_sources rows; a uuid is never used again
  Operations, \* of a job: "rescan", and what file events ask for
  Clients,    \* threads that serve requests
  MaxJobs,    \* bound: index_jobs rows created in a behaviour
  MaxStarts,  \* bound: times the process starts
  None

ASSUME IndexConstants ==
  /\ MaxJobs \in Nat \ {0} /\ MaxStarts \in Nat \ {0}
  /\ "rescan" \in Operations /\ Operations \subseteq {"rescan", "upsert", "delete"}
  /\ Clients \cap {"observer", "main"} = {}
  /\ None \notin 1..MaxJobs

VARIABLES
  source,   \* library_sources: "absent", "present" or "deleted"
  watched,  \* LibraryIndexWatcher.watches
  rows,     \* index_jobs, in order of creation; `start` is not a column
  pending,  \* LibraryIndexWatcher.pending: key -> the job of its last enqueue
  queue,    \* LibraryIndexWatcher.queue
  caller,   \* the threads inside enqueue, add_source or delete_library_source
  worker,   \* the poppy-library-indexer thread
  process,  \* the process: "down", "starting", "up" or "stopping" (stop_event)
  toScan,   \* the sources start() has still to enqueue
  observing,\* the observer thread is alive
  starts    \* how often the process has started

vars == <<source, watched, rows, pending, queue, caller, worker, process,
          toScan, observing, starts>>

Keys == Sources \X Operations
Jobs == 1..MaxJobs
Callers == Clients \cup {"observer", "main"}
Finished == {"completed", "failed", "cancelled"}
Statuses == Finished \cup {"queued", "running", "deleted"}
Present == {s \in Sources : source[s] = "present"}

Sentinel == 0   \* the item stop() puts
Idle == [at |-> "idle", key |-> None, job |-> None, previous |-> None]
NoJob == [at |-> "idle", job |-> None]

Exists(j) == rows[j].status # "deleted"
KeyOf(j) == rows[j].key

Init ==
  /\ source \in [Sources -> {"absent", "present"}]
  /\ watched = {} /\ rows = <<>>
  /\ pending = [k \in Keys |-> None] /\ queue = <<>>
  /\ caller = [c \in Callers |-> Idle] /\ worker = [NoJob EXCEPT !.at = "exited"]
  /\ process = "down" /\ toScan = {} /\ observing = FALSE /\ starts = 0

-----------------------------------------------------------------------------
(* index_jobs *)

(* update_index_job: KeyError, hence no step, when the row is gone. *)
UpdateJob(j, status) == rows' = [rows EXCEPT ![j].status = status]

(* mutant: nothing is recovered *)
RecoveredNothing == rows

(* recover_interrupted_index_jobs *)
Recovered ==
  [j \in DOMAIN rows |->
     IF rows[j].status = "running" THEN [rows[j] EXCEPT !.status = "queued"]
                                   ELSE rows[j]]

(* delete_library_source: one transaction takes the source and its rows. *)
DeleteRows(s) ==
  /\ source' = [source EXCEPT ![s] = "deleted"]
  /\ rows' = [j \in DOMAIN rows |->
                IF KeyOf(j)[1] = s THEN [rows[j] EXCEPT !.status = "deleted"]
                                   ELSE rows[j]]

-----------------------------------------------------------------------------
(* enqueue *)

BeginEnqueue(c, k) ==
  caller' = [caller EXCEPT ![c] = [Idle EXCEPT !.at = "enqueue", !.key = k]]

CreateJob(c) ==
  /\ caller[c].at = "enqueue" /\ Len(rows) < MaxJobs
  /\ rows' = Append(rows, [key |-> caller[c].key, status |-> "queued", start |-> starts])
  /\ caller' = [caller EXCEPT ![c].at = "created", ![c].job = Len(rows) + 1]
  /\ UNCHANGED <<source, watched, pending, queue, worker, process, toScan, observing, starts>>

(* mutant: the job that was pending first stays, and is cancelled *)
ReplaceKeepsFirst(c) ==
  LET previous == pending[caller[c].key]
  IN  /\ caller[c].at = "created"
      /\ pending' = [pending EXCEPT ![caller[c].key] =
                       IF previous = None THEN caller[c].job ELSE previous]
      /\ caller' = [caller EXCEPT ![c].previous = previous,
                                  ![c].at = IF previous = None THEN "put" ELSE "cancel"]
      /\ UNCHANGED <<source, watched, rows, queue, worker, process, toScan, observing, starts>>

(* under the lock: the new job replaces the pending one of its key *)
ReplacePending(c) ==
  LET previous == pending[caller[c].key]
  IN  /\ caller[c].at = "created"
      /\ pending' = [pending EXCEPT ![caller[c].key] = caller[c].job]
      /\ caller' = [caller EXCEPT ![c].previous = previous,
                                  ![c].at = IF previous = None THEN "put" ELSE "cancel"]
      /\ UNCHANGED <<source, watched, rows, queue, worker, process, toScan, observing, starts>>

CancelPrevious(c) ==
  /\ caller[c].at = "cancel" /\ Exists(caller[c].previous)
  /\ UpdateJob(caller[c].previous, "cancelled")
  /\ caller' = [caller EXCEPT ![c].at = "put"]
  /\ UNCHANGED <<source, watched, pending, queue, worker, process, toScan, observing, starts>>

(* The row of the previous job is gone: the KeyError leaves enqueue before   *)
(* the put.  It ends a request; in the observer's dispatch it ends the thread. *)
EnqueueRaises(c) ==
  /\ caller[c].at = "cancel" /\ ~Exists(caller[c].previous)
  /\ caller' = [caller EXCEPT ![c] = Idle]
  /\ observing' = (observing /\ c # "observer")
  /\ UNCHANGED <<source, watched, rows, pending, queue, worker, process, toScan, starts>>

PutJob(c) ==
  /\ caller[c].at = "put"
  /\ queue' = Append(queue, caller[c].job)
  /\ caller' = [caller EXCEPT ![c] = Idle]
  /\ UNCHANGED <<source, watched, rows, pending, worker, process, toScan, observing, starts>>

(* _SourceHandler: an event in a watched folder *)
FileEvent(s, operation) ==
  /\ observing /\ s \in watched /\ caller["observer"].at = "idle"
  /\ operation # "rescan" /\ Len(rows) < MaxJobs
  /\ BeginEnqueue("observer", <<s, operation>>)
  /\ UNCHANGED <<source, watched, rows, pending, queue, worker, process, toScan, observing, starts>>

-----------------------------------------------------------------------------
(* Requests.  DesktopController enqueues while the watcher is running. *)

WatcherRunning == process \in {"up", "stopping"} /\ worker.at \notin {"dead", "exited"}
Serves(c) == process \in {"up", "stopping"} /\ c \in Clients /\ caller[c].at = "idle"

(* reindex_library *)
RequestRescan(c, s) ==
  /\ Serves(c) /\ WatcherRunning /\ s \in Present /\ Len(rows) < MaxJobs
  /\ BeginEnqueue(c, <<s, "rescan">>)
  /\ UNCHANGED <<source, watched, rows, pending, queue, worker, process, toScan, observing, starts>>

(* add_library_source, add_grant: the row, then the watch, then the rescan. *)
AddSource(c, s) ==
  /\ Serves(c) /\ WatcherRunning /\ source[s] # "deleted" /\ Len(rows) < MaxJobs
  /\ source' = [source EXCEPT ![s] = "present"]
  /\ caller' = [caller EXCEPT ![c] = [Idle EXCEPT !.at = "watch", !.key = <<s, "rescan">>]]
  /\ UNCHANGED <<watched, rows, pending, queue, worker, process, toScan, observing, starts>>

WatchSource(c) ==
  LET s == caller[c].key[1]
  IN  /\ caller[c].at = "watch"
      /\ watched' = IF s \in Present THEN watched \cup {s} ELSE watched
      /\ caller' = [caller EXCEPT ![c].at = "enqueue"]
      /\ UNCHANGED <<source, rows, pending, queue, worker, process, toScan, observing, starts>>

(* delete_library_source: the watch, then the rows. *)
UnwatchSource(c, s) ==
  /\ Serves(c) /\ s \in Present
  /\ watched' = watched \ {s}
  /\ caller' = [caller EXCEPT ![c] = [Idle EXCEPT !.at = "delete", !.key = <<s, "rescan">>]]
  /\ UNCHANGED <<source, rows, pending, queue, worker, process, toScan, observing, starts>>

DeleteSource(c) ==
  LET s == caller[c].key[1]
  IN  /\ caller[c].at = "delete"
      /\ IF s \in Present THEN DeleteRows(s) ELSE UNCHANGED <<source, rows>>
      /\ caller' = [caller EXCEPT ![c] = Idle]
      /\ UNCHANGED <<watched, pending, queue, worker, process, toScan, observing, starts>>

(* delete_grant deletes the source and leaves its watch. *)
DeleteGrant(c, s) ==
  /\ Serves(c) /\ s \in Present
  /\ DeleteRows(s)
  /\ UNCHANGED <<watched, pending, queue, caller, worker, process, toScan, observing, starts>>

-----------------------------------------------------------------------------
(* _run *)

TakeJob ==
  /\ worker.at = "idle" /\ queue # <<>>
  /\ queue' = Tail(queue)
  /\ worker' = IF Head(queue) = Sentinel THEN [NoJob EXCEPT !.at = "exited"]
                                       ELSE [at |-> "got", job |-> Head(queue)]
  /\ UNCHANGED <<source, watched, rows, pending, caller, process, toScan, observing, starts>>

(* stop_event is seen at the top of the loop and in the wait for the due time *)
SeeStop ==
  /\ process = "stopping"
  /\ \/ worker.at = "idle"
     \/ worker.at = "got" /\ KeyOf(worker.job)[2] # "rescan"
  /\ worker' = [NoJob EXCEPT !.at = "exited"]
  /\ UNCHANGED <<source, watched, rows, pending, queue, caller, process, toScan, observing, starts>>

IsLatest(j) == pending[KeyOf(j)] = j

(* mutant: the claimed job stays pending *)
ClaimKeepsPending ==
  /\ worker.at = "got"
  /\ worker' = IF IsLatest(worker.job) THEN [worker EXCEPT !.at = "claimed"] ELSE NoJob
  /\ UNCHANGED <<source, watched, rows, pending, queue, caller, process, toScan, observing, starts>>

(* under the lock: a job that was replaced is skipped *)
ClaimJob ==
  /\ worker.at = "got"
  /\ IF IsLatest(worker.job)
     THEN /\ pending' = [pending EXCEPT ![KeyOf(worker.job)] = None]
          /\ worker' = [worker EXCEPT !.at = "claimed"]
     ELSE worker' = NoJob /\ UNCHANGED pending
  /\ UNCHANGED <<source, watched, rows, queue, caller, process, toScan, observing, starts>>

(* update_index_job of the worker in its state `from`, and where it goes when *)
(* the row is gone: to the handler, or out of the thread.                     *)
Mark(from, status, to, missing) ==
  /\ worker.at = from
  /\ IF Exists(worker.job)
     THEN UpdateJob(worker.job, status) /\ worker' = to
     ELSE worker' = [worker EXCEPT !.at = missing] /\ UNCHANGED rows
  /\ UNCHANGED <<source, watched, pending, queue, caller, process, toScan, observing, starts>>

MarkRunning == Mark("claimed", "running", [worker EXCEPT !.at = "indexing"], "failing")
MarkCompleted == Mark("indexed", "completed", NoJob, "failing")
MarkFailed == Mark("failing", "failed", NoJob, "dead")

(* reindex, remove_path or index_path returns, reports a failure or raises *)
IndexEnds ==
  /\ worker.at = "indexing"
  /\ \E at \in {"indexed", "failing"} : worker' = [worker EXCEPT !.at = at]
  /\ UNCHANGED <<source, watched, rows, pending, queue, caller, process, toScan, observing, starts>>

-----------------------------------------------------------------------------
(* The process *)

Start ==
  /\ process = "down" /\ starts < MaxStarts
  /\ process' = "starting" /\ starts' = starts + 1
  /\ rows' = Recovered
  /\ watched' = Present /\ toScan' = Present /\ observing' = TRUE
  /\ worker' = NoJob
  /\ UNCHANGED <<source, pending, queue, caller>>

StartRescan(s) ==
  /\ process = "starting" /\ s \in toScan /\ caller["main"].at = "idle"
  /\ Len(rows) < MaxJobs
  /\ toScan' = toScan \ {s}
  /\ BeginEnqueue("main", <<s, "rescan">>)
  /\ UNCHANGED <<source, watched, rows, pending, queue, worker, process, observing, starts>>

Started ==
  /\ process = "starting" /\ toScan = {} /\ caller["main"].at = "idle"
  /\ process' = "up"
  /\ UNCHANGED <<source, watched, rows, pending, queue, caller, worker, toScan, observing, starts>>

(* stop: stop_event, the sentinel, and no more events from the folders *)
Stop ==
  /\ process = "up"
  /\ process' = "stopping" /\ queue' = Append(queue, Sentinel) /\ observing' = FALSE
  /\ UNCHANGED <<source, watched, rows, pending, caller, worker, toScan, starts>>

(* The process ends, after stop or by a crash: only the database is left. *)
ProcessEnds ==
  /\ process # "down"
  /\ process' = "down" /\ watched' = {} /\ toScan' = {} /\ observing' = FALSE
  /\ pending' = [k \in Keys |-> None] /\ queue' = <<>>
  /\ caller' = [c \in Callers |-> Idle] /\ worker' = [NoJob EXCEPT !.at = "exited"]
  /\ UNCHANGED <<source, rows, starts>>

-----------------------------------------------------------------------------
EnqueueStep(c) ==
  CreateJob(c) \/ ReplacePending(c) \/ CancelPrevious(c) \/ EnqueueRaises(c) \/ PutJob(c)

CallerStep(c) == EnqueueStep(c) \/ WatchSource(c) \/ DeleteSource(c)

WorkerStep ==
  TakeJob \/ SeeStop \/ ClaimJob \/ MarkRunning \/ IndexEnds \/ MarkCompleted \/ MarkFailed

Request(c, s) ==
  RequestRescan(c, s) \/ AddSource(c, s) \/ UnwatchSource(c, s) \/ DeleteGrant(c, s)

StartUp == Started \/ \E s \in Sources : StartRescan(s)

Next ==
  \/ \E c \in Callers : CallerStep(c)
  \/ \E c \in Clients, s \in Sources : Request(c, s)
  \/ \E s \in Sources, operation \in Operations : FileEvent(s, operation)
  \/ WorkerStep \/ StartUp \/ Start \/ Stop \/ ProcessEnds

Spec == Init /\ [][Next]_vars

(* A thread that can step steps.  Nothing obliges a request, a file event, a *)
(* stop, a crash or a start to happen.                                       *)
FairSpec ==
  Spec /\ WF_vars(WorkerStep) /\ WF_vars(StartUp) /\ \A c \in Callers : WF_vars(CallerStep(c))

-----------------------------------------------------------------------------
JobRows == [key : Keys, status : Statuses, start : 1..MaxStarts]
CallerStates ==
  [at : {"idle", "watch", "delete", "enqueue", "created", "cancel", "put"},
   key : Keys \cup {None}, job : Jobs \cup {None}, previous : Jobs \cup {None}]
WorkerStates ==
  [at : {"idle", "got", "claimed", "indexing", "indexed", "failing", "dead", "exited"},
   job : Jobs \cup {None}]

(* The values the state may take. *)
TypeOK ==
  /\ source \in [Sources -> {"absent", "present", "deleted"}]
  /\ watched \subseteq Sources /\ toScan \subseteq Sources
  /\ rows \in Seq(JobRows) /\ Len(rows) <= MaxJobs
  /\ pending \in [Keys -> Jobs \cup {None}]
  /\ queue \in Seq(Jobs \cup {Sentinel})
  /\ caller \in [Callers -> CallerStates]
  /\ worker \in WorkerStates
  /\ process \in {"down", "starting", "up", "stopping"}
  /\ observing \in BOOLEAN /\ starts \in 0..MaxStarts

Queues(c, j) == caller[c].job = j /\ caller[c].at \in {"cancel", "put"}

(* A job of this process that waits, for a source that still exists, is not  *)
(* lost: it is the newest of its key and on its way to the worker, or a      *)
(* thread inside enqueue is about to make it so or to cancel it.             *)
WillBeServed(j) ==
  \/ \E c \in Callers : caller[c].job = j /\ caller[c].at = "created"
  \/ \E c \in Callers : caller[c].previous = j /\ caller[c].at = "cancel"
  \/ worker.job = j /\ worker.at \in {"claimed", "failing"}
  \/ /\ IsLatest(j)
     /\ \/ \E i \in DOMAIN queue : queue[i] = j
        \/ \E c \in Callers : Queues(c, j)
        \/ worker.job = j /\ worker.at = "got"

(* index_watcher.enqueue and _run together lose no job: while the process is *)
(* up, every queued job of it will be served, whatever the interleaving of   *)
(* the observer, the requests, the deletions and the worker.                 *)
NoJobLost ==
  process \in {"starting", "up"} =>
    \A j \in DOMAIN rows :
      rows[j].status = "queued" /\ rows[j].start = starts /\ KeyOf(j)[1] \in Present
        => WillBeServed(j)

(* The job the worker executes was not cancelled: enqueue cancels only what  *)
(* the worker has not claimed (index_watcher.py, the lock around pending).   *)
ClaimedNotCancelled ==
  worker.at \in {"claimed", "indexing", "indexed", "failing"} =>
    rows[worker.job].status # "cancelled"

(* A row says "running" only while the worker executes that job: after a     *)
(* crash the next start puts it back before the worker exists.               *)
RunningIsExecuted ==
  \A j \in DOMAIN rows :
    rows[j].status = "running" =>
      \/ process = "down"
      \/ worker.job = j /\ worker.at \in {"indexing", "indexed", "failing"}

(* A row that reports the end of its job reports it for good, or is deleted  *)
(* with its source: late cancellations and recovery do not reopen it.        *)
FinishedStays ==
  [][\A j \in DOMAIN rows :
       rows[j].status \in Finished => rows'[j].status \in {rows[j].status, "deleted"}]_vars

Unfinished(j) ==
  /\ j \in DOMAIN rows /\ KeyOf(j)[1] \in Present
  /\ rows[j].start = starts /\ rows[j].status \in {"queued", "running"}

(* Every job enqueued in this process comes to its end, as long as the       *)
(* process is up, the worker has not died and the source exists.             *)
JobsEnd ==
  \A j \in Jobs :
    Unfinished(j) ~> (~Unfinished(j) \/ process \notin {"starting", "up"} \/ worker.at = "dead")

=============================================================================
