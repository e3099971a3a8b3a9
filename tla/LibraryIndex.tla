---------------------------- MODULE LibraryIndex ----------------------------
(***************************************************************************)
(* The index of the user's files: poppy/features/document_index.py, the     *)
(* tables documents, document_chunks and index_failures of                  *)
(* poppy/storage/database.py, and the vectors of                            *)
(* poppy/features/vector_store.py.                                          *)
(*                                                                          *)
(* Two writers work at once: the worker of the watcher, which takes jobs    *)
(* from its queue, and a request thread (an attachment, a source without    *)
(* documents found by start_run, the deletion of a source).  A step is one  *)
(* transaction of the database, one call of the vector store or one look at *)
(* the file.  A file is a number: 0 while it does not exist, else the       *)
(* version last written; its size and time tell versions apart, and no text *)
(* can be extracted from the versions in Bad.                               *)
(*                                                                          *)
(* The queue is one sequence without the details of IndexJobs, which shows  *)
(* that it loses no job.                                                    *)
(***************************************************************************)
EXTENDS Naturals, Sequences, FiniteSets, Lists

CONSTANTS
  Paths,      \* files
  Sources,    \* folders registered as library sources; they may be nested
  Covers,     \* Covers[s]: the files below the folder of s
  Bad,        \* versions whose extraction fails
  MaxVersion, \* bound: versions written in a behaviour
  MaxDocs,    \* bound: document ids handed out
  MaxOdd      \* bound: requests, crashes, failed vector stores, refused jobs, switches of the model

ASSUME LibraryConstants ==
  /\ IsFiniteSet(Sources) /\ Covers \in [Sources -> SUBSET Paths]
  /\ MaxVersion \in Nat /\ MaxDocs \in Nat /\ MaxOdd \in Nat
  /\ Bad \subseteq 1..MaxVersion

VARIABLES
  disk,     \* the files themselves
  version,  \* the last version written anywhere
  seen,     \* the snapshot the polling observer compares with
  queue,    \* the worker's jobs
  sources,  \* rows of library_sources
  watched,  \* folders under observation
  rows,     \* documents: for a path its row, or NoRow
  lastId,   \* the last document id handed out
  chunks,   \* document_chunks of an id: the version they were cut from, 0 for none
  vectors,  \* of an id: "none", "live" (of its present chunks) or "stale"
  failures, \* index_failures: pairs of source and path
  semantic, \* SemanticEmbeddingService.available
  writer,   \* what each writer is doing
  behind,   \* history: paths for which the code is known to miss something
  odd       \* how many requests came and faults happened

vars == <<disk, version, seen, queue, sources, watched, rows, lastId, chunks,
          vectors, failures, semantic, writer, behind, odd>>
files == <<disk, version, seen>>
tables == <<rows, lastId, chunks, vectors>>
library == <<queue, sources, watched, semantic>>

Writers == {"worker", "request"}
DocIds == 1..MaxDocs
Versions == 1..MaxVersion
NoRow == [id |-> 0, source |-> "none", stat |-> 0, text |-> 0]
NoChunks == [of |-> 0, embedded |-> FALSE]
Idle == [at |-> "idle", op |-> "none", source |-> "none", path |-> "none", stat |-> 0,
         text |-> 0, embedded |-> FALSE, id |-> 0, mine |-> FALSE,
         todo |-> {}, found |-> {}, failed |-> {}, valid |-> {}]

RowIds == {rows[p].id : p \in Paths} \ {0}
SourceRows(s) == {p \in Paths : rows[p].source = s}
CoveredBy(set) == UNION {Covers[s] : s \in set}
RescanOf(s) == [op |-> "rescan", source |-> s, path |-> "none"]
FileJob(op, s, p) == [op |-> op, source |-> s, path |-> p]

(* enqueue, for each of the jobs: it replaces the pending one of its key.    *)
InOrder(jobs) ==
  CHOOSE list \in [1..Cardinality(jobs) -> jobs] : \A j \in jobs : \E i \in DOMAIN list : list[i] = j
Enqueue(q, jobs) == Filter(q, {q[i] : i \in DOMAIN q} \ jobs) \o InOrder(jobs)

(* The folders were registered and are not indexed; the watcher starts. *)
Init ==
  /\ disk = [p \in Paths |-> 1] /\ version = 1 /\ seen = disk
  /\ sources = Sources /\ watched = Sources
  /\ queue = InOrder({RescanOf(s) : s \in Sources})
  /\ rows = [p \in Paths |-> NoRow] /\ lastId = 0
  /\ chunks = [d \in DocIds |-> NoChunks] /\ vectors = [d \in DocIds |-> "none"]
  /\ failures = {} /\ semantic = TRUE
  /\ writer = [w \in Writers |-> Idle] /\ behind = {} /\ odd = 0

-----------------------------------------------------------------------------
(* The files, and the polling observer *)

WriteFile(p) ==
  /\ version < MaxVersion
  /\ version' = version + 1 /\ disk' = [disk EXCEPT ![p] = version + 1]
  /\ UNCHANGED <<seen, queue, sources, watched, tables, failures, semantic, writer, behind, odd>>

(* A file made and deleted between two looks of the observer is no event for *)
(* it, and a rescan may have indexed the file in between.                    *)
DeleteFile(p) ==
  /\ disk[p] # 0 /\ disk' = [disk EXCEPT ![p] = 0]
  /\ behind' = IF seen[p] = 0 THEN behind \cup {p} ELSE behind
  /\ UNCHANGED <<version, seen, queue, sources, watched, tables, failures, semantic, writer, odd>>

FileJobs(p) ==
  {FileJob(IF disk[p] = 0 THEN "delete" ELSE "upsert", s, p) : s \in {t \in watched : p \in Covers[t]}}

Observe(p) ==
  /\ seen[p] # disk[p] /\ seen' = [seen EXCEPT ![p] = disk[p]]
  /\ queue' = Enqueue(queue, FileJobs(p))
  /\ UNCHANGED <<disk, version, sources, watched, tables, failures, semantic, writer, behind, odd>>

-----------------------------------------------------------------------------
(* What a writer begins *)

Goes(w, place) == writer' = [writer EXCEPT ![w].at = place]
Ends(w) == writer' = [writer EXCEPT ![w] = Idle]

(* reindex lists the candidates of a folder once, at its beginning. *)
RescanBegun(s) ==
  [Idle EXCEPT !.op = "rescan", !.source = s, !.at = IF s \in sources THEN "scan" ELSE "list",
               !.todo = IF s \in sources THEN {p \in Covers[s] : disk[p] # 0} ELSE {}]

FileBegun(op, s, p, place) ==
  [Idle EXCEPT !.op = op, !.source = s, !.path = p, !.at = place,
               !.stat = IF op = "delete" THEN 0 ELSE disk[p]]

(* index_path leaves an unknown source alone and removes a missing file. *)
JobBegun(job) ==
  CASE job.op = "rescan" -> RescanBegun(job.source)
    [] job.op = "upsert" /\ job.source \notin sources -> Idle
    [] job.op = "upsert" /\ job.source \in sources /\ disk[job.path] # 0 ->
         FileBegun("upsert", job.source, job.path, "check")
    [] OTHER -> FileBegun("delete", job.source, job.path, "unvector")

(* add_grant and add_library_source: the row, the observation, a rescan *)
AddSource(s) ==
  /\ s \notin sources
  /\ sources' = sources \cup {s} /\ watched' = watched \cup {s}
  /\ queue' = Enqueue(queue, {RescanOf(s)})
  /\ UNCHANGED <<files, tables, failures, semantic, writer, behind, odd>>

(* reindex_library, by the user *)
ReindexLibrary(s) ==
  /\ s \in sources /\ odd < MaxOdd /\ odd' = odd + 1
  /\ queue' = Enqueue(queue, {RescanOf(s)})
  /\ UNCHANGED <<files, sources, watched, tables, failures, semantic, writer, behind>>

TakeJob ==
  /\ writer["worker"] = Idle /\ queue # <<>>
  /\ queue' = Tail(queue)
  /\ writer' = [writer EXCEPT !["worker"] = JobBegun(Head(queue))]
  /\ UNCHANGED <<files, sources, watched, tables, failures, semantic, behind, odd>>

(* _ensure_resource_budget raises when the disk is nearly full: the job ends. *)
RefuseJob ==
  /\ writer["worker"] = Idle /\ queue # <<>> /\ odd < MaxOdd
  /\ Head(queue).op # "delete"
  /\ queue' = Tail(queue) /\ odd' = odd + 1
  /\ behind' = behind \cup Covers[Head(queue).source]
  /\ UNCHANGED <<files, sources, watched, tables, failures, semantic, writer>>

Requests(record) ==
  /\ writer["request"] = Idle /\ odd < MaxOdd
  /\ odd' = odd + 1
  /\ writer' = [writer EXCEPT !["request"] = record]
  /\ UNCHANGED <<files, queue, sources, rows, lastId, chunks, failures, semantic>>

(* An attachment below a granted folder: ingest_attachment. *)
Attach(s, p) ==
  /\ s \in sources /\ p \in Covers[s] /\ disk[p] # 0
  /\ Requests(FileBegun("attach", s, p, "check")) /\ UNCHANGED <<watched, vectors, behind>>

(* start_run indexes the granted sources that have no document yet. *)
IndexEmptySource(s) ==
  /\ s \in sources /\ SourceRows(s) = {}
  /\ Requests(RescanBegun(s)) /\ UNCHANGED <<watched, vectors, behind>>

(* delete_library_source ends the watch and removes the vectors first: files *)
(* it leaves behind if the process dies before the rows are gone.            *)
RemoveSource(s) ==
  /\ s \in sources
  /\ Requests([Idle EXCEPT !.op = "remove", !.source = s, !.at = "unsource"])
  /\ watched' = watched \ {s}
  /\ vectors' = [d \in DocIds |-> IF \E p \in SourceRows(s) : rows[p].id = d THEN "none" ELSE vectors[d]]
  /\ behind' = behind \cup Covers[s]

(* delete_grant does neither. *)
RemoveGrant(s) ==
  /\ s \in sources
  /\ Requests([Idle EXCEPT !.op = "remove", !.source = s, !.at = "unsource"])
  /\ UNCHANGED <<watched, vectors, behind>>

-----------------------------------------------------------------------------
(* _index_file, one file *)

(* Taken for unchanged: same size and time, same source, and embedded if the *)
(* model is there.                                                           *)
Unchanged(row, w) ==
  /\ row.id # 0 /\ row.stat = w.stat /\ row.source = w.source
  /\ ~semantic \/ (chunks[row.id].of # 0 /\ chunks[row.id].embedded)

(* The file is done: the rescan goes on, a single file is reported. *)
FileDone(w) ==
  LET me == writer[w]
      next == [Idle EXCEPT !.op = me.op, !.source = me.source]
  IN  writer' = [writer EXCEPT ![w] =
        IF me.op = "rescan"
        THEN [next EXCEPT !.at = "scan", !.todo = me.todo, !.found = me.found \cup {me.path}, !.failed = me.failed]
        ELSE [next EXCEPT !.at = "clear", !.path = me.path]]

CheckUnchanged(w) ==
  LET me == writer[w] IN
  /\ me.at = "check"
  /\ IF Unchanged(rows[me.path], me) THEN FileDone(w) ELSE Goes(w, "read")
  /\ UNCHANGED <<files, library, tables, failures, behind, odd>>

Readable(v) == v # 0 /\ v \notin Bad

(* extract_document and the embeddings of the chunks *)
Extract(w) ==
  LET now == disk[writer[w].path] IN
  /\ writer[w].at = "read" /\ Readable(now)
  /\ writer' = [writer EXCEPT ![w].at = "row", ![w].text = now, ![w].embedded = semantic]
  /\ UNCHANGED <<files, library, tables, failures, behind, odd>>

(* A rescan notes the failure, index_path records it, an attachment raises. *)
ExtractFails(w) ==
  LET me == writer[w] IN
  /\ me.at = "read" /\ ~Readable(disk[me.path])
  /\ IF me.op = "rescan"
     THEN writer' = [writer EXCEPT ![w].at = "scan", ![w].failed = @ \cup {me.path},
                                   ![w].path = "none", ![w].stat = 0]
     ELSE Ends(w)
  /\ failures' = IF me.op = "upsert" THEN failures \cup {<<me.source, me.path>>} ELSE failures
  /\ UNCHANGED <<files, library, tables, behind, odd>>

(* Another writer between its row and its vectors for the same path *)
Overlapping(w) ==
  \E v \in Writers \ {w} : writer[v].at \in {"chunks", "vectors"} /\ writer[v].path = writer[w].path

DocumentRow(me, id) == [id |-> id, source |-> me.source, stat |-> me.stat, text |-> me.text]

UpsertDocument(w) ==
  LET me == writer[w]
      old == rows[me.path]
      id == IF old.id = 0 THEN lastId + 1 ELSE old.id
  IN  /\ me.at = "row" /\ id \in DocIds
      /\ rows' = [rows EXCEPT ![me.path] = DocumentRow(me, id)]
      /\ lastId' = IF id > lastId THEN id ELSE lastId
      /\ writer' = [writer EXCEPT ![w] = [me EXCEPT !.at = "chunks", !.id = id, !.stat = 0]]
      /\ behind' = IF Overlapping(w) \/ (w = "request" /\ me.stat # disk[me.path])
                   THEN behind \cup {me.path} ELSE behind
      /\ UNCHANGED <<files, library, chunks, vectors, failures, odd>>

(* Mutant: the chunks are stored whether or not the document is there. *)
ReplaceChunksUnchecked(w) ==
  LET me == writer[w] IN
  /\ me.at = "chunks" /\ Goes(w, "vectors")
  /\ chunks' = [chunks EXCEPT ![me.id] = [of |-> me.text, embedded |-> me.embedded]]
  /\ UNCHANGED <<files, library, rows, lastId, vectors, failures, behind, odd>>

(* The search index of the chunks looks the document up: without its row    *)
(* the transaction fails, and the job with it.                              *)
ReplaceChunks(w) ==
  LET me == writer[w] IN
  /\ me.at = "chunks"
  /\ IF me.id \in RowIds
     THEN /\ chunks' = [chunks EXCEPT ![me.id] = [of |-> me.text, embedded |-> me.embedded]]
          /\ vectors' = [vectors EXCEPT ![me.id] = IF @ = "live" THEN "stale" ELSE @]
          /\ writer' = [v \in Writers |->
               CASE v = w -> [me EXCEPT !.at = "vectors", !.mine = TRUE, !.text = 0, !.stat = 0]
                 [] v # w /\ writer[v].id = me.id -> [writer[v] EXCEPT !.mine = FALSE]
                 [] OTHER -> writer[v]]
          /\ UNCHANGED behind
     ELSE /\ Ends(w) /\ behind' = behind \cup Covers[me.source]
          /\ UNCHANGED <<chunks, vectors>>
  /\ UNCHANGED <<files, library, rows, lastId, failures, odd>>

(* The vectors of these chunks, which another writer may have replaced. *)
NewVectors(w) ==
  CASE ~writer[w].embedded -> "none"
    [] writer[w].embedded /\ writer[w].mine -> "live"
    [] OTHER -> "stale"

ReplaceVectors(w) ==
  LET me == writer[w] IN
  /\ me.at = "vectors" /\ FileDone(w)
  /\ vectors' = [vectors EXCEPT ![me.id] = NewVectors(w)]
  /\ UNCHANGED <<files, library, rows, lastId, chunks, failures, behind, odd>>

(* LanceVectorStore keeps an exception to itself. *)
VectorsFail(w) ==
  LET me == writer[w] IN
  /\ me.at = "vectors" /\ odd < MaxOdd /\ FileDone(w)
  /\ odd' = odd + 1 /\ behind' = behind \cup {me.path}
  /\ \E left \in {vectors[me.id], "none"} : vectors' = [vectors EXCEPT ![me.id] = left]
  /\ UNCHANGED <<files, library, rows, lastId, chunks, failures>>

(* clear_index_failure of index_path; an attachment clears nothing. *)
ReportIndexed(w) ==
  LET me == writer[w] IN
  /\ me.at = "clear" /\ Ends(w)
  /\ failures' = IF me.op = "upsert" THEN failures \ {<<me.source, me.path>>} ELSE failures
  /\ UNCHANGED <<files, library, tables, behind, odd>>

-----------------------------------------------------------------------------
(* reindex around its files *)

(* A candidate that is gone is passed over. *)
VisitFile(w, p) ==
  LET me == writer[w] IN
  /\ me.at = "scan" /\ p \in me.todo
  /\ writer' = [writer EXCEPT ![w] =
       IF disk[p] = 0 THEN [me EXCEPT !.todo = me.todo \ {p}]
       ELSE [me EXCEPT !.todo = me.todo \ {p}, !.path = p, !.stat = disk[p], !.at = "check"]]
  /\ UNCHANGED <<files, library, tables, failures, behind, odd>>

(* _delete_document_locked: the row and its chunks *)
DeleteRows(gone) ==
  /\ rows' = [p \in Paths |-> IF p \in gone THEN NoRow ELSE rows[p]]
  /\ chunks' = [d \in DocIds |-> IF \E p \in gone : rows[p].id = d THEN NoChunks ELSE chunks[d]]
  /\ UNCHANGED lastId

(* delete_documents_not_in *)
Purge(w) ==
  LET me == writer[w]
      gone == SourceRows(me.source) \ me.found
  IN  /\ me.at = "scan" /\ me.todo = {}
      /\ writer' = [writer EXCEPT ![w].at = "report", ![w].found = {}]
      /\ DeleteRows(gone)
      /\ behind' = IF w = "request" THEN behind \cup gone ELSE behind
      /\ UNCHANGED <<files, library, vectors, failures, odd>>

(* Mutant: the old failures go and the new ones are not written. *)
ReportNoFailures(w) ==
  LET me == writer[w]
      kept == {f \in failures : f[1] # me.source}
  IN  /\ me.at = "report"
      /\ writer' = [writer EXCEPT ![w] = [Idle EXCEPT !.at = "list"]]
      /\ failures' = kept
      /\ behind' = IF w = "request" THEN behind \cup {f[2] : f \in failures \ kept} ELSE behind
      /\ UNCHANGED <<files, library, tables, odd>>

(* replace_index_failures and the state of the source *)
ReportFailures(w) ==
  LET me == writer[w]
      kept == {f \in failures : f[1] # me.source}
      now == kept \cup ({me.source} \X me.failed)
  IN  /\ me.at = "report"
      /\ writer' = [writer EXCEPT ![w] = [Idle EXCEPT !.at = "list"]]
      /\ failures' = now
      /\ behind' = IF w = "request" THEN behind \cup {f[2] : f \in failures \ now} ELSE behind
      /\ UNCHANGED <<files, library, tables, odd>>

(* prune_documents gets the ids of the rows and then deletes other vectors. *)
ListDocuments(w) ==
  /\ writer[w].at = "list"
  /\ writer' = [writer EXCEPT ![w].at = "prune", ![w].valid = RowIds]
  /\ UNCHANGED <<files, library, tables, failures, behind, odd>>

PruneVectors(w) ==
  LET pruned == {d \in DocIds : d \notin writer[w].valid /\ vectors[d] # "none"} IN
  /\ writer[w].at = "prune" /\ Ends(w)
  /\ vectors' = [d \in DocIds |-> IF d \in pruned THEN "none" ELSE vectors[d]]
  /\ behind' = behind \cup {p \in Paths : rows[p].id \in pruned}
  /\ UNCHANGED <<files, library, rows, lastId, chunks, failures, odd>>

-----------------------------------------------------------------------------
(* remove_path and delete_library_source *)

RemoveVectors(w) ==
  LET me == writer[w] IN
  /\ me.at = "unvector" /\ Goes(w, "drop")
  /\ vectors' = [d \in DocIds |-> IF d = rows[me.path].id THEN "none" ELSE vectors[d]]
  /\ UNCHANGED <<files, library, rows, lastId, chunks, failures, behind, odd>>

(* The row goes only if it belongs to the source of the job. *)
RemovePath(w) ==
  LET me == writer[w] IN
  /\ me.at = "drop" /\ Ends(w)
  /\ DeleteRows({me.path} \cap SourceRows(me.source))
  /\ failures' = failures \ {<<me.source, me.path>>}
  /\ UNCHANGED <<files, library, vectors, behind, odd>>

DeleteSource(w) ==
  LET me == writer[w] IN
  /\ me.at = "unsource" /\ Ends(w)
  /\ DeleteRows(SourceRows(me.source))
  /\ sources' = sources \ {me.source}
  /\ failures' = {f \in failures : f[1] # me.source}
  /\ behind' = behind \cup Covers[me.source]
  /\ UNCHANGED <<files, queue, watched, vectors, semantic, odd>>

-----------------------------------------------------------------------------
(* The process dies and starts again: observation, then a rescan of every   *)
(* source.  What a writer had begun between its row and its vectors, or      *)
(* between the vectors and the row it removes, is cut.                      *)
Restart ==
  /\ odd < MaxOdd /\ odd' = odd + 1
  /\ seen' = disk /\ watched' = sources
  /\ queue' = InOrder({RescanOf(s) : s \in sources})
  /\ writer' = [w \in Writers |-> Idle]
  /\ behind' = behind \cup {writer[w].path : w \in {v \in Writers : writer[v].at \in {"chunks", "vectors", "drop"}}}
  /\ UNCHANGED <<disk, version, sources, tables, failures, semantic>>

(* update_settings switches the embedding mode, or the model fails. *)
SwitchSemantic ==
  /\ odd < MaxOdd /\ odd' = odd + 1
  /\ semantic' = ~semantic
  /\ UNCHANGED <<files, queue, sources, watched, tables, failures, writer, behind>>

IndexFile(w) ==
  \/ CheckUnchanged(w) \/ Extract(w) \/ ExtractFails(w) \/ UpsertDocument(w)
  \/ ReplaceChunks(w) \/ ReplaceVectors(w) \/ VectorsFail(w) \/ ReportIndexed(w)

Reindex(w) ==
  \/ \E p \in Paths : VisitFile(w, p)
  \/ Purge(w) \/ ReportFailures(w) \/ ListDocuments(w) \/ PruneVectors(w)

Removal(w) == RemoveVectors(w) \/ RemovePath(w) \/ DeleteSource(w)

Next ==
  \/ \E p \in Paths : WriteFile(p) \/ DeleteFile(p) \/ Observe(p)
  \/ TakeJob \/ RefuseJob \/ Restart \/ SwitchSemantic
  \/ \E s \in Sources : AddSource(s) \/ ReindexLibrary(s)
  \/ \E s \in Sources : IndexEmptySource(s) \/ RemoveSource(s) \/ RemoveGrant(s)
  \/ \E s \in Sources, p \in Paths : Attach(s, p)
  \/ \E w \in Writers : IndexFile(w) \/ Reindex(w) \/ Removal(w)

Spec == Init /\ [][Next]_vars

-----------------------------------------------------------------------------
(* Properties *)

(* Chunks, which the search reads, belong to a document that exists.  The    *)
(* writers check nothing between their two transactions: a deletion of the   *)
(* row in between must make the second fail (database.py:1081).              *)
ChunksHaveDocument == \A d \in DocIds : chunks[d].of # 0 => d \in RowIds

Quiet == queue = <<>> /\ seen = disk /\ \A w \in Writers : writer[w] = Idle

(* What the index should hold of a file: nothing for a missing one, a       *)
(* recorded failure for an unreadable one, else its present text, in the    *)
(* row, in the chunks and, if these are embedded, in the vectors.           *)
Shows(p) ==
  CASE disk[p] = 0 -> rows[p] = NoRow
    [] disk[p] \in Bad -> \A s \in sources : p \in Covers[s] => <<s, p>> \in failures
    [] OTHER -> /\ rows[p].stat = disk[p] /\ rows[p].text = disk[p]
                /\ chunks[rows[p].id].of = disk[p]
                /\ chunks[rows[p].id].embedded => vectors[rows[p].id] = "live"

(* When nothing is under way the index shows every file below a source,      *)
(* except where the code is known to miss something (behind): a crash        *)
(* between a row and its vectors, a failed vector store, a full disk, two    *)
(* writers at one file or a request that writes an old version, a vector     *)
(* pruned while it was written, a source deleted below another one or left   *)
(* without its vectors by a crash before its deletion, a file made and       *)
(* deleted between two looks of the observer.                                *)
IndexIsCurrent ==
  Quiet => \A p \in CoveredBy(sources) \ behind : Shows(p)

(* A writer that found a file unreadable leaves the row of its last good     *)
(* version alone: poppy-personal-knowledge-base-m4.md:195, and for           *)
(* index_path the test test_failed_update_keeps_last_successful_chunks.      *)
(* delete_documents_not_in at the end of a rescan (document_index.py:141)    *)
(* does not.                                                                 *)
KeepsLastGood ==
  [][\A w \in Writers, p \in Paths :
       p \in writer[w].failed /\ disk[p] \in Bad /\ rows[p].id # 0 /\ writer'[w] # writer[w]
         => rows'[p].id # 0]_vars
=============================================================================
