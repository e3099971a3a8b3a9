---------------------------- MODULE SchemaUpgrade ----------------------------
(***************************************************************************)
(* DesktopDatabase.__init__ (poppy/storage/database.py): opening the       *)
(* database copies a file of an earlier schema, creates the missing tables *)
(* one by one, each for good, and brings the columns of the tables it      *)
(* finds up to date in one transaction that ends with the new version.     *)
(* The process may end at any point and open the file again.  A file is    *)
(* its version, the late columns of its tables and whether sessions still  *)
(* have the title of the first builds.                                     *)
(***************************************************************************)
EXTENDS Naturals, Sequences

CONSTANTS
  Current,     \* CURRENT_SCHEMA_VERSION
  FoundFiles,  \* files earlier and later builds left, NoFile among them
  MaxOpens,    \* bound: starts of the process
  MaxSeconds   \* bound: seconds that pass (a copy is named after its second)

VARIABLES
  file,      \* what is committed
  found,     \* the file of the first start
  work,      \* the open transaction
  step,      \* where __init__ is
  backups,   \* second -> the copy made in it
  second,
  opens,
  uncopied   \* a copy failed, which is let pass (history variable)

upgradeVars == <<file, found, work, step, backups, second, opens, uncopied>>

NoFile == [version |-> 0, tables |-> <<>>, oldTitles |-> FALSE]

(* The tables in the order the script creates them.                        *)
Tables ==
  <<"schema_migrations", "sessions", "settings", "grants", "memories", "approval_rules",
    "library_sources", "documents", "document_chunks", "index_failures", "audit_events",
    "channel_sessions", "channel_messages", "session_attachments", "knowledge_spaces",
    "knowledge_space_sources", "knowledge_space_documents", "source_versions", "document_sections",
    "knowledge_notes", "answer_citations", "index_jobs">>

TableNames == {Tables[i] : i \in DOMAIN Tables}

(* Late columns: those that some build added to a table that had shipped.  *)
SessionColumns == {"session_type", "locked_document_id", "knowledge_scope_kind", "knowledge_scope_id"}
SourceColumns == {"index_status", "index_progress", "indexed_count", "failed_count", "last_error"}
ChunkColumns == {"location_json", "embedding_language", "embedding_base64", "section_id", "section_title",
                 "context_text", "embedding_model", "embedding_dimension", "content_hash"}
DocumentColumns == {"title", "authors", "year", "summary", "metadata_json"}

LateColumns(t) == CASE t = "sessions" -> SessionColumns
                    [] t = "library_sources" -> SourceColumns
                    [] t = "document_chunks" -> ChunkColumns
                    [] t = "documents" -> DocumentColumns
                    [] OTHER -> {}

(* The late columns that the script's own CREATE TABLE has.                *)
CreatedWith(t) == CASE t = "sessions" -> {"session_type"}
                    [] t = "library_sources" -> SourceColumns
                    [] t = "document_chunks" -> {"location_json", "embedding_language", "embedding_base64"}
                    [] OTHER -> {}

(* The file has all of the current schema.                                 *)
Complete(f) ==
  /\ TableNames \subseteq DOMAIN f.tables
  /\ \A t \in TableNames : LateColumns(t) \subseteq f.tables[t]
  /\ ~f.oldTitles

IsFile(f) ==
  /\ f = [version |-> f.version, tables |-> f.tables, oldTitles |-> f.oldTitles]
  /\ f.version \in Nat /\ f.oldTitles \in BOOLEAN
  /\ f.tables = [t \in DOMAIN f.tables |-> f.tables[t]]

(* A found file of the current version is one this build left behind.      *)
ASSUME UpgradeAssumption ==
  /\ Current \in Nat
  /\ \A f \in FoundFiles : IsFile(f) /\ (f.version = Current => Complete(f))

UpgradeInit ==
  /\ found \in FoundFiles /\ file = found /\ work = found
  /\ step = "down"
  /\ backups = <<>> /\ second = 0 /\ opens = 0 /\ uncopied = FALSE

-----------------------------------------------------------------------------
(* __init__ and _backup_before_migration *)

Exists(f) == DOMAIN f.tables # {}

NeedsBackup(f) == Exists(f) /\ f.version < Current

OpenFile ==
  /\ step = "down" /\ opens < MaxOpens
  /\ opens' = opens + 1 /\ work' = file
  /\ step' = IF NeedsBackup(file) THEN "copy" ELSE "script"
  /\ UNCHANGED <<file, found, backups, second, uncopied>>

(* A copy of the same second is written over.                              *)
BeginCopy ==
  /\ step = "copy" /\ step' = "copying"
  /\ backups' = [s \in DOMAIN backups \cup {second} |-> IF s = second THEN NoFile ELSE backups[s]]
  /\ UNCHANGED <<file, found, work, second, opens, uncopied>>

EndCopy ==
  /\ step = "copying" /\ step' = "script"
  /\ backups' = [backups EXCEPT ![second] = file]
  /\ UNCHANGED <<file, found, work, second, opens, uncopied>>

(* except OSError: pass                                                    *)
CopyFails ==
  /\ step \in {"copy", "copying"} /\ step' = "script" /\ uncopied' = TRUE
  /\ UNCHANGED <<file, found, work, backups, second, opens>>

-----------------------------------------------------------------------------
(* _migrate *)

(* executescript runs outside of a transaction: each statement stays.  It  *)
(* reaches its end, or fails or is cut off after n statements.             *)
Create(f, n) ==
  LET had == DOMAIN f.tables
  IN  [f EXCEPT !.tables = [t \in had \cup {Tables[i] : i \in 1..n} |->
                              IF t \in had THEN f.tables[t] ELSE CreatedWith(t)]]

RunScript(n) ==
  /\ step = "script" /\ step' = IF n = Len(Tables) THEN "stamp" ELSE "down"
  /\ file' = Create(file, n)
  /\ UNCHANGED <<found, work, backups, second, opens, uncopied>>

Stamped(f) == [f EXCEPT !.version = Current]

(* mutant: no transaction is open yet                                      *)
StampAtOnce ==
  /\ step = "stamp"
  /\ work' = Stamped(file) /\ file' = Stamped(file) /\ step' = "sessions"
  /\ UNCHANGED <<found, backups, second, opens, uncopied>>

(* The first INSERT opens the transaction that the rest belongs to, so the *)
(* version set before the columns are there is not seen before them.       *)
StampVersion ==
  /\ step = "stamp"
  /\ work' = Stamped(file) /\ step' = "sessions"
  /\ UNCHANGED <<file, found, backups, second, opens, uncopied>>

(* PRAGMA table_info, then one ALTER TABLE for each column not there.      *)
AddColumns(t, next) ==
  /\ step = t /\ step' = next
  /\ work' = [work EXCEPT !.tables[t] = @ \cup LateColumns(t)]
  /\ UNCHANGED <<file, found, backups, second, opens, uncopied>>

AlterSessions == AddColumns("sessions", "library_sources")
AlterSources == AddColumns("library_sources", "document_chunks")
AlterChunks == AddColumns("document_chunks", "documents")
AlterDocuments == AddColumns("documents", "titles")

(* The titles of the first builds; the version again; the commit at the    *)
(* end of the with statement.                                              *)
RenameAndCommit ==
  /\ step = "titles" /\ step' = "up"
  /\ work' = Stamped([work EXCEPT !.oldTitles = FALSE]) /\ file' = work'
  /\ UNCHANGED <<found, backups, second, opens, uncopied>>

(* A statement fails, or the process ends: what the transaction did is     *)
(* undone.                                                                 *)
LeaveInit ==
  /\ step # "down" /\ step' = "down" /\ work' = file
  /\ UNCHANGED <<file, found, backups, second, opens, uncopied>>

SecondPasses ==
  /\ step = "down" /\ second < MaxSeconds /\ second' = second + 1
  /\ UNCHANGED <<file, found, work, step, backups, opens, uncopied>>

UpgradeNext ==
  \/ OpenFile \/ BeginCopy \/ EndCopy \/ CopyFails
  \/ (\E n \in 0..Len(Tables) : RunScript(n)) \/ StampVersion
  \/ AlterSessions \/ AlterSources \/ AlterChunks \/ AlterDocuments \/ RenameAndCommit
  \/ LeaveInit \/ SecondPasses

UpgradeSpec == UpgradeInit /\ [][UpgradeNext]_upgradeVars

-----------------------------------------------------------------------------
(* Properties *)

Keeps(copy) ==
  /\ copy.version = found.version /\ copy.oldTitles = found.oldTitles
  /\ DOMAIN found.tables \subseteq DOMAIN copy.tables
  /\ \A t \in DOMAIN found.tables : copy.tables[t] = found.tables[t]

(* Wherever opening was cut off, and however often: a file that says it has *)
(* the current schema has all of it and, when it held an earlier one, there *)
(* is a whole copy of what it held (unless a copy failed).  The next start  *)
(* neither copies nor needs to: it trusts the version (database.py:80).     *)
UpgradeKeepsData ==
  /\ file.version = Current => Complete(file)
  /\ file.version = Current /\ NeedsBackup(found) /\ ~uncopied =>
       \E s \in DOMAIN backups : Keeps(backups[s])
  /\ step = "up" => file.version = Current
=============================================================================
