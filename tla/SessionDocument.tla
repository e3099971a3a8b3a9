--------------------------- MODULE SessionDocument ---------------------------
(***************************************************************************)
(* The document a conversation is tied to.  The row of a session keeps it  *)
(* twice: locked_document_id, which the input box shows and start_run      *)
(* answers from, and the document of the knowledge scope.  Three requests  *)
(* of DesktopController write them, each with two methods of               *)
(* DesktopDatabase: set_session_knowledge_scope writes scope and lock      *)
(* together, set_session_document_lock the lock alone.  Each looks the     *)
(* document up and then updates the row, holding the database's lock for   *)
(* one statement at a time.  The indexer and delete_session take documents *)
(* and the row away in between.                                            *)
(***************************************************************************)
EXTENDS Naturals, FiniteSets

CONSTANTS Documents,    \* document ids
          None,         \* "": no lock, a scope of another kind
          Writers,      \* threads that serve requests
          MaxWrites,    \* bound: requests served
          MaxMishaps    \* bound: documents dropped, rows deleted, restarts

VARIABLES live,        \* the session has a row
          lock,        \* locked_document_id
          scope,       \* knowledge_scope_id of a "document" scope, else None
          documents,   \* documents of the index
          writer,      \* writer[w]: the request w serves, [kind, doc, read, pc, checked]
          writes, mishaps,
          torn         \* the last writes of lock and scope were cut or overtaken, or set a
                       \* document that had just been dropped (history variable)

documentVars == <<live, lock, scope, documents, writer, writes, mishaps, torn>>

Free == [kind |-> "none", doc |-> None, read |-> None, pc |-> "idle", checked |-> FALSE]

DocumentInit ==
  /\ live = TRUE /\ lock = None /\ scope = None
  /\ documents = Documents
  /\ writer = [w \in Writers |-> Free]
  /\ writes = 0 /\ mishaps = 0
  /\ torn = FALSE

\* get_session, the first statement of all three requests; the requests that
\* set a document look at once whether the session may read it
Enter(w, kind, d) ==
  /\ writer[w].pc = "idle" /\ writes < MaxWrites /\ live
  /\ kind # "start" => d \in documents \cup {None}
  /\ writes' = writes + 1
  /\ writer' = [writer EXCEPT ![w] =
       [kind |-> kind, doc |-> d, read |-> IF kind = "start" THEN lock ELSE None,
        pc |-> CASE kind = "start"    -> "choose"
                 [] kind = "setScope" -> "lock"
                 [] kind = "setLock"  -> "scope",
        checked |-> FALSE]]
  /\ UNCHANGED <<live, lock, scope, documents, mishaps, torn>>

\* the document of a run: the one the message names if it is indexed, else the
\* row's lock as start_run read it; a lock on a document that is gone is undone
ChooseDocument(w) ==
  LET named == writer[w].doc \in documents
  IN /\ writer[w].pc = "choose"
     /\ writer' = [writer EXCEPT
          ![w] = IF named THEN [@ EXCEPT !.pc = "lock"]
                 ELSE IF writer[w].read \in documents \cup {None} THEN Free
                 ELSE [@ EXCEPT !.doc = None, !.pc = "lock"]]
     /\ UNCHANGED <<live, lock, scope, documents, writes, mishaps, torn>>

Writing(w) == writer[w].pc \in {"lock", "scope", "relock"}
Indexed(w) == writer[w].doc \in documents \cup {None}

\* get_document, before each of the two updates
CheckDocument(w) ==
  /\ Writing(w) /\ ~writer[w].checked /\ Indexed(w)
  /\ writer' = [writer EXCEPT ![w].checked = TRUE]
  /\ UNCHANGED <<live, lock, scope, documents, writes, mishaps, torn>>

\* another set_session_document_lock has its last statement to come
LockToCome(w) == \E v \in Writers \ {w} : writer[v].pc = "relock"

\* the request goes on to its next method, or returns
Advance(w, pc) ==
  writer' = [writer EXCEPT ![w] = IF pc = "idle" THEN Free ELSE [@ EXCEPT !.pc = pc, !.checked = FALSE]]

\* set_session_document_lock of the database: the document may have been dropped
\* since it was looked up
WriteLock(w) ==
  /\ writer[w].pc \in {"lock", "relock"} /\ writer[w].checked /\ live
  /\ lock' = writer[w].doc
  /\ Advance(w, IF writer[w].pc = "relock" THEN "idle" ELSE "scope")
  /\ torn' = (torn \/ LockToCome(w) \/ ~Indexed(w))
  /\ UNCHANGED <<live, scope, documents, writes, mishaps>>

\* mutant: the statement leaves the lock alone
WriteScopeAlone(w) ==
  /\ writer[w].pc = "scope" /\ writer[w].checked /\ live
  /\ scope' = writer[w].doc
  /\ Advance(w, IF writer[w].kind = "setLock" THEN "relock" ELSE "idle")
  /\ torn' = LockToCome(w)
  /\ UNCHANGED <<live, lock, documents, writes, mishaps>>

\* set_session_knowledge_scope of the database
WriteScope(w) ==
  /\ writer[w].pc = "scope" /\ writer[w].checked /\ live
  /\ scope' = writer[w].doc
  /\ lock' = writer[w].doc
  /\ Advance(w, IF writer[w].kind = "setLock" THEN "relock" ELSE "idle")
  /\ torn' = LockToCome(w)
  /\ UNCHANGED <<live, documents, writes, mishaps>>

\* the document or the row is gone (KeyError): the request ends, what it wrote stays
WriteRefused(w) ==
  /\ Writing(w)
  /\ IF writer[w].checked THEN ~live ELSE ~Indexed(w)
  /\ Advance(w, "idle")
  /\ torn' = (torn \/ (writer[w].pc = "scope" /\ writer[w].kind # "setLock"))
  /\ UNCHANGED <<live, lock, scope, documents, writes, mishaps>>

Mishap == mishaps < MaxMishaps /\ mishaps' = mishaps + 1

\* the indexer drops a document: _delete_document_locked clears every lock and
\* scope that holds it in the same transaction
DropDocument(d) ==
  /\ Mishap /\ d \in documents
  /\ documents' = documents \ {d}
  /\ lock' = IF lock = d THEN None ELSE lock
  /\ scope' = IF scope = d THEN None ELSE scope
  /\ UNCHANGED <<live, writer, writes, torn>>

\* delete_session of another request
DropRow ==
  /\ Mishap /\ live
  /\ live' = FALSE
  /\ UNCHANGED <<lock, scope, documents, writer, writes, torn>>

\* the process ends and starts again
LoseRequests ==
  /\ Mishap
  /\ writer' = [w \in Writers |-> Free]
  /\ torn' = (torn \/ \E w \in Writers : writer[w].pc = "scope" /\ writer[w].kind # "setLock")
  /\ UNCHANGED <<live, lock, scope, documents, writes>>

DocumentNext ==
  \/ \E w \in Writers :
       \/ \E kind \in {"start", "setScope", "setLock"}, d \in Documents \cup {None} :
            Enter(w, kind, d)
       \/ ChooseDocument(w) \/ CheckDocument(w) \/ WriteLock(w) \/ WriteScope(w) \/ WriteRefused(w)
  \/ \E d \in Documents : DropDocument(d)
  \/ DropRow
  \/ LoseRequests

DocumentSpec == DocumentInit /\ [][DocumentNext]_documentVars

-----------------------------------------------------------------------------
\* The two places that hold the session's document agree whenever no request is
\* between its two updates, although the indexer drops documents meanwhile.  The
\* exceptions: a request failed or was cut off between them; a
\* set_session_document_lock, which writes the lock last and alone, was overtaken
\* by another writer; the document was dropped after the lock's update had looked
\* it up (controller.py:91-131, 190-223, database.py:452-488, 1472-1480).
LockFollowsScope ==
  live /\ ~torn /\ (\A w \in Writers : ~(writer[w].pc = "scope" /\ writer[w].kind # "setLock"))
    => lock = scope
=============================================================================
