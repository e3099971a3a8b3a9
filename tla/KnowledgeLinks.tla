---------------------------- MODULE KnowledgeLinks ----------------------------
(***************************************************************************)
(* The rows of poppy/storage/database.py that name other rows: folders and *)
(* documents of a notebook, a conversation's knowledge scope, notes,       *)
(* citations and attachments.  SQLite keeps no foreign keys here: every    *)
(* deletion removes what names the row, in the same transaction, and every *)
(* request that adds a name looks first whether it exists, most of them in *)
(* a statement of its own before the one that writes.  Requests of several *)
(* threads and the indexer come in between.                                *)
(***************************************************************************)
EXTENDS Naturals, FiniteSets

CONSTANTS
  Notebooks,    \* ids of knowledge_spaces, each given out once
  LinkSources,  \* library_sources
  LinkDocs,     \* documents
  SourceOfDoc,  \* documents.source_id
  Talks,        \* sessions
  Nothing,      \* "": a note without a notebook or without a document
  Clients,      \* threads that serve requests
  MaxLinkRequests  \* bound: requests served

(* An id says in which table its row is.                                   *)
ASSUME LinkConstants ==
  /\ Notebooks \cap (LinkSources \cup LinkDocs \cup Talks) = {}
  /\ LinkDocs \cap (LinkSources \cup Talks) = {} /\ LinkSources \cap Talks = {}
  /\ Nothing \notin Notebooks \cup LinkSources \cup LinkDocs \cup Talks

VARIABLES
  exists,    \* ids of the rows there are
  given,     \* notebook ids handed out
  links,     \* [by, from, to]: the row of kind `by` names both ends
  client,    \* client[c]: the request c serves, after its checks
  served,
  overtaken  \* links written after what they name was gone (history variable)

linkVars == <<exists, given, links, client, served, overtaken>>

NoRequest == [by |-> "none", from |-> Nothing, to |-> {}]
Link(by, from, to) == [by |-> by, from |-> from, to |-> to]

LinksInit ==
  /\ exists = LinkSources \cup LinkDocs \cup Talks
  /\ given = {} /\ links = {} /\ overtaken = {}
  /\ client = [c \in Clients |-> NoRequest] /\ served = 0

Named(ids) == ids \ {Nothing}

-----------------------------------------------------------------------------
(* Requests that add names: the checks, then the transaction *)

\* what a request looks at before it writes
Look(c, by, from, to, looksAt) ==
  /\ client[c] = NoRequest /\ served < MaxLinkRequests
  /\ served' = served + 1
  /\ Named(looksAt) \subseteq exists
  /\ client' = [client EXCEPT ![c] = [by |-> by, from |-> from, to |-> to]]
  /\ UNCHANGED <<exists, given, links, overtaken>>

SetSources(c, n, s) == Look(c, "folder", n, s, {n})
SetDocuments(c, n, d) == Look(c, "member", n, d, {n})
SetScope(c, t, id) == Look(c, "scope", t, {id}, {id})
AddNote(c, n, d) == Look(c, "note", n, {d}, {n, d})
\* start_run: the documents its search found, the session it began with
Cite(c, t, d) == Look(c, "citation", t, d, {t} \cup d)
AddAttachment(c, t) == Look(c, "attachment", t, {Nothing}, {t})

\* set_knowledge_space_* look for their targets in the transaction, the scope's
\* UPDATE needs its row; the others write whatever has become of both
Refused(r) ==
  \/ r.by \in {"folder", "member"} /\ ~(r.to \subseteq exists)
  \/ r.by = "scope" /\ r.from \notin exists

\* folders, documents, scope and citations replace what was there
Replaces(r, l) == r.by \in {"folder", "member", "scope", "citation"} /\ l.by = r.by /\ l.from = r.from

WriteLinks(c) ==
  LET r == client[c]
      new == {Link(r.by, r.from, x) : x \in r.to}
      dead == {l \in new : ~(Named({l.from, l.to}) \subseteq exists)}
  IN  /\ r # NoRequest
      /\ client' = [client EXCEPT ![c] = NoRequest]
      /\ IF Refused(r) THEN UNCHANGED <<links, overtaken>>
         ELSE /\ links' = {l \in links : ~Replaces(r, l)} \cup new
              /\ overtaken' = overtaken \cup dead
      /\ UNCHANGED <<exists, given, served>>

CreateNotebook(n) ==
  /\ n \notin given
  /\ given' = given \cup {n} /\ exists' = exists \cup {n}
  /\ UNCHANGED <<links, client, served, overtaken>>

-----------------------------------------------------------------------------
(* Deletions, a transaction each *)

Without(ids, gone) ==
  /\ exists' = exists \ ids
  /\ links' = {l \in links : ~gone[l]}
  /\ UNCHANGED <<given, client, served, overtaken>>

\* variant: a notebook keeps documents that are gone
NamesDocumentButMember(l, d) == l.to \in d /\ l.by \in {"scope", "note", "citation"}

\* _delete_document_locked
NamesDocument(l, d) == l.to \in d /\ l.by \in {"scope", "member", "note", "citation"}

DeleteDocument(d) ==
  /\ d \in exists
  /\ Without({d}, [l \in links |-> NamesDocument(l, {d})])

\* delete_library_source and delete_grant: its documents, its place in notebooks
DeleteLinkSource(s) ==
  LET docs == {d \in LinkDocs \cap exists : SourceOfDoc[d] = s}
  IN  /\ s \in exists
      /\ Without({s} \cup docs,
                 [l \in links |-> NamesDocument(l, docs) \/ (l.by = "folder" /\ l.to = s)])

\* delete_knowledge_space: notes keep its id
DeleteNotebook(n) ==
  /\ n \in exists
  /\ Without({n}, [l \in links |-> \/ l.by \in {"folder", "member"} /\ l.from = n
                                   \/ l.by = "scope" /\ l.to = n])

\* delete_session: the row with its scope, the attachments; citations keep its id
DeleteTalk(t) ==
  /\ t \in exists
  /\ Without({t}, [l \in links |-> l.from = t /\ l.by \in {"scope", "attachment"}])

LinksNext ==
  \/ \E c \in Clients :
       \/ WriteLinks(c)
       \/ \E n \in Notebooks : \/ \E s \in SUBSET LinkSources : SetSources(c, n, s)
                               \/ \E d \in SUBSET LinkDocs : SetDocuments(c, n, d)
       \/ \E n \in Notebooks \cup {Nothing}, d \in LinkDocs \cup {Nothing} : AddNote(c, n, d)
       \/ \E t \in Talks : \/ \E id \in Notebooks \cup LinkDocs : SetScope(c, t, id)
                           \/ \E d \in SUBSET LinkDocs : Cite(c, t, d)
                           \/ AddAttachment(c, t)
  \/ \E n \in Notebooks : CreateNotebook(n) \/ DeleteNotebook(n)
  \/ \E d \in LinkDocs : DeleteDocument(d)
  \/ \E s \in LinkSources : DeleteLinkSource(s)
  \/ \E t \in Talks : DeleteTalk(t)

LinksSpec == LinksInit /\ [][LinksNext]_linkVars

-----------------------------------------------------------------------------
(* What a row names *)

\* the ends the code means to keep: a note outlives its notebook, a citation
\* its conversation
KeptEnds(l) ==
  Named(IF l.by \in {"note", "citation"} THEN {l.to} ELSE {l.from, l.to})

(* Nothing names a row that is gone: whatever is deleted by a user or by the *)
(* indexer, in whatever order, takes with it the folders and documents of    *)
(* notebooks, scopes, notes, citations and attachments that name it; only a  *)
(* request whose check is overtaken by the deletion leaves a name behind     *)
(* (_delete_document_locked, delete_library_source, delete_knowledge_space,  *)
(* delete_session).                                                          *)
LinksResolve == \A l \in links \ overtaken : KeptEnds(l) \subseteq exists
=============================================================================
