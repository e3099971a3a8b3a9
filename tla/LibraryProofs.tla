----------------------------- MODULE LibraryProofs -----------------------------
(***************************************************************************)
(* Theorems about the library's tables and its index, for any files,       *)
(* sources, requests, notebooks and bounds: no chunk without its document, *)
(* an index at rest that shows every file, no name of a row that is gone,  *)
(* no upgrade that loses what an earlier build left.                       *)
(***************************************************************************)
EXTENDS LibraryIndex, KnowledgeLinks, SchemaUpgrade, ListsProofs, FiniteSetTheorems, SequenceTheorems, TLAPS

-----------------------------------------------------------------------------
(* KnowledgeLinks                                                           *)

(* A row of each kind names rows of the tables it is meant to name.         *)
LinkOfKind(l) ==
  \/ l.by = "folder" /\ l.from \in Notebooks /\ l.to \in LinkSources
  \/ l.by = "member" /\ l.from \in Notebooks /\ l.to \in LinkDocs
  \/ l.by = "scope" /\ l.from \in Talks /\ l.to \in Notebooks \cup LinkDocs
  \/ l.by = "note" /\ l.from \in Notebooks \cup {Nothing} /\ l.to \in LinkDocs \cup {Nothing}
  \/ l.by = "citation" /\ l.from \in Talks /\ l.to \in LinkDocs
  \/ l.by = "attachment" /\ l.from \in Talks /\ l.to = Nothing

LinksInv ==
  /\ \A l \in links : LinkOfKind(l)
  /\ \A c \in Clients : \A x \in client[c].to : LinkOfKind(Link(client[c].by, client[c].from, x))
  /\ LinksResolve

(* A request that has looked writes links of its kind, or none yet.         *)
LEMMA LookStep ==
  ASSUME LinksInv, NEW c \in Clients, NEW by, NEW from, NEW to, NEW looksAt, Look(c, by, from, to, looksAt),
         \A x \in to : LinkOfKind(Link(by, from, x))
  PROVE  LinksInv'
<1> DEFINE r == [by |-> by, from |-> from, to |-> to]
<1>1. client' = [client EXCEPT ![c] = r] /\ UNCHANGED <<exists, given, links, overtaken>>
  BY DEF Look
<1>2. r.by = by /\ r.from = from /\ r.to = to
  OBVIOUS
<1> HIDE DEF r
<1>3. \A d \in Clients : client'[d] = client[d] \/ client'[d] = r
  BY <1>1
<1>4. \A d \in Clients : \A x \in client'[d].to : LinkOfKind(Link(client'[d].by, client'[d].from, x))
  BY <1>2, <1>3 DEF LinksInv
<1>5. LinksResolve'
  BY <1>1 DEF LinksInv, LinksResolve, KeptEnds, Named
<1>6. QED
  BY <1>1, <1>4, <1>5 DEF LinksInv

(* What a request writes names what is there, or counts as overtaken.       *)
LEMMA WriteStep ==
  ASSUME LinksInv, NEW c \in Clients, WriteLinks(c)
  PROVE  LinksInv'
<1> DEFINE r == client[c]
           new == {Link(r.by, r.from, x) : x \in r.to}
           dead == {l \in new : ~(Named({l.from, l.to}) \subseteq exists)}
<1>1. client' = [client EXCEPT ![c] = NoRequest] /\ UNCHANGED <<exists, given, served>>
      /\ \/ UNCHANGED <<links, overtaken>>
         \/ links' = {l \in links : ~Replaces(r, l)} \cup new /\ overtaken' = overtaken \cup dead
  BY DEF WriteLinks
<1>2. \A d \in Clients : \A x \in client'[d].to : LinkOfKind(Link(client'[d].by, client'[d].from, x))
  BY <1>1 DEF LinksInv, NoRequest
<1>3. CASE UNCHANGED <<links, overtaken>>
  BY <1>1, <1>2, <1>3 DEF LinksInv, LinksResolve, KeptEnds, Named
<1>4. CASE links' = {l \in links : ~Replaces(r, l)} \cup new /\ overtaken' = overtaken \cup dead
  <2>1. \A l \in new : LinkOfKind(l)
    BY DEF LinksInv
  <2>2. \A l \in links' : l \in links \/ l \in new
    BY <1>4
  <2>3. \A l \in new \ dead : KeptEnds(l) \subseteq exists
    BY DEF KeptEnds, Named
  <2> HIDE DEF new, dead, r
  <2>4. \A l \in links' \ overtaken' : KeptEnds(l) \subseteq exists
    BY <1>4, <2>2, <2>3 DEF LinksInv, LinksResolve
  <2>5. LinksResolve'
    BY <1>1, <2>4 DEF LinksResolve, KeptEnds, Named
  <2>6. QED
    BY <1>2, <2>1, <2>2, <2>5 DEF LinksInv
<1>5. QED
  BY <1>1, <1>3, <1>4

(* A deletion takes every link with it that names what goes and must not.   *)
LEMMA DeletionStep ==
  ASSUME LinksInv, NEW ids, NEW gone, Without(ids, gone),
         \A l \in links : LinkOfKind(l) /\ KeptEnds(l) \cap ids # {} => gone[l]
  PROVE  LinksInv'
<1>1. exists' = exists \ ids /\ links' = {l \in links : ~gone[l]} /\ UNCHANGED <<given, client, served, overtaken>>
  BY DEF Without
<1>2. \A l \in links' \ overtaken' : KeptEnds(l) \subseteq exists'
  BY <1>1 DEF LinksInv, LinksResolve
<1>3. QED
  BY <1>1, <1>2 DEF LinksInv, LinksResolve, KeptEnds, Named

(* Every step of requests, users and the indexer.                           *)
LEMMA LinksKept == LinksInv /\ [LinksNext]_linkVars => LinksInv'
<1> SUFFICES ASSUME LinksInv, [LinksNext]_linkVars PROVE LinksInv'
  OBVIOUS
<1>1. CASE UNCHANGED linkVars
  BY <1>1 DEF linkVars, LinksInv, LinksResolve, KeptEnds, Named
<1>2. ASSUME NEW c \in Clients, NEW n \in Notebooks, NEW s \in SUBSET LinkSources, SetSources(c, n, s) PROVE LinksInv'
  BY <1>2, LookStep DEF SetSources, LinkOfKind, Link
<1>3. ASSUME NEW c \in Clients, NEW n \in Notebooks, NEW d \in SUBSET LinkDocs, SetDocuments(c, n, d) PROVE LinksInv'
  BY <1>3, LookStep DEF SetDocuments, LinkOfKind, Link
<1>4. ASSUME NEW c \in Clients, NEW n \in Notebooks \cup {Nothing}, NEW d \in LinkDocs \cup {Nothing}, AddNote(c, n, d)
      PROVE  LinksInv'
  BY <1>4, LookStep DEF AddNote, LinkOfKind, Link
<1>5. ASSUME NEW c \in Clients, NEW t \in Talks, NEW id \in Notebooks \cup LinkDocs, SetScope(c, t, id) PROVE LinksInv'
  BY <1>5, LookStep DEF SetScope, LinkOfKind, Link
<1>6. ASSUME NEW c \in Clients, NEW t \in Talks, NEW d \in SUBSET LinkDocs, Cite(c, t, d) PROVE LinksInv'
  BY <1>6, LookStep DEF Cite, LinkOfKind, Link
<1>7. ASSUME NEW c \in Clients, NEW t \in Talks, AddAttachment(c, t) PROVE LinksInv'
  BY <1>7, LookStep DEF AddAttachment, LinkOfKind, Link
<1>8. ASSUME NEW n \in Notebooks, CreateNotebook(n) PROVE LinksInv'
  <2>1. exists' = exists \cup {n} /\ UNCHANGED <<links, client, served, overtaken>>
    BY <1>8 DEF CreateNotebook
  <2>2. QED
    BY <2>1 DEF LinksInv, LinksResolve, KeptEnds, Named
<1>9. ASSUME NEW d \in LinkDocs, DeleteDocument(d) PROVE LinksInv'
  <2> DEFINE gone == [l \in links |-> NamesDocument(l, {d})]
  <2>1. Without({d}, gone)
    BY <1>9 DEF DeleteDocument
  <2>2. ASSUME NEW l \in links, LinkOfKind(l), KeptEnds(l) \cap {d} # {} PROVE NamesDocument(l, {d})
    BY <2>2, LinkConstants DEF LinkOfKind, KeptEnds, Named, NamesDocument
  <2>3. \A l \in links : LinkOfKind(l) /\ KeptEnds(l) \cap {d} # {} => gone[l]
    BY <2>2
  <2> HIDE DEF gone
  <2>4. QED
    BY <2>1, <2>3, DeletionStep
<1>10. ASSUME NEW s \in LinkSources, DeleteLinkSource(s) PROVE LinksInv'
  <2> DEFINE docs == {d \in LinkDocs \cap exists : SourceOfDoc[d] = s}
             gone == [l \in links |-> NamesDocument(l, docs) \/ (l.by = "folder" /\ l.to = s)]
  <2>1. Without({s} \cup docs, gone)
    BY <1>10 DEF DeleteLinkSource
  <2>2. ASSUME NEW l \in links, LinkOfKind(l), KeptEnds(l) \cap ({s} \cup docs) # {}
        PROVE  NamesDocument(l, docs) \/ (l.by = "folder" /\ l.to = s)
    <3>0. docs \subseteq LinkDocs
      OBVIOUS
    <3> HIDE DEF docs
    <3>1. QED
      BY <2>2, <3>0, LinkConstants DEF LinkOfKind, KeptEnds, Named, NamesDocument
  <2>3. \A l \in links : LinkOfKind(l) /\ KeptEnds(l) \cap ({s} \cup docs) # {} => gone[l]
    BY <2>2
  <2> HIDE DEF gone, docs
  <2>4. QED
    BY <2>1, <2>3, DeletionStep
<1>11. ASSUME NEW n \in Notebooks, DeleteNotebook(n) PROVE LinksInv'
  <2> DEFINE gone == [l \in links |-> \/ l.by \in {"folder", "member"} /\ l.from = n
                                      \/ l.by = "scope" /\ l.to = n]
  <2>1. Without({n}, gone)
    BY <1>11 DEF DeleteNotebook
  <2>2. ASSUME NEW l \in links, LinkOfKind(l), KeptEnds(l) \cap {n} # {}
        PROVE  \/ l.by \in {"folder", "member"} /\ l.from = n
               \/ l.by = "scope" /\ l.to = n
    BY <2>2, LinkConstants DEF LinkOfKind, KeptEnds, Named
  <2>3. \A l \in links : LinkOfKind(l) /\ KeptEnds(l) \cap {n} # {} => gone[l]
    BY <2>2
  <2> HIDE DEF gone
  <2>4. QED
    BY <2>1, <2>3, DeletionStep
<1>12. ASSUME NEW t \in Talks, DeleteTalk(t) PROVE LinksInv'
  <2> DEFINE gone == [l \in links |-> l.from = t /\ l.by \in {"scope", "attachment"}]
  <2>1. Without({t}, gone)
    BY <1>12 DEF DeleteTalk
  <2>2. ASSUME NEW l \in links, LinkOfKind(l), KeptEnds(l) \cap {t} # {}
        PROVE  l.from = t /\ l.by \in {"scope", "attachment"}
    BY <2>2, LinkConstants DEF LinkOfKind, KeptEnds, Named
  <2>3. \A l \in links : LinkOfKind(l) /\ KeptEnds(l) \cap {t} # {} => gone[l]
    BY <2>2
  <2> HIDE DEF gone
  <2>4. QED
    BY <2>1, <2>3, DeletionStep
<1>13. QED
  BY <1>1, <1>2, <1>3, <1>4, <1>5, <1>6, <1>7, <1>8, <1>9, <1>10, <1>11, <1>12, WriteStep DEF LinksNext

(* Nothing names a row that is gone, whatever is deleted in whatever order, *)
(* unless the deletion came between a request's check and its write.        *)
THEOREM NamesResolve == LinksSpec => []LinksResolve
<1>1. LinksInit => LinksInv
  BY DEF LinksInit, LinksInv, LinksResolve, NoRequest
<1>2. LinksInv => LinksResolve
  BY DEF LinksInv
<1>3. QED
  BY <1>1, <1>2, LinksKept, PTL DEF LinksSpec

-----------------------------------------------------------------------------
(* SchemaUpgrade                                                            *)

LateTables == {"sessions", "library_sources", "document_chunks", "documents"}

(* The tables the script creates are those of the schema.                   *)
LEMMA TablesCreated ==
  /\ {Tables[i] : i \in 1..Len(Tables)} = TableNames
  /\ LateTables \subseteq TableNames
<1>1. DOMAIN Tables = 1..22 /\ Len(Tables) = 22
  BY DEF Tables
<1>2. Tables[2] = "sessions" /\ Tables[7] = "library_sources" /\ Tables[8] = "documents" /\ Tables[9] = "document_chunks"
  BY DEF Tables
<1>3. QED
  BY <1>1, <1>2 DEF TableNames, LateTables

(* The transaction has the columns of the tables it has passed.             *)
Passed(tables_) == \A t \in tables_ : LateColumns(t) \subseteq work.tables[t]

WorkInv ==
  /\ step \in {"stamp", "sessions", "library_sources", "document_chunks", "documents", "titles"} =>
       TableNames \subseteq DOMAIN file.tables
  /\ step \in {"sessions", "library_sources", "document_chunks", "documents", "titles"} =>
       TableNames \subseteq DOMAIN work.tables
  /\ step \in {"library_sources", "document_chunks", "documents", "titles"} => Passed({"sessions"})
  /\ step \in {"document_chunks", "documents", "titles"} => Passed({"library_sources"})
  /\ step \in {"documents", "titles"} => Passed({"document_chunks"})
  /\ step = "titles" => Passed({"documents"})

Copied == \E s \in DOMAIN backups : Keeps(backups[s])

(* Until the upgrade is committed the file keeps what was found, and past   *)
(* the copy there is a whole one.                                           *)
UpgradeInv ==
  /\ IsFile(file) /\ IsFile(work) /\ IsFile(found)
  /\ file.version = Current => Complete(file)
  /\ step = "up" => file.version = Current
  /\ WorkInv
  /\ NeedsBackup(found) /\ file.version # Current => Keeps(file)
  /\ step \in {"copy", "copying"} => NeedsBackup(file)
  /\ step = "copying" => second \in DOMAIN backups
  /\ NeedsBackup(found) /\ ~uncopied /\ (step \notin {"down", "copy", "copying"} \/ file.version = Current) => Copied

(* Nothing is open and nothing copied when the process starts first.        *)
LEMMA UpgradeStart == UpgradeInit => UpgradeInv
<1> SUFFICES ASSUME UpgradeInit PROVE UpgradeInv
  OBVIOUS
<1>1. IsFile(found) /\ (found.version = Current => Complete(found)) /\ Current \in Nat
  BY UpgradeAssumption DEF UpgradeInit
<1>2. file = found /\ work = found /\ step = "down"
  BY DEF UpgradeInit
<1>3. NeedsBackup(found) => file.version # Current
  BY <1>1, <1>2 DEF NeedsBackup, IsFile
<1>4. Keeps(file)
  BY <1>2 DEF Keeps
<1>5. QED
  BY <1>1, <1>2, <1>3, <1>4 DEF UpgradeInv, WorkInv

(* What a file is after one of its parts changes.                          *)
LEMMA FileVersion ==
  ASSUME NEW f, IsFile(f), NEW v \in Nat
  PROVE  /\ IsFile([f EXCEPT !.version = v])
         /\ [f EXCEPT !.version = v].version = v
         /\ [f EXCEPT !.version = v].tables = f.tables
         /\ [f EXCEPT !.version = v].oldTitles = f.oldTitles
<1>1. [f EXCEPT !.version = v] = [version |-> v, tables |-> f.tables, oldTitles |-> f.oldTitles]
  BY DEF IsFile
<1>2. f.version \in Nat /\ f.oldTitles \in BOOLEAN /\ f.tables = [t \in DOMAIN f.tables |-> f.tables[t]]
  BY DEF IsFile
<1>3. QED
  BY <1>1, <1>2 DEF IsFile

(* The titles are one part ...                                             *)
LEMMA FileTitles ==
  ASSUME NEW f, IsFile(f), NEW o \in BOOLEAN
  PROVE  /\ IsFile([f EXCEPT !.oldTitles = o])
         /\ [f EXCEPT !.oldTitles = o].version = f.version
         /\ [f EXCEPT !.oldTitles = o].tables = f.tables
         /\ [f EXCEPT !.oldTitles = o].oldTitles = o
<1>1. [f EXCEPT !.oldTitles = o] = [version |-> f.version, tables |-> f.tables, oldTitles |-> o]
  BY DEF IsFile
<1>2. f.version \in Nat /\ f.oldTitles \in BOOLEAN /\ f.tables = [t \in DOMAIN f.tables |-> f.tables[t]]
  BY DEF IsFile
<1>3. QED
  BY <1>1, <1>2 DEF IsFile

(* ... and the tables another.                                             *)
LEMMA FileTables ==
  ASSUME NEW f, IsFile(f), NEW g, g = [t \in DOMAIN g |-> g[t]]
  PROVE  /\ IsFile([f EXCEPT !.tables = g])
         /\ [f EXCEPT !.tables = g].version = f.version
         /\ [f EXCEPT !.tables = g].tables = g
         /\ [f EXCEPT !.tables = g].oldTitles = f.oldTitles
<1>1. [f EXCEPT !.tables = g] = [version |-> f.version, tables |-> g, oldTitles |-> f.oldTitles]
  BY DEF IsFile
<1>2. f.version \in Nat /\ f.oldTitles \in BOOLEAN /\ f.tables = [t \in DOMAIN f.tables |-> f.tables[t]]
  BY DEF IsFile
<1>3. QED
  BY <1>1, <1>2 DEF IsFile

(* The script adds tables, and takes none and changes none.                 *)
LEMMA CreateAdds ==
  ASSUME NEW f, IsFile(f), NEW n \in 0..Len(Tables)
  PROVE  /\ IsFile(Create(f, n)) /\ Create(f, n).version = f.version /\ Create(f, n).oldTitles = f.oldTitles
         /\ DOMAIN f.tables \subseteq DOMAIN Create(f, n).tables
         /\ \A t \in DOMAIN f.tables : Create(f, n).tables[t] = f.tables[t]
         /\ n = Len(Tables) => TableNames \subseteq DOMAIN Create(f, n).tables
<1> DEFINE T == DOMAIN f.tables \cup {Tables[i] : i \in 1..n}
           g == [t \in T |-> IF t \in DOMAIN f.tables THEN f.tables[t] ELSE CreatedWith(t)]
<1>1. Create(f, n) = [f EXCEPT !.tables = g]
  BY DEF Create
<1>2. T = DOMAIN g /\ g = [t \in T |-> g[t]] /\ DOMAIN f.tables \subseteq T
      /\ \A t \in DOMAIN f.tables : g[t] = f.tables[t]
  OBVIOUS
<1>3. n = Len(Tables) => TableNames \subseteq T
  BY TablesCreated
<1> HIDE DEF T, g
<1>4. /\ IsFile([f EXCEPT !.tables = g]) /\ [f EXCEPT !.tables = g].tables = g
      /\ [f EXCEPT !.tables = g].version = f.version /\ [f EXCEPT !.tables = g].oldTitles = f.oldTitles
  BY <1>2, FileTables
<1>5. QED
  BY <1>1, <1>2, <1>3, <1>4

(* Opening and copying                                                      *)
LEMMA CopyStep ==
  ASSUME UpgradeInv, OpenFile \/ BeginCopy \/ EndCopy \/ CopyFails \/ LeaveInit \/ SecondPasses
  PROVE  UpgradeInv'
<1>0. UNCHANGED <<file, found>> /\ IsFile(file) /\ IsFile(found) /\ Current \in Nat
  BY UpgradeAssumption DEF OpenFile, BeginCopy, EndCopy, CopyFails, LeaveInit, SecondPasses, UpgradeInv
<1>1. NeedsBackup(file) => file.version # Current
  BY <1>0 DEF NeedsBackup, IsFile
<1> USE <1>0 DEF UpgradeInv, WorkInv, Keeps, Complete, IsFile, NeedsBackup, Exists
<1>2. CASE OpenFile
  <2>1. ~NeedsBackup(file) /\ NeedsBackup(found) => file.version = Current
    OBVIOUS
  <2>2. QED
    BY <1>2, <2>1 DEF OpenFile, Copied
<1>3. CASE BeginCopy
  BY <1>1, <1>3 DEF BeginCopy
<1>4. CASE EndCopy
  <2>1. step = "copying" /\ step' = "script" /\ backups' = [backups EXCEPT ![second] = file] /\ UNCHANGED <<work, uncopied>>
    BY <1>4 DEF EndCopy
  <2>2. second \in DOMAIN backups' /\ backups'[second] = file
    BY <2>1
  <2>3. NeedsBackup(found) => Copied'
    BY <1>1, <2>1, <2>2 DEF Copied
  <2>4. QED
    BY <2>1, <2>3
<1>5. CASE CopyFails
  BY <1>5 DEF CopyFails
<1>6. CASE LeaveInit
  BY <1>6 DEF LeaveInit, Copied
<1>7. CASE SecondPasses
  BY <1>7 DEF SecondPasses, Copied
<1>8. QED
  BY <1>2, <1>3, <1>4, <1>5, <1>6, <1>7

(* The script, whole or in part, outside of a transaction                   *)
LEMMA ScriptStep ==
  ASSUME UpgradeInv, NEW n \in 0..Len(Tables), RunScript(n)
  PROVE  UpgradeInv'
<1>1. /\ step = "script" /\ step' \in {"stamp", "down"} /\ (step' = "stamp" => n = Len(Tables))
      /\ file' = Create(file, n) /\ UNCHANGED <<found, work, backups, second, opens, uncopied>>
  BY DEF RunScript
<1>2. /\ IsFile(file') /\ file'.version = file.version /\ file'.oldTitles = file.oldTitles
      /\ DOMAIN file.tables \subseteq DOMAIN file'.tables
      /\ \A t \in DOMAIN file.tables : file'.tables[t] = file.tables[t]
      /\ n = Len(Tables) => TableNames \subseteq DOMAIN file'.tables
  BY <1>1, CreateAdds DEF UpgradeInv
<1>3. Complete(file) => Complete(file')
  BY <1>2 DEF Complete
<1>4. Keeps(file) => Keeps(file)'
  BY <1>1, <1>2 DEF Keeps
<1>5. WorkInv'
  BY <1>1, <1>2 DEF WorkInv
<1>6. (Copied' <=> Copied) /\ (NeedsBackup(found)' <=> NeedsBackup(found))
  BY <1>1 DEF Copied, Keeps, NeedsBackup, Exists
<1>7. IsFile(work)' /\ IsFile(found)' /\ (Complete(file') => Complete(file)')
  BY <1>1 DEF UpgradeInv, IsFile, Complete
<1>8. IsFile(file)'
  BY <1>2 DEF IsFile
<1>9. QED
  BY <1>1, <1>2, <1>3, <1>4, <1>5, <1>6, <1>7, <1>8 DEF UpgradeInv

(* What the transaction has so far is not seen in the file.                 *)
LEMMA WorkStep ==
  ASSUME UpgradeInv, UNCHANGED <<file, found, backups, second, uncopied>>, IsFile(work)', WorkInv',
         step \notin {"down", "copy", "copying"}, step' \notin {"copy", "copying", "up"}
  PROVE  UpgradeInv'
BY DEF UpgradeInv, IsFile, Complete, Keeps, Copied, NeedsBackup, Exists

(* The columns of one table                                                 *)
LEMMA ColumnsAdded ==
  ASSUME NEW f, IsFile(f), NEW t \in DOMAIN f.tables
  PROVE  LET g == [f EXCEPT !.tables[t] = @ \cup LateColumns(t)]
         IN  /\ IsFile(g) /\ DOMAIN g.tables = DOMAIN f.tables
             /\ LateColumns(t) \subseteq g.tables[t]
             /\ \A u \in DOMAIN f.tables \ {t} : g.tables[u] = f.tables[u]
<1> DEFINE h == [f.tables EXCEPT ![t] = f.tables[t] \cup LateColumns(t)]
<1>1. [f EXCEPT !.tables[t] = @ \cup LateColumns(t)] = [f EXCEPT !.tables = h]
  BY DEF IsFile
<1>2. /\ h = [u \in DOMAIN h |-> h[u]] /\ DOMAIN h = DOMAIN f.tables /\ h[t] = f.tables[t] \cup LateColumns(t)
      /\ \A u \in DOMAIN f.tables \ {t} : h[u] = f.tables[u]
  OBVIOUS
<1> HIDE DEF h
<1>3. IsFile([f EXCEPT !.tables = h]) /\ [f EXCEPT !.tables = h].tables = h
  BY <1>2, FileTables
<1>4. QED
  BY <1>1, <1>2, <1>3

(* The version, then the columns of each table                              *)
LEMMA AlterStep ==
  ASSUME UpgradeInv, StampVersion \/ AlterSessions \/ AlterSources \/ AlterChunks \/ AlterDocuments
  PROVE  UpgradeInv'
<1>0. Current \in Nat /\ IsFile(file) /\ IsFile(work) /\ LateTables \subseteq TableNames
  BY UpgradeAssumption, TablesCreated DEF UpgradeInv
<1>1. CASE StampVersion
  <2>1. /\ step = "stamp" /\ step' = "sessions" /\ work' = [file EXCEPT !.version = Current]
        /\ UNCHANGED <<file, found, backups, second, opens, uncopied>>
    BY <1>1 DEF StampVersion, Stamped
  <2>2. IsFile(work') /\ work'.tables = file.tables
    BY <1>0, <2>1, FileVersion
  <2>3. WorkInv'
    BY <2>1, <2>2 DEF UpgradeInv, WorkInv
  <2>4. IsFile(work)'
    BY <2>2 DEF IsFile
  <2>5. QED
    BY <2>1, <2>3, <2>4, WorkStep
<1>2. ASSUME NEW t \in LateTables, NEW next \in {"library_sources", "document_chunks", "documents", "titles"},
             AddColumns(t, next)
      PROVE  /\ step = t /\ step' = next /\ UNCHANGED <<file, found, backups, second, opens, uncopied>>
             /\ IsFile(work)' /\ TableNames \subseteq DOMAIN work'.tables /\ Passed({t})'
             /\ \A u \in LateTables \ {t} : Passed({u}) => Passed({u})'
  <2>1. /\ step = t /\ step' = next /\ work' = [work EXCEPT !.tables[t] = @ \cup LateColumns(t)]
        /\ UNCHANGED <<file, found, backups, second, opens, uncopied>>
    BY <1>2 DEF AddColumns
  <2>2. TableNames \subseteq DOMAIN work.tables /\ t \in DOMAIN work.tables
    BY <1>0, <2>1 DEF UpgradeInv, WorkInv, LateTables
  <2>3. /\ IsFile(work') /\ DOMAIN work'.tables = DOMAIN work.tables /\ LateColumns(t) \subseteq work'.tables[t]
        /\ \A u \in DOMAIN work.tables \ {t} : work'.tables[u] = work.tables[u]
    BY <1>0, <2>1, <2>2, ColumnsAdded
  <2>4. IsFile(work)'
    BY <2>3 DEF IsFile
  <2>o. \A u \in LateTables \ {t} : Passed({u}) => Passed({u})'
    BY <1>0, <2>2, <2>3 DEF Passed
  <2>5. QED
    BY <2>o, <2>1, <2>2, <2>3, <2>4 DEF Passed
<1>3. CASE AlterSessions
  <2>1. "sessions" \in LateTables /\ AddColumns("sessions", "library_sources")
    BY <1>3 DEF AlterSessions, LateTables
  <2>2. /\ step = "sessions" /\ step' = "library_sources" /\ UNCHANGED <<file, found, backups, second, opens, uncopied>>
        /\ IsFile(work)' /\ TableNames \subseteq DOMAIN work'.tables /\ Passed({"sessions"})'
    BY <1>2, <2>1
  <2>3. WorkInv'
    BY <2>2 DEF UpgradeInv, WorkInv
  <2>4. QED
    BY <2>2, <2>3, WorkStep
<1>4. CASE AlterSources
  <2>1. {"library_sources", "sessions"} \subseteq LateTables /\ AddColumns("library_sources", "document_chunks")
    BY <1>4 DEF AlterSources, LateTables
  <2>2. /\ step = "library_sources" /\ step' = "document_chunks"
        /\ UNCHANGED <<file, found, backups, second, opens, uncopied>>
        /\ IsFile(work)' /\ TableNames \subseteq DOMAIN work'.tables /\ Passed({"library_sources"})'
        /\ Passed({"sessions"}) => Passed({"sessions"})'
    BY <1>2, <2>1
  <2>3. WorkInv'
    BY <2>2 DEF UpgradeInv, WorkInv
  <2>4. QED
    BY <2>2, <2>3, WorkStep
<1>5. CASE AlterChunks
  <2>1. {"document_chunks", "library_sources", "sessions"} \subseteq LateTables /\ AddColumns("document_chunks", "documents")
    BY <1>5 DEF AlterChunks, LateTables
  <2>2. /\ step = "document_chunks" /\ step' = "documents" /\ UNCHANGED <<file, found, backups, second, opens, uncopied>>
        /\ IsFile(work)' /\ TableNames \subseteq DOMAIN work'.tables /\ Passed({"document_chunks"})'
        /\ \A u \in {"library_sources", "sessions"} : Passed({u}) => Passed({u})'
    BY <1>2, <2>1
  <2>3. WorkInv'
    BY <2>2 DEF UpgradeInv, WorkInv
  <2>4. QED
    BY <2>2, <2>3, WorkStep
<1>6. CASE AlterDocuments
  <2>1. {"documents", "document_chunks", "library_sources", "sessions"} \subseteq LateTables /\ AddColumns("documents", "titles")
    BY <1>6 DEF AlterDocuments, LateTables
  <2>2. /\ step = "documents" /\ step' = "titles" /\ UNCHANGED <<file, found, backups, second, opens, uncopied>>
        /\ IsFile(work)' /\ TableNames \subseteq DOMAIN work'.tables /\ Passed({"documents"})'
        /\ \A u \in {"document_chunks", "library_sources", "sessions"} : Passed({u}) => Passed({u})'
    BY <1>2, <2>1
  <2>3. WorkInv'
    BY <2>2 DEF UpgradeInv, WorkInv
  <2>4. QED
    BY <2>2, <2>3, WorkStep
<1>7. QED
  BY <1>1, <1>3, <1>4, <1>5, <1>6

(* What is committed is complete.                                           *)
LEMMA CommitStep ==
  ASSUME UpgradeInv, RenameAndCommit
  PROVE  UpgradeInv'
<1>0. Current \in Nat /\ IsFile(work)
  BY UpgradeAssumption DEF UpgradeInv
<1> DEFINE f == [work EXCEPT !.oldTitles = FALSE]
<1>1. /\ step = "titles" /\ step' = "up" /\ work' = [f EXCEPT !.version = Current] /\ file' = work'
      /\ UNCHANGED <<found, backups, second, opens, uncopied>>
  BY DEF RenameAndCommit, Stamped
<1>2. IsFile(f) /\ f.oldTitles = FALSE /\ f.tables = work.tables
  BY <1>0, FileTitles
<1> HIDE DEF f
<1>3. IsFile(file') /\ file'.version = Current /\ file'.oldTitles = FALSE /\ file'.tables = work.tables
  BY <1>0, <1>1, <1>2, FileVersion
<1>4. TableNames \subseteq DOMAIN work.tables /\ \A t \in LateTables : LateColumns(t) \subseteq work.tables[t]
  BY <1>1 DEF UpgradeInv, WorkInv, Passed, LateTables
<1>5. \A t \in TableNames : t \notin LateTables => LateColumns(t) = {}
  BY DEF LateColumns, LateTables
<1>6. Complete(file)'
  BY <1>3, <1>4, <1>5 DEF Complete
<1>7. WorkInv'
  BY <1>1 DEF WorkInv
<1>8. NeedsBackup(found) /\ ~uncopied => Copied
  BY <1>1 DEF UpgradeInv
<1>9. (Copied' <=> Copied) /\ (NeedsBackup(found)' <=> NeedsBackup(found)) /\ (IsFile(found)' <=> IsFile(found))
  BY <1>1 DEF Copied, Keeps, NeedsBackup, Exists, IsFile
<1>10. IsFile(file)' /\ IsFile(work)'
  BY <1>1, <1>3 DEF IsFile
<1>11. QED
  BY <1>1, <1>3, <1>6, <1>7, <1>8, <1>9, <1>10 DEF UpgradeInv

(* Every step of opening the database                                       *)
LEMMA UpgradeKept == UpgradeInv /\ [UpgradeNext]_upgradeVars => UpgradeInv'
<1> SUFFICES ASSUME UpgradeInv, [UpgradeNext]_upgradeVars PROVE UpgradeInv'
  OBVIOUS
<1>1. CASE UNCHANGED upgradeVars
  BY <1>1 DEF upgradeVars, UpgradeInv, WorkInv, Passed, IsFile, Complete, Keeps, Copied, NeedsBackup, Exists
<1>2. CASE UpgradeNext
  BY <1>2, CopyStep, ScriptStep, AlterStep, CommitStep DEF UpgradeNext
<1>3. QED
  BY <1>1, <1>2

(* Wherever opening the database is cut off, and however often: a file that *)
(* says it has the current schema has all of it, and a whole copy of what   *)
(* an earlier build left is there.                                          *)
THEOREM UpgradeIsSafe == UpgradeSpec => []UpgradeKeepsData
<1>1. UpgradeInv => UpgradeKeepsData
  BY DEF UpgradeInv, UpgradeKeepsData, Copied
<1>2. QED
  BY <1>1, UpgradeStart, UpgradeKept, PTL DEF UpgradeSpec

-----------------------------------------------------------------------------
(* LibraryIndex                                                             *)

(* The tables are indexed by files and by document ids.                     *)
ChunksInv ==
  /\ DOMAIN rows = Paths /\ DOMAIN chunks = DocIds
  /\ ChunksHaveDocument

(* Steps of the index that leave documents and chunks alone                 *)
LEMMA ChunksQuiet == ChunksInv /\ UNCHANGED <<rows, chunks>> => ChunksInv'
BY DEF ChunksInv, ChunksHaveDocument, RowIds

(* A deletion of rows takes their chunks with it.                           *)
LEMMA RowsDeleted ==
  ASSUME ChunksInv, NEW gone, DeleteRows(gone)
  PROVE  ChunksInv'
<1>1. /\ rows' = [p \in Paths |-> IF p \in gone THEN NoRow ELSE rows[p]]
      /\ chunks' = [d \in DocIds |-> IF \E p \in gone : rows[p].id = d THEN NoChunks ELSE chunks[d]]
  BY DEF DeleteRows
<1>2. ASSUME NEW d \in DocIds, chunks'[d].of # 0 PROVE d \in RowIds'
  <2>1. ~(\E p \in gone : rows[p].id = d) /\ chunks'[d] = chunks[d]
    BY <1>1, <1>2 DEF NoChunks
  <2>2. PICK p \in Paths : rows[p].id = d
    BY <1>2, <2>1 DEF ChunksInv, ChunksHaveDocument, RowIds
  <2>3. rows'[p] = rows[p] /\ d # 0
    BY <1>1, <2>1, <2>2 DEF DocIds
  <2>4. QED
    BY <2>2, <2>3 DEF RowIds
<1>3. QED
  BY <1>1, <1>2 DEF ChunksInv, ChunksHaveDocument

(* The two transactions of a document                                       *)
LEMMA RowAndChunks ==
  ASSUME ChunksInv, NEW w \in Writers, UpsertDocument(w) \/ ReplaceChunks(w)
  PROVE  ChunksInv'
<1> DEFINE me == writer[w]
<1>1. CASE UpsertDocument(w)
  <2> DEFINE old == rows[me.path]
             id == IF old.id = 0 THEN lastId + 1 ELSE old.id
             row == DocumentRow(me, id)
  <2>1. rows' = [rows EXCEPT ![me.path] = row] /\ UNCHANGED chunks /\ id \in DocIds
    BY <1>1 DEF UpsertDocument
  <2>2. row.id = id /\ (old.id # 0 => id = old.id)
    BY DEF DocumentRow
  <2> HIDE DEF row, id
  <2>3. DOMAIN rows' = Paths
    BY <2>1 DEF ChunksInv
  <2>4. RowIds \subseteq RowIds'
    <3> SUFFICES ASSUME NEW p \in Paths, rows[p].id # 0 PROVE rows[p].id \in RowIds'
      BY DEF RowIds
    <3>1. rows'[p].id = rows[p].id
      BY <2>1, <2>2 DEF ChunksInv
    <3>2. QED
      BY <3>1 DEF RowIds
  <2>5. QED
    BY <2>1, <2>3, <2>4 DEF ChunksInv, ChunksHaveDocument
<1>2. CASE ReplaceChunks(w)
  <2>1. /\ UNCHANGED rows
        /\ \/ UNCHANGED chunks
           \/ me.id \in RowIds /\ chunks' = [chunks EXCEPT ![me.id] = [of |-> me.text, embedded |-> me.embedded]]
    BY <1>2, Zenon DEF ReplaceChunks
  <2>2. RowIds' = RowIds
    BY <2>1 DEF RowIds
  <2>3. DOMAIN chunks' = DocIds /\ \A d \in DocIds : d = me.id \/ chunks'[d] = chunks[d]
    BY <2>1 DEF ChunksInv
  <2>4. CASE UNCHANGED chunks
    BY <2>1, <2>4, ChunksQuiet
  <2>5. CASE me.id \in RowIds
    BY <2>1, <2>2, <2>3, <2>5 DEF ChunksInv, ChunksHaveDocument
  <2>6. QED
    BY <2>1, <2>4, <2>5
<1>3. QED
  BY <1>1, <1>2

(* Everything else the two writers, the files and the requests do           *)
LEMMA ChunksKept == ChunksInv /\ [Next]_vars => ChunksInv'
<1> SUFFICES ASSUME ChunksInv, [Next]_vars PROVE ChunksInv'
  OBVIOUS
<1>1. CASE UNCHANGED vars
  BY <1>1, ChunksQuiet DEF vars
<1>2. ASSUME NEW p \in Paths, WriteFile(p) \/ DeleteFile(p) \/ Observe(p) PROVE UNCHANGED <<rows, chunks>>
  BY <1>2 DEF WriteFile, DeleteFile, Observe, tables
<1>3. CASE TakeJob \/ RefuseJob \/ Restart \/ SwitchSemantic
  BY <1>3, ChunksQuiet DEF TakeJob, RefuseJob, Restart, SwitchSemantic, tables
<1>4. ASSUME NEW s \in Sources, AddSource(s) \/ ReindexLibrary(s) PROVE UNCHANGED <<rows, chunks>>
  BY <1>4 DEF AddSource, ReindexLibrary, tables
<1>5. ASSUME NEW s \in Sources, IndexEmptySource(s) \/ RemoveSource(s) \/ RemoveGrant(s)
      PROVE  UNCHANGED <<rows, chunks>>
  BY <1>5 DEF IndexEmptySource, RemoveSource, RemoveGrant, Requests
<1>6. ASSUME NEW s \in Sources, NEW p \in Paths, Attach(s, p) PROVE UNCHANGED <<rows, chunks>>
  BY <1>6 DEF Attach, Requests
<1>7. ASSUME NEW w \in Writers, IndexFile(w) PROVE ChunksInv'
  <2>1. CASE CheckUnchanged(w) \/ Extract(w) \/ ExtractFails(w)
    BY <2>1, ChunksQuiet DEF CheckUnchanged, Extract, ExtractFails, tables
  <2>2. CASE UpsertDocument(w) \/ ReplaceChunks(w)
    BY <2>2, RowAndChunks
  <2>3. CASE ReplaceVectors(w) \/ VectorsFail(w) \/ ReportIndexed(w)
    BY <2>3, ChunksQuiet DEF ReplaceVectors, VectorsFail, ReportIndexed, tables
  <2>4. QED
    BY <1>7, <2>1, <2>2, <2>3 DEF IndexFile
<1>8. ASSUME NEW w \in Writers, Reindex(w) PROVE ChunksInv'
  <2>1. ASSUME NEW p \in Paths, VisitFile(w, p) PROVE UNCHANGED <<rows, chunks>>
    BY <2>1 DEF VisitFile, tables
  <2>2. CASE Purge(w)
    BY <2>2, RowsDeleted DEF Purge
  <2>3. CASE ReportFailures(w) \/ ListDocuments(w) \/ PruneVectors(w)
    BY <2>3, ChunksQuiet DEF ReportFailures, ListDocuments, PruneVectors, tables
  <2>4. QED
    BY <1>8, <2>1, <2>2, <2>3, ChunksQuiet DEF Reindex
<1>9. ASSUME NEW w \in Writers, Removal(w) PROVE ChunksInv'
  <2>1. CASE RemoveVectors(w)
    BY <2>1, ChunksQuiet DEF RemoveVectors
  <2>2. CASE RemovePath(w)
    BY <2>2, RowsDeleted DEF RemovePath
  <2>3. CASE DeleteSource(w)
    BY <2>3, RowsDeleted DEF DeleteSource
  <2>4. QED
    BY <1>9, <2>1, <2>2, <2>3 DEF Removal
<1>10. QED
  BY <1>1, <1>2, <1>3, <1>4, <1>5, <1>6, <1>7, <1>8, <1>9, ChunksQuiet DEF Next

(* Chunks, which the search reads, have their document, whatever the two    *)
(* writers, deletions and crashes do in between: for any files and sources. *)
THEOREM DocumentsOfChunks == Spec => []ChunksHaveDocument
<1>1. Init => ChunksInv
  BY DEF Init, ChunksInv, ChunksHaveDocument, NoChunks
<1>2. ChunksInv => ChunksHaveDocument
  BY DEF ChunksInv
<1>3. QED
  BY <1>1, <1>2, ChunksKept, PTL DEF Spec

-----------------------------------------------------------------------------
(* The index shows every file when it is at rest                            *)
(*                                                                          *)
(* At rest nothing is queued and no writer is at work, so the invariant has *)
(* to say who will still see to a file that the index does not show.  Of a  *)
(* file that is not behind, and whose last change the observer has seen, it *)
(* names for each thing that may be wrong the job, the place of the worker  *)
(* or the list of a rescan that puts it right (Tasks).  A row has its       *)
(* chunks and vectors, or one writer has them in hand, or the row is on its *)
(* way out, or another source's job is to replace it (Present, Holds).      *)
(* Below that, what the tables and the records of the writers may hold      *)
(* (Basics): above all that versions never run ahead of the file.           *)

W == writer["worker"]

\* Where a writer is at one file, and what else it does.
AtFile == {"check", "read", "row", "chunks", "vectors"}
Looking == {"check", "read", "row"}
Writing == {"chunks", "vectors"}
Scanning == {"scan"} \cup AtFile
Places == {"idle", "list", "prune", "clear", "scan", "report", "unvector", "drop", "unsource"} \cup AtFile
Ops == {"none", "upsert", "rescan", "attach", "delete", "remove"}

JobSet ==
  {RescanOf(s) : s \in Sources}
  \cup UNION {{FileJob(op, s, p) : op \in {"upsert", "delete"}, p \in Covers[s]} : s \in Sources}

WriterRecord ==
  [at : Places, op : Ops, source : Sources \cup {"none"}, path : Paths \cup {"none"}, stat : Nat,
   text : Nat, embedded : BOOLEAN, id : 0 .. MaxDocs, mine : BOOLEAN,
   todo : SUBSET Paths, found : SUBSET Paths, failed : SUBSET Paths, valid : SUBSET Nat]
RowRecord == [id : 0 .. MaxDocs, source : Sources \cup {"none"}, stat : Nat, text : Nat]

IndexTypes ==
  /\ disk \in [Paths -> Nat] /\ seen \in [Paths -> Nat] /\ version \in Nat \ {0}
  /\ queue \in Seq(JobSet)
  /\ sources \subseteq Sources /\ watched \subseteq Sources
  /\ rows \in [Paths -> RowRecord] /\ lastId \in 0 .. MaxDocs
  /\ chunks \in [DocIds -> [of : Nat, embedded : BOOLEAN]]
  /\ vectors \in [DocIds -> {"none", "live", "stale"}]
  /\ failures \subseteq Sources \X Paths /\ semantic \in BOOLEAN
  /\ writer \in [Writers -> WriterRecord]
  /\ behind \subseteq Paths /\ odd \in Nat

\* Where a writer is goes with what it does, and with which file.
Shape(me) ==
  /\ me.op # "none" => me.source \in Sources
  /\ me.at \in AtFile => me.op \in {"upsert", "rescan", "attach"} /\ me.path \in Covers[me.source]
  /\ me.at = "clear" => me.op \in {"upsert", "attach"} /\ me.path \in Covers[me.source]
  /\ me.at \in {"scan", "report"} => me.op = "rescan"
  /\ me.at \in {"unvector", "drop"} => me.op = "delete" /\ me.path \in Covers[me.source]
  /\ me.op = "delete" => me.at \in {"unvector", "drop"}
  /\ me.op = "rescan" => me.todo \subseteq Covers[me.source] /\ me.found \subseteq Covers[me.source]
  /\ me.at = "unsource" => me.op = "remove"
  /\ me.at \in Writing <=> me.id # 0

Shapes ==
  /\ \A w \in Writers : Shape(writer[w])
  /\ writer["worker"].op \in {"none", "upsert", "rescan", "delete"}
  /\ writer["request"].op \in {"none", "attach", "rescan", "remove"}

\* The text of a row is no older than its size and time, could be extracted
\* and is not ahead of the file.
RowVersions(p) ==
  IF rows[p].id = 0 THEN rows[p] = NoRow
  ELSE /\ 1 <= rows[p].stat /\ rows[p].stat <= rows[p].text /\ rows[p].text <= version
       /\ rows[p].text \notin Bad /\ rows[p].source \in Sources /\ p \in Covers[rows[p].source]
       /\ disk[p] # 0 => rows[p].text <= disk[p]

\* The same of a writer on its way to a row.
WriterVersions(me) ==
  /\ me.at \in Looking => 1 <= me.stat /\ me.stat <= version
                          /\ (disk[me.path] # 0 => me.stat <= disk[me.path])
  /\ me.at = "row" => me.stat <= me.text /\ me.text <= version /\ me.text \notin Bad
                      /\ (disk[me.path] # 0 => me.text <= disk[me.path])

VersionsOK ==
  /\ \A p \in Paths : disk[p] <= version /\ seen[p] <= version /\ RowVersions(p)
  /\ \A w \in Writers : WriterVersions(writer[w])

\* A document id is that of one file, in the rows and in the writers' hands.
IdsOK ==
  /\ \A p \in Paths : rows[p].id <= lastId
  /\ \A p, q \in Paths : rows[p].id = rows[q].id /\ rows[p].id # 0 => p = q
  /\ \A w \in Writers : writer[w].id <= lastId
  /\ \A w \in Writers, q \in Paths : writer[w].id # 0 /\ rows[q].id = writer[w].id => q = writer[w].path
  /\ \A v, w \in Writers : writer[v].id # 0 /\ writer[v].id = writer[w].id => writer[v].path = writer[w].path

Basics == IndexTypes /\ Shapes /\ VersionsOK /\ IdsOK

\* Every source above a file is registered and watched.
Covered == \A s \in Sources : \A p \in Covers[s] \ behind : s \in sources /\ s \in watched

Jobs == {queue[i] : i \in DOMAIN queue}
Ahead(q, a, b) == \E i, j \in DOMAIN q : i < j /\ q[i] = a /\ q[j] = b
Settled(p) == seen[p] = disk[p]
Good(p) == disk[p] # 0 /\ disk[p] \notin Bad

\* The job that deletes a file which is there again comes before the one that
\* indexes it.
InOrderOK(s, p) ==
  /\ FileJob("delete", s, p) \in Jobs => FileJob("upsert", s, p) \in Jobs
  /\ ~Ahead(queue, FileJob("upsert", s, p), FileJob("delete", s, p))
Orders == \A s \in Sources : \A p \in Covers[s] \ behind : Settled(p) /\ disk[p] # 0 => InOrderOK(s, p)

\* A job that will look at the file for the source s.
Queued(s, p) ==
  \/ RescanOf(s) \in Jobs \/ FileJob("upsert", s, p) \in Jobs
  \/ disk[p] = 0 /\ FileJob("delete", s, p) \in Jobs

\* The worker is at this file for s; it goes through the folder of s.
At(op, s, p) == W.op = op /\ W.source = s /\ W.path = p
Rescans(s) == W.op = "rescan" /\ W.source = s /\ W.at \in Scanning

\* The present version will be indexed for s.
Doing(s, p) ==
  \/ Queued(s, p)
  \/ (At("upsert", s, p) \/ At("rescan", s, p)) /\ W.at \in Looking /\ W.stat = disk[p]
  \/ Rescans(s) /\ p \in W.todo

\* What a job under way may still get wrong, and what then follows it: a
\* deletion, an old version at hand, the lists of a rescan.
Deleted(s, p) == At("delete", s, p) /\ disk[p] # 0 => Queued(s, p)
Worked(s, p) ==
  (At("upsert", s, p) \/ At("rescan", s, p)) /\ W.at \in AtFile \cup {"clear"} =>
    \/ Queued(s, p)
    \/ W.at \in Looking /\ W.stat = disk[p]
    \/ W.at \in {"chunks", "vectors", "clear"} /\ Good(p)
Found(s, p) == W.op = "rescan" /\ W.source = s /\ p \in W.found => Queued(s, p) \/ Good(p)
Scanned(s, p) ==
  Rescans(s) /\ disk[p] # 0 =>
    \/ Queued(s, p) \/ p \in W.todo \/ p \in W.found \/ (W.at # "scan" /\ W.path = p)
    \/ (p \in W.failed /\ disk[p] \in Bad)
Reported(s, p) ==
  W.at = "report" /\ W.source = s /\ disk[p] \in Bad => Queued(s, p) \/ p \in W.failed

\* What the index may still show wrongly of a file, and who puts it right: the
\* row of a missing one, the failure of an unreadable one, a version.
Gone(s, p) ==
  disk[p] = 0 /\ rows[p].id # 0 /\ rows[p].source = s => Queued(s, p) \/ At("delete", s, p) \/ Rescans(s)
Failing(s, p) ==
  disk[p] \in Bad =>
    \/ <<s, p>> \in failures \/ Queued(s, p)
    \/ At("upsert", s, p) /\ W.at \in {"check", "read"} /\ W.stat = disk[p]
    \/ Rescans(s) \/ (W.at = "report" /\ W.source = s)
Wanted(s, p) ==
  Good(p) /\ rows[p].stat # disk[p] => \E t \in Sources : p \in Covers[t] /\ Doing(t, p)

Tasks(s, p) ==
  Deleted(s, p) /\ Worked(s, p) /\ Found(s, p) /\ Scanned(s, p) /\ Reported(s, p)
  /\ Gone(s, p) /\ Failing(s, p) /\ Wanted(s, p)

\* The text of the row is what the search reads.
TextStored(p) ==
  /\ chunks[rows[p].id].of = rows[p].text
  /\ chunks[rows[p].id].embedded => vectors[rows[p].id] = "live"

\* A writer is between the row and its vectors, with that very text.
InHand(w, p) ==
  /\ writer[w].path = p /\ writer[w].id = rows[p].id
  /\ \/ writer[w].at = "chunks" /\ writer[w].text = rows[p].text
     \/ /\ writer[w].at = "vectors" /\ writer[w].mine
        /\ chunks[rows[p].id].of = rows[p].text /\ chunks[rows[p].id].embedded = writer[w].embedded

\* The row is to be written anew for another source, whatever its version.
Replaced(s, p) ==
  \E t \in Sources : /\ t # s /\ p \in Covers[t]
                     /\ Settled(p) /\ disk[p] # 0 /\ rows[p].stat = disk[p] => Doing(t, p)

Present(s, p) ==
  rows[p].id # 0 /\ rows[p].source = s =>
    \/ TextStored(p) \/ \E w \in Writers : InHand(w, p)
    \/ At("delete", s, p) /\ W.at = "drop"
    \/ Replaced(s, p)
Holds(p) ==
  /\ \A v, w \in Writers : writer[v].id # 0 /\ writer[w].id # 0 /\ writer[v].path = p /\ writer[w].path = p => v = w
  /\ \A w \in Writers : writer[w].id # 0 /\ writer[w].path = p /\ writer[w].id = rows[p].id => InHand(w, p)

FilesOK == \A s \in Sources : \A p \in Covers[s] \ behind : (Settled(p) => Tasks(s, p)) /\ Present(s, p) /\ Holds(p)

IndexInv == Basics /\ Covered /\ Orders /\ FilesOK

-----------------------------------------------------------------------------
(* What each step does to the records of the writers                        *)


(* What a step of a writer leaves as it was *)
SameWork(r, me) == r.op = me.op /\ r.source = me.source
SameFile(r, me) == r.path = me.path /\ r.stat = me.stat /\ r.text = me.text /\ r.embedded = me.embedded
SameIds(r, me) == r.id = me.id /\ r.mine = me.mine
SameLists(r, me) == r.todo = me.todo /\ r.found = me.found /\ r.failed = me.failed
Others(w) == \A v \in Writers : v # w => writer'[v] = writer[v]

\* A writer gets a new record, the other keeps its own.
LEMMA RecordReplaced ==
  ASSUME IndexTypes, NEW w \in Writers, NEW r \in WriterRecord, writer' = [writer EXCEPT ![w] = r]
  PROVE  writer' \in [Writers -> WriterRecord] /\ writer'[w] = r /\ Others(w)
BY DEF IndexTypes, Others

\* Goes moves a writer and changes nothing else of it.
LEMMA GoesIs ==
  ASSUME IndexTypes, NEW w \in Writers, NEW place \in Places, Goes(w, place)
  PROVE  /\ writer' \in [Writers -> WriterRecord] /\ Others(w)
         /\ writer'[w].at = place
         /\ SameWork(writer'[w], writer[w]) /\ SameFile(writer'[w], writer[w])
         /\ SameIds(writer'[w], writer[w]) /\ SameLists(writer'[w], writer[w])
<1>1. writer[w] \in WriterRecord /\ writer \in [Writers -> WriterRecord]
  BY DEF IndexTypes
<1> DEFINE r == [writer[w] EXCEPT !.at = place]
<1>2. writer' = [writer EXCEPT ![w] = r]
  BY DEF Goes
<1>3. r \in WriterRecord
  BY <1>1 DEF WriterRecord
<1>4. /\ r.at = place /\ SameWork(r, writer[w]) /\ SameFile(r, writer[w])
         /\ SameIds(r, writer[w]) /\ SameLists(r, writer[w])
  BY <1>1 DEF WriterRecord, SameWork, SameFile, SameIds, SameLists
<1> HIDE DEF r
<1>5. writer'[w] = r /\ writer' \in [Writers -> WriterRecord] /\ Others(w)
  BY <1>2, <1>3, RecordReplaced
<1>6. QED
  BY <1>4, <1>5

\* An idle writer has the type of a writer.
LEMMA IdleIs == Idle \in WriterRecord
BY LibraryConstants DEF WriterRecord, Idle, Places, Ops

\* Ends leaves the writer idle and the other as it was.
LEMMA EndsIs ==
  ASSUME IndexTypes, NEW w \in Writers, Ends(w)
  PROVE  /\ writer' \in [Writers -> WriterRecord] /\ Others(w)
         /\ writer'[w] = Idle
BY IdleIs, RecordReplaced DEF Ends

\* After a file a rescan goes on with the next, another writer is free of it.
LEMMA FileDoneIs ==
  ASSUME IndexTypes, NEW w \in Writers, FileDone(w), writer[w].path \in Paths
  PROVE  /\ writer' \in [Writers -> WriterRecord] /\ Others(w)
         /\ SameWork(writer'[w], writer[w]) /\ writer'[w].id = 0
         /\ writer[w].op = "rescan" =>
              /\ writer'[w].at = "scan" /\ writer'[w].path = "none" /\ writer'[w].todo = writer[w].todo
              /\ writer'[w].found = writer[w].found \cup {writer[w].path}
              /\ writer'[w].failed = writer[w].failed
         /\ writer[w].op # "rescan" => writer'[w].at = "clear" /\ writer'[w].path = writer[w].path
<1> DEFINE me == writer[w]
           next == [Idle EXCEPT !.op = me.op, !.source = me.source]
           onward == [next EXCEPT !.at = "scan", !.todo = me.todo, !.found = me.found \cup {me.path}, !.failed = me.failed]
           single == [next EXCEPT !.at = "clear", !.path = me.path]
<1>1. me \in WriterRecord
  BY DEF IndexTypes
<1>2. writer' = [writer EXCEPT ![w] = IF me.op = "rescan" THEN onward ELSE single]
  BY DEF FileDone
<1>3. next \in WriterRecord
  BY <1>1, IdleIs DEF WriterRecord
<1>0. SameWork(next, me) /\ next.id = 0 /\ next.path = "none"
  BY DEF Idle, SameWork
<1> HIDE DEF next
<1>4. CASE me.op = "rescan"
  <2>1. onward \in WriterRecord
    BY <1>1, <1>3 DEF WriterRecord, Places
  <2>2. /\ SameWork(onward, me) /\ onward.id = 0 /\ onward.at = "scan" /\ onward.path = "none"
        /\ onward.todo = me.todo /\ onward.found = me.found \cup {me.path} /\ onward.failed = me.failed
    BY <1>1, <1>0, <1>3 DEF WriterRecord, SameWork
  <2> HIDE DEF onward
  <2>3. writer' = [writer EXCEPT ![w] = onward]
    BY <1>2, <1>4
  <2>4. QED
    BY <1>4, <2>1, <2>2, <2>3, RecordReplaced
<1>5. CASE me.op # "rescan"
  <2>1. single \in WriterRecord
    BY <1>1, <1>3 DEF WriterRecord, Places
  <2>2. SameWork(single, me) /\ single.id = 0 /\ single.at = "clear" /\ single.path = me.path
    BY <1>1, <1>0, <1>3 DEF WriterRecord, SameWork
  <2> HIDE DEF single
  <2>3. writer' = [writer EXCEPT ![w] = single]
    BY <1>2, <1>5
  <2>4. QED
    BY <1>5, <2>1, <2>2, <2>3, RecordReplaced
<1>6. QED
  BY <1>4, <1>5

\* Extract keeps the file, with the text it has now.
LEMMA ExtractIs ==
  ASSUME IndexTypes, NEW w \in Writers, Extract(w), writer[w].path \in Paths
  PROVE  /\ writer' \in [Writers -> WriterRecord] /\ Others(w)
         /\ writer[w].at = "read" /\ Readable(disk[writer[w].path])
         /\ writer'[w].at = "row" /\ SameWork(writer'[w], writer[w])
         /\ SameIds(writer'[w], writer[w]) /\ SameLists(writer'[w], writer[w])
         /\ writer'[w].path = writer[w].path /\ writer'[w].stat = writer[w].stat
         /\ writer'[w].text = disk[writer[w].path]
<1> DEFINE me == writer[w]
           r == [me EXCEPT !.at = "row", !.text = disk[me.path], !.embedded = semantic]
<1>1. me \in WriterRecord /\ disk[me.path] \in Nat /\ semantic \in BOOLEAN
  BY DEF IndexTypes
<1>2. writer' = [writer EXCEPT ![w] = r]
  <2>1. writer' = [writer EXCEPT ![w].at = "row", ![w].text = disk[me.path], ![w].embedded = semantic]
    BY DEF Extract
  <2>2. w \in DOMAIN writer
    BY DEF IndexTypes
  <2>3. QED
    BY <2>1, <2>2
<1>3. r \in WriterRecord
  BY <1>1 DEF WriterRecord, Places, AtFile
<1>4. /\ r.at = "row" /\ SameWork(r, me) /\ SameIds(r, me) /\ SameLists(r, me)
      /\ r.path = me.path /\ r.stat = me.stat /\ r.text = disk[me.path]
  BY <1>1 DEF WriterRecord, SameWork, SameIds, SameLists
<1> HIDE DEF r
<1>5. QED
  BY <1>2, <1>3, <1>4, RecordReplaced DEF Extract

\* A failed extraction: a rescan goes on, any other job ends.
LEMMA ExtractFailsIs ==
  ASSUME IndexTypes, NEW w \in Writers, ExtractFails(w), writer[w].path \in Paths
  PROVE  /\ writer' \in [Writers -> WriterRecord] /\ Others(w)
         /\ writer[w].at = "read" /\ ~Readable(disk[writer[w].path])
         /\ writer[w].op = "rescan" =>
              /\ writer'[w].at = "scan" /\ SameWork(writer'[w], writer[w]) /\ SameIds(writer'[w], writer[w])
              /\ writer'[w].path = "none"
              /\ writer'[w].todo = writer[w].todo /\ writer'[w].found = writer[w].found
              /\ writer'[w].failed = writer[w].failed \cup {writer[w].path}
         /\ writer[w].op # "rescan" => writer'[w] = Idle
<1> DEFINE me == writer[w]
           r == [me EXCEPT !.at = "scan", !.failed = me.failed \cup {me.path}, !.path = "none", !.stat = 0]
<1>1. me \in WriterRecord /\ w \in DOMAIN writer
  BY DEF IndexTypes
<1>2. CASE me.op # "rescan"
  BY <1>2, EndsIs DEF ExtractFails
<1>3. CASE me.op = "rescan"
  <2>1. writer' = [writer EXCEPT ![w].at = "scan", ![w].failed = @ \cup {me.path}, ![w].path = "none", ![w].stat = 0]
    BY <1>3 DEF ExtractFails
  <2>2. writer' = [writer EXCEPT ![w] = r]
    BY <1>1, <2>1 DEF WriterRecord
  <2>3. r \in WriterRecord
    BY <1>1 DEF WriterRecord, Places
  <2>4. /\ r.at = "scan" /\ SameWork(r, me) /\ SameIds(r, me) /\ r.path = "none"
        /\ r.todo = me.todo /\ r.found = me.found /\ r.failed = me.failed \cup {me.path}
    BY <1>1 DEF WriterRecord, SameWork, SameIds
  <2> HIDE DEF r
  <2>5. QED
    BY <1>3, <2>2, <2>3, <2>4, RecordReplaced DEF ExtractFails
<1>4. QED
  BY <1>2, <1>3

\* The row is written, and the writer holds its document.
LEMMA UpsertIs ==
  ASSUME IndexTypes, NEW w \in Writers, UpsertDocument(w), writer[w].path \in Paths
  PROVE  /\ writer' \in [Writers -> WriterRecord] /\ Others(w)
         /\ writer[w].at = "row"
         /\ writer'[w].at = "chunks" /\ SameWork(writer'[w], writer[w]) /\ SameLists(writer'[w], writer[w])
         /\ writer'[w].path = writer[w].path /\ writer'[w].text = writer[w].text
         /\ writer'[w].id = IF rows[writer[w].path].id = 0 THEN lastId + 1 ELSE rows[writer[w].path].id
         /\ writer'[w].id \in DocIds
         /\ rows' = [rows EXCEPT ![writer[w].path] = DocumentRow(writer[w], writer'[w].id)]
         /\ lastId' = IF writer'[w].id > lastId THEN writer'[w].id ELSE lastId
<1> DEFINE me == writer[w]
           id == IF rows[me.path].id = 0 THEN lastId + 1 ELSE rows[me.path].id
           r == [me EXCEPT !.at = "chunks", !.id = id, !.stat = 0]
<1>1. me \in WriterRecord
  BY DEF IndexTypes
<1>2. /\ writer' = [writer EXCEPT ![w] = r] /\ id \in DocIds /\ me.at = "row"
      /\ rows' = [rows EXCEPT ![me.path] = DocumentRow(me, id)]
      /\ lastId' = IF id > lastId THEN id ELSE lastId
  BY DEF UpsertDocument
<1> HIDE DEF id
<1>0. id \in 0 .. MaxDocs
  BY <1>2, LibraryConstants DEF DocIds
<1>3. r \in WriterRecord
  BY <1>0, <1>1 DEF WriterRecord, Places, AtFile
<1>4. /\ r.at = "chunks" /\ SameWork(r, me) /\ SameLists(r, me)
      /\ r.path = me.path /\ r.text = me.text /\ r.id = id
  BY <1>1 DEF WriterRecord, SameWork, SameLists
<1> HIDE DEF r
<1>5. writer' \in [Writers -> WriterRecord] /\ writer'[w] = r /\ Others(w)
  BY <1>2, <1>3, RecordReplaced
<1>6. writer'[w].id = id
  BY <1>4, <1>5
<1>7. rows' = [rows EXCEPT ![me.path] = DocumentRow(me, writer'[w].id)]
  BY <1>2, <1>6 DEF DocumentRow
<1>9. lastId' = IF writer'[w].id > lastId THEN writer'[w].id ELSE lastId
  BY <1>2, <1>6
<1>8. QED
  BY <1>2, <1>4, <1>5, <1>6, <1>7, <1>9 DEF id

\* The chunks are stored; whoever else holds the document has lost it.
LEMMA ReplaceChunksIs ==
  ASSUME IndexTypes, NEW w \in Writers, ReplaceChunks(w), writer[w].id \in DocIds, writer[w].id \in RowIds
  PROVE  /\ writer' \in [Writers -> WriterRecord]
         /\ writer[w].at = "chunks"
         /\ writer'[w].at = "vectors" /\ SameWork(writer'[w], writer[w]) /\ SameLists(writer'[w], writer[w])
         /\ writer'[w].path = writer[w].path /\ writer'[w].id = writer[w].id
         /\ writer'[w].mine /\ writer'[w].embedded = writer[w].embedded
         /\ \A v \in Writers : v # w =>
              /\ writer[v].id # writer[w].id => writer'[v] = writer[v]
              /\ writer'[v].at = writer[v].at /\ SameFile(writer'[v], writer[v])
              /\ SameWork(writer'[v], writer[v]) /\ SameLists(writer'[v], writer[v])
              /\ writer'[v].id = writer[v].id
         /\ chunks' = [chunks EXCEPT ![writer[w].id] = [of |-> writer[w].text, embedded |-> writer[w].embedded]]
         /\ vectors' = [vectors EXCEPT ![writer[w].id] = IF @ = "live" THEN "stale" ELSE @]
<1> DEFINE me == writer[w]
           next == [me EXCEPT !.at = "vectors", !.mine = TRUE, !.text = 0, !.stat = 0]
           Other(v) == [writer[v] EXCEPT !.mine = FALSE]
<1>1. writer \in [Writers -> WriterRecord]
  BY DEF IndexTypes
<1>2. writer' = [v \in Writers |->
                   CASE v = w -> next
                     [] v # w /\ writer[v].id = me.id -> Other(v)
                     [] OTHER -> writer[v]]
  BY DEF ReplaceChunks
<1>0. me \in WriterRecord
  BY <1>1
<1>3. next \in WriterRecord
  BY <1>0 DEF WriterRecord, Places, AtFile
<1>4. /\ next.at = "vectors" /\ SameWork(next, me) /\ SameLists(next, me) /\ next.path = me.path
      /\ next.id = me.id /\ next.mine /\ next.embedded = me.embedded
  BY <1>0 DEF WriterRecord, SameWork, SameLists
<1>5. ASSUME NEW v \in Writers
      PROVE  /\ Other(v) \in WriterRecord
             /\ Other(v).at = writer[v].at /\ SameFile(Other(v), writer[v])
             /\ SameWork(Other(v), writer[v]) /\ SameLists(Other(v), writer[v])
             /\ Other(v).id = writer[v].id
  <2>1. writer[v] \in WriterRecord
    BY <1>1
  <2>2. Other(v) \in WriterRecord
    BY <2>1 DEF WriterRecord
  <2>3. QED
    BY <2>1, <2>2 DEF WriterRecord, SameWork, SameFile, SameLists
<1> HIDE DEF next, Other
<1>6. writer'[w] = next
  BY <1>2
<1>7. \A v \in Writers : v # w => writer'[v] = IF writer[v].id = me.id THEN Other(v) ELSE writer[v]
  BY <1>2
<1>8. writer' \in [Writers -> WriterRecord]
  BY <1>1, <1>2, <1>3, <1>5
<1>9. \A v \in Writers : v # w =>
              /\ writer[v].id # writer[w].id => writer'[v] = writer[v]
              /\ writer'[v].at = writer[v].at /\ SameFile(writer'[v], writer[v])
              /\ SameWork(writer'[v], writer[v]) /\ SameLists(writer'[v], writer[v])
              /\ writer'[v].id = writer[v].id
  BY <1>5, <1>7 DEF SameWork, SameFile, SameLists
<1>10. /\ me.at = "chunks"
       /\ chunks' = [chunks EXCEPT ![me.id] = [of |-> me.text, embedded |-> me.embedded]]
       /\ vectors' = [vectors EXCEPT ![me.id] = IF @ = "live" THEN "stale" ELSE @]
  BY DEF ReplaceChunks
<1>11. QED
  BY <1>4, <1>6, <1>8, <1>9, <1>10

\* A rescan turns to the next of its files, or passes it over.
LEMMA VisitIs ==
  ASSUME IndexTypes, NEW w \in Writers, NEW p \in Paths, VisitFile(w, p)
  PROVE  /\ writer' \in [Writers -> WriterRecord] /\ Others(w)
         /\ writer[w].at = "scan" /\ p \in writer[w].todo
         /\ SameWork(writer'[w], writer[w]) /\ SameIds(writer'[w], writer[w])
         /\ writer'[w].todo = writer[w].todo \ {p} /\ writer'[w].found = writer[w].found
         /\ writer'[w].failed = writer[w].failed
         /\ disk[p] = 0 => writer'[w].at = "scan"
         /\ disk[p] # 0 => writer'[w].at = "check" /\ writer'[w].path = p /\ writer'[w].stat = disk[p]
<1> DEFINE me == writer[w]
           over == [me EXCEPT !.todo = me.todo \ {p}]
           next == [me EXCEPT !.todo = me.todo \ {p}, !.path = p, !.stat = disk[p], !.at = "check"]
<1>1. me \in WriterRecord /\ disk[p] \in Nat
  BY DEF IndexTypes
<1>2. CASE disk[p] = 0
  <2>1. writer' = [writer EXCEPT ![w] = over]
    BY <1>2 DEF VisitFile
  <2>2. over \in WriterRecord
    BY <1>1 DEF WriterRecord
  <2>3. /\ over.at = me.at /\ SameWork(over, me) /\ SameIds(over, me)
        /\ over.todo = me.todo \ {p} /\ over.found = me.found /\ over.failed = me.failed
    BY <1>1 DEF WriterRecord, SameWork, SameIds
  <2> HIDE DEF over
  <2>4. QED
    BY <1>2, <2>1, <2>2, <2>3, RecordReplaced DEF VisitFile
<1>3. CASE disk[p] # 0
  <2>1. writer' = [writer EXCEPT ![w] = next]
    BY <1>3 DEF VisitFile
  <2>2. next \in WriterRecord
    BY <1>1 DEF WriterRecord, Places, AtFile
  <2>3. /\ next.at = "check" /\ SameWork(next, me) /\ SameIds(next, me) /\ next.path = p /\ next.stat = disk[p]
        /\ next.todo = me.todo \ {p} /\ next.found = me.found /\ next.failed = me.failed
    BY <1>1 DEF WriterRecord, SameWork, SameIds
  <2> HIDE DEF next
  <2>4. QED
    BY <1>3, <2>1, <2>2, <2>3, RecordReplaced DEF VisitFile
<1>4. QED
  BY <1>2, <1>3

\* The rows not found are gone, the failures are next.
LEMMA PurgeIs ==
  ASSUME IndexTypes, NEW w \in Writers, Purge(w)
  PROVE  /\ writer' \in [Writers -> WriterRecord] /\ Others(w)
         /\ writer[w].at = "scan" /\ writer[w].todo = {}
         /\ SameWork(writer'[w], writer[w]) /\ SameIds(writer'[w], writer[w])
         /\ writer'[w].at = "report" /\ writer'[w].todo = {} /\ writer'[w].found = {}
         /\ writer'[w].failed = writer[w].failed
<1> DEFINE me == writer[w]
           r == [me EXCEPT !.at = "report", !.found = {}]
<1>1. me \in WriterRecord /\ w \in DOMAIN writer
  BY DEF IndexTypes
<1>2. writer' = [writer EXCEPT ![w].at = "report", ![w].found = {}] /\ me.at = "scan" /\ me.todo = {}
  BY DEF Purge
<1>3. writer' = [writer EXCEPT ![w] = r]
  BY <1>1, <1>2 DEF WriterRecord
<1>4. r \in WriterRecord
  BY <1>1 DEF WriterRecord, Places
<1>5. SameWork(r, me) /\ SameIds(r, me) /\ r.at = "report" /\ r.todo = {} /\ r.found = {} /\ r.failed = me.failed
  BY <1>1, <1>2 DEF WriterRecord, SameWork, SameIds
<1> HIDE DEF r
<1>6. QED
  BY <1>2, <1>3, <1>4, <1>5, RecordReplaced

\* Nothing is left of a rescan but the pruning of vectors.
LEMMA ReportIs ==
  ASSUME IndexTypes, NEW w \in Writers, ReportFailures(w)
  PROVE  /\ writer' \in [Writers -> WriterRecord] /\ Others(w)
         /\ writer[w].at = "report" /\ writer'[w] = [Idle EXCEPT !.at = "list"]
<1> DEFINE r == [Idle EXCEPT !.at = "list"]
<1>1. r \in WriterRecord
  BY IdleIs DEF WriterRecord, Places
<1>2. writer' = [writer EXCEPT ![w] = r] /\ writer[w].at = "report"
  BY DEF ReportFailures
<1> HIDE DEF r
<1>3. writer' \in [Writers -> WriterRecord] /\ Others(w) /\ writer'[w] = r
  BY <1>1, <1>2, RecordReplaced
<1>4. QED
  BY <1>2, <1>3 DEF r

\* The ids of the rows are taken down.
LEMMA ListIs ==
  ASSUME IndexTypes, NEW w \in Writers, ListDocuments(w)
  PROVE  /\ writer' \in [Writers -> WriterRecord] /\ Others(w)
         /\ writer[w].at = "list" /\ writer'[w].at = "prune"
         /\ SameWork(writer'[w], writer[w]) /\ SameFile(writer'[w], writer[w])
         /\ SameIds(writer'[w], writer[w]) /\ SameLists(writer'[w], writer[w])
<1> DEFINE me == writer[w]
           r == [me EXCEPT !.at = "prune", !.valid = RowIds]
<1>1. me \in WriterRecord /\ w \in DOMAIN writer
  BY DEF IndexTypes
<1>2. writer' = [writer EXCEPT ![w].at = "prune", ![w].valid = RowIds] /\ me.at = "list"
  BY DEF ListDocuments
<1>3. writer' = [writer EXCEPT ![w] = r]
  BY <1>1, <1>2 DEF WriterRecord
<1>4. RowIds \subseteq Nat
  BY LibraryConstants DEF RowIds, IndexTypes, RowRecord
<1>5. r \in WriterRecord
  BY <1>1, <1>4 DEF WriterRecord, Places
<1>6. SameWork(r, me) /\ SameFile(r, me) /\ SameIds(r, me) /\ SameLists(r, me) /\ r.at = "prune"
  BY <1>1 DEF WriterRecord, SameWork, SameFile, SameIds, SameLists
<1> HIDE DEF r
<1>7. QED
  BY <1>2, <1>3, <1>5, <1>6, RecordReplaced

\* The record of a rescan that begins
LEMMA RescanBegunIs ==
  ASSUME IndexTypes, NEW s \in Sources
  PROVE  /\ RescanBegun(s) \in WriterRecord
         /\ RescanBegun(s).op = "rescan" /\ RescanBegun(s).source = s
         /\ RescanBegun(s).at = (IF s \in sources THEN "scan" ELSE "list")
         /\ RescanBegun(s).todo = (IF s \in sources THEN {p \in Covers[s] : disk[p] # 0} ELSE {})
         /\ RescanBegun(s).found = {} /\ RescanBegun(s).failed = {} /\ RescanBegun(s).id = 0
<1>1. {p \in Covers[s] : disk[p] # 0} \subseteq Paths
  BY LibraryConstants
<1>2. RescanBegun(s) \in WriterRecord
  BY <1>1, IdleIs, ZenonT(40) DEF RescanBegun, WriterRecord, Places, Ops
<1>3. QED
  BY <1>2 DEF RescanBegun, Idle

\* The record of a writer that begins with one file
LEMMA FileBegunIs ==
  ASSUME IndexTypes, NEW op \in Ops, NEW s \in Sources, NEW p \in Paths, NEW place \in Places
  PROVE  /\ FileBegun(op, s, p, place) \in WriterRecord
         /\ FileBegun(op, s, p, place).op = op /\ FileBegun(op, s, p, place).source = s
         /\ FileBegun(op, s, p, place).path = p /\ FileBegun(op, s, p, place).at = place
         /\ op # "delete" => FileBegun(op, s, p, place).stat = disk[p]
         /\ FileBegun(op, s, p, place).id = 0
<1>1. disk[p] \in Nat
  BY DEF IndexTypes
<1>2. FileBegun(op, s, p, place) \in WriterRecord
  BY <1>1, IdleIs DEF FileBegun, WriterRecord
<1>3. QED
  BY <1>2 DEF FileBegun, Idle

(* Jobs of the queue *)
LEMMA JobKinds ==
  ASSUME NEW job \in JobSet
  PROVE  \E s \in Sources : \/ job = RescanOf(s)
                            \/ \E p \in Covers[s] : job = FileJob("upsert", s, p) \/ job = FileJob("delete", s, p)
BY DEF JobSet

\* What a job says
LEMMA JobFields ==
  ASSUME NEW s, NEW p, NEW op
  PROVE  /\ RescanOf(s).op = "rescan" /\ RescanOf(s).source = s
         /\ FileJob(op, s, p).op = op /\ FileJob(op, s, p).source = s /\ FileJob(op, s, p).path = p
BY DEF RescanOf, FileJob

\* The queue after its head: nothing else is lost, nothing overtakes.
LEMMA TailJobs ==
  ASSUME queue \in Seq(JobSet), queue # <<>>, queue' = Tail(queue)
  PROVE  /\ queue' \in Seq(JobSet) /\ Head(queue) \in JobSet /\ Head(queue) \in Jobs
         /\ Jobs' \subseteq Jobs /\ Jobs \subseteq Jobs' \cup {Head(queue)}
         /\ \A a, b : Ahead(queue', a, b) => Ahead(queue, a, b)
         /\ \A b \in Jobs' : Ahead(queue, Head(queue), b)
<1>1. /\ queue' \in Seq(JobSet) /\ Len(queue') = Len(queue) - 1 /\ Len(queue) >= 1 /\ Len(queue) \in Nat
      /\ \A i \in 1 .. Len(queue) - 1 : queue'[i] = queue[i + 1]
      /\ Head(queue) = queue[1]
  BY HeadTailProperties, EmptySeq, LenProperties
<1>2. DOMAIN queue = 1 .. Len(queue) /\ DOMAIN queue' = 1 .. Len(queue) - 1
  BY <1>1, LenProperties
<1>3. Head(queue) \in JobSet
  BY <1>1, <1>2, ElementOfSeq
<1>4. Jobs' \subseteq Jobs
  BY <1>1, <1>2 DEF Jobs
<1>5. ASSUME NEW j \in Jobs PROVE j \in Jobs' \cup {Head(queue)}
  <2>1. PICK i \in 1 .. Len(queue) : j = queue[i]
    BY <1>2, <1>5 DEF Jobs
  <2>2. i = 1 \/ (i - 1 \in 1 .. Len(queue) - 1 /\ queue'[i - 1] = j)
    BY <1>1, <2>1
  <2>3. QED
    BY <1>1, <1>2, <2>1, <2>2 DEF Jobs
<1>6. ASSUME NEW a, NEW b, Ahead(queue', a, b) PROVE Ahead(queue, a, b)
  <2>1. PICK i \in 1 .. Len(queue) - 1, j \in 1 .. Len(queue) - 1 : i < j /\ queue'[i] = a /\ queue'[j] = b
    BY <1>2, <1>6 DEF Ahead
  <2>2. i + 1 \in DOMAIN queue /\ j + 1 \in DOMAIN queue /\ i + 1 < j + 1 /\ queue[i + 1] = a /\ queue[j + 1] = b
    BY <1>1, <1>2, <2>1
  <2>3. QED
    BY <2>2 DEF Ahead
<1>7. ASSUME NEW b \in Jobs' PROVE Ahead(queue, Head(queue), b)
  <2>1. PICK i \in 1 .. Len(queue) - 1 : queue'[i] = b
    BY <1>2, <1>7 DEF Jobs
  <2>2. 1 \in DOMAIN queue /\ i + 1 \in DOMAIN queue /\ 1 < i + 1 /\ queue[i + 1] = b /\ queue[1] = Head(queue)
    BY <1>1, <1>2, <2>1
  <2>3. QED
    BY <2>2 DEF Ahead
<1>8. QED
  BY <1>1, <1>3, <1>4, <1>5, <1>6, <1>7 DEF Jobs

\* A finite set of jobs in some order holds these jobs.
LEMMA InOrderJobs ==
  ASSUME NEW A, NEW jobs, jobs \subseteq A, IsFiniteSet(jobs)
  PROVE  /\ InOrder(jobs) \in Seq(A)
         /\ {InOrder(jobs)[i] : i \in DOMAIN InOrder(jobs)} = jobs
<1> DEFINE n == Cardinality(jobs)
           L == [1 .. n -> jobs]
           All(f) == \A j \in jobs : \E i \in DOMAIN f : f[i] = j
<1>1. n \in Nat /\ \E f : f \in Surjection(1 .. n, jobs)
  BY FS_CardinalityType DEF ExistsBijection, Bijection
<1>2. \E f \in L : All(f)
  BY <1>1 DEF Surjection
<1>3. InOrder(jobs) = CHOOSE f \in L : All(f)
  BY DEF InOrder
<1>4. InOrder(jobs) \in L /\ All(InOrder(jobs))
  BY <1>2, <1>3
<1> HIDE DEF n
<1>5. InOrder(jobs) \in Seq(A)
  BY <1>1, <1>4, SeqDef
<1>6. QED
  BY <1>4, <1>5

\* New jobs go to the end, and replace those of their key.
LEMMA EnqueueJobs ==
  ASSUME NEW A, NEW q \in Seq(A), NEW jobs, jobs \subseteq A, IsFiniteSet(jobs)
  PROVE  /\ Enqueue(q, jobs) \in Seq(A)
         /\ {Enqueue(q, jobs)[i] : i \in DOMAIN Enqueue(q, jobs)} = {q[i] : i \in DOMAIN q} \cup jobs
         /\ \A a, b : b \notin jobs /\ Ahead(Enqueue(q, jobs), a, b) => a \notin jobs /\ Ahead(q, a, b)
<1> DEFINE old == {q[i] : i \in DOMAIN q}
           others == old \ jobs
           kept == Filter(q, others)
           new == InOrder(jobs)
           R == {xy \in old \X old : Ahead(q, xy[1], xy[2])}
<1> HIDE DEF others
<1>0. /\ kept \in Seq(A)
      /\ \A i \in 1 .. Len(kept) : kept[i] \in others
      /\ \A j \in 1 .. Len(q) : q[j] \in others => \E i \in 1 .. Len(kept) : kept[i] = q[j]
  BY FilterMembers
<1>1. /\ kept \in Seq(A)
      /\ \A i \in 1 .. Len(kept) : kept[i] \in old \ jobs
      /\ \A j \in 1 .. Len(q) : q[j] \in old \ jobs => \E i \in 1 .. Len(kept) : kept[i] = q[j]
  BY <1>0 DEF others
<1>2. new \in Seq(A) /\ {new[i] : i \in DOMAIN new} = jobs
  BY InOrderJobs
<1>3. DOMAIN q = 1 .. Len(q) /\ Len(q) \in Nat /\ DOMAIN kept = 1 .. Len(kept) /\ Len(kept) \in Nat
      /\ DOMAIN new = 1 .. Len(new) /\ Len(new) \in Nat
  BY <1>1, <1>2, LenProperties
<1>4. \A i, j \in 1 .. Len(q) : i < j => <<q[i], q[j]>> \in R
  BY <1>3 DEF Ahead
<1>5. \A i, j \in 1 .. Len(kept) : i < j => <<kept[i], kept[j]>> \in R
  BY <1>4, FilterOrder
<1> HIDE DEF kept, new
<1>6. Enqueue(q, jobs) = kept \o new
  BY DEF Enqueue, kept, new, others
<1> DEFINE e == kept \o new
<1>7. /\ e \in Seq(A) /\ Len(e) = Len(kept) + Len(new) /\ DOMAIN e = 1 .. Len(kept) + Len(new)
      /\ \A i \in 1 .. Len(kept) + Len(new) : e[i] = IF i <= Len(kept) THEN kept[i] ELSE new[i - Len(kept)]
  BY <1>1, <1>2, ConcatProperties, LenProperties
<1> HIDE DEF e
<1>8. \A i \in DOMAIN e : IF i <= Len(kept) THEN e[i] \in old \ jobs ELSE e[i] \in jobs
  <2> SUFFICES ASSUME NEW i \in DOMAIN e PROVE IF i <= Len(kept) THEN e[i] \in old \ jobs ELSE e[i] \in jobs
    OBVIOUS
  <2>1. CASE i <= Len(kept)
    BY <1>1, <1>3, <1>7, <2>1
  <2>2. CASE ~(i <= Len(kept))
    <3>1. i - Len(kept) \in DOMAIN new
      BY <1>3, <1>7, <2>2
    <3>2. e[i] = new[i - Len(kept)]
      BY <1>3, <1>7, <2>2
    <3>3. QED
      BY <1>2, <2>2, <3>1, <3>2
  <2>3. QED
    BY <2>1, <2>2
<1>9. \A x \in old \cup jobs : \E i \in DOMAIN e : e[i] = x
  <2>1. ASSUME NEW x \in jobs PROVE \E i \in DOMAIN e : e[i] = x
    <3>1. PICK i \in 1 .. Len(new) : new[i] = x
      BY <1>2, <1>3, <2>1
    <3>2. Len(kept) + i \in DOMAIN e /\ e[Len(kept) + i] = x
      BY <1>3, <1>7, <3>1
    <3>3. QED
      BY <3>2
  <2>2. ASSUME NEW x \in old \ jobs PROVE \E i \in DOMAIN e : e[i] = x
    <3>1. PICK j \in 1 .. Len(q) : q[j] = x
      BY <1>3, <2>2
    <3>2. PICK i \in 1 .. Len(kept) : kept[i] = x
      BY <1>1, <2>2, <3>1
    <3>3. i \in DOMAIN e /\ e[i] = x
      BY <1>3, <1>7, <3>2
    <3>4. QED
      BY <3>3
  <2>3. QED
    BY <2>1, <2>2
<1>10. {e[i] : i \in DOMAIN e} = old \cup jobs
  BY <1>8, <1>9
<1>11. ASSUME NEW a, NEW b, b \notin jobs, Ahead(e, a, b) PROVE a \notin jobs /\ Ahead(q, a, b)
  <2>1. PICK i \in DOMAIN e, j \in DOMAIN e : i < j /\ e[i] = a /\ e[j] = b
    BY <1>11 DEF Ahead
  <2>2. j <= Len(kept)
    BY <1>8, <1>11, <2>1
  <2>3. i \in 1 .. Len(kept) /\ j \in 1 .. Len(kept) /\ kept[i] = a /\ kept[j] = b
    BY <1>3, <1>7, <2>1, <2>2
  <2>4. <<a, b>> \in R /\ a \notin jobs
    BY <1>1, <1>5, <2>1, <2>3
  <2>5. QED
    BY <2>4
<1>12. QED
  BY <1>6, <1>7, <1>10, <1>11 DEF e

\* The same of the queue itself
LEMMA QueueAdds ==
  ASSUME IndexTypes, NEW jobs, jobs \subseteq JobSet, IsFiniteSet(jobs), queue' = Enqueue(queue, jobs)
  PROVE  /\ queue' \in Seq(JobSet) /\ Jobs' = Jobs \cup jobs
         /\ \A a, b : b \notin jobs /\ Ahead(queue', a, b) => a \notin jobs /\ Ahead(queue, a, b)
<1>1. queue \in Seq(JobSet)
  BY DEF IndexTypes
<1>2. /\ Enqueue(queue, jobs) \in Seq(JobSet)
      /\ {Enqueue(queue, jobs)[i] : i \in DOMAIN Enqueue(queue, jobs)} = {queue[i] : i \in DOMAIN queue} \cup jobs
      /\ \A a, b : b \notin jobs /\ Ahead(Enqueue(queue, jobs), a, b) => a \notin jobs /\ Ahead(queue, a, b)
  BY <1>1, EnqueueJobs
<1>3. Jobs' = {queue'[i] : i \in DOMAIN queue'}
  BY DEF Jobs
<1>4. QED
  BY <1>2, <1>3 DEF Jobs

\* The image of a finite set is finite.
LEMMA FiniteImage ==
  ASSUME NEW S, IsFiniteSet(S), NEW T, NEW f \in [S -> T], \A t \in T : \E x \in S : f[x] = t
  PROVE  IsFiniteSet(T)
<1>1. f \in Surjection(S, T)
  BY DEF Surjection
<1>2. QED
  BY <1>1, FS_Surjection

\* The jobs of a request, of the observer and of a start are finitely many.
LEMMA RescanJob ==
  ASSUME NEW s \in Sources
  PROVE  {RescanOf(s)} \subseteq JobSet /\ IsFiniteSet({RescanOf(s)})
<1>1. {RescanOf(s)} \subseteq JobSet
  BY DEF JobSet
<1>2. \A x : IsFiniteSet({x})
  BY FS_Singleton, Zenon
<1>3. QED
  BY <1>1, <1>2, Zenon

\* The jobs of a file the observer saw change
LEMMA ObservedJobs ==
  ASSUME IndexTypes, NEW p \in Paths
  PROVE  /\ FileJobs(p) \subseteq JobSet /\ IsFiniteSet(FileJobs(p))
<1> DEFINE those == {t \in watched : p \in Covers[t]}
           Job(s) == FileJob(IF disk[p] = 0 THEN "delete" ELSE "upsert", s, p)
<1>1. IsFiniteSet(those)
  <2>1. those \subseteq Sources
    BY DEF IndexTypes
  <2>2. QED
    BY <2>1, LibraryConstants, FS_Subset
<1>2. IsFiniteSet({Job(s) : s \in those})
  <2> DEFINE T == {Job(s) : s \in those}
             f == [s \in those |-> Job(s)]
  <2>1. f \in [those -> T] /\ \A t \in T : \E x \in those : f[x] = t
    OBVIOUS
  <2> HIDE DEF those, T, f
  <2>2. IsFiniteSet(T)
    BY <1>1, <2>1, FiniteImage
  <2>3. QED
    BY <2>2 DEF T
<1>3. \A s \in those : Job(s) \in JobSet
  BY DEF IndexTypes, JobSet
<1>4. QED
  BY <1>2, <1>3 DEF FileJobs

RescansOf(S) == {RescanOf(s) : s \in S}

\* The queue of a start
LEMMA RescansInOrder ==
  ASSUME NEW S, S \subseteq Sources
  PROVE  /\ InOrder(RescansOf(S)) \in Seq(JobSet)
         /\ {InOrder(RescansOf(S))[i] : i \in DOMAIN InOrder(RescansOf(S))} = RescansOf(S)
<1>1. IsFiniteSet(RescansOf(S))
  <2>1. IsFiniteSet(S)
    BY LibraryConstants, FS_Subset
  <2> DEFINE f == [s \in S |-> RescanOf(s)]
  <2>2. f \in [S -> RescansOf(S)] /\ \A t \in RescansOf(S) : \E x \in S : f[x] = t
    BY DEF RescansOf
  <2> HIDE DEF f
  <2>3. QED
    BY <2>1, <2>2, FiniteImage
<1>2. RescansOf(S) \subseteq JobSet
  BY DEF RescansOf, JobSet
<1>3. QED
  BY <1>1, <1>2, InOrderJobs

\* The same of the next queue
LEMMA RescanJobs ==
  ASSUME NEW S, S \subseteq Sources, queue' = InOrder({RescanOf(s) : s \in S})
  PROVE  queue' \in Seq(JobSet) /\ Jobs' = {RescanOf(s) : s \in S}
<1>1. queue' = InOrder(RescansOf(S)) /\ Jobs' = {queue'[i] : i \in DOMAIN queue'}
  BY DEF Jobs, RescansOf
<1>2. queue' \in Seq(JobSet) /\ Jobs' = RescansOf(S)
  BY <1>1, RescansInOrder
<1>3. QED
  BY <1>2 DEF RescansOf

\* The file and the document of a writer, by its place
LEMMA FileOf ==
  ASSUME IndexTypes, Shapes, NEW w \in Writers
  PROVE  /\ writer[w].at \in AtFile \cup {"clear", "unvector", "drop"} =>
              writer[w].source \in Sources /\ writer[w].path \in Covers[writer[w].source] /\ writer[w].path \in Paths
         /\ writer[w].at \in Writing => writer[w].id \in DocIds
<1>1. Shape(writer[w]) /\ writer[w] \in WriterRecord
  BY DEF Shapes, IndexTypes
<1>2. writer[w].id \in 0 .. MaxDocs
  BY <1>1 DEF WriterRecord
<1>3. writer[w].at \in AtFile \cup {"clear", "unvector", "drop"} => writer[w].op # "none"
  BY <1>1 DEF Shape
<1>4. writer[w].at \in AtFile \cup {"clear", "unvector", "drop"} =>
        writer[w].source \in Sources /\ writer[w].path \in Covers[writer[w].source]
  BY <1>1, <1>3 DEF Shape
<1>5. \A s \in Sources : Covers[s] \subseteq Paths
  BY LibraryConstants
<1>6. writer[w].at \in Writing => writer[w].id \in DocIds
  BY <1>1, <1>2, LibraryConstants DEF Shape, DocIds
<1>7. QED
  BY <1>4, <1>5, <1>6

\* A deletion of rows: these rows, and no chunks of others
LEMMA DeleteRowsIs ==
  ASSUME IndexTypes, NEW gone, DeleteRows(gone)
  PROVE  /\ rows' \in [Paths -> RowRecord] /\ chunks' \in [DocIds -> [of : Nat, embedded : BOOLEAN]]
         /\ \A p \in Paths : rows'[p] = IF p \in gone THEN NoRow ELSE rows[p]
         /\ \A d \in DocIds : (\A p \in gone : rows[p].id # d) => chunks'[d] = chunks[d]
<1>1. NoRow \in RowRecord
  BY LibraryConstants DEF NoRow, RowRecord
<1>2. NoChunks \in [of : Nat, embedded : BOOLEAN]
  BY DEF NoChunks
<1>3. rows \in [Paths -> RowRecord] /\ chunks \in [DocIds -> [of : Nat, embedded : BOOLEAN]]
  BY DEF IndexTypes
<1>4. rows' = [p \in Paths |-> IF p \in gone THEN NoRow ELSE rows[p]]
      /\ chunks' = [d \in DocIds |-> IF \E p \in gone : rows[p].id = d THEN NoChunks ELSE chunks[d]]
  BY DEF DeleteRows
<1>5. rows' \in [Paths -> RowRecord]
  BY <1>1, <1>3, <1>4
<1>6. chunks' \in [DocIds -> [of : Nat, embedded : BOOLEAN]]
  <2> HIDE DEF NoChunks
  <2>1. QED
    BY <1>2, <1>3, <1>4, Zenon
<1>7. QED
  BY <1>4, <1>5, <1>6

\* The types, one kind of step after the other
LEMMA TypesOfFileSteps ==
  ASSUME IndexTypes, Shapes, NEW w \in Writers, IndexFile(w)
  PROVE  IndexTypes'
<1> DEFINE me == writer[w]
<1>0. me.at \in AtFile \cup {"clear"} => me.path \in Paths /\ me.source \in Sources
  BY FileOf
<1>1. CASE CheckUnchanged(w)
  <2>1. writer' \in [Writers -> WriterRecord]
    <3>1. me.path \in Paths
      BY <1>0, <1>1 DEF CheckUnchanged, AtFile
    <3>2. FileDone(w) \/ Goes(w, "read")
      BY <1>1 DEF CheckUnchanged
    <3>3. QED
      BY <3>1, <3>2, FileDoneIs, GoesIs DEF Places, AtFile
  <2>2. QED
    BY <1>1, <2>1 DEF CheckUnchanged, IndexTypes, files, library, tables
<1>2. CASE Extract(w)
  <2>1. writer' \in [Writers -> WriterRecord]
    BY <1>0, <1>2, ExtractIs DEF Extract, AtFile
  <2>2. QED
    BY <1>2, <2>1 DEF Extract, IndexTypes, files, library, tables
<1>3. CASE ExtractFails(w)
  <2>1. me.path \in Paths /\ me.source \in Sources
    BY <1>0, <1>3 DEF ExtractFails, AtFile
  <2>2. writer' \in [Writers -> WriterRecord]
    BY <1>3, <2>1, ExtractFailsIs
  <2>3. failures' \subseteq Sources \X Paths
    BY <1>3, <2>1 DEF ExtractFails, IndexTypes
  <2>4. QED
    BY <1>3, <2>2, <2>3 DEF ExtractFails, IndexTypes, files, library, tables
<1>4. CASE UpsertDocument(w)
  <2>1. me.path \in Paths /\ me.source \in Sources
    BY <1>0, <1>4 DEF UpsertDocument, AtFile
  <2>2. /\ writer' \in [Writers -> WriterRecord] /\ writer'[w].id \in DocIds
        /\ rows' = [rows EXCEPT ![me.path] = DocumentRow(me, writer'[w].id)]
        /\ lastId' = IF writer'[w].id > lastId THEN writer'[w].id ELSE lastId
    BY <1>4, <2>1, UpsertIs
  <2>3. me \in WriterRecord /\ writer'[w].id \in 0 .. MaxDocs
    BY <2>2, LibraryConstants DEF IndexTypes, DocIds
  <2>4. DocumentRow(me, writer'[w].id) \in RowRecord
    BY <2>3 DEF DocumentRow, RowRecord, WriterRecord
  <2>5. rows' \in [Paths -> RowRecord] /\ lastId' \in 0 .. MaxDocs
    BY <2>2, <2>3, <2>4 DEF IndexTypes
  <2>6. behind' \subseteq Paths
    BY <1>4, <2>1 DEF UpsertDocument, IndexTypes
  <2>7. QED
    BY <1>4, <2>2, <2>5, <2>6 DEF UpsertDocument, IndexTypes, files, library
<1>5. CASE ReplaceChunks(w)
  <2>1. me.path \in Paths /\ me.source \in Sources /\ me.id \in DocIds /\ me \in WriterRecord
    BY <1>0, <1>5, FileOf DEF ReplaceChunks, AtFile, Writing, IndexTypes
  <2>2. /\ writer' \in [Writers -> WriterRecord] /\ chunks' \in [DocIds -> [of : Nat, embedded : BOOLEAN]]
        /\ vectors' \in [DocIds -> {"none", "live", "stale"}] /\ behind' \subseteq Paths
    <3>1. CASE me.id \in RowIds
      <4> DEFINE cut == [of |-> me.text, embedded |-> me.embedded]
                 now == IF vectors[me.id] = "live" THEN "stale" ELSE vectors[me.id]
      <4>1. /\ writer' \in [Writers -> WriterRecord] /\ chunks' = [chunks EXCEPT ![me.id] = cut]
            /\ vectors' = [vectors EXCEPT ![me.id] = now]
        BY <1>5, <2>1, <3>1, ReplaceChunksIs
      <4>2. cut \in [of : Nat, embedded : BOOLEAN] /\ now \in {"none", "live", "stale"}
        BY <2>1 DEF WriterRecord, IndexTypes
      <4>3. behind' = behind
        BY <1>5, <3>1 DEF ReplaceChunks
      <4> HIDE DEF cut, now
      <4>4. QED
        BY <4>1, <4>2, <4>3 DEF IndexTypes
    <3>2. CASE me.id \notin RowIds
      <4>1. Ends(w) /\ behind' = behind \cup Covers[me.source] /\ UNCHANGED <<chunks, vectors>>
        BY <1>5, <3>2 DEF ReplaceChunks
      <4>2. QED
        BY <2>1, <4>1, EndsIs, LibraryConstants DEF IndexTypes
    <3>3. QED
      BY <3>1, <3>2
  <2>3. QED
    BY <1>5, <2>2 DEF ReplaceChunks, IndexTypes, files, library
<1>6. CASE ReplaceVectors(w)
  <2>1. me.path \in Paths /\ me.id \in DocIds
    BY <1>0, <1>6, FileOf DEF ReplaceVectors, AtFile, Writing
  <2>2. writer' \in [Writers -> WriterRecord]
    BY <1>6, <2>1, FileDoneIs DEF ReplaceVectors
  <2>3. NewVectors(w) \in {"none", "live", "stale"}
    BY DEF NewVectors
  <2>4. vectors' = [vectors EXCEPT ![me.id] = NewVectors(w)]
    BY <1>6 DEF ReplaceVectors
  <2>5. vectors' \in [DocIds -> {"none", "live", "stale"}]
    BY <2>1, <2>3, <2>4 DEF IndexTypes
  <2>6. QED
    BY <1>6, <2>2, <2>5 DEF ReplaceVectors, IndexTypes, files, library
<1>7. CASE VectorsFail(w)
  <2>1. me.path \in Paths /\ me.id \in DocIds
    BY <1>0, <1>7, FileOf DEF VectorsFail, AtFile, Writing
  <2>2. writer' \in [Writers -> WriterRecord]
    BY <1>7, <2>1, FileDoneIs DEF VectorsFail
  <2>3. vectors' \in [DocIds -> {"none", "live", "stale"}]
    <3>1. PICK left \in {vectors[me.id], "none"} : vectors' = [vectors EXCEPT ![me.id] = left]
      BY <1>7 DEF VectorsFail
    <3>2. QED
      BY <2>1, <3>1 DEF IndexTypes
  <2>4. behind' \subseteq Paths /\ odd' \in Nat
    BY <1>7, <2>1 DEF VectorsFail, IndexTypes
  <2>5. QED
    BY <1>7, <2>2, <2>3, <2>4 DEF VectorsFail, IndexTypes, files, library
<1>8. CASE ReportIndexed(w)
  <2>1. writer' \in [Writers -> WriterRecord] /\ failures' \subseteq failures
    BY <1>8, EndsIs DEF ReportIndexed
  <2>2. QED
    BY <1>8, <2>1 DEF ReportIndexed, IndexTypes, files, library, tables
<1>9. QED
  BY <1>1, <1>2, <1>3, <1>4, <1>5, <1>6, <1>7, <1>8 DEF IndexFile

\* ... in the steps around the files of a rescan and of removals
LEMMA TypesOfFolderSteps ==
  ASSUME IndexTypes, Shapes, NEW w \in Writers, Reindex(w) \/ Removal(w)
  PROVE  IndexTypes'
<1> DEFINE me == writer[w]
<1>0. Shape(me) /\ me \in WriterRecord
  BY DEF Shapes, IndexTypes
<1>1. ASSUME NEW p \in Paths, VisitFile(w, p) PROVE IndexTypes'
  <2>1. writer' \in [Writers -> WriterRecord]
    BY <1>1, VisitIs
  <2>2. QED
    BY <1>1, <2>1 DEF VisitFile, IndexTypes, files, library, tables
<1>2. CASE Purge(w)
  <2> DEFINE gone == SourceRows(me.source) \ me.found
  <2>1. /\ DeleteRows(gone) /\ behind' = (IF w = "request" THEN behind \cup gone ELSE behind)
        /\ UNCHANGED <<files, library, vectors, failures, odd>>
    BY <1>2 DEF Purge
  <2>2. gone \subseteq Paths
    BY DEF SourceRows
  <2> HIDE DEF gone
  <2>3. /\ writer' \in [Writers -> WriterRecord] /\ rows' \in [Paths -> RowRecord]
        /\ chunks' \in [DocIds -> [of : Nat, embedded : BOOLEAN]] /\ lastId' = lastId
    BY <1>2, <2>1, PurgeIs, DeleteRowsIs DEF DeleteRows
  <2>4. QED
    BY <2>1, <2>2, <2>3 DEF IndexTypes, files, library
<1>3. CASE ReportFailures(w)
  <2>1. writer' \in [Writers -> WriterRecord]
    BY <1>3, ReportIs
  <2>2. me.source \in Sources /\ me.failed \subseteq Paths
    BY <1>0, <1>3 DEF ReportFailures, Shape, WriterRecord
  <2> DEFINE kept == {f \in failures : f[1] # me.source}
             now == kept \cup ({me.source} \X me.failed)
  <2>3. /\ failures' = now /\ UNCHANGED <<files, library, tables, odd>>
        /\ behind' = IF w = "request" THEN behind \cup {f[2] : f \in failures \ now} ELSE behind
    BY <1>3 DEF ReportFailures
  <2>4. now \subseteq Sources \X Paths /\ failures \subseteq Sources \X Paths
    BY <2>2 DEF IndexTypes
  <2> HIDE DEF now
  <2>5. behind' \subseteq Paths
    BY <2>3, <2>4 DEF IndexTypes
  <2>6. QED
    BY <2>1, <2>3, <2>4, <2>5 DEF IndexTypes, files, library, tables
<1>4. CASE ListDocuments(w)
  <2>1. writer' \in [Writers -> WriterRecord]
    BY <1>4, ListIs
  <2>2. QED
    BY <1>4, <2>1 DEF ListDocuments, IndexTypes, files, library, tables
<1>5. CASE PruneVectors(w)
  <2>1. writer' \in [Writers -> WriterRecord]
    BY <1>5, EndsIs DEF PruneVectors
  <2>2. vectors' \in [DocIds -> {"none", "live", "stale"}] /\ behind' \subseteq Paths
    BY <1>5 DEF PruneVectors, IndexTypes
  <2>3. QED
    BY <1>5, <2>1, <2>2 DEF PruneVectors, IndexTypes, files, library
<1>6. CASE RemoveVectors(w)
  <2>1. writer' \in [Writers -> WriterRecord]
    BY <1>6, GoesIs DEF RemoveVectors, Places
  <2>2. vectors' \in [DocIds -> {"none", "live", "stale"}]
    BY <1>6 DEF RemoveVectors, IndexTypes
  <2>3. QED
    BY <1>6, <2>1, <2>2 DEF RemoveVectors, IndexTypes, files, library
<1>7. CASE RemovePath(w)
  <2>1. /\ writer' \in [Writers -> WriterRecord] /\ rows' \in [Paths -> RowRecord]
        /\ chunks' \in [DocIds -> [of : Nat, embedded : BOOLEAN]] /\ lastId' = lastId
    BY <1>7, EndsIs, DeleteRowsIs DEF RemovePath, DeleteRows
  <2>2. failures' \subseteq failures
    BY <1>7 DEF RemovePath
  <2>3. QED
    BY <1>7, <2>1, <2>2 DEF RemovePath, IndexTypes, files, library
<1>8. CASE DeleteSource(w)
  <2>1. /\ writer' \in [Writers -> WriterRecord] /\ rows' \in [Paths -> RowRecord]
        /\ chunks' \in [DocIds -> [of : Nat, embedded : BOOLEAN]] /\ lastId' = lastId
    BY <1>8, EndsIs, DeleteRowsIs DEF DeleteSource, DeleteRows
  <2>2. me.source \in Sources
    BY <1>0, <1>8 DEF DeleteSource, Shape
  <2>3. failures' \subseteq failures /\ sources' \subseteq sources /\ behind' \subseteq Paths
    BY <1>8, <2>2, LibraryConstants DEF DeleteSource, IndexTypes
  <2>4. QED
    BY <1>8, <2>1, <2>3 DEF DeleteSource, IndexTypes, files
<1>9. QED
  BY <1>1, <1>2, <1>3, <1>4, <1>5, <1>6, <1>7, <1>8 DEF Reindex, Removal

(* What the worker begins with the first job of its queue                   *)
LEMMA TakeIs ==
  ASSUME IndexTypes, TakeJob
  PROVE  /\ writer' \in [Writers -> WriterRecord] /\ Others("worker") /\ W = Idle
         /\ \E s \in Sources :
              \/ Head(queue) = RescanOf(s) /\ W' = RescanBegun(s)
              \/ \E p \in Covers[s] :
                   \/ Head(queue) = FileJob("upsert", s, p) /\ s \notin sources /\ W' = Idle
                   \/ /\ Head(queue) = FileJob("upsert", s, p) /\ s \in sources /\ disk[p] # 0
                      /\ W' = FileBegun("upsert", s, p, "check")
                   \/ /\ Head(queue) = FileJob("upsert", s, p) /\ s \in sources /\ disk[p] = 0
                      /\ W' = FileBegun("delete", s, p, "unvector")
                   \/ Head(queue) = FileJob("delete", s, p) /\ W' = FileBegun("delete", s, p, "unvector")
<1> DEFINE job == Head(queue)
<1>1. /\ W = Idle /\ queue # <<>> /\ queue' = Tail(queue) /\ queue \in Seq(JobSet)
      /\ writer' = [writer EXCEPT !["worker"] = JobBegun(job)]
  BY DEF TakeJob, IndexTypes, W
<1>2. job \in JobSet
  BY <1>1, TailJobs
<1> HIDE DEF job
<1>3. PICK s \in Sources : \/ job = RescanOf(s)
                           \/ \E p \in Covers[s] : job = FileJob("upsert", s, p) \/ job = FileJob("delete", s, p)
  BY <1>2, JobKinds
<1>4. "worker" \in Writers
  BY DEF Writers
<1>5. ASSUME JobBegun(job) \in WriterRecord
      PROVE  writer' \in [Writers -> WriterRecord] /\ Others("worker") /\ W' = JobBegun(job)
  <2> DEFINE r == JobBegun(job)
  <2> HIDE DEF r
  <2>1. r \in WriterRecord /\ writer' = [writer EXCEPT !["worker"] = r]
    BY <1>1, <1>5 DEF r
  <2>2. QED
    BY <1>4, <2>1, RecordReplaced DEF r, W
<1>6. CASE job = RescanOf(s)
  <2>1. JobBegun(job) = RescanBegun(s)
    BY <1>6, JobFields DEF JobBegun, RescanOf
  <2>0. RescanBegun(s) \in WriterRecord
    BY RescanBegunIs
  <2>2. JobBegun(job) \in WriterRecord
    BY <2>0, <2>1, Zenon
  <2>3. writer' \in [Writers -> WriterRecord] /\ Others("worker") /\ W' = RescanBegun(s)
    BY <1>5, <2>1, <2>2
  <2>4. QED
    BY <1>1, <1>6, <2>3 DEF job
<1>7. ASSUME NEW p \in Covers[s], job = FileJob("upsert", s, p) \/ job = FileJob("delete", s, p)
      PROVE  \/ /\ job = FileJob("upsert", s, p) /\ s \notin sources /\ JobBegun(job) = Idle
             \/ /\ job = FileJob("upsert", s, p) /\ s \in sources /\ disk[p] # 0
                /\ JobBegun(job) = FileBegun("upsert", s, p, "check")
             \/ /\ job = FileJob("upsert", s, p) /\ s \in sources /\ disk[p] = 0
                /\ JobBegun(job) = FileBegun("delete", s, p, "unvector")
             \/ job = FileJob("delete", s, p) /\ JobBegun(job) = FileBegun("delete", s, p, "unvector")
  <2>1. CASE job = FileJob("upsert", s, p)
    <3>1. job.op = "upsert" /\ job.source = s /\ job.path = p
      BY <2>1 DEF FileJob
    <3>2. CASE s \notin sources
      BY <2>1, <3>1, <3>2 DEF JobBegun
    <3>3. CASE s \in sources /\ disk[p] # 0
      BY <2>1, <3>1, <3>3 DEF JobBegun
    <3>4. CASE s \in sources /\ disk[p] = 0
      BY <2>1, <3>1, <3>4 DEF JobBegun
    <3>5. QED
      BY <3>2, <3>3, <3>4
  <2>2. CASE job = FileJob("delete", s, p)
    <3>1. job.op = "delete" /\ job.source = s /\ job.path = p
      BY <2>2 DEF FileJob
    <3>2. QED
      BY <2>2, <3>1 DEF JobBegun
  <2>3. QED
    BY <1>7, <2>1, <2>2
<1>8. ASSUME NEW p \in Covers[s], job = FileJob("upsert", s, p) \/ job = FileJob("delete", s, p)
      PROVE  JobBegun(job) \in WriterRecord
  <2>1. p \in Paths
    BY LibraryConstants
  <2>2. /\ FileBegun("upsert", s, p, "check") \in WriterRecord
        /\ FileBegun("delete", s, p, "unvector") \in WriterRecord
    BY <2>1, FileBegunIs DEF Ops, Places, AtFile
  <2>3. QED
    BY <1>7, <1>8, <2>2, IdleIs
<1>9. QED
  BY <1>1, <1>3, <1>5, <1>6, <1>7, <1>8 DEF job

\* A request begins with its record and leaves the worker alone.
LEMMA RequestsIs ==
  ASSUME IndexTypes, NEW r \in WriterRecord, Requests(r)
  PROVE  /\ writer' \in [Writers -> WriterRecord] /\ Others("request") /\ W' = W
         /\ writer["request"] = Idle /\ writer'["request"] = r /\ odd' \in Nat
<1>1. "request" \in Writers /\ "worker" \in Writers /\ "worker" # "request"
  BY DEF Writers
<1>2. writer' = [writer EXCEPT !["request"] = r] /\ writer["request"] = Idle /\ odd' = odd + 1
  BY DEF Requests
<1>3. QED
  BY <1>1, <1>2, RecordReplaced DEF Others, W, IndexTypes

(* The record a request begins with *)
RemoveBegun(s) == [Idle EXCEPT !.op = "remove", !.source = s, !.at = "unsource"]

\* That of the deletion of a source
LEMMA RemoveBegunIs ==
  ASSUME NEW s \in Sources
  PROVE  /\ RemoveBegun(s) \in WriterRecord /\ RemoveBegun(s).op = "remove" /\ RemoveBegun(s).source = s
         /\ RemoveBegun(s).at = "unsource" /\ RemoveBegun(s).id = 0
<1>1. RemoveBegun(s) \in WriterRecord
  BY IdleIs DEF RemoveBegun, WriterRecord, Places, Ops
<1>2. QED
  BY <1>1 DEF RemoveBegun, Idle

\* The four requests
LEMMA BeginsIs ==
  ASSUME IndexTypes, NEW s \in Sources
  PROVE  /\ IndexEmptySource(s) => RescanBegun(s) \in WriterRecord /\ Requests(RescanBegun(s))
         /\ RemoveSource(s) \/ RemoveGrant(s) => RemoveBegun(s) \in WriterRecord /\ Requests(RemoveBegun(s))
         /\ \A p \in Paths : Attach(s, p) =>
              FileBegun("attach", s, p, "check") \in WriterRecord /\ Requests(FileBegun("attach", s, p, "check"))
<1>1. \A p \in Paths : FileBegun("attach", s, p, "check") \in WriterRecord
  BY FileBegunIs DEF Ops, Places, AtFile
<1>2. QED
  BY <1>1, RescanBegunIs, RemoveBegunIs DEF IndexEmptySource, RemoveSource, RemoveGrant, Attach, RemoveBegun

\* The types when a request begins
LEMMA TypesOfBegins ==
  ASSUME IndexTypes, NEW s \in Sources,
         IndexEmptySource(s) \/ RemoveSource(s) \/ RemoveGrant(s) \/ (\E p \in Paths : Attach(s, p))
  PROVE  IndexTypes'
<1>1. PICK r \in WriterRecord : Requests(r)
  BY BeginsIs
<1>2. writer' \in [Writers -> WriterRecord] /\ odd' \in Nat
  BY <1>1, RequestsIs
<1>3. UNCHANGED <<files, queue, sources, rows, lastId, chunks, failures, semantic>>
  BY <1>1 DEF Requests
<1>4. /\ watched' \subseteq Sources /\ vectors' \in [DocIds -> {"none", "live", "stale"}]
      /\ behind' \subseteq Paths
  <2>1. CASE RemoveSource(s)
    BY <2>1, LibraryConstants DEF RemoveSource, IndexTypes
  <2>2. CASE IndexEmptySource(s) \/ RemoveGrant(s) \/ (\E p \in Paths : Attach(s, p))
    BY <2>2 DEF IndexEmptySource, RemoveGrant, Attach, IndexTypes
  <2>3. QED
    BY <2>1, <2>2
<1>5. QED
  BY <1>2, <1>3, <1>4 DEF IndexTypes, files

\* ... when files change and are seen to change
LEMMA TypesOfFiles ==
  ASSUME IndexTypes, NEW p \in Paths, WriteFile(p) \/ DeleteFile(p) \/ Observe(p)
  PROVE  IndexTypes'
<1>1. CASE WriteFile(p)
  <2>1. version' \in Nat \ {0} /\ disk' \in [Paths -> Nat]
    BY <1>1 DEF WriteFile, IndexTypes
  <2>2. QED
    BY <1>1, <2>1 DEF WriteFile, IndexTypes, tables
<1>2. CASE DeleteFile(p)
  <2>1. disk' \in [Paths -> Nat] /\ behind' \subseteq Paths
    BY <1>2 DEF DeleteFile, IndexTypes
  <2>2. QED
    BY <1>2, <2>1 DEF DeleteFile, IndexTypes, tables
<1>3. CASE Observe(p)
  <2>1. queue' \in Seq(JobSet)
    BY <1>3, ObservedJobs, QueueAdds DEF Observe
  <2>2. seen' \in [Paths -> Nat]
    BY <1>3 DEF Observe, IndexTypes
  <2>3. QED
    BY <1>3, <2>1, <2>2 DEF Observe, IndexTypes, tables
<1>4. QED
  BY <1>1, <1>2, <1>3

\* ... when the queue is served, the process restarts, the model is switched
LEMMA TypesOfQueue ==
  ASSUME IndexTypes, Shapes,
         TakeJob \/ RefuseJob \/ Restart \/ SwitchSemantic \/ (\E s \in Sources : AddSource(s) \/ ReindexLibrary(s))
  PROVE  IndexTypes'
<1>1. CASE TakeJob
  <2>1. writer' \in [Writers -> WriterRecord]
    BY <1>1, TakeIs
  <2>2. queue' \in Seq(JobSet)
    BY <1>1, TailJobs DEF TakeJob, IndexTypes
  <2>3. QED
    BY <1>1, <2>1, <2>2 DEF TakeJob, IndexTypes, files, tables
<1>2. CASE RefuseJob
  <2>1. queue' \in Seq(JobSet) /\ Head(queue) \in JobSet
    BY <1>2, TailJobs DEF RefuseJob, IndexTypes
  <2>2. Head(queue).source \in Sources
    BY <2>1, JobKinds, JobFields
  <2>3. behind' \subseteq Paths /\ odd' \in Nat
    BY <1>2, <2>2, LibraryConstants DEF RefuseJob, IndexTypes
  <2>4. QED
    BY <1>2, <2>1, <2>3 DEF RefuseJob, IndexTypes, files, tables
<1>3. CASE Restart
  <2>1. queue' \in Seq(JobSet)
    BY <1>3, RescanJobs DEF Restart, IndexTypes
  <2>2. writer' \in [Writers -> WriterRecord]
    BY <1>3, IdleIs DEF Restart
  <2>3. \A w \in Writers : writer[w].at \in {"chunks", "vectors", "drop"} => writer[w].path \in Paths
    BY FileOf DEF AtFile
  <2>4. behind' \subseteq Paths /\ odd' \in Nat
    BY <1>3, <2>3 DEF Restart, IndexTypes
  <2>5. QED
    BY <1>3, <2>1, <2>2, <2>4 DEF Restart, IndexTypes, files, tables
<1>4. CASE SwitchSemantic
  BY <1>4 DEF SwitchSemantic, IndexTypes, files, tables
<1>5. ASSUME NEW s \in Sources, AddSource(s) \/ ReindexLibrary(s) PROVE IndexTypes'
  <2>1. queue' \in Seq(JobSet)
    BY <1>5, RescanJob, QueueAdds DEF AddSource, ReindexLibrary
  <2>2. QED
    BY <1>5, <2>1 DEF AddSource, ReindexLibrary, IndexTypes, files, tables
<1>6. QED
  BY <1>1, <1>2, <1>3, <1>4, <1>5

(* A step of one writer changes the shape of its record only.               *)
OpsOf(w) == IF w = "worker" THEN {"none", "upsert", "rescan", "delete"} ELSE {"none", "attach", "rescan", "remove"}

\* One record of the right shape for the old one
LEMMA ShapeOne ==
  ASSUME Shapes, NEW w \in Writers, Others(w), Shape(writer'[w]), writer'[w].op \in OpsOf(w)
  PROVE  Shapes'
<1>1. \A v \in Writers : v = w \/ writer'[v] = writer[v]
  BY DEF Others
<1>2. ASSUME NEW v \in Writers PROVE Shape(writer'[v])
  <2>1. CASE v = w
    BY <2>1
  <2>2. CASE v # w
    BY <1>1, <2>2 DEF Shapes
  <2>3. QED
    BY <2>1, <2>2
<1>3. writer'["worker"].op \in OpsOf("worker") /\ writer'["request"].op \in OpsOf("request")
  BY <1>1 DEF Shapes, OpsOf, Writers
<1>4. QED
  BY <1>2, <1>3 DEF Shapes, Shape, OpsOf

\* Idle has it.
LEMMA IdleShape == Shape(Idle) /\ \A w \in Writers : Idle.op \in OpsOf(w)
BY DEF Shape, Idle, AtFile, Writing, OpsOf

\* Steps that leave the writers alone
LEMMA ShapesSame ==
  ASSUME Shapes, UNCHANGED writer
  PROVE  Shapes'
BY DEF Shapes, Shape

\* The shapes, one kind of step after the other
LEMMA ShapesOfFileSteps ==
  ASSUME IndexTypes, Shapes, NEW w \in Writers, IndexFile(w)
  PROVE  Shapes'
<1> DEFINE me == writer[w]
           r == writer'[w]
<1>0. /\ me.at \in AtFile \cup {"clear"} =>
           me.path \in Paths /\ me.source \in Sources /\ me.path \in Covers[me.source]
      /\ Shape(me) /\ me.op \in OpsOf(w) /\ me \in WriterRecord
      /\ me.at \in Writing => me.id \in DocIds
  BY FileOf DEF Shapes, OpsOf, Writers, IndexTypes
<1>1. ASSUME FileDone(w), me.at \in AtFile PROVE Shapes'
  <2>1. me.path \in Covers[me.source] /\ me.source \in Sources /\ me.path \in Paths
        /\ me.op \in {"upsert", "rescan", "attach"}
    BY <1>0, <1>1 DEF Shape
  <2>2. /\ Others(w) /\ r.op = me.op /\ r.source = me.source /\ r.id = 0
        /\ me.op = "rescan" => r.at = "scan" /\ r.todo = me.todo /\ r.found = me.found \cup {me.path}
        /\ me.op # "rescan" => r.at = "clear" /\ r.path = me.path
    BY <1>1, <2>1, FileDoneIs DEF SameWork
  <2>3. Shape(r)
    BY <1>0, <2>1, <2>2 DEF Shape, AtFile, Writing
  <2>4. QED
    BY <1>0, <2>2, <2>3, ShapeOne
<1>2. CASE CheckUnchanged(w)
  <2>1. me.at = "check" /\ (FileDone(w) \/ Goes(w, "read"))
    BY <1>2 DEF CheckUnchanged
  <2>2. ASSUME Goes(w, "read") PROVE Shapes'
    <3>1. /\ Others(w) /\ r.at = "read" /\ r.op = me.op /\ r.source = me.source /\ r.id = me.id
          /\ r.path = me.path /\ r.todo = me.todo /\ r.found = me.found
      BY <2>2, GoesIs DEF Places, AtFile, SameWork, SameFile, SameIds, SameLists
    <3>2. Shape(r)
      BY <1>0, <2>1, <3>1 DEF Shape, AtFile, Writing
    <3>3. QED
      BY <1>0, <3>1, <3>2, ShapeOne
  <2>3. QED
    BY <1>1, <2>1, <2>2 DEF AtFile
<1>3. CASE Extract(w)
  <2>1. /\ Others(w) /\ me.at = "read" /\ r.at = "row" /\ r.op = me.op /\ r.source = me.source /\ r.id = me.id
        /\ r.path = me.path /\ r.todo = me.todo /\ r.found = me.found
    BY <1>0, <1>3, ExtractIs DEF Extract, AtFile, SameWork, SameIds, SameLists
  <2>2. Shape(r)
    BY <1>0, <2>1 DEF Shape, AtFile, Writing
  <2>3. QED
    BY <1>0, <2>1, <2>2, ShapeOne
<1>4. CASE ExtractFails(w)
  <2>1. /\ Others(w) /\ me.at = "read"
        /\ me.op = "rescan" => /\ r.at = "scan" /\ r.op = me.op /\ r.source = me.source /\ r.id = me.id
                               /\ r.todo = me.todo /\ r.found = me.found
        /\ me.op # "rescan" => r = Idle
    BY <1>0, <1>4, ExtractFailsIs DEF ExtractFails, AtFile, SameWork, SameIds
  <2>2. Shape(r) /\ r.op \in OpsOf(w)
    BY <1>0, <2>1, IdleShape DEF Shape, AtFile, Writing
  <2>3. QED
    BY <2>1, <2>2, ShapeOne
<1>5. CASE UpsertDocument(w)
  <2>1. /\ Others(w) /\ me.at = "row" /\ r.at = "chunks" /\ r.op = me.op /\ r.source = me.source
        /\ r.id \in DocIds /\ r.path = me.path /\ r.todo = me.todo /\ r.found = me.found
    BY <1>0, <1>5, UpsertIs DEF UpsertDocument, AtFile, SameWork, SameLists
  <2>2. Shape(r)
    BY <1>0, <2>1 DEF Shape, AtFile, Writing, DocIds
  <2>3. QED
    BY <1>0, <2>1, <2>2, ShapeOne
<1>6. CASE ReplaceChunks(w)
  <2>1. me.at = "chunks" /\ me.id \in DocIds
    BY <1>0, <1>6 DEF ReplaceChunks, Writing
  <2>2. CASE me.id \in RowIds
    <3>1. /\ r.at = "vectors" /\ r.op = me.op /\ r.source = me.source /\ r.path = me.path /\ r.id = me.id
          /\ r.todo = me.todo /\ r.found = me.found
          /\ \A v \in Writers : v # w =>
               /\ writer'[v].at = writer[v].at /\ SameFile(writer'[v], writer[v])
               /\ SameWork(writer'[v], writer[v]) /\ SameLists(writer'[v], writer[v])
               /\ writer'[v].id = writer[v].id
      BY <1>6, <2>1, <2>2, ReplaceChunksIs DEF SameWork, SameLists
    <3>2. Shape(r)
      BY <1>0, <2>1, <3>1 DEF Shape, AtFile, Writing
    <3>3. ASSUME NEW v \in Writers PROVE Shape(writer'[v]) /\ writer'[v].op = writer[v].op
      <4>1. CASE v = w
        BY <3>1, <3>2, <4>1
      <4>2. CASE v # w
        <5>1. Shape(writer[v])
          BY DEF Shapes
        <5>2. QED
          BY <3>1, <4>2, <5>1 DEF Shape, SameWork, SameFile, SameLists
      <4>3. QED
        BY <4>1, <4>2
    <3>4. QED
      BY <3>3 DEF Shapes, Shape, Writers
  <2>3. CASE me.id \notin RowIds
    <3>1. Ends(w)
      BY <1>6, <2>3 DEF ReplaceChunks
    <3>2. QED
      BY <3>1, EndsIs, IdleShape, ShapeOne
  <2>4. QED
    BY <2>2, <2>3
<1>7. CASE ReplaceVectors(w) \/ VectorsFail(w)
  <2>1. FileDone(w) /\ me.at \in AtFile
    BY <1>7 DEF ReplaceVectors, VectorsFail, AtFile
  <2>2. QED
    BY <1>1, <2>1
<1>8. CASE ReportIndexed(w)
  BY <1>8, EndsIs, IdleShape, ShapeOne DEF ReportIndexed
<1>9. QED
  BY <1>2, <1>3, <1>4, <1>5, <1>6, <1>7, <1>8 DEF IndexFile

\* ... around the files
LEMMA ShapesOfFolderSteps ==
  ASSUME IndexTypes, Shapes, NEW w \in Writers, Reindex(w) \/ Removal(w)
  PROVE  Shapes'
<1> DEFINE me == writer[w]
           r == writer'[w]
<1>0. Shape(me) /\ me.op \in OpsOf(w) /\ me \in WriterRecord
  BY DEF Shapes, OpsOf, Writers, IndexTypes
<1>1. ASSUME NEW p \in Paths, VisitFile(w, p) PROVE Shapes'
  <2>1. /\ Others(w) /\ me.at = "scan" /\ p \in me.todo
        /\ r.op = me.op /\ r.source = me.source /\ r.id = me.id
        /\ r.todo = me.todo \ {p} /\ r.found = me.found
        /\ r.at = "scan" \/ (r.at = "check" /\ r.path = p)
    BY <1>1, VisitIs DEF SameWork, SameIds
  <2>2. Shape(r)
    BY <1>0, <2>1 DEF Shape, AtFile, Writing
  <2>3. QED
    BY <1>0, <2>1, <2>2, ShapeOne
<1>2. CASE Purge(w)
  <2>1. /\ Others(w) /\ me.at = "scan" /\ r.op = me.op /\ r.source = me.source /\ r.id = me.id
        /\ r.at = "report" /\ r.todo = {} /\ r.found = {}
    BY <1>2, PurgeIs DEF SameWork, SameIds
  <2>2. Shape(r)
    BY <1>0, <2>1 DEF Shape, AtFile, Writing
  <2>3. QED
    BY <1>0, <2>1, <2>2, ShapeOne
<1>3. CASE ReportFailures(w)
  <2>1. Others(w) /\ r = [Idle EXCEPT !.at = "list"]
    BY <1>3, ReportIs
  <2>2. r.at = "list" /\ r.op = "none" /\ r.id = 0
    BY <2>1 DEF Idle
  <2>3. Shape(r) /\ r.op \in OpsOf(w)
    BY <2>2 DEF Shape, AtFile, Writing, OpsOf
  <2>4. QED
    BY <2>1, <2>3, ShapeOne
<1>4. CASE ListDocuments(w)
  <2>1. /\ Others(w) /\ me.at = "list" /\ r.op = me.op /\ r.source = me.source /\ r.id = me.id
        /\ r.at = "prune" /\ r.todo = me.todo /\ r.found = me.found
    BY <1>4, ListIs DEF SameWork, SameIds, SameLists
  <2>2. Shape(r)
    BY <1>0, <2>1 DEF Shape, AtFile, Writing
  <2>3. QED
    BY <1>0, <2>1, <2>2, ShapeOne
<1>5. CASE RemoveVectors(w)
  <2>1. /\ Others(w) /\ me.at = "unvector" /\ r.op = me.op /\ r.source = me.source /\ r.id = me.id
        /\ r.at = "drop" /\ r.path = me.path /\ r.todo = me.todo /\ r.found = me.found
    BY <1>5, GoesIs DEF RemoveVectors, Places, SameWork, SameFile, SameIds, SameLists
  <2>2. Shape(r)
    BY <1>0, <2>1 DEF Shape, AtFile, Writing
  <2>3. QED
    BY <1>0, <2>1, <2>2, ShapeOne
<1>6. CASE PruneVectors(w) \/ RemovePath(w) \/ DeleteSource(w)
  <2>1. Ends(w)
    BY <1>6 DEF PruneVectors, RemovePath, DeleteSource
  <2>2. QED
    BY <2>1, EndsIs, IdleShape, ShapeOne
<1>7. QED
  BY <1>1, <1>2, <1>3, <1>4, <1>5, <1>6 DEF Reindex, Removal

\* ... when a request begins
LEMMA ShapesOfBegins ==
  ASSUME IndexTypes, Shapes, NEW s \in Sources,
         IndexEmptySource(s) \/ RemoveSource(s) \/ RemoveGrant(s) \/ (\E p \in Paths : Attach(s, p))
  PROVE  Shapes'
<1>0. "request" \in Writers
  BY DEF Writers
<1>1. CASE IndexEmptySource(s)
  <2>1. Others("request") /\ writer'["request"] = RescanBegun(s)
    BY <1>1, BeginsIs, RequestsIs
  <2>2. Shape(RescanBegun(s)) /\ RescanBegun(s).op \in OpsOf("request")
    BY RescanBegunIs DEF Shape, AtFile, Writing, OpsOf
  <2>3. QED
    BY <1>0, <2>1, <2>2, ShapeOne
<1>2. CASE RemoveSource(s) \/ RemoveGrant(s)
  <2>1. Others("request") /\ writer'["request"] = RemoveBegun(s)
    BY <1>2, BeginsIs, RequestsIs
  <2>2. Shape(RemoveBegun(s)) /\ RemoveBegun(s).op \in OpsOf("request")
    BY RemoveBegunIs DEF Shape, AtFile, Writing, OpsOf
  <2>3. QED
    BY <1>0, <2>1, <2>2, ShapeOne
<1>3. ASSUME NEW p \in Paths, Attach(s, p) PROVE Shapes'
  <2>1. Others("request") /\ writer'["request"] = FileBegun("attach", s, p, "check") /\ p \in Covers[s]
    BY <1>3, BeginsIs, RequestsIs DEF Attach
  <2> DEFINE b == FileBegun("attach", s, p, "check")
  <2>2. b.op = "attach" /\ b.source = s /\ b.path = p /\ b.at = "check" /\ b.id = 0
    BY FileBegunIs DEF Ops, Places, AtFile
  <2>3. Shape(b) /\ b.op \in OpsOf("request")
    BY <2>1, <2>2 DEF Shape, AtFile, Writing, OpsOf
  <2>4. QED
    BY <1>0, <2>1, <2>3, ShapeOne
<1>4. QED
  BY <1>1, <1>2, <1>3

\* ... when the worker takes a job
LEMMA ShapesOfTake ==
  ASSUME IndexTypes, Shapes, TakeJob
  PROVE  Shapes'
<1>0. "worker" \in Writers
  BY DEF Writers
<1>1. Others("worker") /\ W' = writer'["worker"]
  BY TakeIs DEF W
<1>2. Shape(W') /\ W'.op \in OpsOf("worker")
  <2>1. ASSUME NEW s \in Sources
        PROVE  Shape(RescanBegun(s)) /\ RescanBegun(s).op \in OpsOf("worker")
    BY RescanBegunIs DEF Shape, AtFile, Writing, OpsOf
  <2>2. ASSUME NEW s \in Sources, NEW p \in Covers[s], NEW op \in {"upsert", "delete"},
               NEW place, place = IF op = "upsert" THEN "check" ELSE "unvector"
        PROVE  Shape(FileBegun(op, s, p, place)) /\ FileBegun(op, s, p, place).op \in OpsOf("worker")
    <3> DEFINE b == FileBegun(op, s, p, place)
    <3>1. p \in Paths /\ place \in Places /\ op \in Ops
      BY <2>2, LibraryConstants DEF Ops, Places, AtFile
    <3>2. b.op = op /\ b.source = s /\ b.path = p /\ b.at = place /\ b.id = 0
      BY <3>1, FileBegunIs
    <3>3. QED
      BY <2>2, <3>2 DEF Shape, AtFile, Writing, OpsOf
  <2>3. QED
    BY <2>1, <2>2, TakeIs, IdleShape, <1>0
<1>3. QED
  BY <1>0, <1>1, <1>2, ShapeOne

(* A step of one writer: its own version, and the rows it writes            *)
LEMMA VersionOne ==
  ASSUME VersionsOK, NEW w \in Writers, UNCHANGED files, Others(w), WriterVersions(writer'[w]),
         \A p \in Paths : rows'[p] = rows[p] \/ RowVersions(p)'
  PROVE  VersionsOK'
<1>1. ASSUME NEW p \in Paths PROVE disk'[p] <= version' /\ seen'[p] <= version' /\ RowVersions(p)'
  BY DEF VersionsOK, RowVersions, files
<1>2. ASSUME NEW v \in Writers PROVE WriterVersions(writer[v])'
  <2>1. CASE v = w
    BY <2>1 DEF WriterVersions, files
  <2>2. CASE v # w
    BY <2>2 DEF VersionsOK, WriterVersions, Others, files
  <2>3. QED
    BY <2>1, <2>2
<1>3. QED
  BY <1>1, <1>2 DEF VersionsOK

(* Every writer that is past its look at the file, or never looked          *)
LEMMA NotLooking ==
  ASSUME NEW r, r.at \notin Looking
  PROVE  WriterVersions(r)
BY DEF WriterVersions, Looking

\* Versions when files change: the new one is ahead of all.
LEMMA VersionsOfFiles ==
  ASSUME Basics, NEW p \in Paths, WriteFile(p) \/ DeleteFile(p) \/ Observe(p)
  PROVE  VersionsOK'
<1>0. UNCHANGED <<rows, writer>> /\ rows \in [Paths -> RowRecord]
  BY DEF WriteFile, DeleteFile, Observe, tables, Basics, IndexTypes
<1>1. \A q \in Paths : disk[q] \in Nat /\ seen[q] \in Nat /\ rows[q].stat \in Nat /\ rows[q].text \in Nat
  BY DEF Basics, IndexTypes, RowRecord
<1>2. \A v \in Writers : writer[v].stat \in Nat /\ writer[v].text \in Nat
  BY DEF Basics, IndexTypes, WriterRecord
<1>3. version \in Nat
  BY DEF Basics, IndexTypes
<1>4. \A v \in Writers : writer[v].at \in Looking => writer[v].path \in Paths
  BY FileOf DEF Basics, Looking, AtFile
<1>5. VersionsOK
  BY DEF Basics
<1>6. CASE WriteFile(p)
  <2>1. version' = version + 1 /\ seen' = seen /\ disk'[p] = version + 1 /\ \A q \in Paths : q # p => disk'[q] = disk[q]
    BY <1>6 DEF WriteFile, Basics, IndexTypes
  <2>2. \A q \in Paths : disk'[q] <= version' /\ seen'[q] <= version' /\ RowVersions(q)'
    BY <1>0, <1>1, <1>3, <1>5, <2>1 DEF VersionsOK, RowVersions
  <2>3. \A v \in Writers : WriterVersions(writer[v])'
    BY <1>0, <1>1, <1>2, <1>3, <1>4, <1>5, <2>1 DEF VersionsOK, WriterVersions, Looking
  <2>4. QED
    BY <2>2, <2>3 DEF VersionsOK
<1>7. CASE DeleteFile(p)
  <2>1. version' = version /\ seen' = seen /\ disk'[p] = 0 /\ \A q \in Paths : q # p => disk'[q] = disk[q]
    BY <1>7 DEF DeleteFile, Basics, IndexTypes
  <2>2. \A q \in Paths : disk'[q] <= version' /\ seen'[q] <= version' /\ RowVersions(q)'
    BY <1>0, <1>1, <1>3, <1>5, <2>1 DEF VersionsOK, RowVersions
  <2>3. \A v \in Writers : WriterVersions(writer[v])'
    BY <1>0, <1>1, <1>2, <1>3, <1>4, <1>5, <2>1 DEF VersionsOK, WriterVersions, Looking
  <2>4. QED
    BY <2>2, <2>3 DEF VersionsOK
<1>8. CASE Observe(p)
  <2>1. version' = version /\ disk' = disk /\ seen'[p] = disk[p] /\ \A q \in Paths : q # p => seen'[q] = seen[q]
    BY <1>8 DEF Observe, Basics, IndexTypes
  <2>2. \A q \in Paths : disk'[q] <= version' /\ seen'[q] <= version' /\ RowVersions(q)'
    BY <1>0, <1>5, <2>1 DEF VersionsOK, RowVersions
  <2>3. \A v \in Writers : WriterVersions(writer[v])'
    BY <1>0, <1>5, <2>1 DEF VersionsOK, WriterVersions
  <2>4. QED
    BY <2>2, <2>3 DEF VersionsOK
<1>9. QED
  BY <1>6, <1>7, <1>8

\* ... when a file is indexed: the row gets the version looked at.
LEMMA VersionsOfFileSteps ==
  ASSUME Basics, NEW w \in Writers, IndexFile(w)
  PROVE  VersionsOK'
<1> DEFINE me == writer[w]
           r == writer'[w]
<1>0. /\ me.at \in AtFile \cup {"clear"} =>
           me.path \in Paths /\ me.source \in Sources /\ me.path \in Covers[me.source]
      /\ WriterVersions(me) /\ me \in WriterRecord
      /\ me.at \in Writing => me.id \in DocIds
      /\ IndexTypes /\ Shapes /\ VersionsOK
  BY FileOf DEF Basics, VersionsOK, IndexTypes
<1>1. ASSUME FileDone(w), me.at \in AtFile, UNCHANGED <<files, rows>> PROVE VersionsOK'
  <2>1. Others(w) /\ r.at \in {"scan", "clear"}
    BY <1>0, <1>1, FileDoneIs
  <2>2. WriterVersions(r)
    BY <2>1 DEF WriterVersions, Looking
  <2>3. QED
    BY <1>0, <1>1, <2>1, <2>2, VersionOne
<1>2. CASE CheckUnchanged(w)
  <2>1. me.at = "check" /\ (FileDone(w) \/ Goes(w, "read")) /\ UNCHANGED <<files, rows>>
    BY <1>2 DEF CheckUnchanged, tables
  <2>2. ASSUME Goes(w, "read") PROVE VersionsOK'
    <3>1. Others(w) /\ r.at = "read" /\ r.path = me.path /\ r.stat = me.stat
      BY <1>0, <2>2, GoesIs DEF Places, AtFile, SameFile
    <3>2. WriterVersions(r)
      BY <1>0, <2>1, <3>1 DEF WriterVersions, Looking
    <3>3. QED
      BY <1>0, <2>1, <3>1, <3>2, VersionOne
  <2>3. QED
    BY <1>1, <2>1, <2>2 DEF AtFile
<1>3. CASE Extract(w)
  <2>1. /\ Others(w) /\ me.at = "read" /\ r.at = "row" /\ r.path = me.path /\ r.stat = me.stat
        /\ r.text = disk[me.path] /\ Readable(disk[me.path])
    BY <1>0, <1>3, ExtractIs DEF Extract, AtFile
  <2>2. disk[me.path] <= version /\ me.path \in Paths /\ disk[me.path] \in Nat /\ version \in Nat /\ me.stat \in Nat
    BY <1>0, <2>1 DEF VersionsOK, IndexTypes, AtFile, WriterRecord
  <2>3. WriterVersions(r)
    BY <1>0, <2>1, <2>2 DEF WriterVersions, Looking, Readable
  <2>4. UNCHANGED <<files, rows>>
    BY <1>3 DEF Extract, tables
  <2>5. QED
    BY <1>0, <2>1, <2>3, <2>4, VersionOne
<1>4. CASE ExtractFails(w)
  <2>1. Others(w) /\ (r.at = "scan" \/ r = Idle)
    BY <1>0, <1>4, ExtractFailsIs DEF ExtractFails, AtFile
  <2>2. WriterVersions(r)
    BY <2>1 DEF WriterVersions, Looking, Idle
  <2>3. UNCHANGED <<files, rows>>
    BY <1>4 DEF ExtractFails, tables
  <2>4. QED
    BY <1>0, <2>1, <2>2, <2>3, VersionOne
<1>5. CASE UpsertDocument(w)
  <2>0. me.at = "row" /\ me.path \in Paths /\ me.source \in Sources /\ me.path \in Covers[me.source]
    BY <1>0, <1>5 DEF UpsertDocument, AtFile
  <2>1. /\ Others(w) /\ r.at = "chunks" /\ r.id \in DocIds
        /\ rows' = [rows EXCEPT ![me.path] = DocumentRow(me, r.id)]
    BY <1>0, <1>5, <2>0, UpsertIs
  <2>2. WriterVersions(r)
    BY <2>1 DEF WriterVersions, Looking
  <2>3. UNCHANGED files
    BY <1>5 DEF UpsertDocument
  <2> DEFINE row == DocumentRow(me, r.id)
  <2>4. row.id = r.id /\ row.source = me.source /\ row.stat = me.stat /\ row.text = me.text
    BY DEF DocumentRow
  <2> HIDE DEF row
  <2>5. rows'[me.path] = row /\ \A q \in Paths : q # me.path => rows'[q] = rows[q]
    BY <1>0, <2>0, <2>1 DEF IndexTypes, row
  <2>6. ASSUME NEW p \in Paths, p = me.path PROVE RowVersions(p)'
    <3>1. r.id # 0
      BY <2>1 DEF DocIds
    <3>2. /\ 1 <= me.stat /\ me.stat <= me.text /\ me.text <= version /\ me.text \notin Bad
          /\ disk[me.path] # 0 => me.text <= disk[me.path]
      BY <1>0, <2>0 DEF WriterVersions, Looking
    <3>3. rows'[p].id # 0 /\ rows'[p].stat = me.stat /\ rows'[p].text = me.text /\ rows'[p].source = me.source
      BY <2>4, <2>5, <2>6, <3>1
    <3>4. /\ 1 <= rows'[p].stat /\ rows'[p].stat <= rows'[p].text /\ rows'[p].text <= version'
          /\ rows'[p].text \notin Bad /\ rows'[p].source \in Sources /\ p \in Covers[rows'[p].source]
          /\ disk'[p] # 0 => rows'[p].text <= disk'[p]
      BY <2>0, <2>3, <2>6, <3>2, <3>3 DEF files
    <3>5. QED
      BY <3>3, <3>4 DEF RowVersions
  <2>7. QED
    BY <1>0, <2>0, <2>1, <2>2, <2>3, <2>5, <2>6, VersionOne
<1>6. CASE ReplaceChunks(w)
  <2>1. me.at = "chunks" /\ me.id \in DocIds /\ UNCHANGED <<files, rows>>
    BY <1>0, <1>6 DEF ReplaceChunks, Writing
  <2>2. CASE me.id \in RowIds
    <3>1. /\ r.at = "vectors"
          /\ \A v \in Writers : v # w => writer'[v].at = writer[v].at /\ SameFile(writer'[v], writer[v])
      BY <1>0, <1>6, <2>1, <2>2, ReplaceChunksIs
    <3>2. ASSUME NEW v \in Writers PROVE WriterVersions(writer[v])'
      <4>1. CASE v = w
        BY <3>1, <4>1 DEF WriterVersions, Looking
      <4>2. CASE v # w
        <5>1. writer'[v].at = writer[v].at /\ writer'[v].path = writer[v].path /\ writer'[v].stat = writer[v].stat
              /\ writer'[v].text = writer[v].text
          BY <3>1, <4>2 DEF SameFile
        <5>2. WriterVersions(writer[v])
          BY <1>0 DEF VersionsOK
        <5>3. QED
          BY <2>1, <5>1, <5>2 DEF WriterVersions, files
      <4>3. QED
        BY <4>1, <4>2
    <3>3. QED
      BY <1>0, <2>1, <3>2 DEF VersionsOK, RowVersions, files
  <2>3. CASE me.id \notin RowIds
    <3>1. Others(w) /\ r = Idle
      BY <1>0, <1>6, <2>3, EndsIs DEF ReplaceChunks
    <3>2. WriterVersions(r)
      BY <3>1 DEF WriterVersions, Looking, Idle
    <3>3. QED
      BY <1>0, <2>1, <3>1, <3>2, VersionOne
  <2>4. QED
    BY <2>2, <2>3
<1>7. CASE ReplaceVectors(w) \/ VectorsFail(w)
  <2>1. FileDone(w) /\ me.at \in AtFile /\ UNCHANGED <<files, rows>>
    BY <1>7 DEF ReplaceVectors, VectorsFail, AtFile
  <2>2. QED
    BY <1>1, <2>1
<1>8. CASE ReportIndexed(w)
  <2>1. Others(w) /\ r = Idle /\ UNCHANGED <<files, rows>>
    BY <1>0, <1>8, EndsIs DEF ReportIndexed, tables
  <2>2. WriterVersions(r)
    BY <2>1 DEF WriterVersions, Looking, Idle
  <2>3. QED
    BY <1>0, <2>1, <2>2, VersionOne
<1>9. QED
  BY <1>2, <1>3, <1>4, <1>5, <1>6, <1>7, <1>8 DEF IndexFile

\* ... around the files
LEMMA VersionsOfFolderSteps ==
  ASSUME Basics, NEW w \in Writers, Reindex(w) \/ Removal(w)
  PROVE  VersionsOK'
<1> DEFINE me == writer[w]
           r == writer'[w]
<1>0. IndexTypes /\ Shapes /\ VersionsOK
  BY DEF Basics
<1>1. ASSUME NEW p \in Paths, VisitFile(w, p) PROVE VersionsOK'
  <2>1. /\ Others(w)
        /\ disk[p] = 0 => r.at = "scan"
        /\ disk[p] # 0 => r.at = "check" /\ r.path = p /\ r.stat = disk[p]
    BY <1>0, <1>1, VisitIs
  <2>2. disk[p] \in Nat /\ disk[p] <= version
    BY <1>0 DEF VersionsOK, IndexTypes
  <2>3. WriterVersions(r)
    BY <2>1, <2>2 DEF WriterVersions, Looking
  <2>4. UNCHANGED <<files, rows>>
    BY <1>1 DEF VisitFile, tables
  <2>5. QED
    BY <1>0, <2>1, <2>3, <2>4, VersionOne
<1>2. ASSUME NEW gone, DeleteRows(gone), UNCHANGED files, Others(w), r.at \notin Looking PROVE VersionsOK'
  <2>1. \A p \in Paths : rows'[p] = rows[p] \/ rows'[p] = NoRow
    BY <1>0, <1>2, DeleteRowsIs
  <2>2. \A p \in Paths : rows'[p] = rows[p] \/ RowVersions(p)'
    BY <2>1 DEF RowVersions, NoRow
  <2>3. WriterVersions(r)
    BY <1>2, NotLooking
  <2>4. QED
    BY <1>0, <1>2, <2>2, <2>3, VersionOne
<1>3. CASE Purge(w)
  <2>1. DeleteRows(SourceRows(me.source) \ me.found) /\ UNCHANGED files
    BY <1>3 DEF Purge
  <2>2. Others(w) /\ r.at = "report"
    BY <1>0, <1>3, PurgeIs
  <2>3. QED
    BY <1>2, <2>1, <2>2 DEF Looking
<1>4. CASE RemovePath(w) \/ DeleteSource(w)
  <2>1. Ends(w) /\ UNCHANGED files /\ \E gone : DeleteRows(gone)
    BY <1>4 DEF RemovePath, DeleteSource
  <2>2. Others(w) /\ r.at = "idle"
    BY <1>0, <2>1, EndsIs DEF Idle
  <2>3. QED
    BY <1>2, <2>1, <2>2 DEF Looking
<1>5. ASSUME UNCHANGED <<files, rows>>, Others(w), r.at \notin Looking PROVE VersionsOK'
  BY <1>0, <1>5, VersionOne, NotLooking
<1>6. CASE ReportFailures(w) \/ ListDocuments(w) \/ PruneVectors(w) \/ RemoveVectors(w)
  <2>1. UNCHANGED <<files, rows>>
    BY <1>6 DEF ReportFailures, ListDocuments, PruneVectors, RemoveVectors, tables
  <2>2. Others(w) /\ r.at \in {"list", "prune", "idle", "drop"}
    <3>1. CASE ReportFailures(w)
      BY <1>0, <3>1, ReportIs DEF Idle
    <3>2. CASE ListDocuments(w)
      BY <1>0, <3>2, ListIs
    <3>3. CASE PruneVectors(w)
      BY <1>0, <3>3, EndsIs DEF PruneVectors, Idle
    <3>4. CASE RemoveVectors(w)
      BY <1>0, <3>4, GoesIs DEF RemoveVectors, Places
    <3>5. QED
      BY <1>6, <3>1, <3>2, <3>3, <3>4
  <2>3. QED
    BY <1>5, <2>1, <2>2 DEF Looking
<1>7. QED
  BY <1>1, <1>3, <1>4, <1>6 DEF Reindex, Removal

\* ... when a writer begins, with the version it sees
LEMMA VersionsOfBegins ==
  ASSUME Basics,
         TakeJob \/ \E s \in Sources : \/ IndexEmptySource(s) \/ RemoveSource(s) \/ RemoveGrant(s)
                                       \/ \E p \in Paths : Attach(s, p)
  PROVE  VersionsOK'
<1>0. IndexTypes /\ Shapes /\ VersionsOK
  BY DEF Basics
<1>1. UNCHANGED <<files, rows>>
  BY DEF TakeJob, IndexEmptySource, RemoveSource, RemoveGrant, Attach, Requests, tables
<1>2. "worker" \in Writers /\ "request" \in Writers
  BY DEF Writers
<1>3. ASSUME NEW op \in {"upsert", "attach", "delete"}, NEW s \in Sources, NEW p \in Paths,
             NEW place \in {"check", "unvector"}, place = "check" => disk[p] # 0 /\ op # "delete"
      PROVE  WriterVersions(FileBegun(op, s, p, place))
  <2> DEFINE b == FileBegun(op, s, p, place)
  <2>1. op \in Ops /\ place \in Places
    BY DEF Ops, Places, AtFile
  <2>2. b.path = p /\ b.at = place /\ (op # "delete" => b.stat = disk[p])
    BY <1>0, <2>1, FileBegunIs
  <2>3. disk[p] \in Nat /\ disk[p] <= version
    BY <1>0 DEF VersionsOK, IndexTypes
  <2> HIDE DEF b
  <2>4. WriterVersions(b)
    BY <1>3, <2>2, <2>3 DEF WriterVersions, Looking
  <2>5. QED
    BY <2>4 DEF b
<1>4. ASSUME NEW s \in Sources PROVE WriterVersions(RescanBegun(s)) /\ WriterVersions(RemoveBegun(s))
  BY <1>0, RescanBegunIs, RemoveBegunIs DEF WriterVersions, Looking
<1>5. WriterVersions(Idle)
  BY DEF WriterVersions, Looking, Idle
<1>6. CASE TakeJob
  <2>1. Others("worker")
    BY <1>0, <1>6, TakeIs
  <2>2. \A s \in Sources : \A p \in Covers[s] : p \in Paths
    BY LibraryConstants
  <2>3. WriterVersions(W')
    BY <1>0, <1>3, <1>4, <1>5, <1>6, <2>2, TakeIs
  <2>4. QED
    BY <1>0, <1>1, <1>2, <2>1, <2>3, VersionOne DEF W
<1>7. ASSUME NEW s \in Sources, IndexEmptySource(s) \/ RemoveSource(s) \/ RemoveGrant(s) PROVE VersionsOK'
  <2>1. Others("request") /\ writer'["request"] \in {RescanBegun(s), RemoveBegun(s)}
    BY <1>0, <1>7, BeginsIs, RequestsIs
  <2>2. QED
    BY <1>0, <1>1, <1>2, <1>4, <2>1, VersionOne
<1>8. ASSUME NEW s \in Sources, NEW p \in Paths, Attach(s, p) PROVE VersionsOK'
  <2>1. Others("request") /\ writer'["request"] = FileBegun("attach", s, p, "check") /\ disk[p] # 0
    BY <1>0, <1>8, BeginsIs, RequestsIs DEF Attach
  <2>2. QED
    BY <1>0, <1>1, <1>2, <1>3, <2>1, VersionOne
<1>9. QED
  BY <1>6, <1>7, <1>8

\* A step that changes nothing
LEMMA QuietSteps ==
  ASSUME UNCHANGED vars
  PROVE  UNCHANGED <<disk, version, seen, queue, sources, watched, rows, lastId, chunks,
                     vectors, failures, semantic, writer, behind, odd>>
BY DEF vars

\* Types and shapes hold on.
LEMMA RecordsKept == IndexTypes /\ Shapes /\ [Next]_vars => IndexTypes' /\ Shapes'
<1> SUFFICES ASSUME IndexTypes, Shapes, [Next]_vars PROVE IndexTypes' /\ Shapes'
  OBVIOUS
<1>1. CASE UNCHANGED vars
  BY <1>1, QuietSteps, ShapesSame DEF IndexTypes
<1>2. ASSUME NEW p \in Paths, WriteFile(p) \/ DeleteFile(p) \/ Observe(p) PROVE IndexTypes' /\ Shapes'
  <2>1. UNCHANGED writer
    BY <1>2 DEF WriteFile, DeleteFile, Observe
  <2>2. QED
    BY <1>2, <2>1, ShapesSame, TypesOfFiles
<1>3. CASE TakeJob
  BY <1>3, TypesOfQueue, ShapesOfTake
<1>4. CASE RefuseJob \/ SwitchSemantic \/ (\E s \in Sources : AddSource(s) \/ ReindexLibrary(s))
  <2>1. UNCHANGED writer
    BY <1>4 DEF RefuseJob, SwitchSemantic, AddSource, ReindexLibrary
  <2>2. QED
    BY <1>4, <2>1, ShapesSame, TypesOfQueue
<1>5. CASE Restart
  <2>1. writer' = [w \in Writers |-> Idle]
    BY <1>5 DEF Restart
  <2>2. \A w \in Writers : Shape(writer'[w]) /\ writer'[w].op = "none"
    BY <2>1, IdleShape DEF Idle
  <2>3. Shapes'
    BY <2>2 DEF Shapes, Shape, Writers
  <2>4. QED
    BY <1>5, <2>3, TypesOfQueue
<1>6. ASSUME NEW s \in Sources,
             IndexEmptySource(s) \/ RemoveSource(s) \/ RemoveGrant(s) \/ (\E p \in Paths : Attach(s, p))
      PROVE  IndexTypes' /\ Shapes'
  BY <1>6, TypesOfBegins, ShapesOfBegins
<1>7. ASSUME NEW w \in Writers, IndexFile(w) PROVE IndexTypes' /\ Shapes'
  BY <1>7, TypesOfFileSteps, ShapesOfFileSteps
<1>8. ASSUME NEW w \in Writers, Reindex(w) \/ Removal(w) PROVE IndexTypes' /\ Shapes'
  BY <1>8, TypesOfFolderSteps, ShapesOfFolderSteps
<1>9. QED
  BY <1>1, <1>2, <1>3, <1>4, <1>5, <1>6, <1>7, <1>8 DEF Next

\* So do the versions.
LEMMA VersionsKept == Basics /\ [Next]_vars => VersionsOK'
<1> SUFFICES ASSUME Basics, [Next]_vars PROVE VersionsOK'
  OBVIOUS
<1>1. ASSUME UNCHANGED <<disk, seen, version, rows, writer>> PROVE VersionsOK'
  BY <1>1 DEF Basics, VersionsOK, RowVersions, WriterVersions
<1>2. CASE UNCHANGED vars
  BY <1>1, <1>2, QuietSteps
<1>3. CASE RefuseJob \/ SwitchSemantic \/ (\E s \in Sources : AddSource(s) \/ ReindexLibrary(s))
  BY <1>1, <1>3 DEF RefuseJob, SwitchSemantic, AddSource, ReindexLibrary, files, tables
<1>4. CASE Restart
  <2>1. writer' = [w \in Writers |-> Idle] /\ UNCHANGED <<disk, version, rows>> /\ seen' = disk
    BY <1>4 DEF Restart, tables
  <2>2. \A w \in Writers : WriterVersions(writer[w])'
    BY <2>1 DEF WriterVersions, Looking, Idle
  <2>3. QED
    BY <2>1, <2>2 DEF Basics, VersionsOK, RowVersions
<1>5. ASSUME NEW p \in Paths, WriteFile(p) \/ DeleteFile(p) \/ Observe(p) PROVE VersionsOK'
  BY <1>5, VersionsOfFiles
<1>6. CASE TakeJob \/ \E s \in Sources : \/ IndexEmptySource(s) \/ RemoveSource(s) \/ RemoveGrant(s)
                                         \/ \E p \in Paths : Attach(s, p)
  BY <1>6, VersionsOfBegins
<1>7. ASSUME NEW w \in Writers, IndexFile(w) PROVE VersionsOK'
  BY <1>7, VersionsOfFileSteps
<1>8. ASSUME NEW w \in Writers, Reindex(w) \/ Removal(w) PROVE VersionsOK'
  BY <1>8, VersionsOfFolderSteps
<1>9. QED
  BY <1>2, <1>3, <1>4, <1>5, <1>6, <1>7, <1>8 DEF Next

(* No new id is handed out, and no writer gets to another document.         *)
LEMMA IdsSame ==
  ASSUME IdsOK, lastId' = lastId, \A p \in Paths : rows'[p] = rows[p] \/ rows'[p].id = 0,
         \A v \in Writers : writer'[v].id = 0 \/ (writer'[v].id = writer[v].id /\ writer'[v].path = writer[v].path),
         lastId \in Nat
  PROVE  IdsOK'
BY DEF IdsOK

\* Ids when a writer lets go of its document or keeps it
LEMMA IdsOne ==
  ASSUME Basics, Shapes', NEW w \in Writers, Others(w), writer'[w].at \notin Writing, lastId' = lastId,
         \A p \in Paths : rows'[p] = rows[p] \/ rows'[p].id = 0
  PROVE  IdsOK'
<1>1. writer'[w].id = 0
  BY DEF Shapes, Shape
<1>2. \A v \in Writers : writer'[v].id = 0 \/ (writer'[v].id = writer[v].id /\ writer'[v].path = writer[v].path)
  BY <1>1 DEF Others
<1>3. IdsOK /\ lastId \in Nat
  BY LibraryConstants DEF Basics, IndexTypes
<1>4. QED
  BY <1>2, <1>3, IdsSame

\* A new document gets an id of its own, an old one keeps its id.
LEMMA IdsOfUpsert ==
  ASSUME Basics, NEW w \in Writers, UpsertDocument(w)
  PROVE  IdsOK'
<1> DEFINE me == writer[w]
           r == writer'[w]
<1>0. me.at = "row"
  BY DEF UpsertDocument
<1>1. me.path \in Paths /\ IdsOK /\ IndexTypes /\ Shapes
  BY <1>0, FileOf DEF Basics, AtFile
<1>2. /\ Others(w) /\ r.path = me.path
      /\ r.id = IF rows[me.path].id = 0 THEN lastId + 1 ELSE rows[me.path].id
      /\ r.id \in DocIds
      /\ rows' = [rows EXCEPT ![me.path] = DocumentRow(me, r.id)]
      /\ lastId' = IF r.id > lastId THEN r.id ELSE lastId
  BY <1>0, <1>1, UpsertIs
<1> DEFINE row == DocumentRow(me, r.id)
           path == me.path
           new == r.id
<1>3. row.id = new
  BY DEF DocumentRow
<1> HIDE DEF row
<1>4. rows'[path] = row /\ \A q \in Paths : q # path => rows'[q] = rows[q]
  BY <1>1, <1>2 DEF IndexTypes, row
<1>5. /\ lastId \in Nat /\ lastId' \in Nat /\ new \in Nat /\ new # 0 /\ \A q \in Paths : rows[q].id \in Nat
      /\ \A v \in Writers : writer[v].id \in Nat
  BY <1>1, <1>2, LibraryConstants DEF IndexTypes, RowRecord, WriterRecord, DocIds
<1>6. new <= lastId' /\ lastId <= lastId'
  BY <1>2, <1>5
<1>7. \A q \in Paths : q # path => rows[q].id # new
  <2>1. CASE rows[path].id = 0
    <3>1. new = lastId + 1 /\ \A q \in Paths : rows[q].id <= lastId
      BY <1>1, <1>2, <2>1 DEF IdsOK
    <3>2. QED
      BY <1>5, <3>1
  <2>2. CASE rows[path].id # 0
    BY <1>1, <1>2, <2>2 DEF IdsOK
  <2>3. QED
    BY <2>1, <2>2
<1>8. \A v \in Writers : v # w /\ writer[v].id = new => writer[v].path = path
  <2>1. CASE rows[path].id = 0
    <3>1. new = lastId + 1 /\ \A v \in Writers : writer[v].id <= lastId
      BY <1>1, <1>2, <2>1 DEF IdsOK
    <3>2. QED
      BY <1>5, <3>1
  <2>2. CASE rows[path].id # 0
    BY <1>1, <1>2, <1>5, <2>2 DEF IdsOK
  <2>3. QED
    BY <2>1, <2>2
<1>9. /\ \A q \in Paths : rows'[q].id = IF q = path THEN new ELSE rows[q].id
      /\ \A v \in Writers : writer'[v].id = IF v = w THEN new ELSE writer[v].id
      /\ \A v \in Writers : writer'[v].path = writer[v].path
  BY <1>2, <1>3, <1>4 DEF Others
<1> HIDE DEF new, path
<1>10. \A q \in Paths : rows'[q].id <= lastId'
  BY <1>1, <1>5, <1>6, <1>9 DEF IdsOK
<1>11. \A q, x \in Paths : rows'[q].id = rows'[x].id /\ rows'[q].id # 0 => q = x
  BY <1>1, <1>7, <1>9 DEF IdsOK
<1>12. \A v \in Writers : writer'[v].id <= lastId'
  BY <1>1, <1>5, <1>6, <1>9 DEF IdsOK
<1>13. \A v \in Writers, q \in Paths : writer'[v].id # 0 /\ rows'[q].id = writer'[v].id => q = writer'[v].path
  <2> SUFFICES ASSUME NEW v \in Writers, NEW q \in Paths, writer'[v].id # 0, rows'[q].id = writer'[v].id
               PROVE  q = writer'[v].path
    OBVIOUS
  <2>1. CASE v = w
    BY <1>7, <1>9, <2>1 DEF path
  <2>2. CASE v # w /\ q = path
    BY <1>8, <1>9, <2>2
  <2>3. CASE v # w /\ q # path
    BY <1>1, <1>9, <2>3 DEF IdsOK
  <2>4. QED
    BY <2>1, <2>2, <2>3
<1>14. \A u, v \in Writers : writer'[u].id # 0 /\ writer'[u].id = writer'[v].id => writer'[u].path = writer'[v].path
  BY <1>1, <1>8, <1>9 DEF IdsOK, path
<1>15. QED
  BY <1>10, <1>11, <1>12, <1>13, <1>14 DEF IdsOK

\* Ids in the other steps at a file
LEMMA IdsOfFileSteps ==
  ASSUME Basics, Shapes', NEW w \in Writers, IndexFile(w)
  PROVE  IdsOK'
<1> DEFINE me == writer[w]
           r == writer'[w]
<1>0. /\ me.at \in AtFile => me.path \in Paths
      /\ me.at \in Writing => me.id \in DocIds
      /\ IndexTypes /\ Shapes /\ IdsOK /\ lastId \in Nat
  BY FileOf, LibraryConstants DEF Basics, IndexTypes
<1>1. ASSUME FileDone(w), me.at \in AtFile, UNCHANGED <<rows, lastId>> PROVE IdsOK'
  <2>1. Others(w) /\ r.at \in {"scan", "clear"}
    BY <1>0, <1>1, FileDoneIs
  <2>2. r.at \notin Writing
    BY <2>1 DEF Writing
  <2>3. QED
    BY <1>1, <2>1, <2>2, IdsOne
<1>2. CASE CheckUnchanged(w)
  <2>1. me.at = "check" /\ (FileDone(w) \/ Goes(w, "read")) /\ UNCHANGED <<rows, lastId>>
    BY <1>2 DEF CheckUnchanged, tables
  <2>2. ASSUME Goes(w, "read") PROVE IdsOK'
    <3>1. Others(w) /\ r.at = "read"
      BY <1>0, <2>2, GoesIs DEF Places, AtFile
    <3>2. r.at \notin Writing
      BY <3>1 DEF Writing
    <3>3. QED
      BY <2>1, <3>1, <3>2, IdsOne
  <2>3. QED
    BY <1>1, <2>1, <2>2 DEF AtFile
<1>3. CASE Extract(w)
  <2>1. Others(w) /\ r.at = "row" /\ UNCHANGED <<rows, lastId>>
    BY <1>0, <1>3, ExtractIs DEF Extract, AtFile, tables
  <2>2. r.at \notin Writing
    BY <2>1 DEF Writing
  <2>3. QED
    BY <2>1, <2>2, IdsOne
<1>4. CASE ExtractFails(w)
  <2>1. Others(w) /\ (r.at = "scan" \/ r = Idle) /\ UNCHANGED <<rows, lastId>>
    BY <1>0, <1>4, ExtractFailsIs DEF ExtractFails, AtFile, tables
  <2>2. r.at \notin Writing
    BY <2>1 DEF Writing, Idle
  <2>3. QED
    BY <2>1, <2>2, IdsOne
<1>5. CASE UpsertDocument(w)
  BY <1>5, IdsOfUpsert
<1>6. CASE ReplaceChunks(w)
  <2>1. me.at = "chunks" /\ me.id \in DocIds /\ UNCHANGED <<rows, lastId>>
    BY <1>0, <1>6 DEF ReplaceChunks, Writing
  <2>2. CASE me.id \in RowIds
    <3>1. /\ r.id = me.id /\ r.path = me.path
          /\ \A v \in Writers : v # w => writer'[v].id = writer[v].id /\ writer'[v].path = writer[v].path
      BY <1>0, <1>6, <2>1, <2>2, ReplaceChunksIs DEF SameFile
    <3>2. \A v \in Writers : writer'[v].id = writer[v].id /\ writer'[v].path = writer[v].path
      BY <3>1
    <3>3. QED
      BY <1>0, <2>1, <3>2, IdsSame
  <2>3. CASE me.id \notin RowIds
    <3>1. Others(w) /\ r = Idle
      BY <1>0, <1>6, <2>3, EndsIs DEF ReplaceChunks
    <3>2. r.at \notin Writing
      BY <3>1 DEF Writing, Idle
    <3>3. QED
      BY <2>1, <3>1, <3>2, IdsOne
  <2>4. QED
    BY <2>2, <2>3
<1>7. CASE ReplaceVectors(w) \/ VectorsFail(w)
  <2>1. FileDone(w) /\ me.at \in AtFile /\ UNCHANGED <<rows, lastId>>
    BY <1>7 DEF ReplaceVectors, VectorsFail, AtFile
  <2>2. QED
    BY <1>1, <2>1
<1>8. CASE ReportIndexed(w)
  <2>1. Others(w) /\ r = Idle /\ UNCHANGED <<rows, lastId>>
    BY <1>0, <1>8, EndsIs DEF ReportIndexed, tables
  <2>2. r.at \notin Writing
    BY <2>1 DEF Writing, Idle
  <2>3. QED
    BY <2>1, <2>2, IdsOne
<1>9. QED
  BY <1>2, <1>3, <1>4, <1>5, <1>6, <1>7, <1>8 DEF IndexFile

\* ... and around the files
LEMMA IdsOfFolderSteps ==
  ASSUME Basics, Shapes', NEW w \in Writers, Reindex(w) \/ Removal(w)
  PROVE  IdsOK'
<1> DEFINE me == writer[w]
           r == writer'[w]
<1>0. IndexTypes
  BY DEF Basics
<1>1. Others(w) /\ r.at \notin Writing
  <2>1. ASSUME NEW p \in Paths, VisitFile(w, p) PROVE Others(w) /\ r.at \in {"scan", "check"}
    BY <1>0, <2>1, VisitIs
  <2>2. CASE Purge(w)
    BY <1>0, <2>2, PurgeIs DEF Writing
  <2>3. CASE ReportFailures(w)
    BY <1>0, <2>3, ReportIs DEF Writing, Idle
  <2>4. CASE ListDocuments(w)
    BY <1>0, <2>4, ListIs DEF Writing
  <2>5. CASE RemoveVectors(w)
    BY <1>0, <2>5, GoesIs DEF RemoveVectors, Places, Writing
  <2>6. CASE PruneVectors(w) \/ RemovePath(w) \/ DeleteSource(w)
    <3>1. Ends(w)
      BY <2>6 DEF PruneVectors, RemovePath, DeleteSource
    <3>2. QED
      BY <1>0, <3>1, EndsIs DEF Writing, Idle
  <2>7. QED
    BY <2>1, <2>2, <2>3, <2>4, <2>5, <2>6 DEF Reindex, Removal, Writing
<1>2. (UNCHANGED <<rows, lastId>>) \/ (\E gone : DeleteRows(gone))
  BY DEF Reindex, Removal, VisitFile, Purge, ReportFailures, ListDocuments, PruneVectors, RemoveVectors,
         RemovePath, DeleteSource, tables
<1>3. lastId' = lastId /\ \A p \in Paths : rows'[p] = rows[p] \/ rows'[p].id = 0
  BY <1>0, <1>2, DeleteRowsIs DEF DeleteRows, NoRow
<1>4. QED
  BY <1>1, <1>3, IdsOne

\* The ids hold on.
LEMMA IdsKept == Basics /\ [Next]_vars => IdsOK'
<1> SUFFICES ASSUME Basics, [Next]_vars PROVE IdsOK'
  OBVIOUS
<1>0. Shapes' /\ IdsOK /\ lastId \in Nat /\ IndexTypes
  <2>1. IndexTypes /\ Shapes /\ IdsOK
    BY DEF Basics
  <2>2. lastId \in Nat
    BY <2>1, LibraryConstants DEF IndexTypes
  <2>3. QED
    BY <2>1, <2>2, RecordsKept
<1>1. ASSUME UNCHANGED <<rows, lastId>>, \A w \in Writers : writer'[w] = writer[w] \/ writer'[w].id = 0 PROVE IdsOK'
  BY <1>0, <1>1, IdsSame
<1>2. CASE UNCHANGED vars
  BY <1>1, <1>2, QuietSteps
<1>3. CASE RefuseJob \/ SwitchSemantic \/ (\E s \in Sources : AddSource(s) \/ ReindexLibrary(s))
  BY <1>1, <1>3 DEF RefuseJob, SwitchSemantic, AddSource, ReindexLibrary, files, tables
<1>4. CASE Restart
  <2>1. \A w \in Writers : writer'[w].id = 0
    BY <1>4 DEF Restart, Idle
  <2>2. UNCHANGED <<rows, lastId>>
    BY <1>4 DEF Restart, tables
  <2>3. QED
    BY <1>1, <2>1, <2>2
<1>5. ASSUME NEW p \in Paths, WriteFile(p) \/ DeleteFile(p) \/ Observe(p) PROVE IdsOK'
  BY <1>1, <1>5 DEF WriteFile, DeleteFile, Observe, tables
<1>6. ASSUME NEW w \in Writers, Others(w), writer'[w].at \notin Writing, UNCHANGED <<rows, lastId>> PROVE IdsOK'
  BY <1>0, <1>6, IdsOne
<1>7. "worker" \in Writers /\ "request" \in Writers
  BY DEF Writers
<1>8. CASE TakeJob
  <2>1. Others("worker") /\ W' = writer'["worker"]
    BY <1>0, <1>8, TakeIs DEF W
  <2>2. \A s \in Sources : \A p \in Covers[s] : p \in Paths
    BY LibraryConstants
  <2>3. W'.at \in {"idle", "scan", "list", "check", "unvector"}
    <3>1. \A s \in Sources : \A p \in Covers[s] :
            FileBegun("upsert", s, p, "check").at = "check" /\ FileBegun("delete", s, p, "unvector").at = "unvector"
      BY <1>0, <2>2, FileBegunIs DEF Ops, Places, AtFile
    <3>2. \A s \in Sources : RescanBegun(s).at \in {"scan", "list"}
      BY <1>0, RescanBegunIs
    <3>3. Idle.at = "idle"
      BY DEF Idle
    <3>4. QED
      BY <1>0, <1>8, <3>1, <3>2, <3>3, TakeIs
  <2>4. writer'["worker"].at \notin Writing
    BY <2>1, <2>3 DEF Writing
  <2>5. UNCHANGED <<rows, lastId>>
    BY <1>8 DEF TakeJob, tables
  <2>6. QED
    BY <1>6, <1>7, <2>1, <2>4, <2>5
<1>9. ASSUME NEW s \in Sources,
             IndexEmptySource(s) \/ RemoveSource(s) \/ RemoveGrant(s) \/ (\E p \in Paths : Attach(s, p))
      PROVE  IdsOK'
  <2>1. PICK x \in WriterRecord : /\ Requests(x)
                                  /\ x \in {RescanBegun(s), RemoveBegun(s)}
                                     \/ \E p \in Paths : x = FileBegun("attach", s, p, "check")
    BY <1>0, <1>9, BeginsIs
  <2>2. x.id = 0
    <3>1. \A p \in Paths : FileBegun("attach", s, p, "check").id = 0
      BY <1>0, FileBegunIs DEF Ops, Places, AtFile
    <3>2. RescanBegun(s).id = 0 /\ RemoveBegun(s).id = 0
      BY <1>0, RescanBegunIs, RemoveBegunIs
    <3>3. QED
      BY <2>1, <3>1, <3>2
  <2>3. Others("request") /\ writer'["request"].id = 0
    BY <1>0, <2>1, <2>2, RequestsIs
  <2>4. UNCHANGED <<rows, lastId>>
    BY <2>1 DEF Requests
  <2>5. QED
    BY <1>1, <2>3, <2>4 DEF Others
<1>10. ASSUME NEW w \in Writers, IndexFile(w) PROVE IdsOK'
  BY <1>0, <1>10, IdsOfFileSteps
<1>11. ASSUME NEW w \in Writers, Reindex(w) \/ Removal(w) PROVE IdsOK'
  BY <1>0, <1>11, IdsOfFolderSteps
<1>12. QED
  BY <1>2, <1>3, <1>4, <1>5, <1>8, <1>9, <1>10, <1>11 DEF Next

\* What the tables and the writers may hold is inductive.
LEMMA BasicsKept == Basics /\ [Next]_vars => Basics'
BY RecordsKept, VersionsKept, IdsKept DEF Basics

-----------------------------------------------------------------------------
(* The queue *)

\* A file once behind stays behind.
LEMMA BehindGrows == [Next]_vars => behind \subseteq behind'
<1> SUFFICES ASSUME [Next]_vars PROVE behind \subseteq behind'
  OBVIOUS
<1>1. CASE UNCHANGED vars
  BY <1>1 DEF vars
<1>2. ASSUME NEW w \in Writers, IndexFile(w) PROVE behind \subseteq behind'
  BY <1>2 DEF IndexFile, CheckUnchanged, Extract, ExtractFails, UpsertDocument, ReplaceChunks, ReplaceVectors,
              VectorsFail, ReportIndexed
<1>3. ASSUME NEW w \in Writers, Reindex(w) \/ Removal(w) PROVE behind \subseteq behind'
  BY <1>3 DEF Reindex, Removal, VisitFile, Purge, ReportFailures, ListDocuments, PruneVectors, RemoveVectors,
              RemovePath, DeleteSource
<1>4. ASSUME NEW p \in Paths, WriteFile(p) \/ DeleteFile(p) \/ Observe(p) PROVE behind \subseteq behind'
  BY <1>4 DEF WriteFile, DeleteFile, Observe
<1>5. ASSUME NEW s \in Sources, \/ AddSource(s) \/ ReindexLibrary(s) \/ IndexEmptySource(s) \/ RemoveSource(s)
                                \/ RemoveGrant(s) \/ \E p \in Paths : Attach(s, p)
      PROVE  behind \subseteq behind'
  BY <1>5 DEF AddSource, ReindexLibrary, IndexEmptySource, RemoveSource, RemoveGrant, Attach
<1>6. CASE TakeJob \/ RefuseJob \/ Restart \/ SwitchSemantic
  BY <1>6 DEF TakeJob, RefuseJob, Restart, SwitchSemantic
<1>7. QED
  BY <1>1, <1>2, <1>3, <1>4, <1>5, <1>6 DEF Next

(* What the steps of the writers leave alone                                *)
LEMMA WritersLeave ==
  ASSUME NEW w \in Writers, IndexFile(w) \/ Reindex(w) \/ Removal(w)
  PROVE  /\ UNCHANGED <<disk, seen, version, queue, watched, semantic>>
         /\ sources' = sources \/ DeleteSource(w)
<1>1. CASE IndexFile(w)
  BY <1>1 DEF IndexFile, CheckUnchanged, Extract, ExtractFails, UpsertDocument, ReplaceChunks, ReplaceVectors,
              VectorsFail, ReportIndexed, files, library
<1>2. CASE Reindex(w)
  BY <1>2 DEF Reindex, VisitFile, Purge, ReportFailures, ListDocuments, PruneVectors, files, library
<1>3. CASE Removal(w)
  BY <1>3 DEF Removal, RemoveVectors, RemovePath, DeleteSource, files, library
<1>4. QED
  BY <1>1, <1>2, <1>3

\* A source above a file that is not behind is never given up.
LEMMA CoveredKept == Basics /\ Covered /\ [Next]_vars => Covered'
<1> SUFFICES ASSUME Basics, Covered, [Next]_vars, NEW s \in Sources, NEW p \in Covers[s], p \notin behind'
             PROVE  s \in sources' /\ s \in watched'
  BY DEF Covered
<1>0. s \in sources /\ s \in watched
  BY BehindGrows DEF Covered
<1>1. CASE UNCHANGED vars
  BY <1>0, <1>1 DEF vars
<1>2. ASSUME NEW w \in Writers, IndexFile(w) \/ Reindex(w) \/ Removal(w) PROVE s \in sources' /\ s \in watched'
  <2>1. CASE sources' = sources
    BY <1>0, <1>2, <2>1, WritersLeave
  <2>2. CASE DeleteSource(w)
    <3>1. sources' = sources \ {writer[w].source} /\ behind' = behind \cup Covers[writer[w].source] /\ watched' = watched
      BY <2>2 DEF DeleteSource
    <3>2. QED
      BY <1>0, <3>1
  <2>3. QED
    BY <1>2, <2>1, <2>2, WritersLeave
<1>3. ASSUME NEW q \in Paths, WriteFile(q) \/ DeleteFile(q) \/ Observe(q) PROVE s \in sources' /\ s \in watched'
  BY <1>0, <1>3 DEF WriteFile, DeleteFile, Observe
<1>4. ASSUME NEW t \in Sources, \/ AddSource(t) \/ ReindexLibrary(t) \/ IndexEmptySource(t) \/ RemoveSource(t)
                                \/ RemoveGrant(t) \/ \E q \in Paths : Attach(t, q)
      PROVE  s \in sources' /\ s \in watched'
  BY <1>0, <1>4 DEF AddSource, ReindexLibrary, IndexEmptySource, RemoveSource, RemoveGrant, Attach, Requests
<1>5. CASE TakeJob \/ RefuseJob \/ Restart \/ SwitchSemantic
  BY <1>0, <1>5 DEF TakeJob, RefuseJob, Restart, SwitchSemantic
<1>6. QED
  BY <1>1, <1>2, <1>3, <1>4, <1>5 DEF Next

(* Jobs of a file differ from those of another file, and from rescans.      *)
LEMMA JobsDiffer ==
  ASSUME NEW s, NEW p, NEW t, NEW q
  PROVE  /\ FileJob("upsert", s, p) # FileJob("delete", t, q)
         /\ FileJob("upsert", s, p) # RescanOf(t) /\ FileJob("delete", s, p) # RescanOf(t)
         /\ p # q => /\ FileJob("upsert", s, p) # FileJob("upsert", t, q)
                     /\ FileJob("delete", s, p) # FileJob("delete", t, q)
         /\ s # t => /\ FileJob("upsert", s, p) # FileJob("upsert", t, q)
                     /\ FileJob("delete", s, p) # FileJob("delete", t, q) /\ RescanOf(s) # RescanOf(t)
BY DEF FileJob, RescanOf

\* New jobs keep the order of the others.
LEMMA OrderAdds ==
  ASSUME NEW s, NEW p, InOrderOK(s, p), NEW jobs, FileJob("delete", s, p) \notin jobs,
         Jobs' = Jobs \cup jobs,
         \A a, b : b \notin jobs /\ Ahead(queue', a, b) => a \notin jobs /\ Ahead(queue, a, b)
  PROVE  InOrderOK(s, p)'
<1>1. InOrderOK(s, p)' <=> /\ FileJob("delete", s, p) \in Jobs' => FileJob("upsert", s, p) \in Jobs'
                           /\ ~Ahead(queue', FileJob("upsert", s, p), FileJob("delete", s, p))
  BY DEF InOrderOK, FileJob, Ahead
<1>2. QED
  BY <1>1 DEF InOrderOK

\* So does the loss of the head.
LEMMA OrderTail ==
  ASSUME NEW s, NEW p, InOrderOK(s, p), queue \in Seq(JobSet), queue # <<>>, queue' = Tail(queue)
  PROVE  InOrderOK(s, p)'
<1>1. InOrderOK(s, p)' <=> /\ FileJob("delete", s, p) \in Jobs' => FileJob("upsert", s, p) \in Jobs'
                           /\ ~Ahead(queue', FileJob("upsert", s, p), FileJob("delete", s, p))
  BY DEF InOrderOK, FileJob, Ahead
<1>2. /\ Jobs' \subseteq Jobs /\ Jobs \subseteq Jobs' \cup {Head(queue)}
      /\ \A a, b : Ahead(queue', a, b) => Ahead(queue, a, b)
      /\ \A b \in Jobs' : Ahead(queue, Head(queue), b)
  BY TailJobs
<1>3. QED
  BY <1>1, <1>2 DEF InOrderOK

\* A file that is there again is deleted first and then indexed.
LEMMA OrdersKept == Basics /\ Covered /\ Orders /\ [Next]_vars => Orders'
<1> SUFFICES ASSUME Basics, Covered, Orders, [Next]_vars, NEW s \in Sources, NEW p \in Covers[s], p \notin behind',
                    Settled(p)', disk'[p] # 0
             PROVE  InOrderOK(s, p)'
  BY DEF Orders
<1>0. /\ IndexTypes /\ p \in Paths /\ s \in watched /\ p \notin behind
      /\ Settled(p) /\ disk[p] # 0 => InOrderOK(s, p)
  BY BehindGrows, LibraryConstants DEF Covered, Basics, Orders
<1>1. ASSUME UNCHANGED <<queue, disk, seen>> PROVE InOrderOK(s, p)'
  <2>1. InOrderOK(s, p)
    BY <1>0, <1>1 DEF Settled
  <2>2. QED
    BY <1>1, <2>1 DEF InOrderOK, Jobs, Ahead
<1>2. CASE UNCHANGED vars
  BY <1>1, <1>2, QuietSteps
<1>3. ASSUME NEW w \in Writers, IndexFile(w) \/ Reindex(w) \/ Removal(w) PROVE InOrderOK(s, p)'
  BY <1>1, <1>3, WritersLeave
<1>4. ASSUME NEW q \in Paths, WriteFile(q) \/ DeleteFile(q) PROVE InOrderOK(s, p)'
  <2>1. CASE q = p
    <3>1. CASE WriteFile(p)
      <4>1. disk'[p] = version + 1 /\ seen' = seen /\ seen[p] <= version /\ seen[p] \in Nat /\ version \in Nat
        BY <1>0, <3>1 DEF WriteFile, IndexTypes, Basics, VersionsOK
      <4>2. QED
        BY <4>1 DEF Settled
    <3>2. CASE DeleteFile(p)
      BY <1>0, <3>2 DEF DeleteFile, IndexTypes
    <3>3. QED
      BY <1>4, <2>1, <3>1, <3>2
  <2>2. CASE q # p
    <3>1. disk'[p] = disk[p] /\ UNCHANGED <<seen, queue>>
      BY <1>0, <1>4, <2>2 DEF WriteFile, DeleteFile, IndexTypes
    <3>2. InOrderOK(s, p)
      BY <1>0, <3>1 DEF Settled
    <3>3. QED
      BY <3>1, <3>2 DEF InOrderOK, Jobs, Ahead
  <2>3. QED
    BY <2>1, <2>2
<1>5. ASSUME NEW q \in Paths, Observe(q) PROVE InOrderOK(s, p)'
  <2>1. /\ Jobs' = Jobs \cup FileJobs(q)
        /\ \A a, b : b \notin FileJobs(q) /\ Ahead(queue', a, b) => a \notin FileJobs(q) /\ Ahead(queue, a, b)
    BY <1>0, <1>5, ObservedJobs, QueueAdds DEF Observe
  <2>2. disk' = disk /\ \A x \in Paths : x # q => seen'[x] = seen[x]
    BY <1>0, <1>5 DEF Observe, IndexTypes
  <2>3. \A j \in FileJobs(q) : \E t \in watched : j = FileJob("upsert", t, q) \/ (j = FileJob("delete", t, q) /\ disk[q] = 0)
    BY DEF FileJobs
  <2>4. CASE q = p
    <3>1. FileJob("upsert", s, p) \in FileJobs(p)
      BY <1>0, <2>2, <2>4 DEF FileJobs
    <3>2. FileJob("delete", s, p) \notin FileJobs(p)
      BY <2>2, <2>3, <2>4, JobsDiffer
    <3>3. InOrderOK(s, p)' <=> /\ FileJob("delete", s, p) \in Jobs' => FileJob("upsert", s, p) \in Jobs'
                               /\ ~Ahead(queue', FileJob("upsert", s, p), FileJob("delete", s, p))
      BY DEF InOrderOK, FileJob, Ahead
    <3>4. QED
      BY <2>1, <2>4, <3>1, <3>2, <3>3
  <2>5. CASE q # p
    <3>1. FileJob("delete", s, p) \notin FileJobs(q)
      BY <2>3, <2>5, JobsDiffer
    <3>2. InOrderOK(s, p)
      BY <1>0, <2>2, <2>5 DEF Settled
    <3>3. QED
      BY <2>1, <3>1, <3>2, OrderAdds
  <2>6. QED
    BY <2>4, <2>5
<1>6. ASSUME NEW t \in Sources, AddSource(t) \/ ReindexLibrary(t) PROVE InOrderOK(s, p)'
  <2>1. queue' = Enqueue(queue, {RescanOf(t)}) /\ UNCHANGED <<disk, seen>>
    BY <1>6 DEF AddSource, ReindexLibrary, files
  <2>2. /\ Jobs' = Jobs \cup {RescanOf(t)}
        /\ \A a, b : b \notin {RescanOf(t)} /\ Ahead(queue', a, b) => a \notin {RescanOf(t)} /\ Ahead(queue, a, b)
    BY <1>0, <2>1, RescanJob, QueueAdds
  <2>3. FileJob("delete", s, p) \notin {RescanOf(t)}
    BY JobsDiffer
  <2>4. InOrderOK(s, p)
    BY <1>0, <2>1 DEF Settled
  <2>5. QED
    BY <2>2, <2>3, <2>4, OrderAdds
<1>7. ASSUME NEW t \in Sources,
             IndexEmptySource(t) \/ RemoveSource(t) \/ RemoveGrant(t) \/ (\E q \in Paths : Attach(t, q))
      PROVE  InOrderOK(s, p)'
  BY <1>1, <1>7 DEF IndexEmptySource, RemoveSource, RemoveGrant, Attach, Requests, files
<1>8. CASE TakeJob \/ RefuseJob
  <2>1. queue # <<>> /\ queue' = Tail(queue) /\ UNCHANGED <<disk, seen>> /\ queue \in Seq(JobSet)
    BY <1>0, <1>8 DEF TakeJob, RefuseJob, files, IndexTypes
  <2>2. InOrderOK(s, p)
    BY <1>0, <2>1 DEF Settled
  <2>3. QED
    BY <2>1, <2>2, OrderTail
<1>9. CASE Restart
  <2>1. Jobs' = {RescanOf(t) : t \in sources}
    BY <1>0, <1>9, RescanJobs DEF Restart, IndexTypes
  <2>2. FileJob("delete", s, p) \notin Jobs'
    BY <2>1, JobsDiffer
  <2>3. InOrderOK(s, p)' <=> /\ FileJob("delete", s, p) \in Jobs' => FileJob("upsert", s, p) \in Jobs'
                             /\ ~Ahead(queue', FileJob("upsert", s, p), FileJob("delete", s, p))
    BY DEF InOrderOK, FileJob, Ahead
  <2>4. \A a, b : Ahead(queue', a, b) => b \in Jobs'
    BY DEF Ahead, Jobs
  <2>5. QED
    BY <2>2, <2>3, <2>4
<1>10. CASE SwitchSemantic
  BY <1>1, <1>10 DEF SwitchSemantic, files
<1>11. QED
  BY <1>2, <1>3, <1>4, <1>5, <1>6, <1>7, <1>8, <1>9, <1>10 DEF Next

-----------------------------------------------------------------------------
(* The tasks of a file *)

\* A queue and a file that stay keep what is queued.
LEMMA QueuedSame ==
  ASSUME NEW p, UNCHANGED queue, disk'[p] = disk[p]
  PROVE  \A t : Queued(t, p)' <=> Queued(t, p)
BY DEF Queued, Jobs, RescanOf, FileJob

\* So does a queue that grows.
LEMMA QueuedGrows ==
  ASSUME NEW p, Jobs \subseteq Jobs', disk'[p] = disk[p]
  PROVE  \A t : Queued(t, p) => Queued(t, p)'
BY DEF Queued, RescanOf, FileJob

\* A step that changes nothing of the file leaves its tasks.
LEMMA TasksSame ==
  ASSUME NEW s \in Sources, NEW p \in Covers[s], Tasks(s, p),
         W'.at = W.at, W'.op = W.op, W'.source = W.source, W'.path = W.path, W'.stat = W.stat,
         W'.todo = W.todo, W'.found = W.found, W'.failed = W.failed,
         disk'[p] = disk[p], rows'[p] = rows[p],
         <<s, p>> \in failures => <<s, p>> \in failures',
         \A t \in Sources : p \in Covers[t] /\ Queued(t, p) => Queued(t, p)'
  PROVE  Tasks(s, p)'
<1>0. Queued(s, p) => Queued(s, p)'
  OBVIOUS
<1>1. Deleted(s, p)' /\ Worked(s, p)' /\ Found(s, p)'
  BY <1>0 DEF Tasks, Deleted, Worked, Found, At, Good
<1>2. Scanned(s, p)' /\ Reported(s, p)' /\ Gone(s, p)' /\ Failing(s, p)'
  BY <1>0 DEF Tasks, Scanned, Reported, Gone, Failing, At, Rescans
<1>3. \A t \in Sources : p \in Covers[t] /\ Doing(t, p) => Doing(t, p)'
  BY DEF Doing, At, Rescans
<1>4. Wanted(s, p)'
  BY <1>3 DEF Tasks, Wanted, Good
<1>5. QED
  BY <1>1, <1>2, <1>4 DEF Tasks

\* A queued file needs nothing more.
LEMMA TasksQueued ==
  ASSUME NEW s \in Sources, NEW p \in Covers[s], Queued(s, p)'
  PROVE  Tasks(s, p)'
<1>1. Deleted(s, p)' /\ Worked(s, p)' /\ Found(s, p)' /\ Scanned(s, p)' /\ Reported(s, p)' /\ Gone(s, p)' /\ Failing(s, p)'
  BY DEF Deleted, Worked, Found, Scanned, Reported, Gone, Failing
<1>2. Wanted(s, p)'
  BY DEF Wanted, Doing
<1>3. QED
  BY <1>1, <1>2 DEF Tasks

(* What is known of a settled file, and of the worker                       *)
LEMMA KnownFile ==
  ASSUME IndexInv, NEW s \in Sources, NEW p \in Covers[s], p \notin behind
  PROVE  /\ p \in Paths /\ IndexTypes /\ Shapes /\ disk[p] \in Nat /\ s \in sources /\ s \in watched
         /\ "worker" \in Writers /\ W = writer["worker"] /\ W \in WriterRecord /\ Shape(W)
         /\ W.op \in {"none", "upsert", "rescan", "delete"}
         /\ RowVersions(p) /\ WriterVersions(W)
         /\ W.at \in AtFile \cup {"clear", "unvector", "drop"} =>
              W.source \in Sources /\ W.path \in Covers[W.source] /\ W.path \in Paths
         /\ Settled(p) => \A t \in Sources : p \in Covers[t] => Tasks(t, p)
<1>1. p \in Paths /\ IndexTypes /\ Shapes /\ VersionsOK /\ "worker" \in Writers
  BY LibraryConstants DEF IndexInv, Basics, Writers
<1>2. QED
  BY <1>1, FileOf DEF IndexInv, FilesOK, Covered, W, Shapes, IndexTypes, VersionsOK

\* The check: an unchanged row is that of the present version.
LEMMA TasksOfCheck ==
  ASSUME IndexInv, CheckUnchanged("worker"), NEW s \in Sources, NEW p \in Covers[s], p \notin behind, Settled(p)
  PROVE  Tasks(s, p)'
<1>0. /\ p \in Paths /\ IndexTypes /\ "worker" \in Writers /\ W = writer["worker"] /\ Shape(W)
      /\ W.source \in Sources /\ W.path \in Covers[W.source] /\ W.path \in Paths
      /\ RowVersions(p) /\ WriterVersions(W) /\ W \in WriterRecord /\ rows[p] \in RowRecord /\ disk[p] \in Nat
      /\ \A t \in Sources : p \in Covers[t] => Tasks(t, p)
  BY KnownFile DEF CheckUnchanged, AtFile, IndexTypes
<1>1. W.at = "check" /\ UNCHANGED <<disk, queue, rows, failures>> /\ W' = writer'["worker"]
      /\ W.op \in {"upsert", "rescan"}
  BY <1>0, KnownFile DEF CheckUnchanged, files, library, tables, W, Shape, AtFile
<1>2. \A t : Queued(t, p)' <=> Queued(t, p)
  BY <1>1, QueuedSame
<1>3. CASE Unchanged(rows[W.path], W)
  <2>1. /\ W'.op = W.op /\ W'.source = W.source
        /\ W.op = "rescan" =>
             /\ W'.at = "scan" /\ W'.path = "none" /\ W'.todo = W.todo
             /\ W'.found = W.found \cup {W.path} /\ W'.failed = W.failed
        /\ W.op = "upsert" => W'.at = "clear" /\ W'.path = W.path
    BY <1>0, <1>1, <1>3, FileDoneIs DEF CheckUnchanged, SameWork
  <2>2. W.path = p /\ W.stat = disk[p] => Good(p) /\ rows[p].stat = disk[p]
    BY <1>0, <1>1, <1>3 DEF Unchanged, RowVersions, Good, RowRecord, WriterVersions, Looking
  <2>3. Deleted(s, p)' /\ Worked(s, p)' /\ Found(s, p)' /\ Reported(s, p)'
    BY <1>0, <1>1, <1>2, <2>1, <2>2 DEF Tasks, Deleted, Worked, Found, Reported, At, Good, AtFile, Looking
  <2>4. Scanned(s, p)' /\ Gone(s, p)'
    BY <1>0, <1>1, <1>2, <2>1 DEF Tasks, Scanned, Gone, At, Rescans, Scanning, AtFile
  <2>5. Failing(s, p)'
    BY <1>0, <1>1, <1>2, <2>1, <2>2 DEF Tasks, Failing, At, Rescans, Scanning, AtFile, Good
  <2>6. Wanted(s, p)'
    BY <1>0, <1>1, <1>2, <2>1, <2>2 DEF Tasks, Wanted, Doing, At, Rescans, Scanning, AtFile, Good
  <2>7. QED
    BY <2>3, <2>4, <2>5, <2>6 DEF Tasks
<1>4. CASE ~Unchanged(rows[W.path], W)
  <2>1. /\ W'.op = W.op /\ W'.source = W.source /\ W'.at = "read" /\ W'.path = W.path /\ W'.stat = W.stat
        /\ W'.todo = W.todo /\ W'.found = W.found /\ W'.failed = W.failed
    BY <1>0, <1>1, <1>4, GoesIs DEF CheckUnchanged, SameWork, SameFile, SameLists, Places, AtFile
  <2>2. Deleted(s, p)' /\ Worked(s, p)' /\ Found(s, p)' /\ Reported(s, p)'
    BY <1>0, <1>1, <1>2, <2>1 DEF Tasks, Deleted, Worked, Found, Reported, At, Good, AtFile, Looking
  <2>3. Scanned(s, p)' /\ Gone(s, p)' /\ Failing(s, p)'
    BY <1>0, <1>1, <1>2, <2>1 DEF Tasks, Scanned, Gone, Failing, At, Rescans, Scanning, AtFile
  <2>4. Wanted(s, p)'
    BY <1>0, <1>1, <1>2, <2>1 DEF Tasks, Wanted, Doing, At, Rescans, Scanning, AtFile, Looking, Good
  <2>5. QED
    BY <2>2, <2>3, <2>4 DEF Tasks
<1>5. QED
  BY <1>3, <1>4

\* What is known before a step of the worker
LEMMA WorkerKnows ==
  ASSUME IndexInv, IndexFile("worker") \/ Reindex("worker") \/ Removal("worker"),
         NEW s \in Sources, NEW p \in Covers[s], p \notin behind, Settled(p)
  PROVE  /\ p \in Paths /\ IndexTypes /\ "worker" \in Writers /\ W = writer["worker"] /\ W' = writer'["worker"]
         /\ Shape(W) /\ W.op \in {"none", "upsert", "rescan", "delete"}
         /\ RowVersions(p) /\ WriterVersions(W) /\ W \in WriterRecord /\ rows[p] \in RowRecord /\ disk[p] \in Nat
         /\ UNCHANGED <<disk, queue>>
         /\ \A t : Queued(t, p)' <=> Queued(t, p)
         /\ \A t \in Sources : p \in Covers[t] => Tasks(t, p)
         /\ W.at \in AtFile \cup {"clear", "unvector", "drop"} =>
              W.source \in Sources /\ W.path \in Covers[W.source] /\ W.path \in Paths
         /\ W.at \in AtFile => W.op \in {"upsert", "rescan"}
         /\ W.at \in Writing => W.id \in DocIds
<1>1. "worker" \in Writers /\ IndexTypes /\ p \in Paths /\ Shapes
  BY KnownFile
<1>2. UNCHANGED <<disk, queue>>
  BY <1>1, WritersLeave
<1>3. \A t : Queued(t, p)' <=> Queued(t, p)
  BY <1>2, QueuedSame
<1>4. /\ Shape(W) /\ W.op \in {"none", "upsert", "rescan", "delete"}
      /\ RowVersions(p) /\ WriterVersions(W) /\ W \in WriterRecord /\ rows[p] \in RowRecord /\ disk[p] \in Nat
      /\ \A t \in Sources : p \in Covers[t] => Tasks(t, p)
      /\ W.at \in AtFile \cup {"clear", "unvector", "drop"} =>
              W.source \in Sources /\ W.path \in Covers[W.source] /\ W.path \in Paths
  BY <1>1, KnownFile DEF IndexTypes
<1>5. W.at \in AtFile => W.op \in {"upsert", "rescan"}
  BY <1>4 DEF Shape
<1>6. W.at \in Writing => W.id \in DocIds
  BY <1>1, FileOf DEF W
<1>7. QED
  BY <1>1, <1>2, <1>3, <1>4, <1>5, <1>6 DEF W

\* The extraction succeeds, and the version can be read.
LEMMA TasksOfExtract ==
  ASSUME IndexInv, Extract("worker"), NEW s \in Sources, NEW p \in Covers[s], p \notin behind, Settled(p)
  PROVE  Tasks(s, p)'
<1>1. IndexFile("worker")
  BY DEF IndexFile
<1>2. W.at = "read" /\ W.at \in AtFile /\ UNCHANGED <<rows, failures>>
  BY DEF Extract, W, AtFile, tables
<1>3. /\ W'.op = W.op /\ W'.source = W.source /\ W'.at = "row" /\ W'.path = W.path /\ W'.stat = W.stat
      /\ W'.todo = W.todo /\ W'.found = W.found /\ W'.failed = W.failed
      /\ disk[W.path] \notin Bad
  BY <1>1, <1>2, WorkerKnows, ExtractIs DEF SameWork, SameLists, Readable
<1>4. Deleted(s, p)' /\ Worked(s, p)' /\ Found(s, p)' /\ Reported(s, p)'
  BY <1>1, <1>2, <1>3, WorkerKnows DEF Tasks, Deleted, Worked, Found, Reported, At, Good, AtFile, Looking
<1>5. Scanned(s, p)' /\ Gone(s, p)' /\ Failing(s, p)'
  BY <1>1, <1>2, <1>3, WorkerKnows DEF Tasks, Scanned, Gone, Failing, At, Rescans, Scanning, AtFile
<1>6. Wanted(s, p)'
  BY <1>1, <1>2, <1>3, WorkerKnows DEF Tasks, Wanted, Doing, At, Rescans, Scanning, AtFile, Looking, Good
<1>7. QED
  BY <1>4, <1>5, <1>6 DEF Tasks

\* It fails, and the failure is noted.
LEMMA TasksOfFailure ==
  ASSUME IndexInv, ExtractFails("worker"), NEW s \in Sources, NEW p \in Covers[s], p \notin behind, Settled(p)
  PROVE  Tasks(s, p)'
<1>1. IndexFile("worker")
  BY DEF IndexFile
<1>2. W.at = "read" /\ W.at \in AtFile /\ UNCHANGED rows
      /\ failures' = IF W.op = "upsert" THEN failures \cup {<<W.source, W.path>>} ELSE failures
  BY DEF ExtractFails, W, AtFile, tables
<1>3. /\ ~Readable(disk[W.path])
      /\ W.op = "rescan" => /\ W'.op = W.op /\ W'.source = W.source /\ W'.at = "scan" /\ W'.path = "none"
                            /\ W'.todo = W.todo /\ W'.found = W.found /\ W'.failed = W.failed \cup {W.path}
      /\ W.op = "upsert" => W'.op = "none" /\ W'.at = "idle"
  BY <1>1, <1>2, WorkerKnows, ExtractFailsIs DEF SameWork, Idle
<1>4. W.path = p => ~Good(p)
  BY <1>3 DEF Readable, Good
<1>5. Deleted(s, p)' /\ Worked(s, p)' /\ Found(s, p)' /\ Reported(s, p)'
  BY <1>1, <1>2, <1>3, WorkerKnows DEF Tasks, Deleted, Worked, Found, Reported, At, Good, AtFile
<1>6. Scanned(s, p)' /\ Gone(s, p)'
  BY <1>1, <1>2, <1>3, <1>4, WorkerKnows DEF Tasks, Scanned, Gone, At, Rescans, Scanning, AtFile, Good
<1>7. Failing(s, p)'
  BY <1>1, <1>2, <1>3, WorkerKnows DEF Tasks, Failing, At, Rescans, Scanning, AtFile
<1>8. Wanted(s, p)'
  BY <1>1, <1>2, <1>3, <1>4, WorkerKnows DEF Tasks, Wanted, Doing, At, Rescans, Scanning, AtFile, Good
<1>9. QED
  BY <1>5, <1>6, <1>7, <1>8 DEF Tasks

\* The row is written, with the version looked at.
LEMMA TasksOfRow ==
  ASSUME IndexInv, UpsertDocument("worker"), NEW s \in Sources, NEW p \in Covers[s], p \notin behind, Settled(p)
  PROVE  Tasks(s, p)'
<1>1. IndexFile("worker")
  BY DEF IndexFile
<1>2. W.at = "row" /\ W.at \in AtFile /\ UNCHANGED failures
  BY DEF UpsertDocument, W, AtFile
<1>3. /\ W'.op = W.op /\ W'.source = W.source /\ W'.at = "chunks" /\ W'.path = W.path
      /\ W'.todo = W.todo /\ W'.found = W.found /\ W'.failed = W.failed
      /\ rows' = [rows EXCEPT ![W.path] = DocumentRow(W, W'.id)]
  BY <1>1, <1>2, WorkerKnows, UpsertIs DEF SameWork, SameLists
<1>4. IF p = W.path THEN rows'[p].source = W.source /\ rows'[p].stat = W.stat ELSE rows'[p] = rows[p]
  <2> DEFINE row == DocumentRow(W, W'.id)
  <2>1. row.source = W.source /\ row.stat = W.stat
    BY DEF DocumentRow
  <2> HIDE DEF row
  <2>2. rows' = [rows EXCEPT ![W.path] = row]
    BY <1>3 DEF row
  <2>3. QED
    BY <1>1, <2>1, <2>2, WorkerKnows DEF IndexTypes
<1>5. W.path = p /\ W.stat = disk[p] => Good(p)
  BY <1>1, <1>2, WorkerKnows DEF WriterVersions, Looking, Good, WriterRecord
<1>6. W.path = p /\ disk[p] = 0 => W.stat # disk[p]
  BY <1>1, <1>2, WorkerKnows DEF WriterVersions, Looking, WriterRecord
<1>7. (Worked(W.source, p) /\ (p \in Covers[W.source] => Tasks(W.source, p))) \/ W.path # p
  BY <1>1, <1>2, WorkerKnows DEF Tasks
<1>8. Deleted(s, p)' /\ Worked(s, p)' /\ Found(s, p)' /\ Reported(s, p)'
  BY <1>1, <1>2, <1>3, <1>5, WorkerKnows DEF Tasks, Deleted, Worked, Found, Reported, At, Good, AtFile
<1>9. Scanned(s, p)'
  BY <1>1, <1>2, <1>3, WorkerKnows DEF Tasks, Scanned, Rescans, Scanning, AtFile
<1>10. Gone(s, p)'
  BY <1>1, <1>2, <1>3, <1>4, <1>6, <1>7, WorkerKnows
     DEF Tasks, Gone, Worked, At, Rescans, Scanning, AtFile, Good
<1>11. Failing(s, p)'
  BY <1>1, <1>2, <1>3, WorkerKnows DEF Tasks, Failing, At, Rescans, Scanning, AtFile
<1>12. Wanted(s, p)'
  <2>1. CASE p = W.path
    BY <1>1, <1>2, <1>3, <1>4, <1>7, <2>1, WorkerKnows DEF Wanted, Worked, Doing, At, Good, AtFile
  <2>2. CASE p # W.path
    BY <1>1, <1>2, <1>3, <1>4, <2>2, WorkerKnows DEF Tasks, Wanted, Doing, At, Rescans, Scanning, AtFile, Good
  <2>3. QED
    BY <2>1, <2>2
<1>13. QED
  BY <1>8, <1>9, <1>10, <1>11, <1>12 DEF Tasks

\* The chunks are stored, or the job fails and leaves its folder behind.
LEMMA TasksOfChunks ==
  ASSUME IndexInv, ReplaceChunks("worker"), NEW s \in Sources, NEW p \in Covers[s], p \notin behind', p \notin behind,
         Settled(p)
  PROVE  Tasks(s, p)'
<1>1. IndexFile("worker")
  BY DEF IndexFile
<1>2. W.at = "chunks" /\ W.at \in AtFile /\ W.at \in Writing /\ UNCHANGED <<rows, failures>>
  BY DEF ReplaceChunks, W, AtFile, Writing
<1>3. CASE W.id \in RowIds
  <2>1. /\ W'.op = W.op /\ W'.source = W.source /\ W'.at = "vectors" /\ W'.path = W.path
        /\ W'.todo = W.todo /\ W'.found = W.found /\ W'.failed = W.failed
    <3>1. /\ IndexTypes /\ "worker" \in Writers /\ W = writer["worker"] /\ W' = writer'["worker"]
          /\ writer["worker"].id \in DocIds /\ writer["worker"].id \in RowIds
      BY <1>1, <1>2, <1>3, WorkerKnows
    <3>2. /\ writer'["worker"].at = "vectors" /\ writer'["worker"].path = writer["worker"].path
          /\ SameWork(writer'["worker"], writer["worker"]) /\ SameLists(writer'["worker"], writer["worker"])
      BY <3>1, ReplaceChunksIs
    <3>3. QED
      BY <3>1, <3>2 DEF SameWork, SameLists
  <2>2. Deleted(s, p)' /\ Worked(s, p)' /\ Found(s, p)' /\ Reported(s, p)'
    BY <1>1, <1>2, <2>1, WorkerKnows DEF Tasks, Deleted, Worked, Found, Reported, At, Good, AtFile, Looking
  <2>3. Scanned(s, p)' /\ Gone(s, p)' /\ Failing(s, p)'
    BY <1>1, <1>2, <2>1, WorkerKnows DEF Tasks, Scanned, Gone, Failing, At, Rescans, Scanning, AtFile
  <2>4. Wanted(s, p)'
    BY <1>1, <1>2, <2>1, WorkerKnows DEF Tasks, Wanted, Doing, At, Rescans, Scanning, AtFile, Looking, Good
  <2>5. QED
    BY <2>2, <2>3, <2>4 DEF Tasks
<1>4. CASE W.id \notin RowIds
  <2>1. Ends("worker") /\ behind' = behind \cup Covers[W.source]
    BY <1>4 DEF ReplaceChunks, W
  <2>2. W'.op = "none" /\ W'.at = "idle" /\ p \notin Covers[W.source]
    BY <1>1, <2>1, WorkerKnows, EndsIs DEF Idle
  <2>3. s # W.source /\ \A t \in Sources : p \in Covers[t] => t # W.source
    BY <2>2
  <2>4. Deleted(s, p)' /\ Worked(s, p)' /\ Found(s, p)' /\ Scanned(s, p)' /\ Reported(s, p)'
    BY <2>2 DEF Deleted, Worked, Found, Scanned, Reported, At, Rescans
  <2>5. Gone(s, p)' /\ Failing(s, p)'
    BY <1>1, <1>2, <2>2, <2>3, WorkerKnows DEF Tasks, Gone, Failing, At, Rescans
  <2>6. Wanted(s, p)'
    BY <1>1, <1>2, <2>2, <2>3, WorkerKnows DEF Tasks, Wanted, Doing, At, Rescans, Good
  <2>7. QED
    BY <2>4, <2>5, <2>6 DEF Tasks
<1>5. QED
  BY <1>3, <1>4

\* The vectors are stored, or not.
LEMMA TasksOfVectors ==
  ASSUME IndexInv, ReplaceVectors("worker") \/ VectorsFail("worker"),
         NEW s \in Sources, NEW p \in Covers[s], p \notin behind, Settled(p)
  PROVE  Tasks(s, p)'
<1>1. IndexFile("worker")
  BY DEF IndexFile
<1>2. W.at = "vectors" /\ W.at \in AtFile /\ UNCHANGED <<rows, failures>> /\ FileDone("worker")
  BY DEF ReplaceVectors, VectorsFail, W, AtFile
<1>3. /\ W'.op = W.op /\ W'.source = W.source
      /\ W.op = "rescan" =>
           /\ W'.at = "scan" /\ W'.path = "none" /\ W'.todo = W.todo
           /\ W'.found = W.found \cup {W.path} /\ W'.failed = W.failed
      /\ W.op = "upsert" => W'.at = "clear" /\ W'.path = W.path
  BY <1>1, <1>2, WorkerKnows, FileDoneIs DEF SameWork
<1>4. Deleted(s, p)' /\ Worked(s, p)' /\ Found(s, p)' /\ Reported(s, p)'
  BY <1>1, <1>2, <1>3, WorkerKnows DEF Tasks, Deleted, Worked, Found, Reported, At, Good, AtFile, Looking
<1>5. Scanned(s, p)' /\ Gone(s, p)' /\ Failing(s, p)'
  BY <1>1, <1>2, <1>3, WorkerKnows DEF Tasks, Scanned, Gone, Failing, At, Rescans, Scanning, AtFile
<1>6. Wanted(s, p)'
  BY <1>1, <1>2, <1>3, WorkerKnows DEF Tasks, Wanted, Doing, At, Rescans, Scanning, AtFile, Looking, Good
<1>7. QED
  BY <1>4, <1>5, <1>6 DEF Tasks

\* The failure of the file is cleared: there is none of its version.
LEMMA TasksOfClear ==
  ASSUME IndexInv, ReportIndexed("worker"), NEW s \in Sources, NEW p \in Covers[s], p \notin behind, Settled(p)
  PROVE  Tasks(s, p)'
<1>1. IndexFile("worker")
  BY DEF IndexFile
<1>2. W.at = "clear" /\ UNCHANGED rows
      /\ failures' = IF W.op = "upsert" THEN failures \ {<<W.source, W.path>>} ELSE failures
  BY DEF ReportIndexed, W, tables
<1>3. W'.op = "none" /\ W'.at = "idle" /\ W.op = "upsert"
  BY <1>1, <1>2, WorkerKnows, EndsIs DEF ReportIndexed, Idle, Shape
<1>4. Deleted(s, p)' /\ Worked(s, p)' /\ Found(s, p)' /\ Scanned(s, p)' /\ Reported(s, p)'
  BY <1>3 DEF Deleted, Worked, Found, Scanned, Reported, At, Rescans
<1>5. Gone(s, p)' /\ Failing(s, p)'
  BY <1>1, <1>2, <1>3, WorkerKnows DEF Tasks, Gone, Failing, Worked, At, Rescans, Good, Looking
<1>6. Wanted(s, p)'
  BY <1>1, <1>2, <1>3, WorkerKnows DEF Tasks, Wanted, Doing, At, Rescans, Good, Looking
<1>7. QED
  BY <1>4, <1>5, <1>6 DEF Tasks

\* A rescan visits a file of its list.
LEMMA TasksOfVisit ==
  ASSUME IndexInv, NEW q \in Paths, VisitFile("worker", q), NEW s \in Sources, NEW p \in Covers[s], p \notin behind, Settled(p)
  PROVE  Tasks(s, p)'
<1>1. Reindex("worker")
  BY DEF Reindex
<1>2. W.at = "scan" /\ q \in W.todo /\ UNCHANGED <<rows, failures>> /\ W.op = "rescan"
  BY <1>1, WorkerKnows DEF VisitFile, W, Shape, tables
<1>3. /\ W'.op = W.op /\ W'.source = W.source /\ W'.todo = W.todo \ {q}
      /\ W'.found = W.found /\ W'.failed = W.failed
      /\ disk[q] = 0 => W'.at = "scan"
      /\ disk[q] # 0 => W'.at = "check" /\ W'.path = q /\ W'.stat = disk[q]
  BY <1>1, WorkerKnows, VisitIs DEF SameWork
<1>4. Deleted(s, p)' /\ Worked(s, p)' /\ Found(s, p)' /\ Reported(s, p)'
  BY <1>1, <1>2, <1>3, WorkerKnows DEF Tasks, Deleted, Worked, Found, Reported, At, Good, AtFile, Looking
<1>5. Scanned(s, p)' /\ Gone(s, p)' /\ Failing(s, p)'
  BY <1>1, <1>2, <1>3, WorkerKnows DEF Tasks, Scanned, Gone, Failing, At, Rescans, Scanning, AtFile
<1>6. Wanted(s, p)'
  BY <1>1, <1>2, <1>3, WorkerKnows DEF Tasks, Wanted, Doing, At, Rescans, Scanning, AtFile, Looking, Good
<1>7. QED
  BY <1>4, <1>5, <1>6 DEF Tasks

(* A row of a file the purge takes away, and one it leaves                  *)
LEMMA PurgedRow ==
  ASSUME IndexTypes, NEW w \in Writers, Purge(w), NEW p \in Paths, RowVersions(p)
  PROVE  \/ rows'[p] = rows[p] /\ (rows[p].id # 0 /\ rows[p].source = writer[w].source => p \in writer[w].found)
         \/ /\ rows'[p] = NoRow /\ rows[p].id # 0 /\ rows[p].source = writer[w].source
            /\ p \in Covers[writer[w].source] /\ p \notin writer[w].found
            /\ p \in SourceRows(writer[w].source) \ writer[w].found
<1> DEFINE gone == SourceRows(writer[w].source) \ writer[w].found
<1>1. rows'[p] = IF p \in gone THEN NoRow ELSE rows[p]
  BY DeleteRowsIs DEF Purge
<1>2. p \in gone <=> rows[p].source = writer[w].source /\ p \notin writer[w].found
  BY DEF SourceRows
<1>3. CASE rows[p].id = 0
  BY <1>1, <1>3 DEF RowVersions
<1>4. CASE rows[p].id # 0
  BY <1>1, <1>2, <1>4 DEF RowVersions
<1>5. QED
  BY <1>3, <1>4

\* The purge leaves the rows of files that were found, and the failures to report.
LEMMA TasksOfPurge ==
  ASSUME IndexInv, Purge("worker"), NEW s \in Sources, NEW p \in Covers[s], p \notin behind, Settled(p)
  PROVE  Tasks(s, p)'
<1>1. Reindex("worker")
  BY DEF Reindex
<1>2. W.at = "scan" /\ W.todo = {} /\ UNCHANGED failures /\ W.op = "rescan"
  BY <1>1, WorkerKnows DEF Purge, W, Shape
<1>3. /\ W'.op = W.op /\ W'.source = W.source /\ W'.todo = {}
      /\ W'.found = {} /\ W'.failed = W.failed /\ W'.at = "report"
  BY <1>1, WorkerKnows, PurgeIs DEF SameWork
<1>0. W.source \in Sources
  BY <1>1, <1>2, WorkerKnows DEF Shape
<1>4. \/ rows'[p] = rows[p] /\ (rows[p].id # 0 /\ rows[p].source = W.source => p \in W.found)
      \/ /\ rows'[p] = NoRow /\ rows[p].source = W.source
         /\ p \in Covers[W.source] /\ p \notin W.found
  BY <1>1, WorkerKnows, PurgedRow
<1>5. Deleted(s, p)' /\ Worked(s, p)' /\ Found(s, p)' /\ Scanned(s, p)'
  BY <1>2, <1>3 DEF Deleted, Worked, Found, Scanned, At, Rescans, Scanning, AtFile
<1>6. disk[p] \in Bad => disk[p] # 0 /\ ~Good(p)
  BY LibraryConstants DEF Good
<1>7. Reported(s, p)'
  BY <1>1, <1>2, <1>3, <1>6, WorkerKnows DEF Tasks, Reported, Scanned, Found, Rescans, Scanning
<1>8. Gone(s, p)'
  BY <1>1, <1>2, <1>3, <1>4, WorkerKnows DEF Tasks, Gone, Found, At, Rescans, Scanning, Good, NoRow
<1>9. Failing(s, p)'
  BY <1>1, <1>2, <1>3, WorkerKnows DEF Tasks, Failing, At, Rescans, Scanning
<1>10. Wanted(s, p)'
  <2>1. CASE rows'[p] = rows[p]
    BY <1>1, <1>2, <1>3, <2>1, WorkerKnows DEF Tasks, Wanted, Doing, At, Rescans, Scanning, Looking, Good
  <2>2. CASE p \in Covers[W.source] /\ p \notin W.found
    <3>1. PICK t \in Sources : t = W.source
      BY <1>0
    <3>2. Good(p)' => Good(p)
      BY <1>1, WorkerKnows DEF Good
    <3>3. Good(p) => Queued(t, p)
      BY <1>1, <1>2, <2>2, <3>1, WorkerKnows DEF Tasks, Scanned, Rescans, Scanning, Good
    <3>4. Good(p) => Queued(t, p)'
      BY <1>1, <3>3, WorkerKnows
    <3>5. QED
      BY <2>2, <3>1, <3>2, <3>4 DEF Wanted, Doing
  <2>3. QED
    BY <1>4, <2>1, <2>2
<1>11. QED
  BY <1>5, <1>7, <1>8, <1>9, <1>10 DEF Tasks

\* The failures are replaced by those of this rescan.
LEMMA TasksOfReport ==
  ASSUME IndexInv, ReportFailures("worker"), NEW s \in Sources, NEW p \in Covers[s], p \notin behind, Settled(p)
  PROVE  Tasks(s, p)'
<1>1. Reindex("worker")
  BY DEF Reindex
<1>2. W.at = "report" /\ UNCHANGED rows /\ W.op = "rescan"
      /\ failures' = {f \in failures : f[1] # W.source} \cup ({W.source} \X W.failed)
  BY <1>1, WorkerKnows DEF ReportFailures, W, Shape, tables
<1>3. W'.op = "none" /\ W'.at = "list"
  BY <1>1, WorkerKnows, ReportIs DEF Idle
<1>4. Deleted(s, p)' /\ Worked(s, p)' /\ Found(s, p)' /\ Scanned(s, p)' /\ Reported(s, p)'
  BY <1>3 DEF Deleted, Worked, Found, Scanned, Reported, At, Rescans
<1>5. Gone(s, p)'
  BY <1>1, <1>2, <1>3, WorkerKnows DEF Tasks, Gone, At, Rescans, Scanning, AtFile
<1>6. <<s, p>> \in failures => <<s, p>> \in failures' \/ s = W.source
  BY <1>2
<1>7. s = W.source /\ p \in W.failed => <<s, p>> \in failures'
  BY <1>2
<1>8. Failing(s, p)'
  BY <1>1, <1>2, <1>3, <1>6, <1>7, WorkerKnows DEF Tasks, Failing, Reported, At, Rescans, Scanning, AtFile
<1>9. Wanted(s, p)'
  BY <1>1, <1>2, <1>3, WorkerKnows DEF Tasks, Wanted, Doing, At, Rescans, Scanning, AtFile, Looking, Good
<1>10. QED
  BY <1>4, <1>5, <1>8, <1>9 DEF Tasks

\* Vectors are pruned; rows and failures stay.
LEMMA TasksOfPruning ==
  ASSUME IndexInv, ListDocuments("worker") \/ PruneVectors("worker"),
         NEW s \in Sources, NEW p \in Covers[s], p \notin behind, Settled(p)
  PROVE  Tasks(s, p)'
<1>1. Reindex("worker")
  BY DEF Reindex
<1>2. W.at \in {"list", "prune"} /\ UNCHANGED <<rows, failures>> /\ W.op # "delete"
  BY <1>1, WorkerKnows DEF ListDocuments, PruneVectors, W, Shape, tables
<1>3. W'.at \in {"idle", "prune"} /\ (W'.op = "none" \/ (W'.op = W.op /\ W'.source = W.source /\ W'.found = W.found))
  <2>1. CASE ListDocuments("worker")
    BY <1>1, <2>1, WorkerKnows, ListIs DEF SameWork, SameLists
  <2>2. CASE PruneVectors("worker")
    <3>1. Ends("worker")
      BY <2>2 DEF PruneVectors
    <3>2. QED
      BY <1>1, <3>1, WorkerKnows, EndsIs DEF Idle
  <2>3. QED
    BY <2>1, <2>2
<1>4. Deleted(s, p)' /\ Worked(s, p)' /\ Scanned(s, p)' /\ Reported(s, p)'
  BY <1>2, <1>3 DEF Deleted, Worked, Scanned, Reported, At, Rescans, Scanning, AtFile
<1>5. Found(s, p)' /\ Gone(s, p)' /\ Failing(s, p)'
  BY <1>1, <1>2, <1>3, WorkerKnows DEF Tasks, Found, Gone, Failing, At, Rescans, Scanning, AtFile, Good
<1>6. Wanted(s, p)'
  BY <1>1, <1>2, <1>3, WorkerKnows DEF Tasks, Wanted, Doing, At, Rescans, Scanning, AtFile, Looking, Good
<1>7. QED
  BY <1>4, <1>5, <1>6 DEF Tasks

\* The vectors of a removed file go first,
LEMMA TasksOfRemoval ==
  ASSUME IndexInv, RemoveVectors("worker"), NEW s \in Sources, NEW p \in Covers[s], p \notin behind, Settled(p)
  PROVE  Tasks(s, p)'
<1>1. Removal("worker")
  BY DEF Removal
<1>2. W.at = "unvector" /\ UNCHANGED <<rows, failures>> /\ W.op = "delete" /\ Goes("worker", "drop")
  BY <1>1, WorkerKnows DEF RemoveVectors, W, Shape
<1>3. W'.at = "drop" /\ W'.op = W.op /\ W'.source = W.source /\ W'.path = W.path
  BY <1>1, <1>2, WorkerKnows, GoesIs DEF SameWork, SameFile, Places
<1>4. Deleted(s, p)' /\ Worked(s, p)' /\ Found(s, p)' /\ Scanned(s, p)' /\ Reported(s, p)'
  BY <1>1, <1>2, <1>3, WorkerKnows DEF Tasks, Deleted, Worked, Found, Scanned, Reported, At, Rescans
<1>5. Gone(s, p)' /\ Failing(s, p)'
  BY <1>1, <1>2, <1>3, WorkerKnows DEF Tasks, Gone, Failing, At, Rescans
<1>6. Wanted(s, p)'
  BY <1>1, <1>2, <1>3, WorkerKnows DEF Tasks, Wanted, Doing, At, Rescans, Good
<1>7. QED
  BY <1>4, <1>5, <1>6 DEF Tasks

\* then its row and its failure: a file that is there again has its job.
LEMMA TasksOfDrop ==
  ASSUME IndexInv, RemovePath("worker"), NEW s \in Sources, NEW p \in Covers[s], p \notin behind, Settled(p)
  PROVE  Tasks(s, p)'
<1>1. Removal("worker")
  BY DEF Removal
<1>2. W.at = "drop" /\ W.op = "delete" /\ Ends("worker") /\ failures' = failures \ {<<W.source, W.path>>}
      /\ DeleteRows({W.path} \cap SourceRows(W.source))
  BY <1>1, WorkerKnows DEF RemovePath, W, Shape
<1>3. W'.at = "idle" /\ W'.op = "none"
  BY <1>1, <1>2, WorkerKnows, EndsIs DEF Idle
<1>4. \/ rows'[p] = rows[p] /\ (p = W.path => rows[p].source # W.source)
      \/ rows'[p] = NoRow /\ p = W.path
  BY <1>1, <1>2, WorkerKnows, DeleteRowsIs DEF SourceRows
<1>5. Deleted(s, p)' /\ Worked(s, p)' /\ Found(s, p)' /\ Scanned(s, p)' /\ Reported(s, p)'
  BY <1>3 DEF Deleted, Worked, Found, Scanned, Reported, At, Rescans
<1>6. Gone(s, p)'
  BY <1>1, <1>2, <1>3, <1>4, WorkerKnows DEF Tasks, Gone, At, Rescans, NoRow
<1>7. disk[p] \in Bad => disk[p] # 0
  BY LibraryConstants
<1>8. <<s, p>> \in failures => <<s, p>> \in failures' \/ At("delete", s, p)
  BY <1>2 DEF At
<1>9. Failing(s, p)'
  BY <1>1, <1>2, <1>3, <1>7, <1>8, WorkerKnows DEF Tasks, Failing, Deleted, At, Rescans
<1>10. Wanted(s, p)'
  <2>1. CASE rows'[p] = rows[p]
    BY <1>1, <1>2, <1>3, <2>1, WorkerKnows DEF Tasks, Wanted, Doing, At, Rescans, Good
  <2>2. CASE p = W.path
    <3>1. PICK t \in Sources : t = W.source /\ p \in Covers[t]
      BY <1>1, <1>2, <2>2, WorkerKnows
    <3>2. Good(p) => Queued(t, p)
      BY <1>1, <1>2, <2>2, <3>1, WorkerKnows DEF Tasks, Deleted, At, Good
    <3>3. Good(p)' => Queued(t, p)'
      BY <1>1, <3>2, WorkerKnows DEF Good
    <3>4. QED
      BY <3>1, <3>3 DEF Wanted, Doing
  <2>3. QED
    BY <1>4, <2>1, <2>2
<1>11. QED
  BY <1>5, <1>6, <1>9, <1>10 DEF Tasks

\* All steps of the worker
LEMMA TasksOfWorker ==
  ASSUME IndexInv, IndexFile("worker") \/ Reindex("worker") \/ Removal("worker"),
         NEW s \in Sources, NEW p \in Covers[s], p \notin behind', p \notin behind, Settled(p)
  PROVE  Tasks(s, p)'
<1>1. CASE IndexFile("worker")
  BY <1>1, TasksOfCheck, TasksOfExtract, TasksOfFailure, TasksOfRow, TasksOfChunks, TasksOfVectors, TasksOfClear
     DEF IndexFile
<1>2. CASE Reindex("worker")
  BY <1>2, TasksOfVisit, TasksOfPurge, TasksOfReport, TasksOfPruning DEF Reindex
<1>3. CASE Removal("worker")
  <2>1. ~DeleteSource("worker")
    BY <1>3, WorkerKnows DEF DeleteSource, Shape
  <2>2. QED
    BY <1>3, <2>1, TasksOfRemoval, TasksOfDrop DEF Removal
<1>4. QED
  BY <1>1, <1>2, <1>3

(* The rest of the queue after its head                                     *)
LEMMA QueuedAfter ==
  ASSUME queue \in Seq(JobSet), queue # <<>>, queue' = Tail(queue), NEW t, NEW p, disk'[p] = disk[p], Queued(t, p)
  PROVE  \/ Queued(t, p)' \/ Head(queue) = RescanOf(t) \/ Head(queue) = FileJob("upsert", t, p)
         \/ disk[p] = 0 /\ Head(queue) = FileJob("delete", t, p)
<1>1. Jobs \subseteq Jobs' \cup {Head(queue)}
  BY TailJobs
<1>2. QED
  BY <1>1 DEF Queued, RescanOf, FileJob

\* The head of the queue becomes what the worker does.
LEMMA TasksOfTake ==
  ASSUME IndexInv, TakeJob, NEW s \in Sources, NEW p \in Covers[s], p \notin behind, Settled(p)
  PROVE  Tasks(s, p)'
<1>1. /\ p \in Paths /\ IndexTypes /\ disk[p] \in Nat
      /\ \A t \in Sources : p \in Covers[t] => Tasks(t, p) /\ t \in sources
  BY KnownFile DEF IndexInv, Covered
<1>2. /\ queue \in Seq(JobSet) /\ queue # <<>> /\ queue' = Tail(queue)
      /\ UNCHANGED <<disk, rows, failures, sources>>
  BY <1>1 DEF TakeJob, IndexTypes, files, tables
<1>3. W.op = "none" /\ W.at = "idle"
  BY <1>1, TakeIs DEF Idle
<1>4. \A t \in Sources : p \in Covers[t] =>
        /\ Gone(t, p) => (disk[p] = 0 /\ rows[p].id # 0 /\ rows[p].source = t => Queued(t, p))
        /\ Failing(t, p) => (disk[p] \in Bad => <<t, p>> \in failures \/ Queued(t, p))
        /\ Doing(t, p) => Queued(t, p)
  BY <1>3 DEF Gone, Failing, Doing, At, Rescans, Scanning, AtFile
<1>5. disk[p] \in Bad => disk[p] # 0
  BY LibraryConstants
<1>6. PICK h \in Sources :
        \/ Head(queue) = RescanOf(h) /\ W' = RescanBegun(h)
        \/ \E q \in Covers[h] :
             \/ Head(queue) = FileJob("upsert", h, q) /\ h \notin sources /\ W' = Idle
             \/ /\ Head(queue) = FileJob("upsert", h, q) /\ h \in sources /\ disk[q] # 0
                /\ W' = FileBegun("upsert", h, q, "check")
             \/ /\ Head(queue) = FileJob("upsert", h, q) /\ h \in sources /\ disk[q] = 0
                /\ W' = FileBegun("delete", h, q, "unvector")
             \/ Head(queue) = FileJob("delete", h, q) /\ W' = FileBegun("delete", h, q, "unvector")
  BY <1>1, TakeIs
<1>7. CASE Head(queue) = RescanOf(h) /\ W' = RescanBegun(h)
  <2>1. /\ W'.op = "rescan" /\ W'.source = h /\ W'.found = {} /\ W'.failed = {}
        /\ p \in Covers[h] => W'.at = "scan" /\ W'.todo = {x \in Covers[h] : disk[x] # 0}
        /\ p \notin Covers[h] => W'.at # "report"
    BY <1>1, <1>7, RescanBegunIs
  <2>2. \A t \in Sources : p \in Covers[t] /\ Queued(t, p) => Queued(t, p)' \/ t = h
    BY <1>2, <1>7, QueuedAfter, JobsDiffer
  <2>3. Deleted(s, p)' /\ Worked(s, p)' /\ Found(s, p)'
    BY <2>1 DEF Deleted, Worked, Found, At, AtFile
  <2>4. Scanned(s, p)' /\ Reported(s, p)'
    BY <1>2, <2>1 DEF Scanned, Reported, Rescans
  <2>5. Gone(s, p)' /\ Failing(s, p)'
    BY <1>1, <1>2, <1>4, <2>1, <2>2 DEF Tasks, Gone, Failing, Rescans, Scanning
  <2>6. Wanted(s, p)'
    <3>1. Good(p)' /\ rows'[p].stat # disk'[p] => \E t \in Sources : p \in Covers[t] /\ Queued(t, p) /\ disk[p] # 0
      BY <1>1, <1>2, <1>4 DEF Tasks, Wanted, Good
    <3>2. \A t \in Sources : p \in Covers[t] /\ Queued(t, p) /\ disk[p] # 0 => Doing(t, p)'
      BY <1>2, <2>1, <2>2 DEF Doing, Rescans, Scanning
    <3>3. QED
      BY <3>1, <3>2 DEF Wanted
  <2>7. QED
    BY <2>3, <2>4, <2>5, <2>6 DEF Tasks
<1>8. ASSUME NEW q \in Covers[h], Head(queue) = FileJob("upsert", h, q), h \notin sources, W' = Idle
      PROVE  Tasks(s, p)'
  <2>0. \A t \in Sources : p \in Covers[t] => t # h
    BY <1>1, <1>8
  <2>1. ASSUME NEW t \in Sources, p \in Covers[t], Queued(t, p) PROVE Queued(t, p)'
    <3>1. t # h
      BY <2>0, <2>1
    <3>2. /\ FileJob("upsert", h, q) # RescanOf(t) /\ FileJob("upsert", h, q) # FileJob("upsert", t, p)
          /\ FileJob("upsert", h, q) # FileJob("delete", t, p)
      BY <3>1, JobsDiffer
    <3>3. QED
      BY <1>2, <1>8, <2>1, <3>2, QueuedAfter
  <2>2. W' = W
    BY <1>1, <1>8, TakeIs
  <2>3. QED
    BY <1>1, <1>2, <2>1, <2>2, TasksSame
<1>9. ASSUME NEW q \in Covers[h], Head(queue) = FileJob("upsert", h, q), disk[q] # 0,
             W' = FileBegun("upsert", h, q, "check")
      PROVE  Tasks(s, p)'
  <2>1. /\ W'.op = "upsert" /\ W'.source = h /\ W'.path = q /\ W'.at = "check" /\ W'.stat = disk[q]
    BY <1>1, <1>9, LibraryConstants, FileBegunIs, SMTT(30) DEF Ops, Places, AtFile
  <2>2. \A t \in Sources : p \in Covers[t] /\ Queued(t, p) => Queued(t, p)' \/ (t = h /\ p = q)
    BY <1>2, <1>9, QueuedAfter, JobsDiffer
  <2>3. Deleted(s, p)' /\ Worked(s, p)' /\ Found(s, p)' /\ Scanned(s, p)' /\ Reported(s, p)'
    BY <1>2, <2>1 DEF Deleted, Worked, Found, Scanned, Reported, At, Rescans, Looking
  <2>4. Gone(s, p)' /\ Failing(s, p)'
    BY <1>1, <1>2, <1>4, <1>9, <2>1, <2>2 DEF Tasks, Gone, Failing, At
  <2>5. Wanted(s, p)'
    <3>1. Good(p)' /\ rows'[p].stat # disk'[p] => \E t \in Sources : p \in Covers[t] /\ Queued(t, p)
      BY <1>1, <1>2, <1>4 DEF Tasks, Wanted, Good
    <3>2. \A t \in Sources : p \in Covers[t] /\ Queued(t, p) => Doing(t, p)'
      BY <1>2, <2>1, <2>2 DEF Doing, At, Looking
    <3>3. QED
      BY <3>1, <3>2 DEF Wanted
  <2>6. QED
    BY <2>3, <2>4, <2>5 DEF Tasks
<1>10. ASSUME NEW q \in Covers[h], W' = FileBegun("delete", h, q, "unvector"),
              \/ Head(queue) = FileJob("upsert", h, q) /\ disk[q] = 0
              \/ Head(queue) = FileJob("delete", h, q)
       PROVE  Tasks(s, p)'
  <2>1. /\ W'.op = "delete" /\ W'.source = h /\ W'.path = q /\ W'.at = "unvector"
    BY <1>1, <1>10, LibraryConstants, FileBegunIs, SMTT(30) DEF Ops, Places, AtFile
  <2>2. \A t \in Sources : p \in Covers[t] /\ Queued(t, p) => Queued(t, p)' \/ (t = h /\ p = q /\ disk[p] = 0)
    BY <1>2, <1>10, QueuedAfter, JobsDiffer
  <2>3. p = q /\ disk[p] # 0 => Queued(h, p)'
    <3>1. SUFFICES ASSUME p = q, disk[p] # 0 PROVE Queued(h, p)'
      OBVIOUS
    <3>2. Head(queue) = FileJob("delete", h, p) /\ p \in Covers[h]
      BY <1>10, <3>1
    <3>3. InOrderOK(h, p)
      BY <3>1, <3>2 DEF IndexInv, Orders
    <3>4. /\ FileJob("delete", h, p) \in Jobs /\ Jobs \subseteq Jobs' \cup {FileJob("delete", h, p)}
      BY <1>2, <3>2, TailJobs
    <3>5. FileJob("upsert", h, p) \in Jobs'
      BY <3>3, <3>4, JobsDiffer DEF InOrderOK
    <3>6. QED
      BY <3>5 DEF Queued, FileJob
  <2>4. Deleted(s, p)' /\ Worked(s, p)' /\ Found(s, p)' /\ Scanned(s, p)' /\ Reported(s, p)'
    BY <1>2, <2>1, <2>3 DEF Deleted, Worked, Found, Scanned, Reported, At, Rescans
  <2>5. Gone(s, p)' /\ Failing(s, p)'
    BY <1>1, <1>2, <1>4, <1>5, <2>1, <2>2 DEF Tasks, Gone, Failing, At
  <2>6. Wanted(s, p)'
    <3>1. Good(p)' /\ rows'[p].stat # disk'[p] => \E t \in Sources : p \in Covers[t] /\ Queued(t, p) /\ disk[p] # 0
      BY <1>1, <1>2, <1>4 DEF Tasks, Wanted, Good
    <3>2. \A t \in Sources : p \in Covers[t] /\ Queued(t, p) /\ disk[p] # 0 => Doing(t, p)'
      BY <2>2 DEF Doing
    <3>3. QED
      BY <3>1, <3>2 DEF Wanted
  <2>7. QED
    BY <2>4, <2>5, <2>6 DEF Tasks
<1>11. QED
  BY <1>6, <1>7, <1>8, <1>9, <1>10

(* A step of a request leaves the worker's record alone but for its claim    *)
(* on the chunks it wrote.                                                   *)
WorkSame ==
  /\ W'.at = W.at /\ SameWork(W', W) /\ W'.path = W.path /\ W'.stat = W.stat
  /\ SameLists(W', W)

\* No step of a request moves the worker.
LEMMA RequestLeaves ==
  ASSUME IndexTypes, Shapes, IndexFile("request") \/ Reindex("request") \/ Removal("request")
  PROVE  WorkSame
<1>0. "request" \in Writers /\ "worker" \in Writers /\ "worker" # "request" /\ W = writer["worker"]
      /\ W' = writer'["worker"]
  BY DEF Writers, W
<1> DEFINE me == writer["request"]
<1>1. me.at \in AtFile \cup {"clear", "unvector", "drop"} => me.path \in Paths
  BY <1>0, FileOf
<1>2. me.at \in Writing => me.id \in DocIds
  BY <1>0, FileOf
<1>3. ASSUME Others("request") PROVE WorkSame
  BY <1>0, <1>3 DEF Others, WorkSame, SameWork, SameLists
<1>4. CASE ReplaceChunks("request")
  <2>1. me.id \in DocIds
    BY <1>2, <1>4 DEF ReplaceChunks, Writing
  <2>2. CASE me.id \in RowIds
    <3>1. /\ writer'["worker"].at = writer["worker"].at /\ SameFile(writer'["worker"], writer["worker"])
          /\ SameWork(writer'["worker"], writer["worker"]) /\ SameLists(writer'["worker"], writer["worker"])
      BY <1>0, <1>4, <2>1, <2>2, ReplaceChunksIs
    <3>2. QED
      BY <1>0, <3>1 DEF WorkSame, SameFile
  <2>3. CASE me.id \notin RowIds
    <3>1. Ends("request")
      BY <1>4, <2>3 DEF ReplaceChunks
    <3>2. QED
      BY <1>0, <1>3, <3>1, EndsIs
  <2>4. QED
    BY <2>2, <2>3
<1>5. CASE CheckUnchanged("request") \/ ReplaceVectors("request") \/ VectorsFail("request")
  <2>1. me.path \in Paths /\ (FileDone("request") \/ Goes("request", "read"))
    BY <1>1, <1>5 DEF CheckUnchanged, ReplaceVectors, VectorsFail, AtFile
  <2>2. QED
    BY <1>0, <1>3, <2>1, FileDoneIs, GoesIs DEF Places, AtFile
<1>6. CASE Extract("request") \/ ExtractFails("request") \/ UpsertDocument("request")
  <2>1. me.path \in Paths
    BY <1>1, <1>6 DEF Extract, ExtractFails, UpsertDocument, AtFile
  <2>2. QED
    BY <1>0, <1>3, <1>6, <2>1, ExtractIs, ExtractFailsIs, UpsertIs
<1>7. CASE ReportIndexed("request") \/ PruneVectors("request") \/ RemovePath("request") \/ DeleteSource("request")
  <2>1. Ends("request")
    BY <1>7 DEF ReportIndexed, PruneVectors, RemovePath, DeleteSource
  <2>2. QED
    BY <1>0, <1>3, <2>1, EndsIs
<1>8. CASE Reindex("request") /\ ~PruneVectors("request")
  BY <1>0, <1>3, <1>8, VisitIs, PurgeIs, ReportIs, ListIs DEF Reindex
<1>9. CASE RemoveVectors("request")
  BY <1>0, <1>3, <1>9, GoesIs DEF RemoveVectors, Places
<1>10. QED
  BY <1>4, <1>5, <1>6, <1>7, <1>8, <1>9 DEF IndexFile, Removal

(* What a request does to the row of a file that is not behind              *)
LEMMA RequestRow ==
  ASSUME IndexInv, IndexFile("request") \/ Reindex("request") \/ Removal("request"),
         NEW s \in Sources, NEW p \in Covers[s], p \notin behind, p \notin behind'
  PROVE  \/ rows'[p] = rows[p]
         \/ /\ UpsertDocument("request") /\ writer["request"].path = p
            /\ rows'[p] = DocumentRow(writer["request"], writer'["request"].id)
            /\ writer["request"].stat = disk[p] /\ disk[p] # 0
<1>0. /\ "request" \in Writers /\ IndexTypes /\ Shapes /\ p \in Paths /\ RowVersions(p)
      /\ WriterVersions(writer["request"]) /\ Shape(writer["request"]) /\ writer["request"] \in WriterRecord
      /\ disk[p] \in Nat
      /\ writer["request"].op \in {"none", "attach", "rescan", "remove"}
  BY LibraryConstants DEF IndexInv, Basics, VersionsOK, Shapes, Writers, IndexTypes
<1> DEFINE me == writer["request"]
<1>1. CASE UpsertDocument("request")
  <2>1. me.at = "row" /\ me.path \in Paths
    BY <1>0, <1>1, FileOf DEF UpsertDocument, AtFile
  <2>2. rows' = [rows EXCEPT ![me.path] = DocumentRow(me, writer'["request"].id)] /\ rows \in [Paths -> RowRecord]
    BY <1>0, <1>1, <2>1, UpsertIs DEF IndexTypes
  <2>3. CASE me.path = p
    <3>1. me.stat = disk[me.path]
      BY <1>0, <1>1, <2>3 DEF UpsertDocument
    <3>2. disk[p] # 0
      BY <1>0, <2>1, <2>3, <3>1 DEF WriterVersions, Looking, WriterRecord
    <3>3. QED
      BY <1>0, <1>1, <2>2, <2>3, <3>1, <3>2
  <2>4. CASE me.path # p
    BY <1>0, <2>2, <2>4
  <2>5. QED
    BY <2>3, <2>4
<1>2. CASE Purge("request")
  <2>1. p \notin SourceRows(me.source) \ me.found
    BY <1>2 DEF Purge
  <2>2. QED
    BY <1>0, <1>2, <2>1, PurgedRow
<1>3. CASE DeleteSource("request")
  <2>1. DeleteRows(SourceRows(me.source)) /\ p \notin Covers[me.source]
    BY <1>3 DEF DeleteSource
  <2>2. rows'[p] = IF p \in SourceRows(me.source) THEN NoRow ELSE rows[p]
    BY <1>0, <2>1, DeleteRowsIs
  <2>3. p \in SourceRows(me.source) => rows[p] = NoRow
    BY <1>0, <2>1 DEF SourceRows, RowVersions
  <2>4. QED
    BY <2>2, <2>3
<1>4. CASE IndexFile("request") /\ ~UpsertDocument("request")
  BY <1>4 DEF IndexFile, CheckUnchanged, Extract, ExtractFails, ReplaceChunks, ReplaceVectors,
              VectorsFail, ReportIndexed, tables
<1>5. CASE Reindex("request") /\ ~Purge("request")
  BY <1>5 DEF Reindex, VisitFile, ReportFailures, ListDocuments, PruneVectors, tables
<1>6. CASE Removal("request") /\ ~DeleteSource("request")
  BY <1>0, <1>6 DEF Removal, RemoveVectors, RemovePath, Shape
<1>7. QED
  BY <1>1, <1>2, <1>3, <1>4, <1>5, <1>6

(* ... and to its failures                                                  *)
LEMMA RequestFailures ==
  ASSUME IndexInv, IndexFile("request") \/ Reindex("request") \/ Removal("request"),
         NEW s \in Sources, NEW p \in Covers[s], p \notin behind', <<s, p>> \in failures
  PROVE  <<s, p>> \in failures'
<1>0. "request" \in Writers /\ Shape(writer["request"])
      /\ writer["request"].op \in {"none", "attach", "rescan", "remove"}
  BY DEF IndexInv, Basics, Shapes, Writers
<1> DEFINE me == writer["request"]
<1>1. CASE ReportFailures("request")
  <2>1. behind' = behind \cup {f[2] : f \in failures \ failures'}
    BY <1>1 DEF ReportFailures
  <2>2. <<s, p>>[2] = p
    OBVIOUS
  <2>3. QED
    BY <2>1, <2>2
<1>2. CASE DeleteSource("request")
  BY <1>2 DEF DeleteSource
<1>3. CASE IndexFile("request")
  BY <1>0, <1>3 DEF IndexFile, CheckUnchanged, Extract, ExtractFails, UpsertDocument, ReplaceChunks, ReplaceVectors,
              VectorsFail, ReportIndexed, Shape
<1>4. CASE Reindex("request") /\ ~ReportFailures("request")
  BY <1>4 DEF Reindex, VisitFile, Purge, ListDocuments, PruneVectors
<1>5. CASE Removal("request") /\ ~DeleteSource("request")
  BY <1>0, <1>5 DEF Removal, RemoveVectors, RemovePath, Shape
<1>6. QED
  BY <1>1, <1>2, <1>3, <1>4, <1>5

\* A request writes the present version of a file that is not behind, or nothing.
LEMMA TasksOfRequest ==
  ASSUME IndexInv, IndexFile("request") \/ Reindex("request") \/ Removal("request"),
         NEW s \in Sources, NEW p \in Covers[s], p \notin behind, p \notin behind', Settled(p)
  PROVE  Tasks(s, p)'
<1>0. /\ IndexTypes /\ Shapes /\ "request" \in Writers /\ Tasks(s, p)
  BY KnownFile DEF Writers
<1>1. UNCHANGED <<disk, queue>>
  BY <1>0, WritersLeave
<1>2. \A t : Queued(t, p)' <=> Queued(t, p)
  BY <1>1, QueuedSame
<1>3. /\ W'.at = W.at /\ W'.op = W.op /\ W'.source = W.source /\ W'.path = W.path /\ W'.stat = W.stat
      /\ W'.todo = W.todo /\ W'.found = W.found /\ W'.failed = W.failed
  BY <1>0, RequestLeaves DEF WorkSame, SameWork, SameLists
<1>4. <<s, p>> \in failures => <<s, p>> \in failures'
  BY RequestFailures
<1>5. CASE rows'[p] = rows[p]
  BY <1>0, <1>1, <1>2, <1>3, <1>4, <1>5, TasksSame
<1>6. CASE rows'[p].stat = disk[p] /\ disk[p] # 0
  <2>1. Deleted(s, p)' /\ Worked(s, p)' /\ Found(s, p)'
    BY <1>0, <1>1, <1>2, <1>3 DEF Tasks, Deleted, Worked, Found, At, Good
  <2>2. Scanned(s, p)' /\ Reported(s, p)' /\ Failing(s, p)'
    BY <1>0, <1>1, <1>2, <1>3, <1>4 DEF Tasks, Scanned, Reported, Failing, At, Rescans
  <2>3. Gone(s, p)' /\ Wanted(s, p)'
    BY <1>1, <1>6 DEF Gone, Wanted
  <2>4. QED
    BY <2>1, <2>2, <2>3 DEF Tasks
<1>7. QED
  BY <1>5, <1>6, RequestRow DEF DocumentRow

\* Every step keeps the tasks of every file that is not behind.
LEMMA TasksKept ==
  ASSUME IndexInv, [Next]_vars, NEW s \in Sources, NEW p \in Covers[s], p \notin behind', seen'[p] = disk'[p]
  PROVE  Tasks(s, p)'
<1>0. p \notin behind
  BY BehindGrows
<1>1. /\ p \in Paths /\ IndexTypes /\ Shapes /\ disk[p] \in Nat /\ s \in sources /\ s \in watched
      /\ Settled(p) => Tasks(s, p)
      /\ \A t \in Sources : p \in Covers[t] => t \in sources /\ t \in watched
      /\ version \in Nat /\ disk[p] <= version /\ seen[p] <= version /\ seen[p] \in Nat
  BY <1>0, KnownFile DEF IndexInv, Basics, VersionsOK, Covered, IndexTypes
<1>2. ASSUME Settled(p), UNCHANGED <<disk, rows, failures, writer>>,
             \A t \in Sources : p \in Covers[t] /\ Queued(t, p) => Queued(t, p)'
      PROVE  Tasks(s, p)'
  <2>1. W' = W
    BY <1>2 DEF W
  <2>2. QED
    BY <1>1, <1>2, <2>1, TasksSame
<1>3. CASE UNCHANGED vars
  <2>1. UNCHANGED <<disk, seen, queue, rows, failures, writer>>
    BY <1>3 DEF vars
  <2>2. QED
    BY <1>2, <2>1, QueuedSame DEF Settled
<1>4. ASSUME NEW w \in Writers, IndexFile(w) \/ Reindex(w) \/ Removal(w) PROVE Tasks(s, p)'
  <2>1. Settled(p)
    BY <1>4, WritersLeave DEF Settled
  <2>2. w = "worker" \/ w = "request"
    BY DEF Writers
  <2>3. QED
    BY <1>0, <1>4, <2>1, <2>2, TasksOfWorker, TasksOfRequest
<1>5. ASSUME NEW q \in Paths, WriteFile(q) \/ DeleteFile(q) PROVE Tasks(s, p)'
  <2>1. /\ q # p => disk'[p] = disk[p]
        /\ UNCHANGED <<seen, queue, rows, failures, writer>>
    BY <1>1, <1>5 DEF WriteFile, DeleteFile, IndexTypes, tables
  <2>2. CASE q = p
    <3>1. CASE WriteFile(p)
      <4>1. disk'[p] = version + 1
        BY <1>1, <3>1 DEF WriteFile, IndexTypes
      <4>2. QED
        BY <1>1, <2>1, <4>1
    <3>2. CASE DeleteFile(p)
      <4>1. disk'[p] = 0 /\ seen[p] # 0
        BY <1>1, <3>2 DEF DeleteFile, IndexTypes
      <4>2. QED
        BY <2>1, <4>1
    <3>3. QED
      BY <1>5, <2>2, <3>1, <3>2
  <2>3. CASE q # p
    <3>1. Settled(p) /\ W' = W
      BY <2>1, <2>3 DEF Settled, W
    <3>2. \A t : Queued(t, p) => Queued(t, p)'
      BY <2>1, <2>3, QueuedSame
    <3>3. QED
      BY <1>1, <2>1, <2>3, <3>1, <3>2, TasksSame
  <2>4. QED
    BY <2>2, <2>3
<1>6. ASSUME NEW q \in Paths, Observe(q) PROVE Tasks(s, p)'
  <2>1. Jobs' = Jobs \cup FileJobs(q) /\ UNCHANGED <<disk, rows, failures, writer>>
    BY <1>1, <1>6, ObservedJobs, QueueAdds DEF Observe, tables
  <2>2. CASE q = p
    <3>1. FileJob(IF disk[p] = 0 THEN "delete" ELSE "upsert", s, p) \in FileJobs(p)
      BY <1>1 DEF FileJobs
    <3>2. Queued(s, p)'
      BY <2>1, <2>2, <3>1 DEF Queued, FileJob
    <3>3. QED
      BY <3>2, TasksQueued
  <2>3. CASE q # p
    <3>1. Settled(p)
      BY <1>1, <1>6, <2>3 DEF Observe, Settled, IndexTypes
    <3>2. QED
      BY <1>2, <2>1, <3>1, QueuedGrows
  <2>4. QED
    BY <2>2, <2>3
<1>7. ASSUME NEW t \in Sources, AddSource(t) \/ ReindexLibrary(t) PROVE Tasks(s, p)'
  <2>1. queue' = Enqueue(queue, {RescanOf(t)}) /\ UNCHANGED <<disk, seen, rows, failures, writer>>
    BY <1>7 DEF AddSource, ReindexLibrary, files, tables
  <2>2. Jobs \subseteq Jobs'
    BY <1>1, <2>1, RescanJob, QueueAdds
  <2>3. QED
    BY <1>2, <2>1, <2>2, QueuedGrows DEF Settled
<1>8. ASSUME NEW t \in Sources,
             IndexEmptySource(t) \/ RemoveSource(t) \/ RemoveGrant(t) \/ (\E q \in Paths : Attach(t, q))
      PROVE  Tasks(s, p)'
  <2>1. PICK r \in WriterRecord : Requests(r)
    BY <1>1, <1>8, BeginsIs
  <2>2. W' = W /\ UNCHANGED <<disk, seen, queue, rows, failures>>
    BY <1>1, <2>1, RequestsIs DEF Requests, files
  <2>3. QED
    BY <1>1, <2>2, QueuedSame, TasksSame DEF Settled
<1>9. CASE TakeJob
  BY <1>0, <1>9, TasksOfTake DEF TakeJob, files, Settled
<1>10. CASE RefuseJob
  <2>1. /\ queue \in Seq(JobSet) /\ queue # <<>> /\ queue' = Tail(queue) /\ p \notin Covers[Head(queue).source]
        /\ UNCHANGED <<disk, seen, rows, failures, writer>>
    BY <1>1, <1>10 DEF RefuseJob, IndexTypes, files, tables
  <2>2. ASSUME NEW t \in Sources, p \in Covers[t], Queued(t, p) PROVE Queued(t, p)'
    <3>1. /\ Head(queue) # RescanOf(t) /\ Head(queue) # FileJob("upsert", t, p)
          /\ Head(queue) # FileJob("delete", t, p)
      BY <2>1, <2>2, JobFields
    <3>2. QED
      BY <2>1, <2>2, <3>1, QueuedAfter
  <2>3. QED
    BY <1>2, <2>1, <2>2 DEF Settled
<1>11. CASE Restart
  <2>1. Jobs' = {RescanOf(t) : t \in sources}
    BY <1>1, <1>11, RescanJobs DEF Restart, IndexTypes
  <2>2. Queued(s, p)'
    BY <1>1, <2>1 DEF Queued, RescanOf
  <2>3. QED
    BY <2>2, TasksQueued
<1>12. CASE SwitchSemantic
  BY <1>2, <1>12, QueuedSame DEF SwitchSemantic, files, tables, Settled
<1>13. QED
  BY <1>3, <1>4, <1>5, <1>6, <1>7, <1>8, <1>9, <1>10, <1>11, <1>12 DEF Next

-----------------------------------------------------------------------------
(* A row another source will replace                                        *)

\* Who is to index a file for another source than its row keeps at it.
LEMMA DoingOfWorker ==
  ASSUME IndexInv, IndexFile("worker") \/ Reindex("worker") \/ Removal("worker"),
         NEW t \in Sources, NEW p \in Covers[t], p \notin behind, p \notin behind', Settled(p), Doing(t, p),
         disk[p] # 0, rows'[p] = rows[p], rows[p].id # 0, rows[p].source # t, rows[p].stat = disk[p]
  PROVE  Doing(t, p)'
<1>0. /\ p \in Paths /\ IndexTypes /\ "worker" \in Writers /\ W = writer["worker"] /\ W' = writer'["worker"]
      /\ Shape(W) /\ disk' = disk /\ rows[p] \in RowRecord /\ disk[p] \in Nat
      /\ W.at \in AtFile => W.path \in Paths /\ W.op \in {"upsert", "rescan"}
      /\ W.at \in Writing => W.id \in DocIds
      /\ W \in WriterRecord /\ RowVersions(p)
  BY WorkerKnows
<1>1. Queued(t, p) => Queued(t, p)'
  BY WorkerKnows
<1>2. CASE Queued(t, p)
  BY <1>1, <1>2 DEF Doing
<1>3. CASE (At("upsert", t, p) \/ At("rescan", t, p)) /\ W.at \in Looking /\ W.stat = disk[p]
  <2>0. W.path = p /\ W.source = t
    BY <1>3 DEF At
  <2>1. CASE CheckUnchanged("worker")
    <3>1. ~Unchanged(rows[W.path], W)
      BY <1>3 DEF Unchanged, At
    <3>2. Goes("worker", "read")
      BY <1>0, <2>1, <3>1 DEF CheckUnchanged
    <3>3. W'.at = "read" /\ W'.op = W.op /\ W'.source = W.source /\ W'.path = W.path /\ W'.stat = W.stat
      BY <1>0, <3>2, GoesIs DEF SameWork, SameFile, Places, AtFile
    <3>4. QED
      BY <1>0, <1>3, <3>3 DEF Doing, At, Looking
  <2>2. CASE Extract("worker")
    <3>1. W'.at = "row" /\ W'.op = W.op /\ W'.source = W.source /\ W'.path = W.path /\ W'.stat = W.stat
      BY <1>0, <2>0, <2>2, ExtractIs DEF SameWork
    <3>2. QED
      BY <1>0, <1>3, <3>1 DEF Doing, At, Looking
  <2>3. CASE ExtractFails("worker")
    <3>1. disk[p] \in Bad
      BY <1>0, <2>0, <2>3 DEF ExtractFails, Readable
    <3>2. rows[p].text = disk[p]
      BY <1>0 DEF RowVersions, RowRecord
    <3>3. QED
      BY <1>0, <3>1, <3>2 DEF RowVersions
  <2>4. CASE UpsertDocument("worker")
    <3>1. rows' = [rows EXCEPT ![p] = DocumentRow(W, W'.id)]
      BY <1>0, <2>0, <2>4, UpsertIs
    <3>2. rows'[p].source = t
      BY <1>0, <2>0, <3>1 DEF DocumentRow, IndexTypes
    <3>3. QED
      BY <3>2
  <2>5. W.at \in {"check", "read", "row"} /\ W.op \in {"upsert", "rescan"}
    BY <1>3 DEF Looking, At
  <2>6. CASE IndexFile("worker")
    BY <1>0, <2>1, <2>2, <2>3, <2>4, <2>5, <2>6 DEF IndexFile, ReplaceChunks, ReplaceVectors, VectorsFail, ReportIndexed
  <2>7. CASE Reindex("worker") \/ Removal("worker")
    BY <1>0, <2>5, <2>7 DEF Reindex, VisitFile, Purge, ReportFailures, ListDocuments, PruneVectors,
                            Removal, RemoveVectors, RemovePath, DeleteSource
  <2>8. QED
    BY <2>6, <2>7
<1>4. CASE Rescans(t) /\ p \in W.todo
  <2>0. W.op = "rescan" /\ W.source = t /\ W.at \in Scanning
    BY <1>4 DEF Rescans
  <2>1. ASSUME W'.op = W.op, W'.source = W.source, W'.at \in Scanning, W'.todo = W.todo
        PROVE  Doing(t, p)'
    BY <1>4, <2>0, <2>1 DEF Doing, Rescans
  <2>2. CASE CheckUnchanged("worker") \/ ReplaceVectors("worker") \/ VectorsFail("worker")
    <3>1. W.path \in Paths /\ (FileDone("worker") \/ Goes("worker", "read"))
      BY <1>0, <2>2 DEF CheckUnchanged, ReplaceVectors, VectorsFail, AtFile
    <3>2. /\ W'.op = W.op /\ W'.source = W.source /\ W'.todo = W.todo /\ W'.at \in {"read", "scan"}
      BY <1>0, <2>0, <3>1, FileDoneIs, GoesIs DEF SameWork, SameLists, Places, AtFile
    <3>3. QED
      BY <2>1, <3>2 DEF Scanning, AtFile
  <2>3. CASE Extract("worker") \/ ExtractFails("worker") \/ UpsertDocument("worker")
    <3>1. W.path \in Paths
      BY <1>0, <2>3 DEF Extract, ExtractFails, UpsertDocument, AtFile
    <3>2. /\ W'.op = W.op /\ W'.source = W.source /\ W'.todo = W.todo /\ W'.at \in {"row", "scan", "chunks"}
      BY <1>0, <2>0, <2>3, <3>1, ExtractIs, ExtractFailsIs, UpsertIs DEF SameWork, SameLists
    <3>3. QED
      BY <2>1, <3>2 DEF Scanning, AtFile
  <2>4. CASE ReplaceChunks("worker")
    <3>1. writer["worker"].id \in DocIds
      BY <1>0, <2>4 DEF ReplaceChunks, Writing
    <3>2. writer["worker"].id \in RowIds
      BY <1>0, <2>0, <2>4 DEF ReplaceChunks
    <3>3. /\ writer'["worker"].at = "vectors" /\ SameWork(writer'["worker"], writer["worker"])
          /\ SameLists(writer'["worker"], writer["worker"])
      BY <1>0, <2>4, <3>1, <3>2, ReplaceChunksIs
    <3>4. QED
      BY <1>0, <2>1, <3>3 DEF SameWork, SameLists, Scanning, AtFile
  <2>5. ASSUME NEW q \in Paths, VisitFile("worker", q) PROVE Doing(t, p)'
    <3>1. /\ W'.op = W.op /\ W'.source = W.source /\ W'.todo = W.todo \ {q}
          /\ disk[q] = 0 => W'.at = "scan"
          /\ disk[q] # 0 => W'.at = "check" /\ W'.path = q /\ W'.stat = disk[q]
      BY <1>0, <2>5, VisitIs DEF SameWork
    <3>2. QED
      BY <1>0, <1>4, <2>0, <3>1 DEF Doing, Rescans, At, Looking, Scanning, AtFile
  <2>6. CASE IndexFile("worker")
    BY <1>0, <2>0, <2>2, <2>3, <2>4, <2>6 DEF IndexFile, ReportIndexed, Scanning, AtFile
  <2>7. CASE Reindex("worker")
    BY <1>0, <1>4, <2>0, <2>5, <2>7 DEF Reindex, Purge, ReportFailures, ListDocuments, PruneVectors, Scanning, AtFile
  <2>8. CASE Removal("worker")
    BY <1>0, <2>0, <2>8 DEF Removal, RemoveVectors, RemovePath, DeleteSource, Scanning, AtFile
  <2>9. QED
    BY <2>6, <2>7, <2>8
<1>5. QED
  BY <1>2, <1>3, <1>4 DEF Doing

\* ... when a job is taken
LEMMA DoingOfTake ==
  ASSUME IndexInv, TakeJob, NEW t \in Sources, NEW p \in Covers[t], p \notin behind, disk[p] # 0, Doing(t, p)
  PROVE  Doing(t, p)'
<1>1. p \in Paths /\ IndexTypes /\ t \in sources
  BY KnownFile
<1>2. /\ queue \in Seq(JobSet) /\ queue # <<>> /\ queue' = Tail(queue) /\ disk' = disk
  BY <1>1 DEF TakeJob, IndexTypes, files
<1>3. W.op = "none"
  BY <1>1, TakeIs DEF Idle
<1>4. Queued(t, p)
  BY <1>3 DEF Doing, At, Rescans
<1>5. Queued(t, p)' \/ Head(queue) = RescanOf(t) \/ Head(queue) = FileJob("upsert", t, p)
  BY <1>2, <1>4, QueuedAfter
<1>6. PICK h \in Sources :
        \/ Head(queue) = RescanOf(h) /\ W' = RescanBegun(h)
        \/ \E q \in Covers[h] :
             \/ Head(queue) = FileJob("upsert", h, q) /\ h \notin sources /\ W' = Idle
             \/ /\ Head(queue) = FileJob("upsert", h, q) /\ h \in sources /\ disk[q] # 0
                /\ W' = FileBegun("upsert", h, q, "check")
             \/ /\ Head(queue) = FileJob("upsert", h, q) /\ h \in sources /\ disk[q] = 0
                /\ W' = FileBegun("delete", h, q, "unvector")
             \/ Head(queue) = FileJob("delete", h, q) /\ W' = FileBegun("delete", h, q, "unvector")
  BY <1>1, TakeIs
<1>7. CASE Head(queue) = RescanOf(t)
  <2>1. W' = RescanBegun(t)
    BY <1>6, <1>7, JobsDiffer
  <2>2. W'.op = "rescan" /\ W'.source = t /\ W'.at = "scan" /\ p \in W'.todo
    BY <1>1, <2>1, RescanBegunIs, ZenonT(40)
  <2>3. QED
    BY <2>2 DEF Doing, Rescans, Scanning
<1>8. CASE Head(queue) = FileJob("upsert", t, p)
  <2>1. W' = FileBegun("upsert", t, p, "check")
    BY <1>1, <1>6, <1>8, JobsDiffer
  <2>2. /\ W'.op = "upsert" /\ W'.source = t /\ W'.path = p /\ W'.at = "check" /\ W'.stat = disk[p]
    BY <1>1, <2>1, FileBegunIs DEF Ops, Places, AtFile
  <2>3. QED
    BY <1>2, <2>2 DEF Doing, At, Looking
<1>9. QED
  BY <1>5, <1>7, <1>8 DEF Doing

\* ... in every step
LEMMA DoingKept ==
  ASSUME IndexInv, [Next]_vars, NEW t \in Sources, NEW p \in Covers[t], p \notin behind', seen'[p] = disk'[p],
         disk'[p] # 0, rows'[p] = rows[p], rows[p].id # 0, rows[p].source # t, rows[p].stat = disk'[p],
         Settled(p) /\ disk[p] # 0 /\ rows[p].stat = disk[p] => Doing(t, p)
  PROVE  Doing(t, p)'
<1>0. p \notin behind
  BY BehindGrows
<1>1. /\ p \in Paths /\ IndexTypes /\ Shapes /\ disk[p] \in Nat /\ t \in sources /\ t \in watched
      /\ version \in Nat /\ seen[p] <= version /\ seen[p] \in Nat
  BY <1>0, KnownFile DEF IndexInv, Basics, VersionsOK, IndexTypes
<1>2. ASSUME UNCHANGED <<disk, seen>>, W' = W, Queued(t, p) => Queued(t, p)'
      PROVE  Doing(t, p)'
  BY <1>2 DEF Doing, At, Rescans, Settled
<1>3. CASE UNCHANGED vars
  <2>1. UNCHANGED <<disk, seen, queue, writer>>
    BY <1>3 DEF vars
  <2>2. QED
    BY <1>2, <2>1, QueuedSame DEF W
<1>4. ASSUME NEW w \in Writers, IndexFile(w) \/ Reindex(w) \/ Removal(w) PROVE Doing(t, p)'
  <2>1. UNCHANGED <<disk, seen, queue>>
    BY <1>4, WritersLeave
  <2>2. Settled(p) /\ Doing(t, p)
    BY <2>1 DEF Settled
  <2>3. CASE w = "worker"
    BY <1>0, <1>4, <2>1, <2>2, <2>3, DoingOfWorker
  <2>4. CASE w = "request"
    <3>1. WorkSame
      BY <1>1, <1>4, <2>4, RequestLeaves
    <3>2. QED
      BY <2>1, <2>2, <3>1, QueuedSame DEF WorkSame, SameWork, SameLists, Doing, At, Rescans
  <2>5. QED
    BY <2>3, <2>4 DEF Writers
<1>5. ASSUME NEW q \in Paths, WriteFile(q) \/ DeleteFile(q) PROVE Doing(t, p)'
  <2>1. /\ q # p => disk'[p] = disk[p]
        /\ UNCHANGED <<seen, queue, writer>>
    BY <1>1, <1>5 DEF WriteFile, DeleteFile, IndexTypes
  <2>2. CASE q = p
    <3>1. disk'[p] = version + 1 \/ disk'[p] = 0
      BY <1>1, <1>5, <2>2 DEF WriteFile, DeleteFile, IndexTypes
    <3>2. QED
      BY <1>1, <2>1, <3>1
  <2>3. CASE q # p
    <3>1. Doing(t, p) /\ W' = W /\ disk'[p] = disk[p]
      BY <2>1, <2>3 DEF Settled, W
    <3>2. Queued(t, p) => Queued(t, p)'
      BY <2>1, <3>1, QueuedSame
    <3>3. QED
      BY <3>1, <3>2 DEF Doing, At, Rescans
  <2>4. QED
    BY <2>2, <2>3
<1>6. ASSUME NEW q \in Paths, Observe(q) PROVE Doing(t, p)'
  <2>1. Jobs' = Jobs \cup FileJobs(q) /\ UNCHANGED <<disk, writer>>
    BY <1>1, <1>6, ObservedJobs, QueueAdds DEF Observe
  <2>2. CASE q = p
    <3>1. FileJob(IF disk[p] = 0 THEN "delete" ELSE "upsert", t, p) \in FileJobs(p)
      BY <1>1 DEF FileJobs
    <3>2. Queued(t, p)'
      BY <2>1, <2>2, <3>1 DEF Queued, FileJob
    <3>3. QED
      BY <3>2 DEF Doing
  <2>3. CASE q # p
    <3>1. Settled(p)
      BY <1>1, <1>6, <2>3 DEF Observe, Settled, IndexTypes
    <3>2. Doing(t, p) /\ W' = W
      BY <2>1, <3>1 DEF W
    <3>3. QED
      BY <2>1, <3>2, QueuedGrows DEF Doing, At, Rescans
  <2>4. QED
    BY <2>2, <2>3
<1>7. ASSUME NEW u \in Sources, AddSource(u) \/ ReindexLibrary(u) PROVE Doing(t, p)'
  <2>1. queue' = Enqueue(queue, {RescanOf(u)}) /\ UNCHANGED <<disk, seen, writer>>
    BY <1>7 DEF AddSource, ReindexLibrary, files
  <2>2. Jobs \subseteq Jobs'
    BY <1>1, <2>1, RescanJob, QueueAdds
  <2>3. QED
    BY <1>2, <2>1, <2>2, QueuedGrows DEF W
<1>8. ASSUME NEW u \in Sources,
             IndexEmptySource(u) \/ RemoveSource(u) \/ RemoveGrant(u) \/ (\E q \in Paths : Attach(u, q))
      PROVE  Doing(t, p)'
  <2>1. PICK r \in WriterRecord : Requests(r)
    BY <1>1, <1>8, BeginsIs
  <2>2. W' = W /\ UNCHANGED <<disk, seen, queue>>
    BY <1>1, <2>1, RequestsIs DEF Requests, files
  <2>3. QED
    BY <1>2, <2>2, QueuedSame
<1>9. CASE TakeJob
  BY <1>0, <1>9, DoingOfTake DEF TakeJob, files, Settled
<1>10. CASE RefuseJob
  <2>1. /\ queue \in Seq(JobSet) /\ queue # <<>> /\ queue' = Tail(queue) /\ p \notin Covers[Head(queue).source]
        /\ UNCHANGED <<disk, seen, writer>>
    BY <1>1, <1>10 DEF RefuseJob, IndexTypes, files
  <2>2. ASSUME Queued(t, p) PROVE Queued(t, p)'
    <3>1. /\ Head(queue) # RescanOf(t) /\ Head(queue) # FileJob("upsert", t, p)
          /\ Head(queue) # FileJob("delete", t, p)
      BY <2>1, JobFields
    <3>2. QED
      BY <2>1, <2>2, <3>1, QueuedAfter
  <2>3. QED
    BY <1>2, <2>1, <2>2 DEF W
<1>11. CASE Restart
  <2>1. Jobs' = {RescanOf(u) : u \in sources}
    BY <1>1, <1>11, RescanJobs DEF Restart, IndexTypes
  <2>2. Queued(t, p)'
    BY <1>1, <2>1 DEF Queued, RescanOf
  <2>3. QED
    BY <2>2 DEF Doing
<1>12. CASE SwitchSemantic
  <2>1. UNCHANGED <<disk, seen, queue, writer>>
    BY <1>12 DEF SwitchSemantic, files
  <2>2. QED
    BY <1>2, <2>1, QueuedSame DEF W
<1>13. QED
  BY <1>3, <1>4, <1>5, <1>6, <1>7, <1>8, <1>9, <1>10, <1>11, <1>12 DEF Next

\* A row that is to be replaced is to be replaced until it is.
LEMMA ReplacedKept ==
  ASSUME IndexInv, [Next]_vars, NEW s \in Sources, NEW p \in Covers[s], p \notin behind',
         rows'[p] = rows[p], rows[p].id # 0, rows[p].source = s, Replaced(s, p)
  PROVE  Replaced(s, p)'
<1>1. PICK t \in Sources : t # s /\ p \in Covers[t]
                           /\ (Settled(p) /\ disk[p] # 0 /\ rows[p].stat = disk[p] => Doing(t, p))
  BY DEF Replaced
<1>2. seen'[p] = disk'[p] /\ disk'[p] # 0 /\ rows'[p].stat = disk'[p] => Doing(t, p)'
  BY <1>1, DoingKept
<1>3. QED
  BY <1>1, <1>2 DEF Replaced, Settled

-----------------------------------------------------------------------------
(* Who holds the text of a file                                             *)

(* What is known of a writer that holds a document                          *)
LEMMA Holder ==
  ASSUME IndexInv, NEW w \in Writers
  PROVE  /\ IndexTypes /\ Shapes /\ writer[w] \in WriterRecord /\ Shape(writer[w])
         /\ writer[w].at \in Writing <=> writer[w].id # 0
         /\ writer[w].at \in Writing => writer[w].id \in DocIds /\ writer[w].path \in Paths
         /\ writer[w].at \in AtFile \cup {"clear", "unvector", "drop"} =>
              writer[w].path \in Paths /\ writer[w].source \in Sources
<1>1. IndexTypes /\ Shapes /\ writer[w] \in WriterRecord /\ Shape(writer[w])
  BY DEF IndexInv, Basics, IndexTypes, Shapes
<1>2. QED
  BY <1>1, FileOf DEF Shape, Writing, AtFile

(* A deletion of rows, at a file whose row stays, leaves its chunks          *)
LEMMA DeletedOrKept ==
  ASSUME IndexInv, NEW gone, gone \subseteq Paths, DeleteRows(gone), NEW p \in Paths
  PROVE  \/ rows'[p].id = 0
         \/ rows'[p] = rows[p] /\ (rows[p].id # 0 => chunks'[rows[p].id] = chunks[rows[p].id])
<1>1. /\ IndexTypes /\ rows[p] \in RowRecord
      /\ \A q \in Paths : rows[q].id = rows[p].id /\ rows[p].id # 0 => q = p
  BY DEF IndexInv, Basics, IdsOK, IndexTypes
<1>2. rows'[p] = IF p \in gone THEN NoRow ELSE rows[p]
  BY <1>1, DeleteRowsIs
<1>3. CASE p \in gone
  BY <1>2, <1>3 DEF NoRow
<1>4. CASE p \notin gone
  <2>1. rows[p].id # 0 => rows[p].id \in DocIds
    BY <1>1, LibraryConstants DEF RowRecord, DocIds
  <2>2. rows[p].id # 0 => \A q \in gone : rows[q].id # rows[p].id
    BY <1>1, <1>4
  <2>3. QED
    BY <1>1, <1>2, <1>4, <2>1, <2>2, DeleteRowsIs
<1>5. QED
  BY <1>3, <1>4

(* The row that is written, and who holds it then                           *)
LEMMA UpsertHolds ==
  ASSUME IndexInv, NEW w \in Writers, UpsertDocument(w)
  PROVE  /\ writer[w].path \in Paths /\ Others(w) /\ chunks' = chunks /\ vectors' = vectors /\ writer[w].id = 0
         /\ InHand(w, writer[w].path)' /\ writer'[w].path = writer[w].path
         /\ \A p \in Paths : p # writer[w].path => rows'[p] = rows[p]
         /\ \A p \in Paths : p # writer[w].path /\ rows[p].id # 0 => writer'[w].id # rows[p].id
<1> DEFINE me == writer[w]
           r == writer'[w]
<1>1. /\ IndexTypes /\ me \in WriterRecord /\ me.at = "row" /\ me.path \in Paths /\ me.id = 0 /\ rows \in [Paths -> RowRecord]
      /\ lastId \in Nat
  <2>1. IndexTypes /\ me \in WriterRecord /\ me.at = "row"
    BY Holder DEF UpsertDocument
  <2>2. me.path \in Paths /\ me.id = 0
    BY <2>1, Holder DEF AtFile, Writing
  <2>3. rows \in [Paths -> RowRecord] /\ lastId \in Nat
    BY <2>1, LibraryConstants DEF IndexTypes
  <2>4. QED
    BY <2>1, <2>2, <2>3
<1>2. /\ r.at = "chunks" /\ r.path = me.path /\ r.text = me.text
      /\ r.id = IF rows[me.path].id = 0 THEN lastId + 1 ELSE rows[me.path].id
      /\ rows' = [rows EXCEPT ![me.path] = DocumentRow(me, r.id)] /\ Others(w)
  BY <1>1, UpsertIs
<1>3. chunks' = chunks /\ vectors' = vectors
  BY DEF UpsertDocument
<1>4. rows'[me.path] = DocumentRow(me, r.id) /\ \A p \in Paths : p # me.path => rows'[p] = rows[p]
  BY <1>1, <1>2
<1>5. rows'[me.path].id = r.id /\ rows'[me.path].text = me.text
  BY <1>4 DEF DocumentRow
<1>6. ASSUME NEW p, p = me.path PROVE InHand(w, p)'
  BY <1>2, <1>5, <1>6 DEF InHand
<1>7. InHand(w, writer[w].path)'
  <2>1. PICK p : p = me.path
    OBVIOUS
  <2>2. InHand(w, p)' /\ p = writer'[w].path
    BY <1>2, <1>6, <2>1
  <2>3. QED
    BY <2>2 DEF InHand
<1>8. \A p \in Paths : p # me.path /\ rows[p].id # 0 => r.id # rows[p].id
  BY <1>1, <1>2 DEF IndexInv, Basics, IdsOK, RowRecord
<1>9. QED
  BY <1>1, <1>2, <1>3, <1>4, <1>7, <1>8

(* Chunks that are stored, and who holds the document then                  *)
LEMMA ChunksHold ==
  ASSUME IndexInv, NEW w \in Writers, ReplaceChunks(w), writer[w].id \in RowIds
  PROVE  /\ rows' = rows
         /\ \A v \in Writers : writer'[v].id = writer[v].id /\ writer'[v].path = writer[v].path
         /\ \A p \in Paths : Holds(p) /\ rows[p].id = writer[w].id => writer[w].path = p /\ InHand(w, p)'
         /\ \A p \in Paths : rows[p].id # 0 /\ rows[p].id # writer[w].id =>
              /\ chunks'[rows[p].id] = chunks[rows[p].id] /\ vectors'[rows[p].id] = vectors[rows[p].id]
         /\ \A v \in Writers : writer[v].id # writer[w].id => writer'[v] = writer[v]
<1> DEFINE me == writer[w]
           r == writer'[w]
<1>1. /\ IndexTypes /\ me \in WriterRecord /\ me.at = "chunks" /\ me.id \in DocIds /\ rows \in [Paths -> RowRecord]
      /\ me.id # 0 /\ chunks \in [DocIds -> [of : Nat, embedded : BOOLEAN]]
  BY Holder DEF ReplaceChunks, Writing, IndexTypes
<1>2. /\ r.at = "vectors" /\ r.path = me.path /\ r.id = me.id /\ r.mine /\ r.embedded = me.embedded
      /\ \A v \in Writers : v # w =>
              /\ writer[v].id # me.id => writer'[v] = writer[v]
              /\ SameFile(writer'[v], writer[v]) /\ writer'[v].id = writer[v].id
      /\ chunks' = [chunks EXCEPT ![me.id] = [of |-> me.text, embedded |-> me.embedded]]
      /\ vectors' = [vectors EXCEPT ![me.id] = IF @ = "live" THEN "stale" ELSE @]
  BY <1>1, ReplaceChunksIs
<1>3. rows' = rows
  BY DEF ReplaceChunks
<1>4. \A v \in Writers : writer'[v].id = writer[v].id /\ writer'[v].path = writer[v].path
  BY <1>2 DEF SameFile
<1>5. ASSUME NEW p \in Paths, Holds(p), rows[p].id = me.id PROVE me.path = p /\ InHand(w, p)'
  <2>1. me.path = p
    BY <1>1, <1>5 DEF IndexInv, Basics, IdsOK
  <2>2. InHand(w, p)
    BY <1>1, <1>5, <2>1 DEF Holds
  <2>3. me.text = rows[p].text
    BY <1>1, <2>2 DEF InHand
  <2>4. chunks'[me.id].of = me.text /\ chunks'[me.id].embedded = me.embedded
    BY <1>1, <1>2
  <2>5. QED
    BY <1>2, <1>3, <1>5, <2>1, <2>3, <2>4 DEF InHand
<1>6. \A p \in Paths : rows[p].id # 0 /\ rows[p].id # me.id =>
              /\ chunks'[rows[p].id] = chunks[rows[p].id] /\ vectors'[rows[p].id] = vectors[rows[p].id]
  BY <1>1, <1>2 DEF IndexTypes
<1>7. QED
  BY <1>2, <1>3, <1>4, <1>5, <1>6

(* Other writers' steps that write neither row nor chunks                   *)
LEMMA LetsGo ==
  ASSUME IndexInv, NEW w \in Writers, IndexFile(w) \/ Reindex(w) \/ Removal(w),
         ~UpsertDocument(w), ~(ReplaceChunks(w) /\ writer[w].id \in RowIds)
  PROVE  Others(w) /\ writer'[w].id = 0
<1> DEFINE me == writer[w]
<1>1. IndexTypes /\ (me.at \in AtFile => me.path \in Paths) /\ (me.id # 0 <=> me.at \in Writing)
  BY Holder
<1>2. CASE CheckUnchanged(w) \/ ReplaceVectors(w) \/ VectorsFail(w)
  <2>1. me.at \in AtFile /\ (FileDone(w) \/ (Goes(w, "read") /\ me.at = "check"))
    BY <1>2 DEF CheckUnchanged, ReplaceVectors, VectorsFail, AtFile
  <2>2. CASE FileDone(w)
    BY <1>1, <2>1, <2>2, FileDoneIs
  <2>3. CASE Goes(w, "read") /\ me.at = "check"
    BY <1>1, <2>3, GoesIs DEF SameIds, Places, AtFile, Writing
  <2>4. QED
    BY <2>1, <2>2, <2>3
<1>3. CASE Extract(w)
  BY <1>1, <1>3, ExtractIs DEF Extract, SameIds, AtFile, Writing
<1>4. CASE ExtractFails(w)
  <2>1. me.at = "read" /\ me.path \in Paths /\ me.id = 0
    BY <1>1, <1>4 DEF ExtractFails, AtFile, Writing
  <2>2. QED
    BY <1>1, <1>4, <2>1, ExtractFailsIs DEF SameIds, Idle
<1>5. CASE Ends(w)
  BY <1>1, <1>5, EndsIs DEF Idle
<1>6. CASE Reindex(w) /\ ~PruneVectors(w)
  <2>1. me.at \in {"scan", "report", "list"}
    BY <1>6 DEF Reindex, VisitFile, Purge, ReportFailures, ListDocuments
  <2>2. me.id = 0
    BY <1>1, <2>1 DEF Writing
  <2>3. Others(w) /\ (SameIds(writer'[w], me) \/ writer'[w] = [Idle EXCEPT !.at = "list"])
    BY <1>1, <1>6, VisitIs, PurgeIs, ReportIs, ListIs DEF Reindex
  <2>4. QED
    BY <2>2, <2>3 DEF SameIds, Idle
<1>7. CASE RemoveVectors(w)
  BY <1>1, <1>7, GoesIs DEF RemoveVectors, Places, SameIds, Writing
<1>8. QED
  BY <1>2, <1>3, <1>4, <1>5, <1>6, <1>7
     DEF IndexFile, Reindex, Removal, ReplaceChunks, ReportIndexed, PruneVectors, RemovePath, DeleteSource

(* The row and the chunks of a file in such a step                          *)
LEMMA RowStays ==
  ASSUME IndexInv, NEW w \in Writers, IndexFile(w) \/ Reindex(w) \/ Removal(w), NEW p \in Paths,
         ~UpsertDocument(w), ~(ReplaceChunks(w) /\ writer[w].id \in RowIds)
  PROVE  \/ rows'[p].id = 0
         \/ rows'[p] = rows[p] /\ (rows[p].id # 0 => chunks'[rows[p].id] = chunks[rows[p].id])
<1>1. CASE Purge(w) \/ RemovePath(w) \/ DeleteSource(w)
  <2>1. PICK gone \in SUBSET Paths : DeleteRows(gone)
    BY <1>1 DEF Purge, RemovePath, DeleteSource, SourceRows
  <2>2. QED
    BY <2>1, DeletedOrKept
<1>2. CASE ~(Purge(w) \/ RemovePath(w) \/ DeleteSource(w))
  <2>1. UNCHANGED <<rows, chunks>>
    BY <1>2 DEF IndexFile, CheckUnchanged, Extract, ExtractFails, ReplaceChunks, ReplaceVectors, VectorsFail,
                ReportIndexed, Reindex, VisitFile, ReportFailures, ListDocuments, PruneVectors, Removal,
                RemoveVectors, tables
  <2>2. QED
    BY <2>1
<1>3. QED
  BY <1>1, <1>2

(* The steps outside the writers touch neither rows nor chunks.             *)
LEMMA OutsideLeaves ==
  ASSUME IndexInv, [Next]_vars, ~(\E w \in Writers : IndexFile(w) \/ Reindex(w) \/ Removal(w))
  PROVE  /\ UNCHANGED <<rows, chunks>>
         /\ \A w \in Writers : writer'[w] = writer[w] \/ writer'[w].id = 0
         /\ \A w \in Writers : writer'[w] = writer[w] \/ writer[w] = Idle \/ Restart
         /\ vectors' = vectors \/ \E s \in Sources : RemoveSource(s)
         /\ W' = W \/ TakeJob \/ Restart
<1>0. IndexTypes /\ "worker" \in Writers /\ "request" \in Writers
  BY DEF IndexInv, Basics, Writers
<1>1. CASE UNCHANGED vars
  BY <1>1 DEF vars, W
<1>2. ASSUME NEW q \in Paths, WriteFile(q) \/ DeleteFile(q) \/ Observe(q) PROVE UNCHANGED <<tables, writer>>
  BY <1>2 DEF WriteFile, DeleteFile, Observe
<1>3. ASSUME NEW u \in Sources, AddSource(u) \/ ReindexLibrary(u) PROVE UNCHANGED <<tables, writer>>
  BY <1>3 DEF AddSource, ReindexLibrary
<1>4. CASE RefuseJob \/ SwitchSemantic
  BY <1>4 DEF RefuseJob, SwitchSemantic, tables, W
<1>5. CASE Restart
  <2>1. \A w \in Writers : writer'[w] = Idle
    BY <1>5 DEF Restart
  <2>2. QED
    BY <1>5, <2>1 DEF Restart, tables, Idle
<1>6. CASE TakeJob
  <2>1. Others("worker") /\ writer["worker"] = Idle /\ W' = writer'["worker"]
    BY <1>0, <1>6, TakeIs DEF TakeJob, W
  <2>2. PICK h \in Sources :
          \/ W' = RescanBegun(h) \/ W' = Idle
          \/ \E q \in Covers[h] : W' = FileBegun("upsert", h, q, "check") \/ W' = FileBegun("delete", h, q, "unvector")
    BY <1>0, <1>6, TakeIs
  <2>3. W'.id = 0
    <3>1. RescanBegun(h).id = 0 /\ Idle.id = 0
      BY <1>0, RescanBegunIs DEF Idle
    <3>2. \A q \in Covers[h] : FileBegun("upsert", h, q, "check").id = 0 /\ FileBegun("delete", h, q, "unvector").id = 0
      BY <1>0, FileBegunIs, LibraryConstants DEF Ops, Places, AtFile
    <3>3. QED
      BY <2>2, <3>1, <3>2
  <2>4. QED
    BY <1>6, <2>1, <2>3 DEF TakeJob, tables, Others
<1>7. ASSUME NEW u \in Sources,
             IndexEmptySource(u) \/ RemoveSource(u) \/ RemoveGrant(u) \/ (\E q \in Paths : Attach(u, q))
      PROVE  /\ Others("request") /\ writer["request"] = Idle /\ writer'["request"].id = 0 /\ W' = W
             /\ UNCHANGED <<rows, chunks>> /\ (vectors' = vectors \/ RemoveSource(u))
  <2>1. PICK r \in WriterRecord : Requests(r) /\ r.id = 0
    <3>1. RescanBegun(u).id = 0 /\ RemoveBegun(u).id = 0
      BY <1>0, RescanBegunIs, RemoveBegunIs
    <3>2. \A q \in Paths : FileBegun("attach", u, q, "check").id = 0
      BY <1>0, FileBegunIs DEF Ops, Places, AtFile
    <3>3. QED
      BY <1>0, <1>7, <3>1, <3>2, BeginsIs
  <2>2. QED
    BY <1>0, <1>7, <2>1, RequestsIs DEF Requests, IndexEmptySource, RemoveGrant, Attach
<1>8. QED
  BY <1>1, <1>2, <1>3, <1>4, <1>5, <1>6, <1>7 DEF Next, Others, tables, W

\* No two writers hold one file, and who holds its document has its text.
LEMMA HoldsKept ==
  ASSUME IndexInv, [Next]_vars, NEW s \in Sources, NEW p \in Covers[s], p \notin behind'
  PROVE  Holds(p)'
<1>0. p \notin behind /\ p \in Paths /\ Holds(p) /\ IndexTypes
  BY BehindGrows, KnownFile DEF IndexInv, FilesOK
<1>1. ASSUME \A w \in Writers : writer'[w] = writer[w] \/ writer'[w].id = 0,
             \/ rows'[p].id = 0
             \/ rows'[p] = rows[p] /\ (rows[p].id # 0 => chunks'[rows[p].id] = chunks[rows[p].id])
      PROVE  Holds(p)'
  <2>1. ASSUME NEW w \in Writers, writer'[w].id # 0, writer'[w].path = p, writer'[w].id = rows'[p].id
        PROVE  InHand(w, p)'
    <3>1. writer'[w] = writer[w] /\ rows'[p] = rows[p] /\ chunks'[rows[p].id] = chunks[rows[p].id]
      BY <1>1, <2>1
    <3>2. InHand(w, p)
      BY <1>0, <2>1, <3>1 DEF Holds
    <3>3. QED
      BY <3>1, <3>2 DEF InHand
  <2>2. ASSUME NEW v \in Writers, NEW w \in Writers, writer'[v].id # 0, writer'[w].id # 0,
               writer'[v].path = p, writer'[w].path = p
        PROVE  v = w
    BY <1>0, <1>1, <2>2 DEF Holds
  <2>3. QED
    BY <2>1, <2>2 DEF Holds
<1>2. CASE ~(\E w \in Writers : IndexFile(w) \/ Reindex(w) \/ Removal(w))
  BY <1>1, <1>2, OutsideLeaves
<1>3. ASSUME NEW w \in Writers, IndexFile(w) \/ Reindex(w) \/ Removal(w) PROVE Holds(p)'
  <2>1. CASE UpsertDocument(w)
    <3>1. /\ writer[w].path \in Paths /\ Others(w) /\ chunks' = chunks /\ writer[w].id = 0
          /\ InHand(w, writer[w].path)' /\ writer'[w].path = writer[w].path
          /\ \A q \in Paths : q # writer[w].path => rows'[q] = rows[q]
          /\ \A q \in Paths : q # writer[w].path /\ rows[q].id # 0 => writer'[w].id # rows[q].id
      BY <2>1, UpsertHolds
    <3>2. CASE writer[w].path = p
      <4>1. ~Overlapping(w)
        BY <2>1, <3>2 DEF UpsertDocument
      <4>2. \A v \in Writers : v # w /\ writer[v].path = p => writer[v].id = 0
        BY <3>2, <4>1, Holder DEF Overlapping, Writing
      <4>3. InHand(w, p)'
        BY <3>1, <3>2 DEF InHand
      <4>4. \A v \in Writers : writer'[v].id # 0 /\ writer'[v].path = p => v = w
        BY <3>1, <4>2 DEF Others
      <4>5. QED
        BY <4>3, <4>4 DEF Holds
    <3>3. CASE writer[w].path # p
      <4>1. rows'[p] = rows[p] /\ writer'[w].path # p
        BY <1>0, <3>1, <3>3
      <4>2. \A v \in Writers : writer'[v].path = p => writer'[v] = writer[v]
        BY <3>1, <4>1 DEF Others
      <4>3. \A v \in Writers : writer'[v] = writer[v] => (InHand(v, p) => InHand(v, p)')
        BY <3>1, <4>1 DEF InHand
      <4>4. QED
        BY <1>0, <4>1, <4>2, <4>3 DEF Holds
    <3>4. QED
      BY <3>2, <3>3
  <2>2. CASE ReplaceChunks(w) /\ writer[w].id \in RowIds
    <3>1. /\ rows' = rows
          /\ \A v \in Writers : writer'[v].id = writer[v].id /\ writer'[v].path = writer[v].path
          /\ rows[p].id = writer[w].id => writer[w].path = p /\ InHand(w, p)'
          /\ rows[p].id # 0 /\ rows[p].id # writer[w].id => chunks'[rows[p].id] = chunks[rows[p].id]
          /\ \A v \in Writers : writer[v].id # writer[w].id => writer'[v] = writer[v]
      BY <1>0, <2>2, ChunksHold
    <3>2. writer[w].id # 0
      BY <2>2 DEF RowIds
    <3>3. ASSUME NEW v \in Writers, writer'[v].id # 0, writer'[v].path = p, writer'[v].id = rows'[p].id
          PROVE  InHand(v, p)'
      <4>1. writer[v].id # 0 /\ writer[v].path = p /\ writer[v].id = rows[p].id
        BY <3>1, <3>3
      <4>2. InHand(v, p)
        BY <1>0, <4>1 DEF Holds
      <4>3. CASE rows[p].id = writer[w].id
        <5>1. v = w
          BY <1>0, <3>1, <3>2, <4>1, <4>3 DEF Holds
        <5>2. QED
          BY <3>1, <4>3, <5>1
      <4>4. CASE rows[p].id # writer[w].id
        <5>1. writer'[v] = writer[v] /\ chunks'[rows[p].id] = chunks[rows[p].id]
          BY <3>1, <4>1, <4>4
        <5>2. QED
          BY <3>1, <4>2, <5>1 DEF InHand
      <4>5. QED
        BY <4>3, <4>4
    <3>4. QED
      BY <1>0, <3>1, <3>3 DEF Holds
  <2>3. CASE ~UpsertDocument(w) /\ ~(ReplaceChunks(w) /\ writer[w].id \in RowIds)
    <3>1. \A v \in Writers : writer'[v] = writer[v] \/ writer'[v].id = 0
      BY <1>3, <2>3, LetsGo DEF Others
    <3>2. QED
      BY <1>0, <1>1, <1>3, <2>3, <3>1, RowStays
  <2>4. QED
    BY <2>1, <2>2, <2>3
<1>4. QED
  BY <1>2, <1>3

(* The vectors of a document in a step of a writer                          *)
LEMMA VectorsStay ==
  ASSUME IndexInv, NEW w \in Writers, IndexFile(w) \/ Reindex(w) \/ Removal(w),
         NEW p \in Paths, p \notin behind', rows[p].id # 0,
         ~(ReplaceChunks(w) /\ writer[w].id \in RowIds)
  PROVE  \/ vectors'[rows[p].id] = vectors[rows[p].id]
         \/ ReplaceVectors(w) /\ writer[w].id = rows[p].id
         \/ RemoveVectors(w) /\ writer[w].path = p
<1> DEFINE me == writer[w]
           d == rows[p].id
<1>1. /\ IndexTypes /\ d \in DocIds /\ vectors \in [DocIds -> {"none", "live", "stale"}]
  BY Holder, LibraryConstants DEF IndexTypes, RowRecord, DocIds
<1>2. CASE ReplaceVectors(w)
  BY <1>1, <1>2 DEF ReplaceVectors
<1>3. CASE VectorsFail(w)
  <2>1. me.at \in Writing /\ behind' = behind \cup {me.path}
    BY <1>3 DEF VectorsFail, Writing
  <2>2. me.id # d
    BY <1>1, <2>1, Holder DEF IndexInv, Basics, IdsOK
  <2>3. PICK left \in {vectors[me.id], "none"} : vectors' = [vectors EXCEPT ![me.id] = left]
    BY <1>3 DEF VectorsFail
  <2>4. QED
    BY <1>1, <2>2, <2>3
<1>4. CASE PruneVectors(w)
  <2> DEFINE pruned == {x \in DocIds : x \notin me.valid /\ vectors[x] # "none"}
  <2>1. vectors' = [x \in DocIds |-> IF x \in pruned THEN "none" ELSE vectors[x]]
        /\ behind' = behind \cup {q \in Paths : rows[q].id \in pruned}
    BY <1>4 DEF PruneVectors
  <2>2. d \notin pruned
    BY <2>1
  <2>3. QED
    BY <1>1, <2>1, <2>2
<1>5. CASE RemoveVectors(w)
  <2>1. me.path \in Paths
    BY <1>5, Holder DEF RemoveVectors
  <2>2. vectors' = [x \in DocIds |-> IF x = rows[me.path].id THEN "none" ELSE vectors[x]]
    BY <1>5 DEF RemoveVectors
  <2>3. d = rows[me.path].id => me.path = p
    BY <2>1 DEF IndexInv, Basics, IdsOK
  <2>4. QED
    BY <1>1, <1>5, <2>2, <2>3
<1>6. CASE ~(ReplaceVectors(w) \/ VectorsFail(w) \/ PruneVectors(w) \/ RemoveVectors(w))
  <2>1. vectors' = vectors
    BY <1>6 DEF IndexFile, CheckUnchanged, Extract, ExtractFails, UpsertDocument, ReplaceChunks,
                ReportIndexed, Reindex, VisitFile, Purge, ReportFailures, ListDocuments, Removal,
                RemovePath, DeleteSource, tables
  <2>2. QED
    BY <2>1
<1>7. QED
  BY <1>2, <1>3, <1>4, <1>5, <1>6

(* Whoever holds the text of a file finishes it with his vectors.           *)
LEMMA VectorsComplete ==
  ASSUME IndexInv, NEW w \in Writers, ReplaceVectors(w), NEW p \in Paths, InHand(w, p), rows[p].id # 0
  PROVE  TextStored(p)'
<1>1. /\ IndexTypes /\ writer[w].at = "vectors" /\ writer[w].id = rows[p].id /\ writer[w].id \in DocIds
      /\ UNCHANGED <<rows, chunks>>
  BY Holder DEF ReplaceVectors, Writing, InHand
<1>2. /\ writer[w].mine /\ chunks[rows[p].id].of = rows[p].text
      /\ chunks[rows[p].id].embedded = writer[w].embedded
  BY <1>1 DEF InHand
<1>3. vectors'[rows[p].id] = NewVectors(w)
  BY <1>1 DEF ReplaceVectors, IndexTypes
<1>4. writer[w].embedded => NewVectors(w) = "live"
  BY <1>2 DEF NewVectors
<1>5. QED
  BY <1>1, <1>2, <1>3, <1>4 DEF TextStored

(* The vectors of a row go before the row; if the row belongs to another    *)
(* source, that of the deletion still has its job.                          *)
LEMMA RemovalLeaves ==
  ASSUME IndexInv, RemoveVectors("worker"), NEW s \in Sources, NEW p \in Covers[s], p \notin behind,
         writer["worker"].path = p, rows[p].source = s
  PROVE  (At("delete", s, p)' /\ W'.at = "drop") \/ Replaced(s, p)'
<1>1. "worker" \in Writers /\ W = writer["worker"] /\ W' = writer'["worker"] /\ IndexTypes
      /\ W.at = "unvector" /\ W.op = "delete" /\ W.path = p /\ W.source \in Sources /\ p \in Covers[W.source]
  BY KnownFile DEF RemoveVectors, W, Shape
<1>2. W'.at = "drop" /\ W'.op = W.op /\ W'.source = W.source /\ W'.path = W.path
  BY <1>1, GoesIs DEF RemoveVectors, SameWork, SameFile, Places
<1>3. CASE W.source = s
  BY <1>1, <1>2, <1>3 DEF At
<1>4. CASE W.source # s
  <2>1. PICK t \in Sources : t = W.source /\ t # s /\ p \in Covers[t]
    BY <1>1, <1>4
  <2>2. UNCHANGED <<disk, seen, queue>>
    BY <1>1, WritersLeave DEF Removal
  <2>3. Settled(p) /\ disk[p] # 0 => Queued(t, p)
    BY <1>1, <2>1, KnownFile DEF Tasks, Deleted, At
  <2>4. Settled(p)' /\ disk'[p] # 0 => Queued(t, p)'
    BY <2>2, <2>3, QueuedSame DEF Settled
  <2>5. Settled(p)' /\ disk'[p] # 0 => Doing(t, p)'
    BY <2>4 DEF Doing
  <2>6. QED
    BY <2>1, <2>5 DEF Replaced
<1>5. QED
  BY <1>3, <1>4

\* Outside the steps of the writers a row keeps its chunks and vectors.
LEMMA PresentOutside ==
  ASSUME IndexInv, [Next]_vars, ~(\E w \in Writers : IndexFile(w) \/ Reindex(w) \/ Removal(w)),
         NEW s \in Sources, NEW p \in Covers[s], p \notin behind'
  PROVE  Present(s, p)'
<1> SUFFICES ASSUME rows'[p].id # 0, rows'[p].source = s
             PROVE  \/ TextStored(p)' \/ \E w \in Writers : InHand(w, p)'
                    \/ At("delete", s, p)' /\ W'.at = "drop"
                    \/ Replaced(s, p)'
  BY DEF Present
<1>0. p \notin behind /\ p \in Paths /\ IndexTypes /\ rows[p] \in RowRecord /\ Present(s, p) /\ RowVersions(p)
      /\ "worker" \in Writers
  BY BehindGrows, KnownFile DEF IndexInv, FilesOK, IndexTypes
<1>1. /\ UNCHANGED <<rows, chunks>>
      /\ \A w \in Writers : writer'[w] = writer[w] \/ writer[w] = Idle \/ Restart
      /\ vectors' = vectors \/ \E u \in Sources : RemoveSource(u)
      /\ W' = W \/ TakeJob \/ Restart
  BY OutsideLeaves
<1>2. Restart => \A w \in Writers : writer[w].at \in {"chunks", "vectors", "drop"} => writer[w].path # p
  BY DEF Restart
<1>3. CASE TextStored(p)
  <2>1. vectors'[rows[p].id] = vectors[rows[p].id]
    <3>1. ASSUME NEW u \in Sources, RemoveSource(u) PROVE vectors'[rows[p].id] = vectors[rows[p].id]
      <4>1. p \notin Covers[u] /\ rows[p].id \in DocIds
        <5>1. p \notin Covers[u]
          BY <3>1 DEF RemoveSource
        <5>2. rows[p].id \in 0 .. MaxDocs /\ rows[p].id # 0
          BY <1>0, <1>1 DEF RowRecord
        <5>3. QED
          BY <5>1, <5>2, LibraryConstants DEF DocIds
      <4>2. rows[p].source # u
        BY <1>0, <1>1, <4>1 DEF RowVersions
      <4>3. \A q \in SourceRows(u) : rows[q].id # rows[p].id
        BY <1>0, <1>1, <4>2 DEF SourceRows, IndexInv, Basics, IdsOK
      <4>4. vectors' = [d \in DocIds |-> IF \E q \in SourceRows(u) : rows[q].id = d THEN "none" ELSE vectors[d]]
        BY <3>1 DEF RemoveSource
      <4>5. QED
        BY <4>1, <4>3, <4>4
    <3>2. QED
      BY <1>1, <3>1
  <2>2. QED
    BY <1>1, <1>3, <2>1 DEF TextStored
<1>4. ASSUME NEW w \in Writers, InHand(w, p) PROVE InHand(w, p)'
  <2>1. writer[w].at \in {"chunks", "vectors"} /\ writer[w].path = p
    BY <1>4 DEF InHand
  <2>2. writer'[w] = writer[w]
    BY <1>1, <1>2, <2>1 DEF Idle
  <2>3. QED
    BY <1>1, <1>4, <2>2 DEF InHand
<1>5. CASE At("delete", s, p) /\ W.at = "drop"
  <2>1. ~TakeJob
    BY <1>0, <1>5, TakeIs DEF Idle
  <2>2. ~Restart
    BY <1>0, <1>2, <1>5 DEF At, W
  <2>3. QED
    BY <1>1, <1>5, <2>1, <2>2 DEF At
<1>6. CASE Replaced(s, p)
  BY <1>1, <1>6, ReplacedKept
<1>7. QED
  BY <1>0, <1>1, <1>3, <1>4, <1>5, <1>6 DEF Present

\* So it does in these, or a writer has them in hand.
LEMMA PresentOfWriters ==
  ASSUME IndexInv, [Next]_vars, NEW w \in Writers, IndexFile(w) \/ Reindex(w) \/ Removal(w),
         NEW s \in Sources, NEW p \in Covers[s], p \notin behind'
  PROVE  Present(s, p)'
<1> SUFFICES ASSUME rows'[p].id # 0, rows'[p].source = s
             PROVE  \/ TextStored(p)' \/ \E v \in Writers : InHand(v, p)'
                    \/ At("delete", s, p)' /\ W'.at = "drop"
                    \/ Replaced(s, p)'
  BY DEF Present
<1>0. p \notin behind /\ p \in Paths /\ IndexTypes /\ Shapes /\ rows[p] \in RowRecord /\ Present(s, p) /\ Holds(p)
      /\ "worker" \in Writers /\ W = writer["worker"] /\ W' = writer'["worker"]
  BY BehindGrows, KnownFile DEF IndexInv, FilesOK, IndexTypes, W
<1>1. CASE UpsertDocument(w)
  <2>1. /\ writer[w].path \in Paths /\ Others(w) /\ chunks' = chunks /\ vectors' = vectors /\ writer[w].id = 0
        /\ InHand(w, writer[w].path)' /\ writer'[w].path = writer[w].path
        /\ \A q \in Paths : q # writer[w].path => rows'[q] = rows[q]
    BY <1>1, UpsertHolds
  <2>2. CASE writer[w].path = p
    BY <2>1, <2>2 DEF InHand
  <2>3. CASE writer[w].path # p
    <3>1. rows'[p] = rows[p]
      BY <1>0, <2>1, <2>3
    <3>2. TextStored(p) => TextStored(p)'
      BY <2>1, <3>1 DEF TextStored
    <3>3. ASSUME NEW v \in Writers, InHand(v, p) PROVE InHand(v, p)'
      <4>1. v # w
        BY <2>3, <3>3 DEF InHand
      <4>2. QED
        BY <2>1, <3>1, <3>3, <4>1 DEF InHand, Others
    <3>4. At("delete", s, p) /\ W.at = "drop" => At("delete", s, p)' /\ W'.at = "drop"
      <4>1. writer[w].at = "row"
        BY <1>1 DEF UpsertDocument
      <4>2. W.at = "drop" => W' = W
        BY <1>0, <2>1, <4>1 DEF Others
      <4>3. QED
        BY <4>2 DEF At
    <3>5. Replaced(s, p) => Replaced(s, p)'
      BY <3>1, ReplacedKept
    <3>6. QED
      BY <1>0, <3>1, <3>2, <3>3, <3>4, <3>5 DEF Present
  <2>4. QED
    BY <2>2, <2>3
<1>2. CASE ReplaceChunks(w) /\ writer[w].id \in RowIds
  <2>1. /\ rows' = rows
        /\ rows[p].id = writer[w].id => InHand(w, p)'
        /\ rows[p].id # 0 /\ rows[p].id # writer[w].id =>
              /\ chunks'[rows[p].id] = chunks[rows[p].id] /\ vectors'[rows[p].id] = vectors[rows[p].id]
        /\ \A v \in Writers : writer[v].id # writer[w].id => writer'[v] = writer[v]
    BY <1>0, <1>2, ChunksHold
  <2>2. CASE rows[p].id = writer[w].id
    BY <2>1, <2>2
  <2>3. CASE rows[p].id # writer[w].id
    <3>1. TextStored(p) => TextStored(p)'
      BY <2>1, <2>3 DEF TextStored
    <3>2. ASSUME NEW v \in Writers, InHand(v, p) PROVE InHand(v, p)'
      <4>1. writer[v].id # writer[w].id
        BY <2>3, <3>2 DEF InHand
      <4>2. QED
        BY <2>1, <2>3, <3>2, <4>1 DEF InHand
    <3>3. At("delete", s, p) /\ W.at = "drop" => At("delete", s, p)' /\ W'.at = "drop"
      <4>1. W.at = "drop" => W.id = 0
        BY <1>0, Holder DEF Writing
      <4>2. writer[w].id # 0
        BY <1>2 DEF RowIds
      <4>3. QED
        BY <1>0, <2>1, <4>1, <4>2 DEF At
    <3>4. Replaced(s, p) => Replaced(s, p)'
      BY <2>1, ReplacedKept
    <3>5. QED
      BY <1>0, <2>1, <3>1, <3>2, <3>3, <3>4 DEF Present
  <2>4. QED
    BY <2>2, <2>3
<1>3. CASE ~UpsertDocument(w) /\ ~(ReplaceChunks(w) /\ writer[w].id \in RowIds)
  <2>1. rows'[p] = rows[p] /\ rows[p].id # 0 /\ chunks'[rows[p].id] = chunks[rows[p].id]
    BY <1>0, <1>3, RowStays
  <2>2. Others(w) /\ writer'[w].id = 0
    BY <1>3, LetsGo
  <2>3. \/ vectors'[rows[p].id] = vectors[rows[p].id]
        \/ ReplaceVectors(w) /\ writer[w].id = rows[p].id
        \/ RemoveVectors(w) /\ writer[w].path = p
    BY <1>0, <1>3, <2>1, VectorsStay
  <2>4. ASSUME ReplaceVectors(w), writer[w].id = rows[p].id PROVE TextStored(p)'
    <3>1. writer[w].path = p
      BY <1>0, <2>1, <2>4 DEF IndexInv, Basics, IdsOK
    <3>2. InHand(w, p)
      BY <1>0, <2>1, <2>4, <3>1 DEF Holds
    <3>3. QED
      BY <1>0, <2>1, <2>4, <3>2, VectorsComplete
  <2>5. ASSUME RemoveVectors(w), writer[w].path = p
        PROVE  (At("delete", s, p)' /\ W'.at = "drop") \/ Replaced(s, p)'
    <3>1. w = "worker"
      BY <1>0, <2>5, Holder DEF RemoveVectors, Shape, Shapes, Writers
    <3>2. QED
      BY <1>0, <2>1, <2>5, <3>1, RemovalLeaves
  <2>6. CASE TextStored(p)
    <3>1. vectors'[rows[p].id] = vectors[rows[p].id] => TextStored(p)'
      BY <2>1, <2>6 DEF TextStored
    <3>2. QED
      BY <2>3, <2>4, <2>5, <3>1
  <2>7. ASSUME NEW v \in Writers, InHand(v, p) PROVE TextStored(p)' \/ InHand(v, p)'
    <3>1. CASE v # w
      BY <2>1, <2>2, <2>7, <3>1 DEF Others, InHand
    <3>2. CASE v = w
      <4>1. writer[w].id = rows[p].id /\ writer[w].path = p /\ writer[w].at \in {"chunks", "vectors"}
        BY <2>7, <3>2 DEF InHand
      <4>2. writer[w].id \in RowIds
        BY <1>0, <2>1, <4>1 DEF RowIds
      <4>3. ~VectorsFail(w)
        BY <4>1 DEF VectorsFail
      <4>4. ReplaceVectors(w)
        BY <1>3, <4>1, <4>2, <4>3
           DEF IndexFile, CheckUnchanged, Extract, ExtractFails, ReplaceChunks, ReportIndexed, Reindex, VisitFile, Purge,
               ReportFailures, ListDocuments, PruneVectors, Removal, RemoveVectors, RemovePath, DeleteSource
      <4>5. QED
        BY <2>4, <4>1, <4>4
    <3>3. QED
      BY <3>1, <3>2
  <2>8. CASE At("delete", s, p) /\ W.at = "drop"
    <3>1. CASE w = "request"
      BY <1>0, <2>2, <2>8, <3>1 DEF Others, At
    <3>2. CASE w = "worker"
      <4>1. RemovePath("worker")
        BY <1>0, <2>8, <3>2
           DEF IndexFile, CheckUnchanged, Extract, ExtractFails, UpsertDocument, ReplaceChunks, ReplaceVectors,
               VectorsFail, ReportIndexed, Reindex, VisitFile, Purge,
               ReportFailures, ListDocuments, PruneVectors, Removal, RemoveVectors, DeleteSource
      <4>2. p \in {W.path} \cap SourceRows(W.source)
        BY <1>0, <2>1, <2>8 DEF At, SourceRows
      <4>3. rows'[p] = NoRow
        BY <1>0, <4>1, <4>2, DeleteRowsIs DEF RemovePath
      <4>4. QED
        BY <4>3 DEF NoRow
    <3>3. QED
      BY <3>1, <3>2 DEF Writers
  <2>9. Replaced(s, p) => Replaced(s, p)'
    BY <2>1, ReplacedKept
  <2>10. QED
    BY <1>0, <2>1, <2>6, <2>7, <2>8, <2>9 DEF Present
<1>4. QED
  BY <1>1, <1>2, <1>3

-----------------------------------------------------------------------------
(* The invariant                                                            *)

\* Each step keeps, for each file, what is to be done and what its row shows.
LEMMA FilesKept == IndexInv /\ [Next]_vars => FilesOK'
<1> SUFFICES ASSUME IndexInv, [Next]_vars, NEW s \in Sources, NEW p \in Covers[s], p \notin behind'
             PROVE  (seen'[p] = disk'[p] => Tasks(s, p)') /\ Present(s, p)' /\ Holds(p)'
  BY DEF FilesOK, Settled
<1>1. seen'[p] = disk'[p] => Tasks(s, p)'
  BY TasksKept
<1>2. Present(s, p)'
  BY PresentOutside, PresentOfWriters
<1>3. Holds(p)'
  BY HoldsKept
<1>4. QED
  BY <1>1, <1>2, <1>3

\* The first rescans are queued.
LEMMA IndexInvStarts == Init => IndexInv
<1> SUFFICES ASSUME Init PROVE IndexInv
  OBVIOUS
<1>1. /\ Jobs = {RescanOf(s) : s \in Sources} /\ queue \in Seq(JobSet)
      /\ \A w \in Writers : writer[w] = Idle
      /\ \A p \in Paths : rows[p] = NoRow /\ disk[p] = 1 /\ seen[p] = 1
  <2>1. queue = InOrder(RescansOf(Sources)) /\ Jobs = {queue[i] : i \in DOMAIN queue}
    BY DEF Init, Jobs, RescansOf
  <2>2. queue \in Seq(JobSet) /\ Jobs = RescansOf(Sources)
    BY <2>1, RescansInOrder
  <2>4. Jobs = {RescanOf(s) : s \in Sources} /\ queue \in Seq(JobSet)
    BY <2>2 DEF RescansOf
  <2>5. QED
    BY <2>4 DEF Init
<1>2. IndexTypes
  <2>1. writer \in [Writers -> WriterRecord]
    BY IdleIs DEF Init
  <2>2. NoRow \in RowRecord /\ NoChunks \in [of : Nat, embedded : BOOLEAN]
    BY LibraryConstants DEF NoRow, NoChunks, RowRecord
  <2>3. QED
    BY <1>1, <2>1, <2>2, LibraryConstants DEF Init, IndexTypes
<1>3. Shapes
  BY <1>1, IdleShape DEF Shapes, OpsOf, Idle, Writers
<1>4. VersionsOK /\ IdsOK
  BY <1>1 DEF VersionsOK, IdsOK, Init, RowVersions, WriterVersions, NoRow, Idle, Looking
<1>5. Covered /\ Orders
  <2>1. \A s, p : FileJob("delete", s, p) \notin Jobs
    BY <1>1, JobsDiffer
  <2>2. \A a, b : Ahead(queue, a, b) => b \in Jobs
    BY DEF Ahead, Jobs
  <2>3. QED
    BY <2>1, <2>2, LibraryConstants DEF Covered, Orders, InOrderOK, Init
<1>6. FilesOK
  <2>1. SUFFICES ASSUME NEW s \in Sources, NEW p \in Covers[s], p \in Paths
                 PROVE  Tasks(s, p) /\ Present(s, p) /\ Holds(p)
    BY LibraryConstants DEF FilesOK
  <2>2. W = Idle /\ Queued(s, p) /\ rows[p] = NoRow
    BY <1>1, <2>1 DEF W, Writers, Queued
  <2>3. Tasks(s, p)
    BY <2>1, <2>2 DEF Tasks, Deleted, Worked, Found, Scanned, Reported, Gone, Failing, Wanted, Doing
  <2>4. Present(s, p) /\ Holds(p)
    BY <1>1, <2>2 DEF Present, Holds, NoRow, Idle
  <2>5. QED
    BY <2>3, <2>4
<1>7. QED
  BY <1>2, <1>3, <1>4, <1>5, <1>6 DEF IndexInv, Basics

\* The invariant is inductive.
LEMMA IndexInvKept == IndexInv /\ [Next]_vars => IndexInv'
<1> SUFFICES ASSUME IndexInv, [Next]_vars PROVE IndexInv'
  OBVIOUS
<1>1. Basics' /\ Covered' /\ Orders'
  BY BasicsKept, CoveredKept, OrdersKept DEF IndexInv
<1>2. QED
  BY <1>1, FilesKept DEF IndexInv

\* At rest nobody is left to put anything right, so nothing is wrong.
LEMMA QuietShows ==
  ASSUME IndexInv, Quiet, NEW p \in CoveredBy(sources) \ behind
  PROVE  Shows(p)
<1>1. PICK s \in sources : p \in Covers[s] /\ s \in Sources
  BY DEF CoveredBy, IndexInv, Basics, IndexTypes
<1>2. /\ p \in Paths /\ IndexTypes /\ Settled(p) /\ RowVersions(p) /\ disk[p] \in Nat /\ rows[p] \in RowRecord
      /\ \A t \in Sources : p \in Covers[t] => Tasks(t, p) /\ Present(t, p)
      /\ W = Idle /\ Jobs = {} /\ \A w \in Writers : writer[w] = Idle
  BY <1>1, KnownFile DEF Quiet, Settled, IndexTypes, Jobs, IndexInv, FilesOK, W
<1>3. \A t : ~Queued(t, p)
  BY <1>2 DEF Queued
<1>4. \A t : ~Doing(t, p) /\ ~Rescans(t)
  BY <1>2, <1>3 DEF Doing, At, Rescans, Idle
<1>5. CASE disk[p] = 0
  <2>1. ASSUME rows[p].id # 0 PROVE FALSE
    <3>1. rows[p].source \in Sources /\ p \in Covers[rows[p].source]
      BY <1>2, <2>1 DEF RowVersions
    <3>2. Gone(rows[p].source, p)
      BY <1>2, <3>1 DEF Tasks
    <3>3. QED
      BY <1>2, <1>3, <1>4, <1>5, <2>1, <3>2 DEF Gone, At, Idle
  <2>2. rows[p] = NoRow
    BY <1>2, <2>1 DEF RowVersions
  <2>3. disk[p] \notin Bad
    BY <1>5, LibraryConstants
  <2>4. QED
    BY <1>5, <2>2, <2>3 DEF Shows
<1>6. CASE disk[p] \in Bad
  <2>1. disk[p] # 0
    BY <1>6, LibraryConstants
  <2>2. ASSUME NEW t \in sources, p \in Covers[t] PROVE <<t, p>> \in failures
    <3>1. t \in Sources
      BY <1>2 DEF IndexTypes
    <3>2. Failing(t, p)
      BY <1>2, <2>2, <3>1 DEF Tasks
    <3>3. QED
      BY <1>2, <1>3, <1>4, <1>6, <3>2 DEF Failing, At, Idle
  <2>3. QED
    BY <1>6, <2>1, <2>2 DEF Shows
<1>7. CASE disk[p] # 0 /\ disk[p] \notin Bad
  <2>1. rows[p].stat = disk[p]
    BY <1>1, <1>2, <1>4, <1>7 DEF Tasks, Wanted, Good
  <2>2. rows[p].id # 0
    BY <1>2, <1>7, <2>1 DEF RowVersions, NoRow
  <2>3. rows[p].text = disk[p]
    BY <1>2, <1>7, <2>1, <2>2 DEF RowVersions, RowRecord
  <2>4. rows[p].source \in Sources /\ p \in Covers[rows[p].source]
    BY <1>2, <2>2 DEF RowVersions
  <2>5. TextStored(p)
    <3>1. Present(rows[p].source, p)
      BY <1>2, <2>4
    <3>2. ~Replaced(rows[p].source, p)
      BY <1>2, <1>4, <1>7, <2>1 DEF Replaced
    <3>3. \A w \in Writers : ~InHand(w, p)
      BY <1>2 DEF InHand, Idle
    <3>4. QED
      BY <1>2, <2>2, <3>1, <3>2, <3>3 DEF Present, Idle
  <2>6. QED
    BY <1>7, <2>1, <2>3, <2>5 DEF Shows, TextStored
<1>8. QED
  BY <1>5, <1>6, <1>7

(* At rest the index shows every file below a source that the code is not   *)
(* known to miss, through any interleaving of the worker, the requests, the *)
(* observer, the user's changes and crashes: for any files, folders, nested *)
(* or not, versions and bounds.                                             *)
THEOREM IndexStaysCurrent == Spec => []IndexIsCurrent
<1>1. IndexInv => IndexIsCurrent
  BY QuietShows DEF IndexIsCurrent
<1>2. QED
  BY <1>1, IndexInvStarts, IndexInvKept, PTL DEF Spec
================================================================================
