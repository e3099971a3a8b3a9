------------------------------ MODULE Retrieval ------------------------------
(***************************************************************************)
(* What a question finds in the user's files: DocumentIndex.search,        *)
(* search_document and locate_selection of                                 *)
(* poppy/features/document_index.py, over search_documents of the database *)
(* and the vectors of LanceVectorStore.                                    *)
(*                                                                         *)
(* A behaviour is one search.  It makes several reads, each under a lock   *)
(* of its own, while the indexer goes on: documents are cut anew, which    *)
(* gives every piece a new id and leaves the vectors behind until they are *)
(* replaced too, change the source they belong to, and go away.            *)
(*                                                                         *)
(* A piece is <<document, place>>; a chunk, a row of document_chunks, is   *)
(* <<document, version, place>>.  How well words and meaning match is data: *)
(* a question brings the pieces that match it in the order of the score.   *)
(***************************************************************************)
EXTENDS Integers, Sequences, FiniteSets, SequencesExt, FiniteSetsExt, Lists

CONSTANTS
  Folders,         \* library sources, a folder each
  Inside,          \* Inside[f]: the folders in f, f among them
  Docs,            \* documents
  Home,            \* Home[d]: the innermost folder the file of d lies in
  Text,            \* Text[d]: the texts of d's pieces, in order; of every second version
                   \* only the first is left
  Questions,       \* what is asked: [kind, docs, roots, attached, named, limit, words, meaning, near]
  CandidateDocs,   \* documents a search without a document keeps (20 in the code)
  VectorLimit,     \* SEMANTIC_CANDIDATE_LIMIT: pieces read by their meaning (80)
  MostWords,       \* pieces read by their words at most (100)
  FetchLimit,      \* rows a statement about words fetches (500)
  MaxMoves         \* bound: what the indexer does meanwhile

(* Of a question words and meaning name pieces, which need not be in the     *)
(* index.  The kinds "document" and "locked" are given one document's id.    *)
QuestionShaped(q) ==
  /\ q.kind \in {"all", "selection", "notebook", "document", "locked"}
  /\ q.docs \subseteq Docs /\ q.attached \subseteq Docs /\ q.roots \subseteq Folders
  /\ q.kind \in {"document", "locked"} => \E d \in Docs : q.docs = {d}
  /\ q.words \in Seq(Docs \X Nat) /\ q.meaning \in Seq(Docs \X Nat)
  /\ q.limit \in Nat \ {0} /\ q.near \in Nat

ASSUME RetrievalConstants ==
  /\ Inside \in [Folders -> SUBSET Folders] /\ \A f \in Folders : f \in Inside[f]
  /\ Home \in [Docs -> Folders]
  /\ \A d \in Docs : Len(Text[d]) \in Nat \ {0}
  /\ \A q \in Questions : QuestionShaped(q)
  /\ CandidateDocs \in Nat /\ MaxMoves \in Nat
  /\ VectorLimit \in Nat /\ MostWords \in Nat /\ FetchLimit \in Nat

VARIABLES
  cut,      \* cut[d]: how often d was cut, 0 while it is not indexed
  owner,    \* documents.source_id
  stored,   \* stored[d]: version and source of the vectors of d, version 0 for none
  search,   \* the search under way
  moves

retrievalVars == <<cut, owner, stored, search, moves>>

Under(f) == {d \in Docs : Home[d] \in Inside[f]}
NoSearch(q) == [question |-> q, at |-> "idle", sources |-> {}, docs |-> {}, words |-> <<>>, matches |-> <<>>,
                meaning |-> <<>>, ranked |-> <<>>, rows |-> <<>>, context |-> <<>>, still |-> TRUE]
NoVectors(f) == [version |-> 0, source |-> f]

First(list, n) == SubSeq(list, 1, IF n < Len(list) THEN n ELSE Len(list))
Place(chunk) == <<chunk[1], chunk[3]>>
TextOf(chunk) == Text[chunk[1]][chunk[3]]
Present(chunk) == cut[chunk[1]] = chunk[2]
Size(d, v) == IF v = 0 THEN 0 ELSE IF v % 2 = 0 THEN 1 ELSE Len(Text[d])
Chunks(d) == [i \in 1..Size(d, cut[d]) |-> <<d, cut[d], i>>]

\* the folders a file is indexed under: of two nested ones the last to index it owns it
RetrievalInit ==
  /\ cut = [d \in Docs |-> 1]
  /\ owner \in {o \in [Docs -> Folders] : \A d \in Docs : d \in Under(o[d])}
  /\ stored \in {[d \in Docs |-> [version |-> cut[d], source |-> owner[d]]],
                  [d \in Docs |-> NoVectors(owner[d])]}
  /\ search = NoSearch(CHOOSE q \in Questions : TRUE)
  /\ moves = 0

-----------------------------------------------------------------------------
(* Who may see what *)

\* _document_authorized: below a folder of the question, or attached itself
DocumentAuthorized(q, d) == d \in q.attached \/ \E f \in q.roots : d \in Under(f)

\* _authorized_source_ids: the source lies in such a folder, or holds an attachment
AuthorizedSources(q) ==
  {s \in Folders : (\E f \in q.roots : s \in Inside[f]) \/ (\E d \in q.attached : d \in Under(s))}

\* the documents a search is limited to; none means all of its sources
ScopeDocs(q) ==
  CASE q.kind \in {"all", "selection"} -> {}
    [] q.kind = "notebook" -> {d \in q.docs : cut[d] # 0 /\ owner[d] \in AuthorizedSources(q)}
    [] OTHER               -> q.docs

\* search gives up without sources or without a document of the notebook;
\* search_document if its document is gone or out of reach
FindsNowhere(q) ==
  \/ q.kind # "locked" /\ AuthorizedSources(q) = {}
  \/ q.kind = "notebook" /\ ScopeDocs(q) = {}
  \/ q.kind = "locked" /\ \E d \in q.docs : cut[d] = 0 \/ ~DocumentAuthorized(q, d)

InScope(d, source) == IF search.docs # {} THEN d \in search.docs ELSE source \in search.sources

Ask(q) ==
  /\ search.at = "idle"
  /\ search' = [NoSearch(q) EXCEPT !.at = IF FindsNowhere(q) THEN "done" ELSE "words",
                                   !.sources = AuthorizedSources(q), !.docs = ScopeDocs(q)]
  /\ UNCHANGED <<cut, owner, stored, moves>>

-----------------------------------------------------------------------------
(* The two readings *)

ChunkOf(piece) == <<piece[1], cut[piece[1]], piece[2]>>

\* pieces in the scope: by their chunks and documents, and by their vectors
InIndex == UNION {{d} \X (1..Size(d, cut[d])) : d \in {e \in Docs : InScope(e, owner[e])}}
WithVectors ==
  UNION {{d} \X (1..Size(d, stored[d].version)) : d \in {e \in Docs : InScope(e, stored[e].source)}}

ChunksIn(list) == LET hits == Filter(list, InIndex) IN [i \in DOMAIN hits |-> ChunkOf(hits[i])]

\* how many pieces are kept for a question of this limit
WordLimit(limit) ==
  LET wanted == IF 5 * limit > VectorLimit THEN 5 * limit ELSE VectorLimit
  IN  IF wanted < MostWords THEN wanted ELSE MostWords

\* the rows of the full-text index and of LIKE, best first; of more than a
\* statement fetches, which ones it is turns on the order of the statement
Fetched ==
  LET hits == Filter(search.question.words, InIndex)
  IN  IF Len(hits) <= FetchLimit THEN {hits}
      ELSE {Filter(hits, rows) : rows \in {set \in SUBSET ToSet(hits) : Cardinality(set) >= FetchLimit}}

\* search_documents
ReadWords ==
  /\ search.at = "words"
  /\ \E hits \in Fetched :
       search' = [search EXCEPT !.at = "vectors",
                                !.words = ChunksIn(First(hits, WordLimit(search.question.limit)))]
  /\ UNCHANGED <<cut, owner, stored, moves>>

Matches ==
  LET hits == First(Filter(search.question.meaning, WithVectors), VectorLimit)
  IN  [i \in DOMAIN hits |-> <<hits[i][1], stored[hits[i][1]].version, hits[i][2]>>]

\* embed_query and LanceVectorStore.search: the nearest vectors of the scope, by
\* the source they were stored for
ReadVectors ==
  /\ search.at = "vectors"
  /\ search' = [search EXCEPT !.at = IF search.question.meaning = <<>> THEN "rank" ELSE "meaning",
                              !.matches = Matches]
  /\ UNCHANGED <<cut, owner, stored, moves>>

\* get_chunks_by_ids drops ids that are gone; only without any match does the
\* database's own copy of the vectors count, and then only near ones
Meaning ==
  IF search.matches # <<>>
  THEN Filter(search.matches, {c \in ToSet(search.matches) : Present(c)})
  ELSE ChunksIn(First(Filter(First(search.question.meaning, search.question.near), InIndex), VectorLimit))

ReadMeaning ==
  /\ search.at = "meaning"
  /\ search' = [search EXCEPT !.at = "rank", !.meaning = Meaning]
  /\ UNCHANGED <<cut, owner, stored, moves>>

-----------------------------------------------------------------------------
(* _hybrid_search: both readings in one order *)

\* where a list has a piece: behind its end if it lacks it
Position(list, c) == IF c \in ToSet(list) THEN CHOOSE i \in DOMAIN list : list[i] = c ELSE Len(list) + 1
Worth(rank) == 1000000000 \div (60 + rank)
RankScore(list, c) == IF c \in ToSet(list) THEN Worth(Position(list, c)) ELSE 0

\* what a document's pieces score together, for the choice of candidates
DocScore(words, meaning, d) ==
  LET Of(list) == FoldSet(LAMBDA i, sum : sum + Worth(i), 0, {i \in DOMAIN list : list[i][1] = d})
  IN  Of(words) + Of(meaning)
Score(d) == DocScore(search.words, search.meaning, d)

Found == ToSet(search.words) \cup ToSet(search.meaning)
FoundDocs == {c[1] : c \in Found}

\* sorted by score and then by id, which is arbitrary
Candidates ==
  IF search.docs # {} THEN {FoundDocs}
  ELSE {set \in SUBSET FoundDocs :
          /\ Cardinality(set) = (IF Cardinality(FoundDocs) < CandidateDocs
                                 THEN Cardinality(FoundDocs) ELSE CandidateDocs)
          /\ \A d \in set, e \in FoundDocs \ set : Score(d) >= Score(e)}

\* what pieces are sorted by; a document the question names leads
Key(words, meaning, c) ==
  <<RankScore(words, c) + RankScore(meaning, c) + (IF c[1] \in search.question.named THEN 50000000 ELSE 0),
    Position(meaning, c), Position(words, c)>>

Ahead(k, l) ==
  \/ k[1] > l[1]
  \/ k[1] = l[1] /\ k[2] < l[2]
  \/ k[1] = l[1] /\ k[2] = l[2] /\ k[3] < l[3]

\* the places of the candidates' pieces in the common order
Places(docs) ==
  LET Of(list) == Filter(list, {c \in ToSet(list) : c[1] \in docs})
      words == Of(search.words)
      meaning == Of(search.meaning)
      key == [c \in ToSet(words) \cup ToSet(meaning) |-> Key(words, meaning, c)]
  IN  [c \in DOMAIN key |-> 1 + Cardinality({b \in DOMAIN key : Ahead(key[b], key[c])})]

\* pieces one document may take of an answer about many
DocumentCap(limit) == LET half == limit \div 2
                      IN  IF half < 2 THEN 2 ELSE IF half > 4 THEN 4 ELSE half

\* a locator keeps equal texts of different documents apart
Fingerprint(c) == IF search.question.kind = "selection" THEN <<c[1], TextOf(c)>> ELSE <<TextOf(c)>>

\* a document that has its share of the answer, if the search is about many
HasShare(rows, d) ==
  search.docs = {} /\ Cardinality({i \in DOMAIN rows : rows[i][1] = d}) >= DocumentCap(search.question.limit)
Shown(rows, c) == \E i \in DOMAIN rows : Fingerprint(rows[i]) = Fingerprint(c)
Taken(rows, c) == Len(rows) < search.question.limit /\ ~Shown(rows, c) /\ ~HasShare(rows, c[1])

\* the rows after the n best pieces
AddNext(place, rows, n) ==
  LET next == {c \in DOMAIN place : place[c] = n /\ Taken(rows, c)}
  IN  IF next = {} THEN rows ELSE Append(rows, CHOOSE c \in next : TRUE)

SelectedTo(place) ==
  LET best[n \in 0..Cardinality(DOMAIN place)] == IF n = 0 THEN <<>> ELSE AddNext(place, best[n - 1], n)
  IN  best

\* variant: a text counts as shown before the share of its document is looked at
SelectMarksFirst(place) ==
  LET Seen(n) == {Fingerprint(b) : b \in {c \in DOMAIN place : place[c] < n}}
      Add(rows, n) ==
        LET next == {c \in DOMAIN place : place[c] = n /\ Taken(rows, c) /\ Fingerprint(c) \notin Seen(n)}
        IN  IF next = {} THEN rows ELSE Append(rows, CHOOSE c \in next : TRUE)
      best[n \in 0..Cardinality(DOMAIN place)] == IF n = 0 THEN <<>> ELSE Add(best[n - 1], n)
  IN  best[Cardinality(DOMAIN place)]

Selected(place) == SelectedTo(place)[Cardinality(DOMAIN place)]

\* variant: the source of a row is authority enough
RowsOfSources == search.ranked

\* the last look at authority comes after the cut to the limit
AuthorizedRows ==
  Filter(search.ranked, {c \in ToSet(search.ranked) : DocumentAuthorized(search.question, c[1])})

Rank ==
  /\ search.at = "rank"
  /\ \E docs \in Candidates :
       search' = [search EXCEPT !.at = "filter", !.ranked = Selected(Places(docs))]
  /\ UNCHANGED <<cut, owner, stored, moves>>

Answer ==
  /\ search.at = "filter"
  /\ search' = [search EXCEPT !.at = IF search.question.kind = "selection" THEN "locate" ELSE "done",
                              !.rows = AuthorizedRows]
  /\ UNCHANGED <<cut, owner, stored, moves>>

-----------------------------------------------------------------------------
(* locate_selection: which piece holds a text selected in another program *)

\* the place of the piece among the document's chunks of now: by its id, else by
\* its first line, else the beginning
PlaceNow(best) == IF best[3] <= Size(best[1], cut[best[1]]) THEN best[3] ELSE 1

\* the surest row, if any is sure enough, with its neighbours
Locate ==
  /\ search.at = "locate"
  /\ \/ search' = [search EXCEPT !.at = "done", !.rows = <<>>]
     \/ \E best \in ToSet(search.rows) :
          LET chunks == Chunks(best[1])
              at == PlaceNow(best)
          IN  search' = [search EXCEPT !.at = "done", !.rows = <<best>>,
                !.context = SubSeq(chunks, IF at = 1 THEN 1 ELSE at - 1,
                                   IF at < Len(chunks) THEN at + 1 ELSE Len(chunks))]
  /\ UNCHANGED <<cut, owner, stored, moves>>

-----------------------------------------------------------------------------
(* The indexer *)

Moves == moves < MaxMoves /\ moves' = moves + 1 /\ search' = [search EXCEPT !.still = FALSE]

\* a file is cut anew, by a source that holds it; its vectors follow in a step
\* of their own, or not at all
CutAnew(d, f) ==
  /\ Moves /\ d \in Under(f)
  /\ cut' = [cut EXCEPT ![d] = @ + 1]
  /\ owner' = [owner EXCEPT ![d] = f]
  /\ UNCHANGED stored

StoreVectors(d) ==
  /\ Moves /\ stored[d].version # cut[d]
  /\ stored' = [stored EXCEPT ![d] = [version |-> cut[d], source |-> owner[d]]]
  /\ UNCHANGED <<cut, owner>>

Drop(d) ==
  /\ Moves /\ cut[d] # 0
  /\ cut' = [cut EXCEPT ![d] = 0]
  /\ UNCHANGED <<owner, stored>>

RetrievalNext ==
  \/ \E q \in Questions : Ask(q)
  \/ ReadWords \/ ReadVectors \/ ReadMeaning \/ Rank \/ Answer \/ Locate
  \/ \E d \in Docs : StoreVectors(d) \/ Drop(d) \/ \E f \in Folders : CutAnew(d, f)

RetrievalSpec == RetrievalInit /\ [][RetrievalNext]_retrievalVars

-----------------------------------------------------------------------------
(* What a question gets *)

Asked == search.question
Done == search.at = "done"

(* Evidence comes from where the question may look: every piece that is      *)
(* handed out lies in a folder or attachment of the question and in the      *)
(* documents it is limited to, whoever indexed the file and whatever the     *)
(* vectors still say, and no text is handed out twice (search,               *)
(* search_document, locate_selection).                                       *)
EvidenceInScope ==
  Done => LET out == search.rows \o search.context
          IN  /\ \A i \in DOMAIN out :
                   /\ DocumentAuthorized(Asked, out[i][1])
                   /\ Asked.kind \in {"document", "locked", "notebook"} => out[i][1] \in Asked.docs
              /\ \A i, j \in DOMAIN search.rows :
                   i # j => TextOf(search.rows[i]) # TextOf(search.rows[j])

\* a document the search reaches: of nested folders it knows the owner only
Reached(d) ==
  /\ DocumentAuthorized(Asked, d)
  /\ Asked.kind \notin {"all", "selection"} => d \in Asked.docs
  /\ Asked.kind \in {"all", "selection", "notebook"} => owner[d] \in search.sources

\* vectors speak for a document if they are of its chunks and its source; where
\* there are none in the scope, the database's copy speaks
VectorsSpeak(d) == search.matches = <<>> \/ stored[d] = [version |-> cut[d], source |-> owner[d]]

\* a piece is one of the n best of a list in the scope
Among(list, scope, n, p) == p \in ToSet(First(Filter(list, scope \cup {p}), n))

\* no cut of a reading comes before the piece
InWords(p) ==
  /\ Len(Filter(Asked.words, InIndex)) <= FetchLimit
  /\ Among(Asked.words, InIndex, WordLimit(Asked.limit), p)
InMeaning(p) ==
  LET near == First(Asked.meaning, Asked.near)
  IN  IF search.matches = <<>> THEN Among(near, InIndex, VectorLimit, p)
      ELSE p \in ToSet(near) /\ Among(Asked.meaning, WithVectors, VectorLimit, p)

Matching ==
  {c \in UNION {ToSet(Chunks(d)) : d \in Docs} :
     /\ Reached(c[1])
     /\ InWords(Place(c)) \/ (VectorsSpeak(c[1]) /\ InMeaning(Place(c)))}

\* a document that is not among the best, as many others score as high
Outscored(d) ==
  /\ search.docs = {}
  /\ Cardinality({e \in FoundDocs \ {d} : Score(e) >= Score(d)}) >= CandidateDocs

\* a text that was selected with a document the question may not see
Withheld(c) ==
  \E i \in DOMAIN search.ranked :
    ~DocumentAuthorized(Asked, search.ranked[i][1]) /\ TextOf(search.ranked[i]) = TextOf(c)

(* A selection with room to spare leaves no match out: a piece that matches  *)
(* by its words or by its meaning is handed out, or its text is, or its      *)
(* document has its share, while the index does not change.  What the code   *)
(* is known to lose is put aside piece by piece: those behind the cut of a   *)
(* reading (80 to 100 by words, 80 by meaning: document_index.py:619-624,    *)
(* 703-707, 743, database.py:1217, 1277), those of a document behind the     *)
(* twenty best (634-640), and those whose text was selected with a document  *)
(* that the last look at authority withheld (213-219).                       *)
NothingLeftOut ==
  (Done /\ search.still /\ Asked.kind # "selection") =>
     \/ Len(search.ranked) >= Asked.limit
     \/ \A c \in Matching :
           \/ \E i \in DOMAIN search.rows : TextOf(search.rows[i]) = TextOf(c)
           \/ HasShare(search.ranked, c[1])
           \/ Outscored(c[1])
           \/ Withheld(c)
=============================================================================
