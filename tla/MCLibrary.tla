------------------------------ MODULE MCLibrary ------------------------------
(* The modules about the library and its database share no state: a          *)
(* behaviour runs one of them and leaves the others where they began.        *)
EXTENDS LibraryIndex, Retrieval, KnowledgeLinks, SchemaUpgrade

VARIABLE part

(* Nested folders: every file is below both. *)
NestedFolders == [s \in Sources |-> Paths]

(* "a" lies in the outer folder, "b" and "c" in the inner one; "a" and "b" *)
(* share a text.                                                            *)
FoldersInside == [f \in Folders |-> IF f = "outer" THEN Folders ELSE {f}]
HomeOf == [d \in Docs |-> IF d = "a" THEN "outer" ELSE "inner"]
TextsOf == [d \in Docs |-> CASE d = "a" -> <<"t1", "t2", "t3">>
                             [] d = "b" -> <<"t3", "t4">>
                             [] OTHER   -> <<"t5">>]

(* Six pieces are more than a statement fetches and more than are kept, five *)
(* only more than are kept.                                                  *)
ByWords == {<<>>, << <<"a", 1>>, <<"a", 2>>, <<"a", 3>>, <<"b", 1>>, <<"b", 2>>, <<"c", 1>> >>,
            << <<"c", 1>>, <<"b", 2>>, <<"a", 3>>, <<"b", 1>>, <<"a", 2>> >>}
ByMeaning == {<<>>, << <<"a", 1>>, <<"b", 1>>, <<"b", 2>>, <<"a", 2>>, <<"a", 3>>, <<"c", 1>> >>,
              << <<"b", 2>>, <<"c", 1>>, <<"a", 3>>, <<"b", 1>>, <<"a", 2>>, <<"a", 1>> >>}
Asking ==
  [kind : {"all"}, docs : {{}}, roots : {{"outer"}, {"inner"}}, attached : {{}},
   named : {{}, {"c"}}, limit : {2, 4}, words : ByWords, meaning : ByMeaning, near : {2}]
  \cup
  [kind : {"all"}, docs : {{}}, roots : {{}}, attached : {{"b"}},
   named : {{}}, limit : {2, 4}, words : ByWords, meaning : ByMeaning, near : {0}]
  \cup
  [kind : {"selection"}, docs : {{}}, roots : {{"inner"}, {}}, attached : {{}, {"b"}},
   named : {{}}, limit : {4}, words : ByWords, meaning : ByMeaning, near : {2}]
  \cup
  [kind : {"notebook", "document", "locked"}, docs : {{"a"}, {"b"}}, roots : {{"inner"}}, attached : {{}},
   named : {{}}, limit : {4}, words : ByWords, meaning : ByMeaning, near : {2}]

DocOfSource == [d \in LinkDocs |-> CHOOSE s \in LinkSources : TRUE]

(* Files of earlier builds, of this one and of a later one. *)
Built(v, names, columns, old) ==
  [version |-> v, tables |-> [t \in names |-> columns[t]], oldTitles |-> old]
NoColumns == [t \in TableNames |-> {}]
AllColumns == [t \in TableNames |-> LateColumns(t)]
FilesFound ==
  {NoFile,
   Built(0, {"sessions", "settings", "grants", "memories"}, NoColumns, TRUE),
   Built(3, TableNames \ {"knowledge_notes", "answer_citations", "document_sections", "index_jobs"},
         [t \in TableNames |-> CreatedWith(t)], TRUE),
   Built(5, TableNames, AllColumns, FALSE),
   Built(6, TableNames, AllColumns, FALSE),
   Built(7, TableNames, AllColumns, FALSE)}

PartsInit ==
  /\ part \in {"index", "retrieval", "links", "upgrade"}
  /\ Init /\ RetrievalInit /\ LinksInit /\ UpgradeInit
  /\ part # "upgrade" => found = NoFile
  /\ part # "retrieval" => owner = HomeOf /\ \E d \in Docs : stored[d].version # 0

IndexPart == part = "index" /\ Next /\ UNCHANGED <<part, retrievalVars, linkVars, upgradeVars>>
RetrievalPart == part = "retrieval" /\ RetrievalNext /\ UNCHANGED <<part, vars, linkVars, upgradeVars>>
LinksPart == part = "links" /\ LinksNext /\ UNCHANGED <<part, vars, retrievalVars, upgradeVars>>

UpgradePart == part = "upgrade" /\ UpgradeNext /\ UNCHANGED <<part, vars, retrievalVars, linkVars>>

PartsNext == IndexPart \/ RetrievalPart \/ LinksPart \/ UpgradePart

PartsSpec == PartsInit /\ [][PartsNext]_<<part, vars, retrievalVars, linkVars, upgradeVars>>

IndexSpec == PartsInit /\ part = "index" /\ [][PartsNext]_<<part, vars, retrievalVars, linkVars, upgradeVars>>
=============================================================================
