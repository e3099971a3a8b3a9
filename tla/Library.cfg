SPECIFICATION PartsSpec
CONSTANTS
  Paths = {p}
  Sources = {outer, inner}
  Covers <- NestedFolders
  Bad = {2}
  MaxVersion = 3
  MaxDocs = 2
  MaxOdd = 1
  Folders = {"outer", "inner"}
  Inside <- FoldersInside
  Docs = {"a", "b", "c"}
  Home <- HomeOf
  Text <- TextsOf
  Questions <- Asking
  CandidateDocs = 2
  VectorLimit = 4
  MostWords = 4
  FetchLimit = 5
  MaxMoves = 1
  Notebooks = {n1}
  LinkSources = {s1}
  LinkDocs = {d1, d2}
  SourceOfDoc <- DocOfSource
  Talks = {t1}
  Nothing = nothing
  Clients = {c1, c2}
  MaxLinkRequests = 3
  Current = 6
  FoundFiles <- FilesFound
  MaxOpens = 3
  MaxSeconds = 2
INVARIANTS
  EvidenceInScope
  NothingLeftOut
  LinksResolve
  ChunksHaveDocument
  UpgradeKeepsData
  IndexIsCurrent
CHECK_DEADLOCK FALSE
