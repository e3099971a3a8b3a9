CONSTANTS
  Items <- ItemKinds
  Batches = {1, 6}
  MaxBatches = 3
  PrefixTexts = {2900, 5000}
  MemoryTexts = {2000}
  NoteTexts <- NotesFound
  CheckpointTexts = {0, 700}
  RequestTexts = {3000, 9000}
  Symbols = {"<", "/", "f", "t", "a", " "}
  Deltas <- Pieces
  MaxDeltas = 5
  Attempts = 3
  Files = {f1, f2, f3}
  WorkingFileLimit = 2
  MaxVersion = 3
  MaxCrashes = 1
  Agents = {a1, a2}
  Topics = {t1, t2}
  Facts = {"x1", "x2", "free"}
  Subject <- SubjectOf
  None = none
  MaxPromotions = 3
  MaxTears = 1
  ChunkData <- DocumentData
  MaxChars = 6
  MaxTextBatches = 3
  SectionCount = 2
  PerSection = 2
  Readers = {r1, r2}
  Children = {c1, c2}
  Papers = {"a", "b"}
  GrantRoots = {"home", "other"}
  RootOf <- FolderOf
  Workspace = "home"
  NoPaper = "none"
  Queries <- Asked
  MaxChanges = 2
SPECIFICATION PartsSpec
INVARIANTS PromptFits StreamShowsAnswer EditsAreTold DurableNotesKept EvidenceCoversDocument CancellationReaches AnswersAreGrounded
CHECK_DEADLOCK FALSE
