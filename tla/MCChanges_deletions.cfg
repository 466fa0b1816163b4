SPECIFICATION ListsSpec
CONSTANTS
  folder = folder
  inside = inside
  beside = beside
  unnamed = unnamed
  unsafe = unsafe
  plain = plain
  secret = secret
  Empty = Empty
  Absent = Absent
  Path <- Paths
  NoPath <- unnamed
  Above <- Folders
  Proposable <- Proposals
  MaxCandidates = 3
  Coverage <- Figures
  FilePath <- GatePaths
  FoldersOf <- GateFolders
  SafePaths <- SafeFiles
  Content <- TextsUsed
  Secrets <- SecretContents
  Base <- Bases
  Scope <- Scopes
  Expected <- Deletions
  MaxChanges = 2
INVARIANT UnexpectedDeletionsDetected
\* a list is written once
CHECK_DEADLOCK FALSE
