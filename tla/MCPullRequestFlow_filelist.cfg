SPECIFICATION Spec
CONSTANTS
  caller1 = caller1
  caller2 = caller2
  person = person
  main = main
  work = work
  side = side
  fileA = fileA
  fileB = fileB
  text1 = text1
  text2 = text2
  absent = absent
  Client <- TwoClients
  Other <- person
  Branch <- MainAndWork
  Base <- main
  Path <- BothPaths
  Content <- BothContents
  NoContent <- absent
  Requests <- MixedRequests
  RootTree <- PTree
  MaxAttempts = 1
  MaxFaults = 0
  MaxOthers = 0
INVARIANTS WritesNameFiles
CHECK_DEADLOCK FALSE
