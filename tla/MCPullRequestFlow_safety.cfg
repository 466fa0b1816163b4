SPECIFICATION SafetySpec
CONSTANTS
  caller1 = caller1
  caller2 = caller2
  person = person
  main = main
  work = work
  side = side
  fileA = fileA
  fileB = fileB
  text1 = text1
  text2 = text2
  absent = absent
  Client <- TwoClients
  Other <- person
  Branch <- MainAndWork
  Base <- main
  Path <- BothPaths
  Content <- BothContents
  NoContent <- absent
  Requests <- SafetyRequests
  RootTree <- PTree
  MaxAttempts = 2
  MaxFaults = 1
  MaxOthers = 1
SYMMETRY ClientSymmetry
INVARIANTS TypeOK PullCarriesWork ReportIsReal OptOutBeforeWrite
PROPERTIES LandsWhole
CHECK_DEADLOCK FALSE
