SPECIFICATION EndingSpec
CONSTANTS
  caller1 = caller1
  caller2 = caller2
  person = person
  main = main
  work = work
  side = side
  fileA = fileA
  fileB = fileB
  text1 = text1
  text2 = text2
  absent = absent
  Client <- TwoClients
  Other <- person
  Branch <- MainWorkSide
  Base <- main
  Path <- BothPaths
  Content <- BothContents
  NoContent <- absent
  Requests <- SideRequests
  RootTree <- PTree
  MaxAttempts = 2
  MaxFaults = 1
  MaxOthers = 1
PROPERTIES FlowSettles UndisturbedFlowLands FlowKeepsPromise
CHECK_DEADLOCK FALSE
