SPECIFICATION WorkspaceSpec
CONSTANTS
  demo = demo
  Demo = Demo
  shop = shop
  pDemo = pDemo
  pShop = pShop
  sessionOne = sessionOne
  sessionTwo = sessionTwo
  Session <- Sessions
  Key <- Keys
  Project <- Names_
  note = note
  plan = plan
  Topic = {note, plan}
  Query <- Queries
  Limit = {1, 2}
  None = none
  CallId <- Calls
  Attempts <- Three
  ws = ws
  a = a
  d = d
  b = b
  git = git
  dots = dots
  other = other
  one = one
  two = two
  clientOne = clientOne
  clientTwo = clientTwo
  Segment <- Segments
  Root <- Roots
  Blocked <- BlockedNames
  Dotted <- DottedNames
  Client <- Racers
  Node <- WideTree
  Candidate <- WideCandidates
  Chunk = {one, two}
  Content <- TwoContents
  MaxCalls = 3
  MaxFaults = 1
  Absent = Absent
  Dir = Dir
INVARIANTS AnswersCanBeTrusted NewestSaveStands FindsOwnSaves CallsTell WholeUnlessWriting TwinsAgree
PROPERTY StaysInside
\* every session ends, and clients may stop
CHECK_DEADLOCK FALSE
SYMMETRY Symmetric
