SPECIFICATION ServicesSpec
CONSTANTS
  sessionOne = sessionOne
  sessionTwo = sessionTwo
  Session <- Sessions
  Token = {mine, yours}
  Missing = missing
  Empty = empty
  Calls <- TwoAndOne
  main = main
  dev = dev
  ascii = ascii
  accented = accented
  blanked = blanked
  module = module
  src = src
  escaped = escaped
  consumer = consumer
  Branch <- Branches
  File <- CommittedFiles
  Name <- Names
  Folder <- Folders
  Submodule <- Submodules
  Outside <- OutsideLinks
  Shown <- ShownNames
  Reader <- Consumers
  None = nothing
  Viewer <- Viewers
  Id <- EntityIds
  Input <- Inputs
  Note <- Notes
  Unset = unset
  MaxGraphs = 3
  Word <- Words
  Slug <- Slugs
  Part <- Parts
  Hyphen = hyphen
  MaxSlug = 3
  Tidy <- TidyWords
  payship = payship
  Given <- GivenIds
  Raw <- NamedRaws
  Omitted = undefined
  MaxRuns = 2
  MaxCommits = 3
  MaxSwitches = 1
  pay = pay
  Pay = Pay
  ship = ship
  dots = dots
  pays = pays
  ships = ships
  shared = shared
  crit = crit
  rule = rule
  scn = scn
  ghost = ghost
  art = art
  stray = stray
  exec = exec
  ev = ev
  note = note
  viewerOne = viewerOne
  viewerTwo = viewerTwo
INVARIANTS OwnBearer SavesInOrder SameAsInMemory ReadsFollowTheRef QueriesAcrossGraphs IdsIdentify
PROPERTIES ListedCanBeRead FirstLinkStands
\* every session ends, a reader takes one tree, which may be empty, and normalizing stops
CHECK_DEADLOCK FALSE
SYMMETRY Alike
