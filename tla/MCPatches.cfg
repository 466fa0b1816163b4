SPECIFICATION PatchesSpec
CONSTANTS
  textA = textA
  textB = textB
  LineText <- Texts
  Terminator <- AllEnds
  MaxLines = 3
  Contexts <- NoneOne
  fileOne = fileOne
  fileTwo = fileTwo
  Path <- Files
  Content <- FewContents
  Absent = absent
  Context = 3
  MaxChanges = 2
  MaxRuns = 2
  MaxEdits = 2
INVARIANTS DiffWellFormed MinimalScript Reconstructs AppliedUpToNext RunAgainConverges
PROPERTY EditsElsewhereSurvive
\* the diff is applied once; the caller may stop applying
CHECK_DEADLOCK FALSE
