SPECIFICATION Spec
CONSTANTS
  textA = textA
  textB = textB
  LineText <- Texts
  Terminator <- AllEnds
  MaxLines = 3
  Contexts <- NoneOne
INVARIANTS ReconstructsNewContent
\* the diff is applied once
CHECK_DEADLOCK FALSE
