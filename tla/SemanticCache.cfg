SPECIFICATION Spec
CONSTANTS
  a = a
  b = b
  m = m
  n = n
  p = p
  q = q
  Requests <- MCRequests
  Models <- MCModels
  Prompts <- MCPrompts
  DefaultModel = m
  Similar <- MCSimilar
  Threshold = 2
  EntryTTL = 1
  KeyTTL = 2
  PruneInterval = 1
  MaxRequests = 3
  MaxChanges = 1
  MaxLag = 1
SYMMETRY MCSymmetry
INVARIANTS ReplaysAreSound ServedOnce KeyTakesEffect
