SPECIFICATION Spec
CONSTANTS
  Writers = {w1}
  Waiters = {h1, h2}
  Readers = {h2}
  Paths = {"a", "b"}
  Names = {"./a", "../a"}
  Normal <- MCNormal
  Contents = {x, y}
  Apps = {app}
  Candidates <- MCCandidates
  MaxChanges = 3
  None = None
INVARIANTS Monitor GenerationNamesBytes StableReads
PROPERTIES Refinement
