SPECIFICATION Spec
CONSTANTS
  Submissions = {r1, r2, r3}
  MaxFiles = 2
  None = None
SYMMETRY Symmetry
INVARIANT SubmittedWhole NoOrphans
