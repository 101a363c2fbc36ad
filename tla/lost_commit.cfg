SPECIFICATION Spec
CONSTANTS
  Submissions = {r1, r2}
  MaxFiles = 2
  None = None
SYMMETRY Symmetry
INVARIANT RowsHaveFiles
