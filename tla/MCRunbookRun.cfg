SPECIFICATION Spec
CONSTANTS
  Corpora = {s1, s2}
  None = None
  Runs = {r1, r2}
  Docs <- MCDocs
SYMMETRY Interchangeable
INVARIANTS
  InOrder
  
  
PROPERTIES
  DoneStays
  
