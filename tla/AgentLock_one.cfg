SPECIFICATION Spec
CONSTANTS
  Workers = {w1, w2}
  MaxExits = 2
SYMMETRY WorkerSymmetry
INVARIANTS
  AtMostOneAgent
