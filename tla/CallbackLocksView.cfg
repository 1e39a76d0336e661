CONSTANTS
  Threads = {t1, t2, t3}
  Program <- View
SPECIFICATION Spec
INVARIANTS NoWaitCycle ForestExclusive
PROPERTY Disciplined
SYMMETRY ThreadSymmetry
