CONSTANTS
  Threads = {t1, t2}
  Program <- Liveness
SPECIFICATION Spec
INVARIANT NoWaitCycle
