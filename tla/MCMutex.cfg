CONSTANTS
  t1 = t1
  t2 = t2
  t3 = t3
  Main = Main
  Threads = {Main, t1, t2, t3}
  Mutexes = {m1}
  NULL = NULL
  Calls <- MCCalls
SPECIFICATION Spec
SYMMETRY Symmetry
INVARIANTS PreemptionDiscipline ContextIntegrity MutualExclusion LockOwnership AlwaysRunnable WaitersSound
PROPERTIES WaitersFIFO ImplementsLock
