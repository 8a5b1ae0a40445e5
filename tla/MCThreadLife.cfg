CONSTANTS
  Main = Main
  Threads = {Main, t1, t2}
  NULL = NULL
  Calls <- MCCalls
SPECIFICATION Spec
INVARIANTS PreemptionDiscipline DetachedNotAwaited
PROPERTIES ExitIsFinal
