CONSTANTS
  t1 = t1
  t2 = t2
  Main = Main
  Threads = {Main, t1, t2}
  Mutexes = {m1}
  NULL = NULL
  Calls <- MCCalls
SPECIFICATION DemoSpec
PROPERTIES RunnableRuns TakenIsReleased 
