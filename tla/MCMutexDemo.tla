---------------------------- MODULE MCMutexDemo ----------------------------
EXTENDS MutexDemo

CONSTANTS t1, t2

MCCalls == [t \in Threads |->
              IF t = Main THEN {"create"}
              ELSE {"create", "exit", "yield", "lock", "unlock"}]
=============================================================================
