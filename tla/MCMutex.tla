------------------------------ MODULE MCMutex ------------------------------
EXTENDS Mutex, TLC

CONSTANTS t1, t2, t3

MCCalls == [t \in Threads |->
              IF t = Main THEN {"create"}
              ELSE {"exit", "yield", "lock", "try_lock", "unlock"}]

Symmetry == Permutations({t1, t2, t3})
=============================================================================
