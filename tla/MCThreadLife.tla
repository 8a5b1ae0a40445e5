---------------------------- MODULE MCThreadLife ----------------------------
EXTENDS ThreadLife

\* main detaches what it creates; a kernel thread may also wait for it.
MCCalls == [t \in Threads |->
              IF t = Main THEN {"create", "detach"}
              ELSE {"create", "detach", "wait", "exit"}]
=============================================================================
