------------------------------- MODULE Mutex -------------------------------
(***************************************************************************)
(* The kernel's blocking mutex (kernel/mutex/mutex.c) used by any number   *)
(* of threads under the preemptive scheduler.  Every C statement that      *)
(* another thread could be scheduled before is a step of its own, and the  *)
(* tests are steps apart from what follows them also where preemption is   *)
(* disabled: nothing but the flag keeps them together.  Lines 34 and 35    *)
(* read the same field twice, as in the debug build that is documented.    *)
(***************************************************************************)
EXTENDS Scheduler, Sequences

CONSTANT Mutexes

VARIABLES
    locked, owner, blocking_threads,   \* the fields of each struct mutex
    mutex_blocking_next,               \* field of struct thread
    mtx, th, last,                     \* argument and locals of the operations
    held                               \* mutexes a caller was granted

mutexVars == <<locked, owner, blocking_threads, mutex_blocking_next,
               mtx, th, last, held>>
vars == <<schedVars, pc, mutexVars>>

----------------------------------------------------------------------------

\* Each operation begins by asking the scheduler who is running.
enter(e, m, function, label) ==
    /\ Call(e, function, label)
    /\ mtx' = [mtx EXCEPT ![e] = m]
    /\ th' = [th EXCEPT ![e] = current_thread]
    /\ UNCHANGED <<schedVars, locked, owner, blocking_threads,
                   mutex_blocking_next, last, held>>

\* A call of thread_disable_preemption or thread_enable_preemption.
set_preemption(e, from, to, op) ==
    /\ Go(e, from, to)
    /\ op
    /\ UNCHANGED <<listVars, status, current_thread, kmode_stack_ptr, cpu,
                   prev_preemption>>

mutex_lock_enter(e, m) == enter(e, m, "lock", "lock_disable")

\* Mutant: the mutex is tested and set with preemption enabled.
lock_without_disable(e) ==
    /\ Go(e, "lock_disable", "lock_test")
    /\ UNCHANGED <<schedVars, mutexVars>>

mutex_lock_disable(e) ==
    /\ set_preemption(e, "lock_disable", "lock_test",
                      thread_disable_preemption)
    /\ UNCHANGED mutexVars

\* while (mtx->locked): blocked, or on to take the mutex.
mutex_lock_test(e) ==
    /\ Go(e, "lock_test", IF locked[mtx[e]] THEN "lock_enable" ELSE "lock_set")
    /\ UNCHANGED <<schedVars, mutexVars>>

mutex_lock_set(e) ==
    /\ Go(e, "lock_set", "lock_return")
    /\ locked' = [locked EXCEPT ![mtx[e]] = TRUE]
    /\ owner' = [owner EXCEPT ![mtx[e]] = th[e]]
    /\ UNCHANGED <<schedVars, blocking_threads, mutex_blocking_next, mtx, th,
                   last, held>>

\* Preemption is back on from here to the next test of locked.
mutex_lock_enable(e) ==
    /\ set_preemption(e, "lock_enable", "lock_block", thread_enable_preemption)
    /\ UNCHANGED mutexVars

\* Mutant: the owner is blocked in place of the caller.
block_owner(e) ==
    /\ Go(e, "lock_block", "add_test")
    /\ status' = IF owner[mtx[e]] = NULL THEN status
                 ELSE [status EXCEPT ![owner[mtx[e]]] = "BLOCKING"]
    /\ UNCHANGED <<listVars, current_thread, preemption_enabled,
                   kmode_stack_ptr, cpu, prev_preemption, mutexVars>>

mutex_lock_block(e) ==
    /\ Go(e, "lock_block", "add_test")
    /\ status' = [status EXCEPT ![th[e]] = "BLOCKING"]
    /\ UNCHANGED <<listVars, current_thread, preemption_enabled,
                   kmode_stack_ptr, cpu, prev_preemption, mutexVars>>

\* Mutant: an if in place of the while: a woken thread does not test again.
yield_then_set(e) ==
    /\ scheduler_yield(e, "lock_yield", "lock_set")
    /\ UNCHANGED mutexVars

mutex_lock_yield(e) ==
    /\ scheduler_yield(e, "lock_yield", "lock_disable")
    /\ UNCHANGED mutexVars

\* The caller holds the mutex once the operation returns.
mutex_lock_return(e) ==
    /\ set_preemption(e, "lock_return", "client", thread_enable_preemption)
    /\ held' = [held EXCEPT ![e] = @ \cup {mtx[e]}]
    /\ UNCHANGED <<locked, owner, blocking_threads, mutex_blocking_next,
                   mtx, th, last>>

----------------------------------------------------------------------------
\* add_blocking_thread: append the caller to the mutex's list of waiters.

\* The caller is already marked as blocked: if it is switched out before it is
\* on the list it does not come back, so the reads of the list's head in lines
\* 23, 25 and 31 are one step.
FirstWaiter(e) == blocking_threads[mtx[e]]

add_blocking_test(e) ==
    /\ \/ /\ FirstWaiter(e) = th[e]
          /\ Go(e, "add_test", "lock_yield")
          /\ UNCHANGED last
       \/ /\ FirstWaiter(e) = NULL
          /\ Go(e, "add_test", "add_first")
          /\ UNCHANGED last
       \/ /\ FirstWaiter(e) \notin {th[e], NULL}
          /\ Go(e, "add_test", "add_walk")
          /\ last' = [last EXCEPT ![e] = FirstWaiter(e)]
    /\ UNCHANGED <<schedVars, locked, owner, blocking_threads,
                   mutex_blocking_next, mtx, th, held>>

add_blocking_first(e) ==
    /\ Go(e, "add_first", "add_clear")
    /\ blocking_threads' = [blocking_threads EXCEPT ![mtx[e]] = th[e]]
    /\ UNCHANGED <<schedVars, locked, owner, mutex_blocking_next, mtx, th,
                   last, held>>

\* Mutant: the walk does not stop at the last waiter.
walk_past_end(e) ==
    /\ Go(e, "add_walk",
          CASE last[e] = th[e] -> "lock_yield"
            [] last[e] = NULL  -> "add_append"
            [] OTHER           -> "add_advance")
    /\ UNCHANGED <<schedVars, mutexVars>>

\* One round of the walk: lines 32 to 34, then line 35.
add_blocking_walk(e) ==
    /\ \/ /\ last[e] = th[e]
          /\ Go(e, "add_walk", "lock_yield")
          /\ last' = [last EXCEPT ![e] = NULL]
       \/ /\ last[e] # th[e]
          /\ Go(e, "add_walk",
                IF last[e] = NULL \/ mutex_blocking_next[last[e]] = NULL
                  THEN "add_append" ELSE "add_advance")
          /\ UNCHANGED last
    /\ UNCHANGED <<schedVars, locked, owner, blocking_threads,
                   mutex_blocking_next, mtx, th, held>>

add_blocking_advance(e) ==
    /\ Go(e, "add_advance", "add_walk")
    /\ last' = [last EXCEPT ![e] = mutex_blocking_next[last[e]]]
    /\ UNCHANGED <<schedVars, locked, owner, blocking_threads,
                   mutex_blocking_next, mtx, th, held>>

\* Mutant: the caller goes to the front of the list.
push_front(e) ==
    /\ Go(e, "add_append", "lock_yield")
    /\ blocking_threads' = [blocking_threads EXCEPT ![mtx[e]] = th[e]]
    /\ mutex_blocking_next' =
          [mutex_blocking_next EXCEPT ![th[e]] = FirstWaiter(e)]
    /\ last' = [last EXCEPT ![e] = NULL]
    /\ UNCHANGED <<schedVars, locked, owner, mtx, th, held>>

add_blocking_append(e) ==
    /\ last[e] # NULL
    /\ Go(e, "add_append", "add_clear")
    /\ mutex_blocking_next' = [mutex_blocking_next EXCEPT ![last[e]] = th[e]]
    /\ UNCHANGED <<schedVars, locked, owner, blocking_threads, mtx, th, last,
                   held>>

add_blocking_clear(e) ==
    /\ Go(e, "add_clear", "lock_yield")
    /\ mutex_blocking_next' = [mutex_blocking_next EXCEPT ![th[e]] = NULL]
    /\ last' = [last EXCEPT ![e] = NULL]
    /\ UNCHANGED <<schedVars, locked, owner, blocking_threads, mtx, th, held>>

----------------------------------------------------------------------------

mutex_try_lock_enter(e, m) == enter(e, m, "try_lock", "try_disable")

mutex_try_lock_disable(e) ==
    /\ set_preemption(e, "try_disable", "try_test", thread_disable_preemption)
    /\ UNCHANGED mutexVars

\* From here on mutex_try_lock does what mutex_lock does.
mutex_try_lock_test(e) ==
    /\ ~locked[mtx[e]]
    /\ Go(e, "try_test", "lock_set")
    /\ UNCHANGED <<schedVars, mutexVars>>

\* Mutant: the early return leaves preemption disabled.
fail_without_enable(e) ==
    /\ locked[mtx[e]]
    /\ Go(e, "try_test", "client")
    /\ UNCHANGED <<schedVars, mutexVars>>

mutex_try_lock_fail(e) ==
    /\ locked[mtx[e]]
    /\ set_preemption(e, "try_test", "client", thread_enable_preemption)
    /\ UNCHANGED mutexVars

mutex_unlock_enter(e, m) == enter(e, m, "unlock", "unlock_disable")

mutex_unlock_disable(e) ==
    /\ set_preemption(e, "unlock_disable", "unlock_test",
                      thread_disable_preemption)
    /\ UNCHANGED mutexVars

mutex_unlock_refuse(e) ==
    /\ owner[mtx[e]] # th[e]
    /\ set_preemption(e, "unlock_test", "client", thread_enable_preemption)
    /\ UNCHANGED mutexVars

mutex_unlock_test(e) ==
    /\ owner[mtx[e]] = th[e]
    /\ Go(e, "unlock_test", "unlock_clear")
    /\ UNCHANGED <<schedVars, mutexVars>>

\* Mutant: the owner is not reset.
clear_without_owner(e) ==
    /\ Go(e, "unlock_clear", "unlock_wake")
    /\ locked' = [locked EXCEPT ![mtx[e]] = FALSE]
    /\ held' = [held EXCEPT ![e] = @ \ {mtx[e]}]
    /\ UNCHANGED <<schedVars, owner, blocking_threads, mutex_blocking_next,
                   mtx, th, last>>

mutex_unlock_clear(e) ==
    /\ Go(e, "unlock_clear", "unlock_wake")
    /\ locked' = [locked EXCEPT ![mtx[e]] = FALSE]
    /\ owner' = [owner EXCEPT ![mtx[e]] = NULL]
    /\ held' = [held EXCEPT ![e] = @ \ {mtx[e]}]
    /\ UNCHANGED <<schedVars, blocking_threads, mutex_blocking_next, mtx, th,
                   last>>

\* Mutant: nobody is woken.
unblock_nobody(m) ==
    UNCHANGED <<blocking_threads, mutex_blocking_next, status>>

\* Take the first waiter off the list and let it run again.
unblock_blocking_thread(m) ==
    LET w == blocking_threads[m]
    IN  IF w = NULL
          THEN UNCHANGED <<blocking_threads, mutex_blocking_next, status>>
          ELSE /\ blocking_threads' =
                    [blocking_threads EXCEPT ![m] = mutex_blocking_next[w]]
               /\ mutex_blocking_next' =
                    [mutex_blocking_next EXCEPT ![w] = NULL]
               /\ status' = IF status[w] = "BLOCKING"
                              THEN [status EXCEPT ![w] = "RUNNING"] ELSE status

mutex_unlock_wake(e) ==
    /\ Go(e, "unlock_wake", "unlock_return")
    /\ unblock_blocking_thread(mtx[e])
    /\ UNCHANGED <<listVars, current_thread, preemption_enabled,
                   kmode_stack_ptr, cpu, prev_preemption, locked, owner, mtx,
                   th, last, held>>

mutex_unlock_return(e) ==
    /\ set_preemption(e, "unlock_return", "client", thread_enable_preemption)
    /\ UNCHANGED mutexVars

----------------------------------------------------------------------------

Init ==
    /\ SchedInit
    /\ locked = [m \in Mutexes |-> FALSE]
    /\ owner = [m \in Mutexes |-> NULL]
    /\ blocking_threads = [m \in Mutexes |-> NULL]
    /\ mutex_blocking_next = [t \in Threads |-> NULL]
    /\ mtx \in [Threads -> Mutexes]
    /\ th = [t \in Threads |-> t]
    /\ last = [t \in Threads |-> NULL]
    /\ held = [t \in Threads |-> {}]

LockStep(e) ==
    \/ \E m \in Mutexes : mutex_lock_enter(e, m)
    \/ mutex_lock_disable(e)
    \/ mutex_lock_test(e)
    \/ mutex_lock_set(e)
    \/ mutex_lock_enable(e)
    \/ mutex_lock_block(e)
    \/ add_blocking_test(e)
    \/ add_blocking_first(e)
    \/ add_blocking_walk(e)
    \/ add_blocking_advance(e)
    \/ add_blocking_append(e)
    \/ add_blocking_clear(e)
    \/ mutex_lock_yield(e)
    \/ mutex_lock_return(e)

TryUnlockStep(e) ==
    \/ \E m \in Mutexes : mutex_try_lock_enter(e, m)
    \/ mutex_try_lock_disable(e)
    \/ mutex_try_lock_test(e)
    \/ mutex_try_lock_fail(e)
    \/ \E m \in Mutexes : mutex_unlock_enter(e, m)
    \/ mutex_unlock_disable(e)
    \/ mutex_unlock_refuse(e)
    \/ mutex_unlock_test(e)
    \/ mutex_unlock_clear(e)
    \/ mutex_unlock_wake(e)
    \/ mutex_unlock_return(e)

Next ==
    \/ \E e \in Threads : SchedStep(e) /\ UNCHANGED mutexVars
    \/ \E e \in Threads : LockStep(e) \/ TryUnlockStep(e)
    \/ MainStep /\ UNCHANGED mutexVars
    \/ TimerInterrupt /\ UNCHANGED mutexVars

Spec == Init /\ [][Next]_vars

----------------------------------------------------------------------------
Labels ==
    {"client", "create_disable", "create_body", "create_restore",
     "exit_yield", "exited", "loop", "loop_yield", "halt", "halted",
     "lock_disable", "lock_test", "lock_set", "lock_enable", "lock_block",
     "lock_yield", "lock_return", "add_test", "add_first", "add_walk",
     "add_advance", "add_append", "add_clear", "try_disable", "try_test",
     "unlock_disable", "unlock_test", "unlock_clear", "unlock_wake",
     "unlock_return"}

\* Every variable of mutex.c, thread.c and scheduler.c holds a value of its
\* type; the processor is never without a context to execute.
TypeOK ==
    /\ first_thread \in Pointers
    /\ next \in [Threads -> Pointers]
    /\ status \in [Threads -> Statuses]
    /\ current_thread \in Threads
    /\ preemption_enabled \in BOOLEAN
    /\ kmode_stack_ptr \in [Threads -> Pointers]
    /\ cpu \in Threads
    /\ pc \in [Threads -> Labels]
    /\ prev_preemption \in [Threads -> BOOLEAN]
    /\ locked \in [Mutexes -> BOOLEAN]
    /\ owner \in [Mutexes -> Pointers]
    /\ blocking_threads \in [Mutexes -> Pointers]
    /\ mutex_blocking_next \in [Threads -> Pointers]
    /\ mtx \in [Threads -> Mutexes]
    /\ th \in [Threads -> Threads]
    /\ last \in [Threads -> Pointers]
    /\ held \in [Threads -> SUBSET Mutexes]

\* Places in the code between a thread_disable_preemption and the matching
\* thread_enable_preemption.
NonPreemptible ==
    {"create_body", "create_restore", "lock_test", "lock_set",
     "lock_enable", "lock_return", "try_test", "unlock_test", "unlock_clear",
     "unlock_wake", "unlock_return"}

\* The preemption flag is off exactly while the running thread is between a
\* disable and its enable: no path of thread_create or of a mutex operation
\* leaves it off, turns it on under another thread's section, or lets a
\* thread be switched out of one (thread.c:55-68, mutex.c:59-137).
PreemptionDiscipline ==
    \A e \in Threads :
        pc[e] \in NonPreemptible <=> (e = cpu /\ ~preemption_enabled)

\* The scheduler's current_thread is the thread the processor executes, what
\* an operation read from it at its start is still true, and the saved stack
\* pointer of every other thread resumes that thread (init.c:131-167).
ContextIntegrity ==
    /\ cpu = current_thread
    /\ \A t \in Threads : th[t] = t
    /\ \A t \in Threads \ {cpu} : status[t] # "NONE" => kmode_stack_ptr[t] = t

\* No two threads are inside the same mutex: the condition that the threads
\* of kernel/init/main.c assert with shared_value (main.c:134, 167, 204).
MutualExclusion ==
    \A m \in Mutexes : \A e, f \in Threads :
        m \in held[e] /\ m \in held[f] => e = f

\* locked, owner and what callers were told agree: whoever was granted the
\* mutex is its owner, and a mutex that is locked has an owner that was
\* granted it or is about to return with it (mutex.c:81-82, 105-106, 129-130).
LockOwnership ==
    /\ \A m \in Mutexes : locked[m] <=> owner[m] # NULL
    /\ \A m \in Mutexes : \A e \in Threads :
          owner[m] = e <=> \/ m \in held[e]
                           \/ (pc[e] = "lock_return" /\ mtx[e] = m)

\* The loop of scheduler_get_next_thread, which runs inside the interrupt
\* handler, always finds a thread to stop at (scheduler.c:54-59).
AlwaysRunnable == \E n \in Threads : scheduler_get_next_thread(n)

\* The cells from head along link, in order.
InOrder(head, link) ==
    LET c == Chain(head, link)
        n == Cardinality({k \in 0..NumThreads : c[k] # NULL})
    IN  [i \in 1..n |-> c[i-1]]

\* The waiters of m, the first to be woken first.
Waiters(m) == InOrder(blocking_threads[m], mutex_blocking_next)

Waiting(m) == OnChain(blocking_threads[m], mutex_blocking_next)

\* Although add_blocking_thread runs with preemption enabled, the lists of
\* waiters stay sound: no cycle and no thread twice, every thread on the list
\* of m is blocked in mutex_lock(m), and the walk to the end of the list never
\* runs off it or appends to a thread that has left it (mutex.c:23-39).
WaitersSound ==
    /\ \A m \in Mutexes :
          /\ Len(Waiters(m)) = Cardinality(Waiting(m))
          /\ \A t \in Waiting(m) :
                /\ status[t] = "BLOCKING"
                /\ mtx[t] = m
                /\ pc[t] \in {"add_clear", "lock_yield", "lock_disable"}
    /\ pc[cpu] \in {"add_walk", "add_advance", "add_append"} =>
          last[cpu] \in Waiting(mtx[cpu])
    /\ pc[cpu] = "add_append" => mutex_blocking_next[last[cpu]] = NULL

\* Waiters are served first come, first served: a list changes only by one
\* thread added at its end or by its first thread leaving, and a thread that
\* leaves is runnable again (mutex.c:38, 49-56).
WaitersFIFO ==
    [][\A m \in Mutexes :
         \/ Waiters(m)' = Waiters(m)
         \/ \E t \in Threads : Waiters(m)' = Append(Waiters(m), t)
         \/ /\ Waiters(m) # <<>>
            /\ Waiters(m)' = Tail(Waiters(m))
            /\ status'[Waiters(m)[1]] = "RUNNING"]_vars

AbstractLock == INSTANCE Lock WITH Clients <- Threads, Locks <- Mutexes

\* To its callers the mutex is a lock: mutex_lock and mutex_try_lock grant it
\* only when nobody has it, and mutex_unlock by anyone but the thread that has
\* it changes nothing (mutex.c:69, 99, 123).
ImplementsLock == AbstractLock!LockSpec
=============================================================================
