---------------------------- MODULE MutexProofs ----------------------------
(***************************************************************************)
(* Mutual exclusion of the kernel's mutex, and that it implements Lock,    *)
(* for any number of threads and mutexes and whatever the threads call.    *)
(*                                                                         *)
(* The invariant has three layers, each proved from the ones before it:    *)
(* types, and the agreement of the preemption flag, the processor and the  *)
(* scheduler's current_thread; and the agreement of a mutex's fields with  *)
(* what its callers were told.  The waiters of the mutexes and the list of *)
(* the scheduler have invariants of their own, which rest on it.           *)
(***************************************************************************)
EXTENDS Mutex, Foundations

\* The walk of add_blocking_thread advances only from a thread.
CursorOK == \A e \in Threads : pc[e] = "add_advance" => last[e] \in Threads

TypeInv == TypeOK /\ CursorOK

\* thread_create is called with preemption enabled, so it enables it again.
PreemptionSaved == \A e \in Threads : prev_preemption[e]

SchedInv == PreemptionDiscipline /\ ContextIntegrity /\ PreemptionSaved

USE ThreadsAssumption, CallsAssumption

----------------------------------------------------------------------------

\* The timer's handler resumes the thread that it records as running, loses
\* no other thread's context, and leaves the running thread alone while
\* preemption is disabled.
LEMMA PitIsr ==
    ASSUME TypeOK, ContextIntegrity, pit_isr
    PROVE  /\ UNCHANGED <<first_thread, next, preemption_enabled,
                          prev_preemption>>
           /\ status' \in [Threads -> Statuses]
           /\ kmode_stack_ptr' \in [Threads -> Pointers]
           /\ cpu' \in Threads
           /\ cpu' = current_thread'
           /\ \A t \in Threads \ {cpu'} :
                 status'[t] # "NONE" => kmode_stack_ptr'[t] = t
           /\ ~preemption_enabled => cpu' = cpu
<1> USE DEF TypeOK, ContextIntegrity, Statuses, Pointers
<1>1. CASE preemption_enabled
  <2>1. PICK n \in Threads :
            /\ scheduler_get_next_thread(n)
            /\ status' = [status EXCEPT ![n] = "RUNNING"]
            /\ kmode_stack_ptr' =
                 [kmode_stack_ptr EXCEPT ![current_thread] = cpu]
            /\ current_thread' = n
            /\ cpu' = kmode_stack_ptr'[n]
    BY <1>1, ZenonT(60) DEF pit_isr, switch_thread
  <2>2. UNCHANGED <<listVars, preemption_enabled, prev_preemption>>
    BY <1>1, ZenonT(60) DEF pit_isr, switch_thread
  <2>3. status[n] # "NONE"
    BY <2>1 DEF scheduler_get_next_thread, Runnable
  <2>4. \A t \in Threads : t = cpu \/ status[t] # "NONE" =>
      kmode_stack_ptr'[t] = t
    BY <2>1
  <2>5. cpu' = n
    BY <2>1, <2>3, <2>4
  <2> QED
    BY <1>1, <2>1, <2>2, <2>3, <2>4, <2>5 DEF listVars
<1>2. CASE ~preemption_enabled
  BY <1>2, ZenonT(30) DEF pit_isr, schedVars
<1> QED
  BY <1>1, <1>2

\* thread_create, thread_exit and a voluntary yield: each step preserves the
\* type invariant.
LEMMA SchedStepType ==
    ASSUME ContextIntegrity, TypeInv, NEW e \in Threads, SchedStep(e),
           UNCHANGED mutexVars
    PROVE  TypeInv'
<1> USE DEF TypeInv, TypeOK, CursorOK, Labels, Statuses, Pointers, Go, Call,
    mutexVars, schedVars, listVars
<1>1. CASE thread_create_enter(e)
  BY <1>1 DEF thread_create_enter
<1>2. CASE thread_create_disable(e)
  BY <1>2, ZenonT(60) DEF thread_create_disable, thread_disable_preemption
<1>3. CASE \E t \in Threads : thread_create_succeed(e, t)
  BY <1>3 DEF thread_create_succeed, scheduler_add_thread
<1>4. CASE thread_create_fail(e)
  BY <1>4 DEF thread_create_fail
<1>5. CASE thread_create_restore(e)
  BY <1>5 DEF thread_create_restore
<1>6. CASE thread_exit(e)
  BY <1>6 DEF thread_exit
<1>7. CASE thread_exit_yield(e)
  BY <1>7, PitIsr DEF thread_exit_yield, scheduler_yield
<1>8. CASE client_yield(e)
  BY <1>8, PitIsr DEF client_yield, scheduler_yield
<1> QED
  BY <1>1, <1>2, <1>3, <1>4, <1>5, <1>6, <1>7, <1>8, Zenon DEF SchedStep

\* mutex_lock: each step preserves the type invariant.
LEMMA LockStepType ==
    ASSUME ContextIntegrity, TypeInv, NEW e \in Threads, LockStep(e)
    PROVE  TypeInv'
<1> USE DEF TypeInv, TypeOK, CursorOK, Labels, Statuses, Pointers, Go, Call,
    mutexVars, schedVars, listVars
<1>1. CASE \E m \in Mutexes : mutex_lock_enter(e, m)
  BY <1>1 DEF mutex_lock_enter, enter
<1>2. CASE mutex_lock_disable(e)
  BY <1>2, ZenonT(60) DEF mutex_lock_disable, set_preemption,
      thread_disable_preemption
<1>3. CASE mutex_lock_test(e)
  BY <1>3 DEF mutex_lock_test
<1>4. CASE mutex_lock_set(e)
  BY <1>4 DEF mutex_lock_set
<1>5. CASE mutex_lock_enable(e)
  BY <1>5 DEF mutex_lock_enable, set_preemption, thread_enable_preemption
<1>6. CASE mutex_lock_block(e)
  BY <1>6 DEF mutex_lock_block
<1>7. CASE add_blocking_test(e)
  <2>1. last' \in [Threads -> Pointers]
    BY <1>7 DEF add_blocking_test, FirstWaiter
  <2>2. pc' \in [Threads -> Labels]
    BY <1>7 DEF add_blocking_test, FirstWaiter
  <2> QED
    BY <1>7, <2>1, <2>2 DEF add_blocking_test, FirstWaiter
<1>8. CASE add_blocking_first(e)
  BY <1>8 DEF add_blocking_first
<1>9. CASE add_blocking_walk(e)
  <2>1. last' \in [Threads -> Pointers]
    BY <1>9, Zenon DEF add_blocking_walk
  <2>2. pc' \in [Threads -> Labels]
    BY <1>9 DEF add_blocking_walk
  <2> QED
    BY <1>9, <2>1, <2>2 DEF add_blocking_walk
<1>10. CASE add_blocking_advance(e)
  BY <1>10 DEF add_blocking_advance
<1>11. CASE add_blocking_append(e)
  BY <1>11 DEF add_blocking_append
<1>12. CASE add_blocking_clear(e)
  BY <1>12, ZenonT(30) DEF add_blocking_clear
<1>13. CASE mutex_lock_yield(e)
  BY <1>13, PitIsr DEF mutex_lock_yield, scheduler_yield
<1>14. CASE mutex_lock_return(e)
  BY <1>14, SMTT(30) DEF mutex_lock_return, set_preemption,
      thread_enable_preemption
<1> QED
  BY <1>1, <1>2, <1>3, <1>4, <1>5, <1>6, <1>7, <1>8, <1>9, <1>10, <1>11,
      ZenonT(60), <1>12, <1>13, <1>14 DEF LockStep

\* mutex_try_lock and mutex_unlock: each step preserves the type invariant.
LEMMA TryUnlockStepType ==
    ASSUME ContextIntegrity, TypeInv, NEW e \in Threads, TryUnlockStep(e)
    PROVE  TypeInv'
<1> USE DEF TypeInv, TypeOK, CursorOK, Labels, Statuses, Pointers, Go, Call,
    mutexVars, schedVars, listVars
<1>1. CASE \E m \in Mutexes : mutex_try_lock_enter(e, m)
  BY <1>1 DEF mutex_try_lock_enter, enter
<1>2. CASE mutex_try_lock_disable(e)
  BY <1>2, ZenonT(60) DEF mutex_try_lock_disable, set_preemption,
      thread_disable_preemption
<1>3. CASE mutex_try_lock_test(e)
  BY <1>3 DEF mutex_try_lock_test
<1>4. CASE mutex_try_lock_fail(e)
  BY <1>4 DEF mutex_try_lock_fail, set_preemption, thread_enable_preemption
<1>5. CASE \E m \in Mutexes : mutex_unlock_enter(e, m)
  BY <1>5 DEF mutex_unlock_enter, enter
<1>6. CASE mutex_unlock_disable(e)
  BY <1>6, ZenonT(60) DEF mutex_unlock_disable, set_preemption,
      thread_disable_preemption
<1>7. CASE mutex_unlock_refuse(e)
  BY <1>7 DEF mutex_unlock_refuse, set_preemption, thread_enable_preemption
<1>8. CASE mutex_unlock_test(e)
  BY <1>8 DEF mutex_unlock_test
<1>9. CASE mutex_unlock_clear(e)
  BY <1>9 DEF mutex_unlock_clear
<1>10. CASE mutex_unlock_wake(e)
  <2> DEFINE w == blocking_threads[mtx[e]]
  <2>1. w = NULL \/ w \in Threads
    BY Zenon
  <2>2. blocking_threads' \in [Mutexes -> Pointers]
    BY <1>10, <2>1 DEF mutex_unlock_wake, unblock_blocking_thread
  <2>3. mutex_blocking_next' \in [Threads -> Pointers]
    BY <1>10, <2>1 DEF mutex_unlock_wake, unblock_blocking_thread
  <2>4. status' \in [Threads -> Statuses]
    BY <1>10, <2>1, SMTT(30) DEF mutex_unlock_wake, unblock_blocking_thread
  <2> QED
    BY <1>10, <2>2, <2>3, <2>4, ZenonT(60) DEF mutex_unlock_wake
<1>11. CASE mutex_unlock_return(e)
  BY <1>11 DEF mutex_unlock_return, set_preemption, thread_enable_preemption
<1> QED
  BY <1>1, <1>2, <1>3, <1>4, <1>5, <1>6, <1>7, <1>8, <1>9, <1>10, <1>11,
      ZenonT(60) DEF
      TryUnlockStep

\* Main's loop: each step preserves the type invariant.
LEMMA MainStepType ==
    ASSUME ContextIntegrity, TypeInv, MainStep, UNCHANGED mutexVars
    PROVE  TypeInv'
<1> USE DEF TypeInv, TypeOK, CursorOK, Labels, Statuses, Pointers, Go, Call,
    mutexVars, schedVars, listVars
<1>1. CASE main_enter_loop
  BY <1>1 DEF main_enter_loop
<1>2. CASE main_loop_check
  BY <1>2, Zenon DEF main_loop_check
<1>3. CASE main_loop_yield
  BY <1>3, PitIsr DEF main_loop_yield, scheduler_yield
<1>4. CASE main_halt
  BY <1>4, SMTT(30) DEF main_halt
<1> QED
  BY <1>1, <1>2, <1>3, <1>4, Zenon DEF MainStep

\* Every value stays in its type.
LEMMA NextType == TypeInv /\ ContextIntegrity /\ [Next]_vars => TypeInv'
<1> SUFFICES ASSUME TypeInv, ContextIntegrity, [Next]_vars PROVE TypeInv'
  BY ZenonT(30)
<1>1. CASE TimerInterrupt /\ UNCHANGED mutexVars
  BY <1>1, PitIsr DEF TimerInterrupt, TypeInv, TypeOK, CursorOK, Labels,
      mutexVars
<1>2. CASE UNCHANGED vars
  BY <1>2, SMTT(30) DEF vars, schedVars, mutexVars, TypeInv, TypeOK, CursorOK
<1> QED
  BY <1>1, <1>2, SchedStepType, LockStepType, TryUnlockStepType, MainStepType
      DEF Next

----------------------------------------------------------------------------

\* thread_create, thread_exit and a voluntary yield: each step preserves the
\* scheduling invariant.
LEMMA SchedStepSched ==
    ASSUME TypeOK, SchedInv, NEW e \in Threads, SchedStep(e), UNCHANGED
           mutexVars
    PROVE  SchedInv'
<1> USE DEF SchedInv, PreemptionDiscipline, ContextIntegrity, PreemptionSaved,
    NonPreemptible, TypeOK, Go, Call, mutexVars, schedVars, listVars
<1>1. CASE thread_create_enter(e)
  BY <1>1, ZenonT(60) DEF thread_create_enter
<1>2. CASE thread_create_disable(e)
  BY <1>2, ZenonT(60) DEF thread_create_disable, thread_disable_preemption
<1>3. CASE \E t \in Threads : thread_create_succeed(e, t)
  <2>1. PICK t \in Threads : thread_create_succeed(e, t)
    BY <1>3
  <2> QED
    BY <2>1, ZenonT(60) DEF thread_create_succeed, scheduler_add_thread
<1>4. CASE thread_create_fail(e)
  BY <1>4, ZenonT(60) DEF thread_create_fail
<1>5. CASE thread_create_restore(e)
  BY <1>5, ZenonT(60) DEF thread_create_restore
<1>6. CASE thread_exit(e)
  BY <1>6, ZenonT(60) DEF thread_exit
<1>7. CASE thread_exit_yield(e)
  BY <1>7, PitIsr DEF thread_exit_yield, scheduler_yield
<1>8. CASE client_yield(e)
  BY <1>8, PitIsr, SMTT(30) DEF client_yield, scheduler_yield
<1> QED
  BY <1>1, <1>2, <1>3, <1>4, <1>5, <1>6, <1>7, <1>8, Zenon DEF SchedStep

\* mutex_lock: each step preserves the scheduling invariant.
LEMMA LockStepSched ==
    ASSUME TypeOK, SchedInv, NEW e \in Threads, LockStep(e)
    PROVE  SchedInv'
<1> USE DEF SchedInv, PreemptionDiscipline, ContextIntegrity, PreemptionSaved,
    NonPreemptible, TypeOK, Go, Call, mutexVars, schedVars, listVars
<1>1. CASE \E m \in Mutexes : mutex_lock_enter(e, m)
  <2>1. PICK m \in Mutexes : mutex_lock_enter(e, m)
    BY <1>1
  <2> QED
    BY <2>1, ZenonT(60) DEF mutex_lock_enter, enter
<1>2. CASE mutex_lock_disable(e)
  BY <1>2, ZenonT(60) DEF mutex_lock_disable, set_preemption,
      thread_disable_preemption
<1>3. CASE mutex_lock_test(e)
  BY <1>3, ZenonT(60) DEF mutex_lock_test
<1>4. CASE mutex_lock_set(e)
  BY <1>4, ZenonT(60) DEF mutex_lock_set
<1>5. CASE mutex_lock_enable(e)
  BY <1>5, ZenonT(60) DEF mutex_lock_enable, set_preemption,
      thread_enable_preemption
<1>6. CASE mutex_lock_block(e)
  BY <1>6, ZenonT(60) DEF mutex_lock_block
<1>7. CASE add_blocking_test(e)
  BY <1>7 DEF add_blocking_test, FirstWaiter
<1>8. CASE add_blocking_first(e)
  BY <1>8, ZenonT(60) DEF add_blocking_first
<1>9. CASE add_blocking_walk(e)
  BY <1>9 DEF add_blocking_walk
<1>10. CASE add_blocking_advance(e)
  BY <1>10, ZenonT(60) DEF add_blocking_advance
<1>11. CASE add_blocking_append(e)
  BY <1>11, ZenonT(60) DEF add_blocking_append
<1>12. CASE add_blocking_clear(e)
  BY <1>12, ZenonT(60) DEF add_blocking_clear
<1>13. CASE mutex_lock_yield(e)
  BY <1>13, PitIsr DEF mutex_lock_yield, scheduler_yield
<1>14. CASE mutex_lock_return(e)
  BY <1>14, ZenonT(60) DEF mutex_lock_return, set_preemption,
      thread_enable_preemption
<1> QED
  BY <1>1, <1>2, <1>3, <1>4, <1>5, <1>6, <1>7, <1>8, <1>9, <1>10, <1>11,
      ZenonT(60), <1>12, <1>13, <1>14 DEF LockStep

\* mutex_try_lock and mutex_unlock: each step preserves the scheduling
\* invariant.
LEMMA TryUnlockStepSched ==
    ASSUME TypeOK, SchedInv, NEW e \in Threads, TryUnlockStep(e)
    PROVE  SchedInv'
<1> USE DEF SchedInv, PreemptionDiscipline, ContextIntegrity, PreemptionSaved,
    NonPreemptible, TypeOK, Go, Call, mutexVars, schedVars, listVars
<1>1. CASE \E m \in Mutexes : mutex_try_lock_enter(e, m)
  <2>1. PICK m \in Mutexes : mutex_try_lock_enter(e, m)
    BY <1>1, SMTT(30)
  <2> QED
    BY <2>1, ZenonT(60) DEF mutex_try_lock_enter, enter
<1>2. CASE mutex_try_lock_disable(e)
  BY <1>2, ZenonT(60) DEF mutex_try_lock_disable, set_preemption,
      thread_disable_preemption
<1>3. CASE mutex_try_lock_test(e)
  BY <1>3, ZenonT(60) DEF mutex_try_lock_test
<1>4. CASE mutex_try_lock_fail(e)
  BY <1>4, ZenonT(60) DEF mutex_try_lock_fail, set_preemption,
      thread_enable_preemption
<1>5. CASE \E m \in Mutexes : mutex_unlock_enter(e, m)
  <2>1. PICK m \in Mutexes : mutex_unlock_enter(e, m)
    BY <1>5, SMTT(30)
  <2> QED
    BY <2>1, ZenonT(60) DEF mutex_unlock_enter, enter
<1>6. CASE mutex_unlock_disable(e)
  BY <1>6, ZenonT(60) DEF mutex_unlock_disable, set_preemption,
      thread_disable_preemption
<1>7. CASE mutex_unlock_refuse(e)
  BY <1>7, ZenonT(60) DEF mutex_unlock_refuse, set_preemption,
      thread_enable_preemption
<1>8. CASE mutex_unlock_test(e)
  BY <1>8, ZenonT(60) DEF mutex_unlock_test
<1>9. CASE mutex_unlock_clear(e)
  BY <1>9, ZenonT(60) DEF mutex_unlock_clear
<1>10. CASE mutex_unlock_wake(e)
  <2>1. \A t \in Threads : status'[t] # "NONE" => status[t] # "NONE"
    BY <1>10 DEF mutex_unlock_wake, unblock_blocking_thread
  <2> QED
    BY <1>10, <2>1, ZenonT(60) DEF mutex_unlock_wake
<1>11. CASE mutex_unlock_return(e)
  BY <1>11, ZenonT(60) DEF mutex_unlock_return, set_preemption,
      thread_enable_preemption
<1> QED
  BY <1>1, <1>2, <1>3, <1>4, <1>5, <1>6, <1>7, <1>8, <1>9, <1>10, <1>11,
      ZenonT(60) DEF
      TryUnlockStep

\* Main's loop: each step preserves the scheduling invariant.
LEMMA MainStepSched ==
    ASSUME TypeOK, SchedInv, MainStep, UNCHANGED mutexVars
    PROVE  SchedInv'
<1> USE DEF SchedInv, PreemptionDiscipline, ContextIntegrity, PreemptionSaved,
    NonPreemptible, TypeOK, Go, Call, mutexVars, schedVars, listVars
<1>1. CASE main_enter_loop
  BY <1>1, ZenonT(60) DEF main_enter_loop
<1>2. CASE main_loop_check
  BY <1>2, ZenonT(60) DEF main_loop_check
<1>3. CASE main_loop_yield
  BY <1>3, PitIsr DEF main_loop_yield, scheduler_yield
<1>4. CASE main_halt
  BY <1>4, ZenonT(60) DEF main_halt
<1> QED
  BY <1>1, <1>2, <1>3, <1>4, Zenon DEF MainStep

\* The preemption flag, the running context and the scheduler's record of it
\* stay in agreement.
LEMMA NextSched == TypeOK /\ SchedInv /\ [Next]_vars => SchedInv'
<1> SUFFICES ASSUME TypeOK, SchedInv, [Next]_vars PROVE SchedInv'
  OBVIOUS
<1>1. CASE TimerInterrupt /\ UNCHANGED mutexVars
  <2>1. \A e \in Threads : pc'[e] \in NonPreemptible <=> pc[e] \in
      NonPreemptible
    BY <1>1 DEF TimerInterrupt, TypeOK, NonPreemptible
  <2>2. /\ preemption_enabled' = preemption_enabled
        /\ prev_preemption' = prev_preemption
        /\ ~preemption_enabled => cpu' = cpu
        /\ cpu' = current_thread'
        /\ \A t \in Threads \ {cpu'} :
              status'[t] # "NONE" => kmode_stack_ptr'[t] = t
    BY <1>1, PitIsr, SMTT(30) DEF TimerInterrupt, SchedInv
  <2>3. th' = th
    BY <1>1 DEF mutexVars
  <2>4. PreemptionDiscipline'
    BY <2>1, <2>2, ZenonT(60) DEF SchedInv, PreemptionDiscipline
  <2>5. ContextIntegrity'
    BY <2>2, <2>3, ZenonT(60) DEF SchedInv, ContextIntegrity
  <2>6. PreemptionSaved'
    BY <2>2, ZenonT(60) DEF SchedInv, PreemptionSaved
  <2> QED
    BY <2>4, <2>5, <2>6 DEF SchedInv
<1>2. CASE UNCHANGED vars
  BY <1>2 DEF vars, schedVars, mutexVars, SchedInv, PreemptionDiscipline,
      ContextIntegrity, PreemptionSaved
<1> QED
  BY <1>1, <1>2, SchedStepSched, LockStepSched, TryUnlockStepSched,
      MainStepSched DEF Next

\* Two threads are never both inside sections with preemption disabled.
LEMMA AloneInSection ==
    ASSUME PreemptionDiscipline, NEW e \in Threads, pc[e] \in NonPreemptible
    PROVE  \A f \in Threads \ {e} :
              pc[f] \notin {"lock_set", "lock_return", "unlock_clear"}
  BY DEF PreemptionDiscipline, NonPreemptible

----------------------------------------------------------------------------
(* The agreement of a mutex's fields with what its callers were told.       *)

\* What mutex_lock, mutex_try_lock and mutex_unlock have tested is still true
\* when they act on it.
TestsHold ==
    \A e \in Threads :
        /\ pc[e] = "lock_set" => ~locked[mtx[e]]
        /\ pc[e] = "unlock_clear" => owner[mtx[e]] = e

LockInv == LockOwnership /\ TestsHold

IInv == TypeInv /\ SchedInv /\ LockInv

----------------------------------------------------------------------------

\* Whatever leaves locked, owner and held alone, and nobody on the way in or
\* out of a grant or a release, keeps the agreement.
LEMMA LockFrame ==
    ASSUME LockInv, UNCHANGED <<locked, owner, held>>,
           \A f \in Threads :
              /\ pc'[f] = "lock_return" <=> pc[f] = "lock_return"
              /\ pc'[f] = "lock_set" => pc[f] = "lock_set"
              /\ pc'[f] = "unlock_clear" => pc[f] = "unlock_clear"
              /\ pc'[f] \in {"lock_return", "lock_set", "unlock_clear"} =>
                    mtx'[f] = mtx[f]
    PROVE  LockInv'
<1>1. LockOwnership'
  BY DEF LockInv, LockOwnership
<1>2. TestsHold'
  BY DEF LockInv, TestsHold
<1> QED
  BY <1>1, <1>2, Zenon DEF LockInv

\* So does a step of e between two other places of the code.
LEMMA LockUndisturbed ==
    ASSUME TypeOK, LockInv, NEW e \in Threads, NEW from, NEW to,
           Go(e, from, to), from # "lock_return",
           to \notin {"lock_return", "lock_set", "unlock_clear"},
           UNCHANGED <<locked, owner, held>>,
           \A f \in Threads \ {e} : mtx'[f] = mtx[f]
    PROVE  LockInv'
<1>1. pc'[e] = to /\ \A f \in Threads \ {e} : pc'[f] = pc[f]
  BY DEF Go, TypeOK
<1> QED
  BY <1>1, LockFrame, Zenon DEF Go

\* thread_create, thread_exit and a voluntary yield: each step preserves the
\* agreement of locked, owner and the callers.
LEMMA SchedStepLock ==
    ASSUME TypeOK, LockInv, NEW e \in Threads, SchedStep(e),
           UNCHANGED mutexVars
    PROVE  LockInv'
<1>1. CASE thread_create_enter(e)
  BY <1>1, LockUndisturbed DEF thread_create_enter, Call, mutexVars
<1>2. CASE thread_create_disable(e)
  BY <1>2, LockUndisturbed DEF thread_create_disable, mutexVars
<1>3. CASE \E t \in Threads : thread_create_succeed(e, t)
  BY <1>3, LockUndisturbed DEF thread_create_succeed, mutexVars
<1>4. CASE thread_create_fail(e)
  BY <1>4, LockUndisturbed DEF thread_create_fail, mutexVars
<1>5. CASE thread_create_restore(e)
  BY <1>5, LockUndisturbed DEF thread_create_restore, mutexVars
<1>6. CASE thread_exit(e)
  BY <1>6, LockUndisturbed DEF thread_exit, Call, mutexVars
<1>7. CASE thread_exit_yield(e)
  BY <1>7, LockUndisturbed DEF thread_exit_yield, scheduler_yield,
      mutexVars
<1>8. CASE client_yield(e)
  BY <1>8, LockUndisturbed, Zenon DEF client_yield, scheduler_yield,
      mutexVars
<1> QED
  BY <1>1, <1>2, <1>3, <1>4, <1>5, <1>6, <1>7, <1>8, Zenon DEF SchedStep

\* mutex_lock: each step preserves the agreement of locked, owner and the
\* callers.
LEMMA LockStepLock ==
    ASSUME TypeOK, SchedInv, LockInv, NEW e \in Threads, LockStep(e)
    PROVE  LockInv'
<1>1. CASE \E m \in Mutexes : mutex_lock_enter(e, m)
  BY <1>1, LockUndisturbed, Zenon DEF mutex_lock_enter, enter, Call, TypeOK
<1>2. CASE mutex_lock_disable(e)
  BY <1>2, LockUndisturbed DEF mutex_lock_disable, set_preemption,
      mutexVars
<1>3. CASE mutex_lock_test(e)
  <2>1. /\ pc[e] # "lock_return" /\ pc'[e] # "lock_return"
        /\ pc'[e] = "lock_set" => ~locked[mtx[e]]
        /\ pc'[e] = "unlock_clear" => owner[mtx[e]] = e
    BY <1>3, Zenon DEF mutex_lock_test, Go, TypeOK
  <2>2. \A f \in Threads \ {e} : pc'[f] = pc[f]
    BY <1>3, Zenon DEF mutex_lock_test, Go, TypeOK
  <2>3. UNCHANGED <<locked, owner, held, mtx>>
    BY <1>3 DEF mutex_lock_test, mutexVars
  <2>4. LockOwnership'
    BY <2>1, <2>2, <2>3 DEF LockInv, LockOwnership
  <2>5. TestsHold'
    BY <2>1, <2>2, <2>3, Zenon DEF LockInv, TestsHold
  <2> QED
    BY <2>4, <2>5, Zenon DEF LockInv
<1>4. CASE mutex_lock_set(e)
  <2>1. pc'[e] = "lock_return" /\ \A f \in Threads \ {e} : pc'[f] = pc[f]
    BY <1>4, SMTT(30) DEF mutex_lock_set, Go, TypeOK
  <2>2. \A f \in Threads \ {e} :
            pc[f] \notin {"lock_set", "lock_return", "unlock_clear"}
    BY <1>4, AloneInSection, Zenon DEF mutex_lock_set, Go, NonPreemptible, SchedInv
  <2>3. ~locked[mtx[e]] /\ owner[mtx[e]] = NULL
    BY <1>4, SMTT(30) DEF mutex_lock_set, Go, LockInv, TestsHold,
        LockOwnership, TypeOK
  <2>4. /\ locked' = [locked EXCEPT ![mtx[e]] = TRUE]
        /\ owner' = [owner EXCEPT ![mtx[e]] = e]
        /\ UNCHANGED <<mtx, held>>
    BY <1>4, ZenonT(60) DEF mutex_lock_set, SchedInv, ContextIntegrity
  <2>5. LockOwnership'
    BY <2>1, <2>2, <2>3, <2>4, SMTT(30) DEF LockInv, LockOwnership, TypeOK,
        Pointers
  <2>6. TestsHold'
    BY <2>1, <2>2, SMTT(30) DEF TestsHold
  <2> QED
    BY <2>5, <2>6, SMTT(30) DEF LockInv
<1>5. CASE mutex_lock_enable(e)
  BY <1>5, LockUndisturbed, Zenon DEF mutex_lock_enable, set_preemption, mutexVars
<1>6. CASE mutex_lock_block(e)
  BY <1>6, LockUndisturbed, Zenon DEF mutex_lock_block, mutexVars
<1>7. CASE add_blocking_test(e)
  <2>1. PICK to \in {"lock_yield", "add_first", "add_walk"} :
            Go(e, "add_test", to)
    BY <1>7, Zenon DEF add_blocking_test
  <2>2. UNCHANGED <<locked, owner, held, mtx>>
    BY <1>7, Zenon DEF add_blocking_test
  <2> QED
    BY <2>1, <2>2, LockUndisturbed, Zenon
<1>8. CASE add_blocking_first(e)
  BY <1>8, LockUndisturbed, Zenon DEF add_blocking_first
<1>9. CASE add_blocking_walk(e)
  <2>1. PICK to \in {"lock_yield", "add_append", "add_advance"} :
            Go(e, "add_walk", to)
    BY <1>9 DEF add_blocking_walk
  <2> QED
    BY <1>9, <2>1, LockUndisturbed, Zenon DEF add_blocking_walk
<1>10. CASE add_blocking_advance(e)
  BY <1>10, LockUndisturbed DEF add_blocking_advance
<1>11. CASE add_blocking_append(e)
  BY <1>11, LockUndisturbed DEF add_blocking_append
<1>12. CASE add_blocking_clear(e)
  BY <1>12, LockUndisturbed DEF add_blocking_clear
<1>13. CASE mutex_lock_yield(e)
  BY <1>13, LockUndisturbed, Zenon DEF mutex_lock_yield, scheduler_yield,
      mutexVars
<1>14. CASE mutex_lock_return(e)
  <2>1. pc[e] = "lock_return" /\ pc'[e] = "client"
    BY <1>14, Zenon DEF mutex_lock_return, set_preemption, Go, TypeOK
  <2>2. \A f \in Threads \ {e} : /\ pc'[f] = pc[f]
                                  /\ held'[f] = held[f]
    BY <1>14, Zenon DEF mutex_lock_return, set_preemption, Go, TypeOK
  <2>3. held'[e] = held[e] \cup {mtx[e]} /\ UNCHANGED <<locked, owner, mtx>>
    BY <1>14, Zenon DEF mutex_lock_return, TypeOK
  <2>4. LockOwnership'
    BY <2>1, <2>2, <2>3, SMTT(30) DEF LockInv, LockOwnership
  <2>5. TestsHold'
    BY <2>1, <2>2, <2>3, SMTT(30) DEF LockInv, TestsHold
  <2> QED
    BY <2>4, <2>5, SMTT(30) DEF LockInv
<1> QED
  BY <1>1, <1>2, <1>3, <1>4, <1>5, <1>6, <1>7, <1>8, <1>9, <1>10, <1>11,
      Zenon, <1>12, <1>13, <1>14 DEF LockStep

\* mutex_try_lock and mutex_unlock: each step preserves the agreement of
\* locked, owner and the callers.
LEMMA TryUnlockStepLock ==
    ASSUME TypeOK, SchedInv, LockInv, NEW e \in Threads, TryUnlockStep(e)
    PROVE  LockInv'
<1>1. CASE \E m \in Mutexes : mutex_try_lock_enter(e, m)
  BY <1>1, LockUndisturbed, Zenon DEF mutex_try_lock_enter, enter, Call,
      TypeOK
<1>2. CASE mutex_try_lock_disable(e)
  BY <1>2, LockUndisturbed, Zenon DEF mutex_try_lock_disable, set_preemption,
      mutexVars
<1>3. CASE mutex_try_lock_test(e)
  <2>1. /\ pc[e] # "lock_return" /\ pc'[e] # "lock_return"
        /\ pc'[e] = "lock_set" => ~locked[mtx[e]]
        /\ pc'[e] = "unlock_clear" => owner[mtx[e]] = e
    BY <1>3, Zenon DEF mutex_try_lock_test, Go, TypeOK
  <2>2. \A f \in Threads \ {e} : pc'[f] = pc[f]
    BY <1>3, Zenon DEF mutex_try_lock_test, Go, TypeOK
  <2>3. UNCHANGED <<locked, owner, held, mtx>>
    BY <1>3, Zenon DEF mutex_try_lock_test, mutexVars
  <2>4. LockOwnership'
    BY <2>1, <2>2, <2>3, SMTT(30) DEF LockInv, LockOwnership
  <2>5. TestsHold'
    BY <2>1, <2>2, <2>3, SMTT(30) DEF LockInv, TestsHold
  <2> QED
    BY <2>4, <2>5, SMTT(30) DEF LockInv
<1>4. CASE mutex_try_lock_fail(e)
  BY <1>4, LockUndisturbed, Zenon DEF mutex_try_lock_fail, set_preemption,
      mutexVars
<1>5. CASE \E m \in Mutexes : mutex_unlock_enter(e, m)
  BY <1>5, LockUndisturbed, SMTT(60) DEF mutex_unlock_enter, enter, Call,
      TypeOK
<1>6. CASE mutex_unlock_disable(e)
  BY <1>6, LockUndisturbed, Zenon DEF mutex_unlock_disable, set_preemption,
      mutexVars
<1>7. CASE mutex_unlock_refuse(e)
  BY <1>7, LockUndisturbed, Zenon DEF mutex_unlock_refuse, set_preemption,
      mutexVars
<1>8. CASE mutex_unlock_test(e)
  <2>1. /\ pc[e] # "lock_return" /\ pc'[e] # "lock_return"
        /\ pc'[e] = "lock_set" => ~locked[mtx[e]]
        /\ pc'[e] = "unlock_clear" => owner[mtx[e]] = e
    BY <1>8, Zenon DEF mutex_unlock_test, Go, TypeOK, SchedInv, ContextIntegrity
  <2>2. \A f \in Threads \ {e} : pc'[f] = pc[f]
    BY <1>8, Zenon DEF mutex_unlock_test, Go, TypeOK
  <2>3. UNCHANGED <<locked, owner, held, mtx>>
    BY <1>8, Zenon DEF mutex_unlock_test, mutexVars
  <2>4. LockOwnership'
    BY <2>1, <2>2, <2>3, SMTT(30) DEF LockInv, LockOwnership
  <2>5. TestsHold'
    BY <2>1, <2>2, <2>3, SMTT(30) DEF LockInv, TestsHold
  <2> QED
    BY <2>4, <2>5, SMTT(30) DEF LockInv
<1>9. CASE mutex_unlock_clear(e)
  <2>1. pc'[e] = "unlock_wake" /\ pc[e] = "unlock_clear"
    BY <1>9, Zenon DEF mutex_unlock_clear, Go, TypeOK
  <2>2. \A f \in Threads \ {e} :
            /\ pc'[f] = pc[f]
            /\ pc[f] \notin {"lock_set", "lock_return", "unlock_clear"}
    BY <1>9, AloneInSection, SMTT(60) DEF mutex_unlock_clear, Go,
        NonPreemptible,
        SchedInv, TypeOK
  <2>3. owner[mtx[e]] = e
    BY <1>9, ZenonT(60) DEF mutex_unlock_clear, Go, LockInv, TestsHold
  <2>4. /\ locked' = [locked EXCEPT ![mtx[e]] = FALSE]
        /\ owner' = [owner EXCEPT ![mtx[e]] = NULL]
        /\ held' = [held EXCEPT ![e] = @ \ {mtx[e]}]
        /\ UNCHANGED mtx
    BY <1>9, Zenon DEF mutex_unlock_clear
  <2>5. LockOwnership'
    <3> DEFINE k == mtx[e]
    <3>1. /\ k \in Mutexes /\ locked \in [Mutexes -> BOOLEAN]
          /\ owner \in [Mutexes -> Pointers] /\ DOMAIN held = Threads
      BY Zenon DEF TypeOK
    <3>2. /\ \A m \in Mutexes : locked[m] <=> owner[m] # NULL
          /\ \A m \in Mutexes : \A f \in Threads :
                owner[m] = f <=> \/ m \in held[f]
                                 \/ pc[f] = "lock_return" /\ mtx[f] = m
      BY DEF LockInv, LockOwnership
    <3>3. /\ locked' = [locked EXCEPT ![k] = FALSE]
          /\ owner' = [owner EXCEPT ![k] = NULL]
          /\ held' = [held EXCEPT ![e] = @ \ {k}] /\ mtx' = mtx /\ owner[k] = e
      BY <2>3, <2>4, Zenon
    <3> HIDE DEF k
    <3>4. ASSUME NEW m \in Mutexes PROVE locked'[m] <=> owner'[m] # NULL
      BY <3>1, <3>2, <3>3
    <3>5. ASSUME NEW m \in Mutexes, NEW f \in Threads
          PROVE  owner'[m] = f <=> \/ m \in held'[f]
                                   \/ pc'[f] = "lock_return" /\ mtx'[f] = m
      <4>1. CASE f = e
        <5>1. held'[f] = held[f] \ {k} /\ pc'[f] # "lock_return"
              /\ pc[f] # "lock_return"
          BY <2>1, <3>1, <3>3, <4>1, Zenon
        <5>2. owner'[m] = IF m = k THEN NULL ELSE owner[m]
          BY <3>1, <3>3, Zenon
        <5> QED
          BY <3>2, <4>1, <5>1, <5>2, ThreadsAssumption
      <4>2. CASE f # e
        <5>1. held'[f] = held[f] /\ pc'[f] # "lock_return"
              /\ pc[f] # "lock_return"
          BY <2>2, <3>1, <3>3, <4>2, Zenon
        <5>2. owner'[m] = IF m = k THEN NULL ELSE owner[m]
          BY <3>1, <3>3, Zenon
        <5> QED
          BY <3>2, <3>3, <4>2, <5>1, <5>2, ThreadsAssumption
      <4> QED
        BY <4>1, <4>2, Zenon
    <3> QED
      BY <3>4, <3>5 DEF LockOwnership
  <2>6. TestsHold'
    BY <2>1, <2>2, Zenon DEF TestsHold
  <2> QED
    BY <2>5, <2>6, SMTT(30) DEF LockInv
<1>10. CASE mutex_unlock_wake(e)
  BY <1>10, LockUndisturbed, Zenon DEF mutex_unlock_wake
<1>11. CASE mutex_unlock_return(e)
  BY <1>11, LockUndisturbed, Zenon DEF mutex_unlock_return, set_preemption,
      mutexVars
<1> QED
  BY <1>1, <1>2, <1>3, <1>4, <1>5, <1>6, <1>7, <1>8, <1>9, <1>10, <1>11,
      Zenon DEF
      TryUnlockStep

\* Main's loop: each step preserves the agreement of locked, owner and the
\* callers.
LEMMA MainStepLock ==
    ASSUME TypeOK, LockInv, MainStep, UNCHANGED mutexVars
    PROVE  LockInv'
<1>1. CASE main_enter_loop
  BY <1>1, LockUndisturbed, Zenon DEF main_enter_loop, mutexVars
<1>2. CASE main_loop_check
  <2>1. PICK to \in {"loop_yield", "halt"} : Go(Main, "loop", to)
    BY <1>2, Zenon DEF main_loop_check
  <2> QED
    BY <2>1, LockUndisturbed, Zenon DEF mutexVars
<1>3. CASE main_loop_yield
  BY <1>3, LockUndisturbed, Zenon DEF main_loop_yield, scheduler_yield, mutexVars
<1>4. CASE main_halt
  BY <1>4, LockUndisturbed, Zenon DEF main_halt, mutexVars
<1> QED
  BY <1>1, <1>2, <1>3, <1>4, Zenon DEF MainStep

\* The fields of the mutex and what its callers were told stay in agreement.
LEMMA NextLock == TypeOK /\ SchedInv /\ LockInv /\ [Next]_vars => LockInv'
<1> SUFFICES ASSUME TypeOK, SchedInv, LockInv, [Next]_vars PROVE LockInv'
  BY Zenon
<1>1. CASE TimerInterrupt /\ UNCHANGED mutexVars
  <2>1. \A e \in Threads :
            /\ pc'[e] = "lock_return" <=> pc[e] = "lock_return"
            /\ pc'[e] = "lock_set" <=> pc[e] = "lock_set"
            /\ pc'[e] = "unlock_clear" <=> pc[e] = "unlock_clear"
    BY <1>1, Zenon DEF TimerInterrupt, TypeOK
  <2> QED
    BY <1>1, <2>1, LockFrame, Zenon DEF mutexVars
<1>2. CASE UNCHANGED vars
  BY <1>2, LockFrame DEF vars, mutexVars
<1> QED
  BY <1>1, <1>2, SchedStepLock, LockStepLock, TryUnlockStepLock, MainStepLock, Zenon
      DEF Next

----------------------------------------------------------------------------

\* The invariant that the theorems rest on holds in every reachable state.
THEOREM Invariance == Spec => []IInv
<1>1. Init => IInv
  BY SMTT(30) DEF Init, SchedInit, IInv, TypeInv, TypeOK, CursorOK, SchedInv,
      PreemptionDiscipline, ContextIntegrity, PreemptionSaved, LockInv,
      LockOwnership, TestsHold, NonPreemptible, Labels, Statuses, Pointers
<1>2. IInv /\ [Next]_vars => IInv'
  BY NextType, NextSched, NextLock, Zenon DEF IInv, TypeInv, SchedInv
<1> QED
  BY <1>1, <1>2, PTL DEF Spec

\* Every variable of the scheduler and the mutexes holds a value of its type.
THEOREM TypeCorrect == Spec => []TypeOK
<1>1. IInv => TypeOK
  BY DEF IInv, TypeInv
<1> QED
  BY <1>1, Invariance, PTL

\* Preemption is disabled exactly while the running thread is inside one of
\* the sections of thread_create and the mutex operations that disable it.
THEOREM PreemptionIsDisciplined == Spec => []PreemptionDiscipline
<1>1. IInv => PreemptionDiscipline
  BY DEF IInv, SchedInv
<1> QED
  BY <1>1, Invariance, PTL

\* The processor executes the thread that the scheduler says is running, and
\* every switch resumes the context of the thread it chose.
THEOREM ContextsAreTheirOwn == Spec => []ContextIntegrity
<1>1. IInv => ContextIntegrity
  BY DEF IInv, SchedInv
<1> QED
  BY <1>1, Invariance, PTL

\* The fields locked and owner agree with each other and with what the
\* callers of mutex_lock and mutex_try_lock were told.
THEOREM OwnershipAgrees == Spec => []LockOwnership
<1>1. IInv => LockOwnership
  BY Zenon DEF IInv, LockInv
<1> QED
  BY <1>1, Invariance, PTL

\* No two threads are ever inside the same mutex.
THEOREM MutexExcludes == Spec => []MutualExclusion
<1>1. IInv => MutualExclusion
  BY SMTT(30) DEF IInv, LockInv, LockOwnership, MutualExclusion
<1> QED
  BY <1>1, Invariance, PTL

\* A step of mutex_lock, mutex_try_lock or mutex_unlock is an acquisition or a
\* release of the abstract lock, or changes nothing that callers can see.
LEMMA StepImplements == IInv /\ [Next]_vars => [AbstractLock!LockNext]_held
<1> SUFFICES ASSUME IInv, [Next]_vars PROVE [AbstractLock!LockNext]_held
  BY Zenon
<1>i. /\ mtx \in [Threads -> Mutexes] /\ held \in [Threads -> SUBSET Mutexes]
      /\ \A m \in Mutexes : \A f \in Threads :
            owner[m] = f <=> \/ m \in held[f]
                             \/ pc[f] = "lock_return" /\ mtx[f] = m
      /\ \A f \in Threads : pc[f] = "unlock_clear" => owner[mtx[f]] = f
  BY DEF IInv, TypeInv, TypeOK, LockInv, LockOwnership, TestsHold
<1>1. ASSUME NEW e \in Threads, mutex_lock_return(e)
      PROVE  AbstractLock!LockNext \/ UNCHANGED held
  <2>a. /\ pc[e] = "lock_return" /\ mtx[e] \in Mutexes
        /\ held' = [held EXCEPT ![e] = @ \cup {mtx[e]}]
    BY <1>i, <1>1, Zenon DEF mutex_lock_return, set_preemption, Go
  <2>1. \A d \in Threads : d = e \/ mtx[e] \notin held[d]
    <3>1. owner[mtx[e]] = e
      BY <1>i, <2>a, Zenon
    <3> QED
      BY <1>i, <2>a, <3>1
  <2>2. CASE mtx[e] \in held[e]
    BY <1>i, <2>a, <2>2
  <2>3. CASE mtx[e] \notin held[e]
    <3>1. AbstractLock!Acquire(e, mtx[e])
      BY <2>1, <2>3, <2>a, Zenon DEF AbstractLock!Acquire
    <3> QED
      BY <2>a, <3>1, Zenon DEF AbstractLock!LockNext
  <2> QED
    BY <2>2, <2>3, Zenon
<1>2. ASSUME NEW e \in Threads, mutex_unlock_clear(e)
      PROVE  AbstractLock!LockNext
  <2>1. AbstractLock!Release(e, mtx[e])
    <3>1. /\ pc[e] = "unlock_clear" /\ mtx[e] \in Mutexes
          /\ held' = [held EXCEPT ![e] = @ \ {mtx[e]}]
      BY <1>i, <1>2, Zenon DEF mutex_unlock_clear, Go
    <3>2. mtx[e] \in held[e]
      BY <1>i, <3>1
    <3> QED
      BY <3>1, <3>2, Zenon DEF AbstractLock!Release
  <2>2. mtx[e] \in Mutexes
    BY <1>i, Zenon
  <2> QED
    BY <2>1, <2>2, Zenon DEF AbstractLock!LockNext
<1>3. ASSUME NEW e \in Threads, LockStep(e), ~mutex_lock_return(e)
      PROVE  UNCHANGED held
  BY <1>3, ZenonT(60) DEF LockStep, mutex_lock_enter, enter,
      mutex_lock_disable,
      mutex_lock_test, mutex_lock_set, mutex_lock_enable, mutex_lock_block,
      add_blocking_test, add_blocking_first, add_blocking_walk,
      add_blocking_advance, add_blocking_append, add_blocking_clear,
      mutex_lock_yield, mutexVars
<1>4. ASSUME NEW e \in Threads, TryUnlockStep(e), ~mutex_unlock_clear(e)
      PROVE  UNCHANGED held
  BY <1>4, ZenonT(60) DEF TryUnlockStep, mutex_try_lock_enter,
      mutex_unlock_enter, enter,
      mutex_try_lock_disable, mutex_try_lock_test, mutex_try_lock_fail,
      mutex_unlock_disable, mutex_unlock_refuse, mutex_unlock_test,
      mutex_unlock_wake, mutex_unlock_return, mutexVars
<1> QED
  BY <1>1, <1>2, <1>3, <1>4, Zenon DEF Next, vars, mutexVars

\* The timer's handler leaves everything alone, or it switches to a thread
\* that was runnable.
LEMMA Switch ==
    ASSUME TypeOK, ContextIntegrity, pit_isr
    PROVE  /\ UNCHANGED <<first_thread, next>>
           /\ \/ UNCHANGED <<status, current_thread, cpu>> /\ ~preemption_enabled
              \/ /\ cpu' \in Threads /\ current_thread' = cpu'
                 /\ status[cpu'] \in {"RUNNING", "PENDING"}
                 /\ status' = [status EXCEPT ![cpu'] = "RUNNING"]
<1>1. CASE preemption_enabled
  <2>1. PICK n \in Threads :
            /\ scheduler_get_next_thread(n)
            /\ status' = [status EXCEPT ![n] = "RUNNING"]
            /\ current_thread' = n
            /\ UNCHANGED listVars
    BY <1>1, ZenonT(60) DEF pit_isr, switch_thread
  <2>2. Runnable(n)
    BY <2>1, Zenon DEF scheduler_get_next_thread
  <2>3. cpu' = n
    BY <2>1, PitIsr
  <2> QED
    BY <2>1, <2>2, <2>3 DEF Runnable, listVars
<1>2. CASE ~preemption_enabled
  BY <1>2 DEF pit_isr, schedVars
<1> QED
  BY <1>1, <1>2

\* To its callers the mutex is the lock of module Lock.
THEOREM MutexImplementsLock == Spec => ImplementsLock
<1>1. Init => AbstractLock!LockInit
  BY DEF Init, AbstractLock!LockInit
<1> QED
  BY <1>1, StepImplements, Invariance, PTL DEF Spec, ImplementsLock,
      AbstractLock!LockSpec

----------------------------------------------------------------------------
(* The waiters of each mutex: although add_blocking_thread runs with        *)
(* preemption enabled, they are a list without cycle or repetition, first   *)
(* come, first served.  First the invariant the lists satisfy and how a     *)
(* list changes when a thread joins or leaves, then the steps.              *)

Adding == {"add_test", "add_first", "add_walk", "add_advance", "add_append"}

\* Blocked, and done with adding itself to the waiters.
Queued(t) ==
    /\ status[t] = "BLOCKING"
    /\ pc[t] \in {"add_clear", "lock_yield", "lock_disable"}

InLine(m) == {t \in Threads : Queued(t) /\ mtx[t] = m}

\* A list of the threads A.
HasQueue(A, head, link) ==
    \E n \in 0..NumThreads : \E q \in [1..n -> A] :
        IsQueue(NULL, A, head, link, n, q)

\* What the running thread has found out about the list it adds itself to.
WalkInv ==
    /\ status[cpu] = "BLOCKING" => pc[cpu] \in Adding \cup {"add_clear", "lock_yield"}
    /\ pc[cpu] = "add_first" => blocking_threads[mtx[cpu]] = NULL
    /\ pc[cpu] \in {"add_walk", "add_advance", "add_append"} =>
          last[cpu] \in InLine(mtx[cpu])
    /\ pc[cpu] \in {"add_append", "add_advance"} =>
          (mutex_blocking_next[last[cpu]] = NULL <=> pc[cpu] = "add_append")
    /\ pc[cpu] = "add_clear" => mutex_blocking_next[cpu] = NULL

QueueInv ==
    /\ \A m \in Mutexes :
          HasQueue(InLine(m), blocking_threads[m], mutex_blocking_next)
    /\ \A t \in Threads : ~Queued(t) => mutex_blocking_next[t] = NULL
    /\ \A t \in Threads : pc[t] \in Adding => status[t] = "BLOCKING"
    /\ WalkInv

----------------------------------------------------------------------------
(* What a list is and how it changes.                                       *)

\* The threads are finitely many, and NULL is none of them.
LEMMA Facts ==
    /\ NumThreads \in Nat /\ NumThreads = Cardinality(Threads)
    /\ IsFiniteSet(Threads) /\ NULL \notin Threads
    /\ Pointers = Threads \cup {NULL}
BY FS_CardinalityType DEF NumThreads, Pointers

\* The chain is a walk along the list.
LEMMA ChainWalks ==
    ASSUME NEW head \in Pointers, NEW link \in [Threads -> Pointers]
    PROVE  IsWalk(NULL, head, link, NumThreads, Chain(head, link))
<1>1. Walkable(Pointers, NULL, head, link, NumThreads)
  BY Facts, Zenon DEF Walkable
<1>2. \E c : IsWalk(NULL, head, link, NumThreads, c)
  BY <1>1, Walk, Zenon
<1> QED
  BY <1>2, Zenon DEF Chain, IsWalk

\* A queue's cells are its threads, in order.
LEMMA QueueCells ==
    ASSUME NEW A \in SUBSET Threads, NEW head \in Pointers,
           NEW link \in [Threads -> Pointers], NEW n \in 0..NumThreads,
           NEW q \in [1..n -> A], IsQueue(NULL, A, head, link, n, q)
    PROVE  /\ InOrder(head, link) = q
           /\ OnChain(head, link) = A
           /\ Len(InOrder(head, link)) = Cardinality(A)
<1> DEFINE c == Chain(head, link)
<1>1. IsWalk(NULL, head, link, NumThreads, c)
  BY ChainWalks, Zenon
<1>2. NULL \notin A /\ NumThreads \in Nat
  BY Facts, Zenon
<1> HIDE DEF c
<1>3. Meets(c, NumThreads, NULL, n, q, A)
  BY <1>1, <1>2, WalkMeets
<1>4. InOrder(head, link) = q
  BY <1>3, Zenon DEF InOrder, Meets, c
<1>5. OnChain(head, link) = A
  BY <1>3, Zenon DEF OnChain, Meets, c
<1>6. Len(q) = n /\ n = Cardinality(A)
  BY <1>2 DEF IsQueue
<1> QED
  BY <1>4, <1>5, <1>6, Zenon

\* Each thread of a queue is followed by a thread of the queue or by NULL,
\* and its head is one of them or NULL.
LEMMA QueueLinks ==
    ASSUME NEW A \in SUBSET Threads, NEW head, NEW link, HasQueue(A, head, link)
    PROVE  /\ head = NULL \/ head \in A
           /\ head = NULL <=> A = {}
           /\ \A t \in A : link[t] = NULL \/ link[t] \in A
<1>1. PICK n \in 0..NumThreads :
         \E q \in [1..n -> A] : IsQueue(NULL, A, head, link, n, q)
  BY Zenon DEF HasQueue
<1>2. PICK q \in [1..n -> A] : IsQueue(NULL, A, head, link, n, q)
  BY <1>1, Zenon
<1>3. NumThreads \in Nat /\ NULL \notin A
  BY Facts, Zenon
<1>4. head = NULL \/ head \in A
  BY <1>2, <1>3 DEF IsQueue
<1>5. head = NULL <=> A = {}
  BY <1>2, <1>3 DEF IsQueue
<1>6. ASSUME NEW t \in A PROVE link[t] = NULL \/ link[t] \in A
  <2>1. PICK i \in 1..n : q[i] = t
    BY <1>2, Zenon DEF IsQueue
  <2>2. link[t] = IF i = n THEN NULL ELSE q[i+1]
    BY <1>2, <2>1, Zenon DEF IsQueue
  <2>3. i # n => i + 1 \in 1..n
    BY <1>3
  <2> QED
    BY <2>2, <2>3, Zenon
<1> QED
  BY <1>4, <1>5, <1>6, Zenon

Agree(A, f, g) == \A t \in A : f[t] = g[t]

\* A queue does not depend on the fields of other threads.
LEMMA QueueElsewhere ==
    ASSUME NEW A \in SUBSET Threads, NEW head \in Pointers,
           NEW link \in [Threads -> Pointers], NEW new \in [Threads -> Pointers],
           HasQueue(A, head, link), Agree(A, new, link)
    PROVE  HasQueue(A, head, new) /\ InOrder(head, new) = InOrder(head, link)
<1>1. PICK n \in 0..NumThreads :
         \E q \in [1..n -> A] : IsQueue(NULL, A, head, link, n, q)
  BY Zenon DEF HasQueue
<1>2. PICK q \in [1..n -> A] : IsQueue(NULL, A, head, link, n, q)
  BY <1>1, Zenon
<1>3. IsQueue(NULL, A, head, new, n, q)
  BY <1>2, Zenon DEF IsQueue, Agree
<1>4. InOrder(head, link) = q
  BY <1>2, QueueCells
<1>5. InOrder(head, new) = q
  BY <1>3, QueueCells, Zenon
<1> QED
  BY <1>3, <1>4, <1>5, Zenon DEF HasQueue

\* A is a queue that e is not in.
MayJoin(A, head, link, e) ==
    /\ A \in SUBSET Threads /\ e \in Threads \ A
    /\ head \in Pointers /\ link \in [Threads -> Pointers]
    /\ HasQueue(A, head, link) /\ link[e] = NULL

\* new is the queue old with e at its end.
OneMore(old, e, new) == new = Append(old, e)

\* What is added to a queue is then at its end.
LEMMA QueueAppend ==
    ASSUME NEW A, NEW head, NEW link, NEW e, MayJoin(A, head, link, e),
           NEW head2 \in Pointers, NEW link2 \in [Threads -> Pointers],
           AddedTo(NULL, A, head, link, e, head2, link2)
    PROVE  /\ HasQueue(A \cup {e}, head2, link2)
           /\ OneMore(InOrder(head, link), e, InOrder(head2, link2))
<1> USE DEF MayJoin
<1>1. PICK n \in 0..NumThreads :
         \E q \in [1..n -> A] : IsQueue(NULL, A, head, link, n, q)
  BY Zenon DEF HasQueue
<1>2. PICK q \in [1..n -> A] : IsQueue(NULL, A, head, link, n, q)
  BY <1>1
<1> DEFINE p == Append(q, e)
           B == A \cup {e}
           k == n + 1
<1>3. /\ IsQueue(NULL, B, head2, link2, k, p)
      /\ k <= Cardinality(Threads) /\ p \in [1..k -> B]
  <2>1. n \in Nat /\ link \in [Threads -> Threads \cup {NULL}]
    BY Facts
  <2> QED
    BY <1>2, <2>1, Facts, ListAppend, Zenon
<1>4. B \in SUBSET Threads /\ k \in 0..NumThreads
  BY <1>3, Facts
<1> HIDE DEF B, k, p
<1>5. InOrder(head, link) = q
  BY <1>2, QueueCells
<1>6. InOrder(head2, link2) = p
  BY <1>3, <1>4, QueueCells, ZenonT(30)
<1>7. HasQueue(B, head2, link2)
  BY <1>3, <1>4 DEF HasQueue
<1> QED
  BY <1>5, <1>6, <1>7 DEF p, B, OneMore

\* new is the queue old without w, its first thread.
OneLess(old, w, new) == old # <<>> /\ old[1] = w /\ new = Tail(old)

\* The first thread leaves a queue that is not empty.
LEMMA QueueTail ==
    ASSUME NEW A \in SUBSET Threads, NEW head \in Threads,
           NEW link \in [Threads -> Pointers], HasQueue(A, head, link)
    PROVE  /\ HasQueue(A \ {head}, link[head], [link EXCEPT ![head] = NULL])
           /\ OneLess(InOrder(head, link), head,
                      InOrder(link[head], [link EXCEPT ![head] = NULL]))
<1>1. PICK n \in 0..NumThreads :
         \E q \in [1..n -> A] : IsQueue(NULL, A, head, link, n, q)
  BY DEF HasQueue
<1>2. PICK q \in [1..n -> A] : IsQueue(NULL, A, head, link, n, q)
  BY <1>1
<1> DEFINE p == Tail(q)
           B == A \ {head}
           k == n - 1
           head2 == link[head]
           link2 == [link EXCEPT ![head] = NULL]
<1>3. /\ IsQueue(NULL, B, head2, link2, k, p)
      /\ q # <<>> /\ q[1] = head /\ k \in Nat
      /\ p \in [1..k -> B]
  <2>1. n \in Nat /\ link \in [Threads -> Threads \cup {NULL}]
    BY Facts
  <2> QED
    BY <1>2, <2>1, Facts, ListTail, Zenon
<1>4. /\ B \in SUBSET Threads /\ k \in 0..NumThreads /\ head \in Pointers
      /\ head2 \in Pointers /\ link2 \in [Threads -> Pointers]
  BY <1>3, Facts
<1> HIDE DEF B, k, p, head2, link2
<1>5. InOrder(head, link) = q
  BY <1>2, <1>4, QueueCells, ZenonT(30)
<1>6. InOrder(head2, link2) = p
  BY <1>3, <1>4, QueueCells, ZenonT(30)
<1>7. HasQueue(B, head2, link2)
  BY <1>3, <1>4 DEF HasQueue
<1> QED
  BY <1>3, <1>5, <1>6, <1>7, Zenon DEF p, B, head2, link2, OneLess


----------------------------------------------------------------------------
(* The steps that leave the queues alone.                                   *)

\* A step that neither adds nor removes a waiter keeps the lists.
LEMMA QueuesKept ==
    ASSUME QueueInv, UNCHANGED <<blocking_threads, mutex_blocking_next>>,
           \A t \in Threads : Queued(t)' <=> Queued(t),
           \A t \in Threads : Queued(t) => mtx'[t] = mtx[t],
           \A t \in Threads : pc'[t] \in Adding => status'[t] = "BLOCKING",
           WalkInv'
    PROVE  QueueInv'
<1>1. \A m \in Mutexes : InLine(m)' = InLine(m)
  BY Zenon DEF InLine
<1>2. \A m \in Mutexes :
          HasQueue(InLine(m)', blocking_threads[m]', mutex_blocking_next')
  BY <1>1, Zenon DEF QueueInv
<1> QED
  BY <1>2, Zenon DEF QueueInv

\* A step of a thread that is not on its way into a queue.
LEMMA QuietStep ==
    ASSUME TypeOK, QueueInv, NEW e \in Threads, NEW from, NEW to, Go(e, from, to),
           from \notin Adding \cup {"add_clear", "lock_yield"},
           to \notin Adding \cup {"add_clear", "lock_yield"},
           UNCHANGED <<cpu, blocking_threads, mutex_blocking_next>>,
           \A t \in Threads : status'[t] = "BLOCKING" <=> status[t] = "BLOCKING",
           \A t \in Threads \ {e} : mtx'[t] = mtx[t]
    PROVE  QueueInv'
<1>1. pc'[e] = to /\ \A t \in Threads \ {e} : pc'[t] = pc[t]
  BY Zenon DEF Go, TypeOK
<1>2. e = cpu /\ status[e] # "BLOCKING" /\ ~Queued(e)
  BY Zenon DEF Go, QueueInv, WalkInv, Queued
<1>3. \A t \in Threads : Queued(t)' <=> Queued(t)
  BY <1>1, <1>2, Zenon DEF Queued
<1>4. \A t \in Threads : pc'[t] \in Adding => status'[t] = "BLOCKING"
  BY <1>1 DEF QueueInv
<1>5. WalkInv'
  BY <1>1, <1>2, Zenon DEF WalkInv, Adding
<1> QED
  BY <1>2, <1>3, <1>4, <1>5, QueuesKept, Zenon

\* The timer's handler: a thread that it resumes is in no queue and not on its
\* way into one, since it was runnable.
LEMMA QuietYield ==
    ASSUME TypeOK, ContextIntegrity, QueueInv, pit_isr,
           UNCHANGED <<mtx, last, blocking_threads, mutex_blocking_next>>,
           ~preemption_enabled => pc' = pc,
           \A t \in Threads :
              /\ pc'[t] \in Adding <=> pc[t] \in Adding
              /\ pc'[t] = "add_clear" <=> pc[t] = "add_clear"
              /\ pc'[t] \in {"add_clear", "lock_yield", "lock_disable"} <=>
                    pc[t] \in {"add_clear", "lock_yield", "lock_disable"}
    PROVE  QueueInv'
<1>1. \A t \in Threads : status'[t] = "BLOCKING" <=> status[t] = "BLOCKING"
  BY Switch, Zenon DEF TypeOK
<1>2. \A t \in Threads : Queued(t)' <=> Queued(t)
  BY <1>1, Zenon DEF Queued
<1>3. \A t \in Threads : pc'[t] \in Adding => status'[t] = "BLOCKING"
  BY <1>1, Zenon DEF QueueInv
<1>4. WalkInv'
  <2>1. CASE UNCHANGED <<status, current_thread, cpu>> /\ ~preemption_enabled
    <3>1. \A m \in Mutexes : InLine(m)' = InLine(m)
      BY <1>2, Zenon DEF InLine
    <3> QED
      BY <2>1, <3>1, Zenon DEF QueueInv, WalkInv, TypeOK
  <2>2. CASE /\ cpu' \in Threads
             /\ status[cpu'] \in {"RUNNING", "PENDING"}
             /\ status' = [status EXCEPT ![cpu'] = "RUNNING"]
    <3>1. status'[cpu'] # "BLOCKING" /\ pc'[cpu'] \notin Adding
      BY <1>3, <2>2, Zenon DEF TypeOK
    <3>2. mutex_blocking_next'[cpu'] = NULL
      BY <2>2 DEF QueueInv, Queued
    <3> QED
      BY <3>1, <3>2, Zenon DEF WalkInv, Adding
  <2> QED
    BY <2>1, <2>2, Switch, Zenon
<1> QED
  BY <1>2, <1>3, <1>4, QueuesKept, Zenon

\* thread_create, thread_exit and a voluntary yield.
LEMMA SchedStepQueues ==
    ASSUME TypeOK, SchedInv, QueueInv, NEW e \in Threads, SchedStep(e),
           UNCHANGED mutexVars
    PROVE  QueueInv'
<1> USE DEF Adding, mutexVars, schedVars, listVars
<1>1. CASE \/ thread_create_enter(e) \/ thread_create_disable(e)
           \/ thread_create_fail(e) \/ thread_create_restore(e)
  BY <1>1, QuietStep, Zenon DEF thread_create_enter, thread_create_disable,
      thread_create_fail, thread_create_restore, Call
<1>2. CASE \E t \in Threads : thread_create_succeed(e, t)
  <2>1. \A t \in Threads : status'[t] = "BLOCKING" <=> status[t] = "BLOCKING"
    BY <1>2, Zenon DEF thread_create_succeed, TypeOK
  <2> QED
    BY <1>2, <2>1, QuietStep, Zenon DEF thread_create_succeed
<1>3. CASE thread_exit(e)
  <2>1. status[current_thread] # "BLOCKING"
    BY <1>3, Zenon DEF thread_exit, Call, Go, QueueInv, WalkInv, SchedInv,
        ContextIntegrity
  <2>2. \A t \in Threads : status'[t] = "BLOCKING" <=> status[t] = "BLOCKING"
    BY <1>3, <2>1, Zenon DEF thread_exit, TypeOK
  <2> QED
    BY <1>3, <2>2, QuietStep, Zenon DEF thread_exit, Call
<1>4. CASE thread_exit_yield(e) \/ client_yield(e)
  <2>1. pit_isr /\ preemption_enabled
    BY <1>4 DEF thread_exit_yield, client_yield, scheduler_yield, Go, SchedInv,
        PreemptionDiscipline, NonPreemptible
  <2>2. \A t \in Threads :
            \/ pc'[t] = pc[t]
            \/ pc[t] \in {"exit_yield", "client"} /\ pc'[t] \in {"exited", "client"}
    BY <1>4, Zenon DEF thread_exit_yield, client_yield, scheduler_yield, Go, TypeOK
  <2> QED
    BY <2>1, <2>2, QuietYield, Zenon DEF SchedInv
<1> QED
  BY <1>1, <1>2, <1>3, <1>4, Zenon DEF SchedStep

----------------------------------------------------------------------------
(* The steps that change a queue.                                           *)

\* Another mutex's queue stays as it is.
LEMMA OtherQueue ==
    ASSUME TypeOK, TypeOK', QueueInv, NEW k \in Mutexes, InLine(k)' = InLine(k),
           blocking_threads'[k] = blocking_threads[k],
           \A t \in InLine(k) : mutex_blocking_next'[t] = mutex_blocking_next[t]
    PROVE  /\ HasQueue(InLine(k)', blocking_threads'[k], mutex_blocking_next')
           /\ Waiters(k)' = Waiters(k)
<1> DEFINE A == InLine(k)
           head == blocking_threads[k]
           link == mutex_blocking_next
           new == mutex_blocking_next'
<1>1. /\ A \in SUBSET Threads /\ head \in Pointers
      /\ link \in [Threads -> Pointers] /\ new \in [Threads -> Pointers]
      /\ HasQueue(A, head, link) /\ Agree(A, new, link)
  BY Zenon DEF TypeOK, QueueInv, InLine, Agree
<1> HIDE DEF A, head, link, new
<1>2. HasQueue(A, head, new) /\ InOrder(head, new) = InOrder(head, link)
  BY <1>1, QueueElsewhere, SMTT(30)
<1> QED
  BY <1>2, Zenon DEF Waiters, A, head, link, new

\* The running thread joins the queue of the mutex it waits for, at its end.
LEMMA Joins ==
    ASSUME TypeOK, TypeOK', QueueInv, NEW e \in Threads, e = cpu, ~Queued(e),
           status[e] = "BLOCKING", Go(e, pc[e], "add_clear"),
           UNCHANGED <<status, mtx, cpu>>,
           AddedTo(NULL, InLine(mtx[e]), blocking_threads[mtx[e]],
                   mutex_blocking_next, e, blocking_threads'[mtx[e]],
                   mutex_blocking_next'),
           \A k \in Mutexes \ {mtx[e]} : blocking_threads'[k] = blocking_threads[k]
    PROVE  /\ QueueInv'
           /\ OneMore(Waiters(mtx[e]), e, Waiters(mtx[e])')
           /\ \A k \in Mutexes \ {mtx[e]} : Waiters(k)' = Waiters(k)
<1> DEFINE m == mtx[e]
<1>1. pc'[e] = "add_clear" /\ \A t \in Threads \ {e} : pc'[t] = pc[t]
  BY Zenon DEF Go, TypeOK
<1>2. Queued(e)' /\ \A t \in Threads \ {e} : Queued(t)' <=> Queued(t)
  BY <1>1, Zenon DEF Queued
<1>3. InLine(m)' = InLine(m) \cup {e} /\ e \notin InLine(m) /\ m \in Mutexes
  <2>1. m \in Mutexes /\ e \notin InLine(m) /\ mtx' = mtx
    BY Zenon DEF InLine, TypeOK
  <2>2. ASSUME NEW t \in Threads
        PROVE  t \in InLine(m)' <=> t \in InLine(m) \cup {e}
    BY <1>2, <2>1, Zenon DEF InLine
  <2>3. InLine(m)' \subseteq Threads /\ InLine(m) \cup {e} \subseteq Threads
    BY Zenon DEF InLine
  <2> HIDE DEF m
  <2> QED
    BY <2>1, <2>2, <2>3, Zenon
<1>4. \A k \in Mutexes \ {m} : InLine(k)' = InLine(k)
  BY <1>2, Zenon DEF InLine
<1>5. mutex_blocking_next[e] = NULL
  BY Zenon DEF QueueInv
<1>6. \A k \in Mutexes : InLine(k) \in SUBSET Threads
  BY Zenon DEF InLine
<1>7. ASSUME NEW k \in Mutexes \ {m}
      PROVE  /\ blocking_threads'[k] = blocking_threads[k]
             /\ \A t \in InLine(k) :
                   mutex_blocking_next'[t] = mutex_blocking_next[t]
  BY Zenon DEF TypeOK, InLine, AddedTo
<1>8. ASSUME NEW k \in Mutexes \ {m}
      PROVE  /\ HasQueue(InLine(k)', blocking_threads'[k], mutex_blocking_next')
             /\ Waiters(k)' = Waiters(k)
  BY <1>4, <1>7, OtherQueue, Zenon
<1>9. AddedTo(NULL, InLine(m), blocking_threads[m], mutex_blocking_next, e,
              blocking_threads'[m], mutex_blocking_next')
  BY Zenon
<1>10. /\ blocking_threads[m] \in Pointers /\ blocking_threads'[m] \in Pointers
       /\ mutex_blocking_next \in [Threads -> Pointers]
       /\ mutex_blocking_next' \in [Threads -> Pointers]
  BY <1>3, Zenon DEF TypeOK
<1>11. HasQueue(InLine(m), blocking_threads[m], mutex_blocking_next)
  BY <1>3, Zenon DEF QueueInv
<1>12. /\ HasQueue(InLine(m) \cup {e}, blocking_threads'[m], mutex_blocking_next')
       /\ OneMore(InOrder(blocking_threads[m], mutex_blocking_next), e,
                  InOrder(blocking_threads'[m], mutex_blocking_next'))
  <2> DEFINE A == InLine(m)
             head == blocking_threads[m]
             link == mutex_blocking_next
             head2 == blocking_threads'[m]
             link2 == mutex_blocking_next'
  <2>1. /\ MayJoin(A, head, link, e)
        /\ head2 \in Pointers /\ link2 \in [Threads -> Pointers]
        /\ AddedTo(NULL, A, head, link, e, head2, link2)
    BY <1>3, <1>5, <1>6, <1>9, <1>10, <1>11, Zenon DEF MayJoin
  <2> HIDE DEF A, head, link, head2, link2
  <2>2. /\ HasQueue(A \cup {e}, head2, link2)
        /\ OneMore(InOrder(head, link), e, InOrder(head2, link2))
    BY <2>1, QueueAppend, Zenon
  <2> QED
    BY <2>2, Zenon DEF A, head, link, head2, link2
<1>13. \A t \in Threads : ~Queued(t)' => mutex_blocking_next'[t] = NULL
  <2> SUFFICES ASSUME NEW t \in Threads, ~Queued(t)'
               PROVE  mutex_blocking_next'[t] = NULL
    BY Zenon
  <2>1. t # e /\ ~Queued(t) /\ t \notin InLine(m)
    BY <1>2, Zenon DEF InLine
  <2>2. mutex_blocking_next[t] = NULL
    BY <2>1, Zenon DEF QueueInv
  <2>3. \/ mutex_blocking_next' = mutex_blocking_next
        \/ \E l \in InLine(m) :
              mutex_blocking_next' = [mutex_blocking_next EXCEPT ![l] = e]
    BY <1>9, Zenon DEF AddedTo
  <2> QED
    BY <2>1, <2>2, <2>3, Zenon DEF TypeOK
<1>14. \A t \in Threads : pc'[t] \in Adding => status'[t] = "BLOCKING"
  BY <1>1, Zenon DEF QueueInv
<1>15. mutex_blocking_next'[e] = NULL
  BY <1>3, <1>5, <1>9, Zenon DEF TypeOK, AddedTo
<1>16. WalkInv'
  BY <1>1, <1>15, Zenon DEF WalkInv, Adding
<1>17. \A k \in Mutexes : HasQueue(InLine(k)', blocking_threads'[k], mutex_blocking_next')
  BY <1>3, <1>8, <1>12, Zenon
<1>18. QueueInv'
  BY <1>13, <1>14, <1>16, <1>17, Zenon DEF QueueInv
<1>19. UNCHANGED mtx
  BY Zenon
<1> QED
  BY <1>8, <1>12, <1>18, <1>19, Zenon DEF Waiters

\* The first waiter of m leaves its queue and is runnable again.
LEMMA Leaves ==
    ASSUME TypeOK, TypeOK', QueueInv, NEW e \in Threads, NEW m \in Mutexes,
           NEW w \in Threads, w = blocking_threads[m],
           Go(e, "unlock_wake", "unlock_return"),
           unblock_blocking_thread(m), UNCHANGED <<mtx, cpu>>
    PROVE  /\ QueueInv'
           /\ OneLess(Waiters(m), w, Waiters(m)') /\ status'[w] = "RUNNING"
           /\ \A k \in Mutexes \ {m} : Waiters(k)' = Waiters(k)
<1>1. HasQueue(InLine(m), blocking_threads[m], mutex_blocking_next)
  BY Zenon DEF QueueInv
<1>2. \A k \in Mutexes : InLine(k) \in SUBSET Threads
  BY Zenon DEF InLine
<1>3. w \in InLine(m) /\ Queued(w) /\ mtx[w] = m /\ status[w] = "BLOCKING"
  <2>1. w \in InLine(m)
    BY <1>1, <1>2, QueueLinks, Zenon
  <2> QED
    BY <2>1, Zenon DEF InLine, Queued
<1>4. /\ blocking_threads' = [blocking_threads EXCEPT ![m] = mutex_blocking_next[w]]
      /\ mutex_blocking_next' = [mutex_blocking_next EXCEPT ![w] = NULL]
      /\ status' = [status EXCEPT ![w] = "RUNNING"]
  BY <1>3 DEF unblock_blocking_thread
<1>5. e = cpu /\ pc[e] = "unlock_wake" /\ pc'[e] = "unlock_return"
  BY Zenon DEF Go, TypeOK
<1>6. status[e] # "BLOCKING" /\ e # w
  BY <1>3, <1>5, Zenon DEF QueueInv, WalkInv, Adding
<1>7. \A t \in Threads \ {e} : pc'[t] = pc[t]
  BY Zenon DEF Go, TypeOK
<1>8. \A t \in Threads \ {w} : status'[t] = status[t]
  BY <1>4, Zenon DEF TypeOK
<1>9. status'[w] = "RUNNING"
  BY <1>4, Zenon DEF TypeOK
<1>10. ~Queued(w)' /\ \A t \in Threads \ {w} : Queued(t)' <=> Queued(t)
  BY <1>5, <1>6, <1>7, <1>8, <1>9, Zenon DEF Queued
<1>11. InLine(m)' = InLine(m) \ {w}
  BY <1>3, <1>10, Zenon DEF InLine
<1>12. \A k \in Mutexes \ {m} : InLine(k)' = InLine(k)
  BY <1>3, <1>10 DEF InLine
<1>13. ASSUME NEW k \in Mutexes \ {m}
       PROVE  /\ HasQueue(InLine(k)', blocking_threads'[k], mutex_blocking_next')
              /\ Waiters(k)' = Waiters(k)
  <2>1. /\ blocking_threads'[k] = blocking_threads[k]
        /\ \A t \in InLine(k) : mutex_blocking_next'[t] = mutex_blocking_next[t]
    BY <1>3, <1>4, Zenon DEF TypeOK, InLine
  <2> QED
    BY <1>12, <2>1, OtherQueue, Zenon
<1>14. /\ HasQueue(InLine(m)', blocking_threads'[m], mutex_blocking_next')
       /\ OneLess(Waiters(m), w, Waiters(m)')
  <2> DEFINE A == InLine(m)
             link == mutex_blocking_next
  <2>1. /\ A \in SUBSET Threads /\ link \in [Threads -> Pointers]
        /\ HasQueue(A, w, link)
    BY <1>1, <1>2, Zenon DEF TypeOK
  <2> HIDE DEF A, link
  <2>2. /\ HasQueue(A \ {w}, link[w], [link EXCEPT ![w] = NULL])
        /\ OneLess(InOrder(w, link), w, InOrder(link[w], [link EXCEPT ![w] = NULL]))
    BY <2>1, QueueTail, Zenon
  <2>3. blocking_threads'[m] = link[w] /\ mutex_blocking_next' = [link EXCEPT ![w] = NULL]
    BY <1>4, Zenon DEF TypeOK, link
  <2> QED
    BY <1>11, <2>2, <2>3, Zenon DEF Waiters, A, link
<1>15. \A t \in Threads : ~Queued(t)' => mutex_blocking_next'[t] = NULL
  BY <1>4, <1>10, Zenon DEF QueueInv, TypeOK
<1>16. \A t \in Threads : pc'[t] \in Adding => status'[t] = "BLOCKING"
  <2>1. pc[w] \notin Adding
    BY <1>3, Zenon DEF Queued, Adding
  <2> QED
    BY <1>5, <1>6, <1>7, <1>8, <2>1, Zenon DEF QueueInv, Adding
<1>17. WalkInv'
  BY <1>5, <1>6, <1>8, Zenon DEF WalkInv, Adding
<1>18. \A k \in Mutexes : HasQueue(InLine(k)', blocking_threads'[k], mutex_blocking_next')
  BY <1>13, <1>14, Zenon
<1>19. QueueInv'
  BY <1>15, <1>16, <1>17, <1>18, Zenon DEF QueueInv
<1> QED
  BY <1>9, <1>13, <1>14, <1>19, Zenon

\* What a step may do to the waiters of m.
Served(m) ==
    \/ Waiters(m)' = Waiters(m)
    \/ \E t \in Threads : OneMore(Waiters(m), t, Waiters(m)')
    \/ \E w \in Threads : OneLess(Waiters(m), w, Waiters(m)') /\ status'[w] = "RUNNING"

\* mutex_lock: the steps in which the caller adds itself to the waiters.
AddStep(e) ==
    \/ mutex_lock_block(e) \/ add_blocking_test(e)
    \/ add_blocking_first(e) \/ add_blocking_walk(e)
    \/ add_blocking_advance(e) \/ add_blocking_append(e)
    \/ add_blocking_clear(e)

\* mutex_lock adds the caller at the end of the list, and disturbs no other list
\* (mutex.c:17-40).
LEMMA AddStepQueues ==
    ASSUME TypeOK, TypeOK', SchedInv, QueueInv, NEW e \in Threads,
           AddStep(e)
    PROVE  QueueInv' /\ \A m \in Mutexes : Served(m)
<1> DEFINE m == mtx[e]
<1>1. /\ e = cpu /\ th[e] = e /\ m \in Mutexes /\ UNCHANGED <<mtx, cpu>>
      /\ \A t \in Threads \ {e} : pc'[t] = pc[t]
  BY ZenonT(30) DEF AddStep, Go, SchedInv, ContextIntegrity, TypeOK, mutex_lock_block,
      add_blocking_test, add_blocking_first, add_blocking_walk,
      add_blocking_advance, add_blocking_append, add_blocking_clear,
      schedVars, mutexVars
<1>2. /\ HasQueue(InLine(m), blocking_threads[m], mutex_blocking_next)
      /\ InLine(m) \in SUBSET Threads
  BY <1>1, Zenon DEF QueueInv, InLine
<1>3. ASSUME UNCHANGED <<blocking_threads, mutex_blocking_next>>
      PROVE  \A k \in Mutexes : Served(k)
  BY <1>3, Zenon DEF Served, Waiters
<1>4. ASSUME UNCHANGED <<blocking_threads, mutex_blocking_next>>,
             pc[e] \in Adding \cup {"lock_block"}, pc'[e] \in Adding,
             status'[e] = "BLOCKING",
             \A t \in Threads \ {e} : status'[t] = status[t],
             pc'[e] = "add_first" => blocking_threads[m] = NULL,
             pc'[e] \in {"add_walk", "add_advance", "add_append"} =>
                last'[e] \in InLine(m),
             pc'[e] \in {"add_append", "add_advance"} =>
                (mutex_blocking_next[last'[e]] = NULL <=> pc'[e] = "add_append")
      PROVE  QueueInv'
  <2>1. ~Queued(e) /\ ~Queued(e)'
    BY <1>4, Zenon DEF Queued, Adding
  <2>2. \A t \in Threads : Queued(t)' <=> Queued(t)
    BY <1>1, <1>4, <2>1, Zenon DEF Queued
  <2>3. \A t \in Threads : pc'[t] \in Adding => status'[t] = "BLOCKING"
    BY <1>1, <1>4, Zenon DEF QueueInv
  <2>4. InLine(m)' = InLine(m)
    BY <1>1, <2>2, Zenon DEF InLine
  <2>5. WalkInv'
    BY <1>1, <1>4, <2>4, Zenon DEF WalkInv, Adding
  <2> QED
    BY <1>1, <1>4, <2>2, <2>3, <2>5, QueuesKept, Zenon
<1>5. CASE mutex_lock_block(e)
  <2>1. /\ pc[e] = "lock_block" /\ pc'[e] = "add_test"
        /\ status'[e] = "BLOCKING" /\ \A t \in Threads \ {e} : status'[t] = status[t]
        /\ UNCHANGED <<blocking_threads, mutex_blocking_next>>
    BY <1>1, <1>5, Zenon DEF mutex_lock_block, Go, TypeOK, mutexVars
  <2> QED
    BY <1>3, <1>4, <2>1, Zenon DEF Adding
<1>6. CASE add_blocking_test(e)
  <2>1. pc[e] = "add_test" /\ UNCHANGED <<status, blocking_threads, mutex_blocking_next>>
    BY <1>6, Zenon DEF add_blocking_test, Go, schedVars
  <2>2. status[e] = "BLOCKING" /\ e \notin InLine(m)
    BY <2>1, Zenon DEF QueueInv, InLine, Queued, Adding
  <2>3. blocking_threads[m] # e
    BY <1>2, <2>2, QueueLinks, SMTT(60)
  <2>4. \/ blocking_threads[m] = NULL /\ pc'[e] = "add_first"
        \/ /\ blocking_threads[m] # NULL
           /\ pc'[e] = "add_walk" /\ last'[e] = blocking_threads[m]
    BY <1>1, <1>6, <2>3, Zenon DEF add_blocking_test, FirstWaiter, Go, TypeOK
  <2>5. blocking_threads[m] # NULL => blocking_threads[m] \in InLine(m)
    BY <1>2, QueueLinks, Zenon
  <2> QED
    BY <1>3, <1>4, <2>1, <2>2, <2>4, <2>5, Zenon DEF Adding
<1>7. CASE add_blocking_walk(e) \/ add_blocking_advance(e)
  <2>1. /\ pc[e] \in {"add_walk", "add_advance"} /\ last[e] \in InLine(m)
        /\ UNCHANGED <<status, blocking_threads, mutex_blocking_next>>
    BY <1>1, <1>7, Zenon DEF add_blocking_walk, add_blocking_advance, Go, schedVars,
        QueueInv, WalkInv
  <2>2. status[e] = "BLOCKING" /\ e \notin InLine(m)
    BY <2>1, Zenon DEF QueueInv, InLine, Queued, Adding
  <2>3. /\ last[e] # e /\ last[e] # NULL
        /\ mutex_blocking_next[last[e]] = NULL
             \/ mutex_blocking_next[last[e]] \in InLine(m)
    <3>1. \A t \in InLine(m) : mutex_blocking_next[t] = NULL
                                \/ mutex_blocking_next[t] \in InLine(m)
      BY <1>2, QueueLinks, Zenon
    <3> QED
      BY <1>2, <2>1, <2>2, <3>1, Zenon
  <2>4. CASE add_blocking_walk(e)
    <3>1. /\ last'[e] = last[e]
          /\ pc'[e] = IF mutex_blocking_next[last[e]] = NULL
                        THEN "add_append" ELSE "add_advance"
      BY <1>1, <2>3, <2>4, Zenon DEF add_blocking_walk, Go, TypeOK
    <3> QED
      BY <1>3, <1>4, <2>1, <2>2, <3>1, Zenon DEF Adding
  <2>5. CASE add_blocking_advance(e)
    <3>1. pc'[e] = "add_walk" /\ last'[e] = mutex_blocking_next[last[e]]
      BY <2>5, Zenon DEF add_blocking_advance, Go, TypeOK
    <3>2. mutex_blocking_next[last[e]] # NULL
      BY <1>1, <2>5, Zenon DEF add_blocking_advance, Go, QueueInv, WalkInv
    <3> QED
      BY <1>3, <1>4, <2>1, <2>2, <2>3, <3>1, <3>2, Zenon DEF Adding
  <2> QED
    BY <1>7, <2>4, <2>5, Zenon
<1>8. CASE add_blocking_first(e) \/ add_blocking_append(e)
  <2>1. /\ pc[e] \in {"add_first", "add_append"} /\ Go(e, pc[e], "add_clear")
        /\ UNCHANGED status
    BY <1>8, Zenon DEF add_blocking_first, add_blocking_append, Go, schedVars
  <2>2. status[e] = "BLOCKING" /\ ~Queued(e)
    BY <2>1, Zenon DEF QueueInv, Queued, Adding
  <2>3. /\ AddedTo(NULL, InLine(m), blocking_threads[m], mutex_blocking_next, e,
                   blocking_threads'[m], mutex_blocking_next')
        /\ \A k \in Mutexes \ {m} : blocking_threads'[k] = blocking_threads[k]
    <3>1. CASE add_blocking_first(e)
      <4>1. blocking_threads[m] = NULL
        BY <1>1, <3>1, Zenon DEF add_blocking_first, Go, QueueInv, WalkInv
      <4> QED
        BY <1>1, <3>1, <4>1, Zenon DEF add_blocking_first, AddedTo, TypeOK
    <3>2. CASE add_blocking_append(e)
      <4>1. last[e] \in InLine(m) /\ mutex_blocking_next[last[e]] = NULL
        BY <1>1, <3>2, Zenon DEF add_blocking_append, Go, QueueInv, WalkInv
      <4> QED
        BY <1>1, <3>2, <4>1, Zenon DEF add_blocking_append, AddedTo
    <3> QED
      BY <1>8, <3>1, <3>2, Zenon
  <2> QED
    BY <1>1, <2>1, <2>2, <2>3, Joins, Zenon DEF Served
<1>9. CASE add_blocking_clear(e)
  <2>1. /\ pc[e] = "add_clear" /\ pc'[e] = "lock_yield"
        /\ UNCHANGED <<status, blocking_threads>>
    BY <1>9, Zenon DEF add_blocking_clear, Go, TypeOK, schedVars
  <2>2. UNCHANGED mutex_blocking_next
    <3>1. mutex_blocking_next[e] = NULL
      BY <1>1, <2>1, Zenon DEF QueueInv, WalkInv
    <3>2. mutex_blocking_next' = [mutex_blocking_next EXCEPT ![e] = NULL]
      BY <1>1, <1>9, Zenon DEF add_blocking_clear
    <3>3. mutex_blocking_next \in [Threads -> Pointers]
      BY Zenon DEF TypeOK
    <3> QED
      BY <3>1, <3>2, <3>3, Zenon
  <2>3. \A t \in Threads : Queued(t)' <=> Queued(t)
    BY <1>1, <2>1, Zenon DEF Queued
  <2>4. \A t \in Threads : pc'[t] \in Adding => status'[t] = "BLOCKING"
    BY <1>1, <2>1 DEF QueueInv, Adding
  <2>5. WalkInv'
    BY <1>1, <2>1, Zenon DEF WalkInv, Adding
  <2> QED
    BY <1>1, <1>3, <2>1, <2>2, <2>3, <2>4, <2>5, QueuesKept, Zenon
<1> QED
  BY <1>5, <1>6, <1>7, <1>8, <1>9, Zenon DEF AddStep

\* mutex_lock.
LEMMA LockStepQueues ==
    ASSUME TypeOK, TypeOK', SchedInv, QueueInv, NEW e \in Threads, LockStep(e)
    PROVE  QueueInv' /\ \A m \in Mutexes : Served(m)
<1> USE DEF Adding, mutexVars, schedVars, listVars
<1>1. ASSUME QueueInv', UNCHANGED <<blocking_threads, mutex_blocking_next>>
      PROVE  QueueInv' /\ \A m \in Mutexes : Served(m)
  BY <1>1, Zenon DEF Served, Waiters
<1>2. CASE \E m \in Mutexes : mutex_lock_enter(e, m)
  <2>1. \A t \in Threads \ {e} : mtx'[t] = mtx[t]
    BY <1>2, Zenon DEF mutex_lock_enter, enter, TypeOK
  <2> QED
    BY <1>1, <1>2, <2>1, QuietStep, Zenon DEF mutex_lock_enter, enter, Call
<1>3. CASE mutex_lock_disable(e) \/ mutex_lock_enable(e) \/ mutex_lock_return(e)
  BY <1>1, <1>3, QuietStep, Zenon DEF mutex_lock_disable, mutex_lock_enable,
      mutex_lock_return, set_preemption
<1>4. CASE mutex_lock_test(e) \/ mutex_lock_set(e)
  BY <1>1, <1>4, QuietStep, Zenon DEF mutex_lock_test, mutex_lock_set
<1>5. CASE mutex_lock_yield(e)
  <2>1. pit_isr /\ preemption_enabled
    BY <1>5, ZenonT(30) DEF mutex_lock_yield, scheduler_yield, Go, SchedInv,
        PreemptionDiscipline, NonPreemptible
  <2>2. \A t \in Threads :
            \/ pc'[t] = pc[t]
            \/ pc[t] = "lock_yield" /\ pc'[t] = "lock_disable"
    BY <1>5, Zenon DEF mutex_lock_yield, scheduler_yield, Go, TypeOK
  <2>3. QueueInv'
    BY <1>5, <2>1, <2>2, QuietYield, Zenon DEF SchedInv, mutex_lock_yield
  <2> QED
    BY <1>1, <1>5, <2>3, Zenon DEF mutex_lock_yield
<1>6. CASE ~(\/ \E m \in Mutexes : mutex_lock_enter(e, m)
             \/ mutex_lock_disable(e) \/ mutex_lock_enable(e)
             \/ mutex_lock_return(e) \/ mutex_lock_test(e)
             \/ mutex_lock_set(e) \/ mutex_lock_yield(e))
  BY <1>6, AddStepQueues, Zenon DEF LockStep, AddStep
<1> QED
  BY <1>2, <1>3, <1>4, <1>5, <1>6, Zenon

\* mutex_try_lock and mutex_unlock.
LEMMA TryUnlockStepQueues ==
    ASSUME TypeOK, TypeOK', QueueInv, NEW e \in Threads, TryUnlockStep(e)
    PROVE  QueueInv' /\ \A m \in Mutexes : Served(m)
<1> USE DEF Adding, mutexVars, schedVars, listVars
<1>1. ASSUME QueueInv', UNCHANGED <<blocking_threads, mutex_blocking_next>>
      PROVE  QueueInv' /\ \A m \in Mutexes : Served(m)
  BY <1>1, Zenon DEF Served, Waiters
<1>2. CASE \E m \in Mutexes : mutex_try_lock_enter(e, m) \/ mutex_unlock_enter(e, m)
  <2>1. \A t \in Threads \ {e} : mtx'[t] = mtx[t]
    BY <1>2, Zenon DEF mutex_try_lock_enter, mutex_unlock_enter, enter, TypeOK
  <2> QED
    BY <1>1, <1>2, <2>1, QuietStep, Zenon DEF mutex_try_lock_enter,
        mutex_unlock_enter, enter, Call
<1>3. CASE mutex_try_lock_disable(e) \/ mutex_try_lock_fail(e)
  BY <1>1, <1>3, QuietStep, Zenon DEF mutex_try_lock_disable, mutex_try_lock_fail,
      set_preemption
<1>4. CASE mutex_unlock_disable(e) \/ mutex_unlock_refuse(e) \/ mutex_unlock_return(e)
  BY <1>1, <1>4, QuietStep, Zenon DEF mutex_unlock_disable, mutex_unlock_refuse,
      mutex_unlock_return, set_preemption
<1>5. CASE mutex_try_lock_test(e) \/ mutex_unlock_test(e) \/ mutex_unlock_clear(e)
  BY <1>1, <1>5, QuietStep, Zenon DEF mutex_try_lock_test, mutex_unlock_test,
      mutex_unlock_clear
<1>6. CASE mutex_unlock_wake(e)
  <2> DEFINE m == mtx[e]
  <2>1. /\ m \in Mutexes /\ Go(e, "unlock_wake", "unlock_return")
        /\ unblock_blocking_thread(m) /\ UNCHANGED <<mtx, cpu>>
    BY <1>6, Zenon DEF mutex_unlock_wake, TypeOK
  <2>2. CASE blocking_threads[m] = NULL
    <3>1. UNCHANGED <<blocking_threads, mutex_blocking_next, status>>
      BY <2>1, <2>2, Zenon DEF unblock_blocking_thread
    <3> QED
      BY <1>1, <2>1, <3>1, QuietStep, Zenon
  <2>3. CASE blocking_threads[m] # NULL
    <3>1. blocking_threads[m] \in Threads
      BY <2>1, <2>3, Zenon DEF TypeOK, Pointers
    <3> HIDE DEF m
    <3> QED
      BY <2>1, <3>1, Leaves, Zenon DEF Served
  <2> QED
    BY <2>2, <2>3, Zenon
<1> QED
  BY <1>2, <1>3, <1>4, <1>5, <1>6, Zenon DEF TryUnlockStep

\* Main's loop and the timer.
LEMMA MainStepQueues ==
    ASSUME TypeOK, SchedInv, QueueInv, MainStep \/ TimerInterrupt,
           UNCHANGED mutexVars
    PROVE  QueueInv'
<1> USE DEF Adding, mutexVars, schedVars
<1>1. CASE main_enter_loop \/ main_loop_check \/ main_halt
  BY <1>1, QuietStep, Zenon DEF main_enter_loop, main_loop_check, main_halt
<1>2. CASE main_loop_yield \/ TimerInterrupt
  <2>1. pit_isr
    BY <1>2, Zenon DEF main_loop_yield, scheduler_yield, TimerInterrupt
  <2>2. \A t \in Threads :
            \/ pc'[t] = pc[t]
            \/ pc[t] \in {"loop_yield", "halted"} /\ pc'[t] = "loop"
    BY <1>2, Zenon DEF main_loop_yield, scheduler_yield, Go, TypeOK, TimerInterrupt
  <2>3. ~preemption_enabled => pc' = pc
    <3>1. pc[cpu] \in {"loop_yield", "halted"} => preemption_enabled
      BY Zenon DEF SchedInv, PreemptionDiscipline, NonPreemptible, TypeOK
    <3> QED
      BY <1>2, <3>1, Zenon DEF main_loop_yield, scheduler_yield, Go, TimerInterrupt
  <2> QED
    BY <2>1, <2>2, <2>3, QuietYield, Zenon DEF SchedInv
<1> QED
  BY <1>1, <1>2 DEF MainStep

\* The queues stay sound, and are served in order.
LEMMA NextQueues ==
    ASSUME TypeOK, TypeOK', SchedInv, QueueInv, [Next]_vars
    PROVE  QueueInv' /\ \A m \in Mutexes : Served(m)
<1>1. CASE UNCHANGED mutexVars /\ QueueInv'
  BY <1>1, Zenon DEF Served, Waiters, mutexVars
<1>2. CASE UNCHANGED vars
  <2>1. WalkInv' /\ \A t \in Threads : Queued(t)' <=> Queued(t)
    BY <1>2, Zenon DEF vars, schedVars, mutexVars, QueueInv, WalkInv, InLine, Queued
  <2>2. QueueInv'
    BY <1>2, <2>1, QueuesKept, Zenon DEF vars, schedVars, mutexVars, QueueInv
  <2> QED
    BY <1>1, <1>2, <2>2 DEF vars
<1> QED
  BY <1>1, <1>2, SchedStepQueues, LockStepQueues, TryUnlockStepQueues,
      MainStepQueues, Zenon DEF Next

----------------------------------------------------------------------------

\* The queues are sound in every reachable state.
LEMMA QueueInvariance == Spec => []QueueInv
<1>1. Init => QueueInv
  <2> SUFFICES ASSUME Init PROVE QueueInv
    BY Zenon
  <2>1. /\ blocking_threads = [m \in Mutexes |-> NULL]
        /\ mutex_blocking_next = [t \in Threads |-> NULL]
        /\ cpu \in Threads
        /\ \A t \in Threads : pc[t] = "client" /\ status[t] # "BLOCKING"
    BY Zenon DEF Init, SchedInit
  <2>2. \A m \in Mutexes : InLine(m) = {}
    BY <2>1, Zenon DEF InLine, Queued
  <2>3. NumThreads \in Nat /\ Cardinality({}) = 0
    BY FS_CardinalityType, FS_EmptySet DEF NumThreads
  <2>4. HasQueue({}, NULL, mutex_blocking_next)
    <3> DEFINE q == [i \in 1..0 |-> NULL]
    <3>1. 0 \in 0..NumThreads /\ q \in [1..0 -> {}]
      BY <2>3
    <3>2. IsQueue(NULL, {}, NULL, mutex_blocking_next, 0, q)
      BY <2>3 DEF IsQueue
    <3> HIDE DEF q
    <3> QED
      BY <3>1, <3>2, Zenon DEF HasQueue
  <2>5. WalkInv
    BY <2>1, Zenon DEF WalkInv
  <2> QED
    BY <2>1, <2>2, <2>4, <2>5, Zenon DEF QueueInv, Adding
<1>2. IInv /\ QueueInv /\ [Next]_vars /\ IInv' => QueueInv'
  BY NextQueues DEF IInv, TypeInv
<1> QED
  BY <1>1, <1>2, Invariance, PTL DEF Spec

\* The waiters of a mutex are a list without cycle or repetition of threads
\* that are blocked in mutex_lock on that mutex, and a thread that adds itself
\* walks along the list and appends to its last thread.
THEOREM WaitersAreSound == Spec => []WaitersSound
<1>1. IInv /\ QueueInv => WaitersSound
  <2> SUFFICES ASSUME IInv, QueueInv PROVE WaitersSound
    OBVIOUS
  <2>1. TypeOK
    BY Zenon DEF IInv, TypeInv
  <2>2. ASSUME NEW m \in Mutexes
        PROVE  Waiting(m) = InLine(m) /\ Len(Waiters(m)) = Cardinality(Waiting(m))
    <3> DEFINE A == InLine(m)
               head == blocking_threads[m]
    <3>1. /\ A \in SUBSET Threads /\ head \in Pointers
          /\ mutex_blocking_next \in [Threads -> Pointers]
      BY <2>1, Zenon DEF InLine, TypeOK
    <3>2. HasQueue(A, head, mutex_blocking_next)
      BY Zenon DEF QueueInv
    <3> HIDE DEF A, head
    <3>3. PICK n \in 0..NumThreads : \E q \in [1..n -> A] :
              IsQueue(NULL, A, head, mutex_blocking_next, n, q)
      BY <3>2, Zenon DEF HasQueue
    <3>4. PICK q \in [1..n -> A] : IsQueue(NULL, A, head, mutex_blocking_next, n, q)
      BY <3>3, Zenon
    <3>5. /\ OnChain(head, mutex_blocking_next) = A
          /\ Len(InOrder(head, mutex_blocking_next)) = Cardinality(A)
      BY <3>1, <3>4, QueueCells, Zenon
    <3> QED
      BY <3>5 DEF Waiting, Waiters, A, head
  <2>3. \A m \in Mutexes : \A t \in InLine(m) :
            /\ status[t] = "BLOCKING"
            /\ mtx[t] = m
            /\ pc[t] \in {"add_clear", "lock_yield", "lock_disable"}
    BY DEF InLine, Queued
  <2>4. mtx[cpu] \in Mutexes
    BY <2>1 DEF TypeOK
  <2>5. /\ pc[cpu] \in {"add_walk", "add_advance", "add_append"} =>
              last[cpu] \in Waiting(mtx[cpu])
        /\ pc[cpu] = "add_append" => mutex_blocking_next[last[cpu]] = NULL
    BY <2>2, <2>4 DEF QueueInv, WalkInv
  <2> QED
    BY <2>2, <2>3, <2>5 DEF WaitersSound
<1> QED
  BY <1>1, Invariance, QueueInvariance, PTL

\* The waiters of a mutex are served first come, first served.
THEOREM WaitersInTurn == Spec => WaitersFIFO
<1>1. IInv /\ IInv' /\ QueueInv /\ [Next]_vars =>
        [\A m \in Mutexes :
           \/ Waiters(m)' = Waiters(m)
           \/ \E t \in Threads : Waiters(m)' = Append(Waiters(m), t)
           \/ /\ Waiters(m) # <<>>
              /\ Waiters(m)' = Tail(Waiters(m))
              /\ status'[Waiters(m)[1]] = "RUNNING"]_vars
  <2> SUFFICES ASSUME IInv, IInv', QueueInv, [Next]_vars, NEW m \in Mutexes
               PROVE  \/ Waiters(m)' = Waiters(m)
                      \/ \E t \in Threads : Waiters(m)' = Append(Waiters(m), t)
                      \/ /\ Waiters(m) # <<>>
                         /\ Waiters(m)' = Tail(Waiters(m))
                         /\ status'[Waiters(m)[1]] = "RUNNING"
    OBVIOUS
  <2>1. Served(m)
    BY NextQueues, Zenon DEF IInv, TypeInv
  <2> QED
    BY <2>1, Zenon DEF Served, OneMore, OneLess
<1> QED
  BY <1>1, Invariance, QueueInvariance, PTL DEF Spec, WaitersFIFO

----------------------------------------------------------------------------
(* The scheduler's list of threads: it holds exactly the threads that were  *)
(* created, with main, which never blocks or ends, as its last, so that the *)
(* timer's handler always finds a thread to run.                            *)

Allocated == {t \in Threads : status[t] # "NONE"}

\* The list that starts with head and goes on by link is the n threads L,
\* those of A; main, the first that was made, is the last of them.
ThreadList(A, head, link, n, L) ==
    /\ n = Cardinality(A)
    /\ L \in [1..n -> A]
    /\ L[1] = head
    /\ L[n] = Main
    /\ link[Main] = NULL
    /\ \A i \in 1..(n - 1) : link[L[i]] = L[i+1]
    /\ \A t \in A : \E i \in 1..n : L[i] = t

HasList(A, head, link) ==
    \E n \in 1..NumThreads : \E L \in [1..n -> A] : ThreadList(A, head, link, n, L)

\* Places in the code of main: it calls thread_create and loops.
MainLabels == {"client", "create_disable", "create_body", "create_restore",
               "loop", "loop_yield", "halt", "halted"}

ListInv ==
    /\ HasList(Allocated, first_thread, next)
    /\ current_thread \in Allocated
    /\ status[Main] = "RUNNING"
    /\ pc[Main] \in MainLabels

\* What leaves the list and the set of allocated threads alone keeps it.
LEMMA ListKept ==
    ASSUME ListInv, UNCHANGED <<first_thread, next>>, Allocated' = Allocated,
           current_thread' \in Allocated, status'[Main] = "RUNNING",
           pc'[Main] \in MainLabels
    PROVE  ListInv'
  BY DEF ListInv

\* A step of e, which is not main or stays in main's code, keeps the list if
\* it leaves first_thread, next, status and current_thread alone;
LEMMA ListSame ==
    ASSUME TypeOK, ListInv, NEW e \in Threads, NEW from, NEW to,
           Go(e, from, to), from \in MainLabels => e # Main \/ to \in MainLabels,
           UNCHANGED <<first_thread, next, status, current_thread>>
    PROVE  ListInv'
<1>1. pc'[Main] \in MainLabels
  BY Zenon DEF Go, TypeOK, ListInv
<1>2. Allocated' = Allocated
  BY Zenon DEF Allocated
<1> QED
  BY <1>1, <1>2, ListKept, Zenon DEF ListInv

\* or if it runs the timer's handler.
LEMMA ListYield ==
    ASSUME TypeOK, ContextIntegrity, ListInv, pit_isr, pc'[Main] \in MainLabels
    PROVE  ListInv'
<1>1. Allocated' = Allocated
  BY Switch, Zenon DEF Allocated, TypeOK
<1>2. current_thread' \in Allocated
  BY Switch DEF Allocated, ListInv
<1>3. status'[Main] = "RUNNING"
  BY Switch, Zenon DEF ListInv, TypeOK
<1> QED
  BY <1>1, <1>2, <1>3, Switch, ListKept, ZenonT(30)

\* A new thread goes to the front of the list.
LEMMA ListGrows ==
    ASSUME NEW A \in SUBSET Threads, NEW head,
           NEW link \in [Threads -> Pointers],
           HasList(A, head, link), NEW t \in Threads \ A
    PROVE  HasList(A \cup {t}, t, [link EXCEPT ![t] = head])
<1>1. PICK n \in 1..NumThreads : \E L \in [1..n -> A] : ThreadList(A, head, link, n, L)
  BY Zenon DEF HasList
<1>2. PICK L \in [1..n -> A] : ThreadList(A, head, link, n, L)
  BY <1>1, Zenon
<1> DEFINE K == [i \in 1..(n + 1) |-> IF i = 1 THEN t ELSE L[i-1]]
           new == [link EXCEPT ![t] = head]
<1>3. IsFiniteSet(A) /\ IsFiniteSet(A \cup {t})
  BY FS_Subset, FS_AddElement, Zenon
<1>4. Cardinality(A \cup {t}) = n + 1
  BY <1>2, <1>3, FS_AddElement, Zenon DEF ThreadList
<1>5. Cardinality(A \cup {t}) <= NumThreads /\ NumThreads \in Nat
  BY FS_Subset, FS_CardinalityType, Zenon DEF NumThreads
<1>6. n + 1 \in 1..NumThreads
  BY <1>4, <1>5
<1>7. K \in [1..(n + 1) -> A \cup {t}] /\ K[1] = t /\ K[n + 1] = Main
  <2>1. n \in Nat /\ n >= 1 /\ 1 \in 1..(n + 1) /\ n + 1 \in 1..(n + 1)
        /\ n + 1 - 1 = n /\ n + 1 # 1
    BY <1>5
  <2>2. L[n] = Main
    BY <1>2, Zenon DEF ThreadList
  <2>3. ASSUME NEW i \in 1..(n + 1), i # 1 PROVE i - 1 \in 1..n
    BY <2>1, <2>3
  <2>4. ASSUME NEW i \in 1..(n + 1)
        PROVE  (IF i = 1 THEN t ELSE L[i-1]) \in A \cup {t}
    BY <2>3, Zenon
  <2>5. K[1] = t /\ K[n + 1] = L[n]
    BY <2>1
  <2> QED
    BY <2>2, <2>4, <2>5, Zenon
<1>8. new[Main] = NULL
  <2>1. Main \in A /\ link[Main] = NULL
    <3>1. n \in 1..n
      BY <1>5
    <3>2. L[n] = Main /\ link[Main] = NULL
      BY <1>2, Zenon DEF ThreadList
    <3> QED
      BY <3>1, <3>2, Zenon
  <2> QED
    BY <2>1, Zenon
<1>9. ASSUME NEW i \in 1..n PROVE new[K[i]] = K[i + 1]
  <2>1. CASE i = 1
    BY <2>1, <1>2 DEF ThreadList
  <2>2. CASE i # 1
    <3>1. K[i] = L[i-1] /\ i - 1 \in 1..(n-1) /\ K[i + 1] = L[i]
      BY <2>2
    <3>2. link[L[i-1]] = L[i] /\ L[i-1] # t /\ L[i-1] \in Threads
      BY <3>1, <1>2, SMTT(30) DEF ThreadList
    <3> QED
      BY <3>1, <3>2, Zenon
  <2> QED
    BY <2>1, <2>2, Zenon
<1>10. ASSUME NEW u \in A \cup {t} PROVE \E i \in 1..(n + 1) : K[i] = u
  <2>1. CASE u = t
    <3>1. 1 \in 1..(n + 1)
      BY <1>5
    <3> QED
      BY <2>1, <1>7, <3>1, Zenon
  <2>2. CASE u # t
    <3>1. PICK i \in 1..n : L[i] = u
      BY <2>2, <1>2, Zenon DEF ThreadList
    <3>2. K[i + 1] = L[i] /\ i + 1 \in 1..(n + 1)
      OBVIOUS
    <3> QED
      BY <3>1, <3>2, Zenon
  <2> QED
    BY <2>1, <2>2, Zenon
<1>11. ThreadList(A \cup {t}, t, new, n + 1, K)
  <2> HIDE DEF K, new
  <2> QED
    BY <1>4, <1>6, <1>7, <1>8, <1>9, <1>10, SMTT(30) DEF ThreadList
<1> QED
  BY <1>6, <1>7, <1>11, Zenon DEF HasList

\* The loop of scheduler_get_next_thread goes from a thread to the next in
\* the list, and from the last to the first.
LEMMA RoundRobinSteps ==
    ASSUME next \in [Threads -> Pointers], first_thread \in Threads,
           current_thread \in Threads, NEW N \in Nat, N = 2 * NumThreads
    PROVE  /\ RoundRobin[0] = current_thread
           /\ \A k \in 0..N : RoundRobin[k] \in Threads
           /\ \A k \in 1..N :
                 RoundRobin[k] = IF next[RoundRobin[k-1]] = NULL
                                   THEN first_thread ELSE next[RoundRobin[k-1]]
<1> DEFINE F == [p \in Threads \X (1..N) |->
                   IF next[p[1]] = NULL THEN first_thread ELSE next[p[1]]]
<1>1. F \in [Threads \X (1..N) -> Threads]
  BY DEF Pointers
<1> HIDE DEF F
<1>2. PICK w : LoopOf(w, Threads, N, current_thread, F)
  BY <1>1, Rounds, Zenon
<1>3. ASSUME NEW i \in 1..N
      PROVE  w[i] = IF next[w[i-1]] = NULL THEN first_thread ELSE next[w[i-1]]
  <2>1. w[i-1] \in Threads
    BY <1>2 DEF LoopOf
  <2>2. F[<<w[i-1], i>>] =
            IF next[w[i-1]] = NULL THEN first_thread ELSE next[w[i-1]]
    BY <2>1, Zenon DEF F
  <2> QED
    BY <1>2, <2>2, Zenon DEF LoopOf
<1>4. w = [k \in 0..(2 * NumThreads) |->
             IF k = 0 THEN current_thread
             ELSE IF next[w[k-1]] = NULL THEN first_thread ELSE next[w[k-1]]]
  BY <1>2, <1>3 DEF LoopOf
<1>5. RoundRobin =
        [k \in 0..(2 * NumThreads) |->
             IF k = 0 THEN current_thread
             ELSE IF next[RoundRobin[k-1]] = NULL THEN first_thread
                  ELSE next[RoundRobin[k-1]]]
  BY <1>4, Zenon DEF RoundRobin
<1> HIDE DEF RoundRobin
<1>6. /\ RoundRobin[0] = current_thread
      /\ \A k \in 1..N :
            RoundRobin[k] = IF next[RoundRobin[k-1]] = NULL
                              THEN first_thread ELSE next[RoundRobin[k-1]]
  BY <1>5
<1> DEFINE T == {k \in 0..N : RoundRobin[k] \in Threads}
<1>7. 0 \in T
  BY <1>6
<1>8. ASSUME NEW k \in 0..(N - 1), k \in T PROVE k + 1 \in T
  BY <1>6, <1>8 DEF Pointers
<1> HIDE DEF T
<1>9. \A k \in 0..N : k \in T
  BY <1>7, <1>8, UpTo, Zenon
<1> QED
  BY <1>6, <1>9, Zenon DEF T

\* It comes to main within one round.
LEMMA RoundRobinMeetsMain ==
    ASSUME TypeOK, ListInv
    PROVE  \E k \in 1..(2 * NumThreads) : RoundRobin[k] = Main
<1>1. PICK n \in 1..NumThreads : \E L \in [1..n -> Allocated] :
          ThreadList(Allocated, first_thread, next, n, L)
  BY Zenon DEF ListInv, HasList
<1>2. PICK L \in [1..n -> Allocated] :
          ThreadList(Allocated, first_thread, next, n, L)
  BY <1>1, Zenon
<1>3. /\ first_thread = L[1] /\ L[n] = Main /\ next[Main] = NULL
      /\ \A i \in 1..n : L[i] \in Threads
      /\ \A i \in 1..(n - 1) : next[L[i]] = L[i+1]
  BY <1>2, Zenon DEF ThreadList, Allocated
<1>4. PICK j \in 1..n : L[j] = current_thread
  BY <1>2, Zenon DEF ThreadList, ListInv
<1>5. NumThreads \in Nat
  BY FS_CardinalityType, Zenon DEF NumThreads
<1> DEFINE N == 2 * NumThreads
<1>6. /\ N \in Nat
      /\ RoundRobin[0] = current_thread
      /\ \A k \in 1..N :
            RoundRobin[k] = IF next[RoundRobin[k-1]] = NULL
                              THEN first_thread ELSE next[RoundRobin[k-1]]
  <2>1. N \in Nat
    BY <1>5
  <2>2. next \in [Threads -> Pointers] /\ current_thread \in Threads
    BY Zenon DEF TypeOK
  <2>3. first_thread \in Threads
    BY <1>3
  <2>4. N = 2 * NumThreads
    OBVIOUS
  <2> HIDE DEF N
  <2> QED
    BY <2>1, <2>2, <2>3, <2>4, RoundRobinSteps, Zenon
<1>7. CASE j < n
  <2> DEFINE T == {k \in 0..(n - j) : RoundRobin[k] = L[j + k]}
  <2>1. 0 \in T
    BY <1>4, <1>6
  <2>2. ASSUME NEW k \in 0..((n - j) - 1), k \in T PROVE k + 1 \in T
    <3>1. k + 1 \in 1..N /\ (k + 1) - 1 = k
      BY <1>5
    <3>2. RoundRobin[k] = L[j + k] /\ j + k \in 1..(n-1)
      BY <2>2
    <3>3. next[L[j + k]] = L[j + (k + 1)] /\ L[j + (k + 1)] # NULL
      BY <1>3, <3>2
    <3> QED
      BY <1>6, <3>1, <3>2, <3>3
  <2> HIDE DEF T
  <2>3. n - j \in Nat
    BY <1>7
  <2>4. \A k \in 0..(n - j) : k \in T
    BY <2>1, <2>2, <2>3, UpTo, Zenon
  <2>5. n - j \in T
    BY <2>3, <2>4
  <2> QED
    BY <1>3, <1>5, <1>7, <2>5, SMTT(30) DEF T
<1>8. CASE j = n
  <2> DEFINE T == {k \in 0..(n - 1) : RoundRobin[k + 1] = L[k + 1]}
  <2>1. 0 \in T
    BY <1>3, <1>4, <1>5, <1>6, <1>8
  <2>2. ASSUME NEW k \in 0..((n - 1) - 1), k \in T PROVE k + 1 \in T
    <3>1. (k + 1) + 1 \in 1..N /\ ((k + 1) + 1) - 1 = k + 1
      BY <1>5
    <3>2. RoundRobin[k + 1] = L[k + 1] /\ k + 1 \in 1..(n-1)
      BY <2>2
    <3>3. next[L[k + 1]] = L[(k + 1) + 1] /\ L[(k + 1) + 1] # NULL
      BY <1>3, <3>2
    <3> QED
      BY <1>6, <3>1, <3>2, <3>3
  <2> HIDE DEF T
  <2>3. n - 1 \in T
    BY <2>1, <2>2, UpTo
  <2> QED
    BY <1>3, <1>5, <2>3 DEF T
<1> QED
  BY <1>7, <1>8

\* So it finds a thread to stop at.
LEMMA FindsRunnable == TypeOK /\ ListInv => AlwaysRunnable
<1> SUFFICES ASSUME TypeOK, ListInv PROVE AlwaysRunnable
  BY Zenon
<1> DEFINE N == 2 * NumThreads
           T == {k \in 1..N : Runnable(RoundRobin[k])}
<1>1. NumThreads \in Nat /\ N \in Nat
  BY FS_CardinalityType DEF NumThreads
<1>2. first_thread \in Threads
  BY DEF ListInv, HasList, ThreadList, Allocated
<1>3. \A k \in 0..N : RoundRobin[k] \in Threads
  BY <1>1, <1>2, RoundRobinSteps, Zenon DEF TypeOK
<1>4. T \subseteq Nat /\ T # {}
  BY RoundRobinMeetsMain DEF ListInv, Runnable
<1> HIDE DEF T
<1>5. PICK k \in T : \A j \in T : k <= j
  BY <1>4, LeastNat, Zenon
<1> USE DEF T
<1>6. \A j \in 1..(k-1) : ~Runnable(RoundRobin[j])
  BY <1>1, <1>5
<1>7. scheduler_get_next_thread(RoundRobin[k])
  BY <1>1, <1>5, <1>6 DEF scheduler_get_next_thread
<1> QED
  BY <1>1, <1>3, <1>5, <1>7 DEF AlwaysRunnable

\* thread_create, thread_exit and a voluntary yield keep the list.
LEMMA SchedStepList ==
    ASSUME TypeOK, ContextIntegrity, ListInv, NEW e \in Threads, SchedStep(e)
    PROVE  ListInv'
<1>1. CASE thread_create_enter(e)
  BY <1>1, ListSame, Zenon DEF thread_create_enter, Call, listVars, MainLabels
<1>2. CASE thread_create_disable(e)
  BY <1>2, ListSame DEF thread_create_disable, listVars, MainLabels
<1>3. CASE \E t \in Threads : thread_create_succeed(e, t)
  <2>1. PICK t \in Threads : thread_create_succeed(e, t)
    BY <1>3, Zenon
  <2>2. /\ status[t] = "NONE" /\ status' = [status EXCEPT ![t] = "PENDING"]
        /\ next' = [next EXCEPT ![t] = first_thread]
        /\ first_thread' = t /\ current_thread' = current_thread
    BY <2>1, Zenon DEF thread_create_succeed, scheduler_add_thread
  <2>3. t \notin Allocated /\ Allocated' = Allocated \cup {t}
    <3>1. \A u \in Threads : status'[u] # "NONE" <=> u = t \/ status[u] # "NONE"
      BY <2>2, Zenon DEF TypeOK
    <3> QED
      BY <2>2, <3>1, Zenon DEF Allocated
  <2>4. HasList(Allocated \cup {t}, t, [next EXCEPT ![t] = first_thread])
    BY <2>3, ListGrows, Zenon DEF ListInv, TypeOK, Allocated
  <2>5. HasList(Allocated, first_thread, next)'
    BY <2>2, <2>3, <2>4, Zenon
  <2>6. status'[Main] = "RUNNING"
    BY <2>2, Zenon DEF ListInv, TypeOK
  <2>7. pc'[Main] \in MainLabels
    BY <2>1, Zenon DEF thread_create_succeed, Go, ListInv, TypeOK, MainLabels
  <2> QED
    BY <2>2, <2>3, <2>5, <2>6, <2>7, Zenon DEF ListInv
<1>4. CASE thread_create_fail(e)
  BY <1>4, ListSame, Zenon DEF thread_create_fail, schedVars, MainLabels
<1>5. CASE thread_create_restore(e)
  BY <1>5, ListSame, Zenon DEF thread_create_restore, listVars, MainLabels
<1>6. CASE thread_exit(e)
  <2>1. e # Main /\ e = current_thread
    <3>1. "exit" \in Calls[e] /\ cpu = e
      BY <1>6, Zenon DEF thread_exit, Call, Go
    <3>2. "exit" \notin Calls[Main]
      OBVIOUS
    <3> QED
      BY <3>1, <3>2, Zenon DEF ContextIntegrity
  <2>2. status' = [status EXCEPT ![e] = "FINISHED"] /\ status[e] # "NONE"
    BY <1>6, <2>1, Zenon DEF thread_exit, ListInv, Allocated
  <2>3. UNCHANGED <<first_thread, next, current_thread>>
    BY <1>6 DEF thread_exit, listVars
  <2>4. Allocated' = Allocated
    BY <2>2, Zenon DEF Allocated, TypeOK
  <2>5. status'[Main] = "RUNNING"
    BY <2>1, <2>2, Zenon DEF ListInv, TypeOK
  <2>6. pc'[Main] \in MainLabels
    BY <1>6, <2>1, Zenon DEF thread_exit, Call, Go, ListInv, TypeOK
  <2> QED
    BY <2>3, <2>4, <2>5, <2>6, ListKept, Zenon DEF ListInv
<1>7. CASE thread_exit_yield(e)
  <2>1. pc'[Main] \in MainLabels
    BY <1>7, Zenon DEF thread_exit_yield, scheduler_yield, Go, ListInv, TypeOK,
        MainLabels
  <2> QED
    BY <1>7, <2>1, ListYield, Zenon DEF thread_exit_yield, scheduler_yield
<1>8. CASE client_yield(e)
  <2>1. pc'[Main] \in MainLabels
    BY <1>8, Zenon DEF client_yield, scheduler_yield, Go, ListInv, TypeOK
  <2> QED
    BY <1>8, <2>1, ListYield, Zenon DEF client_yield, scheduler_yield
<1> QED
  BY <1>1, <1>2, <1>3, <1>4, <1>5, <1>6, <1>7, <1>8, Zenon DEF SchedStep

\* mutex_lock keeps the list: main never calls it.
LEMMA LockStepList ==
    ASSUME TypeOK, ContextIntegrity, ListInv, NEW e \in Threads, LockStep(e)
    PROVE  ListInv'
<1> USE DEF MainLabels, schedVars, listVars
<1>1. CASE \E m \in Mutexes : mutex_lock_enter(e, m)
  <2>1. /\ "lock" \in Calls[e] /\ Go(e, "client", "lock_disable")
        /\ UNCHANGED <<first_thread, next, status, current_thread>>
    BY <1>1, Zenon DEF mutex_lock_enter, enter, Call
  <2>2. "lock" \notin Calls[Main]
    OBVIOUS
  <2> QED
    BY <2>1, <2>2, ListSame, Zenon
<1>2. CASE mutex_lock_disable(e) \/ mutex_lock_enable(e) \/ mutex_lock_return(e)
  BY <1>2, ListSame, Zenon DEF mutex_lock_disable, mutex_lock_enable,
      mutex_lock_return, set_preemption
<1>3. CASE mutex_lock_test(e) \/ mutex_lock_set(e)
  BY <1>3, ListSame, Zenon DEF mutex_lock_test, mutex_lock_set
<1>4. CASE mutex_lock_block(e)
  <2>1. e # Main
    BY <1>4, Zenon DEF mutex_lock_block, Go, ListInv
  <2>2. status' = [status EXCEPT ![e] = "BLOCKING"] /\ status[e] # "NONE"
    BY <1>4, Zenon DEF mutex_lock_block, Go, ListInv, Allocated,
        ContextIntegrity
  <2>3. UNCHANGED <<first_thread, next, current_thread>>
    BY <1>4 DEF mutex_lock_block
  <2>4. Allocated' = Allocated
    BY <2>2, Zenon DEF Allocated, TypeOK
  <2>5. status'[Main] = "RUNNING"
    BY <2>1, <2>2, Zenon DEF ListInv, TypeOK
  <2>6. pc'[Main] \in MainLabels
    BY <1>4, <2>1, Zenon DEF mutex_lock_block, Go, ListInv, TypeOK
  <2> QED
    BY <2>3, <2>4, <2>5, <2>6, ListKept, Zenon DEF ListInv
<1>5. CASE add_blocking_test(e) \/ add_blocking_walk(e)
  <2>1. \E from \in {"add_test", "add_walk"} : \E to : Go(e, from, to)
    BY <1>5, Zenon DEF add_blocking_test, add_blocking_walk
  <2> QED
    BY <1>5, <2>1, ListSame, Zenon DEF add_blocking_test, add_blocking_walk
<1>6. CASE \/ add_blocking_first(e) \/ add_blocking_advance(e)
           \/ add_blocking_append(e) \/ add_blocking_clear(e)
  BY <1>6, ListSame, Zenon DEF add_blocking_first, add_blocking_advance,
      add_blocking_append, add_blocking_clear
<1>7. CASE mutex_lock_yield(e)
  <2>1. pc'[Main] \in MainLabels
    BY <1>7, Zenon DEF mutex_lock_yield, scheduler_yield, Go, ListInv, TypeOK
  <2> QED
    BY <1>7, <2>1, ListYield, Zenon DEF mutex_lock_yield, scheduler_yield
<1> QED
  BY <1>1, <1>2, <1>3, <1>4, <1>5, <1>6, <1>7, Zenon DEF LockStep

\* So do mutex_try_lock and mutex_unlock; the thread that is woken is not
\* main, and is still allocated.
LEMMA TryUnlockStepList ==
    ASSUME TypeOK, ListInv, NEW e \in Threads, TryUnlockStep(e)
    PROVE  ListInv'
<1> USE DEF MainLabels, schedVars, listVars
<1>1. CASE \E m \in Mutexes : mutex_try_lock_enter(e, m) \/ mutex_unlock_enter(e, m)
  <2>1. e # Main /\ \E to : Go(e, "client", to)
    <3>1. \/ Call(e, "try_lock", "try_disable")
          \/ Call(e, "unlock", "unlock_disable")
      BY <1>1, Zenon DEF mutex_try_lock_enter, mutex_unlock_enter, enter
    <3> QED
      BY <3>1 DEF Call
  <2>2. UNCHANGED <<first_thread, next, status, current_thread>>
    BY <1>1, Zenon DEF mutex_try_lock_enter, mutex_unlock_enter, enter
  <2> QED
    BY <2>1, <2>2, ListSame, Zenon
<1>2. CASE mutex_try_lock_disable(e) \/ mutex_try_lock_fail(e)
  BY <1>2, ListSame, Zenon DEF mutex_try_lock_disable, mutex_try_lock_fail,
      set_preemption
<1>3. CASE mutex_unlock_disable(e) \/ mutex_unlock_refuse(e) \/ mutex_unlock_return(e)
  BY <1>3, ListSame, Zenon DEF mutex_unlock_disable, mutex_unlock_refuse,
      mutex_unlock_return, set_preemption
<1>4. CASE mutex_try_lock_test(e) \/ mutex_unlock_test(e) \/ mutex_unlock_clear(e)
  BY <1>4, ListSame, Zenon DEF mutex_try_lock_test, mutex_unlock_test,
      mutex_unlock_clear
<1>5. CASE mutex_unlock_wake(e)
  <2>1. \/ status' = status
        \/ \E w \in Threads : /\ status[w] = "BLOCKING"
                              /\ status' = [status EXCEPT ![w] = "RUNNING"]
    BY <1>5, Zenon DEF mutex_unlock_wake, unblock_blocking_thread, TypeOK, Pointers
  <2>2. Allocated' = Allocated
    BY <2>1, Zenon DEF Allocated, TypeOK
  <2>3. status'[Main] = "RUNNING"
    BY <2>1, Zenon DEF ListInv, TypeOK
  <2>4. pc'[Main] \in MainLabels
    BY <1>5, Zenon DEF mutex_unlock_wake, Go, ListInv, TypeOK
  <2>5. UNCHANGED <<first_thread, next, current_thread>>
    BY <1>5, Zenon DEF mutex_unlock_wake
  <2> QED
    BY <2>2, <2>3, <2>4, <2>5, ListKept, Zenon DEF ListInv
<1> QED
  BY <1>1, <1>2, <1>3, <1>4, <1>5, Zenon DEF TryUnlockStep

\* Main's loop keeps the list.
LEMMA MainStepList ==
    ASSUME TypeOK, ContextIntegrity, ListInv, MainStep
    PROVE  ListInv'
<1>1. CASE main_enter_loop \/ main_loop_check \/ main_halt
  BY <1>1, ListSame, Zenon DEF main_enter_loop, main_loop_check, main_halt,
      schedVars, MainLabels
<1>2. CASE main_loop_yield
  <2>1. pc'[Main] \in MainLabels
    BY <1>2, Zenon DEF main_loop_yield, scheduler_yield, Go, TypeOK, MainLabels
  <2> QED
    BY <1>2, <2>1, ListYield, Zenon DEF main_loop_yield, scheduler_yield
<1> QED
  BY <1>1, <1>2, Zenon DEF MainStep

\* The list holds the threads that were created, main as the last.
LEMMA NextList == TypeOK /\ SchedInv /\ ListInv /\ [Next]_vars => ListInv'
<1> SUFFICES ASSUME TypeOK, SchedInv, ListInv, [Next]_vars PROVE ListInv'
  OBVIOUS
<1>1. CASE TimerInterrupt
  <2>1. pc'[Main] \in MainLabels
    BY <1>1, Zenon DEF TimerInterrupt, ListInv, TypeOK, MainLabels
  <2> QED
    BY <1>1, <2>1, ListYield, Zenon DEF TimerInterrupt, SchedInv
<1>2. CASE UNCHANGED vars
  BY <1>2, ListKept, Zenon DEF vars, schedVars, ListInv, Allocated
<1> QED
  BY <1>1, <1>2, SchedStepList, LockStepList, TryUnlockStepList, MainStepList, Zenon
      DEF Next, SchedInv

\* The scheduler's list is sound in every reachable state.
LEMMA ListInvariance == Spec => []ListInv
<1>1. Init => ListInv
  <2> SUFFICES ASSUME Init PROVE ListInv
    OBVIOUS
  <2>1. Allocated = {Main} /\ Cardinality({Main}) = 1
    BY FS_Singleton, ZenonT(30) DEF Init, SchedInit, Allocated
  <2>2. 1 \in 1..NumThreads
    <3>1. {Main} \subseteq Threads
      BY Zenon
    <3>2. Cardinality({Main}) <= NumThreads
      BY <3>1, FS_Subset, Zenon DEF NumThreads
    <3> QED
      BY <2>1, <3>2, FS_CardinalityType DEF NumThreads
  <2> DEFINE L == [i \in 1..1 |-> Main]
  <2>3. ThreadList({Main}, first_thread, next, 1, L)
    <3>1. first_thread = Main /\ next[Main] = NULL
      BY Zenon DEF Init, SchedInit
    <3> QED
      BY <2>1, <3>1 DEF ThreadList
  <2>4. L \in [1..1 -> {Main}]
    OBVIOUS
  <2> HIDE DEF L
  <2>5. HasList({Main}, first_thread, next)
    BY <2>2, <2>3, <2>4, Zenon DEF HasList
  <2> QED
    BY <2>1, <2>5, Zenon DEF ListInv, Init, SchedInit, MainLabels
<1>2. IInv /\ ListInv /\ [Next]_vars => ListInv'
  BY NextList, Zenon DEF IInv, TypeInv
<1> QED
  BY <1>1, <1>2, Invariance, PTL DEF Spec

\* The loop in the timer's interrupt handler always ends: it comes to a
\* thread that can run.
THEOREM SchedulerNeverStuck == Spec => []AlwaysRunnable
<1>1. IInv /\ ListInv => AlwaysRunnable
  BY FindsRunnable DEF IInv, TypeInv
<1> QED
  BY <1>1, Invariance, ListInvariance, PTL
=============================================================================
