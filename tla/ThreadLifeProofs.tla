-------------------------- MODULE ThreadLifeProofs --------------------------
(***************************************************************************)
(* Waiting and detaching for any number of threads, whatever they call:    *)
(* preemption is off exactly inside the sections that disable it, and      *)
(* nobody waits for a detached thread.                                     *)
(*                                                                         *)
(* The second needs that only the creator of a thread waits for it or      *)
(* detaches it.  What thread_wait has tested with preemption enabled is    *)
(* then still true when it acts on it, since only the same context could   *)
(* have changed it.                                                        *)
(***************************************************************************)
EXTENDS ThreadLife, TLAPS

Labels ==
    {"client", "create_disable", "create_body", "create_restore",
     "exit_yield", "exited", "loop", "loop_yield", "halt", "halted",
     "detach_test", "detach_set", "wait_test", "wait_disable", "wait_set",
     "wait_enable", "wait_yield", "wait_return"}

TypeInv ==
    /\ status \in [Threads -> Statuses]
    /\ current_thread \in Threads
    /\ preemption_enabled \in BOOLEAN
    /\ kmode_stack_ptr \in [Threads -> Pointers]
    /\ cpu \in Threads
    /\ pc \in [Threads -> Labels]
    /\ prev_preemption \in [Threads -> BOOLEAN]
    /\ detached \in [Threads -> BOOLEAN]
    /\ wait_list \in [Threads -> (SUBSET Threads) \cup {NULL}]
    /\ created \in [Threads -> SUBSET Threads]
    /\ arg \in [Threads -> SUBSET Threads]

\* The scheduler's record of who runs is right, and every saved stack
\* pointer resumes its own thread.
ContextsOwn ==
    /\ cpu = current_thread
    /\ \A t \in Threads \ {cpu} : status[t] # "NONE" => kmode_stack_ptr[t] = t

\* thread_create is called with preemption enabled, so it enables it again.
PreemptionSaved == \A e \in Threads : prev_preemption[e]

SchedInv == PreemptionDiscipline /\ ContextsOwn /\ PreemptionSaved

\* A thread has one creator, who alone has it as an argument.
OneCreator ==
    \A e \in Threads :
        /\ arg[e] \subseteq created[e]
        /\ \A t \in created[e] : status[t] # "NONE"
        /\ \A f \in Threads \ {e} : \A t \in created[e] : t \notin created[f]

\* A waiting thread is behind the statement that made it wait.
WaitersWait ==
    \A e \in Threads :
        status[e] = "WAITING" =>
            /\ pc[e] \in {"wait_enable", "wait_yield", "wait_return"}
            /\ wait_list[e] \subseteq created[e]

\* What thread_wait has tested is still true when it acts on it.
TestHolds ==
    \A e \in Threads :
        pc[e] \in {"wait_disable", "wait_set"} =>
            \A t \in arg[e] : ~detached[t]

LifeInv == OneCreator /\ WaitersWait /\ TestHolds /\ DetachedNotAwaited

IInv == TypeInv /\ SchedInv /\ LifeInv

USE ThreadsAssumption, CallsAssumption

----------------------------------------------------------------------------

\* The timer's handler resumes the thread that it records as running, loses
\* no other thread's context, changes no status but that of the runnable
\* thread it resumes, and does nothing while preemption is disabled.
LEMMA PitIsr ==
    ASSUME TypeInv, ContextsOwn, pit_isr
    PROVE  /\ UNCHANGED <<preemption_enabled, prev_preemption>>
           /\ status' \in [Threads -> Statuses]
           /\ kmode_stack_ptr' \in [Threads -> Pointers]
           /\ cpu' \in Threads
           /\ cpu' = current_thread'
           /\ \A t \in Threads \ {cpu'} :
                 status'[t] # "NONE" => kmode_stack_ptr'[t] = t
           /\ \A t \in Threads :
                 \/ status'[t] = status[t]
                 \/ status[t] \in {"RUNNING", "PENDING"}
                    /\ status'[t] = "RUNNING"
           /\ ~preemption_enabled => cpu' = cpu
<1> USE DEF TypeInv, ContextsOwn, Statuses, Pointers
<1>1. CASE preemption_enabled
  <2>1. PICK n \in Threads :
            /\ scheduler_get_next_thread(n)
            /\ status' = [status EXCEPT ![n] = "RUNNING"]
            /\ kmode_stack_ptr' =
                 [kmode_stack_ptr EXCEPT ![current_thread] = cpu]
            /\ current_thread' = n
            /\ cpu' = kmode_stack_ptr'[n]
    BY <1>1, ZenonT(60) DEF pit_isr, switch_thread
  <2>2. UNCHANGED <<preemption_enabled, prev_preemption>>
    BY <1>1, ZenonT(60) DEF pit_isr, switch_thread
  <2>3. status[n] \in {"RUNNING", "PENDING"}
    BY <2>1 DEF scheduler_get_next_thread, Runnable
  <2>4. \A t \in Threads : t = cpu \/ status[t] # "NONE" =>
            kmode_stack_ptr'[t] = t
    BY <2>1
  <2>5. cpu' = n
    BY <2>1, <2>3, <2>4
  <2> QED
    BY <1>1, <2>1, <2>2, <2>3, <2>4, <2>5
<1>2. CASE ~preemption_enabled
  BY <1>2, SMTT(30) DEF pit_isr, schedVars
<1> QED
  BY <1>1, <1>2

\* thread_create, thread_exit and a voluntary yield: each step preserves the
\* types, and the creator receives threads.
LEMMA CreateStepType ==
    ASSUME TypeInv, ContextsOwn, NEW e \in Threads, CreateStep(e)
    PROVE  TypeInv'
<1> USE DEF TypeInv, Labels, Statuses, Pointers, Go, Call, schedVars, listVars
<1>0. /\ SchedStep(e)
      /\ created' \in [Threads -> SUBSET Threads]
      /\ UNCHANGED <<detached, wait_list, arg>>
  BY DEF CreateStep, Receive
<1>1. CASE thread_create_enter(e)
  BY <1>0, <1>1 DEF thread_create_enter
<1>2. CASE thread_create_disable(e)
  BY <1>0, <1>2, ZenonT(60) DEF thread_create_disable,
      thread_disable_preemption
<1>3. CASE \E t \in Threads : thread_create_succeed(e, t)
  BY <1>0, <1>3 DEF thread_create_succeed
<1>4. CASE thread_create_fail(e)
  BY <1>0, <1>4 DEF thread_create_fail
<1>5. CASE thread_create_restore(e)
  BY <1>0, <1>5 DEF thread_create_restore
<1>6. CASE thread_exit(e)
  BY <1>0, <1>6 DEF thread_exit
<1>7. CASE thread_exit_yield(e)
  BY <1>0, <1>7, PitIsr DEF thread_exit_yield, scheduler_yield
<1>8. CASE client_yield(e)
  BY <1>0, <1>8, PitIsr DEF client_yield, scheduler_yield
<1> QED
  BY <1>0, <1>1, <1>2, <1>3, <1>4, <1>5, <1>6, <1>7, <1>8 DEF SchedStep

\* thread_detach and thread_wait: each step preserves the types.
LEMMA DetachWaitType ==
    ASSUME TypeInv, ContextsOwn, NEW e \in Threads,
           DetachStep(e) \/ WaitStep(e)
    PROVE  TypeInv'
<1> USE DEF TypeInv, Labels, Statuses, Pointers, Go, Call, schedVars, listVars,
    lifeVars
<1>1. CASE \E t \in Threads : thread_detach_enter(e, t)
  BY <1>1 DEF thread_detach_enter
<1>2. CASE thread_detach_test(e)
  BY <1>2 DEF thread_detach_test
<1>3. CASE thread_detach_set(e)
  BY <1>3 DEF thread_detach_set
<1>4. CASE \E list \in SUBSET created[e] \ {{}} : thread_wait_enter(e, list)
  BY <1>4 DEF thread_wait_enter
<1>5. CASE thread_wait_test(e)
  BY <1>5 DEF thread_wait_test
<1>6. CASE thread_wait_disable(e)
  BY <1>6, ZenonT(60) DEF thread_wait_disable, thread_disable_preemption
<1>7. CASE thread_wait_set(e)
  BY <1>7 DEF thread_wait_set
<1>8. CASE thread_wait_enable(e)
  BY <1>8 DEF thread_wait_enable, thread_enable_preemption
<1>9. CASE thread_wait_yield(e)
  BY <1>9, PitIsr DEF thread_wait_yield, scheduler_yield
<1> QED
  BY <1>1, <1>2, <1>3, <1>4, <1>5, <1>6, <1>7, <1>8, <1>9, ZenonT(60)
      DEF DetachStep, WaitStep

\* Main's loop and the timer: each step preserves the types.
LEMMA MainTimerType ==
    ASSUME TypeInv, ContextsOwn, MainStep \/ TimerInterrupt,
           UNCHANGED lifeVars
    PROVE  TypeInv'
<1> USE DEF TypeInv, Labels, Statuses, Pointers, Go, Call, schedVars, listVars,
    lifeVars
<1>1. CASE main_enter_loop
  BY <1>1 DEF main_enter_loop
<1>2. CASE main_loop_check
  BY <1>2 DEF main_loop_check
<1>3. CASE main_loop_yield
  BY <1>3, PitIsr DEF main_loop_yield, scheduler_yield
<1>4. CASE main_halt
  BY <1>4 DEF main_halt
<1>5. CASE TimerInterrupt
  BY <1>5, PitIsr DEF TimerInterrupt
<1> QED
  BY <1>1, <1>2, <1>3, <1>4, <1>5, ZenonT(60) DEF MainStep

\* Every value stays in its type.
LEMMA NextType == TypeInv /\ ContextsOwn /\ [Next]_vars => TypeInv'
<1> SUFFICES ASSUME TypeInv, ContextsOwn, [Next]_vars PROVE TypeInv'
  OBVIOUS
<1>1. CASE UNCHANGED vars
  BY <1>1, SMTT(30) DEF vars, schedVars, lifeVars, TypeInv
<1> QED
  BY <1>1, CreateStepType, DetachWaitType, MainTimerType DEF Next

----------------------------------------------------------------------------

\* A step that neither enters nor leaves a section and touches no variable of
\* the scheduler preserves the scheduling invariant.
LEMMA SchedUndisturbed ==
    ASSUME TypeInv, SchedInv, UNCHANGED schedVars, NEW e \in Threads,
           NEW from, NEW to, Go(e, from, to),
           from \notin {"create_body", "create_restore", "wait_set",
                        "wait_enable"},
           to \notin {"create_body", "create_restore", "wait_set",
                      "wait_enable"}
    PROVE  SchedInv'
  BY ZenonT(60) DEF SchedInv, PreemptionDiscipline, ContextsOwn,
      PreemptionSaved, TypeInv, Go, schedVars

\* thread_create, thread_exit and a voluntary yield: each step preserves the
\* scheduling invariant.
LEMMA CreateStepSched ==
    ASSUME TypeInv, SchedInv, NEW e \in Threads, SchedStep(e)
    PROVE  SchedInv'
<1> USE DEF SchedInv, PreemptionDiscipline, ContextsOwn, PreemptionSaved,
    TypeInv, Go, Call, schedVars, listVars
<1>1. CASE thread_create_enter(e)
  BY <1>1, ZenonT(60) DEF thread_create_enter
<1>2. CASE thread_create_disable(e)
  BY <1>2, ZenonT(60) DEF thread_create_disable, thread_disable_preemption
<1>3. CASE \E t \in Threads : thread_create_succeed(e, t)
  <2>1. PICK t \in Threads : thread_create_succeed(e, t)
    BY <1>3
  <2> QED
    BY <2>1, ZenonT(60) DEF thread_create_succeed
<1>4. CASE thread_create_fail(e)
  BY <1>4, ZenonT(60) DEF thread_create_fail
<1>5. CASE thread_create_restore(e)
  BY <1>5, ZenonT(60) DEF thread_create_restore
<1>6. CASE thread_exit(e)
  BY <1>6, ZenonT(60) DEF thread_exit
<1>7. CASE thread_exit_yield(e)
  BY <1>7, PitIsr DEF thread_exit_yield, scheduler_yield
<1>8. CASE client_yield(e)
  BY <1>8, PitIsr, SMTT(30) DEF client_yield, scheduler_yield
<1> QED
  BY <1>1, <1>2, <1>3, <1>4, <1>5, <1>6, <1>7, <1>8 DEF SchedStep

\* thread_detach and thread_wait: each step preserves the scheduling
\* invariant.
LEMMA DetachWaitSched ==
    ASSUME TypeInv, SchedInv, NEW e \in Threads, DetachStep(e) \/ WaitStep(e)
    PROVE  SchedInv'
<1>1. CASE \E t \in Threads : thread_detach_enter(e, t)
  <2>1. Go(e, "client", "detach_test") /\ UNCHANGED schedVars
    BY <1>1, ZenonT(60) DEF thread_detach_enter, Call, schedVars
  <2> QED
    BY <2>1, SchedUndisturbed
<1>2. CASE thread_detach_test(e)
  <2>1. PICK to \in {"client", "detach_set"} : Go(e, "detach_test", to)
    BY <1>2 DEF thread_detach_test
  <2>2. UNCHANGED schedVars
    BY <1>2 DEF thread_detach_test
  <2> QED
    BY <2>1, <2>2, SchedUndisturbed
<1>3. CASE thread_detach_set(e)
  <2>1. Go(e, "detach_set", "client") /\ UNCHANGED schedVars
    BY <1>3 DEF thread_detach_set
  <2> QED
    BY <2>1, SchedUndisturbed
<1>4. CASE \E list \in SUBSET created[e] \ {{}} : thread_wait_enter(e, list)
  <2>1. Go(e, "client", "wait_test") /\ UNCHANGED schedVars
    BY <1>4, ZenonT(60) DEF thread_wait_enter, Call, schedVars
  <2> QED
    BY <2>1, SchedUndisturbed
<1>5. CASE thread_wait_test(e)
  <2>1. PICK to \in {"client", "wait_disable"} : Go(e, "wait_test", to)
    BY <1>5 DEF thread_wait_test
  <2>2. UNCHANGED schedVars
    BY <1>5 DEF thread_wait_test
  <2> QED
    BY <2>1, <2>2, SchedUndisturbed
<1>6. CASE thread_wait_disable(e)
  BY <1>6, ZenonT(60) DEF thread_wait_disable, thread_disable_preemption,
      SchedInv, PreemptionDiscipline, ContextsOwn,
      PreemptionSaved, TypeInv, Go, schedVars, listVars, lifeVars
<1>7. CASE thread_wait_set(e)
  BY <1>7, ZenonT(60) DEF thread_wait_set, SchedInv, PreemptionDiscipline,
      ContextsOwn, PreemptionSaved, TypeInv, Go, schedVars, listVars, lifeVars
<1>8. CASE thread_wait_enable(e)
  BY <1>8, ZenonT(60) DEF thread_wait_enable, thread_enable_preemption,
      SchedInv, PreemptionDiscipline, ContextsOwn,
      PreemptionSaved, TypeInv, Go, schedVars, listVars, lifeVars
<1>9. CASE thread_wait_yield(e)
  BY <1>9, PitIsr DEF thread_wait_yield, scheduler_yield, SchedInv,
      PreemptionDiscipline, ContextsOwn, PreemptionSaved, TypeInv, Go,
      schedVars, listVars, lifeVars
<1> QED
  BY <1>1, <1>2, <1>3, <1>4, <1>5, <1>6, <1>7, <1>8, <1>9, ZenonT(60)
      DEF DetachStep, WaitStep

\* Main's loop and the timer: each step preserves the scheduling invariant.
LEMMA MainTimerSched ==
    ASSUME TypeInv, SchedInv, MainStep \/ TimerInterrupt
    PROVE  SchedInv'
<1>1. CASE main_enter_loop
  BY <1>1, SchedUndisturbed DEF main_enter_loop
<1>2. CASE main_loop_check
  <2>1. PICK to \in {"loop_yield", "halt"} : Go(Main, "loop", to)
    BY <1>2 DEF main_loop_check
  <2>2. UNCHANGED schedVars
    BY <1>2 DEF main_loop_check
  <2> QED
    BY <2>1, <2>2, SchedUndisturbed
<1>3. CASE main_loop_yield
  BY <1>3, PitIsr DEF main_loop_yield, scheduler_yield, SchedInv,
      PreemptionDiscipline, ContextsOwn, PreemptionSaved, TypeInv, Go,
      schedVars, listVars, lifeVars
<1>4. CASE main_halt
  BY <1>4, SchedUndisturbed DEF main_halt
<1>5. CASE TimerInterrupt
  BY <1>5, PitIsr DEF TimerInterrupt, SchedInv, PreemptionDiscipline,
      ContextsOwn, PreemptionSaved, TypeInv, Go, schedVars, listVars, lifeVars
<1> QED
  BY <1>1, <1>2, <1>3, <1>4, <1>5, ZenonT(60) DEF MainStep

\* The preemption flag, the processor and current_thread stay in agreement.
LEMMA NextSched == TypeInv /\ SchedInv /\ [Next]_vars => SchedInv'
<1> SUFFICES ASSUME TypeInv, SchedInv, [Next]_vars PROVE SchedInv'
  OBVIOUS
<1>1. CASE UNCHANGED vars
  BY <1>1 DEF vars, schedVars, SchedInv, PreemptionDiscipline, ContextsOwn,
      PreemptionSaved
<1> QED
  BY <1>1, CreateStepSched, DetachWaitSched, MainTimerSched DEF Next,
      CreateStep

----------------------------------------------------------------------------

Waiting == {"wait_enable", "wait_yield", "wait_return"}
Tested  == {"wait_disable", "wait_set"}

\* A step of e that lets nobody begin to wait or pass the test of thread_wait,
\* and in which e gets no threads but new ones, preserves who waits for whom.
LEMMA LifeFrame ==
    ASSUME TypeInv, LifeInv, NEW e \in Threads,
           UNCHANGED <<detached, wait_list>>,
           \A f \in Threads \ {e} : /\ created'[f] = created[f]
                                    /\ arg'[f] = arg[f]
                                    /\ pc'[f] = pc[f],
           created[e] \subseteq created'[e],
           \A t \in created'[e] \ created[e] :
               t \in Threads /\ status[t] = "NONE" /\ status'[t] # "NONE",
           \/ arg'[e] = arg[e]
           \/ arg'[e] \subseteq created[e] /\ pc'[e] \notin Tested,
           \A t \in Threads :
               /\ status[t] # "NONE" => status'[t] # "NONE"
               /\ status'[t] = "WAITING" => status[t] = "WAITING",
           pc[e] \notin Waiting \/ pc'[e] \in Waiting,
           pc'[e] \notin Tested \/ pc[e] \in Tested
    PROVE  LifeInv'
<1> USE DEF TypeInv, LifeInv
<1>1. OneCreator'
  BY DEF OneCreator
<1>2. WaitersWait'
  BY DEF WaitersWait, Waiting
<1>3. TestHolds'
  BY DEF TestHolds, Tested
<1>4. DetachedNotAwaited'
  BY DEF DetachedNotAwaited
<1> QED
  BY <1>1, <1>2, <1>3, <1>4

\* thread_create, thread_exit and a voluntary yield preserve it: a thread that
\* is created was nobody's before.
LEMMA CreateStepLife ==
    ASSUME TypeInv, SchedInv, LifeInv, NEW e \in Threads, CreateStep(e)
    PROVE  LifeInv'
<1>0. /\ SchedStep(e)
      /\ UNCHANGED <<detached, wait_list, arg>>
      /\ \A f \in Threads \ {e} : created'[f] = created[f]
      /\ created[e] \subseteq created'[e]
      /\ \A t \in created'[e] \ created[e] :
            t \in Threads /\ status[t] = "NONE" /\ status'[t] # "NONE"
  BY DEF CreateStep, Receive, TypeInv
<1>a. SUFFICES /\ \A f \in Threads \ {e} : pc'[f] = pc[f]
               /\ \A t \in Threads :
                    /\ status[t] # "NONE" => status'[t] # "NONE"
                    /\ status'[t] = "WAITING" => status[t] = "WAITING"
               /\ pc[e] \notin Waiting
               /\ pc'[e] \notin Tested
  BY <1>0, LifeFrame
<1> USE DEF TypeInv, Waiting, Tested, Go, Call, schedVars, listVars
<1>1. CASE thread_create_enter(e)
  BY <1>1 DEF thread_create_enter
<1>2. CASE thread_create_disable(e)
  BY <1>2 DEF thread_create_disable
<1>3. CASE \E t \in Threads : thread_create_succeed(e, t)
  BY <1>3 DEF thread_create_succeed, Statuses
<1>4. CASE thread_create_fail(e)
  BY <1>4 DEF thread_create_fail
<1>5. CASE thread_create_restore(e)
  BY <1>5 DEF thread_create_restore
<1>6. CASE thread_exit(e)
  BY <1>6 DEF thread_exit, Statuses
<1>7. CASE thread_exit_yield(e)
  BY <1>7, PitIsr DEF thread_exit_yield, scheduler_yield, SchedInv
<1>8. CASE client_yield(e)
  BY <1>8, PitIsr DEF client_yield, scheduler_yield, SchedInv
<1> QED
  BY <1>0, <1>1, <1>2, <1>3, <1>4, <1>5, <1>6, <1>7, <1>8, ZenonT(60)
      DEF SchedStep

\* thread_detach preserves it: what it detaches only e could be waiting for.
LEMMA DetachStepLife ==
    ASSUME TypeInv, LifeInv, NEW e \in Threads, DetachStep(e)
    PROVE  LifeInv'
<1> USE DEF TypeInv, Go, Call, schedVars, lifeVars
<1>1. CASE \E t \in Threads : thread_detach_enter(e, t)
  <2>1. PICK t \in Threads : thread_detach_enter(e, t)
    BY <1>1
  <2>2. arg'[e] \subseteq created[e]
    BY <2>1 DEF thread_detach_enter
  <2> QED
    BY <2>1, <2>2, LifeFrame DEF thread_detach_enter, Waiting, Tested
<1>2. CASE thread_detach_test(e)
  BY <1>2, LifeFrame DEF thread_detach_test, Waiting, Tested
<1>3. CASE thread_detach_set(e)
  <2> USE <1>3 DEF thread_detach_set, LifeInv
  <2>1. \A f \in Threads \ {e} : \A t \in created[f] :
            detached'[t] = detached[t]
    BY DEF OneCreator
  <2>2. OneCreator'
    BY DEF OneCreator
  <2>3. WaitersWait'
    BY DEF WaitersWait
  <2>4. TestHolds'
    BY <2>1 DEF TestHolds, OneCreator
  <2>5. DetachedNotAwaited'
    <3>1. status[e] # "WAITING"
      BY DEF WaitersWait
    <3> QED
      BY <2>1, <3>1 DEF DetachedNotAwaited, WaitersWait
  <2> QED
    BY <2>2, <2>3, <2>4, <2>5
<1> QED
  BY <1>1, <1>2, <1>3 DEF DetachStep

\* thread_wait preserves it: e begins to wait for what it has tested.
LEMMA WaitStepLife ==
    ASSUME TypeInv, SchedInv, LifeInv, NEW e \in Threads, WaitStep(e)
    PROVE  LifeInv'
<1> USE DEF TypeInv, Go, Call, schedVars, listVars, lifeVars
<1>1. CASE \E list \in SUBSET created[e] \ {{}} : thread_wait_enter(e, list)
  <2>1. PICK list \in SUBSET created[e] : thread_wait_enter(e, list)
    BY <1>1, Zenon
  <2>2. arg'[e] \subseteq created[e]
    BY <2>1 DEF thread_wait_enter
  <2> QED
    BY <2>1, <2>2, LifeFrame, Zenon DEF thread_wait_enter, Waiting, Tested
<1>2. CASE thread_wait_test(e)
  <2> USE <1>2 DEF thread_wait_test, LifeInv
  <2>1. OneCreator'
    BY DEF OneCreator
  <2>2. WaitersWait'
    BY DEF WaitersWait
  <2>3. TestHolds'
    BY DEF TestHolds
  <2>4. DetachedNotAwaited'
    BY DEF DetachedNotAwaited
  <2> QED
    BY <2>1, <2>2, <2>3, <2>4
<1>3. CASE thread_wait_disable(e)
  BY <1>3, LifeFrame DEF thread_wait_disable, Waiting, Tested
<1>4. CASE thread_wait_set(e)
  <2> USE <1>4 DEF thread_wait_set, LifeInv
  <2>0. current_thread = e
    BY DEF SchedInv, ContextsOwn
  <2>1. OneCreator'
    BY <2>0 DEF OneCreator
  <2>2. WaitersWait'
    BY <2>0 DEF WaitersWait, OneCreator
  <2>3. TestHolds'
    BY DEF TestHolds
  <2>4. DetachedNotAwaited'
    BY <2>0 DEF DetachedNotAwaited, TestHolds
  <2> QED
    BY <2>1, <2>2, <2>3, <2>4
<1>5. CASE thread_wait_enable(e)
  BY <1>5, LifeFrame DEF thread_wait_enable, Waiting, Tested
<1>6. CASE thread_wait_yield(e)
  BY <1>6, PitIsr, LifeFrame DEF thread_wait_yield, scheduler_yield, SchedInv,
      Waiting, Tested
<1> QED
  BY <1>1, <1>2, <1>3, <1>4, <1>5, <1>6, Zenon DEF WaitStep

\* Main's loop and the timer preserve it: they make nobody wait.
LEMMA MainTimerLife ==
    ASSUME TypeInv, SchedInv, LifeInv, MainStep \/ TimerInterrupt,
           UNCHANGED lifeVars
    PROVE  LifeInv'
<1> USE DEF TypeInv, Go, schedVars, lifeVars, Waiting, Tested
<1>1. CASE main_enter_loop
  BY <1>1, LifeFrame DEF main_enter_loop
<1>2. CASE main_loop_check
  BY <1>2, LifeFrame DEF main_loop_check
<1>3. CASE main_loop_yield
  BY <1>3, PitIsr, LifeFrame DEF main_loop_yield, scheduler_yield, SchedInv
<1>4. CASE main_halt
  BY <1>4, LifeFrame DEF main_halt
<1>5. CASE TimerInterrupt
  BY <1>5, PitIsr, LifeFrame DEF TimerInterrupt, SchedInv
<1> QED
  BY <1>1, <1>2, <1>3, <1>4, <1>5, ZenonT(60) DEF MainStep

\* Who waits for whom stays in order.
LEMMA NextLife == TypeInv /\ SchedInv /\ LifeInv /\ [Next]_vars => LifeInv'
<1> SUFFICES ASSUME TypeInv, SchedInv, LifeInv, [Next]_vars PROVE LifeInv'
  OBVIOUS
<1>1. CASE UNCHANGED vars
  BY <1>1 DEF vars, schedVars, lifeVars, LifeInv, OneCreator, WaitersWait,
      TestHolds, DetachedNotAwaited
<1> QED
  BY <1>1, CreateStepLife, DetachStepLife, WaitStepLife, MainTimerLife
      DEF Next

----------------------------------------------------------------------------

\* Types, scheduling and waiting, together, hold in every state.
THEOREM Invariance == Spec => []IInv
<1>1. Init => IInv
  <2> SUFFICES ASSUME Init PROVE IInv
    OBVIOUS
  <2> USE DEF Init, SchedInit
  <2>1. TypeInv
    BY DEF TypeInv, Labels, Statuses, Pointers
  <2>2. SchedInv
    BY DEF SchedInv, PreemptionDiscipline, ContextsOwn, PreemptionSaved
  <2>3. LifeInv
    BY DEF LifeInv, OneCreator, WaitersWait, TestHolds, DetachedNotAwaited
  <2> QED
    BY <2>1, <2>2, <2>3 DEF IInv
<1>2. IInv /\ [Next]_vars => IInv'
  BY NextType, NextSched, NextLife DEF IInv, SchedInv
<1> QED
  BY <1>1, <1>2, PTL DEF Spec

\* Preemption is off exactly while the running thread is inside thread_create
\* or the part of thread_wait that sets its fields (thread.c:80-133, 183-192),
\* for any number of threads: no thread is switched out half-way into waiting
\* and none leaves preemption disabled behind.
THEOREM PreemptionIsDisciplined == Spec => []PreemptionDiscipline
<1>1. IInv => PreemptionDiscipline
  BY DEF IInv, SchedInv
<1> QED
  BY <1>1, Invariance, PTL

\* Nobody waits for a detached thread (thread.c:162-164, 179-190), for any
\* number of threads of which each is waited for and detached by its creator
\* only, although thread_wait tests detached with preemption enabled.
THEOREM DetachedIsNotAwaited == Spec => []DetachedNotAwaited
<1>1. IInv => DetachedNotAwaited
  BY DEF IInv, LifeInv
<1> QED
  BY <1>1, Invariance, PTL
=============================================================================
