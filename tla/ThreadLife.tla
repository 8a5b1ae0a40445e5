----------------------------- MODULE ThreadLife -----------------------------
(***************************************************************************)
(* Waiting for threads and detaching them (kernel/thread/thread.c), on top *)
(* of the scheduler, by threads that use what they create the way          *)
(* kernel/init/main.c does: only the creator of a thread detaches it or    *)
(* waits for it.                                                           *)
(*                                                                         *)
(* thread_remove and the body of scheduler_maintain are never executed:    *)
(* only main calls scheduler_maintain, which refuses the main thread, so   *)
(* no thread_wait returns to a thread_remove.                              *)
(***************************************************************************)
EXTENDS Scheduler

VARIABLES
    detached, wait_list,   \* fields of struct thread
    created,               \* the threads that e created
    arg                    \* argument of e's call of thread_wait or _detach

lifeVars == <<detached, wait_list, created, arg>>
vars     == <<schedVars, pc, lifeVars>>

\* The creator receives the new thread, in new_thread or thread1.
Receive(e) ==
    created' = [created EXCEPT
                  ![e] = @ \cup {t \in Threads : status[t] = "NONE"
                                              /\ status'[t] # "NONE"}]

----------------------------------------------------------------------------

thread_detach_enter(e, t) ==
    /\ t \in created[e]
    /\ Call(e, "detach", "detach_test")
    /\ arg' = [arg EXCEPT ![e] = {t}]
    /\ UNCHANGED <<schedVars, detached, wait_list, created>>

\* A thread that is itself waiting is not detached.
thread_detach_test(e) ==
    /\ Go(e, "detach_test", IF \E t \in arg[e] : wait_list[t] # NULL
                              THEN "client" ELSE "detach_set")
    /\ UNCHANGED <<schedVars, lifeVars>>

thread_detach_set(e) ==
    /\ Go(e, "detach_set", "client")
    /\ detached' = [t \in Threads |-> detached[t] \/ t \in arg[e]]
    /\ UNCHANGED <<schedVars, wait_list, created, arg>>

----------------------------------------------------------------------------

thread_wait_enter(e, list) ==
    /\ Call(e, "wait", "wait_test")
    /\ arg' = [arg EXCEPT ![e] = list]
    /\ UNCHANGED <<schedVars, detached, wait_list, created>>

\* Mutant: detached threads are waited for.
wait_for_detached(e) ==
    /\ Go(e, "wait_test", "wait_disable")
    /\ UNCHANGED <<schedVars, lifeVars>>

thread_wait_test(e) ==
    /\ Go(e, "wait_test", IF \E t \in arg[e] : detached[t]
                            THEN "client" ELSE "wait_disable")
    /\ UNCHANGED <<schedVars, lifeVars>>

thread_wait_disable(e) ==
    /\ Go(e, "wait_disable", "wait_set")
    /\ thread_disable_preemption
    /\ UNCHANGED <<listVars, status, current_thread, kmode_stack_ptr, cpu,
                   prev_preemption, lifeVars>>

\* The timeout is stored and never used.
thread_wait_set(e) ==
    /\ Go(e, "wait_set", "wait_enable")
    /\ wait_list' = [wait_list EXCEPT ![current_thread] = arg[e]]
    /\ status' = [status EXCEPT ![current_thread] = "WAITING"]
    /\ UNCHANGED <<listVars, current_thread, preemption_enabled,
                   kmode_stack_ptr, cpu, prev_preemption, detached, created,
                   arg>>

\* Mutant: preemption stays disabled over the yield.
wait_without_enable(e) ==
    /\ Go(e, "wait_enable", "wait_yield")
    /\ UNCHANGED <<schedVars, lifeVars>>

thread_wait_enable(e) ==
    /\ Go(e, "wait_enable", "wait_yield")
    /\ thread_enable_preemption
    /\ UNCHANGED <<listVars, status, current_thread, kmode_stack_ptr, cpu,
                   prev_preemption, lifeVars>>

\* Only scheduler_maintain would make a waiting thread runnable again, so no
\* context is ever resumed at wait_return.
thread_wait_yield(e) ==
    /\ scheduler_yield(e, "wait_yield", "wait_return")
    /\ UNCHANGED lifeVars

----------------------------------------------------------------------------

Init ==
    /\ SchedInit
    /\ detached = [t \in Threads |-> FALSE]
    /\ wait_list = [t \in Threads |-> NULL]
    /\ created = [t \in Threads |-> {}]
    /\ arg = [t \in Threads |-> {}]

DetachStep(e) ==
    \/ \E t \in Threads : thread_detach_enter(e, t)
    \/ thread_detach_test(e)
    \/ thread_detach_set(e)

WaitStep(e) ==
    \/ \E list \in SUBSET created[e] \ {{}} : thread_wait_enter(e, list)
    \/ thread_wait_test(e)
    \/ thread_wait_disable(e)
    \/ thread_wait_set(e)
    \/ thread_wait_enable(e)
    \/ thread_wait_yield(e)

CreateStep(e) ==
    /\ SchedStep(e)
    /\ Receive(e)
    /\ UNCHANGED <<detached, wait_list, arg>>

Next ==
    \/ \E e \in Threads : CreateStep(e)
    \/ \E e \in Threads : DetachStep(e)
    \/ \E e \in Threads : WaitStep(e)
    \/ MainStep /\ UNCHANGED lifeVars
    \/ TimerInterrupt /\ UNCHANGED lifeVars

\* A step of e inside one of the kernel's functions, and of main in any case.
Run(e) ==
    /\ cpu = e
    /\ \/ pc[e] # "client" /\ (CreateStep(e) \/ DetachStep(e) \/ WaitStep(e))
       \/ e = Main /\ MainStep /\ UNCHANGED lifeVars

Tick == TimerInterrupt /\ preemption_enabled /\ UNCHANGED lifeVars

(***************************************************************************)
(* A thread that is on the processor again and again executes, and the     *)
(* timer does not miss every moment at which preemption is enabled.        *)
(* Nothing makes a thread call anything or return.                         *)
(***************************************************************************)
Spec ==
    /\ Init /\ [][Next]_vars
    /\ SF_vars(Tick)
    /\ \A e \in Threads : SF_vars(Run(e))

----------------------------------------------------------------------------

\* Preemption is off exactly while the running thread is inside thread_create
\* or the part of thread_wait that sets its fields, so that a thread is never
\* switched out half-way into waiting (thread.c:80-133, 183-192).
PreemptionDiscipline ==
    \A e \in Threads :
        pc[e] \in {"create_body", "create_restore", "wait_set", "wait_enable"}
            <=> (e = cpu /\ ~preemption_enabled)

\* Nobody waits for a detached thread, whose struct is not the waiter's to
\* read once it has finished; thread_wait tests detached with preemption
\* enabled, and thread_detach does not test whether its argument is waited
\* for (thread.c:162-164, 179-190).
DetachedNotAwaited ==
    \A e \in Threads :
        status[e] = "WAITING" => \A t \in wait_list[e] : ~detached[t]

\* A thread that calls thread_exit leaves the processor and is never resumed,
\* to run into the empty loop after the yield (thread.c:214-220).
ExitIsFinal ==
    \A e \in Threads : pc[e] = "exit_yield" ~> [](cpu # e)

\* A thread that waits for threads which have all finished goes on: what
\* thread2_main counts on to remove them (main.c:234-237).
WaitReturns ==
    \A e \in Threads :
        (pc[e] = "wait_return" /\ \A t \in arg[e] : status[t] = "FINISHED")
            ~> cpu = e
=============================================================================
