----------------------------- MODULE MutexDemo -----------------------------
(***************************************************************************)
(* The threads of kernel/init/main.c under a fair processor: main creates  *)
(* kernel threads, each of which repeats mutex_lock, a short section and   *)
(* mutex_unlock, yields now and then, and at some point outside the        *)
(* section returns from its entry function.                                *)
(***************************************************************************)
EXTENDS Mutex

\* A thread calls mutex_lock and returns only outside the section, and calls
\* mutex_unlock only inside it.
thread_main(e) ==
    pc[e] = "client" =>
        /\ pc'[e] \in {"lock_disable", "exit_yield"} => held[e] = {}
        /\ pc'[e] = "unlock_disable" => mtx'[e] \in held[e]

DemoNext == Next /\ \A e \in Threads : thread_main(e)

\* A step of e inside one of the kernel's functions or main's loop.
Run(e) ==
    /\ cpu = e
    /\ pc[e] # "client"
    /\ \/ LockStep(e)
       \/ TryUnlockStep(e)
       \/ SchedStep(e) /\ UNCHANGED mutexVars
       \/ e = Main /\ MainStep /\ UNCHANGED mutexVars

\* e comes to the end of its section, and main to the end of its set-up.
Finish(e) ==
    /\ cpu = e
    /\ pc[e] = "client"
    /\ \/ \E m \in held[e] : mutex_unlock_enter(e, m)
       \/ e = Main /\ main_enter_loop /\ UNCHANGED mutexVars

Tick == TimerInterrupt /\ preemption_enabled /\ UNCHANGED mutexVars

(***************************************************************************)
(* A thread that is on the processor again and again executes, since a     *)
(* time slice is many instructions long; a section ends; and the timer     *)
(* does not miss every moment at which preemption is enabled.  Nothing     *)
(* makes a thread call mutex_lock, yield or return.                        *)
(***************************************************************************)
Fairness ==
    /\ SF_vars(Tick)
    /\ \A e \in Threads : SF_vars(Run(e)) /\ SF_vars(Finish(e))

DemoSpec == Init /\ [][DemoNext]_vars /\ Fairness

----------------------------------------------------------------------------

\* Every runnable thread gets the processor: the round robin of
\* scheduler_get_next_thread starves nobody (scheduler.c:50-64).
RunnableRuns ==
    \A t \in Threads : Runnable(t) ~> (cpu = t \/ ~Runnable(t))

\* A mutex that is taken is given back, so the owner is never left blocked,
\* off the scheduler's list or unable to run.
TakenIsReleased ==
    \A m \in Mutexes, t \in Threads : owner[m] = t ~> owner[m] # t

\* A thread that is on the list of a mutex that is in use leaves the list: a
\* release wakes somebody who takes the mutex and releases it in turn
\* (mutex.c:42-57, 132).
ListedWaiterLeaves ==
    \A m \in Mutexes, t \in Threads :
        (t \in Waiting(m) /\ locked[m]) ~> t \notin Waiting(m)

\* Whoever calls mutex_lock gets the mutex, when every section ends: what the
\* loops of main.c (203-211, 227) count on to come to their end.
LockReturns ==
    \A t \in Threads : pc[t] = "lock_disable" ~> pc[t] = "client"
=============================================================================
