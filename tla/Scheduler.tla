----------------------------- MODULE Scheduler -----------------------------
(***************************************************************************)
(* The kernel's uniprocessor scheduler: the list of threads of             *)
(* kernel/thread/scheduler.c, the timer interrupt that switches threads    *)
(* (kernel/arch/i686/pc/init.c), the global preemption flag, creation and  *)
(* exit of threads (kernel/thread/thread.c) and the loop the main thread   *)
(* ends in (kernel/init/main.c).                                           *)
(*                                                                         *)
(* One processor executes one context at a time: cpu is the thread whose   *)
(* code is executing, pc[e] the place of context e in that code.  Only the *)
(* context on the processor takes steps, and between two of its steps the  *)
(* timer may interrupt it.  The kernel's own record of who is running,     *)
(* current_thread, is a variable of its own: nothing but the code keeps    *)
(* the two in agreement.                                                   *)
(***************************************************************************)
EXTENDS Naturals, FiniteSets

CONSTANTS Threads,      \* every struct thread that can ever be allocated
          Main,         \* the thread made by thread_init, of type TT_MAIN
          NULL,
          Calls         \* Calls[t]: the kernel functions that t's code calls

ASSUME ThreadsAssumption ==
    /\ IsFiniteSet(Threads)
    /\ Main \in Threads
    /\ NULL \notin Threads

\* main() creates threads and then loops; it takes no lock, waits for no
\* thread and never returns.
ASSUME CallsAssumption ==
    /\ DOMAIN Calls = Threads
    /\ Calls[Main] \subseteq {"create", "detach"}

VARIABLES
    first_thread,        \* head of the scheduler's list
    next,                \* next[t]: the field next of t
    status,              \* status[t]; "NONE" while t is not allocated
    current_thread,      \* the thread the scheduler says is running
    preemption_enabled,  \* one flag for the whole kernel, not a counter
    kmode_stack_ptr,     \* the context that t's saved stack pointer resumes
    cpu,                 \* the context the processor is executing
    pc,                  \* where each context is in the code
    prev_preemption      \* local prev_preemption_enabled of thread_create

listVars  == <<first_thread, next>>
schedVars == <<first_thread, next, status, current_thread,
               preemption_enabled, kmode_stack_ptr, cpu, prev_preemption>>

Statuses == {"NONE", "PENDING", "RUNNING", "BLOCKING", "WAITING", "FINISHED"}

Pointers == Threads \cup {NULL}

Runnable(t) == status[t] \in {"RUNNING", "PENDING"}

NumThreads == Cardinality(Threads)

\* The cells visited from head along link, NULL once past the end.
Chain(head, link) ==
    LET c[k \in 0..NumThreads] ==
          IF k = 0 THEN head
          ELSE LET t == c[k-1] IN IF t = NULL THEN NULL ELSE link[t]
    IN  c

OnChain(head, link) == {Chain(head, link)[k] : k \in 0..NumThreads} \ {NULL}

Linked == OnChain(first_thread, next)

----------------------------------------------------------------------------

\* Mutant: the new thread does not get the old list as its next.
add_thread_drops_list(t) ==
    /\ next' = [next EXCEPT ![t] = NULL]
    /\ first_thread' = t

\* A new thread goes to the front of the list.
scheduler_add_thread(t) ==
    /\ next' = [next EXCEPT ![t] = first_thread]
    /\ first_thread' = t

\* Mutant: every search starts at the head of the list.
search_from_first ==
    LET w[k \in 0..(2 * NumThreads)] ==
          IF k = 0 THEN first_thread
          ELSE IF k = 1 THEN first_thread
          ELSE LET t == next[w[k-1]] IN IF t = NULL THEN first_thread ELSE t
    IN  w

\* The threads the do-while loop visits, starting after current_thread and
\* wrapping to first_thread at the end of the list.
RoundRobin ==
    LET w[k \in 0..(2 * NumThreads)] ==
          IF k = 0 THEN current_thread
          ELSE LET t == next[w[k-1]] IN IF t = NULL THEN first_thread ELSE t
    IN  w

\* n is the thread the loop stops at: the first runnable one it visits.
scheduler_get_next_thread(n) ==
    \E k \in 1..(2 * NumThreads) :
        /\ RoundRobin[k] = n
        /\ Runnable(n)
        /\ \A j \in 1..(k-1) : ~Runnable(RoundRobin[j])

scheduler_has_other_runnable_thread ==
    \E t \in Linked \ {current_thread} : Runnable(t)

\* Mutant: the chosen thread is not recorded as the current one.
switch_without_set_current ==
    \E n \in Threads :
        /\ scheduler_get_next_thread(n)
        /\ status' = [status EXCEPT ![n] = "RUNNING"]
        /\ kmode_stack_ptr' = [kmode_stack_ptr EXCEPT ![current_thread] = cpu]
        /\ cpu' = kmode_stack_ptr'[n]
        /\ UNCHANGED <<listVars, current_thread, preemption_enabled,
                       prev_preemption>>

\* Save the interrupted context in the thread that is recorded as running and
\* resume what the chosen thread saved.
switch_thread ==
    \E n \in Threads :
        /\ scheduler_get_next_thread(n)
        /\ status' = [status EXCEPT ![n] = "RUNNING"]
        /\ kmode_stack_ptr' = [kmode_stack_ptr EXCEPT ![current_thread] = cpu]
        /\ current_thread' = n
        /\ cpu' = kmode_stack_ptr'[n]
        /\ UNCHANGED <<listVars, preemption_enabled, prev_preemption>>

pit_isr ==
    IF preemption_enabled THEN switch_thread ELSE UNCHANGED schedVars

\* The timer interrupts the running context between two of its steps; a
\* processor halted by hlt goes on after it.
TimerInterrupt ==
    /\ pit_isr
    /\ pc' = IF pc[cpu] = "halted" THEN [pc EXCEPT ![cpu] = "loop"] ELSE pc

\* Context e, on the processor, moves from one place in the code to another.
Go(e, from, to) ==
    /\ cpu = e
    /\ pc[e] = from
    /\ pc' = [pc EXCEPT ![e] = to]

\* The code of e calls one of the kernel's functions.
Call(e, function, to) ==
    /\ function \in Calls[e]
    /\ Go(e, "client", to)

\* scheduler_yield raises the timer's vector by hand, so it runs pit_isr.
scheduler_yield(e, from, to) ==
    /\ Go(e, from, to)
    /\ pit_isr

----------------------------------------------------------------------------

thread_disable_preemption == preemption_enabled' = FALSE

thread_enable_preemption == preemption_enabled' = TRUE

thread_create_enter(e) ==
    /\ Call(e, "create", "create_disable")
    /\ prev_preemption' = [prev_preemption EXCEPT ![e] = preemption_enabled]
    /\ UNCHANGED <<listVars, status, current_thread, preemption_enabled,
                   kmode_stack_ptr, cpu>>

thread_create_disable(e) ==
    /\ Go(e, "create_disable", "create_body")
    /\ thread_disable_preemption
    /\ UNCHANGED <<listVars, status, current_thread, kmode_stack_ptr, cpu,
                   prev_preemption>>

\* Mutant: the stack of the new thread is not set up.
create_without_stack(e, t) ==
    /\ Go(e, "create_body", "create_restore")
    /\ status[t] = "NONE"
    /\ status' = [status EXCEPT ![t] = "PENDING"]
    /\ scheduler_add_thread(t)
    /\ UNCHANGED <<current_thread, preemption_enabled, kmode_stack_ptr, cpu,
                   prev_preemption>>

\* The new thread's stack is set up so that it resumes its own context.
thread_create_succeed(e, t) ==
    /\ Go(e, "create_body", "create_restore")
    /\ status[t] = "NONE"
    /\ status' = [status EXCEPT ![t] = "PENDING"]
    /\ kmode_stack_ptr' = [kmode_stack_ptr EXCEPT ![t] = t]
    /\ scheduler_add_thread(t)
    /\ UNCHANGED <<current_thread, preemption_enabled, cpu, prev_preemption>>

\* No memory for the object or its stack: whatever was taken is given back.
thread_create_fail(e) ==
    /\ Go(e, "create_body", "create_restore")
    /\ UNCHANGED schedVars

thread_create_restore(e) ==
    /\ Go(e, "create_restore", "client")
    /\ preemption_enabled' = (preemption_enabled \/ prev_preemption[e])
    /\ UNCHANGED <<listVars, status, current_thread, kmode_stack_ptr, cpu,
                   prev_preemption>>

\* Mutant: the thread is not marked as finished.
exit_without_status(e) ==
    /\ Call(e, "exit", "exit_yield")
    /\ UNCHANGED schedVars

\* The entry function of a kernel thread returned.
thread_exit(e) ==
    /\ Call(e, "exit", "exit_yield")
    /\ status' = [status EXCEPT ![current_thread] = "FINISHED"]
    /\ UNCHANGED <<listVars, current_thread, preemption_enabled,
                   kmode_stack_ptr, cpu, prev_preemption>>

\* After the yield there is only the empty loop for(;;).
thread_exit_yield(e) == scheduler_yield(e, "exit_yield", "exited")

client_yield(e) ==
    /\ "yield" \in Calls[e]
    /\ scheduler_yield(e, "client", "client")

----------------------------------------------------------------------------

\* main leaves its set-up code for its endless loop.
main_enter_loop ==
    /\ Go(Main, "client", "loop")
    /\ UNCHANGED schedVars

\* One pass of the loop.  Main is of type TT_MAIN, so scheduler_maintain
\* returns without doing anything.
main_loop_check ==
    /\ Go(Main, "loop", IF scheduler_has_other_runnable_thread
                          THEN "loop_yield" ELSE "halt")
    /\ UNCHANGED schedVars

main_loop_yield == scheduler_yield(Main, "loop_yield", "loop")

\* sti; hlt: from here only an interrupt moves the processor on.
main_halt ==
    /\ Go(Main, "halt", "halted")
    /\ UNCHANGED schedVars

----------------------------------------------------------------------------

\* The state at the end of main's set-up: thread_init has put the main thread
\* in the list, and preemption has just been enabled.
SchedInit ==
    /\ first_thread = Main
    /\ next = [t \in Threads |-> NULL]
    /\ status = [t \in Threads |-> IF t = Main THEN "RUNNING" ELSE "NONE"]
    /\ current_thread = Main
    /\ preemption_enabled = TRUE
    /\ kmode_stack_ptr = [t \in Threads |-> NULL]
    /\ cpu = Main
    /\ pc = [t \in Threads |-> "client"]
    /\ prev_preemption = [t \in Threads |-> TRUE]

\* The scheduler's own steps of context e and of the main loop.
SchedStep(e) ==
    \/ thread_create_enter(e)
    \/ thread_create_disable(e)
    \/ \E t \in Threads : thread_create_succeed(e, t)
    \/ thread_create_fail(e)
    \/ thread_create_restore(e)
    \/ thread_exit(e)
    \/ thread_exit_yield(e)
    \/ client_yield(e)

MainStep ==
    \/ main_enter_loop
    \/ main_loop_check
    \/ main_loop_yield
    \/ main_halt
=============================================================================
