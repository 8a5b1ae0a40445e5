-------------------------------- MODULE Lock --------------------------------
(***************************************************************************)
(* What a lock promises its callers, whatever it is made of: a lock is     *)
(* granted only while nobody has it, and only who has it can give it back. *)
(* An attempt that fails, and one that waits, change nothing here.         *)
(***************************************************************************)
CONSTANTS Clients, Locks

VARIABLE held     \* held[c]: the locks that client c has been granted

LockInit == held = [c \in Clients |-> {}]

Acquire(c, m) ==
    /\ \A d \in Clients : m \notin held[d]
    /\ held' = [held EXCEPT ![c] = @ \cup {m}]

Release(c, m) ==
    /\ m \in held[c]
    /\ held' = [held EXCEPT ![c] = @ \ {m}]

LockNext == \E c \in Clients, m \in Locks : Acquire(c, m) \/ Release(c, m)

LockSpec == LockInit /\ [][LockNext]_held
=============================================================================
