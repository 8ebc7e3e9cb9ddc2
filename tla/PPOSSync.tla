------------------------------- MODULE PPOSSync -------------------------------
(***************************************************************************)
(* Semaphores and mutexes of the PingPongOS kernel, as the disk manager    *)
(* uses them.  The kernel is linked from libppos_static.a; its header is   *)
(* src/ppos.h and its objects are the semaphore_t and mutex_t of           *)
(* src/ppos_data.h: a counter and a FIFO queue of suspended tasks.         *)
(*                                                                         *)
(* A primitive that suspends its caller takes effect at once: the caller   *)
(* enters the queue and goes on from the statement after the call once     *)
(* another task (or a signal handler) has taken it out again.  A resumed   *)
(* task never competes: the token or the lock is handed to it.             *)
(***************************************************************************)
EXTENDS Integers, Sequences, Functions

VARIABLES value,    \* value[o]: the counter of a semaphore; 1 = a free mutex, 0 = a taken one
          waiting   \* waiting[o]: the tasks suspended on o, oldest first

syncVars == <<value, waiting>>

\* The task is suspended in some primitive: it has no step to take.
Blocked(t) == \E o \in DOMAIN waiting : t \in Range(waiting[o])

\* sem_create, mutex_create for a whole family of objects.
SyncInit(initial) ==
  /\ value = initial
  /\ waiting = [o \in DOMAIN initial |-> <<>>]

\* sem_down: decrement; a negative counter suspends the caller.
SemDown(s, t) ==
  /\ value' = [value EXCEPT ![s] = @ - 1]
  /\ waiting' = IF value[s] <= 0 THEN [waiting EXCEPT ![s] = Append(@, t)] ELSE waiting

\* sem_up: increment; if somebody was waiting, resume the oldest.
SemUp(s) ==
  /\ value' = [value EXCEPT ![s] = @ + 1]
  /\ waiting' = IF value[s] < 0 THEN [waiting EXCEPT ![s] = Tail(@)] ELSE waiting

\* mutex_lock: take a free mutex, else wait for it to be handed over.
MutexLock(m, t) ==
  IF value[m] = 0
  THEN /\ waiting' = [waiting EXCEPT ![m] = Append(@, t)]
       /\ UNCHANGED value
  ELSE /\ value' = [value EXCEPT ![m] = 0]
       /\ UNCHANGED waiting

\* mutex_unlock: hand the mutex to the oldest waiter, which keeps it taken; else free it.
MutexUnlock(m) ==
  IF waiting[m] # <<>>
  THEN /\ waiting' = [waiting EXCEPT ![m] = Tail(@)]
       /\ UNCHANGED value
  ELSE /\ value' = [value EXCEPT ![m] = 1]
       /\ UNCHANGED waiting

=============================================================================
