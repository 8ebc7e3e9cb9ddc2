------------------------------ MODULE PPOSKernel ------------------------------
(***************************************************************************)
(* The tasks of the PingPongOS kernel and its calls, as the programs       *)
(* src/pingpong-*.c use them: create, exit, join, sleep and semaphores     *)
(* that can be destroyed.  The kernel itself is linked from                *)
(* libppos_static.a; its header is src/ppos.h.                             *)
(*                                                                         *)
(* A call takes effect at once.  If it suspends its caller, the caller     *)
(* goes on inside the call once another call has resumed it, and finds     *)
(* its result then.                                                        *)
(***************************************************************************)
EXTENDS PPOSSync

CONSTANT Tasks

VARIABLES active,     \* active[s]: the semaphore is created and not destroyed
          state,      \* state[t]: "none", "live" or "exited"
          exitCode,   \* exitCode[t]: what t passed to task_exit
          joinQueue,  \* joinQueue[t]: the tasks waiting for t to exit, oldest first
          sleeping    \* the tasks in the sleep queue

kernelVars == <<syncVars, active, state, exitCode, joinQueue, sleeping>>

KernelInit(initial, first) ==
  /\ SyncInit(initial)
  /\ active = [s \in DOMAIN initial |-> TRUE]
  /\ state = [t \in Tasks |-> IF t = first THEN "live" ELSE "none"]
  /\ exitCode = [t \in Tasks |-> 0]
  /\ joinQueue = [t \in Tasks |-> <<>>]
  /\ sleeping = {}

Joining(t) == \E u \in Tasks : t \in Range(joinQueue[u])
Runnable(t) == state[t] = "live" /\ ~Blocked(t) /\ ~Joining(t) /\ t \notin sleeping

task_create(t) ==
  /\ state' = [state EXCEPT ![t] = "live"]
  /\ UNCHANGED <<syncVars, active, exitCode, joinQueue, sleeping>>

\* task_exit: everybody who waits in task_join is resumed.
task_exit(t, code) ==
  /\ state' = [state EXCEPT ![t] = "exited"]
  /\ exitCode' = [exitCode EXCEPT ![t] = code]
  /\ joinQueue' = [joinQueue EXCEPT ![t] = <<>>]
  /\ UNCHANGED <<syncVars, active, sleeping>>

\* task_join: wait unless the task has exited.
task_join(t, joined) ==
  /\ joinQueue' = IF state[joined] = "live"
                  THEN [joinQueue EXCEPT ![joined] = Append(@, t)] ELSE joinQueue
  /\ UNCHANGED <<syncVars, active, state, exitCode, sleeping>>

\* task_sleep: a time of 0 returns at once.
task_sleep(t, time) ==
  /\ sleeping' = IF time > 0 THEN sleeping \cup {t} ELSE sleeping
  /\ UNCHANGED <<syncVars, active, state, exitCode, joinQueue>>

\* The dispatcher finds the sleeper's time over, at any later time.
Wake(t) ==
  /\ t \in sleeping
  /\ sleeping' = sleeping \ {t}
  /\ UNCHANGED <<syncVars, active, state, exitCode, joinQueue>>

\* sem_down and sem_up leave a destroyed semaphore alone and return -1.
sem_down(t, s) ==
  /\ IF active[s] THEN SemDown(s, t) ELSE UNCHANGED syncVars
  /\ UNCHANGED <<active, state, exitCode, joinQueue, sleeping>>

sem_up(s) ==
  /\ IF active[s] THEN SemUp(s) ELSE UNCHANGED syncVars
  /\ UNCHANGED <<active, state, exitCode, joinQueue, sleeping>>

\* sem_destroy: every waiter is resumed; its sem_down returns -1.
sem_destroy(s) ==
  /\ active' = [active EXCEPT ![s] = FALSE]
  /\ waiting' = [waiting EXCEPT ![s] = <<>>]
  /\ UNCHANGED <<value, state, exitCode, joinQueue, sleeping>>

=============================================================================
