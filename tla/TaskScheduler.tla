---------------------------- MODULE TaskScheduler ----------------------------
(***************************************************************************)
(* The task scheduler of src/ppos-core-aux.c: scheduler picks the ready    *)
(* task with the least dynamic priority, resets it to its static one and   *)
(* ages every other ready task; task_setprio changes static priorities.    *)
(* The kernel library's dispatcher, its ready queue and its suspensions    *)
(* are modelled as the scheduler sees them: a dispatched task leaves the   *)
(* queue, a yielding or resumed one enters it at the end.                  *)
(***************************************************************************)
EXTENDS Selection, FiniteSets

CONSTANTS Tasks,
          NoTask,   \* the dispatcher runs
          MinPrio,  \* UNIX_MIN_PRIO
          MaxPrio,  \* UNIX_MAX_PRIO
          Prios     \* the priorities that calls of task_setprio name

ASSUME SchedulerAssumption ==
  /\ IsFiniteSet(Tasks)
  /\ NoTask \notin Tasks
  /\ MinPrio \in Int /\ MaxPrio \in Int
  /\ MinPrio <= 0 /\ 0 <= MaxPrio
  /\ Prios \subseteq Int

VARIABLES readyQueue,   \* the ring of ready tasks from its first element
          taskExec,     \* the executing task
          iStaticPrio,
          iDinamPrio,
          waits         \* history: dispatches of others since the task became ready

vars == <<readyQueue, taskExec, iStaticPrio, iDinamPrio, waits>>

TypeOK ==
  /\ readyQueue \in Seq(Tasks)
  /\ taskExec \in Tasks \cup {NoTask}
  /\ iStaticPrio \in [Tasks -> MinPrio .. MaxPrio]
  /\ iDinamPrio \in [Tasks -> Int]
  /\ waits \in [Tasks -> Nat]

Ready == Range(readyQueue)

\* One task executes: main, after ppos_init.  The control blocks are zeroed memory.
Init ==
  /\ readyQueue = <<>>
  /\ taskExec \in Tasks
  /\ iStaticPrio = [t \in Tasks |-> 0]
  /\ iDinamPrio = [t \in Tasks |-> 0]
  /\ waits = [t \in Tasks |-> 0]

\* getHighestPrioTaks: the first task of the ring with the least dynamic priority.
IsHighestPrioTask(i) ==
  LET Prio(j) == iDinamPrio[readyQueue[j]] IN IsFirstLeast(i, DOMAIN readyQueue, Prio)

\* Bugs to catch: the picked task is not reset; the others do not age.
Mut_AgedWithoutReset(next) ==
  [t \in Tasks |-> IF t \in Ready \ {next} THEN iDinamPrio[t] - 1 ELSE iDinamPrio[t]]
Mut_NotAged(next) == [iDinamPrio EXCEPT ![next] = iStaticPrio[next]]

\* scheduler: the dynamic priorities after next has been picked.
Aged(next) ==
  [t \in Tasks |-> IF t = next THEN iStaticPrio[t]
                   ELSE IF t \in Ready THEN iDinamPrio[t] - 1 ELSE iDinamPrio[t]]

\* A bug to catch: the first element leaves the queue, whichever task was picked.
Mut_RemoveFirst(i) == Tail(readyQueue)

\* The ready queue once the dispatcher has taken its task out.
QueueWithout(i) == RemoveAt(readyQueue, i)

\* The dispatcher calls scheduler and switches to the task it returns.
Dispatch ==
  /\ taskExec = NoTask
  /\ \E i \in DOMAIN readyQueue :
       /\ IsHighestPrioTask(i)
       /\ taskExec' = readyQueue[i]
       /\ readyQueue' = QueueWithout(i)
       /\ iDinamPrio' = Aged(readyQueue[i])
       /\ waits' = [t \in Tasks |-> IF t \in Ready \ {readyQueue[i]} THEN waits[t] + 1 ELSE 0]
  /\ UNCHANGED iStaticPrio

\* task_yield, called by the task or by tickHandler in its place.
Yield ==
  /\ taskExec # NoTask
  /\ readyQueue' = Append(readyQueue, taskExec)
  /\ taskExec' = NoTask
  /\ UNCHANGED <<iStaticPrio, iDinamPrio, waits>>

\* The executing task suspends itself or exits.
Suspend ==
  /\ taskExec # NoTask
  /\ taskExec' = NoTask
  /\ UNCHANGED <<readyQueue, iStaticPrio, iDinamPrio, waits>>

\* A task is created, or resumed by another one, a signal handler or the dispatcher.
Resume(t) ==
  /\ t \notin Ready
  /\ t # taskExec
  /\ readyQueue' = Append(readyQueue, t)
  /\ UNCHANGED <<taskExec, iStaticPrio, iDinamPrio, waits>>

\* A bug to catch: the range of the argument is not tested.
Mut_setprioUnchecked(t, prio) ==
  /\ taskExec # NoTask
  /\ iStaticPrio' = [iStaticPrio EXCEPT ![t] = prio]
  /\ UNCHANGED <<readyQueue, taskExec, iDinamPrio, waits>>

\* task_setprio: an argument out of range changes nothing.
task_setprio(t, prio) ==
  /\ taskExec # NoTask
  /\ prio \in MinPrio .. MaxPrio
  /\ iStaticPrio' = [iStaticPrio EXCEPT ![t] = prio]
  /\ UNCHANGED <<readyQueue, taskExec, iDinamPrio, waits>>

Next ==
  \/ Dispatch \/ Yield \/ Suspend
  \/ \E t \in Tasks : Resume(t) \/ \E prio \in Prios : task_setprio(t, prio)

\* The dispatcher polls, and the tick preempts a task that does not give way.
Fairness == WF_vars(Dispatch) /\ WF_vars(Yield \/ Suspend)

Spec == Init /\ [][Next]_vars /\ Fairness

------------------------------------------------------------------------------
\* Aging never drives a dynamic priority further below the static range than there are
\* tasks, however priorities change: iDinamPrio cannot run away or wrap.
AgingIsBounded == \A t \in Tasks : iDinamPrio[t] > MinPrio - Cardinality(Tasks)

\* A ready task is passed over a bounded number of times, whatever the others' static
\* priorities are, were or become.
WaitIsBounded ==
  \A t \in Ready : waits[t] < MaxPrio - MinPrio + Cardinality(Tasks)

\* Every task that becomes ready is dispatched.
NoStarvation == \A t \in Tasks : t \in Ready ~> taskExec = t

=============================================================================
