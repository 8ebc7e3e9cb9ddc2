----------------------------- MODULE TickMetrics -----------------------------
(***************************************************************************)
(* The timer tick and the task metrics of src/ppos-core-aux.c.  SIGALRM    *)
(* strikes between any two steps of the executing context: tickHandler     *)
(* counts it and yields in the task's place when the quantum is over.  At  *)
(* every switch metricsHandler charges the leaving task the time since the *)
(* last switch; the kernel, external, calls it as before_task_switch.      *)
(* Which task is dispatched next is left open here (see TaskScheduler).    *)
(*                                                                         *)
(* Ticks are masked inside tickHandler and so inside the switch it makes,  *)
(* but not inside a switch the task or the dispatcher makes itself.  A     *)
(* yield of the tick there would enter task_switch a second time:          *)
(* interfered, where the model stops.                                      *)
(***************************************************************************)
EXTENDS Integers

CONSTANTS Tasks,     \* user tasks, main among them
          main,
          taskDisp,  \* the dispatcher
          DEFAULT_TASK_TICKS,
          MaxTime    \* bound: ticks counted

ASSUME TickAssumption ==
  /\ main \in Tasks
  /\ taskDisp \notin Tasks
  /\ DEFAULT_TASK_TICKS \in Nat \ {0}
  /\ MaxTime \in Nat

Contexts == Tasks \cup {taskDisp}

VARIABLES systemTime,
          iTaskTicksQty,       \* one counter for all tasks
          preemption,          \* 1 = enabled; set by the kernel's primitives
          taskExec,
          uiTaskStartingTick,
          uiProcessorTicks,
          uiExecTicks,         \* time of creation, then, from the exit on, the time since
          state,               \* state[t]: "none", "live", "exiting" (uiExecTicks is set, not yet
                               \* printed) or "exited"
          switching,           \* how far a switch has got: "no" (none under way), "charged",
                               \* "restarted" (metricsHandler is done) or "assigned" (taskExec is)
          next,                \* the task of the last switch
          interfered,
          slice,               \* history: ticks since taskExec got the processor
          ran,                 \* history: ran[t]: ticks that struck while t was taskExec
          missed,              \* history: missed[t]: those of them inside a switch away from t
          taken,               \* history: taken[t]: ticks that struck before a switch to t ended,
                               \* the clock restarted already
          printed,             \* history: printed[t]: the uiProcessorTicks of printTaskInfo
          delayed              \* history: the tasks that a tick has made yield while exiting

kernelVars == <<preemption, state>>
clockVars == <<systemTime, iTaskTicksQty>>
metricVars == <<uiTaskStartingTick, uiProcessorTicks, uiExecTicks>>
historyVars == <<slice, ran, missed, taken, printed, delayed>>
vars == <<clockVars, kernelVars, taskExec, metricVars, switching, next, interfered, historyVars>>

TypeOK ==
  /\ systemTime \in 0 .. MaxTime
  /\ iTaskTicksQty \in Int
  /\ preemption \in {0, 1}
  /\ taskExec \in Contexts
  /\ uiTaskStartingTick \in 0 .. systemTime
  /\ uiProcessorTicks \in [Contexts -> Nat]
  /\ uiExecTicks \in [Tasks -> Nat]
  /\ state \in [Tasks -> {"none", "live", "exiting", "exited"}]
  /\ switching \in {"no", "charged", "restarted", "assigned"}
  /\ next \in Contexts
  /\ interfered \in BOOLEAN
  /\ slice \in Nat
  /\ ran \in [Contexts -> Nat] /\ missed \in [Contexts -> Nat] /\ taken \in [Contexts -> Nat]
  /\ printed \in [Tasks -> Nat]
  /\ delayed \subseteq Tasks

\* before_ppos_init has set the handler and the timer; main executes.
Init ==
  /\ systemTime = 0
  /\ iTaskTicksQty = DEFAULT_TASK_TICKS
  /\ preemption = 1
  /\ taskExec = main
  /\ uiTaskStartingTick = 0
  /\ uiProcessorTicks = [t \in Contexts |-> 0]
  /\ uiExecTicks = [t \in Tasks |-> 0]
  /\ state = [t \in Tasks |-> IF t = main THEN "live" ELSE "none"]
  /\ switching = "no"
  /\ next = main
  /\ interfered = FALSE
  /\ slice = 0
  /\ ran = [t \in Contexts |-> 0] /\ missed = ran /\ taken = ran
  /\ printed = [t \in Tasks |-> 0]
  /\ delayed = {}

------------------------------------------------------------------------------
(* metricsHandler *)

\* Bugs to catch: the difference is taken the other way round; the clock is not restarted.
Mut_ChargedNegated(now) ==
  [uiProcessorTicks EXCEPT ![taskExec] = @ + (uiTaskStartingTick - now)]
Mut_RestartedNot(now) == uiTaskStartingTick

\* Its first statement, the leaving task's part, and its last, the restart of the clock.
Charged(now) == [uiProcessorTicks EXCEPT ![taskExec] = @ + (now - uiTaskStartingTick)]
Restarted(now) == now

\* A switch made outside of tickHandler, in four steps; a tick may strike between them.
\* The first line of task_switch calls metricsHandler.
BeginSwitch(to) ==
  /\ switching = "no" /\ ~interfered
  /\ uiProcessorTicks' = Charged(systemTime)
  /\ switching' = "charged"
  /\ next' = to
  /\ UNCHANGED <<clockVars, kernelVars, taskExec, uiTaskStartingTick, uiExecTicks, interfered, historyVars>>

RestartClock ==
  /\ switching = "charged" /\ ~interfered
  /\ uiTaskStartingTick' = Restarted(systemTime)
  /\ switching' = "restarted"
  /\ UNCHANGED <<clockVars, kernelVars, taskExec, uiProcessorTicks, uiExecTicks, next, interfered, historyVars>>

\* metricsHandler has returned and the kernel makes next the executing task.  The quantum is
\* not renewed.
AssignTask ==
  /\ switching = "restarted" /\ ~interfered
  /\ taskExec' = next
  /\ switching' = "assigned"
  /\ slice' = 0
  /\ UNCHANGED <<clockVars, kernelVars, metricVars, next, interfered, ran, missed, taken, printed, delayed>>

\* swapcontext: from now on next runs on its own stack.
EndSwitch ==
  /\ switching = "assigned" /\ ~interfered
  /\ switching' = "no"
  /\ UNCHANGED <<clockVars, kernelVars, taskExec, metricVars, next, interfered, historyVars>>

\* The executing task yields, suspends itself or has exited.
GiveWay ==
  /\ taskExec # taskDisp /\ state[taskExec] # "exiting"
  /\ BeginSwitch(taskDisp)

Dispatch(t) ==
  /\ taskExec = taskDisp
  /\ state[t] \in {"live", "exiting"}
  /\ BeginSwitch(t)

------------------------------------------------------------------------------
(* tickHandler *)

\* A bug to catch: one tick too late.
Mut_QuantumOverLate == iTaskTicksQty = 0

\* 0 >= iTaskTicksQty, once it has been decremented.
QuantumOver == 0 >= iTaskTicksQty - 1

Strike ==
  /\ systemTime < MaxTime
  /\ ~interfered
  /\ systemTime' = systemTime + 1
  /\ ran' = [ran EXCEPT ![taskExec] = @ + 1]
  /\ missed' = IF switching \in {"charged", "restarted"} THEN [missed EXCEPT ![taskExec] = @ + 1] ELSE missed
  /\ taken' = IF switching = "restarted" THEN [taken EXCEPT ![next] = @ + 1] ELSE taken

\* The tick is counted; the dispatcher is never preempted, its quantum starts again.
TickCounts ==
  /\ Strike
  /\ ~QuantumOver \/ taskExec = taskDisp
  /\ iTaskTicksQty' = IF QuantumOver THEN DEFAULT_TASK_TICKS ELSE iTaskTicksQty - 1
  /\ slice' = slice + 1
  /\ UNCHANGED <<kernelVars, taskExec, metricVars, switching, next, interfered, printed, delayed>>

\* task_yield in the task's place, with the task_switch and the metricsHandler in it.
TickYields ==
  /\ Strike
  /\ QuantumOver /\ taskExec # taskDisp /\ switching = "no"
  /\ iTaskTicksQty' = DEFAULT_TASK_TICKS
  /\ uiProcessorTicks' = Charged(systemTime + 1)
  /\ uiTaskStartingTick' = Restarted(systemTime + 1)
  /\ taskExec' = taskDisp /\ next' = taskDisp
  /\ slice' = 0
  /\ delayed' = IF state[taskExec] = "exiting" THEN delayed \cup {taskExec} ELSE delayed
  /\ UNCHANGED <<kernelVars, uiExecTicks, switching, interfered, printed>>

TickInterferes ==
  /\ Strike
  /\ QuantumOver /\ taskExec # taskDisp /\ switching # "no"
  /\ iTaskTicksQty' = DEFAULT_TASK_TICKS
  /\ slice' = slice + 1
  /\ interfered' = TRUE
  /\ UNCHANGED <<kernelVars, taskExec, metricVars, switching, next, printed, delayed>>

------------------------------------------------------------------------------
(* Task creation and exit; the kernel's critical sections *)

Runs(t, s) == taskExec = t /\ state[t] = s /\ switching = "no" /\ ~interfered
Executes(t) == Runs(t, "live")

\* after_task_create.
Create(t) ==
  /\ \E creator \in Tasks : Executes(creator)
  /\ state[t] = "none"
  /\ state' = [state EXCEPT ![t] = "live"]
  /\ uiExecTicks' = [uiExecTicks EXCEPT ![t] = systemTime]
  /\ UNCHANGED <<clockVars, preemption, taskExec, uiTaskStartingTick, uiProcessorTicks, switching,
                 next, interfered, historyVars>>

\* A bug to catch: the time of creation is not subtracted.
Mut_ElapsedNot(t) == uiExecTicks[t]

Elapsed(t) == systemTime - uiExecTicks[t]

\* after_task_exit: uiExecTicks becomes the time since the creation.
Exit(t) ==
  /\ Executes(t)
  /\ state' = [state EXCEPT ![t] = "exiting"]
  /\ uiExecTicks' = [uiExecTicks EXCEPT ![t] = Elapsed(t)]
  /\ UNCHANGED <<clockVars, preemption, taskExec, uiTaskStartingTick, uiProcessorTicks, switching,
                 next, interfered, historyVars>>

\* The current slice has not been charged yet.
printTaskInfo(t) ==
  /\ Runs(t, "exiting")
  /\ state' = [state EXCEPT ![t] = "exited"]
  /\ printed' = [printed EXCEPT ![t] = uiProcessorTicks[t]]
  /\ UNCHANGED <<clockVars, preemption, taskExec, metricVars, switching, next, interfered,
                 slice, ran, missed, taken, delayed>>

\* A primitive of the kernel disables the preemption and enables it again.
EnterPrimitive ==
  /\ \E t \in Tasks : Executes(t)
  /\ preemption' = 0
  /\ UNCHANGED <<clockVars, taskExec, metricVars, state, switching, next, interfered, historyVars>>

LeavePrimitive ==
  /\ \E t \in Tasks : Executes(t)
  /\ preemption' = 1
  /\ UNCHANGED <<clockVars, taskExec, metricVars, state, switching, next, interfered, historyVars>>

------------------------------------------------------------------------------
\* The last task has exited, so that the dispatcher returns, or the model stops.
Stopped == interfered \/ \A t \in Tasks : state[t] \in {"none", "exited"}

Next ==
  \/ TickCounts \/ TickYields \/ TickInterferes
  \/ GiveWay \/ RestartClock \/ AssignTask \/ EndSwitch \/ EnterPrimitive \/ LeavePrimitive
  \/ \E t \in Tasks : Dispatch(t) \/ Create(t) \/ Exit(t) \/ printTaskInfo(t)
  \/ Stopped /\ UNCHANGED vars

Spec == Init /\ [][Next]_vars

------------------------------------------------------------------------------
(* Properties *)

\* A task never keeps the processor through DEFAULT_TASK_TICKS ticks in a row, although one
\* counter serves all tasks and no voluntary switch renews it.
SliceWithinQuantum == taskExec # taskDisp /\ ~interfered => slice < DEFAULT_TASK_TICKS

\* The time that the next charge will give to t.
Uncharged(t) ==
  IF \/ switching \in {"no", "assigned"} /\ t = taskExec
     \/ switching = "restarted" /\ t = next
  THEN systemTime - uiTaskStartingTick
  ELSE 0

\* Every tick is accounted for: a task is charged the ticks that strike while it executes,
\* each once, but for those inside a switch away from it.  Of these the ones that strike
\* before the clock is restarted are charged to nobody, the later ones to the task switched
\* to, the dispatcher included.
ProcessorTimeIsRun ==
  \A t \in Contexts : uiProcessorTicks[t] + Uncharged(t) = ran[t] - missed[t] + taken[t]

\* The line printed at a task's exit never gives it more processor time than execution time,
\* unless a tick takes the processor away between the computation of the execution time and
\* the printing: it charges the task then.
PrintedTimesAgree ==
  \A t \in Tasks \ delayed : state[t] = "exited" => printed[t] <= uiExecTicks[t]

\* src/ppos-core-globals.h: unless preemption is 1, preemption is disabled.
NoYieldWhileDisabled == [][TickYields => preemption = 1]_vars

=============================================================================
