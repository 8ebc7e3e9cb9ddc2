-------------------------- MODULE TickMetricsProofs --------------------------
(***************************************************************************)
(* TickMetrics for any tasks, any quantum and any time: no slice goes      *)
(* through a whole quantum, and the metrics account for every tick.        *)
(*                                                                         *)
(* The slice and what is left of the counter never exceed a quantum; what  *)
(* a task is charged, with the part of its current slice, are its ticks    *)
(* but for those inside switches; and these are at most the time since its *)
(* creation, because only a task that has been created is switched to.     *)
(***************************************************************************)
EXTENDS TickMetrics, TLAPS

QuantumLeft ==
  /\ iTaskTicksQty \in 1 .. DEFAULT_TASK_TICKS
  /\ taskExec # taskDisp /\ ~interfered => slice + iTaskTicksQty <= DEFAULT_TASK_TICKS

\* Only tasks that have been created execute or are switched to, and a tick counts for one
\* of them at most.
RunsWhileCreated ==
  /\ taskExec \in Tasks => state[taskExec] # "none"
  /\ switching # "no" /\ next \in Tasks => state[next] # "none"
  /\ switching \in {"charged", "restarted"} => next # taskExec
  /\ \A t \in Tasks :
       /\ state[t] = "none" => ran[t] = 0 /\ missed[t] = 0 /\ taken[t] = 0
       /\ state[t] = "live" => ran[t] - missed[t] + taken[t] <= systemTime - uiExecTicks[t]

\* Between the computation of the execution time and the printing only a tick charges t.
ExitTimesAgree ==
  \A t \in Tasks \ delayed : state[t] \in {"exiting", "exited"} =>
    IF state[t] = "exiting" THEN uiProcessorTicks[t] <= uiExecTicks[t] ELSE printed[t] <= uiExecTicks[t]

IInv == TypeOK /\ QuantumLeft /\ RunsWhileCreated /\ ProcessorTimeIsRun /\ ExitTimesAgree

------------------------------------------------------------------------------
LEMMA InitInv == Init => IInv
<1> SUFFICES ASSUME Init PROVE IInv
  OBVIOUS
<1> USE DEF Init, Contexts
<1>1. TypeOK
  <2>1. /\ systemTime \in 0 .. MaxTime /\ iTaskTicksQty \in Int
        /\ uiTaskStartingTick \in 0 .. systemTime /\ taskExec \in Contexts /\ next \in Contexts
    BY TickAssumption
  <2>2. /\ uiProcessorTicks \in [Contexts -> Nat] /\ ran \in [Contexts -> Nat]
        /\ missed \in [Contexts -> Nat] /\ taken \in [Contexts -> Nat]
    OBVIOUS
  <2>3. /\ uiExecTicks \in [Tasks -> Nat] /\ printed \in [Tasks -> Nat]
        /\ state \in [Tasks -> {"none", "live", "exiting", "exited"}]
    OBVIOUS
  <2> QED
    BY <2>1, <2>2, <2>3 DEF TypeOK
<1>2. QuantumLeft
  BY TickAssumption DEF QuantumLeft
<1>3. RunsWhileCreated
  BY TickAssumption DEF RunsWhileCreated
<1>4. ProcessorTimeIsRun
  <2> SUFFICES ASSUME NEW t \in Contexts
               PROVE  uiProcessorTicks[t] + Uncharged(t) = ran[t] - missed[t] + taken[t]
    BY DEF ProcessorTimeIsRun
  <2>1. Uncharged(t) = 0
    BY DEF Uncharged
  <2>2. uiProcessorTicks[t] = 0 /\ ran[t] = 0 /\ missed[t] = 0 /\ taken[t] = 0
    OBVIOUS
  <2> QED
    BY <2>1, <2>2
<1>5. ExitTimesAgree
  BY DEF ExitTimesAgree
<1> QED
  BY <1>1, <1>2, <1>3, <1>4, <1>5 DEF IInv

\* A tick that does not yield is charged later, or to nobody inside a metricsHandler.
LEMMA TickKept ==
  ASSUME IInv, Strike, UNCHANGED <<kernelVars, taskExec, metricVars, switching, next, printed, delayed>>
  PROVE  RunsWhileCreated' /\ ProcessorTimeIsRun' /\ ExitTimesAgree'
<1> USE DEF IInv, TypeOK, Strike, kernelVars, metricVars, Contexts
<1>1. RunsWhileCreated'
  BY TickAssumption DEF RunsWhileCreated
<1>2. ProcessorTimeIsRun'
  <2> SUFFICES ASSUME NEW t \in Contexts
               PROVE  uiProcessorTicks'[t] + Uncharged(t)' = ran'[t] - missed'[t] + taken'[t]
    BY DEF ProcessorTimeIsRun
  <2>1. uiProcessorTicks[t] + Uncharged(t) = ran[t] - missed[t] + taken[t]
    BY DEF ProcessorTimeIsRun
  <2>2. ran'[t] = ran[t] + (IF t = taskExec THEN 1 ELSE 0)
    OBVIOUS
  <2>3. CASE switching \in {"no", "assigned"}
    <3>1. missed'[t] = missed[t] /\ taken'[t] = taken[t]
      BY <2>3
    <3>2. Uncharged(t)' = Uncharged(t) + (IF t = taskExec THEN 1 ELSE 0)
      BY <2>3 DEF Uncharged
    <3> QED
      BY <2>1, <2>2, <3>1, <3>2 DEF Uncharged
  <2>4. CASE switching = "charged"
    <3>1. missed'[t] = missed[t] + (IF t = taskExec THEN 1 ELSE 0) /\ taken'[t] = taken[t]
      BY <2>4
    <3>2. Uncharged(t)' = 0 /\ Uncharged(t) = 0
      BY <2>4 DEF Uncharged
    <3> QED
      BY <2>1, <2>2, <3>1, <3>2
  <2>5. CASE switching = "restarted"
    <3>1. /\ missed'[t] = missed[t] + (IF t = taskExec THEN 1 ELSE 0)
          /\ taken'[t] = taken[t] + (IF t = next THEN 1 ELSE 0)
      BY <2>5
    <3>2. Uncharged(t)' = Uncharged(t) + (IF t = next THEN 1 ELSE 0)
      BY <2>5 DEF Uncharged
    <3> QED
      BY <2>1, <2>2, <3>1, <3>2 DEF Uncharged
  <2> QED
    BY <2>3, <2>4, <2>5
<1>3. ExitTimesAgree'
  BY DEF ExitTimesAgree
<1> QED
  BY <1>1, <1>2, <1>3

LEMMA TickCountsInv == IInv /\ TickCounts => IInv'
<1> SUFFICES ASSUME IInv, TickCounts PROVE IInv'
  OBVIOUS
<1> USE DEF IInv, TypeOK, TickCounts, Strike, QuantumOver, kernelVars, metricVars, Contexts
<1>1. TypeOK'
  BY TickAssumption
<1>2. QuantumLeft'
  BY TickAssumption DEF QuantumLeft
<1>3. RunsWhileCreated' /\ ProcessorTimeIsRun' /\ ExitTimesAgree'
  BY TickKept
<1> QED
  BY <1>1, <1>2, <1>3

LEMMA TickInterferesInv == IInv /\ TickInterferes => IInv'
<1> SUFFICES ASSUME IInv, TickInterferes PROVE IInv'
  OBVIOUS
<1> USE DEF IInv, TypeOK, TickInterferes, Strike, kernelVars, metricVars, Contexts
<1>1. TypeOK'
  BY TickAssumption
<1>2. QuantumLeft'
  BY TickAssumption DEF QuantumLeft
<1>3. RunsWhileCreated' /\ ProcessorTimeIsRun' /\ ExitTimesAgree'
  BY TickKept
<1> QED
  BY <1>1, <1>2, <1>3

LEMMA TickYieldsInv == IInv /\ TickYields => IInv'
<1> SUFFICES ASSUME IInv, TickYields PROVE IInv'
  OBVIOUS
<1> USE DEF IInv, TypeOK, TickYields, Strike, Charged, Restarted, kernelVars, Contexts
<1>1. TypeOK'
  BY TickAssumption
<1>2. QuantumLeft'
  BY TickAssumption DEF QuantumLeft
<1>3. RunsWhileCreated'
  BY TickAssumption DEF RunsWhileCreated
<1>4. ProcessorTimeIsRun'
  BY TickAssumption DEF ProcessorTimeIsRun, Uncharged
<1>5. ExitTimesAgree'
  BY DEF ExitTimesAgree
<1> QED
  BY <1>1, <1>2, <1>3, <1>4, <1>5

\* What BeginSwitch charges is what was uncharged.
LEMMA BeginSwitchInv ==
  ASSUME IInv, NEW to \in Contexts, BeginSwitch(to), to \in Tasks => state[to] # "none",
         to # taskExec, taskExec \in Tasks => state[taskExec] # "exiting"
  PROVE  IInv'
<1> USE DEF IInv, TypeOK, BeginSwitch, Charged, clockVars, kernelVars, historyVars, Contexts
<1>1. TypeOK'
  OBVIOUS
<1>2. QuantumLeft'
  BY DEF QuantumLeft
<1>3. RunsWhileCreated'
  BY DEF RunsWhileCreated
<1>4. ProcessorTimeIsRun'
  BY DEF ProcessorTimeIsRun, Uncharged
<1>5. ExitTimesAgree'
  BY DEF ExitTimesAgree
<1> QED
  BY <1>1, <1>2, <1>3, <1>4, <1>5

LEMMA RestartClockInv == IInv /\ RestartClock => IInv'
<1> SUFFICES ASSUME IInv, RestartClock PROVE IInv'
  OBVIOUS
<1> USE DEF IInv, TypeOK, RestartClock, Restarted, clockVars, kernelVars, historyVars, Contexts
<1>1. TypeOK'
  <2>1. systemTime \in 0 .. systemTime
    BY TickAssumption
  <2> QED
    BY <2>1
<1>2. QuantumLeft'
  BY DEF QuantumLeft
<1>3. RunsWhileCreated'
  BY DEF RunsWhileCreated
<1>4. ProcessorTimeIsRun'
  BY DEF ProcessorTimeIsRun, Uncharged
<1>5. ExitTimesAgree'
  BY DEF ExitTimesAgree
<1> QED
  BY <1>1, <1>2, <1>3, <1>4, <1>5

LEMMA AssignTaskInv == IInv /\ AssignTask => IInv'
<1> SUFFICES ASSUME IInv, AssignTask PROVE IInv'
  OBVIOUS
<1> USE DEF IInv, TypeOK, AssignTask, clockVars, kernelVars, metricVars, Contexts
<1>1. TypeOK'
  OBVIOUS
<1>2. QuantumLeft'
  BY TickAssumption DEF QuantumLeft
<1>3. RunsWhileCreated'
  BY DEF RunsWhileCreated
<1>4. ProcessorTimeIsRun'
  BY DEF ProcessorTimeIsRun, Uncharged
<1>5. ExitTimesAgree'
  BY DEF ExitTimesAgree
<1> QED
  BY <1>1, <1>2, <1>3, <1>4, <1>5

LEMMA EndSwitchInv == IInv /\ EndSwitch => IInv'
<1> SUFFICES ASSUME IInv, EndSwitch PROVE IInv'
  OBVIOUS
<1> USE DEF IInv, TypeOK, EndSwitch, clockVars, kernelVars, metricVars, historyVars, Contexts
<1>1. TypeOK'
  OBVIOUS
<1>2. QuantumLeft'
  BY DEF QuantumLeft
<1>3. RunsWhileCreated'
  BY DEF RunsWhileCreated
<1>4. ProcessorTimeIsRun'
  BY DEF ProcessorTimeIsRun, Uncharged
<1>5. ExitTimesAgree'
  BY DEF ExitTimesAgree
<1> QED
  BY <1>1, <1>2, <1>3, <1>4, <1>5

\* A new task has not run yet.
LEMMA CreateInv ==
  ASSUME IInv, NEW t \in Tasks, Create(t)
  PROVE  IInv'
<1> USE DEF IInv, TypeOK, Create, clockVars, historyVars, Contexts
<1>1. TypeOK'
  OBVIOUS
<1>2. QuantumLeft'
  BY DEF QuantumLeft
<1>3. RunsWhileCreated'
  BY DEF RunsWhileCreated, Executes, Runs
<1>4. ProcessorTimeIsRun'
  BY DEF ProcessorTimeIsRun, Uncharged
<1>5. ExitTimesAgree'
  BY DEF ExitTimesAgree
<1> QED
  BY <1>1, <1>2, <1>3, <1>4, <1>5

LEMMA ExitInv ==
  ASSUME IInv, NEW t \in Tasks, Exit(t)
  PROVE  IInv'
<1> USE DEF IInv, TypeOK, Exit, Executes, Runs, Elapsed, clockVars, historyVars, Contexts
<1>1. uiProcessorTicks[t] <= systemTime - uiExecTicks[t]
  BY DEF RunsWhileCreated, ProcessorTimeIsRun, Uncharged
<1>2. TypeOK'
  BY <1>1
<1>3. QuantumLeft'
  BY DEF QuantumLeft
<1>4. RunsWhileCreated'
  BY DEF RunsWhileCreated
<1>5. ProcessorTimeIsRun'
  BY DEF ProcessorTimeIsRun, Uncharged
<1>6. ExitTimesAgree'
  BY <1>1 DEF ExitTimesAgree
<1> QED
  BY <1>2, <1>3, <1>4, <1>5, <1>6

LEMMA PrintInv ==
  ASSUME IInv, NEW t \in Tasks, printTaskInfo(t)
  PROVE  IInv'
<1> USE DEF IInv, TypeOK, printTaskInfo, Runs, clockVars, metricVars, Contexts
<1>1. TypeOK'
  OBVIOUS
<1>2. QuantumLeft'
  BY DEF QuantumLeft
<1>3. RunsWhileCreated'
  BY DEF RunsWhileCreated
<1>4. ProcessorTimeIsRun'
  BY DEF ProcessorTimeIsRun, Uncharged
<1>5. ExitTimesAgree'
  BY DEF ExitTimesAgree
<1> QED
  BY <1>1, <1>2, <1>3, <1>4, <1>5

LEMMA PrimitiveInv ==
  ASSUME IInv, preemption' \in {0, 1},
         UNCHANGED <<clockVars, taskExec, metricVars, state, switching, next, interfered, historyVars>>
  PROVE  IInv'
BY DEF IInv, TypeOK, QuantumLeft, RunsWhileCreated, ProcessorTimeIsRun, Uncharged, ExitTimesAgree,
       clockVars, metricVars, historyVars, Contexts

LEMMA NextInv == IInv /\ [Next]_vars => IInv'
<1> SUFFICES ASSUME IInv, [Next]_vars PROVE IInv'
  OBVIOUS
<1>1. CASE TickCounts \/ TickYields \/ TickInterferes
  BY <1>1, TickCountsInv, TickYieldsInv, TickInterferesInv
<1>2. CASE GiveWay
  <2>1. taskDisp \in Contexts /\ taskDisp \notin Tasks
    BY TickAssumption DEF Contexts
  <2> QED
    BY <1>2, <2>1, BeginSwitchInv DEF GiveWay, IInv, TypeOK, Contexts
<1>3. CASE \E t \in Tasks : Dispatch(t)
  <2>1. PICK t \in Tasks : Dispatch(t)
    BY <1>3
  <2> QED
    BY <2>1, BeginSwitchInv, TickAssumption DEF Dispatch, Contexts
<1>4. CASE RestartClock \/ AssignTask \/ EndSwitch
  BY <1>4, RestartClockInv, AssignTaskInv, EndSwitchInv
<1>5. CASE \E t \in Tasks : Create(t) \/ Exit(t) \/ printTaskInfo(t)
  BY <1>5, CreateInv, ExitInv, PrintInv
<1>6. CASE EnterPrimitive \/ LeavePrimitive
  BY <1>6, PrimitiveInv DEF EnterPrimitive, LeavePrimitive
<1>7. CASE UNCHANGED vars
  <2>1. preemption' \in {0, 1}
    BY <1>7 DEF IInv, TypeOK, vars, kernelVars
  <2> QED
    BY <1>7, <2>1, PrimitiveInv DEF vars, kernelVars
<1> QED
  BY <1>1, <1>2, <1>3, <1>4, <1>5, <1>6, <1>7 DEF Next

LEMMA InvHolds == Spec => []IInv
BY InitInv, NextInv, PTL DEF Spec

------------------------------------------------------------------------------
\* The clock never runs behind the start of the slice, so that no difference metricsHandler
\* takes is negative, which its unsigned counters could not hold.
THEOREM TypeCorrect == Spec => []TypeOK
<1>1. IInv => TypeOK
  BY DEF IInv
<1> QED
  BY InvHolds, <1>1, PTL

\* For every quantum: one counter shared by all tasks is enough to take the processor away
\* from a task at the latest when its DEFAULT_TASK_TICKS-th tick in a row strikes.
THEOREM QuantumKept == Spec => []SliceWithinQuantum
<1>1. IInv => SliceWithinQuantum
  BY TickAssumption DEF IInv, TypeOK, QuantumLeft, SliceWithinQuantum
<1> QED
  BY InvHolds, <1>1, PTL

\* For any tasks and any schedule metricsHandler accounts for every tick: a task is charged
\* its own ticks, each once, but for those inside a switch; of these the ones before the
\* restart of the clock are charged to nobody, the later ones to the task switched to.
THEOREM ProcessorTimeExact == Spec => []ProcessorTimeIsRun
<1>1. IInv => ProcessorTimeIsRun
  BY DEF IInv
<1> QED
  BY InvHolds, <1>1, PTL

\* printTaskInfo never prints more processor time than execution time, unless a tick has
\* made the task yield since after_task_exit computed the latter.
THEOREM PrintedConsistent == Spec => []PrintedTimesAgree
<1>1. IInv => PrintedTimesAgree
  BY DEF IInv, ExitTimesAgree, PrintedTimesAgree
<1> QED
  BY InvHolds, <1>1, PTL

=============================================================================
