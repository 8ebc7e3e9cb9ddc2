------------------------- MODULE TaskSchedulerProofs -------------------------
(***************************************************************************)
(* TaskScheduler for any number of tasks and any range of priorities:      *)
(* aging is bounded, and so is the wait of a ready task.                   *)
(*                                                                         *)
(* The argument counts.  Only ready tasks age, so only they can be below   *)
(* the static range.  If the picked task is among the k-th or further      *)
(* below, one of those leaves; if it is not, there were none: so there are *)
(* at most N - k tasks k or more below, and none N or more below.  A ready *)
(* task loses one unit of dynamic priority each time it is passed over.    *)
(***************************************************************************)
EXTENDS TaskScheduler, ListLemmas, FiniteSetTheorems

N == Cardinality(Tasks)

\* The tasks at least k below the range of static priorities.
Low(k) == {t \in Tasks : iDinamPrio[t] <= MinPrio - k}

\* A task that is not ready has not aged since it was dispatched.
UnagedUnlessReady ==
  \A t \in Tasks : t \notin Ready => iDinamPrio[t] >= MinPrio /\ waits[t] = 0

\* What a task has waited shows in its dynamic priority.
WaitsShow == \A t \in Tasks : iDinamPrio[t] + waits[t] <= MaxPrio

FewLow == \A k \in 0 .. N : Cardinality(Low(k)) <= N - k

IInv == TypeOK /\ UnagedUnlessReady /\ WaitsShow /\ FewLow

------------------------------------------------------------------------------
LEMMA NumberOfTasks == IsFiniteSet(Tasks) /\ N \in Nat
BY SchedulerAssumption, FS_CardinalityType DEF N

LEMMA LowIsFinite ==
  ASSUME NEW k
  PROVE  IsFiniteSet(Low(k)) /\ Cardinality(Low(k)) \in Nat /\ Cardinality(Low(k)) <= N
BY NumberOfTasks, FS_Subset, FS_CardinalityType DEF Low, N

\* Steps that change no dynamic priority keep the count.
LEMMA FewLowUnchanged ==
  ASSUME FewLow, UNCHANGED iDinamPrio
  PROVE  FewLow'
BY DEF FewLow, Low, N

\* One dispatch: the ready tasks but the picked one age.
LEMMA DispatchEffect ==
  ASSUME TypeOK, Dispatch
  PROVE  \E next \in Ready :
           /\ \A t \in Ready : iDinamPrio[next] <= iDinamPrio[t]
           /\ taskExec' = next
           /\ readyQueue' \in Seq(Tasks)
           /\ Ready' \subseteq Ready
           /\ Ready \subseteq Ready' \cup {next}
           /\ iDinamPrio' = Aged(next)
           /\ waits' = [t \in Tasks |-> IF t \in Ready \ {next} THEN waits[t] + 1 ELSE 0]
           /\ iStaticPrio' = iStaticPrio
<1>1. PICK i \in DOMAIN readyQueue :
        /\ IsHighestPrioTask(i)
        /\ taskExec' = readyQueue[i]
        /\ readyQueue' = RemoveAt(readyQueue, i)
        /\ iDinamPrio' = Aged(readyQueue[i])
        /\ waits' = [t \in Tasks |-> IF t \in Ready \ {readyQueue[i]} THEN waits[t] + 1 ELSE 0]
        /\ iStaticPrio' = iStaticPrio
  BY DEF Dispatch, QueueWithout
<1>2. readyQueue \in Seq(Tasks)
  BY DEF TypeOK
<1>3. /\ readyQueue' \in Seq(Tasks)
      /\ Ready' \subseteq Ready
      /\ Ready \subseteq Ready' \cup {readyQueue[i]}
  BY <1>1, <1>2, RemoveAtProperties DEF Ready
<1>4. readyQueue[i] \in Ready
  BY DEF Ready, Range
<1>5. \A t \in Ready : iDinamPrio[readyQueue[i]] <= iDinamPrio[t]
  BY <1>1 DEF IsHighestPrioTask, IsFirstLeast, Ready, Range
<1> QED
  BY <1>1, <1>3, <1>4, <1>5

LEMMA InitInv == Init => IInv
<1> SUFFICES ASSUME Init PROVE IInv
  OBVIOUS
<1>1. TypeOK
  BY SchedulerAssumption DEF Init, TypeOK
<1>2. UnagedUnlessReady /\ WaitsShow
  BY SchedulerAssumption DEF Init, UnagedUnlessReady, WaitsShow
<1>3. ASSUME NEW k \in 0 .. N
      PROVE  Cardinality(Low(k)) <= N - k
  <2>1. CASE k = 0
    BY <2>1, NumberOfTasks, LowIsFinite
  <2>2. CASE k # 0
    <3>1. Low(k) = {}
      BY <2>2, NumberOfTasks, SchedulerAssumption DEF Init, Low
    <3> QED
      BY <3>1, NumberOfTasks, FS_EmptySet
  <2> QED
    BY <2>1, <2>2
<1> QED
  BY <1>1, <1>2, <1>3 DEF IInv, FewLow

LEMMA NextTypeOK == TypeOK /\ [Next]_vars => TypeOK'
<1> SUFFICES ASSUME TypeOK, [Next]_vars PROVE TypeOK'
  OBVIOUS
<1>1. CASE Dispatch
  <2>1. PICK next \in Ready :
          /\ taskExec' = next
          /\ readyQueue' \in Seq(Tasks)
          /\ iDinamPrio' = Aged(next)
          /\ waits' = [t \in Tasks |-> IF t \in Ready \ {next} THEN waits[t] + 1 ELSE 0]
          /\ iStaticPrio' = iStaticPrio
    BY <1>1, DispatchEffect
  <2>2. next \in Tasks
    BY DEF TypeOK, Ready, Range
  <2>3. iDinamPrio' \in [Tasks -> Int]
    BY <2>1, <2>2, SchedulerAssumption DEF TypeOK, Aged
  <2> QED
    BY <2>1, <2>2, <2>3 DEF TypeOK
<1>2. CASE Yield
  BY <1>2 DEF Yield, TypeOK
<1>3. CASE Suspend
  BY <1>3 DEF Suspend, TypeOK
<1>4. ASSUME NEW t \in Tasks, Resume(t)
      PROVE  TypeOK'
  BY <1>4 DEF Resume, TypeOK
<1>5. ASSUME NEW t \in Tasks, NEW prio \in Prios, task_setprio(t, prio)
      PROVE  TypeOK'
  BY <1>5 DEF task_setprio, TypeOK
<1>6. CASE UNCHANGED vars
  BY <1>6 DEF vars, TypeOK
<1> QED
  BY <1>1, <1>2, <1>3, <1>4, <1>5, <1>6 DEF Next

LEMMA NextUnaged ==
  TypeOK /\ UnagedUnlessReady /\ WaitsShow /\ [Next]_vars => UnagedUnlessReady' /\ WaitsShow'
<1> SUFFICES ASSUME TypeOK, UnagedUnlessReady, WaitsShow, [Next]_vars
             PROVE  UnagedUnlessReady' /\ WaitsShow'
  OBVIOUS
<1>1. CASE Dispatch
  <2>1. PICK next \in Ready :
          /\ Ready \subseteq Ready' \cup {next}
          /\ iDinamPrio' = Aged(next)
          /\ waits' = [t \in Tasks |-> IF t \in Ready \ {next} THEN waits[t] + 1 ELSE 0]
    BY <1>1, DispatchEffect
  <2>2. ASSUME NEW t \in Tasks
        PROVE  /\ t \notin Ready' => iDinamPrio'[t] >= MinPrio /\ waits'[t] = 0
               /\ iDinamPrio'[t] + waits'[t] <= MaxPrio
    <3>1. /\ iStaticPrio[t] \in MinPrio .. MaxPrio
          /\ iDinamPrio[t] \in Int
          /\ waits[t] \in Nat
          /\ iDinamPrio[t] + waits[t] <= MaxPrio
      BY DEF TypeOK, WaitsShow
    <3>2. CASE t = next
      BY <2>1, <3>1, <3>2, SchedulerAssumption DEF Aged
    <3>3. CASE t # next /\ t \in Ready
      BY <2>1, <3>1, <3>3, SchedulerAssumption DEF Aged
    <3>4. CASE t # next /\ t \notin Ready
      <4>1. iDinamPrio[t] >= MinPrio /\ waits[t] = 0
        BY <3>4 DEF UnagedUnlessReady
      <4> QED
        BY <2>1, <3>1, <3>4, <4>1, SchedulerAssumption DEF Aged
    <3> QED
      BY <3>2, <3>3, <3>4
  <2> QED
    BY <2>2 DEF UnagedUnlessReady, WaitsShow
<1>2. CASE Yield
  <2>1. Ready \subseteq Ready'
    BY <1>2, AppendRange DEF Yield, TypeOK, Ready
  <2> QED
    BY <1>2, <2>1 DEF Yield, UnagedUnlessReady, WaitsShow
<1>3. CASE Suspend
  BY <1>3 DEF Suspend, UnagedUnlessReady, WaitsShow, Ready
<1>4. ASSUME NEW t \in Tasks, Resume(t)
      PROVE  UnagedUnlessReady' /\ WaitsShow'
  <2>1. Ready \subseteq Ready'
    BY <1>4, AppendRange DEF Resume, TypeOK, Ready
  <2> QED
    BY <1>4, <2>1 DEF Resume, UnagedUnlessReady, WaitsShow
<1>5. ASSUME NEW t \in Tasks, NEW prio \in Prios, task_setprio(t, prio)
      PROVE  UnagedUnlessReady' /\ WaitsShow'
  BY <1>5 DEF task_setprio, UnagedUnlessReady, WaitsShow, Ready
<1>6. CASE UNCHANGED vars
  BY <1>6 DEF vars, UnagedUnlessReady, WaitsShow, Ready
<1> QED
  BY <1>1, <1>2, <1>3, <1>4, <1>5, <1>6 DEF Next

\* The counting step: what is k below after a dispatch was k - 1 below before it.
LEMMA DispatchFewLow ==
  ASSUME TypeOK, UnagedUnlessReady, FewLow, Dispatch
  PROVE  FewLow'
<1>1. PICK next \in Ready :
        /\ \A t \in Ready : iDinamPrio[next] <= iDinamPrio[t]
        /\ iDinamPrio' = Aged(next)
  BY DispatchEffect
<1>2. next \in Tasks
  BY DEF TypeOK, Ready, Range
<1> SUFFICES ASSUME NEW k \in 0 .. N
             PROVE  Cardinality(Low(k)') <= N - k
  BY DEF FewLow, N
<1>3. CASE k = 0
  <2>1. Low(k)' \subseteq Tasks
    BY DEF Low
  <2> QED
    BY <1>3, <2>1, NumberOfTasks, FS_Subset DEF N
<1>4. CASE k # 0
  <2>1. k - 1 \in 0 .. N /\ k \in Nat /\ k >= 1
    BY <1>4, NumberOfTasks
  <2>2. ASSUME NEW t \in Low(k)'
        PROVE  t \in Ready /\ t # next /\ iDinamPrio[t] <= MinPrio - (k - 1)
    <3>1. /\ t \in Tasks
          /\ Aged(next)[t] <= MinPrio - k
      BY <1>1 DEF Low
    <3>2. iStaticPrio[t] \in MinPrio .. MaxPrio /\ iDinamPrio[t] \in Int
      BY <3>1 DEF TypeOK
    <3>3. t # next
      BY <2>1, <3>1, <3>2, SchedulerAssumption DEF Aged
    <3>4. t \in Ready
      BY <2>1, <3>1, <3>2, <3>3, SchedulerAssumption DEF Aged, UnagedUnlessReady
    <3> QED
      BY <2>1, <3>1, <3>2, <3>3, <3>4, SchedulerAssumption DEF Aged
  <2>3. Low(k)' \subseteq Low(k - 1) \ {next}
    <3>1. Low(k)' \subseteq Tasks
      BY DEF Low
    <3> QED
      BY <2>2, <3>1 DEF Low
  <2>4. Cardinality(Low(k - 1)) <= N - (k - 1)
    BY <2>1 DEF FewLow
  <2>5. CASE next \in Low(k - 1)
    <3>1. /\ IsFiniteSet(Low(k - 1) \ {next})
          /\ Cardinality(Low(k - 1) \ {next}) = Cardinality(Low(k - 1)) - 1
      BY <2>5, LowIsFinite, FS_RemoveElement
    <3>2. /\ Cardinality(Low(k)') <= Cardinality(Low(k - 1) \ {next})
          /\ Cardinality(Low(k)') \in Nat
      BY <2>3, <3>1, FS_Subset, FS_CardinalityType
    <3> QED
      BY <2>1, <2>4, <3>1, <3>2, LowIsFinite, NumberOfTasks
  <2>6. CASE next \notin Low(k - 1)
    <3>1. iDinamPrio[next] \in Int /\ ~(iDinamPrio[next] <= MinPrio - (k - 1))
      BY <1>2, <2>6 DEF Low, TypeOK
    <3>2. Low(k)' = {}
      <4> SUFFICES ASSUME NEW t \in Low(k)' PROVE FALSE
        OBVIOUS
      <4>1. iDinamPrio[next] <= iDinamPrio[t] /\ iDinamPrio[t] <= MinPrio - (k - 1)
        BY <1>1, <2>2
      <4>2. iDinamPrio[t] \in Int
        BY DEF Low, TypeOK
      <4> QED
        BY <2>1, <3>1, <4>1, <4>2, SchedulerAssumption
    <3> QED
      BY <2>1, <3>2, NumberOfTasks, FS_EmptySet
  <2> QED
    BY <2>5, <2>6
<1> QED
  BY <1>3, <1>4

LEMMA NextInv == IInv /\ [Next]_vars => IInv'
<1> SUFFICES ASSUME IInv, [Next]_vars PROVE IInv'
  OBVIOUS
<1>1. TypeOK'
  BY NextTypeOK DEF IInv
<1>2. UnagedUnlessReady' /\ WaitsShow'
  BY NextUnaged DEF IInv
<1>3. FewLow'
  <2>1. CASE Dispatch
    BY <2>1, DispatchFewLow DEF IInv
  <2>2. CASE UNCHANGED iDinamPrio
    BY <2>2, FewLowUnchanged DEF IInv
  <2> QED
    BY <2>1, <2>2 DEF Next, Yield, Suspend, Resume, task_setprio, vars
<1> QED
  BY <1>1, <1>2, <1>3 DEF IInv

THEOREM InvHolds == Spec => []IInv
<1> QED
  BY InitInv, NextInv, PTL DEF Spec

\* The ready queue holds tasks, and static priorities stay in the range of task_setprio.
THEOREM TypeCorrect == Spec => []TypeOK
<1>1. IInv => TypeOK
  BY DEF IInv
<1> QED
  BY InvHolds, <1>1, PTL

LEMMA NoneTooLow == IInv => AgingIsBounded
<1> SUFFICES ASSUME IInv, NEW t \in Tasks
             PROVE  iDinamPrio[t] > MinPrio - N
  BY DEF AgingIsBounded, N
<1>1. Cardinality(Low(N)) <= 0
  BY NumberOfTasks DEF IInv, FewLow
<1>2. Low(N) = {}
  BY <1>1, LowIsFinite, FS_EmptySet
<1>3. iDinamPrio[t] \in Int
  BY DEF IInv, TypeOK
<1> QED
  BY <1>2, <1>3, NumberOfTasks, SchedulerAssumption DEF Low

\* However many tasks there are and whatever their priorities, aging never drives a
\* dynamic priority as far as the number of tasks below the static range.
THEOREM AgingBounded == Spec => []AgingIsBounded
BY InvHolds, NoneTooLow, PTL

\* A ready task is dispatched before it has been passed over as often as there are
\* priorities and tasks together: the scheduler starves nobody.
THEOREM WaitBounded == Spec => []WaitIsBounded
<1>1. IInv => WaitIsBounded
  <2> SUFFICES ASSUME IInv, NEW t \in Ready
               PROVE  waits[t] < MaxPrio - MinPrio + N
    BY DEF WaitIsBounded, N
  <2>1. t \in Tasks
    BY DEF IInv, TypeOK, Ready, Range
  <2>2. iDinamPrio[t] > MinPrio - N
    BY <2>1, NoneTooLow DEF AgingIsBounded, N
  <2>3. iDinamPrio[t] \in Int /\ waits[t] \in Nat /\ iDinamPrio[t] + waits[t] <= MaxPrio
    BY <2>1 DEF IInv, TypeOK, WaitsShow
  <2> QED
    BY <2>2, <2>3, NumberOfTasks, SchedulerAssumption
<1> QED
  BY InvHolds, <1>1, PTL

=============================================================================
