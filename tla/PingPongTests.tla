---------------------------- MODULE PingPongTests ----------------------------
(***************************************************************************)
(* The programs of TestPrograms on the kernel of PPOSKernel, one program   *)
(* per behaviour.  Any task that can run makes the next step: a tick may   *)
(* preempt the running task after every statement.                         *)
(***************************************************************************)
EXTENDS PPOSKernel, TestPrograms

CONSTANT Items   \* the items of pingpong-prodcons.c, random() % 100

ASSUME ItemsAssumption == Items \subseteq Nat

VARIABLES test,    \* the program that runs
          pc,      \* pc[t]: index of the statement task t is at
          called,  \* called[t]: t is suspended, or resumed and not back yet, in the call at pc[t]
          ret,     \* ret[t]: what the last call of t returned
          local,   \* local[t]: t's item, or its max
          loaded,  \* loaded[t]: what t has read of a shared variable it is adding to
          shared,  \* the globals soma and Limite
          array,   \* the buffer of pingpong-prodcons.c, its slots counted from 0
          i,
          queued,  \* queued[q]: messages in a queue, and whether it is active
          usable,
          halted   \* the process has exited

dataVars == <<local, loaded, shared, array, i, queued, usable, halted>>
vars == <<kernelVars, test, pc, called, ret, dataVars>>

main == 0
Program(t) == Programs[test][t + 1]
Created == 1 .. Len(Programs[test]) - 1
MessageQueues == {"queueValores", "queueRaizes"}

\* The semaphores, those of mqueue_create included, and the first argument of their sem_create.
Mutexes == {"sBuffer", "s1", "s"} \cup Range(sBuffer)
Vacancies == {"sVaga"} \cup Range(sVaga)
Semaphores ==
  [s \in Mutexes \cup Vacancies \cup {"sItem", "s2"} \cup Range(sItem) |->
     IF s \in Mutexes THEN 1 ELSE IF s \in Vacancies THEN TAM_BUFFER ELSE 0]

Init ==
  /\ test \in DOMAIN Programs
  /\ KernelInit(Semaphores, main)
  /\ pc = [t \in Tasks |-> 1]
  /\ called = [t \in Tasks |-> FALSE]
  /\ ret = [t \in Tasks |-> 0]
  /\ local = [t \in Tasks |-> 0]
  /\ loaded = [t \in Tasks |-> 0]
  /\ shared = [soma |-> 0, Limite |-> 3]
  /\ array = [n \in 0 .. TAM_BUFFER - 1 |-> 0]
  /\ i = 0
  /\ queued = [q \in MessageQueues |-> 0]
  /\ usable = [q \in MessageQueues |-> TRUE]
  /\ halted = FALSE

\* Every task of a program is one of the kernel's.
ASSUME TasksAssumption == \A p \in DOMAIN Programs : 0 .. Len(Programs[p]) - 1 \subseteq Tasks

------------------------------------------------------------------------------
(* Statements *)

Current(t) == Program(t)[pc[t]]

\* A task is suspended only inside the call at its pc.
AtStatement(t, op) == ~halted /\ state[t] = "live" /\ ~called[t] /\ Current(t).op = op

\* The statement is over with result r: go on, after a failure past what it skips.
Completes(t, r) ==
  /\ ret' = [ret EXCEPT ![t] = r]
  /\ pc' = [pc EXCEPT ![t] =
              LET next == @ + 1 + (IF r = -1 THEN Current(t).skip ELSE 0)
              IN  IF next > Len(Program(t)) THEN 1 ELSE next]

\* A kernel call of t, which suspends it or returns r.
Calls(t, suspends, r) ==
  /\ IF suspends
     THEN called' = [called EXCEPT ![t] = TRUE] /\ UNCHANGED <<pc, ret>>
     ELSE Completes(t, r) /\ UNCHANGED called
  /\ UNCHANGED <<test, dataVars>>

CreateTask(t) ==
  /\ AtStatement(t, "task_create")
  /\ task_create(Current(t).arg)
  /\ Calls(t, FALSE, 0)

JoinTask(t) ==
  /\ AtStatement(t, "task_join")
  /\ LET u == Current(t).arg
     IN task_join(t, u) /\ Calls(t, state[u] = "live", exitCode[u])

Sleep(t) ==
  /\ AtStatement(t, "task_sleep")
  /\ \E time \in Current(t).arg : task_sleep(t, time) /\ Calls(t, time > 0, 0)

Down(t) ==
  /\ AtStatement(t, "sem_down")
  /\ LET s == Current(t).arg
     IN  sem_down(t, s) /\ Calls(t, active[s] /\ value[s] <= 0, IF active[s] THEN 0 ELSE -1)

Up(t) ==
  /\ AtStatement(t, "sem_up")
  /\ sem_up(Current(t).arg)
  /\ Calls(t, FALSE, 0)

Destroy(t) ==
  /\ AtStatement(t, "sem_destroy")
  /\ sem_destroy(Current(t).arg)
  /\ Calls(t, FALSE, 0)

\* The task has been resumed and leaves the call that suspended it.
Return(t) ==
  /\ ~halted /\ called[t] /\ Runnable(t)
  /\ LET stmt == Current(t)
     IN  Completes(t, CASE stmt.op = "sem_down" -> IF active[stmt.arg] THEN 0 ELSE -1
                        [] stmt.op = "task_join" -> exitCode[stmt.arg]
                        [] stmt.op = "task_sleep" -> 0)
  /\ called' = [called EXCEPT ![t] = FALSE]
  /\ UNCHANGED <<kernelVars, test, dataVars>>

\* task_exit and exit do not come back.
Leaves(t, code) ==
  /\ task_exit(t, code)
  /\ UNCHANGED <<test, pc, called, ret, dataVars>>

ExitTask(t) ==
  \/ AtStatement(t, "task_exit") /\ Leaves(t, Current(t).arg)
  \/ AtStatement(t, "exit_max") /\ Leaves(t, local[t])
  \/ AtStatement(t, "exit_if_failed") /\ ret[t] = -1 /\ Leaves(t, 0)

ExitProcess(t) ==
  /\ AtStatement(t, "exit")
  /\ halted' = TRUE
  /\ UNCHANGED <<kernelVars, test, pc, called, ret, local, loaded, shared, array, i, queued, usable>>

------------------------------------------------------------------------------
(* Assignments *)

Own(t) == Completes(t, ret[t]) /\ UNCHANGED <<kernelVars, test, called, halted>>

\* The statements of the buffer.  The loop of bufferRetrieve and ++i, --i are one step each.
Buffer(t) ==
  /\ \/ /\ AtStatement(t, "random")
        /\ \E v \in Items : local' = [local EXCEPT ![t] = v]
        /\ UNCHANGED <<array, i>>
     \/ AtStatement(t, "write") /\ array' = [array EXCEPT ![i] = local[t]] /\ UNCHANGED <<local, i>>
     \/ AtStatement(t, "advance") /\ i' = i + 1 /\ UNCHANGED <<local, array>>
     \/ AtStatement(t, "first") /\ local' = [local EXCEPT ![t] = array[0]] /\ UNCHANGED <<array, i>>
     \/ /\ AtStatement(t, "shift")
        /\ array' = [n \in DOMAIN array |-> IF n + 1 < i THEN array[n + 1] ELSE array[n]]
        /\ UNCHANGED <<local, i>>
     \/ AtStatement(t, "retreat") /\ i' = i - 1 /\ UNCHANGED <<local, array>>
  /\ Own(t)
  /\ UNCHANGED <<loaded, shared, queued, usable>>

\* x += n of a global: load, then store.
Global(t) ==
  LET x == Current(t).arg
  IN  /\ \/ AtStatement(t, "get") /\ local' = [local EXCEPT ![t] = shared[x]] /\ UNCHANGED <<loaded, shared>>
         \/ AtStatement(t, "load") /\ loaded' = [loaded EXCEPT ![t] = shared[x]] /\ UNCHANGED <<local, shared>>
         \/ /\ AtStatement(t, "store")
            /\ shared' = [shared EXCEPT ![x] = loaded[t] + (IF x = "Limite" THEN 2 ELSE 1)]
            /\ UNCHANGED <<local, loaded>>
      /\ Own(t)
      /\ UNCHANGED <<array, i, queued, usable>>

\* The statements of a message queue.
Queue(t) ==
  LET q == Current(t).arg
  IN  /\ \/ /\ AtStatement(t, "test")
            /\ Completes(t, IF usable[q] THEN 0 ELSE -1)
            /\ UNCHANGED <<queued, usable>>
         \/ AtStatement(t, "put") /\ queued' = [queued EXCEPT ![q] = @ + 1] /\ Completes(t, 0) /\ UNCHANGED usable
         \/ AtStatement(t, "take") /\ queued' = [queued EXCEPT ![q] = @ - 1] /\ Completes(t, 0) /\ UNCHANGED usable
         \/ AtStatement(t, "deactivate") /\ usable' = [usable EXCEPT ![q] = FALSE] /\ Completes(t, 0) /\ UNCHANGED queued
      /\ UNCHANGED <<kernelVars, test, called, local, loaded, shared, array, i, halted>>

\* Statements without an effect on what is modelled.
Work(t) ==
  /\ \/ \E op \in {"work", "report"} : AtStatement(t, op)
     \/ AtStatement(t, "exit_if_failed") /\ ret[t] # -1
  /\ Own(t)
  /\ UNCHANGED <<local, loaded, shared, array, i, queued, usable>>

------------------------------------------------------------------------------
Step(t) ==
  \/ CreateTask(t) \/ JoinTask(t) \/ Sleep(t) \/ Down(t) \/ Up(t) \/ Destroy(t) \/ Return(t)
  \/ ExitTask(t) \/ ExitProcess(t) \/ Buffer(t) \/ Global(t) \/ Queue(t) \/ Work(t)

TimePasses(t) == ~halted /\ Wake(t) /\ UNCHANGED <<test, pc, called, ret, dataVars>>

\* The process has exited, or every task has: the dispatcher returns and the kernel with it.
Stopped == halted \/ \A t \in Created \cup {main} : state[t] = "exited"

Next ==
  \/ \E t \in Tasks : Step(t) \/ TimePasses(t)
  \/ Stopped /\ UNCHANGED vars

\* Aging gives every task that can run the processor again and again (TaskScheduler), and
\* the dispatcher wakes every sleeper, which has no step of its own until then.
Fairness == \A t \in Tasks : WF_vars(Step(t) \/ TimePasses(t))

Spec == Init /\ [][Next]_vars /\ Fairness

------------------------------------------------------------------------------
(* Properties *)

TypeOK ==
  /\ test \in DOMAIN Programs
  /\ \A s \in DOMAIN value : value[s] \in Int /\ waiting[s] \in Seq(Tasks)
  /\ state \in [Tasks -> {"none", "live", "exited"}]
  /\ sleeping \subseteq Tasks
  /\ called \in [Tasks -> BOOLEAN]
  /\ \A t \in Created \cup {main} : pc[t] \in DOMAIN Program(t)
  /\ local \in [Tasks -> Nat] /\ loaded \in [Tasks -> Nat]
  /\ i \in 0 .. TAM_BUFFER
  /\ \A q \in MessageQueues : queued[q] \in 0 .. TAM_BUFFER

Producers == 1 .. NUM_PRODUTORES
Consumers == NUM_PRODUTORES + 1 .. NUM_PRODUTORES + NUM_CONSUMIDORES

\* The items in the buffer: without the first one as soon as a consumer has read it.
Contents ==
  LET At(op) == \E c \in Consumers \cap Created : test = "prodcons" /\ Current(c).op = op
      Slots(from, to) == SubSeq([n \in 1 .. TAM_BUFFER |-> array[n - 1]], from, to)
  IN  CASE At("shift") -> Slots(2, i) [] At("retreat") -> Slots(1, i - 1) [] OTHER -> Slots(1, i)

FIFO == INSTANCE BoundedFIFO WITH
          Capacity <- TAM_BUFFER, queue <- Contents,
          item <- [t \in Producers \cup Consumers |-> IF test = "prodcons" THEN local[t] ELSE 0]

\* pingpong-prodcons.c: whatever the interleaving of its tasks, the buffer is a bounded
\* queue: no item is lost, repeated, overwritten or taken out of order.
ImplementsFIFO == FIFO!Spec

\* pingpong-semaphore.c: as long as its semaphores exist, one turn goes round, and of the
\* four tasks at most one is between its sem_down and its sem_up.
OneTurn ==
  test = "semaphore" /\ active["s1"] =>
    LET Turn(t) == state[t] = "live" /\ Current(t).op \in {"task_sleep", "sem_up"}
    IN  \A t, u \in Created : Turn(t) /\ Turn(u) => t = u

\* pingpong-racecond.c: no addition to soma is lost, whatever ticks strike between its load
\* and its store; the sum that main compares is NUMTASKS * NUMSTEPS.
SumIsRight ==
  test = "racecond" /\ Current(main).op = "report" => shared["soma"] = NUMTASKS * Rounds

\* pingpong-join.c: the code task_join gives to main is the max the joined task took,
\* whether that task had exited before or main had to wait for it.
JoinReportsMax ==
  test = "join" /\ pc[main] > 1 /\ Program(main)[pc[main] - 1].op = "task_join" =>
    LET joined == Program(main)[pc[main] - 1].arg
    IN  state[joined] = "exited" /\ ret[main] = local[joined]

\* In every test but the producers and consumers', which main leaves running, no task is
\* alive any more, nor about to be created, when main exits or the process does.
MainOutlivesTasks ==
  test \notin {"prodcons", "mqueue"} /\ (halted \/ state[main] = "exited") =>
    \A t \in Created : state[t] = "exited"

\* pingpong-prodcons.c: no producer waits for ever for a slot, no consumer for an item, and
\* none of them for the buffer, however many others ask for it again and again.
NobodyStarves ==
  \A t \in Producers \cup Consumers : []<>(test = "prodcons" => ~called[t])

\* Every other test ends, each of its tasks with task_exit: nobody is left in sem_down or
\* task_join, and those of pingpong-mqueue.c that loop for ever see a call on a destroyed
\* queue fail, whatever they were doing when main destroyed it.
EveryTestEnds == []<>(test # "prodcons" => Stopped)

=============================================================================
