---------------------------- MODULE TestPrograms ----------------------------
(***************************************************************************)
(* The programs src/pingpong-*.c that exercise the kernel, as sequences of *)
(* statements: the kernel calls they make and the assignments to what      *)
(* their tasks share, in their order.  Printing and busy work are left     *)
(* out, counted loops are written out, a body that loops for ever starts   *)
(* again after its last statement.  A task is the number of its creation;  *)
(* main is task 0.  Each test is the sequence of its tasks' programs, main *)
(* first.                                                                  *)
(*                                                                         *)
(* A statement has an operation, its argument and the number of statements *)
(* to leave out if the call returns -1.  The argument of task_sleep is the *)
(* set of times it may be given, 1 standing for any but 0.                 *)
(***************************************************************************)
EXTENDS Integers, Sequences

CONSTANTS NUM_PRODUTORES, NUM_CONSUMIDORES,  \* of pingpong-prodcons.c
          QUEUE_PRODUCERS, QUEUE_CONSUMERS,  \* of pingpong-mqueue.c
          TAM_BUFFER,  \* slots of the buffer, and of each message queue
          NUMTASKS,    \* tasks of the tests that create equal ones (5, 30 or 500 in the code)
          Rounds       \* iterations of the counted loops (3, 10 or NUMSTEPS in the code)

ASSUME TestAssumption ==
  /\ NUM_PRODUTORES \in Nat /\ NUM_CONSUMIDORES \in Nat
  /\ QUEUE_PRODUCERS \in Nat /\ QUEUE_CONSUMERS \in Nat
  /\ TAM_BUFFER \in Nat \ {0} /\ Rounds \in Nat /\ NUMTASKS \in Nat

Statement(op, arg, skip) == <<[op |-> op, arg |-> arg, skip |-> skip]>>
Do(op) == Statement(op, 0, 0)
Call(op, arg) == Statement(op, arg, 0)

Repeat(n, body) == [k \in 1 .. n * Len(body) |-> body[((k - 1) % Len(body)) + 1]]
create(n) == [k \in 1 .. n |-> Call("task_create", k)[1]]

\* A bug to catch: the last task is not joined.
Mut_joinAllButLast(n) == [k \in 1 .. n - 1 |-> Call("task_join", k)[1]]

join(n) == [k \in 1 .. n |-> Call("task_join", k)[1]]
join_reversed(n) == [k \in 1 .. n |-> Call("task_join", n + 1 - k)[1]]
exit == Do("exit")

------------------------------------------------------------------------------
(* pingpong-prodcons.c *)

bufferPlace == Do("write") \o Do("advance")
bufferRetrieve == Do("first") \o Do("shift") \o Do("retreat")

taskProdutor ==
  Call("task_sleep", {1}) \o Do("random")
    \o Call("sem_down", "sVaga") \o Call("sem_down", "sBuffer") \o bufferPlace
    \o Call("sem_up", "sBuffer") \o Call("sem_up", "sItem")

\* A bug to catch: a slot is announced free before the item is taken out of it.
Mut_taskConsumidorEarlyUp ==
  Call("sem_down", "sItem") \o Call("sem_up", "sVaga") \o Call("sem_down", "sBuffer")
    \o bufferRetrieve \o Call("sem_up", "sBuffer") \o Call("task_sleep", {1})

\* A bug to catch: the consumer enters the buffer without sBuffer.
Mut_taskConsumidorUnlocked ==
  Call("sem_down", "sItem") \o bufferRetrieve \o Call("sem_up", "sVaga") \o Call("task_sleep", {1})

\* A bug to catch: the slot that has become free is not announced.
Mut_taskConsumidorKeepsSlot ==
  Call("sem_down", "sItem") \o Call("sem_down", "sBuffer") \o bufferRetrieve
    \o Call("sem_up", "sBuffer") \o Call("task_sleep", {1})

taskConsumidor ==
  Call("sem_down", "sItem") \o Call("sem_down", "sBuffer") \o bufferRetrieve
    \o Call("sem_up", "sBuffer") \o Call("sem_up", "sVaga") \o Call("task_sleep", {1})

prodcons ==
  <<create(NUM_PRODUTORES + NUM_CONSUMIDORES) \o Call("task_exit", 0)>>
    \o [k \in 1 .. NUM_PRODUTORES |-> taskProdutor]
    \o [k \in 1 .. NUM_CONSUMIDORES |-> taskConsumidor]

------------------------------------------------------------------------------
(* pingpong-mqueue.c, with the message queues of the kernel it calls *)

\* The semaphores of a queue.
sBuffer == [queueValores |-> "V.sBuffer", queueRaizes |-> "R.sBuffer"]
sItem == [queueValores |-> "V.sItem", queueRaizes |-> "R.sItem"]
sVaga == [queueValores |-> "V.sVaga", queueRaizes |-> "R.sVaga"]

\* Unless the queue is gone, copy the message into a free slot; -1 as soon as a call fails.
mqueue_send(q) ==
  Statement("test", q, 5) \o Statement("sem_down", sVaga[q], 4)
    \o Statement("sem_down", sBuffer[q], 3) \o Call("put", q)
    \o Call("sem_up", sBuffer[q]) \o Call("sem_up", sItem[q])

mqueue_recv(q) ==
  Statement("test", q, 5) \o Statement("sem_down", sItem[q], 4)
    \o Statement("sem_down", sBuffer[q], 3) \o Call("take", q)
    \o Call("sem_up", sBuffer[q]) \o Call("sem_up", sVaga[q])

mqueue_destroy(q) ==
  Call("deactivate", q) \o Call("sem_destroy", sBuffer[q])
    \o Call("sem_destroy", sItem[q]) \o Call("sem_destroy", sVaga[q])

\* A bug to catch: the producer goes on when its queue is gone.
Mut_prodBodyEndless == mqueue_send("queueValores") \o Call("task_sleep", {0, 1})

prodBody == mqueue_send("queueValores") \o Do("exit_if_failed") \o Call("task_sleep", {0, 1})

somaBody ==
  Repeat(Rounds, Repeat(3, mqueue_recv("queueValores")) \o mqueue_send("queueRaizes")
                   \o Call("task_sleep", {0, 1}))
    \o Call("task_exit", 0)

consBody == mqueue_recv("queueRaizes") \o Do("exit_if_failed") \o Call("task_sleep", {0, 1})

mqueue ==
  <<create(1 + QUEUE_CONSUMERS + QUEUE_PRODUCERS) \o Call("task_join", 1)
      \o mqueue_destroy("queueValores") \o mqueue_destroy("queueRaizes")
      \o Call("task_exit", 0), somaBody>>
    \o [k \in 1 .. QUEUE_CONSUMERS |-> consBody]
    \o [k \in 1 .. QUEUE_PRODUCERS |-> prodBody]

------------------------------------------------------------------------------
(* pingpong-semaphore.c *)

\* A bug to catch: the turn is given back to the other A.
Mut_TaskASameSemaphore ==
  Repeat(Rounds, Call("sem_down", "s1") \o Call("task_sleep", {1})
                   \o Call("sem_up", "s1") \o Call("sem_up", "s2")) \o Call("task_exit", 0)

TaskA ==
  Repeat(Rounds, Call("sem_down", "s1") \o Call("task_sleep", {1})
                   \o Call("sem_up", "s2")) \o Call("task_exit", 0)

TaskB ==
  Repeat(Rounds, Call("sem_down", "s2") \o Call("task_sleep", {1})
                   \o Call("sem_up", "s1")) \o Call("task_exit", 0)

semaphore ==
  <<create(4) \o Call("task_join", 1) \o Call("sem_destroy", "s1") \o Call("sem_destroy", "s2")
      \o Call("task_join", 2) \o Call("task_join", 3) \o Call("task_join", 4)
      \o Call("task_exit", 0), TaskA, TaskA, TaskB, TaskB>>

------------------------------------------------------------------------------
(* pingpong-racecond.c *)

\* A bug to catch: soma is added to without the semaphore.
Mut_taskBodyUnlocked ==
  Repeat(Rounds, Call("load", "soma") \o Call("store", "soma")) \o Call("task_exit", 0)

\* soma += 1 loads and then stores.
taskBody ==
  Repeat(Rounds, Call("sem_down", "s") \o Call("load", "soma") \o Call("store", "soma")
                   \o Call("sem_up", "s")) \o Call("task_exit", 0)

racecond ==
  <<create(NUMTASKS) \o join(NUMTASKS) \o Call("sem_destroy", "s") \o Do("report")
      \o Call("task_exit", 0)>>
    \o [k \in 1 .. NUMTASKS |-> taskBody]

------------------------------------------------------------------------------
(* pingpong-join.c, pingpong-sleep.c *)

\* A bug to catch: the exit code is 0, as in the other programs.
Mut_joinBodyExitsZero ==
  Call("get", "Limite") \o Call("load", "Limite") \o Call("store", "Limite") \o Call("task_exit", 0)

\* max = Limite; Limite += 2, which loads and then stores; max rounds of work.
joinBody ==
  Call("get", "Limite") \o Call("load", "Limite") \o Call("store", "Limite") \o Do("exit_max")

join_main == <<create(NUMTASKS) \o join(NUMTASKS) \o Call("task_exit", 0)>>
               \o [k \in 1 .. NUMTASKS |-> joinBody]

sleepBody == Repeat(Rounds, Call("task_sleep", {0, 1})) \o Call("task_exit", 0)

sleep_main == <<create(NUMTASKS) \o join(NUMTASKS) \o Call("task_exit", 0)>>
                \o [k \in 1 .. NUMTASKS |-> sleepBody]

------------------------------------------------------------------------------
(* pingpong-preempcao.c, pingpong-preempcao-stress.c, pingpong-contab-prio.c: main joins its *)
(* tasks and ends the process.  Priorities are in TaskScheduler.                             *)

preempcaoBody == Repeat(Rounds, Do("work")) \o Call("task_exit", 0)

preempcao == <<create(NUMTASKS) \o join(NUMTASKS) \o exit>>
               \o [k \in 1 .. NUMTASKS |-> preempcaoBody]

stressBody == Repeat(Rounds, Do("work")) \o Call("task_exit", 0)

stress == <<create(NUMTASKS) \o join(NUMTASKS) \o exit>>
            \o [k \in 1 .. NUMTASKS |-> stressBody]

contabBody == Do("work") \o Call("task_exit", 0)

contab_prio == <<create(NUMTASKS) \o join_reversed(NUMTASKS) \o exit>>
                 \o [k \in 1 .. NUMTASKS |-> contabBody]

------------------------------------------------------------------------------
Programs ==
  [prodcons |-> prodcons, mqueue |-> mqueue, semaphore |-> semaphore, racecond |-> racecond,
   join |-> join_main, sleep |-> sleep_main, preempcao |-> preempcao, stress |-> stress,
   contab_prio |-> contab_prio]

=============================================================================
