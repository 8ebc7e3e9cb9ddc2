------------------------ MODULE PingPongTestsProofs ------------------------
(***************************************************************************)
(* Proofs about PingPongTests, for every number of tasks and of rounds and *)
(* for every interleaving, in eight steps:                                 *)
(*  - what the programs are made of: the statements, the bodies of the     *)
(*    tasks, the mains and the tests, which are well-formed (Tests)        *)
(*    and so Readable;                                                     *)
(*  - the inductive invariant Base, which says where the tasks may be: who *)
(*    exists, who is suspended in which call and on which queue, whom main *)
(*    has joined.  A lemma per action sums up what its step does (Frame);  *)
(*  - main and its tasks: MainOutlivesTasks follows from Base alone,       *)
(*    JoinReportsMax needs the exit codes as well;                         *)
(*  - tokens: the semaphores of pingpong-semaphore.c and                   *)
(*    pingpong-racecond.c have one token between them, which a semaphore   *)
(*    or a task has, and which a sem_up gives to a suspended task;         *)
(*  - what the token protects: OneTurn and SumIsRight;                     *)
(*  - ledgers: the permits of the buffer's and the queues' semaphores a    *)
(*    task has at each statement of its program (TasksBalanced);           *)
(*  - permits: a semaphore has issued no more of them than there are slots *)
(*    and items (Accounts, in the inductive invariant Permitted), so that  *)
(*    no index leaves its array and no count its bounds (TypeOK);          *)
(*  - the buffer of pingpong-prodcons.c, which one task at a time uses and *)
(*    which is therefore a bounded queue (ImplementsFIFO).                 *)
(***************************************************************************)
EXTENDS PingPongTests, ListLemmas, FiniteSetTheorems

------------------------------------------------------------------------------
(* The statements of the programs *)

\* The names of the semaphores, and the values and operations of the statements.
Sems == DOMAIN Semaphores
Times == {{1}, {0, 1}}
Ops == {"task_create", "task_join", "task_sleep", "sem_down", "sem_up", "sem_destroy", "task_exit",
        "exit_max", "exit_if_failed", "exit", "random", "write", "advance", "first", "shift",
        "retreat", "get", "load", "store", "test", "put", "take", "deactivate", "work", "report"}
Args == Nat \cup Sems \cup MessageQueues \cup {"soma", "Limite"} \cup Times

\* The statements of a program of n tasks beside main that skip at most z after a failure.
Legal(n, z) ==
  {r \in [op : Ops, arg : Args, skip : 0 .. z] :
     /\ r.op \in {"task_create", "task_join"} => r.arg \in 1 .. n
     /\ r.op = "task_sleep" => r.arg \in Times
     /\ r.op \in {"sem_down", "sem_up", "sem_destroy"} => r.arg \in Sems
     /\ r.op \in {"get", "load", "store"} => r.arg \in {"soma", "Limite"}
     /\ r.op \in {"test", "put", "take", "deactivate"} => r.arg \in MessageQueues
     /\ r.op = "task_exit" => r.arg = 0}

\* Those that a task other than main executes: it neither creates nor joins tasks.
Body(z) == {r \in Legal(0, z) : r.op # "exit"}

\* The semaphores by name.
LEMMA SemNames ==
  Sems = {"sBuffer", "s1", "s", "sVaga", "sItem", "s2", "V.sBuffer", "R.sBuffer", "V.sItem",
          "R.sItem", "V.sVaga", "R.sVaga"}
BY DEF Sems, Semaphores, Mutexes, Vacancies, Range, sBuffer, sItem, sVaga

\* A statement as a program.
LEMMA OneStatement ==
  ASSUME NEW S, NEW r \in S, NEW s, s = <<r>>
  PROVE  s \in Seq(S) /\ Len(s) = 1 /\ s[1] = r
OBVIOUS

\* One more statement.
LEMMA OneMore ==
  ASSUME NEW S, NEW s \in Seq(S), NEW t \in Seq(S), Len(t) = 1, NEW l \in Nat, Len(s) = l
  PROVE  /\ s \o t \in Seq(S) /\ Len(s \o t) = l + 1
         /\ \A k \in 1 .. l : (s \o t)[k] = s[k]
         /\ (s \o t)[l + 1] = t[1]
<1>1. /\ s \o t \in Seq(S)
      /\ Len(s \o t) = Len(s) + Len(t)
      /\ \A k \in 1 .. Len(s) + Len(t) : (s \o t)[k] = IF k <= Len(s) THEN s[k] ELSE t[k - Len(s)]
  BY ConcatProperties, Zenon
<1>2. PICK c : c = s \o t
  OBVIOUS
<1>3. /\ c \in Seq(S) /\ Len(c) = l + 1
      /\ \A k \in 1 .. l + 1 : c[k] = IF k <= l THEN s[k] ELSE t[k - l]
  BY <1>1, <1>2, Zenon
<1>4. \A k \in 1 .. l : c[k] = s[k]
  BY <1>3
<1>5. c[l + 1] = t[1]
  BY <1>3
<1> QED
  BY <1>2, <1>3, <1>4, <1>5

\* The statements, kind by kind.
LEMMA SemStatement ==
  ASSUME NEW z \in Nat, NEW op \in {"sem_down", "sem_up", "sem_destroy"}, NEW arg \in Sems,
         NEW skip \in 0 .. z
  PROVE  Statement(op, arg, skip) \in Seq(Body(z))
<1>1. [op |-> op, arg |-> arg, skip |-> skip] \in Body(z)
  BY DEF Body, Legal, Ops, Args
<1> QED
  BY <1>1, OneStatement DEF Statement

\* The same without a statement to skip.
LEMMA SemCall ==
  ASSUME NEW op \in {"sem_down", "sem_up", "sem_destroy"}, NEW arg \in Sems
  PROVE  Call(op, arg) \in Seq(Body(0))
<1>1. 0 \in Nat /\ 0 \in 0 .. 0
  OBVIOUS
<1> QED
  BY <1>1, SemStatement DEF Call

\* Statements of a message queue.
LEMMA QueueStatement ==
  ASSUME NEW z \in Nat, NEW op \in {"test", "put", "take", "deactivate"}, NEW arg \in MessageQueues,
         NEW skip \in 0 .. z
  PROVE  Statement(op, arg, skip) \in Seq(Body(z))
<1>1. [op |-> op, arg |-> arg, skip |-> skip] \in Body(z)
  BY DEF Body, Legal, Ops, Args
<1> QED
  BY <1>1, OneStatement DEF Statement

\* Statements on a global.
LEMMA GlobalStatement ==
  ASSUME NEW z \in Nat, NEW op \in {"get", "load", "store"}, NEW arg \in {"soma", "Limite"}
  PROVE  Call(op, arg) \in Seq(Body(z))
<1>1. [op |-> op, arg |-> arg, skip |-> 0] \in Body(z)
  BY DEF Body, Legal, Ops, Args
<1> QED
  BY <1>1, OneStatement DEF Statement, Call

\* task_sleep.
LEMMA SleepStatement ==
  ASSUME NEW z \in Nat, NEW arg \in Times
  PROVE  Call("task_sleep", arg) \in Seq(Body(z))
<1>1. [op |-> "task_sleep", arg |-> arg, skip |-> 0] \in Body(z)
  BY DEF Body, Legal, Ops, Args
<1> QED
  BY <1>1, OneStatement DEF Statement, Call

\* Statements without an argument, and task_exit(0).
LEMMA PlainStatement ==
  ASSUME NEW z \in Nat,
         NEW op \in {"exit_max", "exit_if_failed", "random", "write", "advance", "first", "shift",
                     "retreat", "work", "report", "task_exit"}
  PROVE  Do(op) \in Seq(Body(z)) /\ Call(op, 0) \in Seq(Body(z))
<1>1. [op |-> op, arg |-> 0, skip |-> 0] \in Body(z)
  BY DEF Body, Legal, Ops, Args
<1> QED
  BY <1>1, OneStatement DEF Statement, Call, Do

\* The number of statements of a loop, and what such a loop is when it has been run n times.
IsLoopLength(m) == m \in {1, 3, 4, 6, 25}
IsRepetition(r, n, body, m, S) ==
  /\ r \in Seq(S) /\ Len(r) = n * m
  /\ \A k \in 1 .. n * m : r[k] = body[((k - 1) % m) + 1]

\* Counted loops.
LEMMA RepeatIs ==
  ASSUME NEW S, NEW body \in Seq(S), NEW n \in Nat, NEW m, IsLoopLength(m), Len(body) = m
  PROVE  IsRepetition(Repeat(n, body), n, body, m, S)
<1> USE DEF IsLoopLength, IsRepetition
<1>1. ASSUME NEW c \in Nat \ {0}, c = m, \A k \in Int : k % c \in 0 .. c - 1, n * c \in Nat
      PROVE  IsRepetition(Repeat(n, body), n, body, m, S)
  <2>1. \A k \in 1 .. n * c : ((k - 1) % c) + 1 \in 1 .. c
    <3>1. ASSUME NEW k \in 1 .. n * c PROVE ((k - 1) % c) + 1 \in 1 .. c
      <4>1. PICK x : x = (k - 1) % c
        OBVIOUS
      <4>2. k - 1 \in Int
        BY <1>1
      <4>3. x \in 0 .. c - 1
        BY <1>1, <4>1, <4>2
      <4> QED
        BY <1>1, <4>1, <4>3
    <3> QED
      BY <3>1
  <2>2. \A k \in 1 .. n * c : body[((k - 1) % c) + 1] \in S
    BY <1>1, <2>1
  <2>3. PICK l \in Nat : l = n * c
    BY <1>1
  <2>4. Repeat(n, body) = [k \in 1 .. l |-> body[((k - 1) % c) + 1]]
    BY <1>1, <2>3 DEF Repeat
  <2> QED
    BY <1>1, <2>2, <2>3, <2>4
<1>2. CASE m = 1
  BY <1>1, <1>2
<1>3. CASE m = 3
  BY <1>1, <1>3
<1>4. CASE m = 4
  BY <1>1, <1>4
<1>5. CASE m = 6
  BY <1>1, <1>5
<1>6. CASE m = 25
  BY <1>1, <1>6
<1> QED
  BY <1>2, <1>3, <1>4, <1>5, <1>6

\* Their lengths.
LEMMA RepeatLength ==
  ASSUME NEW S, NEW body \in Seq(S), NEW n \in Nat, Len(body) \in {1, 3, 4, 6, 25}
  PROVE  Repeat(n, body) \in Seq(S) /\ Len(Repeat(n, body)) = n * Len(body)
<1>1. ASSUME NEW c \in Nat \ {0}, c = Len(body), \A k \in Int : k % c \in 0 .. c - 1, n * c \in Nat
      PROVE  Repeat(n, body) \in Seq(S) /\ Len(Repeat(n, body)) = n * c
  <2>1. \A k \in 1 .. n * c : ((k - 1) % c) + 1 \in 1 .. c
    <3>1. ASSUME NEW k \in 1 .. n * c PROVE ((k - 1) % c) + 1 \in 1 .. c
      <4>1. PICK x : x = (k - 1) % c
        OBVIOUS
      <4>2. k - 1 \in Int
        BY <1>1
      <4>3. x \in 0 .. c - 1
        BY <1>1, <4>1, <4>2
      <4>4. x + 1 \in 1 .. c
        BY <1>1, <4>3
      <4> QED
        BY <4>1, <4>4, Zenon
    <3> QED
      BY <3>1
  <2>2. \A k \in 1 .. n * c : body[((k - 1) % c) + 1] \in S
    BY <1>1, <2>1
  <2>3. PICK l \in Nat : l = n * c
    BY <1>1
  <2>4. Repeat(n, body) = [k \in 1 .. l |-> body[((k - 1) % c) + 1]]
    BY <1>1, <2>3 DEF Repeat
  <2> QED
    BY <1>1, <2>2, <2>3, <2>4
<1>2. CASE Len(body) = 1
  BY <1>1, <1>2
<1>3. CASE Len(body) = 3
  BY <1>1, <1>3
<1>4. CASE Len(body) = 4
  BY <1>1, <1>4
<1>5. CASE Len(body) = 6
  BY <1>1, <1>5
<1>6. CASE Len(body) = 25
  BY <1>1, <1>6
<1> QED
  BY <1>2, <1>3, <1>4, <1>5, <1>6

------------------------------------------------------------------------------
(* The bodies of the tasks *)

\* pingpong-prodcons.c.
LEMMA ProdconsBodies ==
  /\ taskProdutor \in Seq(Body(0)) /\ Len(taskProdutor) = 8
  /\ taskConsumidor \in Seq(Body(0)) /\ Len(taskConsumidor) = 8
<1>1. Call("task_sleep", {1}) \in Seq(Body(0))
  BY SleepStatement DEF Times
<1>2. \A op \in {"random", "write", "advance", "first", "shift", "retreat"} : Do(op) \in Seq(Body(0))
  BY PlainStatement
<1>3. \A op \in {"sem_down", "sem_up"}, x \in {"sVaga", "sBuffer", "sItem"} : Call(op, x) \in Seq(Body(0))
  <2>1. {"sVaga", "sBuffer", "sItem"} \subseteq Sems
    BY SemNames
  <2> QED
    BY <2>1, SemCall
<1>4. bufferPlace \in Seq(Body(0)) /\ bufferRetrieve \in Seq(Body(0))
  BY <1>2 DEF bufferPlace, bufferRetrieve
<1>5. taskProdutor \in Seq(Body(0)) /\ taskConsumidor \in Seq(Body(0))
  BY <1>1, <1>2, <1>3, <1>4 DEF taskProdutor, taskConsumidor
<1>6. Len(taskProdutor) = 8
  BY DEF taskProdutor, bufferPlace, Call, Do, Statement
<1>7. Len(taskConsumidor) = 8
  BY DEF taskConsumidor, bufferRetrieve, Call, Do, Statement
<1> QED
  BY <1>5, <1>6, <1>7

\* A loop of m statements followed by task_exit(0).
IsLoopAndExit(p, n, body, m, z) ==
  /\ p \in Seq(Body(z)) /\ Len(p) = n * m + 1
  /\ \A k \in 1 .. n * m : p[k] = body[((k - 1) % m) + 1]
  /\ p[n * m + 1].op = "task_exit"

\* Repeat builds it.
LEMMA LoopAndExit ==
  ASSUME NEW z \in Nat, NEW n \in Nat, NEW body \in Seq(Body(z)), NEW m, IsLoopLength(m),
         Len(body) = m
  PROVE  IsLoopAndExit(Repeat(n, body) \o Call("task_exit", 0), n, body, m, z)
<1>1. IsRepetition(Repeat(n, body), n, body, m, Body(z))
  <2>1. PICK S : S = Body(z)
    OBVIOUS
  <2>2. body \in Seq(S) /\ IsLoopLength(m)
    BY <2>1
  <2> QED
    BY <2>1, <2>2, RepeatIs, Zenon
<1>2. PICK l \in Nat : l = n * m
  BY DEF IsLoopLength
<1>3. PICK f : f = [k \in 1 .. l |-> body[((k - 1) % m) + 1]]
  OBVIOUS
<1>4. PICK r \in Seq(Body(z)) : r = Repeat(n, body) /\ Len(r) = l /\ \A k \in 1 .. l : r[k] = f[k]
  BY <1>1, <1>2, <1>3 DEF IsRepetition
<1>5. PICK e \in Seq(Body(z)) : e = Call("task_exit", 0) /\ Len(e) = 1 /\ e[1].op = "task_exit"
  BY PlainStatement DEF Call, Statement
<1>6. /\ r \o e \in Seq(Body(z)) /\ Len(r \o e) = l + 1
      /\ \A k \in 1 .. l : (r \o e)[k] = r[k]
      /\ (r \o e)[l + 1] = e[1]
  BY <1>4, <1>5, OneMore
<1>7. PICK c \in Seq(Body(z)) : c = r \o e /\ Len(c) = l + 1 /\ (\A k \in 1 .. l : c[k] = r[k]) /\ c[l + 1] = e[1]
  BY <1>6
<1> QED
  BY <1>2, <1>3, <1>4, <1>5, <1>7, Zenon DEF IsLoopAndExit

\* TaskA and TaskB, which wait for one semaphore and give way with the other one.
TurnOf(p, s1, s2) ==
  \/ p = TaskA /\ s1 = "s1" /\ s2 = "s2"
  \/ p = TaskB /\ s1 = "s2" /\ s2 = "s1"
TurnLoop(p, n, s1, s2) ==
  /\ Len(p) = n + 1
  /\ \A k \in 1 .. n :
       \/ (k - 1) % 3 = 0 /\ p[k].op = "sem_down" /\ p[k].arg = s1
       \/ (k - 1) % 3 = 1 /\ p[k].op = "task_sleep" /\ p[k].arg = {1}
       \/ (k - 1) % 3 = 2 /\ p[k].op = "sem_up" /\ p[k].arg = s2
  /\ p[n + 1].op = "task_exit"

\* pingpong-semaphore.c: a task takes a turn and gives it away, Rounds times.
LEMMA SemaphoreBodies ==
  ASSUME NEW p, NEW s1, NEW s2, TurnOf(p, s1, s2)
  PROVE  p \in Seq(Body(0)) /\ TurnLoop(p, Rounds * 3, s1, s2)
<1> DEFINE body == Call("sem_down", s1) \o Call("task_sleep", {1}) \o Call("sem_up", s2)
<1>1. body \in Seq(Body(0))
  <2>4. s1 \in Sems /\ s2 \in Sems
    BY SemNames DEF TurnOf
  <2>1. Call("sem_down", s1) \in Seq(Body(0))
    BY <2>4, SemCall
  <2>2. Call("task_sleep", {1}) \in Seq(Body(0))
    BY SleepStatement DEF Times
  <2>3. Call("sem_up", s2) \in Seq(Body(0))
    BY <2>4, SemCall
  <2> QED
    BY <2>1, <2>2, <2>3
<1>2. /\ Len(body) = 3
      /\ body[1].op = "sem_down" /\ body[2].op = "task_sleep" /\ body[3].op = "sem_up"
      /\ body[1].arg = s1 /\ body[2].arg = {1} /\ body[3].arg = s2
  BY DEF Call, Statement
<1>3. p = Repeat(Rounds, body) \o Call("task_exit", 0)
  BY DEF TaskA, TaskB, TurnOf
<1> HIDE DEF body
<1>4. /\ p \in Seq(Body(0)) /\ Len(p) = Rounds * 3 + 1
      /\ \A k \in 1 .. Rounds * 3 : p[k] = body[((k - 1) % 3) + 1]
      /\ p[Rounds * 3 + 1].op = "task_exit"
  <2>1. Rounds \in Nat /\ 0 \in Nat
    BY TestAssumption
  <2>2. PICK m : m = 3 /\ IsLoopLength(m)
    BY DEF IsLoopLength
  <2>3. IsLoopAndExit(p, Rounds, body, m, 0)
    BY <1>1, <1>2, <1>3, <2>1, <2>2, LoopAndExit, Zenon
  <2> QED
    BY <2>2, <2>3 DEF IsLoopAndExit
<1>5. TurnLoop(p, Rounds * 3, s1, s2)
  BY <1>2, <1>4, TestAssumption DEF TurnLoop
<1> QED
  BY <1>4, <1>5

\* pingpong-racecond.c: an addition to soma between sem_down and sem_up, Rounds times.
LEMMA RacecondBody ==
  /\ taskBody \in Seq(Body(0)) /\ Len(taskBody) = Rounds * 4 + 1
  /\ \A k \in 1 .. Rounds * 4 :
       \/ (k - 1) % 4 = 0 /\ taskBody[k].op = "sem_down" /\ taskBody[k].arg = "s"
       \/ (k - 1) % 4 = 1 /\ taskBody[k].op = "load" /\ taskBody[k].arg = "soma"
       \/ (k - 1) % 4 = 2 /\ taskBody[k].op = "store" /\ taskBody[k].arg = "soma"
       \/ (k - 1) % 4 = 3 /\ taskBody[k].op = "sem_up" /\ taskBody[k].arg = "s"
  /\ taskBody[Rounds * 4 + 1].op = "task_exit"
<1> DEFINE body == Call("sem_down", "s") \o Call("load", "soma") \o Call("store", "soma")
                     \o Call("sem_up", "s")
<1>1. body \in Seq(Body(0))
  <2>1. Call("sem_down", "s") \in Seq(Body(0)) /\ Call("sem_up", "s") \in Seq(Body(0))
    BY SemCall, SemNames
  <2>2. Call("load", "soma") \in Seq(Body(0)) /\ Call("store", "soma") \in Seq(Body(0))
    BY GlobalStatement
  <2> QED
    BY <2>1, <2>2
<1>2. /\ Len(body) = 4
      /\ body[1].op = "sem_down" /\ body[2].op = "load" /\ body[3].op = "store" /\ body[4].op = "sem_up"
      /\ body[1].arg = "s" /\ body[2].arg = "soma" /\ body[3].arg = "soma" /\ body[4].arg = "s"
  BY DEF Call, Statement
<1>3. taskBody = Repeat(Rounds, body) \o Call("task_exit", 0)
  BY DEF taskBody
<1> HIDE DEF body
<1>4. /\ taskBody \in Seq(Body(0)) /\ Len(taskBody) = Rounds * 4 + 1
      /\ \A k \in 1 .. Rounds * 4 : taskBody[k] = body[((k - 1) % 4) + 1]
      /\ taskBody[Rounds * 4 + 1].op = "task_exit"
  <2>1. Rounds \in Nat /\ 0 \in Nat
    BY TestAssumption
  <2>2. PICK m : m = 4 /\ IsLoopLength(m)
    BY DEF IsLoopLength
  <2>3. IsLoopAndExit(taskBody, Rounds, body, m, 0)
    BY <1>1, <1>2, <1>3, <2>1, <2>2, LoopAndExit, Zenon
  <2> QED
    BY <2>2, <2>3 DEF IsLoopAndExit
<1> QED
  BY <1>2, <1>4, TestAssumption

\* pingpong-join.c.
LEMMA JoinBodyIs ==
  /\ joinBody \in Seq(Body(0)) /\ Len(joinBody) = 4
  /\ \A k \in 1 .. 3 : joinBody[k].op \in {"get", "load", "store"} /\ joinBody[k].arg = "Limite"
  /\ joinBody[4].op = "exit_max"
<1>1. \A op \in {"get", "load", "store"} : Call(op, "Limite") \in Seq(Body(0))
  BY GlobalStatement
<1>2. Do("exit_max") \in Seq(Body(0))
  BY PlainStatement
<1>3. joinBody \in Seq(Body(0))
  BY <1>1, <1>2 DEF joinBody
<1>4. /\ Len(joinBody) = 4
      /\ joinBody[1].op = "get" /\ joinBody[2].op = "load" /\ joinBody[3].op = "store"
      /\ joinBody[1].arg = "Limite" /\ joinBody[2].arg = "Limite" /\ joinBody[3].arg = "Limite"
      /\ joinBody[4].op = "exit_max"
  BY DEF joinBody, Call, Do, Statement
<1> QED
  BY <1>3, <1>4

\* pingpong-sleep.c, pingpong-preempcao.c, pingpong-preempcao-stress.c, pingpong-contab-prio.c.
LEMMA OtherBodies ==
  \A b \in {sleepBody, preempcaoBody, stressBody, contabBody} : b \in Seq(Body(0)) /\ Len(b) >= 1
<1>1. Call("task_sleep", {0, 1}) \in Seq(Body(0)) /\ Len(Call("task_sleep", {0, 1})) = 1
  BY SleepStatement DEF Times, Call, Statement
<1>2. /\ Do("work") \in Seq(Body(0)) /\ Len(Do("work")) = 1
      /\ Call("task_exit", 0) \in Seq(Body(0)) /\ Len(Call("task_exit", 0)) = 1
  BY PlainStatement DEF Do, Call, Statement
<1>3. sleepBody \in Seq(Body(0)) /\ Len(sleepBody) >= 1
  <2>1. Rounds \in Nat /\ 0 \in Nat
    BY TestAssumption
  <2>2. sleepBody \in Seq(Body(0)) /\ Len(sleepBody) = Rounds * 1 + 1
    BY <1>1, <2>1, LoopAndExit DEF sleepBody, IsLoopLength, IsLoopAndExit
  <2> QED
    BY <2>1, <2>2
<1>4. preempcaoBody \in Seq(Body(0)) /\ Len(preempcaoBody) >= 1
  <2>1. Rounds \in Nat /\ 0 \in Nat
    BY TestAssumption
  <2>2. preempcaoBody \in Seq(Body(0)) /\ Len(preempcaoBody) = Rounds * 1 + 1
    BY <1>2, <2>1, LoopAndExit DEF preempcaoBody, IsLoopLength, IsLoopAndExit
  <2> QED
    BY <2>1, <2>2
<1>5. stressBody \in Seq(Body(0)) /\ Len(stressBody) >= 1
  <2>1. Rounds \in Nat /\ 0 \in Nat
    BY TestAssumption
  <2>2. stressBody \in Seq(Body(0)) /\ Len(stressBody) = Rounds * 1 + 1
    BY <1>2, <2>1, LoopAndExit DEF stressBody, IsLoopLength, IsLoopAndExit
  <2> QED
    BY <2>1, <2>2
<1>6. contabBody \in Seq(Body(0)) /\ Len(contabBody) >= 1
  BY <1>2 DEF contabBody
<1> QED
  BY <1>3, <1>4, <1>5, <1>6

\* The calls of pingpong-mqueue.c on its queues.
LEMMA QueueCalls ==
  ASSUME NEW q \in MessageQueues
  PROVE  /\ mqueue_send(q) \in Seq(Body(5)) /\ Len(mqueue_send(q)) = 6
         /\ mqueue_recv(q) \in Seq(Body(5)) /\ Len(mqueue_recv(q)) = 6
<1>1. sBuffer[q] \in Sems /\ sItem[q] \in Sems /\ sVaga[q] \in Sems
  BY SemNames DEF MessageQueues, sBuffer, sItem, sVaga
<1>2. 5 \in Nat /\ 0 \in 0 .. 5 /\ 3 \in 0 .. 5 /\ 4 \in 0 .. 5 /\ 5 \in 0 .. 5
  OBVIOUS
<1>3. /\ Statement("test", q, 5) \in Seq(Body(5))
      /\ Call("put", q) \in Seq(Body(5)) /\ Call("take", q) \in Seq(Body(5))
  BY <1>2, QueueStatement DEF Call
<1>4. \A x \in {sBuffer[q], sItem[q], sVaga[q]} :
        /\ Statement("sem_down", x, 4) \in Seq(Body(5)) /\ Statement("sem_down", x, 3) \in Seq(Body(5))
        /\ Call("sem_up", x) \in Seq(Body(5))
  BY <1>1, <1>2, SemStatement DEF Call
<1>5. mqueue_send(q) \in Seq(Body(5))
  BY <1>3, <1>4 DEF mqueue_send
<1>6. mqueue_recv(q) \in Seq(Body(5))
  BY <1>3, <1>4 DEF mqueue_recv
<1>7. Len(mqueue_send(q)) = 6
  BY DEF mqueue_send, Call, Statement
<1>8. Len(mqueue_recv(q)) = 6
  BY DEF mqueue_recv, Call, Statement
<1> QED
  BY <1>5, <1>6, <1>7, <1>8

\* pingpong-mqueue.c.
LEMMA QueueBodies ==
  /\ prodBody \in Seq(Body(5)) /\ Len(prodBody) = 8
  /\ consBody \in Seq(Body(5)) /\ Len(consBody) = 8
  /\ somaBody \in Seq(Body(5)) /\ Len(somaBody) >= 1
<1>1. {"queueValores", "queueRaizes"} = MessageQueues
  BY DEF MessageQueues
<1>2. Call("task_sleep", {0, 1}) \in Seq(Body(5)) /\ Len(Call("task_sleep", {0, 1})) = 1
  BY SleepStatement DEF Times, Call, Statement
<1>3. Do("exit_if_failed") \in Seq(Body(5)) /\ Len(Do("exit_if_failed")) = 1
  BY PlainStatement DEF Do, Statement
<1>4. PICK S : S = Body(5)
  OBVIOUS
<1>5. PICK sv \in Seq(S) : sv = mqueue_send("queueValores") /\ Len(sv) = 6
  BY <1>1, <1>4, QueueCalls
<1>6. PICK rr \in Seq(S) : rr = mqueue_recv("queueRaizes") /\ Len(rr) = 6
  BY <1>1, <1>4, QueueCalls
<1>7. PICK x \in Seq(S) : x = Do("exit_if_failed") /\ Len(x) = 1
  BY <1>3, <1>4
<1>8. PICK y \in Seq(S) : y = Call("task_sleep", {0, 1}) /\ Len(y) = 1
  BY <1>2, <1>4
<1>9. \A s \in Seq(S), t \in Seq(S) :
        \E c \in Seq(S) : c = s \o t /\ Len(c) = Len(s) + Len(t)
  BY ConcatProperties, Zenon
<1>10. PICK svx \in Seq(S) : svx = sv \o x /\ Len(svx) = Len(sv) + Len(x)
  BY <1>9, Zenon
<1>13. PICK rrx \in Seq(S) : rrx = rr \o x /\ Len(rrx) = Len(rr) + Len(x)
  BY <1>9, Zenon
<1>14. PICK p \in Seq(S) : p = svx \o y /\ Len(p) = Len(svx) + Len(y)
  BY <1>9, Zenon
<1>15. PICK c \in Seq(S) : c = rrx \o y /\ Len(c) = Len(rrx) + Len(y)
  BY <1>9, Zenon
<1>16. Len(p) = 8 /\ Len(c) = 8
  <2>1. Len(svx) = 7 /\ Len(rrx) = 7
    <3>1. Len(svx) = Len(sv) + Len(x) /\ Len(rrx) = Len(rr) + Len(x)
      BY <1>10, <1>13, Zenon
    <3> QED
      BY <1>5, <1>6, <1>7, <3>1
  <2>2. Len(p) = Len(svx) + Len(y) /\ Len(c) = Len(rrx) + Len(y)
    BY <1>14, <1>15, Zenon
  <2> QED
    BY <1>8, <2>1, <2>2
<1>11. prodBody = p /\ consBody = c
  BY <1>5, <1>6, <1>7, <1>8, <1>10, <1>13, <1>14, <1>15, Zenon DEF prodBody, consBody
<1>12. somaBody \in Seq(S) /\ Len(somaBody) >= 1
  <2>1. PICK rv \in Seq(S) : rv = mqueue_recv("queueValores") /\ Len(rv) = 6
    BY <1>1, <1>4, QueueCalls
  <2>2. PICK sr \in Seq(S) : sr = mqueue_send("queueRaizes") /\ Len(sr) = 6
    BY <1>1, <1>4, QueueCalls
  <2>3. PICK r3 \in Seq(S) : r3 = Repeat(3, rv) /\ Len(r3) = 3 * Len(rv)
    <3>1. Repeat(3, rv) \in Seq(S) /\ Len(Repeat(3, rv)) = 3 * Len(rv)
      BY <2>1, RepeatLength
    <3> QED
      BY <3>1, Zenon
  <2>4. PICK a \in Seq(S) : a = r3 \o sr /\ Len(a) = Len(r3) + Len(sr)
    BY <1>9, Zenon
  <2>5. PICK b \in Seq(S) : b = a \o y /\ Len(b) = Len(a) + Len(y)
    BY <1>9, Zenon
  <2>8. Len(b) = 25
    <3>1. Len(b) = Len(a) + Len(y) /\ Len(a) = Len(r3) + Len(sr)
      BY <2>4, <2>5, Zenon
    <3>2. Len(r3) = 3 * Len(rv)
      BY <2>3, Zenon
    <3> QED
      BY <1>8, <2>1, <2>2, <3>1, <3>2
  <2>6. somaBody = Repeat(Rounds, b) \o Call("task_exit", 0)
    BY <1>8, <2>1, <2>2, <2>3, <2>4, <2>5, Zenon DEF somaBody
  <2>7. somaBody \in Seq(S) /\ Len(somaBody) = Rounds * 25 + 1
    <3>1. 5 \in Nat /\ Rounds \in Nat /\ 25 \in {1, 3, 4, 6, 25}
      BY TestAssumption
    <3>2. b \in Seq(Body(5))
      BY <1>4
    <3> QED
      BY <1>4, <2>6, <2>8, <3>1, <3>2, LoopAndExit DEF IsLoopLength, IsLoopAndExit
  <2> QED
    BY <2>7, TestAssumption
<1> QED
  BY <1>4, <1>11, <1>12, <1>16

------------------------------------------------------------------------------
(* The programs of main *)

\* What main does between creating its tasks and ending.
MainOps == {"task_join", "sem_destroy", "deactivate", "report"}
Middle(n) == {r \in Legal(n, 0) : r.op \in MainOps}

\* The beginning of a main that creates n tasks, and a whole one.
MainPart(n, s) ==
  /\ s \in Seq(Legal(n, 0)) /\ Len(s) >= n
  /\ \A k \in 1 .. n : s[k].op = "task_create" /\ s[k].arg = k
  /\ \A k \in n + 1 .. Len(s) : s[k].op \in MainOps

MainProgram(n, m) ==
  /\ m \in Seq(Legal(n, 0)) /\ Len(m) >= n + 1
  /\ \A k \in 1 .. n : m[k].op = "task_create" /\ m[k].arg = k
  /\ \A k \in n + 1 .. Len(m) - 1 : m[k].op \in MainOps
  /\ m[Len(m)].op \in {"task_exit", "exit"}

\* main has joined every task before its statement at j.
JoinsBefore(n, m, j) ==
  \A u \in 1 .. n : \E k \in 1 .. j - 1 : m[k].op = "task_join" /\ m[k].arg = u

\* It begins by creating the tasks,
LEMMA MainCreates ==
  ASSUME NEW n \in Nat
  PROVE  MainPart(n, create(n)) /\ Len(create(n)) = n
<1>1. create(n) = [k \in 1 .. n |-> [op |-> "task_create", arg |-> k, skip |-> 0]]
  BY DEF create, Call, Statement
<1>2. \A k \in 1 .. n : [op |-> "task_create", arg |-> k, skip |-> 0] \in Legal(n, 0)
  BY DEF Legal, Ops, Args
<1>3. create(n) \in Seq(Legal(n, 0)) /\ Len(create(n)) = n
  BY <1>1, <1>2
<1>4. \A k \in 1 .. n : create(n)[k].op = "task_create" /\ create(n)[k].arg = k
  BY <1>1
<1> QED
  BY <1>3, <1>4 DEF MainPart

\* goes on with other statements
LEMMA MainGoesOn ==
  ASSUME NEW n \in Nat, NEW s, MainPart(n, s), NEW t \in Seq(Middle(n))
  PROVE  /\ MainPart(n, s \o t) /\ Len(s \o t) = Len(s) + Len(t)
         /\ \A k \in 1 .. Len(s) : (s \o t)[k] = s[k]
         /\ \A k \in 1 .. Len(t) : (s \o t)[Len(s) + k] = t[k]
<1>1. PICK S : S = Legal(n, 0)
  OBVIOUS
<1>2. s \in Seq(S) /\ Len(s) >= n
  BY <1>1 DEF MainPart
<1>3. t \in Seq(S) /\ \A k \in 1 .. Len(t) : t[k].op \in MainOps
  <2>1. \A k \in 1 .. Len(t) : t[k] \in Middle(n)
    OBVIOUS
  <2>2. \A k \in 1 .. Len(t) : t[k] \in S /\ t[k].op \in MainOps
    BY <1>1, <2>1 DEF Middle
  <2> QED
    BY <2>2
<1>4. PICK c : c = s \o t
  OBVIOUS
<1>5. /\ c \in Seq(S)
      /\ Len(c) = Len(s) + Len(t)
      /\ \A k \in 1 .. Len(s) + Len(t) : c[k] = IF k <= Len(s) THEN s[k] ELSE t[k - Len(s)]
  BY <1>2, <1>3, <1>4, ConcatProperties, Zenon
<1>6. PICK ls \in Nat : ls = Len(s)
  BY <1>2
<1>7. PICK lt \in Nat : lt = Len(t)
  BY <1>3
<1>8. \A k \in 1 .. ls : c[k] = s[k]
  BY <1>5, <1>6, <1>7
<1>9. \A k \in 1 .. lt : c[ls + k] = t[k]
  BY <1>5, <1>6, <1>7
<1>10. \A k \in n + 1 .. ls + lt : c[k].op \in MainOps
  <2>1. ASSUME NEW k \in n + 1 .. ls + lt PROVE c[k].op \in MainOps
    <3>1. CASE k <= ls
      BY <1>6, <1>8, <2>1, <3>1 DEF MainPart
    <3>2. CASE k > ls
      <4>1. k - ls \in 1 .. lt /\ ls + (k - ls) = k
        BY <2>1, <3>2
      <4> QED
        BY <1>3, <1>7, <1>9, <4>1
    <3> QED
      BY <2>1, <3>1, <3>2
  <2> QED
    BY <2>1
<1>11. \A k \in 1 .. n : c[k].op = "task_create" /\ c[k].arg = k
  <2>1. \A k \in 1 .. n : k \in 1 .. ls
    BY <1>2, <1>6
  <2> QED
    BY <1>8, <2>1 DEF MainPart
<1>12. Len(c) >= n
  BY <1>2, <1>5, <1>6, <1>7
<1>13. MainPart(n, c)
  BY <1>1, <1>5, <1>6, <1>7, <1>10, <1>11, <1>12 DEF MainPart
<1> QED
  BY <1>4, <1>5, <1>6, <1>7, <1>8, <1>9, <1>13, Zenon

\* and ends with task_exit or exit.
IsEnd(e) == e \in {Call("task_exit", 0), exit}

\* A main that creates its tasks and goes on is a program with its end.
LEMMA MainEnds ==
  ASSUME NEW n \in Nat, NEW s, MainPart(n, s), NEW e, IsEnd(e)
  PROVE  /\ MainProgram(n, s \o e) /\ Len(s \o e) = Len(s) + 1
         /\ \A k \in 1 .. Len(s) : (s \o e)[k] = s[k]
<1>1. PICK S : S = Legal(n, 0)
  OBVIOUS
<1>2. s \in Seq(S) /\ Len(s) >= n
  BY <1>1 DEF MainPart
<1>3. e \in Seq(S) /\ Len(e) = 1 /\ e[1].op \in {"task_exit", "exit"}
  <2>1. /\ [op |-> "task_exit", arg |-> 0, skip |-> 0] \in S
        /\ [op |-> "exit", arg |-> 0, skip |-> 0] \in S
    BY <1>1 DEF Legal, Ops, Args
  <2>2. PICK r \in S : e = <<r>> /\ r.op \in {"task_exit", "exit"}
    BY <2>1 DEF IsEnd, Call, exit, Do, Statement
  <2> QED
    BY <2>2, OneStatement
<1>4. PICK ls \in Nat : ls = Len(s)
  BY <1>2
<1>5. PICK c \in Seq(S) : c = s \o e /\ Len(c) = ls + 1 /\ c[ls + 1] = e[1] /\ \A k \in 1 .. ls : c[k] = s[k]
  <2>1. /\ s \o e \in Seq(S) /\ Len(s \o e) = ls + 1
        /\ \A k \in 1 .. ls : (s \o e)[k] = s[k]
        /\ (s \o e)[ls + 1] = e[1]
    BY <1>2, <1>3, <1>4, OneMore, ZenonT(60)
  <2> QED
    BY <2>1, Zenon
<1>6. \A k \in 1 .. n : c[k].op = "task_create" /\ c[k].arg = k
  <2>1. \A k \in 1 .. n : k \in 1 .. ls
    BY <1>2, <1>4
  <2> QED
    BY <1>5, <2>1 DEF MainPart
<1>7. \A k \in n + 1 .. ls : c[k].op \in MainOps
  BY <1>4, <1>5 DEF MainPart
<1>8. MainProgram(n, c)
  BY <1>1, <1>2, <1>3, <1>4, <1>5, <1>6, <1>7, SMTT(60) DEF MainProgram
<1> QED
  BY <1>4, <1>5, <1>8

------------------------------------------------------------------------------
(* The tests *)

\* A test: main and the tasks it creates, whose statements skip at most z after a failure.
WellFormed(q, z) ==
  /\ Len(q) \in Nat \ {0}
  /\ MainProgram(Len(q) - 1, q[1])
  /\ \A t \in 1 .. Len(q) - 1 : q[t + 1] \in Seq(Body(z)) /\ Len(q[t + 1]) >= 1

\* Lists put together, as a list of its own.
PartsOf(h, f, c) ==
  /\ c = h \o f /\ Len(c) = Len(h) + Len(f)
  /\ \A k \in 1 .. Len(h) : c[k] = h[k]
  /\ \A k \in 1 .. Len(f) : c[Len(h) + k] = f[k]
CanAppend(S) == \A h \in Seq(S), f \in Seq(S) : \E c \in Seq(S) : PartsOf(h, f, c)

\* Lists of S make a list of S.
LEMMA Parts ==
  ASSUME NEW S PROVE CanAppend(S)
<1> SUFFICES ASSUME NEW h \in Seq(S), NEW f \in Seq(S) PROVE \E c \in Seq(S) : PartsOf(h, f, c)
  BY DEF CanAppend
<1>1. PICK c : c = h \o f
  OBVIOUS
<1>2. /\ c \in Seq(S) /\ Len(c) = Len(h) + Len(f)
      /\ \A k \in 1 .. Len(h) + Len(f) : c[k] = IF k <= Len(h) THEN h[k] ELSE f[k - Len(h)]
  BY <1>1, ConcatProperties, Zenon
<1>3. PICK l \in Nat : l = Len(h)
  OBVIOUS
<1>4. PICK n \in Nat : n = Len(f)
  OBVIOUS
<1>5. \A k \in 1 .. l : c[k] = h[k]
  BY <1>2, <1>3, <1>4
<1>6. \A k \in 1 .. n : c[l + k] = f[k]
  BY <1>2, <1>3, <1>4
<1> QED
  BY <1>1, <1>2, <1>3, <1>4, <1>5, <1>6, Zenon DEF PartsOf

\* n equal tasks.
SameOf(n, b, f) == f = [k \in 1 .. n |-> b] /\ Len(f) = n /\ \A k \in 1 .. n : f[k] = b
CanRepeat(S) == \A n \in Nat, b \in S : \E f \in Seq(S) : SameOf(n, b, f)

\* The same body n times is a list.
LEMMA SameTasks ==
  ASSUME NEW S PROVE CanRepeat(S)
<1> SUFFICES ASSUME NEW n \in Nat, NEW b \in S PROVE \E f \in Seq(S) : SameOf(n, b, f)
  BY DEF CanRepeat
<1>1. PICK f : f = [k \in 1 .. n |-> b]
  OBVIOUS
<1>2. f \in Seq(S) /\ Len(f) = n /\ \A k \in 1 .. n : f[k] = b
  BY <1>1
<1> QED
  BY <1>1, <1>2, Zenon DEF SameOf

\* main alone.
LEMMA MainAlone ==
  ASSUME NEW S, NEW m \in S
  PROVE  <<m>> \in Seq(S) /\ Len(<<m>>) = 1 /\ <<m>>[1] = m
OBVIOUS

\* main and one task.
LEMMA MainAndOne ==
  ASSUME NEW S, NEW m \in S, NEW b \in S
  PROVE  <<m, b>> \in Seq(S) /\ Len(<<m, b>>) = 2 /\ <<m, b>>[1] = m /\ <<m, b>>[2] = b
OBVIOUS

\* main and n equal tasks.
IsBody(b, z) == b \in Seq(Body(z)) /\ Len(b) >= 1
OneGroup(q, m, n, b) == q = <<m>> \o [k \in 1 .. n |-> b]
OneGroupTest(q, z, m, n, b) ==
  /\ WellFormed(q, z) /\ Len(q) = n + 1 /\ q[1] = m
  /\ \A t \in 1 .. n : q[t + 1] = b

\* Such a test is well-formed.
LEMMA EqualTasks ==
  ASSUME NEW n \in Nat, NEW z \in Nat, NEW m, MainProgram(n, m), NEW b, IsBody(b, z),
         NEW q, OneGroup(q, m, n, b)
  PROVE  OneGroupTest(q, z, m, n, b)
<1> USE DEF IsBody, OneGroup, OneGroupTest
<1>1. PICK S : m \in S /\ b \in S
  <2>1. m \in {m, b} /\ b \in {m, b}
    OBVIOUS
  <2> QED
    BY <2>1
<1>2. PICK h \in Seq(S) : h = <<m>> /\ Len(h) = 1 /\ h[1] = m
  BY <1>1, MainAlone, Zenon
<1>3. PICK f \in Seq(S) : SameOf(n, b, f)
  BY <1>1, SameTasks, Zenon DEF CanRepeat
<1>4. PICK c \in Seq(S) : PartsOf(h, f, c)
  BY Parts, Zenon DEF CanAppend
<1>8. c = q
  BY <1>2, <1>3, <1>4, Zenon DEF PartsOf, SameOf
<1>9. /\ Len(c) = Len(h) + Len(f)
      /\ \A k \in 1 .. Len(h) : c[k] = h[k]
      /\ \A k \in 1 .. Len(f) : c[Len(h) + k] = f[k]
      /\ Len(h) = 1 /\ h[1] = m /\ Len(f) = n /\ \A k \in 1 .. n : f[k] = b
  BY <1>2, <1>3, <1>4, Zenon DEF PartsOf, SameOf
<1>10. Len(c) = n + 1 /\ Len(c) - 1 = n
  BY <1>9
<1>11. c[1] = m
  BY <1>9
<1>12. \A t \in 1 .. n : c[t + 1] = b
  <2>1. ASSUME NEW t \in 1 .. n PROVE c[t + 1] = b
    <3>1. t \in 1 .. Len(f) /\ Len(h) + t = t + 1
      BY <1>9
    <3> QED
      BY <1>9, <3>1, Zenon
  <2> QED
    BY <2>1
<1>5. Len(q) = n + 1 /\ Len(q) - 1 = n
  BY <1>8, <1>10, Zenon
<1>6. q[1] = m
  BY <1>8, <1>11, Zenon
<1>7. \A t \in 1 .. n : q[t + 1] = b
  BY <1>8, <1>12, Zenon
<1> QED
  BY <1>5, <1>6, <1>7 DEF WellFormed

\* main and two groups of tasks.
GroupsOf(q, m, n1, b1, n2, b2) == q = <<m>> \o [k \in 1 .. n1 |-> b1] \o [k \in 1 .. n2 |-> b2]
GroupsTest(q, z, m, n1, b1, n2, b2) ==
  /\ WellFormed(q, z) /\ Len(q) = n1 + n2 + 1 /\ q[1] = m
  /\ \A t \in 1 .. n1 : q[t + 1] = b1
  /\ \A t \in n1 + 1 .. n1 + n2 : q[t + 1] = b2

\* Such a test is well-formed.
LEMMA TwoGroups ==
  ASSUME NEW n1 \in Nat, NEW n2 \in Nat, NEW z \in Nat, NEW m, MainProgram(n1 + n2, m),
         NEW b1, IsBody(b1, z), NEW b2, IsBody(b2, z), NEW q, GroupsOf(q, m, n1, b1, n2, b2)
  PROVE  GroupsTest(q, z, m, n1, b1, n2, b2)
<1> USE DEF IsBody, GroupsOf, GroupsTest
<1>1. PICK S : m \in S /\ b1 \in S /\ b2 \in S
  <2>1. m \in {m, b1, b2} /\ b1 \in {m, b1, b2} /\ b2 \in {m, b1, b2}
    OBVIOUS
  <2> QED
    BY <2>1
<1>2. PICK h \in Seq(S) : h = <<m>> /\ Len(h) = 1 /\ h[1] = m
  BY <1>1, MainAlone, Zenon
<1>3. PICK f \in Seq(S) : SameOf(n1, b1, f)
  BY <1>1, SameTasks, Zenon DEF CanRepeat
<1>4. PICK g \in Seq(S) : SameOf(n2, b2, g)
  BY <1>1, SameTasks, Zenon DEF CanRepeat
<1>5. PICK c \in Seq(S) : PartsOf(h, f, c)
  BY Parts, Zenon DEF CanAppend
<1>6. PICK d \in Seq(S) : PartsOf(c, g, d)
  BY Parts, Zenon DEF CanAppend
<1>7. d = q
  BY <1>2, <1>3, <1>4, <1>5, <1>6, Zenon DEF PartsOf, SameOf
<1>8. /\ Len(h) = 1 /\ h[1] = m
      /\ Len(f) = n1 /\ \A k \in 1 .. n1 : f[k] = b1
      /\ Len(g) = n2 /\ \A k \in 1 .. n2 : g[k] = b2
  BY <1>2, <1>3, <1>4, Zenon DEF PartsOf, SameOf
<1>9. /\ Len(c) = Len(h) + Len(f)
      /\ \A k \in 1 .. Len(h) : c[k] = h[k]
      /\ \A k \in 1 .. Len(f) : c[Len(h) + k] = f[k]
  BY <1>5, Zenon DEF PartsOf
<1>10. /\ Len(d) = Len(c) + Len(g)
       /\ \A k \in 1 .. Len(c) : d[k] = c[k]
       /\ \A k \in 1 .. Len(g) : d[Len(c) + k] = g[k]
  BY <1>6, Zenon DEF PartsOf
<1>11. Len(c) = n1 + 1
  BY <1>8, <1>9
<1>12. Len(d) = n1 + n2 + 1 /\ Len(d) - 1 = n1 + n2
  BY <1>8, <1>10, <1>11
<1>13. d[1] = m
  BY <1>8, <1>9, <1>10, <1>11
<1>14. \A t \in 1 .. n1 : d[t + 1] = b1
  <2>1. ASSUME NEW t \in 1 .. n1 PROVE d[t + 1] = b1
    <3>1. t \in 1 .. Len(f) /\ Len(h) + t = t + 1 /\ t + 1 \in 1 .. Len(c)
      BY <1>8, <1>11
    <3> QED
      BY <1>8, <1>9, <1>10, <3>1, Zenon
  <2> QED
    BY <2>1
<1>15. \A t \in n1 + 1 .. n1 + n2 : d[t + 1] = b2
  <2>1. ASSUME NEW t \in n1 + 1 .. n1 + n2 PROVE d[t + 1] = b2
    <3>1. PICK u : u = t - n1
      OBVIOUS
    <3>2. u \in 1 .. Len(g) /\ Len(c) + u = t + 1 /\ u \in 1 .. n2
      BY <1>8, <1>11, <3>1
    <3> QED
      BY <1>8, <1>10, <3>2, Zenon
  <2> QED
    BY <2>1
<1>16. \A t \in 1 .. n1 + n2 : d[t + 1] \in {b1, b2}
  <2>1. ASSUME NEW t \in 1 .. n1 + n2 PROVE d[t + 1] \in {b1, b2}
    <3>1. t \in 1 .. n1 \/ t \in n1 + 1 .. n1 + n2
      OBVIOUS
    <3> QED
      BY <1>14, <1>15, <3>1, Zenon
  <2> QED
    BY <2>1
<1>17. WellFormed(d, z)
  <2>1. Len(d) \in Nat \ {0}
    BY <1>12
  <2>2. MainProgram(Len(d) - 1, d[1])
    BY <1>12, <1>13, Zenon
  <2>3. \A t \in 1 .. Len(d) - 1 : d[t + 1] \in Seq(Body(z)) /\ Len(d[t + 1]) >= 1
    BY <1>12, <1>16, Zenon
  <2> QED
    BY <2>1, <2>2, <2>3, Zenon DEF WellFormed
<1> QED
  BY <1>7, <1>12, <1>13, <1>14, <1>15, <1>17, Zenon

\* main, one task, and two groups of tasks.
GroupsAndOne(q, m, b0, n1, b1, n2, b2) ==
  q = <<m, b0>> \o [k \in 1 .. n1 |-> b1] \o [k \in 1 .. n2 |-> b2]
GroupsAndOneTest(q, z, m, b0, n1, b1, n2, b2) ==
  /\ WellFormed(q, z) /\ Len(q) = n1 + n2 + 2 /\ q[1] = m /\ q[2] = b0
  /\ \A t \in 2 .. n1 + 1 : q[t + 1] = b1
  /\ \A t \in n1 + 2 .. n1 + n2 + 1 : q[t + 1] = b2

\* Such a test is well-formed.
LEMMA ThreeGroups ==
  ASSUME NEW n1 \in Nat, NEW n2 \in Nat, NEW z \in Nat, NEW m, MainProgram(1 + n1 + n2, m),
         NEW b0, IsBody(b0, z), NEW b1, IsBody(b1, z), NEW b2, IsBody(b2, z),
         NEW q, GroupsAndOne(q, m, b0, n1, b1, n2, b2)
  PROVE  GroupsAndOneTest(q, z, m, b0, n1, b1, n2, b2)
<1> USE DEF IsBody, GroupsAndOne, GroupsAndOneTest
<1>1. PICK S : m \in S /\ b0 \in S /\ b1 \in S /\ b2 \in S
  <2>1. \A x \in {m, b0, b1, b2} : x \in {m, b0, b1, b2}
    OBVIOUS
  <2> QED
    BY <2>1
<1>2. PICK h \in Seq(S) : h = <<m, b0>> /\ Len(h) = 2 /\ h[1] = m /\ h[2] = b0
  <2>1. <<m, b0>> \in Seq(S) /\ Len(<<m, b0>>) = 2 /\ <<m, b0>>[1] = m /\ <<m, b0>>[2] = b0
    BY <1>1, MainAndOne
  <2> QED
    BY <2>1, Zenon
<1>3. PICK f \in Seq(S) : SameOf(n1, b1, f)
  BY <1>1, SameTasks, Zenon DEF CanRepeat
<1>4. PICK g \in Seq(S) : SameOf(n2, b2, g)
  BY <1>1, SameTasks, Zenon DEF CanRepeat
<1>5. PICK c \in Seq(S) : PartsOf(h, f, c)
  BY Parts, Zenon DEF CanAppend
<1>6. PICK d \in Seq(S) : PartsOf(c, g, d)
  BY Parts, Zenon DEF CanAppend
<1>7. d = q
  BY <1>2, <1>3, <1>4, <1>5, <1>6, Zenon DEF PartsOf, SameOf
<1>8. /\ Len(h) = 2 /\ h[1] = m /\ h[2] = b0
      /\ Len(f) = n1 /\ \A k \in 1 .. n1 : f[k] = b1
      /\ Len(g) = n2 /\ \A k \in 1 .. n2 : g[k] = b2
  BY <1>2, <1>3, <1>4, Zenon DEF PartsOf, SameOf
<1>9. /\ Len(c) = Len(h) + Len(f)
      /\ \A k \in 1 .. Len(h) : c[k] = h[k]
      /\ \A k \in 1 .. Len(f) : c[Len(h) + k] = f[k]
  BY <1>5, Zenon DEF PartsOf
<1>10. /\ Len(d) = Len(c) + Len(g)
       /\ \A k \in 1 .. Len(c) : d[k] = c[k]
       /\ \A k \in 1 .. Len(g) : d[Len(c) + k] = g[k]
  BY <1>6, Zenon DEF PartsOf
<1>11. Len(c) = n1 + 2
  BY <1>8, <1>9
<1>12. Len(d) = n1 + n2 + 2 /\ Len(d) - 1 = 1 + n1 + n2
  BY <1>8, <1>10, <1>11
<1>13. d[1] = m /\ d[2] = b0
  BY <1>8, <1>9, <1>10, <1>11
<1>14. \A t \in 2 .. n1 + 1 : d[t + 1] = b1
  <2>1. ASSUME NEW t \in 2 .. n1 + 1 PROVE d[t + 1] = b1
    <3>1. PICK u : u = t - 1
      OBVIOUS
    <3>2. u \in 1 .. Len(f) /\ Len(h) + u = t + 1 /\ t + 1 \in 1 .. Len(c) /\ u \in 1 .. n1
      BY <1>8, <1>11, <3>1
    <3> QED
      BY <1>8, <1>9, <1>10, <3>2, Zenon
  <2> QED
    BY <2>1
<1>15. \A t \in n1 + 2 .. n1 + n2 + 1 : d[t + 1] = b2
  <2>1. ASSUME NEW t \in n1 + 2 .. n1 + n2 + 1 PROVE d[t + 1] = b2
    <3>1. PICK u : u = t - (n1 + 1)
      OBVIOUS
    <3>2. u \in 1 .. Len(g) /\ Len(c) + u = t + 1 /\ u \in 1 .. n2
      BY <1>8, <1>11, <3>1
    <3> QED
      BY <1>8, <1>10, <3>2, Zenon
  <2> QED
    BY <2>1
<1>16. \A t \in 1 .. 1 + n1 + n2 : d[t + 1] \in {b0, b1, b2}
  <2>1. ASSUME NEW t \in 1 .. 1 + n1 + n2 PROVE d[t + 1] \in {b0, b1, b2}
    <3>1. t + 1 = 2 \/ t \in 2 .. n1 + 1 \/ t \in n1 + 2 .. n1 + n2 + 1
      OBVIOUS
    <3> QED
      BY <1>13, <1>14, <1>15, <3>1, Zenon
  <2> QED
    BY <2>1
<1>17. WellFormed(d, z)
  <2>1. Len(d) \in Nat \ {0}
    BY <1>12
  <2>2. MainProgram(Len(d) - 1, d[1])
    BY <1>12, <1>13, Zenon
  <2>3. \A t \in 1 .. Len(d) - 1 : d[t + 1] \in Seq(Body(z)) /\ Len(d[t + 1]) >= 1
    BY <1>12, <1>16, Zenon
  <2> QED
    BY <2>1, <2>2, <2>3, Zenon DEF WellFormed
<1> QED
  BY <1>7, <1>12, <1>13, <1>14, <1>15, <1>17, Zenon

\* The loops of main that join its tasks.
LEMMA JoinLoops ==
  ASSUME NEW n \in Nat
  PROVE  /\ join(n) \in Seq(Middle(n)) /\ Len(join(n)) = n
         /\ \A k \in 1 .. n : join(n)[k].op = "task_join" /\ join(n)[k].arg = k
         /\ join_reversed(n) \in Seq(Middle(n)) /\ Len(join_reversed(n)) = n
         /\ \A k \in 1 .. n : join_reversed(n)[k].op = "task_join" /\ join_reversed(n)[k].arg = n + 1 - k
<1>1. join(n) = [k \in 1 .. n |-> [op |-> "task_join", arg |-> k, skip |-> 0]]
  BY DEF join, Call, Statement
<1>2. join_reversed(n) = [k \in 1 .. n |-> [op |-> "task_join", arg |-> n + 1 - k, skip |-> 0]]
  BY DEF join_reversed, Call, Statement
<1>3. \A k \in 1 .. n : [op |-> "task_join", arg |-> k, skip |-> 0] \in Middle(n)
  BY DEF Middle, MainOps, Legal, Ops, Args
<1>4. \A k \in 1 .. n : [op |-> "task_join", arg |-> n + 1 - k, skip |-> 0] \in Middle(n)
  <2>1. \A k \in 1 .. n : n + 1 - k \in 1 .. n
    OBVIOUS
  <2> QED
    BY <1>3, <2>1
<1>5. join(n) \in Seq(Middle(n)) /\ Len(join(n)) = n
  BY <1>1, <1>3
<1>6. join_reversed(n) \in Seq(Middle(n)) /\ Len(join_reversed(n)) = n
  <2>1. PICK S : S = Middle(n)
    OBVIOUS
  <2>2. join_reversed(n) \in [1 .. n -> S]
    BY <1>2, <1>4, <2>1, Zenon
  <2>3. PICK g \in [1 .. n -> S] : g = join_reversed(n)
    BY <2>2
  <2>4. g \in Seq(S) /\ Len(g) = n
    OBVIOUS
  <2> QED
    BY <2>1, <2>3, <2>4, Zenon
<1>7. \A k \in 1 .. n : join(n)[k].op = "task_join" /\ join(n)[k].arg = k
  BY <1>1
<1>8. \A k \in 1 .. n : join_reversed(n)[k].op = "task_join" /\ join_reversed(n)[k].arg = n + 1 - k
  BY <1>2
<1> QED
  BY <1>5, <1>6, <1>7, <1>8

\* The single calls of main.
LEMMA MiddleCalls ==
  ASSUME NEW n \in Nat
  PROVE  /\ \A u \in 1 .. n : Call("task_join", u) \in Seq(Middle(n))
         /\ \A x \in Sems : Call("sem_destroy", x) \in Seq(Middle(n))
         /\ \A q \in MessageQueues : Call("deactivate", q) \in Seq(Middle(n))
         /\ Do("report") \in Seq(Middle(n))
<1>1. \A u \in 1 .. n : [op |-> "task_join", arg |-> u, skip |-> 0] \in Middle(n)
  BY DEF Middle, MainOps, Legal, Ops, Args
<1>2. \A x \in Sems : [op |-> "sem_destroy", arg |-> x, skip |-> 0] \in Middle(n)
  BY DEF Middle, MainOps, Legal, Ops, Args
<1>3. \A q \in MessageQueues : [op |-> "deactivate", arg |-> q, skip |-> 0] \in Middle(n)
  BY DEF Middle, MainOps, Legal, Ops, Args
<1>4. [op |-> "report", arg |-> 0, skip |-> 0] \in Middle(n)
  BY DEF Middle, MainOps, Legal, Ops, Args
<1> QED
  BY <1>1, <1>2, <1>3, <1>4, OneStatement DEF Call, Do, Statement

\* main of the tests that create and join n tasks and end.
LEMMA ForkJoin ==
  ASSUME NEW n \in Nat, NEW j \in {join(n), join_reversed(n)}, NEW e, IsEnd(e),
         NEW m, m = create(n) \o j \o e
  PROVE  /\ MainProgram(n, m) /\ JoinsBefore(n, m, Len(m))
<1>1. MainPart(n, create(n)) /\ Len(create(n)) = n
  BY MainCreates
<1>2. j \in Seq(Middle(n)) /\ Len(j) = n
  BY JoinLoops
<1>3. \A u \in 1 .. n : \E k \in 1 .. n : j[k].op = "task_join" /\ j[k].arg = u
  <2>1. CASE j = join(n)
    BY <2>1, JoinLoops
  <2>2. CASE j = join_reversed(n)
    <3>1. ASSUME NEW u \in 1 .. n
          PROVE  \E k \in 1 .. n : j[k].op = "task_join" /\ j[k].arg = u
      <4>1. PICK k \in 1 .. n : k = n + 1 - u /\ n + 1 - k = u
        OBVIOUS
      <4>2. \A l \in 1 .. n : j[l].op = "task_join" /\ j[l].arg = n + 1 - l
        BY <2>2, JoinLoops, Zenon
      <4> QED
        BY <4>1, <4>2, Zenon
    <3> QED
      BY <3>1
  <2> QED
    BY <2>1, <2>2
<1>4. PICK c : c = create(n)
  OBVIOUS
<1>5. PICK d : d = c \o j
  OBVIOUS
<1>6. MainPart(n, c) /\ Len(c) = n
  BY <1>1, <1>4, Zenon
<1>7. /\ MainPart(n, d) /\ Len(d) = Len(c) + Len(j)
      /\ \A k \in 1 .. Len(j) : d[Len(c) + k] = j[k]
  BY <1>2, <1>5, <1>6, MainGoesOn, Zenon
<1>8. m = d \o e
  BY <1>4, <1>5, Zenon
<1>9. MainProgram(n, m) /\ Len(m) = Len(d) + 1 /\ \A k \in 1 .. Len(d) : m[k] = d[k]
  <2>1. MainProgram(n, d \o e) /\ Len(d \o e) = Len(d) + 1 /\ \A k \in 1 .. Len(d) : (d \o e)[k] = d[k]
    BY <1>7, MainEnds, ZenonT(60)
  <2> QED
    BY <1>8, <2>1, Zenon
<1>10. ASSUME NEW u \in 1 .. n
       PROVE  \E k \in 1 .. Len(m) - 1 : m[k].op = "task_join" /\ m[k].arg = u
  <2>1. PICK k \in 1 .. n : j[k].op = "task_join" /\ j[k].arg = u
    BY <1>3
  <2>2. PICK l : l = Len(c) + k
    OBVIOUS
  <2>3. k \in 1 .. Len(j) /\ l \in 1 .. Len(d) /\ l \in 1 .. Len(m) - 1
    <3>1. Len(d) = n + n /\ Len(m) = n + n + 1
      BY <1>2, <1>6, <1>7, <1>9
    <3> QED
      BY <1>2, <1>6, <2>2, <3>1
  <2>4. m[l] = j[k]
    BY <1>7, <1>9, <2>2, <2>3, Zenon
  <2> QED
    BY <2>1, <2>3, <2>4, Zenon
<1> QED
  BY <1>9, <1>10 DEF JoinsBefore

\* main of pingpong-racecond.c: it destroys s and reports once it has joined every task.
LEMMA RacecondMain ==
  ASSUME NEW n \in Nat, NEW m,
         m = create(n) \o join(n) \o Call("sem_destroy", "s") \o Do("report") \o Call("task_exit", 0)
  PROVE  /\ MainProgram(n, m)
         /\ \A i_ \in 1 .. Len(m) :
              m[i_].op \in {"sem_destroy", "report", "task_exit"} => JoinsBefore(n, m, i_)
         /\ JoinsBefore(n, m, Len(m))
<1>1. PICK c : c = create(n)
  OBVIOUS
<1>2. MainPart(n, c) /\ Len(c) = n
  BY <1>1, MainCreates, Zenon
<1>3. PICK j : j = join(n)
  OBVIOUS
<1>4. /\ j \in Seq(Middle(n)) /\ Len(j) = n
      /\ \A k \in 1 .. n : j[k].op = "task_join" /\ j[k].arg = k
  BY <1>3, JoinLoops, Zenon
<1>5. PICK d : d = c \o j
  OBVIOUS
<1>6. /\ MainPart(n, d) /\ Len(d) = Len(c) + Len(j)
      /\ \A k \in 1 .. Len(j) : d[Len(c) + k] = j[k]
  BY <1>2, <1>4, <1>5, MainGoesOn, ZenonT(60)
<1>7. PICK x : x = Call("sem_destroy", "s") /\ x \in Seq(Middle(n)) /\ Len(x) = 1
  <2>1. "s" \in Sems
    BY SemNames
  <2>2. Call("sem_destroy", "s") \in Seq(Middle(n))
    BY <2>1, MiddleCalls
  <2>3. Len(Call("sem_destroy", "s")) = 1
    BY DEF Call, Statement
  <2> QED
    BY <2>2, <2>3
<1>8. PICK f : f = d \o x
  OBVIOUS
<1>9. MainPart(n, f) /\ Len(f) = Len(d) + Len(x) /\ \A k \in 1 .. Len(d) : f[k] = d[k]
  BY <1>6, <1>7, <1>8, MainGoesOn, ZenonT(60)
<1>10. PICK y : y = Do("report") /\ y \in Seq(Middle(n)) /\ Len(y) = 1
  <2>1. Do("report") \in Seq(Middle(n))
    BY MiddleCalls
  <2>2. Len(Do("report")) = 1
    BY DEF Do, Statement
  <2> QED
    BY <2>1, <2>2
<1>11. PICK g : g = f \o y
  OBVIOUS
<1>12. MainPart(n, g) /\ Len(g) = Len(f) + Len(y) /\ \A k \in 1 .. Len(f) : g[k] = f[k]
  BY <1>9, <1>10, <1>11, MainGoesOn, ZenonT(60)
<1>13. MainProgram(n, m) /\ Len(m) = Len(g) + 1 /\ \A k \in 1 .. Len(g) : m[k] = g[k]
  <2>1. PICK e : e = Call("task_exit", 0)
    OBVIOUS
  <2>2. IsEnd(e)
    BY <2>1 DEF IsEnd
  <2>3. MainProgram(n, g \o e) /\ Len(g \o e) = Len(g) + 1 /\ \A k \in 1 .. Len(g) : (g \o e)[k] = g[k]
    BY <1>12, <2>2, MainEnds, Zenon
  <2>4. m = g \o e
    BY <1>1, <1>3, <1>5, <1>7, <1>8, <1>10, <1>11, <2>1, Zenon
  <2> QED
    BY <2>3, <2>4, Zenon
<1>14. Len(d) = n + n /\ Len(f) = n + n + 1 /\ Len(g) = n + n + 2 /\ Len(m) = n + n + 3
  BY <1>2, <1>4, <1>6, <1>7, <1>9, <1>10, <1>12, <1>13
<1>15. \A k \in 1 .. n + n : m[k] = d[k]
  <2>1. ASSUME NEW k \in 1 .. n + n PROVE m[k] = d[k]
    <3>1. k \in 1 .. Len(d) /\ k \in 1 .. Len(f) /\ k \in 1 .. Len(g)
      BY <1>14
    <3> QED
      BY <1>9, <1>12, <1>13, <3>1, Zenon
  <2> QED
    BY <2>1
<1>16. \A k \in 1 .. n : m[n + k].op = "task_join" /\ m[n + k].arg = k
  <2>1. ASSUME NEW k \in 1 .. n PROVE m[n + k].op = "task_join" /\ m[n + k].arg = k
    <3>1. k \in 1 .. Len(j) /\ Len(c) + k = n + k /\ n + k \in 1 .. n + n
      BY <1>2, <1>4
    <3>2. m[n + k] = j[k]
      BY <1>6, <1>15, <3>1, Zenon
    <3> QED
      BY <1>4, <3>2, Zenon
  <2> QED
    BY <2>1
<1>17. ASSUME NEW i_ \in n + n + 1 .. Len(m) PROVE JoinsBefore(n, m, i_)
  <2>1. \A u \in 1 .. n : n + u \in 1 .. i_ - 1
    BY <1>14
  <2> QED
    BY <1>16, <2>1 DEF JoinsBefore
<1>18. ASSUME NEW i_ \in 1 .. Len(m), m[i_].op \in {"sem_destroy", "report", "task_exit"}
       PROVE  i_ \in n + n + 1 .. Len(m)
  <2>1. CASE i_ \in 1 .. n
    BY <1>13, <1>18, <2>1 DEF MainProgram
  <2>2. CASE i_ \in n + 1 .. n + n
    <3>1. PICK k \in 1 .. n : i_ = n + k
      <4>1. i_ - n \in 1 .. n /\ i_ = n + (i_ - n)
        BY <2>2
      <4> QED
        BY <4>1
    <3>2. m[i_].op = "task_join"
      BY <1>16, <3>1, Zenon
    <3> QED
      BY <1>18, <3>2
  <2> QED
    BY <1>14, <2>1, <2>2
<1>19. Len(m) \in n + n + 1 .. Len(m)
  BY <1>14
<1> QED
  BY <1>13, <1>17, <1>18, <1>19, Zenon

\* A list of eleven.
IsEleven(m, c1, c2, c3, c4, j1, d1, d2, j2, j3, j4, e) ==
  /\ m = <<c1, c2, c3, c4>> \o <<j1>> \o <<d1>> \o <<d2>> \o <<j2>> \o <<j3>> \o <<j4>> \o <<e>>
  /\ Len(m) = 11
  /\ m[1] = c1 /\ m[2] = c2 /\ m[3] = c3 /\ m[4] = c4 /\ m[5] = j1 /\ m[6] = d1 /\ m[7] = d2
  /\ m[8] = j2 /\ m[9] = j3 /\ m[10] = j4 /\ m[11] = e

\* Eleven statements as a program.
LEMMA Eleven ==
  ASSUME NEW S, NEW c1 \in S, NEW c2 \in S, NEW c3 \in S, NEW c4 \in S, NEW j1 \in S, NEW d1 \in S,
         NEW d2 \in S, NEW j2 \in S, NEW j3 \in S, NEW j4 \in S, NEW e \in S
  PROVE  \E m \in Seq(S) : IsEleven(m, c1, c2, c3, c4, j1, d1, d2, j2, j3, j4, e)
<1> DEFINE m == <<c1, c2, c3, c4>> \o <<j1>> \o <<d1>> \o <<d2>> \o <<j2>> \o <<j3>> \o <<j4>> \o <<e>>
<1>1. m \in Seq(S)
  OBVIOUS
<1>2. Len(m) = 11
  OBVIOUS
<1>3. m[1] = c1 /\ m[2] = c2 /\ m[3] = c3 /\ m[4] = c4 /\ m[5] = j1 /\ m[6] = d1
  OBVIOUS
<1>4. m[7] = d2 /\ m[8] = j2 /\ m[9] = j3 /\ m[10] = j4 /\ m[11] = e
  OBVIOUS
<1> QED
  BY <1>1, <1>2, <1>3, <1>4, Zenon DEF IsEleven

\* main of pingpong-semaphore.c, whose statements are few: it destroys s1 and s2 after it has
\* joined the first task.
SemaphoreStatements(m) ==
  /\ Len(m) = 11
  /\ m[1].op = "task_create" /\ m[1].arg = 1 /\ m[2].op = "task_create" /\ m[2].arg = 2
  /\ m[3].op = "task_create" /\ m[3].arg = 3 /\ m[4].op = "task_create" /\ m[4].arg = 4
  /\ m[5].op = "task_join" /\ m[5].arg = 1 /\ m[6].op = "sem_destroy" /\ m[6].arg = "s1"
  /\ m[7].op = "sem_destroy" /\ m[7].arg = "s2" /\ m[8].op = "task_join" /\ m[8].arg = 2
  /\ m[9].op = "task_join" /\ m[9].arg = 3 /\ m[10].op = "task_join" /\ m[10].arg = 4
  /\ m[11].op = "task_exit"

\* Such a main is a program that joins every task before it ends.
LEMMA SemaphoreFacts ==
  ASSUME NEW m, m \in Seq(Legal(4, 0)), SemaphoreStatements(m)
  PROVE  /\ MainProgram(4, m) /\ JoinsBefore(4, m, Len(m))
         /\ \A k \in 1 .. 11 : m[k].op = "sem_destroy" => k \in {6, 7}
<1>1. \A k \in 1 .. 11 : k \in {1, 2, 3, 4, 5, 6, 7, 8, 9, 10, 11}
  OBVIOUS
<1>2. \A k \in 1 .. 11 : m[k].op = "sem_destroy" => k \in {6, 7}
  BY <1>1 DEF SemaphoreStatements
<1>3. MainProgram(4, m)
  <2>1. \A k \in 1 .. 4 : m[k].op = "task_create" /\ m[k].arg = k
    BY DEF SemaphoreStatements
  <2>2. \A k \in 5 .. 10 : m[k].op \in MainOps
    BY DEF SemaphoreStatements, MainOps
  <2> QED
    BY <2>1, <2>2 DEF SemaphoreStatements, MainProgram
<1>4. JoinsBefore(4, m, 11)
  <2>1. 5 \in 1 .. 11 - 1 /\ 8 \in 1 .. 11 - 1 /\ 9 \in 1 .. 11 - 1 /\ 10 \in 1 .. 11 - 1
    OBVIOUS
  <2>2. \A u \in 1 .. 4 : u = 1 \/ u = 2 \/ u = 3 \/ u = 4
    OBVIOUS
  <2> QED
    BY <2>1, <2>2, Zenon DEF JoinsBefore, SemaphoreStatements
<1> QED
  BY <1>2, <1>3, <1>4 DEF SemaphoreStatements

\* The statements of the model are those.
LEMMA SemaphoreMain ==
  \E m \in Seq(Legal(4, 0)) :
    /\ m = create(4) \o Call("task_join", 1) \o Call("sem_destroy", "s1")
             \o Call("sem_destroy", "s2") \o Call("task_join", 2) \o Call("task_join", 3)
             \o Call("task_join", 4) \o Call("task_exit", 0)
    /\ SemaphoreStatements(m)
<1>0. PICK S : S = Legal(4, 0)
  OBVIOUS
<1>1. \A k \in 1 .. 4 : [op |-> "task_create", arg |-> k, skip |-> 0] \in S
  BY <1>0 DEF Legal, Ops, Args
<1>2. \A k \in 1 .. 4 : [op |-> "task_join", arg |-> k, skip |-> 0] \in S
  BY <1>0 DEF Legal, Ops, Args
<1>3. \A x \in {"s1", "s2"} : [op |-> "sem_destroy", arg |-> x, skip |-> 0] \in S
  BY <1>0, SemNames DEF Legal, Ops, Args
<1>4. PICK e \in S : e = [op |-> "task_exit", arg |-> 0, skip |-> 0]
  <2>1. [op |-> "task_exit", arg |-> 0, skip |-> 0] \in S
    BY <1>0 DEF Legal, Ops, Args
  <2> QED
    BY <2>1
<1>5. PICK c1 \in S : c1 = [op |-> "task_create", arg |-> 1, skip |-> 0]
  BY <1>1
<1>6. PICK c2 \in S : c2 = [op |-> "task_create", arg |-> 2, skip |-> 0]
  BY <1>1
<1>7. PICK c3 \in S : c3 = [op |-> "task_create", arg |-> 3, skip |-> 0]
  BY <1>1
<1>8. PICK c4 \in S : c4 = [op |-> "task_create", arg |-> 4, skip |-> 0]
  BY <1>1
<1>9. PICK j1 \in S : j1 = [op |-> "task_join", arg |-> 1, skip |-> 0]
  BY <1>2
<1>10. PICK j2 \in S : j2 = [op |-> "task_join", arg |-> 2, skip |-> 0]
  BY <1>2
<1>11. PICK j3 \in S : j3 = [op |-> "task_join", arg |-> 3, skip |-> 0]
  BY <1>2
<1>12. PICK j4 \in S : j4 = [op |-> "task_join", arg |-> 4, skip |-> 0]
  BY <1>2
<1>13. PICK d1 \in S : d1 = [op |-> "sem_destroy", arg |-> "s1", skip |-> 0]
  BY <1>3
<1>14. PICK d2 \in S : d2 = [op |-> "sem_destroy", arg |-> "s2", skip |-> 0]
  BY <1>3
<1>15. create(4) = <<c1, c2, c3, c4>>
  <2>1. create(4) = [k \in 1 .. 4 |-> [op |-> "task_create", arg |-> k, skip |-> 0]]
    BY DEF create, Call, Statement
  <2> QED
    BY <2>1, <1>5, <1>6, <1>7, <1>8
<1>16. PICK m \in Seq(S) : IsEleven(m, c1, c2, c3, c4, j1, d1, d2, j2, j3, j4, e)
  BY Eleven, Zenon
<1>17. m = create(4) \o Call("task_join", 1) \o Call("sem_destroy", "s1")
             \o Call("sem_destroy", "s2") \o Call("task_join", 2) \o Call("task_join", 3)
             \o Call("task_join", 4) \o Call("task_exit", 0)
  BY <1>4, <1>9, <1>10, <1>11, <1>12, <1>13, <1>14, <1>15, <1>16, Zenon DEF IsEleven, Call, Statement
<1>18. /\ c1.op = "task_create" /\ c1.arg = 1 /\ c2.op = "task_create" /\ c2.arg = 2
       /\ c3.op = "task_create" /\ c3.arg = 3 /\ c4.op = "task_create" /\ c4.arg = 4
       /\ j1.op = "task_join" /\ j1.arg = 1 /\ d1.op = "sem_destroy" /\ d1.arg = "s1"
       /\ d2.op = "sem_destroy" /\ d2.arg = "s2" /\ j2.op = "task_join" /\ j2.arg = 2
       /\ j3.op = "task_join" /\ j3.arg = 3 /\ j4.op = "task_join" /\ j4.arg = 4
       /\ e.op = "task_exit"
  BY <1>4, <1>5, <1>6, <1>7, <1>8, <1>9, <1>10, <1>11, <1>12, <1>13, <1>14
<1>19. SemaphoreStatements(m)
  BY <1>16, <1>18, Zenon DEF IsEleven, SemaphoreStatements
<1> QED
  BY <1>0, <1>17, <1>19, Zenon

\* main of pingpong-mqueue.c.
LEMMA QueueMain ==
  ASSUME NEW n \in Nat, n >= 1, NEW m,
         m = create(n) \o Call("task_join", 1) \o mqueue_destroy("queueValores")
               \o mqueue_destroy("queueRaizes") \o Call("task_exit", 0)
  PROVE  MainProgram(n, m)
<1>1. \A q \in MessageQueues : mqueue_destroy(q) \in Seq(Middle(n))
  <2>1. ASSUME NEW q \in MessageQueues PROVE mqueue_destroy(q) \in Seq(Middle(n))
    <3>1. PICK S : S = Middle(n)
      OBVIOUS
    <3>2. sBuffer[q] \in Sems /\ sItem[q] \in Sems /\ sVaga[q] \in Sems
      BY SemNames DEF MessageQueues, sBuffer, sItem, sVaga
    <3>3. PICK a \in Seq(S) : a = Call("deactivate", q)
      BY <3>1, MiddleCalls
    <3>4. PICK b \in Seq(S) : b = Call("sem_destroy", sBuffer[q])
      BY <3>1, <3>2, MiddleCalls
    <3>5. PICK c \in Seq(S) : c = Call("sem_destroy", sItem[q])
      BY <3>1, <3>2, MiddleCalls
    <3>6. PICK d \in Seq(S) : d = Call("sem_destroy", sVaga[q])
      BY <3>1, <3>2, MiddleCalls
    <3>7. a \o b \o c \o d \in Seq(S)
      OBVIOUS
    <3> QED
      BY <3>1, <3>3, <3>4, <3>5, <3>6, <3>7, Zenon DEF mqueue_destroy
  <2> QED
    BY <2>1
<1>2. PICK x \in Seq(Middle(n)) : x = Call("task_join", 1)
  BY MiddleCalls
<1>3. PICK v \in Seq(Middle(n)) : v = mqueue_destroy("queueValores")
  BY <1>1 DEF MessageQueues
<1>4. PICK r \in Seq(Middle(n)) : r = mqueue_destroy("queueRaizes")
  BY <1>1 DEF MessageQueues
<1>5. PICK c : c = create(n) /\ MainPart(n, c)
  BY MainCreates, Zenon
<1>6. MainPart(n, c \o x)
  BY <1>5, MainGoesOn, Zenon
<1>7. MainPart(n, (c \o x) \o v)
  BY <1>6, MainGoesOn, Zenon
<1>8. MainPart(n, ((c \o x) \o v) \o r)
  BY <1>7, MainGoesOn, Zenon
<1>9. IsEnd(Call("task_exit", 0))
  BY DEF IsEnd
<1>10. MainProgram(n, (((c \o x) \o v) \o r) \o Call("task_exit", 0))
  BY <1>8, <1>9, MainEnds, Zenon
<1> QED
  BY <1>2, <1>3, <1>4, <1>5, <1>10, Zenon

\* main of pingpong-prodcons.c.
LEMMA ProdconsMain ==
  ASSUME NEW n \in Nat, NEW m, m = create(n) \o Call("task_exit", 0)
  PROVE  MainProgram(n, m)
<1>1. MainPart(n, create(n))
  BY MainCreates, Zenon
<1>2. IsEnd(Call("task_exit", 0))
  BY DEF IsEnd
<1>3. MainProgram(n, create(n) \o Call("task_exit", 0))
  BY <1>1, <1>2, MainEnds, Zenon
<1> QED
  BY <1>3, Zenon

\* What holds of the tests.
Skips(p) == IF p = "mqueue" THEN 5 ELSE 0
Forks(p) == Len(Programs[p]) - 1
MainOf(p) == Programs[p][1]

\* The tests by name.
LEMMA TestNames ==
  DOMAIN Programs = {"prodcons", "mqueue", "semaphore", "racecond", "join", "sleep", "preempcao", "stress",
                     "contab_prio"}
BY DEF Programs

\* pingpong-prodcons.c.
LEMMA ProdconsTest ==
  /\ WellFormed(prodcons, 0) /\ Len(prodcons) = NUM_PRODUTORES + NUM_CONSUMIDORES + 1
  /\ \A t \in 1 .. NUM_PRODUTORES : prodcons[t + 1] = taskProdutor
  /\ \A t \in NUM_PRODUTORES + 1 .. NUM_PRODUTORES + NUM_CONSUMIDORES : prodcons[t + 1] = taskConsumidor
<1>1. NUM_PRODUTORES \in Nat /\ NUM_CONSUMIDORES \in Nat /\ NUM_PRODUTORES + NUM_CONSUMIDORES \in Nat
  BY TestAssumption
<1>2. PICK m : m = create(NUM_PRODUTORES + NUM_CONSUMIDORES) \o Call("task_exit", 0)
  OBVIOUS
<1>3. MainProgram(NUM_PRODUTORES + NUM_CONSUMIDORES, m)
  BY <1>1, <1>2, ProdconsMain, Zenon
<1>4. IsBody(taskProdutor, 0) /\ IsBody(taskConsumidor, 0)
  BY ProdconsBodies DEF IsBody
<1>5. GroupsOf(prodcons, m, NUM_PRODUTORES, taskProdutor, NUM_CONSUMIDORES, taskConsumidor)
  BY <1>2, Zenon DEF prodcons, GroupsOf
<1>6. 0 \in Nat
  OBVIOUS
<1>7. GroupsTest(prodcons, 0, m, NUM_PRODUTORES, taskProdutor, NUM_CONSUMIDORES, taskConsumidor)
  BY <1>1, <1>3, <1>4, <1>5, <1>6, TwoGroups, Zenon
<1> QED
  BY <1>7, Zenon DEF GroupsTest

\* pingpong-mqueue.c.
LEMMA QueueTest == WellFormed(mqueue, 5)
<1>1. /\ QUEUE_CONSUMERS \in Nat /\ QUEUE_PRODUCERS \in Nat
      /\ 1 + QUEUE_CONSUMERS + QUEUE_PRODUCERS \in Nat /\ 1 + QUEUE_CONSUMERS + QUEUE_PRODUCERS >= 1
  BY TestAssumption
<1>2. PICK m : m = create(1 + QUEUE_CONSUMERS + QUEUE_PRODUCERS) \o Call("task_join", 1)
                     \o mqueue_destroy("queueValores") \o mqueue_destroy("queueRaizes")
                     \o Call("task_exit", 0)
  OBVIOUS
<1>3. MainProgram(1 + QUEUE_CONSUMERS + QUEUE_PRODUCERS, m)
  BY <1>1, <1>2, QueueMain, Zenon
<1>4. IsBody(prodBody, 5) /\ IsBody(consBody, 5) /\ IsBody(somaBody, 5)
  BY QueueBodies DEF IsBody
<1>5. GroupsAndOne(mqueue, m, somaBody, QUEUE_CONSUMERS, consBody, QUEUE_PRODUCERS, prodBody)
  BY <1>2, Zenon DEF mqueue, GroupsAndOne
<1>6. 5 \in Nat
  OBVIOUS
<1>7. GroupsAndOneTest(mqueue, 5, m, somaBody, QUEUE_CONSUMERS, consBody, QUEUE_PRODUCERS, prodBody)
  BY <1>1, <1>3, <1>4, <1>5, <1>6, ThreeGroups, Zenon
<1> QED
  BY <1>7, Zenon DEF GroupsAndOneTest

\* pingpong-racecond.c.
LEMMA RacecondTest ==
  /\ WellFormed(racecond, 0) /\ Len(racecond) = NUMTASKS + 1
  /\ \A t \in 1 .. NUMTASKS : racecond[t + 1] = taskBody
  /\ \A j \in 1 .. Len(racecond[1]) :
       racecond[1][j].op \in {"sem_destroy", "report", "task_exit"} => JoinsBefore(NUMTASKS, racecond[1], j)
  /\ JoinsBefore(NUMTASKS, racecond[1], Len(racecond[1]))
<1>1. NUMTASKS \in Nat /\ 0 \in Nat
  BY TestAssumption
<1>2. PICK m : m = create(NUMTASKS) \o join(NUMTASKS) \o Call("sem_destroy", "s") \o Do("report")
                     \o Call("task_exit", 0)
  OBVIOUS
<1>3. /\ MainProgram(NUMTASKS, m)
      /\ \A j \in 1 .. Len(m) :
           m[j].op \in {"sem_destroy", "report", "task_exit"} => JoinsBefore(NUMTASKS, m, j)
      /\ JoinsBefore(NUMTASKS, m, Len(m))
  BY <1>1, <1>2, RacecondMain, Zenon
<1>4. IsBody(taskBody, 0)
  BY RacecondBody, TestAssumption DEF IsBody
<1>5. OneGroup(racecond, m, NUMTASKS, taskBody)
  BY <1>2, Zenon DEF racecond, OneGroup
<1>6. OneGroupTest(racecond, 0, m, NUMTASKS, taskBody)
  BY <1>1, <1>3, <1>4, <1>5, EqualTasks, Zenon
<1> QED
  BY <1>3, <1>6, Zenon DEF OneGroupTest

\* The tests whose main joins every task and then ends.
ForkJoinOf(q, j, e, b) == q = <<create(NUMTASKS) \o j \o e>> \o [k \in 1 .. NUMTASKS |-> b]
IsForkJoin(q, b) ==
  /\ WellFormed(q, 0) /\ Len(q) = NUMTASKS + 1
  /\ \A t \in 1 .. NUMTASKS : q[t + 1] = b
  /\ JoinsBefore(NUMTASKS, q[1], Len(q[1]))
\* main joins the tasks in the order of their creation, or in the reverse one.
IsJoin(j) == j \in {join(NUMTASKS), join_reversed(NUMTASKS)}

\* Such a test is well-formed, and main joins every task before it ends.
LEMMA ForkJoinTest ==
  ASSUME NEW j, IsJoin(j), NEW e, IsEnd(e), NEW b, IsBody(b, 0), NEW q, ForkJoinOf(q, j, e, b)
  PROVE  IsForkJoin(q, b)
<1>1. NUMTASKS \in Nat /\ 0 \in Nat
  BY TestAssumption
<1>2. PICK m : m = create(NUMTASKS) \o j \o e
  OBVIOUS
<1>3. MainProgram(NUMTASKS, m) /\ JoinsBefore(NUMTASKS, m, Len(m))
  BY <1>1, <1>2, ForkJoin DEF IsJoin
<1>4. OneGroup(q, m, NUMTASKS, b)
  BY <1>2, Zenon DEF ForkJoinOf, OneGroup
<1>5. OneGroupTest(q, 0, m, NUMTASKS, b)
  BY <1>1, <1>3, <1>4, EqualTasks, Zenon
<1> QED
  BY <1>3, <1>5, Zenon DEF OneGroupTest, IsForkJoin

\* pingpong-join.c and the others of that kind.
LEMMA ForkJoinTests ==
  /\ IsForkJoin(join_main, joinBody) /\ IsForkJoin(sleep_main, sleepBody)
  /\ IsForkJoin(preempcao, preempcaoBody) /\ IsForkJoin(stress, stressBody)
  /\ IsForkJoin(contab_prio, contabBody)
<1>1. IsJoin(join(NUMTASKS)) /\ IsJoin(join_reversed(NUMTASKS))
  BY DEF IsJoin
<1>2. IsEnd(Call("task_exit", 0)) /\ IsEnd(exit)
  BY DEF IsEnd
<1>3. IsBody(joinBody, 0)
  BY JoinBodyIs DEF IsBody
<1>4. \A b \in {sleepBody, preempcaoBody, stressBody, contabBody} : IsBody(b, 0)
  BY OtherBodies DEF IsBody
<1>5. /\ ForkJoinOf(join_main, join(NUMTASKS), Call("task_exit", 0), joinBody)
      /\ ForkJoinOf(sleep_main, join(NUMTASKS), Call("task_exit", 0), sleepBody)
      /\ ForkJoinOf(preempcao, join(NUMTASKS), exit, preempcaoBody)
      /\ ForkJoinOf(stress, join(NUMTASKS), exit, stressBody)
      /\ ForkJoinOf(contab_prio, join_reversed(NUMTASKS), exit, contabBody)
  BY Zenon DEF ForkJoinOf, join_main, sleep_main, preempcao, stress, contab_prio
<1>6. IsForkJoin(join_main, joinBody)
  BY <1>1, <1>2, <1>3, <1>5, ForkJoinTest, Zenon
<1>7. IsForkJoin(sleep_main, sleepBody)
  BY <1>1, <1>2, <1>4, <1>5, ForkJoinTest, Zenon
<1>8. IsForkJoin(preempcao, preempcaoBody)
  BY <1>1, <1>2, <1>4, <1>5, ForkJoinTest, Zenon
<1>9. IsForkJoin(stress, stressBody)
  BY <1>1, <1>2, <1>4, <1>5, ForkJoinTest, Zenon
<1>10. IsForkJoin(contab_prio, contabBody)
  BY <1>1, <1>2, <1>4, <1>5, ForkJoinTest, Zenon
<1> QED
  BY <1>6, <1>7, <1>8, <1>9, <1>10

\* pingpong-semaphore.c.
LEMMA SemaphoreTest ==
  /\ WellFormed(semaphore, 0) /\ Len(semaphore) = 5
  /\ semaphore[2] = TaskA /\ semaphore[3] = TaskA /\ semaphore[4] = TaskB /\ semaphore[5] = TaskB
  /\ SemaphoreStatements(semaphore[1])
  /\ JoinsBefore(4, semaphore[1], Len(semaphore[1]))
  /\ \A k \in 1 .. 11 : semaphore[1][k].op = "sem_destroy" => k \in {6, 7}
<1>1. PICK m \in Seq(Legal(4, 0)) :
        /\ m = create(4) \o Call("task_join", 1) \o Call("sem_destroy", "s1")
                 \o Call("sem_destroy", "s2") \o Call("task_join", 2) \o Call("task_join", 3)
                 \o Call("task_join", 4) \o Call("task_exit", 0)
        /\ SemaphoreStatements(m)
  BY SemaphoreMain
<1>2. /\ MainProgram(4, m) /\ JoinsBefore(4, m, Len(m))
      /\ \A k \in 1 .. 11 : m[k].op = "sem_destroy" => k \in {6, 7}
  BY <1>1, SemaphoreFacts, Zenon
<1>3. IsBody(TaskA, 0) /\ IsBody(TaskB, 0)
  <2>1. /\ TaskA \in Seq(Body(0)) /\ Len(TaskA) = Rounds * 3 + 1
        /\ TaskB \in Seq(Body(0)) /\ Len(TaskB) = Rounds * 3 + 1
    BY SemaphoreBodies DEF TurnOf, TurnLoop
  <2> QED
    BY <2>1, TestAssumption DEF IsBody
<1>4. PICK a : a = TaskA
  OBVIOUS
<1>5. PICK b : b = TaskB
  OBVIOUS
<1>6. semaphore = <<m, a, a, b, b>>
  BY <1>1, <1>4, <1>5, Zenon DEF semaphore
<1>7. PICK q : q = <<m, a, a, b, b>>
  OBVIOUS
<1>8. Len(q) = 5 /\ q[1] = m /\ q[2] = a /\ q[3] = a /\ q[4] = b /\ q[5] = b
  BY <1>7
<1>9. IsBody(a, 0) /\ IsBody(b, 0)
  BY <1>3, <1>4, <1>5
<1>10. WellFormed(q, 0)
  <2>1. Len(q) \in Nat \ {0} /\ Len(q) - 1 = 4
    BY <1>8
  <2>2. MainProgram(Len(q) - 1, q[1])
    BY <1>2, <1>8, <2>1, Zenon
  <2>3. ASSUME NEW t \in 1 .. Len(q) - 1 PROVE IsBody(q[t + 1], 0)
    <3>1. PICK u : u = t + 1
      OBVIOUS
    <3>2. t \in 1 .. 4
      BY <2>1, Zenon
    <3>3. t \in Int /\ 1 <= t /\ t <= 4
      BY <3>2
    <3>4. t = 1 \/ t = 2 \/ t = 3 \/ t = 4
      BY <3>3
    <3>5. u = 2 \/ u = 3 \/ u = 4 \/ u = 5
      BY <3>1, <3>4
    <3> QED
      BY <1>8, <1>9, <3>1, <3>5, Zenon
  <2> QED
    BY <2>1, <2>2, <2>3, Zenon DEF WellFormed, IsBody
<1> QED
  BY <1>1, <1>2, <1>4, <1>5, <1>6, <1>7, <1>8, <1>10, Zenon

\* The programs by name.
LEMMA TestsByName ==
  /\ Programs["prodcons"] = prodcons /\ Programs["mqueue"] = mqueue
  /\ Programs["semaphore"] = semaphore /\ Programs["racecond"] = racecond
  /\ Programs["join"] = join_main /\ Programs["sleep"] = sleep_main
  /\ Programs["preempcao"] = preempcao /\ Programs["stress"] = stress
  /\ Programs["contab_prio"] = contab_prio
BY DEF Programs

\* Every test is well-formed, and main of all but two joins every task before it ends.
LEMMA Tests ==
  ASSUME NEW p \in DOMAIN Programs
  PROVE  /\ WellFormed(Programs[p], Skips(p))
         /\ p \notin {"prodcons", "mqueue"} => JoinsBefore(Forks(p), MainOf(p), Len(MainOf(p)))
<1>1. ASSUME NEW q, NEW b, IsForkJoin(q, b)
      PROVE  WellFormed(q, 0) /\ JoinsBefore(Len(q) - 1, q[1], Len(q[1]))
  <2>1. Len(q) - 1 = NUMTASKS
    BY <1>1, TestAssumption DEF IsForkJoin
  <2> QED
    BY <1>1, <2>1, Zenon DEF IsForkJoin
<1>2. CASE p = "prodcons"
  BY <1>2, TestsByName, ProdconsTest DEF Skips
<1>3. CASE p = "mqueue"
  BY <1>3, TestsByName, QueueTest DEF Skips
<1>4. CASE p = "semaphore"
  <2>1. Len(semaphore) - 1 = 4
    BY SemaphoreTest
  <2> QED
    BY <1>4, <2>1, TestsByName, SemaphoreTest DEF Skips, Forks, MainOf
<1>5. CASE p = "racecond"
  <2>1. Len(racecond) - 1 = NUMTASKS
    BY RacecondTest, TestAssumption
  <2> QED
    BY <1>5, <2>1, TestsByName, RacecondTest DEF Skips, Forks, MainOf
<1>6. CASE p \in {"join", "sleep", "preempcao", "stress", "contab_prio"}
  <2>1. PICK q, b : q = Programs[p] /\ IsForkJoin(q, b)
    BY <1>6, TestsByName, ForkJoinTests
  <2>2. WellFormed(q, 0) /\ JoinsBefore(Len(q) - 1, q[1], Len(q[1]))
    BY <1>1, <2>1, Zenon
  <2>3. Skips(p) = 0
    BY <1>6 DEF Skips
  <2> QED
    BY <2>1, <2>2, <2>3, Zenon DEF Forks, MainOf
<1> QED
  BY <1>2, <1>3, <1>4, <1>5, <1>6, TestNames

------------------------------------------------------------------------------
(* Where a task may be *)

\* The tasks of the test, and the calls that end or suspend a task.
Existing == Created \cup {main}
ExitOps == {"task_exit", "exit_max", "exit_if_failed"}
SuspendOps == {"sem_down", "task_join", "task_sleep"}

\* What a statement of task t at index k tells.
Legible(t, k) ==
  LET r == Program(t)[k]
  IN  /\ r.op \in Ops /\ r.skip \in Nat
      /\ test # "mqueue" => r.skip = 0
      /\ r.op = "task_create" => t = main /\ k \in Created /\ r.arg = k
      /\ r.op = "task_join" => t = main /\ k \notin Created /\ r.arg \in Created
      /\ r.op = "task_sleep" => r.arg \in Times
      /\ r.op \in {"sem_down", "sem_up", "sem_destroy"} => r.arg \in Sems
      /\ r.op = "exit" => t = main
      /\ t = main =>
           /\ r.skip = 0 /\ r.op \in MainOps \cup {"task_create", "task_exit", "exit"}
           /\ k \in Created => r.op = "task_create"
           /\ r.op \in {"task_exit", "exit"} <=> k = Len(Program(main))

\* The tasks of the test have programs, and their statements tell that much.
Readable ==
  /\ main \in Tasks /\ Created \subseteq Tasks /\ main \notin Created
  /\ Len(Programs[test]) \in Nat \ {0}
  /\ \A t \in Existing :
       Len(Program(t)) \in Nat \ {0} /\ \A k \in 1 .. Len(Program(t)) : Legible(t, k)
  /\ \A u \in Created : u \in Nat /\ 1 <= u /\ u < Len(Program(main))

\* The programs of the tests are readable.
LEMMA ProgramsAreReadable ==
  ASSUME test \in DOMAIN Programs
  PROVE  Readable
<1>1. PICK q : q = Programs[test]
  OBVIOUS
<1>2. PICK z : z = Skips(test)
  OBVIOUS
<1>3. z \in Nat /\ (test # "mqueue" => z = 0)
  BY <1>2 DEF Skips
<1>4. WellFormed(q, z)
  BY <1>1, <1>2, Tests
<1>5. PICK n \in Nat : n = Len(q) - 1
  BY <1>4 DEF WellFormed
<1>6. Created = 1 .. n
  BY <1>1, <1>5 DEF Created
<1>7. main \in Tasks /\ Created \subseteq Tasks /\ main \notin Created
  <2>1. 0 .. n \subseteq Tasks
    BY <1>1, <1>5, TasksAssumption
  <2> QED
    BY <2>1, <1>6 DEF main
<1>8. PICK m : m = q[1]
  OBVIOUS
<1>9. MainProgram(n, m)
  BY <1>4, <1>5, <1>8 DEF WellFormed
<1>10. Program(main) = m
  BY <1>1, <1>8 DEF Program, main
<1>11. Len(m) \in Nat \ {0} /\ \A u \in Created : u \in Nat /\ 1 <= u /\ u < Len(m)
  <2>1. Len(m) \in Nat /\ Len(m) >= n + 1
    BY <1>9 DEF MainProgram
  <2> QED
    BY <2>1, <1>6
<1>12. ASSUME NEW k \in 1 .. Len(m) PROVE Legible(main, k)
  <2>1. PICK r : r = m[k]
    OBVIOUS
  <2>2. r \in Legal(n, 0)
    BY <1>9, <2>1 DEF MainProgram
  <2>3. r.op \in Ops /\ r.skip = 0
    BY <2>2 DEF Legal
  <2>4. k \in Created => r.op = "task_create" /\ r.arg = k
    BY <1>9, <2>1, <1>6 DEF MainProgram
  <2>5. k \in Nat /\ k <= Len(m) /\ Len(m) \in Nat
    BY <1>11
  <2>6. k \notin Created /\ k # Len(m) => r.op \in MainOps
    BY <1>9, <2>1, <1>6, <2>5 DEF MainProgram
  <2>7. k = Len(m) => r.op \in {"task_exit", "exit"}
    BY <1>9, <2>1 DEF MainProgram
  <2>8. k = Len(m) => k \notin Created
    BY <1>11
  <2>9. r.op = "task_join" => r.arg \in Created
    BY <2>2, <1>6 DEF Legal
  <2>10. r.op \in {"sem_down", "sem_up", "sem_destroy"} => r.arg \in Sems
    BY <2>2 DEF Legal
  <2>11. \/ k \in Created /\ r.op = "task_create"
         \/ k \notin Created /\ k # Len(m) /\ r.op \in MainOps
         \/ k \notin Created /\ k = Len(m) /\ r.op \in {"task_exit", "exit"}
    BY <2>4, <2>6, <2>7, <2>8
  <2> QED
    <3>1. Program(main)[k] = r /\ Len(Program(main)) = Len(m)
      BY <1>10, <2>1
    <3>2. CASE k \in Created /\ r.op = "task_create"
      BY <3>1, <3>2, <2>3, <2>4, <2>8 DEF Legible, ExitOps
    <3>3. CASE k \notin Created /\ k # Len(m) /\ r.op \in MainOps
      BY <3>1, <3>3, <2>3, <2>9, <2>10 DEF Legible, ExitOps, MainOps
    <3>4. CASE k \notin Created /\ k = Len(m) /\ r.op \in {"task_exit", "exit"}
      BY <3>1, <3>4, <2>3 DEF Legible, ExitOps
    <3> QED
      BY <2>11, <3>2, <3>3, <3>4
<1>13. ASSUME NEW t \in Created
       PROVE  Len(Program(t)) \in Nat \ {0} /\ \A k \in 1 .. Len(Program(t)) : Legible(t, k)
  <2>1. PICK b : b = q[t + 1]
    OBVIOUS
  <2>2. b \in Seq(Body(z)) /\ Len(b) >= 1
    BY <1>4, <1>5, <1>6, <2>1 DEF WellFormed
  <2>3. Program(t) = b
    BY <1>1, <2>1 DEF Program
  <2>4. ASSUME NEW k \in 1 .. Len(b) PROVE Legible(t, k)
    <3>1. PICK r : r = b[k]
      OBVIOUS
    <3>2. r \in Body(z)
      BY <2>2, <3>1
    <3>3. r \in Legal(0, z) /\ r.op # "exit"
      BY <3>2 DEF Body
    <3>4. r.op \in Ops /\ r.skip \in 0 .. z
      BY <3>3 DEF Legal
    <3>5. r.op \notin {"task_create", "task_join"}
      BY <3>3 DEF Legal
    <3>6. r.op = "task_sleep" => r.arg \in Times
      BY <3>3 DEF Legal
    <3>7. r.op \in {"sem_down", "sem_up", "sem_destroy"} => r.arg \in Sems
      BY <3>3 DEF Legal
    <3>8. r.skip \in Nat /\ (test # "mqueue" => r.skip = 0)
      BY <3>4, <1>3
    <3>9. t # main
      BY <1>7
    <3>10. Program(t)[k] = r
      BY <2>3, <3>1
    <3> QED
      BY <3>3, <3>4, <3>5, <3>6, <3>7, <3>8, <3>9, <3>10 DEF Legible
  <2> QED
    BY <2>2, <2>3, <2>4
<1>14. Len(Programs[test]) \in Nat \ {0}
  BY <1>1, <1>4 DEF WellFormed
<1> QED
  BY <1>7, <1>10, <1>11, <1>12, <1>13, <1>14 DEF Readable, Existing

------------------------------------------------------------------------------
(* Where the tasks are *)

\* The values of the variables, as far as the other parts of the invariant need them.
Types ==
  /\ test \in DOMAIN Programs
  /\ value \in [Sems -> Int] /\ waiting \in [Sems -> Seq(Tasks)] /\ active \in [Sems -> BOOLEAN]
  /\ state \in [Tasks -> {"none", "live", "exited"}]
  /\ joinQueue \in [Tasks -> Seq(Tasks)] /\ sleeping \subseteq Tasks
  /\ called \in [Tasks -> BOOLEAN] /\ pc \in [Tasks -> Nat] /\ halted \in BOOLEAN
  /\ DOMAIN ret = Tasks /\ DOMAIN exitCode = Tasks /\ DOMAIN local = Tasks /\ DOMAIN loaded = Tasks

\* Every task is at one of its statements.
Positions == \A t \in Existing : pc[t] \in 1 .. Len(Program(t))

\* A task comes to life when main, which is alive from the start, creates it.
Lifetimes ==
  /\ \A t \in Tasks : /\ t \notin Existing => state[t] = "none"
                      /\ state[t] = "none" => pc[t] = 1 /\ ~called[t]
  /\ \A t \in Created : state[t] = "none" <=> pc[main] <= t
  /\ state[main] # "none"

\* A task inside a call is alive, and at the statement that calls.
Suspended == \A t \in Tasks : called[t] => state[t] = "live" /\ Current(t).op \in SuspendOps

\* Task t is inside the call op of arg.
Suspends(t, op, arg) == called[t] /\ Current(t).op = op /\ Current(t).arg = arg

\* Who is on a queue is inside the call that put it there.
Queues ==
  /\ \A s \in Sems : \A t \in Range(waiting[s]) : Suspends(t, "sem_down", s)
  /\ \A u \in Tasks : \A t \in Range(joinQueue[u]) : Suspends(t, "task_join", u)
  /\ \A t \in sleeping : called[t] /\ Current(t).op = "task_sleep"

\* A negative semaphore counts the tasks on its queue.
Counted == \A s \in Sems : active[s] => Len(waiting[s]) = IF value[s] < 0 THEN -value[s] ELSE 0

\* Who main joins has exited, or has main on its queue; whom main has joined has exited.
Joined ==
  /\ \A u \in Created : Suspends(main, "task_join", u) => state[u] = "exited" \/ main \in Range(joinQueue[u])
  /\ \A k \in 1 .. pc[main] - 1 :
       Program(main)[k].op = "task_join" => state[Program(main)[k].arg] = "exited"

\* A task that has exited stays at its exit; only main ends the process.
Ended ==
  /\ \A t \in Existing : state[t] = "exited" => Current(t).op \in ExitOps
  /\ halted => Current(main).op = "exit"

\* The inductive invariant.
Base == Types /\ Readable /\ Positions /\ Lifetimes /\ Suspended /\ Queues /\ Counted /\ Joined /\ Ended

------------------------------------------------------------------------------
(* What a step does *)

\* A task takes a step: it is not suspended.
Mover(t) == t \in Existing /\ ~halted /\ state[t] = "live" /\ (called[t] => Runnable(t))

\* The other tasks stay where they are.
OthersStay(t) ==
  test' = test /\ \A u \in Tasks \ {t} : pc'[u] = pc[u] /\ called'[u] = called[u] /\ ret'[u] = ret[u]

\* Where the task goes: on, or into a call that suspends it, or nowhere.
GoesOn(t) ==
  /\ pc'[t] \in 1 .. Len(Program(t)) /\ ~called'[t] /\ halted' = halted
  /\ t = main => pc'[t] = pc[t] + 1
  /\ test # "mqueue" => pc'[t] = IF pc[t] = Len(Program(t)) THEN 1 ELSE pc[t] + 1
  /\ Current(t).op = "task_join" => called[t] \/ state[Current(t).arg] # "live"
IsSuspended(t) ==
  /\ pc'[t] = pc[t] /\ ~called[t] /\ called'[t] /\ Current(t).op \in SuspendOps /\ halted' = halted
  /\ ret'[t] = ret[t]
  /\ Current(t).op = "task_join" => t \in Range(joinQueue'[Current(t).arg])
Ends(t) ==
  /\ pc'[t] = pc[t] /\ ~called[t] /\ ~called'[t] /\ ret'[t] = ret[t]
  /\ \/ Current(t).op \in ExitOps /\ state'[t] = "exited" /\ halted' = halted
     \/ Current(t).op = "exit" /\ halted' /\ state' = state

\* Who is suspended where: nobody new but the task itself.
QueuesShrink(t) ==
  /\ \A s \in Sems : \A u \in Range(waiting'[s]) :
       u \in Range(waiting[s]) \/ (u = t /\ IsSuspended(t) /\ Current(t).op = "sem_down" /\ Current(t).arg = s)
  /\ \A v \in Tasks : \A u \in Range(joinQueue'[v]) :
       u \in Range(joinQueue[v]) \/ (u = t /\ IsSuspended(t) /\ Current(t).op = "task_join" /\ Current(t).arg = v)
  /\ \A u \in sleeping' :
       u \in sleeping \/ (u = t /\ IsSuspended(t) /\ Current(t).op = "task_sleep")
  /\ \A v \in Tasks : Range(joinQueue[v]) \subseteq Range(joinQueue'[v]) \/ state'[v] = "exited"

\* Which tasks begin or end.
Creates(t) == Current(t).op = "task_create" /\ GoesOn(t) /\ state' = [state EXCEPT ![Current(t).arg] = "live"]
Exits(t) == Ends(t) /\ Current(t).op \in ExitOps /\ state' = [state EXCEPT ![t] = "exited"]
LivesStay(t) == state' = state /\ (GoesOn(t) => Current(t).op # "task_create")

\* What every step of task t does.
Frame(t) ==
  /\ Mover(t) /\ OthersStay(t) /\ QueuesShrink(t)
  /\ GoesOn(t) \/ IsSuspended(t) \/ Ends(t)
  /\ Creates(t) \/ Exits(t) \/ LivesStay(t)

\* A statement that is over leads to another one of the program.
LEMMA CompletesMoves ==
  ASSUME Types, Readable, Positions, NEW t \in Existing, NEW r, Completes(t, r),
         Current(t).op \notin {"task_exit", "exit"}
  PROVE  /\ pc' \in [Tasks -> Nat] /\ pc'[t] \in 1 .. Len(Program(t))
         /\ DOMAIN ret' = Tasks /\ ret'[t] = r
         /\ \A u \in Tasks \ {t} : pc'[u] = pc[u] /\ ret'[u] = ret[u]
         /\ t = main => pc'[t] = pc[t] + 1
         /\ test # "mqueue" => pc'[t] = IF pc[t] = Len(Program(t)) THEN 1 ELSE pc[t] + 1
<1>1. t \in Tasks
  BY DEF Readable, Existing
<1>2. PICK l : l = Len(Program(t))
  OBVIOUS
<1>3. PICK k : k = pc[t]
  OBVIOUS
<1>4. l \in Nat \ {0} /\ k \in 1 .. l
  BY <1>2, <1>3 DEF Readable, Positions
<1>5. Legible(t, k)
  BY <1>2, <1>3, <1>4 DEF Readable
<1>6. PICK z : z = Current(t).skip
  OBVIOUS
<1>7. z \in Nat /\ (test # "mqueue" => z = 0) /\ (t = main => z = 0 /\ k # l)
  BY <1>2, <1>3, <1>5, <1>6 DEF Legible, Current
<1>8. PICK n : n = k + 1 + (IF r = -1 THEN z ELSE 0)
  OBVIOUS
<1>9. n \in Nat /\ n >= k + 1 /\ (z = 0 => n = k + 1)
  BY <1>4, <1>7, <1>8
<1>10. PICK p : p = IF n > l THEN 1 ELSE n
  OBVIOUS
<1>11. p \in 1 .. l /\ p \in Nat
  BY <1>4, <1>9, <1>10
<1>12. /\ t = main => p = k + 1
       /\ test # "mqueue" => p = IF k = l THEN 1 ELSE k + 1
  BY <1>4, <1>7, <1>9, <1>10
<1>13. pc' = [pc EXCEPT ![t] = p] /\ ret' = [ret EXCEPT ![t] = r]
  BY <1>2, <1>3, <1>6, <1>8, <1>10 DEF Completes
<1>14. pc' \in [Tasks -> Nat] /\ pc'[t] = p /\ \A u \in Tasks \ {t} : pc'[u] = pc[u]
  BY <1>1, <1>11, <1>13 DEF Types
<1>15. DOMAIN ret' = Tasks /\ ret'[t] = r /\ \A u \in Tasks \ {t} : ret'[u] = ret[u]
  BY <1>1, <1>13 DEF Types
<1> QED
  BY <1>2, <1>3, <1>11, <1>12, <1>14, <1>15

\* What a step of another task leaves as it is.
LEMMA OthersKept ==
  ASSUME NEW t \in Existing, OthersStay(t)
  PROVE  /\ Existing' = Existing /\ Created' = Created /\ \A u : Program(u)' = Program(u)
         /\ \A u \in Tasks \ {t} : Current(u)' = Current(u) /\ called'[u] = called[u] /\ pc'[u] = pc[u]
         /\ pc'[t] = pc[t] => Current(t)' = Current(t)
<1>1. test' = test /\ main' = main
  BY DEF OthersStay, main
<1>2. Created' = Created /\ \A u : Program(u)' = Program(u)
  BY <1>1 DEF Created, Program
<1>3. \A u \in Tasks \ {t} : Current(u)' = Current(u) /\ called'[u] = called[u] /\ pc'[u] = pc[u]
  BY <1>1 DEF OthersStay, Current, Program
<1>4. pc'[t] = pc[t] => Current(t)' = Current(t)
  BY <1>1 DEF Current, Program
<1> QED
  BY <1>1, <1>2, <1>3, <1>4 DEF Existing

\* Every task stays at a statement of its program.
LEMMA PositionsKept ==
  ASSUME Base, NEW t, Frame(t)
  PROVE  Positions'
<1>1. t \in Existing /\ OthersStay(t)
  BY DEF Frame, Mover
<1>2. Existing' = Existing /\ \A u : Program(u)' = Program(u)
  BY <1>1, OthersKept
<1>3. pc'[t] \in 1 .. Len(Program(t))
  BY <1>1 DEF Frame, GoesOn, IsSuspended, Ends, Base, Positions
<1>4. \A u \in Existing : u \in Tasks
  BY DEF Base, Readable, Existing
<1>5. ASSUME NEW u \in Existing PROVE pc'[u] \in 1 .. Len(Program(u))
  BY <1>1, <1>3, <1>4, <1>5 DEF OthersStay, Base, Positions
<1> QED
  BY <1>2, <1>5 DEF Positions

\* Only suspended tasks are in a call, and only in one that suspends.
LEMMA SuspendedKept ==
  ASSUME Base, NEW t, Frame(t)
  PROVE  Suspended'
<1>1. t \in Existing /\ OthersStay(t) /\ state[t] = "live"
  BY DEF Frame, Mover
<1>2. ASSUME NEW u \in Tasks, called'[u] PROVE state'[u] = "live" /\ Current(u)'.op \in SuspendOps
  <2>1. CASE u = t
    <3>1. IsSuspended(t)
      BY <1>2, <2>1 DEF Frame, GoesOn, Ends
    <3>2. Current(t)' = Current(t)
      BY <3>1, <1>1, OthersKept DEF IsSuspended
    <3>3. LivesStay(t)
      BY <3>1 DEF Frame, Creates, Exits, GoesOn, Ends, IsSuspended
    <3> QED
      BY <1>1, <2>1, <3>1, <3>2, <3>3 DEF IsSuspended, LivesStay
  <2>2. CASE u # t
    <3>1. called[u] /\ Current(u)' = Current(u)
      BY <1>1, <1>2, <2>2, OthersKept
    <3>2. state[u] = "live" /\ Current(u).op \in SuspendOps
      BY <3>1 DEF Base, Suspended
    <3>3. state'[u] = "live"
      BY <3>2, <2>2, <1>2 DEF Frame, Creates, Exits, LivesStay, Base, Types
    <3> QED
      BY <3>1, <3>2, <3>3
  <2> QED
    BY <2>1, <2>2
<1> QED
  BY <1>2 DEF Suspended, SuspendOps

\* Whoever is in a queue is in the call that put it there.
LEMMA QueuesKept ==
  ASSUME Base, NEW t, Frame(t)
  PROVE  Queues'
<1>1. t \in Existing /\ OthersStay(t) /\ QueuesShrink(t)
  BY DEF Frame, Mover
<1>2. called[t] => Runnable(t)
  BY DEF Frame, Mover
<1>3. IsSuspended(t) => called'[t] /\ Current(t)' = Current(t)
  BY <1>1, OthersKept DEF IsSuspended
<1>4. DOMAIN waiting = Sems /\ \A s \in Sems : waiting[s] \in Seq(Tasks)
  BY DEF Base, Types
<1>5. \A u \in Tasks : joinQueue[u] \in Seq(Tasks)
  BY DEF Base, Types
<1>6. ASSUME NEW s \in Sems, NEW u \in Range(waiting'[s])
      PROVE  called'[u] /\ Current(u)'.op = "sem_down" /\ Current(u)'.arg = s
  <2>1. CASE u \in Range(waiting[s])
    <3>1. u \in Tasks
      BY <1>4, <2>1 DEF Range
    <3>2. called[u] /\ Current(u).op = "sem_down" /\ Current(u).arg = s
      BY <2>1 DEF Base, Queues, Suspends
    <3>3. Blocked(u)
      BY <1>4, <2>1 DEF Blocked
    <3>4. u # t
      BY <1>2, <3>2, <3>3 DEF Runnable
    <3>5. Current(u)' = Current(u) /\ called'[u] = called[u]
      BY <1>1, <3>1, <3>4, OthersKept
    <3> QED
      BY <3>2, <3>5
  <2>2. CASE u = t /\ IsSuspended(t) /\ Current(t).op = "sem_down" /\ Current(t).arg = s
    BY <2>2, <1>3
  <2> QED
    BY <1>1, <1>6, <2>1, <2>2 DEF QueuesShrink
<1>7. ASSUME NEW v \in Tasks, NEW u \in Range(joinQueue'[v])
      PROVE  called'[u] /\ Current(u)'.op = "task_join" /\ Current(u)'.arg = v
  <2>1. CASE u \in Range(joinQueue[v])
    <3>1. u \in Tasks
      BY <1>5, <2>1 DEF Range
    <3>2. called[u] /\ Current(u).op = "task_join" /\ Current(u).arg = v
      BY <2>1 DEF Base, Queues, Suspends
    <3>3. Joining(u)
      BY <2>1 DEF Joining
    <3>4. u # t
      BY <1>2, <3>2, <3>3 DEF Runnable
    <3>5. Current(u)' = Current(u) /\ called'[u] = called[u]
      BY <1>1, <3>1, <3>4, OthersKept
    <3> QED
      BY <3>2, <3>5
  <2>2. CASE u = t /\ IsSuspended(t) /\ Current(t).op = "task_join" /\ Current(t).arg = v
    BY <2>2, <1>3
  <2> QED
    BY <1>1, <1>7, <2>1, <2>2 DEF QueuesShrink
<1>8. ASSUME NEW u \in sleeping' PROVE called'[u] /\ Current(u)'.op = "task_sleep"
  <2>1. CASE u \in sleeping
    <3>1. u \in Tasks
      BY <2>1 DEF Base, Types
    <3>2. called[u] /\ Current(u).op = "task_sleep"
      BY <2>1 DEF Base, Queues
    <3>3. u # t
      BY <1>2, <3>2, <2>1 DEF Runnable
    <3>4. Current(u)' = Current(u) /\ called'[u] = called[u]
      BY <1>1, <3>1, <3>3, OthersKept
    <3> QED
      BY <3>2, <3>4
  <2>2. CASE u = t /\ IsSuspended(t) /\ Current(t).op = "task_sleep"
    BY <2>2, <1>3
  <2> QED
    BY <1>1, <1>8, <2>1, <2>2 DEF QueuesShrink
<1> QED
  BY <1>6, <1>7, <1>8 DEF Queues, Suspends, Sems, Semaphores

\* The statement a task is at.
LEMMA StatementRead ==
  ASSUME Readable, Positions, NEW t \in Existing
  PROVE  LET r == Current(t)
         IN  /\ r.op \in Ops
             /\ r.op = "task_create" => t = main /\ pc[t] \in Created /\ r.arg = pc[t]
             /\ r.op = "task_join" => t = main /\ pc[t] \notin Created /\ r.arg \in Created
             /\ r.op = "task_sleep" => r.arg \in Times
             /\ r.op \in {"sem_down", "sem_up", "sem_destroy"} => r.arg \in Sems
             /\ r.op = "exit" => t = main
             /\ t = main =>
                  /\ r.op \in MainOps \cup {"task_create", "task_exit", "exit"}
                  /\ pc[t] \in Created => r.op = "task_create"
                  /\ r.op \in {"task_exit", "exit"} <=> pc[t] = Len(Program(main))
<1>1. pc[t] \in 1 .. Len(Program(t))
  BY DEF Positions
<1>2. Legible(t, pc[t])
  BY <1>1 DEF Readable
<1> QED
  BY <1>2 DEF Legible, Current

\* Who has exited has exited for good.
LEMMA ExitedStay ==
  ASSUME Base, NEW t, Frame(t), NEW u \in Tasks, state[u] = "exited"
  PROVE  state'[u] = "exited"
<1>1. t \in Existing
  BY DEF Frame, Mover
<1>2. CASE Creates(t)
  <2>1. Current(t).op = "task_create"
    BY <1>2 DEF Creates
  <2>2. t = main /\ pc[t] \in Created /\ Current(t).arg = pc[t]
    BY <1>1, <2>1, StatementRead DEF Base
  <2>3. pc[main] \in Nat
    BY <2>2, <1>1 DEF Base, Types, Readable
  <2>4. state[pc[main]] = "none"
    BY <2>2, <2>3 DEF Base, Lifetimes
  <2> QED
    BY <1>2, <2>2, <2>4 DEF Creates, Base, Types
<1>3. CASE Exits(t)
  BY <1>3 DEF Exits, Base, Types
<1>4. CASE LivesStay(t)
  BY <1>4 DEF LivesStay
<1> QED
  BY <1>2, <1>3, <1>4 DEF Frame

\* A task begins when main creates it.
LEMMA LifetimesKept ==
  ASSUME Base, NEW t, Frame(t)
  PROVE  Lifetimes'
<1>1. t \in Existing /\ t \in Tasks /\ OthersStay(t) /\ state[t] = "live" /\ main \in Tasks
  BY DEF Frame, Mover, Base, Readable, Existing
<1>2. Existing' = Existing /\ Created' = Created
  BY <1>1, OthersKept
<1>3. state \in [Tasks -> {"none", "live", "exited"}]
  BY DEF Base, Types
<1>4. Creates(t) => t = main /\ pc[t] \in Created /\ Current(t).arg = pc[t]
  BY <1>1, StatementRead DEF Base, Creates
<1>5. /\ \A u \in Tasks : u \notin Existing => state[u] = "none"
      /\ \A u \in Tasks : state[u] = "none" => pc[u] = 1 /\ ~called[u]
      /\ \A u \in Created : state[u] = "none" <=> pc[main] <= u
      /\ state[main] # "none"
  BY DEF Base, Lifetimes
<1>6. ASSUME NEW u \in Tasks, u \notin Existing PROVE state'[u] = "none"
  BY <1>1, <1>3, <1>4, <1>5, <1>6 DEF Frame, Creates, Exits, LivesStay, Existing
<1>7. ASSUME NEW u \in Tasks, state'[u] = "none" PROVE state[u] = "none" /\ u # t
  BY <1>1, <1>3, <1>4, <1>7 DEF Frame, Creates, Exits, LivesStay
<1>8. ASSUME NEW u \in Tasks, state'[u] = "none" PROVE pc'[u] = 1 /\ ~called'[u]
  BY <1>1, <1>5, <1>7, <1>8 DEF OthersStay
<1>9. state'[main] # "none"
  BY <1>5, <1>7, <1>1
<1>10. pc[main] \in Nat /\ pc[main] >= 1 /\ \A u \in Created : u \in Nat /\ u \in Tasks
  BY <1>1 DEF Base, Types, Readable, Positions, Existing
<1>11. pc[main] \notin Created => \A u \in Created : ~(pc[main] <= u)
  BY <1>10 DEF Base, Readable, Created
<1>12. ASSUME NEW u \in Created PROVE state'[u] = "none" <=> pc'[main] <= u
  <2>1. CASE Creates(t)
    <3>1. pc'[main] = pc[main] + 1 /\ state' = [state EXCEPT ![pc[main]] = "live"]
      BY <1>4, <2>1 DEF Creates, GoesOn
    <3>2. state'[u] = IF u = pc[main] THEN "live" ELSE state[u]
      BY <1>3, <1>10, <3>1
    <3>3. CASE u = pc[main]
      BY <1>10, <3>1, <3>2, <3>3
    <3>4. CASE u # pc[main]
      BY <1>5, <1>10, <3>1, <3>2, <3>4
    <3> QED
      BY <3>3, <3>4
  <2>2. CASE Exits(t)
    <3>1. pc'[main] = pc[main]
      BY <1>1, <2>2 DEF Exits, Ends, OthersStay
    <3>2. state'[u] = IF u = t THEN "exited" ELSE state[u]
      BY <1>3, <1>10, <2>2 DEF Exits
    <3> QED
      BY <1>1, <1>5, <3>1, <3>2
  <2>3. CASE LivesStay(t)
    <3>1. CASE pc'[main] = pc[main]
      BY <1>5, <2>3, <3>1 DEF LivesStay
    <3>2. CASE pc'[main] # pc[main]
      <4>1. t = main
        BY <1>1, <3>2 DEF OthersStay
      <4>2. GoesOn(t)
        BY <4>1, <3>2 DEF Frame, IsSuspended, Ends
      <4>3. pc[main] \notin Created
        BY <4>1, <4>2, <2>3, <1>1, StatementRead DEF LivesStay, Base
      <4>4. pc'[main] = pc[main] + 1
        BY <4>1, <4>2 DEF GoesOn
      <4>5. ~(pc[main] <= u)
        BY <4>3, <1>11
      <4>6. ~(pc'[main] <= u)
        BY <4>4, <4>5, <1>10
      <4> QED
        BY <1>5, <2>3, <4>5, <4>6 DEF LivesStay
    <3> QED
      BY <3>1, <3>2
  <2> QED
    BY <2>1, <2>2, <2>3 DEF Frame
<1> QED
  BY <1>1, <1>2, <1>6, <1>8, <1>9, <1>12 DEF Lifetimes, main

\* main goes on from a task_join only when the joined task has exited.
LEMMA JoinedKept ==
  ASSUME Base, NEW t, Frame(t)
  PROVE  Joined'
<1>1. t \in Existing /\ t \in Tasks /\ OthersStay(t) /\ state[t] = "live" /\ main \in Tasks
  BY DEF Frame, Mover, Base, Readable, Existing
<1>2. Created' = Created /\ Program(main)' = Program(main) /\ Created \subseteq Tasks
  BY <1>1, OthersKept DEF Base, Readable
<1>3. t # main => Current(main)' = Current(main) /\ called'[main] = called[main] /\ pc'[main] = pc[main]
  BY <1>1, OthersKept
<1>4. ASSUME NEW u \in Created, called'[main], Current(main)'.op = "task_join", Current(main)'.arg = u
      PROVE  state'[u] = "exited" \/ main \in Range(joinQueue'[u])
  <2>1. CASE t = main
    <3>1. IsSuspended(t)
      BY <2>1, <1>4 DEF Frame, GoesOn, Ends
    <3>2. Current(t)' = Current(t)
      BY <3>1, <1>1, OthersKept DEF IsSuspended
    <3> QED
      BY <1>4, <2>1, <3>1, <3>2 DEF IsSuspended
  <2>2. CASE t # main
    <3>1. state[u] = "exited" \/ main \in Range(joinQueue[u])
      BY <1>3, <1>4, <2>2 DEF Base, Joined, Suspends
    <3>2. state[u] = "exited" => state'[u] = "exited"
      BY <1>2, ExitedStay
    <3>3. Range(joinQueue[u]) \subseteq Range(joinQueue'[u]) \/ state'[u] = "exited"
      BY <1>2 DEF Frame, QueuesShrink
    <3> QED
      BY <3>1, <3>2, <3>3
  <2> QED
    BY <2>1, <2>2
<1>5. pc[main] \in Nat /\ 1 <= pc[main] /\ pc[main] <= Len(Program(main)) /\ Len(Program(main)) \in Nat
  BY <1>1 DEF Base, Types, Readable, Positions, Existing
<1>6. ASSUME NEW k \in 1 .. pc'[main] - 1, Program(main)[k].op = "task_join"
      PROVE  state'[Program(main)[k].arg] = "exited"
  <2>1. pc'[main] = pc[main] \/ (t = main /\ GoesOn(t) /\ pc'[main] = pc[main] + 1)
    BY <1>3, <1>5 DEF Frame, GoesOn, IsSuspended, Ends
  <2>2. k \in 1 .. pc[main] - 1 \/ (k = pc[main] /\ t = main /\ GoesOn(t))
    BY <2>1, <1>5
  <2>3. k \in 1 .. Len(Program(main))
    BY <2>2, <1>5
  <2>4. Program(main)[k].arg \in Created
    BY <2>3, <1>6 DEF Base, Readable, Existing, Legible
  <2>5. PICK u \in Tasks : u = Program(main)[k].arg
    BY <2>4, <1>2
  <2>6. state[u] = "exited"
    <3>1. CASE k \in 1 .. pc[main] - 1
      BY <3>1, <1>6, <2>5 DEF Base, Joined
    <3>2. CASE k = pc[main] /\ t = main /\ GoesOn(t)
      <4>1. Current(main) = Program(main)[k]
        BY <3>2 DEF Current
      <4>2. Current(main).op = "task_join" /\ Current(main).arg = u /\ u \in Created
        BY <4>1, <1>6, <2>4, <2>5
      <4>3. called[main] \/ state[u] # "live"
        BY <3>2, <4>2 DEF GoesOn
      <4>4. pc[main] \notin Created
        BY <4>2, <3>2, <1>1, StatementRead DEF Base
      <4>5. ~(pc[main] <= u)
        BY <4>2, <4>4, <1>5 DEF Base, Readable, Created
      <4>6. state[u] # "none"
        BY <4>2, <4>5 DEF Base, Lifetimes
      <4>7. CASE called[main]
        <5>1. Runnable(main)
          BY <4>7, <3>2 DEF Frame, Mover
        <5>2. main \notin Range(joinQueue[u])
          BY <5>1 DEF Runnable, Joining
        <5> QED
          BY <4>2, <4>7, <5>2 DEF Base, Joined, Suspends
      <4>8. CASE state[u] # "live"
        BY <4>6, <4>8 DEF Base, Types
      <4> QED
        BY <4>3, <4>7, <4>8
    <3> QED
      BY <2>2, <3>1, <3>2
  <2> QED
    BY <2>5, <2>6, ExitedStay
<1>7. main' = main
  BY DEF main
<1> QED
  BY <1>2, <1>4, <1>6, <1>7 DEF Joined, Suspends

\* Tasks and the process end at the statement that ends them.
LEMMA EndedKept ==
  ASSUME Base, NEW t, Frame(t)
  PROVE  Ended'
<1>1. t \in Existing /\ t \in Tasks /\ OthersStay(t) /\ state[t] = "live" /\ ~halted
  BY DEF Frame, Mover, Base, Readable, Existing
<1>2. Existing' = Existing /\ main' = main
  BY <1>1, OthersKept DEF main
<1>3. Existing \subseteq Tasks
  BY DEF Base, Readable, Existing
<1>4. pc'[t] = pc[t] => Current(t)' = Current(t)
  BY <1>1, OthersKept
<1>5. ASSUME NEW u \in Existing, state'[u] = "exited" PROVE Current(u)'.op \in ExitOps
  <2>1. CASE u = t
    <3>1. Exits(t)
      BY <1>1, <1>5, <2>1 DEF Frame, Creates, LivesStay, Base, Types
    <3> QED
      BY <1>4, <2>1, <3>1 DEF Exits, Ends
  <2>2. CASE u # t
    <3>1. state[u] = "exited"
      BY <1>3, <1>5, <2>2 DEF Frame, Creates, Exits, LivesStay, Base, Types
    <3>2. Current(u)' = Current(u)
      BY <1>1, <1>3, <2>2, OthersKept
    <3> QED
      BY <3>1, <3>2 DEF Base, Ended
  <2> QED
    BY <2>1, <2>2
<1>6. ASSUME halted' PROVE Current(main)'.op = "exit"
  <2>1. Ends(t) /\ Current(t).op = "exit"
    <3>1. ~(halted' = halted)
      BY <1>1, <1>6
    <3> QED
      BY <3>1 DEF Frame, GoesOn, IsSuspended, Ends
  <2>2. t = main
    BY <1>1, <2>1, StatementRead DEF Base
  <2> QED
    BY <1>4, <2>1, <2>2 DEF Ends
<1> QED
  BY <1>2, <1>5, <1>6 DEF Ended, ExitOps

------------------------------------------------------------------------------
(* The actions *)

\* A task at a statement can take a step.
LEMMA AtStatementMoves ==
  ASSUME Base, NEW t \in Tasks, NEW op, AtStatement(t, op)
  PROVE  Mover(t) /\ ~called[t] /\ ~halted /\ Current(t).op = op /\ state[t] = "live"
<1>1. t \in Existing
  BY DEF AtStatement, Base, Lifetimes
<1> QED
  BY <1>1 DEF AtStatement, Mover

\* It goes on,
LEMMA GoingOn ==
  ASSUME Base, NEW t \in Tasks, Mover(t), NEW r, Completes(t, r), test' = test, halted' = halted,
         (called' = called /\ ~called[t]) \/ called' = [called EXCEPT ![t] = FALSE],
         Current(t).op \notin {"task_exit", "exit"},
         Current(t).op = "task_join" => called[t] \/ state[Current(t).arg] # "live"
  PROVE  /\ OthersStay(t) /\ GoesOn(t)
         /\ pc' \in [Tasks -> Nat] /\ called' \in [Tasks -> BOOLEAN] /\ DOMAIN ret' = Tasks /\ ret'[t] = r
<1>1. t \in Existing
  BY DEF Mover
<1>2. /\ pc' \in [Tasks -> Nat] /\ pc'[t] \in 1 .. Len(Program(t)) /\ DOMAIN ret' = Tasks /\ ret'[t] = r
      /\ \A u \in Tasks \ {t} : pc'[u] = pc[u] /\ ret'[u] = ret[u]
      /\ t = main => pc'[t] = pc[t] + 1
      /\ test # "mqueue" => pc'[t] = IF pc[t] = Len(Program(t)) THEN 1 ELSE pc[t] + 1
  BY <1>1, CompletesMoves DEF Base
<1>3. /\ called' \in [Tasks -> BOOLEAN] /\ ~called'[t]
      /\ \A u \in Tasks \ {t} : called'[u] = called[u]
  BY DEF Base, Types
<1> QED
  BY <1>2, <1>3 DEF OthersStay, GoesOn

\* or it is suspended.
LEMMA Suspending ==
  ASSUME Base, NEW t \in Tasks, Mover(t), ~called[t], test' = test, halted' = halted,
         called' = [called EXCEPT ![t] = TRUE], pc' = pc, ret' = ret, Current(t).op \in SuspendOps,
         Current(t).op = "task_join" => t \in Range(joinQueue'[Current(t).arg])
  PROVE  OthersStay(t) /\ IsSuspended(t) /\ called' \in [Tasks -> BOOLEAN]
BY DEF Base, Types, OthersStay, IsSuspended

\* A kernel call that leaves the queues alone.
LEMMA QueuesSame ==
  ASSUME NEW t, waiting' = waiting, joinQueue' = joinQueue, sleeping' = sleeping
  PROVE  QueuesShrink(t)
BY DEF QueuesShrink

\* The statements of a task that are not kernel calls.
LEMMA OwnFrame ==
  ASSUME Base, NEW t \in Tasks, NEW op, AtStatement(t, op),
         op \notin {"task_create", "task_join", "task_exit", "exit"},
         NEW r, Completes(t, r), UNCHANGED <<kernelVars, test, called, halted>>,
         DOMAIN local' = Tasks, DOMAIN loaded' = Tasks
  PROVE  Frame(t) /\ GoesOn(t) /\ ret'[t] = r /\ Types' /\ Counted'
<1>1. Mover(t) /\ ~called[t] /\ Current(t).op = op
  BY AtStatementMoves
<1>2. /\ OthersStay(t) /\ GoesOn(t) /\ pc' \in [Tasks -> Nat] /\ called' \in [Tasks -> BOOLEAN]
      /\ DOMAIN ret' = Tasks /\ ret'[t] = r
  <2>1. called' = called /\ ~called[t] /\ test' = test /\ halted' = halted
    BY <1>1
  <2> QED
    BY <1>1, <2>1, GoingOn
<1>3. QueuesShrink(t)
  BY QueuesSame DEF kernelVars, syncVars
<1>4. LivesStay(t)
  BY <1>1 DEF LivesStay, kernelVars
<1>5. Types'
  BY <1>2 DEF Base, Types, kernelVars, syncVars, Sems, Semaphores
<1>6. Counted'
  BY DEF Base, Counted, kernelVars, syncVars, Sems, Semaphores
<1> QED
  BY <1>1, <1>2, <1>3, <1>4, <1>5, <1>6 DEF Frame

\* What a kernel call does beside what the kernel does.
LEMMA CallsFrame ==
  ASSUME Base, NEW t \in Tasks, NEW op, AtStatement(t, op), op \notin {"task_exit", "exit"},
         NEW b \in BOOLEAN, NEW r, Calls(t, b, r), b => op \in SuspendOps,
         op = "task_join" => b = (state[Current(t).arg] = "live"),
         op = "task_join" /\ b => t \in Range(joinQueue'[Current(t).arg])
  PROVE  /\ Mover(t) /\ OthersStay(t) /\ ~called[t] /\ Current(t).op = op
         /\ ~b => GoesOn(t) /\ ret'[t] = r
         /\ b => IsSuspended(t)
         /\ pc' \in [Tasks -> Nat] /\ called' \in [Tasks -> BOOLEAN] /\ DOMAIN ret' = Tasks
<1>1. Mover(t) /\ ~called[t] /\ Current(t).op = op
  BY AtStatementMoves
<1>2. test' = test /\ halted' = halted
  BY DEF Calls, dataVars
<1>3. CASE b
  <2>1. called' = [called EXCEPT ![t] = TRUE] /\ pc' = pc /\ ret' = ret
    BY <1>3 DEF Calls
  <2>2. OthersStay(t) /\ IsSuspended(t) /\ called' \in [Tasks -> BOOLEAN]
    BY <1>1, <1>2, <1>3, <2>1, Suspending
  <2> QED
    BY <1>1, <1>3, <2>1, <2>2 DEF Base, Types
<1>4. CASE ~b
  <2>1. Completes(t, r) /\ called' = called
    BY <1>4 DEF Calls
  <2>2. op = "task_join" => state[Current(t).arg] # "live"
    BY <1>4
  <2>3. /\ OthersStay(t) /\ GoesOn(t) /\ pc' \in [Tasks -> Nat] /\ called' \in [Tasks -> BOOLEAN]
        /\ DOMAIN ret' = Tasks /\ ret'[t] = r
    BY <1>1, <1>2, <2>1, <2>2, GoingOn
  <2> QED
    BY <1>1, <1>4, <2>3
<1> QED
  BY <1>3, <1>4

\* task_create.
LEMMA CreateTaskFrame ==
  ASSUME Base, NEW t \in Tasks, CreateTask(t)
  PROVE  Frame(t) /\ Creates(t) /\ GoesOn(t) /\ Types' /\ Counted'
<1>1. /\ AtStatement(t, "task_create") /\ task_create(Current(t).arg) /\ Calls(t, FALSE, 0)
  BY DEF CreateTask
<1>2. /\ Mover(t) /\ OthersStay(t) /\ Current(t).op = "task_create" /\ GoesOn(t)
      /\ pc' \in [Tasks -> Nat] /\ called' \in [Tasks -> BOOLEAN] /\ DOMAIN ret' = Tasks
  <2>1. PICK b \in BOOLEAN : b = FALSE
    OBVIOUS
  <2>2. Calls(t, b, 0)
    BY <1>1, <2>1
  <2> QED
    BY <1>1, <2>1, <2>2, CallsFrame
<1>3. QueuesShrink(t)
  BY <1>1, QueuesSame DEF task_create, syncVars
<1>4. Creates(t)
  BY <1>1, <1>2 DEF Creates, task_create
<1>5. Types'
  BY <1>1, <1>2 DEF Base, Types, task_create, syncVars, Calls, dataVars, Sems, Semaphores
<1>6. Counted'
  BY <1>1 DEF Base, Counted, task_create, syncVars, Sems, Semaphores
<1> QED
  BY <1>2, <1>3, <1>4, <1>5, <1>6 DEF Frame

\* task_join.
LEMMA JoinTaskFrame ==
  ASSUME Base, NEW t \in Tasks, JoinTask(t)
  PROVE  /\ Frame(t) /\ LivesStay(t) /\ Types' /\ Counted'
         /\ GoesOn(t) => ret'[t] = exitCode[Current(t).arg]
<1>1. PICK u : u = Current(t).arg
  OBVIOUS
<1>2. /\ AtStatement(t, "task_join") /\ task_join(t, u) /\ Calls(t, state[u] = "live", exitCode[u])
  BY <1>1 DEF JoinTask
<1>3. Mover(t) /\ Current(t).op = "task_join" /\ t \in Existing
  BY <1>2, AtStatementMoves DEF Mover
<1>4. u \in Tasks
  BY <1>1, <1>3, StatementRead DEF Base, Readable
<1>5. joinQueue[u] \in Seq(Tasks)
  BY <1>4 DEF Base, Types
<1>6. /\ Append(joinQueue[u], t) \in Seq(Tasks)
      /\ Range(Append(joinQueue[u], t)) = Range(joinQueue[u]) \cup {t}
  BY <1>5, AppendRange
<1>7. /\ joinQueue' \in [Tasks -> Seq(Tasks)]
      /\ \A v \in Tasks : joinQueue'[v] = IF v = u /\ state[u] = "live" THEN Append(joinQueue[u], t)
                                          ELSE joinQueue[v]
  BY <1>2, <1>4, <1>6 DEF task_join, Base, Types
<1>8. state[u] = "live" => t \in Range(joinQueue'[u])
  BY <1>4, <1>6, <1>7
<1>9. PICK b : b = (state[u] = "live")
  OBVIOUS
<1>10. /\ Mover(t) /\ OthersStay(t) /\ ~called[t]
       /\ ~b => GoesOn(t) /\ ret'[t] = exitCode[u]
       /\ b => IsSuspended(t)
       /\ pc' \in [Tasks -> Nat] /\ called' \in [Tasks -> BOOLEAN] /\ DOMAIN ret' = Tasks
  BY <1>1, <1>2, <1>8, <1>9, CallsFrame DEF SuspendOps
<1>11. waiting' = waiting /\ value' = value /\ active' = active /\ state' = state
       /\ exitCode' = exitCode /\ sleeping' = sleeping
  BY <1>2 DEF task_join, syncVars
<1>12. QueuesShrink(t)
  <2>1. ASSUME NEW v \in Tasks, NEW x \in Range(joinQueue'[v])
        PROVE  x \in Range(joinQueue[v]) \/ (x = t /\ IsSuspended(t) /\ u = v)
    BY <1>6, <1>7, <1>9, <1>10, <2>1
  <2>2. \A v \in Tasks : Range(joinQueue[v]) \subseteq Range(joinQueue'[v])
    BY <1>6, <1>7
  <2> QED
    BY <1>1, <1>3, <1>11, <2>1, <2>2 DEF QueuesShrink
<1>13. LivesStay(t)
  BY <1>3, <1>11 DEF LivesStay
<1>14. Types'
  BY <1>2, <1>7, <1>10, <1>11 DEF Base, Types, Calls, dataVars, Sems, Semaphores
<1>15. Counted'
  BY <1>11 DEF Base, Counted, Sems, Semaphores
<1>16. GoesOn(t) => ret'[t] = exitCode[u]
  BY <1>10 DEF GoesOn, IsSuspended
<1> QED
  BY <1>1, <1>10, <1>12, <1>13, <1>14, <1>15, <1>16 DEF Frame

\* task_sleep.
LEMMA SleepFrame ==
  ASSUME Base, NEW t \in Tasks, Sleep(t)
  PROVE  Frame(t) /\ LivesStay(t) /\ Types' /\ Counted'
<1>1. PICK time \in Current(t).arg :
        AtStatement(t, "task_sleep") /\ task_sleep(t, time) /\ Calls(t, time > 0, 0)
  BY DEF Sleep
<1>2. PICK b \in BOOLEAN : b = (time > 0)
  <2>1. Mover(t) /\ Current(t).op = "task_sleep" /\ t \in Existing
    BY <1>1, AtStatementMoves DEF Mover
  <2>2. Current(t).arg \in Times
    BY <2>1, StatementRead DEF Base
  <2>3. time = 0 \/ time = 1
    BY <2>2 DEF Times
  <2>4. (time > 0) \in BOOLEAN
    BY <2>3
  <2> QED
    BY <2>4
<1>3. /\ Mover(t) /\ OthersStay(t) /\ Current(t).op = "task_sleep"
      /\ ~b => GoesOn(t)
      /\ b => IsSuspended(t)
      /\ pc' \in [Tasks -> Nat] /\ called' \in [Tasks -> BOOLEAN] /\ DOMAIN ret' = Tasks
  <2>1. Calls(t, b, 0)
    BY <1>1, <1>2
  <2>2. "task_sleep" \in SuspendOps
    BY DEF SuspendOps
  <2> QED
    BY <1>1, <2>1, <2>2, CallsFrame
<1>4. /\ waiting' = waiting /\ value' = value /\ active' = active /\ state' = state
      /\ exitCode' = exitCode /\ joinQueue' = joinQueue
      /\ sleeping' = IF b THEN sleeping \cup {t} ELSE sleeping
  BY <1>1, <1>2 DEF task_sleep, syncVars
<1>5. QueuesShrink(t)
  BY <1>3, <1>4 DEF QueuesShrink
<1>6. LivesStay(t)
  BY <1>3, <1>4 DEF LivesStay
<1>7. Types'
  BY <1>1, <1>3, <1>4 DEF Base, Types, Calls, dataVars, Sems, Semaphores
<1>8. Counted'
  BY <1>4 DEF Base, Counted, Sems, Semaphores
<1> QED
  BY <1>3, <1>5, <1>6, <1>7, <1>8 DEF Frame

\* The end of a task.
LEMMA ExitTaskFrame ==
  ASSUME Base, NEW t \in Tasks, ExitTask(t)
  PROVE  Frame(t) /\ Exits(t) /\ Types' /\ Counted'
<1>1. PICK op, code : op \in ExitOps /\ AtStatement(t, op) /\ Leaves(t, code)
  BY Zenon DEF ExitTask, ExitOps
<1>2. Mover(t) /\ ~called[t] /\ Current(t).op = op
  BY <1>1, AtStatementMoves
<1>3. /\ waiting' = waiting /\ value' = value /\ active' = active /\ sleeping' = sleeping
      /\ state' = [state EXCEPT ![t] = "exited"] /\ exitCode' = [exitCode EXCEPT ![t] = code]
      /\ joinQueue' = [joinQueue EXCEPT ![t] = <<>>]
  BY <1>1 DEF Leaves, task_exit, syncVars
<1>4. test' = test /\ pc' = pc /\ called' = called /\ ret' = ret /\ halted' = halted
      /\ local' = local /\ loaded' = loaded
  BY <1>1 DEF Leaves, dataVars
<1>5. OthersStay(t)
  BY <1>4 DEF OthersStay
<1>6. Exits(t)
  <2>1. state'[t] = "exited"
    BY <1>3 DEF Base, Types
  <2> QED
    BY <1>1, <1>2, <1>3, <1>4, <2>1 DEF Exits, Ends
<1>7. \A v \in Tasks : joinQueue'[v] = IF v = t THEN <<>> ELSE joinQueue[v]
  BY <1>3 DEF Base, Types
<1>8. QueuesShrink(t)
  BY <1>3, <1>7, ShortQueues DEF QueuesShrink, Base, Types
<1>9. Types'
  BY <1>3, <1>4 DEF Base, Types, Sems, Semaphores
<1>10. Counted'
  BY <1>3 DEF Base, Counted, Sems, Semaphores
<1> QED
  BY <1>2, <1>5, <1>6, <1>8, <1>9, <1>10 DEF Frame, Exits

\* The end of the process.
LEMMA ExitProcessFrame ==
  ASSUME Base, NEW t \in Tasks, ExitProcess(t)
  PROVE  Frame(t) /\ LivesStay(t) /\ Types' /\ Counted'
<1>1. AtStatement(t, "exit") /\ halted'
  BY DEF ExitProcess
<1>2. Mover(t) /\ ~called[t] /\ Current(t).op = "exit"
  BY <1>1, AtStatementMoves
<1>3. UNCHANGED <<kernelVars, test, pc, called, ret, local, loaded>>
  BY DEF ExitProcess
<1>4. OthersStay(t) /\ Ends(t) /\ LivesStay(t)
  BY <1>1, <1>2, <1>3 DEF OthersStay, Ends, LivesStay, kernelVars
<1>5. QueuesShrink(t)
  BY <1>3, QueuesSame DEF kernelVars, syncVars
<1>6. Types'
  BY <1>1, <1>3 DEF Base, Types, kernelVars, syncVars, Sems, Semaphores
<1>7. Counted'
  BY <1>3 DEF Base, Counted, kernelVars, syncVars, Sems, Semaphores
<1> QED
  BY <1>2, <1>4, <1>5, <1>6, <1>7 DEF Frame

\* A task leaves the call that suspended it.
LEMMA ReturnFrame ==
  ASSUME Base, NEW t \in Tasks, Return(t)
  PROVE  /\ Frame(t) /\ LivesStay(t) /\ GoesOn(t) /\ Types' /\ Counted'
         /\ Current(t).op = "task_join" => ret'[t] = exitCode[Current(t).arg]
<1>1. PICK r : Completes(t, r) /\ (Current(t).op = "task_join" => r = exitCode[Current(t).arg])
  BY DEF Return
<1>2. called[t] /\ ~halted /\ Runnable(t)
  BY DEF Return
<1>3. state[t] = "live" /\ Current(t).op \in SuspendOps
  BY <1>2 DEF Base, Suspended
<1>4. t \in Existing
  BY <1>3 DEF Base, Lifetimes
<1>5. Mover(t)
  BY <1>2, <1>3, <1>4 DEF Mover
<1>6. UNCHANGED <<kernelVars, test, dataVars>> /\ called' = [called EXCEPT ![t] = FALSE]
  BY DEF Return
<1>7. Current(t).op \notin {"task_exit", "exit"} /\ test' = test /\ halted' = halted
  BY <1>3, <1>6 DEF SuspendOps, dataVars
<1>8. /\ OthersStay(t) /\ GoesOn(t) /\ ret'[t] = r
      /\ pc' \in [Tasks -> Nat] /\ called' \in [Tasks -> BOOLEAN] /\ DOMAIN ret' = Tasks
  BY <1>1, <1>2, <1>5, <1>6, <1>7, GoingOn
<1>9. QueuesShrink(t)
  BY <1>6, QueuesSame DEF kernelVars, syncVars
<1>10. LivesStay(t)
  BY <1>3, <1>6 DEF LivesStay, kernelVars, SuspendOps
<1>11. Types'
  BY <1>6, <1>8 DEF Base, Types, kernelVars, syncVars, dataVars, Sems, Semaphores
<1>12. Counted'
  BY <1>6 DEF Base, Counted, kernelVars, syncVars, Sems, Semaphores
<1> QED
  BY <1>1, <1>5, <1>8, <1>9, <1>10, <1>11, <1>12 DEF Frame

\* sem_down takes a token, or puts the caller last in the queue.
LEMMA DownEffect ==
  ASSUME Types, Counted, NEW s \in Sems, NEW t \in Tasks, sem_down(t, s)
  PROVE  /\ value' \in [Sems -> Int] /\ waiting' \in [Sems -> Seq(Tasks)] /\ active' = active
         /\ \A x \in Sems \ {s} : value'[x] = value[x] /\ waiting'[x] = waiting[x]
         /\ value'[s] = IF active[s] THEN value[s] - 1 ELSE value[s]
         /\ Range(waiting'[s]) = Range(waiting[s]) \cup (IF active[s] /\ value[s] <= 0 THEN {t} ELSE {})
         /\ Counted'
<1>1. value[s] \in Int /\ waiting[s] \in Seq(Tasks) /\ active[s] \in BOOLEAN
  BY DEF Types
<1>2. /\ Append(waiting[s], t) \in Seq(Tasks) /\ Len(Append(waiting[s], t)) = Len(waiting[s]) + 1
      /\ Range(Append(waiting[s], t)) = Range(waiting[s]) \cup {t}
  BY <1>1, AppendRange
<1>3. PICK w \in Seq(Tasks) : w = IF active[s] /\ value[s] <= 0 THEN Append(waiting[s], t) ELSE waiting[s]
  BY <1>1, <1>2
<1>4. PICK v \in Int : v = IF active[s] THEN value[s] - 1 ELSE value[s]
  BY <1>1
<1>5. active' = active
  BY DEF sem_down
<1>6. value' = [value EXCEPT ![s] = v]
  BY <1>4 DEF sem_down, SemDown, syncVars, Types
<1>7. waiting' = [waiting EXCEPT ![s] = w]
  BY <1>3 DEF sem_down, SemDown, syncVars, Types
<1>8. /\ value' \in [Sems -> Int] /\ waiting' \in [Sems -> Seq(Tasks)]
      /\ \A x \in Sems \ {s} : value'[x] = value[x] /\ waiting'[x] = waiting[x]
      /\ value'[s] = v /\ waiting'[s] = w
  BY <1>6, <1>7 DEF Types
<1>9. Range(w) = Range(waiting[s]) \cup (IF active[s] /\ value[s] <= 0 THEN {t} ELSE {})
  BY <1>2, <1>3
<1>10. active[s] => Len(w) = IF v < 0 THEN -v ELSE 0
  <2>1. active[s] => Len(waiting[s]) = IF value[s] < 0 THEN -value[s] ELSE 0
    BY DEF Counted
  <2> QED
    BY <1>1, <1>2, <1>3, <1>4, <2>1
<1>11. Counted'
  <2>1. ASSUME NEW x \in Sems, active'[x] PROVE Len(waiting'[x]) = IF value'[x] < 0 THEN -value'[x] ELSE 0
    <3>1. CASE x = s
      BY <1>5, <1>8, <1>10, <2>1, <3>1
    <3>2. CASE x # s
      BY <1>5, <1>8, <2>1, <3>2 DEF Counted
    <3> QED
      BY <3>1, <3>2
  <2> QED
    BY <2>1 DEF Counted, Sems, Semaphores
<1> QED
  BY <1>4, <1>5, <1>8, <1>9, <1>11

\* sem_up gives a token back, to the first of the queue if there is one.
LEMMA UpEffect ==
  ASSUME Types, Counted, NEW s \in Sems, sem_up(s)
  PROVE  /\ value' \in [Sems -> Int] /\ waiting' \in [Sems -> Seq(Tasks)] /\ active' = active
         /\ \A x \in Sems \ {s} : value'[x] = value[x] /\ waiting'[x] = waiting[x]
         /\ value'[s] = IF active[s] THEN value[s] + 1 ELSE value[s]
         /\ Range(waiting'[s]) \subseteq Range(waiting[s])
         /\ active[s] /\ value[s] < 0 => \E h : Range(waiting[s]) \subseteq Range(waiting'[s]) \cup {h}
         /\ ~(active[s] /\ value[s] < 0) => waiting'[s] = waiting[s]
         /\ Counted'
<1>1. value[s] \in Int /\ waiting[s] \in Seq(Tasks) /\ active[s] \in BOOLEAN
  BY DEF Types
<1>2. active[s] => Len(waiting[s]) = IF value[s] < 0 THEN -value[s] ELSE 0
  BY DEF Counted
<1>3. active[s] /\ value[s] < 0 => waiting[s] # <<>>
  BY <1>1, <1>2
<1>4. active[s] /\ value[s] < 0 =>
        /\ Tail(waiting[s]) \in Seq(Tasks) /\ Range(Tail(waiting[s])) \subseteq Range(waiting[s])
        /\ Range(waiting[s]) \subseteq Range(Tail(waiting[s])) \cup {waiting[s][1]}
        /\ Len(Tail(waiting[s])) = Len(waiting[s]) - 1
  <2>1. ASSUME waiting[s] # <<>>
        PROVE  /\ Tail(waiting[s]) \in Seq(Tasks) /\ Range(Tail(waiting[s])) \subseteq Range(waiting[s])
               /\ Range(waiting[s]) \subseteq Range(Tail(waiting[s])) \cup {waiting[s][1]}
               /\ Len(Tail(waiting[s])) = Len(waiting[s]) - 1
    BY <1>1, <2>1, TailRange
  <2> QED
    BY <1>3, <2>1
<1>5. PICK w \in Seq(Tasks) : w = IF active[s] /\ value[s] < 0 THEN Tail(waiting[s]) ELSE waiting[s]
  BY <1>1, <1>4
<1>6. PICK v \in Int : v = IF active[s] THEN value[s] + 1 ELSE value[s]
  BY <1>1
<1>7. active' = active
  BY DEF sem_up
<1>8. value' = [value EXCEPT ![s] = v]
  BY <1>6 DEF sem_up, SemUp, syncVars, Types
<1>9. waiting' = [waiting EXCEPT ![s] = w]
  BY <1>5 DEF sem_up, SemUp, syncVars, Types
<1>10. /\ value' \in [Sems -> Int] /\ waiting' \in [Sems -> Seq(Tasks)]
       /\ \A x \in Sems \ {s} : value'[x] = value[x] /\ waiting'[x] = waiting[x]
       /\ value'[s] = v /\ waiting'[s] = w
  BY <1>8, <1>9 DEF Types
<1>11. /\ Range(w) \subseteq Range(waiting[s])
       /\ active[s] /\ value[s] < 0 => \E h : Range(waiting[s]) \subseteq Range(w) \cup {h}
       /\ ~(active[s] /\ value[s] < 0) => w = waiting[s]
  BY <1>4, <1>5
<1>12. active[s] => Len(w) = IF v < 0 THEN -v ELSE 0
  BY <1>1, <1>2, <1>4, <1>5, <1>6
<1>13. Counted'
  <2>1. ASSUME NEW x \in Sems, active'[x] PROVE Len(waiting'[x]) = IF value'[x] < 0 THEN -value'[x] ELSE 0
    <3>1. CASE x = s
      BY <1>7, <1>10, <1>12, <2>1, <3>1
    <3>2. CASE x # s
      BY <1>7, <1>10, <2>1, <3>2 DEF Counted
    <3> QED
      BY <3>1, <3>2
  <2> QED
    BY <2>1 DEF Counted, Sems, Semaphores
<1> QED
  BY <1>6, <1>7, <1>10, <1>11, <1>13

\* sem_down in a program.
LEMMA DownFrame ==
  ASSUME Base, NEW t \in Tasks, Down(t)
  PROVE  /\ Frame(t) /\ LivesStay(t) /\ Types' /\ Counted' /\ ~called[t]
         /\ LET s == Current(t).arg
            IN  /\ s \in Sems /\ Current(t).op = "sem_down" /\ sem_down(t, s)
                /\ active[s] /\ value[s] <= 0 => IsSuspended(t)
                /\ ~(active[s] /\ value[s] <= 0) => GoesOn(t)
<1>1. PICK s : s = Current(t).arg
  OBVIOUS
<1>2. PICK r : /\ AtStatement(t, "sem_down") /\ sem_down(t, s)
               /\ Calls(t, active[s] /\ value[s] <= 0, r)
  BY <1>1 DEF Down
<1>3. Mover(t) /\ Current(t).op = "sem_down" /\ t \in Existing /\ ~called[t]
  BY <1>2, AtStatementMoves DEF Mover
<1>4. s \in Sems
  BY <1>1, <1>3, StatementRead DEF Base
<1>5. Types /\ Counted
  BY DEF Base
<1>6. active[s] \in BOOLEAN /\ value[s] \in Int
  BY <1>4, <1>5 DEF Types
<1>7. PICK b \in BOOLEAN : b = (active[s] /\ value[s] <= 0)
  BY <1>6
<1>8. /\ OthersStay(t)
      /\ ~b => GoesOn(t)
      /\ b => IsSuspended(t)
      /\ pc' \in [Tasks -> Nat] /\ called' \in [Tasks -> BOOLEAN] /\ DOMAIN ret' = Tasks
  <2>1. Calls(t, b, r)
    BY <1>2, <1>7
  <2>2. "sem_down" \in SuspendOps
    BY DEF SuspendOps
  <2> QED
    BY <1>2, <2>1, <2>2, CallsFrame
<1>9. /\ value' \in [Sems -> Int] /\ waiting' \in [Sems -> Seq(Tasks)] /\ active' = active
      /\ \A x \in Sems \ {s} : value'[x] = value[x] /\ waiting'[x] = waiting[x]
      /\ Range(waiting'[s]) = Range(waiting[s]) \cup (IF active[s] /\ value[s] <= 0 THEN {t} ELSE {})
      /\ Counted'
  BY <1>2, <1>4, <1>5, DownEffect
<1>10. state' = state /\ exitCode' = exitCode /\ joinQueue' = joinQueue /\ sleeping' = sleeping
  BY <1>2 DEF sem_down
<1>11. QueuesShrink(t)
  <2>1. ASSUME NEW x \in Sems, NEW u \in Range(waiting'[x])
        PROVE  u \in Range(waiting[x]) \/ (u = t /\ IsSuspended(t) /\ s = x)
    <3>1. CASE x = s
      BY <1>7, <1>8, <1>9, <2>1, <3>1
    <3>2. CASE x # s
      BY <1>9, <2>1, <3>2
    <3> QED
      BY <3>1, <3>2
  <2> QED
    BY <1>1, <1>3, <1>10, <2>1 DEF QueuesShrink
<1>12. LivesStay(t)
  BY <1>3, <1>10 DEF LivesStay
<1>13. Types'
  BY <1>2, <1>5, <1>8, <1>9, <1>10 DEF Types, Calls, dataVars, Sems, Semaphores
<1> QED
  BY <1>1, <1>2, <1>3, <1>4, <1>7, <1>8, <1>9, <1>11, <1>12, <1>13 DEF Frame

\* sem_up in a program.
LEMMA UpFrame ==
  ASSUME Base, NEW t \in Tasks, Up(t)
  PROVE  /\ Frame(t) /\ LivesStay(t) /\ GoesOn(t) /\ Types' /\ Counted' /\ ~called[t]
         /\ Current(t).arg \in Sems /\ Current(t).op = "sem_up" /\ sem_up(Current(t).arg)
<1>1. PICK s : s = Current(t).arg
  OBVIOUS
<1>2. AtStatement(t, "sem_up") /\ sem_up(s) /\ Calls(t, FALSE, 0)
  BY <1>1 DEF Up
<1>3. Mover(t) /\ Current(t).op = "sem_up" /\ t \in Existing /\ ~called[t]
  BY <1>2, AtStatementMoves DEF Mover
<1>4. s \in Sems
  BY <1>1, <1>3, StatementRead DEF Base
<1>5. Types /\ Counted
  BY DEF Base
<1>6. /\ OthersStay(t) /\ GoesOn(t)
      /\ pc' \in [Tasks -> Nat] /\ called' \in [Tasks -> BOOLEAN] /\ DOMAIN ret' = Tasks
  <2>1. PICK b \in BOOLEAN : b = FALSE
    OBVIOUS
  <2>2. Calls(t, b, 0)
    BY <1>2, <2>1
  <2> QED
    BY <1>2, <2>1, <2>2, CallsFrame
<1>7. /\ value' \in [Sems -> Int] /\ waiting' \in [Sems -> Seq(Tasks)] /\ active' = active
      /\ \A x \in Sems \ {s} : value'[x] = value[x] /\ waiting'[x] = waiting[x]
      /\ Range(waiting'[s]) \subseteq Range(waiting[s])
      /\ Counted'
  BY <1>2, <1>4, <1>5, UpEffect
<1>8. state' = state /\ exitCode' = exitCode /\ joinQueue' = joinQueue /\ sleeping' = sleeping
  BY <1>2 DEF sem_up
<1>9. QueuesShrink(t)
  BY <1>7, <1>8 DEF QueuesShrink
<1>10. LivesStay(t)
  BY <1>3, <1>8 DEF LivesStay
<1>11. Types'
  BY <1>2, <1>5, <1>6, <1>7, <1>8 DEF Types, Calls, dataVars, Sems, Semaphores
<1> QED
  BY <1>1, <1>2, <1>3, <1>4, <1>6, <1>7, <1>9, <1>10, <1>11 DEF Frame

\* sem_destroy in a program.
LEMMA DestroyFrame ==
  ASSUME Base, NEW t \in Tasks, Destroy(t)
  PROVE  /\ Frame(t) /\ LivesStay(t) /\ GoesOn(t) /\ Types' /\ Counted' /\ ~called[t]
         /\ Current(t).arg \in Sems /\ Current(t).op = "sem_destroy"
         /\ \A x \in Sems : active'[x] = (active[x] /\ x # Current(t).arg)
         /\ value' = value
         /\ \A x \in Sems \ {Current(t).arg} : waiting'[x] = waiting[x]
<1>1. PICK s : s = Current(t).arg
  OBVIOUS
<1>2. AtStatement(t, "sem_destroy") /\ sem_destroy(s) /\ Calls(t, FALSE, 0)
  BY <1>1 DEF Destroy
<1>3. Mover(t) /\ Current(t).op = "sem_destroy" /\ t \in Existing /\ ~called[t]
  BY <1>2, AtStatementMoves DEF Mover
<1>4. s \in Sems
  BY <1>1, <1>3, StatementRead DEF Base
<1>5. Types /\ Counted
  BY DEF Base
<1>6. /\ OthersStay(t) /\ GoesOn(t)
      /\ pc' \in [Tasks -> Nat] /\ called' \in [Tasks -> BOOLEAN] /\ DOMAIN ret' = Tasks
  <2>1. PICK b \in BOOLEAN : b = FALSE
    OBVIOUS
  <2>2. Calls(t, b, 0)
    BY <1>2, <2>1
  <2> QED
    BY <1>2, <2>1, <2>2, CallsFrame
<1>7. /\ active' = [active EXCEPT ![s] = FALSE] /\ waiting' = [waiting EXCEPT ![s] = <<>>]
      /\ value' = value /\ state' = state /\ exitCode' = exitCode /\ joinQueue' = joinQueue
      /\ sleeping' = sleeping
  BY <1>2 DEF sem_destroy
<1>8. /\ active' \in [Sems -> BOOLEAN] /\ waiting' \in [Sems -> Seq(Tasks)]
      /\ \A x \in Sems : active'[x] = (active[x] /\ x # s)
      /\ \A x \in Sems \ {s} : waiting'[x] = waiting[x]
      /\ waiting'[s] = <<>>
  <2>1. waiting \in [Sems -> Seq(Tasks)] /\ active \in [Sems -> BOOLEAN]
    BY <1>5 DEF Types
  <2>6. <<>> \in Seq(Tasks)
    OBVIOUS
  <2>2. PICK e \in Seq(Tasks) : e = <<>>
    BY <2>6, Zenon
  <2>3. waiting' = [waiting EXCEPT ![s] = e]
    BY <1>7, <2>2
  <2>4. /\ waiting' \in [Sems -> Seq(Tasks)] /\ waiting'[s] = e
        /\ \A x \in Sems \ {s} : waiting'[x] = waiting[x]
    BY <1>4, <2>1, <2>3
  <2>5. active' \in [Sems -> BOOLEAN] /\ active'[s] = FALSE
        /\ \A x \in Sems \ {s} : active'[x] = active[x]
    BY <1>4, <1>7, <2>1
  <2>7. \A x \in Sems : active[x] \in BOOLEAN
    BY <2>1
  <2>8. ASSUME NEW x \in Sems PROVE active'[x] = (active[x] /\ x # s)
    BY <2>5, <2>7
  <2> QED
    BY <2>2, <2>4, <2>5, <2>8
<1>9. QueuesShrink(t)
  BY <1>7, <1>8, ShortQueues DEF QueuesShrink
<1>10. LivesStay(t)
  BY <1>3, <1>7 DEF LivesStay
<1>11. Types'
  BY <1>2, <1>5, <1>6, <1>7, <1>8 DEF Types, Calls, dataVars, Sems, Semaphores
<1>12. Counted'
  BY <1>5, <1>7, <1>8 DEF Counted, Sems, Semaphores
<1> QED
  BY <1>1, <1>3, <1>4, <1>6, <1>7, <1>8, <1>9, <1>10, <1>11, <1>12 DEF Frame

\* The other statements.
LEMMA BufferFrame ==
  ASSUME Base, NEW t \in Tasks, Buffer(t)
  PROVE  Frame(t) /\ GoesOn(t) /\ Types' /\ Counted'
<1>1. PICK op \in {"random", "write", "advance", "first", "shift", "retreat"} : AtStatement(t, op)
  BY Zenon DEF Buffer
<1>2. Completes(t, ret[t]) /\ UNCHANGED <<kernelVars, test, called, halted>> /\ loaded' = loaded
  BY DEF Buffer, Own
<1>3. DOMAIN local = Tasks /\ DOMAIN loaded = Tasks
  BY DEF Base, Types
<1>4. DOMAIN local' = Tasks
  <2>1. local' = local \/ \E v : local' = [local EXCEPT ![t] = v]
    BY DEF Buffer
  <2> QED
    BY <1>3, <2>1
<1> QED
  BY <1>1, <1>2, <1>3, <1>4, OwnFrame

\* Assignments to globals.
LEMMA GlobalFrame ==
  ASSUME Base, NEW t \in Tasks, Global(t)
  PROVE  Frame(t) /\ GoesOn(t) /\ Types' /\ Counted'
<1>1. PICK op \in {"get", "load", "store"} : AtStatement(t, op)
  BY Zenon DEF Global
<1>2. Completes(t, ret[t]) /\ UNCHANGED <<kernelVars, test, called, halted>>
  BY DEF Global, Own
<1>3. DOMAIN local = Tasks /\ DOMAIN loaded = Tasks
  BY DEF Base, Types
<1>4. DOMAIN local' = Tasks /\ DOMAIN loaded' = Tasks
  <2>1. /\ local' = local \/ \E v : local' = [local EXCEPT ![t] = v]
        /\ loaded' = loaded \/ \E v : loaded' = [loaded EXCEPT ![t] = v]
    BY Zenon DEF Global
  <2> QED
    BY <1>3, <2>1
<1> QED
  BY <1>1, <1>2, <1>4, OwnFrame

\* Statements of a message queue.
LEMMA QueueFrame ==
  ASSUME Base, NEW t \in Tasks, Queue(t)
  PROVE  Frame(t) /\ GoesOn(t) /\ Types' /\ Counted'
<1>1. PICK op, r : op \in {"test", "put", "take", "deactivate"} /\ AtStatement(t, op) /\ Completes(t, r)
  BY Zenon DEF Queue
<1>2. UNCHANGED <<kernelVars, test, called, halted>> /\ local' = local /\ loaded' = loaded
  BY DEF Queue
<1>3. DOMAIN local' = Tasks /\ DOMAIN loaded' = Tasks
  BY <1>2 DEF Base, Types
<1> QED
  BY <1>1, <1>2, <1>3, OwnFrame

\* Statements without an effect.
LEMMA WorkFrame ==
  ASSUME Base, NEW t \in Tasks, Work(t)
  PROVE  Frame(t) /\ GoesOn(t) /\ Types' /\ Counted'
<1>1. PICK op \in {"work", "report", "exit_if_failed"} : AtStatement(t, op)
  BY Zenon DEF Work
<1>2. Completes(t, ret[t]) /\ UNCHANGED <<kernelVars, test, called, halted>>
  BY DEF Work, Own
<1>3. DOMAIN local' = Tasks /\ DOMAIN loaded' = Tasks
  BY DEF Work, Base, Types
<1> QED
  BY <1>1, <1>2, <1>3, OwnFrame

\* Every step of a task is such a step.
LEMMA StepFrame ==
  ASSUME Base, NEW t \in Tasks, Step(t)
  PROVE  Frame(t) /\ Types' /\ Counted'
BY CreateTaskFrame, JoinTaskFrame, SleepFrame, DownFrame, UpFrame, DestroyFrame, ReturnFrame, ExitTaskFrame,
   ExitProcessFrame, BufferFrame, GlobalFrame, QueueFrame, WorkFrame, Zenon DEF Step

\* A step of a task.
LEMMA StepBase ==
  ASSUME Base, NEW t \in Tasks, Step(t)
  PROVE  Base'
<1>1. Frame(t) /\ Types' /\ Counted'
  BY StepFrame
<1>2. Positions' /\ Suspended' /\ Queues' /\ Lifetimes' /\ Joined' /\ Ended'
  BY <1>1, PositionsKept, SuspendedKept, QueuesKept, LifetimesKept, JoinedKept, EndedKept
<1>3. Readable'
  <2>1. test' \in DOMAIN Programs
    BY <1>1 DEF Types
  <2>2. test' = test
    BY <1>1 DEF Frame, OthersStay
  <2> QED
    BY <2>2 DEF Base, Readable, Existing, Created, Program, Legible, main
<1> QED
  BY <1>1, <1>2, <1>3 DEF Base

\* The dispatcher wakes a sleeper.
LEMMA WakeBase ==
  ASSUME Base, NEW t \in Tasks, TimePasses(t)
  PROVE  Base'
<1>1. /\ UNCHANGED <<syncVars, active, state, exitCode, joinQueue, test, pc, called, ret, dataVars>>
      /\ sleeping' \subseteq sleeping
  BY DEF TimePasses, Wake
<1>2. UNCHANGED <<value, waiting, active, state, exitCode, joinQueue, test, pc, called, ret, local, loaded, halted>>
  BY <1>1 DEF syncVars, dataVars
<1>3. \A u : Program(u)' = Program(u) /\ Current(u)' = Current(u)
  BY <1>2 DEF Program, Current
<1>4. Existing' = Existing /\ Created' = Created /\ main' = main
  BY <1>2 DEF Existing, Created, main
<1>5. Types'
  BY <1>1, <1>2 DEF Base, Types, Sems, Semaphores
<1>6. Readable'
  BY <1>2 DEF Base, Readable, Existing, Created, Program, Legible, main
<1>7. Positions' /\ Lifetimes' /\ Suspended'
  BY <1>2, <1>3, <1>4 DEF Base, Positions, Lifetimes, Suspended, SuspendOps
<1>8. Queues'
  BY <1>1, <1>2, <1>3 DEF Base, Queues, Suspends, Sems, Semaphores
<1>9. Counted'
  BY <1>2 DEF Base, Counted, Sems, Semaphores
<1>10. Joined'
  BY <1>2, <1>3, <1>4 DEF Base, Joined, Suspends
<1>11. Ended'
  BY <1>2, <1>3, <1>4 DEF Base, Ended, ExitOps
<1> QED
  BY <1>5, <1>6, <1>7, <1>8, <1>9, <1>10, <1>11 DEF Base

\* The process starts with main alone.
LEMMA InitBase ==
  ASSUME Init
  PROVE  Base
<1>1. test \in DOMAIN Programs /\ Readable
  BY ProgramsAreReadable DEF Init
<1>2. /\ value = Semaphores /\ waiting = [s \in Sems |-> <<>>] /\ active = [s \in Sems |-> TRUE]
      /\ state = [t \in Tasks |-> IF t = main THEN "live" ELSE "none"]
      /\ exitCode = [t \in Tasks |-> 0] /\ joinQueue = [t \in Tasks |-> <<>>] /\ sleeping = {}
  BY DEF Init, KernelInit, SyncInit, Sems
<1>3. /\ pc = [t \in Tasks |-> 1] /\ called = [t \in Tasks |-> FALSE] /\ ret = [t \in Tasks |-> 0]
      /\ local = [t \in Tasks |-> 0] /\ loaded = [t \in Tasks |-> 0] /\ halted = FALSE
  BY DEF Init
<1>4. Semaphores \in [Sems -> Nat]
  BY TestAssumption DEF Sems, Semaphores
<1>5. Types
  <2>1. value \in [Sems -> Int] /\ active \in [Sems -> BOOLEAN]
    BY <1>2, <1>4
  <2>2. <<>> \in Seq(Tasks)
    OBVIOUS
  <2>3. waiting \in [Sems -> Seq(Tasks)] /\ joinQueue \in [Tasks -> Seq(Tasks)]
    BY <1>2, <2>2, Zenon
  <2>4. state \in [Tasks -> {"none", "live", "exited"}] /\ sleeping \subseteq Tasks
    BY <1>2
  <2> QED
    BY <1>1, <1>2, <1>3, <2>1, <2>3, <2>4 DEF Types
<1>6. main \in Tasks /\ Existing \subseteq Tasks /\ main \notin Created /\ Created \subseteq Tasks
  BY <1>1 DEF Readable, Existing
<1>7. Positions
  BY <1>1, <1>3, <1>6 DEF Positions, Readable
<1>8. Lifetimes
  BY <1>1, <1>2, <1>3, <1>6 DEF Lifetimes, Existing, Readable
<1>9. Suspended
  BY <1>3 DEF Suspended
<1>10. Queues
  BY <1>2, ShortQueues DEF Queues
<1>11. Counted
  BY <1>2, <1>4 DEF Counted
<1>12. Joined
  BY <1>3, <1>6 DEF Joined, Suspends
<1>13. Ended
  BY <1>2, <1>3, <1>6 DEF Ended
<1> QED
  BY <1>1, <1>5, <1>7, <1>8, <1>9, <1>10, <1>11, <1>12, <1>13 DEF Base

\* A stuttering step.
LEMMA StutterBase ==
  ASSUME Base, UNCHANGED vars
  PROVE  Base'
BY DEF Base, vars, kernelVars, syncVars, dataVars, Types, Readable, Positions, Lifetimes, Suspended, Queues,
       Counted, Joined, Ended, Suspends, Existing, Created, Program, Current, Legible, main, Sems, Semaphores

\* The state of the tasks hangs together, whatever the interleaving.
THEOREM TasksAreWhereTheyMayBe == Spec => []Base
<1>1. Init => Base
  BY InitBase
<1>2. Base /\ [Next]_vars => Base'
  <2> SUFFICES ASSUME Base, [Next]_vars PROVE Base'
    OBVIOUS
  <2>1. CASE \E t \in Tasks : Step(t) \/ TimePasses(t)
    BY <2>1, StepBase, WakeBase
  <2>2. CASE UNCHANGED vars
    BY <2>2, StutterBase
  <2> QED
    BY <2>1, <2>2 DEF Next
<1> QED
  BY <1>1, <1>2, PTL DEF Spec

------------------------------------------------------------------------------
(* main and its tasks *)

\* Whom main has joined has exited.
LEMMA AllJoined ==
  ASSUME Base, JoinsBefore(Forks(test), MainOf(test), pc[main])
  PROVE  \A u \in Created : state[u] = "exited"
<1>1. Program(main) = MainOf(test) /\ Created = 1 .. Forks(test)
  BY DEF Program, MainOf, Created, Forks, main
<1>2. ASSUME NEW u \in Created PROVE state[u] = "exited"
  <2>1. PICK k \in 1 .. pc[main] - 1 : Program(main)[k].op = "task_join" /\ Program(main)[k].arg = u
    BY <1>1, <1>2, Zenon DEF JoinsBefore
  <2> QED
    BY <2>1 DEF Base, Joined
<1> QED
  BY <1>2

\* Where main ends.
LEMMA MainAtItsEnd ==
  ASSUME Base, halted \/ state[main] = "exited"
  PROVE  pc[main] = Len(MainOf(test))
<1>1. main \in Existing
  BY DEF Existing
<1>2. Current(main).op \in ExitOps \cup {"exit"}
  BY <1>1 DEF Base, Ended
<1>3. pc[main] = Len(Program(main))
  BY <1>1, <1>2, StatementRead DEF Base, ExitOps, MainOps
<1> QED
  BY <1>3 DEF Program, MainOf, main

\* In every test but those of prodcons and mqueue, no task is alive any more, nor about to be
\* created, when main exits or the process does.
THEOREM MainIsTheLast == Spec => []MainOutlivesTasks
<1>1. Base => MainOutlivesTasks
  <2> SUFFICES ASSUME Base, test \notin {"prodcons", "mqueue"}, halted \/ state[main] = "exited"
               PROVE  \A u \in Created : state[u] = "exited"
    BY DEF MainOutlivesTasks
  <2>1. test \in DOMAIN Programs
    BY DEF Base, Types
  <2>2. JoinsBefore(Forks(test), MainOf(test), Len(MainOf(test)))
    BY <2>1, Tests
  <2> QED
    BY <2>2, MainAtItsEnd, AllJoined
<1> QED
  BY <1>1, TasksAreWhereTheyMayBe, PTL

------------------------------------------------------------------------------
(* pingpong-join.c *)

\* A task's step changes the data of no other task.
LEMMA OthersData ==
  ASSUME Base, NEW t \in Tasks, Step(t)
  PROVE  \A u \in Tasks \ {t} : /\ exitCode'[u] = exitCode[u] /\ local'[u] = local[u]
                                /\ loaded'[u] = loaded[u]
<1>1. DOMAIN exitCode = Tasks /\ DOMAIN local = Tasks /\ DOMAIN loaded = Tasks
  BY DEF Base, Types
<1>2. CASE CreateTask(t)
  BY <1>2 DEF CreateTask, task_create, Calls, dataVars
<1>3. CASE JoinTask(t)
  BY <1>3 DEF JoinTask, task_join, Calls, dataVars
<1>4. CASE Sleep(t)
  BY <1>4 DEF Sleep, task_sleep, Calls, dataVars
<1>5. CASE Down(t)
  BY <1>5 DEF Down, sem_down, Calls, dataVars
<1>6. CASE Up(t)
  BY <1>6 DEF Up, sem_up, Calls, dataVars
<1>7. CASE Destroy(t)
  BY <1>7 DEF Destroy, sem_destroy, Calls, dataVars
<1>8. CASE Return(t)
  BY <1>8 DEF Return, kernelVars, dataVars
<1>9. CASE ExitTask(t)
  <2>1. PICK code : Leaves(t, code)
    BY <1>9, Zenon DEF ExitTask
  <2> QED
    BY <1>1, <2>1 DEF Leaves, task_exit, dataVars
<1>10. CASE ExitProcess(t)
  BY <1>10 DEF ExitProcess, kernelVars
<1>11. CASE Buffer(t)
  <2>1. local' = local \/ \E v : local' = [local EXCEPT ![t] = v]
    BY <1>11 DEF Buffer
  <2>2. exitCode' = exitCode /\ loaded' = loaded
    BY <1>11 DEF Buffer, Own, kernelVars
  <2> QED
    BY <1>1, <2>1, <2>2
<1>12. CASE Global(t)
  <2>1. /\ local' = local \/ \E v : local' = [local EXCEPT ![t] = v]
        /\ loaded' = loaded \/ \E v : loaded' = [loaded EXCEPT ![t] = v]
    BY <1>12, Zenon DEF Global
  <2>2. exitCode' = exitCode
    BY <1>12 DEF Global, Own, kernelVars
  <2> QED
    BY <1>1, <2>1, <2>2
<1>13. CASE Queue(t)
  BY <1>13 DEF Queue, kernelVars
<1>14. CASE Work(t)
  BY <1>14 DEF Work, Own, kernelVars
<1> QED
  BY <1>2, <1>3, <1>4, <1>5, <1>6, <1>7, <1>8, <1>9, <1>10, <1>11, <1>12, <1>13, <1>14 DEF Step

\* The statement a step executes, action by action.
LEMMA StepOps ==
  ASSUME Base, NEW t \in Tasks, Step(t)
  PROVE  /\ CreateTask(t) => Current(t).op = "task_create"
         /\ JoinTask(t) => Current(t).op = "task_join"
         /\ Sleep(t) => Current(t).op = "task_sleep"
         /\ Down(t) => Current(t).op = "sem_down"
         /\ Up(t) => Current(t).op = "sem_up"
         /\ Destroy(t) => Current(t).op = "sem_destroy"
         /\ Return(t) => Current(t).op \in SuspendOps /\ called[t]
         /\ ~Return(t) => ~called[t]
         /\ ExitTask(t) => Current(t).op \in ExitOps
         /\ ExitProcess(t) => Current(t).op = "exit"
         /\ Buffer(t) => Current(t).op \in {"random", "write", "advance", "first", "shift", "retreat"}
         /\ Global(t) => Current(t).op \in {"get", "load", "store"}
         /\ Queue(t) => Current(t).op \in {"test", "put", "take", "deactivate"}
         /\ Work(t) => Current(t).op \in {"work", "report", "exit_if_failed"}
<1>1. Return(t) => Current(t).op \in SuspendOps /\ called[t]
  BY DEF Return, Base, Suspended
<1>2. Buffer(t) => /\ Current(t).op \in {"random", "write", "advance", "first", "shift", "retreat"}
                   /\ ~called[t]
  BY DEF Buffer, AtStatement
<1>3. Global(t) => Current(t).op \in {"get", "load", "store"} /\ ~called[t]
  BY DEF Global, AtStatement
<1>4. Queue(t) => Current(t).op \in {"test", "put", "take", "deactivate"} /\ ~called[t]
  BY DEF Queue, AtStatement
<1>5. Work(t) => Current(t).op \in {"work", "report", "exit_if_failed"} /\ ~called[t]
  BY DEF Work, AtStatement
<1>6. ExitTask(t) => Current(t).op \in ExitOps /\ ~called[t]
  BY DEF ExitTask, AtStatement, ExitOps
<1>7. /\ CreateTask(t) => Current(t).op = "task_create" /\ ~called[t]
      /\ JoinTask(t) => Current(t).op = "task_join" /\ ~called[t]
      /\ Sleep(t) => Current(t).op = "task_sleep" /\ ~called[t]
      /\ Down(t) => Current(t).op = "sem_down" /\ ~called[t]
      /\ Up(t) => Current(t).op = "sem_up" /\ ~called[t]
      /\ Destroy(t) => Current(t).op = "sem_destroy" /\ ~called[t]
      /\ ExitProcess(t) => Current(t).op = "exit" /\ ~called[t]
  BY DEF CreateTask, JoinTask, Sleep, Down, Up, Destroy, ExitProcess, AtStatement
<1> QED
  BY <1>1, <1>2, <1>3, <1>4, <1>5, <1>6, <1>7, Zenon DEF Step

\* Every code reported is the one the task took, and main has received those it has asked for.
Codes ==
  test = "join" =>
    /\ \A t \in Created : state[t] = "exited" => exitCode[t] = local[t]
    /\ pc[main] > 1 /\ Program(main)[pc[main] - 1].op = "task_join" =>
         ret[main] = local[Program(main)[pc[main] - 1].arg]

\* A task of pingpong-join.c that exits reports its max.
LEMMA ExitReportsMax ==
  ASSUME Base, test = "join", NEW t \in Created, ExitTask(t)
  PROVE  exitCode'[t] = local[t] /\ local' = local
<1>1. Program(t) = joinBody
  <2>1. Programs[test] = join_main
    BY TestsByName
  <2>2. Created = 1 .. NUMTASKS
    BY <2>1, ForkJoinTests, TestAssumption DEF Created, IsForkJoin
  <2> QED
    BY <2>1, <2>2, ForkJoinTests DEF Program, IsForkJoin
<1>2. t \in Existing /\ t \in Tasks
  BY DEF Existing, Base, Readable
<1>3. pc[t] \in 1 .. 4
  BY <1>1, <1>2, JoinBodyIs DEF Base, Positions
<1>4. Current(t).op \in {"get", "load", "store", "exit_max"}
  <2>1. pc[t] \in 1 .. 3 \/ pc[t] = 4
    BY <1>3
  <2> QED
    BY <1>1, <2>1, JoinBodyIs DEF Current
<1>5. Leaves(t, local[t])
  BY <1>4 DEF ExitTask, AtStatement
<1> QED
  BY <1>2, <1>5 DEF Leaves, task_exit, dataVars, Base, Types

\* A step of pingpong-join.c.
LEMMA CodesStep ==
  ASSUME Base, Codes, NEW t \in Tasks, Step(t)
  PROVE  Codes'
<1>1. Frame(t) /\ Base'
  BY StepFrame, StepBase
<1>2. test' = test /\ t \in Existing /\ state[t] = "live" /\ OthersStay(t)
  BY <1>1 DEF Frame, OthersStay, Mover
<1>3. Created' = Created /\ Program(main)' = Program(main) /\ main' = main
  BY <1>2, OthersKept DEF main
<1>4. Created \subseteq Tasks /\ main \in Tasks
  BY DEF Base, Readable
<1> SUFFICES ASSUME test = "join" PROVE Codes'
  BY <1>2 DEF Codes
<1>5. ASSUME NEW u \in Created, state'[u] = "exited" PROVE exitCode'[u] = local'[u]
  <2>1. CASE u # t
    <3>1. state[u] = "exited"
      BY <1>1, <1>4, <1>5, <2>1 DEF Frame, Creates, Exits, LivesStay, Base, Types
    <3> QED
      BY <1>4, <2>1, <3>1, OthersData DEF Codes
  <2>2. CASE u = t
    <3>1. Exits(t)
      BY <1>1, <1>2, <1>5, <2>2 DEF Frame, Creates, LivesStay, Base, Types
    <3>2. Current(t).op \in ExitOps /\ t # main
      BY <2>2, <3>1 DEF Exits, Base, Readable
    <3>3. ~Work(t) /\ state'[t] = "exited"
      BY <1>2, <1>5, <2>2 DEF Work, Own, kernelVars
    <3>4. ExitTask(t)
      BY <3>2, <3>3, StepOps, Zenon DEF ExitOps, SuspendOps, Step
    <3>5. t \in Created
      BY <2>2
    <3> QED
      BY <2>2, <3>4, <3>5, ExitReportsMax
  <2> QED
    BY <2>1, <2>2
<1>6. ASSUME pc'[main] > 1, Program(main)[pc'[main] - 1].op = "task_join"
      PROVE  ret'[main] = local'[Program(main)[pc'[main] - 1].arg]
  <2>1. pc[main] \in 1 .. Len(Program(main)) /\ pc'[main] \in 1 .. Len(Program(main))
    BY <1>1, <1>3 DEF Base, Positions, Existing
  <2>2. Len(Program(main)) \in Nat
    BY DEF Base, Readable, Existing
  <2>3. PICK k \in 1 .. Len(Program(main)) : k = pc'[main] - 1
    BY <1>6, <2>1, <2>2
  <2>4. PICK u \in Created : u = Program(main)[k].arg
    BY <1>6, <2>3 DEF Base, Readable, Existing, Legible
  <2>5. state'[u] = "exited"
    <3>1. k \in 1 .. pc'[main] - 1
      BY <2>1, <2>2, <2>3
    <3> QED
      BY <1>1, <1>3, <1>6, <2>3, <2>4, <3>1 DEF Base, Joined
  <2>6. CASE t = main
    <3>1. CASE GoesOn(t)
      <4>1. pc[main] = k
        BY <2>1, <2>2, <2>3, <2>6, <3>1 DEF GoesOn
      <4>2. Current(t).op = "task_join" /\ Current(t).arg = u
        BY <1>6, <2>3, <2>4, <2>6, <4>1 DEF Current
      <4>3. JoinTask(t) \/ Return(t)
        BY <4>2, StepOps, Zenon DEF ExitOps, SuspendOps, Step
      <4>4. ret'[t] = exitCode[u] /\ exitCode' = exitCode
        <5>1. ret'[t] = exitCode[u]
          BY <3>1, <4>2, <4>3, JoinTaskFrame, ReturnFrame
        <5>2. exitCode' = exitCode
          BY <4>3 DEF JoinTask, task_join, Return, kernelVars
        <5> QED
          BY <5>1, <5>2
      <4>5. exitCode'[u] = local'[u]
        BY <1>5, <2>5
      <4> QED
        BY <2>3, <2>4, <2>6, <4>4, <4>5
    <3>2. CASE pc'[t] = pc[t] /\ ret'[t] = ret[t]
      <4>1. ret[main] = local[u]
        BY <1>6, <2>3, <2>4, <2>6, <3>2 DEF Codes
      <4>2. u \in Tasks \ {t}
        BY <2>6, <1>4 DEF Base, Readable
      <4> QED
        BY <2>3, <2>4, <2>6, <3>2, <4>1, <4>2, OthersData
    <3> QED
      BY <1>1, <3>1, <3>2 DEF Frame, IsSuspended, Ends
  <2>7. CASE t # main
    <3>1. pc'[main] = pc[main] /\ ret'[main] = ret[main]
      BY <1>2, <1>4, <2>7 DEF OthersStay
    <3>2. ret[main] = local[u]
      BY <1>6, <2>3, <2>4, <3>1 DEF Codes
    <3>3. state[u] = "exited"
      <4>1. k \in 1 .. pc[main] - 1
        BY <2>1, <2>2, <2>3, <3>1
      <4> QED
        BY <1>6, <2>3, <2>4, <4>1 DEF Base, Joined
    <3>4. u \in Tasks \ {t}
      BY <1>2, <1>4, <3>3
    <3> QED
      BY <2>3, <2>4, <3>1, <3>2, <3>4, OthersData
  <2> QED
    BY <2>6, <2>7
<1> QED
  BY <1>3, <1>5, <1>6 DEF Codes

\* The code task_join gives to main is the max of the joined task, which has exited.
THEOREM JoinGivesMax == Spec => []JoinReportsMax
<1>1. Init => Codes
  <2> SUFFICES ASSUME Init PROVE Codes
    OBVIOUS
  <2>1. Base /\ pc = [t \in Tasks |-> 1] /\ state = [t \in Tasks |-> IF t = main THEN "live" ELSE "none"]
    BY InitBase DEF Init, KernelInit
  <2>2. main \in Tasks /\ main \notin Created /\ Created \subseteq Tasks
    BY <2>1 DEF Base, Readable
  <2> QED
    BY <2>1, <2>2 DEF Codes
<1>2. Base /\ Codes /\ [Next]_vars => Codes'
  <2> SUFFICES ASSUME Base, Codes, [Next]_vars PROVE Codes'
    OBVIOUS
  <2>1. ASSUME NEW t \in Tasks, Step(t) PROVE Codes'
    BY <2>1, CodesStep
  <2>2. ASSUME NEW t \in Tasks, TimePasses(t) PROVE Codes'
    BY <2>2 DEF TimePasses, Wake, dataVars, Codes, Created, Program, main
  <2>3. CASE UNCHANGED vars
    BY <2>3 DEF vars, kernelVars, dataVars, Codes, Created, Program, main
  <2> QED
    BY <2>1, <2>2, <2>3 DEF Next
<1>3. Base /\ Codes => JoinReportsMax
  <2> SUFFICES ASSUME Base, Codes, test = "join", pc[main] > 1, Program(main)[pc[main] - 1].op = "task_join"
               PROVE  LET joined == Program(main)[pc[main] - 1].arg
                      IN  state[joined] = "exited" /\ ret[main] = local[joined]
    BY DEF JoinReportsMax
  <2>1. pc[main] \in Nat
    BY DEF Base, Types, Readable
  <2>2. pc[main] - 1 \in 1 .. pc[main] - 1
    BY <2>1
  <2> QED
    BY <2>2 DEF Codes, Base, Joined
<1> QED
  BY <1>1, <1>2, <1>3, TasksAreWhereTheyMayBe, PTL DEF Spec

------------------------------------------------------------------------------
(* Tokens: at most one task between its sem_down and its sem_up *)

\* The task is past its sem_down, which may not have returned yet, and at one of the statements
\* ops, the last of which is its sem_up.
Holds(t, ops) ==
  /\ state[t] = "live"
  /\ \/ Current(t).op \in ops
     \/ called[t] /\ Current(t).op = "sem_down" /\ t \notin Range(waiting[Current(t).arg])
OneHolder(ops) == \A t, u \in Created : Holds(t, ops) /\ Holds(u, ops) => t = u
NoHolder(ops) == \A t \in Created : ~Holds(t, ops)

\* One token for all the semaphores s: one of them has it, or a task.
Token(s, ops) ==
  /\ OneHolder(ops)
  /\ \A x \in s : value[x] <= 1 /\ (value[x] = 1 => NoHolder(ops))
  /\ \A x, y \in s : value[x] = 1 /\ value[y] = 1 => x = y

\* A program that takes the token, executes ops and gives the token to one of s, again and again.
Cycle(p, s, ops) ==
  /\ \A k \in 1 .. Len(p) :
       /\ p[k].op \in {"sem_down", "task_exit"} \cup ops
       /\ p[k].op \in {"sem_down", "sem_up"} => p[k].arg \in s
       /\ p[k].op = "sem_down" => k # Len(p) /\ p[k + 1].op \in ops
       /\ p[k].op = "sem_up" => k # Len(p) /\ p[k + 1].op \notin ops
  /\ p[1].op \notin ops
\* The tasks of the test run such programs.
Cycles(s, ops) ==
  /\ s \subseteq Sems /\ "sem_up" \in ops /\ ops \subseteq {"task_sleep", "load", "store", "sem_up"}
  /\ test # "mqueue" /\ \A u \in Created : Cycle(Program(u), s, ops)

\* Nobody else gets hold of the token, unless a sem_up resumes him.
LEMMA HolderKept ==
  ASSUME Base, NEW s, NEW ops, Cycles(s, ops), NEW t, Frame(t), NEW u \in Created, u # t, Holds(u, ops)'
  PROVE  \/ Holds(u, ops)
         \/ \E a \in s : u \in Range(waiting[a]) /\ u \notin Range(waiting'[a])
<1>1. t \in Existing /\ OthersStay(t) /\ u \in Tasks /\ u \in Existing
  BY DEF Frame, Mover, Base, Readable, Existing
<1>2. Current(u)' = Current(u) /\ called'[u] = called[u] /\ pc'[u] = pc[u]
  BY <1>1, OthersKept
<1>3. state'[u] = "live"
  BY DEF Holds
<1>4. Cycle(Program(u), s, ops)
  BY DEF Cycles
<1>5. state[u] # "none"
  <2>1. SUFFICES ASSUME state[u] = "none" PROVE FALSE
    OBVIOUS
  <2>2. pc[u] = 1 /\ ~called[u]
    BY <1>1, <2>1 DEF Base, Lifetimes
  <2>3. Current(u).op \notin ops
    BY <1>4, <2>2 DEF Cycle, Current
  <2> QED
    BY <1>2, <2>2, <2>3 DEF Holds
<1>6. state[u] = "live"
  BY <1>1, <1>3, <1>5, ExitedStay DEF Base, Types
<1>7. CASE Current(u).op \in ops
  BY <1>6, <1>7 DEF Holds
<1>8. CASE called[u] /\ Current(u).op = "sem_down" /\ u \notin Range(waiting'[Current(u).arg])
  <2>1. Current(u).arg \in s
    BY <1>1, <1>4, <1>8 DEF Cycle, Current, Base, Positions
  <2> QED
    BY <1>6, <1>8, <2>1 DEF Holds
<1> QED
  BY <1>2, <1>7, <1>8 DEF Holds

\* A step that neither takes nor gives the token.
LEMMA TokenStays ==
  ASSUME Base, NEW s, NEW ops, Cycles(s, ops), Token(s, ops), NEW t, Frame(t),
         \A x \in s : Range(waiting[x]) \subseteq Range(waiting'[x]),
         \A x \in s : value'[x] = value[x] \/ value'[x] < 0,
         t \in Created /\ Holds(t, ops)' => Holds(t, ops), Types'
  PROVE  Token(s, ops)'
<1>1. Created' = Created
  BY OthersKept DEF Frame, Mover
<1>2. ASSUME NEW u \in Created, Holds(u, ops)' PROVE Holds(u, ops)
  <2>1. CASE u = t
    BY <1>2, <2>1
  <2>2. CASE u # t
    BY <1>2, <2>2, HolderKept
  <2> QED
    BY <2>1, <2>2
<1>3. \A x \in s : value[x] \in Int
  BY DEF Base, Types, Cycles
<1>4. OneHolder(ops)'
  BY <1>1, <1>2 DEF Token, OneHolder
<1>5. NoHolder(ops) => NoHolder(ops)'
  BY <1>1, <1>2 DEF NoHolder
<1>6. ASSUME NEW x \in s PROVE value'[x] <= 1 /\ (value'[x] = 1 => value[x] = 1)
  <2>1. value[x] \in Int /\ value[x] <= 1 /\ (value'[x] = value[x] \/ value'[x] < 0)
    BY <1>3 DEF Token
  <2>2. CASE value'[x] = value[x]
    BY <2>1, <2>2
  <2>3. CASE value'[x] < 0
    <3>1. value'[x] \in Int
      BY DEF Types, Cycles
    <3> QED
      BY <2>3, <3>1
  <2> QED
    BY <2>1, <2>2, <2>3
<1> QED
  BY <1>4, <1>5, <1>6 DEF Token

\* The token is taken from a semaphore.
LEMMA TokenTaken ==
  ASSUME Base, NEW s, NEW ops, Cycles(s, ops), Token(s, ops), NEW t, Frame(t), NEW x \in s,
         value[x] > 0, value'[x] = value[x] - 1, \A y \in s \ {x} : value'[y] = value[y],
         \A y \in s : Range(waiting[y]) \subseteq Range(waiting'[y])
  PROVE  Token(s, ops)'
<1>1. Created' = Created
  BY OthersKept DEF Frame, Mover
<1>2. \A y \in s : value[y] \in Int
  BY DEF Base, Types, Cycles
<1>3. value[x] = 1 /\ NoHolder(ops)
  BY <1>2 DEF Token
<1>4. ASSUME NEW u \in Created, Holds(u, ops)' PROVE u = t
  BY <1>3, <1>4, HolderKept DEF NoHolder
<1>5. OneHolder(ops)'
  BY <1>1, <1>4 DEF OneHolder
<1>6. \A y \in s : value'[y] <= 1 /\ value'[y] # 1
  BY <1>2, <1>3 DEF Token
<1> QED
  BY <1>5, <1>6 DEF Token

\* The token is given, to a semaphore or to the task that waits there.
LEMMA TokenGiven ==
  ASSUME Base, NEW s, NEW ops, Cycles(s, ops), Token(s, ops), NEW t \in Created, Frame(t), NEW x \in s,
         Holds(t, ops), ~Holds(t, ops)', value'[x] = value[x] + 1,
         \A y \in s \ {x} : value'[y] = value[y] /\ waiting'[y] = waiting[y],
         value[x] < 0 => \E h : Range(waiting[x]) \subseteq Range(waiting'[x]) \cup {h},
         ~(value[x] < 0) => waiting'[x] = waiting[x]
  PROVE  Token(s, ops)'
<1>1. Created' = Created
  BY OthersKept DEF Frame, Mover
<1>2. \A y \in s : value[y] \in Int
  BY DEF Base, Types, Cycles
<1>3. \A y \in s : value[y] <= 0
  <2>1. \A y \in s : value[y] <= 1 /\ value[y] # 1
    BY DEF Token, NoHolder
  <2> QED
    BY <1>2, <2>1
<1>4. \A u \in Created : Holds(u, ops) => u = t
  BY DEF Token, OneHolder
<1>5. \A y \in s : value'[y] <= 1 /\ (value'[y] = 1 => y = x /\ value[x] = 0)
  BY <1>2, <1>3
<1>6. ASSUME NEW u \in Created, Holds(u, ops)'
      PROVE  value[x] < 0 /\ u \in Range(waiting[x]) /\ u \notin Range(waiting'[x])
  <2>1. u # t
    BY <1>6
  <2>2. PICK a \in s : u \in Range(waiting[a]) /\ u \notin Range(waiting'[a])
    BY <1>4, <1>6, <2>1, HolderKept
  <2>3. a = x
    BY <2>2
  <2> QED
    BY <2>2, <2>3
<1>7. CASE value[x] < 0
  <2>1. PICK h : Range(waiting[x]) \subseteq Range(waiting'[x]) \cup {h}
    BY <1>7
  <2>2. \A u \in Created : Holds(u, ops)' => u = h
    BY <1>6, <2>1
  <2>3. OneHolder(ops)'
    BY <1>1, <2>2 DEF OneHolder
  <2>4. \A y \in s : value'[y] # 1
    BY <1>2, <1>5, <1>7
  <2> QED
    BY <1>5, <2>3, <2>4 DEF Token
<1>8. CASE ~(value[x] < 0)
  <2>1. NoHolder(ops)'
    BY <1>1, <1>6, <1>8 DEF NoHolder
  <2>2. OneHolder(ops)'
    BY <2>1 DEF OneHolder, NoHolder
  <2> QED
    BY <1>5, <2>1, <2>2 DEF Token
<1> QED
  BY <1>7, <1>8

\* The semaphores change in their own calls only.
LEMMA SemsKept ==
  ASSUME NEW t \in Tasks, Step(t), ~Down(t), ~Up(t), ~Destroy(t)
  PROVE  value' = value /\ waiting' = waiting /\ active' = active
<1>1. CASE CreateTask(t)
  BY <1>1 DEF CreateTask, task_create, syncVars
<1>2. CASE JoinTask(t)
  BY <1>2 DEF JoinTask, task_join, syncVars
<1>3. CASE Sleep(t)
  BY <1>3 DEF Sleep, task_sleep, syncVars
<1>4. CASE Return(t)
  BY <1>4 DEF Return, kernelVars, syncVars
<1>5. CASE ExitTask(t)
  <2>1. PICK code : Leaves(t, code)
    BY <1>5, Zenon DEF ExitTask
  <2> QED
    BY <2>1 DEF Leaves, task_exit, syncVars
<1>6. CASE ExitProcess(t)
  BY <1>6 DEF ExitProcess, kernelVars, syncVars
<1>7. CASE Buffer(t)
  BY <1>7 DEF Buffer, Own, kernelVars, syncVars
<1>8. CASE Global(t)
  BY <1>8 DEF Global, Own, kernelVars, syncVars
<1>9. CASE Queue(t)
  BY <1>9 DEF Queue, kernelVars, syncVars
<1>10. CASE Work(t)
  BY <1>10 DEF Work, Own, kernelVars, syncVars
<1> QED
  BY <1>1, <1>2, <1>3, <1>4, <1>5, <1>6, <1>7, <1>8, <1>9, <1>10 DEF Step

\* Whatever step a task of the program takes, there is one token.
LEMMA TokenStep ==
  ASSUME Base, NEW s, NEW ops, Cycles(s, ops), Token(s, ops), NEW t \in Tasks, Step(t),
         \A x \in s : active[x] /\ active'[x]
  PROVE  Token(s, ops)'
<1>1. Frame(t) /\ Types'
  BY StepFrame
<1>2. t \in Existing /\ state[t] = "live" /\ (called[t] => Runnable(t)) /\ OthersStay(t)
  BY <1>1 DEF Frame, Mover
<1>3. s \subseteq Sems /\ "sem_up" \in ops /\ ops \subseteq {"task_sleep", "load", "store", "sem_up"}
  BY DEF Cycles
<1>4. t \in Created =>
        /\ Current(t).op \in {"sem_down", "task_exit"} \cup ops
        /\ Current(t).op \in {"sem_down", "sem_up"} => Current(t).arg \in s
        /\ Current(t).op = "sem_up" => /\ pc[t] # Len(Program(t))
                                      /\ Program(t)[pc[t] + 1].op \notin ops
  BY <1>2 DEF Cycles, Cycle, Current, Base, Positions
<1>5. DOMAIN waiting = Sems /\ \A x \in Sems : value[x] \in Int
  BY DEF Base, Types
<1>6. CASE Down(t)
  <2>1. PICK x : x = Current(t).arg
    OBVIOUS
  <2>2. /\ x \in Sems /\ Current(t).op = "sem_down" /\ sem_down(t, x) /\ ~called[t]
        /\ active[x] /\ value[x] <= 0 => IsSuspended(t)
        /\ ~(active[x] /\ value[x] <= 0) => GoesOn(t)
    BY <1>6, <2>1, DownFrame
  <2>3. t \in Created
    BY <1>2, <2>2, StatementRead DEF Base, Existing, MainOps
  <2>4. x \in s /\ active[x]
    BY <1>4, <2>1, <2>2, <2>3
  <2>5. /\ \A y \in Sems \ {x} : value'[y] = value[y] /\ waiting'[y] = waiting[y]
        /\ value'[x] = value[x] - 1
        /\ Range(waiting'[x]) = Range(waiting[x]) \cup (IF value[x] <= 0 THEN {t} ELSE {})
    BY <2>2, <2>4, DownEffect DEF Base
  <2>6. \A y \in s : Range(waiting[y]) \subseteq Range(waiting'[y])
    BY <1>3, <2>5
  <2>7. \A y \in s \ {x} : value'[y] = value[y]
    BY <1>3, <2>5
  <2>8. value[x] \in Int
    BY <1>5, <2>2
  <2>9. CASE value[x] <= 0
    <3>1. IsSuspended(t) /\ t \in Range(waiting'[x])
      BY <2>2, <2>4, <2>5, <2>9
    <3>2. Current(t)' = Current(t)
      BY <1>2, <3>1, OthersKept DEF IsSuspended
    <3>3. ~Holds(t, ops)'
      BY <1>3, <2>1, <2>2, <3>1, <3>2 DEF Holds
    <3>4. \A y \in s : value'[y] = value[y] \/ value'[y] < 0
      BY <2>5, <2>7, <2>8, <2>9
    <3> QED
      BY <1>1, <2>6, <3>3, <3>4, TokenStays
  <2>10. CASE value[x] > 0
    BY <1>1, <2>4, <2>5, <2>6, <2>7, <2>10, TokenTaken
  <2> QED
    BY <2>8, <2>9, <2>10
<1>7. CASE Up(t)
  <2>1. PICK x : x = Current(t).arg
    OBVIOUS
  <2>2. GoesOn(t) /\ x \in Sems /\ Current(t).op = "sem_up" /\ sem_up(x)
    BY <1>7, <2>1, UpFrame
  <2>3. t \in Created
    BY <1>2, <2>2, StatementRead DEF Base, Existing, MainOps
  <2>4. x \in s /\ active[x]
    BY <1>4, <2>1, <2>2, <2>3
  <2>5. Holds(t, ops)
    BY <1>2, <1>3, <2>2 DEF Holds
  <2>6. ~Holds(t, ops)'
    <3>1. pc'[t] = pc[t] + 1 /\ ~called'[t]
      BY <1>4, <2>2, <2>3 DEF GoesOn, Cycles
    <3>2. Current(t)' = Program(t)[pc[t] + 1]
      BY <1>2, <3>1 DEF Current, Program, OthersStay
    <3> QED
      BY <1>4, <2>2, <2>3, <3>1, <3>2 DEF Holds
  <2>7. /\ \A y \in Sems \ {x} : value'[y] = value[y] /\ waiting'[y] = waiting[y]
        /\ value'[x] = value[x] + 1
        /\ value[x] < 0 => \E h : Range(waiting[x]) \subseteq Range(waiting'[x]) \cup {h}
        /\ ~(value[x] < 0) => waiting'[x] = waiting[x]
    BY <2>2, <2>4, UpEffect DEF Base
  <2>8. \A y \in s \ {x} : value'[y] = value[y] /\ waiting'[y] = waiting[y]
    BY <1>3, <2>7
  <2> QED
    BY <1>1, <2>3, <2>4, <2>5, <2>6, <2>7, <2>8, TokenGiven
<1>8. CASE ~Down(t) /\ ~Up(t)
  <2>1. \A x \in s : value'[x] = value[x] /\ Range(waiting[x]) \subseteq Range(waiting'[x])
    <3>1. CASE Destroy(t)
      <4>1. /\ value' = value
            /\ \A x \in Sems : active'[x] = (active[x] /\ x # Current(t).arg)
            /\ \A x \in Sems \ {Current(t).arg} : waiting'[x] = waiting[x]
        BY <3>1, DestroyFrame
      <4>2. \A x \in s : x # Current(t).arg
        BY <1>3, <4>1
      <4> QED
        BY <1>3, <4>1, <4>2
    <3>2. CASE ~Destroy(t)
      BY <1>8, <3>2, SemsKept
    <3> QED
      BY <3>1, <3>2
  <2>2. ASSUME t \in Created, Holds(t, ops)' PROVE Holds(t, ops)
    <3>1. CASE Current(t).op \in ops
      BY <1>2, <3>1 DEF Holds
    <3>2. CASE Current(t).op = "sem_down"
      <4>1. called[t]
        BY <1>8, <3>2, StepOps, Zenon DEF ExitOps, Step
      <4>2. t \notin Range(waiting[Current(t).arg])
        BY <1>2, <1>3, <1>4, <1>5, <2>2, <3>2, <4>1 DEF Runnable, Blocked
      <4> QED
        BY <1>2, <3>2, <4>1, <4>2 DEF Holds
    <3>3. CASE Current(t).op = "task_exit"
      <4>1. ExitTask(t)
        BY <3>3, StepOps, Zenon DEF SuspendOps, Step
      <4>2. Exits(t)
        BY <4>1, ExitTaskFrame
      <4>3. state'[t] = "exited"
        BY <4>2 DEF Exits, Base, Types
      <4> QED
        BY <2>2, <4>3 DEF Holds
    <3> QED
      BY <1>4, <2>2, <3>1, <3>2, <3>3
  <2> QED
    BY <1>1, <2>1, <2>2, TokenStays
<1> QED
  BY <1>6, <1>7, <1>8

------------------------------------------------------------------------------
(* pingpong-semaphore.c *)

\* Remainders go round.
LEMMA Remainders3 ==
  ASSUME NEW x \in Nat, NEW n \in Nat
  PROVE  /\ x % 3 = 0 => (x + 1) % 3 = 1
         /\ x % 3 = 1 => (x + 1) % 3 = 2
         /\ x % 3 = 2 => (x + 1) % 3 = 0
         /\ (n * 3) % 3 = 0 /\ x % 3 \in 0 .. 2
OBVIOUS

\* The same for 4.
LEMMA Remainders4 ==
  ASSUME NEW x \in Nat, NEW n \in Nat
  PROVE  /\ x % 4 = 0 => (x + 1) % 4 = 1
         /\ x % 4 = 1 => (x + 1) % 4 = 2
         /\ x % 4 = 2 => (x + 1) % 4 = 3
         /\ x % 4 = 3 => (x + 1) % 4 = 0
         /\ (n * 4) % 4 = 0 /\ x % 4 \in 0 .. 3
OBVIOUS

\* The statements of a task that has the turn, and the semaphores that pass it on.
TurnOps == {"task_sleep", "sem_up"}
TurnSems == {"s1", "s2"}

\* Its tasks take a turn and give it away.
LEMMA TurnCycle ==
  ASSUME NEW p \in {TaskA, TaskB}
  PROVE  Cycle(p, TurnSems, TurnOps)
<1>1. PICK s1, s2 : TurnOf(p, s1, s2)
  BY DEF TurnOf
<1>2. s1 \in TurnSems /\ s2 \in TurnSems
  BY <1>1 DEF TurnSems, TurnOf
<1>3. PICK n \in Nat : n = Rounds * 3
  BY TestAssumption
<1>4. /\ Len(p) = n + 1
      /\ \A k \in 1 .. n :
           \/ (k - 1) % 3 = 0 /\ p[k].op = "sem_down" /\ p[k].arg = s1
           \/ (k - 1) % 3 = 1 /\ p[k].op = "task_sleep" /\ p[k].arg = {1}
           \/ (k - 1) % 3 = 2 /\ p[k].op = "sem_up" /\ p[k].arg = s2
      /\ p[n + 1].op = "task_exit"
  <2>1. TurnLoop(p, Rounds * 3, s1, s2)
    BY <1>1, SemaphoreBodies, Zenon
  <2>2. TurnLoop(p, n, s1, s2)
    BY <1>3, <2>1
  <2> QED
    BY <2>2, Zenon DEF TurnLoop
<1>5. ASSUME NEW k \in 1 .. n
      PROVE  /\ k + 1 \in 1 .. n + 1 /\ k # n + 1
             /\ (k - 1) % 3 = 0 => k % 3 = 1 /\ k # n
             /\ (k - 1) % 3 = 1 => k % 3 = 2 /\ k # n
             /\ (k - 1) % 3 = 2 => k % 3 = 0
             /\ k # n => k + 1 \in 1 .. n /\ (k + 1) - 1 = k
  <2>1. PICK x \in Nat : x = k - 1
    OBVIOUS
  <2>2. x + 1 = k
    BY <2>1
  <2>3. n % 3 = 0
    BY <1>3, Remainders3, TestAssumption
  <2>4. /\ x % 3 = 0 => k % 3 = 1
        /\ x % 3 = 1 => k % 3 = 2
        /\ x % 3 = 2 => k % 3 = 0
    BY <2>2, Remainders3
  <2>5. /\ k + 1 \in 1 .. n + 1 /\ k # n + 1
        /\ k # n => k + 1 \in 1 .. n /\ (k + 1) - 1 = k
    OBVIOUS
  <2> QED
    BY <2>1, <2>3, <2>4, <2>5
<1>6. ASSUME NEW k \in 1 .. n
      PROVE  /\ p[k].op \in {"sem_down", "task_sleep", "sem_up"}
             /\ p[k].op \in {"sem_down", "sem_up"} => p[k].arg \in TurnSems
             /\ p[k].op = "sem_down" => p[k + 1].op = "task_sleep"
             /\ p[k].op = "sem_up" => p[k + 1].op \in {"sem_down", "task_exit"}
  <2>1. \/ (k - 1) % 3 = 0 /\ p[k].op = "sem_down" /\ p[k].arg = s1
        \/ (k - 1) % 3 = 1 /\ p[k].op = "task_sleep" /\ p[k].arg = {1}
        \/ (k - 1) % 3 = 2 /\ p[k].op = "sem_up" /\ p[k].arg = s2
    BY <1>4
  <2>2. CASE k # n
    <3>1. k + 1 \in 1 .. n /\ (k + 1) - 1 = k
      BY <1>5, <2>2
    <3>2. PICK j \in 1 .. n : j = k + 1 /\ j - 1 = k
      BY <3>1
    <3>3. \/ k % 3 = 0 /\ p[j].op = "sem_down"
          \/ k % 3 = 1 /\ p[j].op = "task_sleep"
          \/ k % 3 = 2 /\ p[j].op = "sem_up"
      BY <1>4, <3>2
    <3> QED
      BY <1>2, <1>5, <2>1, <3>2, <3>3
  <2>3. CASE k = n
    <3>1. (k - 1) % 3 = 2 /\ p[k].op = "sem_up" /\ p[k].arg = s2
      BY <1>5, <2>1, <2>3
    <3> QED
      BY <1>2, <1>4, <2>3, <3>1
  <2> QED
    BY <2>2, <2>3
<1>7. p[1].op \notin TurnOps
  <2>1. CASE n = 0
    BY <1>4, <2>1 DEF TurnOps
  <2>2. CASE n # 0
    <3>1. 1 \in 1 .. n
      BY <2>2
    <3>2. (1 - 1) % 3 = 0
      OBVIOUS
    <3> QED
      BY <1>4, <3>1, <3>2 DEF TurnOps
  <2> QED
    BY <2>1, <2>2
<1>8. ASSUME NEW k \in 1 .. Len(p)
      PROVE  /\ p[k].op \in {"sem_down", "task_exit"} \cup TurnOps
             /\ p[k].op \in {"sem_down", "sem_up"} => p[k].arg \in TurnSems
             /\ p[k].op = "sem_down" => k # Len(p) /\ p[k + 1].op \in TurnOps
             /\ p[k].op = "sem_up" => k # Len(p) /\ p[k + 1].op \notin TurnOps
  <2>1. k \in 1 .. n \/ k = n + 1
    BY <1>4
  <2>2. CASE k \in 1 .. n
    BY <1>4, <1>5, <1>6, <2>2 DEF TurnOps
  <2>3. CASE k = n + 1
    BY <1>4, <2>3
  <2> QED
    BY <2>1, <2>2, <2>3
<1> QED
  BY <1>7, <1>8 DEF Cycle

\* The semaphores that a program names.
LEMMA CycleSems == TurnSems \subseteq Sems /\ "s" \in Sems
BY SemNames DEF TurnSems

\* All four do.
LEMMA TurnCycles ==
  ASSUME test = "semaphore"
  PROVE  Cycles(TurnSems, TurnOps) /\ SemaphoreStatements(Program(main))
<1>1. Programs[test] = semaphore
  BY TestsByName
<1>2. Created = 1 .. 4 /\ Program(main) = semaphore[1]
  <2>1. Len(semaphore) - 1 = 4 /\ main + 1 = 1
    BY SemaphoreTest DEF main
  <2>2. Created = 1 .. 4
    BY <1>1, <2>1, Zenon DEF Created
  <2>3. Program(main) = semaphore[1]
    BY <1>1, <2>1, Zenon DEF Program
  <2> QED
    BY <2>2, <2>3
<1>3. ASSUME NEW u \in Created PROVE Cycle(Program(u), TurnSems, TurnOps)
  <2>1. u = 1 \/ u = 2 \/ u = 3 \/ u = 4
    BY <1>2
  <2>2. Program(u) \in {TaskA, TaskB}
    BY <1>1, <2>1, SemaphoreTest DEF Program
  <2> QED
    BY <2>2, TurnCycle
<1> QED
  BY <1>2, <1>3, CycleSems, SemaphoreTest DEF Cycles, TurnOps

\* As long as s1 exists, so does s2, and there is one token.
Turns ==
  test = "semaphore" /\ active["s1"] =>
    pc[main] <= 6 /\ active["s2"] /\ Token(TurnSems, TurnOps)

\* A step of pingpong-semaphore.c.
LEMMA TurnsStep ==
  ASSUME Base, Turns, NEW t \in Tasks, Step(t)
  PROVE  Turns'
<1>1. Frame(t) /\ Types'
  BY StepFrame
<1>2. test' = test /\ t \in Existing /\ OthersStay(t) /\ main \in Tasks /\ main' = main
  BY <1>1 DEF Frame, OthersStay, Mover, Base, Readable, main
<1> SUFFICES ASSUME test = "semaphore", active'["s1"]
             PROVE  pc'[main] <= 6 /\ active'["s2"] /\ Token(TurnSems, TurnOps)'
  BY <1>2 DEF Turns
<1>3. Cycles(TurnSems, TurnOps) /\ SemaphoreStatements(Program(main))
  BY TurnCycles
<1>4. "s1" \in Sems /\ "s2" \in Sems
  BY CycleSems DEF TurnSems
<1>5. active' = active \/ Destroy(t)
  BY SemsKept, DownFrame, UpFrame, DownEffect, UpEffect DEF Base
<1>6. active["s1"]
  BY <1>4, <1>5, DestroyFrame
<1>7. pc[main] <= 6 /\ active["s2"] /\ Token(TurnSems, TurnOps)
  BY <1>6 DEF Turns
<1>8. pc[main] \in Nat /\ 1 <= pc[main]
  BY DEF Base, Types, Positions, Existing, Readable
<1>9. pc[main] = 1 \/ pc[main] = 2 \/ pc[main] = 3 \/ pc[main] = 4 \/ pc[main] = 5 \/ pc[main] = 6
  BY <1>7, <1>8
<1>10. /\ Current(main).op \in {"task_create", "task_join", "sem_destroy"}
       /\ pc[main] = 6 => Current(main).op = "sem_destroy"
       /\ Current(main).op = "sem_destroy" => Current(main).arg = "s1"
  BY <1>3, <1>9 DEF SemaphoreStatements, Current
<1>11. ~Destroy(t)
  <2>1. SUFFICES ASSUME Destroy(t) PROVE FALSE
    OBVIOUS
  <2>2. /\ Current(t).op = "sem_destroy"
        /\ \A x \in Sems : active'[x] = (active[x] /\ x # Current(t).arg)
    BY <2>1, DestroyFrame
  <2>3. t \notin Created
    <3>1. t \in Created => Current(t).op \in {"sem_down", "task_exit"} \cup TurnOps
      BY <1>2, <1>3 DEF Cycles, Cycle, Current, Base, Positions
    <3> QED
      BY <2>2, <3>1 DEF TurnOps
  <2>4. t = main
    BY <1>2, <2>3 DEF Existing
  <2> QED
    BY <1>4, <1>10, <2>2, <2>4
<1>12. active' = active
  BY <1>5, <1>11
<1>13. Token(TurnSems, TurnOps)'
  <2>1. \A x \in TurnSems : active[x] /\ active'[x]
    BY <1>6, <1>7, <1>12 DEF TurnSems
  <2> QED
    BY <1>3, <1>7, <2>1, TokenStep
<1>14. pc'[main] <= 6
  <2>1. CASE pc'[main] = pc[main]
    BY <1>7, <2>1
  <2>2. CASE pc'[main] # pc[main]
    <3>1. t = main /\ pc'[main] = pc[main] + 1
      BY <1>1, <1>2, <2>2 DEF OthersStay, Frame, GoesOn, IsSuspended, Ends
    <3>2. pc[main] # 6
      BY <1>10, <1>11, <3>1, StepOps, Zenon DEF ExitOps, SuspendOps, Step
    <3> QED
      BY <1>7, <1>8, <3>1, <3>2
  <2> QED
    BY <2>1, <2>2
<1> QED
  BY <1>7, <1>12, <1>13, <1>14

\* As long as its semaphores exist, one turn goes round.
THEOREM OneTurnGoesRound == Spec => []OneTurn
<1>1. Init => Turns
  <2> SUFFICES ASSUME Init, test = "semaphore" PROVE pc[main] <= 6 /\ active["s2"] /\ Token(TurnSems, TurnOps)
    BY DEF Turns
  <2>1. Base
    BY InitBase
  <2>2. /\ value = Semaphores /\ active = [s \in Sems |-> TRUE] /\ pc = [t \in Tasks |-> 1]
        /\ state = [t \in Tasks |-> IF t = main THEN "live" ELSE "none"]
    BY DEF Init, KernelInit, SyncInit, Sems
  <2>3. main \in Tasks /\ main \notin Created /\ Created \subseteq Tasks
    BY <2>1 DEF Base, Readable
  <2>4. NoHolder(TurnOps)
    BY <2>2, <2>3 DEF NoHolder, Holds
  <2>5. value["s1"] = 1 /\ value["s2"] = 0
    <3>1. "s1" \in Mutexes /\ "s2" \notin Mutexes /\ "s2" \notin Vacancies
      BY DEF Mutexes, Vacancies, Range, sBuffer, sVaga
    <3> QED
      BY <2>2, <3>1, CycleSems DEF Semaphores, Sems, TurnSems
  <2>6. Token(TurnSems, TurnOps)
    BY <2>4, <2>5 DEF Token, OneHolder, NoHolder, TurnSems
  <2> QED
    BY <2>2, <2>3, <2>6, CycleSems DEF TurnSems
<1>2. Base /\ Turns /\ [Next]_vars => Turns'
  <2> SUFFICES ASSUME Base, Turns, [Next]_vars PROVE Turns'
    OBVIOUS
  <2>1. ASSUME NEW t \in Tasks, Step(t) PROVE Turns'
    BY <2>1, TurnsStep
  <2>2. ASSUME UNCHANGED <<test, active, pc, value, waiting, state, called>> PROVE Turns'
    BY <2>2 DEF Turns, Token, OneHolder, NoHolder, Holds, Created, Current, Program, main, TurnSems, TurnOps
  <2>3. ASSUME NEW t \in Tasks, TimePasses(t) PROVE Turns'
    BY <2>2, <2>3 DEF TimePasses, Wake, syncVars
  <2>4. CASE UNCHANGED vars
    BY <2>2, <2>4 DEF vars, kernelVars, syncVars
  <2> QED
    BY <2>1, <2>3, <2>4 DEF Next
<1>3. Base /\ Turns => OneTurn
  BY DEF Turns, OneTurn, Token, OneHolder, Holds, TurnOps
<1> QED
  BY <1>1, <1>2, <1>3, TasksAreWhereTheyMayBe, PTL DEF Spec

------------------------------------------------------------------------------
(* pingpong-racecond.c *)

\* The statements of a task that adds, and the semaphore that admits it.
SumOps == {"load", "store", "sem_up"}
SumSems == {"s"}

\* Where a task stores its r-th addition.
StoreAt(r) == 4 * (r - 1) + 3

\* The third of every four statements.
LEMMA EveryFourth ==
  ASSUME NEW k \in Nat, k >= 1, k <= Rounds * 4
  PROVE  (k - 1) % 4 = 2 <=> \E r \in 1 .. Rounds : k = StoreAt(r)
<1>1. Rounds \in Nat
  BY TestAssumption
<1>2. ASSUME (k - 1) % 4 = 2 PROVE \E r \in 1 .. Rounds : k = StoreAt(r)
  <2>1. PICK q \in Int : q = (k - 1) \div 4
    OBVIOUS
  <2>2. k - 1 = 4 * q + 2
    BY <1>2, <2>1
  <2>3. q + 1 \in 1 .. Rounds /\ k = 4 * ((q + 1) - 1) + 3
    BY <1>1, <2>2
  <2> QED
    BY <2>3 DEF StoreAt
<1>3. ASSUME NEW r \in 1 .. Rounds, k = StoreAt(r) PROVE (k - 1) % 4 = 2
  BY <1>1, <1>3 DEF StoreAt
<1> QED
  BY <1>2, <1>3

\* What the tasks do.
SumBody(p) ==
  /\ Len(p) = Rounds * 4 + 1
  /\ \A k \in 1 .. Len(p) :
       /\ p[k].op = "task_exit" <=> k = Len(p)
       /\ p[k].op = "store" <=> \E r \in 1 .. Rounds : k = StoreAt(r)
       /\ p[k].op \in {"load", "store"} => p[k].arg = "soma"
       /\ k # Len(p) /\ p[k + 1].op = "store" => p[k].op = "load"

\* The bodies of the model do that, and take a token before they add.
LEMMA SumCycle == Cycle(taskBody, SumSems, SumOps) /\ SumBody(taskBody)
<1>1. PICK p : p = taskBody
  OBVIOUS
<1>2. PICK n \in Nat : n = Rounds * 4
  BY TestAssumption
<1>3. /\ Len(p) = n + 1
      /\ \A k \in 1 .. n :
           \/ (k - 1) % 4 = 0 /\ p[k].op = "sem_down" /\ p[k].arg = "s"
           \/ (k - 1) % 4 = 1 /\ p[k].op = "load" /\ p[k].arg = "soma"
           \/ (k - 1) % 4 = 2 /\ p[k].op = "store" /\ p[k].arg = "soma"
           \/ (k - 1) % 4 = 3 /\ p[k].op = "sem_up" /\ p[k].arg = "s"
      /\ p[n + 1].op = "task_exit"
  BY <1>1, <1>2, RacecondBody, Zenon
<1>4. ASSUME NEW k \in 1 .. n
      PROVE  /\ k + 1 \in 1 .. n + 1 /\ k # n + 1
             /\ (k - 1) % 4 = 0 => k % 4 = 1 /\ k # n
             /\ (k - 1) % 4 = 1 => k % 4 = 2 /\ k # n
             /\ (k - 1) % 4 = 2 => k % 4 = 3 /\ k # n
             /\ (k - 1) % 4 = 3 => k % 4 = 0
             /\ k # n => k + 1 \in 1 .. n /\ (k + 1) - 1 = k
  <2>1. PICK x \in Nat : x = k - 1
    OBVIOUS
  <2>2. x + 1 = k
    BY <2>1
  <2>3. n % 4 = 0
    BY <1>2, Remainders4, TestAssumption
  <2>4. /\ x % 4 = 0 => k % 4 = 1
        /\ x % 4 = 1 => k % 4 = 2
        /\ x % 4 = 2 => k % 4 = 3
        /\ x % 4 = 3 => k % 4 = 0
    BY <2>2, Remainders4
  <2>5. /\ k + 1 \in 1 .. n + 1 /\ k # n + 1
        /\ k # n => k + 1 \in 1 .. n /\ (k + 1) - 1 = k
    OBVIOUS
  <2> QED
    BY <2>1, <2>3, <2>4, <2>5
<1>5. ASSUME NEW k \in 1 .. n
      PROVE  /\ p[k].op \in {"sem_down", "load", "store", "sem_up"}
             /\ p[k].op \in {"sem_down", "sem_up"} => p[k].arg = "s"
             /\ p[k].op \in {"load", "store"} => p[k].arg = "soma"
             /\ p[k].op = "sem_down" => p[k + 1].op = "load"
             /\ p[k].op = "load" => p[k + 1].op = "store"
             /\ p[k].op = "store" => p[k + 1].op = "sem_up"
             /\ p[k].op = "sem_up" => p[k + 1].op \in {"sem_down", "task_exit"}
             /\ p[k].op = "store" <=> (k - 1) % 4 = 2
  <2>1. \/ (k - 1) % 4 = 0 /\ p[k].op = "sem_down" /\ p[k].arg = "s"
        \/ (k - 1) % 4 = 1 /\ p[k].op = "load" /\ p[k].arg = "soma"
        \/ (k - 1) % 4 = 2 /\ p[k].op = "store" /\ p[k].arg = "soma"
        \/ (k - 1) % 4 = 3 /\ p[k].op = "sem_up" /\ p[k].arg = "s"
    BY <1>3
  <2>2. CASE k # n
    <3>1. k + 1 \in 1 .. n /\ (k + 1) - 1 = k
      BY <1>4, <2>2
    <3>2. PICK j \in 1 .. n : j = k + 1 /\ j - 1 = k
      BY <3>1
    <3>3. \/ k % 4 = 0 /\ p[j].op = "sem_down"
          \/ k % 4 = 1 /\ p[j].op = "load"
          \/ k % 4 = 2 /\ p[j].op = "store"
          \/ k % 4 = 3 /\ p[j].op = "sem_up"
      BY <1>3, <3>2
    <3> QED
      BY <1>4, <2>1, <3>2, <3>3
  <2>3. CASE k = n
    <3>1. (k - 1) % 4 = 3 /\ p[k].op = "sem_up" /\ p[k].arg = "s"
      BY <1>4, <2>1, <2>3
    <3> QED
      BY <1>3, <2>3, <3>1
  <2> QED
    BY <2>2, <2>3
<1>6. p[1].op \notin SumOps
  <2>1. CASE n = 0
    BY <1>3, <2>1 DEF SumOps
  <2>2. CASE n # 0
    <3>1. 1 \in 1 .. n
      BY <2>2
    <3>2. (1 - 1) % 4 = 0
      OBVIOUS
    <3> QED
      BY <1>3, <3>1, <3>2 DEF SumOps
  <2> QED
    BY <2>1, <2>2
<1>7. ASSUME NEW k \in 1 .. Len(p)
      PROVE  /\ p[k].op \in {"sem_down", "task_exit"} \cup SumOps
             /\ p[k].op \in {"sem_down", "sem_up"} => p[k].arg \in SumSems
             /\ p[k].op = "sem_down" => k # Len(p) /\ p[k + 1].op \in SumOps
             /\ p[k].op = "sem_up" => k # Len(p) /\ p[k + 1].op \notin SumOps
             /\ p[k].op = "task_exit" <=> k = Len(p)
             /\ p[k].op \in {"load", "store"} => p[k].arg = "soma"
             /\ k # Len(p) /\ p[k + 1].op = "store" => p[k].op = "load"
  <2>1. k \in 1 .. n \/ k = n + 1
    BY <1>3
  <2>2. CASE k \in 1 .. n
    <3>1. Len(p) = n + 1 /\ k # n + 1
      BY <1>3, <1>4, <2>2
    <3> QED
      BY <1>5, <2>2, <3>1 DEF SumOps, SumSems
  <2>3. CASE k = n + 1
    BY <1>3, <2>3
  <2> QED
    BY <2>1, <2>2, <2>3
<1>8. ASSUME NEW k \in 1 .. Len(p)
      PROVE  p[k].op = "store" <=> \E r \in 1 .. Rounds : k = StoreAt(r)
  <2>1. k \in 1 .. n \/ k = n + 1
    BY <1>3
  <2>2. CASE k \in 1 .. n
    <3>1. k \in Nat /\ k >= 1 /\ k <= Rounds * 4
      BY <1>2, <2>2
    <3>2. (k - 1) % 4 = 2 <=> \E r \in 1 .. Rounds : k = StoreAt(r)
      BY <3>1, EveryFourth
    <3> QED
      BY <1>5, <2>2, <3>2
  <2>3. CASE k = n + 1
    <3>1. \A r \in 1 .. Rounds : StoreAt(r) < n + 1
      BY <1>2, TestAssumption DEF StoreAt
    <3>2. \A r \in 1 .. Rounds : k # StoreAt(r)
      BY <2>3, <3>1
    <3> QED
      BY <1>3, <2>3, <3>2
  <2> QED
    BY <2>1, <2>2, <2>3
<1> QED
  BY <1>1, <1>2, <1>3, <1>6, <1>7, <1>8 DEF Cycle, SumBody

\* All of them do; main destroys s and reports the sum once it has joined them.
LEMMA SumCycles ==
  ASSUME test = "racecond"
  PROVE  /\ Cycles(SumSems, SumOps) /\ Created = 1 .. NUMTASKS
         /\ \A u \in Created : SumBody(Program(u))
         /\ \A j \in 1 .. Len(Program(main)) :
              Program(main)[j].op \in {"sem_destroy", "report"} => JoinsBefore(Forks(test), MainOf(test), j)
<1>1. Programs[test] = racecond
  BY TestsByName
<1>2. Forks(test) = NUMTASKS /\ MainOf(test) = racecond[1]
  <2>1. Len(racecond) - 1 = NUMTASKS
    BY RacecondTest, TestAssumption
  <2> QED
    BY <1>1, <2>1, Zenon DEF Forks, MainOf
<1>3. Created = 1 .. NUMTASKS
  BY <1>2 DEF Created, Forks
<1>4. Program(main) = racecond[1]
  <2>1. main + 1 = 1
    BY DEF main
  <2> QED
    BY <1>1, <2>1, Zenon DEF Program
<1>5. \A u \in Created : Program(u) = taskBody
  BY <1>1, <1>3, RacecondTest DEF Program
<1>6. Cycles(SumSems, SumOps) /\ \A u \in Created : SumBody(Program(u))
  BY <1>5, SumCycle, CycleSems DEF Cycles, SumOps, SumSems
<1>7. \A j \in 1 .. Len(Program(main)) :
        Program(main)[j].op \in {"sem_destroy", "report"} => JoinsBefore(Forks(test), MainOf(test), j)
  BY <1>2, <1>4, RacecondTest
<1> QED
  BY <1>3, <1>6, <1>7

\* The additions that have been stored.
Added == {x \in Created \X (1 .. Rounds) : pc[x[1]] > StoreAt(x[2])}

\* s lasts as long as the tasks, who add to soma one after another.
Sum ==
  test = "racecond" =>
    /\ IF active["s"] THEN Token(SumSems, SumOps) ELSE \A t \in Created : state[t] = "exited"
    /\ \A t \in Created : Current(t).op = "store" => loaded[t] = shared["soma"]
    /\ shared["soma"] = Cardinality(Added) /\ "soma" \in DOMAIN shared

\* The globals change in stores only.
LEMMA SharedKept ==
  ASSUME Base, NEW t \in Tasks, Step(t), Current(t).op # "store"
  PROVE  shared' = shared
<1>1. CASE CreateTask(t)
  BY <1>1 DEF CreateTask, Calls, dataVars
<1>2. CASE JoinTask(t)
  BY <1>2 DEF JoinTask, Calls, dataVars
<1>3. CASE Sleep(t)
  BY <1>3 DEF Sleep, Calls, dataVars
<1>4. CASE Down(t)
  BY <1>4 DEF Down, Calls, dataVars
<1>5. CASE Up(t)
  BY <1>5 DEF Up, Calls, dataVars
<1>6. CASE Destroy(t)
  BY <1>6 DEF Destroy, Calls, dataVars
<1>7. CASE Return(t)
  BY <1>7 DEF Return, dataVars
<1>8. CASE ExitTask(t)
  <2>1. PICK code : Leaves(t, code)
    BY <1>8, Zenon DEF ExitTask
  <2> QED
    BY <2>1 DEF Leaves, dataVars
<1>9. CASE ExitProcess(t)
  BY <1>9 DEF ExitProcess
<1>10. CASE Buffer(t)
  BY <1>10 DEF Buffer
<1>11. CASE Global(t)
  BY <1>11 DEF Global, AtStatement
<1>12. CASE Queue(t)
  BY <1>12 DEF Queue
<1>13. CASE Work(t)
  BY <1>13 DEF Work
<1> QED
  BY <1>1, <1>2, <1>3, <1>4, <1>5, <1>6, <1>7, <1>8, <1>9, <1>10, <1>11, <1>12, <1>13 DEF Step

\* Where the tasks of pingpong-racecond.c are.
LEMMA SumStatement ==
  ASSUME Base, test = "racecond", NEW t \in Created
  PROVE  /\ t \in Tasks /\ t \in Existing /\ t # main
         /\ pc[t] \in 1 .. Len(Program(t)) /\ Len(Program(t)) = Rounds * 4 + 1
         /\ Current(t).op \in {"sem_down", "task_exit"} \cup SumOps
         /\ Current(t).op = "task_exit" <=> pc[t] = Len(Program(t))
         /\ Current(t).op = "store" <=> \E r \in 1 .. Rounds : pc[t] = StoreAt(r)
         /\ Current(t).op \in {"load", "store"} => Current(t).arg = "soma"
         /\ pc[t] # Len(Program(t)) /\ Program(t)[pc[t] + 1].op = "store" => Current(t).op = "load"
<1>1. t \in Tasks /\ t \in Existing /\ t # main
  BY DEF Base, Readable, Existing
<1>2. pc[t] \in 1 .. Len(Program(t))
  BY <1>1 DEF Base, Positions
<1>3. SumBody(Program(t)) /\ Cycle(Program(t), SumSems, SumOps)
  BY SumCycles DEF Cycles
<1> QED
  BY <1>1, <1>2, <1>3 DEF SumBody, Cycle, Current

\* They go from each statement to the next.
LEMMA SumMoves ==
  ASSUME Base, test = "racecond", NEW t \in Created, Step(t)
  PROVE  /\ pc'[t] = pc[t] \/ (pc'[t] = pc[t] + 1 /\ pc[t] # Len(Program(t)))
         /\ Current(t).op \in {"load", "store"} => Global(t) /\ pc'[t] = pc[t] + 1
<1>1. t \in Tasks
  BY SumStatement
<1>2. CASE pc[t] = Len(Program(t))
  <2>1. Current(t).op = "task_exit"
    BY <1>2, SumStatement
  <2>2. ExitTask(t)
    BY <1>1, <2>1, StepOps, Zenon DEF SuspendOps, Step
  <2>3. Exits(t)
    BY <1>1, <2>2, ExitTaskFrame
  <2> QED
    BY <2>1, <2>3 DEF Exits, Ends
<1>3. CASE pc[t] # Len(Program(t))
  <2>1. pc'[t] = pc[t] \/ pc'[t] = pc[t] + 1
    BY <1>1, <1>3, StepFrame DEF Frame, GoesOn, IsSuspended, Ends
  <2>2. ASSUME Current(t).op \in {"load", "store"} PROVE Global(t) /\ pc'[t] = pc[t] + 1
    <3>1. Global(t)
      BY <1>1, <2>2, StepOps, Zenon DEF SuspendOps, ExitOps, Step
    <3>2. GoesOn(t)
      BY <1>1, <3>1, GlobalFrame
    <3> QED
      BY <1>3, <3>1, <3>2 DEF GoesOn
  <2> QED
    BY <1>3, <2>1, <2>2
<1> QED
  BY <1>2, <1>3

\* The set that is counted is finite.
LEMMA AddedFinite ==
  ASSUME Base, test = "racecond"
  PROVE  IsFiniteSet(Added)
<1>1. IsFiniteSet(Created) /\ IsFiniteSet(1 .. Rounds)
  BY SumCycles, FS_Interval, TestAssumption
<1>2. IsFiniteSet(Created \X (1 .. Rounds))
  BY <1>1, FS_Product
<1> QED
  BY <1>2, FS_Subset DEF Added

\* s lasts as long as the tasks.
LEMMA SumTokenStep ==
  ASSUME Base, Sum, test = "racecond", NEW t \in Tasks, Step(t)
  PROVE  /\ active'["s"] => Token(SumSems, SumOps)'
         /\ ~active'["s"] => \A u \in Created : state'[u] = "exited"
<1>1. Frame(t) /\ Types'
  BY StepFrame
<1>2. "s" \in Sems /\ Created \subseteq Tasks /\ active \in [Sems -> BOOLEAN]
  BY CycleSems DEF Base, Readable, Types
<1>3. active' = active \/ Destroy(t)
  BY SemsKept, DownFrame, UpFrame, DownEffect, UpEffect DEF Base
<1>4. active'["s"] => active["s"]
  BY <1>2, <1>3, DestroyFrame
<1>5. CASE ~active["s"]
  <2>1. \A u \in Created : state[u] = "exited"
    BY <1>5 DEF Sum
  <2>2. \A u \in Created : state'[u] = "exited"
    BY <1>1, <1>2, <2>1, ExitedStay
  <2> QED
    BY <1>4, <1>5, <2>2
<1>6. CASE active["s"] /\ active'["s"]
  <2>1. Token(SumSems, SumOps) /\ Cycles(SumSems, SumOps)
    BY <1>6, SumCycles DEF Sum
  <2>2. \A x \in SumSems : active[x] /\ active'[x]
    BY <1>6 DEF SumSems
  <2>3. Token(SumSems, SumOps)'
    BY <2>1, <2>2, TokenStep
  <2> QED
    BY <1>6, <2>3
<1>7. CASE active["s"] /\ ~active'["s"]
  <2>1. Destroy(t)
    BY <1>3, <1>7
  <2>2. Current(t).op = "sem_destroy" /\ t \in Existing
    BY <1>1, <2>1, DestroyFrame DEF Frame, Mover
  <2>3. t = main
    BY <2>2, SumStatement DEF Existing, SumOps
  <2>4. pc[main] \in 1 .. Len(Program(main)) /\ Program(main)[pc[main]].op = "sem_destroy"
    BY <2>2, <2>3 DEF Base, Positions, Current
  <2>5. JoinsBefore(Forks(test), MainOf(test), pc[main])
    BY <2>4, SumCycles
  <2>6. \A u \in Created : state[u] = "exited"
    BY <2>5, AllJoined
  <2>7. \A u \in Created : state'[u] = "exited"
    BY <1>1, <1>2, <2>6, ExitedStay
  <2> QED
    BY <1>7, <2>7
<1> QED
  BY <1>5, <1>6, <1>7

\* Whoever is about to store has read the latest sum.
LEMMA SumLoadedStep ==
  ASSUME Base, Sum, test = "racecond", NEW t \in Tasks, Step(t), NEW u \in Created,
         Current(u)'.op = "store"
  PROVE  loaded'[u] = shared'["soma"]
<1>1. Frame(t) /\ Types' /\ OthersStay(t) /\ t \in Existing /\ state[t] = "live"
  BY StepFrame DEF Frame, Mover
<1>2. u \in Tasks /\ u \in Existing
  BY SumStatement
<1>3. CASE u # t
  <2>1. Current(u).op = "store" /\ loaded'[u] = loaded[u]
    BY <1>1, <1>2, <1>3, OthersKept, OthersData
  <2>2. loaded[u] = shared["soma"]
    BY <2>1 DEF Sum
  <2>3. Current(t).op # "store"
    <3>1. SUFFICES ASSUME Current(t).op = "store" PROVE FALSE
      OBVIOUS
    <3>2. t \in Created
      <4>1. t = main => Current(t).op \in MainOps \cup {"task_create", "task_exit", "exit"}
        BY <1>1, StatementRead DEF Base
      <4> QED
        BY <1>1, <3>1, <4>1 DEF Existing, MainOps
    <3>3. Token(SumSems, SumOps)
      BY <1>1, <3>2 DEF Sum
    <3>4. state[u] = "live"
      <4>1. state[u] # "exited"
        BY <1>2, <2>1 DEF Base, Ended, ExitOps
      <4>2. state[u] # "none"
        <5>1. Program(u)[1].op # "store"
          BY SumCycles DEF Cycles, Cycle, SumOps
        <5> QED
          BY <1>2, <2>1, <5>1 DEF Base, Lifetimes, Current
      <4> QED
        BY <1>2, <4>1, <4>2 DEF Base, Types
    <3>5. Holds(t, SumOps) /\ Holds(u, SumOps)
      BY <1>1, <2>1, <3>1, <3>4 DEF Holds, SumOps
    <3> QED
      BY <1>3, <3>2, <3>3, <3>5 DEF Token, OneHolder
  <2> QED
    BY <2>1, <2>2, <2>3, SharedKept
<1>4. CASE u = t
  <2>1. t \in Created
    BY <1>4
  <2>2. pc'[t] # pc[t]
    <3>1. SUFFICES ASSUME pc'[t] = pc[t] PROVE FALSE
      OBVIOUS
    <3>2. Current(t).op = "store"
      BY <1>1, <1>4, <3>1, OthersKept
    <3>3. pc'[t] = pc[t] + 1 /\ pc[t] \in Nat
      BY <2>1, <3>2, SumMoves DEF Base, Types
    <3> QED
      BY <3>1, <3>3
  <2>3. pc'[t] = pc[t] + 1 /\ pc[t] # Len(Program(t))
    BY <2>1, <2>2, SumMoves
  <2>4. Current(t)' = Program(t)[pc[t] + 1]
    BY <1>1, <2>3 DEF Current, Program, OthersStay
  <2>5. Current(t).op = "load" /\ Current(t).arg = "soma"
    BY <1>4, <2>1, <2>3, <2>4, SumStatement
  <2>6. Global(t)
    BY <2>1, <2>5, SumMoves
  <2>7. loaded' = [loaded EXCEPT ![t] = shared["soma"]] /\ shared' = shared
    BY <2>5, <2>6 DEF Global, AtStatement
  <2> QED
    BY <1>4, <2>7 DEF Base, Types
<1> QED
  BY <1>3, <1>4

\* The sum counts the stores.
LEMMA SumCountStep ==
  ASSUME Base, Sum, test = "racecond", NEW t \in Tasks, Step(t)
  PROVE  shared'["soma"] = Cardinality(Added') /\ "soma" \in DOMAIN shared'
<1>1. Frame(t) /\ OthersStay(t) /\ t \in Existing /\ Created' = Created
  BY StepFrame, OthersKept DEF Frame, Mover
<1>2. \A u \in Created : u \in Tasks
  BY SumStatement
<1>3. \A u \in Created : u # t => pc'[u] = pc[u]
  BY <1>1, <1>2 DEF OthersStay
<1>4. shared["soma"] = Cardinality(Added) /\ "soma" \in DOMAIN shared
  BY DEF Sum
<1>5. Added' = {x \in Created \X (1 .. Rounds) : pc'[x[1]] > StoreAt(x[2])}
  BY <1>1 DEF Added, StoreAt
<1>6. CASE Current(t).op = "store"
  <2>1. t \in Created
    <3>1. t = main => Current(t).op \in MainOps \cup {"task_create", "task_exit", "exit"}
      BY <1>1, StatementRead DEF Base
    <3> QED
      BY <1>1, <1>6, <3>1 DEF Existing, MainOps
  <2>2. PICK r \in 1 .. Rounds : pc[t] = StoreAt(r)
    BY <1>6, <2>1, SumStatement
  <2>3. pc'[t] = pc[t] + 1 /\ Global(t) /\ Current(t).arg = "soma"
    BY <1>6, <2>1, SumMoves, SumStatement
  <2>4. <<t, r>> \notin Added
    BY <2>2, TestAssumption DEF Added, StoreAt
  <2>5. \A q \in 1 .. Rounds : pc'[t] > StoreAt(q) <=> pc[t] > StoreAt(q) \/ q = r
    BY <2>2, <2>3, TestAssumption DEF StoreAt
  <2>6. Added' = Added \cup {<<t, r>>}
    <3>1. ASSUME NEW u \in Created, NEW q \in 1 .. Rounds
          PROVE  <<u, q>> \in Added' <=> <<u, q>> \in Added \/ <<u, q>> = <<t, r>>
      <4>1. CASE u = t
        BY <1>5, <2>5, <4>1 DEF Added
      <4>2. CASE u # t
        BY <1>3, <1>5, <4>2 DEF Added
      <4> QED
        BY <4>1, <4>2
    <3>2. Added' \subseteq Created \X (1 .. Rounds) /\ Added \subseteq Created \X (1 .. Rounds)
      BY <1>5 DEF Added
    <3> QED
      BY <2>1, <3>1, <3>2
  <2>7. Cardinality(Added') = Cardinality(Added) + 1
    BY <2>4, <2>6, AddedFinite, FS_AddElement
  <2>8. shared' = [shared EXCEPT !["soma"] = loaded[t] + 1]
    BY <1>6, <2>3 DEF Global, AtStatement
  <2>9. loaded[t] = shared["soma"]
    BY <1>6, <2>1 DEF Sum
  <2> QED
    BY <1>4, <2>7, <2>8, <2>9
<1>7. CASE Current(t).op # "store"
  <2>1. shared' = shared
    BY <1>7, SharedKept
  <2>2. ASSUME NEW u \in Created, NEW q \in 1 .. Rounds
        PROVE  pc'[u] > StoreAt(q) <=> pc[u] > StoreAt(q)
    <3>1. CASE u = t
      <4>1. pc'[t] = pc[t] \/ pc'[t] = pc[t] + 1
        BY <3>1, SumMoves
      <4>2. pc[t] # StoreAt(q)
        BY <1>7, <3>1, SumStatement
      <4>3. pc[t] \in Nat
        BY DEF Base, Types
      <4> QED
        BY <3>1, <4>1, <4>2, <4>3, TestAssumption DEF StoreAt
    <3>2. CASE u # t
      BY <1>3, <3>2
    <3> QED
      BY <3>1, <3>2
  <2>3. Added' = Added
    BY <1>5, <2>2 DEF Added
  <2> QED
    BY <1>4, <2>1, <2>3
<1> QED
  BY <1>6, <1>7

\* No addition to soma is lost.
THEOREM SumIsNumTasksTimesRounds == Spec => []SumIsRight
<1>1. Init => Sum
  <2> SUFFICES ASSUME Init, test = "racecond"
               PROVE  /\ active["s"] /\ Token(SumSems, SumOps)
                      /\ \A t \in Created : Current(t).op # "store"
                      /\ shared["soma"] = Cardinality(Added) /\ "soma" \in DOMAIN shared
    BY DEF Sum
  <2>1. Base
    BY InitBase
  <2>2. /\ value = Semaphores /\ active = [s \in Sems |-> TRUE] /\ pc = [t \in Tasks |-> 1]
        /\ state = [t \in Tasks |-> IF t = main THEN "live" ELSE "none"]
        /\ shared = [soma |-> 0, Limite |-> 3]
    BY DEF Init, KernelInit, SyncInit, Sems
  <2>3. main \in Tasks /\ main \notin Created /\ Created \subseteq Tasks
    BY <2>1 DEF Base, Readable
  <2>4. NoHolder(SumOps)
    BY <2>2, <2>3 DEF NoHolder, Holds
  <2>5. value["s"] = 1
    <3>1. "s" \in Mutexes
      BY DEF Mutexes
    <3> QED
      BY <2>2, <3>1, CycleSems DEF Semaphores, Sems
  <2>6. Token(SumSems, SumOps)
    BY <2>4, <2>5 DEF Token, OneHolder, NoHolder, SumSems
  <2>7. ASSUME NEW t \in Created PROVE Current(t).op # "store"
    <3>1. Program(t)[1].op \notin SumOps
      BY SumCycles DEF Cycles, Cycle
    <3> QED
      BY <2>2, <2>3, <3>1 DEF Current, SumOps
  <2>8. Added = {}
    BY <2>2, <2>3, TestAssumption DEF Added, StoreAt
  <2> QED
    BY <2>2, <2>6, <2>7, <2>8, CycleSems, FS_EmptySet
<1>2. Base /\ Sum /\ [Next]_vars => Sum'
  <2> SUFFICES ASSUME Base, Sum, [Next]_vars PROVE Sum'
    OBVIOUS
  <2>1. ASSUME NEW t \in Tasks, Step(t) PROVE Sum'
    <3>1. test' = test /\ Created' = Created
      BY <2>1, StepFrame, OthersKept DEF Frame, OthersStay, Mover
    <3> QED
      BY <2>1, <3>1, SumTokenStep, SumLoadedStep, SumCountStep DEF Sum
  <2>2. ASSUME UNCHANGED <<test, active, pc, value, waiting, state, called, loaded, shared>> PROVE Sum'
    <3>1. Created' = Created /\ Added' = Added
      BY <2>2 DEF Added, StoreAt, Created
    <3>2. Token(SumSems, SumOps)' <=> Token(SumSems, SumOps)
      BY <2>2, <3>1 DEF Token, OneHolder, NoHolder, Holds, Current, Program, main, SumSems, SumOps
    <3>3. \A u \in Created : Current(u)' = Current(u)
      BY <2>2 DEF Current, Program, main
    <3>4. /\ test' = test /\ active' = active /\ state' = state /\ loaded' = loaded
          /\ shared' = shared
      BY <2>2
    <3>5. SUFFICES ASSUME test = "racecond"
                   PROVE  /\ (IF active["s"] THEN Token(SumSems, SumOps)
                              ELSE \A u \in Created : state[u] = "exited")'
                          /\ (\A u \in Created : Current(u).op = "store" => loaded[u] = shared["soma"])'
                          /\ (shared["soma"] = Cardinality(Added) /\ "soma" \in DOMAIN shared)'
      BY <3>4 DEF Sum
    <3> QED
      BY <3>1, <3>2, <3>3, <3>4, <3>5 DEF Sum
  <2>3. ASSUME NEW t \in Tasks, TimePasses(t) PROVE Sum'
    BY <2>2, <2>3 DEF TimePasses, Wake, syncVars, dataVars
  <2>4. CASE UNCHANGED vars
    BY <2>2, <2>4 DEF vars, kernelVars, syncVars, dataVars
  <2> QED
    BY <2>1, <2>3, <2>4 DEF Next
<1>3. Base /\ Sum => SumIsRight
  <2> SUFFICES ASSUME Base, Sum, test = "racecond", Current(main).op = "report"
               PROVE  shared["soma"] = NUMTASKS * Rounds
    BY DEF SumIsRight
  <2>1. pc[main] \in 1 .. Len(Program(main))
    BY DEF Base, Positions, Existing
  <2>2. JoinsBefore(Forks(test), MainOf(test), pc[main])
    BY <2>1, SumCycles DEF Current
  <2>3. \A u \in Created : state[u] = "exited"
    BY <2>2, AllJoined
  <2>4. \A u \in Created : Current(u).op \in ExitOps
    BY <2>3, SumStatement DEF Base, Ended
  <2>5. \A u \in Created : pc[u] = Rounds * 4 + 1
    BY <2>4, SumStatement DEF ExitOps, SumOps
  <2>6. Added = Created \X (1 .. Rounds)
    BY <2>5, TestAssumption DEF Added, StoreAt
  <2>7. /\ IsFiniteSet(1 .. NUMTASKS) /\ Cardinality(1 .. NUMTASKS) = NUMTASKS
        /\ IsFiniteSet(1 .. Rounds) /\ Cardinality(1 .. Rounds) = Rounds
    BY FS_Interval, TestAssumption
  <2>8. Cardinality(Added) = NUMTASKS * Rounds
    <3>1. Created = 1 .. NUMTASKS
      BY SumCycles
    <3>2. Cardinality((1 .. NUMTASKS) \X (1 .. Rounds)) = Cardinality(1 .. NUMTASKS) * Cardinality(1 .. Rounds)
      BY <2>7, FS_Product, Zenon
    <3> QED
      BY <2>6, <2>7, <3>1, <3>2, Zenon
  <2> QED
    BY <2>8 DEF Sum
<1> QED
  BY <1>1, <1>2, <1>3, TasksAreWhereTheyMayBe, PTL DEF Spec

------------------------------------------------------------------------------
(* Ledgers: the permits a task has at each statement of its program *)

\* The semaphores of pingpong-prodcons.c, which nobody destroys, and the two of each message
\* queue that count its slots and its messages.
Lasting == {"sVaga", "sItem", "sBuffer"}
QueueSems == Range(sVaga) \cup Range(sItem)

\* The statements that trade permits, and those that use the buffer.
TradeOps == {"put", "take", "advance", "retreat"}
BufferOps == {"write", "advance", "first", "shift", "retreat"}

\* The permits of semaphores in g that statement r takes from its task, and gives to it.  The
\* statements that count a slot or an item in or out trade a permit for the other one.
Spent(r, g) ==
  CASE r.op = "sem_up" -> {r.arg} \cap g
    [] r.op = "put" -> {sVaga[r.arg]} [] r.op = "take" -> {sItem[r.arg]}
    [] r.op = "advance" -> {"sVaga"} [] r.op = "retreat" -> {"sItem"} [] OTHER -> {}
Gained(r, g) ==
  CASE r.op = "sem_down" -> {r.arg} \cap g
    [] r.op = "put" -> {sItem[r.arg]} [] r.op = "take" -> {sVaga[r.arg]}
    [] r.op = "advance" -> {"sItem"} [] r.op = "retreat" -> {"sVaga"} [] OTHER -> {}

\* What a list T of sets of permits says of index n.
After(T, n) == IF n \in 1 .. Len(T) THEN T[n] ELSE {}

\* Statement r, which finds the permits now and leaves next, spends what its task has, gains what
\* it has not, and uses the buffer with the permits for it only.
Fits(r, now, next, g) ==
  /\ Spent(r, g) \subseteq now /\ Gained(r, g) \cap now = {}
  /\ next = (now \ Spent(r, g)) \cup Gained(r, g)
  /\ r.op \in BufferOps => "sBuffer" \in now
  /\ r.op = "write" => "sVaga" \in now
  /\ r.op \in {"first", "shift"} => "sItem" \in now
  /\ r.op # "sem_destroy"
  /\ r.op = "sem_down" /\ r.arg \in g /\ r.skip = 0 => r.arg \in Lasting

\* Where a failed call of statement k leads, the list T promises no permit the task has not.
Jumps(r, k, l, now, T) ==
  r.skip # 0 =>
    /\ r.skip \in Nat /\ r.op \in {"test", "sem_down"}
    /\ k + r.skip <= l /\ After(T, k + 1 + r.skip) \subseteq now

\* T tells the permits before every statement of program p, which starts and ends without any.
Entry(p, T, g, k) ==
  /\ T[k] \subseteq g
  /\ Fits(p[k], T[k], After(T, k + 1), g)
  /\ Jumps(p[k], k, Len(p), T[k], T)
Ledger(p, T, g) ==
  /\ T \in Seq(SUBSET g) /\ Len(T) = Len(p) /\ Len(p) \in Nat /\ After(T, 1) = {}
  /\ \A k \in 1 .. Len(p) : Entry(p, T, g, k)
Balanced(p, g) == \E T : Ledger(p, T, g)

\* A sem_down gives a permit to a task that has none of this semaphore.
LEMMA DownFits ==
  ASSUME NEW r, NEW g, NEW now, r.op = "sem_down", r.arg \in g, r.arg \notin now,
         r.skip # 0 \/ r.arg \in Lasting
  PROVE  Fits(r, now, now \cup {r.arg}, g)
<1>1. Spent(r, g) = {} /\ Gained(r, g) = {r.arg}
  BY DEF Spent, Gained
<1> QED
  BY <1>1 DEF Fits, BufferOps

\* A sem_up takes it back.
LEMMA UpFits ==
  ASSUME NEW r, NEW g, NEW now, r.op = "sem_up", r.arg \in g, r.arg \in now
  PROVE  Fits(r, now, now \ {r.arg}, g)
<1>1. Spent(r, g) = {r.arg} /\ Gained(r, g) = {}
  BY DEF Spent, Gained
<1> QED
  BY <1>1 DEF Fits, BufferOps

\* Statements that concern other semaphores, or none.
LEMMA OtherFits ==
  ASSUME NEW r, NEW g, NEW now, r.op \notin TradeOps \cup BufferOps \cup {"sem_destroy"},
         r.op \in {"sem_down", "sem_up"} => r.arg \notin g
  PROVE  Fits(r, now, now, g)
<1>1. Spent(r, g) = {} /\ Gained(r, g) = {}
  BY DEF Spent, Gained, TradeOps
<1> QED
  BY <1>1 DEF Fits, BufferOps

\* What is counted in or out is traded for.
LEMMA TradeFits ==
  ASSUME NEW r, NEW g, NEW now, NEW a, NEW b, a \in now, b \notin now,
         \/ r.op = "put" /\ a = sVaga[r.arg] /\ b = sItem[r.arg]
         \/ r.op = "take" /\ a = sItem[r.arg] /\ b = sVaga[r.arg]
         \/ r.op = "advance" /\ a = "sVaga" /\ b = "sItem" /\ "sBuffer" \in now
         \/ r.op = "retreat" /\ a = "sItem" /\ b = "sVaga" /\ "sBuffer" \in now
  PROVE  Fits(r, now, (now \ {a}) \cup {b}, g)
<1>1. Spent(r, g) = {a} /\ Gained(r, g) = {b}
  BY DEF Spent, Gained
<1> QED
  BY <1>1 DEF Fits, BufferOps

\* The buffer is used with a permit for it.
LEMMA AccessFits ==
  ASSUME NEW r, NEW g, NEW now, "sBuffer" \in now,
         \/ r.op = "write" /\ "sVaga" \in now
         \/ r.op \in {"first", "shift"} /\ "sItem" \in now
  PROVE  Fits(r, now, now, g)
<1>1. Spent(r, g) = {} /\ Gained(r, g) = {}
  BY DEF Spent, Gained
<1> QED
  BY <1>1 DEF Fits, BufferOps

\* A call that is not checked leads on.
LEMMA NoJump ==
  ASSUME NEW r, r.skip = 0, NEW k, NEW l, NEW now, NEW T
  PROVE  Jumps(r, k, l, now, T)
BY DEF Jumps

\* What the bodies of pingpong-prodcons.c are.
IsProdutor(p) ==
  /\ Len(p) = 8
  /\ p[1] = [op |-> "task_sleep", arg |-> {1}, skip |-> 0]
  /\ p[2] = [op |-> "random", arg |-> 0, skip |-> 0]
  /\ p[3] = [op |-> "sem_down", arg |-> "sVaga", skip |-> 0]
  /\ p[4] = [op |-> "sem_down", arg |-> "sBuffer", skip |-> 0]
  /\ p[5] = [op |-> "write", arg |-> 0, skip |-> 0]
  /\ p[6] = [op |-> "advance", arg |-> 0, skip |-> 0]
  /\ p[7] = [op |-> "sem_up", arg |-> "sBuffer", skip |-> 0]
  /\ p[8] = [op |-> "sem_up", arg |-> "sItem", skip |-> 0]
IsConsumidor(p) ==
  /\ Len(p) = 8
  /\ p[1] = [op |-> "sem_down", arg |-> "sItem", skip |-> 0]
  /\ p[2] = [op |-> "sem_down", arg |-> "sBuffer", skip |-> 0]
  /\ p[3] = [op |-> "first", arg |-> 0, skip |-> 0]
  /\ p[4] = [op |-> "shift", arg |-> 0, skip |-> 0]
  /\ p[5] = [op |-> "retreat", arg |-> 0, skip |-> 0]
  /\ p[6] = [op |-> "sem_up", arg |-> "sBuffer", skip |-> 0]
  /\ p[7] = [op |-> "sem_up", arg |-> "sVaga", skip |-> 0]
  /\ p[8] = [op |-> "task_sleep", arg |-> {1}, skip |-> 0]

\* The programs of pingpong-prodcons.c.
LEMMA ProdconsPrograms == IsProdutor(taskProdutor) /\ IsConsumidor(taskConsumidor)
<1>1. IsProdutor(taskProdutor)
  BY DEF IsProdutor, taskProdutor, bufferPlace, Call, Do, Statement
<1>2. IsConsumidor(taskConsumidor)
  BY DEF IsConsumidor, taskConsumidor, bufferRetrieve, Call, Do, Statement
<1> QED
  BY <1>1, <1>2

\* A producer waits for a slot, fills it and hands on an item.
LEMMA ProdutorLedger == Balanced(taskProdutor, Lasting)
<1>1. PICK p : p = taskProdutor
  OBVIOUS
<1>2. IsProdutor(p)
  BY <1>1, ProdconsPrograms
<1>3. PICK T : T = <<{}, {}, {}, {"sVaga"}, {"sVaga", "sBuffer"}, {"sVaga", "sBuffer"},
                     {"sItem", "sBuffer"}, {"sItem"}>>
  OBVIOUS
<1>4. T \in Seq(SUBSET Lasting) /\ Len(T) = 8
  BY <1>3 DEF Lasting
<1>5. /\ T[1] = {} /\ T[2] = {} /\ T[3] = {} /\ T[4] = {"sVaga"}
      /\ T[5] = {"sVaga", "sBuffer"} /\ T[6] = {"sVaga", "sBuffer"}
      /\ T[7] = {"sItem", "sBuffer"} /\ T[8] = {"sItem"}
  BY <1>3
<1>6. (\A k \in 1 .. 7 : After(T, k + 1) = T[k + 1]) /\ After(T, 9) = {}
  BY <1>4 DEF After
<1>7. \A k \in 1 .. 8 : T[k] \subseteq Lasting
  <2>1. PICK S : S = SUBSET Lasting
    OBVIOUS
  <2>2. T \in Seq(S) /\ Len(T) = 8
    BY <1>4, <2>1
  <2>3. \A k \in 1 .. 8 : T[k] \in S
    BY <2>2, ElementOfSeq
  <2> QED
    BY <2>1, <2>3
<1>8. Fits(p[1], T[1], T[2], Lasting)
  <2>1. p[1].op \notin TradeOps \cup BufferOps \cup {"sem_destroy", "sem_down", "sem_up"}
    BY <1>2, <1>5 DEF IsProdutor, TradeOps, BufferOps
  <2>2. T[2] = T[1]
    BY <1>2, <1>5 DEF IsProdutor
  <2> QED
    BY <2>1, <2>2, OtherFits
<1>9. Fits(p[2], T[2], T[3], Lasting)
  <2>1. p[2].op \notin TradeOps \cup BufferOps \cup {"sem_destroy", "sem_down", "sem_up"}
    BY <1>2, <1>5 DEF IsProdutor, TradeOps, BufferOps
  <2>2. T[3] = T[2]
    BY <1>2, <1>5 DEF IsProdutor
  <2> QED
    BY <2>1, <2>2, OtherFits
<1>10. Fits(p[3], T[3], T[4], Lasting)
  <2>1. /\ p[3].op = "sem_down" /\ p[3].arg \in Lasting /\ p[3].arg \notin T[3]
        /\ (p[3].skip # 0 \/ p[3].arg \in Lasting)
    BY <1>2, <1>5 DEF IsProdutor, Lasting
  <2>2. T[4] = T[3] \cup {p[3].arg}
    BY <1>2, <1>5 DEF IsProdutor
  <2> QED
    BY <2>1, <2>2, DownFits
<1>11. Fits(p[4], T[4], T[5], Lasting)
  <2>1. /\ p[4].op = "sem_down" /\ p[4].arg \in Lasting /\ p[4].arg \notin T[4]
        /\ (p[4].skip # 0 \/ p[4].arg \in Lasting)
    BY <1>2, <1>5 DEF IsProdutor, Lasting
  <2>2. T[5] = T[4] \cup {p[4].arg}
    BY <1>2, <1>5 DEF IsProdutor
  <2> QED
    BY <2>1, <2>2, DownFits
<1>12. Fits(p[5], T[5], T[6], Lasting)
  <2>1. p[5].op \in {"write"} /\ "sVaga" \in T[5] /\ "sBuffer" \in T[5]
    BY <1>2, <1>5 DEF IsProdutor
  <2>2. T[6] = T[5]
    BY <1>2, <1>5 DEF IsProdutor
  <2> QED
    BY <2>1, <2>2, AccessFits
<1>13. Fits(p[6], T[6], T[7], Lasting)
  <2>1. p[6].op = "advance" /\ "sVaga" \in T[6] /\ "sBuffer" \in T[6] /\ "sItem" \notin T[6]
    BY <1>2, <1>5 DEF IsProdutor
  <2>2. T[7] = (T[6] \ {"sVaga"}) \cup {"sItem"}
    BY <1>2, <1>5 DEF IsProdutor
  <2> QED
    BY <2>1, <2>2, TradeFits
<1>14. Fits(p[7], T[7], T[8], Lasting)
  <2>1. p[7].op = "sem_up" /\ p[7].arg \in Lasting /\ p[7].arg \in T[7]
    BY <1>2, <1>5 DEF IsProdutor, Lasting
  <2>2. T[8] = T[7] \ {p[7].arg}
    BY <1>2, <1>5 DEF IsProdutor
  <2> QED
    BY <2>1, <2>2, UpFits
<1>15. Fits(p[8], T[8], {}, Lasting)
  <2>1. p[8].op = "sem_up" /\ p[8].arg \in Lasting /\ p[8].arg \in T[8]
    BY <1>2, <1>5 DEF IsProdutor, Lasting
  <2>2. {} = T[8] \ {p[8].arg}
    BY <1>2, <1>5 DEF IsProdutor
  <2> QED
    BY <2>1, <2>2, UpFits
<1>16. ASSUME NEW k \in 1 .. 8 PROVE Fits(p[k], T[k], After(T, k + 1), Lasting)
  <2>1. CASE k = 1
    BY <1>6, <1>8, <2>1
  <2>2. CASE k = 2
    BY <1>6, <1>9, <2>2
  <2>3. CASE k = 3
    BY <1>6, <1>10, <2>3
  <2>4. CASE k = 4
    BY <1>6, <1>11, <2>4
  <2>5. CASE k = 5
    BY <1>6, <1>12, <2>5
  <2>6. CASE k = 6
    BY <1>6, <1>13, <2>6
  <2>7. CASE k = 7
    BY <1>6, <1>14, <2>7
  <2>8. CASE k = 8
    BY <1>6, <1>15, <2>8
  <2> QED
    BY <2>1, <2>2, <2>3, <2>4, <2>5, <2>6, <2>7, <2>8
<1>17. \A k \in 1 .. 8 : Jumps(p[k], k, 8, T[k], T)
  <2>1. \A k \in 1 .. 8 : p[k].skip = 0
    BY <1>2 DEF IsProdutor
  <2> QED
    BY <2>1, NoJump
<1>18. Len(p) = 8 /\ After(T, 1) = {}
  BY <1>2, <1>4, <1>5 DEF IsProdutor, After
<1> QED
  BY <1>1, <1>4, <1>7, <1>16, <1>17, <1>18 DEF Balanced, Ledger, Entry

\* A consumer waits for an item, removes it and hands on a slot.
LEMMA ConsumidorLedger == Balanced(taskConsumidor, Lasting)
<1>1. PICK p : p = taskConsumidor
  OBVIOUS
<1>2. IsConsumidor(p)
  BY <1>1, ProdconsPrograms
<1>3. PICK T : T = <<{}, {"sItem"}, {"sItem", "sBuffer"}, {"sItem", "sBuffer"}, {"sItem", "sBuffer"},
                     {"sVaga", "sBuffer"}, {"sVaga"}, {}>>
  OBVIOUS
<1>4. T \in Seq(SUBSET Lasting) /\ Len(T) = 8
  BY <1>3 DEF Lasting
<1>5. /\ T[1] = {} /\ T[2] = {"sItem"} /\ T[3] = {"sItem", "sBuffer"} /\ T[4] = {"sItem", "sBuffer"}
      /\ T[5] = {"sItem", "sBuffer"} /\ T[6] = {"sVaga", "sBuffer"} /\ T[7] = {"sVaga"} /\ T[8] = {}
  BY <1>3
<1>6. (\A k \in 1 .. 7 : After(T, k + 1) = T[k + 1]) /\ After(T, 9) = {}
  BY <1>4 DEF After
<1>7. \A k \in 1 .. 8 : T[k] \subseteq Lasting
  <2>1. PICK S : S = SUBSET Lasting
    OBVIOUS
  <2>2. T \in Seq(S) /\ Len(T) = 8
    BY <1>4, <2>1
  <2>3. \A k \in 1 .. 8 : T[k] \in S
    BY <2>2, ElementOfSeq
  <2> QED
    BY <2>1, <2>3
<1>8. Fits(p[1], T[1], T[2], Lasting)
  <2>1. /\ p[1].op = "sem_down" /\ p[1].arg \in Lasting /\ p[1].arg \notin T[1]
        /\ (p[1].skip # 0 \/ p[1].arg \in Lasting)
    BY <1>2, <1>5 DEF IsConsumidor, Lasting
  <2>2. T[2] = T[1] \cup {p[1].arg}
    BY <1>2, <1>5 DEF IsConsumidor
  <2> QED
    BY <2>1, <2>2, DownFits
<1>9. Fits(p[2], T[2], T[3], Lasting)
  <2>1. /\ p[2].op = "sem_down" /\ p[2].arg \in Lasting /\ p[2].arg \notin T[2]
        /\ (p[2].skip # 0 \/ p[2].arg \in Lasting)
    BY <1>2, <1>5 DEF IsConsumidor, Lasting
  <2>2. T[3] = T[2] \cup {p[2].arg}
    BY <1>2, <1>5 DEF IsConsumidor
  <2> QED
    BY <2>1, <2>2, DownFits
<1>10. Fits(p[3], T[3], T[4], Lasting)
  <2>1. p[3].op \in {"first", "shift"} /\ "sItem" \in T[3] /\ "sBuffer" \in T[3]
    BY <1>2, <1>5 DEF IsConsumidor
  <2>2. T[4] = T[3]
    BY <1>2, <1>5 DEF IsConsumidor
  <2> QED
    BY <2>1, <2>2, AccessFits
<1>11. Fits(p[4], T[4], T[5], Lasting)
  <2>1. p[4].op \in {"first", "shift"} /\ "sItem" \in T[4] /\ "sBuffer" \in T[4]
    BY <1>2, <1>5 DEF IsConsumidor
  <2>2. T[5] = T[4]
    BY <1>2, <1>5 DEF IsConsumidor
  <2> QED
    BY <2>1, <2>2, AccessFits
<1>12. Fits(p[5], T[5], T[6], Lasting)
  <2>1. p[5].op = "retreat" /\ "sItem" \in T[5] /\ "sBuffer" \in T[5] /\ "sVaga" \notin T[5]
    BY <1>2, <1>5 DEF IsConsumidor
  <2>2. T[6] = (T[5] \ {"sItem"}) \cup {"sVaga"}
    BY <1>2, <1>5 DEF IsConsumidor
  <2> QED
    BY <2>1, <2>2, TradeFits
<1>13. Fits(p[6], T[6], T[7], Lasting)
  <2>1. p[6].op = "sem_up" /\ p[6].arg \in Lasting /\ p[6].arg \in T[6]
    BY <1>2, <1>5 DEF IsConsumidor, Lasting
  <2>2. T[7] = T[6] \ {p[6].arg}
    BY <1>2, <1>5 DEF IsConsumidor
  <2> QED
    BY <2>1, <2>2, UpFits
<1>14. Fits(p[7], T[7], T[8], Lasting)
  <2>1. p[7].op = "sem_up" /\ p[7].arg \in Lasting /\ p[7].arg \in T[7]
    BY <1>2, <1>5 DEF IsConsumidor, Lasting
  <2>2. T[8] = T[7] \ {p[7].arg}
    BY <1>2, <1>5 DEF IsConsumidor
  <2> QED
    BY <2>1, <2>2, UpFits
<1>15. Fits(p[8], T[8], {}, Lasting)
  <2>1. p[8].op \notin TradeOps \cup BufferOps \cup {"sem_destroy", "sem_down", "sem_up"}
    BY <1>2, <1>5 DEF IsConsumidor, TradeOps, BufferOps
  <2>2. {} = T[8]
    BY <1>2, <1>5 DEF IsConsumidor
  <2> QED
    BY <2>1, <2>2, OtherFits
<1>16. ASSUME NEW k \in 1 .. 8 PROVE Fits(p[k], T[k], After(T, k + 1), Lasting)
  <2>1. CASE k = 1
    BY <1>6, <1>8, <2>1
  <2>2. CASE k = 2
    BY <1>6, <1>9, <2>2
  <2>3. CASE k = 3
    BY <1>6, <1>10, <2>3
  <2>4. CASE k = 4
    BY <1>6, <1>11, <2>4
  <2>5. CASE k = 5
    BY <1>6, <1>12, <2>5
  <2>6. CASE k = 6
    BY <1>6, <1>13, <2>6
  <2>7. CASE k = 7
    BY <1>6, <1>14, <2>7
  <2>8. CASE k = 8
    BY <1>6, <1>15, <2>8
  <2> QED
    BY <2>1, <2>2, <2>3, <2>4, <2>5, <2>6, <2>7, <2>8
<1>17. \A k \in 1 .. 8 : Jumps(p[k], k, 8, T[k], T)
  <2>1. \A k \in 1 .. 8 : p[k].skip = 0
    BY <1>2 DEF IsConsumidor
  <2> QED
    BY <2>1, NoJump
<1>18. Len(p) = 8 /\ After(T, 1) = {}
  BY <1>2, <1>4, <1>5 DEF IsConsumidor, After
<1> QED
  BY <1>1, <1>4, <1>7, <1>16, <1>17, <1>18 DEF Balanced, Ledger, Entry

\* What the calls on a message queue are.
IsCalls(p, q, s, op, r) ==
  /\ Len(p) = 6
  /\ p[1] = [op |-> "test", arg |-> q, skip |-> 5]
  /\ p[2] = [op |-> "sem_down", arg |-> s, skip |-> 4]
  /\ p[3] = [op |-> "sem_down", arg |-> sBuffer[q], skip |-> 3]
  /\ p[4] = [op |-> op, arg |-> q, skip |-> 0]
  /\ p[5] = [op |-> "sem_up", arg |-> sBuffer[q], skip |-> 0]
  /\ p[6] = [op |-> "sem_up", arg |-> r, skip |-> 0]

\* The semaphores of a message queue are three.
LEMMA QueueNames ==
  ASSUME NEW q \in MessageQueues
  PROVE  /\ sVaga[q] \in QueueSems /\ sItem[q] \in QueueSems /\ sBuffer[q] \notin QueueSems
         /\ sVaga[q] # sItem[q]
BY DEF MessageQueues, QueueSems, Range, sVaga, sItem, sBuffer

\* mqueue_send and mqueue_recv do the same the other way round.
LEMMA QueuePrograms ==
  ASSUME NEW q
  PROVE  /\ IsCalls(mqueue_send(q), q, sVaga[q], "put", sItem[q])
         /\ IsCalls(mqueue_recv(q), q, sItem[q], "take", sVaga[q])
<1>1. IsCalls(mqueue_send(q), q, sVaga[q], "put", sItem[q])
  BY DEF IsCalls, mqueue_send, Call, Statement
<1>2. IsCalls(mqueue_recv(q), q, sItem[q], "take", sVaga[q])
  BY DEF IsCalls, mqueue_recv, Call, Statement
<1> QED
  BY <1>1, <1>2

\* Each of them waits for a permit, trades it and hands it on, unless one of its calls fails.
LEMMA QueueLedger ==
  ASSUME NEW q \in MessageQueues, NEW x, NEW u, NEW v, NEW op, IsCalls(x, q, u, op, v),
         \/ op = "put" /\ u = sVaga[q] /\ v = sItem[q]
         \/ op = "take" /\ u = sItem[q] /\ v = sVaga[q]
  PROVE  Balanced(x, QueueSems)
<1>1. u \in QueueSems /\ v \in QueueSems /\ sBuffer[q] \notin QueueSems /\ u # v
  BY QueueNames
<1>2. PICK p : p = x
  OBVIOUS
<1>3. IsCalls(p, q, u, op, v)
  BY <1>2, Zenon
<1>4. PICK T : T = <<{}, {}, {u}, {u}, {v}, {v}>>
  OBVIOUS
<1>5. T \in Seq(SUBSET QueueSems) /\ Len(T) = 6
  BY <1>4, <1>1
<1>6. /\ T[1] = {} /\ T[2] = {} /\ T[3] = {u}
      /\ T[4] = {u} /\ T[5] = {v} /\ T[6] = {v}
  BY <1>4
<1>7. (\A k \in 1 .. 5 : After(T, k + 1) = T[k + 1]) /\ After(T, 7) = {}
  BY <1>5 DEF After
<1>8. \A k \in 1 .. 6 : T[k] \subseteq QueueSems
  <2>1. PICK S : S = SUBSET QueueSems
    OBVIOUS
  <2>2. T \in Seq(S) /\ Len(T) = 6
    BY <1>5, <2>1
  <2>3. \A k \in 1 .. 6 : T[k] \in S
    BY <2>2, ElementOfSeq
  <2> QED
    BY <2>1, <2>3
<1>9. Fits(p[1], T[1], T[2], QueueSems)
  <2>1. /\ p[1].op \notin TradeOps \cup BufferOps \cup {"sem_destroy"}
        /\ p[1].op \in {"sem_down", "sem_up"} => p[1].arg \notin QueueSems
    BY <1>3, <1>6, <1>1 DEF IsCalls, TradeOps, BufferOps
  <2>2. T[2] = T[1]
    BY <1>3, <1>6, <1>1 DEF IsCalls
  <2> QED
    BY <2>1, <2>2, OtherFits
<1>10. Fits(p[2], T[2], T[3], QueueSems)
  <2>1. /\ p[2].op = "sem_down" /\ p[2].arg \in QueueSems /\ p[2].arg \notin T[2]
        /\ (p[2].skip # 0 \/ p[2].arg \in Lasting)
    BY <1>3, <1>6, <1>1 DEF IsCalls, Lasting
  <2>2. T[3] = T[2] \cup {p[2].arg}
    BY <1>3, <1>6, <1>1 DEF IsCalls
  <2> QED
    BY <2>1, <2>2, DownFits
<1>11. Fits(p[3], T[3], T[4], QueueSems)
  <2>1. /\ p[3].op \notin TradeOps \cup BufferOps \cup {"sem_destroy"}
        /\ p[3].op \in {"sem_down", "sem_up"} => p[3].arg \notin QueueSems
    BY <1>3, <1>6, <1>1 DEF IsCalls, TradeOps, BufferOps
  <2>2. T[4] = T[3]
    BY <1>3, <1>6, <1>1 DEF IsCalls
  <2> QED
    BY <2>1, <2>2, OtherFits
<1>12. Fits(p[4], T[4], T[5], QueueSems)
  <2>1. /\ u \in T[4] /\ v \notin T[4]
        /\ \/ p[4].op = "put" /\ u = sVaga[p[4].arg] /\ v = sItem[p[4].arg]
           \/ p[4].op = "take" /\ u = sItem[p[4].arg] /\ v = sVaga[p[4].arg]
    BY <1>3, <1>6, <1>1 DEF IsCalls
  <2>2. T[5] = (T[4] \ {u}) \cup {v}
    BY <1>3, <1>6, <1>1 DEF IsCalls
  <2> QED
    BY <2>1, <2>2, TradeFits
<1>13. Fits(p[5], T[5], T[6], QueueSems)
  <2>1. /\ p[5].op \notin TradeOps \cup BufferOps \cup {"sem_destroy"}
        /\ p[5].op \in {"sem_down", "sem_up"} => p[5].arg \notin QueueSems
    BY <1>3, <1>6, <1>1 DEF IsCalls, TradeOps, BufferOps
  <2>2. T[6] = T[5]
    BY <1>3, <1>6, <1>1 DEF IsCalls
  <2> QED
    BY <2>1, <2>2, OtherFits
<1>14. Fits(p[6], T[6], {}, QueueSems)
  <2>1. p[6].op = "sem_up" /\ p[6].arg \in QueueSems /\ p[6].arg \in T[6]
    BY <1>3, <1>6, <1>1 DEF IsCalls, Lasting
  <2>2. {} = T[6] \ {p[6].arg}
    BY <1>3, <1>6, <1>1 DEF IsCalls
  <2> QED
    BY <2>1, <2>2, UpFits
<1>15. ASSUME NEW k \in 1 .. 6 PROVE Fits(p[k], T[k], After(T, k + 1), QueueSems)
  <2>1. CASE k = 1
    BY <1>7, <1>9, <2>1
  <2>2. CASE k = 2
    BY <1>7, <1>10, <2>2
  <2>3. CASE k = 3
    BY <1>7, <1>11, <2>3
  <2>4. CASE k = 4
    BY <1>7, <1>12, <2>4
  <2>5. CASE k = 5
    BY <1>7, <1>13, <2>5
  <2>6. CASE k = 6
    BY <1>7, <1>14, <2>6
  <2> QED
    BY <2>1, <2>2, <2>3, <2>4, <2>5, <2>6
<1>16. ASSUME NEW k \in 1 .. 6 PROVE Jumps(p[k], k, 6, T[k], T)
  <2>1. CASE k \in 1 .. 3
    <3>1. p[k].skip = 6 - k /\ p[k].op \in {"test", "sem_down"}
      BY <1>3, <2>1 DEF IsCalls
    <3>2. 6 - k \in Nat /\ k + (6 - k) <= 6 /\ k + 1 + (6 - k) = 7
      BY <2>1
    <3>3. After(T, 7) \subseteq T[k]
      BY <1>7
    <3> QED
      BY <3>1, <3>2, <3>3 DEF Jumps
  <2>2. CASE k \in 4 .. 6
    <3>1. p[k].skip = 0
      BY <1>3, <2>2 DEF IsCalls
    <3> QED
      BY <3>1, NoJump
  <2> QED
    BY <2>1, <2>2
<1>17. Len(p) = 6 /\ After(T, 1) = {}
  BY <1>3, <1>5, <1>6 DEF IsCalls, After
<1> QED
  BY <1>2, <1>5, <1>8, <1>15, <1>16, <1>17 DEF Balanced, Ledger, Entry

\* A statement that concerns none of the semaphores in g.
Harmless(r, g) ==
  /\ r.op \notin TradeOps \cup BufferOps \cup {"sem_destroy"}
  /\ r.op \in {"sem_down", "sem_up"} => r.arg \notin g
  /\ r.skip = 0

\* A program of such statements never has a permit.
LEMMA HarmlessLedger ==
  ASSUME NEW p, NEW g, Len(p) \in Nat, \A k \in 1 .. Len(p) : Harmless(p[k], g)
  PROVE  Balanced(p, g)
<1>1. PICK n \in Nat : n = Len(p)
  OBVIOUS
<1>2. PICK e : e = {}
  OBVIOUS
<1>3. PICK T : T = [k \in 1 .. n |-> e]
  OBVIOUS
<1>4. /\ T \in Seq(SUBSET g) /\ Len(T) = n
      /\ \A k \in 1 .. n : T[k] = e
  <2>1. PICK S : S = SUBSET g
    OBVIOUS
  <2>2. e \in S
    BY <1>2, <2>1
  <2>3. T \in Seq(S) /\ Len(T) = n /\ \A k \in 1 .. n : T[k] = e
    BY <1>1, <1>3, <2>2
  <2> QED
    BY <2>1, <2>3
<1>5. \A k \in Nat : After(T, k) = e
  BY <1>2, <1>4 DEF After
<1>6. ASSUME NEW k \in 1 .. n PROVE Entry(p, T, g, k)
  <2>1. Harmless(p[k], g)
    BY <1>1
  <2>2. Fits(p[k], e, e, g)
    BY <2>1, OtherFits DEF Harmless
  <2>3. Jumps(p[k], k, Len(p), T[k], T)
    BY <2>1, NoJump DEF Harmless
  <2>4. T[k] = e /\ After(T, k + 1) = e /\ e \subseteq g
    BY <1>2, <1>4, <1>5
  <2> QED
    BY <2>2, <2>3, <2>4 DEF Entry
<1> QED
  BY <1>1, <1>2, <1>4, <1>5, <1>6 DEF Balanced, Ledger

\* The same entry at another place.
SameEntry(p, T, k, c, D, x) ==
  /\ c[x] = p[k] /\ D[x] = T[k] /\ After(D, x + 1) = After(T, k + 1)
  /\ \A z \in Nat : k + z <= Len(p) => x + z <= Len(c) /\ After(D, x + 1 + z) = After(T, k + 1 + z)

\* It says the same.
LEMMA EntryMoves ==
  ASSUME NEW p, NEW T, NEW g, NEW k, NEW c, NEW D, NEW x, SameEntry(p, T, k, c, D, x), Entry(p, T, g, k)
  PROVE  Entry(c, D, g, x)
<1>1. Jumps(c[x], x, Len(c), D[x], D)
  BY DEF SameEntry, Entry, Jumps
<1> QED
  BY <1>1 DEF SameEntry, Entry

\* One after the other.
LEMMA LedgerConcat ==
  ASSUME NEW S, NEW p \in Seq(S), NEW q \in Seq(S), NEW g, Balanced(p, g), Balanced(q, g)
  PROVE  Balanced(p \o q, g)
<1>1. PICK T : Ledger(p, T, g)
  BY DEF Balanced
<1>2. PICK U : Ledger(q, U, g)
  BY DEF Balanced
<1>3. PICK m \in Nat : m = Len(p) /\ m = Len(T)
  BY <1>1 DEF Ledger
<1>4. PICK n \in Nat : n = Len(q) /\ n = Len(U)
  BY <1>2 DEF Ledger
<1>5. PICK c \in Seq(S) : PartsOf(p, q, c)
  BY Parts, Zenon DEF CanAppend
<1>6. PICK V : V = SUBSET g
  OBVIOUS
<1>7. T \in Seq(V) /\ U \in Seq(V)
  BY <1>1, <1>2, <1>6 DEF Ledger
<1>8. PICK D \in Seq(V) : PartsOf(T, U, D)
  BY <1>7, Parts, Zenon DEF CanAppend
<1>9. /\ Len(c) = m + n /\ Len(D) = m + n
      /\ \A k \in 1 .. m : c[k] = p[k] /\ D[k] = T[k]
      /\ \A k \in 1 .. n : c[m + k] = q[k] /\ D[m + k] = U[k]
  BY <1>3, <1>4, <1>5, <1>8 DEF PartsOf
<1>10. After(T, 1) = {} /\ After(U, 1) = {}
  BY <1>1, <1>2 DEF Ledger
<1>11. \A k \in Nat \ {0} : After(D, m + k) = After(U, k)
  <2>1. ASSUME NEW k \in Nat \ {0} PROVE After(D, m + k) = After(U, k)
    <3>1. CASE k <= n
      <4>1. k \in 1 .. n /\ m + k \in 1 .. m + n
        BY <3>1
      <4> QED
        BY <1>4, <1>9, <4>1 DEF After
    <3>2. CASE k > n
      <4>1. k \notin 1 .. n /\ m + k \notin 1 .. m + n
        BY <3>2
      <4> QED
        BY <1>4, <1>9, <4>1 DEF After
    <3> QED
      BY <3>1, <3>2
  <2> QED
    BY <2>1
<1>12. \A k \in 1 .. m + 1 : After(D, k) = After(T, k)
  <2>1. \A k \in 1 .. m : After(D, k) = D[k] /\ After(T, k) = T[k]
    BY <1>3, <1>9 DEF After
  <2>2. After(T, m + 1) = {}
    BY <1>3 DEF After
  <2>3. After(D, m + 1) = {}
    BY <1>10, <1>11
  <2>4. ASSUME NEW k \in 1 .. m + 1 PROVE After(D, k) = After(T, k)
    <3>1. CASE k \in 1 .. m
      BY <1>9, <2>1, <3>1
    <3>2. CASE k = m + 1
      BY <2>2, <2>3, <3>2
    <3> QED
      BY <3>1, <3>2
  <2> QED
    BY <2>4
<1>13. ASSUME NEW k \in 1 .. m + n PROVE Entry(c, D, g, k)
  <2>1. CASE k \in 1 .. m
    <3>1. SameEntry(p, T, k, c, D, k)
      <4>1. c[k] = p[k] /\ D[k] = T[k] /\ After(D, k + 1) = After(T, k + 1)
        BY <1>9, <1>12, <2>1
      <4>2. ASSUME NEW z \in Nat, k + z <= m
            PROVE  k + z <= m + n /\ After(D, k + 1 + z) = After(T, k + 1 + z)
        <5>1. k + 1 + z \in 1 .. m + 1 /\ k + z <= m + n
          BY <2>1, <4>2
        <5> QED
          BY <1>12, <5>1
      <4> QED
        BY <1>3, <1>9, <4>1, <4>2 DEF SameEntry
    <3>2. Entry(p, T, g, k)
      BY <1>1, <1>3, <2>1 DEF Ledger
    <3> QED
      BY <3>1, <3>2, EntryMoves
  <2>2. CASE k \in m + 1 .. m + n
    <3>1. PICK j \in 1 .. n : k = m + j
      <4>1. k - m \in 1 .. n /\ k = m + (k - m)
        BY <2>2
      <4> QED
        BY <4>1
    <3>2. SameEntry(q, U, j, c, D, k)
      <4>1. c[k] = q[j] /\ D[k] = U[j]
        BY <1>9, <3>1
      <4>2. After(D, k + 1) = After(U, j + 1)
        <5>1. j + 1 \in Nat \ {0} /\ k + 1 = m + (j + 1)
          BY <3>1
        <5> QED
          BY <1>11, <5>1
      <4>3. ASSUME NEW z \in Nat, j + z <= n
            PROVE  k + z <= m + n /\ After(D, k + 1 + z) = After(U, j + 1 + z)
        <5>1. j + 1 + z \in Nat \ {0} /\ k + 1 + z = m + (j + 1 + z) /\ k + z <= m + n
          BY <3>1, <4>3
        <5> QED
          BY <1>11, <5>1
      <4> QED
        BY <1>4, <1>9, <4>1, <4>2, <4>3 DEF SameEntry
    <3>3. Entry(q, U, g, j)
      BY <1>2, <1>4, <3>1 DEF Ledger
    <3> QED
      BY <3>2, <3>3, EntryMoves
  <2> QED
    BY <2>1, <2>2
<1>14. Ledger(c, D, g)
  <2>1. After(D, 1) = {} /\ m + n \in Nat
    BY <1>10, <1>12
  <2>2. D \in Seq(SUBSET g)
    BY <1>6
  <2> QED
    BY <1>9, <1>13, <2>1, <2>2 DEF Ledger
<1>15. c = p \o q
  BY <1>5 DEF PartsOf
<1> QED
  BY <1>14, <1>15 DEF Balanced

\* The lengths of the loops of pingpong-mqueue.c, and remainders by them.
IsQueueLoop(m) == m \in {6, 25}

\* The remainder of a sum that does not go round.
LEMMA RemainderAdds ==
  ASSUME NEW m, IsQueueLoop(m), NEW x \in Nat, NEW d \in Nat, (x % m) + d <= m
  PROVE  (x + d) % m = IF (x % m) + d = m THEN 0 ELSE (x % m) + d
<1>1. CASE m = 6
  BY <1>1
<1>2. CASE m = 25
  BY <1>2
<1> QED
  BY <1>1, <1>2 DEF IsQueueLoop

\* A sum that does not go round stays in the repetition.
LEMMA RemainderBound ==
  ASSUME NEW m, IsQueueLoop(m), NEW n \in Nat, NEW x \in Nat, x < n * m, NEW d \in Nat, (x % m) + d <= m
  PROVE  x + d <= n * m /\ (x + d = n * m => (x % m) + d = m)
<1>1. CASE m = 6
  BY <1>1
<1>2. CASE m = 25
  BY <1>2
<1> QED
  BY <1>1, <1>2 DEF IsQueueLoop

\* A remainder is less than the length.
LEMMA RemainderIn ==
  ASSUME NEW m, IsQueueLoop(m), NEW x \in Nat
  PROVE  m \in Nat \ {0} /\ x % m \in 0 .. m - 1 /\ 0 % m = 0
<1>1. CASE m = 6
  BY <1>1
<1>2. CASE m = 25
  BY <1>2
<1> QED
  BY <1>1, <1>2 DEF IsQueueLoop

\* Again and again.
LEMMA LedgerRepeat ==
  ASSUME NEW S, NEW p \in Seq(S), NEW n \in Nat, NEW m, IsQueueLoop(m), Len(p) = m, NEW g, Balanced(p, g)
  PROVE  Balanced(Repeat(n, p), g)
<1>1. PICK T : Ledger(p, T, g)
  BY DEF Balanced
<1>2. PICK V : V = SUBSET g
  OBVIOUS
<1>3. T \in Seq(V) /\ Len(T) = m /\ After(T, 1) = {}
  BY <1>1, <1>2 DEF Ledger
<1>4. IsLoopLength(m)
  BY DEF IsQueueLoop, IsLoopLength
<1>5. PICK c : c = Repeat(n, p) /\ IsRepetition(c, n, p, m, S)
  BY <1>4, RepeatIs, Zenon
<1>6. PICK D : D = Repeat(n, T) /\ IsRepetition(D, n, T, m, V)
  BY <1>3, <1>4, RepeatIs, Zenon
<1>7. PICK l \in Nat : l = n * m
  BY DEF IsQueueLoop
<1>8. /\ Len(c) = l /\ Len(D) = l /\ D \in Seq(V)
      /\ \A k \in 1 .. l : c[k] = p[((k - 1) % m) + 1] /\ D[k] = T[((k - 1) % m) + 1]
  BY <1>5, <1>6, <1>7 DEF IsRepetition
<1>9. m \in Nat \ {0} /\ 0 % m = 0
  BY RemainderIn
<1>10. After(D, 1) = {}
  <2>1. CASE l = 0
    BY <1>8, <2>1 DEF After
  <2>2. CASE l # 0
    <3>1. 1 \in 1 .. l /\ 1 \in 1 .. m
      BY <1>9, <2>2
    <3>2. D[1] = T[1]
      <4>1. PICK o \in 1 .. l : o = 1
        BY <3>1
      <4>2. D[o] = T[((o - 1) % m) + 1]
        BY <1>8, Zenon
      <4>3. PICK e : e = o - 1
        OBVIOUS
      <4>4. e = 0
        BY <4>1, <4>3
      <4>5. D[o] = T[(0 % m) + 1]
        BY <4>2, <4>3, <4>4, Zenon
      <4> QED
        BY <1>9, <4>1, <4>5
    <3> QED
      BY <1>3, <1>8, <3>1, <3>2 DEF After
  <2> QED
    BY <2>1, <2>2
<1>11. ASSUME NEW k \in 1 .. l PROVE Entry(c, D, g, k)
  <2>1. PICK x \in Nat : x = k - 1
    OBVIOUS
  <2>2. x < n * m
    BY <1>7, <2>1
  <2>3. PICK y : y = x % m
    OBVIOUS
  <2>4. y \in 0 .. m - 1
    BY <2>3, RemainderIn
  <2>5. PICK j \in 1 .. m : j = y + 1
    BY <1>9, <2>4
  <2>6. c[k] = p[j] /\ D[k] = T[j]
    BY <1>8, <2>1, <2>3, <2>5, Zenon
  <2>7. ASSUME NEW z \in Nat, j + z <= m
        PROVE  k + z <= l /\ After(D, k + 1 + z) = After(T, j + 1 + z)
    <3>1. PICK d \in Nat : d = z + 1
      OBVIOUS
    <3>2. y + d <= m
      BY <1>9, <2>4, <2>5, <2>7, <3>1
    <3>3. x + d <= n * m /\ (x + d = n * m => y + d = m)
      BY <2>2, <2>3, <3>2, RemainderBound
    <3>4. (x + d) % m = IF y + d = m THEN 0 ELSE y + d
      BY <2>3, <3>2, RemainderAdds
    <3>5. x + d <= l /\ (x + d = l => y + d = m)
      BY <1>7, <3>3
    <3>6. k + z = x + d /\ k + 1 + z = x + d + 1 /\ j + 1 + z = y + d + 1 /\ k + 1 + z - 1 = x + d
      BY <1>9, <2>1, <2>4, <2>5, <3>1
    <3>7. CASE x + d = l
      <4>1. k + 1 + z \notin 1 .. l /\ j + 1 + z \notin 1 .. m
        BY <1>9, <2>4, <3>5, <3>6, <3>7
      <4> QED
        BY <1>3, <1>8, <3>5, <3>6, <4>1 DEF After
    <3>8. CASE x + d # l
      <4>1. k + 1 + z \in 1 .. l
        BY <3>5, <3>6, <3>8
      <4>2. D[k + 1 + z] = T[((x + d) % m) + 1]
        <5>1. PICK w \in 1 .. l : w = k + 1 + z
          BY <4>1
        <5>2. w - 1 = x + d
          BY <3>6, <5>1
        <5>3. D[w] = T[((w - 1) % m) + 1]
          BY <1>8, Zenon
        <5> QED
          BY <5>1, <5>2, <5>3, Zenon
      <4>3. CASE y + d = m
        <5>1. D[k + 1 + z] = T[1]
          BY <3>4, <4>2, <4>3
        <5>2. j + 1 + z \notin 1 .. m /\ 1 \in 1 .. m
          BY <1>9, <3>6, <4>3
        <5>3. T[1] = {}
          BY <1>3, <5>2 DEF After
        <5>4. After(T, j + 1 + z) = {}
          BY <1>3, <5>2 DEF After
        <5>5. After(D, k + 1 + z) = D[k + 1 + z]
          BY <1>8, <4>1 DEF After
        <5> QED
          BY <3>5, <3>6, <5>1, <5>3, <5>4, <5>5
      <4>4. CASE y + d # m
        <5>1. D[k + 1 + z] = T[y + d + 1]
          BY <3>4, <4>2, <4>4
        <5>2. j + 1 + z \in 1 .. m
          BY <1>9, <2>4, <3>2, <3>6, <4>4
        <5>3. After(T, j + 1 + z) = T[j + 1 + z]
          BY <1>3, <5>2 DEF After
        <5>4. After(D, k + 1 + z) = D[k + 1 + z]
          BY <1>8, <4>1 DEF After
        <5> QED
          BY <3>5, <3>6, <5>1, <5>3, <5>4
      <4> QED
        BY <4>3, <4>4
    <3> QED
      BY <3>7, <3>8
  <2>8. After(D, k + 1) = After(T, j + 1)
    <3>1. 0 \in Nat /\ j + 0 <= m /\ k + 1 + 0 = k + 1 /\ j + 1 + 0 = j + 1
      BY <1>9
    <3> QED
      BY <2>7, <3>1
  <2>9. SameEntry(p, T, j, c, D, k)
    BY <1>8, <2>6, <2>7, <2>8 DEF SameEntry
  <2>10. Entry(p, T, g, j)
    BY <1>1 DEF Ledger
  <2> QED
    BY <2>9, <2>10, EntryMoves
<1>12. D \in Seq(SUBSET g)
  BY <1>2, <1>8
<1>13. Ledger(c, D, g)
  BY <1>8, <1>10, <1>11, <1>12 DEF Ledger
<1> QED
  BY <1>5, <1>13 DEF Balanced

\* Statements that concern no semaphore of a message queue.
Calm == {r \in Body(0) : Harmless(r, QueueSems)}

\* The statements of the other tests are such.
LEMMA CalmStatement ==
  ASSUME NEW op, NEW arg,
         \/ op \in {"sem_down", "sem_up"} /\ arg \in {"s", "s1", "s2"}
         \/ op = "task_sleep" /\ arg \in Times
         \/ op \in {"get", "load", "store"} /\ arg \in {"soma", "Limite"}
         \/ op \in {"exit_max", "work", "exit_if_failed", "task_exit"} /\ arg = 0
  PROVE  Call(op, arg) \in Seq(Calm) /\ Len(Call(op, arg)) = 1
<1>1. PICK r : r = [op |-> op, arg |-> arg, skip |-> 0]
  OBVIOUS
<1>2. {"s", "s1", "s2"} \subseteq Sems /\ \A x \in {"s", "s1", "s2"} : x \notin QueueSems
  <2>1. {"s", "s1", "s2"} \subseteq Sems
    BY SemNames
  <2>2. \A x \in {"s", "s1", "s2"} : x \notin QueueSems
    BY DEF QueueSems, Range, sVaga, sItem
  <2> QED
    BY <2>1, <2>2
<1>3. arg \in Args /\ op \in Ops
  BY <1>2 DEF Args, Ops
<1>4. r \in Body(0)
  BY <1>1, <1>2, <1>3 DEF Body, Legal
<1>5. Harmless(r, QueueSems)
  BY <1>1, <1>2 DEF Harmless, TradeOps, BufferOps
<1>6. r \in Calm
  BY <1>4, <1>5 DEF Calm
<1> QED
  BY <1>1, <1>6, OneStatement DEF Call, Statement

\* So are their bodies, which never have a permit.
LEMMA CalmBalanced ==
  ASSUME NEW p \in Seq(Calm)
  PROVE  Balanced(p, QueueSems)
<1>1. PICK S : S = Calm
  OBVIOUS
<1>2. \A k \in 1 .. Len(p) : p[k] \in S
  BY <1>1, ElementOfSeq
<1>3. \A k \in 1 .. Len(p) : Harmless(p[k], QueueSems)
  BY <1>1, <1>2 DEF Calm
<1> QED
  BY <1>3, HarmlessLedger

\* The bodies of the tasks of the other tests, one by one.
LEMMA CalmBodies ==
  \A b \in {TaskA, TaskB, taskBody, joinBody, sleepBody, preempcaoBody, stressBody, contabBody} :
     Balanced(b, QueueSems)
<1>1. PICK S : S = Calm
  OBVIOUS
<1>2. Rounds \in Nat
  BY TestAssumption
<1>3. PICK x \in Seq(S) : x = Call("task_exit", 0) /\ Len(x) = 1
  BY <1>1, CalmStatement
<1>4. PICK d1 \in Seq(S) : d1 = Call("sem_down", "s1") /\ Len(d1) = 1
  BY <1>1, CalmStatement
<1>5. PICK d2 \in Seq(S) : d2 = Call("sem_down", "s2") /\ Len(d2) = 1
  BY <1>1, CalmStatement
<1>6. PICK u1 \in Seq(S) : u1 = Call("sem_up", "s1") /\ Len(u1) = 1
  BY <1>1, CalmStatement
<1>7. PICK u2 \in Seq(S) : u2 = Call("sem_up", "s2") /\ Len(u2) = 1
  BY <1>1, CalmStatement
<1>8. PICK y \in Seq(S) : y = Call("task_sleep", {1}) /\ Len(y) = 1
  BY <1>1, CalmStatement DEF Times
<1>9. PICK z \in Seq(S) : z = Call("task_sleep", {0, 1}) /\ Len(z) = 1
  BY <1>1, CalmStatement DEF Times
<1>10. PICK d \in Seq(S) : d = Call("sem_down", "s") /\ Len(d) = 1
  BY <1>1, CalmStatement
<1>11. PICK u \in Seq(S) : u = Call("sem_up", "s") /\ Len(u) = 1
  BY <1>1, CalmStatement
<1>12. PICK l \in Seq(S) : l = Call("load", "soma") /\ Len(l) = 1
  BY <1>1, CalmStatement
<1>13. PICK s \in Seq(S) : s = Call("store", "soma") /\ Len(s) = 1
  BY <1>1, CalmStatement
<1>14. PICK w \in Seq(S) : w = Do("work") /\ Len(w) = 1
  BY <1>1, CalmStatement DEF Do, Call
<1>15. ASSUME NEW b \in Seq(S), Len(b) \in {1, 3, 4, 6, 25} PROVE Repeat(Rounds, b) \o x \in Seq(S)
  <2>1. Repeat(Rounds, b) \in Seq(S)
    BY <1>2, <1>15, RepeatLength
  <2> QED
    BY <2>1
<1>16. \A v \in Seq(S), o \in Seq(S) : v \o o \in Seq(S) /\ Len(v \o o) = Len(v) + Len(o)
  BY ConcatProperties, Zenon
<1>17. ASSUME NEW v \in Seq(S), Len(v) = 1, NEW o \in Seq(S), Len(o) = 1
      PROVE  v \o o \in Seq(S) /\ Len(v \o o) = 2
  <2>1. PICK a : a = Len(v) /\ a = 1
    BY <1>17
  <2>2. PICK b : b = Len(o) /\ b = 1
    BY <1>17
  <2>3. v \o o \in Seq(S) /\ Len(v \o o) = a + b
    <3>1. v \o o \in Seq(S) /\ Len(v \o o) = Len(v) + Len(o)
      BY <1>16, Zenon
    <3>2. a = Len(v) /\ b = Len(o)
      BY <2>1, <2>2
    <3> QED
      BY <3>1, <3>2, Zenon
  <2>4. a + b = 2
    BY <2>1, <2>2
  <2> QED
    BY <2>3, <2>4, Zenon
<1>18. ASSUME NEW v \in Seq(S), Len(v) = 2, NEW o \in Seq(S), Len(o) = 1
      PROVE  v \o o \in Seq(S) /\ Len(v \o o) = 3
  <2>1. PICK a : a = Len(v) /\ a = 2
    BY <1>18
  <2>2. PICK b : b = Len(o) /\ b = 1
    BY <1>18
  <2>3. v \o o \in Seq(S) /\ Len(v \o o) = a + b
    <3>1. v \o o \in Seq(S) /\ Len(v \o o) = Len(v) + Len(o)
      BY <1>16, Zenon
    <3>2. a = Len(v) /\ b = Len(o)
      BY <2>1, <2>2
    <3> QED
      BY <3>1, <3>2, Zenon
  <2>4. a + b = 3
    BY <2>1, <2>2
  <2> QED
    BY <2>3, <2>4, Zenon
<1>19. ASSUME NEW v \in Seq(S), Len(v) = 3, NEW o \in Seq(S), Len(o) = 1
      PROVE  v \o o \in Seq(S) /\ Len(v \o o) = 4
  <2>1. PICK a : a = Len(v) /\ a = 3
    BY <1>19
  <2>2. PICK b : b = Len(o) /\ b = 1
    BY <1>19
  <2>3. v \o o \in Seq(S) /\ Len(v \o o) = a + b
    <3>1. v \o o \in Seq(S) /\ Len(v \o o) = Len(v) + Len(o)
      BY <1>16, Zenon
    <3>2. a = Len(v) /\ b = Len(o)
      BY <2>1, <2>2
    <3> QED
      BY <3>1, <3>2, Zenon
  <2>4. a + b = 4
    BY <2>1, <2>2
  <2> QED
    BY <2>3, <2>4, Zenon
<1>20. ASSUME NEW p, p \in Seq(S) PROVE Balanced(p, QueueSems)
  BY <1>1, <1>20, CalmBalanced
<1>21. TaskA \in Seq(S)
  <2>1. d1 \o y \o u2 \in Seq(S) /\ Len(d1 \o y \o u2) = 3
    <3>1. PICK v \in Seq(S) : v = d1 \o y /\ Len(v) = 2
      BY <1>4, <1>8, <1>7, <1>17, Zenon
    <3> QED
      BY <1>4, <1>8, <1>7, <3>1, <1>18, Zenon
  <2> QED
    BY <1>3, <1>4, <1>8, <1>7, <2>1, <1>15 DEF TaskA
<1>22. TaskB \in Seq(S)
  <2>1. d2 \o y \o u1 \in Seq(S) /\ Len(d2 \o y \o u1) = 3
    <3>1. PICK v \in Seq(S) : v = d2 \o y /\ Len(v) = 2
      BY <1>5, <1>8, <1>6, <1>17, Zenon
    <3> QED
      BY <1>5, <1>8, <1>6, <3>1, <1>18, Zenon
  <2> QED
    BY <1>3, <1>5, <1>8, <1>6, <2>1, <1>15 DEF TaskB
<1>23. taskBody \in Seq(S)
  <2>1. d \o l \o s \o u \in Seq(S) /\ Len(d \o l \o s \o u) = 4
    <3>1. PICK v \in Seq(S) : v = d \o l /\ Len(v) = 2
      BY <1>10, <1>12, <1>17, Zenon
    <3>2. PICK o \in Seq(S) : o = v \o s /\ Len(o) = 3
      BY <1>13, <3>1, <1>18, Zenon
    <3> QED
      BY <1>11, <3>1, <3>2, <1>19, Zenon
  <2> QED
    BY <1>3, <1>10, <1>11, <1>12, <1>13, <2>1, <1>15 DEF taskBody
<1>24. joinBody \in Seq(S)
  <2>1. PICK g \in Seq(S) : g = Call("get", "Limite")
    BY <1>1, CalmStatement
  <2>2. PICK h \in Seq(S) : h = Call("load", "Limite")
    BY <1>1, CalmStatement
  <2>3. PICK k \in Seq(S) : k = Call("store", "Limite")
    BY <1>1, CalmStatement
  <2>4. PICK m \in Seq(S) : m = Do("exit_max")
    BY <1>1, CalmStatement DEF Do, Call
  <2>5. g \o h \o k \o m \in Seq(S)
    OBVIOUS
  <2> QED
    BY <2>1, <2>2, <2>3, <2>4, <2>5, Zenon DEF joinBody
<1>25. sleepBody \in Seq(S)
  BY <1>3, <1>9, <1>15 DEF sleepBody
<1>26. preempcaoBody \in Seq(S) /\ stressBody \in Seq(S)
  BY <1>3, <1>14, <1>15 DEF preempcaoBody, stressBody
<1>27. contabBody \in Seq(S)
  BY <1>3, <1>14 DEF contabBody
<1> QED
  BY <1>20, <1>21, <1>22, <1>23, <1>24, <1>25, <1>26, <1>27

\* The bodies of the tasks of pingpong-mqueue.c: send or receive, again and again.
LEMMA QueueBodiesBalanced ==
  \A b \in {prodBody, consBody, somaBody} : Balanced(b, QueueSems)
<1>1. {"queueValores", "queueRaizes"} = MessageQueues
  BY DEF MessageQueues
<1>2. PICK S : S = Body(5)
  OBVIOUS
<1>3. PICK g : g = QueueSems
  OBVIOUS
<1>4. ASSUME NEW q \in MessageQueues
      PROVE  Balanced(mqueue_send(q), g) /\ Balanced(mqueue_recv(q), g)
  <2>1. Balanced(mqueue_send(q), QueueSems)
    BY QueueLedger, QueuePrograms
  <2>2. Balanced(mqueue_recv(q), QueueSems)
    BY QueueLedger, QueuePrograms
  <2> QED
    BY <1>3, <2>1, <2>2
<1>5. PICK sv \in Seq(S) : sv = mqueue_send("queueValores") /\ Len(sv) = 6 /\ Balanced(sv, g)
  BY <1>1, <1>2, <1>4, QueueCalls
<1>6. PICK sr \in Seq(S) : sr = mqueue_send("queueRaizes") /\ Len(sr) = 6 /\ Balanced(sr, g)
  BY <1>1, <1>2, <1>4, QueueCalls
<1>7. PICK rv \in Seq(S) : rv = mqueue_recv("queueValores") /\ Len(rv) = 6 /\ Balanced(rv, g)
  BY <1>1, <1>2, <1>4, QueueCalls
<1>8. PICK rr \in Seq(S) : rr = mqueue_recv("queueRaizes") /\ Len(rr) = 6 /\ Balanced(rr, g)
  BY <1>1, <1>2, <1>4, QueueCalls
<1>9. \A c \in Seq(Calm) : Balanced(c, g)
  BY <1>3, CalmBalanced
<1>10. PICK x \in Seq(S) : x = Do("exit_if_failed") /\ Balanced(x, g)
  <2>1. Do("exit_if_failed") \in Seq(Calm)
    BY CalmStatement DEF Do, Call
  <2>2. Do("exit_if_failed") \in Seq(S)
    BY <1>2, PlainStatement
  <2> QED
    BY <1>9, <2>1, <2>2
<1>11. PICK y \in Seq(S) : y = Call("task_sleep", {0, 1}) /\ Balanced(y, g) /\ Len(y) = 1
  <2>1. Call("task_sleep", {0, 1}) \in Seq(Calm) /\ Len(Call("task_sleep", {0, 1})) = 1
    BY CalmStatement DEF Times
  <2>2. Call("task_sleep", {0, 1}) \in Seq(S)
    BY <1>2, SleepStatement DEF Times
  <2> QED
    BY <1>9, <2>1, <2>2
<1>12. PICK e \in Seq(S) : e = Call("task_exit", 0) /\ Balanced(e, g)
  <2>1. Call("task_exit", 0) \in Seq(Calm)
    BY CalmStatement
  <2>2. Call("task_exit", 0) \in Seq(S)
    BY <1>2, PlainStatement
  <2> QED
    BY <1>9, <2>1, <2>2
<1>13. \A p \in Seq(S), q \in Seq(S) : Balanced(p, g) /\ Balanced(q, g) => Balanced(p \o q, g)
  BY LedgerConcat
<1>14. \A p \in Seq(S), q \in Seq(S) : p \o q \in Seq(S) /\ Len(p \o q) = Len(p) + Len(q)
  BY ConcatProperties, Zenon
<1>15. Balanced(prodBody, g)
  <2>1. Balanced((sv \o x) \o y, g)
    BY <1>5, <1>10, <1>11, <1>13, <1>14, ZenonT(60)
  <2> QED
    BY <1>5, <1>10, <1>11, <2>1, Zenon DEF prodBody
<1>16. Balanced(consBody, g)
  <2>1. Balanced((rr \o x) \o y, g)
    BY <1>8, <1>10, <1>11, <1>13, <1>14, ZenonT(60)
  <2> QED
    BY <1>8, <1>10, <1>11, <2>1, Zenon DEF consBody
<1>17. Balanced(somaBody, g)
  <2>1. PICK r3 \in Seq(S) : r3 = Repeat(3, rv) /\ Len(r3) = 18 /\ Balanced(r3, g)
    <3>1. Repeat(3, rv) \in Seq(S) /\ Len(Repeat(3, rv)) = 3 * Len(rv)
      BY <1>7, RepeatLength
    <3>2. Len(Repeat(3, rv)) = 18
      <4>1. PICK l : l = Len(rv) /\ l = 6
        BY <1>7
      <4>2. Len(Repeat(3, rv)) = 3 * l
        BY <3>1, <4>1, Zenon
      <4>3. 3 * l = 18
        BY <4>1
      <4> QED
        BY <4>2, <4>3, Zenon
    <3>3. Balanced(Repeat(3, rv), g)
      BY <1>7, LedgerRepeat DEF IsQueueLoop
    <3> QED
      BY <3>1, <3>2, <3>3, Zenon
  <2>2. PICK a \in Seq(S) : a = r3 \o sr /\ Len(a) = Len(r3) + Len(sr) /\ Balanced(a, g)
    BY <1>6, <2>1, <1>13, <1>14, ZenonT(60)
  <2>3. PICK b \in Seq(S) : b = a \o y /\ Len(b) = Len(a) + Len(y) /\ Balanced(b, g)
    BY <1>11, <2>2, <1>13, <1>14, ZenonT(60)
  <2>4. Len(b) = 25
    <3>1. PICK l : l = Len(r3) /\ l = 18
      BY <2>1
    <3>2. PICK j : j = Len(sr) /\ j = 6
      BY <1>6
    <3>3. PICK o : o = Len(y) /\ o = 1
      BY <1>11
    <3>4. Len(b) = (l + j) + o
      BY <2>2, <2>3, <3>1, <3>2, <3>3, Zenon
    <3>5. (l + j) + o = 25
      BY <3>1, <3>2, <3>3
    <3> QED
      BY <3>4, <3>5, Zenon
  <2>5. Repeat(Rounds, b) \in Seq(S) /\ Balanced(Repeat(Rounds, b), g)
    <3>1. Rounds \in Nat
      BY TestAssumption
    <3>2. Repeat(Rounds, b) \in Seq(S)
      BY <2>4, <3>1, RepeatLength
    <3>3. Balanced(Repeat(Rounds, b), g)
      BY <2>3, <2>4, <3>1, LedgerRepeat DEF IsQueueLoop
    <3> QED
      BY <3>2, <3>3
  <2>6. Balanced(Repeat(Rounds, b) \o e, g)
    BY <1>12, <1>13, <2>5, Zenon
  <2> QED
    BY <1>6, <1>7, <1>11, <1>12, <2>1, <2>2, <2>3, <2>6, Zenon DEF somaBody
<1> QED
  BY <1>3, <1>15, <1>16, <1>17

\* The semaphores whose permits the ledgers of a test follow.
PermitsOf(p) == IF p = "prodcons" THEN Lasting ELSE QueueSems

\* pingpong-mqueue.c: its tasks are of three kinds.
LEMMA QueueTasks ==
  \A t \in 1 .. Len(mqueue) - 1 : mqueue[t + 1] \in {prodBody, consBody, somaBody}
<1>1. /\ QUEUE_CONSUMERS \in Nat /\ QUEUE_PRODUCERS \in Nat
      /\ 1 + QUEUE_CONSUMERS + QUEUE_PRODUCERS \in Nat /\ 1 + QUEUE_CONSUMERS + QUEUE_PRODUCERS >= 1
  BY TestAssumption
<1>2. PICK m : m = create(1 + QUEUE_CONSUMERS + QUEUE_PRODUCERS) \o Call("task_join", 1)
                     \o mqueue_destroy("queueValores") \o mqueue_destroy("queueRaizes")
                     \o Call("task_exit", 0)
  OBVIOUS
<1>3. MainProgram(1 + QUEUE_CONSUMERS + QUEUE_PRODUCERS, m)
  BY <1>1, <1>2, QueueMain, Zenon
<1>4. IsBody(prodBody, 5) /\ IsBody(consBody, 5) /\ IsBody(somaBody, 5)
  BY QueueBodies DEF IsBody
<1>5. GroupsAndOne(mqueue, m, somaBody, QUEUE_CONSUMERS, consBody, QUEUE_PRODUCERS, prodBody)
  BY <1>2, Zenon DEF mqueue, GroupsAndOne
<1>6. 5 \in Nat
  OBVIOUS
<1>7. GroupsAndOneTest(mqueue, 5, m, somaBody, QUEUE_CONSUMERS, consBody, QUEUE_PRODUCERS, prodBody)
  BY <1>1, <1>3, <1>4, <1>5, <1>6, ThreeGroups, Zenon
<1>8. PICK q : q = mqueue
  OBVIOUS
<1>9. /\ Len(q) = QUEUE_CONSUMERS + QUEUE_PRODUCERS + 2 /\ q[2] = somaBody
      /\ \A t \in 2 .. QUEUE_CONSUMERS + 1 : q[t + 1] = consBody
      /\ \A t \in QUEUE_CONSUMERS + 2 .. QUEUE_CONSUMERS + QUEUE_PRODUCERS + 1 : q[t + 1] = prodBody
  BY <1>7, <1>8, Zenon DEF GroupsAndOneTest
<1>10. ASSUME NEW t \in 1 .. Len(q) - 1 PROVE q[t + 1] \in {prodBody, consBody, somaBody}
  <2>1. CASE t = 1
    BY <1>9, <2>1
  <2>2. CASE t \in 2 .. QUEUE_CONSUMERS + 1
    BY <1>9, <2>2
  <2>3. CASE t \in QUEUE_CONSUMERS + 2 .. QUEUE_CONSUMERS + QUEUE_PRODUCERS + 1
    BY <1>9, <2>3
  <2> QED
    BY <1>1, <1>9, <2>1, <2>2, <2>3
<1> QED
  BY <1>8, <1>10

\* Every task that main creates has a ledger.
LEMMA TasksBalanced ==
  ASSUME NEW p \in DOMAIN Programs, NEW t \in 1 .. Forks(p)
  PROVE  Balanced(Programs[p][t + 1], PermitsOf(p))
<1>1. PICK q : q = Programs[p] /\ t \in 1 .. Len(q) - 1
  BY DEF Forks
<1>2. CASE p = "prodcons"
  <2>1. q = prodcons
    BY <1>1, <1>2, TestsByName
  <2>2. Len(q) = NUM_PRODUTORES + NUM_CONSUMIDORES + 1
    BY <2>1, ProdconsTest, Zenon
  <2>3. t \in 1 .. NUM_PRODUTORES \/ t \in NUM_PRODUTORES + 1 .. NUM_PRODUTORES + NUM_CONSUMIDORES
    BY <1>1, <2>2, TestAssumption
  <2>4. q[t + 1] \in {taskProdutor, taskConsumidor}
    BY <2>1, <2>3, ProdconsTest
  <2>5. PICK b : b = q[t + 1]
    OBVIOUS
  <2>6. Balanced(b, Lasting)
    BY <2>4, <2>5, ProdutorLedger, ConsumidorLedger
  <2> QED
    BY <1>1, <1>2, <2>5, <2>6 DEF PermitsOf
<1>3. CASE p # "prodcons"
  <2>1. q[t + 1] \in {TaskA, TaskB, taskBody, joinBody, sleepBody, preempcaoBody, stressBody, contabBody,
                      prodBody, consBody, somaBody}
    <3>1. CASE p = "mqueue"
      <4>1. q = mqueue
        BY <1>1, <3>1, TestsByName
      <4> QED
        BY <1>1, <4>1, QueueTasks
    <3>2. CASE p = "semaphore"
      <4>1. q = semaphore
        BY <1>1, <3>2, TestsByName
      <4>2. Len(q) = 5 /\ q[2] = TaskA /\ q[3] = TaskA /\ q[4] = TaskB /\ q[5] = TaskB
        BY <4>1, SemaphoreTest, Zenon
      <4>3. t \in 1 .. 4
        BY <1>1, <4>2
      <4> QED
        BY <4>2, <4>3
    <3>3. CASE p = "racecond"
      <4>1. q = racecond
        BY <1>1, <3>3, TestsByName
      <4>2. Len(q) = NUMTASKS + 1 /\ \A u \in 1 .. NUMTASKS : q[u + 1] = taskBody
        BY <4>1, RacecondTest, Zenon
      <4> QED
        BY <1>1, <4>2, TestAssumption
    <3>4. CASE p \in {"join", "sleep", "preempcao", "stress", "contab_prio"}
      <4>1. PICK b \in {joinBody, sleepBody, preempcaoBody, stressBody, contabBody} : IsForkJoin(q, b)
        BY <1>1, <3>4, TestsByName, ForkJoinTests
      <4>2. Len(q) = NUMTASKS + 1 /\ \A u \in 1 .. NUMTASKS : q[u + 1] = b
        BY <4>1, Zenon DEF IsForkJoin
      <4>3. q[t + 1] = b
        BY <1>1, <4>2, TestAssumption
      <4> QED
        BY <4>1, <4>3
    <3> QED
      BY <1>3, <3>1, <3>2, <3>3, <3>4, TestNames
  <2>2. PICK b : b = q[t + 1]
    OBVIOUS
  <2>3. Balanced(b, QueueSems)
    BY <2>1, <2>2, CalmBodies, QueueBodiesBalanced
  <2> QED
    BY <1>1, <1>3, <2>2, <2>3 DEF PermitsOf
<1> QED
  BY <1>2, <1>3

\* main of pingpong-prodcons.c creates its tasks and ends.
LEMMA ProdconsMainOnlyCreates ==
  \A k \in 1 .. Len(prodcons[1]) : prodcons[1][k].op \in {"task_create", "task_exit", "exit"}
<1>1. PICK n \in Nat : n = NUM_PRODUTORES + NUM_CONSUMIDORES
  BY TestAssumption
<1>2. PICK m : m = create(n) \o Call("task_exit", 0)
  OBVIOUS
<1>3. MainPart(n, create(n)) /\ Len(create(n)) = n
  BY <1>1, MainCreates
<1>4. IsEnd(Call("task_exit", 0))
  BY DEF IsEnd
<1>5. MainProgram(n, m) /\ Len(m) = Len(create(n)) + 1
  BY <1>2, <1>3, <1>4, MainEnds, Zenon
<1>6. Len(m) = n + 1 /\ \A k \in 1 .. n : m[k].op = "task_create"
  BY <1>1, <1>3, <1>5 DEF MainProgram
<1>7. m[Len(m)].op \in {"task_exit", "exit"}
  BY <1>5 DEF MainProgram
<1>8. prodcons[1] = m
  <2>1. NUM_PRODUTORES \in Nat /\ NUM_CONSUMIDORES \in Nat /\ 0 \in Nat
    BY TestAssumption
  <2>2. MainProgram(NUM_PRODUTORES + NUM_CONSUMIDORES, m)
    BY <1>1, <1>5, Zenon
  <2>3. IsBody(taskProdutor, 0) /\ IsBody(taskConsumidor, 0)
    BY ProdconsBodies DEF IsBody
  <2>4. GroupsOf(prodcons, m, NUM_PRODUTORES, taskProdutor, NUM_CONSUMIDORES, taskConsumidor)
    BY <1>1, <1>2, Zenon DEF prodcons, GroupsOf
  <2>5. GroupsTest(prodcons, 0, m, NUM_PRODUTORES, taskProdutor, NUM_CONSUMIDORES, taskConsumidor)
    BY <2>1, <2>2, <2>3, <2>4, TwoGroups, Zenon
  <2> QED
    BY <2>5, Zenon DEF GroupsTest
<1>9. \A k \in 1 .. Len(m) : m[k].op \in {"task_create", "task_exit", "exit"}
  BY <1>1, <1>6, <1>7
<1> QED
  BY <1>8, <1>9, Zenon

\* Two sets that differ at most in t.
SameBut(A, B, t) == A \ {t} = B \ {t}

\* How their numbers of elements compare.
LEMMA CountMoves ==
  ASSUME NEW A, NEW B, NEW t, IsFiniteSet(A), SameBut(A, B, t)
  PROVE  /\ IsFiniteSet(B) /\ Cardinality(A) \in Nat /\ Cardinality(B) \in Nat
         /\ t \in A /\ t \notin B => Cardinality(B) = Cardinality(A) - 1
         /\ t \notin A /\ t \in B => Cardinality(B) = Cardinality(A) + 1
         /\ (t \in A <=> t \in B) => Cardinality(B) = Cardinality(A)
         /\ Cardinality(B) <= Cardinality(A) + 1
         /\ t \in A \/ t \notin B => Cardinality(B) <= Cardinality(A)
<1>1. PICK C : C = A \ {t} /\ C = B \ {t}
  BY DEF SameBut
<1>2. IsFiniteSet(C) /\ Cardinality(C) = IF t \in A THEN Cardinality(A) - 1 ELSE Cardinality(A)
  BY <1>1, FS_RemoveElement
<1>3. t \notin C /\ C \cup {t} = B \cup {t}
  BY <1>1
<1>4. IsFiniteSet(C \cup {t}) /\ Cardinality(C \cup {t}) = Cardinality(C) + 1
  BY <1>2, <1>3, FS_AddElement
<1>5. CASE t \in B
  <2>1. B = C \cup {t}
    BY <1>3, <1>5
  <2>2. IsFiniteSet(B) /\ Cardinality(B) = Cardinality(C) + 1
    BY <1>4, <2>1, Zenon
  <2>3. Cardinality(A) \in Nat /\ Cardinality(B) \in Nat
    BY <2>2, FS_CardinalityType
  <2> QED
    BY <1>2, <1>5, <2>2, <2>3
<1>6. CASE t \notin B
  <2>1. B = C
    BY <1>1, <1>6
  <2>2. IsFiniteSet(B) /\ Cardinality(B) = Cardinality(C)
    BY <1>2, <2>1, Zenon
  <2>3. Cardinality(A) \in Nat /\ Cardinality(B) \in Nat
    BY <2>2, FS_CardinalityType
  <2> QED
    BY <1>2, <1>6, <2>2, <2>3
<1> QED
  BY <1>5, <1>6

\* A queue without repetitions has as many tasks as entries.
LEMMA QueueCount ==
  ASSUME NEW q \in Seq(Tasks), IsInjective(q), NEW A, IsFiniteSet(A), Range(q) \subseteq A
  PROVE  Len(q) <= Cardinality(A)
<1>1. PICK n \in Nat : n = Len(q)
  OBVIOUS
<1>2. DOMAIN q = 1 .. n /\ q \in [1 .. n -> A]
  <2>1. q \in [1 .. n -> Tasks] /\ DOMAIN q = 1 .. n
    BY <1>1
  <2>2. \A k \in 1 .. n : q[k] \in A
    BY <2>1 DEF Range
  <2> QED
    BY <2>1, <2>2
<1>3. q \in Injection(1 .. n, A)
  BY <1>2 DEF Injection, IsInjective
<1>4. Cardinality(1 .. n) <= Cardinality(A)
  BY <1>3, FS_Injection
<1>5. Cardinality(1 .. n) = n
  <2>1. 1 \in Int /\ n \in Int
    OBVIOUS
  <2>2. Cardinality(1 .. n) = IF 1 > n THEN 0 ELSE n - 1 + 1
    BY <2>1, FS_Interval
  <2> QED
    BY <2>2
<1> QED
  BY <1>1, <1>4, <1>5

------------------------------------------------------------------------------
(* Permits *)

\* The semaphores whose permits are counted, the ledger of a task, and what it says the task holds.
Permits == PermitsOf(test)
LedgerOf(t) == CHOOSE T : Ledger(Program(t), T, Permits)
Held(t) == LedgerOf(t)[pc[t]]
Follows(t) == After(LedgerOf(t), pc[t] + 1)

\* The tasks that hold a permit of s; with those that wait for one, whom value[s] counts as
\* well; and the permits there are: the ones left in s and the ones in the hands of tasks.
Owners(s) == {t \in Created : s \in Held(t)}
Claims(s) == {t \in Created : s \in Held(t) \/ Suspends(t, "sem_down", s)}
Issued(s) == IF active[s] THEN value[s] + Cardinality(Claims(s)) ELSE Cardinality(Owners(s))

\* Nobody waits twice.
NoRepeat == \A s \in Sems : IsInjective(waiting[s])

\* Every task has its ledger.
LEMMA LedgersHold ==
  ASSUME Base, NEW t \in Created
  PROVE  Ledger(Program(t), LedgerOf(t), Permits)
<1>1. test \in DOMAIN Programs /\ t \in 1 .. Forks(test)
  BY DEF Base, Types, Created, Forks
<1>2. Balanced(Programs[test][t + 1], PermitsOf(test))
  BY <1>1, TasksBalanced
<1>3. PICK p, g : p = Program(t) /\ g = Permits /\ Balanced(p, g)
  BY <1>2 DEF Permits, Program
<1>4. Ledger(p, CHOOSE T : Ledger(p, T, g), g)
  BY <1>3, Zenon DEF Balanced
<1> QED
  BY <1>3, <1>4, Zenon DEF LedgerOf

\* What the ledger says of the statement a task is at.
LEMMA HeldFits ==
  ASSUME Base, NEW t \in Created
  PROVE  /\ Held(t) \subseteq Permits
         /\ Fits(Current(t), Held(t), Follows(t), Permits)
         /\ Current(t).skip # 0 => Current(t).op \in {"test", "sem_down"}
<1>1. PICK p, T, g, k : p = Program(t) /\ T = LedgerOf(t) /\ g = Permits /\ k = pc[t]
  OBVIOUS
<1>2. Ledger(p, T, g)
  BY <1>1, LedgersHold
<1>3. k \in 1 .. Len(p)
  BY <1>1 DEF Base, Positions, Existing
<1>4. Entry(p, T, g, k)
  BY <1>2, <1>3 DEF Ledger
<1>5. T[k] \subseteq g /\ Fits(p[k], T[k], After(T, k + 1), g) /\ Jumps(p[k], k, Len(p), T[k], T)
  BY <1>4, Zenon DEF Entry
<1>6. p[k].skip # 0 => p[k].op \in {"test", "sem_down"}
  BY <1>5 DEF Jumps
<1> QED
  BY <1>1, <1>5, <1>6, Zenon DEF Held, Follows, Current

\* The end of a statement.
LEMMA HeldCompletes ==
  ASSUME Base, NEW t \in Created, NEW r, Completes(t, r), test' = test
  PROVE  /\ r # -1 \/ Current(t).skip = 0 => Held(t)' = Follows(t)
         /\ r = -1 /\ Current(t).skip # 0 => Held(t)' \subseteq Held(t)
<1>1. PICK p, T, g, k, s : /\ p = Program(t) /\ T = LedgerOf(t) /\ g = Permits
                           /\ k = pc[t] /\ s = Current(t).skip
  OBVIOUS
<1>2. Ledger(p, T, g)
  BY <1>1, LedgersHold
<1>3. k \in 1 .. Len(p) /\ Len(p) \in Nat /\ pc \in [Tasks -> Nat] /\ t \in Tasks
  BY <1>1, <1>2 DEF Base, Positions, Existing, Types, Readable, Ledger
<1>4. Entry(p, T, g, k)
  BY <1>2, <1>3 DEF Ledger
<1>5. T[k] \subseteq g /\ Fits(p[k], T[k], After(T, k + 1), g) /\ Jumps(p[k], k, Len(p), T[k], T)
  BY <1>4, Zenon DEF Entry
<1>6. s = p[k].skip
  BY <1>1 DEF Current
<1>7. s # 0 => s \in Nat /\ k + s <= Len(p) /\ After(T, k + 1 + s) \subseteq T[k]
  BY <1>5, <1>6 DEF Jumps
<1>8. Len(T) = Len(p) /\ T[1] = {}
  <2>1. Len(T) = Len(p) /\ After(T, 1) = {}
    BY <1>2 DEF Ledger
  <2>2. 1 \in 1 .. Len(T)
    BY <1>3, <2>1
  <2> QED
    BY <2>1, <2>2 DEF After
<1>9. ASSUME NEW n \in Nat, n \in 1 .. Len(p) + 1
      PROVE  After(T, n) = T[IF n > Len(p) THEN 1 ELSE n]
  <2>1. CASE n > Len(p)
    <3>1. n \notin 1 .. Len(T)
      BY <1>3, <1>8, <2>1
    <3>2. After(T, n) = {}
      BY <3>1 DEF After
    <3> QED
      BY <1>8, <2>1, <3>2
  <2>2. CASE ~(n > Len(p))
    <3>1. n \in 1 .. Len(T)
      BY <1>3, <1>8, <1>9, <2>2
    <3>2. After(T, n) = T[n]
      BY <3>1 DEF After
    <3> QED
      BY <2>2, <3>2
  <2> QED
    BY <2>1, <2>2
<1>10. PICK n : n = k + 1 + (IF r = -1 THEN s ELSE 0)
  OBVIOUS
<1>11. pc'[t] = IF n > Len(p) THEN 1 ELSE n
  BY <1>1, <1>3, <1>10 DEF Completes
<1>12. Held(t)' = T[pc'[t]]
  <2>1. Held(t)' = LedgerOf(t)'[pc'[t]]
    BY DEF Held
  <2>2. LedgerOf(t)' = LedgerOf(t)
    BY DEF LedgerOf, Program, Permits
  <2> QED
    BY <1>1, <2>1, <2>2, Zenon
<1>13. n \in Nat /\ n \in 1 .. Len(p) + 1
  BY <1>3, <1>7, <1>10
<1>14. Held(t)' = After(T, n)
  BY <1>9, <1>11, <1>12, <1>13
<1>15. r # -1 \/ s = 0 => n = k + 1
  BY <1>3, <1>10
<1>16. r = -1 => n = k + 1 + s
  BY <1>10
<1> QED
  BY <1>1, <1>7, <1>14, <1>15, <1>16 DEF Follows, Held

\* The statement is over; a sem_down has failed if its semaphore is gone.
Over(t) ==
  \E r : Completes(t, r) /\ (Current(t).op = "sem_down" => r = IF active[Current(t).arg] THEN 0 ELSE -1)

\* The task stays where it is.
Stays(t) == pc'[t] = pc[t] /\ (IsSuspended(t) \/ Ends(t))

\* Every step ends a statement, or leaves the task where it is.
LEMMA StepIsOver ==
  ASSUME Base, NEW t \in Tasks, Step(t)
  PROVE  Stays(t) \/ (GoesOn(t) /\ Over(t))
<1>1. Frame(t)
  BY StepFrame
<1>2. ASSUME IsSuspended(t) \/ Ends(t) PROVE Stays(t)
  BY <1>2 DEF Stays, IsSuspended, Ends
<1>3. ASSUME NEW r, Completes(t, r),
             Current(t).op = "sem_down" => r = IF active[Current(t).arg] THEN 0 ELSE -1
      PROVE  Over(t)
  BY <1>3, Zenon DEF Over
<1>4. GoesOn(t) \/ IsSuspended(t) \/ Ends(t)
  BY <1>1 DEF Frame
<1>5. Over(t) => Stays(t) \/ (GoesOn(t) /\ Over(t))
  BY <1>2, <1>4
<1>6. CASE CreateTask(t)
  <2>1. Completes(t, 0)
    BY <1>6 DEF CreateTask, Calls
  <2>2. Current(t).op = "task_create"
    BY <1>6 DEF CreateTask, AtStatement
  <2> QED
    BY <1>3, <1>5, <2>1, <2>2
<1>7. CASE JoinTask(t)
  <2>1. Current(t).op = "task_join" /\ ~called[t] /\ t \in Tasks /\ DOMAIN called = Tasks
    BY <1>7 DEF JoinTask, AtStatement, Base, Types
  <2>2. \/ \E r : Completes(t, r)
        \/ called' = [called EXCEPT ![t] = TRUE] /\ pc' = pc
    BY <1>7, Zenon DEF JoinTask, Calls
  <2>3. CASE \E r : Completes(t, r)
    BY <1>3, <1>5, <2>1, <2>3
  <2>4. CASE called' = [called EXCEPT ![t] = TRUE] /\ pc' = pc
    <3>1. called'[t]
      BY <2>1, <2>4
    <3> QED
      BY <1>2, <1>4, <3>1 DEF GoesOn
  <2> QED
    BY <2>2, <2>3, <2>4
<1>8. CASE Sleep(t)
  <2>1. Current(t).op = "task_sleep" /\ ~called[t] /\ t \in Tasks /\ DOMAIN called = Tasks
    BY <1>8 DEF Sleep, AtStatement, Base, Types
  <2>2. \/ \E r : Completes(t, r)
        \/ called' = [called EXCEPT ![t] = TRUE] /\ pc' = pc
    BY <1>8, Zenon DEF Sleep, Calls
  <2>3. CASE \E r : Completes(t, r)
    BY <1>3, <1>5, <2>1, <2>3
  <2>4. CASE called' = [called EXCEPT ![t] = TRUE] /\ pc' = pc
    <3>1. called'[t]
      BY <2>1, <2>4
    <3> QED
      BY <1>2, <1>4, <3>1 DEF GoesOn
  <2> QED
    BY <2>2, <2>3, <2>4
<1>9. CASE Down(t)
  <2>1. Current(t).op = "sem_down" /\ ~called[t] /\ t \in Tasks /\ DOMAIN called = Tasks
    BY <1>9 DEF Down, AtStatement, Base, Types
  <2>2. PICK b, r : b \in BOOLEAN /\ Calls(t, b, r) /\ r = IF active[Current(t).arg] THEN 0 ELSE -1
    BY <1>9 DEF Down
  <2>3. CASE ~b
    <3>1. Completes(t, r)
      BY <2>2, <2>3 DEF Calls
    <3> QED
      BY <1>3, <1>5, <2>2, <3>1
  <2>4. CASE b
    <3>1. called'[t] /\ pc' = pc
      BY <2>1, <2>2, <2>4 DEF Calls
    <3> QED
      BY <1>2, <1>4, <3>1 DEF GoesOn
  <2> QED
    BY <2>2, <2>3, <2>4
<1>10. CASE Up(t)
  <2>1. Completes(t, 0) /\ Current(t).op = "sem_up"
    BY <1>10 DEF Up, Calls, AtStatement
  <2> QED
    BY <1>3, <1>5, <2>1
<1>11. CASE Destroy(t)
  <2>1. Completes(t, 0) /\ Current(t).op = "sem_destroy"
    BY <1>11 DEF Destroy, Calls, AtStatement
  <2> QED
    BY <1>3, <1>5, <2>1
<1>12. CASE Return(t)
  <2>1. PICK r : /\ Completes(t, r)
                 /\ Current(t).op = "sem_down" => r = IF active[Current(t).arg] THEN 0 ELSE -1
    BY <1>12 DEF Return
  <2> QED
    BY <1>3, <1>5, <2>1
<1>13. CASE ExitTask(t) \/ ExitProcess(t)
  <2>1. CASE ExitTask(t)
    BY <1>2, <2>1, ExitTaskFrame DEF Exits
  <2>2. CASE ExitProcess(t)
    <3>1. Current(t).op = "exit" /\ ~called[t] /\ pc' = pc /\ called' = called /\ ret' = ret /\ halted'
          /\ state' = state
      BY <2>2 DEF ExitProcess, AtStatement, kernelVars
    <3>2. Ends(t)
      BY <3>1 DEF Ends
    <3> QED
      BY <1>2, <3>2
  <2> QED
    BY <1>13, <2>1, <2>2
<1>14. CASE Buffer(t) \/ Global(t) \/ Work(t)
  <2>1. Completes(t, ret[t])
    BY <1>14 DEF Buffer, Global, Work, Own
  <2>2. Current(t).op # "sem_down"
    BY <1>14, StepOps
  <2> QED
    BY <1>3, <1>5, <2>1, <2>2
<1>15. CASE Queue(t)
  <2>1. PICK r : Completes(t, r)
    BY <1>15 DEF Queue
  <2>2. Current(t).op # "sem_down"
    BY <1>15, StepOps
  <2> QED
    BY <1>3, <1>5, <2>1, <2>2
<1> QED
  BY <1>6, <1>7, <1>8, <1>9, <1>10, <1>11, <1>12, <1>13, <1>14, <1>15 DEF Step

\* The semaphores of pingpong-prodcons.c are never destroyed.
Lasts == test = "prodcons" => \A s \in Lasting : active[s]

\* The names do not overlap.
LEMMA LastingNames ==
  /\ Lasting \cap QueueSems = {} /\ Lasting \subseteq Sems /\ QueueSems \subseteq Sems /\ Permits \subseteq Sems
  /\ \A q \in MessageQueues : sVaga[q] \in QueueSems /\ sItem[q] \in QueueSems /\ sVaga[q] # sItem[q]
  /\ \A q, u \in MessageQueues : /\ sVaga[q] # sItem[u]
                                  /\ (sVaga[q] = sVaga[u] => q = u) /\ (sItem[q] = sItem[u] => q = u)
<1>1. QueueSems = {"V.sVaga", "R.sVaga", "V.sItem", "R.sItem"}
  BY DEF QueueSems, Range, sVaga, sItem
<1>2. Lasting \subseteq Sems /\ QueueSems \subseteq Sems
  BY <1>1, SemNames DEF Lasting
<1>3. Lasting \cap QueueSems = {}
  BY <1>1 DEF Lasting
<1>4. Permits \subseteq Sems
  BY <1>2 DEF Permits, PermitsOf
<1>5. /\ \A q \in MessageQueues : sVaga[q] \in QueueSems /\ sItem[q] \in QueueSems /\ sVaga[q] # sItem[q]
      /\ \A q, u \in MessageQueues : /\ sVaga[q] # sItem[u]
                                      /\ (sVaga[q] = sVaga[u] => q = u) /\ (sItem[q] = sItem[u] => q = u)
  BY <1>1 DEF MessageQueues, sVaga, sItem
<1> QED
  BY <1>2, <1>3, <1>4, <1>5

\* What a step does to what the task holds.
HeldMoves(t) ==
  LET r == Current(t)
  IN  /\ r.op \in TradeOps \cup {"sem_up"} => Held(t)' = Follows(t)
      /\ r.op \notin TradeOps \cup {"sem_up", "sem_down"} => Held(t)' \subseteq Held(t)
      /\ r.op = "sem_down" /\ called'[t] => Held(t)' = Held(t)
      /\ r.op = "sem_down" /\ ~called'[t] /\ active[r.arg] => Held(t)' = Follows(t)
      /\ r.op = "sem_down" /\ ~active[r.arg] => Held(t)' \subseteq Held(t)
\* Every step does that.
LEMMA HeldStep ==
  ASSUME Base, Lasts, NEW t \in Created, Step(t)
  PROVE  HeldMoves(t)
<1>1. PICK r, now, g, next : r = Current(t) /\ now = Held(t) /\ g = Permits /\ next = Follows(t)
  OBVIOUS
<1>2. Fits(r, now, next, g) /\ (r.skip # 0 => r.op \in {"test", "sem_down"})
  BY <1>1, HeldFits
<1>3. t \in Tasks /\ test' = test
  BY StepFrame DEF Base, Readable, Frame, OthersStay
<1>4. Stays(t) \/ (GoesOn(t) /\ Over(t))
  BY <1>3, StepIsOver
<1>5. CASE Stays(t)
  <2>1. Held(t)' = now
    BY <1>1, <1>3, <1>5 DEF Stays, Held, LedgerOf, Program, Permits
  <2>2. r.op \in SuspendOps \/ r.op \in ExitOps \cup {"exit"}
    BY <1>1, <1>5 DEF Stays, IsSuspended, Ends
  <2>3. r.op = "sem_down" => called'[t]
    BY <1>1, <1>5 DEF Stays, IsSuspended, Ends, ExitOps
  <2>4. r.op \notin TradeOps \cup {"sem_up"}
    BY <2>2 DEF SuspendOps, ExitOps, TradeOps
  <2> QED
    BY <1>1, <2>1, <2>3, <2>4 DEF HeldMoves
<1>6. CASE GoesOn(t) /\ Over(t)
  <2>1. PICK c : Completes(t, c) /\ (r.op = "sem_down" => c = IF active[r.arg] THEN 0 ELSE -1)
    BY <1>1, <1>6 DEF Over
  <2>2. /\ c # -1 \/ r.skip = 0 => Held(t)' = next
        /\ c = -1 /\ r.skip # 0 => Held(t)' \subseteq now
    BY <1>1, <1>3, <2>1, HeldCompletes
  <2>3. ~called'[t]
    BY <1>6 DEF GoesOn
  <2>4. r.op \in TradeOps \cup {"sem_up"} => Held(t)' = next
    BY <1>2, <2>2 DEF TradeOps
  <2>5. next = (now \ Spent(r, g)) \cup Gained(r, g)
    BY <1>2 DEF Fits
  <2>6. r.op \notin TradeOps \cup {"sem_up", "sem_down"} => Held(t)' \subseteq now
    <3>1. r.op \notin TradeOps \cup {"sem_up", "sem_down"} => Gained(r, g) = {}
      BY DEF Gained, TradeOps
    <3> QED
      BY <2>2, <2>5, <3>1
  <2>7. r.op = "sem_down" /\ active[r.arg] => Held(t)' = next
    BY <2>1, <2>2
  <2>8. r.op = "sem_down" /\ ~active[r.arg] => Held(t)' \subseteq now
    <3>1. SUFFICES ASSUME r.op = "sem_down", ~active[r.arg], r.skip = 0 PROVE Held(t)' \subseteq now
      BY <2>1, <2>2
    <3>2. r.arg \notin g
      <4>1. r.arg \in g => r.arg \in Lasting
        BY <1>2, <3>1 DEF Fits
      <4>2. r.arg \in g /\ r.arg \in Lasting => test = "prodcons"
        BY <1>1, LastingNames DEF Permits, PermitsOf
      <4> QED
        BY <3>1, <4>1, <4>2 DEF Lasts
    <3>3. Gained(r, g) = {}
      BY <3>1, <3>2 DEF Gained
    <3> QED
      BY <2>2, <2>5, <3>1, <3>3
  <2> QED
    BY <1>1, <2>3, <2>4, <2>6, <2>7, <2>8 DEF HeldMoves
<1> QED
  BY <1>4, <1>5, <1>6

\* Nobody but main and its tasks is ever in a call, and main never in a sem_down.
LEMMA WhoWaits ==
  ASSUME Base, NEW s \in Permits, NEW u \in Range(waiting[s])
  PROVE  u \in Created /\ Suspends(u, "sem_down", s) /\ s \notin Held(u)
<1>1. s \in Sems
  BY LastingNames
<1>2. waiting[s] \in Seq(Tasks)
  BY <1>1 DEF Base, Types
<1>3. u \in Tasks
  BY <1>2 DEF Range
<1>4. Suspends(u, "sem_down", s)
  BY <1>1 DEF Base, Queues
<1>5. u \in Existing
  BY <1>3, <1>4 DEF Base, Suspended, Lifetimes, Suspends
<1>6. u # main
  <2>1. u = main => Current(u).op \in MainOps \cup {"task_create", "task_exit", "exit"}
    BY <1>5, StatementRead DEF Base
  <2> QED
    BY <1>4, <2>1 DEF Suspends, MainOps
<1>7. u \in Created
  BY <1>5, <1>6 DEF Existing
<1>8. Fits(Current(u), Held(u), Follows(u), Permits)
  BY <1>7, HeldFits
<1>9. s \in Gained(Current(u), Permits)
  BY <1>4 DEF Suspends, Gained
<1>10. s \notin Held(u)
  BY <1>8, <1>9 DEF Fits
<1> QED
  BY <1>4, <1>7, <1>10

\* The sets that are counted are finite.
LEMMA ClaimsFinite ==
  ASSUME Base, NEW s
  PROVE  /\ IsFiniteSet(Created) /\ IsFiniteSet(Owners(s)) /\ IsFiniteSet(Claims(s))
         /\ Owners(s) \subseteq Claims(s)
         /\ Cardinality(Owners(s)) \in Nat /\ Cardinality(Claims(s)) \in Nat
<1>1. PICK n \in Int : n = Len(Programs[test]) - 1
  <2>1. PICK l : l = Len(Programs[test]) /\ l \in Nat
    BY DEF Base, Readable
  <2>2. l - 1 \in Int
    BY <2>1
  <2> QED
    BY <2>1, <2>2, Zenon
<1>2. Created = 1 .. n
  BY <1>1 DEF Created
<1>3. IsFiniteSet(Created)
  <2>1. 1 \in Int
    OBVIOUS
  <2> QED
    BY <1>1, <1>2, <2>1, FS_Interval
<1>4. Owners(s) \in SUBSET Created /\ Claims(s) \in SUBSET Created /\ Owners(s) \subseteq Claims(s)
  BY DEF Owners, Claims
<1>5. IsFiniteSet(Owners(s)) /\ IsFiniteSet(Claims(s))
  BY <1>3, <1>4, FS_Subset
<1> QED
  BY <1>3, <1>4, <1>5, FS_CardinalityType

\* There are at least as many permits as tasks that hold one.
LEMMA Admits ==
  ASSUME Base, NoRepeat, NEW s \in Permits
  PROVE  Issued(s) \in Int /\ Cardinality(Owners(s)) <= Issued(s)
<1>1. s \in Sems
  BY LastingNames
<1>2. value[s] \in Int /\ waiting[s] \in Seq(Tasks) /\ IsInjective(waiting[s]) /\ active[s] \in BOOLEAN
  BY <1>1 DEF Base, Types, NoRepeat
<1>3. PICK o, c : o = Owners(s) /\ c = Claims(s)
  OBVIOUS
<1>4. IsFiniteSet(o) /\ IsFiniteSet(c) /\ o \subseteq c /\ Cardinality(o) \in Nat /\ Cardinality(c) \in Nat
  BY <1>3, ClaimsFinite
<1>5. CASE ~active[s]
  BY <1>3, <1>4, <1>5 DEF Issued
<1>6. CASE active[s]
  <2>1. Len(waiting[s]) = IF value[s] < 0 THEN -value[s] ELSE 0
    BY <1>1, <1>6 DEF Base, Counted
  <2>2. Range(waiting[s]) \subseteq c \ o
    BY <1>3, WhoWaits DEF Claims, Owners
  <2>3. IsFiniteSet(c \ o) /\ Cardinality(c \ o) = Cardinality(c) - Cardinality(c \cap o)
    BY <1>4, FS_Difference
  <2>4. c \cap o = o
    BY <1>4
  <2>5. Cardinality(c \ o) = Cardinality(c) - Cardinality(o)
    BY <2>3, <2>4, Zenon
  <2>6. Len(waiting[s]) <= Cardinality(c \ o)
    BY <1>2, <2>2, <2>3, QueueCount
  <2>7. Issued(s) = value[s] + Cardinality(c)
    BY <1>3, <1>6 DEF Issued
  <2>8. Cardinality(c \ o) \in Nat /\ Cardinality(o) <= Cardinality(c)
    BY <1>4, <2>3, FS_CardinalityType, FS_Subset
  <2> QED
    BY <1>2, <1>3, <1>4, <2>1, <2>5, <2>6, <2>7, <2>8
<1> QED
  BY <1>2, <1>5, <1>6

\* A step of a task changes what this task holds and nobody else's.
LEMMA ClaimsMove ==
  ASSUME Base, NEW t \in Tasks, Step(t), NEW s
  PROVE  /\ SameBut(Owners(s), Owners(s)', t) /\ SameBut(Claims(s), Claims(s)', t)
         /\ t \notin Created => Owners(s)' = Owners(s) /\ Claims(s)' = Claims(s)
<1>1. Frame(t) /\ OthersStay(t) /\ t \in Existing
  BY StepFrame DEF Frame, Mover
<1>2. /\ Created' = Created
      /\ \A u \in Tasks \ {t} : Current(u)' = Current(u) /\ called'[u] = called[u] /\ pc'[u] = pc[u]
  BY <1>1, OthersKept
<1>3. Created \subseteq Tasks /\ test' = test
  BY <1>1 DEF Base, Readable, OthersStay
<1>4. \A u \in Created \ {t} : Held(u)' = Held(u)
  BY <1>2, <1>3 DEF Held, LedgerOf, Program, Permits
<1>5. \A u \in Created \ {t} : Suspends(u, "sem_down", s)' = Suspends(u, "sem_down", s)
  BY <1>2, <1>3 DEF Suspends
<1>6. Owners(s)' = {u \in Created : s \in Held(u)'}
  BY <1>2 DEF Owners
<1>7. Claims(s)' = {u \in Created : s \in Held(u)' \/ Suspends(u, "sem_down", s)'}
  BY <1>2 DEF Claims
<1> QED
  BY <1>4, <1>5, <1>6, <1>7 DEF SameBut, Owners, Claims

\* A task that a step leaves in a call is where it was, and was not in it before.
LEMMA CallBegins ==
  ASSUME Base, NEW t \in Tasks, Step(t), called'[t]
  PROVE  Current(t)' = Current(t) /\ ~called[t] /\ Current(t).op \in SuspendOps
<1>1. Frame(t) /\ OthersStay(t) /\ t \in Existing
  BY StepFrame DEF Frame, Mover
<1>2. IsSuspended(t)
  BY <1>1 DEF Frame, GoesOn, Ends
<1> QED
  BY <1>1, <1>2, OthersKept DEF IsSuspended

\* Permits are handed on by four statements only.
Passes(t, s) == Current(t).op \in TradeOps /\ s \in Spent(Current(t), Permits)
Receives(t, s) == Current(t).op \in TradeOps /\ s \in Gained(Current(t), Permits)

\* A task that comes to hold a permit has taken it, or has had the promise of it.
LEMMA ClaimsOf ==
  ASSUME Base, Lasts, NEW t \in Created, Step(t), NEW s \in Permits
  PROVE  /\ Passes(t, s) => t \in Owners(s) /\ t \notin Claims(s)' /\ ~Receives(t, s)
         /\ ~active[s] /\ ~Receives(t, s) => t \in Owners(s) \/ t \notin Owners(s)'
         /\ ~Receives(t, s) /\ ~(Down(t) /\ Current(t).arg = s) => t \in Claims(s) \/ t \notin Claims(s)'
<1>1. PICK r, now, g, next : r = Current(t) /\ now = Held(t) /\ g = Permits /\ next = Follows(t)
  OBVIOUS
<1>2. Fits(r, now, next, g)
  BY <1>1, HeldFits
<1>3. t \in Tasks /\ Created' = Created
  <2>1. t \in Tasks
    BY DEF Base, Readable
  <2>2. test' = test
    BY <2>1, StepFrame DEF Frame, OthersStay
  <2> QED
    BY <2>1, <2>2 DEF Created
<1>4. /\ next = (now \ Spent(r, g)) \cup Gained(r, g)
      /\ Spent(r, g) \subseteq now /\ Gained(r, g) \cap now = {}
  BY <1>2 DEF Fits
<1>5. HeldMoves(t)
  BY HeldStep
<1>6. /\ r.op \in TradeOps \cup {"sem_up"} => Held(t)' = next
      /\ r.op \notin TradeOps \cup {"sem_up", "sem_down"} => Held(t)' \subseteq now
      /\ r.op = "sem_down" /\ called'[t] => Held(t)' = now
      /\ r.op = "sem_down" /\ ~called'[t] /\ active[r.arg] => Held(t)' = next
      /\ r.op = "sem_down" /\ ~active[r.arg] => Held(t)' \subseteq now
  BY <1>1, <1>5, Zenon DEF HeldMoves
<1>7. /\ t \in Owners(s) <=> s \in now
      /\ t \in Owners(s)' <=> s \in Held(t)'
      /\ t \in Claims(s) <=> s \in now \/ Suspends(t, "sem_down", s)
      /\ t \in Claims(s)' <=> s \in Held(t)' \/ Suspends(t, "sem_down", s)'
  BY <1>1, <1>3 DEF Owners, Claims
<1>8. Suspends(t, "sem_down", s)' => r.op = "sem_down" /\ r.arg = s /\ ~called[t]
  <2>1. Suspends(t, "sem_down", s)' => called'[t] /\ Current(t)'.op = "sem_down" /\ Current(t)'.arg = s
    BY DEF Suspends
  <2> QED
    BY <1>1, <1>3, <2>1, CallBegins
<1>9. r.op = "sem_down" /\ ~called[t] => Down(t)
  <2>1. r.op = "sem_down" /\ ~called[t] =>
           ~CreateTask(t) /\ ~JoinTask(t) /\ ~Sleep(t) /\ ~Up(t) /\ ~Destroy(t) /\ ~Return(t) /\ ~ExitTask(t)
             /\ ~ExitProcess(t) /\ ~Buffer(t) /\ ~Global(t) /\ ~Queue(t) /\ ~Work(t)
    BY <1>1, <1>3, StepOps DEF ExitOps
  <2> QED
    BY <2>1, Zenon DEF Step
<1>10. r.op = "sem_up" => Gained(r, g) = {}
  BY DEF Gained
<1>11. r.op = "sem_down" => Gained(r, g) \subseteq {r.arg}
  BY DEF Gained
<1>12. r.op \in TradeOps => r.op # "sem_down"
  BY DEF TradeOps
<1>13. /\ Passes(t, s) <=> r.op \in TradeOps /\ s \in Spent(r, g)
       /\ Receives(t, s) <=> r.op \in TradeOps /\ s \in Gained(r, g)
  BY <1>1 DEF Passes, Receives
<1>14. Passes(t, s) => t \in Owners(s) /\ t \notin Claims(s)' /\ ~Receives(t, s)
  BY <1>4, <1>6, <1>7, <1>8, <1>12, <1>13
<1>15. ~active[s] /\ ~Receives(t, s) => t \in Owners(s) \/ t \notin Owners(s)'
  BY <1>4, <1>6, <1>7, <1>10, <1>11, <1>13
<1>16. r.op = "sem_down" /\ r.arg = s /\ called[t] => Suspends(t, "sem_down", s)
  BY <1>1 DEF Suspends
<1>17. ~Receives(t, s) /\ ~(Down(t) /\ r.arg = s) => t \in Claims(s) \/ t \notin Claims(s)'
  BY <1>4, <1>6, <1>7, <1>8, <1>9, <1>10, <1>11, <1>13, <1>16
<1> QED
  BY <1>1, <1>14, <1>15, <1>17, Zenon

\* By how much a step may change the number of permits of s.
Change(t, s) == (IF Receives(t, s) THEN 1 ELSE 0) - (IF Passes(t, s) THEN 1 ELSE 0)

\* A step of a task creates no permit: a task or the value of the semaphore had it before.
LEMMA TaskIssues ==
  ASSUME Base, NoRepeat, Lasts, NEW t \in Created, Step(t), NEW s \in Permits
  PROVE  Issued(s)' \in Int /\ Issued(s)' <= Issued(s) + Change(t, s)
<1>1. s \in Sems /\ t \in Tasks
  BY LastingNames DEF Base, Readable
<1>2. value[s] \in Int /\ value'[s] \in Int /\ active[s] \in BOOLEAN
  <2>1. Types'
    BY <1>1, StepFrame
  <2>2. value' \in [Sems -> Int]
    BY <2>1 DEF Types, Sems, Semaphores
  <2> QED
    BY <1>1, <2>2 DEF Base, Types
<1>3. PICK r, now, g, next : r = Current(t) /\ now = Held(t) /\ g = Permits /\ next = Follows(t)
  OBVIOUS
<1>4. Fits(r, now, next, g)
  BY <1>3, HeldFits
<1>5. PICK o, o2, c, c2 : o = Owners(s) /\ o2 = Owners(s)' /\ c = Claims(s) /\ c2 = Claims(s)'
  OBVIOUS
<1>6. IsFiniteSet(o) /\ IsFiniteSet(c)
  BY <1>5, ClaimsFinite
<1>7. SameBut(o, o2, t) /\ SameBut(c, c2, t)
  BY <1>1, <1>5, ClaimsMove
<1>8. /\ Cardinality(o) \in Nat /\ Cardinality(o2) \in Nat
      /\ t \in o /\ t \notin o2 => Cardinality(o2) = Cardinality(o) - 1
      /\ Cardinality(o2) <= Cardinality(o) + 1
      /\ t \in o \/ t \notin o2 => Cardinality(o2) <= Cardinality(o)
  BY <1>6, <1>7, CountMoves, Zenon
<1>9. /\ Cardinality(c) \in Nat /\ Cardinality(c2) \in Nat
      /\ t \in c /\ t \notin c2 => Cardinality(c2) = Cardinality(c) - 1
      /\ t \notin c /\ t \in c2 => Cardinality(c2) = Cardinality(c) + 1
      /\ Cardinality(c2) <= Cardinality(c) + 1
      /\ t \in c \/ t \notin c2 => Cardinality(c2) <= Cardinality(c)
  BY <1>6, <1>7, CountMoves, Zenon
<1>10. o \subseteq c /\ o2 \subseteq c2
  BY <1>5 DEF Owners, Claims
<1>11. /\ Passes(t, s) => t \in o /\ t \notin c2 /\ ~Receives(t, s)
       /\ ~active[s] /\ ~Receives(t, s) => t \in o \/ t \notin o2
       /\ ~Receives(t, s) /\ ~(Down(t) /\ r.arg = s) => t \in c \/ t \notin c2
  BY <1>3, <1>5, ClaimsOf
<1>12. ~Destroy(t)
  BY <1>1, <1>3, <1>4, StepOps DEF Fits
<1>13. /\ active' = active
       /\ ~(Down(t) /\ r.arg = s) /\ ~(Up(t) /\ r.arg = s) => value'[s] = value[s]
       /\ Down(t) /\ r.arg = s /\ active[s] => value'[s] = value[s] - 1
       /\ Up(t) /\ r.arg = s /\ active[s] => value'[s] = value[s] + 1
  <2>1. CASE Down(t)
    <3>1. r.arg \in Sems /\ sem_down(t, r.arg) /\ r.op = "sem_down"
      BY <1>1, <1>3, <2>1, DownFrame
    <3>2. /\ active' = active /\ \A x \in Sems \ {r.arg} : value'[x] = value[x]
          /\ value'[r.arg] = IF active[r.arg] THEN value[r.arg] - 1 ELSE value[r.arg]
      BY <1>1, <3>1, DownEffect DEF Base
    <3>3. ~Up(t)
      BY <1>1, <1>3, <3>1, StepOps
    <3> QED
      BY <1>1, <2>1, <3>2, <3>3
  <2>2. CASE Up(t)
    <3>1. r.arg \in Sems /\ sem_up(r.arg) /\ r.op = "sem_up"
      BY <1>1, <1>3, <2>2, UpFrame
    <3>2. /\ active' = active /\ \A x \in Sems \ {r.arg} : value'[x] = value[x]
          /\ value'[r.arg] = IF active[r.arg] THEN value[r.arg] + 1 ELSE value[r.arg]
      BY <1>1, <3>1, UpEffect DEF Base
    <3>3. ~Down(t)
      BY <1>1, <1>3, <3>1, StepOps
    <3> QED
      BY <1>1, <2>2, <3>2, <3>3
  <2>3. CASE ~Down(t) /\ ~Up(t)
    BY <1>1, <1>12, <2>3, SemsKept
  <2> QED
    BY <2>1, <2>2, <2>3
<1>14. r.op \in {"sem_down", "sem_up"} => ~Passes(t, s) /\ ~Receives(t, s)
  BY <1>3 DEF Passes, Receives, TradeOps
<1>15. Down(t) /\ r.arg = s /\ active[s] => t \notin c /\ t \in c2
  <2>1. SUFFICES ASSUME Down(t), r.arg = s, active[s] PROVE t \notin c /\ t \in c2
    OBVIOUS
  <2>2. r.op = "sem_down" /\ ~called[t] /\ Frame(t)
    BY <1>1, <1>3, <2>1, DownFrame
  <2>3. s \in Gained(r, g)
    BY <1>3, <2>1, <2>2 DEF Gained
  <2>4. s \notin now /\ s \in next
    BY <1>4, <2>3 DEF Fits
  <2>5. t \notin c
    BY <1>3, <1>5, <2>2, <2>4 DEF Claims, Suspends
  <2>6. t \in Created'
    BY <2>2 DEF Frame, OthersStay, Created
  <2>7. CASE called'[t]
    <3>1. Current(t)' = r
      BY <1>1, <1>3, <2>7, CallBegins
    <3> QED
      BY <1>5, <2>1, <2>2, <2>5, <2>6, <2>7, <3>1 DEF Claims, Suspends
  <2>8. CASE ~called'[t]
    <3>1. HeldMoves(t)
      BY HeldStep
    <3>2. Held(t)' = next
      BY <1>3, <2>1, <2>2, <2>8, <3>1 DEF HeldMoves
    <3> QED
      BY <1>5, <2>4, <2>5, <2>6, <3>2 DEF Claims
  <2> QED
    BY <2>7, <2>8
<1>16. Up(t) /\ r.arg = s => t \in c /\ t \notin c2
  <2>1. SUFFICES ASSUME Up(t), r.arg = s PROVE t \in c /\ t \notin c2
    OBVIOUS
  <2>2. r.op = "sem_up" /\ GoesOn(t)
    BY <1>1, <1>3, <2>1, UpFrame
  <2>3. s \in Spent(r, g) /\ Gained(r, g) = {}
    BY <1>3, <2>1, <2>2 DEF Spent, Gained
  <2>4. s \in now /\ s \notin next
    BY <1>4, <2>3 DEF Fits
  <2>5. HeldMoves(t)
    BY HeldStep
  <2>6. Held(t)' = next
    BY <1>3, <2>2, <2>5 DEF HeldMoves
  <2>7. ~called'[t]
    BY <2>2 DEF GoesOn
  <2> QED
    BY <1>3, <1>5, <2>4, <2>6, <2>7 DEF Claims, Suspends
<1>17. CASE ~active[s]
  <2>1. Issued(s) = Cardinality(o) /\ Issued(s)' = Cardinality(o2)
    BY <1>5, <1>13, <1>17 DEF Issued
  <2>2. /\ Passes(t, s) => t \in o /\ t \notin o2 /\ ~Receives(t, s)
        /\ ~Receives(t, s) => t \in o \/ t \notin o2
    BY <1>10, <1>11, <1>17
  <2> QED
    BY <1>8, <1>13, <2>1, <2>2 DEF Change
<1>18. CASE active[s]
  <2>1. Issued(s) = value[s] + Cardinality(c) /\ Issued(s)' = value'[s] + Cardinality(c2)
    BY <1>5, <1>13, <1>18 DEF Issued
  <2>2. CASE Down(t) /\ r.arg = s
    <3>1. r.op = "sem_down"
      BY <1>1, <1>3, <2>2, DownFrame
    <3>2. Change(t, s) = 0
      BY <1>14, <3>1 DEF Change
    <3> QED
      BY <1>2, <1>9, <1>13, <1>15, <1>18, <2>1, <2>2, <3>2
  <2>3. CASE Up(t) /\ r.arg = s
    <3>1. r.op = "sem_up"
      BY <1>1, <1>3, <2>3, UpFrame
    <3>2. Change(t, s) = 0
      BY <1>14, <3>1 DEF Change
    <3> QED
      BY <1>2, <1>9, <1>13, <1>16, <1>18, <2>1, <2>3, <3>2
  <2>4. CASE ~(Down(t) /\ r.arg = s) /\ ~(Up(t) /\ r.arg = s)
    <3>1. value'[s] = value[s]
      BY <1>13, <2>4
    <3>2. /\ Passes(t, s) => t \in c /\ t \notin c2 /\ ~Receives(t, s)
          /\ ~Receives(t, s) => t \in c \/ t \notin c2
      BY <1>10, <1>11, <2>4
    <3> QED
      BY <1>2, <1>9, <1>13, <2>1, <3>1, <3>2 DEF Change
  <2> QED
    BY <2>2, <2>3, <2>4
<1> QED
  BY <1>17, <1>18

\* main only destroys semaphores, whose values are then lost.
LEMMA MainIssues ==
  ASSUME Base, NoRepeat, Step(main), NEW s \in Permits
  PROVE  Issued(s)' \in Int /\ Issued(s)' <= Issued(s)
<1>1. s \in Sems /\ main \in Tasks /\ main \notin Created /\ main \in Existing
  BY LastingNames DEF Base, Readable, Existing
<1>2. Owners(s)' = Owners(s) /\ Claims(s)' = Claims(s)
  BY <1>1, ClaimsMove
<1>3. Issued(s) \in Int /\ Cardinality(Owners(s)) <= Issued(s)
  BY Admits
<1>4. ~Down(main) /\ ~Up(main)
  <2>1. Current(main).op \in MainOps \cup {"task_create", "task_exit", "exit"}
    BY <1>1, StatementRead DEF Base
  <2> QED
    BY <1>1, <2>1, StepOps DEF MainOps
<1>5. CASE Destroy(main)
  <2>1. active'[s] = (active[s] /\ s # Current(main).arg) /\ value' = value /\ active[s] \in BOOLEAN
    BY <1>1, <1>5, DestroyFrame DEF Base, Types
  <2>2. Cardinality(Owners(s)) \in Nat
    BY ClaimsFinite
  <2> QED
    BY <1>2, <1>3, <2>1, <2>2 DEF Issued
<1>6. CASE ~Destroy(main)
  <2>1. value' = value /\ active' = active
    BY <1>1, <1>4, <1>6, SemsKept
  <2> QED
    BY <1>2, <1>3, <2>1 DEF Issued
<1> QED
  BY <1>5, <1>6

\* Whoever takes a step, permits change hands in trades only.
LEMMA IssuedStep ==
  ASSUME Base, NoRepeat, Lasts, NEW t \in Tasks, Step(t), NEW s \in Permits
  PROVE  /\ Issued(s) \in Int /\ Issued(s)' \in Int
         /\ Issued(s)' <= Issued(s) + Change(t, s)
<1>1. t \in Created \/ t = main
  BY StepFrame DEF Frame, Mover, Existing
<1>2. CASE t = main
  <2>1. Current(main).op \in MainOps \cup {"task_create", "task_exit", "exit"}
    BY StatementRead DEF Base, Existing
  <2>2. ~Passes(t, s) /\ ~Receives(t, s)
    BY <1>2, <2>1 DEF Passes, Receives, MainOps, TradeOps
  <2>3. Issued(s) \in Int /\ Issued(s)' \in Int /\ Issued(s)' <= Issued(s)
    BY <1>2, Admits, MainIssues
  <2> QED
    BY <2>2, <2>3 DEF Change
<1> QED
  BY <1>1, <1>2, TaskIssues, Admits

\* A task enters a queue once.
LEMMA NoRepeatStep ==
  ASSUME Base, NoRepeat, NEW t \in Tasks, Step(t)
  PROVE  NoRepeat'
<1>1. Sems' = Sems
  BY DEF Sems, Semaphores
<1>2. waiting \in [Sems -> Seq(Tasks)] /\ \A s \in Sems : IsInjective(waiting[s])
  BY DEF Base, Types, NoRepeat
<1>3. CASE Down(t)
  <2>1. PICK s : s = Current(t).arg /\ s \in Sems /\ sem_down(t, s) /\ ~called[t]
    BY <1>3, DownFrame
  <2>2. waiting' = waiting \/ waiting' = [waiting EXCEPT ![s] = Append(waiting[s], t)]
    BY <2>1 DEF sem_down, SemDown, syncVars
  <2>3. t \notin Range(waiting[s])
    BY <2>1 DEF Base, Queues, Suspends
  <2>4. IsInjective(Append(waiting[s], t))
    BY <1>2, <2>1, <2>3, AppendNew
  <2>5. \A x \in Sems : IsInjective(waiting'[x])
    BY <1>2, <2>1, <2>2, <2>4
  <2> QED
    BY <1>1, <2>5 DEF NoRepeat
<1>4. CASE Up(t)
  <2>1. PICK s : s = Current(t).arg /\ s \in Sems /\ sem_up(s)
    BY <1>4, UpFrame
  <2>2. \/ waiting' = waiting
        \/ active[s] /\ value[s] < 0 /\ waiting' = [waiting EXCEPT ![s] = Tail(waiting[s])]
    BY <2>1 DEF sem_up, SemUp, syncVars
  <2>3. CASE active[s] /\ value[s] < 0
    <3>1. value[s] \in Int /\ Len(waiting[s]) = -value[s]
      BY <2>1, <2>3 DEF Base, Counted, Types
    <3>2. Len(waiting[s]) # 0
      BY <2>3, <3>1
    <3>3. waiting[s] # <<>>
      BY <3>2
    <3>4. IsInjective(Tail(waiting[s]))
      BY <1>2, <2>1, <3>3, TailRange
    <3>5. \A x \in Sems : IsInjective(waiting'[x])
      BY <1>2, <2>1, <2>2, <3>4
    <3> QED
      BY <1>1, <3>5 DEF NoRepeat
  <2> QED
    BY <1>1, <1>2, <2>2, <2>3 DEF NoRepeat
<1>5. CASE Destroy(t)
  <2>1. waiting' = [waiting EXCEPT ![Current(t).arg] = <<>>]
    BY <1>5 DEF Destroy, sem_destroy
  <2>2. IsInjective(<<>>)
    BY ShortQueues, Zenon
  <2>3. \A x \in Sems : IsInjective(waiting'[x])
    BY <1>2, <2>1, <2>2
  <2> QED
    BY <1>1, <2>3 DEF NoRepeat
<1>6. CASE ~Down(t) /\ ~Up(t) /\ ~Destroy(t)
  <2>1. waiting' = waiting
    BY <1>6, SemsKept
  <2> QED
    BY <1>1, <2>1 DEF NoRepeat
<1> QED
  BY <1>3, <1>4, <1>5, <1>6

\* The globals and the queues that the statements name.
LEMMA MoreRead ==
  ASSUME Base, NEW t \in Existing
  PROVE  /\ Current(t).op \in {"get", "load", "store"} => Current(t).arg \in {"soma", "Limite"}
         /\ Current(t).op \in {"test", "put", "take", "deactivate"} => Current(t).arg \in MessageQueues
<1>1. PICK q, z : q = Programs[test] /\ z = Skips(test)
  OBVIOUS
<1>2. test \in DOMAIN Programs /\ WellFormed(q, z) /\ pc[t] \in 1 .. Len(Program(t))
  BY <1>1, Tests DEF Base, Types, Positions
<1>3. \E n : Current(t) \in Legal(n, z) \/ Current(t) \in Legal(n, 0)
  <2>1. CASE t = main
    <3>1. q[1] = Program(t)
      BY <1>1, <2>1 DEF Program, main
    <3>2. q[1] \in Seq(Legal(Len(q) - 1, 0))
      BY <1>2 DEF WellFormed, MainProgram
    <3>3. PICK S : S = Legal(Len(q) - 1, 0)
      OBVIOUS
    <3>4. Program(t)[pc[t]] \in S
      BY <1>2, <3>1, <3>2, <3>3, ElementOfSeq
    <3> QED
      BY <3>3, <3>4 DEF Current
  <2>2. CASE t \in Created
    <3>1. q[t + 1] = Program(t)
      BY <1>1 DEF Program
    <3>2. q[t + 1] \in Seq(Body(z))
      BY <1>1, <1>2, <2>2 DEF WellFormed, Created
    <3>3. PICK S : S = Body(z)
      OBVIOUS
    <3>4. Program(t)[pc[t]] \in S
      BY <1>2, <3>1, <3>2, <3>3, ElementOfSeq
    <3> QED
      BY <3>3, <3>4 DEF Current, Body
  <2> QED
    BY <2>1, <2>2 DEF Existing
<1> QED
  BY <1>3 DEF Legal

\* main executes none of the statements that use the buffer or trade permits.
LEMMA MainIsElsewhere ==
  ASSUME Base
  PROVE  Current(main).op \notin BufferOps \cup TradeOps \cup {"random", "sem_down", "sem_up"}
<1>1. Current(main).op \in MainOps \cup {"task_create", "task_exit", "exit"}
  BY StatementRead DEF Base, Existing
<1> QED
  BY <1>1 DEF MainOps, BufferOps, TradeOps

\* The buffer is used in pingpong-prodcons.c only, message queues in other tests only, and no
\* semaphore is destroyed in pingpong-prodcons.c.
LEMMA OwnStatements ==
  ASSUME Base, NEW t \in Existing
  PROVE  /\ test # "prodcons" => Current(t).op \notin BufferOps
         /\ test = "prodcons" => Current(t).op \notin {"put", "take", "sem_destroy"}
<1>1. CASE t = main
  <2>1. test = "prodcons" => Current(main).op \in {"task_create", "task_exit", "exit"}
    <3>1. test = "prodcons" => Program(main) = prodcons[1]
      BY TestsByName DEF Program, main
    <3>2. pc[main] \in 1 .. Len(Program(main))
      BY <1>1 DEF Base, Positions
    <3> QED
      BY <3>1, <3>2, ProdconsMainOnlyCreates DEF Current
  <2> QED
    BY <1>1, <2>1, MainIsElsewhere
<1>2. CASE t \in Created
  <2>1. PICK r, now, g : r = Current(t) /\ now = Held(t) /\ g = Permits
    OBVIOUS
  <2>2. Fits(r, now, Follows(t), g) /\ now \subseteq g
    BY <1>2, <2>1, HeldFits
  <2>3. r.op \in {"put", "take"} => r.arg \in MessageQueues
    BY <2>1, MoreRead
  <2>4. "sBuffer" \in Lasting
    BY DEF Lasting
  <2>5. test # "prodcons" => r.op \notin BufferOps
    BY <2>1, <2>2, <2>4, LastingNames DEF Fits, Permits, PermitsOf
  <2>6. test = "prodcons" => r.op # "put" /\ r.op # "take"
    <3>1. r.op = "put" => Spent(r, g) = {sVaga[r.arg]}
      BY DEF Spent
    <3>2. r.op = "take" => Spent(r, g) = {sItem[r.arg]}
      BY DEF Spent
    <3>3. Spent(r, g) \subseteq g
      BY <2>2 DEF Fits
    <3>4. test = "prodcons" => g = Lasting
      BY <2>1 DEF Permits, PermitsOf
    <3> QED
      BY <2>3, <3>1, <3>2, <3>3, <3>4, LastingNames
  <2>7. r.op # "sem_destroy"
    BY <2>2 DEF Fits
  <2> QED
    BY <2>1, <2>5, <2>6, <2>7
<1> QED
  BY <1>1, <1>2 DEF Existing

\* So these semaphores last.
LEMMA LastsStep ==
  ASSUME Base, Lasts, NEW t \in Tasks, Step(t)
  PROVE  Lasts'
<1>1. t \in Existing /\ test' = test
  BY StepFrame DEF Frame, Mover, OthersStay
<1>2. test = "prodcons" => active' = active
  <2>1. test = "prodcons" => ~Destroy(t)
    BY <1>1, StepOps, OwnStatements
  <2>2. CASE Down(t)
    BY <2>2, DownFrame DEF sem_down
  <2>3. CASE Up(t)
    BY <2>3, UpFrame DEF sem_up
  <2>4. CASE ~Down(t) /\ ~Up(t) /\ ~Destroy(t)
    BY <2>4, SemsKept
  <2> QED
    BY <2>1, <2>2, <2>3, <2>4
<1> QED
  BY <1>1, <1>2 DEF Lasts

------------------------------------------------------------------------------
(* The data *)

\* What the assignments of the actions leave alone.
LEMMA DataKept ==
  ASSUME NEW t \in Tasks, Step(t)
  PROVE  /\ ~Buffer(t) => array' = array /\ i' = i
         /\ ~Buffer(t) /\ ~Global(t) => local' = local
         /\ ~Global(t) => loaded' = loaded /\ shared' = shared
         /\ ~Queue(t) => queued' = queued
<1>1. CASE CreateTask(t) \/ JoinTask(t) \/ Sleep(t) \/ Down(t) \/ Up(t) \/ Destroy(t)
  <2>1. dataVars' = dataVars
    <3>1. ASSUME NEW b, NEW c, Calls(t, b, c) PROVE dataVars' = dataVars
      BY <3>1 DEF Calls
    <3>2. \E b, c : Calls(t, b, c)
      BY <1>1, Zenon DEF CreateTask, JoinTask, Sleep, Down, Up, Destroy
    <3> QED
      BY <3>1, <3>2
  <2> QED
    BY <2>1 DEF dataVars
<1>2. CASE Return(t) \/ ExitTask(t) \/ ExitProcess(t)
  <2>1. /\ local' = local /\ loaded' = loaded /\ shared' = shared /\ array' = array /\ i' = i
        /\ queued' = queued
    <3>1. CASE Return(t)
      BY <3>1 DEF Return, dataVars
    <3>2. CASE ExitTask(t)
      <4>1. ASSUME NEW c, Leaves(t, c) PROVE dataVars' = dataVars
        BY <4>1 DEF Leaves
      <4>2. \E c : Leaves(t, c)
        BY <3>2, Zenon DEF ExitTask
      <4> QED
        BY <4>1, <4>2 DEF dataVars
    <3>3. CASE ExitProcess(t)
      BY <3>3 DEF ExitProcess
    <3> QED
      BY <1>2, <3>1, <3>2, <3>3
  <2> QED
    BY <2>1
<1>3. CASE Buffer(t)
  BY <1>3 DEF Buffer
<1>4. CASE Global(t)
  BY <1>4 DEF Global
<1>5. CASE Queue(t)
  BY <1>5 DEF Queue
<1>6. CASE Work(t)
  BY <1>6 DEF Work
<1> QED
  BY <1>1, <1>2, <1>3, <1>4, <1>5, <1>6 DEF Step

\* The values of the data.
Data ==
  /\ local \in [Tasks -> Nat] /\ loaded \in [Tasks -> Nat] /\ shared \in [{"soma", "Limite"} -> Nat]
  /\ array \in [0 .. TAM_BUFFER - 1 -> Nat] /\ i \in Int /\ queued \in [MessageQueues -> Int]

\* What is counted is counted by the four statements that pass permits on.
LEMMA CountsStep ==
  ASSUME Base, Data, NEW t \in Tasks, Step(t)
  PROVE  /\ i' = i + (IF Current(t).op = "advance" THEN 1 ELSE 0) - (IF Current(t).op = "retreat" THEN 1 ELSE 0)
         /\ queued' \in [MessageQueues -> Int]
         /\ \A q \in MessageQueues :
              queued'[q] = queued[q] + (IF Current(t).op = "put" /\ Current(t).arg = q THEN 1 ELSE 0)
                                     - (IF Current(t).op = "take" /\ Current(t).arg = q THEN 1 ELSE 0)
<1>1. PICK r : r = Current(t) /\ t \in Existing
  BY StepFrame DEF Frame, Mover
<1>2. /\ Buffer(t) => r.op \in {"random", "write", "advance", "first", "shift", "retreat"}
      /\ Queue(t) => r.op \in {"test", "put", "take", "deactivate"}
      /\ r.op \in {"advance", "retreat"} => Buffer(t)
      /\ r.op \in {"put", "take"} => Queue(t)
  <2>1. r.op \in {"advance", "retreat"} =>
           ~(CreateTask(t) \/ JoinTask(t) \/ Sleep(t) \/ Down(t) \/ Up(t) \/ Destroy(t) \/ Return(t)
             \/ ExitTask(t) \/ ExitProcess(t) \/ Global(t) \/ Queue(t) \/ Work(t))
    BY <1>1, StepOps DEF ExitOps, SuspendOps
  <2>2. r.op \in {"put", "take"} =>
           ~(CreateTask(t) \/ JoinTask(t) \/ Sleep(t) \/ Down(t) \/ Up(t) \/ Destroy(t) \/ Return(t)
             \/ ExitTask(t) \/ ExitProcess(t) \/ Global(t) \/ Buffer(t) \/ Work(t))
    BY <1>1, StepOps DEF ExitOps, SuspendOps
  <2>3. /\ Buffer(t) => r.op \in {"random", "write", "advance", "first", "shift", "retreat"}
        /\ Queue(t) => r.op \in {"test", "put", "take", "deactivate"}
    BY <1>1, StepOps
  <2> QED
    BY <2>1, <2>2, <2>3, Zenon DEF Step
<1>3. i \in Int /\ queued \in [MessageQueues -> Int]
  BY DEF Data
<1>4. i' = i + (IF r.op = "advance" THEN 1 ELSE 0) - (IF r.op = "retreat" THEN 1 ELSE 0)
  <2>1. CASE Buffer(t)
    <3>1. \/ r.op \in {"random", "write", "first", "shift"} /\ i' = i
          \/ r.op = "advance" /\ i' = i + 1
          \/ r.op = "retreat" /\ i' = i - 1
      BY <1>1, <2>1 DEF Buffer, AtStatement
    <3> QED
      BY <1>3, <3>1
  <2>2. CASE ~Buffer(t)
    BY <1>2, <1>3, <2>2, DataKept
  <2> QED
    BY <2>1, <2>2
<1>5. CASE Queue(t)
  <2>1. PICK q : q = r.arg /\ q \in MessageQueues
    BY <1>1, <1>2, <1>5, MoreRead
  <2>2. \/ r.op \in {"test", "deactivate"} /\ queued' = queued
        \/ r.op = "put" /\ queued' = [queued EXCEPT ![q] = @ + 1]
        \/ r.op = "take" /\ queued' = [queued EXCEPT ![q] = @ - 1]
    BY <1>1, <1>5, <2>1 DEF Queue, AtStatement
  <2>3. CASE r.op \in {"test", "deactivate"} /\ queued' = queued
    BY <1>1, <1>3, <1>4, <2>3
  <2>4. CASE r.op = "put" /\ queued' = [queued EXCEPT ![q] = @ + 1]
    BY <1>1, <1>3, <1>4, <2>1, <2>4
  <2>5. CASE r.op = "take" /\ queued' = [queued EXCEPT ![q] = @ - 1]
    BY <1>1, <1>3, <1>4, <2>1, <2>5
  <2> QED
    BY <2>2, <2>3, <2>4, <2>5
<1>6. CASE ~Queue(t)
  <2>1. queued' = queued /\ r.op \notin {"put", "take"}
    BY <1>2, <1>6, DataKept
  <2> QED
    BY <1>1, <1>3, <1>4, <2>1
<1> QED
  BY <1>5, <1>6

------------------------------------------------------------------------------
(* The accounts *)

\* Vacancies and items: no more than there are slots, and items, even when every permit is used.
Balance(vaga, item, count) == Issued(vaga) + count <= TAM_BUFFER /\ Issued(item) <= count
Accounts ==
  IF test = "prodcons"
  THEN /\ Balance("sVaga", "sItem", i) /\ Issued("sBuffer") <= 1
       /\ \A q \in MessageQueues : queued[q] = 0
  ELSE i = 0 /\ \A q \in MessageQueues : Balance(sVaga[q], sItem[q], queued[q])

\* Permits and the things they are for change together.
LEMMA AccountsStep ==
  ASSUME Base, NoRepeat, Lasts, Data, Accounts, NEW t \in Tasks, Step(t)
  PROVE  Accounts'
<1>1. PICK r : r = Current(t) /\ t \in Existing /\ test' = test
  BY StepFrame DEF Frame, Mover, OthersStay
<1>2. \A s \in Permits : Issued(s) \in Int /\ Issued(s)' \in Int /\ Issued(s)' <= Issued(s) + Change(t, s)
  BY IssuedStep
<1>3. /\ i' = i + (IF r.op = "advance" THEN 1 ELSE 0) - (IF r.op = "retreat" THEN 1 ELSE 0)
      /\ \A q \in MessageQueues :
              queued'[q] = queued[q] + (IF r.op = "put" /\ r.arg = q THEN 1 ELSE 0)
                                     - (IF r.op = "take" /\ r.arg = q THEN 1 ELSE 0)
  BY <1>1, CountsStep, Zenon
<1>4. TAM_BUFFER \in Int /\ i \in Int /\ queued \in [MessageQueues -> Int] /\ MessageQueues' = MessageQueues
  BY TestAssumption DEF Data, MessageQueues
<1>5. \A s \in Permits :
         /\ Passes(t, s) <=> r.op \in TradeOps /\ s \in Spent(r, Permits)
         /\ Receives(t, s) <=> r.op \in TradeOps /\ s \in Gained(r, Permits)
  BY <1>1 DEF Passes, Receives
<1>6. /\ r.op = "advance" => Spent(r, Permits) = {"sVaga"} /\ Gained(r, Permits) = {"sItem"}
      /\ r.op = "retreat" => Spent(r, Permits) = {"sItem"} /\ Gained(r, Permits) = {"sVaga"}
      /\ r.op = "put" => Spent(r, Permits) = {sVaga[r.arg]} /\ Gained(r, Permits) = {sItem[r.arg]}
      /\ r.op = "take" => Spent(r, Permits) = {sItem[r.arg]} /\ Gained(r, Permits) = {sVaga[r.arg]}
  BY DEF Spent, Gained
<1>7. CASE test = "prodcons"
  <2>1. Permits = Lasting /\ {"sVaga", "sItem", "sBuffer"} \subseteq Permits
    BY <1>7 DEF Permits, PermitsOf, Lasting
  <2>2. r.op \notin {"put", "take"}
    BY <1>1, <1>7, OwnStatements
  <2>3. Issued("sVaga") + i <= TAM_BUFFER /\ Issued("sItem") <= i /\ Issued("sBuffer") <= 1
        /\ \A q \in MessageQueues : queued[q] = 0
    BY <1>7 DEF Accounts, Balance
  <2>4. PICK v, n, b, v2, n2, b2 : /\ v = Issued("sVaga") /\ v2 = Issued("sVaga")' /\ n = Issued("sItem")
                                   /\ n2 = Issued("sItem")' /\ b = Issued("sBuffer") /\ b2 = Issued("sBuffer")'
    OBVIOUS
  <2>5. /\ v \in Int /\ n \in Int /\ b \in Int /\ v2 \in Int /\ n2 \in Int /\ b2 \in Int
        /\ v2 <= v + Change(t, "sVaga") /\ n2 <= n + Change(t, "sItem") /\ b2 <= b + Change(t, "sBuffer")
    BY <1>2, <2>1, <2>4
  <2>6. /\ Passes(t, "sVaga") <=> r.op = "advance"
        /\ Receives(t, "sVaga") <=> r.op = "retreat"
        /\ Passes(t, "sItem") <=> r.op = "retreat"
        /\ Receives(t, "sItem") <=> r.op = "advance"
        /\ ~Passes(t, "sBuffer") /\ ~Receives(t, "sBuffer")
    BY <1>5, <1>6, <2>1, <2>2 DEF TradeOps
  <2>7. v2 + i' <= TAM_BUFFER /\ n2 <= i' /\ b2 <= 1
    BY <1>3, <1>4, <2>3, <2>4, <2>5, <2>6 DEF Change
  <2>8. \A q \in MessageQueues : queued'[q] = 0
    BY <1>3, <2>2, <2>3
  <2> QED
    BY <1>1, <1>4, <1>7, <2>4, <2>7, <2>8 DEF Accounts, Balance
<1>8. CASE test # "prodcons"
  <2>1. Permits = QueueSems /\ \A q \in MessageQueues : sVaga[q] \in Permits /\ sItem[q] \in Permits
    BY <1>8, LastingNames DEF Permits, PermitsOf
  <2>2. r.op \notin {"advance", "retreat"}
    BY <1>1, <1>8, OwnStatements DEF BufferOps
  <2>3. i = 0 /\ \A q \in MessageQueues :
                 Issued(sVaga[q]) + queued[q] <= TAM_BUFFER /\ Issued(sItem[q]) <= queued[q]
    BY <1>8 DEF Accounts, Balance
  <2>4. ASSUME NEW q \in MessageQueues
        PROVE  Issued(sVaga[q])' + queued'[q] <= TAM_BUFFER /\ Issued(sItem[q])' <= queued'[q]
    <3>1. PICK v, n, v2, n2 : /\ v = Issued(sVaga[q]) /\ v2 = Issued(sVaga[q])' /\ n = Issued(sItem[q])
                              /\ n2 = Issued(sItem[q])'
      OBVIOUS
    <3>2. /\ v \in Int /\ n \in Int /\ v2 \in Int /\ n2 \in Int
          /\ v2 <= v + Change(t, sVaga[q]) /\ n2 <= n + Change(t, sItem[q])
      BY <1>2, <2>1, <3>1
    <3>3. r.op \in {"put", "take"} => r.arg \in MessageQueues
      BY <1>1, MoreRead
    <3>4. /\ Passes(t, sVaga[q]) <=> r.op = "put" /\ r.arg = q
          /\ Receives(t, sVaga[q]) <=> r.op = "take" /\ r.arg = q
          /\ Passes(t, sItem[q]) <=> r.op = "take" /\ r.arg = q
          /\ Receives(t, sItem[q]) <=> r.op = "put" /\ r.arg = q
      BY <1>5, <1>6, <2>1, <2>2, <3>3, LastingNames DEF TradeOps
    <3>5. queued[q] \in Int /\ queued'[q] = queued[q] + (IF r.op = "put" /\ r.arg = q THEN 1 ELSE 0)
                                                      - (IF r.op = "take" /\ r.arg = q THEN 1 ELSE 0)
      BY <1>3, <1>4
    <3>6. v + queued[q] <= TAM_BUFFER /\ n <= queued[q]
      BY <2>3, <3>1
    <3>7. v2 + queued'[q] <= TAM_BUFFER /\ n2 <= queued'[q]
      BY <1>4, <3>2, <3>4, <3>5, <3>6 DEF Change
    <3> QED
      BY <3>1, <3>7
  <2>5. i' = 0
    BY <1>3, <2>2, <2>3
  <2>6. sVaga' = sVaga /\ sItem' = sItem
    BY DEF sVaga, sItem
  <2> QED
    BY <1>1, <1>4, <1>8, <2>4, <2>5, <2>6 DEF Accounts, Balance
<1> QED
  BY <1>7, <1>8

\* Who holds a permit is one of those it has been issued to.
LEMMA HoldersCounted ==
  ASSUME Base, NoRepeat, NEW s \in Permits
  PROVE  /\ Issued(s) \in Int /\ Issued(s) >= 0
         /\ \A t \in Created : s \in Held(t) => Issued(s) >= 1
         /\ \A t, u \in Created : s \in Held(t) /\ s \in Held(u) /\ t # u => Issued(s) >= 2
<1>1. PICK o : /\ o = Owners(s) /\ IsFiniteSet(o) /\ Cardinality(o) \in Nat
               /\ Cardinality(o) <= Issued(s) /\ Issued(s) \in Int
  BY Admits, ClaimsFinite
<1>2. \A t \in Created : s \in Held(t) => t \in o
  BY <1>1 DEF Owners
<1>3. ASSUME NEW t \in o PROVE Cardinality(o) >= 1
  <2>1. IsFiniteSet(o \ {t}) /\ Cardinality(o \ {t}) = Cardinality(o) - 1
    BY <1>1, FS_RemoveElement
  <2>2. Cardinality(o \ {t}) \in Nat
    BY <2>1, FS_CardinalityType
  <2> QED
    BY <1>1, <2>1, <2>2
<1>4. ASSUME NEW t \in o, NEW u \in o, t # u PROVE Cardinality(o) >= 2
  <2>1. IsFiniteSet(o \ {t}) /\ Cardinality(o \ {t}) = Cardinality(o) - 1
    BY <1>1, FS_RemoveElement
  <2>2. PICK p : p = o \ {t}
    OBVIOUS
  <2>3. u \in p
    BY <1>4, <2>2
  <2>4. IsFiniteSet(p \ {u}) /\ Cardinality(p \ {u}) = Cardinality(p) - 1
    BY <2>1, <2>2, <2>3, FS_RemoveElement
  <2>5. Cardinality(p \ {u}) \in Nat
    BY <2>4, FS_CardinalityType
  <2> QED
    BY <1>1, <2>1, <2>2, <2>4, <2>5
<1> QED
  BY <1>1, <1>2, <1>3, <1>4

\* The buffer and the queues hold what they have slots for.
LEMMA Bounds ==
  ASSUME Base, NoRepeat, Data, Accounts
  PROVE  i \in 0 .. TAM_BUFFER /\ \A q \in MessageQueues : queued[q] \in 0 .. TAM_BUFFER
<1>1. \A s \in Permits : Issued(s) \in Int /\ Issued(s) >= 0
  BY HoldersCounted
<1>2. TAM_BUFFER \in Nat /\ i \in Int /\ queued \in [MessageQueues -> Int]
  BY TestAssumption DEF Data
<1>3. CASE test = "prodcons"
  <2>1. "sVaga" \in Permits /\ "sItem" \in Permits
    BY <1>3 DEF Permits, PermitsOf, Lasting
  <2>2. Issued("sVaga") + i <= TAM_BUFFER /\ Issued("sItem") <= i /\ \A q \in MessageQueues : queued[q] = 0
    BY <1>3 DEF Accounts, Balance
  <2> QED
    BY <1>1, <1>2, <2>1, <2>2
<1>4. CASE test # "prodcons"
  <2>1. \A q \in MessageQueues : sVaga[q] \in Permits /\ sItem[q] \in Permits
    BY <1>4, LastingNames DEF Permits, PermitsOf
  <2>2. i = 0 /\ \A q \in MessageQueues :
                 Issued(sVaga[q]) + queued[q] <= TAM_BUFFER /\ Issued(sItem[q]) <= queued[q]
    BY <1>4 DEF Accounts, Balance
  <2>3. ASSUME NEW q \in MessageQueues PROVE queued[q] \in 0 .. TAM_BUFFER
    <3>1. PICK v, n : v = Issued(sVaga[q]) /\ n = Issued(sItem[q])
      OBVIOUS
    <3>2. v \in Int /\ v >= 0 /\ n \in Int /\ n >= 0
      BY <1>1, <2>1, <3>1
    <3>3. v + queued[q] <= TAM_BUFFER /\ n <= queued[q]
      BY <2>2, <3>1
    <3> QED
      BY <1>2, <3>2, <3>3
  <2> QED
    BY <1>2, <2>2, <2>3
<1> QED
  BY <1>3, <1>4

\* Sums and items are natural numbers.
LEMMA DataStep ==
  ASSUME Base, NoRepeat, Data, Accounts, NEW t \in Tasks, Step(t)
  PROVE  Data'
<1>1. PICK r : r = Current(t) /\ t \in Existing
  BY StepFrame DEF Frame, Mover
<1>2. /\ local \in [Tasks -> Nat] /\ loaded \in [Tasks -> Nat] /\ shared \in [{"soma", "Limite"} -> Nat]
      /\ array \in [0 .. TAM_BUFFER - 1 -> Nat]
  BY DEF Data
<1>3. TAM_BUFFER \in Nat \ {0} /\ i \in 0 .. TAM_BUFFER /\ i \in Int
  BY Bounds, TestAssumption
<1>4. queued' \in [MessageQueues -> Int]
  BY CountsStep
<1>5. i' \in Int
  <2>1. i' = i + (IF r.op = "advance" THEN 1 ELSE 0) - (IF r.op = "retreat" THEN 1 ELSE 0)
    BY <1>1, CountsStep
  <2> QED
    BY <1>3, <2>1
<1>6. CASE Buffer(t)
  <2>1. loaded' = loaded /\ shared' = shared
    BY <1>6 DEF Buffer
  <2>2. \/ \E v \in Items : local' = [local EXCEPT ![t] = v] /\ array' = array
        \/ array' = [array EXCEPT ![i] = local[t]] /\ local' = local
        \/ array' = array /\ local' = local
        \/ local' = [local EXCEPT ![t] = array[0]] /\ array' = array
        \/ array' = [n \in DOMAIN array |-> IF n + 1 < i THEN array[n + 1] ELSE array[n]] /\ local' = local
    BY <1>6 DEF Buffer
  <2>3. local' \in [Tasks -> Nat] /\ array' \in [0 .. TAM_BUFFER - 1 -> Nat]
    <3>1. CASE \E v \in Items : local' = [local EXCEPT ![t] = v] /\ array' = array
      BY <1>2, <3>1, ItemsAssumption
    <3>2. CASE array' = [array EXCEPT ![i] = local[t]] /\ local' = local
      BY <1>2, <3>2
    <3>3. CASE array' = array /\ local' = local
      BY <1>2, <3>3
    <3>4. CASE local' = [local EXCEPT ![t] = array[0]] /\ array' = array
      BY <1>2, <1>3, <3>4
    <3>5. CASE /\ array' = [n \in DOMAIN array |-> IF n + 1 < i THEN array[n + 1] ELSE array[n]]
               /\ local' = local
      <4>1. DOMAIN array = 0 .. TAM_BUFFER - 1
        BY <1>2
      <4>2. \A n \in 0 .. TAM_BUFFER - 1 : n + 1 < i => n + 1 \in 0 .. TAM_BUFFER - 1
        BY <1>3
      <4>3. \A n \in 0 .. TAM_BUFFER - 1 : (IF n + 1 < i THEN array[n + 1] ELSE array[n]) \in Nat
        BY <1>2, <4>2
      <4>4. array' \in [0 .. TAM_BUFFER - 1 -> Nat]
        BY <3>5, <4>1, <4>3
      <4> QED
        BY <1>2, <3>5, <4>4
    <3> QED
      BY <2>2, <3>1, <3>2, <3>3, <3>4, <3>5
  <2> QED
    BY <1>2, <1>4, <1>5, <2>1, <2>3 DEF Data, MessageQueues
<1>7. CASE Global(t)
  <2>1. PICK x \in {"soma", "Limite"} : x = r.arg
    <3>1. r.op \in {"get", "load", "store"}
      BY <1>1, <1>7, StepOps
    <3> QED
      BY <1>1, <3>1, MoreRead
  <2>2. \/ local' = [local EXCEPT ![t] = shared[x]] /\ loaded' = loaded /\ shared' = shared
        \/ loaded' = [loaded EXCEPT ![t] = shared[x]] /\ local' = local /\ shared' = shared
        \/ /\ shared' = [shared EXCEPT ![x] = loaded[t] + (IF x = "Limite" THEN 2 ELSE 1)]
           /\ local' = local /\ loaded' = loaded
    BY <1>1, <1>7, <2>1 DEF Global
  <2>3. array' = array
    BY <1>7 DEF Global
  <2>4. local' \in [Tasks -> Nat] /\ loaded' \in [Tasks -> Nat] /\ shared' \in [{"soma", "Limite"} -> Nat]
    <3>1. PICK G : G = {"soma", "Limite"} /\ x \in G /\ shared \in [G -> Nat]
      BY <1>2, <2>1
    <3>2. PICK y \in Nat : y = shared[x]
      BY <3>1
    <3>3. PICK z \in Nat : z = loaded[t] + (IF x = "Limite" THEN 2 ELSE 1)
      <4>1. loaded[t] \in Nat
        BY <1>2
      <4> QED
        BY <4>1
    <3>4. \/ local' = [local EXCEPT ![t] = y] /\ loaded' = loaded /\ shared' = shared
          \/ loaded' = [loaded EXCEPT ![t] = y] /\ local' = local /\ shared' = shared
          \/ shared' = [shared EXCEPT ![x] = z] /\ local' = local /\ loaded' = loaded
      BY <2>2, <3>2, <3>3
    <3>5. local' \in [Tasks -> Nat] /\ loaded' \in [Tasks -> Nat] /\ shared' \in [G -> Nat]
      BY <1>2, <3>1, <3>4
    <3> QED
      BY <3>1, <3>5
  <2> QED
    BY <1>2, <1>4, <1>5, <2>3, <2>4 DEF Data, MessageQueues
<1>8. CASE ~Buffer(t) /\ ~Global(t)
  BY <1>2, <1>4, <1>5, <1>8, DataKept DEF Data, MessageQueues
<1> QED
  BY <1>6, <1>7, <1>8

------------------------------------------------------------------------------
(* The invariant of the permits *)

\* Nobody waits twice, the semaphores of pingpong-prodcons.c last, and permits, indices and
\* counts agree.
Permitted == NoRepeat /\ Lasts /\ Data /\ Accounts

\* Every step keeps them.
LEMMA PermittedStep ==
  ASSUME Base, Permitted, NEW t \in Tasks, Step(t)
  PROVE  Permitted'
BY NoRepeatStep, LastsStep, DataStep, AccountsStep DEF Permitted

\* Time passes, or nothing does.
LEMMA PermittedStill ==
  ASSUME Permitted, value' = value, waiting' = waiting, active' = active,
         test' = test, pc' = pc, called' = called,
         UNCHANGED dataVars
  PROVE  Permitted'
<1>1. /\ local' = local /\ loaded' = loaded /\ shared' = shared /\ array' = array /\ i' = i
      /\ queued' = queued
  BY DEF dataVars
<1>2. Created' = Created /\ Sems' = Sems /\ MessageQueues' = MessageQueues
  BY DEF Created, Sems, Semaphores, MessageQueues
<1>3. \A t : Held(t)' = Held(t)
  BY DEF Held, LedgerOf, Program, Permits
<1>4. \A t, s : Suspends(t, "sem_down", s)' = Suspends(t, "sem_down", s)
  BY DEF Suspends, Current, Program
<1>5. \A s : Owners(s)' = Owners(s) /\ Claims(s)' = Claims(s)
  BY <1>2, <1>3, <1>4 DEF Owners, Claims
<1>6. \A s : Issued(s)' = Issued(s)
  BY <1>5 DEF Issued
<1>7. NoRepeat' /\ Lasts' /\ Data'
  BY <1>1, <1>2 DEF Permitted, NoRepeat, Lasts, Data
<1>8. Accounts'
  <2>1. sVaga' = sVaga /\ sItem' = sItem
    BY DEF sVaga, sItem
  <2> QED
    BY <1>1, <1>2, <1>6, <2>1 DEF Permitted, Accounts, Balance
<1> QED
  BY <1>7, <1>8 DEF Permitted

\* At first nobody holds a permit.
LEMMA PermittedInit ==
  ASSUME Init
  PROVE  Permitted
<1>1. Base
  BY InitBase
<1>2. value = Semaphores /\ waiting = [s \in Sems |-> <<>>] /\ active = [s \in Sems |-> TRUE]
  BY DEF Init, KernelInit, SyncInit, Sems
<1>3. NoRepeat
  <2>1. IsInjective(<<>>)
    BY ShortQueues, Zenon
  <2> QED
    BY <1>2, <2>1 DEF NoRepeat
<1>4. Lasts
  BY <1>2, LastingNames DEF Lasts
<1>5. Data
  BY TestAssumption DEF Init, Data
<1>6. \A t \in Created : Held(t) = {} /\ ~called[t]
  <2>1. SUFFICES ASSUME NEW t \in Created PROVE Held(t) = {} /\ ~called[t]
    OBVIOUS
  <2>2. t \in Tasks
    BY <1>1 DEF Base, Readable
  <2>3. pc[t] = 1 /\ ~called[t]
    BY <2>2 DEF Init
  <2>4. Ledger(Program(t), LedgerOf(t), Permits)
    BY <1>1, LedgersHold
  <2>5. Len(LedgerOf(t)) = Len(Program(t)) /\ After(LedgerOf(t), 1) = {}
    BY <2>4 DEF Ledger
  <2>6. 1 \in 1 .. Len(LedgerOf(t))
    BY <1>1, <2>3, <2>5 DEF Base, Positions, Existing
  <2> QED
    BY <2>3, <2>5, <2>6 DEF Held, After
<1>7. \A s \in Permits : Issued(s) = value[s]
  <2>1. SUFFICES ASSUME NEW s \in Permits PROVE Issued(s) = value[s]
    OBVIOUS
  <2>2. Claims(s) = {}
    BY <1>6 DEF Claims, Suspends
  <2>3. Cardinality(Claims(s)) = 0
    BY <2>2, FS_EmptySet
  <2>4. s \in Sems /\ value[s] \in Int
    BY <1>1, LastingNames DEF Base, Types
  <2> QED
    BY <1>2, <2>3, <2>4 DEF Issued
<1>8. /\ Semaphores["sVaga"] = TAM_BUFFER /\ Semaphores["sItem"] = 0 /\ Semaphores["sBuffer"] = 1
      /\ \A q \in MessageQueues : Semaphores[sVaga[q]] = TAM_BUFFER /\ Semaphores[sItem[q]] = 0
  <2>1. Semaphores = [s \in Sems |-> IF s \in Mutexes THEN 1 ELSE IF s \in Vacancies THEN TAM_BUFFER ELSE 0]
    BY DEF Sems, Semaphores
  <2>2. /\ Mutexes = {"sBuffer", "s1", "s", "V.sBuffer", "R.sBuffer"}
        /\ Vacancies = {"sVaga", "V.sVaga", "R.sVaga"}
    BY DEF Mutexes, Vacancies, Range, sBuffer, sVaga
  <2>3. \A q \in MessageQueues : sVaga[q] \in {"V.sVaga", "R.sVaga"} /\ sItem[q] \in {"V.sItem", "R.sItem"}
    BY DEF MessageQueues, sVaga, sItem
  <2> QED
    BY <2>1, <2>2, <2>3, SemNames
<1>9. Accounts
  <2>1. i = 0 /\ \A q \in MessageQueues : queued[q] = 0
    BY DEF Init
  <2>2. TAM_BUFFER \in Nat
    BY TestAssumption
  <2>3. CASE test = "prodcons"
    <3>1. Issued("sVaga") = TAM_BUFFER /\ Issued("sItem") = 0 /\ Issued("sBuffer") = 1
      BY <1>2, <1>7, <1>8, <2>3 DEF Permits, PermitsOf, Lasting
    <3> QED
      BY <2>1, <2>2, <2>3, <3>1 DEF Accounts, Balance
  <2>4. CASE test # "prodcons"
    <3>1. \A q \in MessageQueues : Issued(sVaga[q]) = TAM_BUFFER /\ Issued(sItem[q]) = 0
      BY <1>2, <1>7, <1>8, <2>4, LastingNames DEF Permits, PermitsOf
    <3> QED
      BY <2>1, <2>2, <2>4, <3>1 DEF Accounts, Balance
  <2> QED
    BY <2>3, <2>4
<1> QED
  BY <1>3, <1>4, <1>5, <1>9 DEF Permitted

\* Whatever the interleaving, a semaphore of the buffer or of a message queue never has issued
\* more permits than there are slots, or items, that nobody else has been promised.
THEOREM PermitsAreKept == Spec => []Permitted
<1>1. Init => Permitted
  BY PermittedInit
<1>2. Base /\ Permitted /\ [Next]_vars => Permitted'
  <2>1. SUFFICES ASSUME Base, Permitted, [Next]_vars PROVE Permitted'
    OBVIOUS
  <2>2. CASE \E t \in Tasks : Step(t)
    BY <2>1, <2>2, PermittedStep
  <2>3. CASE \E t \in Tasks : TimePasses(t)
    BY <2>1, <2>3, PermittedStill DEF TimePasses, Wake, syncVars
  <2>4. CASE UNCHANGED vars
    BY <2>1, <2>4, PermittedStill DEF vars, kernelVars, syncVars
  <2> QED
    BY <2>1, <2>2, <2>3, <2>4 DEF Next
<1> QED
  BY <1>1, <1>2, TasksAreWhereTheyMayBe, PTL DEF Spec

\* The type invariant: the buffer's index and the queues' lengths stay within 0 .. TAM_BUFFER, so
\* that no slot outside an array is used.
THEOREM TypeCorrect == Spec => []TypeOK
<1>1. Base /\ Permitted => TypeOK
  <2>1. SUFFICES ASSUME Base, Permitted PROVE TypeOK
    OBVIOUS
  <2>2. /\ test \in DOMAIN Programs
        /\ state \in [Tasks -> {"none", "live", "exited"}] /\ sleeping \subseteq Tasks
        /\ called \in [Tasks -> BOOLEAN]
    BY <2>1 DEF Base, Types
  <2>3. \A s \in DOMAIN value : value[s] \in Int /\ waiting[s] \in Seq(Tasks)
    BY <2>1 DEF Base, Types
  <2>4. \A t \in Created \cup {main} : pc[t] \in DOMAIN Program(t)
    <3>1. SUFFICES ASSUME NEW t \in Created \cup {main} PROVE pc[t] \in DOMAIN Program(t)
      OBVIOUS
    <3>2. pc[t] \in 1 .. Len(Program(t))
      BY <2>1 DEF Base, Positions, Existing
    <3>3. \E S : Program(t) \in Seq(S)
      <4>1. WellFormed(Programs[test], Skips(test))
        BY <2>2, Tests
      <4>2. CASE t = main
        <5>1. \E S : Programs[test][1] \in Seq(S)
          BY <4>1, Zenon DEF WellFormed, MainProgram
        <5> QED
          BY <4>2, <5>1 DEF Program, main
      <4>3. CASE t \in Created
        <5>1. Programs[test][t + 1] \in Seq(Body(Skips(test)))
          BY <4>1, <4>3 DEF WellFormed, Created
        <5> QED
          BY <5>1, Zenon DEF Program
      <4> QED
        BY <4>2, <4>3
    <3>4. DOMAIN Program(t) = 1 .. Len(Program(t))
      BY <3>3
    <3> QED
      BY <3>2, <3>4
  <2>5. local \in [Tasks -> Nat] /\ loaded \in [Tasks -> Nat]
    BY <2>1 DEF Permitted, Data
  <2>6. i \in 0 .. TAM_BUFFER /\ \A q \in MessageQueues : queued[q] \in 0 .. TAM_BUFFER
    BY <2>1, Bounds DEF Permitted
  <2> QED
    BY <2>2, <2>3, <2>4, <2>5, <2>6 DEF TypeOK
<1> QED
  BY <1>1, PermitsAreKept, TasksAreWhereTheyMayBe, PTL

------------------------------------------------------------------------------
(* pingpong-prodcons.c *)

\* Its tasks are producers and consumers.
LEMMA ProdconsTasks ==
  ASSUME test = "prodcons"
  PROVE  /\ Created = Producers \cup Consumers /\ Producers \cap Consumers = {}
         /\ \A t \in Producers : IsProdutor(Program(t))
         /\ \A t \in Consumers : IsConsumidor(Program(t))
<1>1. PICK q : q = prodcons /\ q = Programs[test]
  BY TestsByName
<1>2. NUM_PRODUTORES \in Nat /\ NUM_CONSUMIDORES \in Nat
  BY TestAssumption
<1>3. /\ Len(q) = NUM_PRODUTORES + NUM_CONSUMIDORES + 1
      /\ \A t \in 1 .. NUM_PRODUTORES : q[t + 1] = taskProdutor
      /\ \A t \in NUM_PRODUTORES + 1 .. NUM_PRODUTORES + NUM_CONSUMIDORES : q[t + 1] = taskConsumidor
  BY <1>1, ProdconsTest, Zenon
<1>4. Created = 1 .. Len(q) - 1
  BY <1>1 DEF Created
<1>5. Created = Producers \cup Consumers /\ Producers \cap Consumers = {}
  BY <1>2, <1>3, <1>4 DEF Producers, Consumers
<1>6. \A t \in Producers : Program(t) = taskProdutor
  BY <1>1, <1>3 DEF Producers, Program
<1>7. \A t \in Consumers : Program(t) = taskConsumidor
  BY <1>1, <1>3 DEF Consumers, Program
<1> QED
  BY <1>5, <1>6, <1>7, ProdconsPrograms

\* The operations of the statements of its tasks, at index k of a program p and next to it.
ProdutorOps == {"task_sleep", "random", "sem_down", "write", "advance", "sem_up"}
ConsumidorOps == {"sem_down", "first", "shift", "retreat", "sem_up", "task_sleep"}
Neighbours(p, k, n) ==
  /\ p[k].op = "write" <=> p[n].op = "advance"
  /\ p[k].op = "first" <=> p[n].op = "shift"
  /\ p[k].op = "shift" <=> p[n].op = "retreat"

\* These are the statements and what follows them.
LEMMA ProdconsStatements ==
  ASSUME NEW p, IsProdutor(p) \/ IsConsumidor(p), NEW k \in 1 .. 8
  PROVE  /\ IsProdutor(p) => p[k].op \in ProdutorOps
         /\ IsConsumidor(p) => p[k].op \in ConsumidorOps
         /\ Neighbours(p, k, IF k = 8 THEN 1 ELSE k + 1)
<1>1. PICK n : n = IF k = 8 THEN 1 ELSE k + 1
  OBVIOUS
<1>2. CASE IsProdutor(p)
  <2>1. ~IsConsumidor(p)
    BY <1>2 DEF IsProdutor, IsConsumidor
  <2>2. /\ p[1].op = "task_sleep" /\ p[2].op = "random" /\ p[3].op = "sem_down" /\ p[4].op = "sem_down"
        /\ p[5].op = "write" /\ p[6].op = "advance" /\ p[7].op = "sem_up" /\ p[8].op = "sem_up"
    BY <1>2 DEF IsProdutor
  <2>3. \/ (k = 1 /\ n = 2) \/ (k = 2 /\ n = 3) \/ (k = 3 /\ n = 4) \/ (k = 4 /\ n = 5)
        \/ (k = 5 /\ n = 6) \/ (k = 6 /\ n = 7) \/ (k = 7 /\ n = 8) \/ (k = 8 /\ n = 1)
    BY <1>1
  <2>4. p[k].op \in ProdutorOps
    BY <2>2, <2>3 DEF ProdutorOps
  <2>5. Neighbours(p, k, n)
    BY <2>2, <2>3 DEF Neighbours
  <2> QED
    BY <1>1, <2>1, <2>4, <2>5
<1>3. CASE IsConsumidor(p)
  <2>1. ~IsProdutor(p)
    BY <1>3 DEF IsProdutor, IsConsumidor
  <2>2. /\ p[1].op = "sem_down" /\ p[2].op = "sem_down" /\ p[3].op = "first" /\ p[4].op = "shift"
        /\ p[5].op = "retreat" /\ p[6].op = "sem_up" /\ p[7].op = "sem_up" /\ p[8].op = "task_sleep"
    BY <1>3 DEF IsConsumidor
  <2>3. \/ (k = 1 /\ n = 2) \/ (k = 2 /\ n = 3) \/ (k = 3 /\ n = 4) \/ (k = 4 /\ n = 5)
        \/ (k = 5 /\ n = 6) \/ (k = 6 /\ n = 7) \/ (k = 7 /\ n = 8) \/ (k = 8 /\ n = 1)
    BY <1>1
  <2>4. p[k].op \in ConsumidorOps
    BY <2>2, <2>3 DEF ConsumidorOps
  <2>5. Neighbours(p, k, n)
    BY <2>2, <2>3 DEF Neighbours
  <2> QED
    BY <1>1, <2>1, <2>4, <2>5
<1> QED
  BY <1>2, <1>3

\* Where a task of pingpong-prodcons.c is, and where a step leads it.
LEMMA ProdconsMoves ==
  ASSUME Base, test = "prodcons", NEW t \in Created
  PROVE  /\ t \in Producers => Current(t).op \in ProdutorOps
         /\ t \in Consumers => Current(t).op \in ConsumidorOps
         /\ Step(t) => /\ Current(t).op = "write" <=> Current(t)'.op = "advance"
                       /\ Current(t).op = "first" <=> Current(t)'.op = "shift"
                       /\ Current(t).op = "shift" <=> Current(t)'.op = "retreat"
<1>1. PICK p, k : p = Program(t) /\ k = pc[t]
  OBVIOUS
<1>2. /\ IsProdutor(p) \/ IsConsumidor(p)
      /\ t \in Producers => IsProdutor(p)
      /\ t \in Consumers => IsConsumidor(p)
  BY <1>1, ProdconsTasks
<1>3. Len(p) = 8
  BY <1>2 DEF IsProdutor, IsConsumidor
<1>4. k \in 1 .. 8
  BY <1>1, <1>3 DEF Base, Positions, Existing
<1>5. /\ IsProdutor(p) => p[k].op \in ProdutorOps
      /\ IsConsumidor(p) => p[k].op \in ConsumidorOps
      /\ Neighbours(p, k, IF k = 8 THEN 1 ELSE k + 1)
  BY <1>2, <1>4, ProdconsStatements
<1>6. Current(t) = p[k]
  BY <1>1 DEF Current
<1>7. ASSUME Step(t)
      PROVE  /\ Current(t).op = "write" <=> Current(t)'.op = "advance"
             /\ Current(t).op = "first" <=> Current(t)'.op = "shift"
             /\ Current(t).op = "shift" <=> Current(t)'.op = "retreat"
  <2>1. t \in Tasks
    BY DEF Base, Readable
  <2>2. Frame(t) /\ (Stays(t) \/ GoesOn(t))
    BY <1>7, <2>1, StepFrame, StepIsOver
  <2>3. Current(t)' = p[pc'[t]]
    BY <1>1, <2>2 DEF Current, Program, Frame, OthersStay
  <2>4. CASE Stays(t)
    <3>1. Current(t)' = p[k]
      BY <1>1, <2>3, <2>4 DEF Stays
    <3>2. p[k].op \in SuspendOps \cup ExitOps \cup {"exit"}
      BY <1>6, <2>4 DEF Stays, IsSuspended, Ends
    <3> QED
      BY <1>6, <3>1, <3>2 DEF SuspendOps, ExitOps
  <2>5. CASE GoesOn(t)
    <3>1. pc'[t] = IF k = 8 THEN 1 ELSE k + 1
      BY <1>1, <1>3, <2>5 DEF GoesOn
    <3> QED
      BY <1>5, <1>6, <2>3, <3>1 DEF Neighbours
  <2> QED
    BY <2>2, <2>4, <2>5
<1> QED
  BY <1>2, <1>5, <1>6, <1>7

\* One task at a time uses the buffer, which has a slot or an item for it.
LEMMA Exclusive ==
  ASSUME Base, Permitted, test = "prodcons", NEW t \in Created, Current(t).op \in BufferOps
  PROVE  /\ \A u \in Existing : Current(u).op \in BufferOps => u = t
         /\ Current(t).op \in {"write", "advance"} => i \in 0 .. TAM_BUFFER - 1
         /\ Current(t).op \in {"first", "shift", "retreat"} => i \in 1 .. TAM_BUFFER
<1>1. {"sVaga", "sItem", "sBuffer"} \subseteq Permits
  BY DEF Permits, PermitsOf, Lasting
<1>2. Issued("sVaga") + i <= TAM_BUFFER /\ Issued("sItem") <= i /\ Issued("sBuffer") <= 1 /\ NoRepeat
  BY DEF Permitted, Accounts, Balance
<1>3. i \in 0 .. TAM_BUFFER /\ TAM_BUFFER \in Nat
  BY Bounds, TestAssumption DEF Permitted
<1>4. PICK v, n, b : v = Issued("sVaga") /\ n = Issued("sItem") /\ b = Issued("sBuffer")
  OBVIOUS
<1>5. /\ v \in Int /\ n \in Int /\ b \in Int
      /\ "sVaga" \in Held(t) => v >= 1
      /\ "sItem" \in Held(t) => n >= 1
      /\ \A u \in Created : "sBuffer" \in Held(t) /\ "sBuffer" \in Held(u) /\ t # u => b >= 2
  BY <1>1, <1>2, <1>4, HoldersCounted
<1>6. ASSUME NEW u \in Created, Current(u).op \in BufferOps
      PROVE  /\ "sBuffer" \in Held(u)
             /\ Current(u).op \in {"write", "advance"} => "sVaga" \in Held(u)
             /\ Current(u).op \in {"first", "shift", "retreat"} => "sItem" \in Held(u)
  <2>1. PICK r : r = Current(u)
    OBVIOUS
  <2>2. Fits(r, Held(u), Follows(u), Permits)
    BY <2>1, HeldFits
  <2>3. /\ r.op = "advance" => Spent(r, Permits) = {"sVaga"}
        /\ r.op = "retreat" => Spent(r, Permits) = {"sItem"}
    BY DEF Spent
  <2> QED
    BY <1>6, <2>1, <2>2, <2>3 DEF Fits
<1>7. \A u \in Created : Current(u).op \in BufferOps => u = t
  BY <1>2, <1>4, <1>5, <1>6
<1>8. \A u \in Existing : Current(u).op \in BufferOps => u \in Created
  BY MainIsElsewhere DEF Existing
<1> QED
  BY <1>2, <1>3, <1>4, <1>5, <1>6, <1>7, <1>8

\* What has been written and not counted yet.
Placed == test = "prodcons" => \A t \in Created : Current(t).op = "advance" => array[i] = local[t]

\* Every item stays where it has been written until it is counted.
LEMMA PlacedStep ==
  ASSUME Base, Permitted, Placed, NEW t \in Tasks, Step(t)
  PROVE  Placed'
<1>1. Frame(t) /\ t \in Existing /\ OthersStay(t) /\ test' = test
  BY StepFrame DEF Frame, Mover, OthersStay
<1>2. Created' = Created /\ \A u \in Tasks \ {t} : Current(u)' = Current(u)
  BY <1>1, OthersKept
<1>3. SUFFICES ASSUME test = "prodcons", NEW u \in Created, Current(u)'.op = "advance"
               PROVE  array'[i'] = local'[u]
  BY <1>1, <1>2 DEF Placed
<1>4. u \in Tasks /\ u \in Existing
  BY DEF Base, Readable, Existing
<1>5. local \in [Tasks -> Nat] /\ array \in [0 .. TAM_BUFFER - 1 -> Nat]
  BY DEF Permitted, Data
<1>6. CASE u = t
  <2>1. Current(t).op = "write"
    BY <1>3, <1>6, ProdconsMoves
  <2>2. i \in 0 .. TAM_BUFFER - 1
    BY <1>3, <1>6, <2>1, Exclusive DEF BufferOps
  <2>3. array' = [array EXCEPT ![i] = local[t]] /\ local' = local /\ i' = i
    <3>1. ~(CreateTask(t) \/ JoinTask(t) \/ Sleep(t) \/ Down(t) \/ Up(t) \/ Destroy(t) \/ Return(t)
             \/ ExitTask(t) \/ ExitProcess(t) \/ Global(t) \/ Queue(t) \/ Work(t))
      BY <2>1, StepOps DEF ExitOps, SuspendOps
    <3>2. Buffer(t)
      BY <3>1, Zenon DEF Step
    <3> QED
      BY <2>1, <3>2 DEF Buffer, AtStatement
  <2> QED
    BY <1>5, <1>6, <2>2, <2>3
<1>7. CASE u # t
  <2>1. Current(u).op = "advance"
    BY <1>2, <1>3, <1>4, <1>7
  <2>2. Current(t).op \notin BufferOps
    BY <1>1, <1>3, <1>7, <2>1, Exclusive DEF BufferOps
  <2>3. array' = array /\ i' = i
    <3>1. CASE Buffer(t)
      BY <2>2, <3>1 DEF Buffer, AtStatement, BufferOps
    <3>2. CASE ~Buffer(t)
      BY <3>2, DataKept
    <3> QED
      BY <3>1, <3>2
  <2>4. local'[u] = local[u]
    BY <1>4, <1>7, OthersData
  <2> QED
    BY <1>3, <2>1, <2>3, <2>4 DEF Placed
<1> QED
  BY <1>6, <1>7

\* At first nobody is between writing and counting.
LEMMA PlacedInit ==
  ASSUME Init
  PROVE  Placed
<1>1. Base
  BY InitBase
<1>2. SUFFICES ASSUME test = "prodcons", NEW t \in Created PROVE Current(t).op # "advance"
  BY DEF Placed
<1>3. PICK p : p = Program(t)
  OBVIOUS
<1>4. IsProdutor(p) \/ IsConsumidor(p)
  BY <1>2, <1>3, ProdconsTasks
<1>5. p[1].op # "advance"
  BY <1>4 DEF IsProdutor, IsConsumidor
<1>6. pc[t] = 1
  <2>1. t \in Tasks
    BY <1>1 DEF Base, Readable
  <2> QED
    BY <2>1 DEF Init
<1> QED
  BY <1>3, <1>5, <1>6 DEF Current

\* Where a task is about to count an item it has written, the item is there.
THEOREM ItemsArePlaced == Spec => []Placed
<1>1. Init => Placed
  BY PlacedInit
<1>2. Base /\ Permitted /\ Placed /\ [Next]_vars => Placed'
  <2>1. SUFFICES ASSUME Base, Permitted, Placed, [Next]_vars PROVE Placed'
    OBVIOUS
  <2>2. CASE \E t \in Tasks : Step(t)
    BY <2>1, <2>2, PlacedStep
  <2>3. CASE UNCHANGED <<test, pc, local, array, i>>
    <3>1. Created' = Created /\ \A t : Current(t)' = Current(t)
      BY <2>3 DEF Created, Current, Program
    <3> QED
      BY <2>1, <2>3, <3>1 DEF Placed
  <2>4. CASE \E t \in Tasks : TimePasses(t)
    BY <2>3, <2>4 DEF TimePasses, dataVars
  <2>5. CASE UNCHANGED vars
    BY <2>3, <2>5 DEF vars, dataVars
  <2> QED
    BY <2>1, <2>2, <2>4, <2>5 DEF Next
<1> QED
  BY <1>1, <1>2, TasksAreWhereTheyMayBe, PermitsAreKept, PTL DEF Spec

------------------------------------------------------------------------------
(* The buffer as a queue *)

\* q is the m numbers that the array a has from slot d on.
Shows(q, a, m, d) == q \in Seq(Nat) /\ Len(q) = m /\ \A j \in 1 .. m : q[j] = a[j - 1 + d]

\* Contents, of an array a of which n slots are used, while an item is shifted out of it (sh)
\* and while the slot it has left is not counted off yet (re).
Shown(a, n, sh, re) ==
  LET Slots(from, to) == SubSeq([k \in 1 .. TAM_BUFFER |-> a[k - 1]], from, to)
  IN  CASE sh -> Slots(2, n) [] re -> Slots(1, n - 1) [] OTHER -> Slots(1, n)

\* A part of the array.
LEMMA SlotsShow ==
  ASSUME NEW a \in [0 .. TAM_BUFFER - 1 -> Nat], NEW m \in 1 .. TAM_BUFFER + 1,
         NEW n \in 0 .. TAM_BUFFER, m <= n + 1
  PROVE  Shows(SubSeq([k \in 1 .. TAM_BUFFER |-> a[k - 1]], m, n), a, n + 1 - m, m - 1)
<1>1. TAM_BUFFER \in Nat
  BY TestAssumption
<1>2. PICK s : s = [k \in 1 .. TAM_BUFFER |-> a[k - 1]]
  OBVIOUS
<1>3. \A k \in m .. n : s[k] = a[k - 1] /\ s[k] \in Nat
  BY <1>1, <1>2
<1>4. PICK q : q = SubSeq(s, m, n)
  OBVIOUS
<1>5. m \in Int /\ n \in Int
  BY <1>1
<1>6. /\ q \in Seq(Nat)
      /\ Len(q) = IF m <= n THEN n - m + 1 ELSE 0
      /\ \A k \in 1 .. n - m + 1 : q[k] = s[m + k - 1]
  BY <1>3, <1>4, <1>5, SubSeqProperties
<1>7. Len(q) = n + 1 - m
  BY <1>1, <1>6
<1>8. ASSUME NEW j \in 1 .. n + 1 - m PROVE q[j] = a[j - 1 + (m - 1)]
  <2>1. q[j] = s[m + j - 1] /\ m + j - 1 \in m .. n
    BY <1>1, <1>6
  <2>2. s[m + j - 1] = a[(m + j - 1) - 1]
    BY <1>3, <2>1
  <2>3. (m + j - 1) - 1 = j - 1 + (m - 1)
    BY <1>1
  <2> QED
    BY <2>1, <2>2, <2>3
<1> QED
  BY <1>2, <1>4, <1>6, <1>7, <1>8 DEF Shows

\* What Contents shows, in each of its cases.
LEMMA ShownIs ==
  ASSUME NEW a \in [0 .. TAM_BUFFER - 1 -> Nat], NEW n \in 0 .. TAM_BUFFER,
         NEW sh \in BOOLEAN, NEW re \in BOOLEAN, ~(sh /\ re), sh \/ re => n # 0
  PROVE  Shows(Shown(a, n, sh, re), a, IF sh \/ re THEN n - 1 ELSE n, IF sh THEN 1 ELSE 0)
<1>1. TAM_BUFFER \in Nat
  BY TestAssumption
<1>2. CASE sh
  <2>1. Shown(a, n, sh, re) = SubSeq([k \in 1 .. TAM_BUFFER |-> a[k - 1]], 2, n)
    BY <1>2 DEF Shown
  <2>2. 2 \in 1 .. TAM_BUFFER + 1 /\ 2 <= n + 1 /\ n + 1 - 2 = n - 1 /\ 2 - 1 = 1
    BY <1>1, <1>2
  <2> QED
    BY <1>2, <2>1, <2>2, SlotsShow
<1>3. CASE re
  <2>1. Shown(a, n, sh, re) = SubSeq([k \in 1 .. TAM_BUFFER |-> a[k - 1]], 1, n - 1)
    BY <1>3 DEF Shown
  <2>2. 1 \in 1 .. TAM_BUFFER + 1 /\ n - 1 \in 0 .. TAM_BUFFER /\ 1 <= (n - 1) + 1 /\ (n - 1) + 1 - 1 = n - 1
        /\ 1 - 1 = 0
    BY <1>1, <1>3
  <2> QED
    BY <1>3, <2>1, <2>2, SlotsShow
<1>4. CASE ~sh /\ ~re
  <2>1. Shown(a, n, sh, re) = SubSeq([k \in 1 .. TAM_BUFFER |-> a[k - 1]], 1, n)
    BY <1>4 DEF Shown
  <2>2. 1 \in 1 .. TAM_BUFFER + 1 /\ 1 <= n + 1 /\ n + 1 - 1 = n /\ 1 - 1 = 0
    BY <1>1
  <2> QED
    BY <1>4, <2>1, <2>2, SlotsShow
<1> QED
  BY <1>2, <1>3, <1>4

\* The same numbers make the same queue.
LEMMA ShowsSame ==
  ASSUME NEW q, NEW r, NEW a, NEW b, NEW m, NEW d, NEW e, Shows(q, a, m, d), Shows(r, b, m, e),
         \A j \in 1 .. m : b[j - 1 + e] = a[j - 1 + d]
  PROVE  r = q
<1>1. q \in Seq(Nat) /\ r \in Seq(Nat) /\ Len(r) = Len(q) /\ \A j \in 1 .. Len(r) : r[j] = q[j]
  BY DEF Shows
<1> QED
  BY <1>1, SeqEqual, Zenon

\* One more number at the end.
LEMMA ShowsMore ==
  ASSUME NEW q, NEW r, NEW a, NEW m \in Nat, Shows(q, a, m, 0), Shows(r, a, m + 1, 0)
  PROVE  r = Append(q, a[m])
<1>1. PICK x : x = a[m]
  OBVIOUS
<1>2. q \in Seq(Nat) /\ r \in Seq(Nat) /\ Len(q) = m /\ Len(r) = m + 1
  BY DEF Shows
<1>3. r[m + 1] = x
  BY <1>1 DEF Shows
<1>4. x \in Nat
  BY <1>2, <1>3, ElementOfSeq
<1>5. PICK p : p = Append(q, x)
  OBVIOUS
<1>6. /\ p \in Seq(Nat) /\ Len(p) = Len(q) + 1
      /\ \A j \in 1 .. Len(q) : p[j] = q[j]
      /\ p[Len(q) + 1] = x
  BY <1>2, <1>4, <1>5, AppendProperties
<1>7. \A j \in 1 .. m : q[j] = r[j]
  <2>1. SUFFICES ASSUME NEW j \in 1 .. m PROVE q[j] = r[j]
    OBVIOUS
  <2>2. j \in 1 .. m + 1
    OBVIOUS
  <2>3. q[j] = a[j - 1 + 0] /\ r[j] = a[j - 1 + 0]
    BY <2>2, Zenon DEF Shows
  <2> QED
    BY <2>3
<1>8. \A j \in 1 .. Len(r) : r[j] = p[j]
  BY <1>2, <1>3, <1>6, <1>7
<1> QED
  BY <1>1, <1>2, <1>5, <1>6, <1>8, SeqEqual

\* One number less at the front.
LEMMA ShowsLess ==
  ASSUME NEW q, NEW r, NEW a, NEW m \in Nat \ {0}, Shows(q, a, m, 0), Shows(r, a, m - 1, 1)
  PROVE  q # <<>> /\ Head(q) = a[0] /\ r = Tail(q)
<1>1. q \in Seq(Nat) /\ r \in Seq(Nat) /\ Len(q) = m /\ Len(r) = m - 1
  BY DEF Shows
<1>2. q # <<>>
  BY <1>1
<1>3. Head(q) = a[0]
  <2>1. Head(q) = q[1]
    BY <1>1, <1>2
  <2>2. q[1] = a[0]
    BY DEF Shows
  <2> QED
    BY <2>1, <2>2
<1>4. PICK p : p = Tail(q)
  OBVIOUS
<1>5. p \in Seq(Nat) /\ Len(p) = Len(q) - 1 /\ \A j \in 1 .. Len(p) : p[j] = q[j + 1]
  BY <1>1, <1>2, <1>4, HeadTailProperties
<1>6. \A j \in 1 .. m - 1 : q[j + 1] = a[j] /\ r[j] = a[j]
  <2>1. SUFFICES ASSUME NEW j \in 1 .. m - 1 PROVE q[j + 1] = a[j] /\ r[j] = a[j]
    OBVIOUS
  <2>2. j + 1 \in 1 .. m /\ (j + 1) - 1 + 0 = j /\ j - 1 + 1 = j
    OBVIOUS
  <2>3. q[j + 1] = a[(j + 1) - 1 + 0] /\ r[j] = a[j - 1 + 1]
    BY <2>2, Zenon DEF Shows
  <2> QED
    BY <2>2, <2>3
<1>7. \A j \in 1 .. Len(r) : r[j] = p[j]
  BY <1>1, <1>5, <1>6
<1> QED
  BY <1>1, <1>2, <1>3, <1>4, <1>5, <1>7, SeqEqual

------------------------------------------------------------------------------
(* The steps of pingpong-prodcons.c as steps of the queue *)

\* A consumer is at a statement, as Contents asks.
AtOp(op) == \E c \in Consumers \cap Created : test = "prodcons" /\ Current(c).op = op

\* What the tasks have in hand, as FIFO sees it.
InHand == [t \in Producers \cup Consumers |-> IF test = "prodcons" THEN local[t] ELSE 0]

\* Contents in terms of constant operators, before and after a step.
LEMMA ContentsShown ==
  /\ Contents = Shown(array, i, AtOp("shift"), AtOp("retreat"))
  /\ Contents' = Shown(array', i', AtOp("shift")', AtOp("retreat")')
BY DEF Contents, Shown, AtOp

\* Which consumers are in bufferRetrieve, from the statement of the one task at the buffer.
LEMMA AtTheBuffer ==
  ASSUME Base, Permitted, test = "prodcons", NEW t \in Created, Step(t), Current(t).op \in BufferOps
  PROVE  /\ \A op \in {"shift", "retreat"} : AtOp(op) <=> Current(t).op = op
         /\ AtOp("shift")' <=> Current(t).op = "first"
         /\ AtOp("retreat")' <=> Current(t).op = "shift"
<1>1. /\ Created = Producers \cup Consumers /\ Producers \cap Consumers = {}
      /\ Created \subseteq Tasks /\ Created \subseteq Existing
  BY ProdconsTasks DEF Base, Readable, Existing
<1>2. /\ t \in Existing /\ test' = test /\ Created' = Created
      /\ \A u \in Tasks \ {t} : Current(u)' = Current(u)
  BY <1>1, StepFrame, OthersKept DEF Frame, Mover, OthersStay
<1>3. Current(t).op \in {"first", "shift", "retreat"} => t \in Consumers
  BY <1>1, ProdconsMoves DEF ProdutorOps
<1>4. \A u \in Consumers : Current(u).op \in BufferOps => u = t
  BY <1>1, Exclusive
<1>5. Consumers' = Consumers
  BY DEF Consumers
<1>6. \A op \in {"shift", "retreat"} : AtOp(op) <=> Current(t).op = op
  BY <1>1, <1>3, <1>4 DEF AtOp, BufferOps
<1>7. /\ Current(t).op = "first" <=> Current(t)'.op = "shift"
      /\ Current(t).op = "shift" <=> Current(t)'.op = "retreat"
  BY <1>1, ProdconsMoves
<1>8. \A u \in Consumers \ {t} : Current(u)'.op \notin {"shift", "retreat"}
  BY <1>1, <1>2, <1>4 DEF BufferOps
<1>9. AtOp("shift")' <=> Current(t).op = "first"
  BY <1>1, <1>2, <1>3, <1>5, <1>7, <1>8 DEF AtOp
<1>10. AtOp("retreat")' <=> Current(t).op = "shift"
  BY <1>1, <1>2, <1>3, <1>5, <1>7, <1>8 DEF AtOp
<1> QED
  BY <1>6, <1>9, <1>10

\* Elsewhere a step changes nothing of the buffer.
LEMMA AwayFromTheBuffer ==
  ASSUME Base, Permitted, test = "prodcons", NEW t \in Tasks, Step(t), Current(t).op \notin BufferOps
  PROVE  /\ array' = array /\ i' = i
         /\ AtOp("shift")' = AtOp("shift") /\ AtOp("retreat")' = AtOp("retreat")
<1>1. Created \subseteq Tasks
  BY DEF Base, Readable
<1>2. /\ t \in Existing /\ test' = test /\ Created' = Created
      /\ \A u \in Tasks \ {t} : Current(u)' = Current(u)
  BY StepFrame, OthersKept DEF Frame, Mover, OthersStay
<1>3. Consumers' = Consumers
  BY DEF Consumers
<1>4. array' = array /\ i' = i
  <2>1. CASE Buffer(t)
    BY <2>1 DEF Buffer, AtStatement, BufferOps
  <2> QED
    BY <2>1, DataKept
<1>5. t \in Created =>
        /\ Current(t).op \notin {"shift", "retreat"}
        /\ Current(t)'.op \notin {"shift", "retreat"}
  BY ProdconsMoves DEF BufferOps
<1>6. \A u \in Created, op \in {"shift", "retreat"} : Current(u)'.op = op <=> Current(u).op = op
  BY <1>1, <1>2, <1>5
<1>7. AtOp("shift")' = AtOp("shift")
  BY <1>2, <1>3, <1>6 DEF AtOp
<1>8. AtOp("retreat")' = AtOp("retreat")
  BY <1>2, <1>3, <1>6 DEF AtOp
<1> QED
  BY <1>4, <1>7, <1>8

\* The queue before and after a statement of the buffer.
LEMMA QueueAround ==
  ASSUME Base, Permitted, Permitted', test = "prodcons", NEW t \in Created, Step(t), NEW op,
         Current(t).op = op, op \in BufferOps
  PROVE  /\ Shows(Contents, array,
                  IF op \in {"shift", "retreat"} THEN i - 1 ELSE i, IF op = "shift" THEN 1 ELSE 0)
         /\ Shows(Contents', array',
                  IF op \in {"first", "shift"} THEN i' - 1 ELSE i', IF op = "first" THEN 1 ELSE 0)
         /\ i' = i + (IF op = "advance" THEN 1 ELSE 0) - (IF op = "retreat" THEN 1 ELSE 0)
         /\ op \in {"write", "advance"} => i \in 0 .. TAM_BUFFER - 1
         /\ op \in {"first", "shift", "retreat"} => i \in 1 .. TAM_BUFFER
<1>1. t \in Tasks
  BY DEF Base, Readable
<1>2. /\ op \in {"write", "advance"} => i \in 0 .. TAM_BUFFER - 1
      /\ op \in {"first", "shift", "retreat"} => i \in 1 .. TAM_BUFFER
  BY Exclusive
<1>3. i' = i + (IF op = "advance" THEN 1 ELSE 0) - (IF op = "retreat" THEN 1 ELSE 0)
  BY <1>1, CountsStep DEF Permitted
<1>4. TAM_BUFFER \in Nat /\ i \in 0 .. TAM_BUFFER
  BY TestAssumption, Bounds DEF Permitted
<1>5. i' \in 0 .. TAM_BUFFER
  BY <1>2, <1>3, <1>4 DEF BufferOps
<1>6. array \in [0 .. TAM_BUFFER - 1 -> Nat] /\ array' \in [0 .. TAM_BUFFER - 1 -> Nat]
  BY DEF Permitted, Data
<1>7. PICK sh, re, sh1, re1 : /\ sh = AtOp("shift") /\ re = AtOp("retreat")
                              /\ sh1 = AtOp("shift")' /\ re1 = AtOp("retreat")'
  OBVIOUS
<1>8. /\ sh \in BOOLEAN /\ re \in BOOLEAN /\ sh1 \in BOOLEAN /\ re1 \in BOOLEAN
      /\ (sh <=> op = "shift") /\ (re <=> op = "retreat")
      /\ (sh1 <=> op = "first") /\ (re1 <=> op = "shift")
  <2>1. /\ sh \in BOOLEAN /\ re \in BOOLEAN /\ sh1 \in BOOLEAN /\ re1 \in BOOLEAN
    BY <1>7, Zenon DEF AtOp
  <2>2. /\ (sh <=> op = "shift") /\ (re <=> op = "retreat")
        /\ (sh1 <=> op = "first") /\ (re1 <=> op = "shift")
    BY <1>7, AtTheBuffer
  <2> QED
    BY <2>1, <2>2
<1>9. Shows(Contents, array, IF sh \/ re THEN i - 1 ELSE i, IF sh THEN 1 ELSE 0)
  <2>1. ~(sh /\ re) /\ (sh \/ re => i # 0)
    BY <1>2, <1>8
  <2>2. Shows(Shown(array, i, sh, re), array, IF sh \/ re THEN i - 1 ELSE i, IF sh THEN 1 ELSE 0)
    BY <1>4, <1>6, <1>8, <2>1, ShownIs
  <2> QED
    BY <1>7, <2>2, ContentsShown
<1>10. Shows(Contents', array', IF sh1 \/ re1 THEN i' - 1 ELSE i', IF sh1 THEN 1 ELSE 0)
  <2>1. ~(sh1 /\ re1) /\ (sh1 \/ re1 => i' # 0)
    BY <1>2, <1>3, <1>4, <1>8
  <2>2. Shows(Shown(array', i', sh1, re1), array', IF sh1 \/ re1 THEN i' - 1 ELSE i', IF sh1 THEN 1 ELSE 0)
    BY <1>5, <1>6, <1>8, <2>1, ShownIs
  <2> QED
    BY <1>7, <2>2, ContentsShown
<1> QED
  BY <1>2, <1>3, <1>8, <1>9, <1>10

\* A statement of the buffer is a step of the queue, or none.
LEMMA BufferStep ==
  ASSUME Base, Permitted, Permitted', Placed, test = "prodcons", NEW t \in Created, Step(t),
         Current(t).op \in BufferOps
  PROVE  \/ t \in Producers /\ FIFO!Place(t)
         \/ t \in Consumers /\ FIFO!Retrieve(t)
         \/ Contents' = Contents /\ InHand' = InHand
<1>1. PICK op : op = Current(t).op
  OBVIOUS
<1>2. /\ Shows(Contents, array,
               IF op \in {"shift", "retreat"} THEN i - 1 ELSE i, IF op = "shift" THEN 1 ELSE 0)
      /\ Shows(Contents', array',
               IF op \in {"first", "shift"} THEN i' - 1 ELSE i', IF op = "first" THEN 1 ELSE 0)
      /\ i' = i + (IF op = "advance" THEN 1 ELSE 0) - (IF op = "retreat" THEN 1 ELSE 0)
      /\ op \in {"write", "advance"} => i \in 0 .. TAM_BUFFER - 1
      /\ op \in {"first", "shift", "retreat"} => i \in 1 .. TAM_BUFFER
  BY <1>1, QueueAround
<1>3. /\ t \in Tasks /\ t \in Existing /\ TAM_BUFFER \in Nat /\ i \in Int
      /\ local \in [Tasks -> Nat] /\ array \in [0 .. TAM_BUFFER - 1 -> Nat]
      /\ Producers \cup Consumers = Created /\ Created \subseteq Tasks
  BY ProdconsTasks, TestAssumption DEF Base, Readable, Existing, Permitted, Data
<1>4. test' = test
  BY <1>3, StepFrame DEF Frame, OthersStay
<1>5. /\ op = "write" => array' = [array EXCEPT ![i] = local[t]] /\ local' = local
      /\ op = "advance" => array' = array /\ local' = local
      /\ op = "first" => array' = array /\ local' = [local EXCEPT ![t] = array[0]]
      /\ op = "shift" => /\ array' = [n \in DOMAIN array |-> IF n + 1 < i THEN array[n + 1] ELSE array[n]]
                         /\ local' = local
      /\ op = "retreat" => array' = array /\ local' = local
  <2>1. ~(CreateTask(t) \/ JoinTask(t) \/ Sleep(t) \/ Down(t) \/ Up(t) \/ Destroy(t) \/ Return(t)
           \/ ExitTask(t) \/ ExitProcess(t) \/ Global(t) \/ Queue(t) \/ Work(t))
    BY <1>1, <1>3, StepOps DEF ExitOps, SuspendOps, BufferOps
  <2>2. Buffer(t)
    BY <2>1, Zenon DEF Step
  <2> QED
    BY <1>1, <2>2 DEF Buffer, AtStatement
<1>6. /\ InHand = [u \in Producers \cup Consumers |-> local[u]]
      /\ InHand' = [u \in Producers \cup Consumers |-> local'[u]]
  BY <1>4 DEF InHand, Producers, Consumers
<1>7. /\ op \in {"write", "advance"} => t \in Producers
      /\ op \in {"first", "shift", "retreat"} => t \in Consumers
  BY <1>1, <1>3, ProdconsMoves DEF ProdutorOps, ConsumidorOps
<1>8. CASE op = "write"
  <2>1. Shows(Contents, array, i, 0) /\ Shows(Contents', array', i, 0)
    BY <1>2, <1>3, <1>8
  <2>2. \A j \in 1 .. i : array'[j - 1 + 0] = array[j - 1 + 0]
    <3>1. SUFFICES ASSUME NEW j \in 1 .. i PROVE array'[j - 1 + 0] = array[j - 1 + 0]
      OBVIOUS
    <3>2. j - 1 + 0 \in 0 .. TAM_BUFFER - 1 /\ j - 1 + 0 # i
      BY <1>2, <1>3, <1>8
    <3> QED
      BY <1>3, <1>5, <1>8, <3>2
  <2>3. Contents' = Contents
    BY <2>1, <2>2, ShowsSame
  <2>4. InHand' = InHand
    BY <1>5, <1>6, <1>8
  <2> QED
    BY <2>3, <2>4
<1>9. CASE op = "advance"
  <2>1. Shows(Contents, array, i, 0) /\ Shows(Contents', array, i + 1, 0) /\ i \in Nat /\ i < TAM_BUFFER
    BY <1>2, <1>3, <1>5, <1>9
  <2>2. Contents' = Append(Contents, array[i])
    BY <2>1, ShowsMore
  <2>3. array[i] = local[t] /\ local[t] = InHand[t]
    BY <1>1, <1>6, <1>7, <1>9 DEF Placed
  <2>4. Len(Contents) < TAM_BUFFER
    BY <2>1 DEF Shows
  <2>5. InHand' = InHand
    BY <1>5, <1>6, <1>9
  <2>6. FIFO!Place(t)
    BY <2>2, <2>3, <2>4, <2>5 DEF FIFO!Place, InHand
  <2> QED
    BY <1>7, <1>9, <2>6
<1>10. CASE op = "first"
  <2>1. Shows(Contents, array, i, 0) /\ Shows(Contents', array, i - 1, 1) /\ i \in Nat \ {0}
    BY <1>2, <1>3, <1>5, <1>10
  <2>2. Contents # <<>> /\ Head(Contents) = array[0] /\ Contents' = Tail(Contents)
    BY <2>1, ShowsLess
  <2>3. InHand' = [InHand EXCEPT ![t] = array[0]]
    BY <1>3, <1>5, <1>6, <1>10
  <2>4. FIFO!Retrieve(t)
    BY <2>2, <2>3 DEF FIFO!Retrieve, InHand
  <2> QED
    BY <1>7, <1>10, <2>4
<1>11. CASE op = "shift"
  <2>1. Shows(Contents, array, i - 1, 1) /\ Shows(Contents', array', i - 1, 0)
    BY <1>2, <1>3, <1>11
  <2>2. \A j \in 1 .. i - 1 : array'[j - 1 + 0] = array[j - 1 + 1]
    <3>1. SUFFICES ASSUME NEW j \in 1 .. i - 1 PROVE array'[j - 1 + 0] = array[j - 1 + 1]
      OBVIOUS
    <3>2. PICK k : k = j - 1 + 0
      OBVIOUS
    <3>3. k \in 0 .. TAM_BUFFER - 1 /\ k + 1 < i /\ k + 1 = j - 1 + 1
      BY <1>2, <1>3, <1>11, <3>2
    <3>4. k \in DOMAIN array
      BY <1>3, <3>3
    <3>5. array'[k] = array[k + 1]
      BY <1>5, <1>11, <3>3, <3>4
    <3> QED
      BY <3>2, <3>3, <3>5
  <2>3. Contents' = Contents
    BY <2>1, <2>2, ShowsSame
  <2>4. InHand' = InHand
    BY <1>5, <1>6, <1>11
  <2> QED
    BY <2>3, <2>4
<1>12. CASE op = "retreat"
  <2>1. Shows(Contents, array, i - 1, 0) /\ Shows(Contents', array, i - 1, 0)
    BY <1>2, <1>3, <1>5, <1>12
  <2>2. Contents' = Contents
    BY <2>1, ShowsSame
  <2>3. InHand' = InHand
    BY <1>5, <1>6, <1>12
  <2> QED
    BY <2>2, <2>3
<1> QED
  BY <1>1, <1>8, <1>9, <1>10, <1>11, <1>12 DEF BufferOps

\* Another statement is a producer's choice of an item, or no step of the queue.
LEMMA OtherStep ==
  ASSUME Base, Permitted, test = "prodcons", NEW t \in Tasks, Step(t), Current(t).op \notin BufferOps
  PROVE  (t \in Producers /\ FIFO!Choose(t)) \/ (Contents' = Contents /\ InHand' = InHand)
<1>1. PICK op : op = Current(t).op /\ t \in Existing /\ test' = test
  BY StepFrame DEF Frame, Mover, OthersStay
<1>2. Contents' = Contents
  BY AwayFromTheBuffer, ContentsShown
<1>3. /\ InHand = [u \in Producers \cup Consumers |-> local[u]]
      /\ InHand' = [u \in Producers \cup Consumers |-> local'[u]]
  BY <1>1 DEF InHand, Producers, Consumers
<1>4. /\ Producers \cup Consumers = Created /\ Created \subseteq Tasks
      /\ local \in [Tasks -> Nat]
  BY ProdconsTasks DEF Base, Readable, Permitted, Data
<1>5. \A u \in Tasks \ {t} : local'[u] = local[u]
  BY OthersData
<1>6. CASE t \notin Created
  BY <1>2, <1>3, <1>4, <1>5, <1>6
<1>7. CASE t \in Created /\ op = "random"
  <2>1. t \in Producers
    BY <1>1, <1>4, <1>7, ProdconsMoves DEF ConsumidorOps
  <2>2. Buffer(t)
    <3>1. ~(CreateTask(t) \/ JoinTask(t) \/ Sleep(t) \/ Down(t) \/ Up(t) \/ Destroy(t) \/ Return(t)
             \/ ExitTask(t) \/ ExitProcess(t) \/ Global(t) \/ Queue(t) \/ Work(t))
      BY <1>1, <1>7, StepOps DEF ExitOps, SuspendOps
    <3> QED
      BY <3>1, Zenon DEF Step
  <2>3. PICK v \in Items : local' = [local EXCEPT ![t] = v]
    BY <1>1, <1>7, <2>2 DEF Buffer, AtStatement
  <2>4. InHand' = [InHand EXCEPT ![t] = v]
    BY <1>3, <1>4, <2>3
  <2>5. FIFO!Choose(t)
    BY <1>2, <2>4 DEF FIFO!Choose, InHand
  <2> QED
    BY <2>1, <2>5
<1>8. CASE t \in Created /\ op # "random"
  <2>1. op \in ProdutorOps \cup ConsumidorOps
    BY <1>1, <1>4, <1>8, ProdconsMoves
  <2>2. ~Buffer(t) /\ ~Global(t)
    BY <1>1, <1>8, <2>1, StepOps DEF BufferOps, ProdutorOps, ConsumidorOps
  <2>3. local' = local
    BY <2>2, DataKept
  <2> QED
    BY <1>2, <1>3, <2>3
<1> QED
  BY <1>6, <1>7, <1>8

\* An empty buffer is an empty queue.
LEMMA EmptyShown ==
  ASSUME NEW a
  PROVE  Shown(a, 0, FALSE, FALSE) = <<>>
<1>1. Shown(a, 0, FALSE, FALSE) = SubSeq([k \in 1 .. TAM_BUFFER |-> a[k - 1]], 1, 0)
  BY DEF Shown
<1>2. 1 \in Int /\ 0 \in Int /\ 0 < 1
  OBVIOUS
<1> QED
  BY <1>1, <1>2, SubSeqEmpty

\* In the other tests the buffer stays empty.
LEMMA NoBuffer ==
  ASSUME Base, Permitted, Permitted', test # "prodcons", test' = test
  PROVE  Contents' = Contents /\ InHand' = InHand
<1>1. i = 0 /\ i' = 0
  BY DEF Permitted, Accounts
<1>2. ~AtOp("shift") /\ ~AtOp("retreat") /\ ~AtOp("shift")' /\ ~AtOp("retreat")'
  BY DEF AtOp
<1>3. Contents = Shown(array, 0, FALSE, FALSE) /\ Contents' = Shown(array', 0, FALSE, FALSE)
  <2>1. /\ AtOp("shift") = FALSE /\ AtOp("retreat") = FALSE
        /\ AtOp("shift")' = FALSE /\ AtOp("retreat")' = FALSE
    BY <1>2, Zenon DEF AtOp
  <2> QED
    BY <1>1, <2>1, ContentsShown
<1>4. Contents' = Contents
  BY <1>3, EmptyShown
<1>5. InHand' = InHand
  BY DEF InHand, Producers, Consumers
<1> QED
  BY <1>4, <1>5

\* pingpong-prodcons.c: whatever the interleaving of its producers and consumers, the buffer is a
\* bounded queue: no item is lost, repeated, overwritten or taken out of order.
THEOREM BufferIsFIFO == Spec => ImplementsFIFO
<1>1. Init => FIFO!Init
  <2>1. SUFFICES ASSUME Init PROVE FIFO!Init
    OBVIOUS
  <2>2. Base /\ Permitted
    BY <2>1, InitBase, PermittedInit
  <2>3. i = 0
    BY <2>1 DEF Init
  <2>4. ~AtOp("shift") /\ ~AtOp("retreat")
    <3>1. SUFFICES ASSUME test = "prodcons", NEW c \in Consumers \cap Created
                   PROVE  Current(c).op \notin {"shift", "retreat"}
      BY DEF AtOp
    <3>2. PICK p : p = Program(c) /\ IsConsumidor(p)
      BY <3>1, ProdconsTasks
    <3>3. p[1].op = "sem_down"
      BY <3>2 DEF IsConsumidor
    <3>4. c \in Tasks
      BY <2>2 DEF Base, Readable
    <3>5. Current(c) = p[1]
      BY <2>1, <3>2, <3>4 DEF Init, Current
    <3> QED
      BY <3>3, <3>5
  <2>5. Contents = <<>>
    <3>1. AtOp("shift") = FALSE /\ AtOp("retreat") = FALSE
      BY <2>4, Zenon DEF AtOp
    <3>2. Contents = Shown(array, 0, FALSE, FALSE)
      BY <2>3, <3>1, ContentsShown
    <3> QED
      BY <3>2, EmptyShown
  <2>6. InHand = [t \in Producers \cup Consumers |-> 0]
    <3>1. test = "prodcons" => \A t \in Producers \cup Consumers : local[t] = 0
      <4>1. test = "prodcons" => Producers \cup Consumers \subseteq Tasks
        BY <2>2, ProdconsTasks DEF Base, Readable
      <4> QED
        BY <2>1, <4>1 DEF Init
    <3> QED
      BY <3>1 DEF InHand
  <2> QED
    BY <2>5, <2>6 DEF FIFO!Init, InHand
<1>2. Base /\ Permitted /\ Permitted' /\ Placed /\ [Next]_vars => [FIFO!Next]_(FIFO!vars)
  <2>1. SUFFICES ASSUME Base, Permitted, Permitted', Placed, [Next]_vars
                 PROVE  FIFO!Next \/ (Contents' = Contents /\ InHand' = InHand)
    BY DEF FIFO!vars, InHand
  <2>2. ASSUME NEW t \in Tasks, Step(t)
        PROVE  FIFO!Next \/ (Contents' = Contents /\ InHand' = InHand)
    <3>1. t \in Existing /\ test' = test
      BY <2>1, <2>2, StepFrame DEF Frame, Mover, OthersStay
    <3>2. CASE test # "prodcons"
      BY <2>1, <3>1, <3>2, NoBuffer
    <3>3. CASE test = "prodcons" /\ Current(t).op \in BufferOps
      <4>1. t \in Created
        BY <2>1, <3>1, <3>3, MainIsElsewhere DEF Existing
      <4> QED
        BY <2>1, <2>2, <3>3, <4>1, BufferStep, Zenon DEF FIFO!Next
    <3>4. CASE test = "prodcons" /\ Current(t).op \notin BufferOps
      BY <2>1, <2>2, <3>4, OtherStep, Zenon DEF FIFO!Next
    <3> QED
      BY <3>2, <3>3, <3>4
  <2>3. CASE UNCHANGED <<test, pc, local, array, i>>
    <3>1. AtOp("shift")' = AtOp("shift") /\ AtOp("retreat")' = AtOp("retreat")
      BY <2>3 DEF AtOp, Consumers, Created, Current, Program
    <3>2. Contents' = Contents
      BY <2>3, <3>1, ContentsShown
    <3>3. InHand' = InHand
      BY <2>3 DEF InHand, Producers, Consumers
    <3> QED
      BY <3>2, <3>3
  <2>4. CASE \E t \in Tasks : TimePasses(t)
    BY <2>3, <2>4 DEF TimePasses, dataVars
  <2>5. CASE UNCHANGED vars
    BY <2>3, <2>5 DEF vars, dataVars
  <2> QED
    BY <2>1, <2>2, <2>4, <2>5 DEF Next
<1>3. FIFO!Init /\ [][FIFO!Next]_(FIFO!vars) => ImplementsFIFO
  BY DEF ImplementsFIFO, FIFO!Spec
<1> QED
  BY <1>1, <1>2, <1>3, TasksAreWhereTheyMayBe, PermitsAreKept, ItemsArePlaced, PTL DEF Spec

=============================================================================
